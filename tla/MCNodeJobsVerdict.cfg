CONSTANTS
  NoJob = NoJob
  Jobs = {j1}
  Workers = {w1}
  VerdictJobs = {j1}
  MaxRestarts = 0
SPECIFICATION Spec
INVARIANTS VerdictAgrees
CHECK_DEADLOCK FALSE
