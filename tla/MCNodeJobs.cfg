CONSTANTS
  NoJob = NoJob
  Jobs = {j1, j2}
  Workers = {w1, w2}
  VerdictJobs = {j1}
  MaxRestarts = 1
SPECIFICATION FairSpec
INVARIANTS NoStrayProcess OneHolder CancelledOnRequest OkMeansExit0
PROPERTIES EveryJobEnds AnnouncedIsFinal
CHECK_DEADLOCK FALSE
