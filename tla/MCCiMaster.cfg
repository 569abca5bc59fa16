CONSTANTS
  Workers = {"w1"}
  Branches = {"dev", "main"}
  VariantsOf <- MCVariantsOf
  BranchOf <- MCBranchOf
  MaxCommits = 2
  MaxFaults = 2
SPECIFICATION FairSpec
INVARIANTS ResultFits MasterDies
PROPERTIES VariantsBuilt
CHECK_DEADLOCK FALSE
