CONSTANTS
  Files = {"src", "new", "asset"}
  Contents = {"s0", "s1", "n", "a", "w"}
  LfsFiles = {"asset"}
  Commits = {"c0", "c1", "c2", "d1"}
  Ancestors <- MCAncestors
  TreeOf <- MCTreeOf
  Base = "c0"
  LocalHeads = {"c1", "c2"}
  NodeCommits = {"d1"}
  Foreign = {"w", "s1"}
  LfsLocal = {"a"}
  MaxEdits = 2
  MaxFaults = 1
SPECIFICATION Spec
INVARIANTS WorkKept CommitsKept OkMeansAligned 
