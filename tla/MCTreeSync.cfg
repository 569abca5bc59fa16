CONSTANTS
  Paths <- MCPaths
  Order <- MCOrder
  Contents = {"v0", "v1", "w"}
  Tracked <- MCTracked
  LocalTrees <- MCLocalTrees
  LocalInit <- MCLocalInit
  NodeInit <- MCNodeInit
  Foreign = {"w"}
  Options <- MCOptions
  MaxEdits = 2
  MaxFaults = 1
SPECIFICATION Spec
INVARIANTS GuardHolds RefusedForWork QuietSyncMatches
