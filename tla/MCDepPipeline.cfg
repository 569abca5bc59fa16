CONSTANTS
  base = base
  lib = lib
  tool = tool
  app = app
  side = side
  win = win
  pre = pre
  Deps <- MCDeps
  Requires <- MCRequires
  Topo <- MCTopo
  Priority <- MCPriority
  BuildTargets = {app, side}
  Primary = app
  Unsupported = {}
  SerialFetch = {lib}
  SerialBuild = {tool}
  FetchJobs = 2
  BuildJobs = 2
  CommandLines <- MCCommandLines
SPECIFICATION ProgramFairSpec
INVARIANTS BuildAfterPrereqs PoolBounds SuccessIsInstalled ManifestClosed
PROPERTIES NoFalseFailure ProgramImplementsDagBuild Terminates
