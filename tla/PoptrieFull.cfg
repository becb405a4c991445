CONSTANTS
  W = 6
  S = 2
  K = 2
  Pools <- MCPools
  Unset = {0, 1}
  FibSize = 3
  NextHops = {h1, h2}
  None = None
  RouteSet <- LongFirst
SPECIFICATION Spec
INVARIANT
  EveryEntryBuilt
CHECK_DEADLOCK FALSE
