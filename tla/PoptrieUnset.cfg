CONSTANTS
  W = 4
  S = 1
  K = 1
  Pools <- LargePool
  Unset = {1}
  FibSize = 3
  NextHops = {h1, h2}
  None = None
  RouteSet <- ThreeLevels
SPECIFICATION Spec
INVARIANT
  InUseHeld
CHECK_DEADLOCK FALSE
