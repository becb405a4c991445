CONSTANTS
  W = 6
  S = 2
  K = 2
  Pools <- AmplePool
  Unset = {0, 1}
  FibSize = 3
  NextHops = {h1, h2}
  None = None
  RouteSet <- ShortAndLong
SPECIFICATION Spec
INVARIANT
  ShortRoutesHonoured
CHECK_DEADLOCK FALSE
