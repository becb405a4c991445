CONSTANTS
  W = 4
  S = 2
  K = 1
  Pools <- Pool
  Unset = {0}
  FibSize = 3
  NextHops = {h1, h2}
  None = None
  Wild = Wild
  RouteSet <- Nested
  ReaderAddrs <- Watched
SPECIFICATION ReadersSpec
SYMMETRY Symmetry
INVARIANT
  LookupsAtomic
PROPERTY
  RefinesPoptrie
CHECK_DEADLOCK FALSE
