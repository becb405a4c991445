CONSTANTS
  W = 6
  S = 2
  K = 2
  Pools <- MCPools
  Unset = {0, 1}
  FibSize = 3
  NextHops = {h1, h2}
  None = None
  RouteSet <- LongFirst
SPECIFICATION Spec
SYMMETRY Symmetry
INVARIANTS
  ExtIsLongest
  NoMarkLeft
  AgreeOnShortTables
  InUseHeld
PROPERTIES
  RefinesTable
  UnchangedOrUpToDate
  ShortAddTakesEffect
  LeaksOnlyOnFailure
CHECK_DEADLOCK FALSE
