CONSTANTS
  W = 4
  Tables <- MCTables
  NoBase = NoBase
  NoPre = NoPre
SPECIFICATION Spec
INVARIANT FindIsLongest
CHECK_DEADLOCK FALSE
