CONSTANTS
  W = 4
  Tables <- MCTables
  NoBase = NoBase
  NoPre = NoPre
  AdrSpan = 256
  PosSpan = 256
  Outside = Outside
SPECIFICATION LCSpec
INVARIANT NextHopIsPointer
CHECK_DEADLOCK FALSE
