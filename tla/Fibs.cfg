CONSTANTS
  W = 6
  Byte = 3
  MinLength = 2
  MaxLength = 5
  PerKey = 1
  Funcs = 2
  Span = 7
  AdrSpan = 32
  PosSpan = 8
  Outside = Outside
  NoBase = NoBase
  NoPre = NoPre
  Tables <- MCTables
  Checksums <- MCChecksums
SPECIFICATION AllSpec
INVARIANTS
  LookupIsLongest
  AssertionHolds
  ChainsNested
  ImplementationsAgree
  DifferOnlyIfMissed
  DescendsLikePatricia
  ChainsComplete
  LongestWithinReach
CHECK_DEADLOCK FALSE
