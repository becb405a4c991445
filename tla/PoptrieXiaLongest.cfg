CONSTANTS
  HexXid = 3
  Byte = 2
  Word = 2
  Dp = 3
  FibEntries = 3
  Span = 4
  Hops = {0, 1, 5}
  Lengths = {1, 3, 6}
  MaxAdds = 2
SPECIFICATION Spec
INVARIANT LongestAnswers
CHECK_DEADLOCK FALSE
