CONSTANTS
  Key = {a, b}
  Funcs = 3
  Counts = 3
  Span = 3
  Top = 15
  MaxCopies = 9
SPECIFICATION Spec
INVARIANTS NeverTooMany NoFalseNegative
PROPERTY RefinesCounters
