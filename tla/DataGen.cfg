CONSTANTS
  MaxN = 4
  Grain = 3
  SampleSize = 2
  W = 7
  Offset = 1
  Size = 3
  Dups = 4
  NHops = 2
  Draws = {0, 16, 32, 64}
SPECIFICATION Spec
INVARIANTS RanksRight DistinctBelowGreatest FitForFibs
PROPERTY Finishes
CHECK_DEADLOCK FALSE
