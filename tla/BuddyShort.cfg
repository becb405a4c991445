CONSTANTS
  Sz = 2
  Level = 3
SPECIFICATION Spec
INVARIANT
  NoOverlap
