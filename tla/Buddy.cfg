CONSTANTS
  Sz = 3
  Level = 3
SPECIFICATION Spec
INVARIANT
  ListsWellFormed
PROPERTY
  RefinesBlocks
