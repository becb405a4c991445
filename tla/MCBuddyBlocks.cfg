CONSTANTS
  Sz = 3
  Level = 3
  Pow2 <- MCPow2
SPECIFICATION Spec
INVARIANTS
  TypeOK
  NoOverlap
  TailsOfHeld
  FreeExact
  OrderFound
PROPERTY
  RefinesPool
