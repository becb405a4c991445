CONSTANTS
  Exps = 2
  RUNS = 2
  HopCounts = 2
  SEED_UINT32_N = 2
  SEEDS = 40
  SeedFiles = {0, 5, 16, 28, 36, 37, 41}
  MaxDeaths = 2
SPECIFICATION Spec
INVARIANTS
  SameSeeds
  WindowsApart
  OnlyLastUnread
  RunsAccountedFor
PROPERTY
  Ends
CHECK_DEADLOCK FALSE
