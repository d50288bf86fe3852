SPECIFICATION FairSpec
CONSTANTS
  MaxSlots = 3
  GraceBlocks = 2
  LoadOvertakes = TRUE
  BlocksPerSwap = 2
  RackSlots = 2
  MaxLoads = 3
  MaxSwaps = 3
CHECK_DEADLOCK FALSE
INVARIANTS
  NoDanglingSnapshot
  NoDanglingProcessor
  RackMatchesPublished
PROPERTY
  RetiredAreDestroyed
