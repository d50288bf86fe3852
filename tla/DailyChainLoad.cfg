SPECIFICATION Spec
CONSTANTS
  MaxSlots = 1
  GraceBlocks = 2
  LoadOvertakes = FALSE
  BlocksPerSwap = 3
  Channel = 1
  Gui = TRUE
  MaxLoads = 3
  MaxSwaps = 3
INVARIANT
  NoDanglingProcessor
