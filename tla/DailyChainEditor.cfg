SPECIFICATION Spec
CONSTANTS
  MaxSlots = 2
  GraceBlocks = 2
  LoadOvertakes = FALSE
  BlocksPerSwap = 3
  Channel = 1
  Gui = TRUE
  MaxLoads = 2
  MaxSwaps = 3
INVARIANT
  EditorOnOwnedProcessor
