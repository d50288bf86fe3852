SPECIFICATION MixerSpec
CONSTANTS
  MaxSlots = 2
  GraceBlocks = 2
  LoadOvertakes = FALSE
  BlocksPerSwap = 3
  Channel = 1
  Gui = TRUE
  MaxLoads = 2
  MaxSwaps = 2
  MaxStarts = 1
INVARIANTS
  NoDanglingProcessor
  ListIsPublished
  StateBeforeInsert
  MissingAreKept
  SavedIsLive
CHECK_DEADLOCK FALSE
