SPECIFICATION FairSpec
CONSTANTS
  Capacity = 4
  Block = 2
  Threshold = 2
  WriteSizes = {1, 3, 5}
  ReadSizes = {1, 2}
  ConsumerQuiet = TRUE
  MaxOffered = 8
  MaxEpoch = 2
INVARIANTS
  NoTornBlock
  NoSilentDrop
  FreshnessBound
PROPERTIES
  NeverReplays
  BacklogMoves
  ImplementsFifo
