SPECIFICATION Spec
CONSTANTS
  Capacity = 4
  Block = 2
  Threshold = 2
  WriteSizes = {2}
  ReadSizes = {2}
  ConsumerQuiet = FALSE
  MaxOffered = 6
  MaxEpoch = 2
PROPERTY
  NeverReplays
