SPECIFICATION Spec
CONSTANTS
  Buffers <- const_Buffers
  MaxTime = 10
INVARIANTS
  DpcHasItsBuffer
  PacketsAreComplete
  ReadableIsIntact
CHECK_DEADLOCK FALSE
