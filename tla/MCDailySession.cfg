SPECIFICATION Spec
CONSTANTS
  Streams = {1, 2}
  Sizes = {1, 2, 3, 4}
  Refused = {3}
  MaxBlock = 3
  FadeTotal = 1
  MaxEvents = 2
INVARIANTS
  NoCallbackOnFreed
  GracefulStopIsSilent
CHECK_DEADLOCK FALSE
PROPERTIES
  Recovers
  BufferIsHonoured
  RateIsRestored
