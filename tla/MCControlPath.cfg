SPECIFICATION PathSpec
CONSTANTS
  Modes = {TRUE, FALSE}
  MaxEdits = 2
  MaxLosses = 1
  Params = {p, q}
  Capacity = 2
  MaxDrain = 2
  MaxQueues = 1
  MaxPoints = 1
  MaxPerformed = 3
  MaxDone = 6
INVARIANTS NoTornSnapshot VirtualMicFollowsSource EditsAreAccounted
PROPERTIES SettingsAreHeard EditsReachThePlugin
CHECK_DEADLOCK FALSE
