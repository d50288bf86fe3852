SPECIFICATION LinkSpec
CONSTANTS
  Cap = 2
  StaleBacklog = 1
  MaxRender = 2
  MaxBlocks = 3
  MaxEvents = 2
INVARIANTS
  LinkTypeOK
  OldPcmNeedsTwoRaces
CHECK_DEADLOCK FALSE
PROPERTIES
  Reconnects
