SPECIFICATION Spec
CONSTANTS
  Handles = {h1, h2}
  NoHandle = NoHandle
  Pnp = Pnp
  MaxRegions = 2
INVARIANTS
  NoFillOnFreed
  EveryRegionHasOneHolder
  ConnectionIsConsistent
  ConnectedFlagIsCleared
PROPERTY RetiredIsFreed
CHECK_DEADLOCK FALSE
