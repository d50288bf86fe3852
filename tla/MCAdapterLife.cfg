\* Two device objects, of one device before and after a surprise removal or of
\* two devices, each started twice; two clients for a limit of one stream.
CONSTANTS
  Devices = {d1, d2}
  Clients = {c1, c2}
  NoFilter = NoFilter
  MaxStreams = 1
  MaxStarts = 2
SPECIFICATION LifeSpec
SYMMETRY Symmetry
INVARIANTS
  AdapterOutlivesItsUsers
  AdapterIsReleased
  StartIsHonest
  StreamsAreCounted
\* The devices may all be removed, and their starts used up.
CHECK_DEADLOCK FALSE
