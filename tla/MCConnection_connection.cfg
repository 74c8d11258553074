CONSTANTS
  Messages = {m1, m2, m3}
  StopMessage = StopMessage
  Conns = {1, 2, 3, 4, 5}
  Calls = {"call"}
  Bounds <- MCBounds

SPECIFICATION PartsSpec

INVARIANTS
  PartsTypeOK
  StopsHonestly
  ConnectionsSound

PROPERTIES
  ImplementsOutbox
  DestructorEnds
  PartsSettles

\* A destroyed protocol does nothing more.
CHECK_DEADLOCK FALSE
