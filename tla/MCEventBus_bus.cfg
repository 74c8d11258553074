SPECIFICATION FairSpec
CONSTANTS
  a1 = a1  a2 = a2  c1 = c1  c2 = c2  reset = reset
  Activities = {a1, a2}
  Protocols = {p1}
  Leavers = {a1}
  Dispatcher = Dispatcher
  Types = {reset}
  Quit = Quit
  Sources = {c1, c2}
  NoSource = NoSource
  AutoTypes = {reset}
  Handlers <- MCHandlers
  Raises <- MCRaises
  MaxRaises = 2

INVARIANTS
  TypeOK
  CallbacksAlive
  EventsDelivered

PROPERTIES
  QuitEndsAll

\* An application that has quit does nothing more.
CHECK_DEADLOCK FALSE
