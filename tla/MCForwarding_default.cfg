SPECIFICATION PartsSpec
CONSTANTS
  Width = 4
  m1 = m1
  m2 = m2
  None = None
  NoSwitch = NoSwitch
  KernelRoutes <- MCKernelRoutes
  gw = gw
  none = none
  NoGateway = none
  Macs <- MCMacs
  Packets <- MCPackets
  Readers = {r1}
  NumSlots = 4
  FlowSlots = {2, 3}
  Switches = {a, b}
  MaxQueue = 2
  MaxSessions = 2
INVARIANTS PrefixAsserted
\* The assertion of add() ends the program.
CHECK_DEADLOCK FALSE
