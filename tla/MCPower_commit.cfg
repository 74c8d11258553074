SPECIFICATION PartsSpec
CONSTANTS
  Profiles = {0, 1, 2}
  NumSlots = 4
  Table <- MCTable
  Command = Command
  DefaultProfile = 0
  DefaultState = 0
  MaxRequests = 2
  MaxQueue = 1
  LCPs <- MCLCPs
  State = {0, 1}
  DeviceDefault = 0
  ElementDefault = 0
  MaxServed = 2
INVARIANTS CommitReachesElements
\* Both stop at their bounds, and at undefined behaviour.
CHECK_DEADLOCK FALSE
