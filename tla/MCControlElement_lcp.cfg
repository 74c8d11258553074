CONSTANTS
  Elements = {e1, e2}
  Peers = {e1, e2}
  Forwarders = {}
  Forced = {}
  Protos = {p1, p2}
  Routes = {}
  None = None
  MaxAccepts = 2

SPECIFICATION FairSpec

INVARIANTS
  TypeOK
  AnnouncedAreConnected
  SingleLcpSingleServer

PROPERTIES
  CompleteStartsLcp
  ResetIsServed

\* A control element all of whose peers are gone has nothing left to do.
CHECK_DEADLOCK FALSE
