CONSTANTS
  Elements = {e1, e2, e3}
  Peers = {e1, e2, x1}
  Forwarders = {e1}
  Forced = {e3}
  Protos = {p1, p2}
  Routes = {r1}
  None = None
  MaxAccepts = 2

SPECIFICATION Spec
SYMMETRY Symmetry

INVARIANTS
  ElementsConsistent

PROPERTIES
  LiveDropOnlyByStaleEntry
  ImplementsRegistry

\* A control element all of whose peers are gone has nothing left to do.
CHECK_DEADLOCK FALSE
