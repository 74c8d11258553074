---------------------------- MODULE MCEventBus ----------------------------
(* An instance of EventBus: an activity with two handlers that may end on  *)
(* its own, one with a handler of another source, a protocol, two events.  *)
EXTENDS EventBus, TLC
CONSTANTS a1, a2, c1, c2, reset

MCHandlers == a1 :> << <<reset, c1>>, <<Quit, NoSource>> >>
           @@ a2 :> << <<reset, c2>> >>

MCRaises == {<<reset, c1>>}
=============================================================================
