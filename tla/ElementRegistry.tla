-------------------------- MODULE ElementRegistry --------------------------
(***************************************************************************)
(* What the control element promises about its service elements: a         *)
(* connection belongs to at most one element, and a forwarding element     *)
(* that has a connection has been told every route of the router on it.    *)
(***************************************************************************)
CONSTANTS Elements, Forwarders, Protos, Routes, None

VARIABLES
  owner,    \* owner[e]: the connection of element e, or None
  routes,   \* the routes of the router
  told      \* told[e]: the routes e was told on its connection

Init == /\ owner = [e \in Elements |-> None]
        /\ routes = {}
        /\ told = [e \in Elements |-> {}]

(* e gets a connection nobody has, in place of the one it may have. *)
Attach(e, p) ==
  /\ \A d \in Elements : owner[d] # p
  /\ owner' = [owner EXCEPT ![e] = p]
  /\ told' = [told EXCEPT ![e] = IF e \in Forwarders THEN routes ELSE {}]
  /\ UNCHANGED routes

Detach(e) ==
  /\ owner' = [owner EXCEPT ![e] = None]
  /\ told' = [told EXCEPT ![e] = {}]
  /\ UNCHANGED routes

Learn(r) ==
  /\ routes' = routes \cup {r}
  /\ told' = [e \in Elements |->
                IF owner[e] # None /\ e \in Forwarders
                THEN told[e] \cup {r}
                ELSE told[e]]
  /\ UNCHANGED owner

Next == \/ \E e \in Elements : Detach(e) \/ \E p \in Protos : Attach(e, p)
        \/ \E r \in Routes : Learn(r)

Spec == Init /\ [][Next]_<<owner, routes, told>>

=============================================================================
