-------------------------- MODULE ForwardingTable --------------------------
(* What the LookupTable promises to the forwarding threads: a table that   *)
(* changes as a whole, and a lookup that is one read of it.                *)
CONSTANTS Address, Readers, Macs, None

VARIABLES table, \* the next hop of every address, None for the default node
          found  \* what the lookup of a reader that still uses it has found

Init == table = [a \in Address |-> None] /\ found = [r \in Readers |-> None]

Publish == table' \in [Address -> Macs \cup {None}] /\ UNCHANGED found

Lookup(r) ==
  /\ \E a \in Address : found' = [found EXCEPT ![r] = table[a]]
  /\ UNCHANGED table

Release(r) == found' = [found EXCEPT ![r] = None] /\ UNCHANGED table

Next == Publish \/ \E r \in Readers : Lookup(r) \/ Release(r)

Spec == Init /\ [][Next]_<<table, found>>

=============================================================================
