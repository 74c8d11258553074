---------------------------- MODULE MCForwarding ----------------------------
(* LookupTable and SlotFlows, which share no state: part says which of     *)
(* them a behaviour is about, and the other stays as it began.             *)
EXTENDS LookupTable, SlotFlows, TLC

CONSTANTS m1, m2, gw, none

VARIABLE part

MCMacs == {m1, m2}

Via(dest, prefix, gateway) == [dest |-> dest, prefix |-> prefix, gateway |-> gateway]

(* Two host routes, two networks around the first, the default route, and  *)
(* a network of the control element itself: the shortest addresses that    *)
(* tell two lengths of network from a host.                                *)
MCKernelRoutes == {Via(0, 4, gw), Via(3, 4, gw), Via(0, 3, gw), Via(0, 2, gw),
                   Via(0, 0, gw), Via(8, 2, none)}

MCPackets == {0, 1, 3}

inSlots == part = "slots"

PartsInit == part \in {"table", "slots"} /\ Init /\ SlotsInit

PartsNext ==
  \/ ~inSlots /\ Next /\ UNCHANGED <<part, slotsVars>>
  \/ inSlots /\ SlotsNext /\ UNCHANGED <<part, vars>>

(* The fairness of SlotFlows; LookupTable has none.                        *)
PartsSpec == /\ PartsInit /\ [][PartsNext]_<<part, vars, slotsVars>>
             /\ WF_slotsVars(inSlots /\ Demo)

-----------------------------------------------------------------------------
(* The type invariants of both, and SlotReached where SlotFlows runs.      *)
PartsTypeOK == TypeOK /\ SlotsTypeOK
PartsSlotReached == inSlots => SlotReached

=============================================================================
