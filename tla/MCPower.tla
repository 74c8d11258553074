------------------------------- MODULE MCPower -------------------------------
(* PowerProfile, the task in one service element, and PowerStates, the     *)
(* requests that set the state of several: they share no state, part says  *)
(* which of them a behaviour is about, and the other stays as it began.    *)
EXTENDS PowerProfile, PowerStates, TLC

VARIABLE part

(* A profile with changes at slots 1 and 3, one with a command at slot 2,  *)
(* one that says nothing.                                                  *)
MCTable == 0 :> (1 :> 2 @@ 3 :> 1) @@ 1 :> (1 :> 1 @@ 2 :> Command) @@ 2 :> <<>>

(* Two elements, so that one can fail, lose a request or join while the    *)
(* other does not.                                                         *)
MCLCPs == <<"fe1", "fe2">>

inStates == part = "states"

PartsInit == part \in {"profile", "states"} /\ Init /\ StatesInit

PartsNext ==
  \/ ~inStates /\ Next /\ UNCHANGED <<part, statesVars>>
  \/ inStates /\ StatesNext /\ UNCHANGED <<part, vars>>

PartsSpec == PartsInit /\ [][PartsNext]_<<part, vars, statesVars>>

-----------------------------------------------------------------------------
(* The type invariants of both.                                            *)
PartsTypeOK == TypeOK /\ StatesTypeOK

=============================================================================
