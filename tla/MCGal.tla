-------------------------------- MODULE MCGal --------------------------------
(* An instance of GalRequests and one of GalTree: what the threads of the  *)
(* control element ask of each other to describe the device, and the page  *)
(* that draws the answer.  They share no state; part says which of them a  *)
(* behaviour is about, and the other stays as it began.                    *)
EXTENDS GalRequests, GalTree

VARIABLE part

(* A complete answer, one whose cores name a host that is not an element   *)
(* (display_name differs), one with a dotted host name, one whose host is  *)
(* named like an interface, one without elements.                          *)
Complete == << <<"0", "deth0">>, <<"0", "fe1">>, <<"0", "fe1", "core0">>,
               <<"0", "fe1", "core1">>, <<"0", "fe2">>, <<"0", "fe2", "core0">>,
               <<"0", "ie1">> >>

MCComplete == {Complete}
MCAnswers ==
  {Complete,
   << <<"0", "deth0">>, <<"0", "fe1">>, <<"0", "host", "core0">>, <<"0", "fe2">> >>,
   << <<"0", "fe1">>, <<"0", "fe1", "lan", "core0">>, <<"0", "deth0">> >>,
   << <<"0", "deth0">>, <<"0", "fe1">>, <<"0", "fe1", "core0">>, <<"0", "deth0", "core0">> >>,
   << <<"0", "deth0">>, <<"0", "deth1">> >>}

MCBare == {id \in UNION {ToSet(a) : a \in MCAnswers} : Len(id) > 2}

inTree == part = "tree"

(* Bound: one connection asks where two LCPs start, all where one does.    *)
Lone == CHOOSE w \in Webs : TRUE
Sparse == \/ Cardinality({l \in Lcps : lcp[l] # "none"}) < 2
          \/ \A r \in DOMAIN reqs : reqs[r].by \in Webs => reqs[r].by = Lone

PartsInit ==
  /\ part \in {"requests", "tree"}
  /\ Init /\ TreeInit
  /\ ~inTree => given = Complete /\ \A w \in Widths : w <= width

PartsNext ==
  \/ ~inTree /\ Next /\ Sparse' /\ UNCHANGED <<part, treeVars>>
  \/ inTree /\ TreeNext /\ UNCHANGED <<part, vars>>

(* The fairness of GalRequests, which asks nothing of its initial state.   *)
PartsSpec == /\ PartsInit /\ [][PartsNext]_<<part, vars, treeVars>>
             /\ Fairness

-----------------------------------------------------------------------------
(* The type invariants of both. *)

PartsTypeOK == TypeOK /\ TreeTypeOK

=============================================================================
