---------------------------- MODULE MCConnection ----------------------------
(* An instance of AsyncProtocol and one of Handshake: a connection, and the*)
(* connections a service element makes.  They share no state; part says    *)
(* which of them a behaviour is about, and the other stays as it began.    *)
(* Three messages are the fewest with one being written, one queued and    *)
(* one being sent.                                                         *)
EXTENDS AsyncProtocol, Handshake, TLC

VARIABLE part

(* One fault with one connection more than it may cost, so that no attempt *)
(* lacks one; an HTTP call without a fault.                                *)
MCBounds == {[conns |-> 5, calls |-> 0, faults |-> 1],
             [conns |-> 4, calls |-> 1, faults |-> 0]}

inPeers == part = "peers"

PartsInit ==
  /\ part \in {"protocol", "peers"}
  /\ Init /\ PeersInit
  /\ ~inPeers => ceUp /\ bound.calls = 0

PartsNext ==
  \/ ~inPeers /\ Next /\ UNCHANGED <<part, peersVars, bound>>
  \/ inPeers /\ PeersNext /\ UNCHANGED <<part, vars>>

(* The fairness of both; that of AsyncProtocol asks nothing of its initial *)
(* state.                                                                  *)
PeersFairness ==
  /\ WF_peersVars(inPeers /\ Dispatch)
  /\ WF_peersVars(inPeers /\ CeHandle) /\ WF_peersVars(inPeers /\ CeStart)
  /\ \A c \in Conns :
       /\ WF_peersVars(inPeers /\ Connect(c))
       /\ WF_peersVars(inPeers /\ (SetupSend(c) \/ SetupDone(c)))
       /\ WF_peersVars(inPeers /\ SeReadAck(c))
       /\ WF_peersVars(inPeers /\ SeReset(c))
       /\ WF_peersVars(inPeers /\ CeAccept(c))
       /\ WF_peersVars(inPeers /\ (CeReadData(c) \/ CeSetupDone(c)))
       /\ WF_peersVars(inPeers /\ CeReset(c))
  /\ \A h \in Calls : WF_peersVars(inPeers /\ (HttpServed(h) \/ HttpEnd(h)))

PartsSpec == /\ PartsInit /\ [][PartsNext]_<<part, vars, peersVars, bound>>
             /\ Fairness /\ PeersFairness

-----------------------------------------------------------------------------
(* The type invariants of both; and the promise of Handshake that begins   *)
(* only with its part.                                                     *)

PartsTypeOK == TypeOK /\ PeersTypeOK
PartsSettles == inPeers => Settles

=============================================================================
