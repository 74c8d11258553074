----------------------------- MODULE SlotFlows -----------------------------
(***************************************************************************)
(* The demo policy of the control element: the day is cut in slots, and    *)
(* each slot may have a flow for the OpenFlow element of the router.       *)
(* A sync server broadcasts the number of the slot in UDP datagrams.       *)
(* LCPSync turns them into SlotChange events; the thread of DemoLCP        *)
(* handles those, and the events of the control element about its service  *)
(* elements, from one queue, and sends one flow every 20 ms.               *)
(***************************************************************************)
EXTENDS Integers, FiniteSets, SequencesExt

CONSTANTS
  NumSlots,    \* lcp.sync.slots
  FlowSlots,   \* the slots that have a flow
  Switches,    \* the service elements with an OpenFlow service
  NoSwitch,    \* the null pointer of the variable se of DemoLCP::run
  MaxQueue,    \* bound: events that wait for the DemoLCP thread
  MaxSessions  \* bound: connections of one element

ASSUME SlotAssumption ==
  /\ NumSlots \in Nat /\ NumSlots > 1
  /\ FlowSlots \subseteq 1 .. NumSlots
  /\ IsFiniteSet(Switches) /\ NoSwitch \notin Switches
  /\ MaxQueue \in Nat /\ MaxSessions \in Nat \ {0}

VARIABLES
  prev,      \* prev of LCPSync, the last slot it raised
  queue,     \* the handlers that wait for the DemoLCP thread, one per event
  slot,      \* current_slot_
  job,       \* what the DemoLCP thread is doing
  se,        \* the element DemoLCP sends flows to
  up,        \* up[e]: the control element has a connection to e
  stale,     \* stale[e]: earlier ones whose reset is not served yet, which
             \* elements_table_ still leads to e
  sessions,  \* sessions[e]: the connections e has had
  sent,      \* sent[e]: the slots of the flows sent on the present one
  announced  \* the control element has handled LCPStarted

lcpVars     == <<slot, job, se>>
elementVars == <<up, stale, sessions, sent, announced>>
slotsVars == <<prev, queue, lcpVars, elementVars>>

SlotChange(n)   == [type |-> "SlotChange", num |-> n]
Active(e)       == [type |-> "ServiceElementActive", element |-> e]
Disconnected(e) == [type |-> "ServiceElementDisconnected", element |-> e]

Start       == [type |-> "start"]
Wait        == [type |-> "wait"]
Abort       == [type |-> "abort"]
Change(n)   == [type |-> "change", num |-> n]
Replay(e, i) == [type |-> "replay", element |-> e, next |-> i]

(* The control element starts the policy once every element is connected.  *)
SlotsInit ==
  /\ prev = 1
  /\ queue = <<>>
  /\ slot = 0 /\ job = Start /\ se = NoSwitch
  /\ up = [e \in Switches |-> TRUE] /\ stale = [e \in Switches |-> 0]
  /\ sessions = [e \in Switches |-> 1]
  /\ sent = [e \in Switches |-> <<>>]
  /\ announced = FALSE

-----------------------------------------------------------------------------
(* LCPSync: a datagram may be lost, repeated or late, and hold any number. *)

(* The lower bound is not checked. *)
AcceptedVariant(n) == n <= NumSlots

Accepted(n) == n >= 1 /\ n <= NumSlots

Receive(n) ==
  /\ job.type # "start"
  /\ Len(queue) < MaxQueue
  /\ Accepted(n) /\ n # prev
  /\ prev' = n
  /\ queue' = Append(queue, SlotChange(n))
  /\ UNCHANGED <<lcpVars, elementVars>>

-----------------------------------------------------------------------------
(* The control element.                                                    *)

(* lcp_started: the elements that are connected then are announced, in the *)
(* order of elements_; nothing announces those that connect later.         *)
Announce ==
  /\ job.type # "start" /\ ~announced
  /\ announced' = TRUE
  /\ \E order \in SetToSeqs({e \in Switches : up[e]}) :
       queue' = queue \o [i \in DOMAIN order |-> Active(order[i])]
  /\ UNCHANGED <<prev, lcpVars, up, stale, sessions, sent>>

(* connection_reset: disconnect() drops the present connection, though the *)
(* one that was reset may be an earlier one; the entry of the one that is  *)
(* dropped so stays.                                                       *)
Live(e) == IF up[e] THEN 1 ELSE 0

Drop(e, entries) ==
  /\ up' = [up EXCEPT ![e] = FALSE]
  /\ stale' = [stale EXCEPT ![e] = entries]
  /\ queue' = IF job.type = "start" THEN queue ELSE Append(queue, Disconnected(e))
  /\ UNCHANGED <<prev, lcpVars, sessions, sent, announced>>

Disconnect(e) == up[e] /\ Drop(e, stale[e])

LateReset(e) == stale[e] > 0 /\ Drop(e, stale[e] - 1 + Live(e))

(* The entry of the old connection goes with it, and its reset is lost. *)
ConnectVariant(e) ==
  /\ sessions[e] < MaxSessions
  /\ up' = [up EXCEPT ![e] = TRUE] /\ UNCHANGED stale
  /\ sessions' = [sessions EXCEPT ![e] = @ + 1]
  /\ sent' = [sent EXCEPT ![e] = <<>>]
  /\ UNCHANGED <<prev, queue, lcpVars, announced>>

(* connect_service_element: the element may be back before the reset of    *)
(* its connection is served, and proto_ is replaced all the same.  (A new  *)
(* connection may lie where an earlier one did, and take its entry: a      *)
(* reset that never comes, or one of the new connection, stands for that.) *)
Connect(e) ==
  /\ sessions[e] < MaxSessions
  /\ up' = [up EXCEPT ![e] = TRUE]
  /\ stale' = [stale EXCEPT ![e] = @ + Live(e)]
  /\ sessions' = [sessions EXCEPT ![e] = @ + 1]
  /\ sent' = [sent EXCEPT ![e] = <<>>]
  /\ UNCHANGED <<prev, queue, lcpVars, announced>>

-----------------------------------------------------------------------------
(* The thread of DemoLCP.                                                  *)

(* OpenflowManagement::add of the flow of slot n, if it has one: without a *)
(* connection ServiceElement::send drops the message and only logs it.     *)
SendFlow(e, n) ==
  sent' = IF e # NoSwitch /\ n \in FlowSlots /\ up[e]
          THEN [sent EXCEPT ![e] = Append(@, n)] ELSE sent

(* Only the next slot is taken: after a lost datagram there is none.       *)
ChangeSlotVariant(n) ==
  job' = IF ~(n >= 1 /\ n < NumSlots) THEN Abort
         ELSE IF n # slot + 1 THEN Wait ELSE Change(n)

(* change_slot: the assertion, which ends the program, and the test of     *)
(* current_slot_.                                                          *)
ChangeSlot(n) ==
  job' = IF ~(n >= 1 /\ n < NumSlots) THEN Abort
         ELSE IF n <= slot THEN Wait ELSE Change(n)

(* The handlers are registered, LCPTaskStarted is raised, LCPSync starts,  *)
(* and slot 1 is configured.                                               *)
Initialize ==
  /\ job = Start
  /\ ChangeSlot(1)
  /\ UNCHANGED <<prev, queue, slot, se, elementVars>>

(* The flows of the slot that was asked for, without those before it. *)
NextSlotVariant == job.num

NextSlot == slot + 1

(* One turn of the loop of change_slot: the flow of the next slot.         *)
ChangeStep ==
  /\ job.type = "change"
  /\ slot' = NextSlot
  /\ SendFlow(se, slot')
  /\ job' = IF slot' = job.num THEN Wait ELSE job
  /\ UNCHANGED <<prev, queue, se, up, stale, sessions, announced>>

Take(type) ==
  /\ job = Wait /\ queue # <<>> /\ Head(queue).type = type
  /\ queue' = Tail(queue)

HandleSlotChange ==
  /\ Take("SlotChange")
  /\ ChangeSlot(Head(queue).num)
  /\ UNCHANGED <<prev, slot, se, elementVars>>

(* The flows of the slots that have passed are left out. *)
ReplayFirstVariant == slot

ReplayFirst == 1

(* ServiceElementActive: the first element with an OpenFlow service gets   *)
(* the flows of all the slots so far.                                      *)
HandleActive ==
  /\ Take("ServiceElementActive")
  /\ job' = IF se = NoSwitch THEN Replay(Head(queue).element, ReplayFirst) ELSE Wait
  /\ UNCHANGED <<prev, slot, se, elementVars>>

(* One turn of the loop of add_flows, and its end.                         *)
ReplayStep ==
  /\ job.type = "replay" /\ job.next <= slot
  /\ SendFlow(job.element, job.next)
  /\ job' = Replay(job.element, job.next + 1)
  /\ UNCHANGED <<prev, queue, slot, se, up, stale, sessions, announced>>

ReplayEnd ==
  /\ job.type = "replay" /\ job.next > slot
  /\ se' = job.element
  /\ job' = Wait
  /\ UNCHANGED <<prev, queue, slot, elementVars>>

HandleDisconnected ==
  /\ Take("ServiceElementDisconnected")
  /\ se' = IF se = Head(queue).element THEN NoSwitch ELSE se
  /\ UNCHANGED <<prev, slot, job, elementVars>>

-----------------------------------------------------------------------------
Demo == \/ Initialize \/ ChangeStep \/ ReplayStep \/ ReplayEnd
        \/ HandleSlotChange \/ HandleActive \/ HandleDisconnected

Elements == Announce \/ \E e \in Switches : Disconnect(e) \/ LateReset(e) \/ Connect(e)

Sync == \E n \in 0 .. NumSlots + 1 : Receive(n)

SlotsNext == job # Abort /\ (Demo \/ Elements \/ Sync)

SlotsSpec == SlotsInit /\ [][SlotsNext]_slotsVars

(* The thread of DemoLCP runs.                                             *)
FairSlotsSpec == SlotsSpec /\ WF_slotsVars(Demo)

-----------------------------------------------------------------------------
Jobs == {Start, Wait, Abort}
   \cup [type : {"change"}, num : 1 .. NumSlots]
   \cup [type : {"replay"}, element : Switches, next : 1 .. NumSlots + 1]

EventSet == [type : {"SlotChange"}, num : 1 .. NumSlots]
   \cup [type : {"ServiceElementActive", "ServiceElementDisconnected"},
         element : Switches]

SlotsTypeOK ==
  /\ prev \in 1 .. NumSlots
  /\ queue \in Seq(EventSet)
  /\ slot \in 0 .. NumSlots /\ job \in Jobs /\ se \in Switches \cup {NoSwitch}
  /\ up \in [Switches -> BOOLEAN]
  /\ stale \in [Switches -> Nat] /\ sessions \in [Switches -> 1 .. MaxSessions]
  /\ sent \in [Switches -> Seq(FlowSlots)]
  /\ announced \in BOOLEAN

(* s holds the flows of the slots first .. last, in order.                 *)
IsFlows(s, first, last) ==
  /\ \A i \in DOMAIN s : s[i] \in FlowSlots /\ first <= s[i] /\ s[i] <= last
  /\ \A i, j \in DOMAIN s : i < j => s[i] < s[j]
  /\ \A n \in FlowSlots : first <= n /\ n <= last => \E i \in DOMAIN s : s[i] = n

(* Whatever is lost, repeated or reordered, the flows of one connection    *)
(* are those of consecutive slots, each once and in the order of the day.  *)
FlowsConsecutive ==
  \A e \in Switches : sent[e] # <<>> =>
    IsFlows(sent[e], Head(sent[e]), sent[e][Len(sent[e])])

LossPending(e) == stale[e] > 0 \/ Contains(queue, Disconnected(e))

(* The element DemoLCP uses has been sent all the flows up to the present  *)
(* slot, unless the loss of its connection, or of one that this has        *)
(* replaced, is still to be served or handled.  In the second case the new *)
(* connection is in use without the flows of the old one, and only the     *)
(* late reset puts an end to that.                                         *)
FlowsComplete ==
  \A e \in Switches :
    job = Wait /\ se = e /\ ~LossPending(e) => up[e] /\ IsFlows(sent[e], 1, slot)

(* An element has the flows of the day, in order and without a gap.        *)
FlowsInOrder == FlowsConsecutive /\ FlowsComplete

(* What the assertion of change_slot says of the slots it is given.        *)
SlotAsserted == job # Abort

(* A slot that LCPSync has let through is reached, unless it is the one    *)
(* that the assertion of change_slot refuses.                              *)
SlotReached == \A n \in 1 .. NumSlots : prev = n ~> slot >= n \/ job = Abort

=============================================================================
