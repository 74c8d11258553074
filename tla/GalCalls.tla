------------------------------ MODULE GalCalls ------------------------------
(***************************************************************************)
(* The calls of GalRest: each opens a connection of its own to a service   *)
(* element.  discovery, monitor_state and monitor_sensor subscribe to      *)
(* HttpResponse, send and wait for a promise of their own frame;           *)
(* provisioning, release, commit and rollback send and leave.  The         *)
(* subscription names the protocol, but HttpProtocol raises responses      *)
(* without a source, so that each goes to every call that waits, and a     *)
(* promise that is set again throws out of Application::do_run.            *)
(***************************************************************************)
EXTENDS Integers, SequencesExt

CONSTANTS
  Callers, \* threads of the LCP (requests, cores, power management), and of the control element
  MaxCalls \* bound: calls

ASSUME CallsAssumption == MaxCalls \in Nat \ {0}

VARIABLES
  calls,      \* history: who made each call, and whether it asks or tells
  pc,         \* pc[c]: where caller c is in its call
  cur,        \* cur[c]: that call, whose frame and protocol exist; 0 if none
  net,        \* net[i]: the request of call i and its answer
  subs,       \* the calls subscribed to HttpResponse, in subscribers_
  promises,   \* promises[i]: the call whose answer set the promise of i; 0 before
  bus,        \* events_: answers, by their call, and Quit as 0
  dispatches, \* running_ of Application
  crashed,    \* an exception has left do_run: main returns
  met         \* history: the pairs of calls that overlapped

callerVars == <<calls, pc, cur, met>>
callsVars == <<callerVars, net, subs, promises, bus, dispatches, crashed>>

Ids == 1..MaxCalls
Quit == 0

CallsInit ==
  /\ calls = <<>> /\ met = {}
  /\ pc = [c \in Callers |-> "idle"] /\ cur = [c \in Callers |-> 0]
  /\ net = [i \in Ids |-> "none"] /\ promises = [i \in Ids |-> 0]
  /\ subs = <<>> /\ bus = <<>>
  /\ dispatches = TRUE /\ crashed = FALSE

-----------------------------------------------------------------------------
(* The caller: protocol(), subscribe, send, future.get(), unsubscribe, the *)
(* end of the frame.                                                       *)

Begin(c, kind) ==
  /\ pc[c] = "idle" /\ Len(calls) < MaxCalls
  /\ calls' = Append(calls, [by |-> c, kind |-> kind])
  /\ cur' = [cur EXCEPT ![c] = Len(calls) + 1]
  /\ met' = met \cup {{Len(calls) + 1, cur[d]} : d \in {d \in Callers : cur[d] # 0}}

AskOne(c) ==
  /\ Begin(c, "ask")
  /\ subs' = Append(subs, Len(calls) + 1)
  /\ pc' = [pc EXCEPT ![c] = "sending"]
  /\ UNCHANGED <<net, promises, bus, dispatches, crashed>>

TellOne(c) ==
  /\ Begin(c, "tell")
  /\ pc' = [pc EXCEPT ![c] = "sending"]
  /\ UNCHANGED <<net, subs, promises, bus, dispatches, crashed>>

Send(c) ==
  /\ pc[c] = "sending"
  /\ net' = [net EXCEPT ![cur[c]] = "sent"]
  /\ pc' = [pc EXCEPT ![c] = IF calls[cur[c]].kind = "ask" THEN "waiting" ELSE "leaving"]
  /\ UNCHANGED <<calls, cur, met, subs, promises, bus, dispatches, crashed>>

ReturnVariant(c) ==
  /\ pc[c] = "waiting"
  /\ pc' = [pc EXCEPT ![c] = "returned"]
  /\ UNCHANGED <<calls, cur, met, net, subs, promises, bus, dispatches, crashed>>

Return(c) ==
  /\ pc[c] = "waiting" /\ promises[cur[c]] # 0
  /\ pc' = [pc EXCEPT ![c] = "returned"]
  /\ UNCHANGED <<calls, cur, met, net, subs, promises, bus, dispatches, crashed>>

KeptVariant(i) == subs
KeptTwiceVariant(i) == Append(subs, i)
Place(i) == CHOOSE k \in DOMAIN subs : subs[k] = i
Kept(i) == IF dispatches THEN RemoveAt(subs, Place(i)) ELSE subs

Unsubscribe(c) ==
  /\ pc[c] = "returned"
  /\ subs' = Kept(cur[c])
  /\ pc' = [pc EXCEPT ![c] = "leaving"]
  /\ UNCHANGED <<calls, cur, met, net, promises, bus, dispatches, crashed>>

(* The protocol is destroyed with the frame: what it has not written or    *)
(* not read is lost.                                                       *)
Leave(c) ==
  /\ pc[c] = "leaving"
  /\ cur' = [cur EXCEPT ![c] = 0]
  /\ pc' = [pc EXCEPT ![c] = "idle"]
  /\ UNCHANGED <<calls, met, net, subs, promises, bus, dispatches, crashed>>

Caller(c) == Send(c) \/ Return(c) \/ Unsubscribe(c) \/ Leave(c)

-----------------------------------------------------------------------------
(* The service element answers, some time or never.                        *)
Respond(i) ==
  /\ net[i] = "sent"
  /\ net' = [net EXCEPT ![i] = "answered"]
  /\ UNCHANGED <<callerVars, subs, promises, bus, dispatches, crashed>>

(* The rx thread of the call's protocol: invoke_message.                   *)
ReadResponse(i) ==
  /\ net[i] = "answered" /\ cur[calls[i].by] = i
  /\ net' = [net EXCEPT ![i] = "read"]
  /\ bus' = IF dispatches THEN Append(bus, i) ELSE bus
  /\ UNCHANGED <<callerVars, subs, promises, dispatches, crashed>>

RaiseQuit ==
  /\ dispatches /\ \A k \in DOMAIN bus : bus[k] # Quit
  /\ bus' = Append(bus, Quit)
  /\ UNCHANGED <<callerVars, net, subs, promises, dispatches, crashed>>

-----------------------------------------------------------------------------
(* One turn of do_run: the callbacks run under subscribers_guard_, in the  *)
(* order of subscription, up to the first promise that is set already.     *)

ReceiversVariant == IF subs = <<>> THEN <<>> ELSE <<Head(subs)>>
Receivers == subs

FirstSet == SelectInSeq(Receivers, LAMBDA j : promises[j] # 0)
Called == IF FirstSet = 0 THEN Receivers ELSE SubSeq(Receivers, 1, FirstSet - 1)

Dispatch ==
  /\ dispatches /\ bus # <<>>
  /\ bus' = Tail(bus)
  /\ IF Head(bus) = Quit
     THEN dispatches' = FALSE /\ UNCHANGED <<promises, crashed>>
     ELSE /\ promises' = [i \in Ids |-> IF Contains(Called, i) THEN Head(bus) ELSE promises[i]]
          /\ crashed' = (FirstSet # 0)
          /\ UNCHANGED dispatches
  /\ UNCHANGED <<callerVars, net, subs>>

CallsNext ==
  /\ ~crashed
  /\ \/ \E c \in Callers : AskOne(c) \/ TellOne(c) \/ Caller(c)
     \/ \E i \in Ids : Respond(i) \/ ReadResponse(i)
     \/ RaiseQuit \/ Dispatch

(* The threads of the control element run; its peers owe it nothing.       *)
CallsSpec == CallsInit /\ [][CallsNext]_callsVars
FairCallsSpec ==
  /\ CallsSpec /\ WF_callsVars(~crashed /\ Dispatch)
  /\ \A c \in Callers : WF_callsVars(~crashed /\ Caller(c))
  /\ \A i \in Ids : WF_callsVars(~crashed /\ ReadResponse(i))

-----------------------------------------------------------------------------

CallsTypeOK ==
  /\ calls \in Seq([by : Callers, kind : {"ask", "tell"}]) /\ Len(calls) <= MaxCalls
  /\ pc \in [Callers -> {"idle", "sending", "waiting", "returned", "leaving"}]
  /\ cur \in [Callers -> 0..MaxCalls] /\ promises \in [Ids -> 0..MaxCalls]
  /\ net \in [Ids -> {"none", "sent", "answered", "read"}]
  /\ subs \in Seq(Ids) /\ IsInjective(subs)
  /\ bus \in Seq(Ids \cup {Quit})
  /\ {dispatches, crashed} \subseteq BOOLEAN
  /\ met \subseteq SUBSET Ids

Told == \E i \in DOMAIN calls : calls[i].kind = "tell"

(* While no two calls overlap and all of them ask, each gets its own       *)
(* answer and no promise is set twice.                                     *)
AloneGetsItsOwn == met = {} /\ ~Told => ~crashed /\ \A i \in Ids : promises[i] \in {0, i}

(* An answer that an ask takes for its own is that of a call which did not *)
(* wait for it, which overlapped the ask, or which had been given the      *)
(* answer of yet another call.                                             *)
ForeignAnswers ==
  \A i \in Ids : LET j == promises[i] IN
    j \notin {0, i} =>
      calls[j].kind = "tell" \/ {i, j} \in met \/ promises[j] \notin {0, j}

(* Where the answer of a call came from.                                   *)
AnswersKnown == AloneGetsItsOwn /\ ForeignAnswers

(* A callback writes into the frame of its call.  None is called after the *)
(* call has returned, although unsubscribe does nothing once running_ is   *)
(* false.                                                                  *)
CallbackInItsFrame ==
  [][Dispatch => \A k \in DOMAIN Receivers :
       Head(bus) # Quit => cur[calls[Receivers[k]].by] = Receivers[k]]_callsVars

Waits(i) == i \in DOMAIN calls /\ calls[i].kind = "ask" /\ cur[calls[i].by] = i

(* An ask that is answered ends, unless the dispatcher is gone: there is   *)
(* no timeout.                                                             *)
AnsweredReturns ==
  \A i \in Ids : (net[i] = "answered" /\ Waits(i)) ~> (~Waits(i) \/ crashed \/ ~dispatches)

=============================================================================
