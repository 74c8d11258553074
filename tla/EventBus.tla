----------------------------- MODULE EventBus -----------------------------
(***************************************************************************)
(* tnt::Application and the activities around it.  Any thread raises       *)
(* events; the dispatcher, do_run(), takes one at a time and calls, under  *)
(* subscribers_guard_, every callback subscribed to its type and source.   *)
(* The callback of a ConcurrentActivity queues a closure the activity runs *)
(* later, and its destructor removes its subscriptions.  The objects of    *)
(* Protocols subscribe themselves to Quit and never unsubscribe            *)
(* (AsyncProtocol, SyncProtocolWrapper).  An event nobody takes starts the *)
(* AutoActivity registered for its type, in a thread of its own.           *)
(***************************************************************************)
EXTENDS Integers, Sequences, SequencesExt

CONSTANTS
  Activities,  \* ConcurrentActivity objects
  Protocols,   \* objects with a bare subscription to Quit
  Leavers,     \* those that may end without Quit: a timeout, or nothing left to do
  Dispatcher,  \* the subscription of do_run() itself
  Types,       \* types of events besides Quit
  Quit,
  Sources,     \* sources of events, as events and handlers name them
  NoSource,    \* nullptr
  AutoTypes,   \* types with an AutoActivity
  Raises,      \* the <<type, source>> of the events raised, besides Quit
  Handlers,    \* Handlers[a]: what a registers, a sequence of <<type, source>>
  MaxRaises    \* bound: events raised

ASSUME BusAssumption ==
  /\ Quit \notin Types /\ NoSource \notin Sources
  /\ Dispatcher \notin Activities \cup Protocols
  /\ Activities \cap Protocols = {}
  /\ AutoTypes \subseteq Types /\ Leavers \subseteq Activities
  /\ Raises \subseteq Types \X (Sources \cup {NoSource})
  /\ MaxRaises \in Nat

(* No activity of the repository registers two handlers for one type.      *)
ASSUME HandlersAssumption ==
  /\ Handlers \in [Activities -> Seq((Types \cup {Quit}) \X (Sources \cup {NoSource}))]
  /\ \A a \in Activities :
       /\ Handlers[a] # <<>>
       /\ \A i, j \in DOMAIN Handlers[a] : Handlers[a][i][1] = Handlers[a][j][1] => i = j

VARIABLES
  running,     \* running_
  events,      \* events_
  raised,      \* history: every event raised, in order
  subscribers, \* subscribers_: the subscriptions to a type, in their order
  disp,        \* program counter of the dispatcher
  turn,        \* its present turn: the event, the next callback, delivered
  handlers,    \* handlers[a]: handlers_
  tokens,      \* tokens[a]: how many tokens tokens_ holds
  erased,      \* erased[a]: how many of them the destructor has dealt with
  life,        \* life[o] of an activity or protocol
  since,       \* since[a]: events raised when a had registered everything
  handled,     \* handled[a]: the events a has handled, in order
  autos,       \* events given to an AutoActivity, and whether it read them yet
  stale        \* callbacks called although their object was gone

busVars == <<running, events, raised>>
turnVars == <<disp, turn>>
tokenVars == <<tokens, erased>>
actVars == <<handlers, life, since, handled>>
vars == <<busVars, subscribers, turnVars, tokenVars, actVars, autos, stale>>

Events == [id : 1..MaxRaises, type : Types \cup {Quit}, source : Sources \cup {NoSource}]
Subscription == [owner : Activities \cup Protocols \cup {Dispatcher},
                 source : Sources \cup {NoSource}]
None == [id |-> 0, type |-> Quit, source |-> NoSource]

Init ==
  /\ running = TRUE /\ events = <<>> /\ raised = <<>>
  /\ subscribers = [t \in Types \cup {Quit} |-> <<>>]
  /\ disp = "start" /\ turn = [event |-> None, next |-> 1, delivered |-> FALSE]
  /\ tokens = [a \in Activities |-> 0] /\ erased = [a \in Activities |-> 0]
  /\ handlers = [a \in Activities |-> <<>>]
  /\ life = [o \in Activities \cup Protocols |-> "registering"]
  /\ since = [a \in Activities |-> 0]
  /\ handled = [a \in Activities |-> <<>>]
  /\ autos = {} /\ stale = {}

-----------------------------------------------------------------------------
(* raise, from any thread.  Once the dispatcher has stopped it drops the   *)
(* event.                                                                  *)
Raise(type, source) ==
  /\ running /\ Len(raised) < MaxRaises
  /\ LET e == [id |-> Len(raised) + 1, type |-> type, source |-> source]
     IN events' = Append(events, e) /\ raised' = Append(raised, e)
  /\ UNCHANGED <<running, subscribers, turnVars, tokenVars, actVars, autos, stale>>

(* subscribers_guard_ is held while callbacks run. *)
Unlocked == disp # "callbacks"

Subscribe(owner, type, source) ==
  /\ Unlocked
  /\ subscribers' =
       [subscribers EXCEPT ![type] = Append(@, [owner |-> owner, source |-> source])]

-----------------------------------------------------------------------------
(* do_run                                                                  *)

DispatcherSubscribe ==
  /\ disp = "start"
  /\ Subscribe(Dispatcher, Quit, NoSource)
  /\ disp' = "loop"
  /\ UNCHANGED <<busVars, turn, tokenVars, actVars, autos, stale>>

DispatcherPop ==
  /\ disp = "loop" /\ running /\ events # <<>>
  /\ events' = Tail(events)
  /\ turn' = [event |-> Head(events), next |-> 1, delivered |-> FALSE]
  /\ disp' = "callbacks"
  /\ UNCHANGED <<running, raised, subscribers, tokenVars, actVars, autos, stale>>

(* Subscriber::push: no source on either side means any. *)
SourceValid(s, e) ==
  s.source = NoSource \/ e.source = NoSource \/ s.source = e.source

(* The function a subscription holds: stop() of the dispatcher, a closure  *)
(* for an activity, stop() of a protocol.  What a call on an object that   *)
(* is gone does is not modelled beyond the fact.                           *)
Call(s, e) ==
  /\ running' = (running /\ s.owner # Dispatcher)
  /\ stale' = IF s.owner # Dispatcher /\ life[s.owner] = "destroyed"
              THEN stale \cup {<<s.owner, e.type>>} ELSE stale
  /\ handlers' = IF s.owner \in Activities /\ life[s.owner] # "destroyed"
                 THEN [handlers EXCEPT ![s.owner] = Append(@, e)] ELSE handlers
  /\ life' = IF s.owner \in Protocols /\ life[s.owner] # "destroyed"
             THEN [life EXCEPT ![s.owner] = "stopped"] ELSE life

(* equal_range: the subscriptions to the type of the event. *)
Row == subscribers[turn.event.type]

(* The callback after the present one. *)
AdvanceVariant(delivered) == IF delivered THEN Len(Row) + 1 ELSE turn.next + 1
StopAtQuitVariant(delivered) ==
  IF Row[turn.next].owner = Dispatcher THEN Len(Row) + 1 ELSE turn.next + 1
Advance(delivered) == turn.next + 1

DeliveredVariant(valid) == valid
Delivered(valid) == turn.delivered \/ valid

DispatcherCall ==
  /\ disp = "callbacks" /\ turn.next <= Len(Row)
  /\ LET s == Row[turn.next]
         valid == SourceValid(s, turn.event)
     IN /\ turn' = [turn EXCEPT !.next = Advance(Delivered(valid)),
                                !.delivered = Delivered(valid)]
        /\ IF valid THEN Call(s, turn.event)
                    ELSE UNCHANGED <<running, stale, handlers, life>>
  /\ UNCHANGED <<events, raised, subscribers, disp, tokenVars, since, handled, autos>>

(* The lock is released; ActivityFromEvent::create finds the type or the   *)
(* error is logged.                                                        *)
DispatcherUnlock ==
  /\ disp = "callbacks" /\ turn.next > Len(Row)
  /\ disp' = "release"
  /\ autos' = IF ~turn.delivered /\ turn.event.type \in AutoTypes
              THEN autos \cup {[event |-> turn.event, read |-> "no"]} ELSE autos
  /\ UNCHANGED <<busVars, subscribers, turn, tokenVars, actVars, stale>>

(* The turn ends and with it the life of the event. *)
DispatcherRelease ==
  /\ disp = "release"
  /\ disp' = IF running THEN "loop" ELSE "ended"
  /\ turn' = [event |-> None, next |-> 1, delivered |-> FALSE]
  /\ UNCHANGED <<busVars, subscribers, tokenVars, actVars, autos, stale>>

(* The thread of the AutoActivity copies the event from the pointer it was *)
(* given.                                                                  *)
AutoRead(x) ==
  /\ x \in autos /\ x.read = "no"
  /\ autos' = (autos \ {x}) \cup
       {[x EXCEPT !.read = IF disp = "release" /\ turn.event = x.event
                           THEN "live" ELSE "stale"]}
  /\ UNCHANGED <<busVars, subscribers, turnVars, tokenVars, actVars, stale>>

-----------------------------------------------------------------------------
(* ConcurrentActivity                                                      *)

Register(a) ==
  /\ life[a] = "registering"
  /\ LET h == Handlers[a][tokens[a] + 1] IN Subscribe(a, h[1], h[2])
  /\ tokens' = [tokens EXCEPT ![a] = @ + 1]
  /\ IF tokens'[a] = Len(Handlers[a])
     THEN /\ life' = [life EXCEPT ![a] = "waiting"]
          /\ since' = [since EXCEPT ![a] = Len(raised)]
     ELSE UNCHANGED <<life, since>>
  /\ UNCHANGED <<busVars, turnVars, erased, handlers, handled, autos, stale>>

(* wait_event: Quit ends the loop of the activity. *)
WaitEvent(a) ==
  /\ life[a] = "waiting" /\ handlers[a] # <<>>
  /\ handlers' = [handlers EXCEPT ![a] = Tail(@)]
  /\ handled' = [handled EXCEPT ![a] = Append(@, Head(handlers[a]))]
  /\ life' = IF Head(handlers[a]).type = Quit
             THEN [life EXCEPT ![a] = "leaving"] ELSE life
  /\ UNCHANGED <<busVars, subscribers, turnVars, tokenVars, since, autos, stale>>

(* wait_event_for without an event, or the end of what the activity does. *)
Leave(a) ==
  /\ life[a] = "waiting"
  /\ life' = [life EXCEPT ![a] = "leaving"]
  /\ UNCHANGED <<busVars, subscribers, turnVars, tokenVars, handlers, since, handled,
                 autos, stale>>

(* ~ConcurrentActivity, one token at a time: do_unsubscribe looks at       *)
(* running_ first.                                                         *)
UnsubscribedVariant(a) == ~running \/ erased[a] + 1 >= tokens[a]
Unsubscribed(a) == ~running \/ erased[a] = tokens[a]

UnsubscribeCheck(a) ==
  /\ life[a] = "leaving"
  /\ life' = [life EXCEPT ![a] = IF Unsubscribed(a) THEN "destroyed"
                                                      ELSE "erasing"]
  /\ handlers' = IF life'[a] = "destroyed" THEN [handlers EXCEPT ![a] = <<>>]
                                           ELSE handlers
  /\ UNCHANGED <<busVars, subscribers, turnVars, tokenVars, since, handled, autos, stale>>

(* The token to erase: where a is among the subscriptions to a type. *)
TokenType(a) == Handlers[a][erased[a] + 1][1]
Place(a, type) ==
  CHOOSE i \in DOMAIN subscribers[type] : subscribers[type][i].owner = a

ErasedToNullVariant(a) ==
  [subscribers EXCEPT ![TokenType(a)][Place(a, TokenType(a))].owner = NoSource]
Erased(a) ==
  [subscribers EXCEPT ![TokenType(a)] = RemoveAt(@, Place(a, TokenType(a)))]

UnsubscribeErase(a) ==
  /\ life[a] = "erasing" /\ Unlocked
  /\ subscribers' = Erased(a)
  /\ erased' = [erased EXCEPT ![a] = @ + 1]
  /\ life' = [life EXCEPT ![a] = "leaving"]
  /\ UNCHANGED <<busVars, turnVars, tokens, handlers, since, handled, autos, stale>>

-----------------------------------------------------------------------------
(* A protocol subscribes itself in start() and is destroyed at any time.   *)

ProtocolStart(p) ==
  /\ life[p] = "registering"
  /\ Subscribe(p, Quit, NoSource)
  /\ life' = [life EXCEPT ![p] = "waiting"]
  /\ UNCHANGED <<busVars, turnVars, tokenVars, handlers, since, handled, autos, stale>>

ProtocolDestroy(p) ==
  /\ life[p] \in {"waiting", "stopped"}
  /\ life' = [life EXCEPT ![p] = "destroyed"]
  /\ UNCHANGED <<busVars, subscribers, turnVars, tokenVars, handlers, since, handled,
                 autos, stale>>

Dispatch == \/ DispatcherSubscribe \/ DispatcherPop \/ DispatcherCall
            \/ DispatcherUnlock \/ DispatcherRelease

Activity(a) == Register(a) \/ WaitEvent(a) \/ UnsubscribeCheck(a) \/ UnsubscribeErase(a)

Next ==
  \/ \E r \in Raises : Raise(r[1], r[2])
  \/ Raise(Quit, NoSource)
  \/ Dispatch
  \/ \E x \in autos : AutoRead(x)
  \/ \E a \in Activities : Activity(a)
  \/ \E a \in Leavers : Leave(a)
  \/ \E p \in Protocols : ProtocolStart(p) \/ ProtocolDestroy(p)

Fairness == /\ WF_vars(Dispatch)
            /\ \A a \in Activities : WF_vars(Activity(a))

Spec == Init /\ [][Next]_vars
FairSpec == Spec /\ Fairness

-----------------------------------------------------------------------------

TypeOK ==
  /\ running \in BOOLEAN
  /\ events \in Seq(Events) /\ raised \in Seq(Events)
  /\ subscribers \in [Types \cup {Quit} -> Seq(Subscription)]
  /\ disp \in {"start", "loop", "callbacks", "release", "ended"}
  /\ turn \in [event : Events \cup {None}, next : Nat \ {0}, delivered : BOOLEAN]
  /\ tokens \in [Activities -> Nat] /\ erased \in [Activities -> Nat]
  /\ handlers \in [Activities -> Seq(Events)] /\ handled \in [Activities -> Seq(Events)]
  /\ life \in [Activities \cup Protocols -> {"registering", "waiting", "leaving",
                                            "erasing", "stopped", "destroyed"}]
  /\ since \in [Activities -> 0..MaxRaises]
  /\ autos \subseteq [event : Events, read : {"no", "live", "stale"}]
  /\ stale \subseteq (Activities \cup Protocols) \X (Types \cup {Quit})

(* While the dispatcher runs, no subscription of an activity outlives it,  *)
(* whatever turn of the dispatcher its destructor meets.                   *)
SubscriptionsAlive ==
  running => \A t \in Types \cup {Quit} : \A i \in DOMAIN subscribers[t] :
    subscribers[t][i].owner \in Activities => life[subscribers[t][i].owner] # "destroyed"

(* b subscribed to Quit after a. *)
QuitAfter(a, b) ==
  \E i, j \in DOMAIN subscribers[Quit] :
    i < j /\ subscribers[Quit][i].owner = a /\ subscribers[Quit][j].owner = b

(* A callback reaches an object that is gone only in the turn of Quit: a   *)
(* protocol, which never unsubscribes, or an activity that subscribed to   *)
(* Quit after the dispatcher and was destroyed in that very turn, since    *)
(* do_unsubscribe does nothing once running_ is false.                     *)
StaleOnlyAtQuit ==
  \A x \in stale :
    /\ x[2] = Quit
    /\ x[1] \in Activities => ~running /\ QuitAfter(Dispatcher, x[1])

(* Callbacks reach objects that live, the turn of Quit apart.              *)
CallbacksAlive == SubscriptionsAlive /\ StaleOnlyAtQuit

Interested(a, e) ==
  \E i \in DOMAIN Handlers[a] :
    Handlers[a][i][1] = e.type /\ (\/ Handlers[a][i][2] \in {NoSource, e.source}
                                  \/ e.source = NoSource)

Taken(a) == handled[a] \o handlers[a]

(* An activity that has registered gets every event raised since then that *)
(* one of its handlers is for, once and in the order in which they were    *)
(* raised, and no other event.                                             *)
EventsInOrder ==
  \A a \in Activities :
    /\ \A i, j \in DOMAIN Taken(a) : i < j => Taken(a)[i].id < Taken(a)[j].id
    /\ \A i \in DOMAIN Taken(a) : Interested(a, Taken(a)[i])
    /\ life[a] = "waiting" =>
         \A i \in since[a] + 1 .. Len(raised) - Len(events) :
           (Interested(a, raised[i]) /\ raised[i] # turn.event)
             => raised[i] \in ToSet(Taken(a))

(* An activity is made from an event only if no subscriber was given it.   *)
AutoOnlyIfUntaken ==
  \A x \in autos, a \in Activities : x.event \notin ToSet(Taken(a))

(* Each event reaches those that wait for it, once and in order, or else   *)
(* the activity that is made from it, never both.                          *)
EventsDelivered == EventsInOrder /\ AutoOnlyIfUntaken

QuitPending == running /\ \E i \in DOMAIN events : events[i].type = Quit

(* Quit ends the dispatcher and every activity that was subscribed to it   *)
(* before its turn, those whose callbacks come after the one that clears   *)
(* running_ included.                                                      *)
QuitEndsAll ==
  /\ QuitPending ~> disp = "ended"
  /\ \A a \in Activities :
       (QuitPending /\ life[a] = "waiting" /\ Interested(a, [type |-> Quit, source |-> NoSource]))
         ~> life[a] = "destroyed"

=============================================================================
