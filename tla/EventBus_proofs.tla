--------------------------- MODULE EventBus_proofs ---------------------------
(***************************************************************************)
(* Proofs about EventBus, for any activities, handlers, protocols and      *)
(* events.                                                                 *)
(***************************************************************************)
EXTENDS EventBus, SequenceTheorems, TLAPS

AllTypes == Types \cup {Quit}

(* The number of events the dispatcher has taken. *)
Done == Len(raised) - Len(events)

(* An event is its place in the order of the raises. *)
QueueInv ==
  /\ Len(raised) <= MaxRaises /\ Len(events) <= Len(raised)
  /\ \A i \in 1 .. Len(raised) : raised[i].id = i
  /\ \A i \in 1 .. Len(events) : events[i] = raised[Done + i]
  /\ IF disp \in {"callbacks", "release"}
     THEN Done > 0 /\ turn.event = raised[Done]
     ELSE turn.event = None

-----------------------------------------------------------------------------
(* The subscriptions: the tokens of an activity that it did not erase yet, *)
(* one of each protocol that has started, one of the dispatcher.           *)

TokensOfLife(a) ==
  /\ erased[a] <= tokens[a] /\ tokens[a] <= Len(Handlers[a])
  /\ life[a] # "stopped"
  /\ life[a] \in {"registering", "waiting"} => erased[a] = 0
  /\ life[a] = "registering" <=> tokens[a] < Len(Handlers[a])
  /\ life[a] = "erasing" => erased[a] < tokens[a]
  /\ life[a] = "destroyed" /\ running => erased[a] = tokens[a]

ActivityTokens(a) ==
  /\ TokensOfLife(a)
  /\ \A k \in erased[a] + 1 .. tokens[a] :
       \E i \in DOMAIN subscribers[Handlers[a][k][1]] :
         subscribers[Handlers[a][k][1]][i].owner = a

OwnerKnown(t, s) ==
  /\ s.owner \in Activities =>
       \E k \in erased[s.owner] + 1 .. tokens[s.owner] :
         Handlers[s.owner][k] = <<t, s.source>>
  /\ s.owner \notin Activities => t = Quit
  /\ s.owner \in Protocols => life[s.owner] # "registering"
  /\ s.owner = Dispatcher => disp # "start"

OncePerType ==
  \A t \in AllTypes : \A i, j \in DOMAIN subscribers[t] :
    subscribers[t][i].owner = subscribers[t][j].owner => i = j

SubscriptionInv ==
  /\ \A a \in Activities : ActivityTokens(a)
  /\ \A t \in AllTypes : \A i \in DOMAIN subscribers[t] : OwnerKnown(t, subscribers[t][i])
  /\ OncePerType

-----------------------------------------------------------------------------
(* The turn of the dispatcher: once running_ is false the turn is that of  *)
(* Quit and the callback of the dispatcher is behind.                      *)

TurnInv ==
  disp = "callbacks" =>
    /\ turn.next <= Len(Row) + 1
    /\ ~running => /\ turn.event.type = Quit
                   /\ \E i \in DOMAIN Row : i < turn.next /\ Row[i].owner = Dispatcher

StaleInv ==
  \A x \in stale :
    /\ x[2] = Quit /\ life[x[1]] = "destroyed"
    /\ x[1] \in Activities => ~running /\ QuitAfter(Dispatcher, x[1])

-----------------------------------------------------------------------------
(* The deliveries.                                                         *)

(* The turn of the dispatcher has not come to the callback of a yet. *)
Ahead(a) ==
  disp = "callbacks" /\ \E k \in DOMAIN Row : turn.next <= k /\ Row[k].owner = a

TakenInv(a) ==
  /\ \A i \in DOMAIN Taken(a) :
       /\ Taken(a)[i].id \in 1 .. Done /\ Taken(a)[i] = raised[Taken(a)[i].id]
       /\ Interested(a, Taken(a)[i])
       /\ Ahead(a) => Taken(a)[i].id < Done
       /\ disp = "callbacks" /\ ~turn.delivered => Taken(a)[i].id < Done
  /\ \A i, j \in DOMAIN Taken(a) : i < j => Taken(a)[i].id < Taken(a)[j].id

NothingMissed(a) ==
  life[a] = "waiting" =>
    \A i \in since[a] + 1 .. Done :
      Interested(a, raised[i]) =>
        raised[i] \in ToSet(Taken(a)) \/ (i = Done /\ Ahead(a))

AutosInv ==
  \A x \in autos :
    /\ x.event.id \in 1 .. Done /\ x.event = raised[x.event.id]
    /\ disp = "callbacks" => x.event.id < Done
    /\ \A a \in Activities : x.event \notin ToSet(Taken(a))

Inv ==
  /\ TypeOK /\ QueueInv /\ SubscriptionInv /\ TurnInv /\ StaleInv
  /\ \A a \in Activities : TakenInv(a) /\ NothingMissed(a)
  /\ AutosInv

-----------------------------------------------------------------------------
(* Sequences.                                                              *)

LEMMA AppendElements ==
  ASSUME NEW S, NEW s \in Seq(S), NEW e \in S
  PROVE  /\ Append(s, e) \in Seq(S)
         /\ Len(Append(s, e)) = Len(s) + 1
         /\ DOMAIN Append(s, e) = 1 .. Len(s) + 1
         /\ DOMAIN s = 1 .. Len(s) /\ Len(s) \in Nat
         /\ \A i \in 1 .. Len(s) : Append(s, e)[i] = s[i]
         /\ Append(s, e)[Len(s) + 1] = e
BY AppendProperties, LenProperties

LEMMA AppendSet ==
  ASSUME NEW S, NEW s \in Seq(S), NEW e \in S
  PROVE  \A x : x \in ToSet(Append(s, e)) <=> x \in ToSet(s) \/ x = e
<1> DEFINE t == Append(s, e)
<1>1. /\ DOMAIN t = 1 .. Len(s) + 1 /\ DOMAIN s = 1 .. Len(s) /\ Len(s) \in Nat
      /\ \A i \in 1 .. Len(s) : t[i] = s[i]
      /\ t[Len(s) + 1] = e
  BY AppendElements
<1> HIDE DEF t
<1>2. \A i \in DOMAIN t : i \in DOMAIN s \/ i = Len(s) + 1
  BY <1>1
<1>3. Len(s) + 1 \in DOMAIN t
  BY <1>1
<1>4. \A i \in DOMAIN s : i \in DOMAIN t /\ t[i] = s[i]
  BY <1>1
<1>5. \A x : x \in ToSet(t) <=> x \in ToSet(s) \/ x = e
  BY <1>1, <1>2, <1>3, <1>4 DEF ToSet
<1> QED BY <1>5 DEF t

LEMMA ExceptTyped ==
  ASSUME NEW S, NEW T, NEW f \in [S -> T], NEW x, NEW v \in T
  PROVE  [f EXCEPT ![x] = v] \in [S -> T]
OBVIOUS

LEMMA RemoveElements ==
  ASSUME NEW S, NEW s \in Seq(S), NEW p \in 1 .. Len(s)
  PROVE  /\ RemoveAt(s, p) \in Seq(S)
         /\ Len(RemoveAt(s, p)) = Len(s) - 1
         /\ \A i \in 1 .. Len(s) - 1 :
              RemoveAt(s, p)[i] = IF i < p THEN s[i] ELSE s[i + 1]
<1> DEFINE l == SubSeq(s, 1, p - 1)
           r == SubSeq(s, p + 1, Len(s))
<1>0. Len(s) \in Nat /\ p \in Int /\ \A i \in 1 .. Len(s) : s[i] \in S
  BY LenProperties, ElementOfSeq
<1>1. /\ l \in Seq(S) /\ Len(l) = p - 1
      /\ \A i \in 1 .. p - 1 : l[i] = s[i]
  <2>1. p - 1 \in Int /\ 1 \in Int /\ \A i \in 1 .. p - 1 : s[i] \in S
    BY <1>0
  <2>2. /\ l \in Seq(S) /\ Len(l) = IF 1 <= p - 1 THEN p - 1 - 1 + 1 ELSE 0
        /\ \A i \in 1 .. p - 1 - 1 + 1 : l[i] = s[1 + i - 1]
    BY <2>1, SubSeqProperties
  <2> HIDE DEF l
  <2> QED BY <1>0, <2>2
<1>2. /\ r \in Seq(S) /\ Len(r) = Len(s) - p
      /\ \A i \in 1 .. Len(s) - p : r[i] = s[p + i]
  <2>1. p + 1 \in Int /\ Len(s) \in Int /\ \A i \in p + 1 .. Len(s) : s[i] \in S
    BY <1>0
  <2>2. /\ r \in Seq(S)
        /\ Len(r) = IF p + 1 <= Len(s) THEN Len(s) - (p + 1) + 1 ELSE 0
        /\ \A i \in 1 .. Len(s) - (p + 1) + 1 : r[i] = s[p + 1 + i - 1]
    BY <2>1, SubSeqProperties
  <2> HIDE DEF r
  <2> QED BY <1>0, <2>2
<1>3. RemoveAt(s, p) = l \o r
  BY DEF RemoveAt
<1> HIDE DEF l, r
<1>4. /\ l \o r \in Seq(S) /\ Len(l \o r) = Len(l) + Len(r)
      /\ \A i \in 1 .. Len(l) + Len(r) :
           (l \o r)[i] = IF i <= Len(l) THEN l[i] ELSE r[i - Len(l)]
  BY <1>1, <1>2, ConcatProperties
<1>5. ASSUME NEW i \in 1 .. Len(s) - 1
      PROVE  (l \o r)[i] = IF i < p THEN s[i] ELSE s[i + 1]
  <2>1. i \in 1 .. Len(l) + Len(r)
    BY <1>0, <1>1, <1>2
  <2>2. CASE i < p
    BY <1>0, <1>1, <1>4, <2>1, <2>2
  <2>3. CASE ~(i < p)
    <3>1. i - Len(l) \in 1 .. Len(s) - p /\ ~(i <= Len(l))
      BY <1>0, <1>1, <2>3
    <3>2. r[i - Len(l)] = s[p + (i - Len(l))]
      BY <1>2, <3>1
    <3>3. p + (i - Len(l)) = i + 1
      BY <1>0, <1>1
    <3> QED BY <1>4, <2>1, <2>3, <3>1, <3>2, <3>3
  <2> QED BY <2>2, <2>3
<1> QED BY <1>0, <1>1, <1>2, <1>3, <1>4, <1>5

-----------------------------------------------------------------------------
(* The steps.                                                              *)

LEMMA StepCases ==
  ASSUME [Next]_vars
  PROVE  \/ \E type \in AllTypes, source \in Sources \cup {NoSource} : Raise(type, source)
         \/ DispatcherSubscribe \/ DispatcherPop \/ DispatcherCall
         \/ DispatcherUnlock \/ DispatcherRelease
         \/ \E x \in autos : AutoRead(x)
         \/ \E a \in Activities : \/ Register(a) \/ WaitEvent(a) \/ Leave(a)
                                \/ UnsubscribeCheck(a) \/ UnsubscribeErase(a)
         \/ \E p \in Protocols : ProtocolStart(p) \/ ProtocolDestroy(p)
         \/ UNCHANGED vars
<1>1. \A r \in Raises : r[1] \in AllTypes /\ r[2] \in Sources \cup {NoSource}
  BY BusAssumption DEF AllTypes
<1>2. Leavers \subseteq Activities /\ Quit \in AllTypes
  BY BusAssumption DEF AllTypes
<1> QED BY <1>1, <1>2 DEF Next, Dispatch, Activity

LEMMA HandlersTyped ==
  ASSUME NEW a \in Activities, NEW k \in 1 .. Len(Handlers[a])
  PROVE  /\ Handlers[a][k][1] \in AllTypes /\ Handlers[a][k][2] \in Sources \cup {NoSource}
         /\ Handlers[a][k] = <<Handlers[a][k][1], Handlers[a][k][2]>>
<1>1. Handlers[a] \in Seq(AllTypes \X (Sources \cup {NoSource}))
  BY HandlersAssumption DEF AllTypes
<1>2. Handlers[a][k] \in AllTypes \X (Sources \cup {NoSource})
  BY <1>1, ElementOfSeq
<1> QED BY <1>2

LEMMA HandlersApart ==
  ASSUME NEW a \in Activities
  PROVE  /\ Len(Handlers[a]) \in Nat \ {0} /\ DOMAIN Handlers[a] = 1 .. Len(Handlers[a])
         /\ \A i, j \in 1 .. Len(Handlers[a]) : Handlers[a][i][1] = Handlers[a][j][1] => i = j
<1>1. Handlers[a] \in Seq(AllTypes \X (Sources \cup {NoSource}))
  BY HandlersAssumption DEF AllTypes
<1>2. Handlers[a] # <<>>
  BY HandlersAssumption
<1>3. Len(Handlers[a]) \in Nat \ {0} /\ DOMAIN Handlers[a] = 1 .. Len(Handlers[a])
  BY <1>1, <1>2, LenProperties, EmptySeq
<1> QED BY <1>3, HandlersAssumption

(* A subscription that is added, and where. *)
LEMMA SubscribeTyped ==
  ASSUME TypeOK, NEW owner \in Activities \cup Protocols \cup {Dispatcher},
         NEW type \in AllTypes, NEW source \in Sources \cup {NoSource},
         Subscribe(owner, type, source)
  PROVE  /\ subscribers' \in [AllTypes -> Seq(Subscription)]
         /\ \A t \in AllTypes : subscribers'[t] =
              IF t = type
              THEN Append(subscribers[t], [owner |-> owner, source |-> source])
              ELSE subscribers[t]
         /\ [owner |-> owner, source |-> source] \in Subscription
<1> DEFINE s == [owner |-> owner, source |-> source]
<1>1. s \in Subscription
  BY DEF Subscription
<1>2. subscribers \in [AllTypes -> Seq(Subscription)]
  BY DEF TypeOK, AllTypes
<1>3. subscribers' = [subscribers EXCEPT ![type] = Append(subscribers[type], s)]
  BY DEF Subscribe
<1> HIDE DEF s
<1>4. Append(subscribers[type], s) \in Seq(Subscription)
  BY <1>1, <1>2, AppendProperties
<1>5. \A t \in AllTypes : subscribers'[t] =
        IF t = type THEN Append(subscribers[t], s) ELSE subscribers[t]
  BY <1>2, <1>3
<1> QED BY <1>1, <1>2, <1>3, <1>4, <1>5 DEF s

(* A subscription of a that is erased, and where. *)
LEMMA EraseTyped ==
  ASSUME TypeOK, NEW a \in Activities, ActivityTokens(a), UnsubscribeErase(a)
  PROVE  /\ erased[a] + 1 \in 1 .. Len(Handlers[a]) /\ erased[a] < tokens[a]
         /\ TokenType(a) \in AllTypes
         /\ Place(a, TokenType(a)) \in 1 .. Len(subscribers[TokenType(a)])
         /\ subscribers[TokenType(a)][Place(a, TokenType(a))].owner = a
         /\ subscribers' = [subscribers EXCEPT ![TokenType(a)] =
                              RemoveAt(subscribers[TokenType(a)], Place(a, TokenType(a)))]
<1>1. /\ erased[a] \in Nat /\ tokens[a] \in Nat /\ erased[a] < tokens[a]
      /\ tokens[a] <= Len(Handlers[a])
  BY DEF TypeOK, ActivityTokens, TokensOfLife, UnsubscribeErase
<1>2. erased[a] + 1 \in 1 .. Len(Handlers[a]) /\ erased[a] + 1 \in erased[a] + 1 .. tokens[a]
  BY <1>1, HandlersApart
<1>3. TokenType(a) \in AllTypes
  BY <1>2, HandlersTyped DEF TokenType
<1>4. subscribers[TokenType(a)] \in Seq(Subscription)
  BY <1>3 DEF TypeOK, AllTypes
<1>5. \E i \in DOMAIN subscribers[TokenType(a)] : subscribers[TokenType(a)][i].owner = a
  BY <1>2 DEF ActivityTokens, TokenType
<1>6. /\ Place(a, TokenType(a)) \in DOMAIN subscribers[TokenType(a)]
      /\ subscribers[TokenType(a)][Place(a, TokenType(a))].owner = a
  BY <1>5 DEF Place
<1>7. DOMAIN subscribers[TokenType(a)] = 1 .. Len(subscribers[TokenType(a)])
  BY <1>4, LenProperties
<1> QED BY <1>1, <1>2, <1>3, <1>6, <1>7 DEF UnsubscribeErase, Erased

-----------------------------------------------------------------------------
(* Types.                                                                  *)

LEMMA RaiseTyped ==
  ASSUME TypeOK, QueueInv, NEW type \in AllTypes, NEW source \in Sources \cup {NoSource},
         Raise(type, source)
  PROVE  /\ events' \in Seq(Events) /\ raised' \in Seq(Events)
         /\ Len(events') = Len(events) + 1 /\ Len(raised') = Len(raised) + 1
         /\ Len(raised') <= MaxRaises /\ Len(raised) \in Nat /\ Len(events) \in Nat
         /\ \A i \in 1 .. Len(events) : events'[i] = events[i]
         /\ \A i \in 1 .. Len(raised) : raised'[i] = raised[i]
         /\ events'[Len(events) + 1] = raised'[Len(raised) + 1]
         /\ raised'[Len(raised) + 1].id = Len(raised) + 1
<1> DEFINE e == [id |-> Len(raised) + 1, type |-> type, source |-> source]
<1>1. events \in Seq(Events) /\ raised \in Seq(Events) /\ Len(raised) \in Nat
  BY LenProperties DEF TypeOK
<1>2. Len(raised) + 1 \in 1 .. MaxRaises
  BY <1>1, BusAssumption DEF Raise
<1>3. e \in Events /\ e.id = Len(raised) + 1
  BY <1>2 DEF Events, AllTypes
<1>4. events' = Append(events, e) /\ raised' = Append(raised, e)
  BY DEF Raise
<1> HIDE DEF e
<1>5. /\ Append(events, e) \in Seq(Events) /\ Len(Append(events, e)) = Len(events) + 1
      /\ \A i \in 1 .. Len(events) : Append(events, e)[i] = events[i]
      /\ Append(events, e)[Len(events) + 1] = e /\ Len(events) \in Nat
  BY <1>1, <1>3, AppendElements
<1>6. /\ Append(raised, e) \in Seq(Events) /\ Len(Append(raised, e)) = Len(raised) + 1
      /\ \A i \in 1 .. Len(raised) : Append(raised, e)[i] = raised[i]
      /\ Append(raised, e)[Len(raised) + 1] = e
  BY <1>1, <1>3, AppendElements
<1> QED BY <1>1, <1>2, <1>3, <1>4, <1>5, <1>6

LEMMA PopTyped ==
  ASSUME TypeOK, events # <<>>
  PROVE  /\ Head(events) \in Events /\ Tail(events) \in Seq(Events)
         /\ Head(events) = events[1] /\ Len(events) \in Nat \ {0}
         /\ Len(Tail(events)) = Len(events) - 1
         /\ \A i \in 1 .. Len(events) - 1 : Tail(events)[i] = events[i + 1]
<1>1. events \in Seq(Events)
  BY DEF TypeOK
<1>2. Len(events) \in Nat \ {0}
  BY <1>1, EmptySeq, LenProperties
<1>3. Head(events) = events[1]
  BY <1>1
<1>4. Head(events) \in Events /\ Tail(events) \in Seq(Events)
      /\ Len(Tail(events)) = Len(events) - 1
      /\ \A i \in 1 .. Len(Tail(events)) : Tail(events)[i] = events[i + 1]
  BY <1>1, HeadTailProperties
<1> QED BY <1>2, <1>3, <1>4

(* The callback whose turn it is. *)
LEMMA CallTyped ==
  ASSUME TypeOK, QueueInv, DispatcherCall
  PROVE  /\ turn.event \in Events /\ turn.event.type \in AllTypes
         /\ Row \in Seq(Subscription) /\ DOMAIN Row = 1 .. Len(Row) /\ Len(Row) \in Nat
         /\ turn.next \in 1 .. Len(Row) /\ Row[turn.next] \in Subscription
         /\ turn' = [event |-> turn.event, next |-> turn.next + 1,
                     delivered |-> turn.delivered \/ SourceValid(Row[turn.next], turn.event)]
<1>1. /\ disp = "callbacks" /\ turn.next <= Len(Row)
      /\ turn' = [turn EXCEPT !.next = turn.next + 1,
                              !.delivered = turn.delivered
                                            \/ SourceValid(Row[turn.next], turn.event)]
  BY DEF DispatcherCall, Advance, Delivered
<1>2. /\ turn \in [event : Events \cup {None}, next : Nat \ {0}, delivered : BOOLEAN]
      /\ raised \in Seq(Events) /\ Len(raised) \in Nat /\ Len(events) \in Nat
  BY LenProperties DEF TypeOK
<1>3. Done \in 1 .. Len(raised) /\ turn.event = raised[Done]
  BY <1>1, <1>2 DEF QueueInv, Done
<1>4. turn.event \in Events
  BY <1>2, <1>3, ElementOfSeq
<1>5. turn.event.type \in AllTypes
  BY <1>4 DEF Events, AllTypes
<1>6. Row \in Seq(Subscription)
  BY <1>5 DEF Row, TypeOK, AllTypes
<1>7. DOMAIN Row = 1 .. Len(Row) /\ Len(Row) \in Nat
  BY <1>6, LenProperties
<1>8. turn.next \in 1 .. Len(Row)
  BY <1>1, <1>2, <1>7
<1>9. Row[turn.next] \in Subscription
  BY <1>6, <1>8, ElementOfSeq
<1>10. turn' = [event |-> turn.event, next |-> turn.next + 1,
                delivered |-> turn.delivered \/ SourceValid(Row[turn.next], turn.event)]
  BY <1>1, <1>2
<1> QED BY <1>4, <1>5, <1>6, <1>7, <1>8, <1>9, <1>10

(* What a call does to whom. *)
LEMMA CallCases ==
  ASSUME TypeOK, QueueInv, DispatcherCall
  PROVE  LET s == Row[turn.next]
             valid == SourceValid(s, turn.event)
         IN /\ running' <=> running /\ ~(valid /\ s.owner = Dispatcher)
            /\ stale' = IF valid /\ s.owner # Dispatcher /\ life[s.owner] = "destroyed"
                        THEN stale \cup {<<s.owner, turn.event.type>>} ELSE stale
            /\ handlers' = IF valid /\ s.owner \in Activities /\ life[s.owner] # "destroyed"
                           THEN [handlers EXCEPT ![s.owner] = Append(@, turn.event)]
                           ELSE handlers
            /\ life' = IF valid /\ s.owner \in Protocols /\ life[s.owner] # "destroyed"
                       THEN [life EXCEPT ![s.owner] = "stopped"] ELSE life
BY DEF DispatcherCall, Call, TypeOK

LEMMA TypeStep ==
  ASSUME TypeOK, QueueInv, SubscriptionInv, [Next]_vars
  PROVE  TypeOK'
<1> USE DEF busVars, turnVars, tokenVars, actVars
<1>1. ASSUME NEW type \in AllTypes, NEW source \in Sources \cup {NoSource},
             Raise(type, source)
      PROVE  TypeOK'
  <2>1. events' \in Seq(Events) /\ raised' \in Seq(Events)
    BY <1>1, RaiseTyped
  <2> QED BY <1>1, <2>1 DEF Raise, TypeOK
<1>2. CASE DispatcherSubscribe
  <2>1. subscribers' \in [AllTypes -> Seq(Subscription)]
    BY <1>2, SubscribeTyped DEF DispatcherSubscribe, AllTypes
  <2> QED BY <1>2, <2>1 DEF DispatcherSubscribe, TypeOK, AllTypes
<1>3. CASE DispatcherPop
  <2>1. Head(events) \in Events /\ Tail(events) \in Seq(Events)
    BY <1>3, PopTyped DEF DispatcherPop
  <2> QED BY <1>3, <2>1 DEF DispatcherPop, TypeOK
<1>4. CASE DispatcherCall
  <2> DEFINE s == Row[turn.next]
  <2>1. /\ turn.event \in Events /\ turn.event.type \in AllTypes
        /\ s \in Subscription /\ turn.next \in Nat
        /\ turn' = [event |-> turn.event, next |-> turn.next + 1,
                    delivered |-> turn.delivered \/ SourceValid(s, turn.event)]
    BY <1>4, CallTyped
  <2>2. turn' \in [event : Events \cup {None}, next : Nat \ {0}, delivered : BOOLEAN]
    <3>1. turn.delivered \in BOOLEAN
      BY DEF TypeOK
    <3>2. SourceValid(s, turn.event) \in BOOLEAN
      BY DEF SourceValid
    <3>3. turn.next + 1 \in Nat \ {0}
      BY <2>1
    <3> QED BY <2>1, <3>1, <3>2, <3>3
  <2>3. running' \in BOOLEAN
    BY <1>4 DEF DispatcherCall, Call, TypeOK
  <2>4. stale' \subseteq (Activities \cup Protocols) \X AllTypes
    <3>1. s.owner # Dispatcher => s.owner \in Activities \cup Protocols
      BY <2>1 DEF Subscription
    <3>2. \/ stale' = stale
          \/ s.owner # Dispatcher /\ stale' = stale \cup {<<s.owner, turn.event.type>>}
      BY <1>4, CallCases
    <3>3. stale \subseteq (Activities \cup Protocols) \X AllTypes
      BY DEF TypeOK, AllTypes
    <3> HIDE DEF s
    <3> QED BY <2>1, <3>1, <3>2, <3>3
  <2>5. handlers' \in [Activities -> Seq(Events)]
    <3> DEFINE o == s.owner
    <3>1. CASE o \in Activities /\ handlers' = [handlers EXCEPT ![o] = Append(@, turn.event)]
      <4>1. handlers[o] \in Seq(Events)
        BY <3>1 DEF TypeOK
      <4>2. Append(handlers[o], turn.event) \in Seq(Events)
        BY <2>1, <4>1, AppendProperties
      <4> HIDE DEF o
      <4> QED BY <3>1, <4>2 DEF TypeOK
    <3>2. CASE handlers' = handlers
      BY <3>2 DEF TypeOK
    <3> QED BY <1>4, <3>1, <3>2, CallCases
  <2>6. life' \in [Activities \cup Protocols -> {"registering", "waiting", "leaving",
                                                "erasing", "stopped", "destroyed"}]
    BY <1>4, CallCases DEF TypeOK
  <2> QED BY <1>4, <2>2, <2>3, <2>4, <2>5, <2>6 DEF DispatcherCall, TypeOK, AllTypes
<1>5. CASE DispatcherUnlock
  <2>1. turn.event \in Events
    <3>1. raised \in Seq(Events) /\ Done \in 1 .. Len(raised) /\ turn.event = raised[Done]
      BY <1>5, LenProperties DEF DispatcherUnlock, QueueInv, Done, TypeOK
    <3> QED BY <3>1, ElementOfSeq
  <2> QED BY <1>5, <2>1 DEF DispatcherUnlock, TypeOK
<1>6. CASE DispatcherRelease
  BY <1>6 DEF DispatcherRelease, TypeOK
<1>7. ASSUME NEW x \in autos, AutoRead(x) PROVE TypeOK'
  <2>1. autos' \subseteq [event : Events, read : {"no", "live", "stale"}]
    BY <1>7 DEF AutoRead, TypeOK
  <2> QED BY <1>7, <2>1 DEF AutoRead, TypeOK
<1>8. ASSUME NEW a \in Activities, Register(a) PROVE TypeOK'
  <2>1. /\ tokens[a] + 1 \in 1 .. Len(Handlers[a])
    BY <1>8, HandlersApart DEF Register, SubscriptionInv, ActivityTokens, TokensOfLife, TypeOK
  <2>2. subscribers' \in [AllTypes -> Seq(Subscription)]
    BY <1>8, <2>1, HandlersTyped, SubscribeTyped DEF Register
  <2>3. Len(raised) \in 0 .. MaxRaises
    BY LenProperties DEF QueueInv, TypeOK
  <2>4. life' \in [Activities \cup Protocols -> {"registering", "waiting", "leaving",
                                                "erasing", "stopped", "destroyed"}]
        /\ since' \in [Activities -> 0 .. MaxRaises]
    <3>1. \/ life' = [life EXCEPT ![a] = "waiting"] /\ since' = [since EXCEPT ![a] = Len(raised)]
          \/ UNCHANGED <<life, since>>
      BY <1>8 DEF Register
    <3>2. /\ since \in [Activities -> 0 .. MaxRaises]
          /\ life \in [Activities \cup Protocols -> {"registering", "waiting", "leaving",
                                                    "erasing", "stopped", "destroyed"}]
      BY DEF TypeOK
    <3> QED BY <2>3, <3>1, <3>2, ExceptTyped, SMTT(30)
  <2>5. tokens' \in [Activities -> Nat]
    BY <1>8 DEF Register, TypeOK
  <2> QED BY <1>8, <2>2, <2>4, <2>5 DEF Register, TypeOK, AllTypes
<1>9. ASSUME NEW a \in Activities, WaitEvent(a) PROVE TypeOK'
  <2>1. Head(handlers[a]) \in Events /\ Tail(handlers[a]) \in Seq(Events)
    BY <1>9, HeadTailProperties DEF WaitEvent, TypeOK
  <2>2. Append(handled[a], Head(handlers[a])) \in Seq(Events)
    BY <2>1, AppendProperties DEF TypeOK
  <2> QED BY <1>9, <2>1, <2>2 DEF WaitEvent, TypeOK
<1>10. ASSUME NEW a \in Activities, Leave(a) \/ UnsubscribeCheck(a) PROVE TypeOK'
  <2>1. handlers' \in [Activities -> Seq(Events)]
    <3>1. handlers' = handlers \/ handlers' = [handlers EXCEPT ![a] = <<>>]
      BY <1>10 DEF Leave, UnsubscribeCheck
    <3>2. <<>> \in Seq(Events) /\ handlers \in [Activities -> Seq(Events)]
      BY DEF TypeOK
    <3> QED BY <3>1, <3>2, ExceptTyped
  <2>2. life' \in [Activities \cup Protocols -> {"registering", "waiting", "leaving",
                                                "erasing", "stopped", "destroyed"}]
    BY <1>10 DEF Leave, UnsubscribeCheck, TypeOK
  <2> QED BY <1>10, <2>1, <2>2 DEF Leave, UnsubscribeCheck, TypeOK
<1>11. ASSUME NEW a \in Activities, UnsubscribeErase(a) PROVE TypeOK'
  <2> DEFINE t == TokenType(a)
             row == RemoveAt(subscribers[t], Place(a, t))
  <2>1. /\ t \in AllTypes /\ Place(a, t) \in 1 .. Len(subscribers[t])
        /\ subscribers' = [subscribers EXCEPT ![t] = row]
    BY <1>11, EraseTyped DEF SubscriptionInv
  <2>2. subscribers \in [AllTypes -> Seq(Subscription)]
    BY DEF TypeOK, AllTypes
  <2>3. row \in Seq(Subscription)
    BY <2>1, <2>2, RemoveElements
  <2> HIDE DEF row
  <2>4. subscribers' \in [AllTypes -> Seq(Subscription)]
    BY <2>1, <2>2, <2>3
  <2>5. erased' \in [Activities -> Nat]
    BY <1>11 DEF UnsubscribeErase, TypeOK
  <2>6. life' \in [Activities \cup Protocols -> {"registering", "waiting", "leaving",
                                                "erasing", "stopped", "destroyed"}]
    BY <1>11 DEF UnsubscribeErase, TypeOK
  <2> QED BY <1>11, <2>4, <2>5, <2>6 DEF UnsubscribeErase, TypeOK, AllTypes
<1>12. ASSUME NEW p \in Protocols, ProtocolStart(p) PROVE TypeOK'
  <2>1. subscribers' \in [AllTypes -> Seq(Subscription)]
    BY <1>12, SubscribeTyped DEF ProtocolStart, AllTypes
  <2> QED BY <1>12, <2>1 DEF ProtocolStart, TypeOK, AllTypes
<1>13. ASSUME NEW p \in Protocols, ProtocolDestroy(p) PROVE TypeOK'
  BY <1>13 DEF ProtocolDestroy, TypeOK
<1>14. CASE UNCHANGED vars
  BY <1>14 DEF vars, TypeOK
<1> QED BY <1>1, <1>2, <1>3, <1>4, <1>5, <1>6, <1>7, <1>8, <1>9, <1>10, <1>11,
           <1>12, <1>13, <1>14, StepCases

-----------------------------------------------------------------------------
(* The queue.                                                              *)

LEMMA QueueStep ==
  ASSUME TypeOK, TypeOK', QueueInv, [Next]_vars
  PROVE  QueueInv'
<1>0. Len(raised) \in Nat /\ Len(events) \in Nat
  BY LenProperties DEF TypeOK
<1>1. ASSUME NEW type \in AllTypes, NEW source \in Sources \cup {NoSource},
             Raise(type, source)
      PROVE  QueueInv'
  <2>1. /\ Len(events') = Len(events) + 1 /\ Len(raised') = Len(raised) + 1
        /\ Len(raised') <= MaxRaises
        /\ \A i \in 1 .. Len(events) : events'[i] = events[i]
        /\ \A i \in 1 .. Len(raised) : raised'[i] = raised[i]
        /\ events'[Len(events) + 1] = raised'[Len(raised) + 1]
        /\ raised'[Len(raised) + 1].id = Len(raised) + 1
    BY <1>1, RaiseTyped
  <2>2. Done' = Done /\ UNCHANGED <<disp, turn>>
    BY <1>0, <1>1, <2>1 DEF Done, Raise, turnVars
  <2>3. \A i \in 1 .. Len(raised') : raised'[i].id = i
    BY <1>0, <2>1 DEF QueueInv
  <2>4. \A i \in 1 .. Len(events') : events'[i] = raised'[Done + i]
    <3> TAKE i \in 1 .. Len(events')
    <3>1. CASE i \in 1 .. Len(events)
      <4>1. Done + i \in 1 .. Len(raised)
        BY <1>0, <3>1 DEF Done, QueueInv
      <4> QED BY <2>1, <3>1, <4>1 DEF QueueInv
    <3>2. CASE i = Len(events) + 1
      BY <1>0, <2>1, <3>2 DEF Done
    <3> QED BY <1>0, <2>1, <3>1, <3>2
  <2>5. disp \in {"callbacks", "release"} => raised'[Done] = raised[Done]
    BY <1>0, <2>1 DEF QueueInv, Done
  <2> QED BY <1>0, <2>1, <2>2, <2>3, <2>4, <2>5 DEF QueueInv
<1>2. CASE DispatcherPop
  <2>1. /\ Len(events') = Len(events) - 1 /\ raised' = raised /\ Len(events) > 0
        /\ \A i \in 1 .. Len(events) - 1 : events'[i] = events[i + 1]
        /\ disp' = "callbacks" /\ turn'.event = events[1]
    BY <1>2, PopTyped DEF DispatcherPop
  <2>2. Done' = Done + 1 /\ Done \in Nat
    BY <1>0, <2>1 DEF Done, QueueInv
  <2>3. events[1] = raised[Done + 1]
    BY <1>0, <2>1 DEF QueueInv
  <2>4. \A i \in 1 .. Len(events) - 1 : events'[i] = raised[Done' + i]
    <3> TAKE i \in 1 .. Len(events) - 1
    <3>1. i + 1 \in 1 .. Len(events) /\ Done + (i + 1) = Done' + i
      BY <1>0, <2>1, <2>2
    <3>2. events[i + 1] = raised[Done + (i + 1)]
      BY <3>1 DEF QueueInv
    <3> QED BY <2>1, <3>1, <3>2
  <2> QED BY <1>0, <2>1, <2>2, <2>3, <2>4 DEF QueueInv
<1>3. CASE DispatcherCall
  <2>1. turn'.event = turn.event /\ UNCHANGED <<events, raised, disp>>
    BY <1>3, CallTyped DEF DispatcherCall
  <2> QED BY <1>3, <2>1 DEF QueueInv, Done
<1>4. CASE DispatcherSubscribe \/ DispatcherUnlock \/ DispatcherRelease
  <2>1. UNCHANGED <<events, raised>>
    BY <1>4 DEF DispatcherSubscribe, DispatcherUnlock, DispatcherRelease, busVars
  <2>2. \/ disp = "start" /\ disp' = "loop" /\ turn' = turn
        \/ disp = "callbacks" /\ disp' = "release" /\ turn' = turn
        \/ disp' \in {"loop", "ended"} /\ turn'.event = None
    BY <1>4 DEF DispatcherSubscribe, DispatcherUnlock, DispatcherRelease
  <2> QED BY <2>1, <2>2 DEF QueueInv, Done
<1>5. CASE UNCHANGED <<events, raised, disp, turn>>
  BY <1>5 DEF QueueInv, Done
<1>6. \/ \E type \in AllTypes, source \in Sources \cup {NoSource} : Raise(type, source)
      \/ DispatcherPop \/ DispatcherCall
      \/ DispatcherSubscribe \/ DispatcherUnlock \/ DispatcherRelease
      \/ UNCHANGED <<events, raised, disp, turn>>
  BY StepCases DEF AutoRead, Register, WaitEvent, Leave, UnsubscribeCheck, UnsubscribeErase,
                   ProtocolStart, ProtocolDestroy, busVars, turnVars, vars
<1> QED BY <1>1, <1>2, <1>3, <1>4, <1>5, <1>6

-----------------------------------------------------------------------------
(* The subscriptions.                                                      *)

LEMMA RowsTyped ==
  ASSUME TypeOK, NEW t \in AllTypes
  PROVE  /\ subscribers[t] \in Seq(Subscription) /\ Len(subscribers[t]) \in Nat
         /\ DOMAIN subscribers[t] = 1 .. Len(subscribers[t])
         /\ \A i \in DOMAIN subscribers[t] : subscribers[t][i] \in Subscription
<1>1. subscribers[t] \in Seq(Subscription)
  BY DEF TypeOK, AllTypes
<1> QED BY <1>1, LenProperties, ElementOfSeq

(* The subscriptions are the old ones and one more, at the end. *)
Added(owner, type, source) ==
  /\ \A t \in AllTypes : \A i \in DOMAIN subscribers[t] :
       i \in DOMAIN subscribers'[t] /\ subscribers'[t][i] = subscribers[t][i]
  /\ \A t \in AllTypes : \A i \in DOMAIN subscribers'[t] :
       \/ i \in DOMAIN subscribers[t]
       \/ /\ t = type /\ subscribers'[t][i] = [owner |-> owner, source |-> source]
          /\ i = Len(subscribers[t]) + 1
  /\ \E i \in DOMAIN subscribers'[type] : subscribers'[type][i].owner = owner

LEMMA RowsAfterSubscribe ==
  ASSUME TypeOK, NEW owner \in Activities \cup Protocols \cup {Dispatcher},
         NEW type \in AllTypes, NEW source \in Sources \cup {NoSource},
         Subscribe(owner, type, source)
  PROVE  Added(owner, type, source)
<1> DEFINE s == [owner |-> owner, source |-> source]
<1>1. /\ s \in Subscription
      /\ \A t \in AllTypes :
           subscribers'[t] = IF t = type THEN Append(subscribers[t], s) ELSE subscribers[t]
  BY SubscribeTyped
<1>2. s.owner = owner
  OBVIOUS
<1> HIDE DEF s
<1> DEFINE old == subscribers[type]
           new == subscribers'[type]
           n == Len(old)
<1>3. /\ DOMAIN new = 1 .. n + 1 /\ DOMAIN old = 1 .. n /\ n \in Nat
      /\ \A i \in 1 .. n : new[i] = old[i]
      /\ new[n + 1] = s
  <2>1. new = Append(old, s) /\ old \in Seq(Subscription)
    BY <1>1, RowsTyped
  <2> HIDE DEF old, new
  <2> QED BY <1>1, <2>1, AppendElements
<1>a. \A t \in AllTypes : t # type => subscribers'[t] = subscribers[t]
  BY <1>1
<1>4. ASSUME NEW t \in AllTypes, NEW i \in DOMAIN subscribers[t]
      PROVE  i \in DOMAIN subscribers'[t] /\ subscribers'[t][i] = subscribers[t][i]
  <2>1. CASE t # type BY <1>a, <2>1
  <2>2. CASE t = type
    <3>1. i \in DOMAIN old BY <2>2
    <3> HIDE DEF old, new
    <3>2. i \in DOMAIN new /\ new[i] = old[i] BY <1>3, <3>1
    <3> QED BY <2>2, <3>2 DEF old, new
  <2> QED BY <2>1, <2>2
<1>5. ASSUME NEW t \in AllTypes, NEW i \in DOMAIN subscribers'[t]
      PROVE  \/ i \in DOMAIN subscribers[t]
             \/ t = type /\ subscribers'[t][i] = s /\ i = Len(subscribers[t]) + 1
  <2>1. CASE t # type BY <1>a, <2>1
  <2>2. CASE t = type
    <3>1. i \in DOMAIN new BY <2>2
    <3> HIDE DEF old, new
    <3>2. i \in DOMAIN old \/ (new[i] = s /\ i = n + 1) BY <1>3, <3>1
    <3> QED BY <2>2, <3>2 DEF old, new
  <2> QED BY <2>1, <2>2
<1>6. \E i \in DOMAIN subscribers'[type] : subscribers'[type][i].owner = owner
  BY <1>1, <1>2, <1>3
<1> QED BY <1>4, <1>5, <1>6 DEF s, Added

(* The subscriptions that are left when a erases one keep their order. *)
LEMMA RowsAfterErase ==
  ASSUME TypeOK, OncePerType, NEW a \in Activities, ActivityTokens(a), UnsubscribeErase(a)
  PROVE  /\ \A t \in AllTypes \ {TokenType(a)} : subscribers'[t] = subscribers[t]
         /\ \A i \in DOMAIN subscribers'[TokenType(a)] :
              \E j \in DOMAIN subscribers[TokenType(a)] :
                /\ subscribers'[TokenType(a)][i] = subscribers[TokenType(a)][j]
                /\ subscribers[TokenType(a)][j].owner # a
         /\ \A t \in AllTypes : \A i, j \in DOMAIN subscribers'[t] :
              subscribers'[t][i].owner = subscribers'[t][j].owner => i = j
         /\ \A t \in AllTypes : \A i \in DOMAIN subscribers[t] :
              subscribers[t][i].owner # a =>
                \E j \in DOMAIN subscribers'[t] : subscribers'[t][j] = subscribers[t][i]
         /\ \A t \in AllTypes : \A i, j \in DOMAIN subscribers[t] :
              i < j /\ subscribers[t][i].owner # a /\ subscribers[t][j].owner # a =>
                \E k, l \in DOMAIN subscribers'[t] :
                  /\ k < l
                  /\ subscribers'[t][k] = subscribers[t][i]
                  /\ subscribers'[t][l] = subscribers[t][j]
<1> DEFINE t == TokenType(a)
           old == subscribers[t]
           p == Place(a, t)
           new == RemoveAt(old, p)
<1>1. /\ t \in AllTypes /\ p \in 1 .. Len(old) /\ old[p].owner = a
      /\ subscribers' = [subscribers EXCEPT ![t] = new]
  BY EraseTyped
<1>2. old \in Seq(Subscription) /\ Len(old) \in Nat /\ DOMAIN old = 1 .. Len(old)
  BY <1>1, RowsTyped
<1>3. subscribers'[t] = new /\ \A u \in AllTypes \ {t} : subscribers'[u] = subscribers[u]
  BY <1>1 DEF TypeOK, AllTypes
<1>4. \A i, j \in DOMAIN old : old[i].owner = old[j].owner => i = j
  BY <1>1 DEF OncePerType
<1>5. /\ new \in Seq(Subscription) /\ Len(new) = Len(old) - 1
      /\ \A i \in 1 .. Len(old) - 1 : new[i] = IF i < p THEN old[i] ELSE old[i + 1]
  BY <1>1, <1>2, RemoveElements
<1>6. DOMAIN new = 1 .. Len(old) - 1
  BY <1>5, LenProperties
<1> HIDE DEF t, old, p, new
<1>7. ASSUME NEW i \in DOMAIN new
      PROVE  LET j == IF i < p THEN i ELSE i + 1
             IN j \in DOMAIN old /\ new[i] = old[j] /\ j # p /\ old[j].owner # a
  <2> DEFINE j == IF i < p THEN i ELSE i + 1
  <2>1. j \in DOMAIN old /\ j # p
    BY <1>1, <1>2, <1>6
  <2>2. new[i] = old[j]
    BY <1>5, <1>6
  <2>3. old[j].owner # a
    BY <1>1, <1>2, <1>4, <2>1
  <2> QED BY <2>1, <2>2, <2>3
<1>8. ASSUME NEW i \in DOMAIN old, old[i].owner # a
      PROVE  LET j == IF i < p THEN i ELSE i - 1
             IN j \in DOMAIN new /\ new[j] = old[i]
  <2>1. i # p
    BY <1>1, <1>8
  <2> QED BY <1>1, <1>2, <1>5, <1>6, <2>1
<1>9. ASSUME NEW i \in DOMAIN new, NEW j \in DOMAIN new, new[i].owner = new[j].owner
      PROVE  i = j
  <2> DEFINE k == IF i < p THEN i ELSE i + 1
             l == IF j < p THEN j ELSE j + 1
  <2>1. k \in DOMAIN old /\ l \in DOMAIN old /\ old[k].owner = old[l].owner
    BY <1>7, <1>9
  <2>2. k = l
    BY <1>4, <2>1
  <2> QED BY <1>1, <1>2, <1>6, <2>2
<1>10. ASSUME NEW i \in DOMAIN old, NEW j \in DOMAIN old, i < j,
              old[i].owner # a, old[j].owner # a
       PROVE  \E k, l \in DOMAIN new : k < l /\ new[k] = old[i] /\ new[l] = old[j]
  <2> DEFINE k == IF i < p THEN i ELSE i - 1
             l == IF j < p THEN j ELSE j - 1
  <2>1. /\ k \in DOMAIN new /\ new[k] = old[i]
        /\ l \in DOMAIN new /\ new[l] = old[j]
    BY <1>8, <1>10
  <2>2. i # p /\ j # p
    BY <1>1, <1>10
  <2>3. k < l
    BY <1>1, <1>2, <1>10, <2>2
  <2> HIDE DEF k, l
  <2> QED BY <2>1, <2>3
<1>11. \A u \in AllTypes : u = t \/ u \in AllTypes \ {t}
  OBVIOUS
<1>12. \A u \in AllTypes : \A i, j \in DOMAIN subscribers'[u] :
         subscribers'[u][i].owner = subscribers'[u][j].owner => i = j
  BY <1>3, <1>9 DEF OncePerType
<1>13. \A u \in AllTypes : \A i \in DOMAIN subscribers[u] :
         subscribers[u][i].owner # a =>
           \E j \in DOMAIN subscribers'[u] : subscribers'[u][j] = subscribers[u][i]
  BY <1>3, <1>8 DEF old
<1>14. \A u \in AllTypes : \A i, j \in DOMAIN subscribers[u] :
         i < j /\ subscribers[u][i].owner # a /\ subscribers[u][j].owner # a =>
           \E k, l \in DOMAIN subscribers'[u] :
             /\ k < l
             /\ subscribers'[u][k] = subscribers[u][i]
             /\ subscribers'[u][l] = subscribers[u][j]
  BY <1>3, <1>10 DEF old
<1>15. \A i \in DOMAIN subscribers'[t] : \E j \in DOMAIN subscribers[t] :
         subscribers'[t][i] = subscribers[t][j] /\ subscribers[t][j].owner # a
  BY <1>3, <1>7 DEF old
<1> QED BY <1>3, <1>12, <1>13, <1>14, <1>15 DEF t

LEMMA KindsApart ==
  /\ \A a \in Activities : a \notin Protocols /\ a # Dispatcher
  /\ \A p \in Protocols : p \notin Activities /\ p # Dispatcher
  /\ Quit \in AllTypes
BY BusAssumption DEF AllTypes

(* Steps that leave the subscriptions alone. *)
LEMMA SubscriptionKept ==
  ASSUME SubscriptionInv, UNCHANGED <<subscribers, tokenVars>>,
         disp' = "start" => disp = "start",
         \A p \in Protocols : life'[p] = "registering" => life[p] = "registering",
         \A a \in Activities : TokensOfLife(a)'
  PROVE  SubscriptionInv'
<1>1. \A a \in Activities : ActivityTokens(a)'
  BY DEF SubscriptionInv, ActivityTokens, tokenVars
<1>2. ASSUME NEW t \in AllTypes, NEW s, OwnerKnown(t, s) PROVE OwnerKnown(t, s)'
  BY <1>2 DEF OwnerKnown, tokenVars
<1>3. OncePerType'
  BY DEF SubscriptionInv, OncePerType
<1> QED BY <1>1, <1>2, <1>3 DEF SubscriptionInv

(* OwnerKnown after a step. *)
KnownNext(t, s) ==
  /\ s.owner \in Activities =>
       \E k \in erased'[s.owner] + 1 .. tokens'[s.owner] :
         Handlers[s.owner][k] = <<t, s.source>>
  /\ s.owner \notin Activities => t = Quit
  /\ s.owner \in Protocols => life'[s.owner] # "registering"
  /\ s.owner = Dispatcher => disp' # "start"

(* A new subscription of somebody who has none to the type yet. *)
LEMMA SubscriptionAdded ==
  ASSUME TypeOK, SubscriptionInv,
         NEW owner, NEW type \in AllTypes, NEW source, Added(owner, type, source),
         \A i \in DOMAIN subscribers[type] : subscribers[type][i].owner # owner,
         KnownNext(type, [owner |-> owner, source |-> source]),
         disp' = "start" => disp = "start",
         \A p \in Protocols : life'[p] = "registering" => life[p] = "registering",
         \A a \in Activities : erased'[a] = erased[a] /\ tokens[a] <= tokens'[a],
         \A a \in Activities : tokens[a] \in Nat /\ tokens'[a] \in Nat /\ erased[a] \in Nat
  PROVE  /\ OncePerType'
         /\ \A t \in AllTypes : \A i \in DOMAIN subscribers'[t] :
              KnownNext(t, subscribers'[t][i])
         /\ \A a \in Activities : \A k \in erased[a] + 1 .. tokens[a] :
              \E i \in DOMAIN subscribers'[Handlers[a][k][1]] :
                subscribers'[Handlers[a][k][1]][i].owner = a
<1> DEFINE s == [owner |-> owner, source |-> source]
<1>0. s.owner = owner
  OBVIOUS
<1>1. KnownNext(type, s)
  OBVIOUS
<1> HIDE DEF s
<1>2. /\ \A t \in AllTypes : \A i \in DOMAIN subscribers[t] :
           i \in DOMAIN subscribers'[t] /\ subscribers'[t][i] = subscribers[t][i]
      /\ \A t \in AllTypes : \A i \in DOMAIN subscribers'[t] :
           \/ i \in DOMAIN subscribers[t]
           \/ t = type /\ subscribers'[t][i] = s /\ i = Len(subscribers[t]) + 1
  BY DEF Added, s
<1>3. OncePerType'
  BY <1>0, <1>2 DEF SubscriptionInv, OncePerType
<1>4. ASSUME NEW t \in AllTypes, NEW x, OwnerKnown(t, x) PROVE KnownNext(t, x)
  BY <1>4 DEF OwnerKnown, KnownNext
<1>5. ASSUME NEW t \in AllTypes, NEW i \in DOMAIN subscribers'[t]
      PROVE  KnownNext(t, subscribers'[t][i])
  <2>1. CASE i \in DOMAIN subscribers[t]
    <3>1. OwnerKnown(t, subscribers[t][i])
      BY <2>1 DEF SubscriptionInv
    <3>2. subscribers'[t][i] = subscribers[t][i]
      BY <1>2, <2>1
    <3>3. KnownNext(t, subscribers[t][i])
      BY <1>4, <3>1
    <3> QED BY <3>2, <3>3
  <2>2. CASE t = type /\ subscribers'[t][i] = s
    BY <1>1, <2>2
  <2> QED BY <1>2, <2>1, <2>2
<1>6. ASSUME NEW a \in Activities, NEW k \in erased[a] + 1 .. tokens[a]
      PROVE  \E i \in DOMAIN subscribers'[Handlers[a][k][1]] :
               subscribers'[Handlers[a][k][1]][i].owner = a
  <2>1. Handlers[a][k][1] \in AllTypes
    <3>1. k \in 1 .. Len(Handlers[a])
      BY HandlersApart DEF SubscriptionInv, ActivityTokens, TokensOfLife
    <3> QED BY <3>1, HandlersTyped
  <2>2. PICK i \in DOMAIN subscribers[Handlers[a][k][1]] :
          subscribers[Handlers[a][k][1]][i].owner = a
    BY DEF SubscriptionInv, ActivityTokens
  <2> QED BY <1>2, <2>1, <2>2
<1> QED BY <1>3, <1>5, <1>6

LEMMA SubscriptionStep ==
  ASSUME TypeOK, TypeOK', SubscriptionInv, [Next]_vars
  PROVE  SubscriptionInv'
<1> USE KindsApart
<1>t. /\ \A a \in Activities : /\ tokens[a] \in Nat /\ erased[a] \in Nat
                               /\ TokensOfLife(a) /\ ActivityTokens(a)
      /\ OncePerType
      /\ \A t \in AllTypes : \A i \in DOMAIN subscribers[t] : OwnerKnown(t, subscribers[t][i])
  BY DEF TypeOK, SubscriptionInv, ActivityTokens
<1>l. life \in [Activities \cup Protocols -> {"registering", "waiting", "leaving",
                                             "erasing", "stopped", "destroyed"}]
  BY DEF TypeOK
<1>1. CASE UNCHANGED <<subscribers, tokenVars, life, running>>
           /\ (disp' = "start" => disp = "start")
  BY <1>1, <1>t, SubscriptionKept DEF TokensOfLife, tokenVars
<1>2. CASE DispatcherCall
  <2>1. UNCHANGED <<subscribers, tokenVars, disp>>
    BY <1>2 DEF DispatcherCall, tokenVars
  <2>2. running' => running
    BY <1>2 DEF DispatcherCall, Call
  <2>3. \A a \in Activities : life'[a] = life[a]
    BY <1>2, <1>l DEF DispatcherCall, Call
  <2>4. \A p \in Protocols : life'[p] = "registering" => life[p] = "registering"
    BY <1>2, <1>l DEF DispatcherCall, Call
  <2>5. \A a \in Activities : TokensOfLife(a)'
    BY <1>t, <2>1, <2>2, <2>3 DEF TokensOfLife, tokenVars
  <2> QED BY <2>1, <2>4, <2>5, SubscriptionKept
<1>3. CASE DispatcherSubscribe
  <2>1. Subscribe(Dispatcher, Quit, NoSource) /\ disp = "start" /\ disp' = "loop"
        /\ UNCHANGED <<running, tokens, erased, life>>
    BY <1>3 DEF DispatcherSubscribe, busVars, tokenVars, actVars
  <2>2. \A i \in DOMAIN subscribers[Quit] : subscribers[Quit][i].owner # Dispatcher
    BY <1>t, <2>1 DEF OwnerKnown
  <2>3. Added(Dispatcher, Quit, NoSource)
    BY <2>1, RowsAfterSubscribe
  <2>4. KnownNext(Quit, [owner |-> Dispatcher, source |-> NoSource])
    BY <2>1 DEF KnownNext
  <2>5. \A a \in Activities : TokensOfLife(a)'
    BY <1>t, <2>1 DEF TokensOfLife
  <2>6. /\ OncePerType'
        /\ \A t \in AllTypes : \A i \in DOMAIN subscribers'[t] :
             KnownNext(t, subscribers'[t][i])
        /\ \A a \in Activities : \A k \in erased[a] + 1 .. tokens[a] :
             \E i \in DOMAIN subscribers'[Handlers[a][k][1]] :
               subscribers'[Handlers[a][k][1]][i].owner = a
    BY <1>t, <2>1, <2>2, <2>3, <2>4, SubscriptionAdded
  <2> QED BY <2>1, <2>5, <2>6 DEF SubscriptionInv, ActivityTokens, KnownNext, OwnerKnown
<1>4. ASSUME NEW p \in Protocols, ProtocolStart(p) PROVE SubscriptionInv'
  <2>1. Subscribe(p, Quit, NoSource) /\ life[p] = "registering"
        /\ life' = [life EXCEPT ![p] = "waiting"]
        /\ UNCHANGED <<running, tokens, erased, disp>>
    BY <1>4 DEF ProtocolStart, busVars, tokenVars, turnVars
  <2>2. /\ \A i \in DOMAIN subscribers[Quit] : subscribers[Quit][i].owner # p
        /\ \A q \in Protocols : life'[q] = "registering" => life[q] = "registering"
        /\ life'[p] = "waiting"
    BY <1>t, <1>l, <2>1 DEF OwnerKnown
  <2>3. Added(p, Quit, NoSource)
    BY <2>1, RowsAfterSubscribe
  <2>4. KnownNext(Quit, [owner |-> p, source |-> NoSource])
    BY <2>1, <2>2 DEF KnownNext
  <2>5. \A a \in Activities : TokensOfLife(a)'
    BY <1>t, <1>l, <2>1 DEF TokensOfLife
  <2>6. /\ OncePerType'
        /\ \A t \in AllTypes : \A i \in DOMAIN subscribers'[t] :
             KnownNext(t, subscribers'[t][i])
        /\ \A a \in Activities : \A k \in erased[a] + 1 .. tokens[a] :
             \E i \in DOMAIN subscribers'[Handlers[a][k][1]] :
               subscribers'[Handlers[a][k][1]][i].owner = a
    BY <1>t, <2>1, <2>2, <2>3, <2>4, SubscriptionAdded
  <2> QED BY <2>1, <2>5, <2>6 DEF SubscriptionInv, ActivityTokens, KnownNext, OwnerKnown
<1>5. ASSUME NEW p \in Protocols, ProtocolDestroy(p) PROVE SubscriptionInv'
  <2>1. UNCHANGED <<subscribers, tokenVars, disp, running>>
        /\ life' = [life EXCEPT ![p] = "destroyed"]
    BY <1>5 DEF ProtocolDestroy, busVars, turnVars, tokenVars
  <2>2. \A a \in Activities : TokensOfLife(a)'
    BY <1>t, <1>l, <2>1 DEF TokensOfLife, tokenVars
  <2>3. \A q \in Protocols : life'[q] = "registering" => life[q] = "registering"
    BY <1>l, <2>1
  <2> QED BY <2>1, <2>2, <2>3, SubscriptionKept
<1>6. ASSUME NEW a \in Activities, WaitEvent(a) \/ Leave(a) \/ UnsubscribeCheck(a)
      PROVE  SubscriptionInv'
  <2>1. UNCHANGED <<subscribers, tokenVars, disp, running>>
    BY <1>6 DEF WaitEvent, Leave, UnsubscribeCheck, busVars, turnVars, tokenVars
  <2>2. /\ life[a] \in {"waiting", "leaving"}
        /\ \A o \in (Activities \cup Protocols) \ {a} : life'[o] = life[o]
        /\ \/ life'[a] = life[a]
           \/ life'[a] = "leaving"
           \/ life'[a] = "destroyed" /\ (~running \/ erased[a] = tokens[a])
           \/ life'[a] = "erasing" /\ erased[a] # tokens[a]
    BY <1>6, <1>l DEF WaitEvent, Leave, UnsubscribeCheck, Unsubscribed
  <2>3. \A b \in Activities : TokensOfLife(b)'
    BY <1>t, <2>1, <2>2 DEF TokensOfLife, tokenVars
  <2>4. \A p \in Protocols : life'[p] = "registering" => life[p] = "registering"
    BY <2>2
  <2> QED BY <2>1, <2>3, <2>4, SubscriptionKept
<1>7. ASSUME NEW a \in Activities, Register(a) PROVE SubscriptionInv'
  <2> DEFINE n == tokens[a] + 1
             h == Handlers[a][n]
  <2>1. /\ life[a] = "registering" /\ Subscribe(a, h[1], h[2])
        /\ tokens' = [tokens EXCEPT ![a] = n]
        /\ IF tokens'[a] = Len(Handlers[a])
           THEN life' = [life EXCEPT ![a] = "waiting"] ELSE life' = life
        /\ UNCHANGED <<running, erased, disp>>
    BY <1>7 DEF Register, busVars, turnVars
  <2>2. /\ tokens'[a] = n /\ \A b \in Activities : b # a => tokens'[b] = tokens[b]
        /\ \A b \in Activities : tokens'[b] \in Nat /\ tokens[b] <= tokens'[b]
    <3>1. tokens \in [Activities -> Nat]
      BY DEF TypeOK
    <3>2. tokens'[a] = n /\ \A b \in Activities : b # a => tokens'[b] = tokens[b]
      BY <2>1, <3>1
    <3>3. n \in Nat /\ tokens[a] <= n
      BY <1>t
    <3> HIDE DEF n
    <3> QED BY <1>t, <3>2, <3>3
  <2>3. n \in 1 .. Len(Handlers[a]) /\ erased[a] = 0 /\ Len(Handlers[a]) \in Nat
    BY <1>t, <2>1, HandlersApart DEF TokensOfLife
  <2>4. /\ h[1] \in AllTypes /\ h[2] \in Sources \cup {NoSource} /\ h = <<h[1], h[2]>>
    BY <2>3, HandlersTyped
  <2>5. \A i \in DOMAIN subscribers[h[1]] : subscribers[h[1]][i].owner # a
    <3> SUFFICES ASSUME NEW i \in DOMAIN subscribers[h[1]], subscribers[h[1]][i].owner = a
                 PROVE  FALSE
      OBVIOUS
    <3>1. OwnerKnown(h[1], subscribers[h[1]][i])
      BY <1>t, <2>4
    <3>2. PICK k \in 1 .. tokens[a] : Handlers[a][k] = <<h[1], subscribers[h[1]][i].source>>
      BY <2>3, <3>1 DEF OwnerKnown
    <3>3. Handlers[a][k][1] = Handlers[a][n][1]
      BY <3>2
    <3>4. k \in 1 .. Len(Handlers[a])
      BY <1>t, <2>3
    <3>5. k = n
      BY <2>3, <3>3, <3>4, HandlersApart
    <3> QED BY <1>t, <3>5
  <2>6. Added(a, h[1], h[2])
    BY <2>1, <2>4, RowsAfterSubscribe
  <2>7. KnownNext(h[1], [owner |-> a, source |-> h[2]])
    <3>1. n \in erased'[a] + 1 .. tokens'[a]
      BY <1>t, <2>1, <2>2, <2>3
    <3>2. Handlers[a][n] = <<h[1], h[2]>>
      BY <2>4
    <3> HIDE DEF n, h
    <3>3. [owner |-> a, source |-> h[2]].owner = a /\ [owner |-> a, source |-> h[2]].source = h[2]
      OBVIOUS
    <3> QED BY <3>1, <3>2, <3>3 DEF KnownNext
  <2>8. \A b \in Activities : TokensOfLife(b)'
    <3> TAKE b \in Activities
    <3>1. CASE b = a
      <4>1. life'[a] = IF n = Len(Handlers[a]) THEN "waiting" ELSE "registering"
        BY <1>l, <2>1, <2>2
      <4> QED BY <2>1, <2>2, <2>3, <3>1, <4>1 DEF TokensOfLife
    <3>2. CASE b # a
      <4>1. life'[b] = life[b]
        BY <1>l, <2>1, <3>2
      <4> QED BY <1>t, <2>1, <2>2, <3>2, <4>1 DEF TokensOfLife
    <3> QED BY <3>1, <3>2
  <2>9. \A p \in Protocols : life'[p] = "registering" => life[p] = "registering"
    BY <1>l, <2>1
  <2>10. /\ OncePerType'
         /\ \A t \in AllTypes : \A i \in DOMAIN subscribers'[t] :
              KnownNext(t, subscribers'[t][i])
         /\ \A b \in Activities : \A k \in erased[b] + 1 .. tokens[b] :
              \E i \in DOMAIN subscribers'[Handlers[b][k][1]] :
                subscribers'[Handlers[b][k][1]][i].owner = b
    <3> HIDE DEF n, h
    <3> QED BY <1>t, <2>1, <2>2, <2>4, <2>5, <2>6, <2>7, <2>9, SubscriptionAdded
  <2>11. \E i \in DOMAIN subscribers'[h[1]] : subscribers'[h[1]][i].owner = a
    BY <2>6 DEF Added
  <2>12. ASSUME NEW b \in Activities PROVE ActivityTokens(b)'
    <3>1. ASSUME NEW k \in erased[b] + 1 .. tokens'[b]
          PROVE  \E i \in DOMAIN subscribers'[Handlers[b][k][1]] :
                   subscribers'[Handlers[b][k][1]][i].owner = b
      <4>1. CASE k \in erased[b] + 1 .. tokens[b]
        BY <2>10, <4>1
      <4>2. CASE k \notin erased[b] + 1 .. tokens[b]
        <5>1. b = a /\ k = n
          BY <1>t, <2>2, <4>2
        <5> QED BY <2>11, <5>1
      <4> QED BY <4>1, <4>2
    <3> QED BY <2>1, <2>8, <3>1 DEF ActivityTokens
  <2> QED BY <2>10, <2>12 DEF SubscriptionInv, KnownNext, OwnerKnown
<1>8. ASSUME NEW a \in Activities, UnsubscribeErase(a) PROVE SubscriptionInv'
  <2> DEFINE n == erased[a] + 1
             u == TokenType(a)
  <2>1. /\ n \in 1 .. Len(Handlers[a]) /\ erased[a] < tokens[a] /\ u \in AllTypes
        /\ u = Handlers[a][n][1]
    BY <1>8, <1>t, EraseTyped DEF TokenType
  <2>2. /\ life[a] = "erasing" /\ life' = [life EXCEPT ![a] = "leaving"]
        /\ erased' = [erased EXCEPT ![a] = n] /\ UNCHANGED <<running, tokens, disp>>
    BY <1>8 DEF UnsubscribeErase, busVars, turnVars
  <2>3. /\ erased'[a] = n /\ life'[a] = "leaving"
        /\ \A b \in Activities : b # a => erased'[b] = erased[b] /\ life'[b] = life[b]
        /\ \A p \in Protocols : life'[p] = life[p]
    BY <1>l, <2>2 DEF TypeOK
  <2>4. /\ \A t \in AllTypes \ {u} : subscribers'[t] = subscribers[t]
        /\ \A i \in DOMAIN subscribers'[u] : \E j \in DOMAIN subscribers[u] :
             subscribers'[u][i] = subscribers[u][j] /\ subscribers[u][j].owner # a
        /\ \A t \in AllTypes : \A i, j \in DOMAIN subscribers'[t] :
             subscribers'[t][i].owner = subscribers'[t][j].owner => i = j
        /\ \A t \in AllTypes : \A i \in DOMAIN subscribers[t] :
             subscribers[t][i].owner # a =>
               \E j \in DOMAIN subscribers'[t] : subscribers'[t][j] = subscribers[t][i]
    BY <1>8, <1>t, RowsAfterErase
  <2> HIDE DEF u, n
  <2>5. OncePerType'
    BY <2>4 DEF OncePerType
  <2>6. ASSUME NEW t \in AllTypes, NEW s, OwnerKnown(t, s), s.owner = a => t # u
        PROVE  KnownNext(t, s)
    <3>1. CASE s.owner = a
      <4>1. PICK k \in erased[a] + 1 .. tokens[a] : Handlers[a][k] = <<t, s.source>>
        BY <2>6, <3>1 DEF OwnerKnown
      <4>2. k # n
        BY <2>1, <2>6, <3>1, <4>1
      <4>3. k \in erased'[a] + 1 .. tokens'[a]
        BY <1>t, <2>2, <2>3, <4>2 DEF n
      <4> QED BY <3>1, <4>1, <4>3 DEF KnownNext
    <3>2. CASE s.owner # a
      BY <2>2, <2>3, <2>6, <3>2 DEF OwnerKnown, KnownNext
    <3> QED BY <3>1, <3>2
  <2>7. ASSUME NEW t \in AllTypes, NEW i \in DOMAIN subscribers'[t]
        PROVE  KnownNext(t, subscribers'[t][i])
    <3>1. CASE t = u
      <4>1. PICK j \in DOMAIN subscribers[t] :
              subscribers'[t][i] = subscribers[t][j] /\ subscribers[t][j].owner # a
        BY <2>4, <3>1
      <4>2. OwnerKnown(t, subscribers[t][j])
        BY <1>t
      <4>3. KnownNext(t, subscribers[t][j])
        BY <2>6, <4>1, <4>2
      <4> QED BY <4>1, <4>3
    <3>2. CASE t # u
      <4>1. subscribers'[t] = subscribers[t]
        BY <2>4, <3>2
      <4>2. OwnerKnown(t, subscribers[t][i])
        BY <1>t, <4>1
      <4>3. KnownNext(t, subscribers[t][i])
        BY <2>6, <3>2, <4>2
      <4> QED BY <4>1, <4>3
    <3> QED BY <3>1, <3>2
  <2>8. \A b \in Activities : TokensOfLife(b)'
    BY <1>t, <2>1, <2>2, <2>3 DEF TokensOfLife, n
  <2>9. ASSUME NEW b \in Activities, NEW k \in erased'[b] + 1 .. tokens'[b]
        PROVE  \E i \in DOMAIN subscribers'[Handlers[b][k][1]] :
                 subscribers'[Handlers[b][k][1]][i].owner = b
    <3>1. k \in erased[b] + 1 .. tokens[b] /\ k \in 1 .. Len(Handlers[b])
      BY <1>t, <2>2, <2>3, HandlersApart DEF TokensOfLife, n
    <3>2. PICK i \in DOMAIN subscribers[Handlers[b][k][1]] :
            subscribers[Handlers[b][k][1]][i].owner = b
      BY <1>t, <3>1 DEF ActivityTokens
    <3>3. Handlers[b][k][1] \in AllTypes
      BY <3>1, HandlersTyped
    <3>4. CASE b = a
      <4>1. k # n
        BY <1>t, <2>3, <3>4 DEF n
      <4>2. Handlers[a][k][1] # u
        BY <2>1, <3>1, <3>4, <4>1, HandlersApart
      <4> QED BY <2>4, <3>2, <3>3, <3>4, <4>2
    <3>5. CASE b # a
      BY <2>4, <3>2, <3>3, <3>5
    <3> QED BY <3>4, <3>5
  <2> QED BY <2>5, <2>7, <2>8, <2>9 DEF SubscriptionInv, ActivityTokens, KnownNext, OwnerKnown
<1>9. \/ UNCHANGED <<subscribers, tokenVars, life, running>> /\ (disp' = "start" => disp = "start")
      \/ DispatcherCall \/ DispatcherSubscribe
      \/ \E p \in Protocols : ProtocolStart(p) \/ ProtocolDestroy(p)
      \/ \E a \in Activities : \/ WaitEvent(a) \/ Leave(a) \/ UnsubscribeCheck(a)
                             \/ Register(a) \/ UnsubscribeErase(a)
  BY StepCases DEF Raise, DispatcherPop, DispatcherUnlock, DispatcherRelease, AutoRead,
                   vars, busVars, turnVars, tokenVars, actVars
<1> QED BY <1>1, <1>2, <1>3, <1>4, <1>5, <1>6, <1>7, <1>8, <1>9

-----------------------------------------------------------------------------
(* The turn.                                                               *)

(* Outside DispatcherPop and DispatcherCall a turn stands still or ends. *)
LEMMA TurnKept ==
  ASSUME [Next]_vars, ~DispatcherPop, ~DispatcherCall, disp' = "callbacks"
  PROVE  disp = "callbacks" /\ UNCHANGED <<turn, subscribers, running>>
BY StepCases DEF Raise, DispatcherSubscribe, DispatcherUnlock, DispatcherRelease, AutoRead,
     Register, WaitEvent, Leave, UnsubscribeCheck, UnsubscribeErase, ProtocolStart,
     ProtocolDestroy, Subscribe, Unlocked, vars, busVars, turnVars, tokenVars, actVars

LEMMA TurnStep ==
  ASSUME TypeOK, QueueInv, SubscriptionInv, TurnInv, [Next]_vars
  PROVE  TurnInv'
<1>1. CASE DispatcherPop
  <2>1. /\ running' = running /\ running /\ turn'.next = 1 /\ subscribers' = subscribers
        /\ turn'.event = Head(events)
    BY <1>1 DEF DispatcherPop
  <2>2. Head(events).type \in AllTypes
    BY <1>1, PopTyped DEF DispatcherPop, Events, AllTypes
  <2>3. Len(Row') \in Nat
    BY <2>1, <2>2, RowsTyped DEF Row
  <2> QED BY <2>1, <2>3 DEF TurnInv
<1>2. CASE DispatcherCall
  <2>1. /\ turn.event.type \in AllTypes /\ DOMAIN Row = 1 .. Len(Row) /\ Len(Row) \in Nat
        /\ turn.next \in 1 .. Len(Row) /\ Row[turn.next] \in Subscription
        /\ turn'.event = turn.event /\ turn'.next = turn.next + 1
    BY <1>2, CallTyped
  <2>2. /\ subscribers' = subscribers /\ disp = "callbacks"
        /\ running' = running \/ Row[turn.next].owner = Dispatcher
    BY <1>2 DEF DispatcherCall, Call, TypeOK
  <2>3. Row' = Row
    BY <2>1, <2>2 DEF Row
  <2>4. turn'.next <= Len(Row) + 1
    BY <2>1
  <2>5. ASSUME ~running'
        PROVE  /\ turn.event.type = Quit
               /\ \E i \in DOMAIN Row : i < turn'.next /\ Row[i].owner = Dispatcher
    <3>1. CASE ~running
      <4>1. turn.event.type = Quit
        BY <2>2, <3>1 DEF TurnInv
      <4>2. PICK i \in DOMAIN Row : i < turn.next /\ Row[i].owner = Dispatcher
        BY <2>2, <3>1 DEF TurnInv
      <4>3. i < turn'.next
        BY <2>1, <4>2
      <4> QED BY <4>1, <4>2, <4>3
    <3>2. CASE running
      <4>1. Row[turn.next].owner = Dispatcher
        BY <2>2, <2>5, <3>2
      <4>2. OwnerKnown(turn.event.type, Row[turn.next])
        BY <2>1 DEF SubscriptionInv, Row
      <4>3. turn.event.type = Quit
        BY <4>1, <4>2, KindsApart DEF OwnerKnown
      <4>4. turn.next \in DOMAIN Row /\ turn.next < turn'.next
        BY <2>1
      <4> QED BY <4>1, <4>3, <4>4
    <3> QED BY <3>1, <3>2
  <2> QED BY <2>1, <2>3, <2>4, <2>5 DEF TurnInv
<1>3. CASE ~DispatcherPop /\ ~DispatcherCall
  BY <1>3, TurnKept DEF TurnInv, Row
<1> QED BY <1>1, <1>2, <1>3

(* Nothing that ended comes back. *)
LEMMA Ends ==
  ASSUME TypeOK, [Next]_vars
  PROVE  /\ running' => running
         /\ \A o \in Activities \cup Protocols : life[o] = "destroyed" => life'[o] = "destroyed"
<1>1. life \in [Activities \cup Protocols -> {"registering", "waiting", "leaving",
                                             "erasing", "stopped", "destroyed"}]
  BY DEF TypeOK
<1>2. CASE UNCHANGED <<running, life>>
  BY <1>2
<1>3. CASE DispatcherCall
  BY <1>1, <1>3 DEF DispatcherCall, Call
<1>4. ASSUME NEW a \in Activities, \/ Register(a) \/ WaitEvent(a) \/ Leave(a)
                                   \/ UnsubscribeCheck(a) \/ UnsubscribeErase(a)
      PROVE  /\ running' = running
             /\ \A o \in Activities \cup Protocols :
                  life[o] = "destroyed" => life'[o] = "destroyed"
  BY <1>1, <1>4 DEF Register, WaitEvent, Leave, UnsubscribeCheck, UnsubscribeErase, busVars
<1>5. ASSUME NEW p \in Protocols, ProtocolStart(p) \/ ProtocolDestroy(p)
      PROVE  /\ running' = running
             /\ \A o \in Activities \cup Protocols :
                  life[o] = "destroyed" => life'[o] = "destroyed"
  BY <1>1, <1>5 DEF ProtocolStart, ProtocolDestroy, busVars
<1>6. \/ UNCHANGED <<running, life>> \/ DispatcherCall
      \/ \E a \in Activities : \/ Register(a) \/ WaitEvent(a) \/ Leave(a)
                             \/ UnsubscribeCheck(a) \/ UnsubscribeErase(a)
      \/ \E p \in Protocols : ProtocolStart(p) \/ ProtocolDestroy(p)
  BY StepCases DEF Raise, DispatcherSubscribe, DispatcherPop, DispatcherUnlock,
       DispatcherRelease, AutoRead, vars, busVars, turnVars, tokenVars, actVars
<1> QED BY <1>2, <1>3, <1>4, <1>5, <1>6

(* How the subscriptions may change. *)
LEMMA SubscriptionCases ==
  ASSUME TypeOK, SubscriptionInv, [Next]_vars
  PROVE  \/ subscribers' = subscribers
         \/ \E owner, source : \E type \in AllTypes : Added(owner, type, source)
         \/ \E a \in Activities : UnsubscribeErase(a)
<1>1. CASE DispatcherSubscribe
  <2>1. Subscribe(Dispatcher, Quit, NoSource) /\ Quit \in AllTypes
    BY <1>1, KindsApart DEF DispatcherSubscribe
  <2>2. Added(Dispatcher, Quit, NoSource)
    BY <2>1, RowsAfterSubscribe
  <2> QED BY <2>1, <2>2
<1>2. ASSUME NEW p \in Protocols, ProtocolStart(p)
      PROVE  \E owner, source : \E type \in AllTypes : Added(owner, type, source)
  <2>1. Subscribe(p, Quit, NoSource) /\ Quit \in AllTypes
    BY <1>2, KindsApart DEF ProtocolStart
  <2>2. Added(p, Quit, NoSource)
    BY <2>1, RowsAfterSubscribe
  <2> QED BY <2>1, <2>2
<1>3. ASSUME NEW a \in Activities, Register(a)
      PROVE  \E owner, source : \E type \in AllTypes : Added(owner, type, source)
  <2> DEFINE h == Handlers[a][tokens[a] + 1]
  <2>1. tokens[a] + 1 \in 1 .. Len(Handlers[a])
    BY <1>3, HandlersApart DEF Register, SubscriptionInv, ActivityTokens, TokensOfLife, TypeOK
  <2>2. h[1] \in AllTypes /\ h[2] \in Sources \cup {NoSource}
    BY <2>1, HandlersTyped
  <2>3. Subscribe(a, h[1], h[2])
    BY <1>3 DEF Register
  <2> HIDE DEF h
  <2>4. Added(a, h[1], h[2])
    BY <2>2, <2>3, RowsAfterSubscribe
  <2> QED BY <2>2, <2>4
<1>4. \/ subscribers' = subscribers \/ DispatcherSubscribe
      \/ \E p \in Protocols : ProtocolStart(p)
      \/ \E a \in Activities : Register(a) \/ UnsubscribeErase(a)
  BY StepCases DEF Raise, DispatcherPop, DispatcherCall, DispatcherUnlock, DispatcherRelease,
       AutoRead, WaitEvent, Leave, UnsubscribeCheck, ProtocolDestroy, vars
<1> QED BY <1>1, <1>2, <1>3, <1>4

LEMMA QuitAfterKept ==
  ASSUME TypeOK, SubscriptionInv, [Next]_vars,
         NEW a \in Activities, life[a] = "destroyed", QuitAfter(Dispatcher, a)
  PROVE  QuitAfter(Dispatcher, a)'
<1>1. PICK i \in DOMAIN subscribers[Quit], j \in DOMAIN subscribers[Quit] :
        i < j /\ subscribers[Quit][i].owner = Dispatcher /\ subscribers[Quit][j].owner = a
  BY DEF QuitAfter
<1>2. CASE subscribers' = subscribers
  BY <1>2 DEF QuitAfter
<1>3. ASSUME NEW owner, NEW source, NEW type \in AllTypes, Added(owner, type, source)
      PROVE  QuitAfter(Dispatcher, a)'
  <2>1. \A k \in DOMAIN subscribers[Quit] :
          k \in DOMAIN subscribers'[Quit] /\ subscribers'[Quit][k] = subscribers[Quit][k]
    BY <1>3, KindsApart DEF Added
  <2> QED BY <1>1, <2>1 DEF QuitAfter
<1>4. ASSUME NEW b \in Activities, UnsubscribeErase(b) PROVE QuitAfter(Dispatcher, a)'
  <2>1. b # a /\ b # Dispatcher
    BY <1>4, KindsApart DEF UnsubscribeErase
  <2>2. \A t \in AllTypes : \A m, n \in DOMAIN subscribers[t] :
          m < n /\ subscribers[t][m].owner # b /\ subscribers[t][n].owner # b =>
            \E k, l \in DOMAIN subscribers'[t] :
              k < l /\ subscribers'[t][k] = subscribers[t][m]
                    /\ subscribers'[t][l] = subscribers[t][n]
    BY <1>4, RowsAfterErase DEF SubscriptionInv
  <2>3. \E k, l \in DOMAIN subscribers'[Quit] :
          k < l /\ subscribers'[Quit][k] = subscribers[Quit][i]
                /\ subscribers'[Quit][l] = subscribers[Quit][j]
    BY <1>1, <2>1, <2>2, KindsApart
  <2> QED BY <1>1, <2>3 DEF QuitAfter
<1> QED BY <1>2, <1>3, <1>4, SubscriptionCases

LEMMA StaleStep ==
  ASSUME TypeOK, QueueInv, SubscriptionInv, TurnInv, StaleInv, [Next]_vars
  PROVE  StaleInv'
<1>1. ASSUME NEW x \in stale
      PROVE  /\ x[2] = Quit /\ life'[x[1]] = "destroyed"
             /\ x[1] \in Activities => ~running' /\ QuitAfter(Dispatcher, x[1])'
  <2>1. x[1] \in Activities \cup Protocols
    BY DEF TypeOK
  <2>2. x[2] = Quit /\ life[x[1]] = "destroyed" /\ life'[x[1]] = "destroyed"
    BY <2>1, Ends DEF StaleInv
  <2>3. ASSUME x[1] \in Activities PROVE ~running' /\ QuitAfter(Dispatcher, x[1])'
    <3>1. PICK a \in Activities : a = x[1]
      BY <2>3
    <3>2. ~running /\ QuitAfter(Dispatcher, a)
      BY <3>1 DEF StaleInv
    <3>3. QuitAfter(Dispatcher, a)'
      BY <2>2, <3>1, <3>2, QuitAfterKept
    <3> QED BY <3>1, <3>2, <3>3, Ends
  <2> QED BY <2>2, <2>3
<1>2. ASSUME NEW x \in stale', x \notin stale
      PROVE  /\ x[2] = Quit /\ life'[x[1]] = "destroyed"
             /\ x[1] \in Activities => ~running' /\ QuitAfter(Dispatcher, x[1])'
  <2>1. DispatcherCall
    BY <1>2, StepCases DEF Raise, DispatcherSubscribe, DispatcherPop, DispatcherUnlock,
         DispatcherRelease, AutoRead, Register, WaitEvent, Leave, UnsubscribeCheck,
         UnsubscribeErase, ProtocolStart, ProtocolDestroy, vars
  <2> DEFINE s == Row[turn.next]
  <2>2. /\ x = <<s.owner, turn.event.type>> /\ s.owner # Dispatcher
        /\ life[s.owner] = "destroyed"
    BY <1>2, <2>1, CallCases
  <2>3. /\ turn.event.type \in AllTypes /\ DOMAIN Row = 1 .. Len(Row)
        /\ turn.next \in 1 .. Len(Row) /\ s \in Subscription /\ disp = "callbacks"
        /\ subscribers' = subscribers
    BY <2>1, CallTyped DEF DispatcherCall
  <2>4. OwnerKnown(turn.event.type, s)
    BY <2>3 DEF SubscriptionInv, Row
  <2>5. s.owner \in Activities \cup Protocols
    BY <2>2, <2>3 DEF Subscription
  <2>6. life'[s.owner] = "destroyed"
    BY <2>2, <2>5, Ends
  <2>7. CASE s.owner \notin Activities
    BY <2>2, <2>4, <2>6, <2>7 DEF OwnerKnown
  <2>8. CASE s.owner \in Activities
    <3>1. erased[s.owner] \in Nat /\ tokens[s.owner] \in Nat /\ TokensOfLife(s.owner)
      BY <2>8 DEF SubscriptionInv, ActivityTokens, TypeOK
    <3>2. erased[s.owner] # tokens[s.owner]
      BY <2>4, <2>8, <3>1 DEF OwnerKnown
    <3>3. ~running
      BY <2>2, <3>1, <3>2 DEF TokensOfLife
    <3>4. /\ turn.event.type = Quit
          /\ \E i \in DOMAIN Row : i < turn.next /\ Row[i].owner = Dispatcher
      BY <2>3, <3>3 DEF TurnInv
    <3>5. QuitAfter(Dispatcher, x[1])'
      BY <2>2, <2>3, <3>4 DEF QuitAfter, Row
    <3> QED BY <2>2, <2>6, <3>3, <3>4, <3>5, Ends
  <2> QED BY <2>7, <2>8
<1> QED BY <1>1, <1>2 DEF StaleInv

-----------------------------------------------------------------------------
(* The deliveries.                                                         *)

LEMMA TakenTyped ==
  ASSUME TypeOK, NEW a \in Activities
  PROVE  /\ handled[a] \in Seq(Events) /\ handlers[a] \in Seq(Events)
         /\ Taken(a) \in Seq(Events) /\ DOMAIN Taken(a) = 1 .. Len(Taken(a))
         /\ Len(Taken(a)) = Len(handled[a]) + Len(handlers[a])
         /\ Len(handled[a]) \in Nat /\ Len(handlers[a]) \in Nat /\ Len(Taken(a)) \in Nat
         /\ \A i \in 1 .. Len(Taken(a)) :
              Taken(a)[i] = IF i <= Len(handled[a]) THEN handled[a][i]
                            ELSE handlers[a][i - Len(handled[a])]
<1>1. handled[a] \in Seq(Events) /\ handlers[a] \in Seq(Events)
  BY DEF TypeOK
<1> DEFINE x == handled[a]
           y == handlers[a]
<1>2. /\ x \o y \in Seq(Events) /\ Len(x \o y) = Len(x) + Len(y)
      /\ \A i \in 1 .. Len(x) + Len(y) :
           (x \o y)[i] = IF i <= Len(x) THEN x[i] ELSE y[i - Len(x)]
  BY <1>1, ConcatProperties
<1>3. DOMAIN (x \o y) = 1 .. Len(x \o y) /\ Len(x \o y) \in Nat
      /\ Len(x) \in Nat /\ Len(y) \in Nat
  BY <1>1, <1>2, LenProperties
<1> QED BY <1>1, <1>2, <1>3 DEF Taken

(* What an activity has taken after a step: the same, no more than a part  *)
(* of it when it is destroyed, or one event more.                          *)
Cut(a) ==
  /\ DOMAIN Taken(a)' \subseteq DOMAIN Taken(a)
  /\ \A i \in DOMAIN Taken(a)' : Taken(a)'[i] = Taken(a)[i]

Called(a) ==
  /\ DispatcherCall /\ Row[turn.next].owner = a /\ life[a] # "destroyed"
  /\ SourceValid(Row[turn.next], turn.event)
  /\ Taken(a)' = Append(Taken(a), turn.event)

LEMMA CallTaken ==
  ASSUME TypeOK, QueueInv, NEW a \in Activities, DispatcherCall,
         Row[turn.next].owner = a, SourceValid(Row[turn.next], turn.event),
         life[a] # "destroyed"
  PROVE  Called(a)
<1>1. handlers'[a] = Append(handlers[a], turn.event)
  <2>1. handlers' = [handlers EXCEPT ![a] = Append(handlers[a], turn.event)]
    BY CallCases
  <2> QED BY <2>1 DEF TypeOK
<1>2. turn.event \in Events
  BY CallTyped
<1>3. handled[a] \o Append(handlers[a], turn.event)
        = Append(handled[a] \o handlers[a], turn.event)
  <2> DEFINE x == handled[a]
             y == handlers[a]
             e == turn.event
  <2>1. x \in Seq(Events) /\ y \in Seq(Events) /\ e \in Events
    BY <1>2 DEF TypeOK
  <2> HIDE DEF x, y, e
  <2>2. Append(y, e) = y \o <<e>> /\ Append(x \o y, e) = (x \o y) \o <<e>>
    BY <2>1, AppendIsConcat, ConcatProperties
  <2>3. <<e>> \in Seq(Events)
    BY <2>1
  <2>4. x \o (y \o <<e>>) = (x \o y) \o <<e>>
    BY <2>1, <2>3, ConcatAssociative
  <2>5. x \o Append(y, e) = Append(x \o y, e)
    BY <2>2, <2>4
  <2> QED BY <2>5 DEF x, y, e
<1>4. Taken(a)' = Append(Taken(a), turn.event)
  BY <1>1, <1>3 DEF Taken, DispatcherCall
<1> QED BY <1>4 DEF Called

LEMMA TakenCases ==
  ASSUME TypeOK, TypeOK', QueueInv, [Next]_vars, NEW a \in Activities
  PROVE  \/ Taken(a)' = Taken(a) \/ (life'[a] = "destroyed" /\ Cut(a)) \/ Called(a)
<1>t. /\ handled \in [Activities -> Seq(Events)] /\ handlers \in [Activities -> Seq(Events)]
      /\ life \in [Activities \cup Protocols -> {"registering", "waiting", "leaving",
                                                "erasing", "stopped", "destroyed"}]
  BY DEF TypeOK
<1>1. CASE handled'[a] = handled[a] /\ handlers'[a] = handlers[a]
  BY <1>1 DEF Taken
<1>2. CASE DispatcherCall
  <2> DEFINE s == Row[turn.next]
  <2>1. handled' = handled
    BY <1>2 DEF DispatcherCall
  <2>2. CASE s.owner = a /\ SourceValid(s, turn.event) /\ life[a] # "destroyed"
    BY <1>2, <2>2, CallTaken
  <2>3. CASE ~(s.owner = a /\ SourceValid(s, turn.event) /\ life[a] # "destroyed")
    <3>1. handlers'[a] = handlers[a]
      BY <1>2, <1>t, <2>3, CallCases
    <3> QED BY <2>1, <3>1 DEF Taken
  <2> QED BY <2>2, <2>3
<1>3. ASSUME NEW b \in Activities, WaitEvent(b) PROVE Taken(a)' = Taken(a)
  <2>1. CASE b = a
    <3> DEFINE x == handled[a]
               y == handlers[a]
    <3>1. x \in Seq(Events) /\ y \in Seq(Events) /\ y # <<>>
      BY <1>3, <1>t, <2>1 DEF WaitEvent
    <3>2. handled'[a] = Append(x, Head(y)) /\ handlers'[a] = Tail(y)
      BY <1>3, <1>t, <2>1 DEF WaitEvent
    <3> HIDE DEF x, y
    <3>3. Head(y) \in Events /\ Tail(y) \in Seq(Events) /\ <<Head(y)>> \in Seq(Events)
      BY <3>1, HeadTailProperties
    <3>4. Append(x, Head(y)) = x \o <<Head(y)>>
      BY <3>1, <3>3, AppendIsConcat
    <3>5. (x \o <<Head(y)>>) \o Tail(y) = x \o (<<Head(y)>> \o Tail(y))
      BY <3>1, <3>3, ConcatAssociative
    <3>6. <<Head(y)>> \o Tail(y) = y
      <4>1. /\ Len(<<Head(y)>> \o Tail(y)) = 1 + Len(Tail(y))
            /\ \A i \in 1 .. 1 + Len(Tail(y)) : (<<Head(y)>> \o Tail(y))[i] =
                 IF i <= 1 THEN Head(y) ELSE Tail(y)[i - 1]
            /\ <<Head(y)>> \o Tail(y) \in Seq(Events)
        <5>1. Len(<<Head(y)>>) = 1 /\ <<Head(y)>>[1] = Head(y)
          OBVIOUS
        <5>2. /\ <<Head(y)>> \o Tail(y) \in Seq(Events)
              /\ Len(<<Head(y)>> \o Tail(y)) = Len(<<Head(y)>>) + Len(Tail(y))
              /\ \A i \in 1 .. Len(<<Head(y)>>) + Len(Tail(y)) :
                   (<<Head(y)>> \o Tail(y))[i] =
                     IF i <= Len(<<Head(y)>>) THEN <<Head(y)>>[i]
                     ELSE Tail(y)[i - Len(<<Head(y)>>)]
          BY <3>3, ConcatProperties
        <5>3. Len(Tail(y)) \in Nat
          BY <3>3, LenProperties
        <5>4. \A i \in 1 .. 1 + Len(Tail(y)) : i <= 1 => i = 1
          BY <5>3
        <5> QED BY <5>1, <5>2, <5>4
      <4>2. /\ Len(y) \in Nat \ {0} /\ Len(Tail(y)) = Len(y) - 1 /\ Head(y) = y[1]
            /\ \A i \in 1 .. Len(y) - 1 : Tail(y)[i] = y[i + 1]
        <5>1. Len(y) \in Nat \ {0}
          BY <3>1, LenProperties, EmptySeq
        <5>2. /\ Len(Tail(y)) = Len(y) - 1
              /\ \A i \in 1 .. Len(Tail(y)) : Tail(y)[i] = y[i + 1]
          BY <3>1, HeadTailProperties
        <5>3. Head(y) = y[1]
          BY <3>1
        <5> QED BY <5>1, <5>2, <5>3
      <4>3. \A i \in 1 .. Len(y) : (<<Head(y)>> \o Tail(y))[i] = y[i]
        <5> TAKE i \in 1 .. Len(y)
        <5>1. (<<Head(y)>> \o Tail(y))[i] = IF i <= 1 THEN y[1] ELSE Tail(y)[i - 1]
          BY <4>1, <4>2
        <5>2. CASE i = 1
          BY <5>1, <5>2
        <5>3. CASE i # 1
          <6>1. i - 1 \in 1 .. Len(y) - 1 /\ ~(i <= 1) /\ (i - 1) + 1 = i
            BY <4>2, <5>3
          <6>2. Tail(y)[i - 1] = y[(i - 1) + 1]
            BY <4>2, <6>1
          <6> QED BY <5>1, <6>1, <6>2
        <5> QED BY <5>2, <5>3
      <4>4. Len(<<Head(y)>> \o Tail(y)) = Len(y)
        BY <4>1, <4>2
      <4> DEFINE z == <<Head(y)>> \o Tail(y)
      <4>5. z \in Seq(Events) /\ Len(z) = Len(y) /\ \A i \in 1 .. Len(y) : z[i] = y[i]
        BY <4>1, <4>3, <4>4
      <4> HIDE DEF z
      <4>6. z = y
        BY <3>1, <4>5, SeqEqual
      <4> QED BY <4>6 DEF z
    <3>7. Append(x, Head(y)) \o Tail(y) = x \o y
      BY <3>4, <3>5, <3>6
    <3> QED BY <3>2, <3>7 DEF Taken, x, y
  <2>2. CASE b # a
    <3>1. handled'[a] = handled[a] /\ handlers'[a] = handlers[a]
      BY <1>3, <1>t, <2>2 DEF WaitEvent
    <3> QED BY <3>1 DEF Taken
  <2> QED BY <2>1, <2>2
<1>4. ASSUME NEW b \in Activities, UnsubscribeCheck(b)
      PROVE  Taken(a)' = Taken(a) \/ (life'[a] = "destroyed" /\ Cut(a))
  <2>1. handled' = handled
    BY <1>4 DEF UnsubscribeCheck
  <2>2. CASE handlers'[a] = handlers[a]
    BY <2>1, <2>2 DEF Taken
  <2>3. CASE handlers'[a] # handlers[a]
    <3>1. life'[a] = "destroyed" /\ handlers'[a] = <<>>
      BY <1>4, <1>t, <2>3 DEF UnsubscribeCheck
    <3>2. Cut(a)
      <4> DEFINE x == handled[a]
                 y == handlers[a]
      <4>1. x \in Seq(Events) /\ Len(x) \in Nat /\ Len(y) \in Nat
        BY TakenTyped
      <4>2. /\ DOMAIN Taken(a) = 1 .. Len(Taken(a)) /\ Len(Taken(a)) = Len(x) + Len(y)
            /\ \A i \in 1 .. Len(Taken(a)) :
                 Taken(a)[i] = IF i <= Len(x) THEN x[i] ELSE y[i - Len(x)]
        BY TakenTyped
      <4>3. Taken(a)' = x
        <5>1. x \o <<>> = x
          BY <4>1, ConcatEmptySeq
        <5> QED BY <2>1, <3>1, <5>1 DEF Taken
      <4>4. DOMAIN x = 1 .. Len(x)
        BY <4>1, LenProperties
      <4> HIDE DEF x, y
      <4>5. \A i \in 1 .. Len(x) : i \in 1 .. Len(Taken(a)) /\ Taken(a)[i] = x[i]
        BY <4>1, <4>2
      <4> QED BY <4>2, <4>3, <4>4, <4>5 DEF Cut
    <3> QED BY <3>1, <3>2
  <2> QED BY <2>2, <2>3
<1>5. \/ handled'[a] = handled[a] /\ handlers'[a] = handlers[a]
      \/ DispatcherCall \/ \E b \in Activities : WaitEvent(b) \/ UnsubscribeCheck(b)
  BY StepCases DEF Raise, DispatcherSubscribe, DispatcherPop, DispatcherUnlock,
       DispatcherRelease, AutoRead, Register, Leave, UnsubscribeErase, ProtocolStart,
       ProtocolDestroy, vars, actVars
<1> QED BY <1>1, <1>2, <1>3, <1>4, <1>5

LEMMA DoneAfter ==
  ASSUME TypeOK, QueueInv, [Next]_vars
  PROVE  /\ Done \in Nat /\ Len(raised) \in Nat /\ Done <= Len(raised)
         /\ \A n \in 1 .. Done : raised'[n] = raised[n]
         /\ DispatcherPop => (Done' = Done + 1 /\ raised' = raised)
         /\ ~DispatcherPop => Done' = Done
<1>1. /\ Len(raised) \in Nat /\ Len(events) \in Nat /\ Len(events) <= Len(raised)
  BY LenProperties DEF TypeOK, QueueInv
<1>2. Done \in Nat /\ Done <= Len(raised)
  BY <1>1 DEF Done
<1>3. CASE DispatcherPop
  <2>1. Len(Tail(events)) = Len(events) - 1 /\ events' = Tail(events) /\ raised' = raised
    BY <1>3, PopTyped DEF DispatcherPop
  <2>2. Done' = Len(raised) - (Len(events) - 1)
    BY <2>1 DEF Done
  <2>3. Done' = Done + 1
    BY <1>1, <2>2 DEF Done
  <2> QED BY <1>1, <1>2, <1>3, <2>1, <2>3
<1>4. ASSUME NEW type \in AllTypes, NEW source \in Sources \cup {NoSource},
             Raise(type, source)
      PROVE  Done' = Done /\ \A n \in 1 .. Done : raised'[n] = raised[n]
  <2>1. /\ Len(events') = Len(events) + 1 /\ Len(raised') = Len(raised) + 1
        /\ \A i \in 1 .. Len(raised) : raised'[i] = raised[i]
    BY <1>4, RaiseTyped
  <2> QED BY <1>1, <1>2, <2>1 DEF Done
<1>5. ASSUME UNCHANGED <<raised, events>>
      PROVE  Done' = Done /\ \A n \in 1 .. Done : raised'[n] = raised[n]
  BY <1>5 DEF Done
<1>6. \/ \E type \in AllTypes, source \in Sources \cup {NoSource} : Raise(type, source)
      \/ DispatcherPop \/ UNCHANGED <<raised, events>>
  BY StepCases DEF DispatcherSubscribe, DispatcherCall, DispatcherUnlock, DispatcherRelease,
       AutoRead, Register, WaitEvent, Leave, UnsubscribeCheck, UnsubscribeErase,
       ProtocolStart, ProtocolDestroy, vars, busVars
<1>7. CASE ~DispatcherPop
  <2>1. Done' = Done /\ \A n \in 1 .. Done : raised'[n] = raised[n]
    BY <1>4, <1>5, <1>6, <1>7
  <2> QED BY <1>1, <1>2, <1>7, <2>1
<1> QED BY <1>3, <1>7

(* The facts about a call that the deliveries depend on. *)
LEMMA CallFacts ==
  ASSUME TypeOK, QueueInv, SubscriptionInv, DispatcherCall
  PROVE  /\ disp = "callbacks" /\ disp' = "callbacks"
         /\ Row' = Row /\ DOMAIN Row = 1 .. Len(Row) /\ Len(Row) \in Nat
         /\ turn.next \in 1 .. Len(Row) /\ turn'.next = turn.next + 1
         /\ turn'.delivered <=> turn.delivered \/ SourceValid(Row[turn.next], turn.event)
         /\ turn'.event = turn.event /\ turn.event = raised[Done] /\ turn.event.id = Done
         /\ Done \in 1 .. Len(raised)
         /\ OwnerKnown(turn.event.type, Row[turn.next])
         /\ \A k \in DOMAIN Row : Row[k].owner = Row[turn.next].owner => k = turn.next
         /\ turn.event.type \in AllTypes
<1>1. /\ turn.event.type \in AllTypes /\ DOMAIN Row = 1 .. Len(Row) /\ Len(Row) \in Nat
      /\ turn.next \in 1 .. Len(Row)
      /\ turn' = [event |-> turn.event, next |-> turn.next + 1,
                  delivered |-> turn.delivered \/ SourceValid(Row[turn.next], turn.event)]
  BY CallTyped
<1>2. disp = "callbacks" /\ disp' = disp /\ subscribers' = subscribers
  BY DEF DispatcherCall
<1>3. Row' = Row
  BY <1>1, <1>2 DEF Row
<1>4. Done \in 1 .. Len(raised) /\ turn.event = raised[Done] /\ raised[Done].id = Done
  <2>1. Len(raised) \in Nat /\ Len(events) \in Nat
    BY LenProperties DEF TypeOK
  <2>2. Done \in 1 .. Len(raised) /\ turn.event = raised[Done]
    BY <1>2, <2>1 DEF QueueInv, Done
  <2> QED BY <2>2 DEF QueueInv
<1>5. OwnerKnown(turn.event.type, Row[turn.next])
  BY <1>1 DEF SubscriptionInv, Row
<1>6. \A k \in DOMAIN Row : Row[k].owner = Row[turn.next].owner => k = turn.next
  BY <1>1 DEF SubscriptionInv, OncePerType, Row
<1>7. turn'.delivered <=> turn.delivered \/ SourceValid(Row[turn.next], turn.event)
  BY <1>1
<1> QED BY <1>1, <1>2, <1>3, <1>4, <1>5, <1>6, <1>7

(* The turn does not go back. *)
LEMMA AheadAfter ==
  ASSUME TypeOK, QueueInv, SubscriptionInv, [Next]_vars, ~DispatcherPop, NEW a
  PROVE  /\ Ahead(a)' => Ahead(a)
         /\ disp' = "callbacks" /\ ~turn'.delivered => disp = "callbacks" /\ ~turn.delivered
<1>1. CASE DispatcherCall
  <2>1. /\ disp = "callbacks" /\ Row' = Row /\ DOMAIN Row = 1 .. Len(Row)
        /\ Len(Row) \in Nat /\ turn.next \in 1 .. Len(Row) /\ turn'.next = turn.next + 1
        /\ turn'.delivered <=> turn.delivered \/ SourceValid(Row[turn.next], turn.event)
    BY <1>1, CallFacts
  <2>2. ASSUME NEW k \in DOMAIN Row, turn'.next <= k PROVE turn.next <= k
    BY <2>1, <2>2
  <2>3. Ahead(a)' => Ahead(a)
    BY <2>1, <2>2 DEF Ahead
  <2> QED BY <2>1, <2>3
<1>2. CASE ~DispatcherCall
  BY <1>2, TurnKept DEF Ahead, Row
<1> QED BY <1>1, <1>2

LEMMA TakenStep ==
  ASSUME TypeOK, TypeOK', QueueInv, SubscriptionInv, [Next]_vars,
         NEW a \in Activities, TakenInv(a)
  PROVE  TakenInv(a)'
<1>d. /\ Done \in Nat /\ Done' \in Nat /\ Done <= Done'
      /\ \A n \in 1 .. Done : raised'[n] = raised[n]
      /\ Done' > Done \/ ~DispatcherPop
  BY DoneAfter
<1>1. CASE Called(a)
  <2> DEFINE s == Row[turn.next]
             e == turn.event
             n == Len(Taken(a))
  <2>1. /\ DispatcherCall /\ s.owner = a /\ SourceValid(s, e)
        /\ Taken(a)' = Append(Taken(a), e)
    BY <1>1 DEF Called
  <2>2. /\ disp = "callbacks" /\ Row' = Row /\ DOMAIN Row = 1 .. Len(Row)
        /\ Len(Row) \in Nat /\ turn.next \in 1 .. Len(Row) /\ turn'.next = turn.next + 1
        /\ turn'.delivered /\ e = raised[Done] /\ e.id = Done /\ Done \in 1 .. Len(raised)
        /\ OwnerKnown(e.type, s)
        /\ \A k \in DOMAIN Row : Row[k].owner = s.owner => k = turn.next
    BY <2>1, CallFacts
  <2>3. /\ Taken(a) \in Seq(Events) /\ e \in Events
    BY <2>1, TakenTyped, CallTyped
  <2>4. Ahead(a)
    BY <2>1, <2>2 DEF Ahead
  <2>5. ~Ahead(a)'
    BY <2>1, <2>2 DEF Ahead
  <2>6. Interested(a, e)
    <3>1. PICK k \in erased[a] + 1 .. tokens[a] : Handlers[a][k] = <<e.type, s.source>>
      BY <2>1, <2>2 DEF OwnerKnown
    <3>2. k \in DOMAIN Handlers[a]
      <4>1. erased[a] \in Nat /\ tokens[a] \in Nat /\ tokens[a] <= Len(Handlers[a])
        BY DEF TypeOK, SubscriptionInv, ActivityTokens, TokensOfLife
      <4> QED BY <4>1, HandlersApart
    <3>3. Handlers[a][k][1] = e.type /\ Handlers[a][k][2] = s.source
      BY <3>1
    <3> QED BY <2>1, <3>2, <3>3 DEF Interested, SourceValid
  <2>7. Done' = Done /\ UNCHANGED raised
    BY <2>1, <1>d, DoneAfter DEF DispatcherCall, Done
  <2> HIDE DEF s, e, n
  <2>8. /\ DOMAIN Taken(a) = 1 .. n /\ n \in Nat /\ DOMAIN Taken(a)' = 1 .. n + 1
        /\ \A i \in 1 .. n : Taken(a)'[i] = Taken(a)[i]
        /\ Taken(a)'[n + 1] = e
    BY <2>1, <2>3, AppendElements DEF n
  <2>9. ASSUME NEW i \in 1 .. n
        PROVE  /\ Taken(a)[i].id \in 1 .. Done /\ Taken(a)[i].id < Done
               /\ Taken(a)[i] = raised[Taken(a)[i].id] /\ Interested(a, Taken(a)[i])
    BY <2>4, <2>8 DEF TakenInv
  <2>10. \A i, j \in 1 .. n : i < j => Taken(a)[i].id < Taken(a)[j].id
    BY <2>8 DEF TakenInv
  <2>11. ASSUME NEW i \in DOMAIN Taken(a)'
         PROVE  /\ Taken(a)'[i].id \in 1 .. Done /\ Taken(a)'[i] = raised[Taken(a)'[i].id]
                /\ Interested(a, Taken(a)'[i])
    <3>1. CASE i \in 1 .. n
      BY <2>8, <2>9, <3>1
    <3>2. CASE i = n + 1
      BY <1>d, <2>2, <2>6, <2>8, <3>2
    <3> QED BY <2>8, <3>1, <3>2
  <2>12. ASSUME NEW i \in DOMAIN Taken(a)', NEW j \in DOMAIN Taken(a)', i < j
         PROVE  Taken(a)'[i].id < Taken(a)'[j].id
    <3>1. i \in 1 .. n
      BY <2>8, <2>12
    <3>2. CASE j \in 1 .. n
      BY <2>8, <2>10, <2>12, <3>1, <3>2
    <3>3. CASE j = n + 1
      BY <2>2, <2>8, <2>9, <3>1, <3>3
    <3> QED BY <2>8, <3>2, <3>3
  <2>13. \A x : Interested(a, x)' <=> Interested(a, x)
    BY DEF Interested
  <2> QED BY <2>2, <2>5, <2>7, <2>11, <2>12, <2>13 DEF TakenInv
<1>2. CASE Cut(a)
  <2>1. /\ \A i \in DOMAIN Taken(a)' : i \in DOMAIN Taken(a) /\ Taken(a)'[i] = Taken(a)[i]
    BY <1>2 DEF Cut
  <2>2. ASSUME NEW i \in DOMAIN Taken(a)'
        PROVE  /\ Taken(a)'[i].id \in 1 .. Done' /\ Taken(a)'[i] = raised'[Taken(a)'[i].id]
               /\ Interested(a, Taken(a)'[i])
               /\ Ahead(a)' => Taken(a)'[i].id < Done'
               /\ disp' = "callbacks" /\ ~turn'.delivered => Taken(a)'[i].id < Done'
    <3> DEFINE x == Taken(a)[i]
    <3>1. /\ x.id \in 1 .. Done /\ x = raised[x.id] /\ Interested(a, x)
          /\ Ahead(a) => x.id < Done
          /\ disp = "callbacks" /\ ~turn.delivered => x.id < Done
      BY <2>1 DEF TakenInv
    <3>2. Taken(a)'[i] = x
      BY <2>1
    <3> HIDE DEF x
    <3>3. x.id \in 1 .. Done' /\ x = raised'[x.id]
      BY <1>d, <3>1
    <3>4. CASE DispatcherPop
      <4>1. x.id < Done'
        BY <1>d, <3>1, <3>4
      <4> QED BY <3>1, <3>2, <3>3, <4>1
    <3>5. CASE ~DispatcherPop
      <4>1. /\ Ahead(a)' => Ahead(a)
            /\ disp' = "callbacks" /\ ~turn'.delivered => disp = "callbacks" /\ ~turn.delivered
        BY <3>5, AheadAfter
      <4>2. x.id < Done => x.id < Done'
        BY <1>d, <3>1
      <4> QED BY <3>1, <3>2, <3>3, <4>1, <4>2
    <3> QED BY <3>4, <3>5
  <2>3. ASSUME NEW i \in DOMAIN Taken(a)', NEW j \in DOMAIN Taken(a)', i < j
        PROVE  Taken(a)'[i].id < Taken(a)'[j].id
    BY <2>1, <2>3 DEF TakenInv
  <2>4. \A x : Interested(a, x)' <=> Interested(a, x)
    BY DEF Interested
  <2> QED BY <2>2, <2>3, <2>4 DEF TakenInv
<1>3. Taken(a)' = Taken(a) => Cut(a)
  BY DEF Cut
<1> QED BY <1>1, <1>2, <1>3, TakenCases

LEMMA NothingMissedStep ==
  ASSUME TypeOK, TypeOK', QueueInv, QueueInv', SubscriptionInv, [Next]_vars,
         NEW a \in Activities, TakenInv(a), NothingMissed(a)
  PROVE  NothingMissed(a)'
<1>d. /\ Done \in Nat /\ Done' \in Nat /\ Done <= Done'
      /\ \A n \in 1 .. Done : raised'[n] = raised[n]
      /\ DispatcherPop => Done' = Done + 1
      /\ ~DispatcherPop => Done' = Done
  BY DoneAfter
<1>t. /\ life \in [Activities \cup Protocols -> {"registering", "waiting", "leaving",
                                                "erasing", "stopped", "destroyed"}]
      /\ since \in [Activities -> 0 .. MaxRaises] /\ MaxRaises \in Nat
      /\ since' \in [Activities -> 0 .. MaxRaises]
  BY BusAssumption DEF TypeOK
<1>1. CASE life'[a] # "waiting"
  BY <1>1 DEF NothingMissed
<1>2. CASE life[a] # "waiting" /\ life'[a] = "waiting"
  <2>1. Register(a)
    <3>1. CASE DispatcherCall
      BY <1>2, <1>t, <3>1 DEF DispatcherCall, Call
    <3>2. ASSUME NEW b \in Activities, \/ WaitEvent(b) \/ Leave(b)
                                       \/ UnsubscribeCheck(b) \/ UnsubscribeErase(b)
                                       \/ b # a /\ Register(b)
          PROVE  FALSE
      BY <1>2, <1>t, <3>2 DEF WaitEvent, Leave, UnsubscribeCheck, UnsubscribeErase, Register
    <3>3. ASSUME NEW p \in Protocols, ProtocolStart(p) \/ ProtocolDestroy(p) PROVE FALSE
      <4>1. p # a
        BY KindsApart
      <4> QED BY <1>2, <1>t, <3>3, <4>1 DEF ProtocolStart, ProtocolDestroy
    <3>4. CASE life' = life
      BY <1>2, <3>4
    <3>5. \/ DispatcherCall \/ life' = life
          \/ \E b \in Activities : \/ Register(b) \/ WaitEvent(b) \/ Leave(b)
                                 \/ UnsubscribeCheck(b) \/ UnsubscribeErase(b)
          \/ \E p \in Protocols : ProtocolStart(p) \/ ProtocolDestroy(p)
      BY StepCases DEF Raise, DispatcherSubscribe, DispatcherPop, DispatcherUnlock,
           DispatcherRelease, AutoRead, vars, actVars
    <3> QED BY <3>1, <3>2, <3>3, <3>4, <3>5
  <2>2. since'[a] = Len(raised) /\ UNCHANGED <<raised, events>>
    BY <1>2, <1>t, <2>1 DEF Register, busVars
  <2>3. Done' <= since'[a]
    <3>1. Len(raised) \in Nat /\ Len(events) \in Nat
      BY LenProperties DEF TypeOK
    <3> QED BY <2>2, <3>1 DEF Done
  <2>4. since'[a] \in Nat
    BY <1>t
  <2> QED BY <1>d, <2>3, <2>4 DEF NothingMissed
<1>3. CASE life[a] = "waiting" /\ life'[a] = "waiting"
  <2>1. since'[a] = since[a] /\ since[a] \in Nat
    <3>1. ASSUME NEW b \in Activities, Register(b) PROVE since'[a] = since[a]
      BY <1>3, <1>t, <3>1 DEF Register
    <3>2. since' = since \/ \E b \in Activities : Register(b)
      BY StepCases DEF Raise, DispatcherSubscribe, DispatcherPop, DispatcherUnlock,
         DispatcherCall, DispatcherRelease, AutoRead, WaitEvent, Leave,
         UnsubscribeCheck, UnsubscribeErase, ProtocolStart, ProtocolDestroy, vars, actVars
    <3> QED BY <1>t, <3>1, <3>2
  <2>2. \A x \in ToSet(Taken(a)) : x \in ToSet(Taken(a)')
    <3>1. Taken(a)' = Taken(a) \/ Taken(a)' = Append(Taken(a), turn.event)
      BY <1>3, TakenCases DEF Called
    <3>2. CASE DispatcherCall /\ Taken(a)' = Append(Taken(a), turn.event)
      <4>1. Taken(a) \in Seq(Events) /\ turn.event \in Events
        BY <3>2, TakenTyped, CallTyped
      <4> QED BY <3>2, <4>1, AppendSet
    <3> QED BY <1>3, <3>2, TakenCases DEF Called
  <2>3. ASSUME NEW i \in since'[a] + 1 .. Done', Interested(a, raised'[i])
        PROVE  raised'[i] \in ToSet(Taken(a)') \/ (i = Done' /\ Ahead(a)')
    <3>1. CASE i \in since[a] + 1 .. Done
      <4>1. raised'[i] = raised[i]
        BY <1>d, <2>1, <3>1
      <4>2. raised[i] \in ToSet(Taken(a)) \/ (i = Done /\ Ahead(a))
        BY <1>3, <2>3, <3>1, <4>1 DEF NothingMissed
      <4>3. CASE raised[i] \in ToSet(Taken(a))
        BY <2>2, <4>1, <4>3
      <4>4. CASE i = Done /\ Ahead(a)
        <5>1. PICK k \in DOMAIN Row : turn.next <= k /\ Row[k].owner = a
          BY <4>4 DEF Ahead
        <5>2. disp = "callbacks"
          BY <4>4 DEF Ahead
        <5>3. CASE DispatcherCall
          <6> DEFINE s == Row[turn.next]
                     e == turn.event
          <6>1. /\ Row' = Row /\ DOMAIN Row = 1 .. Len(Row) /\ disp' = "callbacks"
                /\ Len(Row) \in Nat /\ turn.next \in 1 .. Len(Row)
                /\ turn'.next = turn.next + 1 /\ e = raised[Done]
                /\ OwnerKnown(e.type, s)
            BY <5>3, CallFacts
          <6>2. CASE k # turn.next
            <7>1. turn'.next <= k
              BY <5>1, <6>1, <6>2
            <7>2. Ahead(a)'
              BY <5>1, <6>1, <7>1 DEF Ahead
            <7>3. Done' = Done
              BY <1>d, <5>3 DEF DispatcherCall, Done
            <7> QED BY <4>4, <7>2, <7>3
          <6>3. CASE k = turn.next
            <7>1. s.owner = a
              BY <5>1, <6>3
            <7>2. PICK m \in DOMAIN Handlers[a] :
                    /\ Handlers[a][m][1] = e.type
                    /\ Handlers[a][m][2] \in {NoSource, e.source} \/ e.source = NoSource
              BY <2>3, <4>1, <4>4, <6>1 DEF Interested
            <7>3. PICK n \in erased[a] + 1 .. tokens[a] : Handlers[a][n] = <<e.type, s.source>>
              BY <6>1, <7>1 DEF OwnerKnown
            <7>4. n \in DOMAIN Handlers[a]
              <8>1. erased[a] \in Nat /\ tokens[a] \in Nat /\ tokens[a] <= Len(Handlers[a])
                BY DEF TypeOK, SubscriptionInv, ActivityTokens, TokensOfLife
              <8> QED BY <8>1, HandlersApart
            <7>5. Handlers[a][n][1] = e.type /\ Handlers[a][n][2] = s.source
              BY <7>3
            <7>6. m = n
              BY <7>2, <7>4, <7>5, HandlersApart
            <7>7. SourceValid(s, e)
              BY <7>2, <7>5, <7>6 DEF SourceValid
            <7>8. Taken(a)' = Append(Taken(a), e)
              BY <1>3, <5>3, <7>1, <7>7, CallTaken DEF Called
            <7>9. e \in Events /\ Taken(a) \in Seq(Events)
              BY <5>3, TakenTyped, CallTyped
            <7>10. e \in ToSet(Taken(a)')
              BY <7>8, <7>9, AppendSet
            <7> QED BY <4>1, <4>4, <6>1, <7>10
          <6> QED BY <6>2, <6>3
        <5>4. CASE ~DispatcherCall /\ disp' = "callbacks"
          <6>1. ~DispatcherPop
            BY <5>2 DEF DispatcherPop
          <6>2. UNCHANGED <<turn, subscribers>>
            BY <5>4, <6>1, TurnKept
          <6>3. Ahead(a)' /\ Done' = Done
            BY <1>d, <4>4, <5>4, <6>1, <6>2 DEF Ahead, Row
          <6> QED BY <4>4, <6>3
        <5>5. CASE disp' # "callbacks"
          <6>1. DispatcherUnlock
            BY <5>2, <5>5, StepCases DEF Raise, DispatcherSubscribe, DispatcherPop,
               DispatcherCall, DispatcherRelease, AutoRead, Register, WaitEvent, Leave,
               UnsubscribeCheck, UnsubscribeErase, ProtocolStart, ProtocolDestroy,
               vars, turnVars
          <6>2. turn.next > Len(Row)
            BY <6>1 DEF DispatcherUnlock
          <6>3. Done \in 1 .. Len(raised) /\ turn.event = raised[Done]
            BY <1>d, <5>2, DoneAfter DEF QueueInv
          <6>4. turn.event.type \in AllTypes
            <7>1. raised \in Seq(Events)
              BY DEF TypeOK
            <7>2. turn.event \in Events
              BY <6>3, <7>1, ElementOfSeq
            <7> QED BY <7>2 DEF Events, AllTypes
          <6>5. DOMAIN Row = 1 .. Len(Row) /\ Len(Row) \in Nat /\ turn.next \in Nat
            BY <6>4, RowsTyped DEF Row, TypeOK
          <6> QED BY <5>1, <6>2, <6>5
        <5> QED BY <5>3, <5>4, <5>5
      <4> QED BY <4>2, <4>3, <4>4
    <3>2. CASE i \notin since[a] + 1 .. Done
      <4>1. DispatcherPop /\ i = Done'
        BY <1>d, <2>1, <3>2
      <4>2. /\ turn'.next = 1 /\ disp' = "callbacks" /\ subscribers' = subscribers
            /\ erased' = erased /\ tokens' = tokens
        BY <4>1 DEF DispatcherPop, tokenVars
      <4>3. turn'.event = raised'[i]
        BY <4>1, <4>2 DEF QueueInv
      <4>4. PICK m \in DOMAIN Handlers[a] : Handlers[a][m][1] = turn'.event.type
        BY <2>3, <4>3 DEF Interested
      <4>5. m \in erased[a] + 1 .. tokens[a]
        <5>1. tokens[a] \in Nat /\ Len(Handlers[a]) \in Nat
              /\ DOMAIN Handlers[a] = 1 .. Len(Handlers[a])
          BY HandlersApart DEF TypeOK
        <5>2. erased[a] = 0 /\ tokens[a] <= Len(Handlers[a]) /\ ~(tokens[a] < Len(Handlers[a]))
          BY <1>3 DEF SubscriptionInv, ActivityTokens, TokensOfLife
        <5> QED BY <5>1, <5>2
      <4>6. m \in 1 .. Len(Handlers[a])
        BY HandlersApart
      <4>7. Handlers[a][m][1] \in AllTypes
        BY <4>6, HandlersTyped
      <4>8. \E k \in DOMAIN subscribers[Handlers[a][m][1]] :
              subscribers[Handlers[a][m][1]][k].owner = a
        BY <4>5 DEF SubscriptionInv, ActivityTokens
      <4>9. PICK k \in DOMAIN Row' : Row'[k].owner = a
        BY <4>2, <4>4, <4>8 DEF Row
      <4>10. turn'.next <= k
        <5>1. DOMAIN Row' = 1 .. Len(Row')
          BY <4>2, <4>4, <4>7, RowsTyped DEF Row
        <5> QED BY <4>2, <4>9, <5>1
      <4>11. Ahead(a)'
        BY <4>2, <4>9, <4>10 DEF Ahead
      <4> QED BY <4>1, <4>11
    <3> QED BY <3>1, <3>2
  <2>4. Interested(a, raised[1]) \in BOOLEAN
    BY DEF Interested
  <2> QED BY <2>3 DEF NothingMissed, Interested
<1> QED BY <1>1, <1>2, <1>3

LEMMA AutosStep ==
  ASSUME TypeOK, TypeOK', QueueInv, SubscriptionInv, [Next]_vars,
         \A a \in Activities : TakenInv(a), AutosInv
  PROVE  AutosInv'
<1>d. /\ Done \in Nat /\ Done' \in Nat /\ Done <= Done'
      /\ \A n \in 1 .. Done : raised'[n] = raised[n]
      /\ DispatcherPop => Done' = Done + 1
      /\ ~DispatcherPop => Done' = Done
  BY DoneAfter
(* An event that nobody had taken and that is not the event of the turn. *)
<1>1. ASSUME NEW e, e.id \in 1 .. Done, e = raised[e.id],
             disp = "callbacks" /\ ~DispatcherUnlock => e.id < Done,
             \A a \in Activities : e \notin ToSet(Taken(a))
      PROVE  /\ e.id \in 1 .. Done' /\ e = raised'[e.id]
             /\ disp' = "callbacks" => e.id < Done'
             /\ \A a \in Activities : e \notin ToSet(Taken(a)')
  <2>1. e.id \in 1 .. Done' /\ e = raised'[e.id]
    BY <1>1, <1>d
  <2>2. disp' = "callbacks" => e.id < Done'
    <3>1. CASE DispatcherPop
      BY <1>1, <1>d, <3>1
    <3>2. CASE ~DispatcherPop /\ disp' = "callbacks"
      <4>1. disp = "callbacks" /\ ~DispatcherUnlock
        <5>1. CASE DispatcherCall
          BY <5>1 DEF DispatcherCall, DispatcherUnlock
        <5>2. CASE ~DispatcherCall
          BY <3>2, <5>2, TurnKept DEF DispatcherUnlock
        <5> QED BY <5>1, <5>2
      <4> QED BY <1>1, <1>d, <3>2, <4>1
    <3> QED BY <3>1, <3>2
  <2>3. ASSUME NEW a \in Activities PROVE e \notin ToSet(Taken(a)')
    <3>1. CASE Called(a)
      <4>1. /\ DispatcherCall /\ Taken(a)' = Append(Taken(a), turn.event)
        BY <3>1 DEF Called
      <4>2. Taken(a) \in Seq(Events) /\ turn.event \in Events
        BY <4>1, TakenTyped, CallTyped
      <4>3. turn.event.id = Done /\ disp = "callbacks" /\ ~DispatcherUnlock
        BY <4>1, CallFacts DEF DispatcherCall, DispatcherUnlock
      <4>4. e # turn.event
        BY <1>1, <1>d, <4>3
      <4> QED BY <1>1, <4>1, <4>2, <4>4, AppendSet
    <3>2. CASE Cut(a)
      BY <1>1, <3>2 DEF Cut, ToSet
    <3>3. Taken(a)' = Taken(a) => Cut(a)
      BY DEF Cut
    <3> QED BY <3>1, <3>2, <3>3, TakenCases
  <2> QED BY <2>1, <2>2, <2>3
<1>2. ASSUME NEW x \in autos'
      PROVE  /\ x.event.id \in 1 .. Done /\ x.event = raised[x.event.id]
             /\ disp = "callbacks" /\ ~DispatcherUnlock => x.event.id < Done
             /\ \A a \in Activities : x.event \notin ToSet(Taken(a))
  <2>1. CASE \E y \in autos : y.event = x.event
    BY <2>1 DEF AutosInv
  <2>2. CASE ~\E y \in autos : y.event = x.event
    <3>1. DispatcherUnlock
      <4>1. ASSUME NEW y \in autos, AutoRead(y) PROVE FALSE
        <5>1. y \in [event : Events, read : {"no", "live", "stale"}]
          BY DEF TypeOK
        <5>2. x \in autos \/ x.event = y.event
          BY <4>1, <5>1 DEF AutoRead
        <5> QED BY <2>2, <5>2
      <4>2. autos' # autos
        BY <2>2
      <4> QED BY <4>1, <4>2, StepCases DEF Raise, DispatcherSubscribe, DispatcherPop,
           DispatcherCall, DispatcherRelease, Register, WaitEvent, Leave,
           UnsubscribeCheck, UnsubscribeErase, ProtocolStart, ProtocolDestroy, vars
    <3>2. disp = "callbacks" /\ ~turn.delivered /\ x.event = turn.event
      BY <2>2, <3>1 DEF DispatcherUnlock
    <3>3. Done \in 1 .. Len(raised) /\ turn.event = raised[Done] /\ raised[Done].id = Done
      <4>1. Done \in 1 .. Len(raised) /\ turn.event = raised[Done]
        BY <1>d, <3>2, DoneAfter DEF QueueInv
      <4> QED BY <4>1 DEF QueueInv
    <3>4. ASSUME NEW a \in Activities PROVE x.event \notin ToSet(Taken(a))
      BY <1>d, <3>2, <3>3 DEF TakenInv, ToSet
    <3> QED BY <1>d, <3>1, <3>2, <3>3, <3>4
  <2> QED BY <2>1, <2>2
<1>3. ASSUME NEW x \in autos'
      PROVE  /\ x.event.id \in 1 .. Done' /\ x.event = raised'[x.event.id]
             /\ disp' = "callbacks" => x.event.id < Done'
             /\ \A a \in Activities : x.event \notin ToSet(Taken(a)')
  <2> DEFINE e == x.event
  <2>1. /\ e.id \in 1 .. Done /\ e = raised[e.id]
        /\ disp = "callbacks" /\ ~DispatcherUnlock => e.id < Done
        /\ \A a \in Activities : e \notin ToSet(Taken(a))
    BY <1>2
  <2> HIDE DEF e
  <2>2. /\ e.id \in 1 .. Done' /\ e = raised'[e.id]
        /\ disp' = "callbacks" => e.id < Done'
        /\ \A a \in Activities : e \notin ToSet(Taken(a)')
    BY <1>1, <2>1
  <2> QED BY <2>2 DEF e
<1> QED BY <1>3 DEF AutosInv

-----------------------------------------------------------------------------
(* The theorems.                                                           *)

LEMMA InitInv ==
  ASSUME Init
  PROVE  Inv
<1>0. raised = <<>> /\ events = <<>> /\ Len(raised) = 0 /\ Len(events) = 0 /\ Done = 0
  BY DEF Init, Done
<1>1. TypeOK
  <2>1. \A t \in Types \cup {Quit} : <<>> \in Seq(Subscription)
    OBVIOUS
  <2>2. /\ <<>> \in Seq(Events) /\ 0 \in 0 .. MaxRaises
        /\ {} \subseteq [event : Events, read : {"no", "live", "stale"}]
        /\ {} \subseteq (Activities \cup Protocols) \X (Types \cup {Quit})
    BY BusAssumption
  <2>3. turn \in [event : Events \cup {None}, next : Nat \ {0}, delivered : BOOLEAN]
    BY DEF Init
  <2> QED BY <2>1, <2>2, <2>3 DEF Init, TypeOK
<1>2. QueueInv
  BY <1>0, BusAssumption DEF Init, QueueInv
<1>3. SubscriptionInv
  <2>1. ASSUME NEW a \in Activities PROVE ActivityTokens(a)
    <3>1. Len(Handlers[a]) \in Nat \ {0} /\ tokens[a] = 0 /\ erased[a] = 0
          /\ life[a] = "registering"
      BY HandlersApart DEF Init
    <3> QED BY <3>1 DEF ActivityTokens, TokensOfLife
  <2>2. \A t \in AllTypes : subscribers[t] = <<>>
    BY DEF Init, AllTypes
  <2> QED BY <2>1, <2>2 DEF SubscriptionInv, OncePerType
<1>4. TurnInv /\ StaleInv /\ AutosInv
  BY DEF Init, TurnInv, StaleInv, AutosInv
<1>5. ASSUME NEW a \in Activities PROVE TakenInv(a) /\ NothingMissed(a)
  <2>1. handled[a] = <<>> /\ handlers[a] = <<>> /\ life[a] = "registering"
    BY DEF Init
  <2>2. Taken(a) = <<>>
    BY <2>1, ConcatEmptySeq DEF Taken
  <2> QED BY <2>1, <2>2 DEF TakenInv, NothingMissed
<1> QED BY <1>1, <1>2, <1>3, <1>4, <1>5 DEF Inv

LEMMA InvStep ==
  ASSUME Inv, [Next]_vars
  PROVE  Inv'
<1>1. /\ TypeOK /\ QueueInv /\ SubscriptionInv /\ TurnInv /\ StaleInv /\ AutosInv
      /\ \A a \in Activities : TakenInv(a) /\ NothingMissed(a)
  BY DEF Inv
<1>2. TypeOK'
  BY <1>1, TypeStep
<1>3. QueueInv'
  BY <1>1, <1>2, QueueStep
<1>4. SubscriptionInv'
  BY <1>1, <1>2, SubscriptionStep
<1>5. TurnInv' /\ StaleInv'
  BY <1>1, TurnStep, StaleStep
<1>6. ASSUME NEW a \in Activities PROVE TakenInv(a)' /\ NothingMissed(a)'
  BY <1>1, <1>2, <1>3, TakenStep, NothingMissedStep
<1>7. AutosInv'
  BY <1>1, <1>2, AutosStep
<1> QED BY <1>2, <1>3, <1>4, <1>5, <1>6, <1>7 DEF Inv

LEMMA InvAlways == Spec => []Inv
<1>1. Init => Inv
  BY InitInv
<1>2. Inv /\ [Next]_vars => Inv'
  BY InvStep
<1> QED BY <1>1, <1>2, PTL DEF Spec

(* Every variable of the application and of its activities has its type:   *)
(* no turn looks past the row of subscriptions it started with, and no     *)
(* callback is called on anything but an object.                           *)
THEOREM BusTypeCorrect == Spec => []TypeOK
<1>1. Inv => TypeOK
  BY DEF Inv
<1> QED BY <1>1, InvAlways, PTL

(* A callback reaches an object that is gone only in the turn of Quit, and *)
(* an activity only if it subscribed to Quit after the dispatcher: while   *)
(* the dispatcher runs, no subscription outlives its activity, since the   *)
(* destructor erases every token before it ends.                           *)
THEOREM CallbacksReachTheLiving == Spec => []CallbacksAlive
<1>1. ASSUME Inv PROVE CallbacksAlive
  <2>1. SubscriptionsAlive
    <3> SUFFICES ASSUME running, NEW t \in AllTypes, NEW i \in DOMAIN subscribers[t],
                        subscribers[t][i].owner \in Activities,
                        life[subscribers[t][i].owner] = "destroyed"
                 PROVE  FALSE
      BY DEF SubscriptionsAlive, AllTypes
    <3> DEFINE a == subscribers[t][i].owner
    <3>1. OwnerKnown(t, subscribers[t][i])
      BY <1>1 DEF Inv, SubscriptionInv
    <3>2. \E k \in erased[a] + 1 .. tokens[a] : TRUE
      BY <3>1 DEF OwnerKnown
    <3>3. a \in Activities /\ life[a] = "destroyed"
      OBVIOUS
    <3> HIDE DEF a
    <3>4. erased[a] = tokens[a] /\ erased[a] \in Nat
      BY <1>1, <3>3 DEF Inv, SubscriptionInv, ActivityTokens, TokensOfLife, TypeOK
    <3> QED BY <3>2, <3>4
  <2>2. StaleOnlyAtQuit
    BY <1>1 DEF Inv, StaleInv, StaleOnlyAtQuit
  <2> QED BY <2>1, <2>2 DEF CallbacksAlive
<1> QED BY <1>1, InvAlways, PTL

(* Each event reaches every activity that waits for it, once and in the    *)
(* order of the raises, and nobody else; the activity that is made from an *)
(* event gets one that nobody was given.                                   *)
THEOREM EventsReachTheirActivities == Spec => []EventsDelivered
<1>1. ASSUME Inv PROVE EventsDelivered
  <2>0. /\ TypeOK /\ QueueInv /\ AutosInv
        /\ \A a \in Activities : TakenInv(a) /\ NothingMissed(a)
    BY <1>1 DEF Inv
  <2>1. ASSUME NEW a \in Activities
        PROVE  /\ \A i, j \in DOMAIN Taken(a) : i < j => Taken(a)[i].id < Taken(a)[j].id
               /\ \A i \in DOMAIN Taken(a) : Interested(a, Taken(a)[i])
    BY <2>0 DEF TakenInv
  <2>2. ASSUME NEW a \in Activities, life[a] = "waiting",
               NEW i \in since[a] + 1 .. Len(raised) - Len(events),
               Interested(a, raised[i]), raised[i] # turn.event
        PROVE  raised[i] \in ToSet(Taken(a))
    <3>1. raised[i] \in ToSet(Taken(a)) \/ (i = Done /\ Ahead(a))
      BY <2>0, <2>2 DEF NothingMissed, Done
    <3>2. ~(i = Done /\ Ahead(a))
      BY <2>0, <2>2 DEF Ahead, QueueInv
    <3> QED BY <3>1, <3>2
  <2>3. EventsInOrder
    BY <2>1, <2>2 DEF EventsInOrder
  <2>4. AutoOnlyIfUntaken
    BY <2>0 DEF AutosInv, AutoOnlyIfUntaken
  <2> QED BY <2>3, <2>4 DEF EventsDelivered
<1> QED BY <1>1, InvAlways, PTL

=============================================================================
