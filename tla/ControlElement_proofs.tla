----------------------- MODULE ControlElement_proofs -----------------------
(* Proofs about ControlElement, for every value of its constants.          *)
EXTENDS ControlElement, SequenceTheorems, TLAPS

(* A protocol that exists has a peer with a name. *)
PeerKnown == \A p \in Protos : conn[p] # "free" => peer[p] \in Names

TypeInv == TypeOK /\ PeerKnown

LcpRecords == [pc : LcpStates, answers : Nat, notes : Nat]

(* A function on an initial segment of the positive numbers is a sequence. *)
LEMMA FunctionIsSeq ==
  ASSUME NEW S, NEW n \in Nat, NEW f \in [1 .. n -> S]
  PROVE  f \in Seq(S) /\ Len(f) = n
OBVIOUS

(* What a queue is after an event is added or taken. *)
LEMMA BusTyped ==
  ASSUME TypeInv
  PROVE  /\ \A event \in Events : Raise(event) => bus' \in Seq(Events)
         /\ bus # <<>> => Head(bus) \in Events /\ Tail(bus) \in Seq(Events)
<1>1. bus \in Seq(Events) BY DEF TypeInv, TypeOK
<1>2. ASSUME NEW event \in Events, Raise(event) PROVE bus' \in Seq(Events)
  BY <1>1, <1>2, AppendProperties DEF Raise
<1>3. bus # <<>> => Head(bus) \in Events /\ Tail(bus) \in Seq(Events)
  BY <1>1, HeadTailProperties
<1> QED BY <1>2, <1>3

LEMMA QueueTyped ==
  ASSUME TypeInv
  PROVE  /\ \A event \in Events : Enqueue(event) => queue' \in Seq(Events)
         /\ queue # <<>> => Head(queue) \in Events /\ Tail(queue) \in Seq(Events)
<1>1. queue \in Seq(Events) BY DEF TypeInv, TypeOK
<1>2. ASSUME NEW event \in Events, Enqueue(event) PROVE queue' \in Seq(Events)
  BY <1>1, <1>2, AppendProperties DEF Enqueue
<1>3. queue # <<>> => Head(queue) \in Events /\ Tail(queue) \in Seq(Events)
  BY <1>1, HeadTailProperties
<1> QED BY <1>2, <1>3

LEMMA InboxTyped ==
  ASSUME TypeInv, NEW p \in Protos
  PROVE  /\ \A n \in Names : Append(inbox[p], n) \in Seq(Names)
         /\ inbox[p] # <<>> => /\ Head(inbox[p]) \in Names
                               /\ Tail(inbox[p]) \in Seq(Names)
<1>1. inbox[p] \in Seq(Names) BY DEF TypeInv, TypeOK
<1> QED BY <1>1, AppendProperties, HeadTailProperties

LEMMA RecordTyped ==
  ASSUME NEW r \in LcpRecords
  PROVE  /\ \A s \in LcpStates : [r EXCEPT !.pc = s] \in LcpRecords
         /\ [r EXCEPT !.answers = @ + 1] \in LcpRecords
         /\ [r EXCEPT !.notes = @ + 1] \in LcpRecords
         /\ r.notes > 0 => [r EXCEPT !.notes = @ - 1] \in LcpRecords
BY DEF LcpRecords

(* An update of the record of an LCP. *)
LEMMA LcpTyped ==
  ASSUME TypeInv, NEW i \in 1 .. Len(lcp), NEW r \in LcpRecords
  PROVE  /\ lcp[i] \in LcpRecords
         /\ [lcp EXCEPT ![i] = r] \in Seq(LcpRecords)
<1>1. lcp \in Seq(LcpRecords) BY DEF TypeInv, TypeOK, LcpRecords
<1> QED BY <1>1, ElementOfSeq, ExceptSeq

LEMMA EventsTyped ==
  /\ \A p \in Protos, n \in Names : /\ ServiceElementData(p, n) \in Events
                                    /\ ServiceElementConnected(p, n) \in Events
  /\ \A p \in Protos : ConnectionReset(p) \in Events
  /\ \A r \in Routes : LocalRouteAdded(r) \in Events
  /\ \A i \in Nat \ {0} : Request(i) \in Events
  /\ LCPTaskStarted \in Events
  /\ LCPStarted \in Events
BY DEF Events, ServiceElementData, ServiceElementConnected, ConnectionReset,
       LocalRouteAdded, Request, LCPTaskStarted, LCPStarted

LEMMA EventFields ==
  ASSUME NEW e \in Events
  PROVE  /\ e.type \in {"ServiceElementData", "ServiceElementConnected"}
              => e.proto \in Protos /\ e.name \in Names
         /\ e.type = "ConnectionReset" => e.proto \in Protos
         /\ e.type = "LocalRouteAdded" => e.route \in Routes
         /\ e.type = "Request" => e.lcp \in Nat \ {0}
BY DEF Events

LEMMA TypeInit == Init => TypeInv
<1> SUFFICES ASSUME Init PROVE TypeInv
  OBVIOUS
<1>1. /\ bus \in Seq(Events) /\ queue \in Seq(Events)
      /\ lcp \in Seq([pc : LcpStates, answers : Nat, notes : Nat])
      /\ inbox \in [Protos -> Seq(Names)]
  BY EmptySeq DEF Init
<1>2. DOMAIN table \subseteq Protos /\ table \in [DOMAIN table -> Elements]
  BY DEF Init
<1>3. /\ peer \in [Protos -> Names \cup {None}]
      /\ proto \in [Elements -> Protos \cup {None}]
      /\ sent \in [Elements -> [Routes -> Nat]]
      /\ setup \in [Protos -> SetupStates]
  BY DEF Init, NoRoutes, SetupStates
<1>4. PeerKnown BY DEF Init, PeerKnown
<1>5. /\ phase \in {"starting", "listening", "running"}
      /\ conn \in [Protos -> {"free", "up", "down"}]
      /\ hello \in [Protos -> BOOLEAN]
      /\ services \in [Elements -> Nat]
      /\ routes \subseteq Routes
  BY DEF Init
<1>6. /\ lcpStarted \in BOOLEAN
      /\ announced \in [Elements -> {"never", "active", "disconnected"}]
      /\ httpServers \in Nat
  BY DEF Init
<1>7. accepts \in 0 .. MaxAccepts
  BY BoundAssumption DEF Init
<1> QED BY <1>1, <1>2, <1>3, <1>4, <1>5, <1>6, <1>7 DEF TypeInv, TypeOK

LEMMA ReapTyped ==
  ASSUME TypeInv, Reap
  PROVE  /\ conn' \in [Protos -> {"free", "up", "down"}]
         /\ \A p \in Protos : conn'[p] # "free" => conn[p] = conn'[p]
BY DEF TypeInv, TypeOK, Reap

LEMMA StartLcpTyped ==
  ASSUME TypeInv, StartLcp
  PROVE  lcp' \in Seq([pc : LcpStates, answers : Nat, notes : Nat])
<1>1. NewLcp \in LcpRecords BY DEF NewLcp, LcpRecords, LcpStates
<1> QED BY <1>1, AppendProperties DEF TypeInv, TypeOK, StartLcp, LcpRecords

LEMMA TypeBoot == ASSUME TypeInv, Boot PROVE TypeInv'
<1>1. CASE RegisterListeners
  BY <1>1 DEF RegisterListeners, TypeInv, TypeOK, PeerKnown, peerVars, elementVars, lcpVars
<1>2. CASE Run
  BY <1>2, StartLcpTyped DEF Run, TypeInv, TypeOK, PeerKnown, peerVars, elementVars
<1> QED BY <1>1, <1>2 DEF Boot

LEMMA TypeNetwork == ASSUME TypeInv, Network PROVE TypeInv'
<1> USE DEF TypeInv, TypeOK, PeerKnown, peerVars, elementVars, lcpVars
<1>1. ASSUME NEW p \in Protos, NEW n \in Peers, Accept(p, n) PROVE TypeInv'
  BY <1>1, BoundAssumption DEF Accept, Names, SetupStates
<1>2. ASSUME NEW p \in Protos, ReceiveData(p) PROVE TypeInv'
  BY <1>2, EventsTyped, BusTyped DEF ReceiveData
<1>3. ASSUME NEW p \in Protos, ReceiveReset(p) PROVE TypeInv'
  BY <1>3, EventsTyped, BusTyped DEF ReceiveReset, EndReceiver
<1>4. ASSUME NEW r \in Routes, KernelAddsRoute(r) PROVE TypeInv'
  BY <1>4, EventsTyped, BusTyped DEF KernelAddsRoute
<1> QED BY <1>1, <1>2, <1>3, <1>4 DEF Network

LEMMA TypeSetup ==
  ASSUME TypeInv, NEW p \in Protos, Setup(p) \/ SetupTimeout(p)
  PROVE  TypeInv'
<1> USE DEF TypeInv, TypeOK, PeerKnown, peerVars, elementVars, lcpVars, SetupStep, SetupStates
<1>1. CASE SetupStart(p) BY <1>1 DEF SetupStart
<1>2. CASE SetupRegister(p) BY <1>2 DEF SetupRegister
<1>3. CASE SetupHandle(p)
  <2>1. Head(inbox[p]) \in Names /\ Tail(inbox[p]) \in Seq(Names)
    BY <1>3, InboxTyped DEF SetupHandle
  <2> QED BY <1>3, <2>1, EventsTyped, BusTyped DEF SetupHandle
<1>4. CASE SetupAck(p) BY <1>4 DEF SetupAck
<1>5. CASE SetupTimeout(p) BY <1>5 DEF SetupTimeout
<1>6. CASE SetupLeave(p)
  BY <1>6, ReapTyped DEF SetupLeave
<1> QED BY <1>1, <1>2, <1>3, <1>4, <1>5, <1>6 DEF Setup

LEMMA TypeDispatch == ASSUME TypeInv, Dispatch PROVE TypeInv'
<1> USE DEF TypeInv, TypeOK, PeerKnown, peerVars, elementVars, lcpVars
<1>1. CASE DispatchData
  <2>1. bus' \in Seq(Events) /\ Head(bus) \in Events
    BY <1>1, BusTyped DEF DispatchData
  <2>2. Head(bus).proto \in Protos /\ Head(bus).name \in Names
    BY <1>1, <2>1, EventFields DEF DispatchData
  <2>3. inbox' \in [Protos -> Seq(Names)]
    BY <1>1, <2>2, InboxTyped DEF DispatchData
  <2> QED BY <1>1, <2>1, <2>3 DEF DispatchData
<1>2. CASE DispatchToControlElement
  <2>1. bus' \in Seq(Events) /\ Head(bus) \in Events
    BY <1>2, BusTyped DEF DispatchToControlElement
  <2>2. queue' \in Seq(Events)
    BY <1>2, <2>1, QueueTyped DEF DispatchToControlElement
  <2> QED BY <1>2, <2>1, <2>2, ReapTyped DEF DispatchToControlElement
<1>3. CASE DispatchLcpTaskStarted
  <2>1. bus' \in Seq(Events)
    BY <1>3, BusTyped DEF DispatchLcpTaskStarted
  <2>2. lcp' \in [1 .. Len(lcp) -> LcpRecords]
    <3>1. \A i \in 1 .. Len(lcp) : lcp[i] \in LcpRecords
      BY ElementOfSeq DEF LcpRecords
    <3> QED BY <1>3, <3>1, RecordTyped DEF DispatchLcpTaskStarted
  <2>3. lcp' \in Seq([pc : LcpStates, answers : Nat, notes : Nat])
    <3>1. Len(lcp) \in Nat
      BY LenProperties
    <3> QED BY <2>2, <3>1, FunctionIsSeq DEF LcpRecords
  <2> QED BY <1>3, <2>1, <2>3 DEF DispatchLcpTaskStarted
<1> QED BY <1>1, <1>2, <1>3 DEF Dispatch

LEMMA TypeHandle == ASSUME TypeInv, Handle PROVE TypeInv'
<1> USE DEF TypeInv, TypeOK, PeerKnown, peerVars, elementVars, lcpVars
<1>h. ASSUME NEW type, Serve(type)
      PROVE  /\ queue' \in Seq(Events)
             /\ Head(queue) \in Events
             /\ Head(queue).type = type
  BY <1>h, QueueTyped DEF Serve
<1>1. CASE RefuseServiceElement
  BY <1>1, <1>h, ReapTyped DEF RefuseServiceElement
<1>2. CASE ConnectServiceElement
  <2> DEFINE e == Head(queue).name
             p == Head(queue).proto
  <2>1. queue' \in Seq(Events) /\ p \in Protos /\ e \in Elements
    BY <1>2, <1>h, EventFields DEF ConnectServiceElement
  <2>2. proto' \in [Elements -> Protos \cup {None}]
    BY <1>2, <2>1 DEF ConnectServiceElement
  <2>3. services' \in [Elements -> Nat]
    BY <1>2, <2>1 DEF ConnectServiceElement
  <2>4. DOMAIN table' \subseteq Protos /\ table' \in [DOMAIN table' -> Elements]
    BY <1>2, <2>1 DEF ConnectServiceElement, Register
  <2>5. sent' \in [Elements -> [Routes -> Nat]]
    BY <1>2, <2>1, <2>3 DEF ConnectServiceElement, ReplayRoutes
  <2> QED BY <1>2, <2>1, <2>2, <2>3, <2>4, <2>5, ReapTyped, StartLcpTyped
          DEF ConnectServiceElement
<1>3. CASE IgnoreReset
  BY <1>3, <1>h DEF IgnoreReset
<1>4. CASE DisconnectServiceElement
  <2> DEFINE p == Head(queue).proto
             e == table[p]
  <2>1. queue' \in Seq(Events) /\ p \in Protos /\ e \in Elements
    BY <1>4, <1>h, EventFields DEF DisconnectServiceElement
  <2>2. proto' \in [Elements -> Protos \cup {None}]
    BY <1>4, <2>1 DEF DisconnectServiceElement, LoseProtocol
  <2>3. sent' \in [Elements -> [Routes -> Nat]]
    BY <1>4, <2>1 DEF DisconnectServiceElement, NoRoutes
  <2>4. DOMAIN table' \subseteq Protos /\ table' \in [DOMAIN table' -> Elements]
    BY <1>4, <2>1 DEF DisconnectServiceElement
  <2>5. announced' \in [Elements -> {"never", "active", "disconnected"}]
    BY <1>4, <2>1 DEF DisconnectServiceElement, AnnounceLoss
  <2> QED BY <1>4, <2>1, <2>2, <2>3, <2>4, <2>5, ReapTyped
          DEF DisconnectServiceElement
<1>5. CASE AddRoute
  <2> DEFINE r == Head(queue).route
  <2>1. queue' \in Seq(Events) /\ r \in Routes
    BY <1>5, <1>h, EventFields DEF AddRoute
  <2>2. sent' \in [Elements -> [Routes -> Nat]]
    BY <1>5, <2>1 DEF AddRoute
  <2> QED BY <1>5, <2>1, <2>2 DEF AddRoute, StoreRoute
<1>6. CASE AnswerRequest
  <2>1. queue' \in Seq(Events)
    BY <1>6, <1>h DEF AnswerRequest
  <2>2. lcp' \in Seq([pc : LcpStates, answers : Nat, notes : Nat])
    <3> DEFINE i == Head(queue).lcp
    <3>1. CASE i \in 1 .. Len(lcp)
      <4>1. [lcp[i] EXCEPT !.answers = @ + 1] \in LcpRecords
        BY <3>1, ElementOfSeq, RecordTyped DEF LcpRecords
      <4> QED BY <1>6, <3>1, <4>1, LcpTyped DEF AnswerRequest, LcpRecords
    <3>2. CASE i \notin 1 .. Len(lcp)
      <4>1. lcp \in [1 .. Len(lcp) -> LcpRecords]
        BY LenProperties DEF LcpRecords
      <4>2. lcp' = lcp
        BY <1>6, <3>2, <4>1 DEF AnswerRequest
      <4> QED BY <4>2
    <3> QED BY <3>1, <3>2
  <2> QED BY <1>6, <2>1, <2>2 DEF AnswerRequest
<1>7. CASE HandleLcpStarted
  BY <1>7, <1>h DEF HandleLcpStarted
<1> QED BY <1>1, <1>2, <1>3, <1>4, <1>5, <1>6, <1>7 DEF Handle

LEMMA TypeLcp ==
  ASSUME TypeInv, NEW i \in 1 .. Len(lcp), Lcp(i)
  PROVE  TypeInv'
<1> USE DEF TypeInv, TypeOK, PeerKnown, peerVars, elementVars, lcpVars
<1>0. lcp[i] \in LcpRecords
  BY ElementOfSeq DEF LcpRecords
<1>1. CASE LcpRequest(i)
  <2> DEFINE pc == IF lcp[i].pc = "interfaces" THEN "elements" ELSE "waiting"
  <2>1. [lcp[i] EXCEPT !.pc = pc] \in LcpRecords
    BY <1>0, RecordTyped DEF LcpStates
  <2>2. lcp' = [lcp EXCEPT ![i] = [lcp[i] EXCEPT !.pc = pc]]
    BY <1>1 DEF LcpRequest
  <2>3. lcp' \in Seq([pc : LcpStates, answers : Nat, notes : Nat])
    BY <2>1, <2>2, LcpTyped DEF LcpRecords
  <2>4. bus' \in Seq(Events)
    <3>1. i \in Nat \ {0}
      BY LenProperties
    <3>2. Request(i) \in Events
      BY <3>1, EventsTyped
    <3> QED BY <1>1, <3>2, BusTyped DEF LcpRequest
  <2> QED BY <1>1, <2>3, <2>4 DEF LcpRequest
<1>2. CASE LcpRegister(i)
  <2>1. [lcp[i] EXCEPT !.pc = "registered"] \in LcpRecords
    BY <1>0 DEF LcpRecords, LcpStates
  <2> QED BY <1>2, <2>1, LcpTyped DEF LcpRegister, LcpRecords
<1>3. CASE LcpTaskStart(i)
  <2>1. [lcp[i] EXCEPT !.pc = "running"] \in LcpRecords
    BY <1>0 DEF LcpRecords, LcpStates
  <2> QED BY <1>3, <2>1, LcpTyped, EventsTyped, BusTyped DEF LcpTaskStart, LcpRecords
<1>4. CASE LcpHandleTaskStarted(i)
  <2>1. [lcp[i] EXCEPT !.notes = @ - 1] \in LcpRecords
    BY <1>0, <1>4, RecordTyped DEF LcpHandleTaskStarted, HasNote
  <2> QED BY <1>4, <2>1, LcpTyped, EventsTyped, BusTyped
          DEF LcpHandleTaskStarted, TakeNote, LcpRecords
<1> QED BY <1>1, <1>2, <1>3, <1>4 DEF Lcp

LEMMA TypeStep == TypeInv /\ [Next]_vars => TypeInv'
<1> SUFFICES ASSUME TypeInv, [Next]_vars PROVE TypeInv'
  OBVIOUS
<1>1. CASE UNCHANGED vars
  BY <1>1 DEF vars, TypeInv, TypeOK, PeerKnown, peerVars, elementVars, lcpVars
<1> QED BY <1>1, TypeBoot, TypeNetwork, TypeDispatch, TypeHandle, TypeSetup, TypeLcp
        DEF Next

(* Every variable keeps its type: in particular an LCP never handles more  *)
(* LCPTaskStarted events than it was given, and every queued event names   *)
(* the peer of a connection that exists or existed.                        *)
THEOREM TypeCorrect == Spec => []TypeOK
<1>1. TypeInv => TypeOK BY DEF TypeInv
<1> QED BY <1>1, TypeInit, TypeStep, PTL DEF Spec

-----------------------------------------------------------------------------
(* The connections.  An address passes from a connection to the next, and  *)
(* the events about both travel in the same queues: the invariant says     *)
(* where the events of the present connection of an address can be.        *)

Holds(s, p) == \E i \in 1 .. Len(s) : Carries(s[i], p)

Once(s, p) ==
  \A i, j \in 1 .. Len(s) : Carries(s[i], p) /\ Carries(s[j], p) => i = j

(* The resets of p in s come before its ServiceElementConnected. *)
ResetsFirst(s, p) ==
  \A i, j \in 1 .. Len(s) : s[i] = ConnectionReset(p) /\ Carries(s[j], p) => i < j

(* The states of a setup that has not raised ServiceElementConnected. *)
Silent == {"launched", "started", "waiting", "expired"}

(* A setup raises one ServiceElementConnected, and until the control       *)
(* element has served it no element has the protocol.                      *)
OneAnnouncement ==
  \A p \in Protos :
    /\ Once(bus, p) /\ Once(queue, p)
    /\ ~(Holds(bus, p) /\ Holds(queue, p))
    /\ Holds(bus, p) \/ Holds(queue, p) \/ setup[p] \in Silent
         => \A e \in Elements : proto[e] # p
    /\ Holds(bus, p) \/ Holds(queue, p) => setup[p] \notin Silent

FreeIsUnreferenced == \A p \in Protos : conn[p] = "free" => ~Referenced(p)

(* What a queue still says of the loss of p while p is up is about an      *)
(* earlier protocol, and is served before anything happens to this one.    *)
ResetsAreOld ==
  \A p \in Protos : conn[p] = "up" =>
    /\ ResetsFirst(bus, p) /\ ResetsFirst(queue, p)
    /\ Holds(queue, p) => ~In(ConnectionReset(p), bus)
    /\ \A e \in Elements : proto[e] = p => ~ResetPending(p)

ConnInv == /\ TypeInv /\ OneAnnouncement /\ FreeIsUnreferenced
           /\ ResetsAreOld /\ ConnectedIsRegistered

LEMMA OfAppend ==
  ASSUME NEW s \in Seq(Events), NEW event \in Events, NEW p \in Protos
  PROVE  /\ Holds(Append(s, event), p) <=> Holds(s, p) \/ Carries(event, p)
         /\ \A x : In(x, Append(s, event)) <=> In(x, s) \/ x = event
         /\ Once(s, p) /\ ~(Holds(s, p) /\ Carries(event, p))
              => Once(Append(s, event), p)
         /\ ResetsFirst(s, p) /\ ~(Holds(s, p) /\ event = ConnectionReset(p))
              => ResetsFirst(Append(s, event), p)
<1> DEFINE t == Append(s, event)
<1>1. /\ Len(s) \in Nat /\ Len(t) = Len(s) + 1
      /\ \A i \in 1 .. Len(s) : t[i] = s[i]
      /\ t[Len(s) + 1] = event
  BY AppendProperties, LenProperties
<1> HIDE DEF t
<1>2. Holds(t, p) <=> Holds(s, p) \/ Carries(event, p)
  BY <1>1 DEF Holds
<1>3. \A x : In(x, t) <=> In(x, s) \/ x = event
  BY <1>1 DEF In
<1>4. ASSUME Once(s, p), ~(Holds(s, p) /\ Carries(event, p))
      PROVE  Once(t, p)
  <2> SUFFICES ASSUME NEW i \in 1 .. Len(t), NEW j \in 1 .. Len(t),
                      Carries(t[i], p), Carries(t[j], p)
               PROVE  i = j
    BY DEF Once
  <2>1. \A k \in 1 .. Len(t) : k = Len(s) + 1 \/ k \in 1 .. Len(s)
    BY <1>1
  <2>2. CASE i \in 1 .. Len(s) /\ j \in 1 .. Len(s)
    BY <1>1, <1>4, <2>2 DEF Once
  <2>3. CASE i \in 1 .. Len(s) /\ j = Len(s) + 1
    BY <1>1, <1>4, <2>3 DEF Holds
  <2>4. CASE i = Len(s) + 1 /\ j \in 1 .. Len(s)
    BY <1>1, <1>4, <2>4 DEF Holds
  <2> QED BY <2>1, <2>2, <2>3, <2>4
<1>5. ASSUME ResetsFirst(s, p), ~(Holds(s, p) /\ event = ConnectionReset(p))
      PROVE  ResetsFirst(t, p)
  <2> SUFFICES ASSUME NEW i \in 1 .. Len(t), NEW j \in 1 .. Len(t),
                      t[i] = ConnectionReset(p), Carries(t[j], p)
               PROVE  i < j
    BY DEF ResetsFirst
  <2>1. \A k \in 1 .. Len(t) : k = Len(s) + 1 \/ k \in 1 .. Len(s)
    BY <1>1
  <2>2. CASE i \in 1 .. Len(s) /\ j \in 1 .. Len(s)
    BY <1>1, <1>5, <2>2 DEF ResetsFirst
  <2>3. CASE i \in 1 .. Len(s) /\ j = Len(s) + 1
    BY <1>1, <2>3
  <2>4. CASE i = Len(s) + 1 /\ j \in 1 .. Len(s)
    BY <1>1, <1>5, <2>4 DEF Holds
  <2>5. CASE i = Len(s) + 1 /\ j = Len(s) + 1
    BY <1>1, <2>5 DEF Carries, ConnectionReset
  <2> QED BY <2>1, <2>2, <2>3, <2>4, <2>5
<1> QED BY <1>2, <1>3, <1>4, <1>5 DEF t

LEMMA OfTail ==
  ASSUME NEW s \in Seq(Events), s # <<>>, NEW p \in Protos
  PROVE  /\ Holds(s, p) <=> Carries(Head(s), p) \/ Holds(Tail(s), p)
         /\ \A x : In(x, s) <=> x = Head(s) \/ In(x, Tail(s))
         /\ Once(s, p) => /\ Once(Tail(s), p)
                          /\ ~(Carries(Head(s), p) /\ Holds(Tail(s), p))
         /\ ResetsFirst(s, p) =>
              /\ ResetsFirst(Tail(s), p)
              /\ ~(Carries(Head(s), p) /\ In(ConnectionReset(p), Tail(s)))
<1> DEFINE t == Tail(s)
<1>1. /\ Len(s) \in Nat \ {0} /\ Len(t) = Len(s) - 1
      /\ \A i \in 1 .. Len(t) : t[i] = s[i + 1]
      /\ Head(s) = s[1]
  <2>1. Len(s) \in Nat \ {0} /\ Len(t) = Len(s) - 1
    BY HeadTailProperties, EmptySeq
  <2>2. \A i \in 1 .. Len(t) : t[i] = s[i + 1]
    BY HeadTailProperties
  <2>3. Head(s) = s[1]
    OBVIOUS
  <2> QED BY <2>1, <2>2, <2>3
<1> HIDE DEF t
<1>2. ASSUME NEW i \in 1 .. Len(s)
      PROVE  i = 1 \/ (i - 1 \in 1 .. Len(t) /\ t[i - 1] = s[i])
  BY <1>1
<1>3. Holds(s, p) <=> Carries(Head(s), p) \/ Holds(t, p)
  BY <1>1, <1>2 DEF Holds
<1>4. \A x : In(x, s) <=> x = Head(s) \/ In(x, t)
  BY <1>1, <1>2 DEF In
<1>5. ASSUME Once(s, p)
      PROVE  Once(t, p) /\ ~(Carries(Head(s), p) /\ Holds(t, p))
  <2>1. \A i \in 1 .. Len(t) : i + 1 \in 1 .. Len(s) /\ 1 \in 1 .. Len(s)
    BY <1>1
  <2>2. Once(t, p)
    BY <1>1, <1>5, <2>1 DEF Once
  <2>3. ~(Carries(Head(s), p) /\ Holds(t, p))
    BY <1>1, <1>5, <2>1 DEF Once, Holds
  <2> QED BY <2>2, <2>3
<1>6. ASSUME ResetsFirst(s, p)
      PROVE  /\ ResetsFirst(t, p)
             /\ ~(Carries(Head(s), p) /\ In(ConnectionReset(p), t))
  <2>1. \A i \in 1 .. Len(t) : i + 1 \in 1 .. Len(s) /\ 1 \in 1 .. Len(s)
    BY <1>1
  <2>2. ResetsFirst(t, p)
    BY <1>1, <1>6, <2>1 DEF ResetsFirst
  <2>3. ~(Carries(Head(s), p) /\ In(ConnectionReset(p), t))
    BY <1>1, <1>6, <2>1 DEF ResetsFirst, In
  <2> QED BY <2>2, <2>3
<1> QED BY <1>3, <1>4, <1>5, <1>6 DEF t

(* Nothing about connections was added to s to get t, or taken from it,    *)
(* but for resets that were served.                                        *)
NoNews(s, t) ==
  \A p \in Protos : /\ Holds(t, p) <=> Holds(s, p)
                    /\ Once(s, p) => Once(t, p)
                    /\ ResetsFirst(s, p) => ResetsFirst(t, p)
                    /\ In(ConnectionReset(p), t) => In(ConnectionReset(p), s)

LEMMA NoNewsCases ==
  ASSUME NEW s \in Seq(Events)
  PROVE  /\ NoNews(s, s)
         /\ \A event \in Events :
              event.type \notin {"ServiceElementConnected", "ConnectionReset"}
                => NoNews(s, Append(s, event))
         /\ s # <<>> /\ Head(s).type # "ServiceElementConnected"
              => NoNews(s, Tail(s))
<1>1. NoNews(s, s) BY DEF NoNews
<1>2. ASSUME NEW event \in Events,
             event.type \notin {"ServiceElementConnected", "ConnectionReset"}
      PROVE  NoNews(s, Append(s, event))
  <2>1. \A p \in Protos : ~Carries(event, p) /\ event # ConnectionReset(p)
    BY <1>2 DEF Carries, ConnectionReset
  <2> QED BY <2>1, OfAppend DEF NoNews
<1>3. ASSUME s # <<>>, Head(s).type # "ServiceElementConnected"
      PROVE  NoNews(s, Tail(s))
  <2>1. \A p \in Protos : ~Carries(Head(s), p)
    BY <1>3 DEF Carries
  <2> QED BY <1>3, <2>1, OfTail DEF NoNews
<1> QED BY <1>1, <1>2, <1>3

LEMMA PendingHolds ==
  \A p : ConnectedPending(p) <=> Holds(bus, p) \/ Holds(queue, p)
BY DEF ConnectedPending, Holds

LEMMA QuietStep ==
  ASSUME ConnInv, TypeInv', UNCHANGED <<conn, setup, proto, table>>,
         NoNews(bus, bus'), NoNews(queue, queue')
  PROVE  ConnInv'
<1>1. OneAnnouncement' BY DEF ConnInv, OneAnnouncement, NoNews
<1>2. FreeIsUnreferenced'
  <2>1. \A p \in Protos : ConnectedPending(p)' <=> ConnectedPending(p)
    BY DEF ConnectedPending, Holds, NoNews
  <2> QED BY <2>1 DEF ConnInv, FreeIsUnreferenced, Referenced
<1>3. ResetsAreOld' BY DEF ConnInv, ResetsAreOld, ResetPending, NoNews
<1>4. ConnectedIsRegistered' BY DEF ConnInv, ConnectedIsRegistered
<1> QED BY <1>1, <1>2, <1>3, <1>4 DEF ConnInv

(* Steps of the event bus, of the handlers and of the LCP that leave the   *)
(* connections alone.                                                      *)

LEMMA BusQuiet ==
  ASSUME TypeInv
  PROVE  /\ NoNews(bus, bus)
         /\ \A event \in Events :
              /\ event.type \notin {"ServiceElementConnected", "ConnectionReset"}
              /\ Raise(event)
              => NoNews(bus, bus')
         /\ bus # <<>> /\ Head(bus).type # "ServiceElementConnected"
              => NoNews(bus, Tail(bus))
<1>1. bus \in Seq(Events) BY DEF TypeInv, TypeOK
<1> QED BY <1>1, NoNewsCases DEF Raise

LEMMA QueueQuiet ==
  ASSUME TypeInv
  PROVE  /\ NoNews(queue, queue)
         /\ queue # <<>> /\ Head(queue).type # "ServiceElementConnected"
              => NoNews(queue, Tail(queue))
<1>1. queue \in Seq(Events) BY DEF TypeInv, TypeOK
<1> QED BY <1>1, NoNewsCases

LEMMA EventTypes ==
  /\ \A p, n : ServiceElementData(p, n).type = "ServiceElementData"
  /\ \A r : LocalRouteAdded(r).type = "LocalRouteAdded"
  /\ \A i : Request(i).type = "Request"
  /\ LCPTaskStarted.type = "LCPTaskStarted"
  /\ LCPStarted.type = "LCPStarted"
BY DEF ServiceElementData, LocalRouteAdded, Request, LCPTaskStarted, LCPStarted

LEMMA ConnBoot == ASSUME ConnInv, TypeInv', Boot PROVE ConnInv'
<1>1. TypeInv BY DEF ConnInv
<1> QED BY <1>1, QuietStep, BusQuiet, QueueQuiet
        DEF Boot, RegisterListeners, Run, elementVars

LEMMA ConnLcp ==
  ASSUME ConnInv, TypeInv', NEW i \in 1 .. Len(lcp), Lcp(i)
  PROVE  ConnInv'
<1>1. TypeInv BY DEF ConnInv
<1>2. UNCHANGED <<conn, setup, queue, proto, table>>
  BY DEF Lcp, LcpRequest, LcpRegister, LcpTaskStart, LcpHandleTaskStarted,
         elementVars
<1>3. Request(i) \in Events
  <2>1. i \in Nat \ {0}
    BY <1>1, LenProperties, SMTT(30) DEF TypeInv, TypeOK
  <2> QED BY <2>1, EventsTyped
<1>4. NoNews(bus, bus')
  BY <1>1, <1>3, BusQuiet, EventsTyped, EventTypes
     DEF Lcp, LcpRequest, LcpRegister, LcpTaskStart, LcpHandleTaskStarted
<1> QED BY <1>1, <1>2, <1>4, QuietStep, QueueQuiet

LEMMA ConnNetwork == ASSUME ConnInv, TypeInv', Network PROVE ConnInv'
<1>0. TypeInv BY DEF ConnInv
<1>1. ASSUME NEW p \in Protos, NEW n \in Peers, Accept(p, n) PROVE ConnInv'
  <2>1. ~Referenced(p) /\ ~Holds(bus, p) /\ ~Holds(queue, p)
    BY <1>1, PendingHolds DEF ConnInv, FreeIsUnreferenced, Accept, Referenced
  <2>2. /\ UNCHANGED <<bus, queue, proto, table>>
        /\ \A q \in Protos \ {p} : setup'[q] = setup[q] /\ conn'[q] = conn[q]
        /\ setup'[p] = "launched" /\ conn'[p] = "up"
    BY <1>0, <1>1 DEF Accept, elementVars, TypeInv, TypeOK
  <2>3. \A q : /\ Holds(bus, q)' <=> Holds(bus, q)
               /\ Holds(queue, q)' <=> Holds(queue, q)
    BY <2>2 DEF Holds
  <2>4. \A q : ConnectedPending(q)' <=> ConnectedPending(q)
    BY <2>2 DEF ConnectedPending
  <2>5. OneAnnouncement'
    BY <2>1, <2>2, <2>3 DEF ConnInv, OneAnnouncement, Once, Referenced, Silent
  <2>6. FreeIsUnreferenced'
    BY <2>2, <2>4 DEF ConnInv, FreeIsUnreferenced, Referenced
  <2>7. ResetsFirst(bus, p) /\ ResetsFirst(queue, p)
    BY <2>1 DEF ResetsFirst, Holds
  <2>8. ResetsAreOld'
    BY <2>1, <2>2, <2>3, <2>7
       DEF ConnInv, ResetsAreOld, ResetPending, ResetsFirst, Referenced
  <2>9. ConnectedIsRegistered'
    BY <2>2 DEF ConnInv, ConnectedIsRegistered
  <2> QED BY <2>5, <2>6, <2>8, <2>9 DEF ConnInv
<1>2. ASSUME NEW p \in Protos, ReceiveData(p) PROVE ConnInv'
  <2>1. ServiceElementData(p, peer[p]) \in Events
    BY <1>0, <1>2, EventsTyped DEF ReceiveData, TypeInv, PeerKnown
  <2>2. NoNews(bus, bus')
    BY <1>0, <1>2, <2>1, BusQuiet, EventTypes DEF ReceiveData
  <2> QED BY <1>0, <1>2, <2>2, QuietStep, QueueQuiet DEF ReceiveData, elementVars
<1>4. ASSUME NEW r \in Routes, KernelAddsRoute(r) PROVE ConnInv'
  <2>2. NoNews(bus, bus')
    BY <1>0, <1>4, BusQuiet, EventsTyped, EventTypes DEF KernelAddsRoute
  <2> QED BY <1>0, <1>4, <2>2, QuietStep, QueueQuiet DEF KernelAddsRoute, elementVars
<1>3. ASSUME NEW p \in Protos, ReceiveReset(p) PROVE ConnInv'
  <2> DEFINE event == ConnectionReset(p)
  <2>1. /\ bus \in Seq(Events) /\ event \in Events
        /\ bus' = Append(bus, event)
        /\ UNCHANGED <<queue, setup, proto, table>>
        /\ \A q \in Protos \ {p} : conn'[q] = conn[q]
        /\ conn[p] = "up" /\ conn'[p] = "down"
    BY <1>0, <1>3, EventsTyped
       DEF ReceiveReset, EndReceiver, Raise, elementVars, TypeInv, TypeOK
  <2>2. \A q : ~Carries(event, q)
    BY DEF ConnectionReset, Carries
  <2>3. \A q \in Protos \ {p} : event # ConnectionReset(q)
    BY DEF ConnectionReset
  <2>0. \A q \in Protos :
          LET t == Append(bus, event)
          IN /\ Holds(t, q) <=> Holds(bus, q)
             /\ Once(bus, q) => Once(t, q)
             /\ q # p => /\ ResetsFirst(bus, q) => ResetsFirst(t, q)
                         /\ In(ConnectionReset(q), t) <=> In(ConnectionReset(q), bus)
    BY <2>1, <2>2, <2>3, OfAppend
  <2>4. \A q \in Protos : /\ Holds(bus, q)' <=> Holds(bus, q)
                          /\ Once(bus, q) => Once(bus, q)'
    BY <2>1, <2>0 DEF Holds, Once
  <2>5. \A q \in Protos \ {p} :
          /\ ResetsFirst(bus, q) => ResetsFirst(bus, q)'
          /\ In(ConnectionReset(q), bus)' <=> In(ConnectionReset(q), bus)
    BY <2>1, <2>0
  <2>6. OneAnnouncement'
    BY <2>1, <2>4 DEF ConnInv, OneAnnouncement
  <2>7. \A q \in Protos : Referenced(q)' <=> Referenced(q)
    BY <2>1, <2>4, PendingHolds DEF Referenced, ConnectedPending, Holds
  <2>8. FreeIsUnreferenced'
    BY <2>1, <2>7 DEF ConnInv, FreeIsUnreferenced
  <2>9. ResetsAreOld'
    BY <2>1, <2>4, <2>5 DEF ConnInv, ResetsAreOld, ResetPending
  <2>10. ConnectedIsRegistered'
    BY <2>1 DEF ConnInv, ConnectedIsRegistered
  <2> QED BY <2>6, <2>8, <2>9, <2>10 DEF ConnInv
<1> QED BY <1>1, <1>2, <1>3, <1>4 DEF Network

LEMMA ConnSetup ==
  ASSUME ConnInv, TypeInv', NEW p \in Protos, Setup(p) \/ SetupTimeout(p)
  PROVE  ConnInv'
<1>0. TypeInv BY DEF ConnInv
<1>1. CASE SetupStart(p) \/ SetupRegister(p) \/ SetupTimeout(p) \/ SetupAck(p)
  <2>1. /\ UNCHANGED <<conn, bus, queue, proto, table>>
        /\ \A q \in Protos \ {p} : setup'[q] = setup[q]
        /\ setup[p] \in Silent <=> setup'[p] \in Silent
        /\ setup[p] # "none" /\ setup'[p] # "none"
    BY <1>0, <1>1, SMTT(30)
       DEF SetupStart, SetupRegister, SetupTimeout, SetupAck, SetupStep,
           elementVars, Silent, TypeInv, TypeOK
  <2>2. OneAnnouncement'
    BY <2>1 DEF ConnInv, OneAnnouncement, Once, Holds
  <2>3. \A q \in Protos : Referenced(q)' <=> Referenced(q)
    BY <2>1 DEF Referenced, ConnectedPending
  <2>4. FreeIsUnreferenced'
    BY <2>1, <2>3 DEF ConnInv, FreeIsUnreferenced
  <2>5. ResetsAreOld'
    BY <2>1 DEF ConnInv, ResetsAreOld, ResetPending, ResetsFirst, Holds
  <2>6. ConnectedIsRegistered'
    BY <2>1 DEF ConnInv, ConnectedIsRegistered
  <2> QED BY <2>2, <2>4, <2>5, <2>6 DEF ConnInv
<1>2. CASE SetupHandle(p)
  <2> DEFINE n     == Head(inbox[p])
             event == ServiceElementConnected(p, n)
             t     == Append(bus, event)
  <2>1. /\ UNCHANGED <<conn, queue, proto, table>>
        /\ \A q \in Protos \ {p} : setup'[q] = setup[q]
        /\ setup[p] = "waiting" /\ setup'[p] = "raised"
        /\ bus' = t
    BY <1>0, <1>2 DEF SetupHandle, SetupStep, Raise, elementVars, TypeInv, TypeOK
  <2>2. n \in Names
    BY <1>0, <1>2, InboxTyped DEF SetupHandle
  <2>3. bus \in Seq(Events) /\ event \in Events
    BY <1>0, <2>2, EventsTyped DEF TypeInv, TypeOK
  <2>4. \A q \in Protos : /\ Carries(event, q) <=> q = p
                          /\ event # ConnectionReset(q)
    BY DEF Carries, ServiceElementConnected, ConnectionReset
  <2>5. ~Holds(bus, p) /\ ~Holds(queue, p) /\ \A e \in Elements : proto[e] # p
    BY <2>1 DEF ConnInv, OneAnnouncement, Silent
  <2>6. \A q \in Protos :
          /\ Holds(t, q) <=> Holds(bus, q) \/ q = p
          /\ Once(bus, q) => Once(t, q)
          /\ ResetsFirst(bus, q) => ResetsFirst(t, q)
          /\ In(ConnectionReset(q), t) <=> In(ConnectionReset(q), bus)
    BY <2>3, <2>4, <2>5, OfAppend
  <2>7. OneAnnouncement'
    BY <2>1, <2>5, <2>6 DEF ConnInv, OneAnnouncement, Silent
  <2>8. \A q \in Protos : Referenced(q)' <=> Referenced(q)
    BY <2>1, <2>6 DEF Referenced, ConnectedPending, Holds
  <2>9. FreeIsUnreferenced'
    BY <2>1, <2>8 DEF ConnInv, FreeIsUnreferenced
  <2>10. ResetsAreOld'
    BY <2>1, <2>5, <2>6 DEF ConnInv, ResetsAreOld, ResetPending
  <2>11. ConnectedIsRegistered'
    BY <2>1 DEF ConnInv, ConnectedIsRegistered
  <2> QED BY <2>7, <2>9, <2>10, <2>11 DEF ConnInv
<1>3. CASE SetupLeave(p)
  <2>1. /\ UNCHANGED <<bus, queue, proto, table>>
        /\ \A q \in Protos \ {p} : setup'[q] = setup[q]
        /\ setup'[p] = "none" /\ Reap
    BY <1>0, <1>3 DEF SetupLeave, elementVars, TypeInv, TypeOK
  <2>2. OneAnnouncement'
    <3>1. \A q \in Protos : setup'[q] \in Silent => setup[q] \in Silent
      BY <2>1 DEF Silent
    <3> QED BY <2>1, <3>1 DEF ConnInv, OneAnnouncement, Once, Holds
  <2>3. FreeIsUnreferenced'
    <3>1. \A q \in Protos : Referenced(q)' => Referenced(q)
      BY <2>1 DEF Referenced, ConnectedPending
    <3> QED BY <2>1, <3>1 DEF ConnInv, FreeIsUnreferenced, Reap
  <2>4. ResetsAreOld'
    <3>1. \A q \in Protos : conn'[q] = "up" => conn[q] = "up"
      BY <1>0, <2>1, ReapTyped
    <3> QED BY <2>1, <3>1 DEF ConnInv, ResetsAreOld, ResetPending, ResetsFirst, Holds
  <2>5. ConnectedIsRegistered'
    BY <2>1 DEF ConnInv, ConnectedIsRegistered
  <2> QED BY <2>2, <2>3, <2>4, <2>5 DEF ConnInv
<1> QED BY <1>1, <1>2, <1>3 DEF Setup

LEMMA ConnDispatch == ASSUME ConnInv, TypeInv', Dispatch PROVE ConnInv'
<1>0. TypeInv /\ bus \in Seq(Events) /\ queue \in Seq(Events)
  BY DEF ConnInv, TypeInv, TypeOK
<1>1. CASE DispatchData \/ DispatchLcpTaskStarted
  <2>1. NoNews(bus, bus') /\ NoNews(queue, queue')
    BY <1>0, <1>1, BusQuiet, QueueQuiet DEF DispatchData, DispatchLcpTaskStarted
  <2> QED BY <1>1, <2>1, QuietStep
          DEF DispatchData, DispatchLcpTaskStarted, elementVars
<1>2. CASE DispatchToControlElement
  <2> DEFINE event == Head(bus)
             t     == Tail(bus)
  <2>1. /\ bus # <<>> /\ event \in Events /\ bus' = t /\ Reap
        /\ UNCHANGED <<setup, proto, table>>
        /\ queue' = queue \/ queue' = Append(queue, event)
    BY <1>0, <1>2, BusTyped DEF DispatchToControlElement, Enqueue, elementVars
  <2>2. \A q \in Protos :
          /\ Holds(bus, q) <=> Carries(event, q) \/ Holds(t, q)
          /\ In(ConnectionReset(q), bus)
               <=> ConnectionReset(q) = event \/ In(ConnectionReset(q), t)
          /\ Once(bus, q) => Once(t, q) /\ ~(Carries(event, q) /\ Holds(t, q))
          /\ ResetsFirst(bus, q) =>
               /\ ResetsFirst(t, q)
               /\ ~(Carries(event, q) /\ In(ConnectionReset(q), t))
    BY <1>0, <2>1, OfTail
  <2>3. \A q \in Protos :
          /\ Holds(queue', q) => Holds(queue, q) \/ Carries(event, q)
          /\ In(ConnectionReset(q), queue')
               => In(ConnectionReset(q), queue) \/ ConnectionReset(q) = event
          /\ Once(queue, q) /\ ~(Holds(queue, q) /\ Carries(event, q))
               => Once(queue', q)
          /\ ResetsFirst(queue, q) /\ ~(Holds(queue, q) /\ event = ConnectionReset(q))
               => ResetsFirst(queue', q)
    <3>1. CASE queue' = queue
      BY <3>1
    <3>2. CASE queue' = Append(queue, event)
      BY <1>0, <2>1, <3>2, OfAppend
    <3> QED BY <2>1, <3>1, <3>2
  <2>4. OneAnnouncement'
    BY <2>1, <2>2, <2>3 DEF ConnInv, OneAnnouncement
  <2>5. \A q \in Protos : ConnectedPending(q)' => ConnectedPending(q)
    BY <2>1, <2>2, <2>3 DEF ConnectedPending, Holds
  <2>6. FreeIsUnreferenced'
    BY <2>1, <2>5 DEF ConnInv, FreeIsUnreferenced, Referenced, Reap
  <2>7. \A q \in Protos : conn'[q] = "up" => conn[q] = "up"
    BY <1>0, <2>1, ReapTyped
  <2>8. ResetsAreOld'
    BY <2>1, <2>2, <2>3, <2>7 DEF ConnInv, ResetsAreOld, ResetPending
  <2>9. ConnectedIsRegistered'
    BY <2>1 DEF ConnInv, ConnectedIsRegistered
  <2> QED BY <2>4, <2>6, <2>8, <2>9 DEF ConnInv
<1> QED BY <1>1, <1>2 DEF Dispatch

LEMMA ConnHandle == ASSUME ConnInv, TypeInv', Handle PROVE ConnInv'
<1>0. TypeInv /\ bus \in Seq(Events) /\ queue \in Seq(Events)
  BY DEF ConnInv, TypeInv, TypeOK
<1>1. CASE IgnoreReset \/ AddRoute \/ AnswerRequest \/ HandleLcpStarted
  <2>1. queue # <<>> /\ Head(queue).type # "ServiceElementConnected"
        /\ queue' = Tail(queue)
    BY <1>1 DEF IgnoreReset, AddRoute, AnswerRequest, HandleLcpStarted, Serve
  <2>2. UNCHANGED <<conn, setup, bus, proto, table>>
    BY <1>1 DEF IgnoreReset, AddRoute, AnswerRequest, HandleLcpStarted, elementVars
  <2> QED BY <1>0, <2>1, <2>2, QuietStep, BusQuiet, QueueQuiet
<1> DEFINE event == Head(queue)
           t     == Tail(queue)
<1>2. ASSUME NEW type, Serve(type)
      PROVE  /\ queue # <<>> /\ event \in Events /\ event.type = type
             /\ queue' = t
             /\ \A q \in Protos :
                  /\ Holds(queue, q) <=> Carries(event, q) \/ Holds(t, q)
                  /\ In(ConnectionReset(q), queue)
                       <=> ConnectionReset(q) = event \/ In(ConnectionReset(q), t)
                  /\ Once(queue, q)
                       => Once(t, q) /\ ~(Carries(event, q) /\ Holds(t, q))
                  /\ ResetsFirst(queue, q) =>
                       /\ ResetsFirst(t, q)
                       /\ ~(Carries(event, q) /\ In(ConnectionReset(q), t))
  <2>1. queue # <<>> /\ event \in Events /\ event.type = type /\ queue' = t
    BY <1>0, <1>2, QueueTyped DEF Serve
  <2> QED BY <1>0, <2>1, OfTail
<1>3. CASE RefuseServiceElement
  <2>1. /\ queue' = t /\ Reap
        /\ UNCHANGED <<setup, bus, proto, table>>
    BY <1>3 DEF RefuseServiceElement, Serve, elementVars
  <2>2. OneAnnouncement'
    BY <1>2, <1>3, <2>1 DEF ConnInv, OneAnnouncement, RefuseServiceElement, Once, Holds
  <2>3. \A q \in Protos : Referenced(q)' => Referenced(q)
    BY <1>2, <1>3, <2>1
       DEF RefuseServiceElement, Referenced, ConnectedPending, Holds
  <2>4. FreeIsUnreferenced'
    BY <2>1, <2>3 DEF ConnInv, FreeIsUnreferenced, Reap
  <2>5. \A q \in Protos : conn'[q] = "up" => conn[q] = "up"
    BY <1>0, <2>1, ReapTyped
  <2>6. ResetsAreOld'
    BY <1>2, <1>3, <2>1, <2>5
       DEF ConnInv, ResetsAreOld, ResetPending, RefuseServiceElement, ResetsFirst, Holds
  <2>7. ConnectedIsRegistered'
    BY <2>1 DEF ConnInv, ConnectedIsRegistered
  <2> QED BY <2>2, <2>4, <2>6, <2>7 DEF ConnInv
<1>4. CASE ConnectServiceElement
  <2> DEFINE e == event.name
             p == event.proto
  <2>1. /\ Serve("ServiceElementConnected")
        /\ e \in Elements /\ p \in Protos /\ p # None
    BY <1>2, <1>4, EventFields, NoneAssumption DEF ConnectServiceElement
  <2>2. /\ UNCHANGED <<setup, bus>> /\ Reap
        /\ \A d \in Elements : proto'[d] = IF d = e THEN p ELSE proto[d]
        /\ DOMAIN table' = DOMAIN table \cup {p}
        /\ \A q \in DOMAIN table' : table'[q] = IF q = p THEN e ELSE table[q]
    BY <1>0, <1>4, <2>1 DEF ConnectServiceElement, Register, TypeInv, TypeOK
  <2>3. Carries(event, p) /\ \A q \in Protos : Carries(event, q) <=> q = p
    BY <1>2, <2>1 DEF Carries
  <2>4. /\ Holds(queue, p) /\ ~Holds(t, p) /\ ~Holds(bus, p)
        /\ \A d \in Elements : proto[d] # p
        /\ setup[p] \notin Silent
    BY <1>2, <2>1, <2>3 DEF ConnInv, OneAnnouncement
  <2>5. OneAnnouncement'
    <3>1. \A q \in Protos : /\ Once(bus', q) /\ Once(queue', q)
                            /\ ~(Holds(bus', q) /\ Holds(queue', q))
      BY <1>2, <2>1, <2>2, ZenonT(60) DEF ConnInv, OneAnnouncement
    <3>2. ASSUME NEW q \in Protos
          PROVE  /\ Holds(bus', q) \/ Holds(queue', q) \/ setup'[q] \in Silent
                      => \A d \in Elements : proto'[d] # q
                 /\ Holds(bus', q) \/ Holds(queue', q) => setup'[q] \notin Silent
      <4>1. /\ Holds(queue', q) => Holds(queue, q)
            /\ bus' = bus /\ setup' = setup
        BY <1>2, <2>1, <2>2
      <4>2. Holds(bus, q) \/ Holds(queue, q) => setup[q] \notin Silent
        BY DEF ConnInv, OneAnnouncement
      <4>3. CASE q = p
        BY <1>2, <2>1, <2>4, <4>1, <4>3
      <4>4. CASE q # p
        <5>1. Holds(bus, q) \/ Holds(queue, q) \/ setup[q] \in Silent
                => \A d \in Elements : proto[d] # q
          BY DEF ConnInv, OneAnnouncement
        <5> QED BY <2>2, <4>1, <4>2, <4>4, <5>1
      <4> QED BY <4>3, <4>4
    <3> QED BY <3>1, <3>2 DEF OneAnnouncement
  <2>6. \A q \in Protos : Referenced(q)' => Referenced(q)
    <3>1. \A q \in Protos : ConnectedPending(q)' => ConnectedPending(q)
      BY <1>2, <2>1, <2>2 DEF ConnectedPending, Holds
    <3> QED BY <2>2, <2>4, <3>1, PendingHolds DEF Referenced
  <2>7. FreeIsUnreferenced'
    BY <2>2, <2>6 DEF ConnInv, FreeIsUnreferenced, Reap
  <2>8. \A q \in Protos : conn'[q] = "up" => conn[q] = "up"
    BY <1>0, <2>2, ReapTyped
  <2>9. conn[p] = "up" => ~In(ConnectionReset(p), bus) /\ ~In(ConnectionReset(p), t)
    BY <1>2, <2>1, <2>3, <2>4 DEF ConnInv, ResetsAreOld
  <2>10. ResetsAreOld'
    <3>1. \A q \in Protos : conn'[q] = "up" =>
            /\ ResetsFirst(bus', q) /\ ResetsFirst(queue', q)
            /\ Holds(queue', q) => ~In(ConnectionReset(q), bus')
      BY <1>2, <2>1, <2>2, <2>8 DEF ConnInv, ResetsAreOld
    <3>2. \A q \in Protos : conn'[q] = "up" =>
            \A d \in Elements : proto'[d] = q =>
              ~In(ConnectionReset(q), bus') /\ ~In(ConnectionReset(q), queue')
      BY <1>2, <2>1, <2>2, <2>8, <2>9, ZenonT(60) DEF ConnInv, ResetsAreOld, ResetPending
    <3> QED BY <3>1, <3>2 DEF ResetsAreOld, ResetPending
  <2>11. ConnectedIsRegistered'
    BY <2>1, <2>2, <2>4 DEF ConnInv, ConnectedIsRegistered
  <2> QED BY <2>5, <2>7, <2>10, <2>11 DEF ConnInv
<1>5. CASE DisconnectServiceElement
  <2> DEFINE p == event.proto
             e == table[p]
  <2>1. /\ Serve("ConnectionReset")
        /\ p \in DOMAIN table /\ p \in Protos /\ e \in Elements
    BY <1>0, <1>2, <1>5, EventFields DEF DisconnectServiceElement, TypeInv, TypeOK
  <2>2. /\ UNCHANGED <<setup, bus>> /\ Reap
        /\ \A d \in Elements : proto'[d] = IF d = e THEN None ELSE proto[d]
        /\ DOMAIN table' = DOMAIN table \ {p}
        /\ \A q \in DOMAIN table' : table'[q] = table[q]
    BY <1>0, <1>5, <2>1 DEF DisconnectServiceElement, LoseProtocol, TypeInv, TypeOK
  <2>3. \A q \in Protos : /\ ~Carries(event, q)
                          /\ q # None
    BY <1>2, <2>1, NoneAssumption DEF Carries
  <2>4. \A q \in Protos : Holds(queue', q) <=> Holds(queue, q)
    BY <1>2, <2>1, <2>3
  <2>5. OneAnnouncement'
    <3>1. \A q \in Protos : /\ Once(bus', q) /\ Once(queue', q)
      BY <1>2, <2>1, <2>2 DEF ConnInv, OneAnnouncement
    <3> QED BY <2>2, <2>3, <2>4, <3>1 DEF ConnInv, OneAnnouncement
  <2>6. \A q \in Protos : Referenced(q)' => Referenced(q)
    <3>1. \A q \in Protos : ConnectedPending(q)' => ConnectedPending(q)
      BY <2>2, <2>4 DEF ConnectedPending, Holds
    <3> QED BY <2>2, <2>3, <3>1 DEF Referenced
  <2>7. FreeIsUnreferenced'
    BY <2>2, <2>6 DEF ConnInv, FreeIsUnreferenced, Reap
  <2>8. \A q \in Protos : conn'[q] = "up" => conn[q] = "up"
    BY <1>0, <2>2, ReapTyped
  <2>9. ResetsAreOld'
    <3>1. ASSUME NEW q \in Protos, conn'[q] = "up"
          PROVE  /\ ResetsFirst(bus', q) /\ ResetsFirst(queue', q)
                 /\ Holds(queue', q) => ~In(ConnectionReset(q), bus')
      BY <1>2, <2>1, <2>2, <2>4, <2>8, <3>1 DEF ConnInv, ResetsAreOld
    <3>2. ASSUME NEW q \in Protos, conn'[q] = "up",
                 NEW d \in Elements, proto'[d] = q
          PROVE  ~In(ConnectionReset(q), bus') /\ ~In(ConnectionReset(q), queue')
      <4>1. conn[q] = "up" /\ proto[d] = q
        BY <2>2, <2>3, <2>8, <3>2
      <4>2. ~In(ConnectionReset(q), bus) /\ ~In(ConnectionReset(q), queue)
        BY <4>1 DEF ConnInv, ResetsAreOld, ResetPending
      <4> QED BY <1>2, <2>1, <2>2, <4>2
    <3> QED BY <3>1, <3>2 DEF ResetsAreOld, ResetPending
  <2>10. ConnectedIsRegistered'
    BY <2>1, <2>2 DEF ConnInv, ConnectedIsRegistered
  <2> QED BY <2>5, <2>7, <2>9, <2>10 DEF ConnInv
<1> QED BY <1>1, <1>3, <1>4, <1>5 DEF Handle

LEMMA ConnInit == Init => ConnInv
<1> SUFFICES ASSUME Init PROVE ConnInv
  OBVIOUS
<1>1. Len(bus) = 0 /\ Len(queue) = 0
  BY DEF Init
<1>2. \A p \in Protos : setup[p] = "none" /\ \A e \in Elements : proto[e] # p
  BY NoneAssumption DEF Init
<1>3. OneAnnouncement
  BY <1>1, <1>2 DEF OneAnnouncement, Once, Holds, Silent
<1>4. FreeIsUnreferenced
  <2> SUFFICES ASSUME NEW p \in Protos PROVE ~Referenced(p)
    BY DEF FreeIsUnreferenced
  <2>1. ~ConnectedPending(p) BY <1>1 DEF ConnectedPending
  <2> QED BY <1>2, <2>1 DEF Referenced
<1>5. ResetsAreOld BY DEF Init, ResetsAreOld
<1>6. ConnectedIsRegistered BY DEF Init, ConnectedIsRegistered
<1> QED BY <1>3, <1>4, <1>5, <1>6, TypeInit DEF ConnInv

LEMMA ConnStep == ConnInv /\ [Next]_vars => ConnInv'
<1> SUFFICES ASSUME ConnInv, [Next]_vars PROVE ConnInv'
  OBVIOUS
<1>1. TypeInv BY DEF ConnInv
<1>2. TypeInv' BY <1>1, TypeStep
<1>3. CASE UNCHANGED vars
  BY <1>1, <1>2, <1>3, QuietStep, BusQuiet, QueueQuiet DEF vars, elementVars
<1> QED BY <1>2, <1>3, ConnBoot, ConnNetwork, ConnSetup, ConnDispatch, ConnHandle, ConnLcp
        DEF Next

LEMMA ConnAlways == Spec => []ConnInv
BY ConnInit, ConnStep, PTL DEF Spec

(* An element that has a connection can be found from it when the reset of *)
(* the connection is served, however many elements, connections and reused *)
(* addresses there are.                                                    *)
THEOREM ConnectedRegistered == Spec => []ConnectedIsRegistered
<1>1. ConnInv => ConnectedIsRegistered BY DEF ConnInv
<1> QED BY <1>1, ConnAlways, PTL

(* No two elements send on the same connection: the table gives a          *)
(* connection one element.                                                 *)
THEOREM ConnectionsNotShared == Spec => []NoSharedConnection
<1>1. ConnInv => NoSharedConnection
  BY DEF ConnInv, ConnectedIsRegistered, NoSharedConnection
<1> QED BY <1>1, ConnAlways, PTL

(* A queued reset of the connection an element uses is true.               *)
THEOREM ResetsNameDeadConnections == Spec => []ResetNamesDeadConnection
<1>1. ConnInv => ResetNamesDeadConnection
  <2> SUFFICES ASSUME ConnInv, NEW e \in Elements, NEW p \in Protos,
                      proto[e] = p, ResetPending(p)
               PROVE  conn[p] = "down"
    BY DEF ResetNamesDeadConnection
  <2>1. conn[p] # "up" BY DEF ConnInv, ResetsAreOld
  <2>2. conn[p] # "free" BY DEF ConnInv, FreeIsUnreferenced, Referenced
  <2> QED BY <2>1, <2>2 DEF ConnInv, TypeInv, TypeOK
<1> QED BY <1>1, ConnAlways, PTL

(* An element loses a live connection only to a table entry that an        *)
(* earlier connection of the same element left.                            *)
THEOREM LiveDrops == Spec => LiveDropOnlyByStaleEntry
<1>1. ASSUME ConnInv, [Next]_vars, NEW e \in Elements, NEW p \in Protos,
             proto[e] = p, conn[p] = "up", proto'[e] = None
      PROVE  \E q \in DOMAIN table \ {p} : table[q] = e
  <2>1. p # None BY NoneAssumption
  <2>2. TypeInv BY <1>1 DEF ConnInv
  <2>3. proto' # proto BY <1>1, <2>1
  <2>4. ConnectServiceElement \/ DisconnectServiceElement
    BY <1>1, <2>3
       DEF Next, vars, Boot, RegisterListeners, Run, Network, Accept, ReceiveData,
           ReceiveReset, KernelAddsRoute, Setup, SetupStart, SetupRegister,
           SetupHandle, SetupAck, SetupTimeout, SetupLeave, Dispatch,
           DispatchData, DispatchToControlElement, DispatchLcpTaskStarted,
           Handle, RefuseServiceElement, IgnoreReset, AddRoute, AnswerRequest,
           HandleLcpStarted, Lcp, LcpRequest, LcpRegister, LcpTaskStart,
           LcpHandleTaskStarted, elementVars
  <2>5. queue # <<>> /\ Head(queue) \in Events
    BY <2>2, <2>4, QueueTyped DEF ConnectServiceElement, DisconnectServiceElement, Serve
  <2>6. CASE ConnectServiceElement
    <3>1. Head(queue).proto \in Protos
      BY <2>5, <2>6, EventFields DEF ConnectServiceElement, Serve
    <3>2. proto'[e] = Head(queue).proto \/ proto'[e] = proto[e]
      BY <2>2, <2>6 DEF ConnectServiceElement, TypeInv, TypeOK
    <3> QED BY <1>1, <2>1, <3>1, <3>2, NoneAssumption
  <2>7. CASE DisconnectServiceElement
    <3> DEFINE q == Head(queue).proto
    <3>1. q \in DOMAIN table /\ table[q] = e
      BY <1>1, <2>1, <2>2, <2>7
         DEF DisconnectServiceElement, LoseProtocol, TypeInv, TypeOK
    <3>2. Head(queue) = ConnectionReset(q)
      BY <2>5, <2>7 DEF DisconnectServiceElement, Serve, Events, ConnectionReset
    <3>3. In(ConnectionReset(q), queue)
      <4>1. Head(queue) = queue[1] /\ 1 \in 1 .. Len(queue)
        BY <2>2, <2>5, EmptySeq DEF TypeInv, TypeOK
      <4> QED BY <3>2, <4>1 DEF In
    <3>4. q # p
      BY <1>1, <3>3 DEF ConnInv, ResetsAreOld, ResetPending
    <3> QED BY <3>1, <3>4
  <2> QED BY <2>4, <2>6, <2>7
<1>2. ConnInv /\ [Next]_vars =>
        [\A e \in Elements, p \in Protos :
           proto[e] = p /\ conn[p] = "up" /\ proto'[e] = None
             => \E q \in DOMAIN table \ {p} : table[q] = e]_vars
  BY <1>1
<1> QED BY <1>2, ConnAlways, PTL DEF Spec, LiveDropOnlyByStaleEntry

-----------------------------------------------------------------------------
(* The routes and what the LCP tasks were told.                            *)

ForwardersServed ==
  \A e \in Elements :
    /\ e \notin Forwarders => services[e] = 0
    /\ e \in Forwarders /\ proto[e] # None => services[e] > 0

(* sent[e] counts what went out on the present connection of e only. *)
SentOfConnected ==
  \A e \in Elements, r \in Routes :
    sent[e][r] > 0 => proto[e] # None /\ e \in Forwarders /\ r \in routes

RouteInv == /\ ForwardersServed /\ SentOfConnected
            /\ RoutesReplayed /\ AnnouncedAreConnected

(* The steps of all the threads but four handlers of the control element.  *)
Elsewhere == UNCHANGED <<proto, services, routes, sent, announced>>

LEMMA StepKinds ==
  ASSUME [Next]_vars
  PROVE  \/ Elsewhere
         \/ ConnectServiceElement
         \/ DisconnectServiceElement
         \/ AddRoute
         \/ HandleLcpStarted
BY DEF Next, vars, Boot, RegisterListeners, Run, Network, Accept, ReceiveData,
       ReceiveReset, KernelAddsRoute, Setup, SetupStart, SetupRegister,
       SetupHandle, SetupAck, SetupTimeout, SetupLeave, Dispatch, DispatchData,
       DispatchToControlElement, DispatchLcpTaskStarted, Handle,
       RefuseServiceElement, IgnoreReset, AnswerRequest, Lcp, LcpRequest,
       LcpRegister, LcpTaskStart, LcpHandleTaskStarted, Elsewhere, elementVars,
       lcpVars

(* What the handlers find at the head of their queue. *)
LEMMA Served ==
  ASSUME TypeInv
  PROVE  /\ ConnectServiceElement =>
              Head(queue).proto \in Protos /\ Head(queue).name \in Elements
         /\ DisconnectServiceElement =>
              /\ Head(queue).proto \in DOMAIN table
              /\ table[Head(queue).proto] \in Elements
         /\ AddRoute => Head(queue).route \in Routes
<1>1. ASSUME NEW type, Serve(type)
      PROVE  Head(queue) \in Events /\ Head(queue).type = type
  BY <1>1, QueueTyped DEF Serve
<1> QED BY <1>1, EventFields
        DEF ConnectServiceElement, DisconnectServiceElement, AddRoute, TypeInv, TypeOK

LEMMA RouteStep == ConnInv /\ RouteInv /\ [Next]_vars => RouteInv'
<1> SUFFICES ASSUME ConnInv, RouteInv, [Next]_vars PROVE RouteInv'
  OBVIOUS
<1>0. TypeInv BY DEF ConnInv
<1>1. CASE Elsewhere
  BY <1>1 DEF Elsewhere, RouteInv, ForwardersServed, SentOfConnected,
              RoutesReplayed, AnnouncedAreConnected, Connected
<1>2. CASE ConnectServiceElement
  <2> DEFINE e == Head(queue).name
             p == Head(queue).proto
  <2>1. p \in Protos /\ e \in Elements /\ p # None
    BY <1>0, <1>2, Served, NoneAssumption
  <2>2. /\ \A d \in Elements : proto'[d] = IF d = e THEN p ELSE proto[d]
        /\ \A d \in Elements : services'[d] =
             IF d = e THEN services[d] + (IF d \in Forwarders THEN 1 ELSE 0)
                      ELSE services[d]
        /\ UNCHANGED <<routes, announced>>
    BY <1>0, <1>2, <2>1 DEF ConnectServiceElement, TypeInv, TypeOK
  <2>3. \A d \in Elements, r \in Routes : sent'[d][r] =
          IF d = e THEN (IF r \in routes THEN services'[e] ELSE 0) ELSE sent[d][r]
    BY <1>0, <1>2, <2>1 DEF ConnectServiceElement, ReplayRoutes, TypeInv, TypeOK
  <2>4. \A d \in Elements : services[d] \in Nat
    BY <1>0 DEF TypeInv, TypeOK
  <2>5. ForwardersServed'
    BY <2>1, <2>2, <2>4 DEF RouteInv, ForwardersServed
  <2>6. SentOfConnected'
    <3> SUFFICES ASSUME NEW d \in Elements, NEW r \in Routes, sent'[d][r] > 0
                 PROVE  proto'[d] # None /\ d \in Forwarders /\ r \in routes'
      BY DEF SentOfConnected
    <3>1. CASE d = e
      BY <2>1, <2>2, <2>3, <2>5, <3>1 DEF ForwardersServed
    <3>2. CASE d # e
      BY <2>2, <2>3, <3>2 DEF RouteInv, SentOfConnected
    <3> QED BY <3>1, <3>2
  <2>7. RoutesReplayed'
    <3> SUFFICES ASSUME NEW d \in Elements \cap Forwarders, proto'[d] # None,
                        NEW r \in routes'
                 PROVE  sent'[d][r] > 0
      BY DEF RoutesReplayed
    <3>1. r \in routes /\ r \in Routes
      BY <1>0, <2>2 DEF TypeInv, TypeOK
    <3>2. CASE d = e
      BY <2>1, <2>3, <2>5, <3>1, <3>2 DEF ForwardersServed
    <3>3. CASE d # e
      BY <2>2, <2>3, <3>1, <3>3 DEF RouteInv, RoutesReplayed
    <3> QED BY <3>2, <3>3
  <2>8. AnnouncedAreConnected'
    BY <2>1, <2>2 DEF RouteInv, AnnouncedAreConnected, Connected
  <2> QED BY <2>5, <2>6, <2>7, <2>8 DEF RouteInv
<1>3. CASE DisconnectServiceElement
  <2> DEFINE e == table[Head(queue).proto]
  <2>1. e \in Elements
    BY <1>0, <1>3, Served
  <2>2. /\ \A d \in Elements : proto'[d] = IF d = e THEN None ELSE proto[d]
        /\ \A d \in Elements : announced'[d] =
             IF d = e THEN "disconnected" ELSE announced[d]
        /\ UNCHANGED <<routes, services>>
    BY <1>0, <1>3, <2>1
       DEF DisconnectServiceElement, LoseProtocol, AnnounceLoss, TypeInv, TypeOK
  <2>3. \A d \in Elements, r \in Routes :
          sent'[d][r] = IF d = e THEN 0 ELSE sent[d][r]
    BY <1>0, <1>3, <2>1 DEF DisconnectServiceElement, NoRoutes, TypeInv, TypeOK
  <2>4. ForwardersServed'
    BY <2>2 DEF RouteInv, ForwardersServed
  <2>5. SentOfConnected'
    BY <2>2, <2>3 DEF RouteInv, SentOfConnected
  <2>6. RoutesReplayed'
    BY <1>0, <2>2, <2>3 DEF RouteInv, RoutesReplayed, TypeInv, TypeOK
  <2>7. AnnouncedAreConnected'
    BY <2>2 DEF RouteInv, AnnouncedAreConnected, Connected
  <2> QED BY <2>4, <2>5, <2>6, <2>7 DEF RouteInv
<1>4. CASE AddRoute
  <2> DEFINE r == Head(queue).route
  <2>1. r \in Routes
    BY <1>0, <1>4, Served
  <2>2. /\ UNCHANGED <<proto, services, announced>>
        /\ routes' = routes \cup {r}
    BY <1>4 DEF AddRoute, StoreRoute, lcpVars
  <2>3. \A d \in Elements, x \in Routes : sent'[d][x] =
          IF x = r /\ r \notin routes /\ proto[d] # None
          THEN sent[d][x] + services[d] ELSE sent[d][x]
    BY <1>0, <1>4, <2>1 DEF AddRoute, TypeInv, TypeOK
  <2>4. \A d \in Elements, x \in Routes : services[d] \in Nat /\ sent[d][x] \in Nat
    BY <1>0 DEF TypeInv, TypeOK
  <2>5. ForwardersServed'
    BY <2>2 DEF RouteInv, ForwardersServed
  <2>6. SentOfConnected'
    <3> SUFFICES ASSUME NEW d \in Elements, NEW x \in Routes, sent'[d][x] > 0
                 PROVE  proto'[d] # None /\ d \in Forwarders /\ x \in routes'
      BY DEF SentOfConnected
    <3>1. CASE sent[d][x] > 0
      BY <2>2, <3>1 DEF RouteInv, SentOfConnected
    <3>2. CASE ~(sent[d][x] > 0)
      <4>1. x = r /\ proto[d] # None /\ services[d] > 0
        BY <2>3, <2>4, <3>2
      <4> QED BY <2>2, <4>1 DEF RouteInv, ForwardersServed
    <3> QED BY <3>1, <3>2
  <2>7. RoutesReplayed'
    <3> SUFFICES ASSUME NEW d \in Elements \cap Forwarders, proto'[d] # None,
                        NEW x \in routes'
                 PROVE  sent'[d][x] > 0
      BY DEF RoutesReplayed
    <3>1. x \in Routes /\ (x \in routes \/ (x = r /\ r \notin routes))
      BY <1>0, <2>1, <2>2 DEF TypeInv, TypeOK
    <3>2. CASE x \in routes
      <4>1. sent[d][x] > 0
        BY <2>2, <3>2 DEF RouteInv, RoutesReplayed
      <4> QED BY <2>3, <2>4, <3>1, <4>1
    <3>3. CASE x = r /\ r \notin routes
      <4>1. services[d] > 0 /\ proto[d] # None
        BY <2>2 DEF RouteInv, ForwardersServed
      <4> QED BY <2>3, <2>4, <3>1, <3>3, <4>1
    <3> QED BY <3>1, <3>2, <3>3
  <2>8. AnnouncedAreConnected'
    BY <2>2 DEF RouteInv, AnnouncedAreConnected, Connected
  <2> QED BY <2>5, <2>6, <2>7, <2>8 DEF RouteInv
<1>5. CASE HandleLcpStarted
  <2>1. UNCHANGED <<proto, services, routes, sent>>
    BY <1>5 DEF HandleLcpStarted, elementVars
  <2>2. AnnouncedAreConnected'
    BY <1>5, <2>1 DEF HandleLcpStarted, RouteInv, AnnouncedAreConnected, Connected
  <2> QED BY <2>1, <2>2 DEF RouteInv, ForwardersServed, SentOfConnected, RoutesReplayed
<1> QED BY <1>1, <1>2, <1>3, <1>4, <1>5, StepKinds

LEMMA RouteInit == Init => RouteInv
BY DEF Init, RouteInv, ForwardersServed, SentOfConnected, RoutesReplayed,
       AnnouncedAreConnected, NoRoutes

LEMMA RouteAlways == Spec => []RouteInv
BY RouteInit, RouteStep, ConnAlways, PTL DEF Spec

(* Whatever the order of routes and connections, a connected forwarding    *)
(* element has been sent every route.                                      *)
THEOREM AllRoutesReplayed == Spec => []RoutesReplayed
<1>1. RouteInv => RoutesReplayed BY DEF RouteInv
<1> QED BY <1>1, RouteAlways, PTL

(* The table, the connections in use, the queued resets and the routes     *)
(* that were sent are consistent with each other at every step.            *)
THEOREM ElementsAreConsistent == Spec => []ElementsConsistent
BY ConnectedRegistered, ConnectionsNotShared, ResetsNameDeadConnections, AllRoutesReplayed,
   PTL DEF ElementsConsistent

(* No element stays announced as active once it has lost its connection.   *)
THEOREM AnnouncedConnected == Spec => []AnnouncedAreConnected
<1>1. RouteInv => AnnouncedAreConnected BY DEF RouteInv
<1> QED BY <1>1, RouteAlways, PTL

-----------------------------------------------------------------------------
(* The refinement: every step of the control element is a step of the      *)
(* registry or leaves it as it is.                                         *)

Told == [e \in Elements |-> {r \in Routes : sent[e][r] > 0}]

LEMMA RegistryInit == Init => Registry!Init
BY DEF Init, Registry!Init, NoRoutes

LEMMA RegistryStep ==
  ConnInv /\ RouteInv /\ RouteInv' /\ [Next]_vars
    => [Registry!Next]_<<proto, routes, Told>>
<1> SUFFICES ASSUME ConnInv, RouteInv, RouteInv', [Next]_vars
             PROVE  Registry!Next \/ UNCHANGED <<proto, routes, Told>>
  OBVIOUS
<1>0. TypeInv BY DEF ConnInv
<1>1. CASE Elsewhere \/ HandleLcpStarted
  BY <1>1 DEF Elsewhere, HandleLcpStarted, elementVars, Told
<1>2. CASE ConnectServiceElement
  <2> DEFINE e == Head(queue).name
             p == Head(queue).proto
  <2>1. p \in Protos /\ e \in Elements
    BY <1>0, <1>2, Served
  <2>2. Carries(Head(queue), p)
    BY <1>2 DEF ConnectServiceElement, Serve, Carries
  <2>3. Holds(queue, p)
    BY <1>0, <1>2, <2>1, <2>2, OfTail DEF ConnectServiceElement, Serve, TypeInv, TypeOK
  <2>4. \A d \in Elements : proto[d] # p
    BY <2>1, <2>3 DEF ConnInv, OneAnnouncement
  <2>5. proto' = [proto EXCEPT ![e] = p] /\ routes' = routes
    BY <1>2 DEF ConnectServiceElement
  <2>6. \A d \in Elements, r \in Routes : d # e => sent'[d][r] = sent[d][r]
    BY <1>0, <1>2, <2>1 DEF ConnectServiceElement, ReplayRoutes, TypeInv, TypeOK
  <2>7. Told'[e] = IF e \in Forwarders THEN routes ELSE {}
    <3>1. proto'[e] # None
      BY <1>0, <2>1, <2>5, NoneAssumption DEF TypeInv, TypeOK
    <3>2. \A r \in Routes : sent'[e][r] > 0 <=> e \in Forwarders /\ r \in routes
      BY <2>1, <2>5, <3>1 DEF RouteInv, RoutesReplayed, SentOfConnected
    <3> QED BY <1>0, <2>1, <3>2 DEF Told, TypeInv, TypeOK
  <2>8. Told' = [Told EXCEPT ![e] = IF e \in Forwarders THEN routes ELSE {}]
    BY <2>1, <2>6, <2>7 DEF Told
  <2> QED BY <2>1, <2>4, <2>5, <2>8 DEF Registry!Next, Registry!Attach, Told
<1>3. CASE DisconnectServiceElement
  <2> DEFINE e == table[Head(queue).proto]
  <2>1. e \in Elements
    BY <1>0, <1>3, Served
  <2>2. proto' = [proto EXCEPT ![e] = None] /\ routes' = routes
    BY <1>3 DEF DisconnectServiceElement, LoseProtocol
  <2>3. \A d \in Elements, r \in Routes :
          sent'[d][r] = IF d = e THEN 0 ELSE sent[d][r]
    BY <1>0, <1>3, <2>1 DEF DisconnectServiceElement, NoRoutes, TypeInv, TypeOK
  <2>4. Told' = [Told EXCEPT ![e] = {}]
    <3>1. \A d \in Elements : Told'[d] = IF d = e THEN {} ELSE Told[d]
      BY <2>3 DEF Told
    <3> QED BY <2>1, <3>1 DEF Told
  <2> QED BY <2>1, <2>2, <2>4 DEF Registry!Next, Registry!Detach, Told
<1>4. CASE AddRoute
  <2> DEFINE r == Head(queue).route
  <2>1. r \in Routes
    BY <1>0, <1>4, Served
  <2>2. proto' = proto /\ routes' = routes \cup {r}
    BY <1>4 DEF AddRoute, StoreRoute
  <2>3. ASSUME NEW d \in Elements
        PROVE  Told'[d] = IF proto[d] # None /\ d \in Forwarders
                          THEN Told[d] \cup {r} ELSE Told[d]
    <3>1. CASE proto[d] # None /\ d \in Forwarders
      <4>1. \A x \in Routes : (sent'[d][x] > 0 <=> x \in routes')
                              /\ (sent[d][x] > 0 <=> x \in routes)
        BY <2>2, <3>1 DEF RouteInv, RoutesReplayed, SentOfConnected
      <4> QED BY <2>1, <2>2, <3>1, <4>1 DEF Told
    <3>2. CASE ~(proto[d] # None /\ d \in Forwarders)
      <4>1. \A x \in Routes : ~(sent'[d][x] > 0) /\ ~(sent[d][x] > 0)
        BY <2>2, <3>2 DEF RouteInv, SentOfConnected
      <4> QED BY <3>2, <4>1 DEF Told
    <3> QED BY <3>1, <3>2
  <2>4. Told' = [d \in Elements |-> IF proto[d] # None /\ d \in Forwarders
                                    THEN Told[d] \cup {r} ELSE Told[d]]
    BY <2>3 DEF Told
  <2> QED BY <2>1, <2>2, <2>4 DEF Registry!Next, Registry!Learn, Told
<1> QED BY <1>1, <1>2, <1>3, <1>4, StepKinds

(* The threads, the queues and the handlers implement a registry in which  *)
(* a connection is attached to its element with all the routes at once.    *)
THEOREM RegistryImplemented == Spec => ImplementsRegistry
<1>1. [Registry!Next]_<<proto, routes, Told>> =>
        [Registry!Next]_<<proto, routes, [e \in Elements |-> {r \in Routes : sent[e][r] > 0}]>>
  BY DEF Told
<1> QED BY <1>1, RegistryInit, RegistryStep, ConnAlways, RouteAlways, PTL
        DEF Spec, ImplementsRegistry, Registry!Spec

-----------------------------------------------------------------------------
(* One LCP, one web server.  While a single LCP exists the news of its     *)
(* start is in one place at most: raised by its task, noted by the LCP,    *)
(* raised by the LCP, queued for the control element, or served.           *)

Some(type, s) == \E i \in 1 .. Len(s) : s[i].type = type

Single(type, s) ==
  \A i, j \in 1 .. Len(s) : s[i].type = type /\ s[j].type = type => i = j

TaskNews == Some("LCPTaskStarted", bus)
Noted == lcp # <<>> /\ lcp[1].notes > 0
LcpNews == Some("LCPStarted", bus)
LcpQueued == Some("LCPStarted", queue)

OneNews ==
  /\ Single("LCPTaskStarted", bus) /\ Single("LCPStarted", bus)
  /\ Single("LCPStarted", queue)
  /\ TaskNews => ~Noted /\ ~LcpNews /\ ~LcpQueued /\ httpServers = 0
  /\ Noted => lcp[1].notes = 1 /\ ~LcpNews /\ ~LcpQueued /\ httpServers = 0
  /\ LcpNews => ~LcpQueued /\ httpServers = 0
  /\ LcpQueued => httpServers = 0
  /\ httpServers <= 1
  /\ TaskNews \/ Noted \/ LcpNews \/ LcpQueued \/ httpServers > 0
       => lcp # <<>> /\ lcp[1].pc = "running"

LcpInv == Len(lcp) <= 1 => OneNews

LEMMA KindAppend ==
  ASSUME NEW s \in Seq(Events), NEW event \in Events, NEW type
  PROVE  /\ Some(type, Append(s, event)) <=> Some(type, s) \/ event.type = type
         /\ Single(type, s) /\ ~(Some(type, s) /\ event.type = type)
              => Single(type, Append(s, event))
<1> DEFINE t == Append(s, event)
<1>1. /\ Len(s) \in Nat /\ Len(t) = Len(s) + 1
      /\ \A i \in 1 .. Len(s) : t[i] = s[i]
      /\ t[Len(s) + 1] = event
  BY AppendProperties, LenProperties
<1> HIDE DEF t
<1>2. Some(type, t) <=> Some(type, s) \/ event.type = type
  BY <1>1 DEF Some
<1>3. ASSUME Single(type, s), ~(Some(type, s) /\ event.type = type)
      PROVE  Single(type, t)
  <2> SUFFICES ASSUME NEW i \in 1 .. Len(t), NEW j \in 1 .. Len(t),
                      t[i].type = type, t[j].type = type
               PROVE  i = j
    BY DEF Single
  <2>1. \A k \in 1 .. Len(t) : k = Len(s) + 1 \/ k \in 1 .. Len(s)
    BY <1>1
  <2>2. CASE i \in 1 .. Len(s) /\ j \in 1 .. Len(s)
    BY <1>1, <1>3, <2>2 DEF Single
  <2>3. CASE i \in 1 .. Len(s) /\ j = Len(s) + 1
    BY <1>1, <1>3, <2>3 DEF Some
  <2>4. CASE i = Len(s) + 1 /\ j \in 1 .. Len(s)
    BY <1>1, <1>3, <2>4 DEF Some
  <2> QED BY <2>1, <2>2, <2>3, <2>4
<1> QED BY <1>2, <1>3 DEF t

LEMMA KindTail ==
  ASSUME NEW s \in Seq(Events), s # <<>>, NEW type
  PROVE  /\ Some(type, s) <=> Head(s).type = type \/ Some(type, Tail(s))
         /\ Single(type, s) => /\ Single(type, Tail(s))
                               /\ Head(s).type = type => ~Some(type, Tail(s))
<1> DEFINE t == Tail(s)
<1>1. Len(s) \in Nat \ {0} /\ Len(t) = Len(s) - 1
  BY HeadTailProperties, EmptySeq
<1>2. \A i \in 1 .. Len(t) : t[i] = s[i + 1]
  BY HeadTailProperties
<1>3. Head(s) = s[1]
  OBVIOUS
<1> HIDE DEF t
<1>4. \A i \in 1 .. Len(s) : i = 1 \/ (i - 1 \in 1 .. Len(t) /\ t[i - 1] = s[i])
  BY <1>1, <1>2
<1>5. \A i \in 1 .. Len(t) : i + 1 \in 1 .. Len(s) /\ 1 \in 1 .. Len(s)
  BY <1>1
<1>6. Some(type, s) <=> Head(s).type = type \/ Some(type, t)
  BY <1>1, <1>2, <1>3, <1>4, <1>5 DEF Some
<1>7. ASSUME Single(type, s)
      PROVE  Single(type, t) /\ (Head(s).type = type => ~Some(type, t))
  <2>1. Single(type, t)
    BY <1>1, <1>2, <1>5, <1>7, SMTT(30) DEF Single
  <2>2. Head(s).type = type => ~Some(type, t)
    BY <1>1, <1>2, <1>3, <1>5, <1>7 DEF Single, Some
  <2> QED BY <2>1, <2>2
<1> QED BY <1>6, <1>7 DEF t

(* Nothing of the start of an LCP was added to s, or taken, to get t. *)
NoStart(s, t) ==
  \A type \in {"LCPTaskStarted", "LCPStarted"} :
    /\ Some(type, t) <=> Some(type, s)
    /\ Single(type, s) => Single(type, t)

LEMMA NoStartCases ==
  ASSUME NEW s \in Seq(Events)
  PROVE  /\ NoStart(s, s)
         /\ \A event \in Events :
              event.type \notin {"LCPTaskStarted", "LCPStarted"}
                => NoStart(s, Append(s, event))
         /\ s # <<>> /\ Head(s).type \notin {"LCPTaskStarted", "LCPStarted"}
              => NoStart(s, Tail(s))
BY KindAppend, KindTail DEF NoStart

(* An LCP may have been launched; what the others noted is what it was. *)
LcpsAlike ==
  /\ Len(lcp') \in Nat /\ Len(lcp') >= Len(lcp)
  /\ \A i \in 1 .. Len(lcp) : /\ lcp'[i].notes = lcp[i].notes
                              /\ lcp'[i].pc = "running" <=> lcp[i].pc = "running"
  /\ \A i \in Len(lcp) + 1 .. Len(lcp') : lcp'[i] = NewLcp

LEMMA LcpsLen ==
  ASSUME TypeInv
  PROVE  Len(lcp) \in Nat /\ (lcp = <<>> <=> Len(lcp) = 0)
BY EmptySeq, LenProperties DEF TypeInv, TypeOK

LEMMA QuietLcps ==
  ASSUME TypeInv, TypeInv', LcpInv, LcpsAlike, UNCHANGED httpServers,
         NoStart(bus, bus'), NoStart(queue, queue')
  PROVE  LcpInv'
<1> SUFFICES ASSUME Len(lcp)' <= 1 PROVE OneNews'
  BY DEF LcpInv
<1>1. Len(lcp) \in Nat /\ Len(lcp') \in Nat /\ Len(lcp) <= Len(lcp') /\ Len(lcp) <= 1
  BY LcpsLen DEF LcpsAlike
<1>2. OneNews
  BY <1>1 DEF LcpInv
<1>3. (lcp = <<>> <=> Len(lcp) = 0) /\ (lcp' = <<>> <=> Len(lcp') = 0)
  <2>1. (lcp = <<>> <=> Len(lcp) = 0)
    BY LcpsLen
  <2>2. lcp' = <<>> <=> Len(lcp') = 0
    BY EmptySeq, LenProperties DEF TypeInv, TypeOK
  <2> QED BY <2>1, <2>2
<1>4. Noted' <=> Noted
  BY <1>1, <1>3 DEF Noted, LcpsAlike, NewLcp
<1>5. lcp # <<>> => lcp' # <<>> /\ lcp'[1].notes = lcp[1].notes
                     /\ (lcp'[1].pc = "running" <=> lcp[1].pc = "running")
  BY <1>1, <1>3 DEF LcpsAlike
<1>6. /\ TaskNews' <=> TaskNews
      /\ LcpNews' <=> LcpNews
      /\ LcpQueued' <=> LcpQueued
  BY DEF NoStart, TaskNews, LcpNews, LcpQueued
<1>7. Single("LCPTaskStarted", bus') /\ Single("LCPStarted", bus')
      /\ Single("LCPStarted", queue')
  BY <1>2 DEF NoStart, OneNews
<1> QED BY <1>2, <1>4, <1>5, <1>6, <1>7 DEF OneNews, Noted

(* The steps that have nothing to do with the start of an LCP task. *)
LEMMA LcpsAlikeCases ==
  ASSUME TypeInv
  PROVE  /\ UNCHANGED lcp => LcpsAlike
         /\ StartLcp => LcpsAlike
         /\ AnswerRequest => LcpsAlike
         /\ \A i \in 1 .. Len(lcp) : LcpRequest(i) \/ LcpRegister(i) => LcpsAlike
<1>1. lcp \in Seq(LcpRecords) /\ Len(lcp) \in Nat
  BY LcpsLen DEF TypeInv, TypeOK, LcpRecords
<1>2. \A i \in 1 .. Len(lcp) : lcp[i] \in LcpRecords
  BY <1>1
<1>3. UNCHANGED lcp => LcpsAlike
  BY <1>1 DEF LcpsAlike
<1>4. ASSUME StartLcp PROVE LcpsAlike
  <2>1. CASE lcp' = Append(lcp, NewLcp)
    <3>1. /\ Len(lcp') = Len(lcp) + 1
          /\ \A i \in 1 .. Len(lcp) : lcp'[i] = lcp[i]
          /\ lcp'[Len(lcp) + 1] = NewLcp
      BY <1>1, <2>1
    <3> QED BY <1>1, <3>1 DEF LcpsAlike
  <2> QED BY <1>3, <1>4, <2>1 DEF StartLcp
<1>5. ASSUME NEW i, NEW r, lcp' = [lcp EXCEPT ![i] = r],
             i \in 1 .. Len(lcp) => /\ r.notes = lcp[i].notes
                                    /\ r.pc = "running" <=> lcp[i].pc = "running"
      PROVE  LcpsAlike
  <2>1. Len(lcp') = Len(lcp)
    BY <1>1, <1>5
  <2>2. \A j \in 1 .. Len(lcp) : lcp'[j] = IF j = i THEN r ELSE lcp[j]
    BY <1>1, <1>5
  <2> QED BY <1>1, <1>5, <2>1, <2>2 DEF LcpsAlike
<1>6. ASSUME AnswerRequest PROVE LcpsAlike
  <2> DEFINE i == Head(queue).lcp
             r == [lcp[i] EXCEPT !.answers = @ + 1]
  <2>1. lcp' = [lcp EXCEPT ![i] = r]
    BY <1>6 DEF AnswerRequest
  <2>2. i \in 1 .. Len(lcp) => r.notes = lcp[i].notes /\ r.pc = lcp[i].pc
    BY <1>2 DEF LcpRecords
  <2> HIDE DEF i, r
  <2> QED BY <1>5, <2>1, <2>2
<1>7. ASSUME NEW i \in 1 .. Len(lcp), LcpRequest(i) \/ LcpRegister(i)
      PROVE  LcpsAlike
  <2> DEFINE to == IF lcp[i].pc = "waiting" THEN "registered"
                   ELSE IF lcp[i].pc = "interfaces" THEN "elements" ELSE "waiting"
             r == [lcp[i] EXCEPT !.pc = to]
  <2>1. lcp' = [lcp EXCEPT ![i] = r] /\ lcp[i].pc # "running"
    BY <1>7 DEF LcpRequest, LcpRegister
  <2>2. r.notes = lcp[i].notes /\ r.pc # "running"
    BY <1>2 DEF LcpRecords
  <2> HIDE DEF r
  <2> QED BY <1>5, <2>1, <2>2
<1> QED BY <1>3, <1>4, <1>6, <1>7

LEMMA BusStart ==
  ASSUME TypeInv
  PROVE  /\ NoStart(bus, bus)
         /\ \A event \in Events :
              /\ event.type \notin {"LCPTaskStarted", "LCPStarted"}
              /\ Raise(event)
              => NoStart(bus, bus')
         /\ bus # <<>> /\ Head(bus).type \notin {"LCPTaskStarted", "LCPStarted"}
              => NoStart(bus, Tail(bus))
<1>1. bus \in Seq(Events) BY DEF TypeInv, TypeOK
<1> QED BY <1>1, NoStartCases DEF Raise

LEMMA QueueStart ==
  ASSUME TypeInv
  PROVE  /\ NoStart(queue, queue)
         /\ \A event \in Events :
              /\ event.type \notin {"LCPTaskStarted", "LCPStarted"}
              /\ Enqueue(event)
              => NoStart(queue, queue')
         /\ \A type : Serve(type) /\ type \notin {"LCPTaskStarted", "LCPStarted"}
              => NoStart(queue, queue')
<1>1. queue \in Seq(Events) BY DEF TypeInv, TypeOK
<1>2. ASSUME NEW type, Serve(type), type \notin {"LCPTaskStarted", "LCPStarted"}
      PROVE  NoStart(queue, queue')
  <2>1. queue # <<>> /\ Head(queue).type = type /\ queue' = Tail(queue)
    BY <1>2 DEF Serve
  <2> QED BY <1>1, <1>2, <2>1, NoStartCases
<1> QED BY <1>1, <1>2, NoStartCases DEF Enqueue

LEMMA LcpStep == TypeInv /\ TypeInv' /\ LcpInv /\ [Next]_vars => LcpInv'
<1> SUFFICES ASSUME TypeInv, TypeInv', LcpInv, [Next]_vars PROVE LcpInv'
  OBVIOUS
<1>b. bus \in Seq(Events) /\ queue \in Seq(Events)
  BY DEF TypeInv, TypeOK
<1>q. ASSUME LcpsAlike, UNCHANGED httpServers, NoStart(bus, bus'), NoStart(queue, queue')
      PROVE  LcpInv'
  BY <1>q, QuietLcps
<1>1. CASE Boot \/ UNCHANGED vars
  BY <1>1, <1>q, LcpsAlikeCases, BusStart, QueueStart
     DEF Boot, RegisterListeners, Run, vars, lcpVars
<1>2. CASE Network
  <2>1. UNCHANGED <<lcp, httpServers, queue>>
    BY <1>2 DEF Network, Accept, ReceiveData, ReceiveReset, KernelAddsRoute, lcpVars
  <2>2. NoStart(bus, bus')
    <3>1. ASSUME NEW p \in Protos, NEW n \in Peers, Accept(p, n) PROVE bus' = bus
      BY <3>1 DEF Accept
    <3>2. ASSUME NEW p \in Protos, ReceiveData(p) PROVE NoStart(bus, bus')
      <4>1. peer[p] \in Names
        BY <3>2 DEF ReceiveData, TypeInv, PeerKnown
      <4> QED BY <3>2, <4>1, BusStart, EventsTyped, EventTypes DEF ReceiveData
    <3>3. ASSUME NEW p \in Protos, ReceiveReset(p) PROVE NoStart(bus, bus')
      <4>1. ConnectionReset(p).type = "ConnectionReset"
        BY DEF ConnectionReset
      <4> QED BY <3>3, <4>1, BusStart, EventsTyped DEF ReceiveReset
    <3>4. ASSUME NEW r \in Routes, KernelAddsRoute(r) PROVE NoStart(bus, bus')
      BY <3>4, BusStart, EventsTyped, EventTypes DEF KernelAddsRoute
    <3> QED BY <1>2, <3>1, <3>2, <3>3, <3>4, BusStart DEF Network
  <2> QED BY <1>q, <2>1, <2>2, LcpsAlikeCases, QueueStart
<1>3. ASSUME NEW p \in Protos, Setup(p) \/ SetupTimeout(p) PROVE LcpInv'
  <2>1. UNCHANGED <<lcp, httpServers, queue>>
    BY <1>3 DEF Setup, SetupStart, SetupRegister, SetupHandle, SetupAck,
                SetupTimeout, SetupLeave, lcpVars
  <2>2. NoStart(bus, bus')
    <3>1. CASE SetupHandle(p)
      <4> DEFINE event == ServiceElementConnected(p, Head(inbox[p]))
      <4>1. event \in Events /\ event.type = "ServiceElementConnected"
        BY <3>1, InboxTyped, EventsTyped DEF SetupHandle, ServiceElementConnected
      <4> QED BY <3>1, <4>1, BusStart DEF SetupHandle
    <3> QED BY <1>3, <3>1, BusStart DEF Setup, SetupStart, SetupRegister, SetupAck,
                                        SetupTimeout, SetupLeave
  <2> QED BY <1>q, <2>1, <2>2, LcpsAlikeCases, QueueStart
<1>4. CASE DispatchData
  BY <1>4, <1>q, LcpsAlikeCases, BusStart, QueueStart DEF DispatchData, lcpVars
<1>5. CASE DispatchToControlElement
  <2>1. Head(bus) \in Events /\ UNCHANGED <<lcp, httpServers>> /\ bus' = Tail(bus)
        /\ bus # <<>> /\ (queue' = queue \/ queue' = Append(queue, Head(bus)))
    BY <1>5, BusTyped DEF DispatchToControlElement, Enqueue, lcpVars
  <2>2. CASE Head(bus).type # "LCPStarted"
    <3>1. Head(bus).type # "LCPTaskStarted"
      BY <1>5 DEF DispatchToControlElement, ControlElementTypes
    <3>2. NoStart(bus, bus') /\ NoStart(queue, queue')
      BY <1>b, <2>1, <2>2, <3>1, NoStartCases
    <3> QED BY <1>q, <2>1, <3>2, LcpsAlikeCases
  <2>3. CASE Head(bus).type = "LCPStarted"
    <3> SUFFICES ASSUME OneNews PROVE OneNews'
      BY <2>1 DEF LcpInv
    <3>1. /\ Single("LCPTaskStarted", bus') /\ Single("LCPStarted", bus')
          /\ TaskNews' <=> TaskNews
          /\ LcpNews /\ ~LcpNews'
      BY <1>b, <2>1, <2>3, KindTail DEF OneNews, TaskNews, LcpNews
    <3>2. Single("LCPStarted", queue')
      BY <1>b, <2>1, <3>1, KindAppend DEF OneNews, LcpQueued
    <3>3. Noted' <=> Noted
      BY <2>1 DEF Noted
    <3> QED BY <2>1, <3>1, <3>2, <3>3 DEF OneNews
  <2> QED BY <2>2, <2>3
<1>6. CASE DispatchLcpTaskStarted
  <2>0. /\ bus # <<>> /\ bus' = Tail(bus) /\ Head(bus).type = "LCPTaskStarted"
        /\ UNCHANGED <<queue, httpServers>>
        /\ lcp' = [i \in 1 .. Len(lcp) |->
                     IF lcp[i].pc \in {"registered", "running"}
                     THEN [lcp[i] EXCEPT !.notes = @ + 1]
                     ELSE lcp[i]]
    BY <1>6 DEF DispatchLcpTaskStarted
  <2>1. Len(lcp') = Len(lcp)
    BY <2>0, LcpsLen
  <2> SUFFICES ASSUME OneNews, Len(lcp) <= 1 PROVE OneNews'
    BY <2>1 DEF LcpInv
  <2>2. /\ Single("LCPTaskStarted", bus') /\ Single("LCPStarted", bus')
        /\ TaskNews /\ ~TaskNews'
        /\ LcpNews' <=> LcpNews
    BY <1>b, <2>0, KindTail DEF OneNews, TaskNews, LcpNews
  <2>3. /\ lcp # <<>> /\ 1 \in 1 .. Len(lcp) /\ lcp[1].pc = "running"
        /\ lcp[1] \in LcpRecords /\ ~(lcp[1].notes > 0)
    <3>1. lcp # <<>> /\ lcp[1].pc = "running" /\ ~Noted
      BY <2>2 DEF OneNews
    <3>2. 1 \in 1 .. Len(lcp)
      BY <3>1, LcpsLen
    <3>3. lcp[1] \in LcpRecords
      BY <3>2, ElementOfSeq DEF TypeInv, TypeOK, LcpRecords
    <3> QED BY <3>1, <3>2, <3>3 DEF Noted
  <2>4. lcp'[1] = [lcp[1] EXCEPT !.notes = @ + 1] /\ lcp' # <<>>
    BY <2>0, <2>1, <2>3, LcpsLen
  <2>5. lcp'[1].notes = 1 /\ lcp'[1].pc = "running"
    BY <2>3, <2>4 DEF LcpRecords
  <2>6. Noted' /\ (LcpQueued' <=> LcpQueued)
    BY <2>0, <2>4, <2>5 DEF Noted, LcpQueued
  <2> QED BY <2>0, <2>2, <2>4, <2>5, <2>6 DEF OneNews
<1>7. CASE Handle
  <2>1. CASE HandleLcpStarted
    <3>1. /\ queue # <<>> /\ queue' = Tail(queue) /\ Head(queue).type = "LCPStarted"
          /\ UNCHANGED <<bus, lcp>> /\ httpServers' = httpServers + 1
      BY <2>1 DEF HandleLcpStarted, Serve
    <3> SUFFICES ASSUME OneNews PROVE OneNews'
      BY <3>1 DEF LcpInv
    <3>2. LcpQueued /\ ~LcpQueued' /\ Single("LCPStarted", queue')
      BY <1>b, <3>1, KindTail DEF OneNews, LcpQueued
    <3>3. TaskNews' = TaskNews /\ LcpNews' = LcpNews /\ Noted' = Noted
      BY <3>1 DEF TaskNews, LcpNews, Noted
    <3>4. httpServers = 0 /\ httpServers' = 1
      BY <3>1, <3>2 DEF OneNews
    <3> QED BY <3>1, <3>2, <3>3, <3>4 DEF OneNews
  <2>2. CASE ~HandleLcpStarted
    <3>1. UNCHANGED <<bus, httpServers>> /\ NoStart(queue, queue')
      BY <1>7, <2>2, QueueStart
         DEF Handle, RefuseServiceElement, ConnectServiceElement, IgnoreReset,
             DisconnectServiceElement, AddRoute, AnswerRequest, lcpVars
    <3>2. UNCHANGED lcp \/ StartLcp \/ AnswerRequest
      BY <1>7, <2>2
         DEF Handle, RefuseServiceElement, ConnectServiceElement, IgnoreReset,
             DisconnectServiceElement, AddRoute, lcpVars
    <3> QED BY <1>q, <3>1, <3>2, LcpsAlikeCases, BusStart
  <2> QED BY <2>1, <2>2
<1>8. ASSUME NEW i \in 1 .. Len(lcp), Lcp(i) PROVE LcpInv'
  <2>0. /\ lcp \in Seq(LcpRecords) /\ lcp[i] \in LcpRecords
        /\ Len(lcp) \in Nat /\ lcp # <<>>
        /\ UNCHANGED <<queue, httpServers>>
    <3>1. lcp \in Seq(LcpRecords) /\ lcp[i] \in LcpRecords
      BY ElementOfSeq DEF TypeInv, TypeOK, LcpRecords
    <3>2. Len(lcp) \in Nat /\ lcp # <<>>
      BY LcpsLen
    <3> QED BY <1>8, <3>1, <3>2 DEF Lcp, LcpRequest, LcpRegister, LcpTaskStart,
                                    LcpHandleTaskStarted
  <2>1. CASE LcpRequest(i) \/ LcpRegister(i)
    <3>1. i \in Nat \ {0}
      BY <2>0
    <3>2. NoStart(bus, bus')
      BY <2>1, <3>1, BusStart, EventsTyped, EventTypes DEF LcpRequest, LcpRegister
    <3> QED BY <1>q, <2>0, <2>1, <3>2, LcpsAlikeCases, QueueStart
  <2>s. ASSUME NEW r, lcp' = [lcp EXCEPT ![i] = r], Len(lcp)' <= 1
        PROVE  lcp' # <<>> /\ lcp'[1] = r /\ i = 1 /\ Len(lcp) <= 1
    <3>1. Len(lcp') = Len(lcp)
      BY <2>0, <2>s
    <3>2. i = 1
      BY <2>0, <2>s, <3>1
    <3> QED BY <2>0, <2>s, <3>1, <3>2
  <2>2. CASE LcpTaskStart(i)
    <3> SUFFICES ASSUME Len(lcp)' <= 1 PROVE OneNews'
      BY DEF LcpInv
    <3> DEFINE r == [lcp[i] EXCEPT !.pc = "running"]
    <3>1. lcp' # <<>> /\ lcp'[1] = r /\ i = 1 /\ OneNews
      BY <2>2, <2>s DEF LcpTaskStart, LcpInv
    <3>2. r.pc = "running" /\ r.notes = lcp[1].notes /\ lcp[1].pc = "registered"
      BY <2>0, <2>2, <3>1 DEF LcpRecords, LcpTaskStart
    <3>3. ~TaskNews /\ ~Noted /\ ~LcpNews /\ ~LcpQueued /\ ~(httpServers > 0)
      BY <3>1, <3>2 DEF OneNews
    <3>4. /\ TaskNews' /\ ~LcpNews'
          /\ Single("LCPTaskStarted", bus') /\ Single("LCPStarted", bus')
      BY <1>b, <2>2, <3>1, <3>3, KindAppend, EventsTyped, EventTypes
         DEF LcpTaskStart, Raise, OneNews, TaskNews, LcpNews
    <3>5. ~Noted' /\ ~LcpQueued' /\ Single("LCPStarted", queue')
      BY <2>0, <3>1, <3>2, <3>3 DEF Noted, LcpQueued, OneNews
    <3>6. httpServers' = 0
      BY <2>0, <3>3 DEF TypeInv, TypeOK
    <3> QED BY <3>1, <3>2, <3>4, <3>5, <3>6 DEF OneNews
  <2>3. CASE LcpHandleTaskStarted(i)
    <3> SUFFICES ASSUME Len(lcp)' <= 1 PROVE OneNews'
      BY DEF LcpInv
    <3> DEFINE r == [lcp[i] EXCEPT !.notes = @ - 1]
    <3>1. lcp' # <<>> /\ lcp'[1] = r /\ i = 1 /\ OneNews
      BY <2>3, <2>s DEF LcpHandleTaskStarted, TakeNote, LcpInv
    <3>2. Noted /\ lcp[1].pc = "running"
      BY <2>0, <2>3, <3>1 DEF LcpHandleTaskStarted, HasNote, Noted
    <3>3. ~TaskNews /\ lcp[1].notes = 1 /\ ~LcpNews /\ ~LcpQueued /\ httpServers = 0
      BY <3>1, <3>2 DEF OneNews
    <3>4. r.pc = "running" /\ r.notes = 0
      BY <2>0, <3>1, <3>2, <3>3 DEF LcpRecords
    <3>5. /\ ~TaskNews' /\ LcpNews'
          /\ Single("LCPTaskStarted", bus') /\ Single("LCPStarted", bus')
      BY <1>b, <2>3, <3>1, <3>3, KindAppend, EventsTyped, EventTypes
         DEF LcpHandleTaskStarted, Raise, OneNews, TaskNews, LcpNews
    <3>6. ~Noted' /\ ~LcpQueued' /\ Single("LCPStarted", queue') /\ httpServers' = 0
      BY <2>0, <3>1, <3>3, <3>4 DEF Noted, LcpQueued, OneNews
    <3> QED BY <3>1, <3>4, <3>5, <3>6 DEF OneNews
  <2> QED BY <1>8, <2>1, <2>2, <2>3 DEF Lcp
<1> QED BY <1>1, <1>2, <1>3, <1>4, <1>5, <1>6, <1>7, <1>8 DEF Next, Dispatch

LEMMA LcpInit == Init => LcpInv
BY DEF Init, LcpInv, OneNews, Single, Some, TaskNews, Noted, LcpNews, LcpQueued

(* One run of start_lcp that launched an LCP starts one web server only,   *)
(* however the handlers of the LCP and the control element interleave.     *)
THEOREM OneLcpOneServer == Spec => []SingleLcpSingleServer
<1>1. LcpInv => SingleLcpSingleServer
  BY DEF LcpInv, OneNews, SingleLcpSingleServer
<1>2. TypeInv /\ [Next]_vars => TypeInv'
  BY TypeStep
<1>3. TypeInv /\ LcpInv /\ [Next]_vars => LcpInv'
  BY LcpStep, TypeStep
<1> QED BY <1>1, <1>2, <1>3, TypeInit, LcpInit, PTL DEF Spec

=============================================================================
