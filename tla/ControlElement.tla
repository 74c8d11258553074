--------------------------- MODULE ControlElement ---------------------------
(***************************************************************************)
(* The connection management of the control element (CE).                  *)
(*                                                                         *)
(* Service elements (SE) open TCP connections.  Each accepted connection   *)
(* is a protocol object with an rx thread, and a SetupServiceElement       *)
(* activity of its own that waits for the peer's ServiceElementData.  All  *)
(* threads talk through one FIFO of application events (tnt::Application); *)
(* its dispatcher copies an event into the handler queue of every          *)
(* subscribed activity, and an activity runs its handlers one by one.      *)
(*                                                                         *)
(* A protocol is named by its address, the key of elements_table_.  It is  *)
(* destroyed when its last shared_ptr goes, and its address can then be    *)
(* given to a new connection: events and table entries may outlive it.     *)
(***************************************************************************)
EXTENDS Integers, Sequences

CONSTANTS
  Elements,     \* names of the configured elements
  Peers,        \* names the peers of the network introduce themselves with
  Forwarders,   \* names whose ServiceElementData offers a forwarding service
  Forced,       \* elements configured as always connected
  Protos,       \* addresses of protocol objects
  Routes,       \* routes the kernel can report
  None,         \* the null protocol pointer
  MaxAccepts    \* bound: connections accepted in a behaviour

ASSUME NoneAssumption == None \notin Protos
ASSUME ForcedAssumption == Forced \subseteq Elements
ASSUME BoundAssumption == MaxAccepts \in Nat

VARIABLES
  phase,      \* the ControlElement activity: "starting", "listening", "running"
  conn,       \* conn[p]: "free", "up", or "down" once the rx thread has ended
  peer,       \* peer[p]: name of the SE at the other end
  hello,      \* hello[p]: the peer has not sent its ServiceElementData yet
  setup,      \* setup[p]: program counter of the SetupServiceElement of p
  inbox,      \* inbox[p]: handlers_ of that activity, one name per closure
  bus,        \* Application::events_
  queue,      \* handlers_ of the ControlElement activity
  proto,      \* proto[e]: ServiceElement::proto_
  services,   \* services[e]: forwarding services in ServiceElement::services_
  table,      \* elements_table_, a partial function from Protos to Elements
  routes,     \* ControlElementImpl::routes_
  sent,       \* sent[e][r]: AddKernelRoute messages for r sent on proto[e]
  lcp,        \* the ControlElementLCP activities started so far
  lcpStarted, \* lcp_started_
  announced,  \* announced[e]: last event about e raised for the LCP tasks
  httpServers,\* HttpServer activities started
  accepts     \* connections accepted so far

peerVars    == <<peer, hello>>
elementVars == <<proto, services, table, routes, sent>>
lcpVars     == <<lcp, lcpStarted, announced, httpServers>>
vars == <<phase, conn, peerVars, setup, inbox, bus, queue, elementVars,
          lcpVars, accepts>>

Names == Elements \cup Peers

ServiceElementData(p, n) ==
  [type |-> "ServiceElementData", proto |-> p, name |-> n]
ServiceElementConnected(p, n) ==
  [type |-> "ServiceElementConnected", proto |-> p, name |-> n]
ConnectionReset(p) == [type |-> "ConnectionReset", proto |-> p]
LocalRouteAdded(r) == [type |-> "LocalRouteAdded", route |-> r]
Request(i)         == [type |-> "Request", lcp |-> i]
LCPTaskStarted     == [type |-> "LCPTaskStarted"]
LCPStarted         == [type |-> "LCPStarted"]

Events == [type : {"ServiceElementData", "ServiceElementConnected"},
           proto : Protos, name : Names]
     \cup [type : {"ConnectionReset"}, proto : Protos]
     \cup [type : {"LocalRouteAdded"}, route : Routes]
     \cup [type : {"Request"}, lcp : Nat \ {0}]
     \cup [type : {"LCPTaskStarted", "LCPStarted"}]

(* The events the ControlElement activity registers a handler for. *)
ControlElementTypes == {"ServiceElementConnected", "ConnectionReset",
                        "LocalRouteAdded", "Request", "LCPStarted"}

SetupStates == {"none", "launched", "started", "waiting", "raised", "acked",
                "expired"}
(* The states in which SetupServiceElement is subscribed to its data. *)
Subscribed == {"waiting", "raised", "acked", "expired"}

LcpStates == {"interfaces", "elements", "waiting", "registered", "running"}

-----------------------------------------------------------------------------
In(e, s)   == \E i \in 1 .. Len(s) : s[i] = e
Raise(e)   == bus' = Append(bus, e)

Connected(e) == e \in Forced \/ proto[e] # None

(* A ServiceElementConnected event holds a shared_ptr to its protocol. *)
Carries(event, p) == event.type = "ServiceElementConnected" /\ event.proto = p

ConnectedPending(p) == \/ \E i \in 1 .. Len(bus) : Carries(bus[i], p)
                       \/ \E i \in 1 .. Len(queue) : Carries(queue[i], p)

(* Operators named ..Variant are altered forms of the definition below     *)
(* them, with a mistake the code could have made.  The model never uses    *)
(* them: each shows that some property would notice that mistake.          *)

(* Events that hold a plain pointer instead of a shared_ptr. *)
ReferencedVariant(p) ==
  setup[p] # "none" \/ \E e \in Elements : proto[e] = p

(* p is kept alive by its setup activity, by an event or by an element. *)
Referenced(p) == \/ setup[p] # "none"
                 \/ ConnectedPending(p)
                 \/ \E e \in Elements : proto[e] = p

(* The protocols left without a reference by a step are destroyed in it:   *)
(* ~AsyncProtocol stops the rx thread and joins it, and raises nothing.    *)
Reap ==
  conn' = [p \in Protos |-> IF Referenced(p)' THEN conn[p] ELSE "free"]

NoRoutes == [r \in Routes |-> 0]

NewLcp == [pc |-> "interfaces", answers |-> 0, notes |-> 0]

(* The LCP is started with the control element only. *)
StartLcpVariant == lcp' = lcp

(* ControlElementImpl::start_lcp, on the state the calling handler leaves. *)
StartLcp ==
  lcp' = IF ~lcpStarted /\ \A e \in Elements : Connected(e)'
         THEN Append(lcp, NewLcp)
         ELSE lcp

Init ==
  /\ phase = "starting"
  /\ conn = [p \in Protos |-> "free"]
  /\ peer = [p \in Protos |-> None]
  /\ hello = [p \in Protos |-> FALSE]
  /\ setup = [p \in Protos |-> "none"]
  /\ inbox = [p \in Protos |-> <<>>]
  /\ bus = <<>>
  /\ queue = <<>>
  /\ proto = [e \in Elements |-> None]
  /\ services = [e \in Elements |-> 0]
  /\ table = [p \in {} |-> None]
  /\ routes = {}
  /\ sent = [e \in Elements |-> NoRoutes]
  /\ lcp = <<>>
  /\ lcpStarted = FALSE
  /\ announced = [e \in Elements |-> "never"]
  /\ httpServers = 0
  /\ accepts = 0

-----------------------------------------------------------------------------
(* The ControlElement activity starts the discovery of service elements    *)
(* first, registers its listeners next, and serves its queue last.         *)

RegisterListeners ==
  /\ phase = "starting"
  /\ phase' = "listening"
  /\ UNCHANGED <<conn, peerVars, setup, inbox, bus, queue, elementVars,
                 lcpVars, accepts>>

Run ==
  /\ phase = "listening"
  /\ phase' = "running"
  /\ UNCHANGED <<conn, peerVars, setup, inbox, bus, queue, elementVars,
                 lcpStarted, announced, httpServers, accepts>>
  /\ StartLcp

-----------------------------------------------------------------------------
(* The network: peers connect, introduce themselves and go away.           *)

(* DiscoverServiceElements accepts a connection: a protocol is created at  *)
(* a free address and a SetupServiceElement activity is launched for it.   *)
Accept(p, n) ==
  /\ accepts < MaxAccepts
  /\ conn[p] = "free"
  /\ conn' = [conn EXCEPT ![p] = "up"]
  /\ peer' = [peer EXCEPT ![p] = n]
  /\ hello' = [hello EXCEPT ![p] = TRUE]
  /\ setup' = [setup EXCEPT ![p] = "launched"]
  /\ inbox' = [inbox EXCEPT ![p] = <<>>]
  /\ accepts' = accepts + 1
  /\ UNCHANGED <<phase, bus, queue, elementVars, lcpVars>>

(* The rx thread, which proto_->start() creates, parses the peer's data.   *)
ReceiveData(p) ==
  /\ conn[p] = "up" /\ setup[p] # "launched"
  /\ hello[p]
  /\ hello' = [hello EXCEPT ![p] = FALSE]
  /\ Raise(ServiceElementData(p, peer[p]))
  /\ UNCHANGED <<phase, conn, peer, setup, inbox, queue, elementVars, lcpVars,
                 accepts>>

(* The rx thread reports the loss and goes on reading. *)
EndReceiverVariant(p) == conn' = conn

EndReceiver(p) == conn' = [conn EXCEPT ![p] = "down"]

(* The rx thread reads the end of the connection, reports it and ends.     *)
ReceiveReset(p) ==
  /\ conn[p] = "up" /\ setup[p] # "launched"
  /\ EndReceiver(p)
  /\ Raise(ConnectionReset(p))
  /\ UNCHANGED <<phase, peerVars, setup, inbox, queue, elementVars, lcpVars,
                 accepts>>

(* The kernel reports a route of the router.  It may report it again, but  *)
(* not while the last report is still queued, which bounds the queues.     *)
KernelAddsRoute(r) ==
  /\ ~In(LocalRouteAdded(r), bus) /\ ~In(LocalRouteAdded(r), queue)
  /\ Raise(LocalRouteAdded(r))
  /\ UNCHANGED <<phase, conn, peerVars, setup, inbox, queue, elementVars,
                 lcpVars, accepts>>

-----------------------------------------------------------------------------
(* SetupServiceElement, one thread per connection.                         *)

SetupStep(p, from, to) ==
  /\ setup[p] = from
  /\ setup' = [setup EXCEPT ![p] = to]

(* proto_->start() comes before register_handler: data parsed in between   *)
(* finds no subscriber.                                                    *)
SetupStart(p) ==
  /\ SetupStep(p, "launched", "started")
  /\ UNCHANGED <<phase, conn, peerVars, inbox, bus, queue, elementVars,
                 lcpVars, accepts>>

SetupRegister(p) ==
  /\ SetupStep(p, "started", "waiting")
  /\ UNCHANGED <<phase, conn, peerVars, inbox, bus, queue, elementVars,
                 lcpVars, accepts>>

(* wait_event_for runs the handler of the first ServiceElementData.        *)
SetupHandle(p) ==
  /\ SetupStep(p, "waiting", "raised")
  /\ inbox[p] # <<>>
  /\ inbox' = [inbox EXCEPT ![p] = Tail(@)]
  /\ Raise(ServiceElementConnected(p, Head(inbox[p])))
  /\ UNCHANGED <<phase, conn, peerVars, queue, elementVars, lcpVars, accepts>>

(* The Ack goes to the peer whatever the control element will decide.      *)
SetupAck(p) ==
  /\ SetupStep(p, "raised", "acked")
  /\ UNCHANGED <<phase, conn, peerVars, inbox, bus, queue, elementVars,
                 lcpVars, accepts>>

SetupTimeout(p) ==
  /\ SetupStep(p, "waiting", "expired")
  /\ inbox[p] = <<>>
  /\ UNCHANGED <<phase, conn, peerVars, inbox, bus, queue, elementVars,
                 lcpVars, accepts>>

(* The activity is destroyed: its subscription, its queue, its shared_ptr. *)
SetupLeave(p) ==
  /\ setup[p] \in {"acked", "expired"}
  /\ setup' = [setup EXCEPT ![p] = "none"]
  /\ inbox' = [inbox EXCEPT ![p] = <<>>]
  /\ UNCHANGED <<phase, peerVars, bus, queue, elementVars, lcpVars, accepts>>
  /\ Reap

-----------------------------------------------------------------------------
(* Application::do_run: one event at a time, to whoever is subscribed.  An *)
(* event nobody takes is dropped: no activity is registered for it in the  *)
(* control element.                                                        *)

DispatchData ==
  /\ bus # <<>> /\ Head(bus).type = "ServiceElementData"
  /\ bus' = Tail(bus)
  /\ LET p == Head(bus).proto
     IN inbox' = IF setup[p] \in Subscribed
                 THEN [inbox EXCEPT ![p] = Append(@, Head(bus).name)]
                 ELSE inbox
  /\ UNCHANGED <<phase, conn, peerVars, setup, queue, elementVars, lcpVars,
                 accepts>>

(* The handler queue as a stack. *)
EnqueueVariant(event) == queue' = <<event>> \o queue

(* The subscriber ConcurrentActivity registers: queue a closure. *)
Enqueue(event) == queue' = Append(queue, event)

DispatchToControlElement ==
  /\ bus # <<>> /\ Head(bus).type \in ControlElementTypes
  /\ bus' = Tail(bus)
  /\ IF phase = "starting" THEN UNCHANGED queue ELSE Enqueue(Head(bus))
  /\ UNCHANGED <<phase, peerVars, setup, inbox, elementVars, lcpVars, accepts>>
  /\ Reap

(* Every ControlElementLCP is subscribed, whichever task has started.      *)
DispatchLcpTaskStarted ==
  /\ bus # <<>> /\ Head(bus).type = "LCPTaskStarted"
  /\ bus' = Tail(bus)
  /\ lcp' = [i \in 1 .. Len(lcp) |->
               IF lcp[i].pc \in {"registered", "running"}
               THEN [lcp[i] EXCEPT !.notes = @ + 1]
               ELSE lcp[i]]
  /\ UNCHANGED <<phase, conn, peerVars, setup, inbox, queue, elementVars,
                 lcpStarted, announced, httpServers, accepts>>

-----------------------------------------------------------------------------
(* The handlers of the ControlElement activity.                            *)

Serve(type) ==
  /\ phase = "running"
  /\ queue # <<>> /\ Head(queue).type = type
  /\ queue' = Tail(queue)

(* connect_service_element of a name that is not configured: the event     *)
(* goes, and the last reference to the protocol with it.                   *)
RefuseServiceElement ==
  /\ Serve("ServiceElementConnected")
  /\ Head(queue).name \notin Elements
  /\ UNCHANGED <<phase, peerVars, setup, inbox, bus, elementVars, lcpVars,
                 accepts>>
  /\ Reap

(* elements_table_[p] = e *)
Register(p, e) ==
  table' = [q \in DOMAIN table \cup {p} |-> IF q = p THEN e ELSE table[q]]

(* Only the routes that are still to come are sent. *)
ReplayRoutesVariant(e) == sent' = [sent EXCEPT ![e] = NoRoutes]

(* add_routes: every known route, through every forwarding service of e.   *)
ReplayRoutes(e) ==
  sent' = [sent EXCEPT ![e] = [r \in Routes |->
                                 IF r \in routes THEN services'[e] ELSE 0]]

(* connect_service_element: ServiceElement::connect appends the offered    *)
(* services to those of earlier connections, the table is updated, every   *)
(* known route goes through every forwarding service, and the LCP is       *)
(* started if this was the last missing element.                           *)
ConnectServiceElement ==
  /\ Serve("ServiceElementConnected")
  /\ Head(queue).name \in Elements
  /\ LET e == Head(queue).name
         p == Head(queue).proto
     IN /\ proto' = [proto EXCEPT ![e] = p]
        /\ services' = [services EXCEPT
                          ![e] = @ + IF e \in Forwarders THEN 1 ELSE 0]
        /\ Register(p, e)
        /\ ReplayRoutes(e)
  /\ StartLcp
  /\ UNCHANGED <<phase, peerVars, setup, inbox, bus, routes, lcpStarted,
                 announced, httpServers, accepts>>
  /\ Reap

(* connection_reset of a protocol that is not in elements_table_.          *)
IgnoreReset ==
  /\ Serve("ConnectionReset")
  /\ Head(queue).proto \notin DOMAIN table
  /\ UNCHANGED <<phase, conn, peerVars, setup, inbox, bus, elementVars,
                 lcpVars, accepts>>

(* The table entry goes, the element keeps its protocol. *)
LoseProtocolVariant(e) == UNCHANGED proto

(* ServiceElement::disconnect *)
LoseProtocol(e) == proto' = [proto EXCEPT ![e] = None]

(* The LCP tasks are not told. *)
AnnounceLossVariant(e) == UNCHANGED announced

(* The event ServiceElementDisconnected. *)
AnnounceLoss(e) == announced' = [announced EXCEPT ![e] = "disconnected"]

(* connection_reset: the element of the table entry is disconnected,       *)
(* whatever its connection is now.                                         *)
DisconnectServiceElement ==
  /\ Serve("ConnectionReset")
  /\ Head(queue).proto \in DOMAIN table
  /\ LET p == Head(queue).proto
         e == table[p]
     IN /\ LoseProtocol(e)
        /\ sent' = [sent EXCEPT ![e] = NoRoutes]
        /\ table' = [q \in DOMAIN table \ {p} |-> table[q]]
        /\ AnnounceLoss(e)
  /\ UNCHANGED <<phase, peerVars, setup, inbox, bus, services, routes, lcp,
                 lcpStarted, httpServers, accepts>>
  /\ Reap

(* The route is sent, and not kept for the elements to come. *)
StoreRouteVariant(r) == UNCHANGED routes

StoreRoute(r) == routes' = routes \cup {r}

(* add(RouteInfo): a new route goes to every element through each of its   *)
(* forwarding services; an element without a protocol only logs it.        *)
AddRoute ==
  /\ Serve("LocalRouteAdded")
  /\ LET r == Head(queue).route
     IN /\ StoreRoute(r)
        /\ sent' = [e \in Elements |->
                      IF r \notin routes /\ proto[e] # None
                      THEN [sent[e] EXCEPT ![r] = @ + services[e]]
                      ELSE sent[e]]
  /\ UNCHANGED <<phase, conn, peerVars, setup, inbox, bus, proto, services,
                 table, lcpVars, accepts>>

(* ExternalInterfacesRequest or ServiceElementsRequest is answered.        *)
AnswerRequest ==
  /\ Serve("Request")
  /\ lcp' = [lcp EXCEPT ![Head(queue).lcp].answers = @ + 1]
  /\ UNCHANGED <<phase, conn, peerVars, setup, inbox, bus, elementVars,
                 lcpStarted, announced, httpServers, accepts>>

(* lcp_started: the connected elements are announced to the LCP tasks.     *)
HandleLcpStarted ==
  /\ Serve("LCPStarted")
  /\ lcpStarted' = TRUE
  /\ announced' = [e \in Elements |->
                     IF Connected(e) THEN "active" ELSE announced[e]]
  /\ httpServers' = httpServers + 1
  /\ UNCHANGED <<phase, conn, peerVars, setup, inbox, bus, elementVars, lcp,
                 accepts>>

-----------------------------------------------------------------------------
(* ControlElementLCP, one activity per call of start_lcp that launched it. *)

(* It raises ExternalInterfacesRequest, then ServiceElementsRequest.       *)
LcpRequest(i) ==
  /\ lcp[i].pc \in {"interfaces", "elements"}
  /\ Raise(Request(i))
  /\ lcp' = [lcp EXCEPT ![i].pc =
               IF @ = "interfaces" THEN "elements" ELSE "waiting"]
  /\ UNCHANGED <<phase, conn, peerVars, setup, inbox, queue, elementVars,
                 lcpStarted, announced, httpServers, accepts>>

(* It waits for both answers and registers its handlers.                   *)
LcpRegister(i) ==
  /\ lcp[i].pc = "waiting" /\ lcp[i].answers = 2
  /\ lcp' = [lcp EXCEPT ![i].pc = "registered"]
  /\ UNCHANGED <<phase, conn, peerVars, setup, inbox, bus, queue, elementVars,
                 lcpStarted, announced, httpServers, accepts>>

(* The task it initialises reports that it has started.                    *)
LcpTaskStart(i) ==
  /\ lcp[i].pc = "registered"
  /\ Raise(LCPTaskStarted)
  /\ lcp' = [lcp EXCEPT ![i].pc = "running"]
  /\ UNCHANGED <<phase, conn, peerVars, setup, inbox, queue, elementVars,
                 lcpStarted, announced, httpServers, accepts>>

(* The loop repeats the last handler. *)
TakeNoteVariant(i) == UNCHANGED lcp

TakeNote(i) == lcp' = [lcp EXCEPT ![i].notes = @ - 1]

(* The loop runs a handler without waiting for an event. *)
HasNoteVariant(i) == lcp[i].pc = "running"

HasNote(i) == lcp[i].pc = "running" /\ lcp[i].notes > 0

(* Its loop runs the handler of LCPTaskStarted. *)
LcpHandleTaskStarted(i) ==
  /\ HasNote(i)
  /\ Raise(LCPStarted)
  /\ TakeNote(i)
  /\ UNCHANGED <<phase, conn, peerVars, setup, inbox, queue, elementVars,
                 lcpStarted, announced, httpServers, accepts>>

-----------------------------------------------------------------------------
Boot == RegisterListeners \/ Run

Network ==
  \/ \E p \in Protos : \/ \E n \in Peers : Accept(p, n)
                       \/ ReceiveData(p)
                       \/ ReceiveReset(p)
  \/ \E r \in Routes : KernelAddsRoute(r)

Setup(p) == \/ SetupStart(p) \/ SetupRegister(p) \/ SetupHandle(p)
            \/ SetupAck(p) \/ SetupLeave(p)

Dispatch == DispatchData \/ DispatchToControlElement \/ DispatchLcpTaskStarted

Handle ==
  \/ RefuseServiceElement \/ ConnectServiceElement
  \/ IgnoreReset \/ DisconnectServiceElement
  \/ AddRoute \/ AnswerRequest \/ HandleLcpStarted

Lcp(i) == LcpRequest(i) \/ LcpRegister(i) \/ LcpTaskStart(i) \/ LcpHandleTaskStarted(i)

Next ==
  \/ Boot \/ Network \/ Dispatch \/ Handle
  \/ \E p \in Protos : Setup(p) \/ SetupTimeout(p)
  \/ \E i \in 1 .. Len(lcp) : Lcp(i)

Spec == Init /\ [][Next]_vars

(* Every thread of the process is eventually scheduled; nothing is assumed *)
(* of the network, the kernel or the timers.                               *)
Fairness ==
  /\ WF_vars(Boot) /\ WF_vars(Dispatch) /\ WF_vars(Handle)
  /\ \A p \in Protos : WF_vars(Setup(p))
  /\ \A i \in 1 .. MaxAccepts + 1 : WF_vars(i \in 1 .. Len(lcp) /\ Lcp(i))

FairSpec == Spec /\ Fairness

-----------------------------------------------------------------------------
TypeOK ==
  /\ phase \in {"starting", "listening", "running"}
  /\ conn \in [Protos -> {"free", "up", "down"}]
  /\ peer \in [Protos -> Names \cup {None}]
  /\ hello \in [Protos -> BOOLEAN]
  /\ setup \in [Protos -> SetupStates]
  /\ inbox \in [Protos -> Seq(Names)]
  /\ bus \in Seq(Events)
  /\ queue \in Seq(Events)
  /\ proto \in [Elements -> Protos \cup {None}]
  /\ services \in [Elements -> Nat]
  /\ DOMAIN table \subseteq Protos
  /\ table \in [DOMAIN table -> Elements]
  /\ routes \subseteq Routes
  /\ sent \in [Elements -> [Routes -> Nat]]
  /\ lcp \in Seq([pc : LcpStates, answers : Nat, notes : Nat])
  /\ lcpStarted \in BOOLEAN
  /\ announced \in [Elements -> {"never", "active", "disconnected"}]
  /\ httpServers \in Nat
  /\ accepts \in 0 .. MaxAccepts

ResetPending(p) == In(ConnectionReset(p), bus) \/ In(ConnectionReset(p), queue)

(* An element that has a connection is in elements_table_ under it, so     *)
(* that the reset of that connection, when it comes, finds the element -   *)
(* however many connections it had before, and whoever had that address.   *)
ConnectedIsRegistered ==
  \A e \in Elements :
    proto[e] # None => proto[e] \in DOMAIN table /\ table[proto[e]] = e

(* No two elements ever send on the same connection, although addresses of *)
(* destroyed protocols are reused while events that name them are queued.  *)
NoSharedConnection ==
  \A d, e \in Elements : proto[d] = proto[e] /\ proto[d] # None => d = e

(* A ConnectionReset still queued for the connection an element uses is    *)
(* about that connection, never about an earlier one at its address.       *)
ResetNamesDeadConnection ==
  \A e \in Elements, p \in Protos :
    proto[e] = p /\ ResetPending(p) => conn[p] = "down"

(* A connected forwarding element has been sent every route the control    *)
(* element knows, those learnt before it connected included.               *)
RoutesReplayed ==
  \A e \in Elements \cap Forwarders :
    proto[e] # None => \A r \in routes : sent[e][r] > 0

(* What the control element holds of its elements is consistent at every   *)
(* step: the table, the connections in use, the resets that are still      *)
(* queued and the routes that were sent.                                   *)
ElementsConsistent ==
  /\ ConnectedIsRegistered
  /\ NoSharedConnection
  /\ ResetNamesDeadConnection
  /\ RoutesReplayed

(* What the LCP tasks were last told of an element agrees with its state:  *)
(* no element stays announced as active after it lost its connection.      *)
AnnouncedAreConnected ==
  \A e \in Elements : announced[e] = "active" => Connected(e)

(* As long as start_lcp has launched one LCP, one web server is started.   *)
SingleLcpSingleServer == Len(lcp) <= 1 => httpServers <= 1

(* An element loses a live connection only to the entry of another,        *)
(* earlier connection of its own that elements_table_ still holds.         *)
LiveDropOnlyByStaleEntry ==
  [][\A e \in Elements, p \in Protos :
       proto[e] = p /\ conn[p] = "up" /\ proto'[e] = None
         => \E q \in DOMAIN table \ {p} : table[q] = e]_vars

(* Once every element stays connected, an LCP gets started.                *)
CompleteStartsLcp ==
  <>[](\A e \in Elements : Connected(e)) => <>lcpStarted

(* The loss of the connection an element uses, once reported, is acted on. *)
ResetIsServed ==
  \A e \in Elements, p \in Protos :
    proto[e] = p /\ ResetPending(p) ~> proto[e] # p

(* The abstract registry: who owns which connection, what it was told.     *)
Registry == INSTANCE ElementRegistry WITH
              owner <- proto,
              told  <- [e \in Elements |-> {r \in Routes : sent[e][r] > 0}]

(* Setup, dispatch and the handlers together implement a registry in which *)
(* a connection is attached, with all the known routes, in one step.       *)
ImplementsRegistry == Registry!Spec

=============================================================================
