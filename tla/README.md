# DROP in TLA+

A verification project for DROP, the Distributed SW ROuter Project: a router
made of one *control element* (CE), which runs the routing protocols, and of
*service elements* (SE), which forward packets, connect the boxes, or are
OpenFlow switches. The energy they use is managed through the Green Abstraction
Layer (GAL) by *local control policies* (LCP). The modules here model the
threads, queues and tables of both programs, TLC checks them on small instances,
and TLAPS proves the main results for every instance.

Paths below are relative to `src/src/`.

## Running

    tlc -config MCControlElement_connections.cfg MCControlElement.tla
    tlc -config MCHttp_http.cfg MCHttp.tla
    tlapm ControlElement_proofs.tla

Every `MC<Name>_<run>.cfg` is a configuration of `MC<Name>.tla`, which is about one
component, or two or three that share no state (see below). The runs,
the properties of each, the altered definitions that each property detects, and
the source lines of every definition are listed in `PROJECT.json`. Operators
named `..Variant` are such altered definitions: a mistake the code could have
made. No model uses them.

## Inventory

### How the parts interact

Every process has one `tnt::Application`: a FIFO of events and a dispatcher
thread that hands each event to the callbacks subscribed to its type (and,
optionally, to its source). An *activity* (`ConcurrentActivity`) is a thread
with a queue of closures; its subscriptions queue one closure per event, and
`wait_event` runs them one at a time. An event nobody takes starts an *auto
activity* registered for it, if there is one. Connections are `AsyncProtocol`
objects with a tx and an rx thread; what the rx thread reads becomes events.
Nothing is persisted, so there is no recovery from a crash: state is rebuilt by
reconnecting.

| Part | State it keeps | Operations | Hard behaviour | What makes it correct |
|---|---|---|---|---|
| Event bus, activities (`framework/common/application.*`, `framework/activity/concurrent_activity.*`) | `events_`, `subscribers_`, `handlers_` of each activity | raise, subscribe, unsubscribe, dispatch, wait_event | an event between two registrations is lost; callbacks run under the lock; shutdown races | events reach the subscribed activities in order; nothing is delivered to what is gone |
| Connection protocol (`framework/protocol/async_protocol.*`) | `running_`, `messages_`, promises, two threads, the socket | start, send, stop, destruction, tx and rx loop | send races stop; stop races itself; destruction joins threads that may be blocked | futures are honest and always answered; messages leave in order; own stop is no loss; the destructor ends |
| CE: connections (`ce/activity/detail/control_element_impl*`, `ce/activity/network/discover_*`, `setup_service_element`, `ce/network/service_element`) | elements and their protocol and services, `elements_table_`, `routes_`, LCP state | discovery, setup with a timeout, connect, reset, routes, start of the LCP | reordering between two queues, reused addresses, reconnection before the reset, routes during a setup | element and table agree; nobody loses a live connection but by its own stale entry; every forwarder has every route |
| CE: LCP (`ce/activity/gal/ce_lcp.*`, `se_lcp.*`, `lib/event/functional_request.hpp`) | provisioned, committed, default power states of device and interfaces; histories; sensors; promises of requests | provisioning, commit, rollback, release, monitor, discovery | several elements, one of which fails; requests that nobody serves, or two serve | device and elements agree; every request is answered |
| CE: GAL over HTTP (`ce/service/gal_rest`, `lib/activity/http/gal_controller`) | one connection and one promise per call | discovery, monitoring, provisioning, release, commit, rollback | calls of several threads; answers without a source; connections dropped after the request | each call gets its own answer and returns; nobody writes into a frame that is gone |
| HTTP server (`framework/activity/http`, `lib/protocol/http`) | text read so far, messages to write, the loop of a connection | parse, answer, close | the stream is cut anywhere; two threads at the end of a connection | every request is one message and has one answer, which is written |
| CE: demo policy (`shared/ce/lcp/demo`, `lib/activity/gal/lcp_sync`) | `current_slot_`, `flows_`, the element in use | SlotChange, Active, Disconnected, change_slot, add_flows | lost, repeated, late datagrams; connections that come and go between two flows | each connection gets the flows of consecutive slots once; the element in use has all of them |
| CE: services (`ce/service/*`) | references to their element | add, remove of routes and flows | the element may have lost its connection | what is sent is what the service says |
| SE: forwarding (`lib/util/lookup_table`, `se/activity/network/forward`, `se/util/*_interface_lib`) | route table, two lookup tables, `read_`/`write_` | add, del, update with swap and sleep, lookup | lookups without locks during updates | no write under a reader; tables agree; what is served follows the routes |
| SE: connection (`se/activity/network/connect_control_element`, `setup_control_element`, `restart_connection`) | the protocol, the CE | connect with retries, introduce, wait for the Ack, restart | an Ack that does not come; a reset during the setup; a CeConnected that comes late | both ends come to hold one connection |
| SE: power profiles (`shared/se/lcp/demo`, `se/activity/gal/service_element_lcp`) | `current_slot_`, `active_cores_`, provisioned and committed profile | provisioning, commit, rollback, release, change_slot | two threads, no lock; slots without an entry | the cores in use are those of the profile and the slot, and what the sensor says |
| Pool, barrier, scheduler, active object (`framework/common`) | counters, queues | get/put, wait, schedule, exec | lost wake-ups, limits | nobody waits for ever; every event runs when due |
| Wire formats (`lib/protocol`, `*/protocol`), JSON (`ce/activity/http`), ACPI (`lib/gal_drop`) | none to speak of | conversions, I/O | malformed input | encode and decode agree |
| Web pages (`ce/html/Scripts`: `main.js`, `FE.js`, `tree.js`) | what is drawn: the tree of the GAL page, the chart and the elements of the first page | polls by a timer, mouse events, resizing | answers that overtake each other or fail; callbacks that throw | the page shows the state of the router in the end |
| Bridge, kernel modules, quagga stubs, samples, vendored code | of their own | | | outside the two programs |

The hazards of all of these, at their lines, are in `PROJECT.json`.

## Plan

| | Module | Abstract specification | Models | State |
|---|---|---|---|---|
| 1 | `ControlElement` | `ElementRegistry` | CE connection management | checked, safety proved |
| 2 | `AsyncProtocol` | `Outbox` | one connection | checked, safety and implementation proved |
| 3 | `LookupTable` | `ForwardingTable` | SE forwarding | checked and proved |
| 4 | `SlotFlows` | | CE demo policy and slot synchronisation | checked, safety proved |
| 5 | `PowerProfile` | | SE demo policy and LCP, two threads | checked, safety proved |
| 6 | `PowerStates` | | CE LCP: power states of the device and its elements | checked, safety proved |
| 7 | `EventBus` | | Application: subscription, delivery, shutdown, auto activities | checked, safety proved |
| 8 | `GalTree` | | the GAL page | checked, safety proved |
| 9 | `IndexPage` | | the first page, and the answers it polls | checked, safety proved |
| 10 | `Handshake` | | SE side of the connection, with the CE side for one element | checked, safety proved |
| 11 | `HttpExchange` | | a connection of the HTTP server | checked, safety proved |
| 12 | `GalCalls` | | calls of GalRest by several threads | checked, safety proved |
| 13 | `GalRequests` | | FunctionalRequest between web server, LCPs and CE | checked, safety proved |

Two parts of an earlier plan are dropped: pool, barrier, scheduler and active
object are used by neither program, and the graphs page repeats the chart of the
first page.

Every safety property of every run is proved; the modules with the proofs are

| Proofs | extends | about |
|---|---|---|
| `ControlElement_proofs` | `ControlElement` | `ControlElement` |
| `EventBus_proofs` | `EventBus` | `EventBus` |
| `Connection_proofs` | `MCConnection` | `AsyncProtocol`, `Handshake` |
| `Forwarding_proofs` | `MCForwarding` | `LookupTable`, `SlotFlows` |
| `Power_proofs` | `MCPower` | `PowerProfile`, `PowerStates` |
| `Http_proofs` | `MCHttp` | `HttpExchange`, `IndexPage`, `GalCalls` |
| `Gal_proofs` | `MCGal` | `GalRequests`, `GalTree` |

## What is modelled

### ControlElement

| Variable | Code |
|---|---|
| `phase` | how far `ControlElementImpl::operator()` is: discovery started, listeners registered, serving |
| `conn`, `peer`, `hello` | a protocol object (by address), who is at the other end, whether its ServiceElementData is still to come |
| `setup`, `inbox` | the `SetupServiceElement` activity of a connection and its handler queue |
| `bus`, `queue` | `Application::events_`, and `handlers_` of the ControlElement activity |
| `proto`, `services` | `ServiceElement::proto_` and the number of forwarding services in `services_` |
| `table`, `routes` | `elements_table_`, `routes_` |
| `sent` | how many times each route was sent on the present connection |
| `lcp`, `lcpStarted`, `announced`, `httpServers` | the LCP activities launched, `lcp_started_`, what the LCP tasks were last told, the web servers started |

One action per step of a thread that others can see: the rx thread of a
connection (`ReceiveData`, `ReceiveReset`), its setup (`SetupStart` ..
`SetupLeave`, `SetupTimeout`), the dispatcher (`Dispatch..`), each handler of the
control element as a whole, and the LCP (`Lcp..`).

A protocol lives as long as something refers to it: its setup activity, an
element, or a queued ServiceElementConnected. `Reap` frees it in the step that
drops the last reference, after which `Accept` may use its address again - the
table and queued ConnectionReset events hold plain pointers and do not keep it.

Left out: port status changes, multicast flows and the interface bookkeeping of
the other listeners; `remove` of routes, which has its body commented out;
static services of the configuration file (`services` begins at 0). Routes are
pairwise different in the sense of RouteInfo's `operator==`, which compares
neither prefixes nor unset ports. A route that has no gateway is sent by
KernelForwarding and dropped by UserspaceForwarding; `Routes` are those sent.

`ElementRegistry` says what the whole amounts to: an element gets, in one step, a
connection nobody else has, with every route known; it is detached; a route is
learnt by everybody at once. The mapping takes `proto` for the owner and forgets
how often a route was sent.

### AsyncProtocol

One object with senders, tx thread, rx thread, `stop()` called both by the
dispatcher (event Quit) and by the destructor, and the destruction of the members
in the order the language prescribes. Critical sections of the queue are single
steps; every look at `running_` is a step of its own. The peer may go away at any
time; writing to a socket whose peer has gone may fail or not. What parsing
raises is left to the modules of the concrete protocols.

`Outbox` is the abstract specification: a queue whose head leaves or fails.

### LookupTable

`AddUserspaceRoute` and `DelRoute` of the Forward activity up to `update()`; the
four steps of `update()`; lookups by forwarding threads, that hold a reference to
a node until the packet is rewritten. The CE sends the routes that have a
gateway; it never sends DelRoute (the call is commented out), which the SE
handles nevertheless, as the model does.

The table keeps what the code does with networks: the route is in the route table
before `add_net` asks for a longer or equal prefix, so `AddEntries` is empty for a
network and only host routes get entries.

`del` takes a prefix of at most 1, which `add` refuses by its assertion: the number of
addresses overflows an `int`, the vector for them cannot be reserved, and the exception
ends the thread of Forward, which then waits for ever to join its forwarding threads
(`DelFails`, after which `writer` is "stuck"; the lookups go on in the tables as they are).

Timing: `Sleep` ends only when no thread is in the table about to be written.
That is what the 500 ms of `update()` are there for; the model takes them to be
enough. Without that, NoWriteUnderReader fails (one of the recorded variants).

`ForwardingTable` is the abstract specification: a table that changes at once and
lookups that are a single read of it.

### SlotFlows

LCPSync with its `prev`, the queue of the DemoLCP thread, its handlers, and the
loops of `change_slot` and `add_flows` one flow at a time, since 20 ms pass
between two flows and connections change meanwhile. `ServiceElement::send` drops
what it cannot send. The assertion of `change_slot` ends the program (`Abort`);
neither build file defines NDEBUG.

An element may connect again before the reset of its connection is served, as in
`ControlElement`: `connect_service_element` replaces the connection without an event.
`stale[e]` counts the earlier connections that `elements_table_` still leads to e, and
`LateReset` is the reset of one of them, which drops whatever connection e has then
and tells DemoLCP of a loss. In between DemoLCP is idle and uses a connection that
has none of the earlier flows. `FlowsComplete` therefore excuses an element whose
loss is still to be served (`stale`) or handled (`queue`), and no other: that the late
reset ends this state is what it says.

### Handshake

The connection seen from both ends: `ConnectControlElement`, `SetupControlElement`,
`RestartConnection` and `CeConnected` of a service element; setup, table and resets
of the control element for that one element. Keys of `elements_table_` are not
reused here (`ControlElement` does that), and the queue of the ServiceElement
activity is merged with the dispatcher's, which fills it in the same order.

`ConnectControlElement` tries until it is connected, as it does with `connection.attempts`
at 0, the value of every configuration of the repository. The limit that another value
sets is not modelled: an element that has given up would be one more way of staying
unconnected.

A fault is a broken link, a crash of the control element with its restart, or a
timeout of its setup. `RestartConnection` looks at nothing of its event, so the reset
of an HTTP connection whose `HttpConnection` has ended also starts one (`strays`). Two
connections then may replace each other for ever: each `CeConnected` drops the one
before, whose reset makes the next. `Settles` therefore speaks of behaviours without
strays, and names the two ways in which an element stays unconnected (`lapses`).

### EventBus

`raise` from any thread, subscription and unsubscription under the lock that the
dispatcher holds while callbacks run, the dispatcher callback by callback, the queues
of the activities, an activity made from an event nobody took, and shutdown. The
handler of a signal is one more thread that raises Quit. What a callback on a
destroyed object does has no outcome to enumerate: the model records the call in
`stale`, and `StaleOnlyAtQuit` says when it can happen. The activity made from an event
copies it in its own thread, perhaps after the dispatcher has destroyed it: `AutoRead`
has that read ("stale"), which no property forbids.

`subscribers[t]` is the sequence of subscriptions to the type t, in the order in which
the dispatcher calls them, and `turn` the event of the present turn with the next
callback. `tokens` and `erased` count the subscriptions an activity has made and, in
its destructor, removed. `HandlersAssumption` says that no activity registers two
handlers for one type, which is so for all of the repository.

### PowerProfile and PowerStates

`PowerProfile` is one service element: the thread of `ServiceElementLCP` serves
requests and passes them to DemoLCP, whose own thread changes the slot. The two
share `current_slot_` and `committed_profile_` without a lock; each of their accesses
that the other can fall between is a step. `Forward` applies the core changes in
the order they were raised. `fault` stands for the end iterator that `change_slot` may
use and for the remainder by 0 of `Forward`.

Two things are recorded rather than caught. `CoresFollowProfile` speaks of behaviours in
which `change_slot` and `commit` never overlap (`overlapped`): once they do, cores of one
profile may be in use for another until the next change. `SensorTellsCores` excepts the
cores that `commit` chose last (`setter`), which it does not tell the sensor of. Both say
that nothing else puts cores, sensor and profile apart.

`PowerStates` is the device with several elements: a request for the device goes to
every element in turn, over HTTP, on a connection that is dropped after the request.
Requests are lost, overtake each other, or fail half way through the loop. The
requests of the device are those any user of the events can make, although over HTTP
only a provisioning gets through. `cause` records why an element may differ from the
device, and is emptied when the device is provisioned. The states of interfaces are
maps of their own that no element sees.

### GalRequests and GalCalls

`GalRequests` has the three kinds of threads that wait for one another inside the
control element, each for a promise and without a timeout:

- connections of the web server, for an LCP (`GSIRequest`) or for the control element
  (routes, service elements, and the interfaces of the GAL page);
- an LCP, for the control element, when it starts and for the discovery of the device
  (`ce_lcp.cpp:196-222`);
- the control element, for an LCP: the closure of `JsonController::gal_interfaces` runs on
  its thread (`control_element_impl_listeners.cpp:121-125`) and calls `gsi.discovery` for
  every interface (`ce/activity/http/json_controller.cpp:787`). `CeServe` takes the request,
  `CeAsk` asks about one interface, `CeNotify` answers when none is left.

The last two close a circle: the control element serves the interfaces of one
connection while an LCP executes the discovery of another. `Deadlocked` says that
the control element waits for an LCP and none that has its request moves any more;
`DeadlockTakesTwo`, that before Quit this is the only way in which it comes about.

`start_lcp` may have launched two LCPs, and each executes every GSIRequest. The requests
of the LCP's constructor and start count as one, an LCP registers both its handlers
in one step, and the service elements are taken to answer. The second execution of
a request finds its promise set: the exception ends that LCP, which never returns
from joining its threads.

`GalCalls` has the threads of the control element that call its service elements.
An answer arrives as an event without a source and so at every call that waits; a
promise that is set again throws out of the dispatcher, which ends the program. The
data race on the out-parameters of two callbacks is not modelled, a refused
connection has no effect, and the two answers to a DELETE count as one.

### HttpExchange

A client, the protocol object that cuts the stream into messages, the connection
with its controllers, and the writing thread. A message is all that was read once it
is complete; a client asks again only when it has an answer. `Kinds` are the ways
in which the controllers answer: a DELETE twice, an unknown method never. The
properties about answers therefore excuse what follows such a request (`Odd`): the
text "REST API for the GAL" says (page 4) that in all cases an error code or a
document is returned, which `lib/activity/http/gal_controller.cpp:295` (a case
without a break) and line 302 (a catch that only logs) do not hold to.

### GalTree and IndexPage

The two pages that keep state in the browser. A callback runs to its end or to the
exception that ends it. `GalTree` builds the tree of `tree.js` from complete and
incomplete answers, with ids as sequences of their parts, and then lets the mouse
move over boxes and labels, click, and the window change its width, which is always
more than a box. `strayed` records why colours need not follow the pointer. `Bare` are the
ids of cores and cpus, whose nodes are built without states (`tree.js:531`, 539):
`NodeSelect` throws on every click on one of them (`tree.js:346`), after the node has become
the selected one and the old one has lost its outline, and before the new one gets it.
`failed` is the node the last click threw on, `outlined` what has a red outline;
`ThrowsKnown` says which callbacks throw, `OutlineMarksSelected` what the outlines tell.
`TreefindById` looks in the layer of logical resources for ids that begin with 1 only,
which none does, so that the root lights up in place of a logical resource
(`strayed`, "notFound"), although `tree.js:10-15` makes layer 0 theirs. Answers whose
ids do not begin with "0", as those of GalFile with `config/xlp/gal.xml` (its cores are
"Core0"), or with an id twice (elements that share a host) are not modelled.

`IndexPage` has the answers of `JsonController` as well: elements and samples change
while a request is served, a timer polls without waiting, answers overtake each
other, sensors and requests fail.

## What the runs check

TLC checks each of these runs to its end. A module such as `MCHttp` puts components
side by side that share no state: its variable `part` says which of them a behaviour
is about, and the others keep their initial values, so that the states of the run are
the sum of the components' and not their product. Such a module extends its components,
the second and third of which name their operators after themselves: `SlotsInit`,
`StatesNext`, `PeersSpec`, `PageTypeOK`, `CallsSpec`, `TreeInit` are what is `Init`, `Next`,
`Spec` and `TypeOK` elsewhere. The fairness of a component holds in its own part only.

Several properties of a run are conjunctions of statements that go together, each
defined and explained on its own in its module, so that a counterexample shows which
one fails: `ElementsConsistent`, `StopsHonestly`, `ConnectionsSound`, `TablesServe`,
`FlowsInOrder`, `CallbacksAlive`, `EventsDelivered`, `ProfileInForce`,
`ElementsFollowDevice`, `OneServes`, `NobodyWaitsForEver`, `TreeDrawn`,
`ExchangeInStep`, `AnswersArrive`, `ChartSound`, `PageConverges`, `AnswersKnown`.
`PartsTypeOK` joins the type invariants of the components of a run, and
`PartsSlotReached`, `PartsSettles`, `PartsPageConverges` and `PartsAnsweredReturns` say
`SlotReached`, `Settles`, `PageConverges` and `AnsweredReturns` of the behaviours in which
the component they are about runs. Each part of a
conjunction has an altered definition of its own that breaks it.

| Run | Bounds | Shows |
|---|---|---|
| `ce_connections` | 3 elements, one of them always connected; 2 that connect and one that is refused; one forwards; 2 addresses, 2 connections, 1 route | table, elements and queued events agree through reconnection and reuse of an address; replay and new routes leave no gap; implements `ElementRegistry`. Two connections over two addresses are the fewest that replace each other and reuse one |
| `ce_lcp` | 2 elements that connect twice | what the LCP tasks were told; one LCP, one web server; the LCP starts; a reported loss is acted on |
| `connection` | `AsyncProtocol`: 3 messages, the fewest with one being written, one queued and one being sent. `Handshake`: 5 connections and a fault, or 4 connections and an HTTP call | futures, resets, the destructor ends; implements `Outbox`. Both ends come to hold one connection, a fault costs at most three (so that 5 are one more than can be needed) |
| `forwarding` | `LookupTable`: 4 bit addresses, routes of lengths 4, 4, 3, 2, 0 and one without gateway, 2 next hops, 1 thread. `SlotFlows`: 4 slots of which 2 have flows, 2 elements, 2 connections each, 2 queued events | the table under lookups; implements `ForwardingTable`. Flows are consecutive and complete, every slot let through is reached. Two host routes inside two nested networks distinguish the cases of `del_net`; with flows for slots 2 and 3 one can be left out, repeated or sent too early, and slots 1 and 4 have none; two connections are enough for one to replace the other before its reset |
| `bus` | 2 activities, one of which may end on its own, 1 protocol, 2 events | what the callbacks and queues may count on; Quit ends all |
| `power` | `PowerProfile`: 3 profiles over 4 slots (two changes; a command; nothing), 2 requests, 1 queued slot. `PowerStates`: 2 elements, 2 states, 2 requests | cores, sensor and states of an element under two threads; the states of the device and its elements under lost, late and failed requests |
| `gal` | `GalRequests`: 2 connections and 1 LCP, or 1 connection and 2 LCPs (`Sparse`); 2 requests, 1 interface. `GalTree`: 5 answers, of which one is complete, 5 widths | who survives two LCPs, in whose frame they write, who is answered, and that the control element and an LCP lock each other in one way only; the tree, its colours, its outlines and what throws. Two connections and an LCP are the fewest that lock; what two LCPs do to each other takes one connection |
| `http` | `HttpExchange`: 3 requests of 4 kinds, bodies of 0 and 1. `IndexPage`: 1 element, 3 samples, charts of 2 points and one to shift, 2 requests under way. `GalCalls`: 2 threads, 2 calls | messages and answers; chart and elements of the page; whose answer a call gets, and that it returns |
| `forwarding_default`, `forwarding_last`, `power_commit`, `gal_waits` | as the runs above | one disagreement each, see below |

`MaxAccepts`, `MaxQueue`, `MaxSessions`, `MaxRaises`, `MaxRequests`, `MaxWeb`, `MaxCalls`,
`MaxAsked`, `MaxTime`, `MaxOpen` and the members of `Bounds` are the bounds that are not in
the code; a route is not reported again while its last report is queued, which bounds
the queues of `ControlElement`. Safety does not depend on the sizes,
since it is proved for all. Larger instances were explored
without an error: 3 connections of `ControlElement` (1.4 million states),
3 queued events of `SlotFlows` (0.8 million), 5 slots of which 3 have flows (0.8 million,
with the tables), 3 raised events of `EventBus` (2.8 million),
2 faults with 7 connections and 2 HTTP calls of `Handshake`, 3 threads with 3 calls
and 2 with 4 of `GalCalls` (12.9 million), and, for the
invariants of `GalRequests`, 2 connections with 2 LCPs (0.7 million) and 3 requests with one
(0.1 million), 3 requests of
`PowerProfile` and `PowerStates` (3 million),
all 6 kinds of request of `HttpExchange` (0.8 million). Symmetry is used for
the addresses of protocols only, and not where liveness is checked. Deadlock is not
checked: a control element without peers, a destroyed protocol, an application that
has quit and an aborted program have nothing to do.

Four runs end in a violation, on purpose:

- `forwarding_default`: `lib/util/lookup_table.cpp:68` asserts a prefix longer
  than 1 of its callers; no step from the kernel to `add()` keeps a default route
  with a gateway away.
- `forwarding_last`: `shared/ce/lcp/demo/demo_lcp.cpp:457` asserts `num < num_slots`;
  LCPSync, with the same number of slots, lets `num_slots` through.
- `power_commit`: `lib/activity/http/gal_controller.cpp:484` looks for the operation of a
  POST in the name of the document node, which has none, so that the commit of
  "REST API for the GAL", 3.5, reaches no element while the device reports success.
- `gal_waits`: `ce/activity/http/json_controller.cpp:787` asks an LCP about an interface on
  the thread of the control element, and waits there. Asked at the same time to
  discover the device, the LCP waits for the control element: neither connection is
  answered, though "REST API for the GAL", page 4, says that in all cases an error code
  or a document is returned. Nothing but the deadlock is to blame: without it the
  requests are answered until Quit (`WebAnswered`, of the run `gal`).

Behaviour that the models show and that no text of the repository speaks about: an
element attached to a connection that was reset before; the Ack to an element that is
refused; the introduction that arrives before its handler, or before the listeners of
the control element; services that pile up with each reconnection; switches that are
not announced again after they reconnect, or are in use without their flows until
a late reset; several web servers when several LCPs are launched; clicks on cores
and cpus, which throw; a page opened before the first sample, which never draws any.

### Fairness

`ControlElement`: every thread of the process is scheduled (boot, dispatcher,
handlers, the setups, the LCPs). Nothing is assumed of the peers, the kernel or
the timers: `SetupTimeout` is not fair. `AsyncProtocol`: its own threads and the
two callers of stop() run; a write to an open socket may block for ever, one to a
socket that stop() has closed returns; senders, peer, Quit and Destroy are not
fair. `SlotFlows`: the thread of DemoLCP runs; nothing is assumed of datagrams or
connections. `Handshake`: the threads of both programs run and the control element is
started again after a crash; timeouts and faults are not fair. `EventBus`: the
dispatcher and the activities run. `GalRequests`: all threads run (dispatcher, LCPs, the
control element, and connections whose promise is set); what the control element does
for the first requests of an LCP returns, which is so if the service elements answer.
New requests, launches and Quit are not fair. `GalCalls`:
the dispatcher, the callers and the rx threads run; the service elements owe nothing.
`HttpExchange`: the threads of the server run; the client reads what arrives and sees
the end of the connection. `IndexPage`: the timer, the sampling and the server go on,
every request ends, be it with an error; strong fairness says that an answer with the
newest sample is given, and arrives, again and again, since a sensor or a network
that always fails shows nothing on any page.

## What is proved

`ControlElement_proofs`, for any sets of elements, peers, routes and addresses,
from the assumptions of `ControlElement` alone (`None` is not an address; forced
elements are elements):

- `TypeCorrect`.
- `ConnectedRegistered`, `ConnectionsNotShared`, `ResetsNameDeadConnections`,
  `LiveDrops` from the invariant `ConnInv`. None of these is inductive: whether an
  entry of the table is the right one depends on events that are still in one of
  the two queues, possibly about an earlier protocol of the same address.
  `ConnInv` adds that a setup raises one ServiceElementConnected and no element has
  the protocol before that is served (`OneAnnouncement`), that a free address has
  no references (`FreeIsUnreferenced`), and that a queued reset of an address whose
  present protocol is up comes before anything about that protocol
  (`ResetsAreOld`) - the FIFO order of both queues is what the argument needs.
- `AllRoutesReplayed`, `AnnouncedConnected` from `RouteInv`, which adds that a
  connected forwarding element has a forwarding service and that nothing counts as
  sent without a connection.
- `ElementsAreConsistent`: `ElementsConsistent`, from the four theorems about its
  parts.
- `OneLcpOneServer`: `SingleLcpSingleServer`. As long as one LCP has been launched there is
  one news of its start, which the invariant follows (`OneNews`): LCPTaskStarted on the
  bus, then noted by the LCP, then LCPStarted on the bus, then in the queue of the control
  element, whose handler starts the web server.
- `RegistryImplemented`: every step is a step of `ElementRegistry` or none.

`Forwarding_proofs`, of `LookupTable`, for every width, set of routes, of next hops and of
forwarding threads, from `RouteAssumption` (destinations have their host bits
cleared, as the kernel reports them), `PacketAssumption` and `NoneAssumption`:

- `TypeCorrect`, `WriterApart`, `UpdatesKept` from `TableInv`: at each step of
  `update()` the tables differ by exactly the change under way, and outside the
  sleep no thread is in the table to be written.
- `HostsServed`, `NothingUnrouted` from `ServiceInv`, which states both of the table
  as it will be when the update under way is over; they rest on lemmas about
  `route_prefix`: it is the longest prefix, a host route is covered by itself at
  full length, and a fall back is a next hop or none.
- `TablesAlwaysServe`: `TablesServe`, from the four theorems about its parts.
- `TableImplemented`: the swap is the only step that changes the abstract table.

`Connection_proofs`, of `AsyncProtocol`, for every set of messages, from `StopAssumption` (the message
by which `stop()` wakes the tx thread is none of theirs):

- `ProtocolTypeCorrect`.
- `StopIsHonest`: `StopsHonestly`. The program counters of `stop()` and of the two loops
  say nothing about a message by themselves, so the invariant says of each message
  where it is (`WhereItIs`: with its sender, in the queue once, being written, or
  answered), and of `stop()` what each of its steps has left behind (`StopInv`).
- `OutboxImplemented`: every step is a step of `Outbox` or none, under the same invariant,
  which makes the answer given by the tx thread the one of the head of the queue.

`Connection_proofs`, of `Handshake`, for any number of connections, HTTP calls and faults,
from `HandshakeAssumption` (finitely many of the first two; connections are numbered):

- `PeersTypeCorrect`.
- `ConnectionsAreSound`: `ConnectionsSound`, that the service element has one attempt or
  one connection at a time, and that a fault costs at most three connections. Neither is
  inductive. The first counts what can become a connection: an attempt, a reset on its
  way to `RestartConnection`, and a connection without one are one in all, but for the
  strays (`CountInv`), each of which an HTTP connection has made (`StrayInv`). The second
  gives each fault three places: the connections that are lost to the service element
  though their loss may not be known (`Doomed`), the broken ones that a
  ServiceElementConnected under way may still attach (`Late`), and those whose reset may
  still take the table entry of the element (`Pending`) - their numbers together never
  exceed three for each fault (`CostInv`). A step that moves a connection from one of these
  sets into another leaves the sum; that a step other than a fault adds none rests on
  `CountInv`, by which two connections without a reset are one (`UntoldAreOne`), and on
  what each end can have reported (`EndsInv`, `BrokenInv`).

`EventBus_proofs`, for any activities, handlers, protocols, types and events, from
`BusAssumption` and `HandlersAssumption`:

- `BusTypeCorrect`. That the next callback is one of the row rests on `SubscriptionInv`,
  which relates the rows of `subscribers_` to the tokens of each activity in both
  directions, and on the lock, which keeps the row as it is during a turn.
- `CallbacksReachTheLiving`: `CallbacksAlive`, from `SubscriptionInv`, `TurnInv` (after
  `running_` is false the turn is that of Quit) and `StaleInv` (what was called late was
  subscribed after the dispatcher).
- `EventsReachTheirActivities`: `EventsDelivered`. Not inductive, since an event is
  delivered to one activity after the other; `NothingMissed` excepts the event of the
  present turn while the callback of the activity is still ahead in the row, and
  `TakenInv` and `AutosInv` keep what has been taken in the order of the raises.

`Forwarding_proofs`, of `SlotFlows`, for any slots, slots with a flow and elements, from `SlotAssumption`:

- `SlotsTypeCorrect`: no slot beyond the last.
- `SwitchHasItsFlows`: `FlowsInOrder`, for elements that reconnect at any time, before the
  reset of their connection is served too. `SentInv` says what an element has been sent in the
  middle of a loop, during which its connection may have been lost and made again;
  `QueueInv`, that an element is announced once, and before any loss of the connection
  it was announced with; `Pending`, that a loss is still to be served or handled, which
  `Connect` makes true of an element in use that loses its flows. Runs of consecutive
  flows are described by their ends (`IsFlows`), so that no induction is needed.

`Power_proofs`, of `PowerProfile`, for every table of profiles, number of slots and order of the
threads, from `ProfileAssumption`:

- `ProfileTypeCorrect`.
- `ProfileStaysInForce`: `ProfileInForce`. Neither thread holds a lock, so that the
  invariant speaks of what each has read and not yet used: `SlotInv` of the entry that
  `change_slot` or `commit` has found and of the cores it chose, with the changes that
  Forward has still to apply; `SensorInv` of the value about to be stored; `StatesInv` of
  the profiles and the power states they stand for.
- `EndIteratorNeedsEarlyCommit`: `EndIteratorOnlyAfterEarlyCommit`, from `FirstSlotInv`. The
  attempt to prove it showed that its hypothesis was too weak: a default profile whose
  slot 1 is a command leaves `current_slot_` at 0, and a later slot without an entry
  then uses the end iterator though nobody committed early. The property now speaks of
  profiles whose first slot has cores (`FirstSlotHasCores`), as demo.xml has.

`Power_proofs`, of `PowerStates`, for any number of elements, states and requests, from
`PowerAssumption`:

- `PowerTypeCorrect`.
- `DeviceIsFollowed`: `ElementsFollowDevice`. An element follows once all has arrived; the
  invariant says it of every state before (`HealInv`: for each element the loop has
  passed, the last provisioning of the device is on its way with none behind it, or has
  arrived and what is still to come is late or provisions nothing), and of an answer
  that is not a failure yet, whom it was told (`ToldInv`).

`Gal_proofs`, of `GalRequests`, for any connections of the web server, any number of LCPs and of
requests, from `RequestsAssumption` (finitely many LCPs; LCPs, connections and the control
element are different threads):

- `RequestsTypeCorrect`.
- `OneAlwaysServes`: `OneServes`. That one survives says nothing about which, and it changes:
  the invariant is that some LCP is ahead, with nothing to finish that another has
  finished (`AheadInv`). An LCP that finishes a request before the one ahead takes its
  place, because requests reach all LCPs in one order and who has to finish one has to
  finish all later ones (`OrderInv`, `SuffixInv`). That a request executed late needs
  two LCPs follows as well: its promise is set, so that the LCP is not the one ahead. For
  the deadlock the invariant says of every request without an answer that it is on the bus
  or with an LCP that comes to it before anything another has finished (`LeadInv`): if the
  control element waits for its request and that LCP does not move, it waits itself, for
  a discovery raised before by a connection that still waits, since nobody has answered it.

`Gal_proofs`, of `GalTree`, for any answers, widths and order of the events of the mouse,
from `TreeAssumption` (the ids of an answer differ, begin with "0" and have a second part;
the window is wider than a box; the root is no core or cpu):

- `TreeTypeCorrect`.
- `TreeIsDrawn`: `TreeDrawn`. `Shape` says of the tree after k ids what the list and the
  layers hold; `ShapeInit` and `ShapeStep` are the induction over k by which it holds of
  `Build(given)` (`TreeShape`). From it follow what parents and children the page finds for
  a node (`ParentIs`, `ChildIs`), and that in a tree without gaps both are there
  (`CompleteIs`). What throws, and what has an outline, is part of the invariant (`ThrowsKnown`,
  `OutlineMarksSelected`): with a layer of elements every search by an id ends at a node of
  the tree, so that a click throws on nodes of `Bare` only. The boxes rest on `SameRow`:
  numbers with the same remainder are at least
  the divisor apart. A first form of the property, that an id with a parent *in the answer*
  is placed, could not be proved, since it is false: the parent may be one that addNode
  has dropped, and an interface can have the name of a host. The property now asks for a
  parent that is placed, in the layer above, and an answer of that kind is among those
  TLC checks.
- `LightFollows`: `LightFollowsPointer`, from `HoverInv`: the node under a box that is lit as
  it should be is found by its id, and neither its parent nor its children throw, so that
  leaving it unlights exactly what entering it lit.

`Http_proofs`, of `HttpExchange`, for any kinds of requests, lengths of bodies and number of
requests, from `ExchangeAssumption`:

- `ExchangeTypeCorrect`.
- `ExchangeStaysInStep`: `ExchangeInStep`. The stream is cut anywhere, so the invariant says
  what a message is: all requests but the last have been handled, each as a whole, and
  the last one is in parts between client and server, or waits as one message, or has
  been handled too (`MessagesInv`). That answers match requests needs a count besides
  (`StepInv`): while every request but the last has one answer, whatever flows back
  answers the last, and nothing does before that is handled.
- `AnswersAreWritten`: `NoAnswerDropped`, an action property. The connection stops only behind
  an answer that ends it, and waits for that one to be written (`DropInv`).

`Http_proofs`, of `IndexPage`, for any elements, history, chart and number of requests, from
`PageAssumption`:

- `PageTypeCorrect`.
- `ChartIsSound`: `ChartSound`. That the points are in the order of their samples is said of
  the answers under way too: what is drawn is in order, what is under way is in order,
  and the one comes before the other, as long as no answer has overtaken another
  (`OrderInv`).

`Http_proofs`, of `GalCalls`, for any callers and number of calls, from `CallsAssumption`:

- `CallsTypeCorrect`.
- `AnswersAreKnown`: `AnswersKnown`. Where a foreign answer may come from follows from where
  it can be: calls that are made at the same time have met (`MetInv`), a call is
  subscribed only in its own frame (`SubsInv`), and an answer is in the queue of events
  or has been given, never both (`AnswersInv`).
- `CallbacksStayInFrame`: `CallbackInItsFrame`, an action property, from `SubsInv`.

A run with several parts is about `PartsSpec`. The lemma `PartsBehave` (`GalPartsBehave` in
`Gal_proofs`) says that each part then behaves as its own specification says, so that the
theorems hold of the runs; `ConnectionPartsTyped`, `ForwardingPartsTyped`, `PowerPartsTyped`,
`HttpPartsTyped` and `GalPartsTyped` say it of `PartsTypeOK`.

Where a proof needs induction it is over natural numbers, by the least counterexample:
a set of naturals that is not empty has a least element (`LeastNumber`, `LeastOf`, from the
well-foundedness of < in the library). `GalTree` writes `Build` as a recursive function
for that reason; that such a function exists, with the values its equation gives it, is
proved in the same way (`BuiltExists`, `BuildIs`).

Model-checked only: liveness (`CompleteStartsLcp`, `ResetIsServed`, `DestructorEnds`,
`PartsSettles`, `PartsSlotReached`, `QuitEndsAll`, `NobodyWaitsForEver`, `AnswersArrive` but for
`NoAnswerDropped`, `PartsPageConverges`, `PartsAnsweredReturns`), which the proof system does
not reach, and the four properties that the code violates (among them `AlwaysAnswered`, whose
safety side, `DeadlockTakesTwo`, is proved). Before each proof TLC checked
the inductive invariant as an invariant of a small instance, of 60 thousand to 6 million
states.

## What is not modelled

See the components of `PROJECT.json`. Conversions (wire formats, JSON, URLs),
sensors and files carry no state the properties speak of; the bridge, the kernel
modules and the stubs are programs of their own. Pool, barrier, scheduler and active
object are classes of the framework that neither program uses.

Most of the JavaScript of the repository is vendored (Highcharts, jQuery, jqGrid and
their user interface widgets) and no part of this program's own logic. Of its own
pages, those modelled keep state between callbacks; `graphs.js` repeats the chart of
the first page, `of.js` and `ipfib.js` replace a table every five seconds by what the
answer holds, `IE.js` draws.

Left out of modelled components: the demo policy for the XLP hardware
(`shared/se/lcp/xlp_demo`), whose core changes follow the same slots; port status
changes, multicast flows and OpenFlow replies of the control element; the routes of
the service element, which `AddKernelRoute` does not keep.

Uses of memory after its life and data races on pointers have no set of outcomes to
choose from, and the models stop short of them: Quit on a destroyed protocol, the
members of `AsyncProtocol` that are destroyed before its threads are joined
(`async_protocol.hpp:122`), the race on `ServiceElement::proto_`
(`ce/network/service_element.cpp:90`), and `ActiveObject`, whose thread starts before
the queue it uses is constructed and is joined after that is destroyed.
`ce/activity/gal/ce_lcp.cpp:891`, where the rollback of the device has no return and
goes on to `ids[1]` of a vector of one element, is in `PowerStates` as `crashed` or an
error code.

Known and without a property, since no text says what should happen or a property
would restate a guard: `lib/router/route_info.cpp:84` (two routes that differ in their
prefix only are equal), `lib/util/lookup_table.cpp:172` (the addresses of a network
get no entry), and `se/activity/network/connect_control_element.cpp:64` (an activity
that retries for ever never serves Quit).
