----------------------------- MODULE Handshake -----------------------------
(***************************************************************************)
(* One service element and the control element, from the first connection  *)
(* through losses, restarts and timeouts.  On one side                     *)
(* ConnectControlElement, SetupControlElement, RestartConnection and the   *)
(* dispatcher of the service element, on the other SetupServiceElement and *)
(* the handlers of ControlElementImpl, which ControlElement models in      *)
(* full.  The HTTP connections of the service element raise the same       *)
(* ConnectionReset: one that no HttpConnection takes any more starts       *)
(* RestartConnection too.                                                  *)
(***************************************************************************)
EXTENDS Integers, Sequences, FiniteSets

CONSTANTS
  Conns,     \* 1..n, connections to the control element in the order they are made
  Calls,     \* HTTP calls to the service element, each on its own connection
  Bounds     \* bounds: how many connections, calls and faults (broken links, crashes
             \* and timeouts of the control element) a behaviour may have

ASSUME HandshakeAssumption ==
  /\ Conns # {} /\ IsFiniteSet(Conns) /\ Conns = 1..Cardinality(Conns)
  /\ IsFiniteSet(Calls)
  /\ Bounds \subseteq [conns : Conns, calls : Nat, faults : Nat]

VARIABLES
  connectors, \* ConnectControlElement activities that run
  se,         \* se[c]: the end of the service element
  bus,        \* events_ of the service element
  held,       \* ce_ of its ServiceElement activity
  http,       \* http[h]: the HttpConnection of a call
  ce,         \* ce[c]: the end of the control element
  ceUp,       \* the control element runs
  ceBus,      \* the events of its connections
  attached,   \* proto_ of its service element
  table,      \* the keys of elements_table_
  sent,       \* what was written to each connection: data or ack
  told,       \* <<end, c>>: its rx thread has raised ConnectionReset
  cut,        \* connections the network broke
  faults,     \* of them, and crashes and timeouts of the control element
  strays,     \* history: RestartConnections for an HTTP connection
  lapses,     \* history: why nobody connects again
  bound       \* the member of Bounds that holds, always the same

seVars == <<connectors, se, bus, held, http>>
ceVars == <<ce, ceUp, ceBus, attached, table>>
netVars == <<sent, told, cut, faults>>
history == <<strays, lapses>>
peersVars == <<seVars, ceVars, netVars, history>>

NoConn == 0

PeersInit ==
  /\ connectors = 1
  /\ se = [c \in Conns |-> "none"]
  /\ bus = <<>> /\ held = NoConn
  /\ http = [h \in Calls |-> "none"]
  /\ ce = [c \in Conns |-> "none"] /\ ceUp \in BOOLEAN
  /\ ceBus = <<>> /\ attached = NoConn /\ table = {}
  /\ sent = {} /\ told = {} /\ cut = {} /\ faults = 0
  /\ strays = 0 /\ lapses = {}
  /\ bound \in Bounds

Alive(end, c) == end[c] \notin {"none", "closed"}

(* shared_ptr: the last owner closes its end. *)
Closed(end, c) == IF c = NoConn THEN end ELSE [end EXCEPT ![c] = "closed"]

-----------------------------------------------------------------------------
(* ConnectControlElement: it tries until the control element listens, as   *)
(* it does with connection.attempts at 0, the value of every configuration *)
(* of the repository; with another value it gives up after that many.      *)

Connect(c) ==
  /\ connectors > 0 /\ ceUp /\ c <= bound.conns
  /\ se[c] = "none" /\ \A d \in Conns : d < c => se[d] # "none"
  /\ connectors' = connectors - 1
  /\ se' = [se EXCEPT ![c] = "starting"]
  /\ UNCHANGED <<bus, held, http, ceVars, netVars, history>>

(* SetupControlElement: the handler of the Ack, then ServiceElementData.   *)
SetupSend(c) ==
  /\ se[c] = "starting"
  /\ se' = [se EXCEPT ![c] = "waiting"]
  /\ sent' = sent \cup {<<"data", c>>}
  /\ UNCHANGED <<connectors, bus, held, http, ceVars, told, cut, faults, history>>

(* It connects anew by itself. *)
SetupTimeoutVariant(c) ==
  /\ se[c] = "waiting"
  /\ se' = Closed(se, c)
  /\ connectors' = connectors + 1
  /\ UNCHANGED <<bus, held, http, ceVars, netVars, history>>

SetupTimeout(c) ==
  /\ se[c] = "waiting"
  /\ se' = Closed(se, c)
  /\ lapses' = IF <<"se", c>> \in told THEN lapses ELSE lapses \cup {"timeout"}
  /\ UNCHANGED <<connectors, bus, held, http, ceVars, netVars, strays>>

(* wait_event_for returns: CeConnected owns the connection from here.      *)
SetupDone(c) ==
  /\ se[c] = "acked"
  /\ se' = [se EXCEPT ![c] = "raised"]
  /\ bus' = Append(bus, <<"CeConnected", c>>)
  /\ UNCHANGED <<connectors, held, http, ceVars, netVars, history>>

(* The rx thread reads the Ack, or finds the connection gone. *)
SeReadAck(c) ==
  /\ Alive(se, c) /\ <<"ack", c>> \in sent /\ <<"se", c>> \notin told
  /\ bus' = Append(bus, <<"Ack", c>>)
  /\ sent' = sent \ {<<"ack", c>>}
  /\ UNCHANGED <<connectors, se, held, http, ceVars, told, cut, faults, history>>

SeReset(c) ==
  /\ Alive(se, c) /\ (c \in cut \/ ce[c] = "closed") /\ <<"se", c>> \notin told
  /\ told' = told \cup {<<"se", c>>}
  /\ bus' = Append(bus, <<"Reset", c>>)
  /\ UNCHANGED <<connectors, se, held, http, ceVars, sent, cut, faults, history>>

-----------------------------------------------------------------------------
(* The dispatcher of the service element.  ServiceElement takes its events *)
(* in their order and touches nothing else: its queue is left out.         *)

(* RestartConnection asks nothing of the event it was made from. *)
Restarts == connectors' = connectors + 1

TakeAck(c) ==
  /\ se' = [se EXCEPT ![c] = IF @ = "waiting" THEN "acked" ELSE @]
  /\ UNCHANGED <<connectors, held, http, history>>

TakeCeConnected(c) ==
  /\ held' = c
  /\ se' = [Closed(se, held) EXCEPT ![c] = "held"]
  /\ lapses' = IF held > c THEN lapses \cup {"overtaken"} ELSE lapses
  /\ UNCHANGED <<connectors, http, strays>>

(* A reset of another connection than the one in use is passed over. *)
TakeResetVariant(c) ==
  /\ IF held \in {NoConn, c} THEN Restarts ELSE UNCHANGED connectors
  /\ UNCHANGED <<se, held, http, history>>

TakeReset(c) == Restarts /\ UNCHANGED <<se, held, http, history>>

TakeHttpReset(h) ==
  /\ IF http[h] = "gone"
     THEN Restarts /\ strays' = strays + 1 /\ UNCHANGED http
     ELSE /\ http' = [http EXCEPT ![h] = "closing"]
          /\ UNCHANGED <<connectors, strays>>
  /\ UNCHANGED <<se, held, lapses>>

Dispatch ==
  /\ bus # <<>>
  /\ bus' = Tail(bus)
  /\ LET kind == Head(bus)[1]
         of == Head(bus)[2]
     IN \/ kind = "Ack" /\ TakeAck(of)
        \/ kind = "CeConnected" /\ TakeCeConnected(of)
        \/ kind = "Reset" /\ TakeReset(of)
        \/ kind = "HttpReset" /\ TakeHttpReset(of)
  /\ UNCHANGED <<ceVars, netVars>>

-----------------------------------------------------------------------------
(* A call of GalRest: it asks for "Connection: Close" and closes its own   *)
(* end at once.  HttpConnection stops after the request or at the reset,   *)
(* whichever comes first; the destructor ends the rx thread and then       *)
(* removes the subscriptions.                                              *)

HttpCall(h) ==
  /\ http[h] = "none" /\ Cardinality({g \in Calls : http[g] # "none"}) < bound.calls
  /\ http' = [http EXCEPT ![h] = "open"]
  /\ UNCHANGED <<connectors, se, bus, held, ceVars, netVars, history>>

HttpReset(h) ==
  /\ http[h] \in {"open", "closing"} /\ <<"http", h>> \notin told
  /\ told' = told \cup {<<"http", h>>}
  /\ bus' = Append(bus, <<"HttpReset", h>>)
  /\ UNCHANGED <<connectors, se, held, http, ceVars, sent, cut, faults, history>>

HttpServed(h) ==
  /\ http[h] = "open"
  /\ http' = [http EXCEPT ![h] = "closing"]
  /\ UNCHANGED <<connectors, se, bus, held, ceVars, netVars, history>>

HttpEnd(h) ==
  /\ http[h] = "closing"
  /\ http' = [http EXCEPT ![h] = "gone"]
  /\ UNCHANGED <<connectors, se, bus, held, ceVars, netVars, history>>

-----------------------------------------------------------------------------
(* SetupServiceElement and the rx thread of the control element.           *)

CeAccept(c) ==
  /\ ceUp /\ ce[c] = "none" /\ se[c] # "none"
  /\ ce' = [ce EXCEPT ![c] = "setup"]
  /\ UNCHANGED <<seVars, ceUp, ceBus, attached, table, netVars, history>>

CeReadData(c) ==
  /\ ce[c] = "setup" /\ <<"data", c>> \in sent /\ <<"ce", c>> \notin told
  /\ ce' = [ce EXCEPT ![c] = "data"]
  /\ sent' = sent \ {<<"data", c>>}
  /\ UNCHANGED <<seVars, ceUp, ceBus, attached, table, told, cut, faults, history>>

(* The handler raises ServiceElementConnected, then the Ack is sent. *)
CeSetupDone(c) ==
  /\ ce[c] = "data"
  /\ ce' = [ce EXCEPT ![c] = "raised"]
  /\ ceBus' = Append(ceBus, <<"Connected", c>>)
  /\ sent' = IF c \in cut THEN sent ELSE sent \cup {<<"ack", c>>}
  /\ UNCHANGED <<seVars, ceUp, attached, table, told, cut, faults, history>>

CeSetupTimeout(c) ==
  /\ ce[c] = "setup" /\ faults < bound.faults
  /\ ce' = Closed(ce, c)
  /\ faults' = faults + 1
  /\ UNCHANGED <<seVars, ceUp, ceBus, attached, table, sent, told, cut, history>>

CeReset(c) ==
  /\ Alive(ce, c) /\ (c \in cut \/ se[c] = "closed") /\ <<"ce", c>> \notin told
  /\ told' = told \cup {<<"ce", c>>}
  /\ ceBus' = Append(ceBus, <<"Reset", c>>)
  /\ UNCHANGED <<seVars, ce, ceUp, attached, table, sent, cut, faults, history>>

(* connect_service_element replaces the connection and keeps the entry of  *)
(* the one before.                                                         *)
TakeConnected(c) ==
  /\ attached' = c
  /\ ce' = [Closed(ce, attached) EXCEPT ![c] = "attached"]
  /\ table' = table \cup {c}

(* connection_reset: any entry is that of the element.                     *)
TakeCeResetVariant(c) ==
  /\ attached' = IF c \in table THEN NoConn ELSE attached
  /\ table' = table \ {c}
  /\ UNCHANGED ce

TakeCeReset(c) ==
  IF c \in table
  THEN attached' = NoConn /\ ce' = Closed(ce, attached) /\ table' = table \ {c}
  ELSE UNCHANGED <<attached, ce, table>>

CeHandle ==
  /\ ceBus # <<>>
  /\ ceBus' = Tail(ceBus)
  /\ \/ Head(ceBus)[1] = "Connected" /\ TakeConnected(Head(ceBus)[2])
     \/ Head(ceBus)[1] = "Reset" /\ TakeCeReset(Head(ceBus)[2])
  /\ UNCHANGED <<seVars, ceUp, netVars, history>>

-----------------------------------------------------------------------------
(* The world around.                                                       *)

Cut(c) ==
  /\ faults < bound.faults /\ c \notin cut /\ Alive(se, c)
  /\ cut' = cut \cup {c} /\ faults' = faults + 1
  /\ sent' = {m \in sent : m[2] # c}
  /\ UNCHANGED <<seVars, ceVars, told, history>>

CeCrash ==
  /\ ceUp /\ faults < bound.faults
  /\ ceUp' = FALSE /\ faults' = faults + 1
  /\ ce' = [c \in Conns |-> IF se[c] = "none" THEN "none" ELSE "closed"]
  /\ ceBus' = <<>> /\ attached' = NoConn /\ table' = {}
  /\ UNCHANGED <<seVars, sent, told, cut, history>>

CeStart ==
  /\ ~ceUp
  /\ ceUp' = TRUE
  /\ UNCHANGED <<seVars, ce, ceBus, attached, table, netVars, history>>

ServiceElement ==
  \/ Dispatch
  \/ \E c \in Conns : Connect(c) \/ SetupSend(c) \/ SetupDone(c) \/ SeReadAck(c) \/ SeReset(c)
HttpConnection(h) == HttpReset(h) \/ HttpServed(h) \/ HttpEnd(h)
Control ==
  \/ CeHandle
  \/ \E c \in Conns : CeAccept(c) \/ CeReadData(c) \/ CeSetupDone(c) \/ CeReset(c)

PeersNext ==
  /\ \/ ServiceElement \/ Control
     \/ \E c \in Conns : SetupTimeout(c) \/ CeSetupTimeout(c) \/ Cut(c)
     \/ \E h \in Calls : HttpCall(h) \/ HttpConnection(h)
     \/ CeCrash \/ CeStart
  /\ UNCHANGED bound

PeersSpec == PeersInit /\ [][PeersNext]_<<peersVars, bound>>

(* The threads of both programs run; a control element that is down is     *)
(* started again.  Neither a fault nor a timeout has to happen.            *)
FairPeersSpec ==
  /\ PeersSpec /\ WF_peersVars(Dispatch) /\ WF_peersVars(CeHandle) /\ WF_peersVars(CeStart)
  /\ \A c \in Conns :
       /\ WF_peersVars(Connect(c)) /\ WF_peersVars(SetupSend(c) \/ SetupDone(c))
       /\ WF_peersVars(SeReadAck(c)) /\ WF_peersVars(SeReset(c))
       /\ WF_peersVars(CeAccept(c)) /\ WF_peersVars(CeReadData(c) \/ CeSetupDone(c))
       /\ WF_peersVars(CeReset(c))
  /\ \A h \in Calls : WF_peersVars(HttpServed(h) \/ HttpEnd(h))

-----------------------------------------------------------------------------

(* The last line: the connection an owner holds is open. *)
PeersTypeOK ==
  /\ connectors \in Nat /\ strays \in 0..Cardinality(Calls)
  /\ se \in [Conns -> {"none", "starting", "waiting", "acked", "raised", "held", "closed"}]
  /\ ce \in [Conns -> {"none", "setup", "data", "raised", "attached", "closed"}]
  /\ http \in [Calls -> {"none", "open", "closing", "gone"}]
  /\ bus \in Seq(({"Ack", "CeConnected", "Reset"} \X Conns) \cup ({"HttpReset"} \X Calls))
  /\ ceBus \in Seq({"Connected", "Reset"} \X Conns)
  /\ ceUp \in BOOLEAN /\ cut \subseteq Conns /\ faults \in 0..bound.faults /\ bound \in Bounds
  /\ held \in Conns \cup {NoConn} /\ attached \in Conns \cup {NoConn}
  /\ table \subseteq Conns /\ sent \subseteq {"data", "ack"} \X Conns
  /\ told \subseteq ({"se", "ce"} \X Conns) \cup ({"http"} \X Calls)
  /\ lapses \subseteq {"timeout", "overtaken"}
  /\ \A c \in Conns : (held = c <=> se[c] = "held") /\ (attached = c <=> ce[c] = "attached")

Unreported(c) == Alive(se, c) /\ <<"se", c>> \notin told
ResetsQueued == {i \in DOMAIN bus : bus[i][1] = "Reset"}

(* However connections are lost, time out and are made again, the service  *)
(* element has one attempt or one connection at a time, and one more only  *)
(* for each reset of an HTTP connection that came after its activity.      *)
OneConnection ==
  connectors + Cardinality(ResetsQueued) + Cardinality({c \in Conns : Unreported(c)})
    <= 1 + strays

(* A fault costs the service element at most three connections more: the   *)
(* one made at once may be dropped by the entry of the old one, the next   *)
(* by a ServiceElementConnected that was late.  A setup that times out and *)
(* an HTTP connection are not faults in this sense.                        *)
FaultCostsThree ==
  strays = 0 =>
    connectors + Cardinality({c \in Conns : se[c] # "none"}) <= 1 + 3 * faults

(* Connections neither multiply nor, without HTTP, go on being replaced.   *)
ConnectionsSound == OneConnection /\ FaultCostsThree

Settled ==
  \E c \in Conns : held = c /\ se[c] = "held" /\ attached = c /\ ce[c] = "attached" /\ c \notin cut

(* After the last fault both ends come to hold one connection for good,    *)
(* whatever happened before, unless a setup timed out on the service       *)
(* element, which connects no more, an old CeConnected came after a newer  *)
(* one, or the end of an HTTP connection made it connect again.            *)
Settles == <>[](Settled \/ lapses # {} \/ strays > 0)

=============================================================================
