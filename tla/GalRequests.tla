---------------------------- MODULE GalRequests ----------------------------
(***************************************************************************)
(* FunctionalRequest in the control element.  Connections of the web       *)
(* server raise GSIRequests that the threads of ControlElementLCP execute, *)
(* and requests that the thread of the control element answers, as an LCP  *)
(* does when it starts and for the discovery of the device.  To answer the *)
(* request for the interfaces of the GAL page, the control element raises  *)
(* a GSIRequest for each of them.  Who raises a request waits for its      *)
(* promise, without a timeout, while another thread runs a closure that    *)
(* refers to the frame of the first.  start_lcp may have launched two      *)
(* LCPs; each executes every GSIRequest.                                   *)
(***************************************************************************)
EXTENDS Integers, FiniteSets, Sequences

CONSTANTS
  Webs,       \* HttpConnections
  Lcps,       \* ControlElementLCPs
  Ce,         \* the thread of the control element
  Interfaces, \* the number of interfaces the router has
  MaxWeb      \* bound: requests of the web server

ASSUME RequestsAssumption ==
  /\ Webs \cap Lcps = {} /\ Ce \notin Webs \cup Lcps /\ IsFiniteSet(Lcps)
  /\ Interfaces \in Nat /\ MaxWeb \in Nat

VARIABLES
  reqs,       \* every request raised: who waits for it, and what for
  set,        \* those whose promise is set
  bus,        \* events_: requests, and Quit as 0
  running,    \* running_ of Application
  ce,         \* the control element: its queue, whether it still serves, the
              \* request for interfaces in hand (0: none), how many are left
  registered, \* the LCPs subscribed to GSIRequest and Quit
  inbox,      \* inbox[l]: handlers_
  lcp,        \* lcp[l]: where its thread is
  job,        \* job[l]: the GSIRequest it executes
  waits,      \* waits[x]: the request whose promise x waits for; 0 if none
  late        \* requests executed after their frame was gone

busVars == <<bus, running>>
lcpVars == <<registered, inbox, lcp, job>>
vars == <<reqs, set, busVars, ce, lcpVars, waits, late>>

Quit == 0
Kinds == {"short", "throws", "discovery"}               \* of a GSIRequest
CeKinds == {"start", "elements", "asks", "interfaces"}  \* for the control element
Threads == Webs \cup Lcps \cup {Ce}

Init ==
  /\ reqs = <<>> /\ set = {} /\ bus = <<>> /\ running = TRUE
  /\ ce = [inbox |-> <<>>, serves |-> TRUE, job |-> 0, left |-> 0]
  /\ registered = {} /\ inbox = [l \in Lcps |-> <<>>]
  /\ lcp = [l \in Lcps |-> "none"] /\ job = [l \in Lcps |-> 0]
  /\ waits = [x \in Threads |-> 0]
  /\ late = {}

(* raise drops what comes after the end of the dispatcher; result() and    *)
(* wait() are called either way.                                           *)
Request(x, what) ==
  LET r == Len(reqs) + 1
  IN /\ reqs' = Append(reqs, [by |-> x, what |-> what])
     /\ waits' = [waits EXCEPT ![x] = r]
     /\ bus' = IF running THEN Append(bus, r) ELSE bus

Waiting(x) == waits[x] # 0 /\ waits[x] \notin set
InFrame(r) == waits[reqs[r].by] = r

-----------------------------------------------------------------------------
(* A connection of the web server, which exists once an LCP has started:   *)
(* it raises a GSIRequest, asks for routes or service elements ("asks"),   *)
(* or for the interfaces of the GAL page.                                  *)

Web(w, kind) ==
  /\ registered # {} /\ waits[w] = 0
  /\ Cardinality({r \in DOMAIN reqs : reqs[r].by \in Webs}) < MaxWeb
  /\ Request(w, kind)
  /\ UNCHANGED <<set, running, ce, lcpVars, late>>

(* result() and wait(): the thread goes on.                                *)
ReturnedVariant(x) == waits[x] # 0
Returned(x) == waits[x] \in set

Return(x) ==
  /\ Returned(x)
  /\ waits' = [waits EXCEPT ![x] = 0]
  /\ UNCHANGED <<reqs, set, busVars, ce, lcpVars, late>>

-----------------------------------------------------------------------------
(* The dispatcher.                                                         *)

RaiseQuit ==
  /\ running /\ \A k \in DOMAIN bus : bus[k] # Quit
  /\ bus' = Append(bus, Quit)
  /\ UNCHANGED <<reqs, set, running, ce, lcpVars, waits, late>>

ToLcps(e) == e = Quit \/ reqs[e].what \in Kinds
ToCeVariant(e) == IF e = Quit THEN FALSE ELSE reqs[e].what \in CeKinds
ToCe(e) == e = Quit \/ reqs[e].what \in CeKinds

Dispatch ==
  /\ running /\ bus # <<>>
  /\ LET e == Head(bus)
     IN /\ running' = (e # Quit)
        /\ inbox' = [l \in Lcps |-> IF ToLcps(e) /\ l \in registered
                                    THEN Append(inbox[l], e) ELSE inbox[l]]
        /\ ce' = IF ToCe(e) THEN [ce EXCEPT !.inbox = Append(@, e)] ELSE ce
  /\ bus' = Tail(bus)
  /\ UNCHANGED <<reqs, set, registered, lcp, job, waits, late>>

-----------------------------------------------------------------------------
(* The control element: the handlers of the requests and of Quit.  The     *)
(* closure of gal_interfaces calls gsi.discovery for every interface, on   *)
(* the thread of the control element; every other request is answered      *)
(* before anything else happens on it.                                     *)

CeFree == ce.serves /\ ce.job = 0

CeServe ==
  /\ CeFree /\ ce.inbox # <<>>
  /\ LET e    == Head(ce.inbox)
         asks == e # Quit /\ reqs[e].what = "interfaces"
     IN /\ ce' = [inbox |-> Tail(ce.inbox), serves |-> e # Quit,
                  job   |-> IF asks THEN e ELSE 0,
                  left  |-> IF asks THEN Interfaces ELSE 0]
        /\ set' = IF asks THEN set ELSE set \cup ({e} \ {Quit})
        /\ late' = late \cup {r \in {e} \ {Quit} : ~InFrame(r)}
  /\ UNCHANGED <<reqs, busVars, lcpVars, waits>>

CeAsk ==
  /\ ce.left > 0 /\ waits[Ce] = 0
  /\ Request(Ce, "short")
  /\ ce' = [ce EXCEPT !.left = @ - 1]
  /\ UNCHANGED <<set, running, lcpVars, late>>

CeNotify ==
  /\ ce.job # 0 /\ ce.left = 0 /\ waits[Ce] = 0
  /\ set' = set \cup {ce.job}
  /\ ce' = [ce EXCEPT !.job = 0]
  /\ UNCHANGED <<reqs, busVars, lcpVars, waits, late>>

CeStep == CeServe \/ CeAsk \/ CeNotify

-----------------------------------------------------------------------------
(* ControlElementLCP.  The request of its constructor and the two of its   *)
(* start count as one, like the two of a discovery: nothing comes between. *)

Launch(l) ==
  /\ lcp[l] = "none" /\ CeFree
  /\ Request(l, "start")
  /\ lcp' = [lcp EXCEPT ![l] = "starting"]
  /\ UNCHANGED <<set, running, ce, registered, inbox, job, late>>

Register(l) ==
  /\ lcp[l] = "starting" /\ waits[l] \in set
  /\ registered' = registered \cup {l}
  /\ lcp' = [lcp EXCEPT ![l] = "serving"]
  /\ waits' = [waits EXCEPT ![l] = 0]
  /\ UNCHANGED <<reqs, set, busVars, ce, inbox, job, late>>

(* exec calls func_ first, whatever has become of the promise.             *)
Serve(l) ==
  /\ lcp[l] = "serving" /\ inbox[l] # <<>> /\ Head(inbox[l]) # Quit
  /\ inbox' = [inbox EXCEPT ![l] = Tail(@)]
  /\ LET r == Head(inbox[l])
     IN /\ job' = [job EXCEPT ![l] = r]
        /\ late' = late \cup {x \in {r} : ~InFrame(x)}
        /\ lcp' = [lcp EXCEPT ![l] = "executing"]
        /\ IF reqs[r].what = "discovery"
           THEN Request(l, "elements")
           ELSE UNCHANGED <<reqs, waits, bus>>
  /\ UNCHANGED <<set, running, ce, registered>>

(* ServiceElementsRequest is answered: the closure of the LCP goes on.     *)
Resume(l) ==
  /\ lcp[l] = "executing" /\ waits[l] \in set
  /\ waits' = [waits EXCEPT ![l] = 0]
  /\ UNCHANGED <<reqs, set, busVars, ce, lcpVars, late>>

(* The promise takes what func_ returned or threw.  If it is set already,  *)
(* set_value throws, the catch of exec sets it again, and the exception    *)
(* leaves the activity, which waits for ever to join its own threads.      *)
CaughtVariant(what) == what # "throws"
Caught(what) == TRUE

FinishVariant(l) ==
  /\ lcp[l] = "executing" /\ waits[l] = 0
  /\ set' = set \cup {job[l]}
  /\ lcp' = [lcp EXCEPT ![l] = "serving"]
  /\ UNCHANGED <<reqs, busVars, ce, registered, inbox, job, waits, late>>

Finish(l) ==
  /\ lcp[l] = "executing" /\ waits[l] = 0
  /\ LET ok == job[l] \notin set /\ Caught(reqs[job[l]].what)
     IN /\ set' = IF ok THEN set \cup {job[l]} ELSE set
        /\ lcp' = [lcp EXCEPT ![l] = IF ok THEN "serving" ELSE "dead"]
  /\ job' = [job EXCEPT ![l] = 0]
  /\ UNCHANGED <<reqs, busVars, ce, registered, inbox, waits, late>>

End(l) ==
  /\ lcp[l] = "serving" /\ inbox[l] # <<>> /\ Head(inbox[l]) = Quit
  /\ lcp' = [lcp EXCEPT ![l] = "ended"]
  /\ UNCHANGED <<reqs, set, busVars, ce, registered, inbox, job, waits, late>>

LcpStep(l) == Register(l) \/ Serve(l) \/ Resume(l) \/ Finish(l) \/ End(l)

Next ==
  \/ \E w \in Webs, kind \in Kinds \cup {"asks", "interfaces"} : Web(w, kind)
  \/ \E x \in Webs \cup {Ce} : Return(x)
  \/ RaiseQuit \/ Dispatch \/ CeStep
  \/ \E l \in Lcps : Launch(l) \/ LcpStep(l)

(* The threads run.  CeServe is fair if the service elements answer, which *)
(* the handler of the first requests of an LCP calls (GalCalls).           *)
Fairness ==
  /\ WF_vars(Dispatch) /\ WF_vars(CeStep)
  /\ \A l \in Lcps : WF_vars(LcpStep(l))
  /\ \A x \in Webs \cup {Ce} : WF_vars(Return(x))

Spec == Init /\ [][Next]_vars
FairSpec == Spec /\ Fairness

-----------------------------------------------------------------------------

TypeOK ==
  /\ reqs \in Seq([by : Threads, what : Kinds \cup CeKinds])
  /\ set \subseteq DOMAIN reqs /\ late \subseteq DOMAIN reqs
  /\ bus \in Seq(Nat) /\ running \in BOOLEAN
  /\ ce \in [inbox : Seq(Nat), serves : BOOLEAN, job : Nat, left : Nat]
  /\ registered \subseteq Lcps /\ inbox \in [Lcps -> Seq(Nat)]
  /\ lcp \in [Lcps -> {"none", "starting", "serving", "executing", "dead", "ended"}]
  /\ job \in [Lcps -> Nat] /\ waits \in [Threads -> 0 .. Len(reqs)]
  /\ \A l \in Lcps : job[l] # 0 <=> lcp[l] = "executing"
  /\ \A x \in Threads : waits[x] # 0 => reqs[waits[x]].by = x
  /\ (ce.left > 0 \/ waits[Ce] # 0) => ce.job # 0

(* Two LCPs that execute the same request end one of them, but never both: *)
(* until Quit is raised, someone serves once an LCP has started.           *)
OneSurvives ==
  registered # {} => \/ \E l \in registered : lcp[l] \in {"serving", "executing"}
                     \/ ~running

(* A closure runs after its frame is gone only if two LCPs have started.   *)
LateOnlyWithTwoLcps == late # {} => Cardinality(registered) > 1

(* An LCP has request r in hand or in its queue.                           *)
Holds(l, r) == job[l] = r \/ \E k \in DOMAIN inbox[l] : inbox[l][k] = r

(* The control element waits for an LCP, and every LCP that could answer   *)
(* has ended or waits for the control element: neither moves any more.     *)
Deadlocked ==
  /\ Waiting(Ce) /\ \A k \in DOMAIN bus : bus[k] # waits[Ce]
  /\ \A l \in Lcps : Holds(l, waits[Ce]) => lcp[l] \in {"dead", "ended"} \/ Waiting(l)

(* Before Quit this takes two connections: the control element serves the  *)
(* interfaces of one while an LCP executes the discovery of another.       *)
DeadlockTakesTwo ==
  Deadlocked /\ running =>
    \E v, w \in Webs : /\ Waiting(v) /\ waits[v] = ce.job
                       /\ Waiting(w) /\ reqs[waits[w]].what = "discovery"
                       /\ \E l \in registered : Waiting(l) /\ job[l] = waits[w]

(* Of two LCPs that execute the same requests one survives, one alone      *)
(* never writes where nothing waits any more, and only the interfaces and  *)
(* a discovery of two connections stop it from serving.                    *)
OneServes == OneSurvives /\ LateOnlyWithTwoLcps /\ DeadlockTakesTwo

(* Until Quit is raised every request of the web server is answered,       *)
(* whatever the number of LCPs and though one may end while it executes,   *)
(* unless the control element and the LCP come to wait for each other.     *)
WebAnswered ==
  \A w \in Webs : waits[w] # 0 ~> (waits[w] = 0 \/ ~running \/ Deadlocked)

(* After Quit the control element ends, unless it waits for ever for an    *)
(* LCP that it asked about an interface.  An LCP that has taken Quit in    *)
(* ends too, unless the other has ended it or it waits for ever for an     *)
(* answer of the control element.                                          *)
QuitEnds ==
  /\ ~running ~> [](~ce.serves \/ Waiting(Ce))
  /\ \A l \in Lcps :
       (~running /\ lcp[l] \in {"serving", "executing"} /\ \E k \in DOMAIN inbox[l] : inbox[l][k] = Quit)
         ~> [](lcp[l] \in {"ended", "dead"} \/ Waiting(l))

(* Who waits for ever: only those whom the control element and an LCP that *)
(* wait for each other, or Quit, leave without an answer.                  *)
NobodyWaitsForEver == WebAnswered /\ QuitEnds

(* "In all cases the information returned consists of an error code and/or *)
(* a document" (REST API for the GAL, page 4): before Quit, every request  *)
(* of a connection is answered.  The interfaces of the GAL page and a      *)
(* discovery of the device, asked for at the same time, break it.          *)
AlwaysAnswered ==
  \A w \in Webs : waits[w] # 0 ~> (waits[w] = 0 \/ ~running)

=============================================================================
