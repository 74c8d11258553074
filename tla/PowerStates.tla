---------------------------- MODULE PowerStates ----------------------------
(***************************************************************************)
(* The power state of the device and those of its service elements.  The   *)
(* thread of ControlElementLCP serves one request of the green standard    *)
(* interface (GSIRequest) at a time; a request for the device goes on to   *)
(* every element in turn.  Each call of GalRest opens a connection, sends  *)
(* one HTTP request and closes it without a look at the answer, and the    *)
(* GalController of the element makes a request of its own of what arrives.*)
(***************************************************************************)
EXTENDS Integers, Sequences, SequencesExt

CONSTANTS
  LCPs,           \* service_elements_lcps_: the elements, in the order of the map
  State,          \* ids of power states
  DeviceDefault,  \* device_default_power_state_
  ElementDefault, \* default_power_state_ of the service elements
  MaxServed       \* bound: GSIRequests served

Elements == ToSet(LCPs)

ASSUME PowerAssumption ==
  /\ LCPs \in Seq(Elements) /\ IsInjective(LCPs)
  /\ DeviceDefault \in State /\ ElementDefault \in State
  /\ MaxServed \in Nat

VARIABLES
  devProv, devComm, \* device_provisioned_power_state_, device_committed_power_state_
  hasGal,   \* elements with a Gal service
  job,      \* the request in service: what it sends, its state, the next element, what follows
  answer,   \* of the last request, and whom a device-wide provisioning has told
  served,   \* requests served
  flight,   \* flight[e]: HTTP requests on their way to e, the oldest first
  prov, comm, \* power states of ServiceElementLCP in each element
  cause,    \* history: why the elements may disagree with the device
  crashed   \* rollback of the device read behind the end of its vector

device == <<devProv, devComm>>
elements == <<prov, comm>>
statesVars == <<device, hasGal, job, answer, served, flight, elements, cause, crashed>>

Idle == [sends |-> "nothing", state |-> DeviceDefault, next |-> 1, then |-> "nothing"]

StatesInit ==
  /\ devProv = DeviceDefault /\ devComm = DeviceDefault
  /\ hasGal = {}
  /\ job = Idle
  /\ answer = [of |-> "nothing", code |-> "none", told |-> {}]
  /\ served = 0
  /\ flight = [e \in Elements |-> <<>>]
  /\ prov = [e \in Elements |-> ElementDefault]
  /\ comm = [e \in Elements |-> ElementDefault]
  /\ cause = {"never"}
  /\ crashed = FALSE

-----------------------------------------------------------------------------
(* GalRest and GalController.                                              *)

Put(s) == [method |-> "PUT", body |-> "gal:provisionedState", state |-> s, late |-> FALSE]
Post(name) == [method |-> "POST", body |-> name, state |-> DeviceDefault, late |-> FALSE]
Delete == [method |-> "DELETE", body |-> "none", state |-> DeviceDefault, late |-> FALSE]

(* doc.root() is the document, not its first element: it has no name.      *)
RootName(m) == ""

(* What the controller asks of the element; DELETE is refused, since no    *)
(* path has the name of GalMethod::Release.                                *)
Operation(m) ==
  IF m.method = "PUT" THEN "provisioning"
  ELSE IF m.method = "POST" /\ RootName(m) \in {"gal:commit", "gal:rollback"}
       THEN RootName(m) ELSE "refused"

(* A connection is served by a thread of its own: a request may overtake   *)
(* older ones, which are late from then on.                                *)
Arrive(e, i) ==
  LET m == flight[e][i]
      op == Operation(m)
  IN /\ prov' = [prov EXCEPT ![e] = CASE op = "provisioning" -> m.state
                                      [] op = "gal:rollback" -> comm[e]
                                      [] OTHER -> @]
     /\ comm' = [comm EXCEPT ![e] = IF op = "gal:commit" THEN prov[e] ELSE @]
     /\ flight' = [flight EXCEPT ![e] = [j \in 1..Len(@) - 1 |->
                     IF j < i THEN [@[j] EXCEPT !.late = TRUE] ELSE @[j + 1]]]
     /\ cause' = IF m.late THEN cause \cup {"overtaken"} ELSE cause
     /\ UNCHANGED <<device, hasGal, job, answer, served, crashed>>

(* The protocol is destroyed before the message is written, or the         *)
(* connection breaks: nobody is told.                                      *)
Lose(e, i) ==
  /\ flight' = [flight EXCEPT ![e] = RemoveAt(@, i)]
  /\ cause' = cause \cup {"lost"}
  /\ UNCHANGED <<device, hasGal, job, answer, served, elements, crashed>>

(* The element introduces itself and its services are created; they stay.  *)
AddGal(e) ==
  /\ e \notin hasGal
  /\ hasGal' = hasGal \cup {e}
  /\ cause' = cause \cup {"joined"}
  /\ UNCHANGED <<device, job, answer, served, flight, elements, crashed>>

-----------------------------------------------------------------------------
(* ControlElementLCP.                                                      *)

ServeGSI == job = Idle /\ served < MaxServed /\ served' = served + 1

Answered(op, code, told) == answer' = [of |-> op, code |-> code, told |-> told]

(* provisioning("0", s), or release("0") with the default state: the       *)
(* device first, then the elements, and for a release then the commit.     *)
DeviceProvisioning(s, then) ==
  /\ ServeGSI
  /\ devProv' = s
  /\ job' = [sends |-> "provisioning", state |-> s, next |-> 1, then |-> then]
  /\ cause' = {}
  /\ Answered("provisioning", "none", {})
  /\ UNCHANGED <<devComm, hasGal, flight, elements, crashed>>

DeviceCommit ==
  /\ ServeGSI
  /\ devComm' = devProv
  /\ job' = [Idle EXCEPT !.sends = "commit"]
  /\ Answered("commit", "none", {})
  /\ UNCHANGED <<devProv, hasGal, flight, elements, cause, crashed>>

(* rollback("0") changes the device alone, and does not return: the second *)
(* part of the id, which is not there, names the element to forward to.    *)
DeviceRollback ==
  /\ ServeGSI
  /\ devProv' = devComm
  /\ cause' = cause \cup {"rollback"}
  /\ \/ crashed' = TRUE /\ Answered("rollback", "none", {})
     \/ /\ UNCHANGED crashed
        /\ \E code \in {"GalResourceNotFound", "GalFailure"} : Answered("rollback", code, {})
  /\ UNCHANGED <<devComm, hasGal, job, flight, elements>>

(* forward_to_service: without a Gal service the call is GalNotImplemented;*)
(* a connection that fails is a GalProtocolError.                          *)
CodesVariant(e) == IF e \in hasGal THEN {"GalSuccess", "GalProtocolError"} ELSE {"GalUndefined"}
Codes(e) == IF e \in hasGal THEN {"GalSuccess", "GalProtocolError"} ELSE {"GalNotImplemented"}

Send(e, m, code) ==
  flight' = IF code = "GalSuccess" THEN [flight EXCEPT ![e] = Append(@, m)] ELSE flight

(* A request "0.name" goes to one element, whatever the device's state is; *)
(* GalRest::release sends and says that it does not.                       *)
ForwardToElement(e, m) ==
  /\ ServeGSI
  /\ \E code \in Codes(e) :
       /\ Send(e, m, code)
       /\ Answered("element", IF m = Delete /\ code = "GalSuccess"
                              THEN "GalNotImplemented" ELSE code, {})
  /\ cause' = cause \cup {"element"}
  /\ UNCHANGED <<device, hasGal, job, elements, crashed>>

StopsLoopVariant(code) == FALSE
StopsLoop(code) == code = "GalProtocolError"

MessageVariant == IF job.sends = "provisioning" THEN Put(devComm) ELSE Post("gal:commit")
Message == IF job.sends = "provisioning" THEN Put(job.state) ELSE Post("gal:commit")

(* The loop over service_elements_lcps_: the first failure ends it, with   *)
(* the device and the elements before it already changed.                  *)
LoopStep ==
  /\ job.sends # "nothing" /\ job.next <= Len(LCPs)
  /\ LET e == LCPs[job.next]
     IN \E code \in Codes(e) :
          /\ Send(e, Message, code)
          /\ IF StopsLoop(code)
             THEN /\ job' = Idle
                  /\ cause' = cause \cup {"failed"}
                  /\ answer' = [answer EXCEPT !.code = "GalFailure"]
             ELSE /\ job' = [job EXCEPT !.next = @ + 1]
                  /\ answer' = [answer EXCEPT !.told = @ \cup
                                  (IF code = "GalSuccess" THEN {e} ELSE {})]
                  /\ UNCHANGED cause
  /\ UNCHANGED <<device, hasGal, served, elements, crashed>>

LoopEnd ==
  /\ job.sends # "nothing" /\ job.next > Len(LCPs)
  /\ IF job.then = "commit"
     THEN /\ devComm' = devProv
          /\ job' = [Idle EXCEPT !.sends = "commit"]
          /\ UNCHANGED answer
     ELSE /\ job' = Idle
          /\ answer' = [answer EXCEPT !.code = "GalSuccess"]
          /\ UNCHANGED devComm
  /\ UNCHANGED <<devProv, hasGal, served, flight, elements, cause, crashed>>

Network == \E e \in Elements :
             \/ AddGal(e)
             \/ \E i \in 1..Len(flight[e]) : Arrive(e, i) \/ Lose(e, i)

Request ==
  \/ \E s \in State : DeviceProvisioning(s, "nothing")
  \/ DeviceProvisioning(DeviceDefault, "commit")
  \/ DeviceCommit
  \/ DeviceRollback
  \/ \E e \in Elements, s \in State : ForwardToElement(e, Put(s))
  \/ \E e \in Elements, m \in {Post("gal:commit"), Post("gal:rollback"), Delete} :
       ForwardToElement(e, m)

StatesNext == ~crashed /\ (Network \/ Request \/ LoopStep \/ LoopEnd)

StatesSpec == StatesInit /\ [][StatesNext]_statesVars

-----------------------------------------------------------------------------

Requests == [method : {"PUT", "POST", "DELETE"},
             body : {"gal:provisionedState", "gal:commit", "gal:rollback", "none"},
             state : State, late : BOOLEAN]

StatesTypeOK ==
  /\ devProv \in State /\ devComm \in State
  /\ hasGal \subseteq Elements
  /\ job \in [sends : {"nothing", "provisioning", "commit"}, state : State,
              next : 1..Len(LCPs) + 1, then : {"nothing", "commit"}]
  /\ answer \in [of : {"nothing", "provisioning", "commit", "rollback", "element"},
                 code : {"none", "GalSuccess", "GalFailure", "GalResourceNotFound",
                         "GalProtocolError", "GalNotImplemented"},
                 told : SUBSET Elements]
  /\ served \in 0..MaxServed
  /\ flight \in [Elements -> Seq(Requests)]
  /\ prov \in [Elements -> State] /\ comm \in [Elements -> State]
  /\ cause \subseteq {"never", "joined", "lost", "overtaken", "failed", "rollback", "element"}
  /\ crashed \in BOOLEAN

Settled == job = Idle /\ \A e \in Elements : flight[e] = <<>>

(* The provisioned state of an element differs from that of the device     *)
(* only for a reason that came after the last provisioning of the device   *)
(* began: its loop failed, a request was lost or overtaken, the element    *)
(* was new, the device was rolled back or the element asked on its own.    *)
(* Whatever had happened before, a provisioning of the device heals it.    *)
ProvisioningHeals ==
  (Settled /\ cause = {}) => \A e \in hasGal : prov[e] = devProv

(* A provisioning of the device that is answered with success has been     *)
(* sent to every element that could take it.                               *)
SuccessToldAll ==
  (job = Idle /\ answer.of = "provisioning" /\ answer.code = "GalSuccess"
     /\ "joined" \notin cause) => hasGal \subseteq answer.told

(* Through lost, late and failed requests the elements hold the state of   *)
(* the device, or there is a reason, and success means that all were told. *)
ElementsFollowDevice == ProvisioningHeals /\ SuccessToldAll

(* "REST API for the GAL.pdf", 3.5: a POST of <gal:commit/> commits the    *)
(* state of the resource.  After a commit of the device that was answered  *)
(* with success, and with every request delivered, each element has        *)
(* committed the state the device has committed.                           *)
CommitReachesElements ==
  (Settled /\ cause = {} /\ answer.of = "commit" /\ answer.code = "GalSuccess")
    => \A e \in hasGal : comm[e] = devComm

=============================================================================
