--------------------------- MODULE PowerProfile ---------------------------
(***************************************************************************)
(* The power profile of a service element.  The thread of ServiceElementLCP*)
(* serves the GAL requests and passes them to DemoLCP; the run thread of   *)
(* DemoLCP changes the slot.  Both choose the cores in use and share       *)
(* current_slot_ and committed_profile_ without a lock.  Forward applies   *)
(* the ActiveCoresChange events in the order in which they were raised.    *)
(***************************************************************************)
EXTENDS Integers, Sequences, FiniteSetsExt

CONSTANTS
  Profiles,       \* ids of power states
  NumSlots,       \* lcp.sync.slots
  Table,          \* Table[p]: slot -> number of cores or Command, of demo.xml
  Command,        \* a slot with a command and no cores
  DefaultProfile, \* of demo.xml
  DefaultState,   \* of gal.xml
  MaxRequests,    \* bound: GAL requests
  MaxQueue        \* bound: SlotChange events that wait

CoreCounts == (UNION {{Table[p][n] : n \in DOMAIN Table[p]} : p \in Profiles}) \ {Command}

ASSUME ProfileAssumption ==
  /\ NumSlots \in Nat \ {0} /\ MaxRequests \in Nat
  /\ DefaultProfile \in Profiles /\ DefaultState \in Profiles
  /\ \A p \in Profiles : DOMAIN Table[p] \subseteq 1..NumSlots

VARIABLES
  initialized, \* DemoLCP::config has run
  provState, commState,     \* power states of ServiceElementLCP
  provisioned, committed,   \* profiles of DemoLCP
  slot,        \* current_slot_
  active,      \* active_cores_, 0 before it is assigned
  prev,        \* prev of LCPSync
  slotChanges, \* SlotChange events for the run thread
  coreChanges, \* ActiveCoresChange events for Forward
  cores,       \* the cores in use, 0 before the first change
  run,         \* the run thread: program counter, slot asked for, entry found and
               \* its cores, whether it is a command to execute
  lcp,         \* the LCP thread: program counter, slot found
  requests,    \* GAL requests served
  fault,       \* undefined behaviour: the end iterator, or a remainder by 0
  setter,      \* history: the thread that chose the cores last
  early,       \* history: requests served before init, commits before slot 1
  overlapped   \* history: change_slot and commit overlapped

stateVars == <<provState, commState, provisioned, committed>>
syncVars == <<prev, slotChanges>>
coreVars == <<coreChanges, cores, setter>>
vars == <<initialized, stateVars, slot, active, syncVars, coreVars, run, lcp,
          requests, fault, early, overlapped>>

NoEntry == 0

Init ==
  /\ initialized = FALSE
  /\ provState = DefaultState /\ commState = DefaultState
  /\ provisioned = -1 /\ committed = -1
  /\ slot = 0 /\ active = 0
  /\ prev = 1 /\ slotChanges = <<>>
  /\ coreChanges = <<>> /\ cores = 0 /\ setter = "none"
  /\ run = [pc |-> "none", num |-> 1, at |-> NoEntry, value |-> 0, command |-> FALSE]
  /\ lcp = [pc |-> "idle", at |-> NoEntry]
  /\ requests = 0 /\ fault = "none" /\ early = {} /\ overlapped = FALSE

(* A profile that is not configured gets an empty table when it is used.   *)
Slots(p) == IF initialized /\ p \in Profiles THEN DOMAIN Table[p] ELSE {}

(* What active_cores of slot n may hold: with a command and no cores it is *)
(* never assigned.                                                         *)
CoresOf(p, n) == IF Table[p][n] = Command THEN CoreCounts \cup {0} ELSE {Table[p][n]}

RaiseCores(c, thread) ==
  /\ coreChanges' = Append(coreChanges, c)
  /\ setter' = thread
  /\ UNCHANGED cores

-----------------------------------------------------------------------------
(* LCPSync lets a datagram through; it starts before slot 1 is configured. *)
Receive(n) ==
  /\ run.pc # "none" /\ Len(slotChanges) < MaxQueue
  /\ n # prev
  /\ prev' = n /\ slotChanges' = Append(slotChanges, n)
  /\ UNCHANGED <<initialized, stateVars, slot, active, coreVars, run, lcp, requests,
                 fault, early>>

-----------------------------------------------------------------------------
(* change_slot, in the run thread: once for slot 1, then for each event.   *)

ChangeSlot ==
  /\ run.pc = "wait" /\ slotChanges # <<>>
  /\ run' = [run EXCEPT !.pc = "find", !.num = Head(slotChanges)]
  /\ slotChanges' = Tail(slotChanges)
  /\ UNCHANGED <<initialized, stateVars, slot, active, prev, coreVars, lcp, requests,
                 fault, early>>

(* The slot itself or, backwards, the last one before it: slot 1 is not    *)
(* looked at.                                                              *)
LastChange(S, n) ==
  LET before == {i \in S : 1 < i /\ i < n}
  IN IF n \in S THEN n ELSE IF before = {} THEN NoEntry ELSE Max(before)

FindSlot ==
  /\ run.pc = "find"
  /\ LET at == LastChange(Slots(committed), run.num)
     IN IF at = NoEntry
        THEN run' = [run EXCEPT !.pc = "compare", !.at = NoEntry]
        ELSE \E c \in CoresOf(committed, at) :
               run' = [run EXCEPT !.pc = "compare", !.at = at, !.value = c,
                         !.command = at = run.num /\ Table[committed][at] = Command]
  /\ UNCHANGED <<initialized, stateVars, slot, active, syncVars, coreVars, lcp,
                 requests, fault, early>>

(* num as the search leaves it. *)
FoundNum == IF run.at # NoEntry THEN run.at ELSE IF run.num = 1 THEN 0 ELSE 1

LaterVariant == FoundNum >= slot
Later == FoundNum > slot

KeepSlot ==
  /\ run.pc = "compare" /\ ~Later
  /\ run' = [run EXCEPT !.pc = "wait"]
  /\ UNCHANGED <<initialized, stateVars, slot, active, syncVars, coreVars, lcp,
                 requests, fault, early>>

(* it is the end iterator. *)
UseMissingSlot ==
  /\ run.pc = "compare" /\ Later /\ run.at = NoEntry
  /\ run' = [run EXCEPT !.pc = "lost"]
  /\ fault' = "end"
  /\ UNCHANGED <<initialized, stateVars, slot, active, syncVars, coreVars, lcp,
                 requests, early>>

ExecCommand ==
  /\ run.pc = "compare" /\ Later /\ run.at # NoEntry /\ run.command
  /\ run' = [run EXCEPT !.pc = "wait"]
  /\ UNCHANGED <<initialized, stateVars, slot, active, syncVars, coreVars, lcp,
                 requests, fault, early>>

RaiseSlot ==
  /\ run.pc = "compare" /\ Later /\ run.at # NoEntry /\ ~run.command
  /\ run' = [run EXCEPT !.pc = "store"]
  /\ RaiseCores(run.value, "run")
  /\ UNCHANGED <<initialized, stateVars, slot, active, syncVars, lcp, requests, fault,
                 early>>

(* The sensor keeps the value of the slot before. *)
SensorVariant == active
SensorOfSlotVariant == run.num
Sensor == run.value

StoreSlot ==
  /\ run.pc = "store"
  /\ active' = Sensor
  /\ slot' = run.num
  /\ run' = [run EXCEPT !.pc = "wait"]
  /\ UNCHANGED <<initialized, stateVars, syncVars, coreVars, lcp, requests, fault,
                 early>>

-----------------------------------------------------------------------------
(* The LCP thread.                                                         *)

(* ForwardingStarted: config() and the run thread.                         *)
Initialize ==
  /\ lcp.pc = "idle" /\ ~initialized
  /\ initialized' = TRUE
  /\ provisioned' = DefaultProfile /\ committed' = DefaultProfile
  /\ run' = [run EXCEPT !.pc = "find"]
  /\ UNCHANGED <<provState, commState, slot, active, syncVars, coreVars, lcp, requests,
                 fault, early>>

Serve(profileChosen) ==
  /\ lcp.pc = "idle" /\ requests < MaxRequests
  /\ requests' = requests + 1
  /\ early' = early \cup (IF initialized THEN {} ELSE {"init"})
                    \cup (IF profileChosen /\ slot = 0 THEN {"slot1"} ELSE {})
  /\ UNCHANGED <<initialized, slot, active, syncVars, coreVars, run, fault>>

Provisioning(p) ==
  /\ Serve(FALSE)
  /\ provState' = p /\ provisioned' = p
  /\ UNCHANGED <<commState, committed, lcp>>

TaskRollbackVariant == provisioned
TaskRollback == committed

Rollback ==
  /\ Serve(FALSE)
  /\ provState' = commState /\ provisioned' = TaskRollback
  /\ UNCHANGED <<commState, committed, lcp>>

Commit ==
  /\ Serve(TRUE)
  /\ commState' = provState /\ committed' = provisioned
  /\ lcp' = [lcp EXCEPT !.pc = "search"]
  /\ UNCHANGED <<provState, provisioned>>

Release ==
  /\ Serve(TRUE)
  /\ provState' = DefaultState /\ commState' = DefaultState
  /\ provisioned' = DefaultProfile /\ committed' = DefaultProfile
  /\ lcp' = [lcp EXCEPT !.pc = "search"]

(* The rest of DemoLCP::commit: the last change up to current_slot_, slot  *)
(* 1 included.                                                             *)
ReachedVariant(S) == {n \in S : n < slot}
Reached(S) == {n \in S : n <= slot}

CommitSearch ==
  /\ lcp.pc = "search"
  /\ lcp' = IF Reached(Slots(committed)) = {} THEN [lcp EXCEPT !.pc = "idle"]
            ELSE [pc |-> "apply", at |-> Max(Reached(Slots(committed)))]
  /\ UNCHANGED <<initialized, stateVars, slot, active, syncVars, coreVars, run,
                 requests, fault, early>>

CommitApply ==
  /\ lcp.pc = "apply"
  /\ slot' = lcp.at
  /\ \E c \in CoresOf(committed, lcp.at) : RaiseCores(c, "lcp")
  /\ lcp' = [lcp EXCEPT !.pc = "idle"]
  /\ UNCHANGED <<initialized, stateVars, active, syncVars, run, requests, fault, early>>

-----------------------------------------------------------------------------
(* The handler of Forward: each ring goes to cpu i % num. *)
ApplyCores ==
  /\ coreChanges # <<>>
  /\ coreChanges' = Tail(coreChanges)
  /\ cores' = Head(coreChanges)
  /\ fault' = IF Head(coreChanges) = 0 THEN "division" ELSE fault
  /\ UNCHANGED <<initialized, stateVars, slot, active, syncVars, run, lcp, requests,
                 early, setter>>

RunThread == ChangeSlot \/ FindSlot \/ KeepSlot \/ UseMissingSlot \/ ExecCommand
             \/ RaiseSlot \/ StoreSlot

LcpThread == \/ Initialize \/ Rollback \/ Commit \/ Release \/ CommitSearch \/ CommitApply
             \/ \E p \in Profiles : Provisioning(p)

(* change_slot has read the profile, or commit has changed it, and neither *)
(* is done.                                                                *)
Overlapping == run.pc \in {"compare", "store"} /\ lcp.pc # "idle"

Next ==
  /\ fault = "none"
  /\ \/ \E n \in 1..NumSlots : Receive(n)
     \/ RunThread \/ LcpThread \/ ApplyCores
  /\ overlapped' = (overlapped \/ Overlapping')

Spec == Init /\ [][Next]_vars

-----------------------------------------------------------------------------

TypeOK ==
  /\ initialized \in BOOLEAN /\ overlapped \in BOOLEAN
  /\ provState \in Profiles /\ commState \in Profiles
  /\ provisioned \in Profiles \cup {-1} /\ committed \in Profiles \cup {-1}
  /\ slot \in 0..NumSlots /\ prev \in 1..NumSlots
  /\ slotChanges \in Seq(1..NumSlots)
  /\ active \in CoreCounts \cup {0} /\ cores \in CoreCounts \cup {0}
  /\ coreChanges \in Seq(CoreCounts \cup {0})
  /\ run \in [pc : {"none", "find", "compare", "store", "wait", "lost"}, num : 1..NumSlots,
              at : 0..NumSlots, value : CoreCounts \cup {0}, command : BOOLEAN]
  /\ lcp \in [pc : {"idle", "search", "apply"}, at : 0..NumSlots]
  /\ requests \in 0..MaxRequests
  /\ fault \in {"none", "end", "division"}
  /\ setter \in {"none", "run", "lcp"} /\ early \subseteq {"init", "slot1"}

Quiet == run.pc = "wait" /\ lcp.pc = "idle" /\ coreChanges = <<>> /\ fault = "none"

(* Through any sequence of slots and profiles, the cores in use are those  *)
(* the committed profile gives for current_slot_, as long as change_slot   *)
(* and commit never ran at the same time and the profile says anything     *)
(* about that slot.                                                        *)
CoresFollowProfile ==
  LET reached == {n \in Slots(committed) : n <= slot}
  IN (Quiet /\ ~overlapped /\ reached # {} /\ Table[committed][Max(reached)] # Command)
       => cores = Table[committed][Max(reached)]

(* The sensor of the active cores tells the cores in use, unless they were *)
(* last chosen by commit, which leaves active_cores_ alone.                *)
SensorTellsCores == (Quiet /\ setter = "run") => active = cores

(* change_slot uses the end iterator only if a commit came before slot 1   *)
(* was configured: with cores for the first slot in the default profile    *)
(* (a command would leave current_slot_ 0), no later change of profile,    *)
(* however it overlaps, makes the search run off.                          *)
FirstSlotHasCores ==
  1 \in DOMAIN Table[DefaultProfile] /\ Table[DefaultProfile][1] # Command

EndIteratorOnlyAfterEarlyCommit ==
  FirstSlotHasCores => (fault = "end" => "slot1" \in early)

(* The power states of the service element and the profiles of its task    *)
(* go together, unless a request came before config(), which overwrites    *)
(* the profiles, or the two default values differ.                         *)
StatesAgree ==
  (initialized /\ "init" \notin early /\ DefaultState = DefaultProfile)
    => provState = provisioned /\ commState = committed

(* Cores, sensor and power states of an element tell one profile.          *)
ProfileInForce == CoresFollowProfile /\ SensorTellsCores /\ StatesAgree

=============================================================================
