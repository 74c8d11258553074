---------------------------- MODULE Power_proofs ----------------------------
(***************************************************************************)
(* Proofs about the power profiles of a service element and the power      *)
(* states of its line cards, for any values of their constants.            *)
(***************************************************************************)
EXTENDS MCPower, WellFoundedInduction, SequenceTheorems, TLAPS

-----------------------------------------------------------------------------
(* PowerProfile.                                                           *)

(* The inductive invariant.                                                *)

(* The slots of the committed profile. *)
Entries == IF initialized /\ committed \in Profiles THEN DOMAIN Table[committed] ELSE {}

(* The cores chosen last, which Forward may still have to apply. *)
Chosen == IF coreChanges = <<>> THEN cores ELSE coreChanges[Len(coreChanges)]

UpTo(S, n) == {k \in S : k <= n}

(* c are the cores that the slots S of profile p give for slot n.          *)
Gives(p, S, n, c) ==
  (UpTo(S, n) # {} /\ Table[p][Max(UpTo(S, n))] # Command) => c = Table[p][Max(UpTo(S, n))]

(* Nothing runs before config(); what commit found stays in the profile.   *)
StartInv ==
  /\ ~initialized => slot = 0 /\ run.pc = "none"
  /\ lcp.pc = "apply" => lcp.at \in Entries

(* The cores follow the profile between the steps of change_slot and of    *)
(* commit: what each has found, and what remains to be stored.             *)
SlotParts ==
  /\ ~Overlapping
  /\ run.pc \in {"compare", "store"} =>
       /\ run.at = LastChange(Entries, run.num)
       /\ run.at # NoEntry => run.value \in CoresOf(committed, run.at)
  /\ run.pc = "store" => run.at # NoEntry /\ Chosen = run.value
  /\ lcp.pc = "idle" /\ run.pc # "store" => Gives(committed, Entries, slot, Chosen)
  /\ lcp.pc = "apply" => \A k \in Entries : k <= slot => k <= lcp.at

SlotInv == ~overlapped => SlotParts

(* Whoever chose last, the sensor is about to tell it. *)
SensorInv == setter = "run" => Chosen = IF run.pc = "store" THEN run.value ELSE active

RunStatesInv ==
  ("init" \notin early /\ DefaultState = DefaultProfile) =>
    IF initialized THEN provState = provisioned /\ commState = committed
    ELSE provState = DefaultState /\ commState = DefaultState

(* Until slot 1 is stored the run thread is on its way to it, in the       *)
(* default profile.                                                        *)
FirstSlotInv ==
  (FirstSlotHasCores /\ "slot1" \notin early) =>
    /\ fault # "end"
    /\ slot = 0 =>
         /\ lcp.pc = "idle" /\ (initialized => committed = DefaultProfile)
         /\ run.pc \in {"none", "find", "compare", "store"} /\ run.num = 1
         /\ run.pc \in {"compare", "store"} => run.at = 1 /\ ~run.command

ProfileInv == TypeOK /\ StartInv /\ SlotInv /\ SensorInv /\ RunStatesInv /\ FirstSlotInv

-----------------------------------------------------------------------------
(* The largest slot of a set, and the search of change_slot.               *)

LEMMA LargestOf ==
  ASSUME NEW N \in Nat, NEW S, S \subseteq 0 .. N, S # {}
  PROVE  Max(S) \in S /\ \A k \in S : k <= Max(S)
<1> DEFINE R == OpToRel(<, Nat)
           T == {N - p : p \in S}
<1>1. \A x, y \in Nat : x < y => <<x, y>> \in R
  BY DEF OpToRel
<1>2. IsWellFoundedOn(R, Nat)
  BY NatLessThanWellFounded
<1> HIDE DEF R
<1>3. T \subseteq Nat /\ T # {}
  <2>1. \A p \in S : p \in 0 .. N /\ N - p \in Nat
    OBVIOUS
  <2>2. \A x \in T : x \in Nat
    BY <2>1
  <2>3. PICK p \in S : TRUE
    OBVIOUS
  <2>4. N - p \in T
    BY <2>3
  <2> QED BY <2>2, <2>4
<1>4. PICK x \in T : \A y \in T : ~ (<<y, x>> \in R)
  <2> HIDE DEF T
  <2> QED BY <1>2, <1>3, WFMin
<1>5. PICK p \in S : x = N - p
  BY <1>4
<1>6. \A q \in S : N - q \in T /\ N - q \in Nat
  OBVIOUS
<1>7. \A q \in S : ~(N - q < N - p)
  BY <1>1, <1>3, <1>4, <1>5, <1>6
<1>8. \A q \in S : p >= q
  BY <1>7
<1>9. /\ Max(S) \in S
      /\ \A q \in S : Max(S) >= q
  BY <1>8 DEF Max
<1> QED BY <1>9

LEMMA LargestIs ==
  ASSUME NEW N \in Nat, NEW S, S \subseteq 0 .. N, NEW m \in S, \A k \in S : k <= m
  PROVE  Max(S) = m
<1>1. Max(S) \in S /\ \A k \in S : k <= Max(S)
  BY LargestOf
<1>2. \A k \in S : k \in Int
  OBVIOUS
<1>3. m <= Max(S) /\ Max(S) <= m
  BY <1>1
<1>4. m \in Int /\ Max(S) \in Int
  BY <1>1, <1>2
<1> QED BY <1>3, <1>4

(* The search finds the last slot with an entry up to n, or, if that is    *)
(* slot 1 and not n, none.                                                 *)
LEMMA LastChangeOf ==
  ASSUME NEW S, S \subseteq 1 .. NumSlots, NEW n \in 1 .. NumSlots
  PROVE  /\ LastChange(S, n) \in 0 .. NumSlots
         /\ LastChange(S, n) # NoEntry =>
              /\ LastChange(S, n) \in S /\ UpTo(S, n) # {}
              /\ Max(UpTo(S, n)) = LastChange(S, n)
         /\ n \in S => LastChange(S, n) = n
<1> DEFINE before == {i \in S : 1 < i /\ i < n}
<1>0. NumSlots \in Nat /\ n # NoEntry
  BY ProfileAssumption DEF NoEntry
<1>s. \A k \in S : k \in 0 .. NumSlots
  BY <1>0
<1>u. UpTo(S, n) \subseteq 0 .. NumSlots
  BY <1>s DEF UpTo
<1>1. CASE n \in S
  <2>1. LastChange(S, n) = n
    BY <1>1 DEF LastChange
  <2>2. n \in UpTo(S, n) /\ \A k \in UpTo(S, n) : k <= n
    BY <1>0, <1>1 DEF UpTo
  <2>3. Max(UpTo(S, n)) = n
    BY <1>0, <1>u, <2>2, LargestIs
  <2> QED BY <1>0, <1>1, <2>1, <2>2, <2>3
<1>2. CASE n \notin S /\ before = {}
  <2>1. LastChange(S, n) = NoEntry
    BY <1>2 DEF LastChange
  <2> QED BY <1>0, <1>2, <2>1 DEF NoEntry
<1>3. CASE n \notin S /\ before # {}
  <2>1. LastChange(S, n) = Max(before)
    BY <1>3 DEF LastChange
  <2>2. before \subseteq 0 .. NumSlots
    BY <1>s
  <2>3. Max(before) \in before /\ \A k \in before : k <= Max(before)
    BY <1>0, <1>3, <2>2, LargestOf
  <2> DEFINE m == Max(before)
  <2>4. m \in S /\ 1 < m /\ m < n /\ m \in 1 .. NumSlots
    BY <2>3
  <2>5. m \in UpTo(S, n)
    BY <1>0, <2>4 DEF UpTo
  <2>6. ASSUME NEW k \in UpTo(S, n) PROVE k <= m
    <3>1. k \in S /\ k <= n /\ k # n /\ k \in 1 .. NumSlots
      BY <1>3, <2>6 DEF UpTo
    <3>2. k = 1 \/ k \in before
      BY <1>0, <3>1
    <3>3. CASE k = 1
      BY <2>4, <3>3
    <3>4. CASE k \in before
      BY <2>3, <3>4
    <3> QED BY <3>2, <3>3, <3>4
  <2> HIDE DEF m
  <2>7. Max(UpTo(S, n)) = m
    BY <1>0, <1>u, <2>5, <2>6, LargestIs
  <2> QED BY <1>0, <1>3, <2>1, <2>4, <2>5, <2>7 DEF m
<1> QED BY <1>1, <1>2, <1>3

LEMMA EntriesTyped ==
  ASSUME TypeOK
  PROVE  /\ Slots(committed) = Entries
         /\ Entries \subseteq 1 .. NumSlots
         /\ Entries # {} =>
              initialized /\ committed \in Profiles /\ Entries = DOMAIN Table[committed]
BY ProfileAssumption DEF Slots, Entries, TypeOK

LEMMA CoresTyped ==
  ASSUME NEW p \in Profiles, NEW n \in DOMAIN Table[p]
  PROVE  /\ CoresOf(p, n) \subseteq CoreCounts \cup {0}
         /\ \A c \in CoresOf(p, n) : Table[p][n] # Command => c = Table[p][n]
<1>1. CASE Table[p][n] = Command
  BY <1>1 DEF CoresOf
<1>2. CASE Table[p][n] # Command
  <2> DEFINE row == {Table[p][k] : k \in DOMAIN Table[p]}
  <2>1. Table[p][n] \in row /\ row \in {{Table[q][k] : k \in DOMAIN Table[q]} : q \in Profiles}
    OBVIOUS
  <2>2. Table[p][n] \in CoreCounts
    BY <1>2, <2>1 DEF CoreCounts
  <2> QED BY <1>2, <2>2 DEF CoresOf
<1> QED BY <1>1, <1>2

-----------------------------------------------------------------------------
(* The threads and the queue of the events for Forward.                    *)

LEMMA RunTyped ==
  ASSUME TypeOK
  PROVE  /\ run.pc \in {"none", "find", "compare", "store", "wait", "lost"}
         /\ run.num \in 1 .. NumSlots /\ run.at \in 0 .. NumSlots
         /\ run.value \in CoreCounts \cup {0} /\ run.command \in BOOLEAN
         /\ lcp.pc \in {"idle", "search", "apply"} /\ lcp.at \in 0 .. NumSlots
         /\ slot \in 0 .. NumSlots /\ NumSlots \in Nat \ {0}
BY ProfileAssumption DEF TypeOK

LEMMA RunChanged ==
  ASSUME TypeOK,
         NEW pc \in {"none", "find", "compare", "store", "wait", "lost"}
  PROVE  /\ [run EXCEPT !.pc = pc].pc = pc
         /\ [run EXCEPT !.pc = pc].num = run.num /\ [run EXCEPT !.pc = pc].at = run.at
         /\ [run EXCEPT !.pc = pc].value = run.value
         /\ [run EXCEPT !.pc = pc].command = run.command
BY DEF TypeOK

(* What RaiseCores and ApplyCores do to the cores chosen last.             *)
LEMMA ChosenByRaise ==
  ASSUME TypeOK, NEW c \in CoreCounts \cup {0}, NEW thread, RaiseCores(c, thread)
  PROVE  /\ coreChanges' \in Seq(CoreCounts \cup {0}) /\ Chosen' = c
         /\ setter' = thread /\ cores' = cores
<1>1. coreChanges \in Seq(CoreCounts \cup {0})
  BY DEF TypeOK
<1>2. coreChanges' = Append(coreChanges, c) /\ setter' = thread /\ cores' = cores
  BY DEF RaiseCores
<1>3. /\ coreChanges' \in Seq(CoreCounts \cup {0}) /\ Len(coreChanges') = Len(coreChanges) + 1
      /\ coreChanges'[Len(coreChanges) + 1] = c /\ coreChanges' # <<>>
  BY <1>1, <1>2, AppendProperties
<1> QED BY <1>2, <1>3 DEF Chosen

LEMMA ChosenByApply ==
  ASSUME TypeOK, ApplyCores
  PROVE  /\ coreChanges' \in Seq(CoreCounts \cup {0}) /\ Chosen' = Chosen
         /\ cores' \in CoreCounts \cup {0}
<1>1. coreChanges \in Seq(CoreCounts \cup {0}) /\ coreChanges # <<>>
  BY DEF TypeOK, ApplyCores
<1>2. coreChanges' = Tail(coreChanges) /\ cores' = Head(coreChanges)
  BY DEF ApplyCores
<1>3. /\ Head(coreChanges) \in CoreCounts \cup {0} /\ Head(coreChanges) = coreChanges[1]
      /\ Tail(coreChanges) \in Seq(CoreCounts \cup {0})
      /\ Len(coreChanges) \in Nat /\ Len(coreChanges) > 0
      /\ Len(Tail(coreChanges)) = Len(coreChanges) - 1
      /\ \A i \in 1 .. Len(coreChanges) - 1 : Tail(coreChanges)[i] = coreChanges[i + 1]
  BY <1>1, HeadTailProperties, EmptySeq, LenProperties
<1>4. CASE Len(coreChanges) = 1
  <2>1. coreChanges' = <<>>
    BY <1>2, <1>3, <1>4, EmptySeq
  <2> QED BY <1>1, <1>2, <1>3, <1>4, <2>1 DEF Chosen
<1>5. CASE Len(coreChanges) # 1
  <2>1. Len(coreChanges') = Len(coreChanges) - 1 /\ coreChanges' # <<>>
    BY <1>2, <1>3, <1>5, EmptySeq
  <2>2. Len(coreChanges) - 1 \in 1 .. Len(coreChanges) - 1
    BY <1>3, <1>5
  <2>3. coreChanges'[Len(coreChanges) - 1] = coreChanges[Len(coreChanges)]
    BY <1>2, <1>3, <2>2
  <2> QED BY <1>1, <1>2, <1>3, <2>1, <2>3 DEF Chosen
<1> QED BY <1>4, <1>5

LEMMA ChosenKept ==
  ASSUME UNCHANGED <<coreChanges, cores>>
  PROVE  Chosen' = Chosen
BY DEF Chosen

(* What FindSlot and CommitSearch find.                                    *)
LEMMA Found ==
  ASSUME TypeOK, FindSlot
  PROVE  /\ run.pc = "find" /\ run'.pc = "compare" /\ run'.num = run.num
         /\ run'.at = LastChange(Entries, run.num) /\ run'.at \in 0 .. NumSlots
         /\ run'.at # NoEntry =>
              /\ run'.at \in Entries /\ run'.value \in CoresOf(committed, run'.at)
              /\ run'.command <=> (run'.at = run.num /\ Table[committed][run'.at] = Command)
         /\ run' \in [pc : {"none", "find", "compare", "store", "wait", "lost"},
                      num : 1..NumSlots, at : 0..NumSlots, value : CoreCounts \cup {0},
                      command : BOOLEAN]
<1> DEFINE at == LastChange(Entries, run.num)
<1>1. /\ run \in [pc : {"none", "find", "compare", "store", "wait", "lost"},
                  num : 1..NumSlots, at : 0..NumSlots, value : CoreCounts \cup {0},
                  command : BOOLEAN]
      /\ run.pc = "find" /\ run.num \in 1 .. NumSlots
  BY DEF TypeOK, FindSlot
<1>2. /\ at \in 0 .. NumSlots /\ NoEntry \in 0 .. NumSlots
      /\ at # NoEntry => at \in Entries
  BY <1>1, EntriesTyped, LastChangeOf, ProfileAssumption DEF NoEntry
<1>3. CASE at = NoEntry
  <2>1. run' = [run EXCEPT !.pc = "compare", !.at = NoEntry]
    BY <1>3, EntriesTyped DEF FindSlot
  <2> HIDE DEF at
  <2>2. run'.at = NoEntry
    BY <1>1, <2>1
  <2> QED BY <1>1, <1>2, <1>3, <2>1, <2>2 DEF at
<1>4. CASE at # NoEntry
  <2>1. PICK c \in CoresOf(committed, at) :
          run' = [run EXCEPT !.pc = "compare", !.at = at, !.value = c,
                    !.command = at = run.num /\ Table[committed][at] = Command]
    BY <1>4, EntriesTyped DEF FindSlot
  <2>2. c \in CoreCounts \cup {0}
    BY <1>2, <1>4, EntriesTyped, CoresTyped
  <2> HIDE DEF at
  <2>3. /\ run'.pc = "compare" /\ run'.num = run.num /\ run'.at = at /\ run'.value = c
        /\ run'.command = (at = run.num /\ Table[committed][at] = Command)
    BY <1>1, <2>1
  <2>4. (at = run.num /\ Table[committed][at] = Command) \in BOOLEAN
    OBVIOUS
  <2>5. run' \in [pc : {"none", "find", "compare", "store", "wait", "lost"},
                  num : 1..NumSlots, at : 0..NumSlots, value : CoreCounts \cup {0},
                  command : BOOLEAN]
    BY <1>1, <1>2, <2>1, <2>2, <2>4
  <2> QED BY <1>1, <1>2, <1>4, <2>3, <2>5 DEF at
<1> QED BY <1>3, <1>4

LEMMA Searched ==
  ASSUME TypeOK, CommitSearch
  PROVE  /\ lcp.pc = "search" /\ lcp'.pc \in {"idle", "apply"}
         /\ lcp' \in [pc : {"idle", "search", "apply"}, at : 0..NumSlots]
         /\ lcp'.pc = "idle" => UpTo(Entries, slot) = {}
         /\ lcp'.pc = "apply" => /\ lcp'.at \in Entries
                                 /\ \A k \in Entries : k <= slot => k <= lcp'.at
<1>1. /\ lcp \in [pc : {"idle", "search", "apply"}, at : 0..NumSlots] /\ lcp.pc = "search"
      /\ Reached(Slots(committed)) = UpTo(Entries, slot)
  BY EntriesTyped DEF TypeOK, CommitSearch, Reached, UpTo
<1>2. CASE UpTo(Entries, slot) = {}
  <2>1. lcp' = [lcp EXCEPT !.pc = "idle"]
    BY <1>1, <1>2 DEF CommitSearch
  <2> QED BY <1>1, <1>2, <2>1
<1>3. CASE UpTo(Entries, slot) # {}
  <2>1. lcp' = [pc |-> "apply", at |-> Max(UpTo(Entries, slot))]
    BY <1>1, <1>3 DEF CommitSearch
  <2>2. UpTo(Entries, slot) \subseteq 0 .. NumSlots /\ NumSlots \in Nat
    BY EntriesTyped, ProfileAssumption DEF UpTo
  <2>3. /\ Max(UpTo(Entries, slot)) \in UpTo(Entries, slot)
        /\ \A k \in UpTo(Entries, slot) : k <= Max(UpTo(Entries, slot))
    BY <1>3, <2>2, LargestOf
  <2>4. /\ Max(UpTo(Entries, slot)) \in 0 .. NumSlots
        /\ Max(UpTo(Entries, slot)) \in Entries
        /\ \A k \in Entries : k <= slot => k <= Max(UpTo(Entries, slot))
    BY <2>2, <2>3 DEF UpTo
  <2> QED BY <1>1, <2>1, <2>4
<1> QED BY <1>2, <1>3

-----------------------------------------------------------------------------
(* The invariant is inductive: types.                                      *)

LEMMA ProfileTypeStep ==
  ASSUME TypeOK, StartInv, [Next]_vars
  PROVE  TypeOK'
<1> USE DEF stateVars, syncVars, coreVars
<1>t. /\ initialized \in BOOLEAN /\ overlapped \in BOOLEAN
      /\ provState \in Profiles /\ commState \in Profiles
      /\ provisioned \in Profiles \cup {-1} /\ committed \in Profiles \cup {-1}
      /\ slot \in 0..NumSlots /\ prev \in 1..NumSlots
      /\ slotChanges \in Seq(1..NumSlots)
      /\ active \in CoreCounts \cup {0} /\ cores \in CoreCounts \cup {0}
      /\ coreChanges \in Seq(CoreCounts \cup {0})
      /\ run \in [pc : {"none", "find", "compare", "store", "wait", "lost"}, num : 1..NumSlots,
                  at : 0..NumSlots, value : CoreCounts \cup {0}, command : BOOLEAN]
      /\ lcp \in [pc : {"idle", "search", "apply"}, at : 0..NumSlots]
      /\ requests \in 0..MaxRequests
      /\ fault \in {"none", "end", "division"}
      /\ setter \in {"none", "run", "lcp"} /\ early \subseteq {"init", "slot1"}
  BY DEF TypeOK
<1>a. /\ DefaultProfile \in Profiles /\ DefaultState \in Profiles
      /\ MaxRequests \in Nat /\ NumSlots \in Nat \ {0}
  BY ProfileAssumption
<1>o. Next => overlapped' \in BOOLEAN
  BY <1>t DEF Next
<1>1. ASSUME NEW n \in 1..NumSlots, Receive(n), overlapped' \in BOOLEAN PROVE TypeOK'
  <2>1. Append(slotChanges, n) \in Seq(1..NumSlots)
    BY <1>t, AppendProperties
  <2> QED BY <1>1, <1>t, <2>1 DEF Receive, TypeOK
<1>2. ASSUME ChangeSlot, overlapped' \in BOOLEAN PROVE TypeOK'
  <2>1. Tail(slotChanges) \in Seq(1..NumSlots) /\ Head(slotChanges) \in 1..NumSlots
    BY <1>2, <1>t, HeadTailProperties DEF ChangeSlot
  <2> QED BY <1>2, <1>t, <2>1, ZenonT(60) DEF ChangeSlot, TypeOK
<1>3. ASSUME FindSlot, overlapped' \in BOOLEAN PROVE TypeOK'
  <2> DEFINE R == [pc : {"none", "find", "compare", "store", "wait", "lost"},
                   num : 1..NumSlots, at : 0..NumSlots, value : CoreCounts \cup {0},
                   command : BOOLEAN]
  <2>1. run' \in R
    BY <1>3, Found
  <2>2. UNCHANGED <<initialized, stateVars, slot, active, syncVars, coreVars, lcp, requests,
                    fault, early>>
    BY <1>3 DEF FindSlot
  <2> QED BY <1>3, <1>t, <2>1, <2>2 DEF TypeOK
<1>4. ASSUME KeepSlot \/ UseMissingSlot \/ ExecCommand, overlapped' \in BOOLEAN
      PROVE  TypeOK'
  <2>1. CASE KeepSlot
    BY <1>4, <2>1, <1>t DEF KeepSlot, TypeOK
  <2>2. CASE UseMissingSlot
    BY <1>4, <2>2, <1>t DEF UseMissingSlot, TypeOK
  <2>3. CASE ExecCommand
    BY <1>4, <2>3, <1>t DEF ExecCommand, TypeOK
  <2> QED BY <1>4, <2>1, <2>2, <2>3
<1>5. ASSUME RaiseSlot, overlapped' \in BOOLEAN PROVE TypeOK'
  <2>1. run.value \in CoreCounts \cup {0} /\ RaiseCores(run.value, "run")
    BY <1>5, <1>t DEF RaiseSlot
  <2> QED BY <1>5, <1>t, <2>1, ChosenByRaise DEF RaiseSlot, TypeOK
<1>6. ASSUME StoreSlot, overlapped' \in BOOLEAN PROVE TypeOK'
  BY <1>6, <1>t DEF StoreSlot, Sensor, TypeOK
<1>7. ASSUME Initialize, overlapped' \in BOOLEAN PROVE TypeOK'
  BY <1>7, <1>t, <1>a DEF Initialize, TypeOK
<1>8. ASSUME NEW chosen \in BOOLEAN, Serve(chosen), overlapped' \in BOOLEAN,
             provState' \in Profiles, commState' \in Profiles,
             provisioned' \in Profiles \cup {-1}, committed' \in Profiles \cup {-1},
             lcp' \in [pc : {"idle", "search", "apply"}, at : 0..NumSlots]
      PROVE  TypeOK'
  <2>1. requests' \in 0..MaxRequests /\ early' \subseteq {"init", "slot1"}
    BY <1>8, <1>t, <1>a DEF Serve
  <2> QED BY <1>8, <1>t, <2>1 DEF Serve, TypeOK
<1>9. ASSUME NEW p \in Profiles, Provisioning(p), overlapped' \in BOOLEAN PROVE TypeOK'
  BY <1>9, <1>t, <1>8 DEF Provisioning
<1>10. ASSUME Rollback, overlapped' \in BOOLEAN PROVE TypeOK'
  BY <1>10, <1>t, <1>8 DEF Rollback, TaskRollback
<1>11. ASSUME Commit \/ Release, overlapped' \in BOOLEAN PROVE TypeOK'
  <2>1. [lcp EXCEPT !.pc = "search"] \in [pc : {"idle", "search", "apply"}, at : 0..NumSlots]
    BY <1>t
  <2>2. CASE Commit
    BY <2>2, <1>t, <1>8, <1>11, <2>1 DEF Commit
  <2>3. CASE Release
    BY <2>3, <1>t, <1>a, <1>8, <1>11, <2>1 DEF Release
  <2> QED BY <1>11, <2>2, <2>3
<1>12. ASSUME CommitSearch, overlapped' \in BOOLEAN PROVE TypeOK'
  BY <1>12, <1>t, Searched DEF CommitSearch, TypeOK
<1>13. ASSUME CommitApply, overlapped' \in BOOLEAN PROVE TypeOK'
  <2>1. lcp.at \in Entries
    BY <1>13 DEF CommitApply, StartInv
  <2>2. PICK c \in CoresOf(committed, lcp.at) : RaiseCores(c, "lcp")
    BY <1>13 DEF CommitApply
  <2>3. c \in CoreCounts \cup {0}
    BY <2>1, <2>2, EntriesTyped, CoresTyped
  <2>4. /\ coreChanges' \in Seq(CoreCounts \cup {0}) /\ setter' = "lcp" /\ cores' = cores
    BY <2>2, <2>3, ChosenByRaise
  <2>5. /\ UNCHANGED <<initialized, stateVars, active, syncVars, run, requests, fault, early>>
        /\ slot' = lcp.at /\ lcp' = [lcp EXCEPT !.pc = "idle"]
    BY <1>13 DEF CommitApply
  <2>6. lcp.at \in 0..NumSlots /\ lcp' \in [pc : {"idle", "search", "apply"}, at : 0..NumSlots]
    BY <1>t, <2>5
  <2> QED BY <1>13, <1>t, <2>4, <2>5, <2>6 DEF TypeOK
<1>14. ASSUME ApplyCores, overlapped' \in BOOLEAN PROVE TypeOK'
  BY <1>14, <1>t, ChosenByApply DEF ApplyCores, TypeOK
<1>15. CASE UNCHANGED vars
  BY <1>15, <1>t DEF vars, TypeOK
<1> QED
  BY <1>o, <1>1, <1>2, <1>3, <1>4, <1>5, <1>6, <1>7, <1>9, <1>10, <1>11, <1>12,
     <1>13, <1>14, <1>15 DEF Next, RunThread, LcpThread

-----------------------------------------------------------------------------
(* The invariant is inductive: what is found and chosen.                   *)

(* The profile in force changes with its entries.                          *)
LEMMA EntriesKept ==
  ASSUME initialized' = initialized, committed' = committed
  PROVE  Entries' = Entries
BY DEF Entries

LEMMA StartStep ==
  ASSUME TypeOK, StartInv, [Next]_vars
  PROVE  StartInv'
<1> USE DEF stateVars, syncVars, coreVars
<1>e. (lcp.pc = "apply" => lcp.at \in Entries) /\ (Entries # {} => initialized)
  BY EntriesTyped DEF StartInv
<1>1. CASE \E n \in 1..NumSlots : Receive(n)
  BY <1>1, <1>e, EntriesKept DEF Receive, StartInv
<1>2. CASE RunThread
  <2>1. run.pc # "none" /\ initialized
    BY <1>2 DEF RunThread, StartInv, ChangeSlot, FindSlot, KeepSlot, UseMissingSlot,
                ExecCommand, RaiseSlot, StoreSlot
  <2>2. initialized' = initialized /\ committed' = committed /\ lcp' = lcp
    BY <1>2 DEF RunThread, ChangeSlot, FindSlot, KeepSlot, UseMissingSlot, ExecCommand,
                RaiseSlot, StoreSlot
  <2> QED BY <2>1, <2>2, <1>e, EntriesKept DEF StartInv
<1>3. CASE Initialize
  BY <1>3 DEF Initialize, StartInv
<1>4. CASE Rollback \/ (\E p \in Profiles : Provisioning(p))
  BY <1>4, <1>e, EntriesKept DEF Rollback, Provisioning, Serve, StartInv
<1>5. CASE Commit \/ Release
  <2>1. lcp'.pc = "search" /\ UNCHANGED <<initialized, slot, run>>
    BY <1>5 DEF Commit, Release, Serve, TypeOK
  <2>2. lcp'.pc # "apply" /\ initialized' = initialized /\ slot' = slot /\ run' = run
    BY <2>1
  <2> QED BY <2>2 DEF StartInv
<1>6. CASE CommitSearch
  <2>1. lcp'.pc = "apply" => lcp'.at \in Entries
    BY <1>6, Searched
  <2> QED BY <1>6, <2>1, EntriesKept DEF CommitSearch, StartInv
<1>7. CASE CommitApply
  <2>1. lcp'.pc = "idle" /\ initialized
    BY <1>7, <1>e DEF CommitApply, TypeOK
  <2> QED BY <1>7, <2>1 DEF CommitApply, StartInv
<1>8. CASE ApplyCores
  BY <1>8, <1>e, EntriesKept DEF ApplyCores, StartInv
<1>9. CASE UNCHANGED vars
  BY <1>9, <1>e, EntriesKept DEF vars, StartInv
<1> QED BY <1>1, <1>2, <1>3, <1>4, <1>5, <1>6, <1>7, <1>8, <1>9 DEF Next, LcpThread

LEMMA SlotStep ==
  ASSUME TypeOK, StartInv, SlotInv, [Next]_vars
  PROVE  SlotInv'
<1> USE DEF stateVars, syncVars, coreVars
<1> SUFFICES ASSUME ~overlapped' PROVE SlotParts'
  BY DEF SlotInv
<1>o. ~overlapped /\ ~Overlapping /\ ~Overlapping'
  <2>1. CASE Next
    BY <2>1 DEF Next, SlotInv, SlotParts
  <2>2. CASE UNCHANGED vars
    BY <2>2 DEF vars, SlotInv, SlotParts, Overlapping
  <2> QED BY <2>1, <2>2
<1>s. SlotParts
  BY <1>o DEF SlotInv
<1>t. /\ run.pc \in {"none", "find", "compare", "store", "wait", "lost"}
      /\ run.num \in 1 .. NumSlots /\ run.at \in 0 .. NumSlots
      /\ lcp.pc \in {"idle", "search", "apply"} /\ lcp.at \in 0 .. NumSlots
      /\ slot \in 0 .. NumSlots /\ NumSlots \in Nat
  BY RunTyped
<1>e. Entries \subseteq 1 .. NumSlots
  BY EntriesTyped
(* Nothing changes but the place of the run thread, not to "store".        *)
<1>k. ASSUME NEW pc \in {"none", "find", "wait", "lost"},
             run' = [run EXCEPT !.pc = pc], run.pc # "store",
             UNCHANGED <<initialized, committed, slot, lcp, coreChanges, cores>>
      PROVE  SlotParts'
  <2>1. run'.pc = pc
    BY <1>k, RunChanged
  <2>2. Entries' = Entries /\ Chosen' = Chosen
    BY <1>k, EntriesKept, ChosenKept
  <2> QED BY <1>k, <1>o, <1>s, <2>1, <2>2 DEF SlotParts
(* Nor does that.                                                          *)
<1>u. ASSUME Chosen' = Chosen, UNCHANGED <<initialized, committed, slot, lcp, run>>
      PROVE  SlotParts'
  <2>1. Entries' = Entries
    BY <1>u, EntriesKept
  <2> QED BY <1>o, <1>s, <1>u, <2>1 DEF SlotParts
<1>1. CASE \E n \in 1..NumSlots : Receive(n)
  BY <1>1, <1>u, ChosenKept DEF Receive
<1>2. CASE ChangeSlot
  <2>1. /\ run.pc = "wait" /\ run'.pc = "find"
        /\ UNCHANGED <<initialized, committed, slot, lcp, coreChanges, cores>>
    BY <1>2 DEF ChangeSlot, TypeOK
  <2>2. Entries' = Entries /\ Chosen' = Chosen
    BY <2>1, EntriesKept, ChosenKept
  <2> QED BY <1>o, <1>s, <2>1, <2>2 DEF SlotParts
<1>3. CASE FindSlot
  <2>1. UNCHANGED <<initialized, committed, slot, lcp, coreChanges, cores>>
    BY <1>3 DEF FindSlot
  <2>2. Entries' = Entries /\ Chosen' = Chosen
    BY <2>1, EntriesKept, ChosenKept
  <2>3. /\ run.pc = "find" /\ run'.pc = "compare" /\ run'.num = run.num
        /\ run'.at = LastChange(Entries, run.num)
        /\ run'.at # NoEntry => run'.value \in CoresOf(committed, run'.at)
    BY <1>3, Found
  <2>4. lcp.pc = "idle"
    BY <1>o, <2>1, <2>3 DEF Overlapping
  <2>5. Gives(committed, Entries, slot, Chosen)
    BY <1>s, <2>3, <2>4 DEF SlotParts
  <2> QED BY <1>o, <2>1, <2>2, <2>3, <2>4, <2>5 DEF SlotParts
<1>4. CASE KeepSlot \/ UseMissingSlot \/ ExecCommand
  BY <1>4, <1>k DEF KeepSlot, UseMissingSlot, ExecCommand
<1>5. CASE RaiseSlot
  <2>1. /\ run.pc = "compare" /\ run.at # NoEntry /\ run' = [run EXCEPT !.pc = "store"]
        /\ UNCHANGED <<initialized, committed, slot, lcp>> /\ RaiseCores(run.value, "run")
    BY <1>5 DEF RaiseSlot
  <2>2. run'.pc = "store" /\ run'.num = run.num /\ run'.at = run.at /\ run'.value = run.value
    BY <2>1, RunChanged
  <2>3. Chosen' = run.value
    BY <2>1, ChosenByRaise, RunTyped
  <2>4. Entries' = Entries /\ lcp.pc = "idle"
    BY <1>o, <2>1, EntriesKept, <1>t DEF Overlapping
  <2> QED BY <1>o, <1>s, <2>1, <2>2, <2>3, <2>4 DEF SlotParts
<1>6. CASE StoreSlot
  <2>1. /\ run.pc = "store" /\ slot' = run.num /\ run' = [run EXCEPT !.pc = "wait"]
        /\ UNCHANGED <<initialized, committed, lcp, coreChanges, cores>>
    BY <1>6 DEF StoreSlot
  <2>2. Entries' = Entries /\ Chosen' = Chosen /\ run'.pc = "wait"
    BY <2>1, EntriesKept, ChosenKept, RunChanged
  <2>3. lcp.pc = "idle"
    BY <1>o, <2>1 DEF Overlapping
  <2>4. /\ run.at = LastChange(Entries, run.num) /\ run.at # NoEntry
        /\ run.value \in CoresOf(committed, run.at) /\ Chosen = run.value
    BY <1>s, <2>1 DEF SlotParts
  <2>l. LastChange(Entries, run.num) # NoEntry =>
          /\ LastChange(Entries, run.num) \in Entries
          /\ Max(UpTo(Entries, run.num)) = LastChange(Entries, run.num)
    BY <1>e, <1>t, LastChangeOf
  <2>5. /\ run.at \in Entries /\ Max(UpTo(Entries, run.num)) = run.at
    BY <2>4, <2>l
  <2>c. committed \in Profiles /\ run.at \in DOMAIN Table[committed]
    BY <2>5, EntriesTyped
  <2>6. Table[committed][run.at] # Command => run.value = Table[committed][run.at]
    BY <2>4, <2>c, CoresTyped
  <2>7. Gives(committed, Entries, run.num, Chosen)
    BY <2>4, <2>5, <2>6 DEF Gives
  <2> QED BY <1>o, <2>1, <2>2, <2>3, <2>7 DEF SlotParts
<1>7. CASE Initialize
  <2>1. /\ initialized' = TRUE /\ committed' = DefaultProfile /\ run'.pc = "find"
        /\ lcp.pc = "idle" /\ lcp' = lcp /\ slot' = 0
    BY <1>7 DEF Initialize, TypeOK, StartInv
  <2>2. \A k \in Entries' : k \in 1 .. NumSlots
    BY <2>1, ProfileAssumption DEF Entries
  <2>3. UpTo(Entries', 0) = {}
    BY <2>2, <1>t DEF UpTo
  <2>4. Gives(committed', Entries', slot', Chosen')
    BY <2>1, <2>3 DEF Gives
  <2> QED BY <1>o, <2>1, <2>4 DEF SlotParts
<1>8. CASE Rollback \/ (\E p \in Profiles : Provisioning(p))
  BY <1>8, <1>u, ChosenKept DEF Rollback, Provisioning, Serve
<1>9. CASE Commit \/ Release
  <2>1. lcp'.pc = "search" /\ run' = run
    BY <1>9 DEF Commit, Release, Serve, TypeOK
  <2>2. run'.pc \notin {"compare", "store"}
    BY <1>o, <2>1 DEF Overlapping
  <2> QED BY <1>o, <2>1, <2>2 DEF SlotParts
<1>10. CASE CommitSearch
  <2>1. UNCHANGED <<initialized, committed, slot, run, coreChanges, cores>>
    BY <1>10 DEF CommitSearch
  <2>2. /\ lcp.pc = "search" /\ lcp'.pc \in {"idle", "apply"}
        /\ lcp'.pc = "idle" => UpTo(Entries, slot) = {}
        /\ lcp'.pc = "apply" => \A k \in Entries : k <= slot => k <= lcp'.at
    BY <1>10, Searched
  <2>3. run.pc \notin {"compare", "store"}
    BY <1>o, <2>2 DEF Overlapping
  <2>4. Entries' = Entries
    BY <2>1, EntriesKept
  <2>5. lcp'.pc = "idle" => Gives(committed', Entries', slot', Chosen')
    BY <2>1, <2>2, <2>4 DEF Gives
  <2> QED BY <1>o, <2>1, <2>2, <2>3, <2>4, <2>5 DEF SlotParts
<1>11. CASE CommitApply
  <2>1. /\ lcp.pc = "apply" /\ slot' = lcp.at /\ lcp' = [lcp EXCEPT !.pc = "idle"]
        /\ UNCHANGED <<initialized, committed, run>>
    BY <1>11 DEF CommitApply
  <2>2. PICK c \in CoresOf(committed, lcp.at) : RaiseCores(c, "lcp")
    BY <1>11 DEF CommitApply
  <2>3. lcp.at \in Entries
    BY <2>1 DEF StartInv
  <2>c. committed \in Profiles /\ lcp.at \in DOMAIN Table[committed]
    BY <2>3, EntriesTyped
  <2>4. /\ c \in CoreCounts \cup {0}
        /\ Table[committed][lcp.at] # Command => c = Table[committed][lcp.at]
    BY <2>2, <2>c, CoresTyped
  <2>5. Chosen' = c /\ Entries' = Entries
    BY <2>1, <2>2, <2>4, ChosenByRaise, EntriesKept
  <2>6. Max(UpTo(Entries, lcp.at)) = lcp.at
    <3>1. \A k \in Entries : k \in 0 .. NumSlots
      BY <1>e
    <3>2. UpTo(Entries, lcp.at) \subseteq 0 .. NumSlots
      BY <3>1 DEF UpTo
    <3>3. lcp.at \in UpTo(Entries, lcp.at) /\ \A k \in UpTo(Entries, lcp.at) : k <= lcp.at
      BY <1>t, <2>3 DEF UpTo
    <3> QED BY <1>t, <3>2, <3>3, LargestIs
  <2>7. Gives(committed, Entries, lcp.at, c)
    BY <2>4, <2>6 DEF Gives
  <2>8. run.pc \notin {"compare", "store"} /\ lcp'.pc = "idle"
    BY <1>o, <2>1 DEF Overlapping, TypeOK
  <2> QED BY <1>o, <2>1, <2>5, <2>7, <2>8 DEF SlotParts
<1>12. CASE ApplyCores
  BY <1>12, <1>u, ChosenByApply DEF ApplyCores
<1>13. CASE UNCHANGED vars
  BY <1>13, <1>u, ChosenKept DEF vars
<1> QED
  BY <1>1, <1>2, <1>3, <1>4, <1>5, <1>6, <1>7, <1>8, <1>9, <1>10, <1>11, <1>12, <1>13
  DEF Next, RunThread, LcpThread

LEMMA SensorStep ==
  ASSUME TypeOK, StartInv, SensorInv, [Next]_vars
  PROVE  SensorInv'
<1> USE DEF stateVars, syncVars, coreVars
<1>t. run.pc \in {"none", "find", "compare", "store", "wait", "lost"}
  BY RunTyped
<1>k. ASSUME Chosen' = Chosen, UNCHANGED <<setter, active>>,
             run'.pc = "store" <=> run.pc = "store",
             run.pc = "store" => run'.value = run.value
      PROVE  SensorInv'
  BY <1>k DEF SensorInv
<1>c. ASSUME UNCHANGED <<coreChanges, cores, setter, active, run>> PROVE SensorInv'
  BY <1>c, <1>k, ChosenKept
<1>1. CASE \E n \in 1..NumSlots : Receive(n)
  BY <1>1, <1>c DEF Receive
<1>2. CASE ChangeSlot
  <2>1. run.pc = "wait" /\ run'.pc = "find" /\ UNCHANGED <<coreChanges, cores, setter, active>>
    BY <1>2 DEF ChangeSlot, TypeOK
  <2> QED BY <2>1, <1>k, ChosenKept
<1>3. CASE FindSlot
  <2>1. UNCHANGED <<coreChanges, cores, setter, active>>
    BY <1>3 DEF FindSlot
  <2>2. run.pc = "find" /\ run'.pc = "compare"
    BY <1>3, Found
  <2> QED BY <2>1, <2>2, <1>k, ChosenKept
<1>4. CASE KeepSlot \/ UseMissingSlot \/ ExecCommand
  <2>1. /\ run.pc = "compare" /\ run'.pc \in {"wait", "lost"}
        /\ UNCHANGED <<coreChanges, cores, setter, active>>
    BY <1>4 DEF KeepSlot, UseMissingSlot, ExecCommand, TypeOK
  <2> QED BY <2>1, <1>k, ChosenKept
<1>5. CASE RaiseSlot
  <2>1. run' = [run EXCEPT !.pc = "store"] /\ RaiseCores(run.value, "run")
    BY <1>5 DEF RaiseSlot
  <2>2. run'.pc = "store" /\ run'.value = run.value
    BY <2>1, RunChanged
  <2>3. Chosen' = run.value
    BY <2>1, ChosenByRaise, RunTyped
  <2> QED BY <2>2, <2>3 DEF SensorInv
<1>6. CASE StoreSlot
  <2>1. /\ run.pc = "store" /\ run'.pc = "wait" /\ active' = run.value
        /\ UNCHANGED <<coreChanges, cores, setter>>
    BY <1>6 DEF StoreSlot, Sensor, TypeOK
  <2>2. Chosen' = Chosen
    BY <2>1, ChosenKept
  <2> QED BY <2>1, <2>2 DEF SensorInv
<1>7. CASE Initialize
  <2>1. run.pc = "none" /\ run'.pc = "find" /\ UNCHANGED <<coreChanges, cores, setter, active>>
    BY <1>7 DEF Initialize, TypeOK, StartInv
  <2> QED BY <2>1, <1>k, ChosenKept
<1>8. CASE Rollback \/ Commit \/ Release \/ (\E p \in Profiles : Provisioning(p))
  BY <1>8, <1>c DEF Rollback, Commit, Release, Provisioning, Serve
<1>9. CASE CommitSearch
  BY <1>9, <1>c DEF CommitSearch
<1>10. CASE CommitApply
  <2>1. PICK c \in CoresOf(committed, lcp.at) : RaiseCores(c, "lcp")
    BY <1>10 DEF CommitApply
  <2>2. setter' = "lcp"
    BY <2>1 DEF RaiseCores
  <2> QED BY <2>2 DEF SensorInv
<1>11. CASE ApplyCores
  <2>1. UNCHANGED <<setter, active, run>>
    BY <1>11 DEF ApplyCores
  <2> QED BY <1>11, <2>1, <1>k, ChosenByApply
<1>12. CASE UNCHANGED vars
  BY <1>12, <1>c DEF vars
<1> QED
  BY <1>1, <1>2, <1>3, <1>4, <1>5, <1>6, <1>7, <1>8, <1>9, <1>10, <1>11, <1>12
  DEF Next, RunThread, LcpThread

LEMMA RunStatesStep ==
  ASSUME TypeOK, RunStatesInv, [Next]_vars
  PROVE  RunStatesInv'
<1> USE DEF stateVars, syncVars, coreVars
<1>k. ASSUME UNCHANGED <<initialized, stateVars, early>> PROVE RunStatesInv'
  BY <1>k DEF RunStatesInv
<1>1. CASE \E n \in 1..NumSlots : Receive(n)
  BY <1>1, <1>k DEF Receive
<1>2. CASE RunThread
  BY <1>2, <1>k DEF RunThread, ChangeSlot, FindSlot, KeepSlot, UseMissingSlot, ExecCommand,
                    RaiseSlot, StoreSlot
<1>3. CASE Initialize
  BY <1>3 DEF Initialize, RunStatesInv
<1>4. CASE Rollback \/ Commit \/ Release \/ (\E p \in Profiles : Provisioning(p))
  <2>1. /\ initialized' = initialized /\ early \subseteq early'
        /\ ~initialized => "init" \in early'
    BY <1>4 DEF Rollback, Commit, Release, Provisioning, Serve, TypeOK
  <2>2. CASE initialized
    BY <1>4, <2>1, <2>2 DEF Rollback, TaskRollback, Commit, Release, Provisioning, RunStatesInv
  <2>3. CASE ~initialized
    BY <2>1, <2>3 DEF RunStatesInv
  <2> QED BY <2>2, <2>3
<1>5. CASE CommitSearch \/ CommitApply \/ ApplyCores
  BY <1>5, <1>k DEF CommitSearch, CommitApply, ApplyCores
<1>6. CASE UNCHANGED vars
  BY <1>6, <1>k DEF vars
<1> QED BY <1>1, <1>2, <1>3, <1>4, <1>5, <1>6 DEF Next, LcpThread

LEMMA FirstSlotStep ==
  ASSUME TypeOK, StartInv, FirstSlotInv, [Next]_vars
  PROVE  FirstSlotInv'
<1> USE DEF stateVars, syncVars, coreVars
<1> DEFINE OnItsWay ==
             /\ lcp.pc = "idle" /\ (initialized => committed = DefaultProfile)
             /\ run.pc \in {"none", "find", "compare", "store"} /\ run.num = 1
             /\ run.pc \in {"compare", "store"} => run.at = 1 /\ ~run.command
<1> SUFFICES ASSUME FirstSlotHasCores, "slot1" \notin early'
             PROVE  fault' # "end" /\ (slot' = 0 => OnItsWay')
  BY DEF FirstSlotInv
<1>m. early \subseteq early'
  BY DEF Next, vars, Receive, RunThread, ChangeSlot, FindSlot, KeepSlot, UseMissingSlot,
         ExecCommand, RaiseSlot, StoreSlot, LcpThread, Initialize, Rollback, Commit,
         Release, Provisioning, Serve, CommitSearch, CommitApply, ApplyCores
<1>s. fault # "end" /\ (slot = 0 => OnItsWay)
  BY <1>m DEF FirstSlotInv
<1>t. /\ run.pc \in {"none", "find", "compare", "store", "wait", "lost"}
      /\ run.num \in 1 .. NumSlots /\ run.at \in 0 .. NumSlots
      /\ lcp.pc \in {"idle", "search", "apply"} /\ lcp.at \in 0 .. NumSlots
      /\ slot \in 0 .. NumSlots /\ NumSlots \in Nat \ {0}
  BY RunTyped
<1>k. ASSUME fault' # "end", UNCHANGED <<initialized, committed, slot, lcp, run>>
      PROVE  fault' # "end" /\ (slot' = 0 => OnItsWay')
  BY <1>k, <1>s
<1>1. CASE \E n \in 1..NumSlots : Receive(n)
  BY <1>1, <1>k, <1>s DEF Receive
<1>2. CASE ChangeSlot
  <2>1. slot # 0 /\ slot' = slot /\ fault' = fault
    BY <1>2, <1>s DEF ChangeSlot
  <2> QED BY <1>s, <2>1
<1>3. CASE FindSlot
  <2>1. UNCHANGED <<initialized, committed, slot, lcp, fault>>
    BY <1>3 DEF FindSlot
  <2>2. /\ run.pc = "find" /\ run'.pc = "compare" /\ run'.num = run.num
        /\ run'.at = LastChange(Entries, run.num)
        /\ run'.at # NoEntry =>
             (run'.command <=> (run'.at = run.num /\ Table[committed][run'.at] = Command))
    BY <1>3, Found
  <2>3. ASSUME slot = 0 PROVE OnItsWay'
    <3>1. initialized /\ committed = DefaultProfile /\ run.num = 1
      <4>1. initialized
        BY <2>2 DEF StartInv
      <4> QED BY <1>s, <2>3, <4>1
    <3>2. 1 \in Entries /\ Table[committed][1] # Command
      BY <3>1, ProfileAssumption DEF Entries, FirstSlotHasCores
    <3>3. LastChange(Entries, 1) = 1
      BY <1>t, <3>2, EntriesTyped, LastChangeOf
    <3>4. run'.at = 1
      BY <2>2, <3>1, <3>3
    <3>5. ~run'.command
      BY <2>2, <3>2, <3>1, <3>4 DEF NoEntry
    <3> QED BY <1>s, <2>1, <2>2, <2>3, <3>1, <3>4, <3>5
  <2> QED BY <1>s, <2>1, <2>3
<1>4. CASE KeepSlot \/ UseMissingSlot \/ ExecCommand
  <2>1. run.pc = "compare" /\ slot' = slot
    BY <1>4 DEF KeepSlot, UseMissingSlot, ExecCommand
  <2>2. slot # 0
    <3>1. SUFFICES ASSUME slot = 0 PROVE FALSE
      OBVIOUS
    <3>2. run.at = 1 /\ ~run.command /\ run.num = 1
      BY <1>s, <2>1, <3>1
    <3>3. Later /\ run.at # NoEntry
      BY <3>1, <3>2 DEF Later, FoundNum, NoEntry
    <3> QED BY <1>4, <3>2, <3>3 DEF KeepSlot, UseMissingSlot, ExecCommand
  <2>3. ~UseMissingSlot
    <3>1. SUFFICES ASSUME UseMissingSlot PROVE FALSE
      OBVIOUS
    <3>2. FoundNum \in {0, 1} /\ FoundNum > slot
      BY <3>1 DEF UseMissingSlot, Later, FoundNum
    <3> QED BY <1>t, <2>2, <3>2
  <2>4. fault' = fault
    BY <1>4, <2>3 DEF KeepSlot, ExecCommand
  <2> QED BY <1>s, <2>1, <2>2, <2>4
<1>5. CASE RaiseSlot
  <2>1. /\ UNCHANGED <<initialized, committed, slot, lcp, fault>>
        /\ run.pc = "compare" /\ run' = [run EXCEPT !.pc = "store"]
    BY <1>5 DEF RaiseSlot
  <2>2. /\ run'.pc = "store" /\ run'.num = run.num /\ run'.at = run.at
        /\ run'.command = run.command
    BY <2>1, RunChanged
  <2> QED BY <1>s, <2>1, <2>2
<1>6. CASE StoreSlot
  <2>1. slot' # 0 /\ fault' = fault
    BY <1>6, <1>t DEF StoreSlot
  <2> QED BY <1>s, <2>1
<1>7. CASE Initialize
  <2>1. /\ UNCHANGED <<slot, lcp, fault>> /\ committed' = DefaultProfile
        /\ lcp.pc = "idle" /\ run' = [run EXCEPT !.pc = "find"]
    BY <1>7 DEF Initialize
  <2>2. run'.pc = "find" /\ run'.num = run.num
    BY <2>1, RunChanged
  <2> QED BY <1>s, <2>1, <2>2
<1>8. CASE Rollback \/ (\E p \in Profiles : Provisioning(p))
  BY <1>8, <1>k, <1>s DEF Rollback, Provisioning, Serve
<1>9. CASE Commit \/ Release
  <2>1. slot # 0 /\ slot' = slot /\ fault' = fault
    BY <1>9 DEF Commit, Release, Serve
  <2> QED BY <1>s, <2>1
<1>10. CASE CommitSearch
  <2>1. slot # 0 /\ slot' = slot /\ fault' = fault
    BY <1>10, <1>s DEF CommitSearch
  <2> QED BY <1>s, <2>1
<1>11. CASE CommitApply
  <2>1. lcp.at \in 1 .. NumSlots /\ slot' = lcp.at /\ fault' = fault
    BY <1>11, EntriesTyped DEF CommitApply, StartInv
  <2>2. slot' # 0
    BY <1>t, <2>1
  <2> QED BY <1>s, <2>1, <2>2
<1>12. CASE ApplyCores
  <2>1. fault' # "end" /\ UNCHANGED <<initialized, committed, slot, lcp, run>>
    BY <1>12, <1>s DEF ApplyCores
  <2> QED BY <1>k, <2>1
<1>13. CASE UNCHANGED vars
  BY <1>13, <1>k, <1>s DEF vars
<1> QED
  BY <1>1, <1>2, <1>3, <1>4, <1>5, <1>6, <1>7, <1>8, <1>9, <1>10, <1>11, <1>12, <1>13
  DEF Next, RunThread, LcpThread

-----------------------------------------------------------------------------
(* The theorems.                                                           *)

LEMMA ProfileInvInit == Init => ProfileInv
<1> SUFFICES ASSUME Init PROVE ProfileInv
  OBVIOUS
<1>1. TypeOK
  <2>1. <<>> \in Seq(1..NumSlots) /\ <<>> \in Seq(CoreCounts \cup {0})
    OBVIOUS
  <2>2. 1 \in 1..NumSlots /\ 0 \in 0..NumSlots /\ 0 \in 0..MaxRequests
    BY ProfileAssumption
  <2>3. /\ run \in [pc : {"none", "find", "compare", "store", "wait", "lost"}, num : 1..NumSlots,
                    at : 0..NumSlots, value : CoreCounts \cup {0}, command : BOOLEAN]
        /\ lcp \in [pc : {"idle", "search", "apply"}, at : 0..NumSlots]
    BY <2>2 DEF Init, NoEntry
  <2> QED BY <2>1, <2>2, <2>3, ProfileAssumption DEF Init, TypeOK
<1>2. StartInv /\ RunStatesInv /\ SensorInv /\ FirstSlotInv
  BY DEF Init, StartInv, RunStatesInv, SensorInv, FirstSlotInv
<1>3. SlotInv
  <2>1. Entries = {}
    BY DEF Init, Entries
  <2>2. UpTo({}, 0) = {}
    BY DEF UpTo
  <2> QED BY <2>1, <2>2 DEF Init, SlotInv, SlotParts, Overlapping, Gives
<1> QED BY <1>1, <1>2, <1>3 DEF ProfileInv

LEMMA ProfileInvAlways == Spec => []ProfileInv
<1>1. ProfileInv /\ [Next]_vars => ProfileInv'
  BY ProfileTypeStep, StartStep, SlotStep, SensorStep, RunStatesStep, FirstSlotStep DEF ProfileInv
<1> QED BY ProfileInvInit, <1>1, PTL DEF Spec

(* Every variable of the task keeps its type: no slot beyond the last is   *)
(* in use and no number of cores that no profile has.                      *)
THEOREM ProfileTypeCorrect == Spec => []TypeOK
<1>1. ProfileInv => TypeOK
  BY DEF ProfileInv
<1> QED BY <1>1, ProfileInvAlways, PTL

(* For any profiles and any order of slots and requests: while change_slot *)
(* and commit do not overlap the cores in use are those of the committed   *)
(* profile, the sensor tells what change_slot chose, and the power states  *)
(* of the element and the profiles of its task go together.                *)
THEOREM ProfileStaysInForce == Spec => []ProfileInForce
<1>1. ASSUME ProfileInv PROVE ProfileInForce
  <2>1. SensorTellsCores
    BY <1>1 DEF ProfileInv, SensorInv, SensorTellsCores, Quiet, Chosen
  <2>2. StatesAgree
    BY <1>1 DEF ProfileInv, RunStatesInv, StatesAgree
  <2>3. ASSUME Quiet, ~overlapped PROVE Gives(committed, Entries, slot, cores)
    BY <1>1, <2>3 DEF ProfileInv, SlotInv, SlotParts, Quiet, Chosen
  <2>4. UpTo(Entries, slot) = {n \in Slots(committed) : n <= slot}
    BY <1>1, EntriesTyped DEF ProfileInv, UpTo
  <2>5. CoresFollowProfile
    BY <2>3, <2>4 DEF CoresFollowProfile, Gives
  <2> QED BY <2>1, <2>2, <2>5 DEF ProfileInForce
<1> QED BY <1>1, ProfileInvAlways, PTL

(* However requests and slots overlap, change_slot uses the end iterator   *)
(* only after a commit or a release that came before slot 1 was stored,    *)
(* if the default profile has cores for slot 1.                            *)
THEOREM EndIteratorNeedsEarlyCommit == Spec => []EndIteratorOnlyAfterEarlyCommit
<1>1. ProfileInv => EndIteratorOnlyAfterEarlyCommit
  BY DEF ProfileInv, FirstSlotInv, EndIteratorOnlyAfterEarlyCommit
<1> QED BY <1>1, ProfileInvAlways, PTL

-----------------------------------------------------------------------------
(* PowerStates.                                                            *)

(* The inductive invariant.                                                *)

(* The elements the loop of a provisioning has passed: all, once it is     *)
(* over.                                                                   *)
Passed(e) ==
  \E i \in DOMAIN LCPs : LCPs[i] = e /\ (job.sends = "provisioning" => i < job.next)

IsPut(m) == Operation(m) = "provisioning"

(* With every request delivered in its order, e ends in the state of the   *)
(* device: its last provisioning is on its way, or has arrived and what    *)
(* is still to come is late, or provisions nothing.                        *)
PutOnItsWay(e) ==
  \E i \in DOMAIN flight[e] :
    /\ IsPut(flight[e][i]) /\ flight[e][i].state = devProv
    /\ \A j \in DOMAIN flight[e] : i < j => ~IsPut(flight[e][j])
PutArrived(e) ==
  /\ prov[e] = devProv
  /\ \A i \in DOMAIN flight[e] : flight[e][i].late \/ ~IsPut(flight[e][i])

JobInv ==
  /\ job.sends = "provisioning" => job.state = devProv
  /\ job.sends # "nothing" => answer.code = "none"

HealInv ==
  cause = {} => \A e \in hasGal : Passed(e) => PutOnItsWay(e) \/ PutArrived(e)

(* An answer that is not a failure (yet) has been told to all that the     *)
(* loop has passed.                                                        *)
ToldInv ==
  (answer.of = "provisioning" /\ answer.code # "GalFailure" /\ "joined" \notin cause)
    => \A e \in hasGal : Passed(e) => e \in answer.told

StatesInv == StatesTypeOK /\ JobInv /\ HealInv /\ ToldInv

-----------------------------------------------------------------------------
(* Requests and their queues.                                              *)

LEMMA MessagesTyped ==
  ASSUME NEW s \in State
  PROVE  /\ Put(s) \in Requests /\ Delete \in Requests
         /\ Post("gal:commit") \in Requests /\ Post("gal:rollback") \in Requests
         /\ IsPut(Put(s)) /\ Put(s).state = s /\ ~Put(s).late
         /\ ~IsPut(Post("gal:commit"))
BY PowerAssumption DEF Put, Post, Delete, Requests, IsPut, Operation, RootName

(* The name of the document is empty: no POST is a commit or a rollback.   *)
LEMMA OperationIs ==
  ASSUME NEW m
  PROVE  Operation(m) \in {"provisioning", "refused"}
BY DEF Operation, RootName

LEMMA LoopTyped ==
  ASSUME StatesTypeOK
  PROVE  /\ Len(LCPs) \in Nat /\ DOMAIN LCPs = 1 .. Len(LCPs)
         /\ \A i \in DOMAIN LCPs : LCPs[i] \in Elements
         /\ \A e \in Elements : \E i \in DOMAIN LCPs : LCPs[i] = e
         /\ job.next \in 1 .. Len(LCPs) + 1
         /\ job.sends \in {"nothing", "provisioning", "commit"}
<1>1. LCPs \in Seq(Elements) /\ Elements = {LCPs[i] : i \in DOMAIN LCPs}
  BY PowerAssumption DEF Elements, ToSet
<1>2. Len(LCPs) \in Nat /\ DOMAIN LCPs = 1 .. Len(LCPs)
  BY <1>1, LenProperties
<1> QED BY <1>1, <1>2 DEF StatesTypeOK

(* A request is added at the end of a queue. *)
LEMMA Queued ==
  ASSUME NEW s \in Seq(Requests), NEW m \in Requests
  PROVE  /\ Append(s, m) \in Seq(Requests)
         /\ DOMAIN s \subseteq DOMAIN Append(s, m)
         /\ Len(s) + 1 \in DOMAIN Append(s, m) /\ Append(s, m)[Len(s) + 1] = m
         /\ \A i \in DOMAIN s : Append(s, m)[i] = s[i] /\ i < Len(s) + 1
         /\ \A i \in DOMAIN Append(s, m) : i \in DOMAIN s \/ i = Len(s) + 1
<1>1. Len(s) \in Nat /\ DOMAIN s = 1 .. Len(s)
  BY LenProperties
<1>2. /\ Append(s, m) \in Seq(Requests) /\ Len(Append(s, m)) = Len(s) + 1
      /\ \A i \in 1 .. Len(s) : Append(s, m)[i] = s[i]
      /\ Append(s, m)[Len(s) + 1] = m
  BY AppendProperties
<1>3. DOMAIN Append(s, m) = 1 .. Len(s) + 1
  BY <1>2, LenProperties
<1> QED BY <1>1, <1>2, <1>3

LEMMA Removed ==
  ASSUME NEW s \in Seq(Requests), NEW i \in 1 .. Len(s)
  PROVE  RemoveAt(s, i) \in Seq(Requests)
<1>1. Len(s) \in Nat
  BY LenProperties
<1>2. SubSeq(s, 1, i - 1) \in Seq(Requests) /\ SubSeq(s, i + 1, Len(s)) \in Seq(Requests)
  BY <1>1, SubSeqProperties
<1> QED BY <1>2, ConcatProperties DEF RemoveAt

(* What an arrival leaves of a queue. *)
Rest(s, i) ==
  [j \in 1 .. Len(s) - 1 |-> IF j < i THEN [s[j] EXCEPT !.late = TRUE] ELSE s[j + 1]]

LEMMA RestOf ==
  ASSUME NEW s \in Seq(Requests), NEW i \in 1 .. Len(s)
  PROVE  /\ Rest(s, i) \in Seq(Requests)
         /\ DOMAIN Rest(s, i) = 1 .. Len(s) - 1
         /\ \A j \in 1 .. Len(s) - 1 :
              /\ j < i => /\ j \in DOMAIN s /\ Rest(s, i)[j].late
                          /\ Rest(s, i)[j].state = s[j].state
                          /\ IsPut(Rest(s, i)[j]) <=> IsPut(s[j])
              /\ j >= i => j + 1 \in DOMAIN s /\ Rest(s, i)[j] = s[j + 1]
         /\ DOMAIN s = 1 .. Len(s) /\ Len(s) \in Nat
<1>1. Len(s) \in Nat /\ DOMAIN s = 1 .. Len(s) /\ \A j \in 1 .. Len(s) : s[j] \in Requests
  BY LenProperties
<1>2. \A m \in Requests :
        /\ [m EXCEPT !.late = TRUE] \in Requests
        /\ [m EXCEPT !.late = TRUE].late /\ [m EXCEPT !.late = TRUE].state = m.state
        /\ [m EXCEPT !.late = TRUE].method = m.method
  BY DEF Requests
<1>3. \A m \in Requests : IsPut([m EXCEPT !.late = TRUE]) <=> IsPut(m)
  BY <1>2 DEF IsPut, Operation, RootName
<1>4. ASSUME NEW j \in 1 .. Len(s) - 1
      PROVE  /\ j < i => /\ j \in DOMAIN s /\ Rest(s, i)[j] = [s[j] EXCEPT !.late = TRUE]
             /\ j >= i => j + 1 \in DOMAIN s /\ Rest(s, i)[j] = s[j + 1]
  <2>1. j \in 1 .. Len(s) /\ j + 1 \in 1 .. Len(s) /\ (j >= i => ~(j < i))
    BY <1>1
  <2> QED BY <1>1, <2>1 DEF Rest
<1>5. DOMAIN Rest(s, i) = 1 .. Len(s) - 1
  BY DEF Rest
<1>6. \A j \in 1 .. Len(s) - 1 : Rest(s, i)[j] \in Requests
  <2>1. ASSUME NEW j \in 1 .. Len(s) - 1 PROVE j < i \/ j >= i
    BY <1>1
  <2> QED BY <1>1, <1>2, <1>4, <2>1
<1>7. Rest(s, i) \in Seq(Requests)
  <2>1. Len(s) - 1 \in Nat
    BY <1>1
  <2>2. Rest(s, i) \in [1 .. Len(s) - 1 -> Requests]
    BY <1>5, <1>6 DEF Rest
  <2> QED BY <2>1, <2>2, SeqDef
<1>8. ASSUME NEW j \in 1 .. Len(s) - 1, j < i
      PROVE  /\ j \in DOMAIN s /\ Rest(s, i)[j].late /\ Rest(s, i)[j].state = s[j].state
             /\ IsPut(Rest(s, i)[j]) <=> IsPut(s[j])
  <2>1. j \in DOMAIN s /\ s[j] \in Requests
    BY <1>1, <1>4, <1>8
  <2>2. Rest(s, i)[j] = [s[j] EXCEPT !.late = TRUE]
    BY <1>4, <1>8
  <2>3. /\ [s[j] EXCEPT !.late = TRUE].late /\ [s[j] EXCEPT !.late = TRUE].state = s[j].state
        /\ IsPut([s[j] EXCEPT !.late = TRUE]) <=> IsPut(s[j])
    BY <1>2, <1>3, <2>1
  <2> QED BY <2>1, <2>2, <2>3
<1> QED BY <1>1, <1>4, <1>5, <1>7, <1>8

-----------------------------------------------------------------------------
(* The invariant is inductive.                                             *)

LEMMA JobsTyped ==
  ASSUME StatesTypeOK, NEW s \in State, NEW then \in {"nothing", "commit"}
  PROVE  LET J == [sends : {"nothing", "provisioning", "commit"}, state : State,
                   next : 1..Len(LCPs) + 1, then : {"nothing", "commit"}]
         IN /\ Idle \in J /\ [Idle EXCEPT !.sends = "commit"] \in J
            /\ [sends |-> "provisioning", state |-> s, next |-> 1, then |-> then] \in J
            /\ job.next <= Len(LCPs) => [job EXCEPT !.next = @ + 1] \in J
<1>1. /\ Len(LCPs) \in Nat /\ 1 \in 1..Len(LCPs) + 1
      /\ job.next <= Len(LCPs) => job.next + 1 \in 1..Len(LCPs) + 1
  BY LoopTyped
<1>2. DeviceDefault \in State
  BY PowerAssumption
<1> QED BY <1>1, <1>2 DEF StatesTypeOK, Idle

LEMMA SendTyped ==
  ASSUME StatesTypeOK, NEW e \in Elements, NEW m \in Requests, NEW code, Send(e, m, code)
  PROVE  flight' \in [Elements -> Seq(Requests)]
<1>1. flight \in [Elements -> Seq(Requests)] /\ flight[e] \in Seq(Requests)
  BY DEF StatesTypeOK
<1>2. Append(flight[e], m) \in Seq(Requests)
  BY <1>1, Queued
<1>3. flight' = [flight EXCEPT ![e] = Append(flight[e], m)] \/ flight' = flight
  BY DEF Send
<1> QED BY <1>1, <1>2, <1>3

LEMMA StatesTypeStep ==
  ASSUME StatesTypeOK, [StatesNext]_statesVars
  PROVE  StatesTypeOK'
<1> USE DEF device, elements
<1> DEFINE J == [sends : {"nothing", "provisioning", "commit"}, state : State,
                 next : 1..Len(LCPs) + 1, then : {"nothing", "commit"}]
           A == [of : {"nothing", "provisioning", "commit", "rollback", "element"},
                 code : {"none", "GalSuccess", "GalFailure", "GalResourceNotFound",
                         "GalProtocolError", "GalNotImplemented"},
                 told : SUBSET Elements]
           C == {"never", "joined", "lost", "overtaken", "failed", "rollback", "element"}
<1>t. /\ devProv \in State /\ devComm \in State /\ hasGal \subseteq Elements
      /\ job \in J /\ answer \in A /\ served \in 0..MaxServed
      /\ flight \in [Elements -> Seq(Requests)]
      /\ prov \in [Elements -> State] /\ comm \in [Elements -> State]
      /\ cause \subseteq C /\ crashed \in BOOLEAN
  BY DEF StatesTypeOK
<1>a. DeviceDefault \in State /\ MaxServed \in Nat
  BY PowerAssumption
<1>q. ASSUME served' = served \/ (served < MaxServed /\ served' = served + 1)
      PROVE  served' \in 0..MaxServed
  BY <1>q, <1>t, <1>a
<1>n. ASSUME NEW of \in {"provisioning", "commit", "rollback", "element"},
             NEW code \in {"none", "GalSuccess", "GalFailure", "GalResourceNotFound",
                           "GalProtocolError", "GalNotImplemented"},
             Answered(of, code, {})
      PROVE  answer' \in A
  BY <1>n DEF Answered
<1>1. ASSUME NEW e \in Elements, NEW i \in 1..Len(flight[e]), Arrive(e, i) PROVE StatesTypeOK'
  <2>1. flight[e] \in Seq(Requests) /\ flight[e][i] \in Requests
    BY <1>t, ElementOfSeq
  <2>2. flight' = [flight EXCEPT ![e] = Rest(flight[e], i)]
    BY <1>1, <1>t DEF Arrive, Rest
  <2>3. flight' \in [Elements -> Seq(Requests)]
    BY <1>t, <2>1, <2>2, RestOf
  <2>4. flight[e][i].state \in State
    BY <2>1 DEF Requests
  <2>5. prov' \in [Elements -> State] /\ comm' \in [Elements -> State]
    BY <1>1, <1>t, <2>4 DEF Arrive
  <2>6. cause' \subseteq C
    BY <1>1, <1>t DEF Arrive
  <2>7. UNCHANGED <<devProv, devComm, hasGal, job, answer, served, crashed>>
    BY <1>1 DEF Arrive
  <2> QED BY <1>t, <2>3, <2>5, <2>6, <2>7 DEF StatesTypeOK
<1>2. ASSUME NEW e \in Elements, NEW i \in 1..Len(flight[e]), Lose(e, i) PROVE StatesTypeOK'
  <2>1. flight[e] \in Seq(Requests)
    BY <1>t
  <2>2. RemoveAt(flight[e], i) \in Seq(Requests)
    BY <2>1, Removed
  <2>3. flight' = [flight EXCEPT ![e] = RemoveAt(flight[e], i)]
    BY <1>2 DEF Lose
  <2>4. flight' \in [Elements -> Seq(Requests)]
    BY <1>t, <2>2, <2>3
  <2> QED BY <1>2, <1>t, <2>4 DEF Lose, StatesTypeOK
<1>3. ASSUME NEW e \in Elements, AddGal(e) PROVE StatesTypeOK'
  BY <1>3, <1>t DEF AddGal, StatesTypeOK
<1>4. ASSUME NEW s \in State, NEW then \in {"nothing", "commit"}, DeviceProvisioning(s, then)
      PROVE  StatesTypeOK'
  <2>1. job' \in J /\ answer' \in A /\ served' \in 0..MaxServed
    BY <1>4, <1>n, <1>q, JobsTyped DEF DeviceProvisioning, ServeGSI
  <2> QED BY <1>4, <1>t, <2>1 DEF DeviceProvisioning, StatesTypeOK
<1>5. ASSUME DeviceCommit PROVE StatesTypeOK'
  <2>1. job' \in J /\ answer' \in A /\ served' \in 0..MaxServed
    BY <1>5, <1>n, <1>q, <1>a, JobsTyped DEF DeviceCommit, ServeGSI
  <2> QED BY <1>5, <1>t, <2>1 DEF DeviceCommit, StatesTypeOK
<1>6. ASSUME DeviceRollback PROVE StatesTypeOK'
  <2>1. answer' \in A /\ served' \in 0..MaxServed
    BY <1>6, <1>n, <1>q DEF DeviceRollback, ServeGSI
  <2>2. crashed' \in BOOLEAN
    BY <1>6, <1>t DEF DeviceRollback
  <2> QED BY <1>6, <1>t, <2>1, <2>2 DEF DeviceRollback, StatesTypeOK
<1>7. ASSUME NEW e \in Elements, NEW m \in Requests, ForwardToElement(e, m) PROVE StatesTypeOK'
  <2>1. PICK code \in Codes(e) :
          /\ Send(e, m, code)
          /\ Answered("element", IF m = Delete /\ code = "GalSuccess"
                                 THEN "GalNotImplemented" ELSE code, {})
    BY <1>7 DEF ForwardToElement
  <2>2. answer' \in A /\ flight' \in [Elements -> Seq(Requests)]
    BY <1>n, <2>1, SendTyped DEF Codes
  <2>3. served' \in 0..MaxServed
    BY <1>7, <1>q DEF ForwardToElement, ServeGSI
  <2> QED BY <1>7, <1>t, <2>2, <2>3 DEF ForwardToElement, StatesTypeOK
<1>8. ASSUME LoopStep PROVE StatesTypeOK'
  <2>1. job.next \in DOMAIN LCPs /\ job.next <= Len(LCPs) /\ LCPs[job.next] \in Elements
    BY <1>8, LoopTyped DEF LoopStep
  <2> DEFINE e == LCPs[job.next]
  <2>2. PICK code \in Codes(e) :
          /\ Send(e, Message, code)
          /\ IF StopsLoop(code)
             THEN /\ job' = Idle
                  /\ cause' = cause \cup {"failed"}
                  /\ answer' = [answer EXCEPT !.code = "GalFailure"]
             ELSE /\ job' = [job EXCEPT !.next = @ + 1]
                  /\ answer' = [answer EXCEPT !.told = @ \cup
                                  (IF code = "GalSuccess" THEN {e} ELSE {})]
                  /\ UNCHANGED cause
    BY <1>8 DEF LoopStep
  <2>3. job.state \in State /\ Message \in Requests
    BY <1>t, MessagesTyped DEF Message
  <2>4. flight' \in [Elements -> Seq(Requests)]
    BY <2>1, <2>2, <2>3, SendTyped
  <2>5. job' \in J
    BY <1>a, <2>1, <2>2, JobsTyped
  <2>6. answer' \in A /\ cause' \subseteq C
    BY <1>t, <2>1, <2>2
  <2>7. UNCHANGED <<devProv, devComm, hasGal, served, prov, comm, crashed>>
    BY <1>8 DEF LoopStep
  <2> QED BY <1>t, <2>4, <2>5, <2>6, <2>7 DEF StatesTypeOK
<1>9. ASSUME LoopEnd PROVE StatesTypeOK'
  <2>1. job' \in J
    BY <1>9, <1>a, JobsTyped DEF LoopEnd
  <2>2. answer' \in A
    BY <1>9, <1>t DEF LoopEnd
  <2> QED BY <1>9, <1>t, <2>1, <2>2 DEF LoopEnd, StatesTypeOK
<1>10. CASE UNCHANGED statesVars
  BY <1>10, <1>t DEF statesVars, StatesTypeOK
<1> QED
  BY <1>a, <1>1, <1>2, <1>3, <1>4, <1>5, <1>6, <1>7, <1>8, <1>9, <1>10, MessagesTyped
  DEF StatesNext, Network, Request

(* A request that is not refused goes on its way.                          *)
LEMMA SendChanges ==
  ASSUME StatesTypeOK, NEW f \in Elements, NEW m, NEW code, Send(f, m, code)
  PROVE  /\ \A e \in Elements : e # f => flight'[e] = flight[e]
         /\ code = "GalSuccess" => flight'[f] = Append(flight[f], m)
         /\ code # "GalSuccess" => flight'[f] = flight[f]
BY DEF StatesTypeOK, Send

(* What LoopStep does, if no failure ends the loop.                        *)
LEMMA LoopGoesOn ==
  ASSUME StatesTypeOK, LoopStep, job'.sends # "nothing"
  PROVE  LET f == LCPs[job.next]
         IN /\ job.next \in DOMAIN LCPs /\ f \in Elements
            /\ job'.sends = job.sends /\ job'.next = job.next + 1 /\ job'.state = job.state
            /\ cause' = cause /\ answer'.of = answer.of /\ answer'.code = answer.code
            /\ answer.told \subseteq answer'.told
            /\ f \in hasGal => /\ flight'[f] = Append(flight[f], Message)
                               /\ f \in answer'.told
            /\ f \notin hasGal => flight'[f] = flight[f]
            /\ \A e \in Elements : e # f => flight'[e] = flight[e]
<1> DEFINE f == LCPs[job.next]
<1>1. job.next \in DOMAIN LCPs /\ f \in Elements
  BY LoopTyped DEF LoopStep
<1>2. PICK code \in Codes(f) :
        /\ Send(f, Message, code)
        /\ IF StopsLoop(code)
           THEN /\ job' = Idle
                /\ cause' = cause \cup {"failed"}
                /\ answer' = [answer EXCEPT !.code = "GalFailure"]
           ELSE /\ job' = [job EXCEPT !.next = @ + 1]
                /\ answer' = [answer EXCEPT !.told = @ \cup
                                (IF code = "GalSuccess" THEN {f} ELSE {})]
                /\ UNCHANGED cause
  BY DEF LoopStep
<1>3. ~StopsLoop(code)
  BY <1>2 DEF Idle
<1>4. /\ f \in hasGal => code = "GalSuccess"
      /\ f \notin hasGal => code # "GalSuccess"
  BY <1>2, <1>3 DEF Codes, StopsLoop
<1>5. /\ job' = [job EXCEPT !.next = @ + 1] /\ cause' = cause
      /\ answer' = [answer EXCEPT !.told = @ \cup (IF code = "GalSuccess" THEN {f} ELSE {})]
  BY <1>2, <1>3
<1>6. /\ \A e \in Elements : e # f => flight'[e] = flight[e]
      /\ code = "GalSuccess" => flight'[f] = Append(flight[f], Message)
      /\ code # "GalSuccess" => flight'[f] = flight[f]
  <2> HIDE DEF f
  <2> QED BY <1>1, <1>2, SendChanges
<1>7. job'.sends = job.sends /\ job'.next = job.next + 1 /\ job'.state = job.state
  BY <1>5 DEF StatesTypeOK
<1>8. /\ answer'.of = answer.of /\ answer'.code = answer.code
      /\ answer.told \subseteq answer'.told /\ (code = "GalSuccess" => f \in answer'.told)
  BY <1>5 DEF StatesTypeOK
<1> QED BY <1>1, <1>4, <1>5, <1>6, <1>7, <1>8

LEMMA JobStep ==
  ASSUME StatesTypeOK, JobInv, [StatesNext]_statesVars
  PROVE  JobInv'
<1> USE DEF device, elements
<1>t. /\ job.sends \in {"nothing", "provisioning", "commit"}
      /\ Idle.sends = "nothing" /\ [Idle EXCEPT !.sends = "commit"].sends = "commit"
  BY DEF StatesTypeOK, Idle
<1>k. ASSUME UNCHANGED <<devProv, job, answer>> PROVE JobInv'
  BY <1>k DEF JobInv
<1>1. CASE Network
  BY <1>1, <1>k DEF Network, AddGal, Arrive, Lose
<1>2. ASSUME NEW s, NEW then, DeviceProvisioning(s, then) PROVE JobInv'
  BY <1>2 DEF DeviceProvisioning, Answered, JobInv
<1>3. CASE DeviceCommit
  BY <1>3, <1>t DEF DeviceCommit, Answered, JobInv
<1>4. CASE DeviceRollback \/ (\E e \in Elements : \E m : ForwardToElement(e, m))
  <2>1. job.sends = "nothing" /\ job' = job
    BY <1>4, <1>t DEF DeviceRollback, ForwardToElement, ServeGSI
  <2> QED BY <2>1 DEF JobInv
<1>5. CASE LoopStep
  <2>1. devProv' = devProv /\ job.sends # "nothing"
    BY <1>5 DEF LoopStep
  <2>2. CASE job'.sends = "nothing"
    BY <2>2 DEF JobInv
  <2>3. CASE job'.sends # "nothing"
    BY <1>5, <2>1, <2>3, LoopGoesOn DEF JobInv
  <2> QED BY <2>2, <2>3
<1>6. CASE LoopEnd
  <2>1. /\ job.sends # "nothing" /\ job'.sends \in {"nothing", "commit"}
        /\ job'.sends = "commit" => answer' = answer
    BY <1>6, <1>t DEF LoopEnd
  <2> QED BY <2>1 DEF JobInv
<1>7. CASE UNCHANGED statesVars
  BY <1>7, <1>k DEF statesVars
<1> QED
  BY <1>1, <1>2, <1>3, <1>4, <1>5, <1>6, <1>7 DEF StatesNext, Request

(* Outside the loop of a provisioning every element is passed.             *)
LEMMA AllPassed ==
  ASSUME StatesTypeOK, NEW e \in Elements,
         job.sends # "provisioning" \/ job.next > Len(LCPs)
  PROVE  Passed(e)
<1>1. PICK i \in DOMAIN LCPs : LCPs[i] = e
  BY LoopTyped
<1>2. i \in 1 .. Len(LCPs) /\ Len(LCPs) \in Nat /\ job.next \in 1 .. Len(LCPs) + 1
  BY LoopTyped
<1>3. job.sends = "provisioning" => i < job.next
  BY <1>2
<1> QED BY <1>1, <1>3 DEF Passed

LEMMA NonePassed ==
  ASSUME StatesTypeOK, NEW e, job'.sends = "provisioning", job'.next = 1
  PROVE  ~Passed(e)'
<1>1. \A i \in DOMAIN LCPs : i \in Nat /\ ~(i < 1)
  BY LoopTyped
<1> QED BY <1>1 DEF Passed

(* Only the element of the step becomes one that is passed.                *)
LEMMA PassedByStep ==
  ASSUME StatesTypeOK, NEW e \in Elements, Passed(e)',
         job'.sends = job.sends, job'.next = job.next + 1
  PROVE  Passed(e) \/ (job.sends = "provisioning" /\ e = LCPs[job.next])
<1>1. PICK i \in DOMAIN LCPs : LCPs[i] = e /\ (job.sends = "provisioning" => i < job.next + 1)
  BY DEF Passed
<1>2. i \in Nat /\ job.next \in Nat
  BY LoopTyped
<1>3. i < job.next + 1 => i = job.next \/ i < job.next
  BY <1>2
<1> QED BY <1>1, <1>3 DEF Passed

-----------------------------------------------------------------------------
(* The provisioning of an element, through an arrival and a request more.  *)

LEMMA FollowsArrival ==
  ASSUME StatesTypeOK, NEW e \in Elements, NEW i \in 1 .. Len(flight[e]), Arrive(e, i),
         ~flight[e][i].late, PutOnItsWay(e) \/ PutArrived(e)
  PROVE  PutOnItsWay(e)' \/ PutArrived(e)'
<1> DEFINE s == flight[e]
           r == Rest(flight[e], i)
<1>1. s \in Seq(Requests) /\ devProv' = devProv
  BY DEF StatesTypeOK, Arrive, device
<1>2. flight'[e] = r
  BY DEF Arrive, Rest, StatesTypeOK
<1>3. /\ prov' = [prov EXCEPT ![e] = CASE Operation(s[i]) = "provisioning" -> s[i].state
                                       [] Operation(s[i]) = "gal:rollback" -> comm[e]
                                       [] OTHER -> @]
      /\ prov \in [Elements -> State]
  BY DEF Arrive, StatesTypeOK
<1>4. /\ IsPut(s[i]) => prov'[e] = s[i].state
      /\ ~IsPut(s[i]) => prov'[e] = prov[e]
  BY <1>3, OperationIs DEF IsPut
<1>5. /\ DOMAIN r = 1 .. Len(s) - 1 /\ DOMAIN s = 1 .. Len(s) /\ Len(s) \in Nat
      /\ \A j \in 1 .. Len(s) - 1 :
              /\ j < i => /\ j \in DOMAIN s /\ r[j].late
                          /\ r[j].state = s[j].state
                          /\ IsPut(r[j]) <=> IsPut(s[j])
              /\ j >= i => j + 1 \in DOMAIN s /\ r[j] = s[j + 1]
  BY <1>1, RestOf
<1> HIDE DEF s, r
<1>6. CASE PutOnItsWay(e)
  <2>1. PICK k \in DOMAIN s :
          /\ IsPut(s[k]) /\ s[k].state = devProv
          /\ \A j \in DOMAIN s : k < j => ~IsPut(s[j])
    BY <1>6 DEF PutOnItsWay, s
  <2>2. CASE k = i
    <3>1. prov'[e] = devProv'
      BY <1>1, <1>4, <2>1, <2>2
    <3>2. ASSUME NEW j \in DOMAIN r PROVE r[j].late \/ ~IsPut(r[j])
      <4>1. CASE j < i
        BY <1>5, <4>1
      <4>2. CASE j >= i
        <5>1. j + 1 \in DOMAIN s /\ r[j] = s[j + 1] /\ k < j + 1
          BY <1>5, <2>2, <4>2
        <5> QED BY <2>1, <5>1
      <4> QED BY <1>5, <4>1, <4>2
    <3> QED BY <1>2, <3>1, <3>2 DEF PutArrived
  <2>3. CASE k < i
    <3>0. k \in 1 .. Len(s) - 1 /\ i \in 1 .. Len(s)
      BY <1>5, <2>3 DEF s
    <3>1. k \in DOMAIN r /\ IsPut(r[k]) /\ r[k].state = devProv'
      BY <1>1, <1>5, <2>1, <2>3, <3>0
    <3>2. ASSUME NEW j \in DOMAIN r, k < j PROVE ~IsPut(r[j])
      <4>1. CASE j < i
        BY <1>5, <2>1, <3>2, <4>1
      <4>2. CASE j >= i
        <5>1. j + 1 \in DOMAIN s /\ r[j] = s[j + 1] /\ k < j + 1
          BY <1>5, <2>3, <4>2
        <5> QED BY <2>1, <5>1
      <4> QED BY <1>5, <4>1, <4>2
    <3> QED BY <1>2, <3>1, <3>2 DEF PutOnItsWay
  <2>4. CASE k > i
    <3>1. k - 1 \in DOMAIN r /\ k - 1 >= i /\ k - 1 + 1 = k
      BY <1>5, <2>4
    <3>2. IsPut(r[k - 1]) /\ r[k - 1].state = devProv'
      BY <1>1, <1>5, <2>1, <3>1
    <3>3. ASSUME NEW j \in DOMAIN r, k - 1 < j PROVE ~IsPut(r[j])
      <4>1. j >= i /\ k < j + 1
        BY <1>5, <2>4, <3>3
      <4>2. j + 1 \in DOMAIN s /\ r[j] = s[j + 1]
        BY <1>5, <4>1
      <4> QED BY <2>1, <4>1, <4>2
    <3> QED BY <1>2, <3>1, <3>2, <3>3 DEF PutOnItsWay
  <2> QED BY <1>5, <2>2, <2>3, <2>4
<1>7. CASE PutArrived(e)
  <2>1. prov[e] = devProv /\ \A j \in DOMAIN s : s[j].late \/ ~IsPut(s[j])
    BY <1>7 DEF PutArrived, s
  <2>2. ~IsPut(s[i])
    BY <1>5, <2>1 DEF s
  <2>3. prov'[e] = devProv'
    BY <1>1, <1>4, <2>1, <2>2
  <2>4. ASSUME NEW j \in DOMAIN r PROVE r[j].late \/ ~IsPut(r[j])
    <3>1. CASE j < i
      BY <1>5, <3>1
    <3>2. CASE j >= i
      <4>1. j + 1 \in DOMAIN s /\ r[j] = s[j + 1]
        BY <1>5, <3>2
      <4> QED BY <2>1, <4>1
    <3> QED BY <1>5, <3>1, <3>2
  <2> QED BY <1>2, <2>3, <2>4 DEF PutArrived
<1> QED BY <1>6, <1>7

(* A provisioning with the state of the device is on its way; a commit     *)
(* behind what is on its way changes nothing.                              *)
LEMMA FollowsPut ==
  ASSUME StatesTypeOK, NEW e \in Elements,
         flight'[e] = Append(flight[e], Put(devProv)), devProv' = devProv
  PROVE  PutOnItsWay(e)'
<1> DEFINE s == flight[e]
           n == Len(s) + 1
<1>1. s \in Seq(Requests) /\ devProv \in State
  BY DEF StatesTypeOK
<1>2. /\ IsPut(Put(devProv)) /\ Put(devProv).state = devProv /\ Put(devProv) \in Requests
  BY <1>1, MessagesTyped
<1> HIDE DEF s
<1>3. /\ n \in DOMAIN Append(s, Put(devProv)) /\ Append(s, Put(devProv))[n] = Put(devProv)
      /\ \A i \in DOMAIN Append(s, Put(devProv)) : i \in DOMAIN s \/ i = n
      /\ \A i \in DOMAIN s : i < n
  BY <1>1, <1>2, Queued
<1>4. DOMAIN s = 1 .. Len(s) /\ Len(s) \in Nat
  BY <1>1, LenProperties
<1>5. \A j \in DOMAIN Append(s, Put(devProv)) : ~(n < j)
  BY <1>3, <1>4
<1> HIDE DEF n
<1>6. flight'[e] = Append(s, Put(devProv))
  BY DEF s
<1> QED BY <1>2, <1>3, <1>5, <1>6 DEF PutOnItsWay

LEMMA FollowsCommit ==
  ASSUME StatesTypeOK, NEW e \in Elements,
         flight'[e] = Append(flight[e], Post("gal:commit")),
         devProv' = devProv, prov' = prov, PutOnItsWay(e) \/ PutArrived(e)
  PROVE  PutOnItsWay(e)' \/ PutArrived(e)'
<1> DEFINE s == flight[e]
           m == Post("gal:commit")
           t == Append(s, m)
<1>1. s \in Seq(Requests) /\ m \in Requests /\ ~IsPut(m)
  <2>1. DeviceDefault \in State
    BY PowerAssumption
  <2> QED BY <2>1, MessagesTyped DEF StatesTypeOK
<1>2. flight'[e] = t
  OBVIOUS
<1> HIDE DEF s, m
<1>3. /\ DOMAIN s \subseteq DOMAIN t /\ t[Len(s) + 1] = m
      /\ \A i \in DOMAIN s : t[i] = s[i]
      /\ \A i \in DOMAIN t : i \in DOMAIN s \/ i = Len(s) + 1
  BY <1>1, Queued
<1>4. \A i \in DOMAIN t : IsPut(t[i]) => i \in DOMAIN s /\ t[i] = s[i]
  BY <1>1, <1>3
<1> HIDE DEF t
<1>5. CASE PutOnItsWay(e)
  <2>1. PICK k \in DOMAIN s :
          /\ IsPut(s[k]) /\ s[k].state = devProv
          /\ \A j \in DOMAIN s : k < j => ~IsPut(s[j])
    BY <1>5 DEF PutOnItsWay, s
  <2>2. k \in DOMAIN t /\ t[k] = s[k] /\ \A j \in DOMAIN t : k < j => ~IsPut(t[j])
    BY <1>3, <1>4, <2>1
  <2> QED BY <1>2, <2>1, <2>2 DEF PutOnItsWay
<1>6. CASE PutArrived(e)
  <2>1. prov[e] = devProv /\ \A j \in DOMAIN s : s[j].late \/ ~IsPut(s[j])
    BY <1>6 DEF PutArrived, s
  <2>2. \A j \in DOMAIN t : t[j].late \/ ~IsPut(t[j])
    BY <1>4, <2>1
  <2> QED BY <1>2, <2>1, <2>2 DEF PutArrived
<1> QED BY <1>5, <1>6

LEMMA HealStep ==
  ASSUME StatesTypeOK, JobInv, HealInv, [StatesNext]_statesVars
  PROVE  HealInv'
<1> USE DEF device, elements
<1> SUFFICES ASSUME cause' = {}, NEW e \in hasGal', Passed(e)'
             PROVE  PutOnItsWay(e)' \/ PutArrived(e)'
  BY DEF HealInv
<1>t. /\ hasGal \subseteq Elements /\ job.sends \in {"nothing", "provisioning", "commit"}
      /\ Idle.sends = "nothing"
  BY DEF StatesTypeOK, Idle
<1>i. ASSUME cause = {}, e \in hasGal, Passed(e) PROVE PutOnItsWay(e) \/ PutArrived(e)
  BY <1>i DEF HealInv
(* Nothing happens to the element.                                         *)
<1>k. ASSUME cause = {}, e \in hasGal, Passed(e), devProv' = devProv,
             flight'[e] = flight[e], prov'[e] = prov[e]
      PROVE  PutOnItsWay(e)' \/ PutArrived(e)'
  BY <1>i, <1>k DEF PutOnItsWay, PutArrived
<1>1. ASSUME NEW f \in Elements, NEW i \in 1..Len(flight[f]), Arrive(f, i)
      PROVE  PutOnItsWay(e)' \/ PutArrived(e)'
  <2>1. UNCHANGED <<devProv, hasGal, job>> /\ cause = {} /\ ~flight[f][i].late
    BY <1>1 DEF Arrive
  <2>2. Passed(e) /\ e \in hasGal
    BY <2>1 DEF Passed
  <2>3. CASE e = f
    BY <1>1, <1>i, <1>t, <2>1, <2>2, <2>3, FollowsArrival
  <2>4. CASE e # f
    <3>1. flight'[e] = flight[e] /\ prov'[e] = prov[e]
      BY <1>1, <1>t, <2>2, <2>4 DEF Arrive, StatesTypeOK
    <3> QED BY <1>k, <2>1, <2>2, <3>1
  <2> QED BY <2>3, <2>4
<1>2. ASSUME NEW f, NEW i, Lose(f, i) \/ AddGal(f) PROVE FALSE
  BY <1>2 DEF Lose, AddGal
<1>3. ASSUME NEW s, NEW then, DeviceProvisioning(s, then) PROVE FALSE
  <2>1. job'.sends = "provisioning" /\ job'.next = 1
    BY <1>3 DEF DeviceProvisioning
  <2> QED BY <2>1, NonePassed
<1>4. CASE DeviceCommit
  <2>1. job.sends = "nothing" /\ UNCHANGED <<devProv, hasGal, flight, prov, cause>>
    BY <1>4, <1>t DEF DeviceCommit, ServeGSI
  <2> QED BY <1>k, <1>t, <2>1, AllPassed
<1>5. ASSUME DeviceRollback \/ (\E f \in Elements : \E m : ForwardToElement(f, m)) PROVE FALSE
  BY <1>5 DEF DeviceRollback, ForwardToElement
<1>6. CASE LoopStep
  <2>1. UNCHANGED <<devProv, hasGal, prov>> /\ job.sends # "nothing"
    BY <1>6 DEF LoopStep
  <2>2. job'.sends # "nothing"
    <3>1. SUFFICES ASSUME job'.sends = "nothing" PROVE FALSE
      OBVIOUS
    <3>2. PICK code \in Codes(LCPs[job.next]) :
            IF StopsLoop(code) THEN cause' = cause \cup {"failed"}
            ELSE job' = [job EXCEPT !.next = @ + 1]
      BY <1>6 DEF LoopStep
    <3>3. CASE StopsLoop(code)
      BY <3>2, <3>3
    <3>4. CASE ~StopsLoop(code)
      BY <2>1, <3>1, <3>2, <3>4 DEF StatesTypeOK
    <3> QED BY <3>3, <3>4
  <2> DEFINE f == LCPs[job.next]
  <2>3. /\ f \in Elements /\ job'.sends = job.sends /\ job'.next = job.next + 1
        /\ cause' = cause
        /\ f \in hasGal => flight'[f] = Append(flight[f], Message)
        /\ \A g \in Elements : g # f => flight'[g] = flight[g]
    BY <1>6, <2>2, LoopGoesOn
  <2>4. CASE e # f
    <3>1. Passed(e)
      BY <1>t, <2>1, <2>3, <2>4, PassedByStep
    <3> QED BY <1>k, <1>t, <2>1, <2>3, <2>4, <3>1
  <2>5. CASE e = f /\ job.sends = "provisioning"
    <3>1. flight'[e] = Append(flight[e], Put(devProv))
      BY <2>1, <2>3, <2>5 DEF Message, JobInv
    <3> QED BY <1>t, <2>1, <3>1, FollowsPut
  <2>6. CASE e = f /\ job.sends # "provisioning"
    <3>1. flight'[e] = Append(flight[e], Post("gal:commit"))
      BY <2>1, <2>3, <2>6 DEF Message
    <3>2. Passed(e)
      BY <1>t, <2>1, <2>6, AllPassed
    <3>3. PutOnItsWay(e) \/ PutArrived(e)
      BY <1>i, <2>1, <2>3, <3>2
    <3> QED BY <1>t, <2>1, <3>1, <3>3, FollowsCommit
  <2> QED BY <2>4, <2>5, <2>6
<1>7. CASE LoopEnd
  <2>1. job.next > Len(LCPs) /\ UNCHANGED <<devProv, hasGal, flight, prov, cause>>
    BY <1>7 DEF LoopEnd
  <2> QED BY <1>k, <1>t, <2>1, AllPassed
<1>8. CASE UNCHANGED statesVars
  <2>1. UNCHANGED <<devProv, hasGal, flight, prov, cause, job>>
    BY <1>8 DEF statesVars
  <2>2. Passed(e)
    BY <2>1 DEF Passed
  <2> QED BY <1>k, <2>1, <2>2
<1> QED
  BY <1>1, <1>2, <1>3, <1>4, <1>5, <1>6, <1>7, <1>8 DEF StatesNext, Network, Request

LEMMA ToldStep ==
  ASSUME StatesTypeOK, JobInv, ToldInv, [StatesNext]_statesVars
  PROVE  ToldInv'
<1> USE DEF device, elements
<1> SUFFICES ASSUME answer'.of = "provisioning", answer'.code # "GalFailure",
                    "joined" \notin cause', NEW e \in hasGal', Passed(e)'
             PROVE  e \in answer'.told
  BY DEF ToldInv
<1>t. /\ hasGal \subseteq Elements /\ job.sends \in {"nothing", "provisioning", "commit"}
      /\ Idle.sends = "nothing"
  BY DEF StatesTypeOK, Idle
<1>i. ASSUME answer.of = "provisioning", answer.code # "GalFailure", "joined" \notin cause,
             e \in hasGal, Passed(e)
      PROVE  e \in answer.told
  BY <1>i DEF ToldInv
<1>k. ASSUME UNCHANGED <<answer, hasGal, job>>, cause \subseteq cause'
      PROVE  e \in answer'.told
  BY <1>i, <1>k DEF Passed
<1>1. CASE \E f \in Elements : \E i : Arrive(f, i) \/ Lose(f, i)
  BY <1>1, <1>k DEF Arrive, Lose
<1>2. ASSUME NEW f, AddGal(f) PROVE FALSE
  BY <1>2 DEF AddGal
<1>3. ASSUME NEW s, NEW then, DeviceProvisioning(s, then) PROVE FALSE
  <2>1. job'.sends = "provisioning" /\ job'.next = 1
    BY <1>3 DEF DeviceProvisioning
  <2> QED BY <2>1, NonePassed
<1>4. ASSUME \/ DeviceCommit \/ DeviceRollback
             \/ \E f \in Elements : \E m : ForwardToElement(f, m)
      PROVE FALSE
  BY <1>4 DEF DeviceCommit, DeviceRollback, ForwardToElement, Answered
<1>6. CASE LoopStep
  <2>1. hasGal' = hasGal /\ job.sends # "nothing"
    BY <1>6 DEF LoopStep
  <2>2. job'.sends # "nothing"
    <3>1. SUFFICES ASSUME job'.sends = "nothing" PROVE FALSE
      OBVIOUS
    <3>2. PICK code \in Codes(LCPs[job.next]) :
            IF StopsLoop(code) THEN answer' = [answer EXCEPT !.code = "GalFailure"]
            ELSE job' = [job EXCEPT !.next = @ + 1]
      BY <1>6 DEF LoopStep
    <3>3. CASE StopsLoop(code)
      BY <3>2, <3>3 DEF StatesTypeOK
    <3>4. CASE ~StopsLoop(code)
      BY <2>1, <3>1, <3>2, <3>4 DEF StatesTypeOK
    <3> QED BY <3>3, <3>4
  <2> DEFINE f == LCPs[job.next]
  <2>3. /\ f \in Elements /\ job'.sends = job.sends /\ job'.next = job.next + 1
        /\ cause' = cause /\ answer'.of = answer.of /\ answer'.code = answer.code
        /\ answer.told \subseteq answer'.told /\ (f \in hasGal => f \in answer'.told)
    BY <1>6, <2>2, LoopGoesOn
  <2>4. CASE e # f
    <3>1. Passed(e)
      BY <1>t, <2>1, <2>3, <2>4, PassedByStep
    <3> QED BY <1>i, <2>1, <2>3, <3>1
  <2>5. CASE e = f
    BY <2>1, <2>3, <2>5
  <2> QED BY <2>4, <2>5
<1>7. CASE LoopEnd
  <2>1. /\ job.next > Len(LCPs) /\ job.sends # "nothing"
        /\ UNCHANGED <<hasGal, cause>>
        /\ answer'.of = answer.of /\ answer'.told = answer.told
    BY <1>7 DEF LoopEnd, StatesTypeOK
  <2>2. answer.code # "GalFailure" /\ Passed(e)
    BY <1>t, <2>1, AllPassed DEF JobInv
  <2> QED BY <1>i, <2>1, <2>2
<1>8. CASE UNCHANGED statesVars
  BY <1>8, <1>k DEF statesVars
<1> QED
  BY <1>1, <1>2, <1>3, <1>4, <1>6, <1>7, <1>8 DEF StatesNext, Network, Request

-----------------------------------------------------------------------------
(* The theorems.                                                           *)

LEMMA StatesInvInit ==
  ASSUME StatesInit
  PROVE  StatesInv
<1>1. StatesTypeOK
  <2>1. <<>> \in Seq(Requests) /\ DeviceDefault \in State /\ 0 \in 0..MaxServed
    BY PowerAssumption
  <2>2. 1 \in 1..Len(LCPs) + 1
    <3>1. LCPs \in Seq(Elements)
      BY PowerAssumption
    <3>2. Len(LCPs) \in Nat
      BY <3>1, LenProperties
    <3> QED BY <3>2
  <2> QED BY <2>1, <2>2, PowerAssumption DEF StatesInit, Idle, StatesTypeOK
<1> QED BY <1>1 DEF StatesInit, Idle, StatesInv, JobInv, HealInv, ToldInv

LEMMA StatesInvAlways == StatesSpec => []StatesInv
<1>1. StatesInit => StatesInv
  BY StatesInvInit
<1>2. StatesInv /\ [StatesNext]_statesVars => StatesInv'
  BY StatesTypeStep, JobStep, HealStep, ToldStep DEF StatesInv
<1> QED BY <1>1, <1>2, PTL DEF StatesSpec

(* Every variable of the device and of its elements keeps its type.        *)
THEOREM PowerTypeCorrect == StatesSpec => []StatesTypeOK
<1>1. StatesInv => StatesTypeOK
  BY DEF StatesInv
<1> QED BY <1>1, StatesInvAlways, PTL

(* For any number of elements: through lost, late and failed requests each *)
(* holds the provisioned state of the device once all has arrived, or      *)
(* something that came after the last provisioning of the device is the    *)
(* reason; and GalSuccess for one means that every element was sent it.    *)
THEOREM DeviceIsFollowed == StatesSpec => []ElementsFollowDevice
<1>1. ASSUME StatesInv PROVE ElementsFollowDevice
  <2>1. StatesTypeOK /\ HealInv /\ ToldInv /\ hasGal \subseteq Elements
    BY <1>1 DEF StatesInv, StatesTypeOK
  <2>2. ASSUME job = Idle, NEW e \in hasGal PROVE Passed(e)
    <3>1. job.sends # "provisioning"
      BY <2>2 DEF Idle
    <3> QED BY <2>1, <3>1, AllPassed
  <2>3. ProvisioningHeals
    <3> SUFFICES ASSUME Settled, cause = {}, NEW e \in hasGal PROVE prov[e] = devProv
      BY DEF ProvisioningHeals
    <3>1. PutOnItsWay(e) \/ PutArrived(e)
      BY <2>1, <2>2 DEF HealInv, Settled
    <3>2. DOMAIN flight[e] = {}
      BY <2>1 DEF Settled
    <3> QED BY <3>1, <3>2 DEF PutOnItsWay, PutArrived
  <2>4. SuccessToldAll
    <3> SUFFICES ASSUME job = Idle, answer.of = "provisioning", answer.code = "GalSuccess",
                        "joined" \notin cause, NEW e \in hasGal
                 PROVE  e \in answer.told
      BY DEF SuccessToldAll
    <3> QED BY <2>1, <2>2 DEF ToldInv
  <2> QED BY <2>3, <2>4 DEF ElementsFollowDevice
<1> QED BY <1>1, StatesInvAlways, PTL

-----------------------------------------------------------------------------
(* Both beside each other, as the runs check them.                         *)

(* A behaviour of the two parts is one of each. *)
LEMMA PartsBehave == PartsSpec => Spec /\ StatesSpec
<1>1. PartsInit => Init /\ StatesInit
  BY DEF PartsInit
<1>2. [PartsNext]_<<part, vars, statesVars>> => [Next]_vars /\ [StatesNext]_statesVars
  BY DEF PartsNext
<1> QED BY <1>1, <1>2, PTL DEF PartsSpec, Spec, StatesSpec

(* The task of a service element and the requests that reach several keep  *)
(* their types beside each other.                                          *)
THEOREM PowerPartsTyped == PartsSpec => []PartsTypeOK
BY PartsBehave, ProfileTypeCorrect, PowerTypeCorrect, PTL DEF PartsTypeOK

=============================================================================
