----------------------------- MODULE Gal_proofs -----------------------------
(***************************************************************************)
(* Proofs about GalRequests, for any connections of the web server, any    *)
(* number of LCPs and of requests, and any order of the threads; and about *)
(* GalTree, for any answers and any movements of the mouse.                *)
(***************************************************************************)
EXTENDS MCGal, SequenceTheorems, FiniteSetTheorems, WellFoundedInduction, TLAPS

(* What a queue holds, and that it holds requests as they were raised.     *)
Held(s) == {s[k] : k \in DOMAIN s}
Sorted(s) ==
  \A i, j \in DOMAIN s : i < j /\ s[i] # Quit /\ s[j] # Quit => s[i] < s[j]

(* The requests of the web server an LCP has still to execute or finish.   *)
Pending(l) == (Held(inbox[l]) \cup {job[l]}) \ {0}

(* Who has registered, and who waits.                                      *)
LcpInv ==
  \A l \in Lcps :
    /\ l \in registered <=> lcp[l] \notin {"none", "starting"}
    /\ l \notin registered => inbox[l] = <<>>
    /\ lcp[l] \in {"none", "serving", "dead", "ended"} => waits[l] = 0
    /\ lcp[l] = "ended" \/ Quit \in Held(inbox[l]) => ~running
    /\ lcp[l] = "executing" /\ waits[l] # 0 => reqs[job[l]].what = "discovery"

(* Who asks for what; before an LCP has registered, no connection asks.    *)
KindInv ==
  \A r \in DOMAIN reqs :
    /\ reqs[r].what \in {"interfaces", "discovery"} => reqs[r].by \in Webs
    /\ reqs[r].by = Ce => reqs[r].what = "short"
    /\ reqs[r].what \in Kinds \cup {"interfaces"} => registered # {}

(* Who is asked by what is in the queues, and that none of it is answered  *)
(* before it gets there.                                                   *)
QueueInv ==
  /\ \A r \in Held(bus) \ {Quit} : r \in DOMAIN reqs /\ r \notin set
  /\ \A r \in Held(ce.inbox) \ {Quit} :
       r \in DOMAIN reqs /\ r \notin set /\ reqs[r].what \in CeKinds
  /\ ce.job # 0 => ce.job \in DOMAIN reqs /\ ce.job \notin set /\ reqs[ce.job].what = "interfaces"
  /\ \A l \in Lcps : \A r \in Pending(l) : r \in DOMAIN reqs /\ reqs[r].what \in Kinds

(* Requests go their way in the order in which they were raised.           *)
OrderInv ==
  /\ Sorted(bus) /\ Sorted(ce.inbox) /\ \A l \in Lcps : Sorted(inbox[l])
  /\ \A b \in Held(bus) \ {Quit} :
       /\ \A r \in (Held(ce.inbox) \cup {ce.job}) \ {Quit} : r < b
       /\ \A l \in Lcps : \A r \in Pending(l) : r < b
  /\ \A l \in Lcps : job[l] # 0 => \A r \in Held(inbox[l]) \ {Quit} : job[l] < r
  /\ ce.job # 0 => \A r \in Held(ce.inbox) \ {Quit} : ce.job < r

(* Who raised a request waits for it until its promise is set.             *)
AwaitedInv == \A r \in DOMAIN reqs : r \notin set => waits[reqs[r].by] = r

(* An LCP that has to finish a request has to finish all later ones that   *)
(* any LCP has.                                                            *)
SuffixInv ==
  \A l, m \in Lcps : \A r \in Pending(l), s \in Pending(m) : r < s => s \in Pending(l)

(* There is an LCP ahead of all others: nobody has finished what it has    *)
(* still to finish.                                                        *)
Ahead(l) == lcp[l] # "dead" /\ \A r \in Pending(l) : r \notin set
AheadInv == registered # {} => \E l \in registered : Ahead(l)

(* Before Quit, what nobody has finished is with an LCP that comes to it   *)
(* before it comes to anything that another has finished.                  *)
Leads(l, r) ==
  /\ lcp[l] # "dead" /\ r \in Pending(l)
  /\ \A s \in Pending(l) : s < r => s \notin set
Unanswered(r) == r \notin set /\ reqs[r].what \in Kinds
LeadInv ==
  running => \A r \in DOMAIN reqs :
    Unanswered(r) => r \in Held(bus) \/ \E l \in Lcps : Leads(l, r)

LateInv == late # {} => \E l, m \in registered : l # m

Inv == /\ TypeOK /\ LcpInv /\ KindInv /\ QueueInv /\ OrderInv /\ AwaitedInv
       /\ SuffixInv /\ AheadInv /\ LeadInv /\ LateInv

-----------------------------------------------------------------------------
(* Queues of requests.                                                     *)

LEMMA HeldIn ==
  ASSUME NEW s \in Seq(Nat)
  PROVE  Held(s) \subseteq Nat
BY DEF Held

LEMMA HeldNone == Held(<<>>) = {}
BY DEF Held

LEMMA HeldAppend ==
  ASSUME NEW s \in Seq(Nat), NEW e \in Nat
  PROVE  /\ Append(s, e) \in Seq(Nat)
         /\ Held(Append(s, e)) = Held(s) \cup {e}
<1> DEFINE t == Append(s, e)
<1>1. t \in Seq(Nat) /\ Len(t) = Len(s) + 1 /\ t[Len(s) + 1] = e
  BY AppendProperties
<1>2. \A i \in 1 .. Len(s) : t[i] = s[i]
  BY AppendProperties
<1>3. DOMAIN t = 1 .. Len(s) + 1 /\ DOMAIN s = 1 .. Len(s) /\ Len(s) \in Nat
  BY <1>1, LenProperties
<1> HIDE DEF t
<1>4. \A i \in DOMAIN t : i = Len(s) + 1 \/ (i \in DOMAIN s /\ t[i] = s[i])
  BY <1>2, <1>3
<1>5. \A i \in DOMAIN s : i \in DOMAIN t /\ t[i] = s[i]
  BY <1>2, <1>3
<1>6. Len(s) + 1 \in DOMAIN t
  BY <1>3
<1>7. Held(t) = Held(s) \cup {e}
  BY <1>1, <1>4, <1>5, <1>6, Zenon DEF Held
<1> QED BY <1>1, <1>7 DEF t

LEMMA HeldTail ==
  ASSUME NEW s \in Seq(Nat), s # <<>>
  PROVE  /\ Head(s) \in Nat /\ Tail(s) \in Seq(Nat)
         /\ Held(s) = {Head(s)} \cup Held(Tail(s))
<1> DEFINE t == Tail(s)
<1>1. Head(s) \in Nat /\ t \in Seq(Nat) /\ Len(t) = Len(s) - 1 /\ Head(s) = s[1]
  BY HeadTailProperties
<1>2. \A i \in 1 .. Len(t) : t[i] = s[i + 1]
  BY HeadTailProperties
<1>3. DOMAIN t = 1 .. Len(t) /\ DOMAIN s = 1 .. Len(s) /\ Len(s) \in Nat \ {0}
  BY <1>1, LenProperties, EmptySeq
<1> HIDE DEF t
<1>4. \A i \in DOMAIN s : i = 1 \/ (i - 1 \in DOMAIN t /\ t[i - 1] = s[i])
  <2> SUFFICES ASSUME NEW i \in DOMAIN s, i # 1
               PROVE  i - 1 \in DOMAIN t /\ t[i - 1] = s[i]
    OBVIOUS
  <2>1. i - 1 \in 1 .. Len(t) /\ (i - 1) + 1 = i
    BY <1>1, <1>3, SMTT(30)
  <2>2. t[i - 1] = s[(i - 1) + 1]
    BY <1>2, <2>1
  <2> QED BY <1>3, <2>1, <2>2
<1>5. \A i \in DOMAIN t : i + 1 \in DOMAIN s /\ t[i] = s[i + 1]
  BY <1>1, <1>2, <1>3, SMTT(30)
<1>6. 1 \in DOMAIN s
  BY <1>3
<1>7. \A i \in DOMAIN s : s[i] \in {Head(s)} \cup Held(t)
  BY <1>1, <1>4 DEF Held
<1>8. \A i \in DOMAIN t : t[i] \in Held(s)
  BY <1>5 DEF Held
<1>9. Head(s) \in Held(s)
  BY <1>1, <1>6 DEF Held
<1>10. Held(s) = {Head(s)} \cup Held(t)
  BY <1>7, <1>8, <1>9 DEF Held
<1> QED BY <1>1, <1>10 DEF t

LEMMA SortedAppend ==
  ASSUME NEW s \in Seq(Nat), NEW e \in Nat, Sorted(s),
         e # Quit => \A x \in Held(s) \ {Quit} : x < e
  PROVE  Sorted(Append(s, e))
<1> DEFINE t == Append(s, e)
<1>1. t \in Seq(Nat) /\ Len(t) = Len(s) + 1 /\ t[Len(s) + 1] = e
  BY AppendProperties
<1>2. \A i \in 1 .. Len(s) : t[i] = s[i]
  BY AppendProperties
<1>3. DOMAIN t = 1 .. Len(s) + 1 /\ DOMAIN s = 1 .. Len(s) /\ Len(s) \in Nat
  BY <1>1, LenProperties
<1> HIDE DEF t
<1> SUFFICES ASSUME NEW i \in DOMAIN t, NEW j \in DOMAIN t, i < j, t[i] # Quit, t[j] # Quit
             PROVE  t[i] < t[j]
  BY DEF Sorted, t
<1>4. i \in DOMAIN s /\ t[i] = s[i]
  BY <1>2, <1>3
<1>5. CASE j = Len(s) + 1
  BY <1>1, <1>4, <1>5 DEF Held
<1>6. CASE j # Len(s) + 1
  BY <1>2, <1>3, <1>4, <1>6 DEF Sorted
<1> QED BY <1>5, <1>6

LEMMA SortedTail ==
  ASSUME NEW s \in Seq(Nat), s # <<>>, Sorted(s)
  PROVE  /\ Sorted(Tail(s))
         /\ Head(s) # Quit => \A x \in Held(Tail(s)) \ {Quit} : Head(s) < x
<1> DEFINE t == Tail(s)
<1>1. t \in Seq(Nat) /\ Len(t) = Len(s) - 1 /\ Head(s) = s[1]
  BY HeadTailProperties
<1>2. \A i \in 1 .. Len(t) : t[i] = s[i + 1]
  BY HeadTailProperties
<1>3. DOMAIN t = 1 .. Len(t) /\ DOMAIN s = 1 .. Len(s) /\ Len(s) \in Nat \ {0}
  BY <1>1, LenProperties, EmptySeq
<1> HIDE DEF t
<1>4. \A i \in DOMAIN t : i + 1 \in DOMAIN s /\ 1 < i + 1 /\ i \in Nat /\ t[i] = s[i + 1]
  BY <1>1, <1>2, <1>3, SMTT(30)
<1>5. Sorted(t)
  BY <1>4 DEF Sorted
<1>6. Head(s) # Quit => \A x \in Held(t) \ {Quit} : Head(s) < x
  <2> SUFFICES ASSUME Head(s) # Quit, NEW i \in DOMAIN t, t[i] # Quit
               PROVE  Head(s) < t[i]
    BY DEF Held
  <2>1. 1 \in DOMAIN s /\ i + 1 \in DOMAIN s /\ 1 < i + 1 /\ t[i] = s[i + 1]
    BY <1>3, <1>4
  <2> QED BY <1>1, <2>1 DEF Sorted
<1> QED BY <1>5, <1>6 DEF t

-----------------------------------------------------------------------------
(* What the invariant says, in the form the steps use.                     *)

Requests == [by : Threads, what : Kinds \cup CeKinds]

LEMMA ThreadsApart ==
  /\ \A x \in Webs : x \notin Lcps /\ x # Ce /\ x \in Threads
  /\ \A l \in Lcps : l # Ce /\ l \in Threads
  /\ Ce \in Threads
  /\ \A k \in Kinds : k \notin CeKinds
BY RequestsAssumption DEF Threads, Kinds, CeKinds

LEMMA RequestsApart ==
  ASSUME TypeOK
  PROVE  /\ DOMAIN reqs = 1 .. Len(reqs) /\ Len(reqs) \in Nat
         /\ \A r \in DOMAIN reqs : reqs[r].by \in Threads
         /\ Len(reqs) + 1 \notin DOMAIN reqs /\ 0 \notin DOMAIN reqs
         /\ \A r \in DOMAIN reqs : r < Len(reqs) + 1
<1>1. reqs \in Seq(Requests)
  BY DEF TypeOK, Requests
<1>2. DOMAIN reqs = 1 .. Len(reqs) /\ Len(reqs) \in Nat
  BY <1>1
<1>3. \A r \in DOMAIN reqs : reqs[r] \in Requests
  BY <1>1, <1>2
<1> QED BY <1>2, <1>3 DEF Requests

LEMMA InboxTyped ==
  ASSUME TypeOK, NEW l \in Lcps
  PROVE  /\ inbox[l] \in Seq(Nat) /\ job[l] \in Nat /\ waits[l] \in 0 .. Len(reqs)
         /\ Held(inbox[l]) \subseteq Nat /\ Pending(l) \subseteq Nat \ {0}
<1>1. inbox[l] \in Seq(Nat) /\ job[l] \in Nat /\ waits[l] \in 0 .. Len(reqs)
  BY ThreadsApart DEF TypeOK
<1>2. Held(inbox[l]) \subseteq Nat
  BY <1>1, HeldIn
<1> QED BY <1>1, <1>2 DEF Pending

(* What an LCP that has not started has to do: nothing.                    *)
LEMMA NothingPending ==
  ASSUME TypeOK, LcpInv, NEW l \in Lcps, l \notin registered
  PROVE  Pending(l) = {} /\ inbox[l] = <<>> /\ job[l] = 0
<1>1. inbox[l] = <<>> /\ lcp[l] \in {"none", "starting"}
  BY DEF LcpInv
<1>2. job[l] = 0
  BY <1>1 DEF TypeOK
<1> QED BY <1>1, <1>2, HeldNone DEF Pending

CeType == [inbox : Seq(Nat), serves : BOOLEAN, job : Nat, left : Nat]

(* A request is raised by someone who does not wait yet, or none is.       *)
LEMMA Raised ==
  ASSUME Inv, NEW x \in Threads, waits[x] = 0,
         NEW what \in Kinds \cup CeKinds,
         Request(x, what) \/ UNCHANGED <<reqs, waits, bus>>, set' = set
  PROVE  /\ reqs' \in Seq(Requests)
         /\ \A r \in DOMAIN reqs : r \in DOMAIN reqs' /\ reqs'[r] = reqs[r]
         /\ waits' \in [Threads -> 0 .. Len(reqs')]
         /\ \A y \in Threads : y # x => waits'[y] = waits[y]
         /\ \A y \in Threads : waits'[y] # 0 => reqs'[waits'[y]].by = y
         /\ bus' \in Seq(Nat) /\ Sorted(bus')
         /\ \A b \in Held(bus') : b \in Held(bus) \/ b = Len(reqs) + 1
         /\ \A b \in Held(bus') \ {Quit} : b \in DOMAIN reqs' /\ b \notin set
         /\ AwaitedInv'
<1> USE DEF Inv
<1>0. reqs \in Seq(Requests) /\ bus \in Seq(Nat) /\ waits \in [Threads -> 0 .. Len(reqs)]
  BY DEF TypeOK, Requests
<1>1. CASE UNCHANGED <<reqs, waits, bus>>
  BY <1>0, <1>1, HeldIn DEF TypeOK, OrderInv, QueueInv, AwaitedInv
<1>2. CASE Request(x, what)
  <2> DEFINE n == Len(reqs) + 1
             q == [by |-> x, what |-> what]
  <2>1. q \in Requests /\ q.by = x
    BY DEF Requests
  <2>2. reqs' = Append(reqs, q) /\ waits' = [waits EXCEPT ![x] = n]
        /\ (bus' = Append(bus, n) \/ bus' = bus)
    BY <1>2 DEF Request
  <2>3. n \in Nat \ {0} /\ n \notin DOMAIN reqs /\ DOMAIN reqs = 1 .. Len(reqs)
        /\ (\A r \in DOMAIN reqs : r < n)
    BY RequestsApart
  <2>4. reqs' \in Seq(Requests) /\ Len(reqs') = n /\ reqs'[n] = q
        /\ \A r \in 1 .. Len(reqs) : reqs'[r] = reqs[r]
    BY <1>0, <2>1, <2>2, AppendProperties
  <2>5. DOMAIN reqs' = 1 .. n
    BY <2>4
  <2> HIDE DEF n, q
  <2>6. \A r \in DOMAIN reqs : r \in DOMAIN reqs' /\ reqs'[r] = reqs[r]
    BY <2>3, <2>4, <2>5 DEF n
  <2>7. waits' \in [Threads -> 0 .. Len(reqs')] /\ waits'[x] = n
        /\ \A y \in Threads : y # x => waits'[y] = waits[y]
    <3>1. \A k \in 0 .. Len(reqs) : k \in 0 .. n
      BY <2>3, RequestsApart DEF n
    <3>2. waits \in [Threads -> 0 .. n] /\ n \in 0 .. n
      BY <1>0, <2>3, <3>1
    <3>3. waits' = [waits EXCEPT ![x] = n]
      BY <2>2
    <3> QED BY <2>4, <3>2, <3>3
  <2>8. \A y \in Threads : waits'[y] # 0 => reqs'[waits'[y]].by = y
    <3> SUFFICES ASSUME NEW y \in Threads, waits'[y] # 0
                 PROVE  reqs'[waits'[y]].by = y
      OBVIOUS
    <3>1. CASE y = x
      BY <2>1, <2>4, <2>7, <3>1
    <3>2. CASE y # x
      <4>1. waits'[y] = waits[y] /\ waits[y] \in DOMAIN reqs
        BY <1>0, <2>3, <2>7, <3>2
      <4> QED BY <2>6, <4>1 DEF TypeOK
    <3> QED BY <3>1, <3>2
  <2>9. \A b \in Held(bus) \ {Quit} : b < n /\ b \in DOMAIN reqs
    BY <2>3 DEF QueueInv
  <2>10. bus' \in Seq(Nat) /\ Sorted(bus') /\ \A b \in Held(bus') : b \in Held(bus) \/ b = n
    <3>1. CASE bus' = bus
      BY <1>0, <3>1 DEF OrderInv
    <3>2. CASE bus' = Append(bus, n)
      <4>1. Append(bus, n) \in Seq(Nat) /\ Held(Append(bus, n)) = Held(bus) \cup {n}
        BY <1>0, <2>3, HeldAppend
      <4>2. Sorted(bus)
        BY DEF OrderInv
      <4>3. Sorted(Append(bus, n))
        BY <1>0, <2>3, <2>9, <4>2, SortedAppend
      <4> QED BY <3>2, <4>1, <4>3
    <3> QED BY <2>2, <3>1, <3>2
  <2>11. \A b \in Held(bus') \ {Quit} : b \in DOMAIN reqs' /\ b \notin set
    <3>1. n \in DOMAIN reqs' /\ n \notin set
      BY <2>3, <2>5 DEF TypeOK
    <3> QED BY <2>6, <2>10, <3>1 DEF QueueInv
  <2>12. AwaitedInv'
    <3> SUFFICES ASSUME NEW r \in DOMAIN reqs', r \notin set
                 PROVE  waits'[reqs'[r].by] = r
      BY DEF AwaitedInv
    <3>1. CASE r = n
      BY <2>1, <2>4, <2>7, <3>1
    <3>2. CASE r # n
      <4>1. r \in DOMAIN reqs /\ reqs'[r] = reqs[r]
        BY <2>3, <2>5, <2>6, <3>2 DEF n
      <4>2. waits[reqs[r].by] = r /\ r # 0 /\ reqs[r].by \in Threads
        BY <2>3, <4>1, RequestsApart DEF AwaitedInv
      <4> QED BY <2>7, <4>1, <4>2
    <3> QED BY <3>1, <3>2
  <2> QED BY <2>4, <2>6, <2>7, <2>8, <2>10, <2>11, <2>12 DEF n
<1> QED BY <1>1, <1>2

(* A request that an LCP executes stays as it was raised.                  *)
LEMMA JobKept ==
  ASSUME Inv, NEW x \in Threads, waits[x] = 0,
         NEW what \in Kinds \cup CeKinds,
         Request(x, what) \/ UNCHANGED <<reqs, waits, bus>>, set' = set
  PROVE  \A l \in Lcps : lcp[l] = "executing" => reqs'[job[l]] = reqs[job[l]]
<1> SUFFICES ASSUME NEW l \in Lcps, lcp[l] = "executing"
             PROVE  reqs'[job[l]] = reqs[job[l]]
  OBVIOUS
<1>1. job[l] # 0 /\ job[l] \in Pending(l)
  BY DEF Inv, TypeOK, Pending
<1>2. job[l] \in DOMAIN reqs
  BY <1>1 DEF Inv, QueueInv
<1> QED BY <1>2, Raised

(* Where no LCP takes or finishes a request, what is in the queues stays  *)
(* as ordered as it was.                                                   *)
LEMMA RaisedInOrder ==
  ASSUME Inv, NEW x \in Threads, waits[x] = 0,
         NEW what \in Kinds \cup CeKinds,
         Request(x, what) \/ UNCHANGED <<reqs, waits, bus>>, set' = set,
         ce'.inbox = ce.inbox, ce'.job = ce.job,
         \A l \in Lcps : Pending(l)' = Pending(l)
  PROVE  /\ QueueInv' /\ SuffixInv'
         /\ \A b \in Held(bus') \ {Quit} :
              /\ \A r \in (Held(ce.inbox) \cup {ce.job}) \ {Quit} : r < b
              /\ \A l \in Lcps : \A r \in Pending(l) : r < b
<1> USE DEF Inv
<1>1. QueueInv'
  <2>1. \A r \in Held(ce.inbox) \ {Quit} :
          r \in DOMAIN reqs' /\ r \notin set /\ reqs'[r].what \in CeKinds
    BY Raised DEF QueueInv
  <2>2. \A l \in Lcps : \A r \in Pending(l) : r \in DOMAIN reqs' /\ reqs'[r].what \in Kinds
    BY Raised DEF QueueInv
  <2>3. \A b \in Held(bus') \ {Quit} : b \in DOMAIN reqs' /\ b \notin set
    BY Raised
  <2>4. ce.job # 0 => /\ ce.job \in DOMAIN reqs' /\ ce.job \notin set
                      /\ reqs'[ce.job].what = "interfaces"
    BY Raised DEF QueueInv
  <2> QED BY <2>1, <2>2, <2>3, <2>4 DEF QueueInv
<1>2. SuffixInv'
  BY DEF SuffixInv
<1>3. ASSUME NEW b \in Held(bus') \ {Quit}
      PROVE  /\ \A r \in (Held(ce.inbox) \cup {ce.job}) \ {Quit} : r < b
             /\ \A l \in Lcps : \A r \in Pending(l) : r < b
  <2>1. CASE b \in Held(bus)
    BY <2>1 DEF OrderInv
  <2>2. CASE b = Len(reqs) + 1
    <3>1. \A r \in DOMAIN reqs : r < b
      BY <2>2, RequestsApart
    <3> QED BY <3>1 DEF QueueInv, Quit
  <2> QED BY <1>3, <2>1, <2>2, Raised
<1> QED BY <1>1, <1>2, <1>3

(* Connections raise the requests of the pages, the control element what   *)
(* it asks about an interface, and LCPs the rest.                          *)
LEMMA RaisedKinds ==
  ASSUME Inv, NEW x \in Threads, waits[x] = 0,
         NEW what \in Kinds \cup CeKinds,
         Request(x, what) \/ UNCHANGED <<reqs, waits, bus>>, registered' = registered,
         what \in {"interfaces", "discovery"} => x \in Webs,
         x = Ce => what = "short",
         what \in Kinds \cup {"interfaces"} => registered # {}
  PROVE  KindInv'
<1> USE DEF Inv
<1>1. CASE UNCHANGED <<reqs, waits, bus>>
  BY <1>1 DEF KindInv
<1>2. CASE Request(x, what)
  <2> DEFINE q == [by |-> x, what |-> what]
  <2>1. reqs \in Seq(Requests) /\ q \in Requests /\ q.by = x /\ q.what = what
    BY DEF TypeOK, Requests
  <2>2. reqs' = Append(reqs, q)
    BY <1>2 DEF Request
  <2> HIDE DEF q
  <2>3. reqs' \in Seq(Requests) /\ Len(reqs') = Len(reqs) + 1 /\ reqs'[Len(reqs) + 1] = q
        /\ \A r \in 1 .. Len(reqs) : reqs'[r] = reqs[r]
    BY <2>1, <2>2, AppendProperties
  <2>4. \A r \in DOMAIN reqs' : \/ r \in DOMAIN reqs /\ reqs'[r] = reqs[r]
                                \/ reqs'[r] = q
    BY <2>3, RequestsApart
  <2> SUFFICES ASSUME NEW r \in DOMAIN reqs'
               PROVE  /\ reqs'[r].what \in {"interfaces", "discovery"} => reqs'[r].by \in Webs
                      /\ reqs'[r].by = Ce => reqs'[r].what = "short"
                      /\ reqs'[r].what \in Kinds \cup {"interfaces"} => registered # {}
    BY DEF KindInv
  <2>5. CASE r \in DOMAIN reqs /\ reqs'[r] = reqs[r]
    BY <2>5 DEF KindInv
  <2>6. CASE reqs'[r] = q
    BY <2>1, <2>6
  <2> QED BY <2>4, <2>5, <2>6
<1> QED BY <1>1, <1>2

(* Who leads, leads on where no LCP takes or finishes anything.            *)
LEMMA LeadKept ==
  ASSUME TypeOK, LeadInv, running' => running,
         \A r \in DOMAIN reqs' : Unanswered(r)' =>
           \/ r \in Held(bus')
           \/ r \in DOMAIN reqs /\ Unanswered(r) /\ r \notin Held(bus),
         \A r : r \in set' => r \in set \/ \A l \in Lcps : r \notin Pending(l),
         \A l \in Lcps : Pending(l)' = Pending(l),
         \A l \in Lcps : lcp[l] # "dead" => lcp'[l] # "dead"
  PROVE  LeadInv'
<1> SUFFICES ASSUME running', NEW r \in DOMAIN reqs', Unanswered(r)', r \notin Held(bus')
             PROVE  \E l \in Lcps : Leads(l, r)'
  BY DEF LeadInv
<1>1. PICK l \in Lcps : Leads(l, r)
  BY DEF LeadInv
<1>2. Leads(l, r)'
  BY <1>1 DEF Leads
<1> QED BY <1>2

LEMMA RaisedLeads ==
  ASSUME Inv, NEW x \in Threads, waits[x] = 0,
         NEW what \in Kinds \cup CeKinds,
         Request(x, what) \/ UNCHANGED <<reqs, waits, bus>>, set' = set, running' = running,
         \A l \in Lcps : Pending(l)' = Pending(l),
         \A l \in Lcps : lcp[l] # "dead" => lcp'[l] # "dead"
  PROVE  LeadInv'
<1> USE DEF Inv
<1>1. CASE UNCHANGED <<reqs, waits, bus>>
  <2>1. \A r \in DOMAIN reqs' : Unanswered(r)' => r \in DOMAIN reqs /\ Unanswered(r)
    BY <1>1 DEF Unanswered
  <2> QED BY <1>1, <2>1, LeadKept
<1>2. CASE Request(x, what) /\ ~running
  BY <1>2 DEF LeadInv
<1>3. CASE Request(x, what) /\ running
  <2> DEFINE n == Len(reqs) + 1
  <2>1. reqs' = Append(reqs, [by |-> x, what |-> what]) /\ bus' = Append(bus, n)
    BY <1>3 DEF Request
  <2>2. bus \in Seq(Nat) /\ n \in Nat /\ reqs \in Seq(Requests)
    BY RequestsApart DEF TypeOK, Requests
  <2>3. Held(bus') = Held(bus) \cup {n}
    BY <2>1, <2>2, HeldAppend
  <2>4. \A r \in DOMAIN reqs' : r = n \/ (r \in DOMAIN reqs /\ reqs'[r] = reqs[r])
    <3>1. [by |-> x, what |-> what] \in Requests
      BY DEF Requests
    <3>2. reqs' \in Seq(Requests) /\ Len(reqs') = n /\ \A r \in 1 .. Len(reqs) : reqs'[r] = reqs[r]
      BY <2>1, <2>2, <3>1, AppendProperties
    <3> QED BY <3>2, RequestsApart
  <2> HIDE DEF n
  <2>5. \A r \in DOMAIN reqs' : Unanswered(r)' =>
          \/ r \in Held(bus')
          \/ r \in DOMAIN reqs /\ Unanswered(r) /\ r \notin Held(bus)
    BY <2>3, <2>4 DEF Unanswered
  <2> QED BY <2>5, LeadKept
<1> QED BY <1>1, <1>2, <1>3

(* Nobody falls behind where nothing is finished.                          *)
LEMMA AheadKept ==
  ASSUME TypeOK, AheadInv, registered' = registered,
         \A r : r \in set' => r \in set \/ \A l \in Lcps : r \notin Pending(l),
         \A l \in Lcps : Pending(l)' = Pending(l),
         \A l \in Lcps : lcp[l] # "dead" => lcp'[l] # "dead"
  PROVE  AheadInv'
<1> SUFFICES ASSUME registered # {}
             PROVE  \E l \in registered : Ahead(l)'
  BY DEF AheadInv
<1>1. PICK l \in registered : Ahead(l)
  BY DEF AheadInv
<1>2. l \in Lcps
  BY DEF TypeOK
<1>3. Ahead(l)'
  BY <1>1, <1>2 DEF Ahead
<1> QED BY <1>3

-----------------------------------------------------------------------------
(* Each step keeps the invariant.                                          *)

LEMMA WebStep ==
  ASSUME Inv, NEW w \in Webs, NEW kind \in Kinds \cup {"asks", "interfaces"}, Web(w, kind)
  PROVE  Inv'
<1> USE DEF Inv
<1>0. /\ waits[w] = 0 /\ Request(w, kind) /\ set' = set /\ ce' = ce /\ registered' = registered
      /\ inbox' = inbox /\ job' = job /\ lcp' = lcp /\ running' = running /\ late' = late
      /\ registered # {} /\ kind \in Kinds \cup CeKinds /\ w \in Threads /\ w # Ce
  BY ThreadsApart DEF Web, lcpVars, CeKinds
<1>1. \A l \in Lcps : Pending(l)' = Pending(l)
  BY <1>0 DEF Pending
<1>2. \A l \in Lcps : waits'[l] = waits[l]
  BY <1>0, Raised, ThreadsApart
<1>3. TypeOK'
  <2>1. reqs' \in Seq(Requests) /\ bus' \in Seq(Nat)
        /\ waits' \in [Threads -> 0 .. Len(reqs')]
        /\ (\A y \in Threads : waits'[y] # 0 => reqs'[waits'[y]].by = y)
        /\ \A r \in DOMAIN reqs : r \in DOMAIN reqs'
    BY <1>0, Raised
  <2>2. set \subseteq DOMAIN reqs' /\ late \subseteq DOMAIN reqs'
    BY <2>1 DEF TypeOK
  <2>3. (ce'.left > 0 \/ waits'[Ce] # 0) => ce'.job # 0
    BY <1>0, Raised, ThreadsApart DEF TypeOK
  <2> QED BY <1>0, <2>1, <2>2, <2>3 DEF TypeOK, Requests
<1>4. LcpInv'
  <2>1. \A l \in Lcps : lcp[l] = "executing" /\ waits[l] # 0 => reqs'[job[l]].what = "discovery"
    BY <1>0, JobKept DEF LcpInv
  <2> QED BY <1>0, <1>2, <2>1 DEF LcpInv
<1>5. QueueInv' /\ SuffixInv'
  BY <1>0, <1>1, RaisedInOrder
<1>6. OrderInv'
  <2>1. /\ \A b \in Held(bus') \ {Quit} :
              /\ \A r \in (Held(ce.inbox) \cup {ce.job}) \ {Quit} : r < b
              /\ \A l \in Lcps : \A r \in Pending(l) : r < b
        /\ Sorted(bus')
    BY <1>0, <1>1, RaisedInOrder, Raised
  <2> QED BY <1>0, <1>1, <2>1 DEF OrderInv
<1>7. AwaitedInv'
  BY <1>0, Raised
<1>8. AheadInv' /\ LateInv'
  BY <1>0, <1>1, AheadKept DEF LateInv
<1>9. KindInv' /\ LeadInv'
  BY <1>0, <1>1, RaisedKinds, RaisedLeads
<1> QED BY <1>3, <1>4, <1>5, <1>6, <1>7, <1>8, <1>9

LEMMA ReturnStep ==
  ASSUME Inv, NEW w \in Webs \cup {Ce}, Return(w)
  PROVE  Inv'
<1> USE DEF Inv
<1>0. /\ waits[w] \in set /\ waits' = [waits EXCEPT ![w] = 0]
      /\ reqs' = reqs /\ set' = set /\ ce' = ce /\ registered' = registered /\ bus' = bus
      /\ inbox' = inbox /\ job' = job /\ lcp' = lcp /\ running' = running /\ late' = late
  BY DEF Return, Returned, lcpVars, busVars
<1>1. /\ waits \in [Threads -> 0 .. Len(reqs)] /\ waits'[w] = 0
      /\ 0 \in 0 .. Len(reqs)
      /\ \A y \in Threads : y # w => waits'[y] = waits[y]
  BY <1>0, ThreadsApart, RequestsApart DEF TypeOK
<1>2. TypeOK'
  BY <1>0, <1>1 DEF TypeOK
<1>3. LcpInv'
  BY <1>0, <1>1, ThreadsApart DEF LcpInv
<1>4. AwaitedInv'
  BY <1>0, <1>1, RequestsApart DEF AwaitedInv
<1>5. QueueInv' /\ OrderInv' /\ SuffixInv' /\ AheadInv' /\ LateInv' /\ KindInv'
  BY <1>0 DEF QueueInv, OrderInv, SuffixInv, AheadInv, Ahead, LateInv, Pending, KindInv
<1>6. LeadInv'
  BY <1>0 DEF LeadInv, Leads, Unanswered, Pending
<1> QED BY <1>2, <1>3, <1>4, <1>5, <1>6

LEMMA QuitStep ==
  ASSUME Inv, RaiseQuit
  PROVE  Inv'
<1> USE DEF Inv
<1>0. /\ bus' = Append(bus, Quit) /\ waits' = waits
      /\ reqs' = reqs /\ set' = set /\ ce' = ce /\ registered' = registered
      /\ inbox' = inbox /\ job' = job /\ lcp' = lcp /\ running' = running /\ late' = late
  BY DEF RaiseQuit, lcpVars
<1>1. bus \in Seq(Nat) /\ Quit \in Nat /\ Sorted(bus)
  BY DEF TypeOK, OrderInv, Quit
<1>2. bus' \in Seq(Nat) /\ Held(bus') = Held(bus) \cup {Quit} /\ Sorted(bus')
  BY <1>0, <1>1, HeldAppend, SortedAppend
<1>3. TypeOK'
  BY <1>0, <1>2 DEF TypeOK
<1>4. LcpInv' /\ AwaitedInv' /\ SuffixInv' /\ AheadInv' /\ LateInv' /\ KindInv'
  BY <1>0 DEF LcpInv, AwaitedInv, SuffixInv, AheadInv, Ahead, LateInv, Pending, KindInv
<1>5. QueueInv' /\ OrderInv'
  BY <1>0, <1>2 DEF QueueInv, OrderInv, Pending
<1>6. LeadInv'
  BY <1>0, <1>2 DEF LeadInv, Leads, Unanswered, Pending
<1> QED BY <1>3, <1>4, <1>5, <1>6

(* The dispatcher gives a request to every LCP there is, behind all they   *)
(* have, and keeps the order of those it gives to the control element.     *)
LEMMA DispatchStep ==
  ASSUME Inv, Dispatch
  PROVE  Inv'
<1> USE DEF Inv
<1> DEFINE e == Head(bus)
           Gets(l) == ToLcps(e) /\ l \in registered
<1>0. /\ running /\ bus # <<>> /\ bus' = Tail(bus) /\ (running' <=> e # Quit)
      /\ inbox' = [l \in Lcps |-> IF Gets(l) THEN Append(inbox[l], e) ELSE inbox[l]]
      /\ ce' = IF ToCe(e) THEN [ce EXCEPT !.inbox = Append(@, e)] ELSE ce
      /\ waits' = waits /\ reqs' = reqs /\ set' = set /\ registered' = registered
      /\ job' = job /\ lcp' = lcp /\ late' = late
  BY DEF Dispatch
<1>1. bus \in Seq(Nat) /\ Sorted(bus) /\ ce.inbox \in Seq(Nat) /\ Sorted(ce.inbox)
  BY DEF TypeOK, OrderInv
<1>2. /\ e \in Nat /\ bus' \in Seq(Nat) /\ Held(bus) = {e} \cup Held(bus')
      /\ Sorted(bus') /\ (e # Quit => \A b \in Held(bus') \ {Quit} : e < b)
  BY <1>0, <1>1, HeldTail, SortedTail
<1>3. e # Quit => /\ e \in DOMAIN reqs /\ e \notin set
                  /\ \A r \in (Held(ce.inbox) \cup {ce.job}) \ {Quit} : r < e
                  /\ \A l \in Lcps : \A r \in Pending(l) : r < e
  BY <1>2 DEF QueueInv, OrderInv
<1> HIDE DEF e
<1>4. \A l \in Lcps : ~Gets(l) => inbox'[l] = inbox[l]
  BY <1>0
<1>5. \A l \in Lcps : Gets(l) =>
        inbox'[l] \in Seq(Nat) /\ Held(inbox'[l]) = Held(inbox[l]) \cup {e} /\ Sorted(inbox'[l])
  <2> SUFFICES ASSUME NEW l \in Lcps, Gets(l)
               PROVE  /\ inbox'[l] \in Seq(Nat) /\ Held(inbox'[l]) = Held(inbox[l]) \cup {e}
                      /\ Sorted(inbox'[l])
    OBVIOUS
  <2>1. inbox'[l] = Append(inbox[l], e)
    BY <1>0
  <2>2. inbox[l] \in Seq(Nat) /\ Sorted(inbox[l])
    BY InboxTyped DEF OrderInv
  <2>3. e # Quit => \A r \in Held(inbox[l]) \ {Quit} : r < e
    BY <1>3 DEF Pending, Quit
  <2>4. Sorted(Append(inbox[l], e))
    BY <1>2, <2>2, <2>3, SortedAppend
  <2>5. Append(inbox[l], e) \in Seq(Nat) /\ Held(Append(inbox[l], e)) = Held(inbox[l]) \cup {e}
    BY <1>2, <2>2, HeldAppend
  <2> QED BY <2>1, <2>4, <2>5
<1>6. \A l \in Lcps : Held(inbox[l]) \subseteq Held(inbox'[l])
                      /\ \A r \in Held(inbox'[l]) : r \in Held(inbox[l]) \/ (r = e /\ Gets(l))
  <2> TAKE l \in Lcps
  <2>1. CASE Gets(l)
    <3>1. Held(inbox'[l]) = Held(inbox[l]) \cup {e}
      BY <1>5, <2>1
    <3> QED BY <2>1, <3>1
  <2>2. CASE ~Gets(l)
    BY <1>4, <2>2
  <2> QED BY <2>1, <2>2
<1>7. \A l \in Lcps :
        /\ Pending(l) \subseteq Pending(l)'
        /\ \A r \in Pending(l)' : r \in Pending(l) \/ (r = e /\ e # Quit /\ Gets(l))
        /\ Gets(l) /\ e # Quit => e \in Pending(l)'
  BY <1>0, <1>5, <1>6 DEF Pending, Quit
<1>8. /\ ce'.inbox \in Seq(Nat) /\ ce' \in CeType /\ ce'.job = ce.job /\ ce'.left = ce.left
      /\ Sorted(ce'.inbox)
      /\ \A r \in Held(ce'.inbox) \ {Quit} : r \in Held(ce.inbox) \/ (r = e /\ ToCe(e))
  <2>1. ce \in CeType
    BY DEF TypeOK, CeType
  <2>2. CASE ToCe(e)
    <3>1. ce' = [inbox |-> Append(ce.inbox, e), serves |-> ce.serves,
               job |-> ce.job, left |-> ce.left]
      BY <1>0, <2>1, <2>2 DEF CeType
    <3>2. Append(ce.inbox, e) \in Seq(Nat) /\ Held(Append(ce.inbox, e)) = Held(ce.inbox) \cup {e}
      BY <1>1, <1>2, HeldAppend
    <3>3. Sorted(Append(ce.inbox, e))
      BY <1>1, <1>2, <1>3, SortedAppend
    <3> QED BY <2>1, <2>2, <3>1, <3>2, <3>3 DEF CeType
  <2>3. CASE ~ToCe(e)
    BY <1>0, <1>1, <2>1, <2>3 DEF CeType
  <2> QED BY <2>2, <2>3
<1>9. TypeOK'
  <2>1. \A l \in Lcps : inbox'[l] \in Seq(Nat)
    BY <1>4, <1>5, InboxTyped
  <2>2. inbox' \in [Lcps -> Seq(Nat)]
    BY <1>0, <2>1
  <2>3. running' \in BOOLEAN
    BY DEF Dispatch
  <2> QED BY <1>0, <1>2, <1>8, <2>2, <2>3 DEF TypeOK, CeType
<1>10. LcpInv'
  <2> SUFFICES ASSUME NEW l \in Lcps
               PROVE  /\ l \notin registered => inbox'[l] = <<>>
                      /\ lcp[l] = "ended" \/ Quit \in Held(inbox'[l]) => ~running'
    BY <1>0 DEF LcpInv
  <2>1. l \notin registered => inbox'[l] = <<>>
    BY <1>4 DEF LcpInv
  <2>2. lcp[l] # "ended" /\ Quit \notin Held(inbox[l])
    BY <1>0 DEF LcpInv
  <2> QED BY <1>0, <1>6, <2>1, <2>2
<1>11. QueueInv'
  <2>1. \A r \in Held(ce'.inbox) \ {Quit} :
          r \in DOMAIN reqs /\ r \notin set /\ reqs[r].what \in CeKinds
    BY <1>3, <1>8 DEF QueueInv, ToCe
  <2>2. \A l \in Lcps : \A r \in Pending(l)' : r \in DOMAIN reqs /\ reqs[r].what \in Kinds
    BY <1>3, <1>7 DEF QueueInv, ToLcps
  <2> QED BY <1>0, <1>2, <1>8, <2>1, <2>2 DEF QueueInv
<1>12. OrderInv'
  <2>1. \A l \in Lcps : Sorted(inbox'[l])
    BY <1>4, <1>5 DEF OrderInv
  <2>2. ASSUME NEW b \in Held(bus') \ {Quit}
        PROVE  /\ \A r \in (Held(ce'.inbox) \cup {ce'.job}) \ {Quit} : r < b
               /\ \A l \in Lcps : \A r \in Pending(l)' : r < b
    BY <1>2, <1>7, <1>8 DEF OrderInv
  <2>3. ASSUME NEW l \in Lcps, job[l] # 0, NEW r \in Held(inbox'[l]) \ {Quit}
        PROVE  job[l] < r
    <3>1. CASE r \in Held(inbox[l])
      BY <2>3, <3>1 DEF OrderInv
    <3>2. CASE r = e
      <4>1. job[l] \in Pending(l) /\ e # Quit
        BY <2>3, <3>2 DEF Pending
      <4> QED BY <1>3, <3>2, <4>1
    <3> QED BY <1>6, <2>3, <3>1, <3>2
  <2>4. ce.job # 0 => \A r \in Held(ce'.inbox) \ {Quit} : ce.job < r
    BY <1>3, <1>8 DEF OrderInv, Quit
  <2> QED BY <1>0, <1>2, <1>8, <2>1, <2>2, <2>3, <2>4 DEF OrderInv
<1>13. AwaitedInv'
  BY <1>0 DEF AwaitedInv
<1>14. SuffixInv'
  <2> SUFFICES ASSUME NEW l \in Lcps, NEW m \in Lcps,
                      NEW r \in Pending(l)', NEW s \in Pending(m)', r < s
               PROVE  s \in Pending(l)'
    BY DEF SuffixInv
  <2>1. CASE s \in Pending(m)
    <3>1. r # e
      <4>1. s \in Nat /\ r # Quit
        BY <1>7, <2>1, InboxTyped DEF Quit
      <4>2. e # Quit => s < e
        BY <1>3, <2>1
      <4> QED BY <1>2, <4>1, <4>2
    <3>2. r \in Pending(l)
      BY <1>7, <3>1
    <3> QED BY <1>7, <2>1, <3>2 DEF SuffixInv
  <2>2. CASE s \notin Pending(m)
    <3>1. s = e /\ e # Quit /\ ToLcps(e)
      BY <1>7, <2>2
    <3>2. l \in registered
      BY <1>7, NothingPending
    <3> QED BY <1>7, <3>1, <3>2
  <2> QED BY <2>1, <2>2
<1>15. AheadInv'
  <2> SUFFICES ASSUME registered # {}
               PROVE  \E l \in registered : Ahead(l)'
    BY <1>0 DEF AheadInv
  <2>1. PICK l \in registered : Ahead(l)
    BY DEF AheadInv
  <2>2. l \in Lcps
    BY DEF TypeOK
  <2>3. Ahead(l)'
    BY <1>0, <1>3, <1>7, <2>1, <2>2 DEF Ahead
  <2> QED BY <2>3
<1>16. LateInv'
  BY <1>0 DEF LateInv
<1>17. KindInv'
  BY <1>0 DEF KindInv
<1>18. LeadInv'
  <2> SUFFICES ASSUME running', NEW r \in DOMAIN reqs, Unanswered(r), r \notin Held(bus')
               PROVE  \E l \in Lcps : Leads(l, r)'
    BY <1>0 DEF LeadInv, Unanswered
  <2>1. e # Quit
    BY <1>0
  <2>2. CASE r = e
    <3>1. ToLcps(e) /\ registered # {}
      BY <2>2 DEF KindInv, Unanswered, ToLcps
    <3>2. PICK l \in registered : Ahead(l)
      BY <3>1 DEF AheadInv
    <3>3. l \in Lcps /\ Gets(l)
      BY <3>1 DEF TypeOK
    <3>4. e \in Pending(l)' /\ \A s \in Pending(l)' : s = e \/ s \in Pending(l)
      BY <1>7, <2>1, <3>3
    <3>5. ~(e < e)
      BY <1>2
    <3>6. \A s \in Pending(l)' : s < e => s \notin set
      BY <3>2, <3>4, <3>5 DEF Ahead
    <3>7. Leads(l, r)'
      BY <1>0, <2>2, <3>2, <3>4, <3>6 DEF Leads, Ahead
    <3> QED BY <3>3, <3>7
  <2>3. CASE r # e
    <3>1. r \notin Held(bus) /\ running
      BY <1>0, <1>2, <2>3
    <3>2. PICK l \in Lcps : Leads(l, r)
      BY <3>1 DEF LeadInv
    <3>3. r \in Pending(l) /\ r < e
      BY <1>3, <2>1, <3>2 DEF Leads
    <3>4. \A s \in Pending(l)' : s < r => s \in Pending(l)
      <4> SUFFICES ASSUME NEW s \in Pending(l)', s < r, s = e
                   PROVE  FALSE
        BY <1>7
      <4>1. r \in Nat
        BY <3>3, InboxTyped
      <4> QED BY <1>2, <3>3, <4>1
    <3>5. Leads(l, r)'
      BY <1>0, <1>7, <3>2, <3>4 DEF Leads
    <3> QED BY <3>5
  <2> QED BY <2>2, <2>3
<1> QED BY <1>17, <1>18, <1>9, <1>10, <1>11, <1>12, <1>13, <1>14, <1>15, <1>16

(* The control element takes a request that no LCP has to execute; who     *)
(* raised it still waits.                                                  *)
LEMMA CeServeStep ==
  ASSUME Inv, CeServe
  PROVE  Inv'
<1> USE DEF Inv
<1> DEFINE e == Head(ce.inbox)
           asks == e # Quit /\ reqs[e].what = "interfaces"
<1>0. /\ ce.inbox # <<>> /\ ce.job = 0
      /\ ce' = [inbox |-> Tail(ce.inbox), serves |-> e # Quit,
                job   |-> IF asks THEN e ELSE 0,
                left  |-> IF asks THEN Interfaces ELSE 0]
      /\ set' = IF asks THEN set ELSE set \cup ({e} \ {Quit})
      /\ late' = late \cup {r \in {e} \ {Quit} : ~InFrame(r)}
      /\ bus' = bus /\ running' = running /\ waits' = waits /\ reqs' = reqs
      /\ registered' = registered /\ inbox' = inbox /\ job' = job /\ lcp' = lcp
  BY DEF CeServe, CeFree, busVars, lcpVars
<1>1. ce.inbox \in Seq(Nat) /\ Sorted(ce.inbox)
  BY DEF TypeOK, OrderInv
<1>2. /\ e \in Nat /\ Tail(ce.inbox) \in Seq(Nat) /\ Held(ce.inbox) = {e} \cup Held(Tail(ce.inbox))
      /\ Sorted(Tail(ce.inbox))
      /\ (e # Quit => \A b \in Held(Tail(ce.inbox)) \ {Quit} : e < b)
  BY <1>0, <1>1, HeldTail, SortedTail
<1>3. e # Quit => e \in DOMAIN reqs /\ e \notin set /\ reqs[e].what \in CeKinds
  BY <1>2 DEF QueueInv
<1> HIDE DEF e
<1>4. /\ ce'.inbox = Tail(ce.inbox) /\ ce' \in CeType
      /\ ce'.job = (IF asks THEN e ELSE 0) /\ (ce'.job = 0 => ce'.left = 0)
  <2>1. (e # Quit) \in BOOLEAN /\ Interfaces \in Nat /\ (asks => e # 0)
    BY RequestsAssumption DEF Quit
  <2> HIDE DEF asks
  <2> QED BY <1>0, <1>2, <2>1 DEF CeType
<1>5. late' = late
  <2>1. e # Quit => InFrame(e)
    BY <1>3 DEF AwaitedInv, InFrame
  <2> QED BY <1>0, <2>1
<1>6. \A l \in Lcps : e # Quit => e \notin Pending(l)
  BY <1>3, ThreadsApart DEF QueueInv
<1>7. \A r : r \in set' => r \in set \/ (r = e /\ e # Quit)
  BY <1>0
<1>8. \A l \in Lcps : Pending(l)' = Pending(l)
  BY <1>0 DEF Pending
<1>9. TypeOK'
  <2>1. set' \subseteq DOMAIN reqs
    BY <1>3, <1>7 DEF TypeOK
  <2>2. waits[Ce] = 0
    BY <1>0 DEF TypeOK
  <2>3. (ce'.left > 0 \/ waits'[Ce] # 0) => ce'.job # 0
    BY <1>0, <1>4, <2>2
  <2> QED BY <1>0, <1>4, <1>5, <2>1, <2>3 DEF TypeOK, CeType
<1>10. LcpInv' /\ KindInv'
  BY <1>0 DEF LcpInv, KindInv
<1>11. QueueInv'
  <2>1. \A r \in Held(bus) \ {Quit} : r \notin set'
    <3> SUFFICES ASSUME NEW r \in Held(bus) \ {Quit}, r = e, e # Quit
                 PROVE  FALSE
      BY <1>7 DEF QueueInv
    <3>1. e < r
      BY <1>2 DEF OrderInv
    <3> QED BY <1>2, <3>1
  <2>2. \A r \in Held(Tail(ce.inbox)) \ {Quit} : r \notin set'
    <3> SUFFICES ASSUME NEW r \in Held(Tail(ce.inbox)) \ {Quit}, r = e, e # Quit
                 PROVE  FALSE
      BY <1>2, <1>7 DEF QueueInv
    <3>1. e < r
      BY <1>2
    <3> QED BY <1>2, <3>1
  <2>3. ce'.job # 0 => /\ ce'.job \in DOMAIN reqs /\ ce'.job \notin set'
                       /\ reqs[ce'.job].what = "interfaces"
    BY <1>0, <1>3, <1>4
  <2> QED BY <1>0, <1>2, <1>4, <1>8, <2>1, <2>2, <2>3 DEF QueueInv
<1>12. OrderInv'
  <2>1. ce'.job # 0 => ce'.job = e /\ e # Quit
    BY <1>4
  <2>2. \A b \in Held(bus) \ {Quit} : \A r \in (Held(ce'.inbox) \cup {ce'.job}) \ {Quit} : r < b
    BY <1>2, <1>4, <2>1 DEF OrderInv, Quit
  <2>3. ce'.job # 0 => \A r \in Held(ce'.inbox) \ {Quit} : ce'.job < r
    BY <1>2, <1>4, <2>1
  <2> QED BY <1>0, <1>2, <1>4, <1>8, <2>2, <2>3 DEF OrderInv
<1>13. AwaitedInv'
  BY <1>0, <1>7 DEF AwaitedInv
<1>14. SuffixInv'
  BY <1>8 DEF SuffixInv
<1>15. AheadInv' /\ LeadInv'
  <2>1. \A r : r \in set' => r \in set \/ \A l \in Lcps : r \notin Pending(l)
    BY <1>6, <1>7
  <2>2. \A r \in DOMAIN reqs' : Unanswered(r)' => r \in DOMAIN reqs /\ Unanswered(r)
    BY <1>0 DEF Unanswered
  <2>3. AheadInv'
    BY <1>0, <1>8, <2>1, AheadKept
  <2>4. LeadInv'
    BY <1>0, <1>8, <2>1, <2>2, LeadKept
  <2> QED BY <2>3, <2>4
<1>16. LateInv'
  BY <1>0, <1>5 DEF LateInv
<1> QED BY <1>9, <1>10, <1>11, <1>12, <1>13, <1>14, <1>15, <1>16

(* An LCP has registered, since a connection has asked for interfaces.     *)
LEMMA CeAskStep ==
  ASSUME Inv, CeAsk
  PROVE  Inv'
<1> USE DEF Inv
<1>0. /\ ce.left > 0 /\ waits[Ce] = 0 /\ Request(Ce, "short") /\ set' = set
      /\ ce' = [ce EXCEPT !.left = @ - 1] /\ registered' = registered
      /\ inbox' = inbox /\ job' = job /\ lcp' = lcp /\ running' = running /\ late' = late
      /\ Ce \in Threads /\ "short" \in Kinds /\ "short" \in Kinds \cup CeKinds
  BY ThreadsApart DEF CeAsk, lcpVars, Kinds
<1>1. \A l \in Lcps : Pending(l)' = Pending(l)
  BY <1>0 DEF Pending
<1>2. \A l \in Lcps : waits'[l] = waits[l]
  BY <1>0, Raised, ThreadsApart
<1>3. ce' \in CeType /\ ce'.inbox = ce.inbox /\ ce'.job = ce.job /\ ce.job # 0
  <2>1. ce \in CeType /\ ce.job # 0
    BY <1>0 DEF TypeOK, CeType
  <2>2. ce.left - 1 \in Nat
    BY <1>0, <2>1 DEF CeType
  <2> QED BY <1>0, <2>1, <2>2 DEF CeType
<1>4. TypeOK'
  <2>1. reqs' \in Seq(Requests) /\ bus' \in Seq(Nat)
        /\ waits' \in [Threads -> 0 .. Len(reqs')]
        /\ (\A y \in Threads : waits'[y] # 0 => reqs'[waits'[y]].by = y)
        /\ \A r \in DOMAIN reqs : r \in DOMAIN reqs'
    BY <1>0, Raised
  <2>2. set \subseteq DOMAIN reqs' /\ late \subseteq DOMAIN reqs'
    BY <2>1 DEF TypeOK
  <2> QED BY <1>0, <1>3, <2>1, <2>2 DEF TypeOK, Requests, CeType
<1>5. LcpInv'
  <2>1. \A l \in Lcps : lcp[l] = "executing" /\ waits[l] # 0 => reqs'[job[l]].what = "discovery"
    BY <1>0, JobKept DEF LcpInv
  <2> QED BY <1>0, <1>2, <2>1 DEF LcpInv
<1>6. QueueInv' /\ SuffixInv'
  BY <1>0, <1>1, <1>3, RaisedInOrder
<1>7. OrderInv'
  <2>1. /\ \A b \in Held(bus') \ {Quit} :
              /\ \A r \in (Held(ce.inbox) \cup {ce.job}) \ {Quit} : r < b
              /\ \A l \in Lcps : \A r \in Pending(l) : r < b
        /\ Sorted(bus')
    BY <1>0, <1>1, <1>3, RaisedInOrder, Raised
  <2> QED BY <1>0, <1>1, <1>3, <2>1 DEF OrderInv
<1>8. AwaitedInv'
  BY <1>0, Raised
<1>9. AheadInv' /\ LateInv'
  BY <1>0, <1>1, AheadKept DEF LateInv
<1>10. KindInv'
  <2>1. registered # {}
    BY <1>3 DEF QueueInv, KindInv
  <2> QED BY <1>0, <2>1, RaisedKinds
<1>11. LeadInv'
  BY <1>0, <1>1, RaisedLeads
<1> QED BY <1>4, <1>5, <1>6, <1>7, <1>8, <1>9, <1>10, <1>11

LEMMA CeNotifyStep ==
  ASSUME Inv, CeNotify
  PROVE  Inv'
<1> USE DEF Inv
<1> DEFINE e == ce.job
<1>0. /\ e # 0 /\ ce.left = 0 /\ waits[Ce] = 0 /\ set' = set \cup {e}
      /\ ce' = [ce EXCEPT !.job = 0] /\ bus' = bus /\ running' = running
      /\ waits' = waits /\ reqs' = reqs /\ registered' = registered /\ inbox' = inbox
      /\ job' = job /\ lcp' = lcp /\ late' = late
  BY DEF CeNotify, busVars, lcpVars
<1>1. e \in DOMAIN reqs /\ e \notin set /\ reqs[e].what = "interfaces" /\ e \in Nat
  BY <1>0, RequestsApart DEF QueueInv
<1>2. \A l \in Lcps : e \notin Pending(l)
  BY <1>1 DEF QueueInv, Kinds
<1>3. ce' \in CeType /\ ce'.inbox = ce.inbox /\ ce'.job = 0 /\ ce'.left = 0
  BY <1>0 DEF TypeOK, CeType
<1>4. /\ \A b \in Held(bus) \ {Quit} : b # e
      /\ \A b \in Held(ce.inbox) \ {Quit} : b # e
  <2>1. ~(e < e)
    BY <1>1
  <2>2. \A b \in Held(bus) \ {Quit} : e < b
    BY <1>0 DEF OrderInv, Quit
  <2>3. \A b \in Held(ce.inbox) \ {Quit} : e < b
    BY <1>0 DEF OrderInv
  <2> HIDE DEF e
  <2> QED BY <2>1, <2>2, <2>3
<1> HIDE DEF e
<1>5. \A l \in Lcps : Pending(l)' = Pending(l)
  BY <1>0 DEF Pending
<1>6. TypeOK'
  <2>1. set' \subseteq DOMAIN reqs
    BY <1>0, <1>1 DEF TypeOK
  <2>2. (ce'.left > 0 \/ waits'[Ce] # 0) => ce'.job # 0
    BY <1>0, <1>3
  <2> QED BY <1>0, <1>3, <2>1, <2>2 DEF TypeOK, CeType
<1>7. LcpInv' /\ KindInv' /\ LateInv' /\ SuffixInv'
  BY <1>0, <1>5 DEF LcpInv, KindInv, LateInv, SuffixInv
<1>8. QueueInv'
  BY <1>0, <1>3, <1>4, <1>5 DEF QueueInv
<1>9. OrderInv'
  BY <1>0, <1>3, <1>5 DEF OrderInv, Quit
<1>10. AwaitedInv'
  BY <1>0 DEF AwaitedInv
<1>11. AheadInv' /\ LeadInv'
  <2>1. \A r : r \in set' => r \in set \/ \A l \in Lcps : r \notin Pending(l)
    BY <1>0, <1>2
  <2>2. \A r \in DOMAIN reqs' : Unanswered(r)' => r \in DOMAIN reqs /\ Unanswered(r)
    BY <1>0 DEF Unanswered
  <2>3. AheadInv'
    BY <1>0, <1>5, <2>1, AheadKept
  <2>4. LeadInv'
    BY <1>0, <1>5, <2>1, <2>2, LeadKept
  <2> QED BY <2>3, <2>4
<1> QED BY <1>6, <1>7, <1>8, <1>9, <1>10, <1>11

LEMMA LaunchStep ==
  ASSUME Inv, NEW l \in Lcps, Launch(l)
  PROVE  Inv'
<1> USE DEF Inv
<1>0. /\ lcp[l] = "none" /\ waits[l] = 0 /\ Request(l, "start") /\ set' = set /\ ce' = ce
      /\ registered' = registered /\ lcp' = [lcp EXCEPT ![l] = "starting"]
      /\ inbox' = inbox /\ job' = job /\ running' = running /\ late' = late
      /\ l \in Threads /\ l # Ce /\ l \notin Webs /\ "start" \in Kinds \cup CeKinds
  BY ThreadsApart DEF Launch, LcpInv, CeKinds
<1>1. \A m \in Lcps : Pending(m)' = Pending(m)
  BY <1>0 DEF Pending
<1>2. /\ lcp' \in [Lcps -> {"none", "starting", "serving", "executing", "dead", "ended"}]
      /\ lcp'[l] = "starting" /\ \A m \in Lcps : m # l => lcp'[m] = lcp[m]
  BY <1>0 DEF TypeOK
<1>3. \A m \in Lcps : m # l => waits'[m] = waits[m]
  BY <1>0, Raised, ThreadsApart
<1>4. TypeOK'
  <2>1. reqs' \in Seq(Requests) /\ bus' \in Seq(Nat)
        /\ waits' \in [Threads -> 0 .. Len(reqs')]
        /\ (\A y \in Threads : waits'[y] # 0 => reqs'[waits'[y]].by = y)
        /\ \A r \in DOMAIN reqs : r \in DOMAIN reqs'
    BY <1>0, Raised
  <2>2. set \subseteq DOMAIN reqs' /\ late \subseteq DOMAIN reqs'
    BY <2>1 DEF TypeOK
  <2>4. (ce'.left > 0 \/ waits'[Ce] # 0) => ce'.job # 0
    BY <1>0, Raised, ThreadsApart DEF TypeOK
  <2>3. \A m \in Lcps : job'[m] # 0 <=> lcp'[m] = "executing"
    BY <1>0, <1>2 DEF TypeOK
  <2> QED BY <1>0, <1>2, <2>1, <2>2, <2>3, <2>4 DEF TypeOK, Requests
<1>5. LcpInv'
  <2> SUFFICES ASSUME NEW m \in Lcps
               PROVE  /\ m \in registered <=> lcp'[m] \notin {"none", "starting"}
                      /\ m \notin registered => inbox[m] = <<>>
                      /\ lcp'[m] \in {"none", "serving", "dead", "ended"} => waits'[m] = 0
                      /\ lcp'[m] = "ended" \/ Quit \in Held(inbox[m]) => ~running
                      /\ lcp'[m] = "executing" /\ waits'[m] # 0 => reqs'[job[m]].what = "discovery"
    BY <1>0 DEF LcpInv
  <2>1. CASE m = l
    BY <1>0, <1>2, <2>1 DEF LcpInv
  <2>2. CASE m # l
    BY <1>0, <1>2, <1>3, <2>2, JobKept DEF LcpInv
  <2> QED BY <2>1, <2>2
<1>6. QueueInv' /\ SuffixInv'
  BY <1>0, <1>1, RaisedInOrder
<1>7. OrderInv'
  <2>1. /\ \A b \in Held(bus') \ {Quit} :
              /\ \A r \in (Held(ce.inbox) \cup {ce.job}) \ {Quit} : r < b
              /\ \A m \in Lcps : \A r \in Pending(m) : r < b
        /\ Sorted(bus')
    BY <1>0, <1>1, RaisedInOrder, Raised
  <2> QED BY <1>0, <1>1, <2>1 DEF OrderInv
<1>8. AwaitedInv'
  BY <1>0, Raised
<1>9. AheadInv' /\ LateInv'
  <2>1. \A m \in Lcps : lcp[m] # "dead" => lcp'[m] # "dead"
    BY <1>0, <1>2
  <2> QED BY <1>0, <1>1, <2>1, AheadKept DEF LateInv
<1>10. KindInv'
  BY <1>0, RaisedKinds DEF Kinds
<1>11. LeadInv'
  <2>1. \A m \in Lcps : lcp[m] # "dead" => lcp'[m] # "dead"
    BY <1>0, <1>2
  <2> QED BY <1>0, <1>1, <2>1, RaisedLeads
<1> QED BY <1>10, <1>11, <1>4, <1>5, <1>6, <1>7, <1>8, <1>9

(* An LCP that has registered has nothing to finish yet.                   *)
LEMMA RegisterStep ==
  ASSUME Inv, NEW l \in Lcps, Register(l)
  PROVE  Inv'
<1> USE DEF Inv
<1>0. /\ lcp[l] = "starting" /\ waits[l] \in set /\ registered' = registered \cup {l}
      /\ lcp' = [lcp EXCEPT ![l] = "serving"] /\ waits' = [waits EXCEPT ![l] = 0]
      /\ reqs' = reqs /\ set' = set /\ ce' = ce /\ bus' = bus /\ running' = running
      /\ inbox' = inbox /\ job' = job /\ late' = late
      /\ l \in Threads /\ l # Ce
  BY ThreadsApart DEF Register, busVars
<1>1. l \notin registered /\ Pending(l) = {} /\ inbox[l] = <<>> /\ job[l] = 0
  <2>1. l \notin registered
    BY <1>0 DEF LcpInv
  <2> QED BY <2>1, NothingPending
<1>2. \A m \in Lcps : Pending(m)' = Pending(m)
  BY <1>0 DEF Pending
<1>3. /\ lcp' \in [Lcps -> {"none", "starting", "serving", "executing", "dead", "ended"}]
      /\ lcp'[l] = "serving" /\ \A m \in Lcps : m # l => lcp'[m] = lcp[m]
  BY <1>0 DEF TypeOK
<1>4. /\ waits' \in [Threads -> 0 .. Len(reqs)] /\ waits'[l] = 0
      /\ \A y \in Threads : y # l => waits'[y] = waits[y]
  <2>1. waits \in [Threads -> 0 .. Len(reqs)] /\ 0 \in 0 .. Len(reqs)
    BY RequestsApart DEF TypeOK
  <2> QED BY <1>0, <2>1
<1>5. TypeOK'
  <2>1. \A m \in Lcps : job[m] # 0 <=> lcp'[m] = "executing"
    BY <1>1, <1>3 DEF TypeOK
  <2>2. \A y \in Threads : waits'[y] # 0 => reqs[waits'[y]].by = y
    BY <1>4 DEF TypeOK
  <2>3. waits'[Ce] = waits[Ce]
    BY <1>0, <1>4, ThreadsApart
  <2> QED BY <1>0, <1>3, <1>4, <2>1, <2>2, <2>3 DEF TypeOK
<1>6. LcpInv'
  <2> SUFFICES ASSUME NEW m \in Lcps
               PROVE  /\ m \in registered' <=> lcp'[m] \notin {"none", "starting"}
                      /\ m \notin registered' => inbox[m] = <<>>
                      /\ lcp'[m] \in {"none", "serving", "dead", "ended"} => waits'[m] = 0
                      /\ lcp'[m] = "ended" \/ Quit \in Held(inbox[m]) => ~running
                      /\ lcp'[m] = "executing" /\ waits'[m] # 0 => reqs[job[m]].what = "discovery"
    BY <1>0 DEF LcpInv
  <2>1. CASE m = l
    BY <1>0, <1>1, <1>3, <1>4, <2>1, HeldNone
  <2>2. CASE m # l
    BY <1>0, <1>3, <1>4, <2>2, ThreadsApart DEF LcpInv
  <2> QED BY <2>1, <2>2
<1>7. AwaitedInv'
  <2> SUFFICES ASSUME NEW r \in DOMAIN reqs, r \notin set
               PROVE  waits'[reqs[r].by] = r
    BY <1>0 DEF AwaitedInv
  <2>1. waits[reqs[r].by] = r /\ reqs[r].by \in Threads
    BY RequestsApart DEF AwaitedInv
  <2> QED BY <1>0, <1>4, <2>1
<1>8. QueueInv' /\ OrderInv' /\ SuffixInv'
  BY <1>0, <1>2 DEF QueueInv, OrderInv, SuffixInv
<1>9. AheadInv'
  <2>1. Ahead(l)'
    BY <1>1, <1>2, <1>3 DEF Ahead
  <2> QED BY <1>0, <2>1 DEF AheadInv
<1>10. LateInv'
  BY <1>0 DEF LateInv
<1>11. KindInv'
  BY <1>0 DEF KindInv
<1>12. LeadInv'
  BY <1>0, <1>2, <1>3 DEF LeadInv, Leads, Unanswered
<1> QED BY <1>11, <1>12, <1>5, <1>6, <1>7, <1>8, <1>9, <1>10

(* What an LCP executes it still has to finish.  If nobody waits for it    *)
(* any more another LCP has finished it, and is ahead.                     *)
LEMMA ServeStep ==
  ASSUME Inv, NEW l \in Lcps, Serve(l)
  PROVE  Inv'
<1> USE DEF Inv
<1> DEFINE r == Head(inbox[l])
<1>0. /\ lcp[l] = "serving" /\ inbox[l] # <<>> /\ r # Quit
      /\ inbox' = [inbox EXCEPT ![l] = Tail(@)] /\ job' = [job EXCEPT ![l] = r]
      /\ late' = late \cup {x \in {r} : ~InFrame(x)}
      /\ lcp' = [lcp EXCEPT ![l] = "executing"]
      /\ Request(l, "elements") \/ UNCHANGED <<reqs, waits, bus>>
      /\ set' = set /\ running' = running /\ ce' = ce /\ registered' = registered
      /\ waits' # waits => reqs[r].what = "discovery"
      /\ l \in Threads /\ l # Ce /\ l \notin Webs
  BY ThreadsApart DEF Serve
<1>1. inbox[l] \in Seq(Nat) /\ Sorted(inbox[l]) /\ waits[l] = 0 /\ job[l] = 0 /\ l \in registered
  BY <1>0, InboxTyped DEF OrderInv, LcpInv, TypeOK
<1>2. /\ r \in Nat /\ Tail(inbox[l]) \in Seq(Nat) /\ Held(inbox[l]) = {r} \cup Held(Tail(inbox[l]))
      /\ Sorted(Tail(inbox[l]))
      /\ (r # Quit => \A x \in Held(Tail(inbox[l])) \ {Quit} : r < x)
  BY <1>0, <1>1, HeldTail, SortedTail
<1> HIDE DEF r
<1>3. /\ inbox' \in [Lcps -> Seq(Nat)] /\ inbox'[l] = Tail(inbox[l])
      /\ \A m \in Lcps : m # l => inbox'[m] = inbox[m]
  BY <1>0, <1>2 DEF TypeOK
<1>4. /\ job' \in [Lcps -> Nat] /\ job'[l] = r /\ \A m \in Lcps : m # l => job'[m] = job[m]
  BY <1>0, <1>2 DEF TypeOK
<1>5. /\ lcp' \in [Lcps -> {"none", "starting", "serving", "executing", "dead", "ended"}]
      /\ lcp'[l] = "executing" /\ \A m \in Lcps : m # l => lcp'[m] = lcp[m]
  BY <1>0 DEF TypeOK
<1>6. \A m \in Lcps : Pending(m)' = Pending(m)
  <2> SUFFICES ASSUME NEW m \in Lcps
               PROVE  Pending(m)' = Pending(m)
    OBVIOUS
  <2>1. CASE m = l
    BY <1>1, <1>2, <1>3, <1>4, <2>1 DEF Pending
  <2>2. CASE m # l
    BY <1>3, <1>4, <2>2 DEF Pending
  <2> QED BY <2>1, <2>2
<1>7. "elements" \in Kinds \cup CeKinds
  BY DEF CeKinds
<1>8. \A m \in Lcps : m # l => waits'[m] = waits[m]
  BY <1>0, <1>1, <1>7, Raised, ThreadsApart
<1>9. r \in Pending(l) /\ r \in DOMAIN reqs
  <2>1. r \in Pending(l)
    BY <1>0, <1>2 DEF Pending, Quit
  <2> QED BY <2>1 DEF QueueInv
<1>10. TypeOK'
  <2>1. reqs' \in Seq(Requests) /\ bus' \in Seq(Nat)
        /\ waits' \in [Threads -> 0 .. Len(reqs')]
        /\ (\A y \in Threads : waits'[y] # 0 => reqs'[waits'[y]].by = y)
        /\ \A x \in DOMAIN reqs : x \in DOMAIN reqs'
    BY <1>0, <1>1, <1>7, Raised
  <2>2. set \subseteq DOMAIN reqs' /\ late' \subseteq DOMAIN reqs'
    BY <1>0, <1>9, <2>1 DEF TypeOK
  <2>3. \A m \in Lcps : job'[m] # 0 <=> lcp'[m] = "executing"
    <3> SUFFICES ASSUME NEW m \in Lcps
                 PROVE  job'[m] # 0 <=> lcp'[m] = "executing"
      OBVIOUS
    <3>1. CASE m = l
      BY <1>0, <1>4, <1>5, <3>1 DEF Quit
    <3>2. CASE m # l
      BY <1>4, <1>5, <3>2 DEF TypeOK
    <3> QED BY <3>1, <3>2
  <2>4. (ce'.left > 0 \/ waits'[Ce] # 0) => ce'.job # 0
    BY <1>0, <1>1, <1>7, Raised, ThreadsApart DEF TypeOK
  <2> QED BY <1>0, <1>3, <1>4, <1>5, <2>1, <2>2, <2>3, <2>4 DEF TypeOK, Requests
<1>11. LcpInv'
  <2> SUFFICES ASSUME NEW m \in Lcps
               PROVE  /\ m \in registered <=> lcp'[m] \notin {"none", "starting"}
                      /\ m \notin registered => inbox'[m] = <<>>
                      /\ lcp'[m] \in {"none", "serving", "dead", "ended"} => waits'[m] = 0
                      /\ lcp'[m] = "ended" \/ Quit \in Held(inbox'[m]) => ~running
                      /\ lcp'[m] = "executing" /\ waits'[m] # 0 => reqs'[job'[m]].what = "discovery"
    BY <1>0 DEF LcpInv
  <2>1. CASE m = l
    <3>1. lcp'[m] = "executing" /\ waits'[m] # 0 => reqs'[job'[m]].what = "discovery"
      BY <1>0, <1>1, <1>4, <1>7, <1>9, <2>1, Raised
    <3> QED BY <1>1, <1>2, <1>3, <1>5, <2>1, <3>1 DEF LcpInv
  <2>2. CASE m # l
    <3>1. lcp'[m] = "executing" /\ waits'[m] # 0 => reqs'[job'[m]].what = "discovery"
      BY <1>0, <1>1, <1>4, <1>5, <1>7, <1>8, <2>2, JobKept DEF LcpInv
    <3> QED BY <1>3, <1>5, <1>8, <2>2, <3>1 DEF LcpInv
  <2> QED BY <2>1, <2>2
<1>12. QueueInv' /\ SuffixInv'
  BY <1>0, <1>1, <1>6, <1>7, RaisedInOrder
<1>13. OrderInv'
  <2>1. /\ \A b \in Held(bus') \ {Quit} :
              /\ \A x \in (Held(ce.inbox) \cup {ce.job}) \ {Quit} : x < b
              /\ \A m \in Lcps : \A x \in Pending(m) : x < b
        /\ Sorted(bus')
    BY <1>0, <1>1, <1>6, <1>7, RaisedInOrder, Raised
  <2>2. \A m \in Lcps : Sorted(inbox'[m])
    BY <1>2, <1>3 DEF OrderInv
  <2>3. \A m \in Lcps : job'[m] # 0 => \A x \in Held(inbox'[m]) \ {Quit} : job'[m] < x
    <3> SUFFICES ASSUME NEW m \in Lcps, job'[m] # 0
                 PROVE  \A x \in Held(inbox'[m]) \ {Quit} : job'[m] < x
      OBVIOUS
    <3>1. CASE m = l
      BY <1>0, <1>2, <1>3, <1>4, <3>1
    <3>2. CASE m # l
      BY <1>3, <1>4, <3>2 DEF OrderInv
    <3> QED BY <3>1, <3>2
  <2> QED BY <1>0, <1>6, <2>1, <2>2, <2>3 DEF OrderInv
<1>14. AwaitedInv'
  BY <1>0, <1>1, <1>7, Raised
<1>15. AheadInv'
  <2>1. \A m \in Lcps : lcp[m] # "dead" => lcp'[m] # "dead"
    BY <1>5
  <2> QED BY <1>0, <1>6, <2>1, AheadKept
<1>16. LateInv'
  <2>1. CASE InFrame(r)
    BY <1>0, <2>1 DEF LateInv
  <2>2. CASE ~InFrame(r)
    <3>1. r \in set
      BY <1>9, <2>2 DEF AwaitedInv, InFrame
    <3>2. ~Ahead(l)
      BY <1>9, <3>1 DEF Ahead
    <3>3. PICK m \in registered : Ahead(m)
      BY <1>1 DEF AheadInv
    <3> QED BY <1>0, <1>1, <3>2, <3>3 DEF LateInv
  <2> QED BY <2>1, <2>2
<1>17. KindInv'
  BY <1>0, <1>1, <1>7, RaisedKinds DEF Kinds
<1>18. LeadInv'
  <2>1. \A m \in Lcps : lcp[m] # "dead" => lcp'[m] # "dead"
    BY <1>5
  <2> QED BY <1>0, <1>1, <1>6, <1>7, <2>1, RaisedLeads
<1> QED BY <1>17, <1>18, <1>10, <1>11, <1>12, <1>13, <1>14, <1>15, <1>16

LEMMA ResumeStep ==
  ASSUME Inv, NEW l \in Lcps, Resume(l)
  PROVE  Inv'
<1> USE DEF Inv
<1>0. /\ lcp[l] = "executing" /\ waits[l] \in set /\ waits' = [waits EXCEPT ![l] = 0]
      /\ reqs' = reqs /\ set' = set /\ ce' = ce /\ registered' = registered /\ bus' = bus
      /\ inbox' = inbox /\ job' = job /\ lcp' = lcp /\ running' = running /\ late' = late
      /\ l \in Threads /\ l # Ce
  BY ThreadsApart DEF Resume, lcpVars, busVars
<1>1. /\ waits \in [Threads -> 0 .. Len(reqs)] /\ waits'[l] = 0
      /\ 0 \in 0 .. Len(reqs)
      /\ \A y \in Threads : y # l => waits'[y] = waits[y]
  BY <1>0, RequestsApart DEF TypeOK
<1>2. TypeOK'
  BY <1>0, <1>1, ThreadsApart DEF TypeOK
<1>3. LcpInv'
  BY <1>0, <1>1, ThreadsApart DEF LcpInv
<1>4. AwaitedInv'
  BY <1>0, <1>1, RequestsApart DEF AwaitedInv
<1>5. QueueInv' /\ OrderInv' /\ SuffixInv' /\ AheadInv' /\ LateInv'
  BY <1>0 DEF QueueInv, OrderInv, SuffixInv, AheadInv, Ahead, LateInv, Pending
<1>6. KindInv' /\ LeadInv'
  BY <1>0 DEF KindInv, LeadInv, Leads, Unanswered, Pending
<1> QED BY <1>2, <1>3, <1>4, <1>5, <1>6

LEMMA EndStep ==
  ASSUME Inv, NEW l \in Lcps, End(l)
  PROVE  Inv'
<1> USE DEF Inv
<1>0. /\ lcp[l] = "serving" /\ inbox[l] # <<>> /\ Head(inbox[l]) = Quit
      /\ lcp' = [lcp EXCEPT ![l] = "ended"] /\ waits' = waits
      /\ reqs' = reqs /\ set' = set /\ ce' = ce /\ registered' = registered /\ bus' = bus
      /\ inbox' = inbox /\ job' = job /\ running' = running /\ late' = late
  BY DEF End, busVars
<1>1. /\ lcp' \in [Lcps -> {"none", "starting", "serving", "executing", "dead", "ended"}]
      /\ lcp'[l] = "ended" /\ \A m \in Lcps : m # l => lcp'[m] = lcp[m]
  BY <1>0 DEF TypeOK
<1>2. ~running
  <2>1. Quit \in Held(inbox[l])
    BY <1>0, InboxTyped, HeldTail
  <2> QED BY <2>1 DEF LcpInv
<1>3. TypeOK'
  <2>1. \A m \in Lcps : job[m] # 0 <=> lcp'[m] = "executing"
    BY <1>0, <1>1 DEF TypeOK
  <2> QED BY <1>0, <1>1, <2>1 DEF TypeOK
<1>4. LcpInv'
  <2> SUFFICES ASSUME NEW m \in Lcps
               PROVE  /\ m \in registered <=> lcp'[m] \notin {"none", "starting"}
                      /\ m \notin registered => inbox[m] = <<>>
                      /\ lcp'[m] \in {"none", "serving", "dead", "ended"} => waits[m] = 0
                      /\ lcp'[m] = "ended" \/ Quit \in Held(inbox[m]) => ~running
                      /\ lcp'[m] = "executing" /\ waits[m] # 0 => reqs[job[m]].what = "discovery"
    BY <1>0 DEF LcpInv
  <2>1. CASE m = l
    BY <1>0, <1>1, <1>2, <2>1 DEF LcpInv
  <2>2. CASE m # l
    BY <1>1, <2>2 DEF LcpInv
  <2> QED BY <2>1, <2>2
<1>5. \A m \in Lcps : Pending(m)' = Pending(m)
  BY <1>0 DEF Pending
<1>6. QueueInv' /\ OrderInv' /\ SuffixInv' /\ AwaitedInv' /\ LateInv'
  BY <1>0, <1>5 DEF QueueInv, OrderInv, SuffixInv, AwaitedInv, LateInv
<1>7. AheadInv'
  <2>1. \A m \in Lcps : lcp[m] # "dead" => lcp'[m] # "dead"
    BY <1>0, <1>1
  <2> QED BY <1>0, <1>5, <2>1, AheadKept
<1>8. KindInv' /\ LeadInv'
  BY <1>0, <1>2 DEF KindInv, LeadInv
<1> QED BY <1>8, <1>3, <1>4, <1>6, <1>7

(* An LCP that finishes what the one ahead still has to finish has no      *)
(* later request that this one has finished: it is ahead now.  If it is    *)
(* the first to finish it no other falls behind; if not it was not ahead.  *)
LEMMA FinishStep ==
  ASSUME Inv, NEW l \in Lcps, Finish(l)
  PROVE  Inv'
<1> USE DEF Inv
<1> DEFINE r == job[l]
           status == IF r \notin set THEN "serving" ELSE "dead"
<1>0. /\ lcp[l] = "executing" /\ waits[l] = 0
      /\ set' = set \cup {r} /\ lcp' = [lcp EXCEPT ![l] = status]
      /\ job' = [job EXCEPT ![l] = 0] /\ inbox' = inbox /\ waits' = waits
      /\ reqs' = reqs /\ ce' = ce /\ registered' = registered /\ bus' = bus
      /\ running' = running /\ late' = late
  BY DEF Finish, Caught, busVars
<1>1. r \in Nat \ {0} /\ r \in Pending(l) /\ l \in registered
  <2>1. r \in Nat \ {0}
    BY <1>0 DEF TypeOK
  <2> QED BY <1>0, <2>1 DEF Pending, LcpInv
<1>2. r \in DOMAIN reqs /\ reqs[r].what \in Kinds
  BY <1>1 DEF QueueInv
<1>3. /\ lcp' \in [Lcps -> {"none", "starting", "serving", "executing", "dead", "ended"}]
      /\ lcp'[l] = status /\ \A m \in Lcps : m # l => lcp'[m] = lcp[m]
  BY <1>0 DEF TypeOK
<1>4. /\ job' \in [Lcps -> Nat] /\ job'[l] = 0 /\ \A m \in Lcps : m # l => job'[m] = job[m]
  BY <1>0 DEF TypeOK
<1>5. status \in {"serving", "dead"} /\ (r \notin set => status = "serving")
  OBVIOUS
<1> HIDE DEF r, status
<1>6. /\ \A x \in Pending(l)' : x \in Pending(l) /\ r < x
      /\ \A x \in Pending(l) : r < x => x \in Pending(l)'
      /\ \A m \in Lcps : m # l => Pending(m)' = Pending(m)
  <2>1. \A x \in Held(inbox[l]) \ {0} : r < x
    BY <1>1 DEF OrderInv, Quit, r
  <2>2. Pending(l)' = Held(inbox[l]) \ {0} /\ Pending(l) = (Held(inbox[l]) \cup {r}) \ {0}
    BY <1>0, <1>4 DEF Pending, r
  <2>3. \A m \in Lcps : m # l => Pending(m)' = Pending(m)
    BY <1>0, <1>4 DEF Pending
  <2> QED BY <1>1, <2>1, <2>2, <2>3
<1>7. \A m \in Lcps : \A x \in Pending(m)' : x \in Pending(m)
  BY <1>6
<1>8. TypeOK'
  <2>1. \A m \in Lcps : job'[m] # 0 <=> lcp'[m] = "executing"
    <3> SUFFICES ASSUME NEW m \in Lcps
                 PROVE  job'[m] # 0 <=> lcp'[m] = "executing"
      OBVIOUS
    <3>1. CASE m = l
      BY <1>3, <1>4, <1>5, <3>1
    <3>2. CASE m # l
      BY <1>3, <1>4, <3>2 DEF TypeOK
    <3> QED BY <3>1, <3>2
  <2>2. set' \subseteq DOMAIN reqs
    BY <1>0, <1>2 DEF TypeOK
  <2> QED BY <1>0, <1>3, <1>4, <2>1, <2>2 DEF TypeOK
<1>9. LcpInv'
  <2> SUFFICES ASSUME NEW m \in Lcps
               PROVE  /\ m \in registered <=> lcp'[m] \notin {"none", "starting"}
                      /\ m \notin registered => inbox[m] = <<>>
                      /\ lcp'[m] \in {"none", "serving", "dead", "ended"} => waits[m] = 0
                      /\ lcp'[m] = "ended" \/ Quit \in Held(inbox[m]) => ~running
                      /\ lcp'[m] = "executing" /\ waits[m] # 0 => reqs[job'[m]].what = "discovery"
    BY <1>0 DEF LcpInv
  <2>1. CASE m = l
    BY <1>0, <1>1, <1>3, <1>5, <2>1 DEF LcpInv
  <2>2. CASE m # l
    BY <1>3, <1>4, <2>2 DEF LcpInv
  <2> QED BY <2>1, <2>2
<1>10. QueueInv'
  <2>1. \A b \in Held(bus) \ {Quit} : b # r
    <3> SUFFICES ASSUME NEW b \in Held(bus) \ {Quit}, b = r
                 PROVE  FALSE
      OBVIOUS
    <3>1. r < b
      BY <1>1 DEF OrderInv
    <3> QED BY <1>1, <3>1
  <2>2. \A c \in Held(ce.inbox) \ {Quit} : c # r
    BY <1>2, ThreadsApart DEF QueueInv
  <2>3. \A m \in Lcps : \A x \in Pending(m)' : x \in DOMAIN reqs /\ reqs[x].what \in Kinds
    BY <1>7 DEF QueueInv
  <2>4. ce.job # r
    <3>1. ce.job # 0 => reqs[ce.job].what \notin Kinds
      BY DEF QueueInv, Kinds
    <3> QED BY <1>1, <1>2, <3>1
  <2> QED BY <1>0, <2>1, <2>2, <2>3, <2>4 DEF QueueInv
<1>11. OrderInv'
  <2>1. \A b \in Held(bus) \ {Quit} :
          /\ \A c \in (Held(ce.inbox) \cup {ce.job}) \ {Quit} : c < b
          /\ \A m \in Lcps : \A x \in Pending(m)' : x < b
    BY <1>7 DEF OrderInv
  <2>2. \A m \in Lcps : job'[m] # 0 => \A x \in Held(inbox[m]) \ {Quit} : job'[m] < x
    BY <1>4 DEF OrderInv
  <2>3. Sorted(bus) /\ Sorted(ce.inbox) /\ \A m \in Lcps : Sorted(inbox[m])
    BY DEF OrderInv
  <2>4. ce.job # 0 => \A c \in Held(ce.inbox) \ {Quit} : ce.job < c
    BY DEF OrderInv
  <2> QED BY <1>0, <2>1, <2>2, <2>3, <2>4 DEF OrderInv
<1>12. AwaitedInv'
  BY <1>0 DEF AwaitedInv
<1>13. SuffixInv'
  <2> SUFFICES ASSUME NEW k \in Lcps, NEW m \in Lcps,
                      NEW x \in Pending(k)', NEW y \in Pending(m)', x < y
               PROVE  y \in Pending(k)'
    BY DEF SuffixInv
  <2>1. x \in Pending(k) /\ y \in Pending(k)
    BY <1>7 DEF SuffixInv
  <2>2. CASE k = l
    <3>1. x \in Nat /\ y \in Nat /\ r < x
      BY <1>6, <2>1, <2>2, InboxTyped
    <3>2. r < y
      BY <1>1, <3>1
    <3> QED BY <1>6, <2>1, <2>2, <3>2
  <2>3. CASE k # l
    BY <1>6, <2>1, <2>3
  <2> QED BY <2>2, <2>3
<1>14. AheadInv'
  <2>1. PICK m \in registered : Ahead(m)
    BY <1>1 DEF AheadInv
  <2>2. m \in Lcps
    BY DEF TypeOK
  <2>3. CASE m # l /\ r \notin Pending(m)
    <3>1. Ahead(m)'
      BY <1>0, <1>3, <1>6, <2>1, <2>2, <2>3 DEF Ahead
    <3> QED BY <1>0, <2>1, <3>1 DEF AheadInv
  <2>4. CASE r \in Pending(m)
    <3>1. r \notin set
      BY <2>1, <2>4 DEF Ahead
    <3>2. \A x \in Pending(l)' : x \in Pending(m)
      BY <1>6, <2>2, <2>4 DEF SuffixInv
    <3>3. \A x \in Pending(l)' : x \notin set /\ x # r
      <4> SUFFICES ASSUME NEW x \in Pending(l)'
                   PROVE  x \notin set /\ x # r
        OBVIOUS
      <4>1. x \notin set
        BY <2>1, <3>2 DEF Ahead
      <4>2. r < x
        BY <1>6
      <4> QED BY <1>1, <4>1, <4>2
    <3>4. Ahead(l)'
      BY <1>0, <1>3, <1>5, <3>1, <3>3 DEF Ahead
    <3> QED BY <1>0, <1>1, <3>4 DEF AheadInv
  <2> QED BY <1>1, <2>3, <2>4
<1>15. LateInv'
  BY <1>0 DEF LateInv
<1>16. KindInv'
  BY <1>0 DEF KindInv
<1>18. \A x \in Pending(l) : x # r => r < x
  <2>1. Pending(l) = (Held(inbox[l]) \cup {job[l]}) \ {0} /\ r = job[l]
    BY DEF Pending, r
  <2>2. \A x \in Held(inbox[l]) \ {0} : r < x
    BY <1>1 DEF OrderInv, Quit, r
  <2> QED BY <2>1, <2>2
<1>17. LeadInv'
  <2> SUFFICES ASSUME running, NEW q \in DOMAIN reqs, q \notin set, q # r,
                      reqs[q].what \in Kinds, q \notin Held(bus)
               PROVE  \E m \in Lcps : Leads(m, q)'
    BY <1>0 DEF LeadInv, Unanswered
  <2>1. PICK k \in Lcps : Leads(k, q)
    BY DEF LeadInv, Unanswered
  <2>2. q \in Nat
    BY RequestsApart
  <2>3. CASE k = l
    <3>1. r < q
      BY <1>18, <2>1, <2>3 DEF Leads
    <3>2. r \notin set /\ q \in Pending(l)'
      BY <1>1, <1>6, <2>1, <2>3, <3>1 DEF Leads
    <3>3. \A s \in Pending(l)' : s < q => s \notin set /\ s # r
      <4> SUFFICES ASSUME NEW s \in Pending(l)', s < q
                   PROVE  s \notin set /\ s # r
        OBVIOUS
      <4>1. s \in Pending(l) /\ r < s
        BY <1>6
      <4>2. s # r
        BY <1>1, <4>1
      <4> QED BY <2>1, <2>3, <4>1, <4>2 DEF Leads
    <3>4. Leads(l, q)'
      BY <1>0, <1>3, <1>5, <3>2, <3>3 DEF Leads
    <3> QED BY <3>4
  <2>4. CASE k # l /\ ~(r \in Pending(k) /\ r < q)
    <3>1. \A s \in Pending(k) : s < q => s \notin set /\ s # r
      BY <2>1, <2>4 DEF Leads
    <3>2. Leads(k, q)'
      BY <1>0, <1>3, <1>6, <2>1, <2>4, <3>1 DEF Leads
    <3> QED BY <3>2
  <2>5. CASE k # l /\ r \in Pending(k) /\ r < q
    <3>1. r \notin set /\ q \in Pending(l)'
      BY <1>1, <1>6, <2>1, <2>5 DEF Leads, SuffixInv
    <3>2. \A s \in Pending(l)' : s < q => s \notin set /\ s # r
      <4> SUFFICES ASSUME NEW s \in Pending(l)', s < q
                   PROVE  s \notin set /\ s # r
        OBVIOUS
      <4>1. s \in Pending(l) /\ r < s
        BY <1>6
      <4>2. s # r
        BY <1>1, <4>1
      <4>3. s \in Pending(k)
        BY <2>5, <4>1 DEF SuffixInv
      <4> QED BY <2>1, <4>2, <4>3 DEF Leads
    <3>3. Leads(l, q)'
      BY <1>0, <1>3, <1>5, <3>1, <3>2 DEF Leads
    <3> QED BY <3>3
  <2> QED BY <2>3, <2>4, <2>5
<1> QED BY <1>16, <1>17, <1>8, <1>9, <1>10, <1>11, <1>12, <1>13, <1>14, <1>15

LEMMA InvInit == Init => Inv
<1> SUFFICES ASSUME Init PROVE Inv
  OBVIOUS
<1>1. /\ reqs = <<>> /\ DOMAIN reqs = {} /\ Len(reqs) = 0 /\ bus = <<>>
      /\ ce = [inbox |-> <<>>, serves |-> TRUE, job |-> 0, left |-> 0] /\ registered = {} /\ late = {} /\ set = {}
      /\ running = TRUE
      /\ \A l \in Lcps : inbox[l] = <<>> /\ job[l] = 0 /\ lcp[l] = "none" /\ waits[l] = 0
  BY ThreadsApart DEF Init
<1>2. \A l \in Lcps : Pending(l) = {}
  BY <1>1, HeldNone DEF Pending
<1>3. TypeOK
  <2>1. reqs \in Seq(Requests) /\ bus \in Seq(Nat) /\ ce \in CeType
    BY <1>1 DEF CeType
  <2>2. waits \in [Threads -> 0 .. Len(reqs)] /\ \A x \in Threads : waits[x] = 0
    BY <1>1 DEF Init
  <2> QED BY <1>1, <2>1, <2>2, ThreadsApart DEF TypeOK, Init, Requests, CeType
<1>4. Sorted(<<>>)
  BY DEF Sorted
<1>5. LcpInv
  BY <1>1, HeldNone DEF LcpInv
<1>6. KindInv /\ AwaitedInv /\ LeadInv
  BY <1>1 DEF KindInv, AwaitedInv, LeadInv
<1>7. SuffixInv
  BY <1>2 DEF SuffixInv
<1>9. AheadInv /\ LateInv
  BY <1>1 DEF AheadInv, LateInv
<1>8. QueueInv /\ OrderInv
  <2>1. Held(bus) = {} /\ Held(ce.inbox) = {} /\ ce.job = 0 /\ Sorted(bus) /\ Sorted(ce.inbox)
        /\ \A l \in Lcps : Sorted(inbox[l])
    BY <1>1, <1>4, HeldNone
  <2> QED BY <1>1, <1>2, <2>1 DEF QueueInv, OrderInv
<1> QED BY <1>3, <1>5, <1>6, <1>7, <1>8, <1>9 DEF Inv

LEMMA InvStep == Inv /\ [Next]_vars => Inv'
<1> SUFFICES ASSUME Inv, [Next]_vars PROVE Inv'
  OBVIOUS
<1>1. CASE UNCHANGED vars
  <2> USE <1>1 DEF vars, busVars, lcpVars, Inv, Pending
  <2>1. TypeOK' /\ LcpInv' /\ KindInv' /\ AwaitedInv' /\ LateInv'
    BY DEF TypeOK, LcpInv, KindInv, AwaitedInv, LateInv
  <2>2. QueueInv' /\ OrderInv' /\ SuffixInv'
    BY DEF QueueInv, OrderInv, SuffixInv
  <2>3. AheadInv' /\ LeadInv'
    BY DEF AheadInv, Ahead, LeadInv, Leads, Unanswered
  <2> QED BY <2>1, <2>2, <2>3
<1>2. CASE Next
  BY <1>2, WebStep, ReturnStep, QuitStep, DispatchStep, CeServeStep, CeAskStep, CeNotifyStep, LaunchStep, RegisterStep,
     ServeStep, ResumeStep, FinishStep, EndStep DEF Next, LcpStep, CeStep
<1> QED BY <1>1, <1>2

LEMMA InvAlways == Spec => []Inv
BY InvInit, InvStep, PTL DEF Spec

-----------------------------------------------------------------------------
(* Every variable keeps its type: only requests that were raised are       *)
(* executed, answered or waited for, each by the one who raised it.        *)
THEOREM RequestsTypeCorrect == Spec => []TypeOK
<1>1. Inv => TypeOK
  BY DEF Inv
<1> QED BY <1>1, InvAlways, PTL

(* However many LCPs start_lcp has launched, and in whatever order they    *)
(* execute the same requests of the web server, one of them serves until   *)
(* Quit is raised; one alone executes nothing whose frame is gone; and the *)
(* control element and the LCPs come to wait for each other only while two *)
(* connections ask, one for the interfaces and one for a discovery.        *)
THEOREM OneAlwaysServes == Spec => []OneServes
<1>1. ASSUME Inv PROVE OneSurvives
  <2> SUFFICES ASSUME registered # {}, running
               PROVE  \E l \in registered : lcp[l] \in {"serving", "executing"}
    BY DEF OneSurvives
  <2>1. PICK l \in registered : Ahead(l)
    BY <1>1 DEF Inv, AheadInv
  <2>2. l \in Lcps
    BY <1>1 DEF Inv, TypeOK
  <2>3. lcp[l] \notin {"none", "starting", "dead", "ended"}
    BY <1>1, <2>1, <2>2 DEF Inv, LcpInv, Ahead
  <2>4. lcp[l] \in {"serving", "executing"}
    BY <1>1, <2>2, <2>3 DEF Inv, TypeOK
  <2> QED BY <2>4
<1>2. ASSUME Inv PROVE LateOnlyWithTwoLcps
  <2> SUFFICES ASSUME late # {}
               PROVE  Cardinality(registered) > 1
    BY DEF LateOnlyWithTwoLcps
  <2>1. PICK l \in registered, m \in registered : l # m
    BY <1>2 DEF Inv, LateInv
  <2>2. IsFiniteSet(registered)
    BY <1>2, RequestsAssumption, FS_Subset DEF Inv, TypeOK
  <2>3. Cardinality(registered) \in Nat /\ Cardinality(registered) # 0
    BY <2>1, <2>2, FS_CardinalityType, FS_EmptySet
  <2>4. Cardinality(registered) # 1
    BY <2>1, <2>2, FS_Singleton
  <2> QED BY <2>3, <2>4
<1>3. ASSUME Inv PROVE DeadlockTakesTwo
  <2> USE <1>3 DEF Inv
  <2> SUFFICES ASSUME Deadlocked, running
               PROVE  \E v, w \in Webs :
                        /\ Waiting(v) /\ waits[v] = ce.job
                        /\ Waiting(w) /\ reqs[waits[w]].what = "discovery"
                        /\ \E l \in registered : Waiting(l) /\ job[l] = waits[w]
    BY DEF DeadlockTakesTwo
  <2> DEFINE c == waits[Ce]
  <2>1. c \in DOMAIN reqs /\ c \notin set /\ c \notin Held(bus) /\ reqs[c].by = Ce
    <3>1. c # 0 /\ c \notin set /\ \A k \in DOMAIN bus : bus[k] # c
      BY DEF Deadlocked, Waiting
    <3>2. c \in 0 .. Len(reqs) /\ reqs[c].by = Ce
      BY <3>1, ThreadsApart DEF TypeOK
    <3> QED BY <3>1, <3>2, RequestsApart DEF Held
  <2>2. Unanswered(c) /\ reqs[c].what = "short" /\ ce.job # 0
    BY <2>1, RequestsApart DEF KindInv, Unanswered, TypeOK, Kinds
  <2>3. PICK v \in Webs : Waiting(v) /\ waits[v] = ce.job
    <3>1. ce.job \in DOMAIN reqs /\ ce.job \notin set /\ reqs[ce.job].by \in Webs
      BY <2>2 DEF QueueInv, KindInv
    <3> QED BY <2>2, <3>1 DEF AwaitedInv, Waiting
  <2>4. PICK l \in Lcps : Leads(l, c)
    BY <2>1, <2>2 DEF LeadInv
  <2>5. c \in Pending(l) /\ lcp[l] # "dead" /\ l \in registered
    BY <2>4, NothingPending DEF Leads
  <2>6. Waiting(l)
    <3>1. Holds(l, c)
      BY <2>5 DEF Pending, Holds, Held
    <3>2. lcp[l] # "ended"
      BY DEF LcpInv
    <3> QED BY <2>5, <3>1, <3>2 DEF Deadlocked
  <2>7. lcp[l] = "executing" /\ reqs[job[l]].what = "discovery"
    BY <2>5, <2>6 DEF LcpInv, Waiting, TypeOK
  <2> DEFINE j == job[l]
  <2>8. j # 0 /\ j \in Pending(l) /\ j \in DOMAIN reqs /\ j # c
    <3>1. j # 0 /\ j \in Pending(l)
      BY <2>7 DEF TypeOK, Pending
    <3> QED BY <2>2, <2>7, <3>1 DEF QueueInv
  <2>9. j < c
    <3>1. c \in Held(inbox[l]) \ {Quit}
      BY <2>5, <2>8 DEF Pending, Quit
    <3> QED BY <2>8, <3>1 DEF OrderInv
  <2>10. j \notin set
    BY <2>4, <2>8, <2>9 DEF Leads
  <2> DEFINE w == reqs[j].by
  <2>11. w \in Webs /\ waits[w] = j
    BY <2>7, <2>8, <2>10 DEF KindInv, AwaitedInv
  <2>12. Waiting(w) /\ reqs[waits[w]].what = "discovery" /\ job[l] = waits[w]
    BY <2>7, <2>8, <2>10, <2>11 DEF Waiting
  <2> QED BY <2>3, <2>5, <2>6, <2>11, <2>12
<1> QED BY <1>1, <1>2, <1>3, InvAlways, PTL DEF OneServes


-----------------------------------------------------------------------------
(* GalTree: what the tree of an answer looks like.                         *)

(* Induction: a set of numbers has a least one. *)
LEMMA LeastNumber ==
  ASSUME NEW T, T \subseteq Nat, T # {}
  PROVE  \E n \in T : \A m \in T : n <= m
<1> DEFINE R == {ss \in Nat \X Nat : ss[1] < ss[2]}
<1>1. IsWellFoundedOn(R, Nat)
  BY NatLessThanWellFounded DEF OpToRel
<1>2. PICK n \in T : \A m \in T : <<m, n>> \notin R
  <2> HIDE DEF R
  <2> QED BY <1>1, WFMin
<1>3. ASSUME NEW m \in T PROVE n <= m
  <2>1. <<m, n>> \notin R
    BY <1>2
  <2>2. m \in Nat /\ n \in Nat
    OBVIOUS
  <2> QED BY <2>1, <2>2
<1> QED BY <1>3

(* The trees after 0, 1, ..., m ids. *)
BuiltTo(b, ids, m) ==
  b = [k \in 0..m |-> IF k = 0 THEN EmptyTree ELSE AddNode(b[k - 1], TreeNode(ids[k]))]

LEMMA BuiltExists ==
  ASSUME NEW ids, NEW m \in Nat
  PROVE  \E b : BuiltTo(b, ids, m)
<1> DEFINE T == {i \in Nat : ~ \E b : BuiltTo(b, ids, i)}
<1> SUFFICES ASSUME T # {} PROVE FALSE
  OBVIOUS
<1>1. PICK n \in T : \A i \in T : n <= i
  <2>1. T \subseteq Nat
    OBVIOUS
  <2> HIDE DEF T
  <2> QED BY <2>1, LeastNumber
<1>2. n # 0
  <2>1. BuiltTo([k \in 0..0 |-> EmptyTree], ids, 0)
    BY DEF BuiltTo
  <2> QED BY <2>1
<1>3. PICK b : BuiltTo(b, ids, n - 1)
  <2>1. n - 1 \in Nat /\ ~(n <= n - 1)
    BY <1>2
  <2> QED BY <1>1, <2>1
<1> DEFINE g == [k \in 0..n |-> IF k = n THEN AddNode(b[n - 1], TreeNode(ids[n])) ELSE b[k]]
<1>4. ASSUME NEW k \in 0..n
      PROVE  g[k] = IF k = 0 THEN EmptyTree ELSE AddNode(g[k - 1], TreeNode(ids[k]))
  <2>1. CASE k = n
    <3>1. g[k] = AddNode(b[n - 1], TreeNode(ids[n])) /\ k # 0
      BY <1>2, <2>1
    <3>2. n - 1 \in 0..n /\ n - 1 # n
      BY <1>2
    <3>3. g[n - 1] = b[n - 1]
      BY <3>2
    <3> QED BY <2>1, <3>1, <3>3
  <2>2. CASE k # n
    <3>1. k \in 0..n - 1 /\ g[k] = b[k]
      BY <2>2
    <3>2. b[k] = IF k = 0 THEN EmptyTree ELSE AddNode(b[k - 1], TreeNode(ids[k]))
      BY <1>3, <3>1 DEF BuiltTo
    <3>3. CASE k = 0
      BY <3>1, <3>2, <3>3
    <3>4. CASE k # 0
      <4>1. k - 1 \in 0..n /\ k - 1 # n
        BY <3>1, <3>4
      <4>2. g[k - 1] = b[k - 1]
        BY <4>1
      <4> QED BY <3>1, <3>2, <3>4, <4>2
    <3> QED BY <3>3, <3>4
  <2> QED BY <2>1, <2>2
<1>5. g = [k \in 0..n |-> g[k]]
  OBVIOUS
<1>6. BuiltTo(g, ids, n)
  <2> HIDE DEF g
  <2> QED BY <1>4, <1>5 DEF BuiltTo
<1> QED BY <1>6

LEMMA BuildIs ==
  ASSUME NEW ids, Len(ids) \in Nat
  PROVE  \E b : BuiltTo(b, ids, Len(ids)) /\ Build(ids) = b[Len(ids)]
<1> DEFINE g == CHOOSE b : BuiltTo(b, ids, Len(ids))
<1>1. BuiltTo(g, ids, Len(ids))
  BY BuiltExists
<1>2. Build(ids) = g[Len(ids)]
  BY DEF Build, BuiltTo
<1> QED BY <1>1, <1>2

(* The nodes of an answer. *)
NodesOf(ids) == {Root} \cup {TreeNode(ids[i]) : i \in DOMAIN ids}

LEMMA AnswerIs ==
  ASSUME NEW ids \in Answers
  PROVE  /\ ids \in Seq(Seq(STRING)) /\ Len(ids) \in Nat /\ DOMAIN ids = 1..Len(ids)
         /\ \A i, j \in DOMAIN ids : ids[i] = ids[j] => i = j
         /\ \A i \in DOMAIN ids : /\ ids[i] \in Seq(STRING) /\ Len(ids[i]) \in Nat
                                  /\ Len(ids[i]) > 1 /\ ids[i][1] = "0"
<1>1. /\ ids \in Seq(Seq(STRING)) /\ IsInjective(ids)
      /\ \A i \in DOMAIN ids : Len(ids[i]) > 1 /\ ids[i][1] = "0"
  BY TreeAssumption
<1>2. Len(ids) \in Nat /\ DOMAIN ids = 1..Len(ids)
  BY <1>1, LenProperties
<1>3. \A i \in DOMAIN ids : ids[i] \in Seq(STRING)
  BY <1>1, <1>2, ElementOfSeq
<1>4. \A i \in DOMAIN ids : Len(ids[i]) \in Nat
  BY <1>3, LenProperties
<1> QED BY <1>1, <1>2, <1>3, <1>4 DEF IsInjective

LEMMA RootIs ==
  /\ Root.id = RootId /\ Root.layer = 1 /\ Root = [id |-> RootId, layer |-> 1]
  /\ NoNode.id = <<>> /\ NoNode.layer = 0 /\ Root # NoNode
  /\ RootId # <<>> /\ Len(RootId) = 1 /\ Len(NoText) = 1 /\ Front(RootId) = <<>>
<1>1. Len(RootId) = 1 /\ Len(NoText) = 1 /\ RootId # <<>>
  BY DEF RootId, NoText
<1>2. Root = [id |-> RootId, layer |-> 1]
  BY <1>1 DEF Root, TreeNode
<1>3. Front(RootId) = <<>>
  <2>1. RootId \in Seq({"0"})
    BY DEF RootId
  <2> QED BY <1>1, <2>1 DEF Front
<1> QED BY <1>1, <1>2, <1>3 DEF NoNode

LEMMA NodeIs ==
  ASSUME NEW ids \in Answers, NEW i \in DOMAIN ids
  PROVE  /\ TreeNode(ids[i]).id = ids[i] /\ TreeNode(ids[i]).layer \in Nat
         /\ TreeNode(ids[i]).layer # 1
         /\ TreeNode(ids[i]).layer \in {0, Len(ids[i])}
         /\ TreeNode(ids[i]).layer \in {0, 2} <=> Len(ids[i]) = 2
         /\ TreeNode(ids[i]) # Root /\ TreeNode(ids[i]) # NoNode
         /\ TreeNode(ids[i]) \in NodesOf(ids)
         /\ TreeNode(ids[i]).layer \in {0, 2} => Front(ids[i]) = RootId
<1>1. Len(ids[i]) \in Nat /\ Len(ids[i]) > 1 /\ ids[i] \in Seq(STRING) /\ ids[i][1] = "0"
  BY AnswerIs
<1>2. /\ TreeNode(ids[i]).id = ids[i]
      /\ TreeNode(ids[i]).layer \in {0, Len(ids[i])}
      /\ TreeNode(ids[i]).layer = 0 => Len(ids[i]) = 2
  BY <1>1 DEF TreeNode
<1>3. TreeNode(ids[i]).layer \in {0, 2} <=> Len(ids[i]) = 2
  BY <1>1, <1>2
<1>4. TreeNode(ids[i]).layer \in Nat /\ TreeNode(ids[i]).layer # 1
  BY <1>1, <1>2
<1>5. TreeNode(ids[i]) # Root /\ TreeNode(ids[i]) # NoNode
  <2>1. ids[i] # <<>>
    BY <1>1
  <2> QED BY <1>2, <1>4, <2>1, RootIs
<1>6. Len(ids[i]) = 2 => Front(ids[i]) = RootId
  <2> SUFFICES ASSUME Len(ids[i]) = 2 PROVE Front(ids[i]) = RootId
    OBVIOUS
  <2>1. /\ SubSeq(ids[i], 1, 1) \in Seq(STRING) /\ Len(SubSeq(ids[i], 1, 1)) = 1
        /\ SubSeq(ids[i], 1, 1)[1] = ids[i][1]
    <3>1. \A k \in 1..1 : ids[i][k] \in STRING
      BY <1>1, ElementOfSeq
    <3> QED BY <3>1, SubSeqProperties
  <2>2. RootId \in Seq({"0"}) /\ Len(RootId) = 1 /\ RootId[1] = "0"
    BY DEF RootId
  <2>3. /\ DOMAIN RootId = 1..1 /\ RootId = [k \in DOMAIN RootId |-> RootId[k]]
        /\ DOMAIN SubSeq(ids[i], 1, 1) = 1..1
        /\ SubSeq(ids[i], 1, 1) = [k \in 1..1 |-> SubSeq(ids[i], 1, 1)[k]]
    <3>1. RootId \in [1..1 -> {"0"}]
      BY <2>2, LenProperties
    <3>2. SubSeq(ids[i], 1, 1) \in [1..1 -> STRING]
      BY <2>1, LenProperties
    <3> QED BY <3>1, <3>2
  <2>4. SubSeq(ids[i], 1, 1) = RootId
    BY <1>1, <2>1, <2>2, <2>3
  <2> QED BY <2>4 DEF Front
<1> QED BY <1>2, <1>3, <1>4, <1>5, <1>6 DEF NodesOf

LEMMA NodeOfId ==
  ASSUME NEW ids \in Answers, NEW m \in NodesOf(ids), NEW n \in NodesOf(ids)
  PROVE  /\ m.id = n.id => m = n
         /\ m # NoNode /\ m.layer \in Nat /\ m.id # <<>>
         /\ m.layer = 1 <=> m = Root
         /\ m.layer \in {0, 2} => Front(m.id) = RootId
<1>1. \A k \in NodesOf(ids) :
        /\ k # NoNode /\ k.layer \in Nat /\ k.id # <<>> /\ k = TreeNode(k.id)
        /\ k.layer = 1 <=> k = Root
        /\ k.layer \in {0, 2} => Front(k.id) = RootId
  <2> SUFFICES ASSUME NEW k \in NodesOf(ids)
               PROVE  /\ k # NoNode /\ k.layer \in Nat /\ k.id # <<>> /\ k = TreeNode(k.id)
                      /\ k.layer = 1 <=> k = Root
                      /\ k.layer \in {0, 2} => Front(k.id) = RootId
    OBVIOUS
  <2>1. CASE k = Root
    <3>1. Root = TreeNode(Root.id)
      BY RootIs DEF Root
    <3> QED BY <2>1, <3>1, RootIs
  <2>2. CASE k # Root
    <3>1. PICK i \in DOMAIN ids : k = TreeNode(ids[i])
      BY <2>2 DEF NodesOf
    <3>2. /\ k.id = ids[i] /\ k.layer \in Nat /\ k.layer # 1 /\ k # NoNode
          /\ k.layer \in {0, 2} => Front(ids[i]) = RootId
      BY <3>1, NodeIs
    <3>3. k.id # <<>>
      <4>1. Len(ids[i]) > 1
        BY AnswerIs
      <4>2. ids[i] # <<>>
        BY <4>1, Len(<<>>) = 0, ~(0 > 1)
      <4> QED BY <3>2, <4>2
    <3>4. k = TreeNode(k.id) /\ (k.layer = 1 <=> k = Root)
      BY <2>2, <3>1, <3>2
    <3> QED BY <3>2, <3>3, <3>4
  <2> QED BY <2>1, <2>2
<1> QED BY <1>1

LEMMA Appended ==
  ASSUME NEW S, NEW s \in Seq(S), NEW x \in S
  PROVE  /\ Append(s, x) \in Seq(S) /\ Len(Append(s, x)) = Len(s) + 1
         /\ \A i \in 1..Len(s) : Append(s, x)[i] = s[i]
         /\ Append(s, x)[Len(s) + 1] = x
         /\ ToSet(Append(s, x)) = ToSet(s) \cup {x}
         /\ IsInjective(s) /\ x \notin ToSet(s) => IsInjective(Append(s, x))
<1>1. /\ Append(s, x) \in Seq(S) /\ Len(Append(s, x)) = Len(s) + 1
      /\ \A i \in 1..Len(s) : Append(s, x)[i] = s[i]
      /\ Append(s, x)[Len(s) + 1] = x
  BY AppendProperties
<1>2. Len(s) \in Nat /\ DOMAIN s = 1..Len(s) /\ DOMAIN Append(s, x) = 1..Len(s) + 1
  BY <1>1, LenProperties
<1>3. DOMAIN Append(s, x) = DOMAIN s \cup {Len(s) + 1}
  BY <1>2
<1>4. ToSet(Append(s, x)) = ToSet(s) \cup {x}
  BY <1>1, <1>2, <1>3 DEF ToSet
<1>5. IsInjective(s) /\ x \notin ToSet(s) => IsInjective(Append(s, x))
  <2> SUFFICES ASSUME IsInjective(s), x \notin ToSet(s),
                      NEW i \in DOMAIN Append(s, x), NEW j \in DOMAIN Append(s, x),
                      Append(s, x)[i] = Append(s, x)[j]
               PROVE  i = j
    BY DEF IsInjective
  <2>1. \A l \in DOMAIN s : s[l] # x
    BY DEF ToSet
  <2>2. \A l, m \in DOMAIN s : s[l] = s[m] => l = m
    BY DEF IsInjective
  <2>3. CASE i \in DOMAIN s /\ j \in DOMAIN s
    BY <1>1, <1>2, <2>2, <2>3
  <2>4. CASE i = Len(s) + 1 /\ j \in DOMAIN s
    BY <1>1, <1>2, <2>1, <2>4
  <2>5. CASE j = Len(s) + 1 /\ i \in DOMAIN s
    BY <1>1, <1>2, <2>1, <2>5
  <2> QED BY <1>3, <2>3, <2>4, <2>5
<1> QED BY <1>1, <1>4, <1>5

(* What holds of the tree after k ids, and a tree is made of. *)
Placed(t, ids, k) ==
  \A i \in 1..k :
    (\/ Len(ids[i]) = 2
     \/ \E j \in 1..i - 1 : /\ TreeNode(ids[j]) \in ToSet(t.nodes)
                            /\ Above(TreeNode(ids[j]), TreeNode(ids[i])))
      => TreeNode(ids[i]) \in ToSet(t.nodes)

Filed(t, ids, k) ==
  /\ t.nodes \in Seq(NodesOf(ids)) /\ Len(t.nodes) >= 1 /\ t.nodes[1] = Root
  /\ IsInjective(t.nodes)
  /\ \A n \in ToSet(t.nodes) : n = Root \/ \E i \in 1..k : n = TreeNode(ids[i])

Layered(t, ids) ==
  /\ t.layers \in Seq(Seq(NodesOf(ids))) /\ Len(t.layers) >= 2 /\ t.layers[2] = <<Root>>
  /\ \A n \in ToSet(t.nodes) : n.layer < Len(t.layers)
  /\ \A l \in 1..Len(t.layers) :
       /\ IsInjective(t.layers[l])
       /\ ToSet(t.layers[l]) = {n \in ToSet(t.nodes) : n.layer = l - 1}

Shape(t, ids, k) == Filed(t, ids, k) /\ Layered(t, ids) /\ Placed(t, ids, k)

LEMMA ShapeInit ==
  ASSUME NEW ids \in Answers
  PROVE  Shape(EmptyTree, ids, 0)
<1>1. Root \in NodesOf(ids) /\ Root.layer = 1
  BY RootIs DEF NodesOf
<1>2. /\ EmptyTree.nodes = <<Root>> /\ EmptyTree.layers = <<<<>>, <<Root>>>>
  BY DEF EmptyTree
<1>3. ToSet(<<Root>>) = {Root} /\ ToSet(<<>>) = {}
  BY DEF ToSet
<1>4. IsInjective(<<Root>>) /\ IsInjective(<<>>)
  BY DEF IsInjective
<1>5. Filed(EmptyTree, ids, 0)
  <2>1. <<Root>> \in Seq(NodesOf(ids)) /\ Len(<<Root>>) >= 1 /\ <<Root>>[1] = Root
    BY <1>1
  <2> QED BY <1>2, <1>3, <1>4, <2>1 DEF Filed
<1>6. Layered(EmptyTree, ids)
  <2> DEFINE layers == <<<<>>, <<Root>>>>
  <2>1. /\ layers \in Seq(Seq(NodesOf(ids))) /\ Len(layers) = 2
        /\ layers[1] = <<>> /\ layers[2] = <<Root>>
    <3>1. <<>> \in Seq(NodesOf(ids)) /\ <<Root>> \in Seq(NodesOf(ids))
      BY <1>1
    <3> QED BY <3>1
  <2> HIDE DEF layers
  <2>2. 1..Len(layers) = {1, 2}
    BY <2>1
  <2>3. /\ IsInjective(layers[1]) /\ ToSet(layers[1]) = {n \in {Root} : n.layer = 1 - 1}
        /\ IsInjective(layers[2]) /\ ToSet(layers[2]) = {n \in {Root} : n.layer = 2 - 1}
    BY <1>1, <1>3, <1>4, <2>1
  <2>4. EmptyTree.layers = layers
    BY <1>2 DEF layers
  <2>5. \A n \in {Root} : n.layer < 2
    BY <1>1
  <2>6. ToSet(EmptyTree.nodes) = {Root}
    BY <1>2, <1>3
  <2>7. ASSUME NEW l \in 1..Len(layers)
        PROVE  /\ IsInjective(layers[l])
               /\ ToSet(layers[l]) = {n \in ToSet(EmptyTree.nodes) : n.layer = l - 1}
    <3>1. CASE l = 1
      BY <2>3, <2>6, <3>1
    <3>2. CASE l = 2
      BY <2>3, <2>6, <3>2
    <3> QED BY <2>2, <3>1, <3>2
  <2>8. \A n \in ToSet(EmptyTree.nodes) : n.layer < Len(layers)
    BY <2>1, <2>5, <2>6
  <2>9. Len(layers) >= 2
    BY <2>1
  <2> QED BY <2>1, <2>4, <2>7, <2>8, <2>9 DEF Layered
<1>7. Placed(EmptyTree, ids, 0)
  BY DEF Placed
<1> QED BY <1>5, <1>6, <1>7 DEF Shape

(* One more id: addNode files it in the list and in its layer, or drops it. *)
LEMMA ShapeStep ==
  ASSUME NEW ids \in Answers, NEW k \in Nat, k + 1 \in DOMAIN ids, NEW t, Shape(t, ids, k)
  PROVE  Shape(AddNode(t, TreeNode(ids[k + 1])), ids, k + 1)
<1> DEFINE n == TreeNode(ids[k + 1])
           u == AddNode(t, n)
<1>1. /\ n.id = ids[k + 1] /\ n.layer \in Nat /\ n.layer # 1 /\ n \in NodesOf(ids)
      /\ n.layer \in {0, 2} <=> Len(ids[k + 1]) = 2
  <2>1. k + 1 \in DOMAIN ids
    OBVIOUS
  <2> QED BY <2>1, NodeIs
<1>2. n # Root /\ \A i \in 1..k : n # TreeNode(ids[i])
  <2>1. n # Root
    BY NodeIs
  <2>2. ASSUME NEW i \in 1..k PROVE n # TreeNode(ids[i])
    <3>1. i \in DOMAIN ids /\ i # k + 1
      BY AnswerIs
    <3>2. TreeNode(ids[i]).id = ids[i]
      BY <3>1, NodeIs
    <3> QED BY <1>1, <3>1, <3>2, AnswerIs
  <2> QED BY <2>1, <2>2
<1>3. Filed(t, ids, k) /\ Layered(t, ids) /\ Placed(t, ids, k)
  BY DEF Shape
<1>4. Len(t.layers) \in Nat /\ Len(t.nodes) \in Nat /\ DOMAIN t.layers = 1..Len(t.layers)
  BY <1>3, LenProperties DEF Filed, Layered
<1>5. n \notin ToSet(t.nodes)
  BY <1>2, <1>3 DEF Filed
<1>6. Accepts(t, n) =>
        \/ n.layer = Len(t.layers) /\ u.layers = Append(t.layers, <<n>>)
        \/ /\ n.layer < Len(t.layers)
           /\ u.layers = [t.layers EXCEPT ![n.layer + 1] = Append(@, n)]
  BY <1>1, <1>4 DEF Accepts, AddNode
<1>7. Accepts(t, n) => u.nodes = Append(t.nodes, n)
  BY DEF AddNode
<1>8. ~Accepts(t, n) => u = t
  BY DEF AddNode
<1> HIDE DEF n, u
<1>9. ToSet(u.nodes) = ToSet(t.nodes) \cup (IF Accepts(t, n) THEN {n} ELSE {})
  <2>1. t.nodes \in Seq(NodesOf(ids))
    BY <1>3 DEF Filed
  <2>2. ToSet(Append(t.nodes, n)) = ToSet(t.nodes) \cup {n}
    BY <1>1, <2>1, Appended
  <2> QED BY <1>7, <1>8, <2>2
<1>10. Filed(u, ids, k + 1)
  <2>1. CASE Accepts(t, n)
    <3>1. /\ t.nodes \in Seq(NodesOf(ids)) /\ Len(t.nodes) >= 1 /\ t.nodes[1] = Root
          /\ IsInjective(t.nodes)
      BY <1>3 DEF Filed
    <3>2. /\ u.nodes \in Seq(NodesOf(ids)) /\ Len(u.nodes) = Len(t.nodes) + 1
          /\ \A i \in 1..Len(t.nodes) : u.nodes[i] = t.nodes[i]
          /\ IsInjective(u.nodes)
      <4> DEFINE v == Append(t.nodes, n)
      <4>1. /\ v \in Seq(NodesOf(ids)) /\ Len(v) = Len(t.nodes) + 1
            /\ \A i \in 1..Len(t.nodes) : v[i] = t.nodes[i]
            /\ IsInjective(v)
        BY <1>1, <1>5, <3>1, Appended
      <4>2. u.nodes = v
        BY <1>7, <2>1
      <4> QED BY <4>1, <4>2
    <3>3. Len(u.nodes) >= 1 /\ 1 \in 1..Len(t.nodes)
      BY <1>4, <3>1, <3>2
    <3>4. ASSUME NEW m \in ToSet(u.nodes) PROVE m = Root \/ \E i \in 1..k + 1 : m = TreeNode(ids[i])
      <4>1. CASE m = n
        <5>1. k + 1 \in 1..k + 1 /\ n = TreeNode(ids[k + 1])
          BY DEF n
        <5> QED BY <4>1, <5>1
      <4>2. CASE m # n
        <5>1. m = Root \/ \E i \in 1..k : m = TreeNode(ids[i])
          BY <1>3, <1>9, <4>2 DEF Filed
        <5>2. 1..k \subseteq 1..k + 1
          OBVIOUS
        <5> QED BY <5>1, <5>2
      <4> QED BY <4>1, <4>2
    <3> QED BY <3>1, <3>2, <3>3, <3>4 DEF Filed
  <2>2. CASE ~Accepts(t, n)
    <3>1. 1..k \subseteq 1..k + 1
      OBVIOUS
    <3> QED BY <1>3, <1>8, <2>2, <3>1 DEF Filed
  <2> QED BY <2>1, <2>2
<1>11. Layered(u, ids)
  <2>1. CASE ~Accepts(t, n)
    BY <1>3, <1>8, <2>1 DEF Layered
  <2>2. CASE Accepts(t, n) /\ n.layer = Len(t.layers) /\ u.layers = Append(t.layers, <<n>>)
    <3>1. /\ <<n>> \in Seq(NodesOf(ids)) /\ IsInjective(<<n>>) /\ ToSet(<<n>>) = {n}
      BY <1>1 DEF IsInjective, ToSet
    <3>2. t.layers \in Seq(Seq(NodesOf(ids))) /\ Len(t.layers) >= 2 /\ t.layers[2] = <<Root>>
      BY <1>3 DEF Layered
    <3>3. /\ u.layers \in Seq(Seq(NodesOf(ids))) /\ Len(u.layers) = Len(t.layers) + 1
          /\ \A i \in 1..Len(t.layers) : u.layers[i] = t.layers[i]
          /\ u.layers[Len(t.layers) + 1] = <<n>>
      BY <2>2, <3>1, <3>2, Appended
    <3>4. ToSet(u.nodes) = ToSet(t.nodes) \cup {n}
      BY <1>9, <2>2
    <3>5. \A m \in ToSet(t.nodes) : m.layer < Len(t.layers)
      BY <1>3 DEF Layered
    <3>6. ASSUME NEW l \in 1..Len(u.layers)
          PROVE  /\ IsInjective(u.layers[l])
                 /\ ToSet(u.layers[l]) = {m \in ToSet(u.nodes) : m.layer = l - 1}
      <4>1. CASE l \in 1..Len(t.layers)
        <5>1. IsInjective(t.layers[l]) /\ ToSet(t.layers[l]) = {m \in ToSet(t.nodes) : m.layer = l - 1}
          BY <1>3, <4>1 DEF Layered
        <5>2. n.layer # l - 1
          BY <1>4, <2>2, <4>1
        <5> QED BY <3>3, <3>4, <4>1, <5>1, <5>2
      <4>2. CASE l = Len(t.layers) + 1
        <5>1. l - 1 = Len(t.layers)
          BY <1>4, <4>2
        <5>2. \A m \in ToSet(t.nodes) : m.layer # l - 1
          <6>1. ~(Len(t.layers) < Len(t.layers))
            BY <1>4
          <6> QED BY <3>5, <5>1, <6>1
        <5> QED BY <2>2, <3>1, <3>3, <3>4, <4>2, <5>1, <5>2
      <4> QED BY <1>4, <3>3, <4>1, <4>2
    <3>7. ASSUME NEW m \in ToSet(u.nodes) PROVE m.layer < Len(u.layers)
      <4>1. m \in NodesOf(ids)
        BY <1>10, ElementOfSeq, LenProperties DEF Filed, ToSet
      <4>2. m.layer \in Nat
        BY <4>1, NodeOfId
      <4> QED BY <1>4, <2>2, <3>3, <3>4, <3>5, <4>2
    <3>8. Len(u.layers) >= 2 /\ u.layers[2] = <<Root>>
      <4>1. 2 \in 1..Len(t.layers) /\ Len(u.layers) >= 2
        BY <1>4, <3>2, <3>3
      <4> QED BY <3>2, <3>3, <4>1
    <3> QED BY <3>3, <3>6, <3>7, <3>8 DEF Layered
  <2>3. CASE /\ Accepts(t, n) /\ n.layer < Len(t.layers)
             /\ u.layers = [t.layers EXCEPT ![n.layer + 1] = Append(@, n)]
    <3> DEFINE at == n.layer + 1
    <3>1. at \in 1..Len(t.layers) /\ at # 2 /\ at - 1 = n.layer
      BY <1>1, <1>4, <2>3
    <3>2. t.layers \in Seq(Seq(NodesOf(ids))) /\ Len(t.layers) >= 2 /\ t.layers[2] = <<Root>>
      BY <1>3 DEF Layered
    <3>3. /\ IsInjective(t.layers[at])
          /\ ToSet(t.layers[at]) = {m \in ToSet(t.nodes) : m.layer = n.layer}
      BY <1>3, <3>1 DEF Layered
    <3>4. t.layers[at] \in Seq(NodesOf(ids))
      BY <3>1, <3>2, ElementOfSeq
    <3>5. /\ Append(t.layers[at], n) \in Seq(NodesOf(ids))
          /\ ToSet(Append(t.layers[at], n)) = ToSet(t.layers[at]) \cup {n}
          /\ IsInjective(Append(t.layers[at], n))
      BY <1>1, <1>5, <3>3, <3>4, Appended
    <3>6. u.layers = [t.layers EXCEPT ![at] = Append(t.layers[at], n)]
      BY <2>3
    <3> HIDE DEF at
    <3>7. /\ u.layers \in Seq(Seq(NodesOf(ids))) /\ Len(u.layers) = Len(t.layers)
          /\ \A l \in 1..Len(t.layers) :
               u.layers[l] = IF l = at THEN Append(t.layers[at], n) ELSE t.layers[l]
      BY <1>4, <3>1, <3>2, <3>5, <3>6, ExceptSeq
    <3>8. ToSet(u.nodes) = ToSet(t.nodes) \cup {n}
      BY <1>9, <2>3
    <3>9. \A m \in ToSet(u.nodes) : m.layer < Len(u.layers)
      BY <1>3, <2>3, <3>7, <3>8 DEF Layered
    <3>10. ASSUME NEW l \in 1..Len(u.layers)
           PROVE  /\ IsInjective(u.layers[l])
                  /\ ToSet(u.layers[l]) = {m \in ToSet(u.nodes) : m.layer = l - 1}
      <4>1. CASE l = at
        BY <3>1, <3>3, <3>5, <3>7, <3>8, <4>1
      <4>2. CASE l # at
        <5>1. IsInjective(t.layers[l]) /\ ToSet(t.layers[l]) = {m \in ToSet(t.nodes) : m.layer = l - 1}
          BY <1>3, <3>7 DEF Layered
        <5>2. n.layer # l - 1
          BY <1>1, <1>4, <3>1, <3>7, <4>2
        <5> QED BY <3>7, <3>8, <4>2, <5>1, <5>2
      <4> QED BY <4>1, <4>2
    <3>11. Len(u.layers) >= 2 /\ u.layers[2] = <<Root>>
      <4>1. 2 \in 1..Len(t.layers) /\ Len(u.layers) >= 2 /\ at # 2
        BY <1>4, <3>1, <3>2, <3>7
      <4> QED BY <3>2, <3>7, <4>1
    <3> QED BY <3>7, <3>9, <3>10, <3>11 DEF Layered
  <2> QED BY <1>6, <2>1, <2>2, <2>3
<1>12. Placed(u, ids, k + 1)
  <2> SUFFICES ASSUME NEW i \in 1..k + 1,
                      \/ Len(ids[i]) = 2
                      \/ \E j \in 1..i - 1 : /\ TreeNode(ids[j]) \in ToSet(u.nodes)
                                             /\ Above(TreeNode(ids[j]), TreeNode(ids[i]))
               PROVE  TreeNode(ids[i]) \in ToSet(u.nodes)
    BY DEF Placed
  <2>1. ASSUME NEW j \in 1..i - 1, TreeNode(ids[j]) \in ToSet(u.nodes)
        PROVE  TreeNode(ids[j]) \in ToSet(t.nodes)
    <3>1. j \in 1..k
      OBVIOUS
    <3>2. TreeNode(ids[j]) # n
      BY <1>2, <3>1
    <3> QED BY <1>9, <2>1, <3>2
  <2>2. \/ Len(ids[i]) = 2
        \/ \E j \in 1..i - 1 : /\ TreeNode(ids[j]) \in ToSet(t.nodes)
                               /\ Above(TreeNode(ids[j]), TreeNode(ids[i]))
    BY <2>1
  <2>3. CASE i \in 1..k
    BY <1>3, <1>9, <2>2, <2>3 DEF Placed
  <2>4. CASE i = k + 1
    <3>1. TreeNode(ids[i]) = n
      BY <2>4 DEF n
    <3>2. Len(t.layers) >= 2 /\ \A m \in ToSet(t.nodes) : m.layer < Len(t.layers)
      BY <1>3 DEF Layered
    <3>3. n.layer <= Len(t.layers)
      <4>1. CASE Len(ids[i]) = 2
        <5>1. n.layer \in {0, 2}
          BY <1>1, <2>4, <4>1
        <5> QED BY <1>4, <3>2, <5>1
      <4>2. CASE Len(ids[i]) # 2
        <5>1. PICK j \in 1..i - 1 : /\ TreeNode(ids[j]) \in ToSet(t.nodes)
                                    /\ Above(TreeNode(ids[j]), n)
          BY <2>2, <3>1, <4>2
        <5>2. TreeNode(ids[j]).layer < Len(t.layers)
          BY <3>2, <5>1
        <5>3. n.layer # 0
          BY <1>1, <2>4, <4>2
        <5>4. TreeNode(ids[j]).layer = n.layer - 1
          BY <5>1, <5>3 DEF Above
        <5> QED BY <1>1, <1>4, <5>2, <5>4
      <4> QED BY <4>1, <4>2
    <3> QED BY <1>9, <3>1, <3>3 DEF Accepts
  <2> QED BY <2>3, <2>4
<1> QED BY <1>10, <1>11, <1>12 DEF Shape, u, n

LEMMA TreeShape ==
  ASSUME NEW ids \in Answers
  PROVE  Shape(Build(ids), ids, Len(ids))
<1>1. Len(ids) \in Nat /\ DOMAIN ids = 1..Len(ids)
  BY AnswerIs
<1>2. PICK b : BuiltTo(b, ids, Len(ids)) /\ Build(ids) = b[Len(ids)]
  BY <1>1, BuildIs
<1>3. \A k \in 0..Len(ids) :
        b[k] = IF k = 0 THEN EmptyTree ELSE AddNode(b[k - 1], TreeNode(ids[k]))
  BY <1>2 DEF BuiltTo
<1> DEFINE T == {k \in 0..Len(ids) : ~Shape(b[k], ids, k)}
<1>4. T = {}
  <2> SUFFICES ASSUME T # {} PROVE FALSE
    OBVIOUS
  <2>1. PICK k \in T : \A m \in T : k <= m
    <3>1. T \subseteq Nat
      OBVIOUS
    <3> HIDE DEF T
    <3> QED BY <3>1, LeastNumber
  <2>2. k \in 0..Len(ids) /\ ~Shape(b[k], ids, k)
    OBVIOUS
  <2>3. k # 0
    <3>1. 0 \in 0..Len(ids)
      BY <1>1
    <3>2. b[0] = EmptyTree
      BY <1>3, <3>1
    <3> QED BY <2>2, <3>2, ShapeInit
  <2>4. k - 1 \in 0..Len(ids) /\ ~(k <= k - 1) /\ k - 1 \in Nat /\ k - 1 + 1 = k
    BY <1>1, <2>2, <2>3
  <2>5. Shape(b[k - 1], ids, k - 1)
    BY <2>1, <2>4
  <2>6. b[k] = AddNode(b[k - 1], TreeNode(ids[k]))
    BY <1>3, <2>2, <2>3
  <2>7. k \in DOMAIN ids
    BY <1>1, <2>2, <2>3
  <2>8. Shape(AddNode(b[k - 1], TreeNode(ids[k])), ids, k)
    <3> HIDE DEF T
    <3> QED BY <2>4, <2>5, <2>7, ShapeStep
  <2> QED BY <2>2, <2>6, <2>8
<1>5. Len(ids) \in 0..Len(ids)
  BY <1>1
<1> QED BY <1>2, <1>4, <1>5

LEMMA TreeIs ==
  ASSUME given \in Answers, tree = Build(given)
  PROVE  /\ Nodes \subseteq NodesOf(given) /\ Root \in Nodes
         /\ tree.nodes[1] = Root /\ tree.layers[2] = <<Root>>
         /\ Len(tree.layers) \in Nat /\ Len(tree.layers) >= 2
         /\ \A n \in Nodes : n.layer < Len(tree.layers)
         /\ \A l \in 0..Len(tree.layers) - 1 :
              /\ IsInjective(Layer(tree, l))
              /\ ToSet(Layer(tree, l)) = {n \in Nodes : n.layer = l}
         /\ NodesPlaced
<1>1. Filed(tree, given, Len(given)) /\ Layered(tree, given) /\ Placed(tree, given, Len(given))
  BY TreeShape DEF Shape
<1>2. DOMAIN given = 1..Len(given)
  BY AnswerIs
<1>3. Len(tree.layers) \in Nat /\ Len(tree.layers) >= 2
  BY <1>1, LenProperties DEF Layered
<1>4. DOMAIN tree.nodes = 1..Len(tree.nodes) /\ Len(tree.nodes) \in Nat
  BY <1>1, LenProperties DEF Filed
<1>5. Nodes \subseteq NodesOf(given)
  BY <1>1, <1>4, ElementOfSeq DEF Filed, Nodes, ToSet
<1>6. Root \in Nodes
  <2>1. 1 \in DOMAIN tree.nodes
    BY <1>1, <1>4 DEF Filed
  <2> QED BY <1>1, <2>1 DEF Filed, Nodes, ToSet
<1>7. /\ \A n \in Nodes : n.layer < Len(tree.layers)
      /\ tree.nodes[1] = Root /\ tree.layers[2] = <<Root>>
  BY <1>1 DEF Filed, Layered, Nodes
<1>8. ASSUME NEW l \in 0..Len(tree.layers) - 1
      PROVE  /\ IsInjective(Layer(tree, l))
             /\ ToSet(Layer(tree, l)) = {n \in Nodes : n.layer = l}
  <2>1. l + 1 \in 1..Len(tree.layers) /\ (l + 1) - 1 = l
    BY <1>3
  <2>2. /\ IsInjective(tree.layers[l + 1])
        /\ ToSet(tree.layers[l + 1]) = {n \in ToSet(tree.nodes) : n.layer = (l + 1) - 1}
    BY <1>1, <2>1 DEF Layered
  <2> QED BY <2>1, <2>2 DEF Layer, Nodes
<1>9. NodesPlaced
  BY <1>1, <1>2, <1>7, <1>8 DEF NodesPlaced, Placed, Filed, Nodes
<1> QED BY <1>3, <1>5, <1>6, <1>7, <1>8, <1>9

(* In a layer an id is at one place at most. *)
LEMMA PlacesInLayer ==
  ASSUME given \in Answers, tree = Build(given),
         NEW l \in 0..Len(tree.layers) - 1, NEW id
  PROVE  LET s == Layer(tree, l) IN
         /\ \A n \in Nodes : n.layer = l /\ n.id = id => PlacesOf(s, id) # {}
         /\ PlacesOf(s, id) # {} =>
              /\ s[Max(PlacesOf(s, id))] = s[Min(PlacesOf(s, id))]
              /\ s[Min(PlacesOf(s, id))] \in Nodes
              /\ s[Min(PlacesOf(s, id))].layer = l
              /\ s[Min(PlacesOf(s, id))].id = id
<1> DEFINE s == Layer(tree, l)
<1>1. IsInjective(s) /\ ToSet(s) = {n \in Nodes : n.layer = l}
  BY TreeIs
<1>2. \A m, n \in Nodes : m.id = n.id => m = n
  BY TreeIs, NodeOfId
<1>3. \A k \in DOMAIN s : s[k] \in Nodes /\ s[k].layer = l
  BY <1>1 DEF ToSet
<1> HIDE DEF s
<1>4. ASSUME NEW n \in Nodes, n.layer = l, n.id = id PROVE PlacesOf(s, id) # {}
  BY <1>1, <1>4 DEF ToSet, PlacesOf
<1>5. ASSUME PlacesOf(s, id) # {}
      PROVE  /\ s[Max(PlacesOf(s, id))] = s[Min(PlacesOf(s, id))]
             /\ s[Min(PlacesOf(s, id))] \in Nodes
             /\ s[Min(PlacesOf(s, id))].layer = l
             /\ s[Min(PlacesOf(s, id))].id = id
  <2>1. PICK h \in DOMAIN s : s[h].id = id
    BY <1>5 DEF PlacesOf
  <2>2. \A k \in DOMAIN s : s[k].id = id => k = h
    BY <1>1, <1>2, <1>3, <2>1 DEF IsInjective
  <2>3. PlacesOf(s, id) = {h}
    BY <2>1, <2>2 DEF PlacesOf
  <2>4. h \in Int
    <3>1. Layer(tree, l) \in Seq(NodesOf(given))
      <4>1. Len(tree.layers) \in Nat /\ l + 1 \in 1..Len(tree.layers)
        BY TreeIs
      <4>2. tree.layers \in Seq(Seq(NodesOf(given)))
        BY TreeShape DEF Shape, Layered
      <4> QED BY <4>1, <4>2, ElementOfSeq DEF Layer
    <3>2. DOMAIN s = 1..Len(s)
      BY <3>1, LenProperties DEF s
    <3>3. Len(s) \in Nat
      BY <3>1, LenProperties DEF s
    <3> QED BY <3>2, <3>3
  <2>5. Max({h}) = h /\ Min({h}) = h
    BY <2>4 DEF Max, Min
  <2> QED BY <1>3, <2>1, <2>3, <2>5
<1> QED BY <1>4, <1>5 DEF s

LEMMA Found ==
  ASSUME given \in Answers, tree = Build(given), NEW id, SearchedLayer(id) \in Nat
  PROVE  /\ TreefindById(id) \in Nodes \cup {NoNode}
         /\ SearchedLayer(id) < Len(tree.layers) => TreefindById(id) # NoNode
<1>1. CASE SearchedLayer(id) >= Len(tree.layers)
  <2>1. ~(SearchedLayer(id) < Len(tree.layers))
    BY <1>1, TreeIs
  <2> QED BY <1>1, <2>1 DEF TreefindById
<1>2. CASE ~(SearchedLayer(id) >= Len(tree.layers))
  <2> DEFINE s == Layer(tree, SearchedLayer(id))
  <2>1. TreefindById(id) = FirstWith(s, id)
    BY <1>2 DEF TreefindById
  <2>2. SearchedLayer(id) \in 0..Len(tree.layers) - 1
    BY <1>2, TreeIs
  <2>3. FirstWith(s, id) \in Nodes
    BY <2>2, TreeIs, PlacesInLayer DEF FirstWith
  <2>4. NoNode \notin Nodes
    BY TreeIs, NodeOfId
  <2> HIDE DEF s
  <2> QED BY <2>1, <2>3, <2>4
<1> QED BY <1>1, <1>2

LEMMA ParentIs ==
  ASSUME given \in Answers, tree = Build(given), NEW n \in Nodes
  PROVE  /\ NoNode \in Parents(n) <=> (n # Root /\ \A m \in Nodes : ~Above(m, n))
         /\ NoNode \notin Parents(n) => Parents(n) = {m \in Nodes : Above(m, n)}
<1>1. /\ Nodes \subseteq NodesOf(given) /\ Root \in Nodes
      /\ Len(tree.layers) \in Nat /\ \A m \in Nodes : m.layer < Len(tree.layers)
  BY TreeIs
<1>2. \A m \in Nodes : /\ m # NoNode /\ m.layer \in Nat /\ m.id # <<>>
                       /\ m.layer = 1 <=> m = Root
                       /\ m.layer \in {0, 2} => Front(m.id) = RootId
  BY <1>1, NodeOfId
<1>3. \A m \in Nodes : m.id = Root.id => m = Root
  BY <1>1, NodeOfId
<1>4. CASE n = Root
  <2>1. Parents(n) = {}
    BY <1>4 DEF Parents
  <2>2. \A m \in Nodes : ~Above(m, n)
    BY <1>2, <1>4, RootIs DEF Above
  <2> QED BY <1>4, <2>1, <2>2
<1>5. CASE n # Root /\ n.layer = 0
  <2>1. Parents(n) = {Root}
    BY <1>5 DEF Parents, TreefindParent
  <2>2. Above(Root, n)
    <3>1. Front(n.id) = RootId
      BY <1>2, <1>5
    <3> QED BY <1>5, <3>1, RootIs DEF Above
  <2>3. \A m \in Nodes : Above(m, n) => m = Root
    BY <1>2, <1>5 DEF Above
  <2> QED BY <1>1, <1>2, <2>1, <2>2, <2>3
<1>6. CASE n # Root /\ n.layer # 0
  <2> DEFINE l == n.layer - 1
             s == Layer(tree, l)
             hits == PlacesOf(s, Front(n.id))
  <2>1. l \in 0..Len(tree.layers) - 1
    BY <1>1, <1>2, <1>6
  <2>2. Parents(n) = {IF hits = {} THEN NoNode ELSE s[Max(hits)]}
    BY <1>6 DEF Parents, TreefindParent
  <2>3. \A m \in Nodes : Above(m, n) <=> m.layer = l /\ m.id = Front(n.id)
    BY <1>6 DEF Above
  <2>4. /\ \A m \in Nodes : m.layer = l /\ m.id = Front(n.id) => hits # {}
        /\ hits # {} =>
             /\ s[Max(hits)] \in Nodes /\ s[Max(hits)].layer = l
             /\ s[Max(hits)].id = Front(n.id)
    BY <2>1, PlacesInLayer
  <2> HIDE DEF l, s, hits
  <2>5. CASE hits = {}
    BY <1>6, <2>2, <2>3, <2>4, <2>5
  <2>6. CASE hits # {}
    <3>1. Above(s[Max(hits)], n) /\ s[Max(hits)] \in Nodes
      BY <2>3, <2>4, <2>6
    <3>2. \A m \in Nodes : Above(m, n) => m = s[Max(hits)]
      <4>1. \A m, o \in Nodes : m.id = o.id => m = o
        BY <1>1, NodeOfId
      <4> QED BY <2>3, <3>1, <4>1
    <3>3. Parents(n) = {s[Max(hits)]}
      BY <2>2, <2>6
    <3> QED BY <1>2, <3>1, <3>2, <3>3
  <2> QED BY <2>5, <2>6
<1> QED BY <1>4, <1>5, <1>6

LEMMA ChildIs ==
  ASSUME given \in Answers, tree = Build(given), NEW n \in Nodes, HasChildren(n)
  PROVE  TreefindChild(n) = {m \in Nodes : Above(n, m)}
<1>1. /\ Nodes \subseteq NodesOf(given) /\ Len(tree.layers) \in Nat /\ Len(tree.layers) >= 2
      /\ \A m \in Nodes : m.layer < Len(tree.layers)
      /\ \A l \in 0..Len(tree.layers) - 1 :
           ToSet(Layer(tree, l)) = {m \in Nodes : m.layer = l}
  BY TreeIs
<1>2. \A m \in Nodes : /\ m # NoNode /\ m.layer \in Nat /\ m.id # <<>>
                       /\ m.layer = 1 <=> m = Root
                       /\ m.layer \in {0, 2} => Front(m.id) = RootId
  BY <1>1, NodeOfId
<1>3. CASE n = Root
  <2>1. Len(tree.layers) > 2
    BY <1>3 DEF HasChildren
  <2>2. 0 \in 0..Len(tree.layers) - 1 /\ 2 \in 0..Len(tree.layers) - 1
    BY <1>1, <2>1
  <2>3. TreefindChild(n) = {m \in Nodes : m.layer = 0} \cup {m \in Nodes : m.layer = 2}
    BY <1>1, <1>3, <2>2 DEF TreefindChild
  <2>4. ASSUME NEW m \in Nodes PROVE Above(n, m) <=> m.layer \in {0, 2}
    <3>1. Above(n, m) <=> RootId = Front(m.id) /\ 1 = IF m.layer = 0 THEN 1 ELSE m.layer - 1
      BY <1>3, RootIs DEF Above
    <3>2. (1 = IF m.layer = 0 THEN 1 ELSE m.layer - 1) <=> m.layer \in {0, 2}
      BY <1>2
    <3> QED BY <1>2, <3>1, <3>2
  <2> QED BY <2>3, <2>4
<1>4. CASE n # Root
  <2>1. TreefindChild(n) =
          {c \in ToSet(Layer(tree, ChildrenIn(n))) : ChildrenIn(n) > 0 /\ Front(c.id) = n.id}
    BY <1>4 DEF TreefindChild
  <2>2. n.layer \in Nat /\ n.layer # 1 /\ n.layer < Len(tree.layers)
    BY <1>1, <1>2, <1>4
  <2>3. CASE n.layer > 1 /\ n.layer < Len(tree.layers) - 1
    <3>1. ChildrenIn(n) = n.layer + 1
      BY <2>3 DEF ChildrenIn
    <3>2. n.layer + 1 \in 0..Len(tree.layers) - 1 /\ n.layer + 1 > 0
      BY <1>1, <2>2, <2>3
    <3>3. TreefindChild(n) = {m \in Nodes : m.layer = n.layer + 1 /\ Front(m.id) = n.id}
      BY <1>1, <2>1, <3>1, <3>2
    <3>4. ASSUME NEW m \in Nodes
          PROVE  Above(n, m) <=> m.layer = n.layer + 1 /\ Front(m.id) = n.id
      <4>1. (n.layer = IF m.layer = 0 THEN 1 ELSE m.layer - 1) <=> m.layer = n.layer + 1
        BY <1>2, <2>2
      <4> QED BY <4>1 DEF Above
    <3> QED BY <3>3, <3>4
  <2>4. CASE ~(n.layer > 1 /\ n.layer < Len(tree.layers) - 1)
    <3>1. ChildrenIn(n) = 0 /\ ~(0 > 0)
      BY <2>4 DEF ChildrenIn
    <3>2. TreefindChild(n) = {}
      BY <2>1, <3>1
    <3>3. ASSUME NEW m \in Nodes, Above(n, m) PROVE FALSE
      <4>1. n.id = Front(m.id) /\ n.layer = IF m.layer = 0 THEN 1 ELSE m.layer - 1
        BY <3>3 DEF Above
      <4>2. m.layer # 1
        <5>1. m.layer = 1 => m.id = RootId
          BY <1>2, RootIs
        <5> QED BY <1>2, <4>1, <5>1, RootIs
      <4>3. m.layer \in Nat /\ m.layer < Len(tree.layers)
        BY <1>1, <1>2
      <4> QED BY <1>1, <2>2, <2>4, <4>1, <4>2, <4>3
    <3> QED BY <3>2, <3>3
  <2> QED BY <2>3, <2>4
<1> QED BY <1>3, <1>4

(* In a complete tree every node is found, if only the root, and what is   *)
(* found has its parent and its children.                                  *)
LEMMA CompleteIs ==
  ASSUME given \in Answers, tree = Build(given),
         \E n \in Nodes : n.layer = 2,
         \A n \in Nodes \ {Root} : \E p \in Nodes : Above(p, n),
         NEW n \in Nodes
  PROVE  TreefindById(n.id) # NoNode /\ ~Throws(TreefindById(n.id))
<1>1. /\ Nodes \subseteq NodesOf(given) /\ Len(tree.layers) \in Nat
      /\ \A m \in Nodes : m.layer < Len(tree.layers)
  BY TreeIs
<1>2. Len(tree.layers) > 2
  BY <1>1
<1>3. SearchedLayer(n.id) \in Nat /\ SearchedLayer(n.id) < Len(tree.layers)
  <2>1. CASE n = Root
    <3>1. SearchedLayer(n.id) = 1
      BY <2>1, RootIs DEF SearchedLayer
    <3> QED BY <1>2, <1>1, <3>1
  <2>2. CASE n # Root
    <3>1. PICK i \in DOMAIN given : n = TreeNode(given[i])
      BY <1>1, <2>2 DEF NodesOf
    <3>2. n.id = given[i] /\ Len(n.id) \in Nat /\ Len(n.id) > 1 /\ n.id[1] = "0"
      BY <3>1, NodeIs, AnswerIs
    <3>3. /\ n.layer \in {0, Len(n.id)}
          /\ n.layer \in {0, 2} <=> Len(n.id) = 2
      BY <3>1, <3>2, NodeIs
    <3>4. SearchedLayer(n.id) = Len(n.id)
      BY <3>2 DEF SearchedLayer
    <3>5. n.layer < Len(tree.layers)
      BY <1>1
    <3>6. Len(n.id) < Len(tree.layers)
      BY <1>1, <1>2, <3>2, <3>3, <3>5
    <3> QED BY <3>2, <3>4, <3>6
  <2> QED BY <2>1, <2>2
<1>4. TreefindById(n.id) \in Nodes /\ TreefindById(n.id) # NoNode
  BY <1>3, Found
<1>5. NoNode \notin Parents(TreefindById(n.id))
  BY <1>4, ParentIs
<1>6. HasChildren(TreefindById(n.id))
  BY <1>2 DEF HasChildren
<1> QED BY <1>4, <1>5, <1>6 DEF Throws

-----------------------------------------------------------------------------
(* GalTree: the boxes.                                                     *)

LEMMA Quotient ==
  ASSUME NEW a \in Nat, NEW b \in Nat \ {0}
  PROVE  /\ a \div b \in Nat /\ a % b \in Nat /\ a % b < b
         /\ a = b * (a \div b) + (a % b)
OBVIOUS

(* Numbers with the same remainder are the divisor apart. *)
LEMMA SameRow ==
  ASSUME NEW j \in Nat, NEW k \in Nat, NEW r \in Nat \ {0}, j < k, j % r = k % r
  PROVE  k - j >= r
<1>1. /\ j \div r \in Nat /\ k \div r \in Nat
      /\ j = r * (j \div r) + (j % r) /\ k = r * (k \div r) + (k % r)
      /\ j % r \in Nat
  BY Quotient
<1> DEFINE p == j \div r
           q == k \div r
           m == j % r
<1>2. p \in Nat /\ q \in Nat /\ m \in Nat /\ j = r * p + m /\ k = r * q + m
  BY <1>1
<1> HIDE DEF p, q, m
<1>3. r * p < r * q
  BY <1>2
<1>4. p < q
  <2> SUFFICES ASSUME q <= p PROVE r * q <= r * p
    BY <1>2, <1>3
  <2> QED BY <1>2
<1>5. r * (p + 1) <= r * q
  BY <1>2, <1>4
<1>6. r * (p + 1) = r * p + r
  BY <1>2
<1> QED BY <1>2, <1>5, <1>6

LEMMA Apart ==
  ASSUME NEW w \in Nat \ {0}, NEW b \in Nat \ {0}, NEW n \in Nat, NEW j \in Nat, NEW k \in Nat,
         j < k, j % ((n * b) \div w + 1) = k % ((n * b) \div w + 1)
  PROVE  w * (2 * k + 1) - w * (2 * j + 1) >= 2 * n * b
<1> DEFINE r == (n * b) \div w
           m == (n * b) % w
<1>1. n * b \in Nat
  OBVIOUS
<1>2. r \in Nat /\ m \in Nat /\ m < w /\ n * b = w * r + m
  BY <1>1, Quotient
<1>3. k - j >= r + 1
  <2>1. j % (r + 1) = k % (r + 1) /\ r + 1 \in Nat \ {0}
    BY <1>2
  <2> HIDE DEF r
  <2> QED BY <2>1, SameRow
<1> HIDE DEF r, m
<1>4. w * (k - j) >= w * (r + 1)
  BY <1>2, <1>3
<1>5. w * (r + 1) = w * r + w
  BY <1>2
<1>6. w * (k - j) >= n * b
  BY <1>1, <1>2, <1>4, <1>5
<1>7. w * (2 * k + 1) - w * (2 * j + 1) = 2 * (w * (k - j))
  OBVIOUS
<1>8. 2 * n * b = 2 * (n * b)
  OBVIOUS
<1> QED BY <1>1, <1>6, <1>7, <1>8

LEMMA BoxesAre ==
  ASSUME given \in Answers, tree = Build(given), width \in Widths
  PROVE  BoxesApart
<1>1. tree.layers \in Seq(Seq(NodesOf(given)))
  BY TreeShape DEF Shape, Layered
<1>2. BoxWidth \in Nat \ {0} /\ TreeWidth \in Nat \ {0}
  BY TreeAssumption DEF TreeWidth
<1> SUFFICES ASSUME NEW l \in 1..Len(tree.layers),
                    NEW j \in 0..Len(tree.layers[l]) - 1, NEW k \in 0..Len(tree.layers[l]) - 1,
                    j < k, Row(j, Len(tree.layers[l])) = Row(k, Len(tree.layers[l]))
             PROVE  Offset(k, Len(tree.layers[l])) - Offset(j, Len(tree.layers[l]))
                      >= 2 * Len(tree.layers[l]) * BoxWidth
  BY DEF BoxesApart
<1>3. Len(tree.layers[l]) \in Nat
  BY <1>1, ElementOfSeq, LenProperties
<1>4. j \in Nat /\ k \in Nat
  OBVIOUS
<1>5. j % ((Len(tree.layers[l]) * BoxWidth) \div TreeWidth + 1)
        = k % ((Len(tree.layers[l]) * BoxWidth) \div TreeWidth + 1)
  BY DEF Row, Room
<1> QED BY <1>2, <1>3, <1>4, <1>5, Apart DEF Offset

-----------------------------------------------------------------------------
(* GalTree: the mouse.                                                     *)

(* Under a box that is lit as it should be is a node that its id leads to. *)
HoverInv ==
  (strayed = {} /\ pointer # Away) =>
    TreefindById(pointer.node.id) = pointer.node /\ ~Throws(pointer.node)

TreeInv == /\ given \in Answers /\ tree = Build(given)
           /\ TreeTypeOK /\ LightFollowsPointer /\ HoverInv /\ ThrowsKnown
           /\ OutlineMarksSelected

LEMMA TreeInvInit == TreeInit => TreeInv
<1> SUFFICES ASSUME TreeInit PROVE TreeInv
  OBVIOUS
<1>1. given \in Answers /\ tree = Build(given) /\ pointer = Away /\ strayed = {}
  BY DEF TreeInit
<1>2. fill = [n \in Nodes |-> "white"]
  BY DEF TreeInit, Nodes
<1>3. TreeTypeOK
  BY <1>1, <1>2, TreeIs DEF TreeInit, TreeTypeOK
<1>4. LightFollowsPointer
  BY <1>1, <1>2 DEF LightFollowsPointer, ExpectedFill
<1>5. ThrowsKnown /\ OutlineMarksSelected
  BY DEF TreeInit, ThrowsKnown, OutlineMarksSelected
<1> QED BY <1>1, <1>3, <1>4, <1>5 DEF TreeInv, HoverInv

LEMMA PaintedIs ==
  ASSUME NEW f \in [Nodes -> {"white", "red", "orange"}], NEW ns,
         NEW c \in {"white", "red", "orange"}
  PROVE  /\ Painted(f, ns, c) \in [Nodes -> {"white", "red", "orange"}]
         /\ \A m \in Nodes : Painted(f, ns, c)[m] = IF m \in ns THEN c ELSE f[m]
BY DEF Painted

LEMMA HighlightTyped ==
  ASSUME NEW f \in [Nodes -> {"white", "red", "orange"}], NEW n
  PROVE  Highlight(f, n) \in [Nodes -> {"white", "red", "orange"}]
<1>1. Painted(f, {n}, "red") \in [Nodes -> {"white", "red", "orange"}]
  BY PaintedIs
<1>2. Painted(Painted(f, {n}, "red"), Parents(n) \cup TreefindChild(n), "orange")
        \in [Nodes -> {"white", "red", "orange"}]
  BY <1>1, PaintedIs
<1> QED BY <1>1, <1>2 DEF Highlight

LEMMA UnlightTyped ==
  ASSUME NEW f \in [Nodes -> {"white", "red", "orange"}], NEW n
  PROVE  Unlight(f, n) \in [Nodes -> {"white", "red", "orange"}]
BY PaintedIs DEF Unlight

(* The layer an id is looked for in. *)
LEMMA Searched ==
  /\ given \in Answers /\ tree = Build(given) => \A n \in Nodes : SearchedLayer(n.id) \in Nat
  /\ SearchedLayer(NoText) \in Nat
<1>1. SearchedLayer(NoText) \in Nat
  BY RootIs DEF SearchedLayer
<1>2. ASSUME given \in Answers, tree = Build(given), NEW n \in Nodes
      PROVE  SearchedLayer(n.id) \in Nat
  <2>1. Len(n.id) \in Nat
    <3>1. CASE n = Root
      BY <3>1, RootIs
    <3>2. CASE n # Root
      <4>1. PICK i \in DOMAIN given : n = TreeNode(given[i])
        BY <1>2, <3>2, TreeIs DEF NodesOf
      <4> QED BY <1>2, <4>1, NodeIs, AnswerIs
    <3> QED BY <3>1, <3>2
  <2> QED BY <2>1 DEF SearchedLayer
<1> QED BY <1>1, <1>2

(* The hovered node is lit with its neighbours, and no other is.           *)
LEMMA LitIs ==
  ASSUME given \in Answers, tree = Build(given), NEW n \in Nodes, ~Throws(n)
  PROVE  /\ Highlight([m \in Nodes |-> "white"], n) =
              [m \in Nodes |-> IF m = n THEN "red"
                               ELSE IF Above(m, n) \/ Above(n, m) THEN "orange" ELSE "white"]
         /\ Unlit(n) = {n} \cup {m \in Nodes : Above(m, n) \/ Above(n, m)}
<1>1. NoNode \notin Parents(n) /\ HasChildren(n)
  BY DEF Throws
<1>2. /\ Parents(n) = {m \in Nodes : Above(m, n)}
      /\ TreefindChild(n) = {m \in Nodes : Above(n, m)}
  BY <1>1, ParentIs, ChildIs
<1>3. ~Above(n, n)
  <2>1. n.layer \in Nat
    BY TreeIs, NodeOfId
  <2> QED BY <2>1 DEF Above
<1> DEFINE white == [m \in Nodes |-> "white"]
           red == Painted(white, {n}, "red")
           lit == Painted(red, Parents(n) \cup TreefindChild(n), "orange")
<1>4. Highlight(white, n) = lit
  BY DEF Highlight
<1>5. \A m \in Nodes : white[m] = "white"
  OBVIOUS
<1>6. /\ white \in [Nodes -> {"white", "red", "orange"}]
      /\ red \in [Nodes -> {"white", "red", "orange"}]
      /\ lit \in [Nodes -> {"white", "red", "orange"}]
      /\ \A m \in Nodes : red[m] = IF m \in {n} THEN "red" ELSE white[m]
      /\ \A m \in Nodes : lit[m] = IF m \in Parents(n) \cup TreefindChild(n)
                                   THEN "orange" ELSE red[m]
  <2>1. white \in [Nodes -> {"white", "red", "orange"}]
    OBVIOUS
  <2> HIDE DEF white
  <2>2. /\ red \in [Nodes -> {"white", "red", "orange"}]
        /\ \A m \in Nodes : red[m] = IF m \in {n} THEN "red" ELSE white[m]
    BY <2>1, PaintedIs
  <2> HIDE DEF red
  <2>3. /\ lit \in [Nodes -> {"white", "red", "orange"}]
        /\ \A m \in Nodes : lit[m] = IF m \in Parents(n) \cup TreefindChild(n)
                                     THEN "orange" ELSE red[m]
    BY <2>2, PaintedIs
  <2> QED BY <2>1, <2>2, <2>3
<1> HIDE DEF white, red, lit
<1>7. \A m \in Nodes :
        lit[m] = IF m = n THEN "red"
                 ELSE IF Above(m, n) \/ Above(n, m) THEN "orange" ELSE "white"
  BY <1>2, <1>3, <1>5, <1>6
<1>8. lit = [m \in Nodes |-> lit[m]]
  BY <1>6
<1>9. lit = [m \in Nodes |-> IF m = n THEN "red"
                             ELSE IF Above(m, n) \/ Above(n, m) THEN "orange" ELSE "white"]
  BY <1>7, <1>8
<1>10. Unlit(n) = {n} \cup {m \in Nodes : Above(m, n) \/ Above(n, m)}
  BY <1>2 DEF Unlit
<1> QED BY <1>4, <1>9, <1>10 DEF white

LEMMA OverKeeps ==
  ASSUME TreeInv, NEW n \in Nodes, NEW on \in {"box", "label"}, MouseOver(n, on)
  PROVE  TreeInv'
<1> DEFINE found == TreefindById(n.id)
<1>1. /\ given \in Answers /\ tree = Build(given) /\ TreeTypeOK /\ LightFollowsPointer
      /\ ThrowsKnown /\ OutlineMarksSelected
  BY DEF TreeInv
<1>2. /\ pointer = Away /\ pointer' = [node |-> n, on |-> on]
      /\ fill' = (IF found = NoNode THEN fill ELSE Highlight(fill, found))
      /\ strayed' = strayed \cup Note("notFound", found # n)
                            \cup Note("threw", found = NoNode \/ Throws(found))
      /\ given' = given /\ tree' = tree /\ selected' = selected /\ width' = width
      /\ outlined' = outlined /\ failed' = failed
  BY DEF MouseOver
<1>3. Nodes' = Nodes
  BY <1>2 DEF Nodes
<1>4. fill \in [Nodes -> {"white", "red", "orange"}]
  BY <1>1 DEF TreeTypeOK
<1>5. n # NoNode
  BY <1>1, TreeIs, NodeOfId
<1>6. pointer'.node = n /\ pointer'.on = on /\ pointer' # Away
  BY <1>2, <1>5 DEF Away
<1>7. TreeTypeOK'
  <2>1. fill' \in [Nodes -> {"white", "red", "orange"}]
    <3>1. Highlight(fill, found) \in [Nodes -> {"white", "red", "orange"}]
      BY <1>4, HighlightTyped
    <3> HIDE DEF found
    <3> QED BY <1>2, <1>4, <3>1
  <2>2. strayed' \subseteq {"notFound", "threw", "label"}
    <3>1. strayed \subseteq {"notFound", "threw", "label"}
      BY <1>1 DEF TreeTypeOK
    <3>2. /\ Note("notFound", found # n) \subseteq {"notFound"}
          /\ Note("threw", found = NoNode \/ Throws(found)) \subseteq {"threw"}
      BY DEF Note
    <3> HIDE DEF found
    <3> QED BY <1>2, <3>1, <3>2
  <2> QED BY <1>1, <1>2, <1>3, <1>6, <2>1, <2>2 DEF TreeTypeOK
<1>8. strayed' = {} => /\ strayed = {} /\ found = n /\ found # NoNode /\ ~Throws(found)
  BY <1>2 DEF Note
<1>9. (\A m : Parents(m)' = Parents(m)) /\ \A m : Throws(m)' <=> Throws(m)
  BY <1>2 DEF Parents, TreefindParent, Throws, HasChildren
<1>10. HoverInv'
  <2> SUFFICES ASSUME strayed' = {}
               PROVE  TreefindById(n.id)' = n /\ ~Throws(n)'
    BY <1>6 DEF HoverInv
  <2>1. TreefindById(n.id)' = TreefindById(n.id)
    BY <1>2 DEF TreefindById
  <2>2. found = n /\ ~Throws(n)
    BY <1>8
  <2> QED BY <1>9, <2>1, <2>2
<1>11. LightFollowsPointer'
  <2> SUFFICES ASSUME strayed' = {}
               PROVE  fill' = [m \in Nodes |-> ExpectedFill(m)']
    BY <1>3 DEF LightFollowsPointer
  <2>1. fill = [m \in Nodes |-> "white"]
    BY <1>1, <1>2, <1>8 DEF LightFollowsPointer, ExpectedFill
  <2>2. fill' = Highlight([m \in Nodes |-> "white"], n)
    BY <1>2, <1>8, <2>1
  <2>3. ~Throws(n)
    BY <1>8
  <2>4. fill' = [m \in Nodes |-> IF m = n THEN "red"
                                 ELSE IF Above(m, n) \/ Above(n, m) THEN "orange" ELSE "white"]
    BY <1>1, <2>2, <2>3, LitIs
  <2>5. \A m : ExpectedFill(m)' = IF m = n THEN "red"
                                  ELSE IF Above(m, n) \/ Above(n, m) THEN "orange" ELSE "white"
    BY <1>6 DEF ExpectedFill
  <2> QED BY <2>4, <2>5
<1>12. ThrowsKnown'
  <2> SUFFICES ASSUME \E m \in Nodes : m.layer = 2,
                      \A m \in Nodes \ {Root} : \E p \in Nodes : Above(p, m)
               PROVE  "threw" \notin strayed' /\ \A m \in failed' : m \in Nodes /\ m.id \in Bare
    BY <1>3 DEF ThrowsKnown
  <2>1. "threw" \notin strayed /\ \A m \in failed : m \in Nodes /\ m.id \in Bare
    BY <1>1 DEF ThrowsKnown
  <2>2. found # NoNode /\ ~Throws(found)
    BY <1>1, CompleteIs
  <2> QED BY <1>2, <2>1, <2>2 DEF Note
<1>13. OutlineMarksSelected'
  BY <1>1, <1>2 DEF OutlineMarksSelected, HasStates
<1> QED BY <1>1, <1>2, <1>7, <1>10, <1>11, <1>12, <1>13 DEF TreeInv

(* What an event finds: a node whose callbacks do not throw, if the tree   *)
(* has no gaps.                                                            *)
LEMMA EventIs ==
  ASSUME given \in Answers, tree = Build(given), pointer.on # "box" \/ pointer.node \in Nodes
  PROVE  /\ TreefindById(EventId) \in Nodes \cup {NoNode}
         /\ (/\ \E m \in Nodes : m.layer = 2
             /\ \A m \in Nodes \ {Root} : \E p \in Nodes : Above(p, m))
              => TreefindById(EventId) # NoNode /\ ~Throws(TreefindById(EventId))
<1>1. SearchedLayer(EventId) \in Nat
  BY Searched DEF EventId
<1>2. TreefindById(EventId) \in Nodes \cup {NoNode}
  BY <1>1, Found
<1>3. ASSUME \E m \in Nodes : m.layer = 2,
             \A m \in Nodes \ {Root} : \E p \in Nodes : Above(p, m)
      PROVE  TreefindById(EventId) # NoNode /\ ~Throws(TreefindById(EventId))
  <2>1. CASE pointer.on = "box"
    BY <1>3, <2>1, CompleteIs DEF EventId
  <2>2. CASE pointer.on # "box"
    <3>1. Len(tree.layers) \in Nat /\ Len(tree.layers) > 2 /\ tree.layers[2] = <<Root>>
      BY <1>3, TreeIs
    <3>2. EventId = NoText /\ SearchedLayer(NoText) = 1
      BY <2>2, RootIs DEF EventId, SearchedLayer
    <3>3. NoText # RootId
      BY DEF NoText, RootId
    <3>4. Layer(tree, 1) = <<Root>> /\ PlacesOf(<<Root>>, NoText) = {}
      BY <3>1, <3>3, RootIs DEF Layer, PlacesOf
    <3>5. TreefindById(EventId) = Root
      BY <3>1, <3>2, <3>4 DEF TreefindById, FirstWith
    <3>6. ~Throws(Root)
      BY <3>1 DEF Throws, Parents, HasChildren
    <3> QED BY <3>5, <3>6, RootIs
  <2> QED BY <2>1, <2>2
<1> QED BY <1>2, <1>3

LEMMA OutKeeps ==
  ASSUME TreeInv, MouseOut
  PROVE  TreeInv'
<1> DEFINE found == TreefindById(EventId)
<1>1. /\ given \in Answers /\ tree = Build(given) /\ TreeTypeOK /\ LightFollowsPointer
      /\ HoverInv /\ ThrowsKnown /\ OutlineMarksSelected
  BY DEF TreeInv
<1>2. /\ pointer # Away /\ pointer' = Away
      /\ fill' = (IF found = NoNode THEN fill ELSE Unlight(fill, found))
      /\ strayed' = strayed \cup Note("label", pointer.on = "label")
                            \cup Note("threw", found = NoNode \/ Throws(found))
      /\ given' = given /\ tree' = tree /\ selected' = selected /\ width' = width
      /\ outlined' = outlined /\ failed' = failed
  BY DEF MouseOut
<1>3. Nodes' = Nodes
  BY <1>2 DEF Nodes
<1>4. fill \in [Nodes -> {"white", "red", "orange"}]
  BY <1>1 DEF TreeTypeOK
<1>5. TreeTypeOK'
  <2>1. fill' \in [Nodes -> {"white", "red", "orange"}]
    <3>1. Unlight(fill, found) \in [Nodes -> {"white", "red", "orange"}]
      BY <1>4, UnlightTyped
    <3> HIDE DEF found
    <3> QED BY <1>2, <1>4, <3>1
  <2>2. strayed' \subseteq {"notFound", "threw", "label"}
    <3>1. strayed \subseteq {"notFound", "threw", "label"}
      BY <1>1 DEF TreeTypeOK
    <3>2. /\ Note("label", pointer.on = "label") \subseteq {"label"}
          /\ Note("threw", found = NoNode \/ Throws(found)) \subseteq {"threw"}
      BY DEF Note
    <3> HIDE DEF found
    <3> QED BY <1>2, <3>1, <3>2
  <2> QED BY <1>1, <1>2, <1>3, <2>1, <2>2 DEF TreeTypeOK
<1>6. HoverInv'
  BY <1>2 DEF HoverInv
<1>7. LightFollowsPointer'
  <2> SUFFICES ASSUME strayed' = {} PROVE fill' = [m \in Nodes |-> "white"]
    BY <1>2, <1>3 DEF LightFollowsPointer, ExpectedFill
  <2> DEFINE n == pointer.node
  <2>1. strayed = {} /\ pointer.on # "label"
    BY <1>2 DEF Note
  <2>2. n \in Nodes /\ pointer.on = "box"
    BY <1>1, <1>2, <2>1 DEF TreeTypeOK
  <2>3. EventId = n.id
    BY <2>2 DEF EventId
  <2>4. found = n /\ ~Throws(n)
    BY <1>1, <1>2, <2>1, <2>3 DEF HoverInv
  <2>5. n # NoNode
    BY <1>1, <2>2, TreeIs, NodeOfId
  <2>6. fill' = Painted(fill, Unlit(n), "white")
    BY <1>2, <2>4, <2>5 DEF Unlight, Throws
  <2>7. Unlit(n) = {n} \cup {m \in Nodes : Above(m, n) \/ Above(n, m)}
    BY <1>1, <2>2, <2>4, LitIs
  <2>8. \A m \in Nodes : m \notin Unlit(n) => fill[m] = "white"
    <3>1. fill = [m \in Nodes |-> ExpectedFill(m)]
      BY <1>1, <2>1 DEF LightFollowsPointer
    <3> QED BY <2>7, <3>1 DEF ExpectedFill
  <2>9. /\ fill' \in [Nodes -> {"white", "red", "orange"}]
        /\ \A m \in Nodes : fill'[m] = IF m \in Unlit(n) THEN "white" ELSE fill[m]
    BY <1>4, <2>6, PaintedIs
  <2>10. \A m \in Nodes : fill'[m] = "white"
    BY <2>8, <2>9
  <2>11. fill' = [m \in Nodes |-> fill'[m]]
    BY <2>9
  <2> QED BY <2>10, <2>11
<1>8. ThrowsKnown'
  <2> SUFFICES ASSUME \E m \in Nodes : m.layer = 2,
                      \A m \in Nodes \ {Root} : \E p \in Nodes : Above(p, m)
               PROVE  "threw" \notin strayed' /\ \A m \in failed' : m \in Nodes /\ m.id \in Bare
    BY <1>3 DEF ThrowsKnown
  <2>1. "threw" \notin strayed /\ \A m \in failed : m \in Nodes /\ m.id \in Bare
    BY <1>1 DEF ThrowsKnown
  <2>2. pointer.on # "box" \/ pointer.node \in Nodes
    BY <1>1, <1>2 DEF TreeTypeOK
  <2>3. found # NoNode /\ ~Throws(found)
    BY <1>1, <2>2, EventIs
  <2> QED BY <1>2, <2>1, <2>3 DEF Note
<1>9. OutlineMarksSelected'
  BY <1>1, <1>2 DEF OutlineMarksSelected, HasStates
<1> QED BY <1>1, <1>2, <1>5, <1>6, <1>7, <1>8, <1>9 DEF TreeInv

LEMMA ClickKeeps ==
  ASSUME TreeInv, Click
  PROVE  TreeInv'
<1> DEFINE found == TreefindById(EventId)
<1>1. /\ given \in Answers /\ tree = Build(given) /\ TreeTypeOK /\ LightFollowsPointer
      /\ HoverInv /\ ThrowsKnown /\ OutlineMarksSelected
  BY DEF TreeInv
<1>2. /\ pointer # Away
      /\ selected' = (IF found = NoNode THEN selected ELSE found)
      /\ outlined' = (IF found = NoNode THEN outlined ELSE Outline(found))
      /\ failed' = {n \in {found} : n = NoNode \/ ~HasStates(n)}
      /\ UNCHANGED <<given, tree, fill, pointer, width, strayed>>
  BY DEF Click
<1>3. Nodes' = Nodes /\ \A m : ExpectedFill(m)' = ExpectedFill(m)
  BY <1>2 DEF Nodes, ExpectedFill
<1>4. pointer.on # "box" \/ pointer.node \in Nodes
  BY <1>1, <1>2 DEF TreeTypeOK
<1>5. found \in Nodes \cup {NoNode}
  BY <1>1, <1>4, EventIs
<1>6. TreeTypeOK'
  <2>1. outlined \subseteq Nodes /\ selected \in Nodes \cup {NoNode}
    BY <1>1 DEF TreeTypeOK
  <2> HIDE DEF found
  <2>2. outlined' \subseteq Nodes /\ selected' \in Nodes \cup {NoNode}
    BY <1>2, <1>5, <2>1 DEF Outline
  <2>3. failed' \subseteq Nodes \cup {NoNode}
    BY <1>2, <1>5
  <2> QED BY <1>1, <1>2, <1>3, <2>2, <2>3 DEF TreeTypeOK
<1>7. LightFollowsPointer'
  BY <1>1, <1>2, <1>3 DEF LightFollowsPointer
<1>8. HoverInv'
  <2>1. \A m : Throws(m)' <=> Throws(m)
    BY <1>2 DEF Parents, TreefindParent, Throws, HasChildren
  <2>2. \A id : TreefindById(id)' = TreefindById(id)
    BY <1>2 DEF TreefindById
  <2> QED BY <1>1, <1>2, <2>1, <2>2 DEF HoverInv
<1>9. ThrowsKnown'
  <2> SUFFICES ASSUME \E m \in Nodes : m.layer = 2,
                      \A m \in Nodes \ {Root} : \E p \in Nodes : Above(p, m)
               PROVE  "threw" \notin strayed' /\ \A m \in failed' : m \in Nodes /\ m.id \in Bare
    BY <1>3 DEF ThrowsKnown
  <2>1. "threw" \notin strayed
    BY <1>1 DEF ThrowsKnown
  <2>2. found # NoNode
    BY <1>1, <1>4, EventIs
  <2> HIDE DEF found
  <2> QED BY <1>2, <1>5, <2>1, <2>2 DEF HasStates
<1>10. OutlineMarksSelected'
  <2>1. outlined = {n \in {selected} \ {NoNode} : HasStates(n)}
    BY <1>1 DEF OutlineMarksSelected
  <2> HIDE DEF found
  <2>2. CASE found = NoNode
    BY <1>2, <2>1, <2>2 DEF OutlineMarksSelected, HasStates
  <2>3. CASE found # NoNode
    <3>1. outlined' = {m \in {found} : HasStates(m)} /\ selected' = found
      BY <1>2, <2>1, <2>3 DEF Outline
    <3> QED BY <2>3, <3>1 DEF OutlineMarksSelected, HasStates
  <2> QED BY <2>2, <2>3
<1> QED BY <1>1, <1>2, <1>6, <1>7, <1>8, <1>9, <1>10 DEF TreeInv

(* A step that leaves the tree, the colours and the pointer alone. *)
LEMMA StillKeeps ==
  ASSUME TreeInv, UNCHANGED <<given, tree, fill, pointer, selected, outlined, strayed, failed>>,
         TreeTypeOK'
  PROVE  TreeInv'
<1>1. Nodes' = Nodes /\ \A m : ExpectedFill(m)' = ExpectedFill(m)
  BY DEF Nodes, ExpectedFill
<1>2. \A m : Throws(m)' <=> Throws(m)
  BY DEF Parents, TreefindParent, Throws, HasChildren
<1>3. \A id : TreefindById(id)' = TreefindById(id)
  BY DEF TreefindById
<1>4. LightFollowsPointer'
  BY <1>1 DEF TreeInv, LightFollowsPointer
<1>5. HoverInv'
  BY <1>2, <1>3 DEF TreeInv, HoverInv
<1>6. ThrowsKnown'
  BY <1>1 DEF TreeInv, ThrowsKnown
<1>7. OutlineMarksSelected'
  BY DEF TreeInv, OutlineMarksSelected, HasStates
<1> QED BY <1>4, <1>5, <1>6, <1>7 DEF TreeInv

LEMMA TreeInvStep == TreeInv /\ [TreeNext]_treeVars => TreeInv'
<1> SUFFICES ASSUME TreeInv, [TreeNext]_treeVars PROVE TreeInv'
  OBVIOUS
<1>1. TreeTypeOK /\ given \in Answers /\ tree = Build(given)
  BY DEF TreeInv
<1>2. ASSUME NEW n \in ToSet(tree.nodes), NEW on \in {"box", "label"}, MouseOver(n, on)
      PROVE  TreeInv'
  BY <1>2, OverKeeps DEF Nodes
<1>3. CASE MouseOut
  BY <1>3, OutKeeps
<1>4. CASE Click
  BY <1>4, ClickKeeps
<1>5. ASSUME NEW w \in Widths, Resize(w) PROVE TreeInv'
  <2>1. width' = w /\ UNCHANGED <<given, tree, fill, pointer, selected, outlined, strayed, failed>>
    BY <1>5 DEF Resize
  <2>2. Nodes' = Nodes
    BY <2>1 DEF Nodes
  <2>3. TreeTypeOK'
    BY <1>1, <2>1, <2>2 DEF TreeTypeOK
  <2> QED BY <2>1, <2>3, StillKeeps
<1>6. CASE UNCHANGED treeVars
  <2>1. UNCHANGED <<given, tree, fill, pointer, selected, outlined, width, strayed, failed>>
    BY <1>6 DEF treeVars
  <2>2. Nodes' = Nodes
    BY <2>1 DEF Nodes
  <2>3. TreeTypeOK'
    BY <1>1, <2>1, <2>2 DEF TreeTypeOK
  <2> QED BY <2>1, <2>3, StillKeeps
<1> QED BY <1>2, <1>3, <1>4, <1>5, <1>6 DEF TreeNext

LEMMA TreeInvAlways == TreeSpec => []TreeInv
BY TreeInvInit, TreeInvStep, PTL DEF TreeSpec

-----------------------------------------------------------------------------
(* What the page and the requests behind it are proved to do.              *)

(* Whatever the answer, the tree keeps its root and its layers, and the    *)
(* colours, the node under the mouse and the selected one are of its nodes. *)
THEOREM TreeTypeCorrect == TreeSpec => []TreeTypeOK
<1>1. TreeInv => TreeTypeOK
  BY DEF TreeInv
<1> QED BY <1>1, TreeInvAlways, PTL

(* buildTreeGUI places every id whose parent it has placed, no callback of *)
(* a complete tree throws but a click on a core or a cpu, only the node    *)
(* selected is outlined, and no two boxes of a layer overlap: for any      *)
(* number of ids of any depth, and any widths of the window and the boxes. *)
THEOREM TreeIsDrawn == TreeSpec => []TreeDrawn
<1>1. TreeInv => TreeDrawn
  <2> SUFFICES ASSUME TreeInv PROVE TreeDrawn
    OBVIOUS
  <2>1. given \in Answers /\ tree = Build(given) /\ width \in Widths
    BY DEF TreeInv, TreeTypeOK
  <2>2. NodesPlaced
    BY <2>1, TreeIs
  <2>3. BoxesApart
    BY <2>1, BoxesAre
  <2> QED BY <2>2, <2>3 DEF TreeDrawn, TreeInv
<1> QED BY <1>1, TreeInvAlways, PTL

(* The colours follow the mouse over any tree, complete or not, until the  *)
(* three causes that strayed notes.                                        *)
THEOREM LightFollows == TreeSpec => []LightFollowsPointer
<1>1. TreeInv => LightFollowsPointer
  BY DEF TreeInv
<1> QED BY <1>1, TreeInvAlways, PTL

(* In the composition each part behaves as its own specification says. *)
LEMMA GalPartsBehave == PartsSpec => Init /\ [][Next]_vars /\ TreeSpec
<1>1. PartsInit => Init /\ TreeInit
  BY DEF PartsInit
<1>2. [PartsNext]_<<part, vars, treeVars>> => [Next]_vars /\ [TreeNext]_treeVars
  BY DEF PartsNext
<1> QED BY <1>1, <1>2, PTL DEF PartsSpec, TreeSpec

(* Both parts keep their types while the other one acts. *)
THEOREM GalPartsTyped == PartsSpec => []PartsTypeOK
<1>1. PartsSpec => []TypeOK
  <2>1. Inv => TypeOK
    BY DEF Inv
  <2> QED BY <2>1, GalPartsBehave, InvInit, InvStep, PTL
<1>2. PartsSpec => []TreeTypeOK
  BY GalPartsBehave, TreeTypeCorrect, PTL
<1>3. TypeOK /\ TreeTypeOK => PartsTypeOK
  BY DEF PartsTypeOK
<1> QED BY <1>1, <1>2, <1>3, PTL

=============================================================================
