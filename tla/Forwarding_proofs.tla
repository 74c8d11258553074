------------------------- MODULE Forwarding_proofs -------------------------
(***************************************************************************)
(* Proofs about the lookup table of user space forwarding and the flows of *)
(* the demo policy, for any values of their constants.                     *)
(***************************************************************************)
EXTENDS MCForwarding, SequenceTheorems, FiniteSetTheorems, WellFoundedInduction, TLAPS

-----------------------------------------------------------------------------
(* LookupTable.                                                            *)

(* Lemmas about the route table.                                           *)

(* A set of prefix lengths that is not empty has a longest one.            *)
LEMMA LongestPrefix ==
  ASSUME NEW W \in Nat, NEW S, S \subseteq 0 .. W, S # {}
  PROVE  \E p \in S : \A q \in S : q <= p
<1> DEFINE R == OpToRel(<, Nat)
           T == {W - p : p \in S}
<1>1. \A x, y \in Nat : x < y => <<x, y>> \in R
  BY DEF OpToRel
<1>2. IsWellFoundedOn(R, Nat)
  BY NatLessThanWellFounded
<1> HIDE DEF R
<1>3. T \subseteq Nat /\ T # {}
  <2>1. \A p \in S : p \in 0 .. W /\ W - p \in Nat
    OBVIOUS
  <2>2. \A x \in T : x \in Nat
    BY <2>1
  <2>3. PICK p \in S : TRUE
    OBVIOUS
  <2>4. W - p \in T
    BY <2>3
  <2> QED BY <2>2, <2>4
<1>4. PICK x \in T : \A y \in T : ~ (<<y, x>> \in R)
  <2> HIDE DEF T
  <2> QED BY <1>2, <1>3, WFMin
<1>5. PICK p \in S : x = W - p
  BY <1>4
<1>6. \A q \in S : W - q \in T /\ W - q \in Nat
  OBVIOUS
<1>7. \A q \in S : ~(W - q < W - p)
  BY <1>1, <1>3, <1>4, <1>5, <1>6
<1> QED BY <1>7

LEMMA RoutesAreRecords ==
  /\ \A r \in Routes : /\ r = [dest |-> r.dest, prefix |-> r.prefix]
                       /\ r.dest \in Address /\ r.prefix \in 0 .. Width
  /\ \A r, s \in Routes : r.dest = s.dest /\ r.prefix = s.prefix => r = s
  /\ Address \subseteq Nat
  /\ Width \in Nat
BY RouteAssumption DEF Routes, OnLinkRoute, Address

LEMMA HostCoversItself ==
  ASSUME NEW r \in Routes, NEW a \in Address
  PROVE  /\ Covers(r, r.dest)
         /\ r.prefix = Width => (Covers(r, a) <=> a = r.dest)
<1>1. Width - Width = 0 /\ 2 ^ 0 = 1
  BY RoutesAreRecords
<1>2. r.dest \in Nat /\ a \in Nat
  BY RoutesAreRecords
<1>3. \A n \in Nat : n \div 1 = n
  OBVIOUS
<1> QED BY <1>1, <1>2, <1>3 DEF Covers

(* RoutePrefix is the length of a route that covers the address, and no    *)
(* other that does is longer.                                              *)
LEMMA RoutePrefixIsLongest ==
  ASSUME NEW rt, NEW a, Covering(rt, a) # {}
  PROVE  /\ \E r \in Covering(rt, a) : r.prefix = RoutePrefix(rt, a)
         /\ \A r \in Covering(rt, a) : r.prefix <= RoutePrefix(rt, a)
<1> DEFINE S == {r.prefix : r \in Covering(rt, a)}
<1>1. S \subseteq 0 .. Width /\ S # {}
  BY RoutesAreRecords DEF Covering
<1>2. \E p \in S : \A r \in Covering(rt, a) : r.prefix <= p
  <2>1. PICK p \in S : \A q \in S : q <= p
    <3> HIDE DEF S
    <3> QED BY <1>1, LongestPrefix, RoutesAreRecords
  <2> QED BY <2>1
<1>3. RoutePrefix(rt, a) = CHOOSE p \in S : \A r \in Covering(rt, a) : r.prefix <= p
  BY DEF RoutePrefix
<1>4. RoutePrefix(rt, a) \in S /\ \A r \in Covering(rt, a) : r.prefix <= RoutePrefix(rt, a)
  BY <1>2, <1>3
<1> QED BY <1>4

LEMMA HostPrefix ==
  ASSUME NEW rt, NEW h \in Routes, h.prefix = Width, rt[h] # None
  PROVE  RoutePrefix(rt, h.dest) = Width
<1>1. h \in Covering(rt, h.dest)
  BY HostCoversItself, RoutesAreRecords DEF Covering
<1>2. PICK r \in Covering(rt, h.dest) : r.prefix = RoutePrefix(rt, h.dest)
  BY <1>1, RoutePrefixIsLongest
<1>3. Width <= RoutePrefix(rt, h.dest)
  BY <1>1, RoutePrefixIsLongest
<1>4. r.prefix \in 0 .. Width
  BY RoutesAreRecords DEF Covering
<1> QED BY <1>2, <1>3, <1>4, RoutesAreRecords

LEMMA FallBackIsEntry ==
  ASSUME NEW rt \in [Routes -> Entry], NEW a
  PROVE  FallBack(rt, a) \in Entry
<1>1. CASE RoutePrefix(rt, a) = 0
  BY <1>1 DEF FallBack, Entry
<1>2. CASE RoutePrefix(rt, a) # 0
  <2>1. Covering(rt, a) # {}
    BY <1>2 DEF RoutePrefix
  <2>2. PICK r \in Covering(rt, a) : r.prefix = RoutePrefix(rt, a)
    BY <2>1, RoutePrefixIsLongest
  <2>3. (CHOOSE s \in Covering(rt, a) : s.prefix = RoutePrefix(rt, a)) \in Routes
    BY <2>2 DEF Covering
  <2> QED BY <1>2, <2>3 DEF FallBack, Match
<1> QED BY <1>1, <1>2

LEMMA DelEntriesAreEntries ==
  ASSUME NEW rt \in [Routes -> Entry], NEW r \in Routes
  PROVE  /\ DOMAIN DelEntries(rt, r) \subseteq Address
         /\ \A a \in DOMAIN DelEntries(rt, r) : DelEntries(rt, r)[a] = FallBack(rt, a)
<1>1. DOMAIN DelAddress(rt, r) \subseteq Address
      /\ \A a \in DOMAIN DelAddress(rt, r) : DelAddress(rt, r)[a] = FallBack(rt, a)
  BY RoutesAreRecords DEF DelAddress
<1>2. DOMAIN DelNet(rt, r) \subseteq Address
      /\ \A a \in DOMAIN DelNet(rt, r) : DelNet(rt, r)[a] = FallBack(rt, a)
  BY DEF DelNet, Net
<1> QED BY <1>1, <1>2 DEF DelEntries

LEMMA AddEntriesAreEntries ==
  ASSUME NEW rt, NEW r \in Routes, NEW mac \in Macs
  PROVE  /\ DOMAIN AddEntries(rt, r, mac) \subseteq Net(r)
         /\ Net(r) \subseteq Address
         /\ \A a \in DOMAIN AddEntries(rt, r, mac) : AddEntries(rt, r, mac)[a] = mac
<1>1. r.dest \in Net(r)
  BY HostCoversItself, RoutesAreRecords DEF Net
<1> QED BY <1>1 DEF AddEntries, Net

-----------------------------------------------------------------------------
(* The inductive invariant: the two tables differ by the update under way, *)
(* and no reader is in the table to be written.                            *)

Settled == IF writer = "first" THEN Written(tables[read])
           ELSE IF writer = "swap" THEN tables[write] ELSE tables[read]

TablesInSync ==
  /\ writer \in {"idle", "first", "aborted"} => tables[1] = tables[2]
  /\ writer = "swap" => tables[write] = Written(tables[read])
  /\ writer \in {"sleep", "second"} => tables[read] = Written(tables[write])

ReadersApart ==
  writer # "sleep" => \A r \in Readers : reader[r].table # write

(* Every host route is served, now or when the update under way is over.   *)
HostsSettled ==
  \A r \in Routes : r.prefix = Width /\ routes[r] # None => Settled[r.dest] = routes[r]

UnroutedSettled ==
  \A a \in Address : Covering(routes, a) = {} => Settled[a] = None

TableInv == TypeOK /\ TablesInSync /\ ReadersApart
ServiceInv == TableInv /\ HostsSettled /\ UnroutedSettled

-----------------------------------------------------------------------------
LEMMA InitTableInv == Init => TableInv
<1> SUFFICES ASSUME Init PROVE TableInv
  OBVIOUS
<1> USE DEF Init
<1>1. TypeOK
  BY DEF TypeOK, Entry, Idle
<1>2. TablesInSync
  BY DEF TablesInSync
<1>3. ReadersApart
  BY DEF ReadersApart, Idle
<1> QED BY <1>1, <1>2, <1>3 DEF TableInv

LEMMA NextTableInv == TableInv /\ [Next]_vars => TableInv'
<1> SUFFICES ASSUME TableInv, [Next]_vars PROVE TableInv'
  OBVIOUS
<1> USE DEF TableInv
<1>t. \A t \in [Address -> Entry] :
        TypeOK => Written(t) \in [Address -> Entry]
  BY DEF Written, TypeOK
<1>1. ASSUME NEW r \in Routes, NEW mac \in Macs, AddRoute(r, mac) PROVE TableInv'
  <2> DEFINE rt == [routes EXCEPT ![r] = mac]
  <2>1. /\ routes' = rt /\ change' = AddEntries(rt, r, mac) /\ writer' = "first"
        /\ writer = "idle" /\ UNCHANGED <<tables, read, write, reader>>
    BY <1>1 DEF AddRoute, Update
  <2>2. DOMAIN change' \subseteq Address /\ \A a \in DOMAIN change' : change'[a] \in Entry
    BY <2>1, AddEntriesAreEntries DEF Entry
  <2>3. rt \in [Routes -> Entry]
    BY DEF TypeOK, Entry
  <2>4. TypeOK'
    BY <2>1, <2>2, <2>3 DEF TypeOK
  <2> QED BY <2>1, <2>4 DEF TablesInSync, ReadersApart
<1>2. ASSUME NEW r \in Routes, AddAborts(r) \/ DelFails(r) PROVE TableInv'
  BY <1>2 DEF AddAborts, DelFails, TypeOK, TablesInSync, ReadersApart
<1>3. ASSUME NEW r \in Routes, DelRoute(r) PROVE TableInv'
  <2> DEFINE rt == [routes EXCEPT ![r] = None]
  <2>1. /\ routes' = rt /\ change' = DelEntries(rt, r) /\ writer' = "first"
        /\ writer = "idle" /\ UNCHANGED <<tables, read, write, reader>>
    BY <1>3 DEF DelRoute, Update
  <2>2. rt \in [Routes -> Entry]
    BY DEF TypeOK, Entry
  <2>3. DOMAIN change' \subseteq Address /\ \A a \in DOMAIN change' : change'[a] \in Entry
    <3>1. /\ DOMAIN DelEntries(rt, r) \subseteq Address
          /\ \A a \in DOMAIN DelEntries(rt, r) : DelEntries(rt, r)[a] = FallBack(rt, a)
      BY <2>2, DelEntriesAreEntries
    <3>2. \A a : FallBack(rt, a) \in Entry
      BY <2>2, FallBackIsEntry
    <3>3. \A a \in DOMAIN DelEntries(rt, r) : DelEntries(rt, r)[a] \in Entry
      BY <3>1, <3>2
    <3> QED BY <2>1, <3>1, <3>3
  <2>4. TypeOK'
    BY <2>1, <2>2, <2>3 DEF TypeOK
  <2> QED BY <2>1, <2>4 DEF TablesInSync, ReadersApart
<1>4. CASE FirstWrite
  <2>1. /\ writer = "first" /\ writer' = "swap"
        /\ tables' = [tables EXCEPT ![write] = Written(tables[write])]
        /\ UNCHANGED <<routes, read, write, change, reader>>
    BY <1>4 DEF FirstWrite, Target
  <2>2. TypeOK'
    BY <2>1, <1>t DEF TypeOK
  <2>3. tables[write] = tables[read]
    BY <2>1 DEF TypeOK, TablesInSync
  <2>4. tables'[write] = Written(tables[read]) /\ tables'[read] = tables[read]
    BY <2>1, <2>3 DEF TypeOK
  <2>5. TablesInSync'
    BY <2>1, <2>4 DEF TablesInSync, Written
  <2> QED BY <2>1, <2>2, <2>5 DEF ReadersApart
<1>5. CASE Swap
  BY <1>5 DEF Swap, Exchange, TypeOK, TablesInSync, ReadersApart, Written
<1>6. CASE Sleep
  BY <1>6 DEF Sleep, Slept, TypeOK, TablesInSync, ReadersApart, Written
<1>7. CASE SecondWrite
  <2>1. /\ writer = "second" /\ writer' = "idle" /\ change' = [a \in {} |-> None]
        /\ tables' = [tables EXCEPT ![write] = Written(tables[write])]
        /\ UNCHANGED <<routes, read, write, reader>>
    BY <1>7 DEF SecondWrite, SecondWritten
  <2>2. TypeOK'
    BY <2>1, <1>t DEF TypeOK
  <2>3. tables[read] = Written(tables[write])
    BY <2>1 DEF TablesInSync
  <2>4. tables'[1] = tables'[2]
    BY <2>1, <2>3 DEF TypeOK
  <2> QED BY <2>1, <2>2, <2>4 DEF TablesInSync, ReadersApart
<1>8. ASSUME NEW r \in Readers, NEW a \in Packets, Lookup(r, a) PROVE TableInv'
  <2>1. a \in Address
    BY PacketAssumption
  <2> QED BY <1>8, <2>1 DEF Lookup, TypeOK, TablesInSync, ReadersApart, Written
<1>9. ASSUME NEW r \in Readers, Forwarded(r) PROVE TableInv'
  BY <1>9 DEF Forwarded, TypeOK, TablesInSync, ReadersApart, Written, Idle
<1>10. CASE UNCHANGED vars
  BY <1>10 DEF vars, TypeOK, TablesInSync, ReadersApart, Written
<1> QED
  BY <1>1, <1>2, <1>3, <1>4, <1>5, <1>6, <1>7, <1>8, <1>9, <1>10
     DEF Next, Handle, Write, Forward

LEMMA TableInvariant == Spec => []TableInv
  BY InitTableInv, NextTableInv, PTL DEF Spec

(* The variables keep their types, and the two tables are never the same.  *)
THEOREM TypeCorrect == Spec => []TypeOK
  BY TableInvariant, PTL DEF TableInv

(* The writer never touches a table that a forwarding thread is in.        *)
THEOREM WriterApart == Spec => []NoWriteUnderReader
<1>1. TableInv => NoWriteUnderReader
  BY DEF TableInv, ReadersApart, NoWriteUnderReader, Target
<1> QED BY <1>1, TableInvariant, PTL

(* No swap takes an earlier update back.                                   *)
THEOREM UpdatesKept == Spec => []TablesAgree
<1>1. TableInv => TablesAgree
  BY DEF TableInv, TablesInSync, TablesAgree
<1> QED BY <1>1, TableInvariant, PTL

-----------------------------------------------------------------------------
(* The service: what is served between two updates.                        *)

LEMMA InitServiceInv == Init => HostsSettled /\ UnroutedSettled
BY DEF Init, HostsSettled, UnroutedSettled, Settled

(* In the state after a handler, Settled is the table with the new entries.*)
LEMMA SettledByUpdate ==
  ASSUME TableInv, writer = "idle", NEW rt, NEW entries, Update(rt, entries),
         UNCHANGED <<tables, read, write>>, NEW a \in Address
  PROVE  /\ Settled = tables[read]
         /\ Settled'[a] = IF a \in DOMAIN entries THEN entries[a] ELSE Settled[a]
BY DEF Settled, Update, Written

LEMMA AddRouteServiceInv ==
  ASSUME TableInv, HostsSettled, UnroutedSettled,
         NEW r \in Routes, NEW mac \in Macs, AddRoute(r, mac)
  PROVE  HostsSettled' /\ UnroutedSettled'
<1> DEFINE rt == [routes EXCEPT ![r] = mac]
           entries == AddEntries(rt, r, mac)
<1>1. /\ routes' = rt /\ Update(rt, entries) /\ writer = "idle"
      /\ UNCHANGED <<tables, read, write>>
  BY DEF AddRoute, Update
<1>2. \A a \in Address :
        Settled'[a] = IF a \in DOMAIN entries THEN mac ELSE Settled[a]
  <2>1. \A a \in Address :
          Settled'[a] = IF a \in DOMAIN entries THEN entries[a] ELSE Settled[a]
    <3> HIDE DEF rt, entries
    <3> QED BY <1>1, SettledByUpdate
  <2> QED BY <2>1, AddEntriesAreEntries
<1>3. routes \in [Routes -> Entry]
  BY DEF TableInv, TypeOK
<1>4. rt[r] = mac /\ mac # None /\ \A s \in Routes \ {r} : rt[s] = routes[s]
  BY <1>3, NoneAssumption
<1>5. HostsSettled'
  <2> SUFFICES ASSUME NEW h \in Routes, h.prefix = Width, rt[h] # None
               PROVE  Settled'[h.dest] = rt[h]
    BY <1>1 DEF HostsSettled
  <2>1. h.dest \in Address
    BY RoutesAreRecords
  <2>2. CASE h = r
    <3>1. h.dest \in DOMAIN entries
      BY <2>2 DEF AddEntries
    <3> QED BY <1>2, <1>4, <2>1, <2>2, <3>1
  <2>3. CASE h # r
    <3>1. Settled[h.dest] = routes[h] /\ rt[h] = routes[h]
      BY <1>4, <2>3 DEF HostsSettled
    <3>2. h.dest \notin DOMAIN entries
      <4>1. CASE r.prefix = Width
        BY <2>3, <4>1, RoutesAreRecords DEF AddEntries
      <4>2. CASE r.prefix # Width
        <5>1. RoutePrefix(rt, h.dest) = Width
          <6> HIDE DEF rt
          <6> QED BY HostPrefix
        <5>2. ~(r.prefix > Width)
          BY RoutesAreRecords
        <5> HIDE DEF rt
        <5> QED BY <4>2, <5>1, <5>2 DEF AddEntries
      <4> QED BY <4>1, <4>2
    <3> QED BY <1>2, <2>1, <3>1, <3>2
  <2> QED BY <2>2, <2>3
<1>6. UnroutedSettled'
  <2> SUFFICES ASSUME NEW a \in Address, Covering(rt, a) = {}
               PROVE  Settled'[a] = None
    BY <1>1 DEF UnroutedSettled
  <2>1. ~Covers(r, a)
    BY <1>4 DEF Covering
  <2>2. a \notin DOMAIN entries
    BY <2>1, AddEntriesAreEntries DEF Net
  <2>3. Covering(routes, a) = {}
    BY <1>4, <2>1 DEF Covering
  <2> QED BY <1>2, <2>2, <2>3 DEF UnroutedSettled
<1> QED BY <1>5, <1>6

LEMMA DelRouteServiceInv ==
  ASSUME TableInv, HostsSettled, UnroutedSettled,
         NEW r \in Routes, DelRoute(r)
  PROVE  HostsSettled' /\ UnroutedSettled'
<1> DEFINE rt == [routes EXCEPT ![r] = None]
           entries == DelEntries(rt, r)
<1>1. /\ routes' = rt /\ Update(rt, entries) /\ writer = "idle" /\ r.prefix > 1
      /\ UNCHANGED <<tables, read, write>>
  BY DEF DelRoute, Update
<1>2. \A a \in Address :
        Settled'[a] = IF a \in DOMAIN entries THEN entries[a] ELSE Settled[a]
  <2> HIDE DEF rt, entries
  <2> QED BY <1>1, SettledByUpdate
<1>3. routes \in [Routes -> Entry]
  BY DEF TableInv, TypeOK
<1>4. rt \in [Routes -> Entry] /\ rt[r] = None
      /\ \A s \in Routes \ {r} : rt[s] = routes[s]
  BY <1>3 DEF Entry
<1>5. HostsSettled'
  <2> SUFFICES ASSUME NEW h \in Routes, h.prefix = Width, rt[h] # None
               PROVE  Settled'[h.dest] = rt[h]
    BY <1>1 DEF HostsSettled
  <2>1. h # r /\ h.dest \in Address
    BY <1>4, RoutesAreRecords
  <2>2. Settled[h.dest] = routes[h] /\ rt[h] = routes[h]
    BY <1>4, <2>1 DEF HostsSettled
  <2>3. h.dest \notin DOMAIN entries
    <3>1. CASE r.prefix = Width
      BY <2>1, <3>1, RoutesAreRecords DEF DelEntries, DelAddress
    <3>2. CASE r.prefix # Width
      <4>1. RoutePrefix(rt, h.dest) = Width
        <5> HIDE DEF rt
        <5> QED BY HostPrefix
      <4>2. ~(Width < r.prefix)
        BY RoutesAreRecords
      <4> HIDE DEF rt
      <4> QED BY <3>2, <4>1, <4>2 DEF DelEntries, DelNet
    <3> QED BY <3>1, <3>2
  <2> QED BY <1>2, <2>1, <2>2, <2>3
<1>6. UnroutedSettled'
  <2> SUFFICES ASSUME NEW a \in Address, Covering(rt, a) = {}
               PROVE  Settled'[a] = None
    BY <1>1 DEF UnroutedSettled
  <2>1. RoutePrefix(rt, a) = 0 /\ FallBack(rt, a) = None
    BY DEF RoutePrefix, FallBack
  <2>2. CASE a \in DOMAIN entries
    <3>1. entries[a] = FallBack(rt, a)
      <4> HIDE DEF rt
      <4> QED BY <1>4, <2>2, DelEntriesAreEntries
    <3> QED BY <1>2, <2>1, <2>2, <3>1
  <2>3. CASE a \notin DOMAIN entries
    <3>1. 0 < r.prefix
      BY <1>1, RoutesAreRecords
    <3>2. ~Covers(r, a)
      <4> HIDE DEF rt
      <4>1. CASE r.prefix = Width
        <5>1. a # r.dest
          BY <2>1, <2>3, <3>1, <4>1 DEF DelEntries, DelAddress
        <5> QED BY <4>1, <5>1, HostCoversItself
      <4>2. CASE r.prefix # Width
        BY <2>1, <2>3, <3>1, <4>2 DEF DelEntries, DelNet, Net
      <4> QED BY <4>1, <4>2
    <3>3. Covering(routes, a) = {}
      BY <1>4, <3>2 DEF Covering
    <3> QED BY <1>2, <2>3, <3>3 DEF UnroutedSettled
  <2> QED BY <2>2, <2>3
<1> QED BY <1>5, <1>6

(* No other step changes what the tables settle to.                        *)
LEMMA WriteKeepsSettled ==
  ASSUME TableInv,
         \/ \E r \in Routes : AddAborts(r) \/ DelFails(r)
         \/ Write \/ Forward \/ UNCHANGED vars
  PROVE  Settled' = Settled /\ routes' = routes
<1> USE DEF TableInv
<1>1. ASSUME NEW r \in Routes, AddAborts(r) \/ DelFails(r)
      PROVE  Settled' = Settled /\ routes' = routes
  BY <1>1 DEF AddAborts, DelFails, Settled
<1>2. CASE FirstWrite
  <2>1. tables[write] = tables[read] /\ tables'[write] = Written(tables[write])
    BY <1>2 DEF FirstWrite, Target, TablesInSync, TypeOK
  <2> QED BY <1>2, <2>1 DEF FirstWrite, Settled
<1>3. CASE Swap
  BY <1>3 DEF Swap, Exchange, Settled
<1>4. CASE Sleep
  BY <1>4 DEF Sleep, Settled
<1>5. CASE SecondWrite
  BY <1>5 DEF SecondWrite, SecondWritten, Settled, TypeOK
<1>6. CASE Forward
  BY <1>6 DEF Forward, Forwarded, Lookup, Settled, Written
<1>7. CASE UNCHANGED vars
  BY <1>7 DEF vars, Settled, Written
<1> QED BY <1>1, <1>2, <1>3, <1>4, <1>5, <1>6, <1>7 DEF Write

LEMMA NextServiceInv == ServiceInv /\ [Next]_vars => ServiceInv'
<1> SUFFICES ASSUME ServiceInv, [Next]_vars PROVE ServiceInv'
  OBVIOUS
<1>1. TableInv'
  BY NextTableInv DEF ServiceInv
<1>2. ASSUME NEW r \in Routes, NEW mac \in Macs, AddRoute(r, mac)
      PROVE  HostsSettled' /\ UnroutedSettled'
  BY <1>2, AddRouteServiceInv DEF ServiceInv
<1>3. ASSUME NEW r \in Routes, DelRoute(r) PROVE HostsSettled' /\ UnroutedSettled'
  BY <1>3, DelRouteServiceInv DEF ServiceInv
<1>4. ASSUME \/ \E r \in Routes : AddAborts(r) \/ DelFails(r)
             \/ Write \/ Forward \/ UNCHANGED vars
      PROVE  HostsSettled' /\ UnroutedSettled'
  <2>1. Settled' = Settled /\ routes' = routes
    BY <1>4, WriteKeepsSettled DEF ServiceInv
  <2> QED BY <2>1 DEF ServiceInv, HostsSettled, UnroutedSettled, Covering
<1> QED BY <1>1, <1>2, <1>3, <1>4 DEF Next, Handle, ServiceInv

LEMMA ServiceInvariant == Spec => []ServiceInv
<1>1. Init => ServiceInv
  BY InitTableInv, InitServiceInv DEF ServiceInv
<1> QED BY <1>1, NextServiceInv, PTL DEF Spec

(* Between two updates every host route is served with its own next hop.   *)
THEOREM HostsServed == Spec => []HostRouteServed
<1>1. ServiceInv => HostRouteServed
  BY DEF ServiceInv, HostsSettled, Settled, HostRouteServed
<1> QED BY <1>1, ServiceInvariant, PTL

(* Between two updates an address without a route has no entry.            *)
THEOREM NothingUnrouted == Spec => []UnroutedDropped
<1>1. ServiceInv => UnroutedDropped
  BY DEF ServiceInv, UnroutedSettled, Settled, UnroutedDropped
<1> QED BY <1>1, ServiceInvariant, PTL

(* The table in use is stable under its readers and, between updates,      *)
(* agrees with the other, serves every host route and nothing unrouted.    *)
THEOREM TablesAlwaysServe == Spec => []TablesServe
BY WriterApart, UpdatesKept, HostsServed, NothingUnrouted, PTL DEF TablesServe

-----------------------------------------------------------------------------
(* Two tables and a swap implement one table that changes at once.         *)

LEMMA InitMaps == Init => Table!Init
BY DEF Init, Table!Init, Found, Idle

LEMMA NextMaps ==
  TableInv /\ [Next]_vars => [Table!Next]_<<tables[read], [r \in Readers |-> Found(r)]>>
<1> DEFINE found == [r \in Readers |-> Found(r)]
<1> SUFFICES ASSUME TableInv, [Next]_vars
             PROVE  Table!Next \/ (tables[read]' = tables[read] /\ found' = found)
  OBVIOUS
<1> USE DEF TableInv
<1>1. ASSUME \/ \E r \in Routes, mac \in Macs : AddRoute(r, mac)
             \/ \E r \in Routes : AddAborts(r) \/ DelRoute(r) \/ DelFails(r)
             \/ Sleep \/ UNCHANGED vars
      PROVE  tables[read]' = tables[read] /\ found' = found
  BY <1>1 DEF AddRoute, AddAborts, DelRoute, DelFails, Sleep, vars, Found
<1>2. ASSUME FirstWrite \/ SecondWrite
      PROVE  tables[read]' = tables[read] /\ found' = found
  <2>1. \A t \in {1, 2} : t # write => tables'[t] = tables[t]
    BY <1>2 DEF FirstWrite, SecondWrite, Target, SecondWritten, TypeOK
  <2>2. \A r \in Readers : reader[r].table # write
    BY <1>2 DEF FirstWrite, SecondWrite, ReadersApart
  <2>3. \A r \in Readers : reader[r].table \in {0, 1, 2}
    BY DEF TypeOK, Idle
  <2>4. read' = read /\ reader' = reader /\ read # write /\ read \in {1, 2}
    BY <1>2 DEF FirstWrite, SecondWrite, TypeOK
  <2> QED BY <2>1, <2>2, <2>3, <2>4 DEF Found
<1>3. CASE Swap
  <2>1. tables[read]' \in [Address -> Macs \cup {None}]
    BY <1>3 DEF Swap, Exchange, TypeOK, Entry
  <2>2. found' = found
    BY <1>3 DEF Swap, Found
  <2> QED BY <2>1, <2>2 DEF Table!Next, Table!Publish
<1>4. ASSUME NEW r \in Readers, NEW a \in Packets, Lookup(r, a)
      PROVE  Table!Next
  <2>1. a \in Address
    BY PacketAssumption
  <2>2. /\ reader' = [reader EXCEPT ![r] = [table |-> read, address |-> a]]
        /\ UNCHANGED <<tables, read>>
    BY <1>4 DEF Lookup
  <2>3. Found(r)' = tables[read][a]
    BY <2>2 DEF Found, TypeOK
  <2>4. \A s \in Readers \ {r} : Found(s)' = Found(s)
    BY <2>2 DEF Found, TypeOK
  <2>5. found' = [found EXCEPT ![r] = tables[read][a]]
    BY <2>3, <2>4
  <2> QED BY <2>1, <2>2, <2>5 DEF Table!Next, Table!Lookup
<1>5. ASSUME NEW r \in Readers, Forwarded(r) PROVE Table!Next
  <2>1. reader' = [reader EXCEPT ![r] = Idle] /\ UNCHANGED <<tables, read>>
    BY <1>5 DEF Forwarded
  <2>2. Found(r)' = None /\ \A s \in Readers \ {r} : Found(s)' = Found(s)
    BY <2>1 DEF Found, TypeOK, Idle
  <2>3. found' = [found EXCEPT ![r] = None]
    BY <2>2
  <2> QED BY <2>1, <2>3 DEF Table!Next, Table!Release
<1> QED BY <1>1, <1>2, <1>3, <1>4, <1>5 DEF Next, Handle, Write, Forward

(* The LookupTable implements a table that changes at once and under no    *)
(* reader.                                                                 *)
THEOREM TableImplemented == Spec => ImplementsForwardingTable
BY InitMaps, NextMaps, TableInvariant, PTL DEF Spec, ImplementsForwardingTable, Table!Spec

-----------------------------------------------------------------------------
(* SlotFlows.                                                              *)

(* The element that gets the flows, and the last slot whose flow it was    *)
(* sent if its connection lasted.                                          *)
Using(e) == se = e \/ (job.type = "replay" /\ job.element = e)
LastSent == IF job.type = "replay" THEN job.next - 1 ELSE slot

Queued(x) == \E i \in DOMAIN queue : queue[i] = x

(* The loss of a connection of the element is still to be served or        *)
(* handled.                                                                *)
Pending(e) == stale[e] # 0 \/ Queued(Disconnected(e))

JobInv ==
  /\ job.type = "start" => queue = <<>> /\ ~announced /\ slot = 0 /\ se = NoSwitch
  /\ job.type = "change" => slot < job.num /\ job.num < NumSlots
  /\ job.type = "replay" => se = NoSwitch /\ job.next <= slot + 1

(* An element is announced once, and before any loss of the connection it  *)
(* was announced with.                                                     *)
QueueInv ==
  /\ ~announced => \A e \in Switches : ~Queued(Active(e))
  /\ \A e \in Switches : \A i, j \in DOMAIN queue :
       queue[i] = Active(e) /\ queue[j] = Active(e) => i = j
  /\ \A e \in Switches : \A i \in DOMAIN queue : queue[i] = Active(e) =>
       up[e] \/ \E j \in DOMAIN queue : i < j /\ queue[j] = Disconnected(e)

Unannounced(e) == ~announced \/ Queued(Active(e))

SentInv(e) ==
  /\ Unannounced(e) => ~Using(e) /\ sent[e] = <<>>
  /\ \E first, last \in Int :
       first <= last + 1 /\ IsFlows(sent[e], first, last) /\ (Using(e) /\ up[e] => last = LastSent)
  /\ Using(e) /\ ~Pending(e) => up[e] /\ IsFlows(sent[e], 1, LastSent)

SlotsInv == SlotsTypeOK /\ JobInv /\ QueueInv /\ \A e \in Switches : SentInv(e)

-----------------------------------------------------------------------------
(* Sequences of flows.                                                     *)

LEMMA NoFlows ==
  ASSUME NEW n \in Int
  PROVE  IsFlows(<<>>, n + 1, n)
<1>1. \A k \in FlowSlots : ~(n + 1 <= k /\ k <= n)
  BY SlotAssumption
<1> QED BY <1>1 DEF IsFlows

(* The flow of the next slot, if it has one, is sent. *)
LEMMA FlowsExtended ==
  ASSUME NEW s \in Seq(FlowSlots), NEW first \in Int, NEW last \in Int,
         first <= last + 1, IsFlows(s, first, last)
  PROVE  IsFlows(IF last + 1 \in FlowSlots THEN Append(s, last + 1) ELSE s,
                 first, last + 1)
<1>0. \A n \in FlowSlots : n \in Int
  BY SlotAssumption
<1>1. Len(s) \in Nat /\ DOMAIN s = 1 .. Len(s)
  BY LenProperties
<1>2. CASE last + 1 \in FlowSlots
  <2> DEFINE t == Append(s, last + 1)
  <2>1. /\ t \in Seq(FlowSlots) /\ Len(t) = Len(s) + 1
        /\ \A i \in 1 .. Len(s) : t[i] = s[i]
        /\ t[Len(s) + 1] = last + 1
    BY <1>2, AppendProperties
  <2>2. DOMAIN t = 1 .. Len(s) + 1
    BY <2>1, LenProperties
  <2> HIDE DEF t
  <2>3. \A i \in DOMAIN t : (i \in DOMAIN s /\ t[i] = s[i]) \/ (i = Len(s) + 1 /\ t[i] = last + 1)
    BY <1>1, <2>1, <2>2
  <2>4. \A i \in DOMAIN s : s[i] \in FlowSlots /\ first <= s[i] /\ s[i] <= last /\ s[i] < last + 1
    BY <1>0 DEF IsFlows
  <2>5. \A i \in DOMAIN t : t[i] \in FlowSlots /\ first <= t[i] /\ t[i] <= last + 1
    BY <1>0, <1>2, <2>3, <2>4
  <2>6. ASSUME NEW i \in DOMAIN t, NEW j \in DOMAIN t, i < j PROVE t[i] < t[j]
    <3>1. i \in DOMAIN s
      BY <1>1, <2>2, <2>6
    <3>2. CASE j \in DOMAIN s
      BY <1>1, <2>1, <2>6, <3>1, <3>2 DEF IsFlows
    <3>3. CASE j = Len(s) + 1
      BY <1>1, <2>1, <2>4, <3>1, <3>3
    <3> QED BY <2>3, <3>2, <3>3
  <2>7. ASSUME NEW n \in FlowSlots, first <= n, n <= last + 1
        PROVE  \E i \in DOMAIN t : t[i] = n
    <3>1. CASE n <= last
      <4>1. PICK i \in DOMAIN s : s[i] = n
        BY <2>7, <3>1 DEF IsFlows
      <4> QED BY <1>1, <2>1, <2>2, <4>1
    <3>2. CASE n = last + 1
      BY <1>1, <2>1, <2>2, <3>2
    <3> QED BY <1>0, <2>7, <3>1, <3>2
  <2> QED BY <1>2, <2>5, <2>6, <2>7 DEF IsFlows, t
<1>3. CASE last + 1 \notin FlowSlots
  <2>1. \A n \in FlowSlots : n <= last + 1 => n <= last
    BY <1>0, <1>3
  <2>2. \A n \in FlowSlots : n <= last => n <= last + 1
    BY <1>0
  <2> QED BY <1>3, <2>1, <2>2 DEF IsFlows
<1> QED BY <1>2, <1>3

(* The first and the last flow bound the others. *)
LEMMA FlowsBetween ==
  ASSUME NEW s \in Seq(FlowSlots), s # <<>>,
         NEW first \in Int, NEW last \in Int, IsFlows(s, first, last)
  PROVE  IsFlows(s, Head(s), s[Len(s)])
<1>1. Len(s) \in Nat \ {0} /\ DOMAIN s = 1 .. Len(s) /\ Head(s) = s[1]
  BY EmptySeq, LenProperties
<1>2. \A i \in DOMAIN s : s[i] \in Nat /\ s[i] \in FlowSlots /\ first <= s[i] /\ s[i] <= last
  <2>1. \A n \in FlowSlots : n \in Nat
    BY SlotAssumption
  <2> QED BY <2>1 DEF IsFlows
<1>3. 1 \in DOMAIN s /\ Len(s) \in DOMAIN s
  BY <1>1
<1>4. ASSUME NEW i \in DOMAIN s PROVE s[1] <= s[i] /\ s[i] <= s[Len(s)]
  <2>1. 1 < i => s[1] < s[i]
    BY <1>3 DEF IsFlows
  <2>2. i < Len(s) => s[i] < s[Len(s)]
    BY <1>3 DEF IsFlows
  <2>3. (1 < i \/ i = 1) /\ (i < Len(s) \/ i = Len(s))
    BY <1>1
  <2>4. s[1] \in Nat /\ s[i] \in Nat /\ s[Len(s)] \in Nat
    BY <1>2, <1>3
  <2> QED BY <2>1, <2>2, <2>3, <2>4
<1>5. ASSUME NEW n \in FlowSlots, s[1] <= n, n <= s[Len(s)]
      PROVE  \E i \in DOMAIN s : s[i] = n
  <2>1. n \in Nat /\ s[1] \in Nat /\ s[Len(s)] \in Nat
        /\ first <= s[1] /\ s[Len(s)] <= last
    BY <1>2, <1>3, SlotAssumption
  <2>2. first <= n /\ n <= last
    BY <1>5, <2>1
  <2> QED BY <2>2 DEF IsFlows
<1> QED BY <1>1, <1>2, <1>4, <1>5 DEF IsFlows

-----------------------------------------------------------------------------
(* The queue.                                                              *)

LEMMA EventsApart ==
  ASSUME NEW e, NEW f, NEW n
  PROVE  /\ Active(e) # Disconnected(f) /\ Active(e) # SlotChange(n)
         /\ Disconnected(e) # SlotChange(n)
         /\ Active(e) = Active(f) => e = f
         /\ Disconnected(e) = Disconnected(f) => e = f
         /\ Active(e).type = "ServiceElementActive" /\ Active(e).element = e
         /\ Disconnected(e).type = "ServiceElementDisconnected"
         /\ Disconnected(e).element = e
         /\ SlotChange(n).type = "SlotChange" /\ SlotChange(n).num = n
<1>1. /\ Active(e).type = "ServiceElementActive" /\ Active(e).element = e
      /\ Active(f).element = f
  BY DEF Active
<1>2. /\ Disconnected(e).type = "ServiceElementDisconnected" /\ Disconnected(e).element = e
      /\ Disconnected(f).type = "ServiceElementDisconnected" /\ Disconnected(f).element = f
  BY DEF Disconnected
<1>3. SlotChange(n).type = "SlotChange" /\ SlotChange(n).num = n
  BY DEF SlotChange
<1>4. /\ "ServiceElementActive" # "ServiceElementDisconnected"
      /\ "ServiceElementActive" # "SlotChange"
      /\ "ServiceElementDisconnected" # "SlotChange"
  OBVIOUS
<1> QED BY <1>1, <1>2, <1>3, <1>4

LEMMA QueueTyped ==
  ASSUME SlotsTypeOK
  PROVE  /\ queue \in Seq(EventSet) /\ Len(queue) \in Nat /\ DOMAIN queue = 1 .. Len(queue)
         /\ \A i \in DOMAIN queue : queue[i] \in EventSet
<1>1. queue \in Seq(EventSet)
  BY DEF SlotsTypeOK
<1> QED BY <1>1, LenProperties, ElementOfSeq

LEMMA Appended ==
  ASSUME SlotsTypeOK, NEW x \in EventSet, queue' = Append(queue, x)
  PROVE  /\ queue' \in Seq(EventSet) /\ DOMAIN queue' = 1 .. Len(queue) + 1
         /\ \A i \in DOMAIN queue : i \in DOMAIN queue' /\ queue'[i] = queue[i]
         /\ \A i \in DOMAIN queue' : i \in DOMAIN queue \/ (i = Len(queue) + 1 /\ queue'[i] = x)
         /\ Len(queue) + 1 \in DOMAIN queue' /\ queue'[Len(queue) + 1] = x
<1> DEFINE q == queue
           r == Append(queue, x)
<1>1. q \in Seq(EventSet) /\ Len(q) \in Nat /\ DOMAIN q = 1 .. Len(q)
  BY QueueTyped
<1>2. /\ r \in Seq(EventSet) /\ Len(r) = Len(q) + 1
      /\ \A i \in 1 .. Len(q) : r[i] = q[i]
      /\ r[Len(q) + 1] = x
  BY <1>1, AppendProperties
<1>3. DOMAIN r = 1 .. Len(q) + 1
  BY <1>2, LenProperties
<1>4. queue' = r
  OBVIOUS
<1> HIDE DEF q, r
<1>5. /\ \A i \in DOMAIN q : i \in DOMAIN r /\ r[i] = q[i]
      /\ \A i \in DOMAIN r : i \in DOMAIN q \/ (i = Len(q) + 1 /\ r[i] = x)
      /\ Len(q) + 1 \in DOMAIN r
  BY <1>1, <1>2, <1>3
<1> QED BY <1>2, <1>3, <1>4, <1>5 DEF q

LEMMA Taken ==
  ASSUME SlotsTypeOK, queue # <<>>, queue' = Tail(queue)
  PROVE  /\ queue' \in Seq(EventSet) /\ Head(queue) \in EventSet
         /\ 1 \in DOMAIN queue /\ queue[1] = Head(queue)
         /\ \A i \in DOMAIN queue' : i \in Nat \ {0} /\ i + 1 \in DOMAIN queue
                                   /\ queue'[i] = queue[i + 1]
         /\ \A i \in DOMAIN queue : i # 1 => i - 1 \in DOMAIN queue' /\ queue'[i - 1] = queue[i]
<1> DEFINE q == queue
           r == Tail(queue)
<1>1. q \in Seq(EventSet) /\ q # <<>> /\ Len(q) \in Nat \ {0} /\ DOMAIN q = 1 .. Len(q)
  BY QueueTyped, EmptySeq
<1>2. /\ Head(q) \in EventSet /\ r \in Seq(EventSet) /\ Len(r) = Len(q) - 1
      /\ \A i \in 1 .. Len(r) : r[i] = q[i + 1]
  BY <1>1, HeadTailProperties
<1>3. DOMAIN r = 1 .. Len(q) - 1
  BY <1>2, LenProperties
<1>4. Head(q) = q[1] /\ queue' = r
  BY <1>1
<1> HIDE DEF q, r
<1>5. /\ \A i \in DOMAIN r : i \in Nat \ {0} /\ i + 1 \in DOMAIN q /\ r[i] = q[i + 1]
      /\ \A i \in DOMAIN q : i # 1 => i - 1 \in DOMAIN r /\ r[i - 1] = q[i]
  <2>1. \A i \in DOMAIN r : i \in Nat \ {0} /\ i + 1 \in DOMAIN q /\ r[i] = q[i + 1]
    BY <1>1, <1>2, <1>3
  <2>2. ASSUME NEW i \in DOMAIN q, i # 1 PROVE i - 1 \in DOMAIN r /\ r[i - 1] = q[i]
    <3>1. i - 1 \in DOMAIN r /\ (i - 1) + 1 = i
      BY <1>1, <1>3, <2>2
    <3> QED BY <2>1, <3>1
  <2> QED BY <2>1, <2>2
<1> QED BY <1>1, <1>2, <1>4, <1>5 DEF q, r

(* What Announce appends. *)
LEMMA Announced ==
  ASSUME SlotsTypeOK, Announce
  PROVE  /\ queue' \in Seq(EventSet)
         /\ \A i \in DOMAIN queue : i \in DOMAIN queue' /\ queue'[i] = queue[i]
         /\ \A i \in DOMAIN queue' \ DOMAIN queue :
              \E e \in Switches : queue'[i] = Active(e) /\ up[e]
         /\ \A i, j \in DOMAIN queue' \ DOMAIN queue : queue'[i] = queue'[j] => i = j
<1> DEFINE S == {e \in Switches : up[e]}
           n == Cardinality(S)
<1>1. n \in Nat
  <2>1. IsFiniteSet(S)
    BY FS_Subset, SlotAssumption
  <2> QED BY <2>1, FS_CardinalityType
<1>2. PICK order \in SetToSeqs(S) :
        queue' = queue \o [i \in DOMAIN order |-> Active(order[i])]
  BY DEF Announce
<1>3. /\ order \in [1 .. n -> S]
      /\ \A i, j \in 1 .. n : i # j => order[i] # order[j]
  BY DEF SetToSeqs
<1> DEFINE q == queue
           r == [i \in DOMAIN order |-> Active(order[i])]
<1>4. r = [i \in 1 .. n |-> Active(order[i])]
  BY <1>3
<1>5. \A i \in 1 .. n : order[i] \in Switches /\ up[order[i]]
  BY <1>3
<1> HIDE DEF n, S
<1>6. \A i \in 1 .. n : r[i] = Active(order[i]) /\ r[i] \in EventSet
  BY <1>4, <1>5 DEF EventSet, Active
<1>7. r \in Seq(EventSet) /\ Len(r) = n
  <2>1. r \in [1 .. n -> EventSet]
    BY <1>4, <1>6
  <2> HIDE DEF r
  <2>2. r \in Seq(EventSet)
    BY <1>1, <2>1, IsASeq
  <2> QED BY <1>1, <2>1, <2>2, LenProperties
<1>8. q \in Seq(EventSet) /\ Len(q) \in Nat /\ DOMAIN q = 1 .. Len(q)
  BY QueueTyped
<1>9. queue' = q \o r
  BY <1>2
<1> HIDE DEF q, r
<1>10. /\ q \o r \in Seq(EventSet) /\ Len(q \o r) = Len(q) + n
       /\ \A i \in 1 .. Len(q) + n : (q \o r)[i] = IF i <= Len(q) THEN q[i] ELSE r[i - Len(q)]
  BY <1>7, <1>8, ConcatProperties
<1>11. DOMAIN (q \o r) = 1 .. Len(q) + n
  BY <1>1, <1>8, <1>10, LenProperties
<1>12. \A i \in DOMAIN q : i \in DOMAIN (q \o r) /\ (q \o r)[i] = q[i]
  BY <1>1, <1>8, <1>10, <1>11
<1>13. ASSUME NEW i \in DOMAIN (q \o r) \ DOMAIN q
       PROVE  i - Len(q) \in 1 .. n /\ (q \o r)[i] = Active(order[i - Len(q)])
  <2>1. i - Len(q) \in 1 .. n /\ ~(i <= Len(q)) /\ i \in 1 .. Len(q) + n
    BY <1>1, <1>8, <1>11
  <2> QED BY <1>6, <1>10, <2>1
<1>14. ASSUME NEW i \in DOMAIN (q \o r) \ DOMAIN q, NEW j \in DOMAIN (q \o r) \ DOMAIN q,
              (q \o r)[i] = (q \o r)[j]
       PROVE  i = j
  <2>1. order[i - Len(q)] = order[j - Len(q)]
    BY <1>13, <1>14, EventsApart
  <2>2. i - Len(q) = j - Len(q)
    BY <1>3, <1>13, <2>1
  <2>3. i \in Int /\ j \in Int
    BY <1>1, <1>8, <1>11
  <2> QED BY <1>8, <2>2, <2>3
<1>15. \A i \in DOMAIN (q \o r) \ DOMAIN q :
         \E e \in Switches : (q \o r)[i] = Active(e) /\ up[e]
  BY <1>5, <1>13
<1> QED BY <1>9, <1>10, <1>12, <1>14, <1>15 DEF q

-----------------------------------------------------------------------------
(* The job of the DemoLCP thread.                                          *)

LEMMA JobTyped ==
  ASSUME SlotsTypeOK
  PROVE  /\ job.type \in {"start", "wait", "abort", "change", "replay"}
         /\ job.type = "replay" => job.element \in Switches /\ job.next \in 1 .. NumSlots + 1
         /\ job.type = "change" => job.num \in 1 .. NumSlots
         /\ job = Start <=> job.type = "start"
         /\ job = Wait <=> job.type = "wait"
         /\ slot \in 0 .. NumSlots /\ NumSlots \in Nat /\ NumSlots > 1
         /\ NoSwitch \notin Switches /\ LastSent \in Nat
<1>1. job \in Jobs /\ slot \in 0 .. NumSlots /\ NumSlots \in Nat /\ NumSlots > 1
      /\ NoSwitch \notin Switches
  BY SlotAssumption DEF SlotsTypeOK
<1>2. CASE job \in {Start, Wait, Abort}
  BY <1>1, <1>2 DEF Start, Wait, Abort, LastSent
<1>3. CASE job \in [type : {"change"}, num : 1 .. NumSlots]
  BY <1>1, <1>3 DEF Start, Wait, LastSent
<1>4. CASE job \in [type : {"replay"}, element : Switches, next : 1 .. NumSlots + 1]
  BY <1>1, <1>4 DEF Start, Wait, LastSent
<1> QED BY <1>1, <1>2, <1>3, <1>4 DEF Jobs

LEMMA JobsApart ==
  /\ Start.type = "start" /\ Wait.type = "wait" /\ Abort.type = "abort"
  /\ \A n : Change(n).type = "change" /\ Change(n).num = n
  /\ \A e, i : /\ Replay(e, i).type = "replay" /\ Replay(e, i).element = e
               /\ Replay(e, i).next = i
BY DEF Start, Wait, Abort, Change, Replay

LEMMA ChangeSlotResult ==
  ASSUME SlotsTypeOK, NEW n \in 1 .. NumSlots, ChangeSlot(n)
  PROVE  /\ job' \in Jobs
         /\ \/ job' = Abort \/ job' = Wait
            \/ job' = Change(n) /\ slot < n /\ n < NumSlots
<1>1. slot \in Nat /\ NumSlots \in Nat
  BY JobTyped
<1>2. \/ job' = Abort \/ job' = Wait
      \/ job' = Change(n) /\ slot < n /\ n < NumSlots
  BY <1>1 DEF ChangeSlot
<1>3. Change(n) \in Jobs /\ Wait \in Jobs /\ Abort \in Jobs
  BY DEF Change, Jobs
<1> QED BY <1>2, <1>3

(* What a step of the DemoLCP thread does to the job. *)
LEMMA SlotsTypeStep ==
  ASSUME SlotsTypeOK, JobInv, [SlotsNext]_slotsVars
  PROVE  SlotsTypeOK'
<1> USE DEF lcpVars, elementVars
<1>j. /\ job.type = "replay" => job.element \in Switches /\ job.next \in 1 .. NumSlots + 1
      /\ job.type = "change" => job.num \in 1 .. NumSlots
      /\ slot \in 0 .. NumSlots /\ NumSlots \in Nat /\ NumSlots > 1
  BY JobTyped
<1>t. /\ prev \in 1 .. NumSlots /\ queue \in Seq(EventSet) /\ job \in Jobs
      /\ se \in Switches \cup {NoSwitch} /\ up \in [Switches -> BOOLEAN]
      /\ stale \in [Switches -> Nat] /\ sessions \in [Switches -> 1 .. MaxSessions]
      /\ sent \in [Switches -> Seq(FlowSlots)] /\ announced \in BOOLEAN
  BY DEF SlotsTypeOK
<1>s. ASSUME NEW e, NEW n, e \in Switches \cup {NoSwitch}, SendFlow(e, n)
      PROVE  sent' \in [Switches -> Seq(FlowSlots)]
  <2>1. CASE e \in Switches /\ n \in FlowSlots /\ sent' = [sent EXCEPT ![e] = Append(@, n)]
    <3>1. sent[e] \in Seq(FlowSlots)
      BY <1>t, <2>1
    <3>2. Append(sent[e], n) \in Seq(FlowSlots)
      BY <2>1, <3>1, AppendProperties
    <3> QED BY <1>t, <2>1, <3>2
  <2>2. CASE sent' = sent
    BY <1>t, <2>2
  <2> QED BY <1>s, <2>1, <2>2 DEF SendFlow
<1>w. Wait \in Jobs /\ \A e \in Switches, i \in 1 .. NumSlots + 1 : Replay(e, i) \in Jobs
  BY DEF Jobs, Replay
<1>1. ASSUME NEW n \in 0 .. NumSlots + 1, Receive(n) PROVE SlotsTypeOK'
  <2>1. n \in 1 .. NumSlots
    BY <1>1, <1>j DEF Receive, Accepted
  <2>2. SlotChange(n) \in EventSet
    BY <2>1 DEF SlotChange, EventSet
  <2>3. queue' \in Seq(EventSet)
    BY <1>1, <2>2, Appended DEF Receive
  <2> QED BY <1>1, <2>1, <2>3 DEF Receive, SlotsTypeOK
<1>2. CASE Announce
  <2>1. queue' \in Seq(EventSet)
    BY <1>2, Announced
  <2> QED BY <1>2, <2>1 DEF Announce, SlotsTypeOK
<1>l. ASSUME NEW e \in Switches PROVE stale[e] \in Nat /\ Live(e) \in {0, 1}
  BY <1>t DEF Live
<1>d. ASSUME NEW e \in Switches, NEW entries \in Nat, Drop(e, entries) PROVE SlotsTypeOK'
  <2>1. Disconnected(e) \in EventSet
    BY DEF Disconnected, EventSet
  <2>2. queue' \in Seq(EventSet)
    BY <1>d, <1>t, <2>1, Appended DEF Drop
  <2>3. stale' \in [Switches -> Nat] /\ up' \in [Switches -> BOOLEAN]
    BY <1>d, <1>t DEF Drop
  <2> QED BY <1>d, <2>2, <2>3 DEF Drop, SlotsTypeOK
<1>3. ASSUME NEW e \in Switches, Disconnect(e) \/ LateReset(e) PROVE SlotsTypeOK'
  <2>1. stale[e] > 0 => stale[e] - 1 + Live(e) \in Nat
    BY <1>l
  <2>2. CASE Disconnect(e)
    BY <1>d, <1>l, <2>2 DEF Disconnect
  <2>3. CASE LateReset(e)
    BY <1>d, <2>1, <2>3 DEF LateReset
  <2> QED BY <1>3, <2>2, <2>3
<1>4. ASSUME NEW e \in Switches, Connect(e) PROVE SlotsTypeOK'
  <2>1. sessions[e] + 1 \in 1 .. MaxSessions
    <3>1. MaxSessions \in Nat /\ sessions[e] \in 1 .. MaxSessions
      BY <1>t, SlotAssumption
    <3> QED BY <1>4, <3>1 DEF Connect
  <2>2. sessions' \in [Switches -> 1 .. MaxSessions]
    BY <1>4, <1>t, <2>1 DEF Connect
  <2>3. <<>> \in Seq(FlowSlots)
    OBVIOUS
  <2>4. sent' \in [Switches -> Seq(FlowSlots)]
    BY <1>4, <1>t, <2>3 DEF Connect
  <2>5. stale[e] + Live(e) \in Nat
    BY <1>l
  <2>6. stale' \in [Switches -> Nat] /\ up' \in [Switches -> BOOLEAN]
    BY <1>4, <1>t, <2>5 DEF Connect
  <2> QED BY <1>4, <2>2, <2>4, <2>6 DEF Connect, SlotsTypeOK
<1>5. CASE Initialize
  <2>1. 1 \in 1 .. NumSlots
    BY <1>j
  <2>2. job' \in Jobs
    BY <1>5, <2>1, ChangeSlotResult DEF Initialize
  <2> QED BY <1>5, <2>2 DEF Initialize, SlotsTypeOK
<1>6. CASE ChangeStep
  <2>1. slot + 1 \in 0 .. NumSlots
    BY <1>6, <1>j DEF ChangeStep, JobInv
  <2>2. sent' \in [Switches -> Seq(FlowSlots)]
    BY <1>6, <1>s, <1>t DEF ChangeStep
  <2>3. job' \in Jobs
    BY <1>6, <1>t, <1>w DEF ChangeStep
  <2> QED BY <1>6, <2>1, <2>2, <2>3 DEF ChangeStep, NextSlot, SlotsTypeOK
<1>7. CASE ReplayStep
  <2>1. job.element \in Switches /\ job.next + 1 \in 1 .. NumSlots + 1
    BY <1>7, <1>j DEF ReplayStep
  <2>2. sent' \in [Switches -> Seq(FlowSlots)]
    BY <1>7, <1>s, <2>1 DEF ReplayStep
  <2>3. job' \in Jobs
    BY <1>7, <1>w, <2>1 DEF ReplayStep
  <2> QED BY <1>7, <2>2, <2>3 DEF ReplayStep, SlotsTypeOK
<1>8. CASE ReplayEnd
  BY <1>8, <1>j, <1>w DEF ReplayEnd, SlotsTypeOK
<1>9. ASSUME NEW type, Take(type) PROVE queue' \in Seq(EventSet) /\ Head(queue) \in EventSet
                                        /\ Head(queue).type = type
  BY <1>9, Taken DEF Take
<1>10. CASE HandleSlotChange
  <2>1. queue' \in Seq(EventSet) /\ Head(queue) \in EventSet
        /\ Head(queue).type = "SlotChange"
    BY <1>9, <1>10 DEF HandleSlotChange
  <2>2. Head(queue).num \in 1 .. NumSlots
    BY <2>1 DEF EventSet
  <2>3. job' \in Jobs
    BY <1>10, <2>2, ChangeSlotResult DEF HandleSlotChange
  <2> QED BY <1>10, <2>1, <2>3 DEF HandleSlotChange, SlotsTypeOK
<1>11. CASE HandleActive
  <2>1. queue' \in Seq(EventSet) /\ Head(queue) \in EventSet
        /\ Head(queue).type = "ServiceElementActive"
    BY <1>9, <1>11 DEF HandleActive
  <2>2. Head(queue).element \in Switches
    BY <2>1 DEF EventSet
  <2>3. job' \in Jobs
    BY <1>11, <1>j, <1>w, <2>2 DEF HandleActive, ReplayFirst
  <2> QED BY <1>11, <2>1, <2>3 DEF HandleActive, SlotsTypeOK
<1>12. CASE HandleDisconnected
  <2>1. queue' \in Seq(EventSet)
    BY <1>9, <1>12 DEF HandleDisconnected
  <2> QED BY <1>12, <2>1 DEF HandleDisconnected, SlotsTypeOK
<1>13. CASE UNCHANGED slotsVars
  BY <1>13 DEF slotsVars, SlotsTypeOK
<1> QED BY <1>1, <1>2, <1>3, <1>4, <1>5, <1>6, <1>7, <1>8, <1>10, <1>11, <1>12, <1>13
        DEF SlotsNext, Demo, Elements, Sync

LEMMA JobStep ==
  ASSUME SlotsTypeOK, JobInv, [SlotsNext]_slotsVars
  PROVE  JobInv'
<1> USE DEF lcpVars, elementVars
<1>j. /\ job.type \in {"start", "wait", "abort", "change", "replay"}
      /\ job.type = "replay" => job.next \in 1 .. NumSlots + 1
      /\ job.type = "change" => job.num \in 1 .. NumSlots
      /\ slot \in 0 .. NumSlots /\ NumSlots \in Nat /\ NumSlots > 1
  BY JobTyped
<1>1. CASE /\ job' = job /\ slot' = slot /\ se' = se
           /\ job.type = "start" => queue' = queue /\ announced' = announced
  BY <1>1 DEF JobInv
<1>2. CASE job' = Wait \/ job' = Abort
  BY <1>2, JobsApart DEF JobInv
<1>3. ASSUME NEW n \in 1 .. NumSlots, ChangeSlot(n), slot' = slot PROVE JobInv'
  <2>1. \/ job' = Abort \/ job' = Wait
        \/ job' = Change(n) /\ slot < n /\ n < NumSlots
    BY <1>3, ChangeSlotResult
  <2> QED BY <1>2, <1>3, <2>1, JobsApart DEF JobInv
<1>4. CASE ChangeStep
  <2>1. slot' = slot + 1 /\ job.type = "change" /\ (job' = Wait \/ (job' = job /\ slot' # job.num))
    BY <1>4 DEF ChangeStep, NextSlot
  <2>2. CASE job' = job /\ slot' # job.num
    <3>1. slot < job.num /\ job.num < NumSlots
      BY <2>1 DEF JobInv
    <3>2. slot' < job'.num /\ job'.num < NumSlots
      BY <1>j, <2>1, <2>2, <3>1
    <3> QED BY <2>1, <2>2, <3>2 DEF JobInv
  <2> QED BY <1>2, <2>1, <2>2
<1>5. CASE ReplayStep
  <2>1. /\ job' = Replay(job.element, job.next + 1) /\ slot' = slot /\ se' = se
        /\ job.type = "replay" /\ job.next <= slot
    BY <1>5 DEF ReplayStep
  <2>2. job'.type = "replay" /\ job'.next = job.next + 1
    BY <2>1, JobsApart
  <2> QED BY <1>j, <2>1, <2>2 DEF JobInv
<1>6. CASE HandleActive
  <2>1. slot' = slot /\ se' = se
        /\ (job' = Wait \/ (se = NoSwitch /\ job' = Replay(Head(queue).element, 1)))
    BY <1>6 DEF HandleActive, ReplayFirst
  <2>2. CASE se = NoSwitch /\ job' = Replay(Head(queue).element, 1)
    <3>1. job'.type = "replay" /\ job'.next = 1
      BY <2>2, JobsApart
    <3> QED BY <1>j, <2>1, <2>2, <3>1 DEF JobInv
  <2> QED BY <1>2, <2>1, <2>2
<1>7. CASE Initialize
  <2>1. 1 \in 1 .. NumSlots
    BY <1>j
  <2> QED BY <1>3, <1>7, <2>1 DEF Initialize
<1>8. CASE HandleSlotChange
  <2>1. Head(queue) \in EventSet /\ Head(queue).type = "SlotChange"
    BY <1>8, Taken DEF HandleSlotChange, Take
  <2>2. Head(queue).num \in 1 .. NumSlots
    BY <2>1 DEF EventSet
  <2> QED BY <1>3, <1>8, <2>2 DEF HandleSlotChange
<1>9. CASE HandleDisconnected
  <2>1. job' = Wait
    BY <1>9 DEF HandleDisconnected, Take
  <2> QED BY <1>2, <2>1
<1>10. CASE ReplayEnd
  BY <1>2, <1>10 DEF ReplayEnd
<1>11. CASE Elements \/ Sync \/ UNCHANGED slotsVars
  <2>1. /\ job' = job /\ slot' = slot /\ se' = se
        /\ job.type = "start" => queue' = queue /\ announced' = announced
    BY <1>11 DEF Elements, Sync, Announce, Disconnect, LateReset, Drop, Connect, Receive, slotsVars
  <2> QED BY <1>1, <2>1
<1> QED BY <1>4, <1>5, <1>6, <1>7, <1>8, <1>9, <1>10, <1>11 DEF SlotsNext, Demo

-----------------------------------------------------------------------------
(* The announcements.                                                      *)

LEMMA QueueStep ==
  ASSUME SlotsTypeOK, JobInv, QueueInv, [SlotsNext]_slotsVars
  PROVE  QueueInv'
<1> USE DEF lcpVars, elementVars
<1>1. ASSUME queue' = queue, announced' = announced,
             \A e \in Switches : up[e] => up'[e]
      PROVE  QueueInv'
  BY <1>1 DEF QueueInv, Queued
<1>2. ASSUME NEW x \in EventSet, queue' = Append(queue, x), announced' = announced,
             \A e \in Switches : x # Active(e),
             \A e \in Switches : up[e] => up'[e] \/ x = Disconnected(e)
      PROVE  QueueInv'
  <2>1. /\ \A i \in DOMAIN queue : i \in DOMAIN queue' /\ queue'[i] = queue[i]
        /\ \A i \in DOMAIN queue' : i \in DOMAIN queue \/ (i = Len(queue) + 1 /\ queue'[i] = x)
        /\ Len(queue) + 1 \in DOMAIN queue' /\ queue'[Len(queue) + 1] = x
    BY <1>2, Appended
  <2>2. \A i \in DOMAIN queue : i < Len(queue) + 1
    BY QueueTyped
  <2>3. ASSUME NEW e \in Switches, NEW i \in DOMAIN queue', queue'[i] = Active(e)
        PROVE  i \in DOMAIN queue /\ queue[i] = Active(e)
    BY <1>2, <2>1, <2>3
  <2>4. ~announced' => \A e \in Switches : ~Queued(Active(e))'
    BY <1>2, <2>3 DEF QueueInv, Queued
  <2>5. \A e \in Switches : \A i, j \in DOMAIN queue' :
          queue'[i] = Active(e) /\ queue'[j] = Active(e) => i = j
    BY <2>3 DEF QueueInv
  <2>6. ASSUME NEW e \in Switches, NEW i \in DOMAIN queue', queue'[i] = Active(e)
        PROVE  up'[e] \/ \E j \in DOMAIN queue' : i < j /\ queue'[j] = Disconnected(e)
    <3>1. i \in DOMAIN queue /\ queue[i] = Active(e)
      BY <2>3, <2>6
    <3>2. CASE up[e]
      BY <1>2, <2>1, <2>2, <3>1, <3>2
    <3>3. CASE ~up[e]
      <4>1. PICK j \in DOMAIN queue : i < j /\ queue[j] = Disconnected(e)
        BY <3>1, <3>3 DEF QueueInv
      <4> QED BY <2>1, <4>1
    <3> QED BY <3>2, <3>3
  <2> QED BY <2>4, <2>5, <2>6 DEF QueueInv, Queued
<1>3. ASSUME NEW type, Take(type), announced' = announced, up' = up
      PROVE  QueueInv'
  <2>1. /\ \A i \in DOMAIN queue' : i \in Nat \ {0} /\ i + 1 \in DOMAIN queue
                                  /\ queue'[i] = queue[i + 1]
        /\ \A i \in DOMAIN queue : i # 1 => i - 1 \in DOMAIN queue' /\ queue'[i - 1] = queue[i]
    BY <1>3, Taken DEF Take
  <2>2. ~announced' => \A e \in Switches : ~Queued(Active(e))'
    BY <1>3, <2>1 DEF QueueInv, Queued
  <2>3. ASSUME NEW e \in Switches, NEW i \in DOMAIN queue', NEW j \in DOMAIN queue',
               queue'[i] = Active(e), queue'[j] = Active(e)
        PROVE  i = j
    <3>1. i + 1 = j + 1
      BY <2>1, <2>3 DEF QueueInv
    <3> QED BY <2>1, <3>1
  <2>4. ASSUME NEW e \in Switches, NEW i \in DOMAIN queue', queue'[i] = Active(e)
        PROVE  up'[e] \/ \E j \in DOMAIN queue' : i < j /\ queue'[j] = Disconnected(e)
    <3>1. i + 1 \in DOMAIN queue /\ queue[i + 1] = Active(e) /\ i \in Nat \ {0}
      BY <2>1, <2>4
    <3>2. CASE ~up[e]
      <4>1. PICK j \in DOMAIN queue : i + 1 < j /\ queue[j] = Disconnected(e)
        BY <3>1, <3>2 DEF QueueInv
      <4>2. j \in Int
        BY QueueTyped
      <4>3. j # 1 /\ i < j - 1
        BY <3>1, <4>1, <4>2
      <4> QED BY <2>1, <4>1, <4>3
    <3> QED BY <1>3, <3>2
  <2> QED BY <2>2, <2>3, <2>4 DEF QueueInv, Queued
<1>4. CASE Announce
  <2>1. ~announced /\ announced' = TRUE /\ up' = up
    BY <1>4 DEF Announce
  <2>2. /\ \A i \in DOMAIN queue : i \in DOMAIN queue' /\ queue'[i] = queue[i]
        /\ \A i \in DOMAIN queue' \ DOMAIN queue :
             \E e \in Switches : queue'[i] = Active(e) /\ up[e]
        /\ \A i, j \in DOMAIN queue' \ DOMAIN queue : queue'[i] = queue'[j] => i = j
    BY <1>4, Announced
  <2>3. ASSUME NEW e \in Switches, NEW i \in DOMAIN queue', queue'[i] = Active(e)
        PROVE  i \in DOMAIN queue' \ DOMAIN queue
    BY <2>1, <2>2, <2>3 DEF QueueInv, Queued
  <2>4. \A e \in Switches : \A i, j \in DOMAIN queue' :
          queue'[i] = Active(e) /\ queue'[j] = Active(e) => i = j
    BY <2>2, <2>3
  <2>5. ASSUME NEW e \in Switches, NEW i \in DOMAIN queue', queue'[i] = Active(e)
        PROVE  up'[e]
    <3>1. PICK f \in Switches : queue'[i] = Active(f) /\ up[f]
      BY <2>2, <2>3, <2>5
    <3>2. f \in Switches /\ Active(f) = Active(e)
      BY <2>5, <3>1
    <3>3. f = e
      BY <3>2, EventsApart
    <3> QED BY <2>1, <3>1, <3>3
  <2> QED BY <2>1, <2>4, <2>5 DEF QueueInv
<1>5. ASSUME NEW e \in Switches, NEW entries, Drop(e, entries) PROVE QueueInv'
  <2>1. announced' = announced /\ up' = [up EXCEPT ![e] = FALSE]
    BY <1>5 DEF Drop
  <2>2. \A f \in Switches : f # e => up'[f] = up[f]
    BY <2>1 DEF SlotsTypeOK
  <2>3. CASE job.type = "start"
    <3>1. queue' = <<>>
      BY <1>5, <2>3 DEF Drop, JobInv
    <3> QED BY <3>1 DEF QueueInv, Queued
  <2>4. CASE job.type # "start"
    <3>1. Disconnected(e) \in EventSet
      BY DEF Disconnected, EventSet
    <3>2. queue' = Append(queue, Disconnected(e))
      BY <1>5, <2>4 DEF Drop
    <3>3. \A f \in Switches : Disconnected(e) # Active(f)
      BY EventsApart
    <3> QED BY <1>2, <2>1, <2>2, <3>1, <3>2, <3>3
  <2> QED BY <2>3, <2>4
<1>6. ASSUME NEW n \in 0 .. NumSlots + 1, Receive(n) PROVE QueueInv'
  <2>1. n \in 1 .. NumSlots
    BY <1>6, JobTyped DEF Receive, Accepted
  <2>2. SlotChange(n) \in EventSet
    BY <2>1 DEF SlotChange, EventSet
  <2>3. queue' = Append(queue, SlotChange(n)) /\ announced' = announced /\ up' = up
    BY <1>6 DEF Receive
  <2>4. \A f \in Switches : SlotChange(n) # Active(f)
    BY EventsApart
  <2> QED BY <1>2, <2>2, <2>3, <2>4
<1>7. ASSUME NEW e \in Switches, Connect(e) PROVE QueueInv'
  <2>1. queue' = queue /\ announced' = announced /\ up' = [up EXCEPT ![e] = TRUE]
    BY <1>7 DEF Connect
  <2>2. \A f \in Switches : up[f] => up'[f]
    BY <2>1 DEF SlotsTypeOK
  <2> QED BY <1>1, <2>1, <2>2
<1>8. CASE HandleSlotChange \/ HandleActive \/ HandleDisconnected
  <2>1. announced' = announced /\ up' = up /\ \E type : Take(type)
    BY <1>8 DEF HandleSlotChange, HandleActive, HandleDisconnected
  <2> QED BY <1>3, <2>1
<1>9. CASE Initialize \/ ChangeStep \/ ReplayStep \/ ReplayEnd \/ UNCHANGED slotsVars
  BY <1>1, <1>9 DEF Initialize, ChangeStep, ReplayStep, ReplayEnd, slotsVars
<1>10. CASE \E e \in Switches : Disconnect(e) \/ LateReset(e)
  BY <1>5, <1>10 DEF Disconnect, LateReset
<1> QED BY <1>4, <1>6, <1>7, <1>8, <1>9, <1>10 DEF SlotsNext, Demo, Elements, Sync

-----------------------------------------------------------------------------
(* The flows of one connection.                                            *)

LEMMA SentKept ==
  ASSUME NEW e, SentInv(e), sent'[e] = sent[e], up'[e] => up[e],
         Using(e)' => Using(e) /\ LastSent' = LastSent,
         Unannounced(e)' => Unannounced(e),
         Using(e)' /\ ~Pending(e)' => ~Pending(e) /\ up'[e]
  PROVE  SentInv(e)'
<1>1. Unannounced(e)' => ~Using(e)' /\ sent'[e] = <<>>
  BY DEF SentInv
<1>2. PICK first \in Int, last \in Int :
        first <= last + 1 /\ IsFlows(sent[e], first, last)
        /\ (Using(e) /\ up[e] => last = LastSent)
  BY DEF SentInv
<1>3. IsFlows(sent[e], first, last) => IsFlows(sent'[e], first, last)
  OBVIOUS
<1>4. Using(e)' /\ up'[e] => last = LastSent'
  BY <1>2
<1>5. Using(e)' /\ ~Pending(e)' => up'[e] /\ IsFlows(sent'[e], 1, LastSent')
  BY DEF SentInv
<1> QED BY <1>1, <1>2, <1>3, <1>4, <1>5 DEF SentInv

(* The element in use is sent the flow of the next slot. *)
LEMMA SentExtended ==
  ASSUME SlotsTypeOK, NEW e \in Switches, SentInv(e), Using(e), Using(e)',
         SendFlow(e, LastSent + 1), LastSent' = LastSent + 1,
         UNCHANGED <<up, stale, queue, announced>>
  PROVE  SentInv(e)'
<1>1. /\ LastSent \in Nat /\ sent \in [Switches -> Seq(FlowSlots)] /\ e # NoSwitch
      /\ sent[e] \in Seq(FlowSlots)
  BY JobTyped, SlotAssumption DEF SlotsTypeOK
<1>2. Pending(e)' <=> Pending(e)
  BY DEF Pending, Queued
<1>3. ~Unannounced(e) /\ ~Unannounced(e)'
  BY DEF SentInv, Unannounced, Queued
<1>4. PICK first \in Int, last \in Int :
        first <= last + 1 /\ IsFlows(sent[e], first, last)
        /\ (Using(e) /\ up[e] => last = LastSent)
  BY DEF SentInv
<1>5. CASE up[e]
  <2> DEFINE s == sent[e]
             n == LastSent
             t == IF n + 1 \in FlowSlots THEN Append(s, n + 1) ELSE s
  <2>1. sent'[e] = t
    BY <1>1, <1>5 DEF SendFlow
  <2>2. s \in Seq(FlowSlots) /\ n \in Nat /\ LastSent' = n + 1
    BY <1>1
  <2>3. last = n /\ IsFlows(s, first, last)
    BY <1>4, <1>5
  <2>4. ~Pending(e) => IsFlows(s, 1, n)
    BY DEF SentInv
  <2> HIDE DEF s, n
  <2>5. IsFlows(t, first, n + 1)
    BY <1>4, <2>2, <2>3, FlowsExtended
  <2>6. ~Pending(e) => IsFlows(t, 1, n + 1)
    BY <2>2, <2>4, FlowsExtended
  <2> HIDE DEF t
  <2>7. first <= (n + 1) + 1 /\ n + 1 \in Int
    BY <1>4, <2>2, <2>3
  <2>8. up'[e]
    BY <1>5
  <2>9. \E f, l \in Int : f <= l + 1 /\ IsFlows(sent'[e], f, l)
                          /\ (Using(e)' /\ up'[e] => l = LastSent')
    BY <2>1, <2>2, <2>5, <2>7
  <2>10. Using(e)' /\ ~Pending(e)' => up'[e] /\ IsFlows(sent'[e], 1, LastSent')
    BY <1>2, <2>1, <2>2, <2>6, <2>8
  <2> QED BY <1>3, <2>9, <2>10 DEF SentInv
<1>6. CASE ~up[e]
  <2>1. sent'[e] = sent[e] /\ ~up'[e]
    BY <1>6 DEF SendFlow
  <2>2. Pending(e)
    BY <1>6 DEF SentInv
  <2>3. \E f, l \in Int : f <= l + 1 /\ IsFlows(sent'[e], f, l)
                          /\ (Using(e)' /\ up'[e] => l = LastSent')
    BY <1>4, <2>1
  <2> QED BY <1>2, <1>3, <2>1, <2>2, <2>3 DEF SentInv
<1> QED BY <1>5, <1>6

LEMMA QueuedAfterTake ==
  ASSUME SlotsTypeOK, NEW type, Take(type), NEW x
  PROVE  /\ Queued(x)' => Queued(x)
         /\ Queued(x) => Queued(x)' \/ x = Head(queue)
         /\ Head(queue) \in EventSet /\ Head(queue).type = type
         /\ job.type = "wait" /\ Queued(Head(queue))
<1>1. /\ Head(queue) \in EventSet /\ 1 \in DOMAIN queue /\ queue[1] = Head(queue)
      /\ \A i \in DOMAIN queue' : i + 1 \in DOMAIN queue /\ queue'[i] = queue[i + 1]
      /\ \A i \in DOMAIN queue : i # 1 => i - 1 \in DOMAIN queue' /\ queue'[i - 1] = queue[i]
  BY Taken DEF Take
<1>2. Head(queue).type = type /\ job.type = "wait"
  BY JobsApart DEF Take
<1> QED BY <1>1, <1>2 DEF Queued

LEMMA QueuedAfterAppend ==
  ASSUME SlotsTypeOK, NEW x \in EventSet, queue' = Append(queue, x), NEW y
  PROVE  Queued(y)' <=> Queued(y) \/ y = x
<1>1. /\ \A i \in DOMAIN queue : i \in DOMAIN queue' /\ queue'[i] = queue[i]
      /\ \A i \in DOMAIN queue' : i \in DOMAIN queue \/ (i = Len(queue) + 1 /\ queue'[i] = x)
      /\ Len(queue) + 1 \in DOMAIN queue' /\ queue'[Len(queue) + 1] = x
  BY Appended
<1> QED BY <1>1 DEF Queued

LEMMA SentStep ==
  ASSUME SlotsTypeOK, JobInv, QueueInv, [SlotsNext]_slotsVars,
         NEW e \in Switches, SentInv(e)
  PROVE  SentInv(e)'
<1> USE DEF lcpVars, elementVars
<1>j. /\ job.type = "replay" => job.element \in Switches /\ job.next \in 1 .. NumSlots + 1
      /\ slot \in Nat /\ NoSwitch \notin Switches /\ LastSent \in Nat
  BY JobTyped
<1>t. sent \in [Switches -> Seq(FlowSlots)] /\ up \in [Switches -> BOOLEAN]
      /\ stale \in [Switches -> Nat]
  BY DEF SlotsTypeOK
(* The job is not a replay, before and after. *)
<1>n. ASSUME job.type # "replay", job'.type # "replay", UNCHANGED <<slot, se>>
      PROVE  (Using(e)' <=> Using(e)) /\ LastSent' = LastSent
  BY <1>n DEF Using, LastSent
<1>1. ASSUME UNCHANGED <<queue, announced, sent, up, stale>>,
             Using(e)' => Using(e) /\ LastSent' = LastSent
      PROVE  SentInv(e)'
  <2>1. Unannounced(e)' => Unannounced(e)
    BY <1>1 DEF Unannounced, Queued
  <2>2. Pending(e)' <=> Pending(e)
    BY <1>1 DEF Pending, Queued
  <2>3. Using(e)' /\ ~Pending(e)' => up'[e]
    BY <1>1, <2>2 DEF SentInv
  <2> QED BY <1>1, <2>1, <2>2, <2>3, SentKept
<1>2. CASE Initialize
  <2>1. job.type = "start" /\ 1 \in 1 .. NumSlots
    BY <1>2, JobsApart, JobTyped DEF Initialize
  <2>2. job' = Abort \/ job' = Wait \/ job' = Change(1)
    BY <1>2, <2>1, ChangeSlotResult DEF Initialize
  <2>3. job'.type # "replay"
    BY <2>2, JobsApart
  <2>4. (Using(e)' <=> Using(e)) /\ LastSent' = LastSent
    BY <1>2, <1>n, <2>1, <2>3 DEF Initialize
  <2> QED BY <1>1, <1>2, <2>4 DEF Initialize
<1>3. CASE ChangeStep
  <2>1. /\ job.type = "change" /\ slot' = slot + 1 /\ se' = se /\ SendFlow(se, slot + 1)
        /\ UNCHANGED <<queue, announced, up, stale>> /\ (job' = Wait \/ job' = job)
    BY <1>3 DEF ChangeStep, NextSlot
  <2>2. job'.type # "replay"
    BY <2>1, JobsApart
  <2>3. LastSent = slot /\ LastSent' = slot + 1 /\ (Using(e) <=> se = e) /\ (Using(e)' <=> se = e)
    BY <2>1, <2>2 DEF LastSent, Using
  <2>4. CASE se = e
    BY <2>1, <2>3, <2>4, SentExtended
  <2>5. CASE se # e
    <3>1. sent'[e] = sent[e]
      BY <1>t, <2>1, <2>5 DEF SendFlow
    <3>2. (Unannounced(e)' => Unannounced(e)) /\ (Pending(e)' <=> Pending(e))
      BY <2>1 DEF Unannounced, Pending, Queued
    <3> QED BY <2>1, <2>3, <2>5, <3>1, <3>2, SentKept
  <2> QED BY <2>4, <2>5
<1>4. CASE ReplayStep
  <2>1. /\ job.type = "replay" /\ slot' = slot /\ se' = se /\ SendFlow(job.element, job.next)
        /\ job' = Replay(job.element, job.next + 1) /\ UNCHANGED <<queue, announced, up, stale>>
        /\ job.next \in Nat
    BY <1>4, <1>j DEF ReplayStep
  <2>2. job'.type = "replay" /\ job'.element = job.element /\ job'.next = job.next + 1
    BY <2>1, JobsApart
  <2>3. /\ LastSent = job.next - 1 /\ LastSent + 1 = job.next /\ LastSent' = LastSent + 1
    BY <2>1, <2>2 DEF LastSent
  <2>4. se = NoSwitch
    BY <2>1 DEF JobInv
  <2>5. (Using(e) <=> job.element = e) /\ (Using(e)' <=> job.element = e)
    BY <1>j, <2>1, <2>2, <2>4 DEF Using
  <2>6. CASE job.element = e
    BY <2>1, <2>3, <2>5, <2>6, SentExtended
  <2>7. CASE job.element # e
    <3>1. sent'[e] = sent[e]
      BY <1>t, <2>1, <2>7 DEF SendFlow
    <3>2. (Unannounced(e)' => Unannounced(e)) /\ (Pending(e)' <=> Pending(e))
      BY <2>1 DEF Unannounced, Pending, Queued
    <3> QED BY <2>1, <2>5, <2>7, <3>1, <3>2, SentKept
  <2> QED BY <2>6, <2>7
<1>5. CASE ReplayEnd
  <2>1. /\ job.type = "replay" /\ slot < job.next /\ slot' = slot /\ se' = job.element
        /\ job' = Wait /\ UNCHANGED <<queue, announced, sent, up, stale>> /\ job.next \in Nat
        /\ job.next <= slot + 1
    BY <1>5, <1>j DEF ReplayEnd, JobInv
  <2>2. LastSent' = slot /\ LastSent = slot
    BY <1>j, <2>1, JobsApart DEF LastSent
  <2>3. Using(e)' => Using(e)
    BY <2>1, JobsApart DEF Using
  <2> QED BY <1>1, <2>1, <2>2, <2>3
<1>6. CASE HandleSlotChange
  <2>1. /\ Take("SlotChange") /\ UNCHANGED <<slot, se, sent, up, stale, announced>>
        /\ ChangeSlot(Head(queue).num)
    BY <1>6 DEF HandleSlotChange
  <2>2. /\ Queued(Active(e))' => Queued(Active(e))
        /\ Queued(Disconnected(e)) => Queued(Disconnected(e))' \/ Disconnected(e) = Head(queue)
        /\ Head(queue) \in EventSet /\ Head(queue).type = "SlotChange" /\ job.type = "wait"
    BY <2>1, QueuedAfterTake
  <2>3. Disconnected(e) # Head(queue)
    BY <2>2, EventsApart
  <2>4. Head(queue).num \in 1 .. NumSlots
    BY <2>2 DEF EventSet
  <2>5. job'.type # "replay"
    BY <2>1, <2>4, ChangeSlotResult, JobsApart
  <2>6. (Using(e)' <=> Using(e)) /\ LastSent' = LastSent
    BY <1>n, <2>1, <2>2, <2>5
  <2>7. Unannounced(e)' => Unannounced(e)
    BY <2>1, <2>2 DEF Unannounced
  <2>8. Using(e)' /\ ~Pending(e)' => ~Pending(e) /\ up'[e]
    BY <2>1, <2>2, <2>3, <2>6 DEF SentInv, Pending
  <2> QED BY <2>1, <2>6, <2>7, <2>8, SentKept
<1>7. CASE HandleDisconnected
  <2>1. /\ Take("ServiceElementDisconnected") /\ UNCHANGED <<slot, job, sent, up, stale, announced>>
        /\ se' = IF se = Head(queue).element THEN NoSwitch ELSE se
    BY <1>7 DEF HandleDisconnected
  <2>2. /\ Queued(Active(e))' => Queued(Active(e))
        /\ Queued(Disconnected(e)) => Queued(Disconnected(e))' \/ Disconnected(e) = Head(queue)
        /\ job.type = "wait"
    BY <2>1, QueuedAfterTake
  <2>3. Disconnected(e) = Head(queue) => ~Using(e)'
    <3>1. ASSUME Disconnected(e) = Head(queue) PROVE se' # e
      <4>1. Head(queue).element = e
        BY <3>1, EventsApart
      <4> QED BY <1>j, <2>1, <4>1
    <3> QED BY <2>1, <2>2, <3>1 DEF Using
  <2>4. (Using(e)' => Using(e)) /\ LastSent' = LastSent
    BY <1>j, <2>1, <2>2 DEF Using, LastSent
  <2>5. Unannounced(e)' => Unannounced(e)
    BY <2>1, <2>2 DEF Unannounced
  <2>6. Using(e)' /\ ~Pending(e)' => ~Pending(e) /\ up'[e]
    BY <2>1, <2>2, <2>3, <2>4 DEF SentInv, Pending
  <2> QED BY <2>1, <2>4, <2>5, <2>6, SentKept
<1>8. CASE HandleActive
  <2> DEFINE f == Head(queue).element
  <2>1. /\ Take("ServiceElementActive") /\ UNCHANGED <<slot, se, sent, up, stale, announced>>
        /\ job' = IF se = NoSwitch THEN Replay(f, 1) ELSE Wait
    BY <1>8 DEF HandleActive, ReplayFirst
  <2>2. /\ Queued(Active(e))' => Queued(Active(e))
        /\ Queued(Disconnected(e)) => Queued(Disconnected(e))' \/ Disconnected(e) = Head(queue)
        /\ Head(queue) \in EventSet /\ Head(queue).type = "ServiceElementActive"
        /\ job.type = "wait"
    BY <2>1, QueuedAfterTake
  <2>3. Disconnected(e) # Head(queue)
    BY <2>2, EventsApart
  <2>4. Head(queue) = Active(f) /\ f \in Switches
    BY <2>2 DEF EventSet, Active
  <2>5. Unannounced(e)' => Unannounced(e)
    BY <2>1, <2>2 DEF Unannounced
  <2>6. CASE se = NoSwitch /\ f = e
    <3>1. job' = Replay(e, 1) /\ Head(queue) = Active(e) /\ se' = NoSwitch
      BY <2>1, <2>4, <2>6
    <3>2. job'.type = "replay" /\ job'.next = 1 /\ job'.element = e
      BY <3>1, JobsApart
    <3>3. LastSent' = 0 /\ Using(e)'
      BY <3>2 DEF LastSent, Using
    <3>4. queue # <<>> /\ queue' = Tail(queue)
      BY <2>1 DEF Take
    <3>5. /\ 1 \in DOMAIN queue /\ queue[1] = Active(e)
          /\ \A i \in DOMAIN queue' : i \in Nat \ {0} /\ i + 1 \in DOMAIN queue
                                    /\ queue'[i] = queue[i + 1]
          /\ \A i \in DOMAIN queue : i # 1 => i - 1 \in DOMAIN queue'
                                             /\ queue'[i - 1] = queue[i]
      BY <3>1, <3>4, Taken
    <3>6. Queued(Active(e))
      BY <3>5 DEF Queued
    <3>7. sent[e] = <<>>
      BY <3>6 DEF SentInv, Unannounced
    <3>8. announced
      BY <3>6 DEF QueueInv
    <3>9. ~Queued(Active(e))'
      <4> SUFFICES ASSUME NEW i \in DOMAIN queue', queue'[i] = Active(e) PROVE FALSE
        BY DEF Queued
      <4>1. i + 1 = 1
        BY <3>5 DEF QueueInv
      <4> QED BY <3>5, <4>1
    <3>10. ~Pending(e)' => up'[e]
      <4>1. CASE ~up[e]
        <5>1. PICK j \in DOMAIN queue : 1 < j /\ queue[j] = Disconnected(e)
          BY <3>5, <4>1 DEF QueueInv
        <5>2. j # 1
          BY <5>1, QueueTyped
        <5> QED BY <3>5, <5>1, <5>2 DEF Pending, Queued
      <4> QED BY <2>1, <4>1
    <3>11. IsFlows(sent'[e], 1, 0) /\ 1 <= 0 + 1
      <4>1. IsFlows(<<>>, 0 + 1, 0) /\ 0 + 1 = 1
        BY NoFlows
      <4> QED BY <2>1, <3>7, <4>1
    <3>12. ~Unannounced(e)'
      BY <2>1, <3>8, <3>9 DEF Unannounced
    <3> QED BY <3>3, <3>10, <3>11, <3>12 DEF SentInv
  <2>7. CASE ~(se = NoSwitch /\ f = e)
    <3>1. (job' = Replay(f, 1) /\ f # e /\ se = NoSwitch) \/ job' = Wait
      BY <2>1, <2>7
    <3>2. Using(e)' => Using(e) /\ LastSent' = LastSent
      <4>1. CASE job' = Wait
        BY <1>n, <2>1, <2>2, <4>1, JobsApart
      <4>2. CASE job' = Replay(f, 1) /\ f # e /\ se = NoSwitch
        <5>1. job'.element = f /\ se' = NoSwitch
          BY <2>1, <4>2, JobsApart
        <5> QED BY <1>j, <4>2, <5>1 DEF Using
      <4> QED BY <3>1, <4>1, <4>2
    <3>3. Using(e)' /\ ~Pending(e)' => ~Pending(e) /\ up'[e]
      BY <2>1, <2>2, <2>3, <3>2 DEF SentInv, Pending
    <3> QED BY <2>1, <2>5, <3>2, <3>3, SentKept
  <2> QED BY <2>6, <2>7
<1>9. CASE Announce
  <2>1. /\ UNCHANGED <<slot, job, se, sent, up, stale>> /\ ~announced
    BY <1>9 DEF Announce
  <2>2. Unannounced(e)
    BY <2>1 DEF Unannounced
  <2>3. ~Using(e)' /\ sent'[e] = sent[e]
    BY <2>1, <2>2 DEF SentInv, Using
  <2> QED BY <2>1, <2>2, <2>3, SentKept
<1>10. ASSUME NEW n \in 0 .. NumSlots + 1, Receive(n) PROVE SentInv(e)'
  <2>1. n \in 1 .. NumSlots
    BY <1>10, JobTyped DEF Receive, Accepted
  <2>2. SlotChange(n) \in EventSet
    BY <2>1 DEF SlotChange, EventSet
  <2>3. queue' = Append(queue, SlotChange(n)) /\ UNCHANGED <<slot, job, se, sent, up, stale, announced>>
    BY <1>10 DEF Receive
  <2>4. /\ Queued(Active(e))' <=> Queued(Active(e))
        /\ Queued(Disconnected(e))' <=> Queued(Disconnected(e))
    BY <2>2, <2>3, QueuedAfterAppend, EventsApart
  <2>5. (Using(e)' <=> Using(e)) /\ LastSent' = LastSent
    BY <2>3 DEF Using, LastSent
  <2>6. Unannounced(e)' => Unannounced(e)
    BY <2>3, <2>4 DEF Unannounced
  <2>7. Using(e)' /\ ~Pending(e)' => ~Pending(e) /\ up'[e]
    BY <2>3, <2>4, <2>5 DEF SentInv, Pending
  <2> QED BY <2>3, <2>5, <2>6, <2>7, SentKept
<1>11. ASSUME NEW f \in Switches, NEW entries, Drop(f, entries) PROVE SentInv(e)'
  <2>1. /\ UNCHANGED <<slot, job, se, sent, announced>> /\ up' = [up EXCEPT ![f] = FALSE]
        /\ up'[e] => up[e] /\ e # f
        /\ e # f => up'[e] = up[e] /\ stale'[e] = stale[e]
    BY <1>11, <1>t DEF Drop
  <2>2. (Using(e)' <=> Using(e)) /\ LastSent' = LastSent
    BY <2>1 DEF Using, LastSent
  <2>3. CASE job.type = "start"
    <3>1. queue' = queue /\ ~Using(e)
      BY <1>11, <1>j, <2>3 DEF Drop, JobInv, Using
    <3>2. Unannounced(e)' => Unannounced(e)
      BY <2>1, <3>1 DEF Unannounced, Queued
    <3> QED BY <2>1, <2>2, <3>1, <3>2, SentKept
  <2>4. CASE job.type # "start"
    <3>1. queue' = Append(queue, Disconnected(f)) /\ Disconnected(f) \in EventSet
      BY <1>11, <2>4 DEF Drop, Disconnected, EventSet
    <3>2. /\ Queued(Active(e))' <=> Queued(Active(e))
          /\ Queued(Disconnected(e))' <=> Queued(Disconnected(e)) \/ e = f
      BY <3>1, QueuedAfterAppend, EventsApart
    <3>3. Unannounced(e)' => Unannounced(e)
      BY <2>1, <3>2 DEF Unannounced
    <3>4. Using(e)' /\ ~Pending(e)' => ~Pending(e) /\ up'[e]
      BY <2>1, <2>2, <3>2 DEF SentInv, Pending
    <3> QED BY <2>1, <2>2, <3>3, <3>4, SentKept
  <2> QED BY <2>3, <2>4
<1>12. ASSUME NEW f \in Switches, Connect(f) PROVE SentInv(e)'
  <2>1. /\ UNCHANGED <<slot, job, se, queue, announced>>
        /\ stale' = [stale EXCEPT ![f] = @ + Live(f)]
        /\ up' = [up EXCEPT ![f] = TRUE] /\ sent' = [sent EXCEPT ![f] = <<>>]
    BY <1>12 DEF Connect
  <2>2. (Using(e)' <=> Using(e)) /\ LastSent' = LastSent
        /\ (Unannounced(e)' <=> Unannounced(e))
        /\ (Queued(Disconnected(e))' <=> Queued(Disconnected(e)))
    BY <2>1 DEF Using, LastSent, Unannounced, Queued
  <2>3. CASE e = f
    <3>1. sent'[e] = <<>> /\ up'[e]
      BY <1>t, <2>1, <2>3
    <3>2. Using(e) => Pending(e)'
      <4>1. CASE up[e]
        <5>1. stale'[e] = stale[e] + 1 /\ stale[e] \in Nat
          BY <1>t, <2>1, <2>3, <4>1 DEF Live
        <5>2. stale'[e] # 0
          BY <5>1
        <5> QED BY <5>2 DEF Pending
      <4>2. CASE ~up[e]
        <5>1. stale'[e] = stale[e] + 0 /\ stale[e] \in Nat
          BY <1>t, <2>1, <2>3, <4>2 DEF Live
        <5>2. stale'[e] = stale[e]
          BY <5>1
        <5> QED BY <2>2, <4>2, <5>2 DEF SentInv, Pending
      <4> QED BY <4>1, <4>2
    <3>3. IsFlows(<<>>, LastSent + 1, LastSent) /\ LastSent + 1 \in Int /\ LastSent \in Int
          /\ LastSent + 1 <= LastSent + 1
      BY <1>j, NoFlows
    <3>4. \E first, last \in Int : first <= last + 1 /\ IsFlows(sent'[e], first, last)
                                   /\ (Using(e)' /\ up'[e] => last = LastSent')
      BY <2>2, <3>1, <3>3
    <3>5. Unannounced(e)' => ~Using(e)' /\ sent'[e] = <<>>
      BY <2>2, <3>1 DEF SentInv
    <3> QED BY <2>2, <3>2, <3>4, <3>5 DEF SentInv
  <2>4. CASE e # f
    <3>1. sent'[e] = sent[e] /\ up'[e] = up[e] /\ stale'[e] = stale[e]
      BY <1>t, <2>1, <2>4
    <3>2. Using(e)' /\ ~Pending(e)' => ~Pending(e) /\ up'[e]
      BY <2>2, <3>1 DEF SentInv, Pending
    <3> QED BY <2>2, <3>1, <3>2, SentKept
  <2> QED BY <2>3, <2>4
<1>13. CASE UNCHANGED slotsVars
  <2>1. UNCHANGED <<queue, announced, sent, up, stale, slot, se, job>>
    BY <1>13 DEF slotsVars
  <2> QED BY <1>1, <2>1 DEF Using, LastSent
<1>14. CASE \E f \in Switches : Disconnect(f) \/ LateReset(f)
  BY <1>11, <1>14 DEF Disconnect, LateReset
<1> QED BY <1>2, <1>3, <1>4, <1>5, <1>6, <1>7, <1>8, <1>9, <1>10, <1>12, <1>13, <1>14
        DEF SlotsNext, Demo, Elements, Sync

-----------------------------------------------------------------------------
(* The theorems.                                                           *)

LEMMA SlotsInvInit ==
  ASSUME SlotsInit
  PROVE  SlotsInv
<1>1. SlotsTypeOK
  <2>1. /\ 1 \in 1 .. NumSlots /\ 0 \in 0 .. NumSlots /\ 1 \in 1 .. MaxSessions
    BY SlotAssumption
  <2>2. <<>> \in Seq(EventSet) /\ <<>> \in Seq(FlowSlots) /\ Start \in Jobs
    BY DEF Jobs
  <2> QED BY <2>1, <2>2 DEF SlotsInit, SlotsTypeOK
<1>2. JobInv /\ QueueInv
  BY JobsApart DEF SlotsInit, JobInv, QueueInv, Queued
<1>3. ASSUME NEW e \in Switches PROVE SentInv(e)
  <2>1. sent[e] = <<>> /\ se = NoSwitch /\ job.type = "start" /\ slot = 0
    BY JobsApart DEF SlotsInit
  <2>2. ~Using(e)
    BY <2>1, SlotAssumption DEF Using
  <2>3. IsFlows(<<>>, 0 + 1, 0)
    BY NoFlows
  <2>4. \E first, last \in Int :
          /\ first <= last + 1 /\ IsFlows(sent[e], first, last)
          /\ (Using(e) /\ up[e] => last = LastSent)
    <3>1. 0 + 1 \in Int /\ 0 \in Int /\ 0 + 1 <= 0 + 1
      OBVIOUS
    <3>2. IsFlows(sent[e], 0 + 1, 0)
      BY <2>1, <2>3
    <3> QED BY <2>2, <3>1, <3>2
  <2> QED BY <2>1, <2>2, <2>4 DEF SentInv
<1> QED BY <1>1, <1>2, <1>3 DEF SlotsInv

LEMMA SlotsInvAlways == SlotsSpec => []SlotsInv
<1>1. SlotsInit => SlotsInv
  BY SlotsInvInit
<1>2. SlotsInv /\ [SlotsNext]_slotsVars => SlotsInv'
  BY SlotsTypeStep, JobStep, QueueStep, SentStep DEF SlotsInv
<1> QED BY <1>1, <1>2, PTL DEF SlotsSpec

(* Every variable of the demo policy keeps its type: no slot beyond the    *)
(* last is reached and only slots with a flow are sent one.                *)
THEOREM SlotsTypeCorrect == SlotsSpec => []SlotsTypeOK
<1>1. SlotsInv => SlotsTypeOK
  BY DEF SlotsInv
<1> QED BY <1>1, SlotsInvAlways, PTL

(* However datagrams are lost, repeated or late, and whenever connections  *)
(* are lost and come back, an element has been sent the flows of           *)
(* consecutive slots in order, and the one in use those of all the slots   *)
(* so far, unless the loss of its connection, or of one that this has      *)
(* replaced, is still to be served or handled.                             *)
THEOREM SwitchHasItsFlows == SlotsSpec => []FlowsInOrder
<1>1. ASSUME SlotsInv PROVE FlowsInOrder
  <2>1. ASSUME NEW e \in Switches, sent[e] # <<>>
        PROVE  IsFlows(sent[e], Head(sent[e]), sent[e][Len(sent[e])])
    <3>1. sent[e] \in Seq(FlowSlots)
      BY <1>1 DEF SlotsInv, SlotsTypeOK
    <3>2. PICK first \in Int, last \in Int : IsFlows(sent[e], first, last)
      BY <1>1 DEF SlotsInv, SentInv
    <3> QED BY <2>1, <3>1, <3>2, FlowsBetween
  <2>2. ASSUME NEW e \in Switches, job = Wait, se = e, ~LossPending(e)
        PROVE  up[e] /\ IsFlows(sent[e], 1, slot)
    <3>1. ~Pending(e)
      <4>1. DOMAIN queue = 1 .. Len(queue)
        BY <1>1, QueueTyped DEF SlotsInv
      <4>2. ~Queued(Disconnected(e))
        BY <2>2, <4>1 DEF LossPending, Contains, Queued
      <4>3. stale[e] \in Nat
        BY <1>1 DEF SlotsInv, SlotsTypeOK
      <4>4. stale[e] = 0
        BY <2>2, <4>3 DEF LossPending
      <4> QED BY <4>2, <4>4 DEF Pending
    <3>2. Using(e) /\ LastSent = slot
      BY <2>2, JobsApart DEF Using, LastSent
    <3> QED BY <1>1, <3>1, <3>2 DEF SlotsInv, SentInv
  <2> QED BY <2>1, <2>2 DEF FlowsInOrder, FlowsConsecutive, FlowsComplete
<1> QED BY <1>1, SlotsInvAlways, PTL

-----------------------------------------------------------------------------
(* Both beside each other, as the run checks them.                         *)

(* A behaviour of the two parts is one of each. *)
LEMMA PartsBehave == PartsSpec => Spec /\ SlotsSpec
<1>1. PartsInit => Init /\ SlotsInit
  BY DEF PartsInit
<1>2. [PartsNext]_<<part, vars, slotsVars>> => [Next]_vars /\ [SlotsNext]_slotsVars
  BY DEF PartsNext
<1> QED BY <1>1, <1>2, PTL DEF PartsSpec, Spec, SlotsSpec

(* The forwarding element and the demo policy keep their types beside each *)
(* other.                                                                  *)
THEOREM ForwardingPartsTyped == PartsSpec => []PartsTypeOK
BY PartsBehave, TypeCorrect, SlotsTypeCorrect, PTL DEF PartsTypeOK

=============================================================================
