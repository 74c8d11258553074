---------------------------- MODULE LookupTable ----------------------------
(***************************************************************************)
(* The lookup table of a service element: the Forward activity handles     *)
(* AddUserspaceRoute and DelRoute, the only writer; the forwarding threads *)
(* look addresses up without a lock.  There are two tables.  An update     *)
(* writes the one that nobody reads, swaps them, sleeps, and writes the    *)
(* other one.  An address of Width bits stands for one of 32.              *)
(***************************************************************************)
EXTENDS Integers, FiniteSets

CONSTANTS
  Width,    \* bits of an address, the prefix length of a host route
  KernelRoutes, \* what the control element's kernel reports of a route:
                \* [dest, prefix, gateway]
  NoGateway,  \* the gateway of a route that has none
  Macs,     \* the next hops
  None,     \* no entry: the default node
  Readers,  \* forwarding threads
  Packets   \* destinations of the packets they forward

Address == 0 .. 2 ^ Width - 1

(* The kernel clears the host bits of a destination.                       *)
ASSUME RouteAssumption ==
  /\ Width \in Nat
  /\ \A k \in KernelRoutes :
       /\ k.dest \in Address /\ k.prefix \in 0 .. Width
       /\ k.dest % 2 ^ (Width - k.prefix) = 0
ASSUME PacketAssumption == Packets \subseteq Address
ASSUME NoneAssumption == None \notin Macs

(* UserspaceForwarding of the control element sends the service element    *)
(* every route that has a gateway, with the hardware address of that, as   *)
(* ARP has it at the time.                                                 *)
OnLinkRoute(k) == [dest |-> k.dest, prefix |-> k.prefix]
Routes == {OnLinkRoute(k) : k \in {k \in KernelRoutes : k.gateway # NoGateway}}

VARIABLES
  routes,  \* route_table_: the next hop of each route, None if it is not there
  tables,  \* table_1_ and table_2_
  read,    \* read_: the table the readers use
  write,   \* write_: the table the writer writes
  writer,  \* program counter of the writer
  change,  \* the entries func() sets, or erases, in the update under way
  reader   \* reader[r]: the node it refers to, as [table, address], or Idle

vars == <<routes, tables, read, write, writer, change, reader>>

Idle == [table |-> 0, address |-> 0]

Init ==
  /\ routes = [r \in Routes |-> None]
  /\ tables = [t \in {1, 2} |-> [a \in Address |-> None]]
  /\ read = 1 /\ write = 2
  /\ writer = "idle"
  /\ change = [a \in {} |-> None]
  /\ reader = [r \in Readers |-> Idle]

-----------------------------------------------------------------------------
(* The route table.                                                        *)

Covers(r, a) == r.dest \div 2 ^ (Width - r.prefix) = a \div 2 ^ (Width - r.prefix)

Net(r) == {a \in Address : Covers(r, a)}

Covering(rt, a) == {r \in Routes : rt[r] # None /\ Covers(r, a)}

(* The longest prefix that covers a, 0 if none does.                       *)
RoutePrefix(rt, a) ==
  IF Covering(rt, a) = {} THEN 0
  ELSE CHOOSE p \in {r.prefix : r \in Covering(rt, a)} :
         \A r \in Covering(rt, a) : r.prefix <= p

Match(rt, a, p) == rt[CHOOSE r \in Covering(rt, a) : r.prefix = p]

-----------------------------------------------------------------------------
(* The entries of an update, from the route table as it is by then.        *)

AddEntries(rt, r, mac) ==
  IF r.prefix = Width
  THEN [a \in {r.dest} |-> mac]
  ELSE [a \in {b \in Net(r) : r.prefix > RoutePrefix(rt, b)} |-> mac]

FallBack(rt, a) ==
  IF RoutePrefix(rt, a) = 0 THEN None ELSE Match(rt, a, RoutePrefix(rt, a))

(* The entry of a deleted host route is left to the route that covers it.  *)
DelAddressVariant(rt, r) ==
  [a \in {b \in {r.dest} : RoutePrefix(rt, b) \in 1 .. r.prefix - 1} |-> FallBack(rt, a)]

DelAddress(rt, r) ==
  [a \in {b \in {r.dest} : RoutePrefix(rt, b) < r.prefix} |-> FallBack(rt, a)]

(* A deleted network takes every address in it along. *)
DelNetVariant(rt, r) == [a \in Net(r) |-> None]

DelNet(rt, r) ==
  [a \in {b \in Net(r) : RoutePrefix(rt, b) < r.prefix} |-> FallBack(rt, a)]

DelEntries(rt, r) == IF r.prefix = Width THEN DelAddress(rt, r) ELSE DelNet(rt, r)

-----------------------------------------------------------------------------
(* The handlers, up to the call of update().                               *)

Update(rt, entries) ==
  /\ routes' = rt
  /\ change' = entries
  /\ writer' = "first"

(* AddUserspaceRoute                                                       *)
AddRoute(r, mac) ==
  /\ writer = "idle"
  /\ r.prefix > 1
  /\ routes[r] # mac
  /\ LET rt == [routes EXCEPT ![r] = mac] IN Update(rt, AddEntries(rt, r, mac))
  /\ UNCHANGED <<tables, read, write, reader>>

(* The assertion of add() ends the program.                                *)
AddAborts(r) ==
  /\ writer = "idle"
  /\ r.prefix <= 1
  /\ writer' = "aborted"
  /\ UNCHANGED <<routes, tables, read, write, change, reader>>

(* DelRoute: nothing to do unless some route has the same destination.     *)
SameDestination(r) == \E s \in Routes : s.dest = r.dest /\ routes[s] # None

DelRoute(r) ==
  /\ writer = "idle" /\ r.prefix > 1
  /\ SameDestination(r)
  /\ LET rt == [routes EXCEPT ![r] = None] IN Update(rt, DelEntries(rt, r))
  /\ UNCHANGED <<tables, read, write, reader>>

(* del() has no assertion on the prefix.  The 2^31 or 2^32 addresses of a   *)
(* prefix of 1 or 0 do not fit in the int n, and the vector cannot reserve  *)
(* that many: the exception leaves the handler, and Forward waits for ever  *)
(* to join its threads, which go on forwarding.  (add() has let no such     *)
(* route into the route table.)                                             *)
DelFails(r) ==
  /\ writer = "idle" /\ r.prefix <= 1
  /\ SameDestination(r)
  /\ writer' = "stuck"
  /\ UNCHANGED <<routes, tables, read, write, change, reader>>

-----------------------------------------------------------------------------
(* update(): func(); swap(); sleep 500 ms; func().                         *)

Written(t) == [a \in Address |-> IF a \in DOMAIN change THEN change[a] ELSE t[a]]

(* The table is written in place. *)
TargetVariant == read

Target == write

FirstWrite ==
  /\ writer = "first"
  /\ tables' = [tables EXCEPT ![Target] = Written(tables[Target])]
  /\ writer' = "swap"
  /\ UNCHANGED <<routes, read, write, change, reader>>

(* The old table is never recorded as the one to write. *)
ExchangeVariant == read' = write /\ UNCHANGED write

Exchange == read' = write /\ write' = read

Swap ==
  /\ writer = "swap"
  /\ Exchange
  /\ writer' = "sleep"
  /\ UNCHANGED <<routes, tables, change, reader>>

(* No sleep at all. *)
SleptVariant == TRUE

(* The assumption on timing that the code makes: a lookup, with the use of *)
(* the node it returns, takes less than the 500 ms.                        *)
Slept == \A r \in Readers : reader[r].table # write

Sleep ==
  /\ writer = "sleep"
  /\ Slept
  /\ writer' = "second"
  /\ UNCHANGED <<routes, tables, read, write, change, reader>>

(* The first table is all that is written. *)
SecondWrittenVariant == tables

SecondWritten == [tables EXCEPT ![write] = Written(tables[write])]

SecondWrite ==
  /\ writer = "second"
  /\ tables' = SecondWritten
  /\ writer' = "idle"
  /\ change' = [a \in {} |-> None]
  /\ UNCHANGED <<routes, read, write, reader>>

-----------------------------------------------------------------------------
(* A forwarding thread: lookup() loads read_ and finds the node, which     *)
(* modify_packet then reads.                                               *)

Lookup(r, a) ==
  /\ reader[r] = Idle /\ writer # "aborted"
  /\ reader' = [reader EXCEPT ![r] = [table |-> read, address |-> a]]
  /\ UNCHANGED <<routes, tables, read, write, writer, change>>

Forwarded(r) ==
  /\ reader[r] # Idle /\ writer # "aborted"
  /\ reader' = [reader EXCEPT ![r] = Idle]
  /\ UNCHANGED <<routes, tables, read, write, writer, change>>

-----------------------------------------------------------------------------
Handle ==
  \/ \E r \in Routes, mac \in Macs : AddRoute(r, mac)
  \/ \E r \in Routes : AddAborts(r) \/ DelRoute(r) \/ DelFails(r)

Write == FirstWrite \/ Swap \/ Sleep \/ SecondWrite

Forward == \E r \in Readers : Forwarded(r) \/ \E a \in Packets : Lookup(r, a)

Next == Handle \/ Write \/ Forward

Spec == Init /\ [][Next]_vars

-----------------------------------------------------------------------------
Entry == Macs \cup {None}

TypeOK ==
  /\ routes \in [Routes -> Entry]
  /\ tables \in [{1, 2} -> [Address -> Entry]]
  /\ read \in {1, 2} /\ write \in {1, 2} /\ read # write
  /\ writer \in {"idle", "first", "swap", "sleep", "second", "aborted", "stuck"}
  /\ DOMAIN change \subseteq Address /\ \A a \in DOMAIN change : change[a] \in Entry
  /\ reader \in [Readers -> {Idle} \cup [table : {1, 2}, address : Address]]

(* The writer is never in a table that a forwarding thread is in: what a   *)
(* thread refers to cannot be erased or overwritten under it.              *)
NoWriteUnderReader ==
  /\ writer = "first" => \A r \in Readers : reader[r].table # Target
  /\ writer = "second" => \A r \in Readers : reader[r].table # write

(* Between two updates both tables hold the same entries, so the next swap *)
(* does not take an earlier update back.                                   *)
TablesAgree == writer = "idle" => tables[1] = tables[2]

(* Between two updates every host route is served with its own next hop,   *)
(* whatever networks around it came and went.                              *)
HostRouteServed ==
  writer = "idle" => \A r \in Routes :
    r.prefix = Width /\ routes[r] # None => tables[read][r.dest] = routes[r]

(* Between two updates no packet is forwarded to an address that no route  *)
(* covers any more.                                                        *)
UnroutedDropped ==
  writer = "idle" => \A a \in Address :
    Covering(routes, a) = {} => tables[read][a] = None

(* The table in use is stable under its readers and right between updates. *)
TablesServe ==
  /\ NoWriteUnderReader
  /\ TablesAgree
  /\ HostRouteServed
  /\ UnroutedDropped

(* What the assertion of add() says of its callers.                        *)
PrefixAsserted == writer # "aborted"

Found(r) ==
  IF reader[r].table = 0 THEN None ELSE tables[reader[r].table][reader[r].address]

Table == INSTANCE ForwardingTable
           WITH table <- tables[read], found <- [r \in Readers |-> Found(r)]

(* Two tables, a swap and a sleep implement a table that changes at once,  *)
(* and what a forwarding thread has found does not change under it.        *)
ImplementsForwardingTable == Table!Spec

=============================================================================
