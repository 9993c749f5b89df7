------------------------------- MODULE Entry --------------------------------
(***************************************************************************)
(* bin/entry.js: the addresses, ports and connections that the pool server *)
(* keeps for one transport protocol.                                       *)
(*                                                                         *)
(* An entry of the JavaScript object db is a record; the lists of db are   *)
(* one set of entries, because nothing depends on their order, and clients *)
(* is the set of keys of db: a key stays when the last entry is gone.  The *)
(* free ports of an address are a sequence, taken at the head and returned *)
(* at the tail; an address without a list (undefined) has the empty one,   *)
(* which assignWanPort treats alike.  An IPv4 address of the LAN side is a *)
(* number, its last octet the rest by 256.                                 *)
(***************************************************************************)
EXTENDS Naturals, Sequences, FiniteSets, Functions

CONSTANTS
    Clients,            \* LAN addresses
    LanPorts,
    WanAddrs,           \* addresses natporte may register
    startPort, endPort,
    maxConnection,      \* entries per client
    undefined

ASSUME ClientsAssumption == Clients \subseteq Nat
ASSUME PortAssumption == startPort \in Nat /\ endPort \in Nat
ASSUME LimitAssumption == maxConnection \in Nat \ {0}
ASSUME AddrAssumption == IsFiniteSet(WanAddrs) /\ undefined \notin WanAddrs

Ports == startPort .. endPort
Entries == [lan_ip : Clients, lan_port : LanPorts, wan_ip : WanAddrs, wan_port : Ports]

VARIABLES
    pool_addrs,   \* the registered WAN addresses, in order
    pool_ports,   \* the free ports of each address
    clients, db,
    result        \* what the last assignConnection returned

vars == <<pool_addrs, pool_ports, clients, db, result>>
poolVars == <<pool_addrs, pool_ports>>

InPool(a) == a \in Range(pool_addrs)

Init ==
    /\ pool_addrs = <<>>
    /\ pool_ports = [a \in WanAddrs |-> <<>>]
    /\ clients = {} /\ db = {}
    /\ result = undefined

-----------------------------------------------------------------------------
(* Addresses *)

\* Mutant: the loop runs once too often.
AllPorts_OffByOne == [i \in 1 .. endPort + 2 - startPort |-> startPort + i - 1]

\* startPort .. endPort in order, as the loops of addPoolAddresses push them.
AllPorts == [i \in 1 .. endPort + 1 - startPort |-> startPort + i - 1]

AddPoolAddress(a) ==
    /\ ~InPool(a)
    /\ pool_addrs' = Append(pool_addrs, a)
    /\ pool_ports' = [pool_ports EXCEPT ![a] = AllPorts]
    /\ UNCHANGED <<clients, db, result>>

\* Mutant: delDBEntoryByPoolAddr is not called.
WithoutAddress_Kept(a) == db

WithoutAddress(a) == {e \in db : e.wan_ip # a}

DelPoolAddress(a) ==
    /\ \E i \in DOMAIN pool_addrs :
         /\ pool_addrs[i] = a
         /\ pool_addrs' = SubSeq(pool_addrs, 1, i - 1)
                          \o SubSeq(pool_addrs, i + 1, Len(pool_addrs))
    /\ pool_ports' = [pool_ports EXCEPT ![a] = <<>>]
    /\ db' = WithoutAddress(a)
    /\ UNCHANGED <<clients, result>>

-----------------------------------------------------------------------------
(* assignConnection *)

\* Mutant: the connection that exists is not looked up.
SameEntry_Skipped(lan_ip, lan_port) == {}

SameEntry(lan_ip, lan_port) ==
    {e \in db : e.lan_ip = lan_ip /\ e.lan_port = lan_port}

AssignWanIP(lan_ip) ==
    IF pool_addrs = <<>> THEN undefined
    ELSE pool_addrs[((lan_ip % 256) % Len(pool_addrs)) + 1]

HasPort(lan_ip) ==
    AssignWanIP(lan_ip) # undefined /\ pool_ports[AssignWanIP(lan_ip)] # <<>>

\* Mutant: the port is read and left in the list.
TakePort_Peek(a) == UNCHANGED pool_ports

\* shift() of assignWanPort.
TakePort(a) == pool_ports' = [pool_ports EXCEPT ![a] = Tail(@)]

EntriesOf(lan_ip) == {e \in db : e.lan_ip = lan_ip}

\* Mutant: one entry too many.
AtLimit_OffByOne(lan_ip) ==
    lan_ip \in clients /\ Cardinality(EntriesOf(lan_ip)) > maxConnection

\* A client that has no key in db yet is not compared with the limit.
AtLimit(lan_ip) ==
    lan_ip \in clients /\ Cardinality(EntriesOf(lan_ip)) >= maxConnection

AssignExisting(lan_ip, lan_port) ==
    /\ result' \in SameEntry(lan_ip, lan_port)
    /\ UNCHANGED <<poolVars, clients, db>>

AssignNoPort(lan_ip, lan_port) ==
    /\ SameEntry(lan_ip, lan_port) = {}
    /\ ~HasPort(lan_ip)
    /\ result' = undefined
    /\ UNCHANGED <<poolVars, clients, db>>

\* The limit is tested after the port was taken from the list.
AssignOverLimit(lan_ip, lan_port) ==
    /\ SameEntry(lan_ip, lan_port) = {}
    /\ HasPort(lan_ip)
    /\ AtLimit(lan_ip)
    /\ TakePort(AssignWanIP(lan_ip))
    /\ result' = undefined
    /\ UNCHANGED <<pool_addrs, clients, db>>

NewEntry(lan_ip, lan_port) ==
    [lan_ip |-> lan_ip, lan_port |-> lan_port,
     wan_ip |-> AssignWanIP(lan_ip),
     wan_port |-> Head(pool_ports[AssignWanIP(lan_ip)])]

AssignNew(lan_ip, lan_port) ==
    /\ SameEntry(lan_ip, lan_port) = {}
    /\ HasPort(lan_ip)
    /\ ~AtLimit(lan_ip)
    /\ TakePort(AssignWanIP(lan_ip))
    /\ db' = db \cup {NewEntry(lan_ip, lan_port)}
    /\ clients' = clients \cup {lan_ip}
    /\ result' = NewEntry(lan_ip, lan_port)
    /\ UNCHANGED pool_addrs

AssignConnection(lan_ip, lan_port) ==
    \/ AssignExisting(lan_ip, lan_port)
    \/ AssignNoPort(lan_ip, lan_port)
    \/ AssignOverLimit(lan_ip, lan_port)
    \/ AssignNew(lan_ip, lan_port)

-----------------------------------------------------------------------------
(* releaseConnection *)

\* Mutant: the port goes back to the head of the list.
ReturnPort_AtHead(e) ==
    pool_ports' = [pool_ports EXCEPT ![e.wan_ip] = <<e.wan_port>> \o @]

ReturnPort(e) ==
    pool_ports' = [pool_ports EXCEPT ![e.wan_ip] = Append(@, e.wan_port)]

\* All four fields must match; otherwise nothing changes, be it that the
\* function returns false or, for a client without a key, throws.
ReleaseConnection(e) ==
    \/ /\ e \in db
       /\ db' = db \ {e}
       /\ ReturnPort(e)
       /\ UNCHANGED <<pool_addrs, clients, result>>
    \/ e \notin db /\ UNCHANGED vars

-----------------------------------------------------------------------------

Next ==
    \/ \E a \in WanAddrs : AddPoolAddress(a) \/ DelPoolAddress(a)
    \/ \E lan_ip \in Clients, lan_port \in LanPorts : AssignConnection(lan_ip, lan_port)
    \/ \E e \in Entries : ReleaseConnection(e)

Spec == Init /\ [][Next]_vars

-----------------------------------------------------------------------------
(* Properties *)

\* The types of the pool (entry.js:6-14): free ports lie in the configured
\* range, and the last result is an entry or undefined.
TypeOK ==
    /\ pool_addrs \in Seq(WanAddrs)
    /\ pool_ports \in [WanAddrs -> Seq(Ports)]
    /\ clients \subseteq Clients
    /\ db \subseteq Entries
    /\ result \in Entries \cup {undefined}

\* No two connections share a WAN address and port, and a LAN address and
\* port has one connection: otherwise natporte could not tell whose packet
\* arrives, or could not insert the node (entry.js:214-276).
UniqueMapping ==
    \A e, f \in db :
        \/ e.lan_ip = f.lan_ip /\ e.lan_port = f.lan_port
        \/ e.wan_ip = f.wan_ip /\ e.wan_port = f.wan_port
        => e = f

InUse(a) == {e.wan_port : e \in {f \in db : f.wan_ip = a}}

\* A free port is free: it is listed once and no connection has it, whatever
\* the order of assignments, releases and changes of the pool
\* (entry.js:132-136, 236, 373, 404-415).
FreePortsUnused ==
    \A a \in WanAddrs :
        /\ IsInjective(pool_ports[a])
        /\ Range(pool_ports[a]) \cap InUse(a) = {}

\* A connection's address is registered.  A second registration fills the
\* port list anew, so a connection that outlived its address would see its
\* port issued again (entry.js:63-110, 122-137).
EntriesInPool == \A e \in db : InPool(e.wan_ip)

\* No client has more connections than the maximum, one at least
\* (entry.js:250-271, README:41-42).
WithinLimit == \A c \in Clients : Cardinality(EntriesOf(c)) <= maxConnection

\* A connection never loses its mapping but by a release, which puts the port
\* behind all free ports of its address so that it is reused last, or because
\* its address leaves the pool (entry.js:69-73, 371-374, 411-415).
ReleasedPortReusedLast ==
    [][\A e \in db \ db' :
          \/ ~InPool(e.wan_ip)'
          \/ pool_ports'[e.wan_ip] = Append(pool_ports[e.wan_ip], e.wan_port)]_vars

\* What makes the invariants inductive: a client with entries has a key, the
\* addresses of the pool differ, and db is finite.
Bookkeeping ==
    /\ IsInjective(pool_addrs)
    /\ IsFiniteSet(db)
    /\ \A e \in db : e.lan_ip \in clients

IInv ==
    /\ TypeOK /\ UniqueMapping /\ FreePortsUnused /\ EntriesInPool
    /\ WithinLimit /\ Bookkeeping

\* Every port of the configured range of a registered address is free or has
\* a connection (README:43-46, "set end port number", "set start port number").
PortConservation ==
    \A a \in Range(pool_addrs) : Range(pool_ports[a]) \cup InUse(a) = Ports
=============================================================================
