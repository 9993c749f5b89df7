--------------------------- MODULE Replica_proof ---------------------------
(***************************************************************************)
(* Without resets the NAT table is a replica of the pool server's db, for  *)
(* any number of nodes, ring sizes, clients, ports and segments, and for   *)
(* both protocols.                                                         *)
(*                                                                         *)
(* The inductive invariant is ReplicaInv of module Natporte.  Its witness  *)
(* is what db was before each of the answers under way: an answer of the   *)
(* server appends to it, and taking an answer in moves the table along it. *)
(* A new node never collides, because no past db takes a key twice, and a  *)
(* release removes the node with its addresses and no other, because the   *)
(* answer belongs to the order at the head of h_recv.                      *)
(***************************************************************************)
EXTENDS Natporte_proof, FiniteSetTheorems, WellFoundedInduction

Server == INSTANCE Entry_proof

-----------------------------------------------------------------------------
(* The server *)

\* What is proved about the server alone is said of Natporte's server.
LEMMA SameInv == Server!IInv <=> DB!IInv
<1>1. Server!TypeOK <=> DB!TypeOK
  BY DEF Server!TypeOK, DB!TypeOK, Server!Entries, DB!Entries, Server!Ports, DB!Ports
<1>2. Server!UniqueMapping <=> DB!UniqueMapping
  BY DEF Server!UniqueMapping, DB!UniqueMapping
<1>3. Server!FreePortsUnused <=> DB!FreePortsUnused
  BY DEF Server!FreePortsUnused, DB!FreePortsUnused, Server!IsInjective, DB!IsInjective,
     Server!Range, DB!Range, Server!InUse, DB!InUse
<1>4. Server!EntriesInPool <=> DB!EntriesInPool
  BY DEF Server!EntriesInPool, DB!EntriesInPool, Server!InPool, DB!InPool, Server!Range, DB!Range
<1>5. Server!WithinLimit <=> DB!WithinLimit
  BY DEF Server!WithinLimit, DB!WithinLimit, Server!EntriesOf, DB!EntriesOf,
     Server!Cardinality, DB!Cardinality
<1>6. Server!Bookkeeping <=> DB!Bookkeeping
  BY DEF Server!Bookkeeping, DB!Bookkeeping, Server!IsInjective, DB!IsInjective,
     Server!IsFiniteSet, DB!IsFiniteSet
<1> QED
  BY <1>1, <1>2, <1>3, <1>4, <1>5, <1>6 DEF Server!IInv, DB!IInv

LEMMA ServerAssumptions == Server!IsFiniteSet(WanAddrs)
BY PoolAssumption DEF Server!IsFiniteSet, IsFiniteSet

LEMMA SameAssign ==
  ASSUME NEW lan_ip \in Clients, NEW lan_port \in LanPorts, DB!AssignConnection(lan_ip, lan_port)
  PROVE  Server!Next
<1>1. Server!AssignConnection(lan_ip, lan_port)
  BY DEF Server!AssignConnection, DB!AssignConnection, Server!AssignExisting, DB!AssignExisting,
     Server!AssignNoPort, DB!AssignNoPort, Server!AssignOverLimit, DB!AssignOverLimit,
     Server!AssignNew, DB!AssignNew, Server!SameEntry, DB!SameEntry, Server!HasPort, DB!HasPort,
     Server!AssignWanIP, DB!AssignWanIP, Server!AtLimit, DB!AtLimit, Server!TakePort, DB!TakePort,
     Server!NewEntry, DB!NewEntry, Server!EntriesOf, DB!EntriesOf, Server!poolVars, DB!poolVars,
     Server!Cardinality, DB!Cardinality
<1> QED
  BY <1>1 DEF Server!Next

LEMMA SameRelease ==
  ASSUME NEW e \in Connections, DB!ReleaseConnection(e)
  PROVE  Server!Next
<1>1. Server!ReleaseConnection(e)
  BY DEF Server!ReleaseConnection, DB!ReleaseConnection, Server!vars, DB!vars,
     Server!ReturnPort, DB!ReturnPort
<1>2. e \in Server!Entries
  BY DEF Connections, DB!Entries, Server!Entries, DB!Ports, Server!Ports
<1> QED
  BY <1>1, <1>2 DEF Server!Next

LEMMA ServerStep ==
  ASSUME DB!IInv, Server!Next
  PROVE  DB!IInv'
<1>1. Server!IInv
  BY SameInv
<1>2. Server!IInv'
  BY <1>1, Server!NextStep, ServerAssumptions, ServerAssumption, PoolAssumption
<1> QED
  BY <1>2, SameInv, PTL

LEMMA ServerInit == Init => DB!IInv
<1> SUFFICES ASSUME Init PROVE DB!IInv
  OBVIOUS
<1>1. PICK a \in WanAddrs :
        /\ pool_addrs = <<a>>
        /\ pool_ports = [b \in WanAddrs |-> IF b = a THEN DB!AllPorts ELSE <<>>]
  BY DEF Init
<1>2. clients = {} /\ db = {} /\ result = undefined
  BY DEF Init
<1>3. DB!TypeOK
  BY InitIInv DEF IInv, TypeOK
<1>4. DB!UniqueMapping /\ DB!EntriesInPool
  BY <1>2 DEF DB!UniqueMapping, DB!EntriesInPool
<1>5. DB!FreePortsUnused
  <2>1. DB!IsInjective(DB!AllPorts)
    BY Server!AllPortsFact, ServerAssumption, ServerAssumptions, PoolAssumption
    DEF Server!AllPorts, DB!AllPorts, Server!IsInjective, DB!IsInjective
  <2>2. DB!IsInjective(<<>>)
    BY DEF DB!IsInjective
  <2>3. \A b \in WanAddrs : pool_ports[b] = DB!AllPorts \/ pool_ports[b] = <<>>
    BY <1>1
  <2>4. \A b \in WanAddrs : DB!InUse(b) = {}
    BY <1>2 DEF DB!InUse
  <2> QED
    BY <2>1, <2>2, <2>3, <2>4 DEF DB!FreePortsUnused
<1>6. DB!IsFiniteSet({}) /\ DB!Cardinality({}) = 0
  BY FS_EmptySet DEF DB!IsFiniteSet, DB!Cardinality, IsFiniteSet, Cardinality
<1>7. DB!WithinLimit
  <2>1. \A c \in Clients : DB!EntriesOf(c) = {}
    BY <1>2 DEF DB!EntriesOf
  <2> QED
    BY <1>6, <2>1, PoolAssumption DEF DB!WithinLimit
<1>8. DB!Bookkeeping
  <2>1. DB!IsInjective(<<a>>)
    BY DEF DB!IsInjective
  <2> QED
    BY <1>1, <1>2, <1>6, <2>1 DEF DB!Bookkeeping
<1> QED
  BY <1>3, <1>4, <1>5, <1>7, <1>8 DEF DB!IInv

\* An answer's connection is what assignConnection put into db, if anything.
LEMMA AssignChanges ==
  ASSUME DB!IInv, NEW lan_ip \in Clients, NEW lan_port \in LanPorts,
         DB!AssignConnection(lan_ip, lan_port)
  PROVE  \/ result' = undefined /\ db' = db
         \/ result' # undefined /\ result' \in Connections /\ db' = db \cup {result'}
<1>1. db \subseteq Connections
  BY DEF DB!IInv, DB!TypeOK, Connections
<1>2. CASE DB!AssignExisting(lan_ip, lan_port)
  <2>1. result' \in db /\ db' = db
    BY <1>2 DEF DB!AssignExisting, DB!SameEntry
  <2> QED
    BY <1>1, <2>1, ResultAssumption
<1>3. CASE DB!AssignNoPort(lan_ip, lan_port) \/ DB!AssignOverLimit(lan_ip, lan_port)
  BY <1>3 DEF DB!AssignNoPort, DB!AssignOverLimit
<1>4. CASE DB!AssignNew(lan_ip, lan_port)
  <2>1. db' = db \cup {result'}
    BY <1>4 DEF DB!AssignNew
  <2>2. DB!IInv'
    BY ServerStep, SameAssign
  <2>3. result' \in Connections
    BY <2>1, <2>2 DEF DB!IInv, DB!TypeOK, Connections
  <2> QED
    BY <2>1, <2>3, ResultAssumption
<1> QED
  BY <1>2, <1>3, <1>4 DEF DB!AssignConnection

LEMMA ReleaseChanges ==
  ASSUME NEW e, DB!ReleaseConnection(e)
  PROVE  db' = db \ {e}
BY DEF DB!ReleaseConnection, DB!vars

LEMMA DbOneToOne ==
  ASSUME DB!IInv
  PROVE  OneToOne(db) /\ db \subseteq Connections
BY DEF DB!IInv, DB!UniqueMapping, DB!TypeOK, OneToOne, LanKey, WanKey, Connections

-----------------------------------------------------------------------------
(* The past of db *)

Past(past) ==
    /\ past \in [0 .. Len(to_nat) -> SUBSET Connections]
    /\ past[0] = TableEntries /\ past[Len(to_nat)] = db
    /\ \A i \in DOMAIN to_nat : past[i] = AfterAnswer(past[i - 1], to_nat[i])
    /\ \A i \in DOMAIN past : OneToOne(past[i])

LEMMA PastExists ==
  ASSUME TableFollowsServer, NoReset, Running
  PROVE  \E past : Past(past)
BY DEF TableFollowsServer, Past

\* A step that moves neither the table nor db.
LEMMA FollowsKept ==
  ASSUME TableFollowsServer, Running, TableEntries' = TableEntries, UNCHANGED <<db, to_nat>>
  PROVE  TableFollowsServer'
BY DEF TableFollowsServer

\* The server answers.
LEMMA FollowsAppend ==
  ASSUME TypeOK, TableFollowsServer, Running, NEW m \in Answers, to_nat' = Append(to_nat, m),
         db' = AfterAnswer(db, m), OneToOne(db'), db' \subseteq Connections,
         TableEntries' = TableEntries
  PROVE  TableFollowsServer'
<1> SUFFICES ASSUME NoReset
             PROVE  \E past : Past(past)'
  BY DEF TableFollowsServer, Past
<1>1. PICK past : Past(past)
  BY PastExists
<1> DEFINE n == Len(to_nat)
           new == [i \in 0 .. n + 1 |-> IF i = n + 1 THEN db' ELSE past[i]]
<1>2. /\ n \in Nat /\ DOMAIN to_nat = 1 .. n
      /\ Len(to_nat') = n + 1 /\ DOMAIN to_nat' = 1 .. n + 1
      /\ \A i \in 1 .. n : to_nat'[i] = to_nat[i]
      /\ to_nat'[n + 1] = m
  <2>1. to_nat \in Seq(Answers)
    BY DEF TypeOK
  <2> QED
    BY <2>1, AppendProperties
<1> HIDE DEF n
<1>3. /\ past \in [0 .. n -> SUBSET Connections]
      /\ past[0] = TableEntries /\ past[n] = db
      /\ \A i \in 1 .. n : past[i] = AfterAnswer(past[i - 1], to_nat[i])
      /\ \A i \in 0 .. n : OneToOne(past[i])
  BY <1>1, <1>2 DEF Past, n
<1>4. /\ new[n + 1] = db' /\ \A i \in 0 .. n : new[i] = past[i]
      /\ new \in [0 .. n + 1 -> SUBSET Connections]
  BY <1>2, <1>3
<1> HIDE DEF new
<1>5. new[0] = TableEntries'
  BY <1>2, <1>3, <1>4
<1>6. ASSUME NEW i \in 1 .. n + 1
      PROVE  new[i] = AfterAnswer(new[i - 1], to_nat'[i])
  <2>1. CASE i = n + 1
    <3>1. new[i - 1] = db
      BY <1>2, <1>3, <1>4, <2>1
    <3> QED
      BY <1>2, <1>4, <2>1, <3>1
  <2>2. CASE i # n + 1
    <3>1. i \in 1 .. n /\ i - 1 \in 0 .. n /\ i \in 0 .. n
      BY <1>2, <2>2
    <3> QED
      BY <1>2, <1>3, <1>4, <3>1
  <2> QED
    BY <2>1, <2>2
<1>7. ASSUME NEW i \in 0 .. n + 1
      PROVE  OneToOne(new[i])
  <2>1. i = n + 1 \/ i \in 0 .. n
    BY <1>2
  <2> QED
    BY <1>3, <1>4, <2>1
<1>8. DOMAIN new = 0 .. n + 1
  BY <1>4
<1>9. PICK w : w = new
  OBVIOUS
<1>10. Past(w)'
  BY <1>2, <1>4, <1>5, <1>6, <1>7, <1>8, <1>9 DEF Past, AfterAnswer, OneToOne, LanKey, WanKey
<1> QED
  BY <1>10

\* The first answer under way, taken in.
LEMMA NextPast ==
  ASSUME TypeOK, TableFollowsServer, NoReset, Running, to_nat # <<>>
  PROVE  OneToOne(AfterAnswer(TableEntries, Head(to_nat)))
<1>1. PICK past : Past(past)
  BY PastExists
<1>2. to_nat \in Seq(Answers)
  BY DEF TypeOK
<1>3. /\ Len(to_nat) \in Nat \ {0} /\ DOMAIN to_nat = 1 .. Len(to_nat) /\ Head(to_nat) = to_nat[1]
  BY <1>2, HeadTailProperties, LenProperties, EmptySeq
<1>4. past[1] = AfterAnswer(past[1 - 1], to_nat[1]) /\ 1 \in DOMAIN past
  BY <1>1, <1>3 DEF Past
<1> QED
  BY <1>1, <1>3, <1>4 DEF Past

LEMMA FollowsTail ==
  ASSUME TypeOK, TableFollowsServer, Running, to_nat # <<>>, to_nat' = Tail(to_nat), db' = db,
         NoReset => TableEntries' = AfterAnswer(TableEntries, Head(to_nat))
  PROVE  TableFollowsServer'
<1> SUFFICES ASSUME NoReset
             PROVE  \E past : Past(past)'
  BY DEF TableFollowsServer, Past
<1>1. PICK past : Past(past)
  BY PastExists
<1> DEFINE n == Len(to_nat)
           new == [i \in 0 .. n - 1 |-> past[i + 1]]
<1>2. /\ n \in Nat \ {0} /\ DOMAIN to_nat = 1 .. n /\ Head(to_nat) = to_nat[1]
      /\ Len(to_nat') = n - 1 /\ DOMAIN to_nat' = 1 .. n - 1
      /\ \A i \in 1 .. n - 1 : to_nat'[i] = to_nat[i + 1]
  <2>1. to_nat \in Seq(Answers)
    BY DEF TypeOK
  <2>2. /\ n \in Nat \ {0} /\ DOMAIN to_nat = 1 .. n /\ Head(to_nat) = to_nat[1]
        /\ Len(to_nat') = n - 1 /\ to_nat' \in Seq(Answers)
        /\ \A i \in 1 .. n - 1 : to_nat'[i] = to_nat[i + 1]
    BY <2>1, HeadTailProperties, LenProperties, EmptySeq
  <2> QED
    BY <2>2, LenProperties
<1> HIDE DEF n
<1>3. /\ past \in [0 .. n -> SUBSET Connections]
      /\ past[0] = TableEntries /\ past[n] = db
      /\ \A i \in 1 .. n : past[i] = AfterAnswer(past[i - 1], to_nat[i])
      /\ \A i \in 0 .. n : OneToOne(past[i])
  BY <1>1, <1>2 DEF Past, n
<1>4. \A i \in 0 .. n - 1 : i + 1 \in 1 .. n /\ i + 1 \in 0 .. n
  BY <1>2
<1>5. new \in [0 .. n - 1 -> SUBSET Connections] /\ \A i \in 0 .. n - 1 : new[i] = past[i + 1]
  BY <1>3, <1>4
<1>6. DOMAIN new = 0 .. n - 1
  OBVIOUS
<1> HIDE DEF new
<1>7. new[0] = TableEntries' /\ new[n - 1] = db'
  <2>1. 0 \in 0 .. n - 1 /\ n - 1 \in 0 .. n - 1 /\ (n - 1) + 1 = n /\ 0 + 1 = 1 /\ 1 \in 1 .. n
    BY <1>2
  <2>2. past[1] = AfterAnswer(past[1 - 1], to_nat[1]) /\ 1 - 1 = 0
    BY <1>3, <2>1
  <2> QED
    BY <1>2, <1>3, <1>5, <2>1, <2>2
<1>8. ASSUME NEW i \in 1 .. n - 1
      PROVE  new[i] = AfterAnswer(new[i - 1], to_nat'[i])
  <2>1. /\ i \in 0 .. n - 1 /\ i - 1 \in 0 .. n - 1 /\ i + 1 \in 1 .. n
        /\ (i + 1) - 1 = i /\ (i - 1) + 1 = i
    BY <1>2
  <2>2. past[i + 1] = AfterAnswer(past[i], to_nat[i + 1])
    BY <1>3, <2>1
  <2> QED
    BY <1>2, <1>5, <2>1, <2>2
<1>9. \A i \in 0 .. n - 1 : OneToOne(new[i])
  BY <1>3, <1>4, <1>5
<1>10. PICK w : w = new
  OBVIOUS
<1>11. Past(w)'
  BY <1>2, <1>5, <1>6, <1>7, <1>8, <1>9, <1>10 DEF Past, AfterAnswer, OneToOne, LanKey, WanKey
<1> QED
  BY <1>11

-----------------------------------------------------------------------------
(* Without resets nothing is released by packet *)

\* A segment without RST that tcp_state_check expects resets nothing.
LEMMA NothingReset ==
  ASSUME NoReset, NEW seen \in TcpStates, NEW p \in Packets, OnlyExpected => Expected(seen, p)
  PROVE  Outcome(seen, p) # "RESET_TABLE"
<1>1. CASE protocol = "UDP"
  BY <1>1 DEF Outcome
<1>2. CASE protocol # "UDP" /\ seen \in Final
  BY <1>2 DEF Outcome, Verdict
<1>3. CASE protocol # "UDP" /\ seen \notin Final
  <2> DEFINE state == tcp_state_check(seen, p.flags, p.from)
  <2>1. /\ "RST" \notin p.flags /\ p.from \in Directions
    <3>1. p.flags \in LanFlags \cup WanFlags
      BY DEF Packets, LanPackets, WanPackets
    <3>2. p.from \in Directions
      BY DEF Packets, LanPackets, WanPackets, Directions
    <3> QED
      BY <1>3, <3>1, <3>2 DEF NoReset
  <2>2. state # "UNKNOWN"
    BY <1>3 DEF NoReset, Expected, StateAfter, NewFlags
  <2>3. state # "RESET"
    <3> USE DEF TcpStates, WaitStates, Directions, Final, FIN_WAIT, FINACK_WAIT, CLOSING, Opposite
    <3>1. Opening(seen, p.flags, p.from) # "RESET"
      BY DEF Opening
    <3>2. AfterFin(seen, p.flags, p.from) # "RESET"
      BY <2>1, <1>3 DEF AfterFin
    <3>3. FIN_WAIT[Opposite(p.from)] # "RESET" /\ seen # "RESET"
      BY <2>1, <1>3
    <3> HIDE DEF TcpStates, WaitStates, Directions, Final, FIN_WAIT, FINACK_WAIT, CLOSING, Opposite
    <3> QED
      BY <2>1, <3>1, <3>2, <3>3 DEF tcp_state_check
  <2> HIDE DEF state
  <2>4. Verdict(seen, p.flags, p.from) =
          CASE state = "CLOSED" -> "DEL_TABLE"
            [] state = "RESET" -> "RESET_TABLE"
            [] state = "UNKNOWN" -> IF p.from = "L2W" THEN "RESET_TABLE" ELSE "DODROP"
            [] OTHER -> "DOALIAS"
    BY <1>3 DEF Verdict, NewFlags, state
  <2>5. Verdict(seen, p.flags, p.from) # "RESET_TABLE"
    BY <2>2, <2>3, <2>4
  <2> QED
    BY <1>3, <2>5 DEF Outcome
<1> QED
  BY <1>1, <1>2, <1>3

\* A step that moves divert alone, but for the nodes, the timers and kq.
LEMMA ReceiveNoRelease ==
  ASSUME ExpiryInv, NoReleases, NEW p \in Packets, Receive(p)
  PROVE  NoReleases'
<1> SUFFICES ASSUME NoReset PROVE NoReleases'
  BY DEF NoReleases
<1>1. UNCHANGED <<ringVars, sender, receiver>>
  BY DEF Receive
<1>2. CASE find(p.from, p.key) = {}
  <2>1. divert'.pc \in {"request", "idle"}
    BY <1>2 DEF Receive, Idle
  <2> QED
    BY <1>1, <2>1 DEF NoReleases, ringVars
<1>3. CASE find(p.from, p.key) # {}
  <2>1. PICK n \in find(p.from, p.key) :
          /\ OnlyExpected => Expected(node[n].flags, p)
          /\ divert' = [pc |-> "alias", packet |-> p, table |-> n, seen |-> node[n].flags]
    BY <1>3 DEF Receive
  <2>2. p.from \in Directions
    BY DEF Packets, LanPackets, WanPackets, Directions
  <2>3. node[n].flags \in TcpStates
    BY <2>2, Found DEF ExpiryInv, NodeRecords
  <2>4. Outcome(node[n].flags, p) # "RESET_TABLE"
    BY <2>1, <2>3, NothingReset
  <2>5. divert'.pc = "alias" /\ divert'.seen = node[n].flags /\ divert'.packet = p
    BY <2>1
  <2>6. Outcome(divert.seen, divert.packet)' # "RESET_TABLE"
    BY <2>4, <2>5 DEF Outcome
  <2> QED
    BY <1>1, <2>5, <2>6 DEF NoReleases, ringVars
<1> QED
  BY <1>2, <1>3

\* A step that pushes no release, and moves no thread to where it has one.
LEMMA NoReleasesKept ==
  ASSUME NoReleases, NoReset,
         divert' = divert \/ divert'.pc \notin {"release", "alias"},
         \A o \in Range(h_send') \cup Range(h_recv') :
           o \in Range(h_send) \cup Range(h_recv) \/ o.kind # "REL",
         \/ sender' = sender
         \/ sender'.pc \notin {"compose", "push"}
         \/ sender'.order.kind # "REL",
         \/ receiver' = receiver
         \/ receiver'.pc \notin {"remove", "disarm", "arm", "find", "alias"}
         \/ receiver'.pc \in {"arm", "find", "alias"} /\ receiver'.reply.type = "request_ack"
  PROVE  NoReleases'
<1>1. /\ divert'.pc # "release"
      /\ divert'.pc = "alias" => Outcome(divert'.seen, divert'.packet) # "RESET_TABLE"
  BY DEF NoReleases
<1>2. \A o \in Range(h_send') \cup Range(h_recv') : o.kind # "REL"
  BY DEF NoReleases
<1>3. sender'.pc \in {"compose", "push"} => sender'.order.kind # "REL"
  BY DEF NoReleases
<1>4. /\ receiver'.pc \notin {"remove", "disarm"}
      /\ receiver'.pc \in {"arm", "find", "alias"} => receiver'.reply.type = "request_ack"
  BY DEF NoReleases
<1>5. Outcome(divert.seen, divert.packet)' = Outcome(divert'.seen, divert'.packet)
  BY DEF Outcome
<1> QED
  BY <1>1, <1>2, <1>3, <1>4, <1>5 DEF NoReleases

LEMMA PushNoRelease ==
  ASSUME ExpiryInv, NoReleases, PushRequest \/ PushRelease
  PROVE  NoReleases'
<1> SUFFICES ASSUME NoReset PROVE NoReleases'
  BY DEF NoReleases
<1> DEFINE o == [kind |-> "REQ", packet |-> divert.packet]
<1>1. PushRequest
  BY DEF PushRelease, NoReleases
<1>2. /\ divert.pc = "request" /\ divert' = Idle /\ UNCHANGED <<h_recv, sender, receiver>>
      /\ h_send' = h_send \/ h_send' = Append(h_send, o)
  BY <1>1 DEF PushRequest
<1>3. h_send \in Seq(Orders) /\ o \in Orders
  BY <1>2, AtDivert DEF ExpiryInv, IInv, TypeOK, Orders, Requests
<1>4. Range(Append(h_send, o)) = Range(h_send) \cup {o}
  BY <1>3, AppendRange
<1>5. Range(h_send') \subseteq Range(h_send) \cup {o} /\ Range(h_recv') = Range(h_recv)
  BY <1>2, <1>4
<1>6. o.kind # "REL"
  OBVIOUS
<1> HIDE DEF o
<1> QED
  BY <1>2, <1>5, <1>6, NoReleasesKept DEF Idle

\* The outcome that orders a release is not one of the outcomes.
LEMMA AliasNoRelease ==
  ASSUME ExpiryInv, NoReleases, Alias
  PROVE  NoReleases'
<1> SUFFICES ASSUME NoReset PROVE NoReleases'
  BY DEF NoReleases
<1>1. divert.pc = "alias" /\ UNCHANGED <<ringVars, sender, receiver>>
  BY DEF Alias
<1>2. Outcome(divert.seen, divert.packet) # "RESET_TABLE"
  BY <1>1 DEF NoReleases
<1>3. divert' = divert \/ divert'.pc \notin {"release", "alias"}
  <2>1. CASE IsFreed(divert.table)
    BY <2>1 DEF Alias
  <2>2. CASE ~IsFreed(divert.table) /\ Outcome(divert.seen, divert.packet) = "DEL_TABLE"
    <3>1. divert'.pc = "delete"
      BY <2>2 DEF Alias
    <3> QED
      BY <3>1
  <2>3. CASE ~IsFreed(divert.table) /\ Outcome(divert.seen, divert.packet) # "DEL_TABLE"
    <3>1. divert' = Idle
      BY <1>2, <2>3 DEF Alias
    <3> QED
      BY <3>1 DEF Idle
  <2> QED
    BY <2>1, <2>2, <2>3
<1> QED
  BY <1>1, <1>3, NoReleasesKept DEF ringVars

LEMMA CloseNoRelease ==
  ASSUME ExpiryInv, NoReleases, FindClosed \/ MarkClosed \/ DisarmClosed \/ RearmClosed
  PROVE  NoReleases'
<1> SUFFICES ASSUME NoReset PROVE NoReleases'
  BY DEF NoReleases
<1>1. UNCHANGED <<ringVars, sender, receiver>>
  BY DEF FindClosed, MarkClosed, DisarmClosed, RearmClosed
<1>2. divert' = divert \/ divert'.pc \notin {"release", "alias"}
  <2>1. CASE FindClosed
    BY <2>1 DEF FindClosed, Idle
  <2>2. CASE MarkClosed
    <3>1. divert' = divert \/ divert' = [pc |-> "disarm", key |-> LanKey(node[divert.table].entry)]
      BY <2>2 DEF MarkClosed
    <3> QED
      BY <3>1
  <2>3. CASE DisarmClosed
    <3>1. divert \in [pc : {"disarm", "rearm"}, key : LanKeys]
      BY <2>3, AtDivert DEF ExpiryInv, IInv, DisarmClosed
    <3> QED
      BY <2>3, <3>1 DEF DisarmClosed
  <2>4. CASE RearmClosed
    BY <2>4 DEF RearmClosed, Idle
  <2> QED
    BY <2>1, <2>2, <2>3, <2>4
<1> QED
  BY <1>1, <1>2, NoReleasesKept DEF ringVars

\* What is left of a queue was in it, and so was its head.
LEMMA TailWithin ==
  ASSUME NEW S, NEW q \in Seq(S), q # <<>>
  PROVE  Head(q) \in Range(q) /\ Head(q) \in S /\ Range(Tail(q)) \subseteq Range(q)
<1>1. /\ Head(q) = q[1] /\ Len(q) \in Nat \ {0} /\ DOMAIN q = 1 .. Len(q)
      /\ Len(Tail(q)) = Len(q) - 1 /\ Tail(q) \in Seq(S)
      /\ \A i \in 1 .. Len(q) - 1 : Tail(q)[i] = q[i + 1]
  BY HeadTailProperties, LenProperties, EmptySeq
<1>2. DOMAIN Tail(q) = 1 .. Len(q) - 1
  BY <1>1, LenProperties
<1>3. \A i \in 1 .. Len(q) - 1 : i + 1 \in 1 .. Len(q)
  BY <1>1
<1>4. q[1] \in S /\ 1 \in DOMAIN q
  BY <1>1
<1> QED
  BY <1>1, <1>2, <1>3, <1>4 DEF Range

LEMMA SenderNoRelease ==
  ASSUME ExpiryInv, NoReleases, Sender
  PROVE  NoReleases'
<1> SUFFICES ASSUME NoReset PROVE NoReleases'
  BY DEF NoReleases
<1>1. UNCHANGED <<divert, receiver>>
  BY DEF Sender, Pop, Compose, PushAwaited, Send
<1>2. h_send \in Seq(Orders) /\ h_recv \in Seq(Orders)
  BY DEF ExpiryInv, IInv, TypeOK
<1>3. CASE Pop
  <2> DEFINE o == Head(h_send)
  <2>1. /\ h_send # <<>> /\ h_send' = Tail(h_send) /\ h_recv' = h_recv
    BY <1>3 DEF Pop
  <2>2. o \in Range(h_send) /\ Range(h_send') \subseteq Range(h_send) /\ o \in Orders
    BY <1>2, <2>1, TailWithin
  <2>3. o.kind # "REL"
    BY <2>2 DEF NoReleases
  <2> HIDE DEF o
  <2>4. sender' = sender \/ sender'.order = o
    <3>1. CASE o.kind = "REQ"
      <4>1. sender' = [pc |-> "push", order |-> o,
                       message |-> [type |-> "request", lan |-> o.packet.key]]
        BY <1>3, <3>1 DEF Pop, o
      <4> QED
        BY <4>1
    <3>2. CASE o.kind = "TIMEOUT"
      <4>1. sender' = [pc |-> "compose", order |-> o, table |-> o.table]
        BY <1>3, <3>2 DEF Pop, o
      <4> QED
        BY <4>1
    <3> QED
      BY <2>2, <2>3, <3>1, <3>2 DEF Orders, Requests, Releases, Timeouts
  <2> QED
    BY <1>1, <2>1, <2>2, <2>3, <2>4, NoReleasesKept
<1>4. CASE Compose
  <2> DEFINE m == [type |-> "release", entry |-> node[sender.table].entry]
  <2>1. /\ sender.pc = "compose" /\ UNCHANGED ringVars
        /\ \/ sender' = sender
           \/ sender' = [pc |-> "push", order |-> sender.order, message |-> m]
    BY <1>4 DEF Compose
  <2> HIDE DEF m
  <2>2. sender' = sender \/ sender'.order = sender.order
    BY <2>1
  <2> QED
    BY <1>1, <2>1, <2>2, NoReleasesKept DEF NoReleases, ringVars
<1>5. CASE PushAwaited
  <2> DEFINE o == sender.order
  <2>1. /\ sender.pc = "push" /\ h_send' = h_send /\ h_recv' = Append(h_recv, o)
        /\ sender'.pc = "send"
    BY <1>5 DEF PushAwaited
  <2>2. o \in Orders
    BY <2>1, AtSender DEF ExpiryInv, IInv
  <2>3. Range(Append(h_recv, o)) = Range(h_recv) \cup {o}
    BY <1>2, <2>2, AppendRange
  <2>4. o.kind # "REL"
    BY <2>1 DEF NoReleases
  <2> QED
    BY <1>1, <2>1, <2>3, <2>4, NoReleasesKept
<1>6. CASE Send
  BY <1>1, <1>6, NoReleasesKept DEF Send, Idle, ringVars
<1> QED
  BY <1>3, <1>4, <1>5, <1>6 DEF Sender

LEMMA ServerNoRelease ==
  ASSUME NoReleases, PoolServer
  PROVE  NoReleases'
<1> SUFFICES ASSUME NoReset PROVE NoReleases'
  BY DEF NoReleases
<1>1. UNCHANGED <<ringVars, divert, sender, receiver>>
  BY DEF PoolServer, AnswerRequest, AnswerRelease
<1> QED
  BY <1>1, NoReleasesKept DEF ringVars

\* Without releases by packet, a release was ordered by a timeout.
LEMMA TimeoutAnswered ==
  ASSUME ExpiryInv, NoReleases, NoReset, Answered("release_ack"), UNCHANGED <<to_pool, sender>>
  PROVE  Head(h_recv).kind = "TIMEOUT"
<1>1. /\ to_nat # <<>> /\ h_recv # <<>> /\ to_nat' = Tail(to_nat) /\ h_recv' = Tail(h_recv)
      /\ Head(to_nat).type = "release_ack"
  BY DEF Answered
<1>2. BelongsTo(Head(to_nat), Head(h_recv), node)
  BY <1>1, ReceivePairs DEF ExpiryInv, IInv
<1>3. Head(h_recv) \in Range(h_recv)
  BY <1>1, TailWithin DEF ExpiryInv, IInv, TypeOK
<1>4. Head(h_recv).kind # "REL"
  BY <1>3 DEF NoReleases
<1> QED
  BY <1>1, <1>2, <1>4 DEF BelongsTo

LEMMA ReceiverNoRelease ==
  ASSUME ExpiryInv, NoReleases, Receiver
  PROVE  NoReleases'
<1> SUFFICES ASSUME NoReset PROVE NoReleases'
  BY DEF NoReleases
<1>1. UNCHANGED <<divert, sender, h_send>>
  BY DEF Receiver, RequestAck, ArmNew, RequestDiscard, ReleaseAckTimeout, ReleaseAck,
     FindKept, AliasKept, RemoveReleased, FreeReleased, ringVars
<1>2. ASSUME NEW type, Answered(type)
      PROVE  Range(h_recv') \subseteq Range(h_recv)
  <2>1. h_recv # <<>> /\ h_recv' = Tail(h_recv) /\ h_recv \in Seq(Orders)
    BY <1>2 DEF Answered, ExpiryInv, IInv, TypeOK
  <2> QED
    BY <2>1, TailWithin
<1>3. CASE RequestAck
  <2> DEFINE a == Head(to_nat)
             o == Head(h_recv)
  <2>1. Range(h_recv') \subseteq Range(h_recv) /\ a.type = "request_ack"
    BY <1>2, <1>3 DEF RequestAck, Answered
  <2> HIDE DEF a, o
  <2>2. receiver' = receiver \/ receiver' = [pc |-> "arm", reply |-> a, order |-> o]
    BY <1>3 DEF RequestAck, a, o
  <2>3. receiver' = receiver \/ (receiver'.pc = "arm" /\ receiver'.reply = a)
    BY <2>2
  <2> QED
    BY <1>1, <2>1, <2>3, NoReleasesKept
<1>4. CASE ArmNew
  <2>1. receiver.pc = "arm" /\ receiver' = [receiver EXCEPT !.pc = "find"] /\ h_recv' = h_recv
    BY <1>4 DEF ArmNew, ringVars
  <2>2. receiver \in [pc : {"arm", "find"}, reply : Acks, order : Requests \cup Releases]
    BY <2>1, AtReceiver DEF ExpiryInv, IInv
  <2>3. receiver'.pc = "find" /\ receiver'.reply = receiver.reply
    BY <2>1, <2>2
  <2>4. receiver.reply.type = "request_ack"
    BY <2>1 DEF NoReleases
  <2> QED
    BY <1>1, <2>1, <2>3, <2>4, NoReleasesKept
<1>5. CASE RequestDiscard
  <2>1. Range(h_recv') \subseteq Range(h_recv) /\ receiver' = receiver
    BY <1>2, <1>5 DEF RequestDiscard
  <2> QED
    BY <1>1, <2>1, NoReleasesKept
<1>6. CASE ReleaseAckTimeout
  <2>1. Range(h_recv') \subseteq Range(h_recv) /\ receiver' = receiver
    BY <1>2, <1>6 DEF ReleaseAckTimeout
  <2> QED
    BY <1>1, <2>1, NoReleasesKept
<1>7. CASE ReleaseAck
  <2>1. Answered("release_ack") /\ Head(h_recv).kind # "TIMEOUT" /\ UNCHANGED <<to_pool, sender>>
    BY <1>7 DEF ReleaseAck
  <2> QED
    BY <2>1, TimeoutAnswered
<1>8. CASE FindKept
  <2> DEFINE p == receiver.order.packet
  <2>1. receiver.pc = "find" /\ h_recv' = h_recv
    BY <1>8 DEF FindKept, ringVars
  <2>2. receiver.reply.type = "request_ack"
    BY <2>1 DEF NoReleases
  <2>3. CASE receiver' = Idle
    BY <1>1, <2>1, <2>3, NoReleasesKept DEF Idle
  <2>4. CASE receiver' # Idle
    <3>1. PICK n \in find(p.from, p.key) :
            receiver' = [pc |-> "alias", reply |-> receiver.reply, packet |-> p,
                         table |-> n, seen |-> node[n].flags]
      BY <1>8, <2>4 DEF FindKept
    <3>2. receiver'.pc = "alias" /\ receiver'.reply = receiver.reply
      BY <3>1
    <3> QED
      BY <1>1, <2>1, <2>2, <3>2, NoReleasesKept
  <2> QED
    BY <2>3, <2>4
<1>9. CASE AliasKept
  <2>1. receiver.pc = "alias" /\ h_recv' = h_recv
    BY <1>9 DEF AliasKept, ringVars
  <2>2. receiver.reply.type = "request_ack"
    BY <2>1 DEF NoReleases
  <2>3. receiver' = Idle
    BY <1>9, <2>2 DEF AliasKept
  <2> QED
    BY <1>1, <2>1, <2>3, NoReleasesKept DEF Idle
<1>10. CASE RemoveReleased \/ FreeReleased
  BY <1>10 DEF NoReleases, RemoveReleased, FreeReleased
<1> QED
  BY <1>3, <1>4, <1>5, <1>6, <1>7, <1>8, <1>9, <1>10 DEF Receiver

LEMMA MainNoRelease ==
  ASSUME ExpiryInv, NoReleases,
         Main \/ (\E key \in LanKeys : Fire(key)) \/ (\E n \in Nodes : GrowIdle(n)) \/ UNCHANGED vars
  PROVE  NoReleases'
<1> SUFFICES ASSUME NoReset PROVE NoReleases'
  BY DEF NoReleases
<1>1. CASE PushTimeout
  <2> DEFINE o == TimeoutOrder(main.table)
  <2>1. h_send' = Append(h_send, o) /\ main.pc = "push" /\ UNCHANGED <<h_recv, divert, sender, receiver>>
    BY <1>1 DEF PushTimeout
  <2>2. h_send \in Seq(Orders) /\ o \in Orders /\ o.kind # "REL"
    <3>1. main.table \in Nodes
      BY <2>1, AtMain DEF ExpiryInv, IInv
    <3> QED
      BY <3>1 DEF ExpiryInv, IInv, TypeOK, Orders, Timeouts, TimeoutOrder
  <2> HIDE DEF o
  <2>3. Range(Append(h_send, o)) = Range(h_send) \cup {o}
    BY <2>2, AppendRange
  <2> QED
    BY <2>1, <2>2, <2>3, NoReleasesKept
<1>2. CASE ~PushTimeout
  <2>1. UNCHANGED <<h_send, h_recv, divert, sender, receiver>>
    BY <1>2 DEF Main, TestIdle, DisarmIdle, Fire, GrowIdle, vars, ringVars
  <2> QED
    BY <2>1, NoReleasesKept
<1> QED
  BY <1>1, <1>2

LEMMA NextNoRelease == ExpiryInv /\ NoReleases /\ [Next]_vars => NoReleases'
<1> SUFFICES ASSUME ExpiryInv, NoReleases, [Next]_vars PROVE NoReleases'
  OBVIOUS
<1>1. ASSUME NEW p \in Packets, Receive(p) PROVE NoReleases'
  BY <1>1, ReceiveNoRelease
<1>2. CASE Divert
  BY <1>2, PushNoRelease, AliasNoRelease, CloseNoRelease DEF Divert
<1>3. CASE Stopped
  BY <1>3, MainNoRelease DEF Stopped
<1> QED
  BY <1>1, <1>2, <1>3, SenderNoRelease, ServerNoRelease, ReceiverNoRelease, MainNoRelease DEF Next

-----------------------------------------------------------------------------
(* The table follows db *)

LEMMA AnswerValue ==
  ASSUME NEW entries, NEW m
  PROVE  /\ m.type = "request_ack" => AfterAnswer(entries, m) = entries \cup {m.entry}
         /\ m.type = "release_ack" => AfterAnswer(entries, m) = entries \ {m.entry}
         /\ m.type = "request_discard" => AfterAnswer(entries, m) = entries
<1>1. ASSUME m.type = "request_ack" PROVE AfterAnswer(entries, m) = entries \cup {m.entry}
  BY <1>1 DEF AfterAnswer
<1>2. ASSUME m.type = "release_ack" PROVE AfterAnswer(entries, m) = entries \ {m.entry}
  BY <1>2 DEF AfterAnswer
<1>3. ASSUME m.type = "request_discard" PROVE AfterAnswer(entries, m) = entries
  BY <1>3 DEF AfterAnswer
<1> QED
  BY <1>1, <1>2, <1>3

LEMMA TableSame ==
  ASSUME ExpiryInv, SameNodes, l2w' = l2w
  PROVE  TableEntries' = TableEntries
<1>1. \A n \in l2w : node'[n].entry = node[n].entry
  BY NodeKey DEF ExpiryInv, SameNodes
<1> QED
  BY <1>1 DEF TableEntries

\* divert writes into nodes that are not freed, and so does the receiver.
LEMMA AliasSame ==
  ASSUME ExpiryInv, Alias \/ AliasKept
  PROVE  SameNodes
<1>1. CASE Alias
  <2>1. divert.packet \in Packets /\ divert.table \in Nodes /\ divert.seen \in TcpStates
    BY <1>1, AtDivert DEF ExpiryInv, IInv, Alias
  <2>2. CASE IsFreed(divert.table)
    <3>1. node' = node
      BY <1>1, <2>2 DEF Alias
    <3> QED
      BY <3>1 DEF SameNodes, IsFreed
  <2>3. CASE ~IsFreed(divert.table)
    <3>1. Apply(divert.table, divert.seen, divert.packet)
      BY <1>1, <2>3 DEF Alias
    <3> QED
      BY <2>1, <2>3, <3>1, ApplyNode DEF SameNodes, ExpiryInv, IInv
  <2> QED
    BY <2>2, <2>3
<1>2. CASE AliasKept
  <2>1. /\ receiver.packet \in Packets /\ receiver.table \in Nodes /\ receiver.seen \in TcpStates
        /\ receiver.pc = "alias"
    BY <1>2, AtReceiver DEF ExpiryInv, IInv, AliasKept
  <2>2. ~IsFreed(receiver.table)
    BY <2>1, NodeKey DEF ExpiryInv, IInv, Pointers
  <2>3. Apply(receiver.table, receiver.seen, receiver.packet)
    BY <1>2 DEF AliasKept
  <2> QED
    BY <2>1, <2>2, <2>3, ApplyNode DEF SameNodes, ExpiryInv, IInv
<1> QED
  BY <1>1, <1>2

LEMMA MarkSame ==
  ASSUME ExpiryInv, MarkClosed \/ \E n \in Nodes : GrowIdle(n)
  PROVE  SameNodes
<1>1. node \in [Nodes -> NodeRecords \cup {Freed}]
  BY DEF ExpiryInv, IInv, TypeOK
<1>2. CASE MarkClosed
  <2>1. divert.table \in Nodes
    BY <1>2, AtDivert DEF ExpiryInv, IInv, MarkClosed
  <2>2. CASE IsFreed(divert.table)
    <3>1. node' = node
      BY <1>2, <2>2 DEF MarkClosed
    <3> QED
      BY <3>1 DEF SameNodes, IsFreed
  <2>3. CASE ~IsFreed(divert.table)
    <3>1. node' = [node EXCEPT ![divert.table].timer_flags = "CLOSE"]
      BY <1>2, <2>3 DEF MarkClosed
    <3>2. /\ \A m \in Nodes \ {divert.table} : node'[m] = node[m]
          /\ node'[divert.table] \in NodeRecords
          /\ node'[divert.table].entry = node[divert.table].entry
      BY <1>1, <2>1, <2>3, <3>1 DEF IsFreed, NodeRecords
    <3> QED
      BY <2>3, <3>2, FreedAssumption DEF SameNodes, IsFreed
  <2> QED
    BY <2>2, <2>3
<1>3. ASSUME NEW n \in Nodes, GrowIdle(n) PROVE SameNodes
  <2>1. ~IsFreed(n) /\ node' = [node EXCEPT ![n].idle = TRUE]
    BY <1>3, NodeKey DEF GrowIdle, ExpiryInv
  <2>2. /\ \A m \in Nodes \ {n} : node'[m] = node[m]
        /\ node'[n] \in NodeRecords
        /\ node'[n].entry = node[n].entry
    BY <1>1, <2>1 DEF IsFreed, NodeRecords
  <2> QED
    BY <2>1, <2>2, FreedAssumption DEF SameNodes, IsFreed
<1> QED
  BY <1>2, <1>3

\* The steps that are neither the server's nor an answer's.
LEMMA TableStill ==
  ASSUME ExpiryInv,
         \/ \E p \in Packets : Receive(p)
         \/ Divert \/ Sender \/ Main
         \/ \E key \in LanKeys : Fire(key)
         \/ \E n \in Nodes : GrowIdle(n)
         \/ ArmNew \/ FindKept \/ AliasKept
  PROVE  SameNodes /\ Running /\ UNCHANGED <<poolVars, l2w, to_nat>>
<1> USE DEF tableVars, netVars
<1>1. CASE Alias \/ AliasKept
  BY <1>1, AliasSame DEF Alias, AliasKept
<1>2. CASE MarkClosed \/ \E n \in Nodes : GrowIdle(n)
  BY <1>2, MarkSame DEF MarkClosed, GrowIdle
<1>3. ASSUME NEW p \in Packets, Receive(p)
      PROVE  Running /\ UNCHANGED <<poolVars, tableVars, to_nat>>
  BY <1>3 DEF Receive
<1>4. CASE PushRequest \/ PushRelease \/ FindClosed \/ DisarmClosed \/ RearmClosed
  <2>1. Running /\ UNCHANGED <<poolVars, tableVars, to_nat>>
    BY <1>4 DEF PushRequest, PushRelease, FindClosed, DisarmClosed, RearmClosed
  <2> QED
    BY <2>1 DEF SameNodes, IsFreed
<1>5. CASE Sender
  <2>1. Running /\ UNCHANGED <<poolVars, tableVars, to_nat>>
    BY <1>5 DEF Sender, Pop, Compose, PushAwaited, Send
  <2> QED
    BY <2>1 DEF SameNodes, IsFreed
<1>6. CASE Main
  <2>1. Running /\ UNCHANGED <<poolVars, tableVars, to_nat>>
    BY <1>6 DEF Main, TestIdle, DisarmIdle, PushTimeout
  <2> QED
    BY <2>1 DEF SameNodes, IsFreed
<1>7. ASSUME NEW key \in LanKeys, Fire(key)
      PROVE  Running /\ UNCHANGED <<poolVars, tableVars, to_nat>>
  BY <1>7 DEF Fire
<1>8. CASE ArmNew \/ FindKept
  <2>1. Running /\ UNCHANGED <<poolVars, tableVars, to_nat>>
    BY <1>8 DEF ArmNew, FindKept
  <2> QED
    BY <2>1 DEF SameNodes, IsFreed
<1> QED
  BY <1>1, <1>2, <1>3, <1>4, <1>5, <1>6, <1>7, <1>8 DEF Divert, SameNodes, IsFreed

\* What is said of the server holds as long as the server does nothing.
LEMMA PoolStill ==
  ASSUME ReplicaInv, UNCHANGED poolVars
  PROVE  DB!IInv'
<1>1. UNCHANGED <<pool_addrs, pool_ports, clients, db, result>> /\ DB!IInv
  BY DEF ReplicaInv, poolVars
<1>2. DB!TypeOK' /\ DB!UniqueMapping' /\ DB!EntriesInPool' /\ DB!Bookkeeping'
  BY <1>1 DEF DB!IInv, DB!TypeOK, DB!UniqueMapping, DB!EntriesInPool, DB!Bookkeeping, DB!InPool
<1>3. DB!FreePortsUnused'
  BY <1>1 DEF DB!IInv, DB!FreePortsUnused, DB!InUse
<1>4. DB!WithinLimit'
  BY <1>1 DEF DB!IInv, DB!WithinLimit, DB!EntriesOf
<1> QED
  BY <1>2, <1>3, <1>4 DEF DB!IInv

LEMMA StillFollows ==
  ASSUME ReplicaInv, SameNodes, Running, UNCHANGED <<poolVars, l2w, to_nat>>
  PROVE  DB!IInv' /\ TableFollowsServer'
<1>1. TableEntries' = TableEntries
  BY TableSame DEF ReplicaInv
<1>2. TableFollowsServer'
  BY <1>1, FollowsKept DEF ReplicaInv, poolVars
<1> QED
  BY <1>2, PoolStill

\* assignConnection puts a connection into db, and the answer says which.
LEMMA RequestFollows ==
  ASSUME ReplicaInv, AnswerRequest
  PROVE  DB!IInv' /\ TableFollowsServer'
<1> USE DEF ReplicaInv
<1> DEFINE m == Head(to_pool)
           a == IF result' = undefined THEN [type |-> "request_discard", lan |-> m.lan]
                ELSE [type |-> "request_ack", entry |-> result']
<1>1. /\ Running /\ to_pool # <<>> /\ m.type = "request" /\ to_nat' = Append(to_nat, a)
      /\ DB!AssignConnection(m.lan[1], m.lan[2]) /\ UNCHANGED tableVars
  BY DEF AnswerRequest
<1>2. m.lan \in LanKeys /\ m.lan[1] \in Clients /\ m.lan[2] \in LanPorts
  <2>1. to_pool \in Seq(Messages)
    BY DEF ExpiryInv, IInv, TypeOK
  <2>2. m \in Messages
    BY <1>1, <2>1, TailWithin
  <2> QED
    BY <1>1, <2>2 DEF Messages, LanKeys
<1> HIDE DEF m
<1>3. DB!IInv'
  BY <1>1, <1>2, SameAssign, ServerStep
<1>4. /\ OneToOne(db') /\ db' \subseteq Connections
  <2>1. (OneToOne(db) /\ db \subseteq Connections)'
    BY <1>3, DbOneToOne, PTL
  <2> QED
    BY <2>1 DEF OneToOne, LanKey, WanKey
<1>5. \/ result' = undefined /\ db' = db
      \/ result' # undefined /\ result' \in Connections /\ db' = db \cup {result'}
  BY <1>1, <1>2, AssignChanges
<1>6. PICK b : b = a
  OBVIOUS
<1>7. b \in Answers /\ db' = AfterAnswer(db, b)
  <2>1. CASE result' = undefined
    <3>1. b = [type |-> "request_discard", lan |-> m.lan]
      BY <1>6, <2>1
    <3>2. b.type = "request_discard"
      BY <3>1
    <3>3. b \in Answers
      BY <1>2, <3>1 DEF Answers
    <3> QED
      BY <1>5, <2>1, <3>2, <3>3, AnswerValue
  <2>2. CASE result' # undefined
    <3>1. b = [type |-> "request_ack", entry |-> result']
      BY <1>6, <2>2
    <3>2. b.type = "request_ack" /\ b.entry = result'
      BY <3>1
    <3>3. b \in Answers
      BY <1>5, <2>2, <3>1 DEF Answers, Acks
    <3> QED
      BY <1>5, <2>2, <3>2, <3>3, AnswerValue
  <2> QED
    BY <2>1, <2>2
<1>8. TableEntries' = TableEntries /\ to_nat' = Append(to_nat, b)
  BY <1>1, <1>6 DEF TableEntries, tableVars
<1>9. TableFollowsServer'
  BY <1>1, <1>4, <1>7, <1>8, FollowsAppend DEF ExpiryInv, IInv
<1> QED
  BY <1>3, <1>9

\* releaseConnection takes a connection out, and the answer says which.
LEMMA ReleaseFollows ==
  ASSUME ReplicaInv, AnswerRelease
  PROVE  DB!IInv' /\ TableFollowsServer'
<1> USE DEF ReplicaInv
<1> DEFINE e == Head(to_pool).entry
           a == [type |-> "release_ack", entry |-> e]
<1>1. /\ Running /\ to_pool # <<>> /\ Head(to_pool).type = "release" /\ to_nat' = Append(to_nat, a)
      /\ DB!ReleaseConnection(e) /\ UNCHANGED tableVars
  BY DEF AnswerRelease
<1>2. e \in Connections
  <2>1. to_pool \in Seq(Messages)
    BY DEF ExpiryInv, IInv, TypeOK
  <2>2. Head(to_pool) \in Messages
    BY <1>1, <2>1, TailWithin
  <2> QED
    BY <1>1, <2>2 DEF Messages
<1> HIDE DEF e
<1>3. DB!IInv'
  BY <1>1, <1>2, SameRelease, ServerStep
<1>4. /\ OneToOne(db') /\ db' \subseteq Connections
  <2>1. (OneToOne(db) /\ db \subseteq Connections)'
    BY <1>3, DbOneToOne, PTL
  <2> QED
    BY <2>1 DEF OneToOne, LanKey, WanKey
<1>5. db' = db \ {e}
  BY <1>1, ReleaseChanges
<1>6. a \in Answers /\ a.type = "release_ack" /\ a.entry = e
  BY <1>2 DEF Answers, Acks
<1> HIDE DEF a
<1>7. db' = AfterAnswer(db, a)
  BY <1>5, <1>6, AnswerValue
<1>8. TableEntries' = TableEntries
  BY <1>1 DEF TableEntries, tableVars
<1>9. TableFollowsServer'
  BY <1>1, <1>4, <1>6, <1>7, <1>8, FollowsAppend DEF ExpiryInv, IInv
<1> QED
  BY <1>3, <1>9

\* A connection whose key is in the table already is in the table itself.
LEMMA RequestAckFollows ==
  ASSUME ReplicaInv, RequestAck
  PROVE  TableFollowsServer'
<1> USE DEF ReplicaInv
<1> DEFINE a == Head(to_nat)
           e == a.entry
<1>1. /\ Running /\ receiver = Idle /\ to_nat # <<>> /\ a.type = "request_ack" /\ to_nat' = Tail(to_nat)
      /\ UNCHANGED poolVars
  BY DEF RequestAck, Answered
<1>2. a \in Answers
  BY <1>1, TailWithin DEF ExpiryInv, IInv, TypeOK
<1>3. e \in Connections
  BY <1>1, <1>2 DEF Answers, Acks
<1>4. /\ node \in [Nodes -> NodeRecords \cup {Freed}]
      /\ l2w \subseteq Nodes /\ w2l = l2w
      /\ \A n \in l2w : ~IsFreed(n)
  BY DEF ExpiryInv, IInv, TypeOK, TreesAgree
<1> HIDE DEF a
<1>5. ASSUME NoReset
      PROVE  TableEntries' = AfterAnswer(TableEntries, a)
  <2>1. AfterAnswer(TableEntries, a) = TableEntries \cup {e}
    BY <1>1, AnswerValue
  <2>2. OneToOne(TableEntries \cup {e})
    BY <1>1, <1>5, <2>1, NextPast DEF a, ExpiryInv, IInv
  <2>3. CASE Collides(e)
    <3>1. UNCHANGED <<node, l2w>>
      BY <2>3 DEF RequestAck, tableVars, a
    <3>2. PICK n \in l2w : LanKey(node[n].entry) = LanKey(e) \/ WanKey(node[n].entry) = WanKey(e)
      BY <1>4, <2>3 DEF Collides, find_l2w, find_w2l
    <3>3. node[n].entry = e /\ node[n].entry \in TableEntries
      BY <2>2, <3>2 DEF OneToOne, TableEntries
    <3> QED
      BY <2>1, <3>1, <3>3 DEF TableEntries
  <2>4. CASE ~Collides(e)
    <3>1. PICK n \in Nodes : IsFreed(n) /\ Insert(n, e)
      BY <2>4 DEF RequestAck, a
    <3>2. /\ l2w' = l2w \cup {n} /\ node'[n].entry = e /\ n \notin l2w
          /\ \A m \in Nodes \ {n} : node'[m] = node[m]
      BY <1>4, <3>1 DEF Insert
    <3>3. TableEntries' = {node'[m].entry : m \in l2w \cup {n}}
      BY <3>2 DEF TableEntries
    <3>4. \A m \in l2w : node'[m].entry = node[m].entry
      BY <1>4, <3>2
    <3> QED
      BY <2>1, <3>2, <3>3, <3>4 DEF TableEntries
  <2> QED
    BY <2>3, <2>4
<1>6. db' = db
  BY <1>1 DEF poolVars
<1> QED
  BY <1>1, <1>5, <1>6, FollowsTail DEF a, ExpiryInv, IInv

LEMMA DiscardFollows ==
  ASSUME ReplicaInv, RequestDiscard
  PROVE  TableFollowsServer'
<1>1. /\ Running /\ to_nat # <<>> /\ Head(to_nat).type = "request_discard" /\ to_nat' = Tail(to_nat)
      /\ UNCHANGED <<db, node, l2w>>
  BY DEF RequestDiscard, Answered, poolVars, tableVars
<1>2. TableEntries' = AfterAnswer(TableEntries, Head(to_nat))
  BY <1>1, AnswerValue DEF TableEntries
<1> QED
  BY <1>1, <1>2, FollowsTail DEF ReplicaInv, ExpiryInv, IInv

\* The node of a timeout has the addresses of the answer, and it alone.
LEMMA ReleaseAckTimeoutFollows ==
  ASSUME ReplicaInv, ReleaseAckTimeout
  PROVE  TableFollowsServer'
<1> USE DEF ReplicaInv
<1> DEFINE a == Head(to_nat)
           e == a.entry
           n == Head(h_recv).table
<1>1. /\ Running /\ receiver = Idle /\ to_nat # <<>> /\ h_recv # <<>>
      /\ to_nat' = Tail(to_nat) /\ h_recv' = Tail(h_recv)
      /\ a.type = "release_ack" /\ Head(h_recv).kind = "TIMEOUT" /\ db' = db
      /\ UNCHANGED <<to_pool, sender>>
  BY DEF ReleaseAckTimeout, Answered, poolVars
<1>2. Head(h_recv) \in Orders /\ BelongsTo(a, Head(h_recv), node)
  BY <1>1, ReceivePairs DEF ExpiryInv, IInv
<1>3. n \in Nodes
  BY <1>1, <1>2 DEF Orders, Requests, Releases, Timeouts
<1>4. IsFreed(n) \/ node[n].entry = e
  BY <1>1, <1>2 DEF BelongsTo, IsFreed
<1>5. node \in [Nodes -> NodeRecords \cup {Freed}] /\ l2w \subseteq Nodes
  BY DEF ExpiryInv, IInv, TypeOK
<1> HIDE DEF a, n
<1>6. CASE IsFreed(n)
  <2>1. failure' = "use after free"
    BY <1>6 DEF ReleaseAckTimeout, n
  <2>2. ~Running'
    BY <2>1, FailureAssumption DEF Running, Failures
  <2> QED
    BY <2>2 DEF TableFollowsServer
<1>7. CASE ~IsFreed(n)
  <2>1. n \in l2w
    BY <1>1, <1>3, <1>7 DEF ExpiryInv, Linked, Idle
  <2>2. /\ l2w' = l2w \ {n}
        /\ \A m \in Nodes \ {n} : node'[m] = node[m]
    BY <1>3, <1>5, <1>7 DEF ReleaseAckTimeout, Remove, Free, n
  <2>3. TableEntries' = {node[m].entry : m \in l2w \ {n}}
    <3>1. \A m \in l2w \ {n} : node'[m] = node[m]
      BY <1>5, <2>2
    <3> QED
      BY <2>2, <3>1 DEF TableEntries
  <2>4. ASSUME NEW m \in l2w, node[m].entry = node[n].entry
        PROVE  m = n
    <3>1. KeyOf("L2W", node[m].entry) = KeyOf("L2W", node[n].entry)
      BY <2>4
    <3> QED
      BY <2>1, <3>1 DEF ExpiryInv, IInv, TreesAgree, Directions
  <2>5. TableEntries' = TableEntries \ {e}
    BY <1>4, <1>7, <2>1, <2>3, <2>4 DEF TableEntries
  <2>6. TableEntries' = AfterAnswer(TableEntries, a)
    BY <1>1, <2>5, AnswerValue
  <2> QED
    BY <1>1, <2>6, FollowsTail DEF a, ExpiryInv, IInv
<1> QED
  BY <1>6, <1>7

\* Nothing else that the receiver does with a release happens.
LEMMA ReleasesFollow ==
  ASSUME ReplicaInv, ReleaseAck \/ RemoveReleased \/ FreeReleased
  PROVE  TableFollowsServer'
<1> SUFFICES ASSUME NoReset PROVE FALSE
  BY DEF TableFollowsServer
<1>1. CASE ReleaseAck
  <2>1. Answered("release_ack") /\ Head(h_recv).kind # "TIMEOUT" /\ UNCHANGED <<to_pool, sender>>
    BY <1>1 DEF ReleaseAck
  <2> QED
    BY <2>1, TimeoutAnswered DEF ReplicaInv
<1>2. CASE RemoveReleased \/ FreeReleased
  BY <1>2 DEF ReplicaInv, NoReleases, RemoveReleased, FreeReleased
<1> QED
  BY <1>1, <1>2

-----------------------------------------------------------------------------
(* The specification *)

LEMMA InitReplica == Init => ReplicaInv
<1> SUFFICES ASSUME Init PROVE ReplicaInv
  OBVIOUS
<1>1. ExpiryInv /\ DB!IInv
  BY InitExpiry, ServerInit
<1>2. NoReleases
  BY DEF Init, NoReleases, Idle, Range
<1>3. TableFollowsServer
  <2> DEFINE past == [i \in 0 .. 0 |-> {}]
  <2>1. /\ db = {} /\ to_nat = <<>> /\ l2w = {} /\ Len(to_nat) = 0 /\ DOMAIN to_nat = {}
    BY DEF Init
  <2>2. TableEntries = {}
    BY <2>1 DEF TableEntries
  <2>3. /\ past \in [0 .. Len(to_nat) -> SUBSET Connections]
        /\ past[0] = TableEntries /\ past[Len(to_nat)] = db
        /\ \A i \in DOMAIN past : past[i] = {}
    BY <2>1, <2>2
  <2> HIDE DEF past
  <2>4. \A i \in DOMAIN past : OneToOne(past[i])
    BY <2>3 DEF OneToOne
  <2> QED
    BY <2>1, <2>3, <2>4 DEF TableFollowsServer
<1> QED
  BY <1>1, <1>2, <1>3 DEF ReplicaInv

LEMMA NextReplica == ReplicaInv /\ [Next]_vars => ReplicaInv'
<1> SUFFICES ASSUME ReplicaInv, [Next]_vars PROVE ReplicaInv'
  OBVIOUS
<1>1. ExpiryInv' /\ NoReleases'
  BY NextExpiry, NextNoRelease DEF ReplicaInv
<1> SUFFICES DB!IInv' /\ TableFollowsServer'
  BY <1>1 DEF ReplicaInv
<1>2. CASE \/ \E p \in Packets : Receive(p)
           \/ Divert \/ Sender \/ Main
           \/ \E key \in LanKeys : Fire(key)
           \/ \E n \in Nodes : GrowIdle(n)
           \/ ArmNew \/ FindKept \/ AliasKept
  BY <1>2, TableStill, StillFollows DEF ReplicaInv
<1>3. CASE PoolServer
  BY <1>3, RequestFollows, ReleaseFollows DEF PoolServer
<1>4. CASE Receiver /\ ~(ArmNew \/ FindKept \/ AliasKept)
  <2>1. UNCHANGED poolVars
    BY <1>4 DEF Receiver, RequestAck, RequestDiscard, ReleaseAckTimeout, ReleaseAck,
       RemoveReleased, FreeReleased
  <2>2. DB!IInv'
    BY <2>1, PoolStill
  <2> QED
    BY <1>4, <2>2, RequestAckFollows, DiscardFollows, ReleaseAckTimeoutFollows, ReleasesFollow
    DEF Receiver
<1>5. CASE Stopped \/ UNCHANGED vars
  <2>1. UNCHANGED vars
    BY <1>5 DEF Stopped
  <2>2. UNCHANGED <<poolVars, l2w, node, to_nat, failure>>
    BY <2>1 DEF vars, netVars, tableVars
  <2>3. CASE Running
    BY <2>2, <2>3, StillFollows DEF SameNodes, IsFreed
  <2>4. CASE ~Running
    <3>1. ~Running'
      BY <2>2, <2>4 DEF Running
    <3> QED
      BY <2>2, <3>1, PoolStill DEF TableFollowsServer
  <2> QED
    BY <2>3, <2>4
<1> QED
  BY <1>2, <1>3, <1>4, <1>5 DEF Next

\* The inductive invariant: on top of ExpiryInv and of what holds of the
\* server's db alone, nothing is released by packet and the table follows db
\* (addrpool.h:266-304, 400-480, entry.js:214-415).
THEOREM ReplicaInvariance == Spec => []ReplicaInv
<1>1. Init => ReplicaInv
  BY InitReplica
<1>2. ReplicaInv /\ [Next]_vars => ReplicaInv'
  BY NextReplica
<1> QED
  BY <1>1, <1>2, PTL DEF Spec

\* Taking in the answers under way, one after the other, makes the table the
\* server's db, and no key is taken twice in between: a connection is never
\* made with an address that the table still has for another
\* (addrpool.h:266-304, 400-480).
THEOREM TableReplicates == Spec => []TableFollowsServer
<1>1. ReplicaInv => TableFollowsServer
  BY DEF ReplicaInv
<1> QED
  BY <1>1, ReplicaInvariance, PTL

-----------------------------------------------------------------------------
(* What a replica gives *)

\* A set of numbers with an element has a least one.
LEMMA LeastIndex ==
  ASSUME NEW T \in SUBSET Nat, T # {}
  PROVE  \E n \in T : \A m \in T : n <= m
<1>1. PICK n \in T : \A m \in T : ~(<<m, n>> \in OpToRel(<, Nat))
  <2>1. T \subseteq Nat
    OBVIOUS
  <2> QED
    BY <2>1, NatLessThanWellFounded, WFMin
<1>2. ASSUME NEW m \in T
      PROVE  n <= m
  <2>1. ~(m < n)
    BY <1>1 DEF OpToRel
  <2> QED
    BY <2>1
<1> QED
  BY <1>2

\* Where a connection of the table left db, its release is acknowledged.
LEMMA ReplicaGivesEntry ==
  ASSUME ReplicaInv, NoReset
  PROVE  NodeHasEntry
<1> SUFFICES ASSUME Running, NEW n \in l2w,
                    node[n].entry \notin db
             PROVE  [type |-> "release_ack", entry |-> node[n].entry] \in Range(to_nat)
  BY DEF NodeHasEntry
<1> DEFINE e == node[n].entry
<1>1. PICK past : Past(past)
  BY PastExists DEF ReplicaInv
<1>2. to_nat \in Seq(Answers) /\ Len(to_nat) \in Nat /\ DOMAIN to_nat = 1 .. Len(to_nat)
  BY LenProperties DEF ReplicaInv, ExpiryInv, IInv, TypeOK
<1>3. e \in past[0] /\ e \notin past[Len(to_nat)]
  BY <1>1 DEF Past, TableEntries
<1> HIDE DEF e
<1>4. PICK k \in {i \in 0 .. Len(to_nat) : e \notin past[i]} :
        \A i \in {i \in 0 .. Len(to_nat) : e \notin past[i]} : k <= i
  <2> DEFINE S == {i \in 0 .. Len(to_nat) : e \notin past[i]}
  <2>1. S \in SUBSET Nat /\ S # {}
    BY <1>2, <1>3
  <2> HIDE DEF S
  <2>2. \E k \in S : \A i \in S : k <= i
    BY <2>1, LeastIndex
  <2> QED
    BY <2>2 DEF S
<1>5. k \in 1 .. Len(to_nat) /\ k - 1 \in 0 .. Len(to_nat) /\ ~(k <= k - 1)
  BY <1>2, <1>3, <1>4
<1>6. e \in past[k - 1] /\ e \notin past[k]
  BY <1>4, <1>5
<1>7. past[k] = AfterAnswer(past[k - 1], to_nat[k]) /\ to_nat[k] \in Answers
  BY <1>1, <1>2, <1>5 DEF Past
<1>8. to_nat[k].type = "release_ack" /\ to_nat[k].entry = e
  <2>1. to_nat[k].type \in {"request_discard", "request_ack", "release_ack"}
    BY <1>7 DEF Answers, Acks
  <2> QED
    BY <1>6, <1>7, <2>1, AnswerValue
<1>9. to_nat[k] = [type |-> "release_ack", entry |-> e]
  BY <1>7, <1>8 DEF Answers, Acks
<1> QED
  BY <1>2, <1>5, <1>9 DEF e, Range

\* Where a connection of db entered it, its request is acknowledged.
LEMMA ReplicaGivesNode ==
  ASSUME ReplicaInv, NoReset
  PROVE  EntryHasNode
<1> SUFFICES ASSUME Running, NEW e \in db,
                    ~\E n \in l2w : node[n].entry = e
             PROVE  [type |-> "request_ack", entry |-> e] \in Range(to_nat)
  BY DEF EntryHasNode
<1>1. PICK past : Past(past)
  BY PastExists DEF ReplicaInv
<1>2. to_nat \in Seq(Answers) /\ Len(to_nat) \in Nat /\ DOMAIN to_nat = 1 .. Len(to_nat)
  BY LenProperties DEF ReplicaInv, ExpiryInv, IInv, TypeOK
<1>3. e \notin past[0] /\ e \in past[Len(to_nat)]
  BY <1>1 DEF Past, TableEntries
<1>4. PICK k \in {i \in 0 .. Len(to_nat) : e \in past[i]} :
        \A i \in {i \in 0 .. Len(to_nat) : e \in past[i]} : k <= i
  <2> DEFINE S == {i \in 0 .. Len(to_nat) : e \in past[i]}
  <2>1. S \in SUBSET Nat /\ S # {}
    BY <1>2, <1>3
  <2> HIDE DEF S
  <2>2. \E k \in S : \A i \in S : k <= i
    BY <2>1, LeastIndex
  <2> QED
    BY <2>2 DEF S
<1>5. k \in 1 .. Len(to_nat) /\ k - 1 \in 0 .. Len(to_nat) /\ ~(k <= k - 1)
  BY <1>2, <1>3, <1>4
<1>6. e \notin past[k - 1] /\ e \in past[k]
  BY <1>4, <1>5
<1>7. past[k] = AfterAnswer(past[k - 1], to_nat[k]) /\ to_nat[k] \in Answers
  BY <1>1, <1>2, <1>5 DEF Past
<1>8. to_nat[k].type = "request_ack" /\ to_nat[k].entry = e
  <2>1. to_nat[k].type \in {"request_discard", "request_ack", "release_ack"}
    BY <1>7 DEF Answers, Acks
  <2> QED
    BY <1>6, <1>7, <2>1, AnswerValue
<1>9. to_nat[k] = [type |-> "request_ack", entry |-> e]
  BY <1>7, <1>8 DEF Answers, Acks
<1> QED
  BY <1>2, <1>5, <1>9 DEF Range

\* A node stands for a connection of the server, or the answer that removes
\* it is under way, so that no packet of another client is sent to this one.
\* With resets it does not hold: a release that was acknowledged may leave
\* its node (addrpool.h:387-480).
THEOREM NodesHaveEntries ==
  ASSUME NoReset
  PROVE  Spec => []NodeHasEntry
<1>1. ReplicaInv => NodeHasEntry
  BY ReplicaGivesEntry
<1> QED
  BY <1>1, ReplicaInvariance, PTL

\* A connection of the server has its node, or the answer that makes it is
\* under way: no port is lost, though the server has no timers
\* (addrpool.h:266-304, 662-748).
THEOREM EntriesHaveNodes ==
  ASSUME NoReset
  PROVE  Spec => []EntryHasNode
<1>1. ReplicaInv => EntryHasNode
  BY ReplicaGivesNode
<1> QED
  BY <1>1, ReplicaInvariance, PTL
=============================================================================
