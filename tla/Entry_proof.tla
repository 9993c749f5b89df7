---------------------------- MODULE Entry_proof -----------------------------
(***************************************************************************)
(* The invariants of Entry for any clients, addresses, ports and limit.    *)
(* The inductive invariant is IInv of module Entry.                        *)
(***************************************************************************)
EXTENDS Entry, FiniteSetTheorems, SequenceTheorems, TLAPS

-----------------------------------------------------------------------------
(* The lists of free ports *)

\* shift(): what is left of a list without repetition, and what it lost.
LEMMA TailFact ==
  ASSUME NEW S, NEW q \in Seq(S), q # <<>>, IsInjective(q)
  PROVE  /\ Tail(q) \in Seq(S)
         /\ IsInjective(Tail(q))
         /\ Range(Tail(q)) = Range(q) \ {Head(q)}
         /\ Head(q) \in Range(q) /\ Head(q) \in S
<1>1. /\ Tail(q) \in Seq(S) /\ Head(q) \in S /\ Head(q) = q[1]
      /\ Len(q) \in Nat /\ Len(q) > 0 /\ Len(Tail(q)) = Len(q) - 1
      /\ \A i \in 1 .. Len(q) - 1 : Tail(q)[i] = q[i + 1]
      /\ DOMAIN q = 1 .. Len(q) /\ DOMAIN Tail(q) = 1 .. Len(q) - 1
  BY HeadTailProperties
<1>2. IsInjective(Tail(q))
  BY <1>1 DEF IsInjective
<1>3. Range(Tail(q)) \subseteq Range(q) \ {Head(q)}
  BY <1>1 DEF IsInjective, Range
<1>4. ASSUME NEW x \in Range(q), x # Head(q) PROVE x \in Range(Tail(q))
  <2>1. PICK i \in 1 .. Len(q) : x = q[i]
    BY <1>1 DEF Range
  <2>2. i # 1 /\ i - 1 \in 1 .. Len(q) - 1 /\ (i - 1) + 1 = i
    BY <1>1, <1>4, <2>1
  <2>3. x = Tail(q)[i - 1]
    BY <1>1, <2>1, <2>2
  <2> QED
    BY <1>1, <2>2, <2>3 DEF Range
<1>5. Head(q) \in Range(q)
  BY <1>1 DEF Range
<1> QED
  BY <1>1, <1>2, <1>3, <1>4, <1>5

\* push(): the list with one more element.
LEMMA AppendFact ==
  ASSUME NEW S, NEW q \in Seq(S), NEW x \in S
  PROVE  /\ Append(q, x) \in Seq(S)
         /\ Range(Append(q, x)) = Range(q) \cup {x}
         /\ IsInjective(q) /\ x \notin Range(q) => IsInjective(Append(q, x))
<1>1. /\ Append(q, x) \in Seq(S) /\ Len(q) \in Nat
      /\ DOMAIN q = 1 .. Len(q) /\ DOMAIN Append(q, x) = 1 .. Len(q) + 1
      /\ \A i \in 1 .. Len(q) : Append(q, x)[i] = q[i]
      /\ Append(q, x)[Len(q) + 1] = x
  BY AppendProperties
<1>2. Range(Append(q, x)) = Range(q) \cup {x}
  BY <1>1 DEF Range
<1>3. ASSUME IsInjective(q), x \notin Range(q)
      PROVE  IsInjective(Append(q, x))
  BY <1>1, <1>3 DEF IsInjective, Range
<1> QED
  BY <1>1, <1>2, <1>3

\* splice(index, 1): the list without the element at i.
LEMMA SpliceFact ==
  ASSUME NEW S, NEW q \in Seq(S), NEW i \in DOMAIN q, IsInjective(q)
  PROVE  LET r == SubSeq(q, 1, i - 1) \o SubSeq(q, i + 1, Len(q))
         IN  r \in Seq(S) /\ IsInjective(r) /\ Range(r) = Range(q) \ {q[i]}
<1> DEFINE r == SubSeq(q, 1, i - 1) \o SubSeq(q, i + 1, Len(q))
<1>1. Len(q) \in Nat /\ i \in 1 .. Len(q) /\ DOMAIN q = 1 .. Len(q)
  OBVIOUS
<1>2. /\ SubSeq(q, 1, i - 1) \in Seq(S)
      /\ Len(SubSeq(q, 1, i - 1)) = i - 1
      /\ \A j \in 1 .. i - 1 : SubSeq(q, 1, i - 1)[j] = q[j]
  BY <1>1, SubSeqProperties
<1>3. /\ SubSeq(q, i + 1, Len(q)) \in Seq(S)
      /\ Len(SubSeq(q, i + 1, Len(q))) = Len(q) - i
      /\ \A j \in 1 .. Len(q) - i : SubSeq(q, i + 1, Len(q))[j] = q[j + i]
  BY <1>1, SubSeqProperties
<1>4. /\ r \in Seq(S) /\ DOMAIN r = 1 .. Len(q) - 1
      /\ \A j \in 1 .. Len(q) - 1 : r[j] = IF j < i THEN q[j] ELSE q[j + 1]
  <2> DEFINE a == SubSeq(q, 1, i - 1)
             b == SubSeq(q, i + 1, Len(q))
  <2>1. /\ a \in Seq(S) /\ b \in Seq(S)
        /\ Len(a) = i - 1 /\ Len(b) = Len(q) - i
        /\ \A j \in 1 .. i - 1 : a[j] = q[j]
        /\ \A j \in 1 .. Len(q) - i : b[j] = q[j + i]
    BY <1>2, <1>3
  <2> HIDE DEF a, b
  <2>2. /\ a \o b \in Seq(S) /\ Len(a \o b) = Len(a) + Len(b)
        /\ \A j \in 1 .. Len(a) + Len(b) :
             (a \o b)[j] = IF j <= Len(a) THEN a[j] ELSE b[j - Len(a)]
    BY <2>1, ConcatProperties
  <2>3. Len(a \o b) = Len(q) - 1 /\ DOMAIN (a \o b) = 1 .. Len(q) - 1
    <3>1. Len(a \o b) = Len(q) - 1
      BY <1>1, <2>1, <2>2
    <3>2. DOMAIN (a \o b) = 1 .. Len(a \o b)
      BY <2>2, LenProperties
    <3> QED
      BY <3>1, <3>2
  <2>4. ASSUME NEW j \in 1 .. Len(q) - 1
        PROVE  (a \o b)[j] = IF j < i THEN q[j] ELSE q[j + 1]
    <3>1. CASE j < i
      BY <1>1, <2>1, <2>2, <3>1
    <3>2. CASE ~(j < i)
      <4>1. j - Len(a) \in 1 .. Len(q) - i /\ (j - Len(a)) + i = j + 1
        BY <1>1, <2>1, <3>2
      <4>2. (a \o b)[j] = b[j - Len(a)]
        BY <1>1, <2>1, <2>2, <3>2
      <4> QED
        BY <2>1, <3>2, <4>1, <4>2
    <3> QED
      BY <3>1, <3>2
  <2>5. r = a \o b
    BY DEF a, b
  <2> QED
    BY <2>2, <2>3, <2>4, <2>5
<1> HIDE DEF r
<1> DEFINE From(j) == IF j < i THEN j ELSE j + 1
<1>5. ASSUME NEW j \in 1 .. Len(q) - 1
      PROVE  From(j) \in 1 .. Len(q) /\ From(j) # i /\ r[j] = q[From(j)]
  BY <1>1, <1>4
<1>6. IsInjective(r)
  <2>1. \A j, k \in 1 .. Len(q) - 1 : From(j) = From(k) => j = k
    BY <1>1
  <2> HIDE DEF From
  <2> QED
    BY <1>1, <1>4, <1>5, <2>1 DEF IsInjective
<1> HIDE DEF From
<1>7. Range(r) \subseteq Range(q) \ {q[i]}
  <2> SUFFICES ASSUME NEW j \in 1 .. Len(q) - 1
               PROVE  r[j] \in Range(q) /\ r[j] # q[i]
    BY <1>4 DEF Range
  <2>1. From(j) \in DOMAIN q /\ From(j) # i /\ r[j] = q[From(j)]
    BY <1>1, <1>5
  <2> QED
    BY <2>1 DEF Range, IsInjective
<1>8. ASSUME NEW x \in Range(q), x # q[i] PROVE x \in Range(r)
  <2>1. PICK j \in 1 .. Len(q) : x = q[j]
    BY <1>1 DEF Range
  <2>2. CASE j < i
    <3>1. j \in 1 .. Len(q) - 1 /\ r[j] = x
      BY <1>1, <1>4, <2>1, <2>2
    <3> QED
      BY <1>4, <3>1 DEF Range
  <2>3. CASE j > i
    <3>1. j - 1 \in 1 .. Len(q) - 1 /\ r[j - 1] = x
      BY <1>1, <1>4, <2>1, <2>3
    <3> QED
      BY <1>4, <3>1 DEF Range
  <2> QED
    BY <1>1, <1>8, <2>1, <2>2, <2>3
<1>9. Range(r) = Range(q) \ {q[i]}
  BY <1>7, <1>8
<1> QED
  BY <1>4, <1>6, <1>9 DEF r

-----------------------------------------------------------------------------
(* The inductive invariant *)

LEMMA AllPortsFact ==
  /\ AllPorts \in Seq(Ports)
  /\ IsInjective(AllPorts)
  /\ Range(AllPorts) = Ports
<1> USE PortAssumption DEF Ports
<1>1. \A i \in 1 .. endPort + 1 - startPort : startPort + i - 1 \in Ports
  OBVIOUS
<1>2. AllPorts \in Seq(Ports) /\ DOMAIN AllPorts = 1 .. endPort + 1 - startPort
  <2>1. CASE startPort <= endPort + 1
    <3>1. endPort + 1 - startPort \in Nat
      BY <2>1
    <3> QED
      BY <1>1, <3>1, IsASeq DEF AllPorts
  <2>2. CASE startPort > endPort + 1
    <3>1. 1 .. endPort + 1 - startPort = {} /\ AllPorts = <<>>
      BY <2>2 DEF AllPorts
    <3> QED
      BY <3>1
  <2> QED
    BY <2>1, <2>2
<1>3. IsInjective(AllPorts)
  BY <1>2 DEF AllPorts, IsInjective
<1>4. \A p \in Ports : p + 1 - startPort \in DOMAIN AllPorts
                       /\ AllPorts[p + 1 - startPort] = p
  BY <1>2 DEF AllPorts
<1>5. Range(AllPorts) = Ports
  BY <1>1, <1>2, <1>4 DEF AllPorts, Range
<1> QED
  BY <1>2, <1>3, <1>5

LEMMA InitIInv == Init => IInv
<1> SUFFICES ASSUME Init PROVE IInv
  OBVIOUS
<1>1. IsInjective(<<>>) /\ Range(<<>>) = {}
  BY DEF IsInjective, Range
<1>2. TypeOK
  BY DEF Init, TypeOK
<1>3. UniqueMapping /\ EntriesInPool
  BY DEF Init, UniqueMapping, EntriesInPool
<1>4. FreePortsUnused
  BY <1>1 DEF Init, FreePortsUnused, InUse
<1>5. WithinLimit
  BY FS_EmptySet, LimitAssumption DEF Init, WithinLimit, EntriesOf
<1>6. Bookkeeping
  BY <1>1, FS_EmptySet DEF Init, Bookkeeping
<1> QED
  BY <1>2, <1>3, <1>4, <1>5, <1>6 DEF IInv

\* A new address comes with the whole range, and no connection uses it.
LEMMA AddPoolAddressStep ==
  ASSUME IInv, NEW a \in WanAddrs, AddPoolAddress(a)
  PROVE  IInv'
<1> USE DEF IInv, AddPoolAddress
<1>1. /\ pool_addrs' \in Seq(WanAddrs)
      /\ Range(pool_addrs') = Range(pool_addrs) \cup {a}
      /\ IsInjective(pool_addrs')
  BY AppendFact DEF TypeOK, Bookkeeping, InPool
<1>2. TypeOK'
  BY <1>1, AllPortsFact DEF TypeOK
<1>3. UniqueMapping' /\ WithinLimit'
  BY DEF UniqueMapping, WithinLimit, EntriesOf
<1>4. FreePortsUnused'
  <2>1. InUse(a) = {}
    BY DEF EntriesInPool, InUse
  <2>2. \A b \in WanAddrs : InUse(b)' = InUse(b)
    BY DEF InUse
  <2>3. pool_ports'[a] = AllPorts
    BY DEF TypeOK
  <2>4. \A b \in WanAddrs : b # a => pool_ports'[b] = pool_ports[b]
    BY DEF TypeOK
  <2> QED
    BY <2>1, <2>2, <2>3, <2>4, AllPortsFact DEF FreePortsUnused
<1>5. EntriesInPool'
  BY <1>1 DEF EntriesInPool, InPool
<1>6. Bookkeeping'
  BY <1>1 DEF Bookkeeping
<1> QED
  BY <1>2, <1>3, <1>4, <1>5, <1>6

\* An address that leaves takes its connections along.
LEMMA DelPoolAddressStep ==
  ASSUME IInv, NEW a \in WanAddrs, DelPoolAddress(a)
  PROVE  IInv'
<1> USE DEF IInv, DelPoolAddress, WithoutAddress
<1>1. /\ pool_addrs' \in Seq(WanAddrs)
      /\ Range(pool_addrs') = Range(pool_addrs) \ {a}
      /\ IsInjective(pool_addrs')
  <2>1. PICK i \in DOMAIN pool_addrs :
          /\ pool_addrs[i] = a
          /\ pool_addrs' = SubSeq(pool_addrs, 1, i - 1)
                           \o SubSeq(pool_addrs, i + 1, Len(pool_addrs))
    OBVIOUS
  <2>2. pool_addrs \in Seq(WanAddrs) /\ IsInjective(pool_addrs)
    BY DEF TypeOK, Bookkeeping
  <2> HIDE DEF IInv, DelPoolAddress
  <2> QED
    BY <2>1, <2>2, SpliceFact
<1>2. db' \subseteq db /\ IsFiniteSet(db')
  BY FS_Subset DEF Bookkeeping
<1>3. TypeOK'
  BY <1>1, <1>2 DEF TypeOK
<1>4. UniqueMapping'
  BY <1>2 DEF UniqueMapping
<1>5. FreePortsUnused'
  <2>1. \A b \in WanAddrs : InUse(b)' \subseteq InUse(b)
    BY <1>2 DEF InUse
  <2>2. IsInjective(<<>>) /\ Range(<<>>) = {}
    BY DEF IsInjective, Range
  <2>3. \A b \in WanAddrs : pool_ports'[b] = IF b = a THEN <<>> ELSE pool_ports[b]
    BY DEF TypeOK
  <2> QED
    BY <2>1, <2>2, <2>3 DEF FreePortsUnused
<1>6. EntriesInPool'
  BY <1>1 DEF EntriesInPool, InPool
<1>7. WithinLimit'
  <2>1. ASSUME NEW c \in Clients
        PROVE  Cardinality(EntriesOf(c)') <= maxConnection
    <3>1. EntriesOf(c)' \subseteq EntriesOf(c) /\ EntriesOf(c) \subseteq db
      BY <1>2 DEF EntriesOf
    <3>2. IsFiniteSet(EntriesOf(c))
      BY <3>1, FS_Subset DEF Bookkeeping
    <3>3. /\ IsFiniteSet(EntriesOf(c)')
          /\ Cardinality(EntriesOf(c)') <= Cardinality(EntriesOf(c))
      BY <3>1, <3>2, FS_Subset
    <3>4. Cardinality(EntriesOf(c)) \in Nat /\ Cardinality(EntriesOf(c)') \in Nat
      BY <3>2, <3>3, FS_CardinalityType
    <3> QED
      BY <3>3, <3>4, LimitAssumption DEF WithinLimit
  <2> QED
    BY <2>1 DEF WithinLimit, EntriesOf
<1>8. Bookkeeping'
  BY <1>1, <1>2 DEF Bookkeeping
<1> QED
  BY <1>3, <1>4, <1>5, <1>6, <1>7, <1>8

LEMMA RestRange ==
  ASSUME NEW x \in Nat, NEW n \in Nat, n > 0
  PROVE  x % n \in 0 .. n - 1
  OBVIOUS

\* The address of a client is one of the pool, and the port at the head of
\* its list is in nobody's use.
LEMMA ChosenPort ==
  ASSUME IInv, NEW lan_ip \in Clients, HasPort(lan_ip)
  PROVE  LET a == AssignWanIP(lan_ip)
         IN  /\ a \in WanAddrs /\ InPool(a) /\ pool_ports[a] # <<>>
             /\ Head(pool_ports[a]) \in Ports
             /\ Head(pool_ports[a]) \notin InUse(a)
<1> DEFINE a == AssignWanIP(lan_ip)
<1>1. pool_addrs \in Seq(WanAddrs) /\ pool_ports \in [WanAddrs -> Seq(Ports)]
  BY DEF IInv, TypeOK
<1>2. pool_addrs # <<>> /\ pool_ports[a] # <<>>
  BY DEF HasPort, AssignWanIP
<1>3. a \in WanAddrs /\ InPool(a)
  <2>1. Len(pool_addrs) \in Nat /\ Len(pool_addrs) > 0
        /\ DOMAIN pool_addrs = 1 .. Len(pool_addrs)
    BY <1>1, <1>2
  <2>2. lan_ip % 256 \in Nat
    BY RestRange, ClientsAssumption
  <2>3. (lan_ip % 256) % Len(pool_addrs) \in 0 .. Len(pool_addrs) - 1
    BY <2>1, <2>2, RestRange
  <2>4. ((lan_ip % 256) % Len(pool_addrs)) + 1 \in DOMAIN pool_addrs
    BY <2>1, <2>3
  <2>5. a = pool_addrs[((lan_ip % 256) % Len(pool_addrs)) + 1]
    BY <1>2 DEF AssignWanIP
  <2> QED
    BY <1>1, <2>1, <2>4, <2>5 DEF InPool, Range
<1> HIDE DEF a
<1>4. Head(pool_ports[a]) \in Range(pool_ports[a]) /\ Head(pool_ports[a]) \in Ports
  BY <1>1, <1>2, <1>3, TailFact DEF IInv, FreePortsUnused
<1>5. Head(pool_ports[a]) \notin InUse(a)
  BY <1>3, <1>4 DEF IInv, FreePortsUnused
<1> QED
  BY <1>2, <1>3, <1>4, <1>5 DEF a

\* Taking a port keeps the lists in order; the port is in no list any more.
LEMMA TakePortFact ==
  ASSUME IInv, NEW a \in WanAddrs, pool_ports[a] # <<>>, TakePort(a)
  PROVE  /\ pool_ports' \in [WanAddrs -> Seq(Ports)]
         /\ \A b \in WanAddrs : IsInjective(pool_ports'[b])
         /\ \A b \in WanAddrs : Range(pool_ports'[b]) =
              IF b = a THEN Range(pool_ports[b]) \ {Head(pool_ports[a])}
              ELSE Range(pool_ports[b])
<1> USE DEF IInv, TypeOK, FreePortsUnused, TakePort
<1>1. /\ Tail(pool_ports[a]) \in Seq(Ports) /\ IsInjective(Tail(pool_ports[a]))
      /\ Range(Tail(pool_ports[a])) = Range(pool_ports[a]) \ {Head(pool_ports[a])}
  BY TailFact
<1>2. \A b \in WanAddrs :
        pool_ports'[b] = IF b = a THEN Tail(pool_ports[a]) ELSE pool_ports[b]
  OBVIOUS
<1> QED
  BY <1>1, <1>2

LEMMA AssignOverLimitStep ==
  ASSUME IInv, NEW lan_ip \in Clients, NEW lan_port \in LanPorts,
         AssignOverLimit(lan_ip, lan_port)
  PROVE  IInv'
<1> DEFINE a == AssignWanIP(lan_ip)
<1>1. a \in WanAddrs /\ pool_ports[a] # <<>> /\ TakePort(a)
  BY ChosenPort DEF AssignOverLimit
<1> HIDE DEF a
<1> USE DEF IInv, AssignOverLimit
<1>2. TypeOK'
  BY <1>1, TakePortFact DEF TypeOK
<1>3. UniqueMapping' /\ WithinLimit' /\ EntriesInPool' /\ Bookkeeping'
  BY DEF UniqueMapping, WithinLimit, EntriesOf, EntriesInPool, InPool, Bookkeeping
<1>4. FreePortsUnused'
  <2>1. \A b \in WanAddrs : InUse(b)' = InUse(b)
    BY DEF InUse
  <2>2. \A b \in WanAddrs : /\ IsInjective(pool_ports'[b])
                            /\ Range(pool_ports'[b]) \subseteq Range(pool_ports[b])
    BY <1>1, TakePortFact
  <2> QED
    BY <2>1, <2>2 DEF FreePortsUnused
<1> QED
  BY <1>2, <1>3, <1>4

LEMMA AssignNewStep ==
  ASSUME IInv, NEW lan_ip \in Clients, NEW lan_port \in LanPorts,
         AssignNew(lan_ip, lan_port)
  PROVE  IInv'
<1> DEFINE a == AssignWanIP(lan_ip)
           n == NewEntry(lan_ip, lan_port)
<1>1. /\ a \in WanAddrs /\ InPool(a) /\ pool_ports[a] # <<>> /\ TakePort(a)
      /\ Head(pool_ports[a]) \in Ports /\ Head(pool_ports[a]) \notin InUse(a)
  BY ChosenPort DEF AssignNew
<1>2. /\ n \in Entries /\ n.lan_ip = lan_ip /\ n.lan_port = lan_port
      /\ n.wan_ip = a /\ n.wan_port = Head(pool_ports[a])
  BY <1>1 DEF NewEntry, Entries
<1>3. /\ db' = db \cup {n} /\ clients' = clients \cup {lan_ip} /\ result' = n
      /\ UNCHANGED pool_addrs
      /\ SameEntry(lan_ip, lan_port) = {} /\ ~AtLimit(lan_ip)
  BY DEF AssignNew
<1> HIDE DEF a, n
<1> USE DEF IInv
<1>4. TypeOK'
  BY <1>1, <1>2, <1>3, TakePortFact DEF TypeOK
<1>5. UniqueMapping'
  <2>1. \A e \in db : ~(e.lan_ip = n.lan_ip /\ e.lan_port = n.lan_port)
    BY <1>2, <1>3 DEF SameEntry
  <2>2. \A e \in db : ~(e.wan_ip = n.wan_ip /\ e.wan_port = n.wan_port)
    BY <1>1, <1>2 DEF InUse
  <2> QED
    BY <1>3, <2>1, <2>2 DEF UniqueMapping
<1>6. FreePortsUnused'
  <2>1. \A b \in WanAddrs : InUse(b)' =
          IF b = a THEN InUse(b) \cup {Head(pool_ports[a])} ELSE InUse(b)
    BY <1>2, <1>3 DEF InUse
  <2>2. \A b \in WanAddrs :
          /\ IsInjective(pool_ports'[b])
          /\ Range(pool_ports'[b]) =
               IF b = a THEN Range(pool_ports[b]) \ {Head(pool_ports[a])}
               ELSE Range(pool_ports[b])
    BY <1>1, TakePortFact
  <2> QED
    BY <2>1, <2>2 DEF FreePortsUnused
<1>7. EntriesInPool'
  BY <1>1, <1>2, <1>3 DEF EntriesInPool, InPool
<1>8. IsFiniteSet(db')
  BY <1>3, FS_AddElement DEF Bookkeeping
<1>9. WithinLimit'
  <2>1. ASSUME NEW c \in Clients
        PROVE  Cardinality(EntriesOf(c)') <= maxConnection
    <3>1. IsFiniteSet(EntriesOf(c)) /\ Cardinality(EntriesOf(c)) \in Nat
      BY FS_Subset, FS_CardinalityType DEF Bookkeeping, EntriesOf
    <3>2. CASE c # lan_ip
      <4>1. EntriesOf(c)' = EntriesOf(c)
        BY <1>2, <1>3, <3>2 DEF EntriesOf
      <4> QED
        BY <4>1 DEF WithinLimit
    <3>3. CASE c = lan_ip
      <4>1. EntriesOf(c)' = EntriesOf(c) \cup {n} /\ n \notin EntriesOf(c)
        BY <1>2, <1>3, <3>3 DEF EntriesOf, SameEntry
      <4>2. Cardinality(EntriesOf(c)') = Cardinality(EntriesOf(c)) + 1
        BY <3>1, <4>1, FS_AddElement
      <4>3. Cardinality(EntriesOf(c)) < maxConnection
        <5>1. CASE c \in clients
          BY <1>3, <3>1, <3>3, <5>1, LimitAssumption DEF AtLimit
        <5>2. CASE c \notin clients
          <6>1. EntriesOf(c) = {}
            BY <5>2 DEF EntriesOf, Bookkeeping
          <6> QED
            BY <6>1, FS_EmptySet, LimitAssumption
        <5> QED
          BY <5>1, <5>2
      <4> QED
        BY <3>1, <4>2, <4>3, LimitAssumption
    <3> QED
      BY <3>2, <3>3
  <2> QED
    BY <2>1 DEF WithinLimit, EntriesOf
<1>10. Bookkeeping'
  BY <1>2, <1>3, <1>8 DEF Bookkeeping
<1> QED
  BY <1>4, <1>5, <1>6, <1>7, <1>9, <1>10

\* A release gives back a port that was in use, so in no list.
LEMMA ReleaseConnectionStep ==
  ASSUME IInv, NEW e \in db, db' = db \ {e}, ReturnPort(e),
         UNCHANGED <<pool_addrs, clients, result>>
  PROVE  IInv'
<1> DEFINE a == e.wan_ip
<1> USE DEF IInv
<1>1. e \in Entries /\ a \in WanAddrs /\ e.wan_port \in Ports /\ e.wan_port \in InUse(a)
  BY DEF TypeOK, Entries, InUse
<1>2. e.wan_port \notin Range(pool_ports[a])
  BY <1>1 DEF FreePortsUnused
<1>3. /\ pool_ports' \in [WanAddrs -> Seq(Ports)]
      /\ \A b \in WanAddrs : IsInjective(pool_ports'[b])
      /\ \A b \in WanAddrs : Range(pool_ports'[b]) =
           IF b = a THEN Range(pool_ports[b]) \cup {e.wan_port}
           ELSE Range(pool_ports[b])
  <2>1. /\ Append(pool_ports[a], e.wan_port) \in Seq(Ports)
        /\ Range(Append(pool_ports[a], e.wan_port)) =
             Range(pool_ports[a]) \cup {e.wan_port}
        /\ IsInjective(Append(pool_ports[a], e.wan_port))
    BY <1>1, <1>2, AppendFact DEF TypeOK, FreePortsUnused
  <2>2. \A b \in WanAddrs : pool_ports'[b] =
          IF b = a THEN Append(pool_ports[a], e.wan_port) ELSE pool_ports[b]
    BY <1>1 DEF ReturnPort, TypeOK
  <2>3. pool_ports' \in [WanAddrs -> Seq(Ports)]
    BY <1>1, <2>1 DEF ReturnPort, TypeOK
  <2> QED
    BY <2>1, <2>2, <2>3 DEF FreePortsUnused
<1>4. TypeOK'
  BY <1>3 DEF TypeOK
<1>5. UniqueMapping' /\ EntriesInPool'
  BY DEF UniqueMapping, EntriesInPool, InPool
<1>6. FreePortsUnused'
  <2>1. \A b \in WanAddrs : InUse(b)' \subseteq InUse(b)
    BY DEF InUse
  <2>2. e.wan_port \notin InUse(a)'
    BY DEF InUse, UniqueMapping
  <2> QED
    BY <1>3, <2>1, <2>2 DEF FreePortsUnused
<1>7. IsFiniteSet(db')
  BY FS_Subset DEF Bookkeeping
<1>8. WithinLimit'
  <2>1. ASSUME NEW c \in Clients
        PROVE  Cardinality(EntriesOf(c)') <= maxConnection
    <3>1. EntriesOf(c)' \subseteq EntriesOf(c)
      BY DEF EntriesOf
    <3>2. IsFiniteSet(EntriesOf(c))
      BY FS_Subset DEF Bookkeeping, EntriesOf
    <3>3. /\ IsFiniteSet(EntriesOf(c)')
          /\ Cardinality(EntriesOf(c)') <= Cardinality(EntriesOf(c))
      BY <3>1, <3>2, FS_Subset
    <3>4. Cardinality(EntriesOf(c)) \in Nat /\ Cardinality(EntriesOf(c)') \in Nat
      BY <3>2, <3>3, FS_CardinalityType
    <3> QED
      BY <3>3, <3>4, LimitAssumption DEF WithinLimit
  <2> QED
    BY <2>1 DEF WithinLimit, EntriesOf
<1>9. Bookkeeping'
  BY <1>7 DEF Bookkeeping
<1> QED
  BY <1>4, <1>5, <1>6, <1>8, <1>9

LEMMA NextStep == IInv /\ [Next]_vars => IInv'
<1> SUFFICES ASSUME IInv, [Next]_vars PROVE IInv'
  OBVIOUS
<1>1. CASE UNCHANGED <<poolVars, clients, db>> /\ result' \in Entries \cup {undefined}
  BY <1>1
  DEF poolVars, IInv, TypeOK, UniqueMapping, FreePortsUnused, InUse,
      EntriesInPool, InPool, WithinLimit, EntriesOf, Bookkeeping
<1>2. CASE UNCHANGED vars
  BY <1>1, <1>2 DEF vars, poolVars, IInv, TypeOK
<1>3. ASSUME NEW lan_ip \in Clients, NEW lan_port \in LanPorts,
             AssignConnection(lan_ip, lan_port)
      PROVE  IInv'
  <2>1. CASE AssignExisting(lan_ip, lan_port)
    <3>1. result' \in Entries
      BY <2>1 DEF AssignExisting, SameEntry, IInv, TypeOK
    <3> QED
      BY <1>1, <2>1, <3>1 DEF AssignExisting
  <2>2. CASE AssignNoPort(lan_ip, lan_port)
    BY <1>1, <2>2 DEF AssignNoPort
  <2> QED
    BY <1>3, <2>1, <2>2, AssignOverLimitStep, AssignNewStep DEF AssignConnection
<1>4. ASSUME NEW e \in Entries, ReleaseConnection(e) PROVE IInv'
  BY <1>2, <1>4, ReleaseConnectionStep DEF ReleaseConnection
<1> QED
  BY <1>2, <1>3, <1>4, AddPoolAddressStep, DelPoolAddressStep DEF Next

\* Every reachable state of an Entry object satisfies the inductive invariant.
THEOREM Invariance == Spec => []IInv
  BY InitIInv, NextStep, PTL DEF Spec

\* The types are kept; a port outside the range is never listed or assigned.
THEOREM TypeCorrect == Spec => []TypeOK
  BY Invariance, PTL DEF IInv

\* No WAN address and port, and no LAN address and port, has two connections
\* (entry.js:221-276).
THEOREM Unique == Spec => []UniqueMapping
  BY Invariance, PTL DEF IInv

\* A free port is in no connection's use (entry.js:404-415).
THEOREM Unused == Spec => []FreePortsUnused
  BY Invariance, PTL DEF IInv

\* A connection's address is registered (entry.js:63-110).
THEOREM Registered == Spec => []EntriesInPool
  BY Invariance, PTL DEF IInv

\* No client exceeds the maximum (entry.js:249-271).
THEOREM Limited == Spec => []WithinLimit
  BY Invariance, PTL DEF IInv


\* A connection is lost only with its address or by a release, which puts its
\* port behind all free ones (entry.js:69-73, 371-374, 411-415).
THEOREM ReusedLast == Spec => ReleasedPortReusedLast
<1> DEFINE Kept(e) == \/ ~InPool(e.wan_ip)'
                      \/ pool_ports'[e.wan_ip] = Append(pool_ports[e.wan_ip], e.wan_port)
<1>1. ASSUME IInv, Next PROVE \A e \in db \ db' : Kept(e)
  <2>1. ASSUME NEW a \in WanAddrs, AddPoolAddress(a) PROVE db' = db
    BY <2>1 DEF AddPoolAddress
  <2>2. ASSUME NEW a \in WanAddrs, DelPoolAddress(a)
        PROVE  \A e \in db \ db' : Kept(e)
    <3>1. Range(pool_addrs') = Range(pool_addrs) \ {a}
      BY <1>1, <2>2, SpliceFact DEF DelPoolAddress, IInv, TypeOK, Bookkeeping
    <3>2. \A e \in db \ db' : e.wan_ip = a
      BY <2>2 DEF DelPoolAddress, WithoutAddress
    <3> QED
      BY <3>1, <3>2 DEF InPool
  <2>3. ASSUME NEW lan_ip \in Clients, NEW lan_port \in LanPorts,
               AssignConnection(lan_ip, lan_port)
        PROVE  db \subseteq db'
    BY <2>3 DEF AssignConnection, AssignExisting, AssignNoPort, AssignOverLimit, AssignNew
  <2>4. ASSUME NEW f \in Entries, ReleaseConnection(f)
        PROVE  \A e \in db \ db' : Kept(e)
    BY <1>1, <2>4
    DEF ReleaseConnection, ReturnPort, vars, IInv, TypeOK, Entries
  <2> QED
    BY <1>1, <2>1, <2>2, <2>3, <2>4 DEF Next
<1>2. IInv /\ [Next]_vars => [\A e \in db \ db' : Kept(e)]_vars
  BY <1>1
<1> QED
  BY <1>2, Invariance, PTL DEF Spec, ReleasedPortReusedLast

=============================================================================
