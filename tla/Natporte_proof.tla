--------------------------- MODULE Natporte_proof ---------------------------
(***************************************************************************)
(* The safety of the NAT table and of the queues around it, and that every *)
(* node expires, for any number of nodes, ring sizes, clients, ports and   *)
(* segments, and for both protocols.                                       *)
(*                                                                         *)
(* The inductive invariant is IInv of module Natporte.  The argument: the  *)
(* rings and the connection are FIFOs and the server answers in order, so  *)
(* the k-th answer under way is about the k-th order in h_recv, as long as *)
(* the connection of a node does not change while an order points to it.   *)
(* It does not: a node is freed by the receiver alone, and a new one gets  *)
(* an address to which nothing points.                                     *)
(***************************************************************************)
EXTENDS Natporte, SequenceTheorems, TLAPS

\* push onto a ring that has room: one order more, and still within its size.
LEMMA AppendWithin ==
  ASSUME NEW S, NEW q \in Seq(S), NEW x \in S, NEW N \in Nat, Len(q) < N
  PROVE  Append(q, x) \in Seq(S) /\ Len(Append(q, x)) <= N
<1>1. Append(q, x) \in Seq(S) /\ Len(Append(q, x)) = Len(q) + 1 /\ Len(q) \in Nat
  BY AppendProperties, LenProperties
<1> QED
  BY <1>1

\* tcp_state_check returns one of the states, whatever the flags.
LEMMA CheckType ==
  ASSUME NEW tflag \in TcpStates, NEW pflag, NEW from \in Directions
  PROVE  tcp_state_check(tflag, pflag, from) \in TcpStates
<1> USE DEF TcpStates, WaitStates, Directions, Final, FIN_WAIT, FINACK_WAIT, CLOSING, Opposite
<1>1. Opening(tflag, pflag, from) \in TcpStates
  BY DEF Opening
<1>2. AfterFin(tflag, pflag, from) \in TcpStates
  BY DEF AfterFin
<1>3. FIN_WAIT[Opposite(from)] \in TcpStates
  OBVIOUS
<1> QED
  BY <1>1, <1>2, <1>3 DEF tcp_state_check

LEMMA StateType ==
  ASSUME NEW seen \in TcpStates, NEW p \in Packets
  PROVE  StateAfter(seen, p) \in TcpStates
<1>1. p.from \in Directions
  BY DEF Packets, LanPackets, WanPackets, Directions
<1> QED
  BY <1>1, CheckType DEF StateAfter, NewFlags

LEMMA ApplyNode ==
  ASSUME TypeOK, TreesAgree, NEW n \in Nodes, ~IsFreed(n), NEW seen \in TcpStates, NEW p \in Packets,
         Apply(n, seen, p)
  PROVE  /\ node' \in [Nodes -> NodeRecords \cup {Freed}]
         /\ \A m \in Nodes : IsFreed(m)' <=> IsFreed(m)
         /\ \A m \in Nodes : ~IsFreed(m) => node'[m].entry = node[m].entry
<1>1. node[n] \in NodeRecords /\ node \in [Nodes -> NodeRecords \cup {Freed}]
  BY DEF TypeOK, IsFreed
<1>2. node'[n] \in NodeRecords /\ node'[n].entry = node[n].entry
  BY <1>1, StateType DEF Apply, NodeRecords
<1>3. \A m \in Nodes \ {n} : node'[m] = node[m]
  BY <1>1 DEF Apply
<1>4. node' = [node EXCEPT ![n] = node'[n]]
  BY <1>1 DEF Apply
<1> QED
  BY <1>1, <1>2, <1>3, <1>4, FreedAssumption DEF IsFreed

-----------------------------------------------------------------------------
(* What a step must leave alone for the invariants to be kept *)

Kept(n) ==
    /\ IsFreed(n) => IsFreed(n)'
    /\ IsFreed(n)' \/ node'[n].entry = node[n].entry

LEMMA BelongsKept ==
  ASSUME NEW m \in Messages \cup Answers, NEW o \in Orders, BelongsTo(m, o, node),
         o \in Timeouts => Kept(o.table)
  PROVE  BelongsTo(m, o, node')
<1> USE DEF Messages, Answers, Acks
<1>1. CASE o \in Timeouts
  BY <1>1 DEF BelongsTo, Kept, IsFreed, Timeouts
<1>2. CASE o \in Requests \cup Releases
  BY <1>2 DEF BelongsTo, Requests, Releases
<1> QED
  BY <1>1, <1>2 DEF Orders

LEMMA InFlightType ==
  ASSUME TypeOK
  PROVE  /\ InFlight \in Seq(Messages \cup Answers)
         /\ DOMAIN InFlight = 1 .. Len(InFlight)
         /\ DOMAIN h_recv = 1 .. Len(h_recv) /\ Len(h_recv) \in Nat
         /\ \A i \in DOMAIN h_recv : h_recv[i] \in Orders
<1> DEFINE s == IF sender.pc = "send" THEN <<sender.message>> ELSE <<>>
<1>1. s \in Seq(Messages)
  <2>1. CASE sender.pc = "send"
    <3>0. SenderType
      BY DEF TypeOK
    <3>1. sender \in [pc : {"send"}, message : Messages]
      BY <3>0, <2>1 DEF SenderType, Idle
    <3> QED
      BY <2>1, <3>1
  <2>2. CASE sender.pc # "send"
    BY <2>2
  <2> QED
    BY <2>1, <2>2
<1>2. to_nat \in Seq(Messages \cup Answers) /\ to_pool \in Seq(Messages \cup Answers)
      /\ s \in Seq(Messages \cup Answers)
  <2>1. to_nat \in Seq(Answers) /\ to_pool \in Seq(Messages)
    BY DEF TypeOK
  <2> QED
    BY <1>1, <2>1, SeqMonotonic
<1>3. to_nat \o to_pool \in Seq(Messages \cup Answers)
  BY <1>2
<1>4. InFlight \in Seq(Messages \cup Answers)
  BY <1>2, <1>3 DEF InFlight
<1>5. h_recv \in Seq(Orders)
  BY DEF TypeOK
<1> QED
  BY <1>4, <1>5

LEMMA PairsKept ==
  ASSUME TypeOK, PairedAnswers, InFlight' = InFlight, h_recv' = h_recv,
         \A n \in Nodes : TimeoutOrder(n) \in Range(h_recv) => Kept(n)
  PROVE  PairedAnswers'
<1>1. ASSUME NEW i \in DOMAIN h_recv
      PROVE  BelongsTo(InFlight[i], h_recv[i], node')
  <2> DEFINE m == InFlight[i]
             o == h_recv[i]
  <2>1. o \in Orders /\ o \in Range(h_recv) /\ m \in Messages \cup Answers
    BY InFlightType DEF Range, PairedAnswers
  <2>2. o \in Timeouts => o.table \in Nodes /\ o = TimeoutOrder(o.table)
    BY DEF Timeouts, TimeoutOrder
  <2>3. BelongsTo(m, o, node)
    BY DEF PairedAnswers
  <2>4. o \in Timeouts => Kept(o.table)
    BY <2>1, <2>2
  <2> QED
    BY <2>1, <2>3, <2>4, BelongsKept
<1> QED
  BY <1>1 DEF PairedAnswers

LEMMA TreesKept ==
  ASSUME TypeOK, TreesAgree, l2w' = l2w, w2l' = w2l,
         \A n \in l2w : ~IsFreed(n)' /\ node'[n].entry = node[n].entry
  PROVE  TreesAgree'
BY DEF TreesAgree, KeyOf, LanKey, WanKey

LEMMA TreesSame == TreesAgree /\ UNCHANGED tableVars => TreesAgree'
BY DEF TreesAgree, KeyOf, LanKey, WanKey, IsFreed, tableVars

\* What a thread has in its locals, by where it is.
LEMMA AtDivert ==
  ASSUME TypeOK
  PROVE  /\ divert.pc = "request" => divert \in [pc : {"request"}, packet : LanPackets]
         /\ divert.pc = "release" => divert \in [pc : {"release"}, packet : Packets]
         /\ divert.pc = "alias" =>
              divert \in [pc : {"alias"}, packet : Packets, table : Nodes, seen : TcpStates]
         /\ divert.pc = "delete" =>
              \/ divert \in [pc : {"delete"}, from : {"L2W"}, key : LanKeys]
              \/ divert \in [pc : {"delete"}, from : {"W2L"}, key : WanKeys]
         /\ divert.pc = "mark" => divert \in [pc : {"mark"}, table : Nodes]
         /\ divert.pc \in {"disarm", "rearm"} => divert \in [pc : {"disarm", "rearm"}, key : LanKeys]
<1>1. DivertType
  BY DEF TypeOK
<1> QED
  BY <1>1 DEF DivertType, Idle

LEMMA AtSender ==
  ASSUME TypeOK
  PROVE  /\ sender.pc = "compose" =>
              sender \in [pc : {"compose"}, order : Releases \cup Timeouts, table : Nodes]
         /\ sender.pc = "push" =>
              sender \in [pc : {"push"}, order : Orders, message : Messages]
         /\ sender.pc = "send" => sender \in [pc : {"send"}, message : Messages]
<1>1. SenderType
  BY DEF TypeOK
<1> QED
  BY <1>1 DEF SenderType, Idle

LEMMA AtReceiver ==
  ASSUME TypeOK
  PROVE  /\ receiver.pc \in {"arm", "find"} =>
              receiver \in [pc : {"arm", "find"}, reply : Acks, order : Requests \cup Releases]
         /\ receiver.pc = "alias" =>
              receiver \in [pc : {"alias"}, reply : Acks, packet : Packets,
                            table : Nodes, seen : TcpStates]
         /\ receiver.pc = "remove" => receiver \in [pc : {"remove"}, entry : Connections]
         /\ receiver.pc = "disarm" => receiver \in [pc : {"disarm"}, table : Nodes]
<1>1. ReceiverType
  BY DEF TypeOK
<1> QED
  BY <1>1 DEF ReceiverType, Idle

LEMMA AtMain ==
  ASSUME TypeOK
  PROVE  /\ main.pc \in {"test", "disarm"} =>
              main \in [pc : {"test", "disarm"}, key : LanKeys, table : Nodes]
         /\ main.pc = "push" => main \in [pc : {"push"}, table : Nodes]
<1>1. MainType
  BY DEF TypeOK
<1> QED
  BY <1>1 DEF MainType, Idle

\* What the sender holds is not disturbed by a step that keeps the nodes to
\* which it points.
LEMMA SenderKept ==
  ASSUME TypeOK, Pointers, sender' = sender,
         sender.pc = "compose" => Kept(sender.table),
         sender.pc \in {"compose", "push"} =>
           \A n \in Nodes : sender.order = TimeoutOrder(n) => Kept(n)
  PROVE  /\ sender.pc = "compose" =>
              \/ IsFreed(sender.table)'
              \/ BelongsTo([type |-> "release", entry |-> node'[sender.table].entry], sender.order, node')
         /\ sender.pc = "push" => BelongsTo(sender.message, sender.order, node')
<1>1. ASSUME sender.pc = "compose"
      PROVE  \/ IsFreed(sender.table)'
             \/ BelongsTo([type |-> "release", entry |-> node'[sender.table].entry], sender.order, node')
  <2> DEFINE m == [type |-> "release", entry |-> node[sender.table].entry]
  <2>1. sender.table \in Nodes /\ sender.order \in Releases \cup Timeouts
    BY <1>1, AtSender
  <2>2. CASE IsFreed(sender.table)
    BY <1>1, <2>2 DEF Kept
  <2>3. CASE ~IsFreed(sender.table) /\ ~IsFreed(sender.table)'
    <3>1. BelongsTo(m, sender.order, node)
      BY <1>1, <2>3 DEF Pointers
    <3>2. node'[sender.table].entry = node[sender.table].entry /\ node[sender.table] \in NodeRecords
      BY <1>1, <2>1, <2>3 DEF Kept, TypeOK, IsFreed
    <3>3. m \in Messages
      BY <3>2 DEF Messages, NodeRecords
    <3>4. sender.order \in Orders /\ (sender.order \in Timeouts => Kept(sender.order.table))
      BY <1>1, <2>1 DEF Orders, Timeouts, TimeoutOrder
    <3> QED
      BY <3>1, <3>2, <3>3, <3>4, BelongsKept
  <2> QED
    BY <2>2, <2>3
<1>2. ASSUME sender.pc = "push"
      PROVE  BelongsTo(sender.message, sender.order, node')
  <2>1. /\ sender.message \in Messages /\ sender.order \in Orders
        /\ BelongsTo(sender.message, sender.order, node)
    BY <1>2, AtSender DEF Pointers
  <2>2. sender.order \in Timeouts => Kept(sender.order.table)
    BY <1>2 DEF Timeouts, TimeoutOrder
  <2> QED
    BY <2>1, <2>2, BelongsKept
<1> QED
  BY <1>1, <1>2

SameNodes ==
    \A m \in Nodes :
        /\ IsFreed(m)' <=> IsFreed(m)
        /\ ~IsFreed(m) => node'[m].entry = node[m].entry

LEMMA SameNodesKept == SameNodes => \A n \in Nodes : Kept(n)
BY DEF SameNodes, Kept

\* A step of divert or main at most changes the flags of nodes.
LEMMA Quiet ==
  ASSUME IInv, SameNodes, UNCHANGED <<netVars, l2w, w2l, h_recv, sender, receiver>>
  PROVE  TreesAgree' /\ PairedAnswers' /\ Pointers'
<1> USE DEF IInv, netVars
<1>1. l2w \subseteq Nodes
  BY DEF TypeOK
<1>2. TreesAgree'
  BY <1>1, TreesKept DEF SameNodes, TreesAgree
<1>3. PairedAnswers'
  BY PairsKept, SameNodesKept DEF InFlight
<1>4. sender.pc = "compose" => sender.table \in Nodes
  BY AtSender
<1>5. receiver.pc = "disarm" => receiver.table \in Nodes
  BY AtReceiver
<1>6. Pointers'
  BY <1>4, <1>5, SenderKept, SameNodesKept DEF Pointers, SameNodes
<1> QED
  BY <1>2, <1>3, <1>6

LEMMA PoolKept == TypeOK /\ UNCHANGED poolVars => DB!TypeOK'
BY DEF TypeOK, poolVars, DB!TypeOK

\* The locals of a thread that does not move.
LEMMA ThreadsKept ==
  ASSUME TypeOK
  PROVE  /\ divert' = divert => DivertType'
         /\ sender' = sender => SenderType'
         /\ receiver' = receiver => ReceiverType'
         /\ main' = main => MainType'
<1>1. DivertType /\ SenderType /\ ReceiverType /\ MainType
  BY DEF TypeOK
<1>2. divert' = divert => DivertType'
  BY <1>1 DEF DivertType
<1>3. sender' = sender => SenderType'
  BY <1>1 DEF SenderType
<1>4. receiver' = receiver => ReceiverType'
  BY <1>1 DEF ReceiverType
<1>5. main' = main => MainType'
  BY <1>1 DEF MainType
<1> QED
  BY <1>2, <1>3, <1>4, <1>5

\* A node that is found is a node, and not a freed one.
LEMMA Found ==
  ASSUME IInv, NEW side \in Directions, NEW key, NEW n \in find(side, key)
  PROVE  /\ n \in l2w /\ n \in w2l /\ n \in Nodes /\ ~IsFreed(n)
         /\ node[n] \in NodeRecords /\ KeyOf(side, node[n].entry) = key
<1>1. n \in l2w /\ n \in w2l /\ n \in Nodes /\ ~IsFreed(n)
  BY DEF IInv, TypeOK, TreesAgree, find, find_l2w, find_w2l
<1>2. KeyOf(side, node[n].entry) = key
  BY DEF find, find_l2w, find_w2l, KeyOf
<1> QED
  BY <1>1, <1>2 DEF IInv, TypeOK, IsFreed

LEMMA KeyType ==
  ASSUME NEW e \in Connections
  PROVE  /\ LanKey(e) \in LanKeys /\ WanKey(e) \in WanKeys
         /\ KeyOf("L2W", e) \in LanKeys /\ KeyOf("W2L", e) \in WanKeys
BY DEF Connections, DB!Entries, LanKey, WanKey, KeyOf, LanKeys, WanKeys

-----------------------------------------------------------------------------
(* divert *)

LEMMA ReceiveStep ==
  ASSUME IInv, NEW p \in Packets, Receive(p)
  PROVE  IInv'
<1> USE DEF IInv, Receive
<1>1. DivertType'
  <2>1. CASE find(p.from, p.key) = {}
    <3>1. p.from = "L2W" => p \in LanPackets
      BY DEF Packets, WanPackets
    <3> QED
      BY <2>1, <3>1 DEF DivertType, Idle
  <2>2. CASE find(p.from, p.key) # {}
    <3>1. PICK n \in find(p.from, p.key) :
            divert' = [pc |-> "alias", packet |-> p, table |-> n, seen |-> node[n].flags]
      BY <2>2
    <3>2. p.from \in Directions
      BY DEF Packets, LanPackets, WanPackets, Directions
    <3>3. n \in Nodes /\ node[n].flags \in TcpStates
      BY <3>2, Found DEF NodeRecords
    <3> QED
      BY <3>1, <3>3 DEF DivertType
  <2> QED
    BY <2>1, <2>2
<1>2. TypeOK'
  BY <1>1, PoolKept, ThreadsKept
  DEF TypeOK, tableVars, netVars, ringVars
<1> QED
  BY <1>2, Quiet DEF SameNodes, IsFreed, tableVars, netVars, ringVars

LEMMA PushRequestStep ==
  ASSUME IInv, PushRequest
  PROVE  IInv'
<1> USE DEF IInv, PushRequest
<1>1. divert.packet \in LanPackets
  BY AtDivert
<1>2. [kind |-> "REQ", packet |-> divert.packet] \in Orders
  BY <1>1 DEF Orders, Requests
<1>3. h_send' \in Seq(Orders) /\ Len(h_send') <= SendSize
  <2>1. h_send \in Seq(Orders) /\ Len(h_send) <= SendSize /\ SendSize \in Nat
    BY BoundsAssumption DEF TypeOK
  <2> QED
    BY <1>2, <2>1, AppendWithin
<1>4. TypeOK'
  BY <1>3, PoolKept, ThreadsKept
  DEF TypeOK, DivertType, tableVars, netVars
<1> QED
  BY <1>4, Quiet DEF SameNodes, IsFreed, tableVars, netVars

LEMMA PushReleaseStep ==
  ASSUME IInv, PushRelease
  PROVE  IInv'
<1> USE DEF IInv, PushRelease
<1>1. divert.packet \in Packets
  BY AtDivert
<1>2. [kind |-> "REL", packet |-> divert.packet] \in Orders
  BY <1>1 DEF Orders, Releases
<1>3. h_send' \in Seq(Orders) /\ Len(h_send') <= SendSize
  <2>1. h_send \in Seq(Orders) /\ Len(h_send) <= SendSize /\ SendSize \in Nat
    BY BoundsAssumption DEF TypeOK
  <2> QED
    BY <1>2, <2>1, AppendWithin
<1>4. TypeOK'
  BY <1>3, PoolKept, ThreadsKept
  DEF TypeOK, DivertType, tableVars, netVars
<1> QED
  BY <1>4, Quiet DEF SameNodes, IsFreed, tableVars, netVars

LEMMA AliasStep ==
  ASSUME IInv, Alias
  PROVE  IInv'
<1> USE DEF IInv, Alias
<1> DEFINE n == divert.table
           p == divert.packet
<1>1. p \in Packets /\ n \in Nodes /\ divert.seen \in TcpStates
  BY AtDivert
<1>2. CASE IsFreed(n)
  <2>1. TypeOK'
    BY <1>2, PoolKept, ThreadsKept
    DEF TypeOK, Failures, DivertType, netVars, ringVars
  <2> QED
    BY <1>2, <2>1, Quiet DEF SameNodes, IsFreed, netVars, ringVars
<1>3. CASE ~IsFreed(n)
  <2>1. /\ node' \in [Nodes -> NodeRecords \cup {Freed}]
        /\ SameNodes
    BY <1>1, <1>3, ApplyNode DEF SameNodes
  <2>2. DivertType'
    <3>1. node[n].entry \in Connections
      BY <1>1, <1>3 DEF TypeOK, IsFreed, NodeRecords
    <3>2. p.from \in Directions
      BY <1>1 DEF Packets, LanPackets, WanPackets, Directions
    <3>3. CASE Outcome(divert.seen, p) = "RESET_TABLE"
      BY <1>1, <1>3, <3>3 DEF DivertType
    <3>4. CASE Outcome(divert.seen, p) = "DEL_TABLE"
      <4>1. divert' = [pc |-> "delete", from |-> Opposite(p.from),
                       key |-> KeyOf(Opposite(p.from), node[n].entry)]
        BY <1>3, <3>4
      <4>2. Opposite(p.from) \in Directions
        BY DEF Opposite, Directions
      <4> QED
        BY <3>1, <4>1, <4>2, KeyType DEF DivertType, Directions
    <3>5. CASE Outcome(divert.seen, p) \notin {"RESET_TABLE", "DEL_TABLE"}
      BY <1>3, <3>5 DEF DivertType
    <3> QED
      BY <3>3, <3>4, <3>5
  <2>3. TypeOK'
    BY <1>3, <2>1, <2>2, PoolKept, ThreadsKept
    DEF TypeOK, netVars, ringVars
  <2> QED
    BY <2>1, <2>3, Quiet DEF netVars, ringVars
<1> QED
  BY <1>2, <1>3

LEMMA FindClosedStep ==
  ASSUME IInv, FindClosed
  PROVE  IInv'
<1> USE DEF IInv, FindClosed
<1>1. DivertType'
  <2>1. CASE find(divert.from, divert.key) = {}
    BY <2>1 DEF DivertType
  <2>2. CASE find(divert.from, divert.key) # {}
    <3>1. PICK n \in find(divert.from, divert.key) : divert' = [pc |-> "mark", table |-> n]
      BY <2>2
    <3>2. divert.from \in Directions
      BY AtDivert DEF Directions
    <3>3. n \in Nodes
      BY <3>2, Found
    <3> QED
      BY <3>1, <3>3 DEF DivertType
  <2> QED
    BY <2>1, <2>2
<1>2. TypeOK'
  BY <1>1, PoolKept, ThreadsKept
  DEF TypeOK, tableVars, netVars, ringVars
<1> QED
  BY <1>2, Quiet DEF SameNodes, IsFreed, tableVars, netVars, ringVars

LEMMA MarkClosedStep ==
  ASSUME IInv, MarkClosed
  PROVE  IInv'
<1> USE DEF IInv, MarkClosed
<1> DEFINE n == divert.table
<1>1. n \in Nodes
  BY AtDivert
<1>2. CASE IsFreed(n)
  <2>1. TypeOK'
    BY <1>2, PoolKept, ThreadsKept
    DEF TypeOK, Failures, DivertType, netVars, ringVars
  <2> QED
    BY <1>2, <2>1, Quiet DEF SameNodes, IsFreed, netVars, ringVars
<1>3. CASE ~IsFreed(n)
  <2>1. node[n] \in NodeRecords /\ node \in [Nodes -> NodeRecords \cup {Freed}]
    BY <1>1, <1>3 DEF TypeOK, IsFreed
  <2>2. node' = [node EXCEPT ![n].timer_flags = "CLOSE"]
    BY <1>3
  <2>3. /\ node' \in [Nodes -> NodeRecords \cup {Freed}]
        /\ SameNodes
    BY <1>1, <2>1, <2>2, FreedAssumption DEF SameNodes, IsFreed, NodeRecords
  <2>4. DivertType'
    <3>1. LanKey(node[n].entry) \in LanKeys
      BY <2>1, KeyType DEF NodeRecords
    <3> QED
      BY <1>3, <3>1 DEF DivertType
  <2>5. TypeOK'
    BY <1>3, <2>3, <2>4, PoolKept, ThreadsKept
    DEF TypeOK, netVars, ringVars
  <2> QED
    BY <2>3, <2>5, Quiet DEF netVars, ringVars
<1> QED
  BY <1>2, <1>3

LEMMA DisarmClosedStep ==
  ASSUME IInv, DisarmClosed
  PROVE  IInv'
<1> USE DEF IInv, DisarmClosed
<1>1. DivertType'
  BY AtDivert DEF DivertType
<1>2. TypeOK'
  BY <1>1, PoolKept, ThreadsKept
  DEF TypeOK, tableVars, netVars, ringVars
<1> QED
  BY <1>2, Quiet DEF SameNodes, IsFreed, tableVars, netVars, ringVars

LEMMA RearmClosedStep ==
  ASSUME IInv, RearmClosed
  PROVE  IInv'
<1> USE DEF IInv, RearmClosed
<1>1. timers' \subseteq LanKeys /\ DivertType'
  BY AtDivert DEF TypeOK, DivertType
<1>2. TypeOK'
  BY <1>1, PoolKept, ThreadsKept
  DEF TypeOK, tableVars, netVars, ringVars
<1> QED
  BY <1>2, Quiet DEF SameNodes, IsFreed, tableVars, netVars, ringVars

-----------------------------------------------------------------------------
(* main *)

LEMMA FireStep ==
  ASSUME IInv, NEW key \in LanKeys, Fire(key)
  PROVE  IInv'
<1> USE DEF IInv, Fire
<1>1. MainType'
  <2>1. l2w \subseteq Nodes
    BY DEF TypeOK
  <2> QED
    BY <2>1 DEF MainType, find_l2w
<1>2. TypeOK'
  BY <1>1, PoolKept, ThreadsKept
  DEF TypeOK, tableVars, netVars, ringVars
<1> QED
  BY <1>2, Quiet DEF SameNodes, IsFreed, tableVars, netVars, ringVars

LEMMA TestIdleStep ==
  ASSUME IInv, TestIdle
  PROVE  IInv'
<1> USE DEF IInv, TestIdle
<1>1. MainType' /\ failure' \in {failure, "use after free"}
  BY AtMain DEF TypeOK, MainType
<1>2. TypeOK'
  BY <1>1, PoolKept, ThreadsKept
  DEF TypeOK, Failures, tableVars, netVars, ringVars
<1> QED
  BY <1>2, Quiet DEF SameNodes, IsFreed, tableVars, netVars, ringVars

LEMMA DisarmIdleStep ==
  ASSUME IInv, DisarmIdle
  PROVE  IInv'
<1> USE DEF IInv, DisarmIdle
<1>1. MainType' /\ failure' \in {failure, "no timer"} /\ timers' \subseteq timers
  <2>1. main \in [pc : {"test", "disarm"}, key : LanKeys, table : Nodes]
    BY AtMain
  <2>2. CASE main.key \in timers
    BY <2>1, <2>2 DEF MainType
  <2>3. CASE main.key \notin timers
    BY <2>1, <2>3 DEF MainType
  <2> QED
    BY <2>2, <2>3
<1>2. TypeOK'
  BY <1>1, PoolKept, ThreadsKept
  DEF TypeOK, Failures, tableVars, netVars, ringVars
<1> QED
  BY <1>2, Quiet DEF SameNodes, IsFreed, tableVars, netVars, ringVars

LEMMA PushTimeoutStep ==
  ASSUME IInv, PushTimeout
  PROVE  IInv'
<1> USE DEF IInv, PushTimeout
<1>1. TimeoutOrder(main.table) \in Orders
  BY AtMain DEF TimeoutOrder, Orders, Timeouts
<1>2. h_send' \in Seq(Orders) /\ Len(h_send') <= SendSize
  <2>1. h_send \in Seq(Orders) /\ Len(h_send) <= SendSize /\ SendSize \in Nat
    BY BoundsAssumption DEF TypeOK
  <2> QED
    BY <1>1, <2>1, AppendWithin
<1>3. TypeOK'
  BY <1>2, PoolKept, ThreadsKept
  DEF TypeOK, MainType, tableVars, netVars
<1> QED
  BY <1>3, Quiet DEF SameNodes, IsFreed, tableVars, netVars

LEMMA GrowIdleStep ==
  ASSUME IInv, NEW n \in Nodes, GrowIdle(n)
  PROVE  IInv'
<1> USE DEF IInv, GrowIdle
<1>1. node[n] \in NodeRecords /\ node \in [Nodes -> NodeRecords \cup {Freed}]
  BY DEF TypeOK, TreesAgree, IsFreed
<1>2. /\ node' \in [Nodes -> NodeRecords \cup {Freed}]
      /\ SameNodes
  BY <1>1, FreedAssumption DEF SameNodes, IsFreed, NodeRecords
<1>3. TypeOK'
  BY <1>2, PoolKept, ThreadsKept
  DEF TypeOK, DivertType, netVars, ringVars
<1> QED
  BY <1>2, <1>3, Quiet DEF netVars, ringVars

-----------------------------------------------------------------------------
(* sender *)

LEMMA PopStep ==
  ASSUME IInv, Pop
  PROVE  IInv'
<1> USE DEF IInv
<1> DEFINE o == Head(h_send)
<1>1. /\ o \in Orders /\ h_send' \in Seq(Orders) /\ Len(h_send') <= SendSize
      /\ sender = Idle
  <2>1. /\ h_send \in Seq(Orders) /\ Len(h_send) <= SendSize /\ SendSize \in Nat
        /\ h_send # <<>> /\ h_send' = Tail(h_send) /\ sender = Idle
    BY BoundsAssumption DEF TypeOK, Pop
  <2>2. /\ Head(h_send) \in Orders /\ Tail(h_send) \in Seq(Orders)
        /\ Len(Tail(h_send)) = Len(h_send) - 1 /\ Len(h_send) \in Nat
    BY <2>1, HeadTailProperties, LenProperties
  <2> QED
    BY <2>1, <2>2
<1>2. /\ UNCHANGED <<poolVars, netVars, tableVars, timers, h_recv, divert, receiver, main>>
      /\ \/ sender' = sender /\ failure' = "cannot match the release node table"
         \/ /\ failure' = failure
            /\ \/ /\ o \in Requests
                  /\ sender' = [pc |-> "push", order |-> o,
                                message |-> [type |-> "request", lan |-> o.packet.key]]
               \/ /\ o \in Releases
                  /\ \E n \in find(o.packet.from, o.packet.key) :
                       sender' = [pc |-> "compose", order |-> o, table |-> n]
               \/ /\ o \in Timeouts
                  /\ sender' = [pc |-> "compose", order |-> o, table |-> o.table]
  <2>1. CASE o \in Requests
    BY <2>1 DEF Pop, Requests
  <2>2. CASE o \in Releases
    BY <2>2 DEF Pop, Releases
  <2>3. CASE o \in Timeouts
    BY <2>3 DEF Pop, Timeouts
  <2> QED
    BY <1>1, <2>1, <2>2, <2>3 DEF Orders
<1> HIDE DEF o
<1>3. /\ SenderType'
      /\ sender'.pc = "compose" =>
           \/ IsFreed(sender'.table)
           \/ BelongsTo([type |-> "release", entry |-> node[sender'.table].entry], sender'.order, node)
      /\ sender'.pc = "push" => BelongsTo(sender'.message, sender'.order, node)
      /\ sender'.pc # "send"
  <2>1. CASE sender' = sender
    BY <1>1, <2>1 DEF SenderType, Idle
  <2>2. ASSUME o \in Requests,
               sender' = [pc |-> "push", order |-> o,
                          message |-> [type |-> "request", lan |-> o.packet.key]]
        PROVE  <1>3!:
    BY <2>2 DEF SenderType, Requests, Orders, Messages, LanPackets, BelongsTo
  <2>3. ASSUME o \in Releases, NEW n \in find(o.packet.from, o.packet.key),
               sender' = [pc |-> "compose", order |-> o, table |-> n]
        PROVE  <1>3!:
    <3>1. o.packet.from \in Directions /\ o.kind = "REL"
      BY <2>3 DEF Releases, Packets, LanPackets, WanPackets, Directions
    <3>2. n \in Nodes /\ KeyOf(o.packet.from, node[n].entry) = o.packet.key
      BY <3>1, Found
    <3>3. BelongsTo([type |-> "release", entry |-> node[n].entry], o, node)
      BY <3>1, <3>2 DEF BelongsTo
    <3> QED
      BY <2>3, <3>2, <3>3 DEF SenderType
  <2>4. ASSUME o \in Timeouts,
               sender' = [pc |-> "compose", order |-> o, table |-> o.table]
        PROVE  <1>3!:
    BY <2>4 DEF SenderType, Timeouts, BelongsTo
  <2> QED
    BY <1>2, <2>1, <2>2, <2>3, <2>4
<1>4. TypeOK'
  BY <1>1, <1>2, <1>3, PoolKept, ThreadsKept DEF TypeOK, Failures, netVars, tableVars
<1>5. InFlight' = InFlight
  BY <1>1, <1>2, <1>3 DEF InFlight, netVars, Idle
<1>6. PairedAnswers'
  BY <1>2, <1>5 DEF PairedAnswers, tableVars
<1>7. TreesAgree'
  BY <1>2, TreesSame
<1>8. Pointers'
  BY <1>2, <1>3 DEF Pointers, IsFreed, tableVars
<1> QED
  BY <1>4, <1>6, <1>7, <1>8

LEMMA ComposeStep ==
  ASSUME IInv, Compose
  PROVE  IInv'
<1> USE DEF IInv
<1> DEFINE m == [type |-> "release", entry |-> node[sender.table].entry]
<1>1. /\ UNCHANGED <<poolVars, netVars, tableVars, timers, ringVars, divert, receiver, main>>
      /\ sender.pc = "compose"
      /\ \/ sender' = sender /\ failure' = "use after free"
         \/ /\ ~IsFreed(sender.table) /\ failure' = failure
            /\ sender' = [pc |-> "push", order |-> sender.order, message |-> m]
  BY DEF Compose
<1>2. sender.order \in Releases \cup Timeouts /\ sender.table \in Nodes
  BY <1>1, AtSender
<1>3. ASSUME ~IsFreed(sender.table)
      PROVE  m \in Messages /\ BelongsTo(m, sender.order, node)
  <2>1. node[sender.table] \in NodeRecords
    BY <1>2, <1>3 DEF TypeOK, IsFreed
  <2> QED
    BY <1>1, <1>3, <2>1 DEF Messages, NodeRecords, Pointers
<1> HIDE DEF m
<1>4. /\ SenderType'
      /\ \/ sender' = sender
         \/ sender'.pc = "push" /\ BelongsTo(sender'.message, sender'.order, node)
  <2>1. CASE sender' = sender
    BY <2>1, ThreadsKept
  <2>2. CASE sender' # sender
    <3>1. /\ sender' = [pc |-> "push", order |-> sender.order, message |-> m]
          /\ m \in Messages /\ BelongsTo(m, sender.order, node)
      BY <1>1, <1>3, <2>2
    <3>2. sender.order \in Orders
      BY <1>2 DEF Orders
    <3> QED
      BY <3>1, <3>2 DEF SenderType
  <2> QED
    BY <2>1, <2>2
<1>5. TypeOK'
  BY <1>1, <1>4, PoolKept, ThreadsKept DEF TypeOK, Failures, netVars, tableVars, ringVars
<1>6. InFlight' = InFlight
  BY <1>1, <1>4 DEF InFlight, netVars
<1>7. PairedAnswers'
  BY <1>1, <1>6 DEF PairedAnswers, tableVars, ringVars
<1>8. TreesAgree'
  BY <1>1, TreesSame
<1>9. Pointers'
  BY <1>1, <1>4 DEF Pointers, IsFreed, tableVars
<1> QED
  BY <1>5, <1>7, <1>8, <1>9

\* A pair more at the end of two sequences that pair.
LEMMA PairAppend ==
  ASSUME NEW S, NEW q \in Seq(S), NEW r \in Seq(Orders), Len(q) = Len(r),
         \A i \in DOMAIN r : BelongsTo(q[i], r[i], node),
         NEW m \in S, NEW o \in Orders, BelongsTo(m, o, node)
  PROVE  /\ Len(Append(q, m)) = Len(Append(r, o))
         /\ \A i \in DOMAIN Append(r, o) : BelongsTo(Append(q, m)[i], Append(r, o)[i], node)
<1>1. /\ Len(Append(q, m)) = Len(q) + 1 /\ Append(q, m)[Len(q) + 1] = m
      /\ \A i \in 1 .. Len(q) : Append(q, m)[i] = q[i]
  BY AppendProperties
<1>2. /\ Append(r, o) \in Seq(Orders)
      /\ Len(Append(r, o)) = Len(r) + 1 /\ Append(r, o)[Len(r) + 1] = o
      /\ \A i \in 1 .. Len(r) : Append(r, o)[i] = r[i]
  BY AppendProperties
<1>3. DOMAIN r = 1 .. Len(r) /\ Len(r) \in Nat /\ DOMAIN Append(r, o) = 1 .. Len(r) + 1
  BY <1>2, LenProperties
<1>4. ASSUME NEW i \in 1 .. Len(r) + 1
      PROVE  BelongsTo(Append(q, m)[i], Append(r, o)[i], node)
  <2>1. CASE i \in 1 .. Len(r)
    BY <1>1, <1>2, <1>3, <2>1
  <2>2. CASE i = Len(r) + 1
    BY <1>1, <1>2, <2>2
  <2> QED
    BY <1>3, <2>1, <2>2
<1> QED
  BY <1>1, <1>2, <1>3, <1>4

LEMMA PushAwaitedStep ==
  ASSUME IInv, PushAwaited
  PROVE  IInv'
<1> USE DEF IInv
<1> DEFINE q == to_nat \o to_pool
           M == Messages \cup Answers
<1>1. /\ sender.pc = "push" /\ Len(h_recv) < RecvSize /\ h_recv' = Append(h_recv, sender.order)
      /\ sender' = [pc |-> "send", message |-> sender.message]
      /\ UNCHANGED <<poolVars, netVars, tableVars, timers, h_send, divert, receiver, main, failure>>
  BY DEF PushAwaited
<1>2. /\ sender.order \in Orders /\ sender.message \in Messages
      /\ BelongsTo(sender.message, sender.order, node)
  BY <1>1, AtSender DEF Pointers
<1>3. q \in Seq(M) /\ h_recv \in Seq(Orders) /\ Len(h_recv) \in Nat /\ RecvSize \in Nat
  <2>1. to_nat \in Seq(Answers) /\ to_pool \in Seq(Messages) /\ h_recv \in Seq(Orders)
    BY DEF TypeOK
  <2>2. to_nat \in Seq(M) /\ to_pool \in Seq(M)
    BY <2>1, SeqMonotonic
  <2> QED
    BY <2>1, <2>2, BoundsAssumption
<1>4. InFlight = q /\ InFlight' = Append(q, sender.message)
  <2>1. InFlight = q \o <<>> /\ InFlight' = q \o <<sender.message>>
    BY <1>1 DEF InFlight, netVars
  <2> HIDE DEF q
  <2> QED
    BY <1>2, <1>3, <2>1, AppendIsConcat, ConcatEmptySeq
<1> HIDE DEF q, M
<1>5. h_recv' \in Seq(Orders) /\ Len(h_recv') <= RecvSize
  BY <1>1, <1>2, <1>3, AppendWithin
<1>6. SenderType'
  BY <1>1, <1>2 DEF SenderType
<1>7. TypeOK'
  BY <1>1, <1>5, <1>6, PoolKept, ThreadsKept DEF TypeOK, netVars, tableVars
<1>8. PairedAnswers'
  <2>1. Len(q) = Len(h_recv) /\ \A i \in DOMAIN h_recv : BelongsTo(q[i], h_recv[i], node)
    BY <1>4 DEF PairedAnswers
  <2>2. sender.message \in M
    BY <1>2 DEF M
  <2> QED
    BY <1>1, <1>2, <1>3, <1>4, <2>1, <2>2, PairAppend DEF PairedAnswers, tableVars
<1>9. TreesAgree'
  BY <1>1, TreesSame
<1>10. Pointers'
  BY <1>1 DEF Pointers, IsFreed, tableVars
<1> QED
  BY <1>7, <1>8, <1>9, <1>10

LEMMA SendStep ==
  ASSUME IInv, Send
  PROVE  IInv'
<1> USE DEF IInv
<1> DEFINE m == sender.message
           M == Messages \cup Answers
<1>1. /\ sender.pc = "send" /\ to_pool' = Append(to_pool, m) /\ sender' = Idle
      /\ UNCHANGED <<poolVars, to_nat, tableVars, timers, ringVars, divert, receiver, main, failure>>
  BY DEF Send
<1>2. m \in Messages
  BY <1>1, AtSender
<1>3. to_pool \in Seq(Messages) /\ to_pool' \in Seq(Messages)
  <2>1. to_pool \in Seq(Messages)
    BY DEF TypeOK
  <2> QED
    BY <1>1, <1>2, <2>1, AppendProperties
<1> HIDE DEF m
<1>4. InFlight' = InFlight
  <2>1. to_nat \in Seq(M) /\ to_pool \in Seq(M) /\ to_pool' \in Seq(M) /\ m \in M
    <3>1. to_nat \in Seq(Answers)
      BY DEF TypeOK
    <3> QED
      BY <1>2, <1>3, <3>1, SeqMonotonic
  <2> HIDE DEF M
  <2>2. InFlight = to_nat \o to_pool \o <<m>> /\ InFlight' = to_nat \o to_pool' \o <<>>
    BY <1>1 DEF InFlight, Idle, m
  <2>3. to_pool' = to_pool \o <<m>> /\ <<m>> \in Seq(M)
    BY <1>1, <2>1, AppendIsConcat
  <2>4. to_nat \o (to_pool \o <<m>>) = to_nat \o to_pool \o <<m>>
    BY <2>1, <2>3, ConcatAssociative
  <2>5. to_nat \o to_pool' \in Seq(M)
    BY <2>1, ConcatProperties
  <2>6. InFlight' = to_nat \o to_pool'
    BY <2>2, <2>5, ConcatEmptySeq
  <2> QED
    BY <2>2, <2>3, <2>4, <2>6
<1>5. TypeOK'
  BY <1>1, <1>3, PoolKept, ThreadsKept DEF TypeOK, SenderType, tableVars, ringVars
<1>6. PairedAnswers'
  BY <1>1, <1>4 DEF PairedAnswers, tableVars, ringVars
<1>7. TreesAgree'
  BY <1>1, TreesSame
<1>8. Pointers'
  BY <1>1 DEF Pointers, IsFreed, tableVars, Idle
<1> QED
  BY <1>5, <1>6, <1>7, <1>8

-----------------------------------------------------------------------------
(* The pool server *)

LEMMA AssignFact ==
  ASSUME TypeOK, NEW lan_ip \in Clients, NEW lan_port \in LanPorts,
         DB!AssignConnection(lan_ip, lan_port)
  PROVE  /\ DB!TypeOK'
         /\ \/ result' = undefined
            \/ result' \in Connections /\ LanKey(result') = <<lan_ip, lan_port>>
<1> DEFINE a == DB!AssignWanIP(lan_ip)
<1>1. DB!TypeOK
  BY DEF TypeOK
<1>2. CASE DB!AssignExisting(lan_ip, lan_port)
  BY <1>1, <1>2
  DEF DB!AssignExisting, DB!SameEntry, DB!TypeOK, DB!poolVars, Connections, LanKey
<1>3. CASE DB!AssignNoPort(lan_ip, lan_port)
  BY <1>1, <1>3 DEF DB!AssignNoPort, DB!TypeOK, DB!poolVars
<1>4. DB!HasPort(lan_ip) =>
        /\ a \in WanAddrs /\ pool_ports[a] \in Seq(DB!Ports) /\ pool_ports[a] # <<>>
        /\ Head(pool_ports[a]) \in DB!Ports /\ Tail(pool_ports[a]) \in Seq(DB!Ports)
  <2> SUFFICES ASSUME DB!HasPort(lan_ip)
               PROVE  <1>4!2
    OBVIOUS
  <2>1. a # undefined /\ pool_ports[a] # <<>>
    BY DEF DB!HasPort
  <2>2. a = pool_addrs[((lan_ip % 256) % Len(pool_addrs)) + 1] /\ pool_addrs # <<>>
    BY <2>1 DEF DB!AssignWanIP
  <2>3. lan_ip % 256 \in Nat
    BY ServerAssumption
  <2>4. pool_addrs \in Seq(WanAddrs) /\ Len(pool_addrs) \in Nat \ {0}
    <3>1. pool_addrs \in Seq(WanAddrs)
      BY <1>1 DEF DB!TypeOK
    <3> QED
      BY <2>2, <3>1, EmptySeq, LenProperties
  <2> HIDE DEF a
  <2>5. ((lan_ip % 256) % Len(pool_addrs)) + 1 \in 1 .. Len(pool_addrs)
    <3> DEFINE k == lan_ip % 256
               l == Len(pool_addrs)
    <3>1. k \in Nat /\ l \in Nat \ {0}
      BY <2>3, <2>4
    <3> HIDE DEF k, l
    <3>2. k % l \in 0 .. l - 1
      BY <3>1
    <3> QED
      BY <3>1, <3>2 DEF k, l
  <2>6. a \in WanAddrs
    BY <2>2, <2>4, <2>5, ElementOfSeq
  <2>7. pool_ports[a] \in Seq(DB!Ports)
    BY <1>1, <2>6 DEF DB!TypeOK
  <2> QED
    BY <2>1, <2>6, <2>7, HeadTailProperties
<1>5. CASE DB!AssignOverLimit(lan_ip, lan_port)
  BY <1>1, <1>4, <1>5 DEF DB!AssignOverLimit, DB!TakePort, DB!TypeOK
<1>6. CASE DB!AssignNew(lan_ip, lan_port)
  <2>1. DB!NewEntry(lan_ip, lan_port) \in Connections
    BY <1>4, <1>6 DEF DB!AssignNew, DB!NewEntry, Connections, DB!Entries
  <2>2. LanKey(DB!NewEntry(lan_ip, lan_port)) = <<lan_ip, lan_port>>
    BY DEF LanKey, DB!NewEntry
  <2>3. pool_ports' \in [WanAddrs -> Seq(DB!Ports)]
    BY <1>1, <1>4, <1>6 DEF DB!AssignNew, DB!TakePort, DB!TypeOK
  <2> QED
    BY <1>1, <1>6, <2>1, <2>2, <2>3 DEF DB!AssignNew, DB!TypeOK, Connections
<1> QED
  BY <1>2, <1>3, <1>5, <1>6 DEF DB!AssignConnection

LEMMA ReleaseFact ==
  ASSUME TypeOK, NEW e, DB!ReleaseConnection(e)
  PROVE  DB!TypeOK'
<1>1. DB!TypeOK
  BY DEF TypeOK
<1>2. CASE e \notin db
  BY <1>1, <1>2 DEF DB!ReleaseConnection, DB!vars, DB!TypeOK
<1>3. CASE e \in db
  <2>1. e.wan_ip \in WanAddrs /\ e.wan_port \in DB!Ports
    BY <1>1, <1>3 DEF DB!TypeOK, DB!Entries
  <2>2. pool_ports \in [WanAddrs -> Seq(DB!Ports)]
    BY <1>1 DEF DB!TypeOK
  <2>3. Append(pool_ports[e.wan_ip], e.wan_port) \in Seq(DB!Ports)
    BY <2>1, <2>2, AppendProperties
  <2>4. pool_ports' \in [WanAddrs -> Seq(DB!Ports)]
    BY <1>3, <2>1, <2>2, <2>3 DEF DB!ReleaseConnection, DB!ReturnPort
  <2> QED
    BY <1>1, <1>3, <2>4 DEF DB!ReleaseConnection, DB!TypeOK
<1> QED
  BY <1>2, <1>3

\* The message at the head of r is replaced by its answer at the end of q.
LEMMA AnswerInPlace ==
  ASSUME NEW S, NEW q \in Seq(S), NEW r \in Seq(S), NEW s \in Seq(S), NEW a \in S, r # <<>>
  PROVE  LET old == q \o r \o s
             new == Append(q, a) \o Tail(r) \o s
         IN  /\ Len(new) = Len(old) /\ old[Len(q) + 1] = Head(r)
             /\ \A i \in 1 .. Len(old) : new[i] = IF i = Len(q) + 1 THEN a ELSE old[i]
<1> DEFINE t == Tail(r) \o s
           u == r \o s
           old == q \o u
           p == Append(q, a)
           new == p \o t
<1>1. /\ Tail(r) \in Seq(S) /\ Len(Tail(r)) = Len(r) - 1
      /\ \A i \in 1 .. Len(r) - 1 : Tail(r)[i] = r[i + 1]
      /\ Head(r) = r[1] /\ Len(r) \in Nat \ {0} /\ Len(q) \in Nat /\ Len(s) \in Nat
  BY HeadTailProperties, LenProperties, EmptySeq
<1>2. /\ p \in Seq(S) /\ Len(p) = Len(q) + 1 /\ p[Len(q) + 1] = a
      /\ \A i \in 1 .. Len(q) : p[i] = q[i]
  BY AppendProperties
<1>3. /\ u \in Seq(S) /\ Len(u) = Len(r) + Len(s)
      /\ \A i \in 1 .. Len(r) + Len(s) : u[i] = IF i <= Len(r) THEN r[i] ELSE s[i - Len(r)]
  BY ConcatProperties
<1>4. /\ t \in Seq(S) /\ Len(t) = Len(r) - 1 + Len(s)
      /\ \A i \in 1 .. Len(r) - 1 + Len(s) :
           t[i] = IF i <= Len(r) - 1 THEN r[i + 1] ELSE s[i - (Len(r) - 1)]
  <2> DEFINE v == Tail(r)
  <2>1. v \in Seq(S)
    BY <1>1
  <2> HIDE DEF v
  <2>2. /\ v \o s \in Seq(S) /\ Len(v \o s) = Len(v) + Len(s)
        /\ \A i \in 1 .. Len(v) + Len(s) :
             (v \o s)[i] = IF i <= Len(v) THEN v[i] ELSE s[i - Len(v)]
    BY <2>1, ConcatProperties
  <2>3. /\ Len(v) = Len(r) - 1 /\ \A i \in 1 .. Len(r) - 1 : v[i] = r[i + 1]
        /\ t = v \o s
    BY <1>1 DEF v
  <2> HIDE DEF t
  <2> QED
    BY <1>1, <2>2, <2>3
<1> HIDE DEF t, u, p
<1> DEFINE k == Len(q)
           l == Len(r)
           m == Len(s)
<1>5. /\ Len(old) = k + (l + m)
      /\ \A i \in 1 .. k + (l + m) : old[i] = IF i <= k THEN q[i] ELSE u[i - k]
  <2>0. u \in Seq(S)
    BY <1>3
  <2>1. Len(u) = l + m
    BY <1>3
  <2>2. /\ q \o u \in Seq(S) /\ Len(q \o u) = Len(q) + Len(u)
        /\ \A i \in 1 .. Len(q) + Len(u) : (q \o u)[i] = IF i <= Len(q) THEN q[i] ELSE u[i - Len(q)]
    BY <2>0, ConcatProperties
  <2> QED
    BY <2>1, <2>2
<1>6. /\ Len(new) = (k + 1) + (l - 1 + m)
      /\ \A i \in 1 .. (k + 1) + (l - 1 + m) : new[i] = IF i <= k + 1 THEN p[i] ELSE t[i - (k + 1)]
  <2>0. p \in Seq(S) /\ t \in Seq(S)
    BY <1>2, <1>4
  <2>1. Len(p) = k + 1 /\ Len(t) = l - 1 + m
    BY <1>2, <1>4
  <2>2. /\ p \o t \in Seq(S) /\ Len(p \o t) = Len(p) + Len(t)
        /\ \A i \in 1 .. Len(p) + Len(t) : (p \o t)[i] = IF i <= Len(p) THEN p[i] ELSE t[i - Len(p)]
    BY <2>0, ConcatProperties
  <2> QED
    BY <2>1, <2>2
<1>7. old = q \o r \o s /\ new = Append(q, a) \o Tail(r) \o s
  <2>1. q \o (r \o s) = q \o r \o s
    BY ConcatAssociative
  <2>2. Append(q, a) \o (Tail(r) \o s) = Append(q, a) \o Tail(r) \o s
    BY <1>1, <1>2, ConcatAssociative DEF p
  <2> QED
    BY <2>1, <2>2 DEF t, u, p
<1> HIDE DEF old, new
<1>8. /\ k \in Nat /\ l \in Nat \ {0} /\ m \in Nat /\ Head(r) = r[1]
      /\ p[k + 1] = a /\ \A i \in 1 .. k : p[i] = q[i]
      /\ \A i \in 1 .. l + m : u[i] = IF i <= l THEN r[i] ELSE s[i - l]
      /\ \A i \in 1 .. l - 1 + m : t[i] = IF i <= l - 1 THEN r[i + 1] ELSE s[i - (l - 1)]
  BY <1>1, <1>2, <1>3, <1>4
<1> HIDE DEF k, l, m
<1>9. Len(new) = Len(old) /\ old[k + 1] = Head(r)
  <2>1. k + 1 \in 1 .. k + (l + m) /\ ~(k + 1 <= k) /\ (k + 1) - k = 1 /\ 1 \in 1 .. l + m
    BY <1>8
  <2> QED
    BY <1>5, <1>6, <1>8, <2>1
<1>10. ASSUME NEW i \in 1 .. k + (l + m)
      PROVE  new[i] = IF i = k + 1 THEN a ELSE old[i]
  <2>0. i \in 1 .. (k + 1) + (l - 1 + m) /\ i \in Int
    BY <1>8
  <2>1. CASE i <= k
    <3>1. i <= k + 1 /\ i # k + 1 /\ i \in 1 .. k
      BY <1>8, <2>0, <2>1
    <3> QED
      BY <1>5, <1>6, <1>8, <2>0, <2>1, <3>1
  <2>2. CASE i = k + 1
    <3>1. i <= k + 1
      BY <1>8, <2>2
    <3> QED
      BY <1>6, <1>8, <2>0, <2>2, <3>1
  <2>3. CASE i > k + 1
    <3> DEFINE j == i - (k + 1)
    <3>1. /\ ~(i <= k + 1) /\ ~(i <= k) /\ i # k + 1
          /\ j \in 1 .. l - 1 + m /\ i - k = j + 1 /\ j + 1 \in 1 .. l + m /\ j \in Int
      BY <1>8, <2>0, <2>3
    <3>2. new[i] = t[j]
      BY <1>6, <2>0, <3>1
    <3>3. old[i] = u[j + 1]
      BY <1>5, <3>1
    <3> HIDE DEF j
    <3>4. t[j] = u[j + 1]
      <4>1. CASE j <= l - 1
        <5>1. j + 1 <= l
          BY <1>8, <3>1, <4>1
        <5> QED
          BY <1>8, <3>1, <4>1, <5>1
      <4>2. CASE ~(j <= l - 1)
        <5>1. ~(j + 1 <= l) /\ (j + 1) - l = j - (l - 1)
          BY <1>8, <3>1, <4>2
        <5> QED
          BY <1>8, <3>1, <4>2, <5>1
      <4> QED
        BY <4>1, <4>2
    <3> QED
      BY <3>1, <3>2, <3>3, <3>4
  <2> QED
    BY <1>8, <2>0, <2>1, <2>2, <2>3
<1> QED
  BY <1>5, <1>7, <1>9, <1>10 DEF k

\* An answer to the oldest message belongs to the order of the message.
LEMMA AnswerPairs ==
  ASSUME TypeOK, PairedAnswers, to_pool # <<>>, NEW a \in Answers,
         to_pool' = Tail(to_pool), to_nat' = Append(to_nat, a),
         UNCHANGED <<node, h_recv, sender>>,
         \A o \in Orders : BelongsTo(Head(to_pool), o, node) => BelongsTo(a, o, node)
  PROVE  /\ PairedAnswers'
         /\ to_pool' \in Seq(Messages) /\ to_nat' \in Seq(Answers)
<1> DEFINE s == IF sender.pc = "send" THEN <<sender.message>> ELSE <<>>
           M == Messages \cup Answers
<1>1. to_nat \in Seq(Answers) /\ to_pool \in Seq(Messages)
  BY DEF TypeOK
<1>2. to_pool' \in Seq(Messages) /\ to_nat' \in Seq(Answers)
  BY <1>1, AppendProperties, HeadTailProperties
<1>3. to_nat \in Seq(M) /\ to_pool \in Seq(M) /\ s \in Seq(M) /\ a \in M
  <2>1. s \in Seq(M)
    <3>1. CASE sender.pc = "send"
      BY <3>1, AtSender
    <3>2. CASE sender.pc # "send"
      BY <3>2
    <3> QED
      BY <3>1, <3>2
  <2> HIDE DEF s
  <2> QED
    BY <1>1, <2>1, SeqMonotonic
<1>4. InFlight = to_nat \o to_pool \o s /\ InFlight' = Append(to_nat, a) \o Tail(to_pool) \o s
  BY DEF InFlight
<1> HIDE DEF s, M
<1>5. /\ Len(InFlight') = Len(InFlight) /\ InFlight[Len(to_nat) + 1] = Head(to_pool)
      /\ \A i \in 1 .. Len(InFlight) :
           InFlight'[i] = IF i = Len(to_nat) + 1 THEN a ELSE InFlight[i]
  BY <1>3, <1>4, AnswerInPlace
<1>6. DOMAIN h_recv = 1 .. Len(InFlight) /\ \A i \in DOMAIN h_recv : h_recv[i] \in Orders
  BY InFlightType DEF PairedAnswers
<1>7. ASSUME NEW i \in DOMAIN h_recv
      PROVE  BelongsTo(InFlight'[i], h_recv[i], node)
  <2>1. BelongsTo(InFlight[i], h_recv[i], node)
    BY DEF PairedAnswers
  <2> QED
    BY <1>5, <1>6, <2>1
<1> QED
  BY <1>2, <1>5, <1>7 DEF PairedAnswers

LEMMA AnswerRequestStep ==
  ASSUME IInv, AnswerRequest
  PROVE  IInv'
<1> USE DEF IInv
<1> DEFINE m == Head(to_pool)
           a == IF result' = undefined THEN [type |-> "request_discard", lan |-> m.lan]
                ELSE [type |-> "request_ack", entry |-> result']
<1>1. /\ to_pool # <<>> /\ m.type = "request" /\ to_pool' = Tail(to_pool)
      /\ to_nat' = Append(to_nat, a) /\ DB!AssignConnection(m.lan[1], m.lan[2])
      /\ UNCHANGED <<tableVars, timers, ringVars, divert, sender, receiver, main, failure>>
  BY DEF AnswerRequest
<1>2. m.lan \in LanKeys
  <2>1. m \in Messages
    BY <1>1, HeadTailProperties DEF TypeOK
  <2> QED
    BY <1>1, <2>1 DEF Messages
<1>3. /\ DB!TypeOK'
      /\ \/ result' = undefined
         \/ result' \in Connections /\ LanKey(result') = m.lan
  <2>1. m.lan[1] \in Clients /\ m.lan[2] \in LanPorts /\ m.lan = <<m.lan[1], m.lan[2]>>
    BY <1>2 DEF LanKeys
  <2> HIDE DEF m
  <2> QED
    BY <1>1, <2>1, AssignFact
<1> HIDE DEF m
<1>4. /\ a \in Answers
      /\ \A o \in Orders : BelongsTo(m, o, node) => BelongsTo(a, o, node)
  <2>1. CASE result' = undefined
    BY <1>1, <1>2, <2>1 DEF Answers, BelongsTo
  <2>2. CASE result' # undefined
    BY <1>1, <1>2, <1>3, <2>2 DEF Answers, Acks, BelongsTo
  <2> QED
    BY <2>1, <2>2
<1> HIDE DEF a
<1>5. PairedAnswers' /\ to_pool' \in Seq(Messages) /\ to_nat' \in Seq(Answers)
  BY <1>1, <1>4, AnswerPairs DEF m, tableVars, ringVars
<1>6. TypeOK'
  BY <1>1, <1>3, <1>5, ThreadsKept DEF TypeOK, tableVars, ringVars
<1>7. TreesAgree'
  BY <1>1, TreesSame
<1>8. Pointers'
  BY <1>1 DEF Pointers, IsFreed, tableVars
<1> QED
  BY <1>5, <1>6, <1>7, <1>8

LEMMA AnswerReleaseStep ==
  ASSUME IInv, AnswerRelease
  PROVE  IInv'
<1> USE DEF IInv
<1> DEFINE m == Head(to_pool)
           a == [type |-> "release_ack", entry |-> m.entry]
<1>1. /\ to_pool # <<>> /\ m.type = "release" /\ to_pool' = Tail(to_pool)
      /\ to_nat' = Append(to_nat, a) /\ DB!ReleaseConnection(m.entry)
      /\ UNCHANGED <<tableVars, timers, ringVars, divert, sender, receiver, main, failure>>
  BY DEF AnswerRelease
<1>2. m.entry \in Connections
  <2>1. m \in Messages
    BY <1>1, HeadTailProperties DEF TypeOK
  <2> QED
    BY <1>1, <2>1 DEF Messages
<1>3. DB!TypeOK'
  BY <1>1, ReleaseFact
<1> HIDE DEF m
<1>4. /\ a \in Answers
      /\ \A o \in Orders : BelongsTo(m, o, node) => BelongsTo(a, o, node)
  BY <1>1, <1>2 DEF Answers, Acks, BelongsTo
<1> HIDE DEF a
<1>5. PairedAnswers' /\ to_pool' \in Seq(Messages) /\ to_nat' \in Seq(Answers)
  BY <1>1, <1>4, AnswerPairs DEF m, tableVars, ringVars
<1>6. TypeOK'
  BY <1>1, <1>3, <1>5, ThreadsKept DEF TypeOK, tableVars, ringVars
<1>7. TreesAgree'
  BY <1>1, TreesSame
<1>8. Pointers'
  BY <1>1 DEF Pointers, IsFreed, tableVars
<1> QED
  BY <1>5, <1>6, <1>7, <1>8

-----------------------------------------------------------------------------
(* receiver *)

\* The head of the first of two sequences is the head of both.
LEMMA HeadInPlace ==
  ASSUME NEW S, NEW q \in Seq(S), NEW r \in Seq(S), q # <<>>
  PROVE  /\ Len(Tail(q) \o r) = Len(q \o r) - 1 /\ (q \o r)[1] = Head(q)
         /\ \A i \in 1 .. Len(q \o r) - 1 : (Tail(q) \o r)[i] = (q \o r)[i + 1]
<1> DEFINE v == Tail(q)
           k == Len(q)
           l == Len(r)
<1>1. v \in Seq(S)
  BY HeadTailProperties
<1>2. /\ Len(v) = k - 1 /\ \A i \in 1 .. k - 1 : v[i] = q[i + 1]
      /\ Head(q) = q[1] /\ k \in Nat \ {0} /\ l \in Nat
  BY HeadTailProperties, LenProperties, EmptySeq
<1> HIDE DEF v
<1>3. /\ q \o r \in Seq(S) /\ Len(q \o r) = Len(q) + Len(r)
      /\ \A i \in 1 .. Len(q) + Len(r) : (q \o r)[i] = IF i <= Len(q) THEN q[i] ELSE r[i - Len(q)]
  BY ConcatProperties
<1>4. /\ v \o r \in Seq(S) /\ Len(v \o r) = Len(v) + Len(r)
      /\ \A i \in 1 .. Len(v) + Len(r) : (v \o r)[i] = IF i <= Len(v) THEN v[i] ELSE r[i - Len(v)]
  BY <1>1, ConcatProperties
<1> DEFINE old == q \o r
           new == v \o r
<1>5. /\ Len(old) = k + l /\ \A i \in 1 .. k + l : old[i] = IF i <= k THEN q[i] ELSE r[i - k]
      /\ Len(new) = k - 1 + l
      /\ \A i \in 1 .. k - 1 + l : new[i] = IF i <= k - 1 THEN v[i] ELSE r[i - (k - 1)]
  BY <1>2, <1>3, <1>4
<1> HIDE DEF k, l, old, new
<1>6. Len(new) = Len(old) - 1 /\ old[1] = Head(q) /\ Len(old) - 1 = k - 1 + l
  BY <1>2, <1>5
<1>7. ASSUME NEW i \in 1 .. k - 1 + l
      PROVE  new[i] = old[i + 1]
  <2>1. i + 1 \in 1 .. k + l /\ i \in Int /\ (i + 1) - k = i - (k - 1)
    BY <1>2
  <2>2. CASE i <= k - 1
    <3>1. i + 1 <= k /\ i \in 1 .. k - 1
      BY <1>2, <2>1, <2>2
    <3> QED
      BY <1>2, <1>5, <2>1, <2>2, <3>1
  <2>3. CASE ~(i <= k - 1)
    <3>1. ~(i + 1 <= k)
      BY <1>2, <2>1, <2>3
    <3> QED
      BY <1>5, <2>1, <2>3, <3>1
  <2> QED
    BY <2>2, <2>3
<1> QED
  BY <1>6, <1>7 DEF old, new, v

\* The oldest answer and the oldest order belong together; what is left of
\* both still pairs, if the nodes of the timeouts in h_recv are kept.
LEMMA ReceivePairs ==
  ASSUME TypeOK, PairedAnswers, to_nat # <<>>, h_recv # <<>>,
         to_nat' = Tail(to_nat), h_recv' = Tail(h_recv), UNCHANGED <<to_pool, sender>>
  PROVE  /\ Head(to_nat) \in Answers /\ Head(h_recv) \in Orders
         /\ BelongsTo(Head(to_nat), Head(h_recv), node)
         /\ to_nat' \in Seq(Answers) /\ h_recv' \in Seq(Orders) /\ Len(h_recv') <= RecvSize
         /\ (\A n \in Nodes : TimeoutOrder(n) \in Range(h_recv) => Kept(n)) => PairedAnswers'
<1> DEFINE s == IF sender.pc = "send" THEN <<sender.message>> ELSE <<>>
           M == Messages \cup Answers
           r == to_pool \o s
<1>1. to_nat \in Seq(Answers) /\ h_recv \in Seq(Orders) /\ Len(h_recv) <= RecvSize
  BY DEF TypeOK
<1>2. /\ Head(to_nat) \in Answers /\ to_nat' \in Seq(Answers)
      /\ Head(h_recv) \in Orders /\ h_recv' \in Seq(Orders) /\ Head(h_recv) = h_recv[1]
      /\ Len(h_recv') = Len(h_recv) - 1 /\ Len(h_recv) \in Nat \ {0}
      /\ \A i \in 1 .. Len(h_recv) - 1 : h_recv'[i] = h_recv[i + 1]
  BY <1>1, HeadTailProperties, LenProperties, EmptySeq
<1>3. to_nat \in Seq(M) /\ to_pool \in Seq(M) /\ s \in Seq(M)
  <2>1. s \in Seq(M)
    <3>1. CASE sender.pc = "send"
      BY <3>1, AtSender
    <3>2. CASE sender.pc # "send"
      BY <3>2
    <3> QED
      BY <3>1, <3>2
  <2>2. to_pool \in Seq(Messages)
    BY DEF TypeOK
  <2> HIDE DEF s
  <2> QED
    BY <1>1, <2>1, <2>2, SeqMonotonic
<1>4. InFlight = to_nat \o to_pool \o s /\ InFlight' = Tail(to_nat) \o to_pool \o s
  BY DEF InFlight
<1> HIDE DEF s, M
<1>5. r \in Seq(M) /\ InFlight = to_nat \o r /\ InFlight' = Tail(to_nat) \o r
  <2>1. Tail(to_nat) \in Seq(M)
    BY <1>3, HeadTailProperties
  <2>2. r \in Seq(M)
    BY <1>3, ConcatProperties
  <2>3. to_nat \o (to_pool \o s) = to_nat \o to_pool \o s
    BY <1>3, ConcatAssociative
  <2>4. Tail(to_nat) \o (to_pool \o s) = Tail(to_nat) \o to_pool \o s
    BY <1>3, <2>1, ConcatAssociative
  <2> QED
    BY <1>4, <2>2, <2>3, <2>4
<1> HIDE DEF r
<1>6. /\ Len(InFlight') = Len(InFlight) - 1 /\ InFlight[1] = Head(to_nat)
      /\ \A i \in 1 .. Len(InFlight) - 1 : InFlight'[i] = InFlight[i + 1]
  BY <1>3, <1>5, HeadInPlace
<1>7. /\ DOMAIN h_recv = 1 .. Len(h_recv) /\ Len(InFlight) = Len(h_recv)
      /\ \A i \in DOMAIN h_recv : BelongsTo(InFlight[i], h_recv[i], node)
      /\ \A i \in DOMAIN h_recv : InFlight[i] \in M /\ h_recv[i] \in Orders
  <2>1. \A i \in DOMAIN InFlight : InFlight[i] \in M
    BY InFlightType, ElementOfSeq DEF M
  <2> QED
    BY <2>1, InFlightType DEF PairedAnswers
<1>8. BelongsTo(Head(to_nat), Head(h_recv), node)
  BY <1>2, <1>6, <1>7
<1>9. ASSUME \A n \in Nodes : TimeoutOrder(n) \in Range(h_recv) => Kept(n)
      PROVE  PairedAnswers'
  <2>1. DOMAIN h_recv' = 1 .. Len(h_recv) - 1
    BY <1>2, LenProperties
  <2>2. ASSUME NEW i \in 1 .. Len(h_recv) - 1
        PROVE  BelongsTo(InFlight'[i], h_recv'[i], node')
    <3> DEFINE m == InFlight[i + 1]
               o == h_recv[i + 1]
    <3>1. i + 1 \in DOMAIN h_recv
      BY <1>2, <1>7
    <3>2. m \in Messages \cup Answers /\ o \in Orders /\ BelongsTo(m, o, node)
      BY <1>7, <3>1 DEF M
    <3>3. o \in Timeouts => Kept(o.table)
      <4>1. o \in Range(h_recv)
        BY <3>1 DEF Range
      <4>2. o \in Timeouts => o.table \in Nodes /\ o = TimeoutOrder(o.table)
        BY DEF Timeouts, TimeoutOrder
      <4> QED
        BY <1>9, <4>1, <4>2
    <3>4. InFlight'[i] = m /\ h_recv'[i] = o
      BY <1>2, <1>6, <1>7
    <3> QED
      BY <3>2, <3>3, <3>4, BelongsKept
  <2> QED
    BY <1>2, <1>6, <1>7, <2>1, <2>2 DEF PairedAnswers
<1>10. Len(h_recv') <= RecvSize
  BY <1>1, <1>2, BoundsAssumption
<1> QED
  BY <1>2, <1>8, <1>9, <1>10

LEMMA RequestAckStep ==
  ASSUME IInv, RequestAck
  PROVE  IInv'
<1> USE DEF IInv
<1> DEFINE a == Head(to_nat)
           e == a.entry
           o == Head(h_recv)
<1>1. /\ to_nat # <<>> /\ h_recv # <<>> /\ to_nat' = Tail(to_nat) /\ h_recv' = Tail(h_recv)
      /\ receiver = Idle /\ a.type = "request_ack"
      /\ UNCHANGED <<poolVars, to_pool, timers, h_send, divert, sender, main, failure>>
  BY DEF RequestAck, Answered
<1>2. /\ a \in Acks /\ e \in Connections /\ o \in Requests
      /\ to_nat' \in Seq(Answers) /\ h_recv' \in Seq(Orders) /\ Len(h_recv') <= RecvSize
      /\ (\A n \in Nodes : TimeoutOrder(n) \in Range(h_recv) => Kept(n)) => PairedAnswers'
  <2>1. /\ a \in Answers /\ o \in Orders /\ BelongsTo(a, o, node)
    BY <1>1, ReceivePairs
  <2>2. a \in Acks /\ e \in Connections
    BY <1>1, <2>1 DEF Answers, Acks
  <2> HIDE DEF a, e, o
  <2>3. o.kind = "REQ"
    BY <1>1, <2>1 DEF BelongsTo
  <2>4. o \in Requests
    BY <2>1, <2>3 DEF Orders, Releases, Timeouts
  <2> QED
    BY <1>1, <2>2, <2>4, ReceivePairs
<1> HIDE DEF a, e, o
<1>3. CASE Collides(e)
  <2>1. UNCHANGED <<tableVars, receiver>>
    BY <1>3 DEF RequestAck, e, a
  <2>2. TypeOK'
    BY <1>1, <1>2, <2>1, PoolKept, ThreadsKept DEF TypeOK, tableVars
  <2>3. \A n \in Nodes : Kept(n)
    BY <2>1 DEF Kept, IsFreed, tableVars
  <2>4. Pointers'
    BY <1>1, <2>1 DEF Pointers, IsFreed, tableVars
  <2> QED
    BY <1>2, <2>1, <2>2, <2>3, <2>4, TreesSame
<1>4. CASE ~Collides(e)
  <2>1. PICK n \in Nodes :
          /\ IsFreed(n) /\ ~Held(n) /\ Insert(n, e)
          /\ receiver' = [pc |-> "arm", reply |-> a, order |-> o]
    BY <1>4 DEF RequestAck, e, a, o
  <2>2. /\ l2w' = l2w \cup {n} /\ w2l' = w2l \cup {n}
        /\ node' = [node EXCEPT ![n] =
                      [entry |-> e, flags |-> IF protocol = "TCP" THEN "SYN_SENT" ELSE "ESTABLISHED",
                       timer_flags |-> "LOOP", idle |-> FALSE]]
    BY <2>1 DEF Insert
  <2>3. node \in [Nodes -> NodeRecords \cup {Freed}] /\ l2w \subseteq Nodes /\ w2l \subseteq Nodes
    BY DEF TypeOK
  <2>4. /\ node'[n] \in NodeRecords /\ node'[n].entry = e
        /\ node' \in [Nodes -> NodeRecords \cup {Freed}]
        /\ \A m \in Nodes \ {n} : node'[m] = node[m]
    <3>1. "SYN_SENT" \in TcpStates /\ "ESTABLISHED" \in TcpStates
      BY DEF TcpStates
    <3>2. node'[n] \in NodeRecords /\ node'[n].entry = e
      BY <1>2, <2>2, <2>3, <3>1 DEF NodeRecords
    <3> QED
      BY <2>2, <2>3, <3>2
  <2>5. \A m \in Nodes \ {n} : Kept(m)
    BY <2>4 DEF Kept, IsFreed
  <2>6. /\ TimeoutOrder(n) \notin Range(h_recv)
        /\ sender.pc = "compose" => sender.table # n
        /\ sender.pc \in {"compose", "push"} => sender.order # TimeoutOrder(n)
    BY <2>1, AtSender DEF Held, HasPointer
  <2>7. PairedAnswers'
    BY <1>2, <2>5, <2>6
  <2>8. TypeOK'
    <3>1. ReceiverType'
      BY <1>2, <2>1 DEF ReceiverType
    <3> QED
      BY <1>1, <1>2, <2>2, <2>3, <2>4, <3>1, PoolKept, ThreadsKept DEF TypeOK
  <2>9. TreesAgree'
    <3>1. n \notin l2w
      BY <2>1 DEF TreesAgree
    <3>2. /\ l2w' = w2l' /\ \A m \in l2w' : ~IsFreed(m)'
      BY <2>2, <2>3, <2>4, FreedAssumption DEF TreesAgree, IsFreed
    <3>3. \A m \in l2w : \A side \in Directions : KeyOf(side, node[m].entry) # KeyOf(side, e)
      BY <1>4 DEF Collides, find_l2w, find_w2l, KeyOf, TreesAgree
    <3>4. /\ node'[n].entry = e /\ l2w' = l2w \cup {n}
          /\ \A m \in l2w : m \in Nodes /\ node'[m].entry = node[m].entry
      BY <2>2, <2>3, <2>4, <3>1
    <3>5. \A m, k \in l2w' : \A side \in Directions :
            KeyOf(side, node'[m].entry) = KeyOf(side, node'[k].entry) => m = k
      BY <3>3, <3>4 DEF TreesAgree
    <3> QED
      BY <3>2, <3>5 DEF TreesAgree, KeyOf, LanKey, WanKey
  <2>10. Pointers'
    <3>1. sender.pc = "compose" => sender.table \in Nodes
      BY AtSender
    <3> QED
      BY <1>1, <2>1, <2>5, <2>6, <3>1, SenderKept DEF Pointers
  <2> QED
    BY <2>7, <2>8, <2>9, <2>10
<1> QED
  BY <1>3, <1>4

LEMMA ArmNewStep ==
  ASSUME IInv, ArmNew
  PROVE  IInv'
<1> USE DEF IInv
<1>1. /\ receiver.pc = "arm" /\ timers' = timers \cup {LanKey(receiver.reply.entry)}
      /\ receiver' = [receiver EXCEPT !.pc = "find"]
      /\ UNCHANGED <<poolVars, netVars, tableVars, ringVars, divert, sender, main, failure>>
  BY DEF ArmNew
<1>2. receiver \in [pc : {"arm", "find"}, reply : Acks, order : Requests \cup Releases]
  BY <1>1, AtReceiver
<1>3. ReceiverType' /\ receiver'.pc = "find"
  BY <1>1, <1>2 DEF ReceiverType
<1>4. LanKey(receiver.reply.entry) \in LanKeys
  BY <1>2, KeyType DEF Acks
<1>5. TypeOK'
  BY <1>1, <1>3, <1>4, PoolKept, ThreadsKept DEF TypeOK, netVars, tableVars, ringVars
<1>6. PairedAnswers'
  BY <1>1 DEF PairedAnswers, InFlight, netVars, tableVars, ringVars
<1>7. TreesAgree'
  BY <1>1, TreesSame
<1>8. Pointers'
  BY <1>1, <1>3 DEF Pointers, IsFreed, tableVars
<1> QED
  BY <1>5, <1>6, <1>7, <1>8

LEMMA RequestDiscardStep ==
  ASSUME IInv, RequestDiscard
  PROVE  IInv'
<1> USE DEF IInv
<1>1. /\ to_nat # <<>> /\ h_recv # <<>> /\ to_nat' = Tail(to_nat) /\ h_recv' = Tail(h_recv)
      /\ UNCHANGED <<poolVars, to_pool, tableVars, timers, h_send,
                     divert, sender, receiver, main, failure>>
  BY DEF RequestDiscard, Answered
<1>2. \A n \in Nodes : Kept(n)
  BY <1>1 DEF Kept, IsFreed, tableVars
<1>3. /\ to_nat' \in Seq(Answers) /\ h_recv' \in Seq(Orders) /\ Len(h_recv') <= RecvSize
      /\ PairedAnswers'
  BY <1>1, <1>2, ReceivePairs
<1>4. TypeOK'
  BY <1>1, <1>3, PoolKept, ThreadsKept DEF TypeOK, tableVars
<1>5. TreesAgree'
  BY <1>1, TreesSame
<1>6. Pointers'
  BY <1>1 DEF Pointers, IsFreed, tableVars
<1> QED
  BY <1>3, <1>4, <1>5, <1>6

\* A node that is freed is out of the trees, and every pointer to it is kept,
\* in the sense that nothing is promised of a freed node.
LEMMA FreeFact ==
  ASSUME TypeOK, TreesAgree, NEW n \in Nodes, Free(n),
         l2w' = l2w \ {n}, w2l' = w2l \ {n}
  PROVE  /\ node' \in [Nodes -> NodeRecords \cup {Freed}]
         /\ \A m \in Nodes : Kept(m)
         /\ TreesAgree'
<1>1. node \in [Nodes -> NodeRecords \cup {Freed}] /\ l2w \subseteq Nodes
  BY DEF TypeOK
<1>2. node' \in [Nodes -> NodeRecords \cup {Freed}] /\ \A m \in Nodes \ {n} : node'[m] = node[m]
  BY <1>1 DEF Free
<1>3. node'[n] = Freed
  BY <1>1 DEF Free
<1>4. \A m \in Nodes : Kept(m)
  BY <1>2, <1>3 DEF Kept, IsFreed
<1>5. /\ l2w' = w2l'
      /\ \A m \in l2w' : m \in l2w /\ node'[m] = node[m]
  BY <1>1, <1>2 DEF TreesAgree
<1>6. TreesAgree'
  BY <1>5 DEF TreesAgree, IsFreed, KeyOf, LanKey, WanKey
<1> QED
  BY <1>2, <1>4, <1>6

LEMMA ReleaseAckTimeoutStep ==
  ASSUME IInv, ReleaseAckTimeout
  PROVE  IInv'
<1> USE DEF IInv
<1> DEFINE o == Head(h_recv)
           n == o.table
<1>1. /\ to_nat # <<>> /\ h_recv # <<>> /\ to_nat' = Tail(to_nat) /\ h_recv' = Tail(h_recv)
      /\ receiver = Idle /\ o.kind = "TIMEOUT"
      /\ UNCHANGED <<poolVars, to_pool, timers, h_send, divert, sender, receiver, main>>
      /\ \/ failure' = "use after free" /\ UNCHANGED tableVars
         \/ Remove(n) /\ Free(n) /\ failure' = failure
  BY DEF ReleaseAckTimeout, Answered
<1>2. n \in Nodes
  <2>1. o \in Orders
    BY <1>1, ReceivePairs
  <2> QED
    BY <1>1, <2>1 DEF Orders, Requests, Releases, Timeouts
<1> HIDE DEF o
<1>3. /\ node' \in [Nodes -> NodeRecords \cup {Freed}] /\ l2w' \subseteq Nodes /\ w2l' \subseteq Nodes
      /\ \A m \in Nodes : Kept(m)
      /\ TreesAgree'
  <2>1. CASE UNCHANGED tableVars
    BY <2>1, TreesSame DEF TypeOK, Kept, IsFreed, tableVars
  <2>2. CASE Remove(n) /\ Free(n)
    BY <1>2, <2>2, FreeFact DEF Remove, TypeOK
  <2> QED
    BY <1>1, <2>1, <2>2
<1>4. /\ to_nat' \in Seq(Answers) /\ h_recv' \in Seq(Orders) /\ Len(h_recv') <= RecvSize
      /\ PairedAnswers'
  BY <1>1, <1>3, ReceivePairs
<1>5. TypeOK'
  BY <1>1, <1>3, <1>4, PoolKept, ThreadsKept DEF TypeOK, Failures
<1>6. Pointers'
  <2>1. sender.pc = "compose" => sender.table \in Nodes
    BY AtSender
  <2> QED
    BY <1>1, <1>3, <2>1, SenderKept DEF Pointers, Idle
<1> QED
  BY <1>3, <1>4, <1>5, <1>6

LEMMA ReleaseAckStep ==
  ASSUME IInv, ReleaseAck
  PROVE  IInv'
<1> USE DEF IInv
<1>1. /\ to_nat # <<>> /\ h_recv # <<>> /\ to_nat' = Tail(to_nat) /\ h_recv' = Tail(h_recv)
      /\ Head(to_nat).type = "release_ack" /\ Head(h_recv).kind # "TIMEOUT"
      /\ receiver' = [pc |-> "find", reply |-> Head(to_nat), order |-> Head(h_recv)]
      /\ UNCHANGED <<poolVars, to_pool, tableVars, timers, h_send, divert, sender, main, failure>>
  BY DEF ReleaseAck, Answered
<1>2. \A n \in Nodes : Kept(n)
  BY <1>1 DEF Kept, IsFreed, tableVars
<1>3. /\ to_nat' \in Seq(Answers) /\ h_recv' \in Seq(Orders) /\ Len(h_recv') <= RecvSize
      /\ Head(to_nat) \in Answers /\ Head(h_recv) \in Orders
      /\ PairedAnswers'
  BY <1>1, <1>2, ReceivePairs
<1>4. Head(to_nat) \in Acks /\ Head(h_recv) \in Requests \cup Releases
  BY <1>1, <1>3 DEF Answers, Orders, Timeouts
<1>5. ReceiverType'
  BY <1>1, <1>4 DEF ReceiverType
<1>6. TypeOK'
  BY <1>1, <1>3, <1>5, PoolKept, ThreadsKept DEF TypeOK, tableVars
<1>7. TreesAgree'
  BY <1>1, TreesSame
<1>8. Pointers'
  BY <1>1 DEF Pointers, IsFreed, tableVars
<1> QED
  BY <1>3, <1>6, <1>7, <1>8

LEMMA FindKeptStep ==
  ASSUME IInv, FindKept
  PROVE  IInv'
<1> USE DEF IInv
<1> DEFINE p == receiver.order.packet
<1>1. /\ receiver.pc = "find"
      /\ UNCHANGED <<poolVars, netVars, tableVars, timers, ringVars, divert, sender, main, failure>>
      /\ \/ receiver' = Idle
         \/ \E n \in find(p.from, p.key) :
              receiver' = [pc |-> "alias", reply |-> receiver.reply, packet |-> p,
                           table |-> n, seen |-> node[n].flags]
  BY DEF FindKept
<1>2. receiver.reply \in Acks /\ p \in Packets /\ p.from \in Directions
  <2>1. receiver \in [pc : {"arm", "find"}, reply : Acks, order : Requests \cup Releases]
    BY <1>1, AtReceiver
  <2> QED
    BY <2>1 DEF Requests, Releases, Packets, LanPackets, WanPackets, Directions
<1> HIDE DEF p
<1>3. ReceiverType' /\ (receiver'.pc = "alias" => receiver'.table \in l2w) /\ receiver'.pc # "disarm"
  <2>1. CASE receiver' = Idle
    BY <2>1 DEF ReceiverType, Idle
  <2>2. ASSUME NEW n \in find(p.from, p.key),
               receiver' = [pc |-> "alias", reply |-> receiver.reply, packet |-> p,
                            table |-> n, seen |-> node[n].flags]
        PROVE  <1>3!:
    <3>1. n \in l2w /\ n \in Nodes /\ node[n].flags \in TcpStates
      BY <1>2, Found DEF NodeRecords
    <3> QED
      BY <1>2, <2>2, <3>1 DEF ReceiverType
  <2> QED
    BY <1>1, <2>1, <2>2
<1>4. TypeOK'
  BY <1>1, <1>3, PoolKept, ThreadsKept DEF TypeOK, netVars, tableVars, ringVars
<1>5. PairedAnswers'
  BY <1>1 DEF PairedAnswers, InFlight, netVars, tableVars, ringVars
<1>6. TreesAgree'
  BY <1>1, TreesSame
<1>7. Pointers'
  BY <1>1, <1>3 DEF Pointers, IsFreed, tableVars
<1> QED
  BY <1>4, <1>5, <1>6, <1>7

LEMMA AliasKeptStep ==
  ASSUME IInv, AliasKept
  PROVE  IInv'
<1> USE DEF IInv
<1> DEFINE n == receiver.table
<1>1. /\ receiver.pc = "alias" /\ Apply(n, receiver.seen, receiver.packet)
      /\ \/ receiver' = Idle
         \/ receiver' = [pc |-> "remove", entry |-> receiver.reply.entry]
      /\ UNCHANGED <<poolVars, netVars, l2w, w2l, timers, ringVars, divert, sender, main, failure>>
  BY DEF AliasKept
<1>2. /\ n \in Nodes /\ receiver.seen \in TcpStates /\ receiver.packet \in Packets
      /\ receiver.reply \in Acks
  BY <1>1, AtReceiver
<1>3. n \in l2w /\ ~IsFreed(n)
  BY <1>1 DEF Pointers, TreesAgree
<1> HIDE DEF n
<1>4. node' \in [Nodes -> NodeRecords \cup {Freed}] /\ SameNodes
  BY <1>1, <1>2, <1>3, ApplyNode DEF SameNodes
<1>5. ReceiverType' /\ receiver'.pc \in {"idle", "remove"}
  <2>1. receiver.reply.entry \in Connections
    BY <1>2 DEF Acks
  <2> QED
    BY <1>1, <2>1 DEF ReceiverType, Idle
<1>6. TypeOK'
  BY <1>1, <1>4, <1>5, PoolKept, ThreadsKept DEF TypeOK, netVars, ringVars
<1>7. PairedAnswers'
  BY <1>1, <1>4, PairsKept, SameNodesKept DEF InFlight, netVars, ringVars
<1>8. TreesAgree'
  <2>1. \A m \in l2w : m \in Nodes /\ ~IsFreed(m)
    BY DEF TypeOK, TreesAgree
  <2> QED
    BY <1>1, <1>4, <2>1, TreesKept DEF SameNodes
<1>9. Pointers'
  <2>1. sender.pc = "compose" => sender.table \in Nodes
    BY AtSender
  <2> QED
    BY <1>1, <1>4, <1>5, <2>1, SenderKept, SameNodesKept DEF Pointers
<1> QED
  BY <1>6, <1>7, <1>8, <1>9

LEMMA RemoveReleasedStep ==
  ASSUME IInv, RemoveReleased
  PROVE  IInv'
<1> USE DEF IInv
<1>1. UNCHANGED <<poolVars, netVars, node, timers, ringVars, divert, sender, main>>
  BY DEF RemoveReleased
<1>2. \/ failure' = "nat table delete error" /\ UNCHANGED <<l2w, w2l, receiver>>
      \/ \E n \in l2w : /\ Remove(n)
                       /\ receiver' = [pc |-> "disarm", table |-> n]
                       /\ failure' = failure
  BY DEF RemoveReleased, find_l2w
<1>3. /\ l2w' \subseteq l2w /\ w2l' \subseteq w2l /\ l2w' = w2l' /\ ReceiverType'
      /\ failure' \in {failure, "nat table delete error"}
      /\ \/ receiver' = receiver /\ l2w' = l2w
         \/ receiver'.pc = "disarm" /\ receiver'.table \notin l2w' /\ node[receiver'.table] # Freed
  <2>1. CASE UNCHANGED <<l2w, w2l, receiver>> /\ failure' = "nat table delete error"
    BY <2>1, ThreadsKept DEF TreesAgree
  <2>2. ASSUME NEW n \in l2w, Remove(n), receiver' = [pc |-> "disarm", table |-> n],
               failure' = failure
        PROVE  <1>3!:
    <3>1. n \in Nodes /\ ~IsFreed(n) /\ l2w = w2l
      BY DEF TypeOK, TreesAgree
    <3> QED
      BY <2>2, <3>1 DEF Remove, ReceiverType, IsFreed
  <2> QED
    BY <1>2, <2>1, <2>2
<1>4. TypeOK'
  BY <1>1, <1>3, PoolKept, ThreadsKept DEF TypeOK, Failures, netVars, ringVars
<1>5. PairedAnswers'
  BY <1>1 DEF PairedAnswers, InFlight, netVars, ringVars
<1>6. TreesAgree'
  <2>1. l2w' = w2l' /\ \A m \in l2w' : m \in l2w /\ node'[m] = node[m]
    BY <1>1, <1>3
  <2> QED
    BY <2>1 DEF TreesAgree, IsFreed, KeyOf, LanKey, WanKey
<1>7. Pointers'
  BY <1>1, <1>3 DEF Pointers, IsFreed
<1> QED
  BY <1>4, <1>5, <1>6, <1>7

LEMMA FreeReleasedStep ==
  ASSUME IInv, FreeReleased
  PROVE  IInv'
<1> USE DEF IInv
<1> DEFINE n == receiver.table
<1>1. /\ receiver.pc = "disarm"
      /\ UNCHANGED <<poolVars, netVars, l2w, w2l, ringVars, divert, sender, main>>
      /\ \/ timers' \subseteq timers /\ Free(n) /\ receiver' = Idle /\ failure' = failure
         \/ failure' = "no timer" /\ UNCHANGED <<timers, node, receiver>>
  BY DEF FreeReleased
<1>2. n \in Nodes /\ n \notin l2w /\ n \notin w2l
  BY <1>1, AtReceiver DEF Pointers, TreesAgree
<1> HIDE DEF n
<1>3. /\ node' \in [Nodes -> NodeRecords \cup {Freed}] /\ TreesAgree' /\ ReceiverType'
      /\ \A m \in Nodes : Kept(m)
      /\ receiver' = Idle \/ UNCHANGED <<node, receiver>>
      /\ timers' \subseteq timers /\ failure' \in {failure, "no timer"}
  <2>1. CASE UNCHANGED <<timers, node, receiver>> /\ failure' = "no timer"
    BY <1>1, <2>1, ThreadsKept, TreesSame DEF TypeOK, Kept, IsFreed, tableVars
  <2>2. CASE timers' \subseteq timers /\ Free(n) /\ receiver' = Idle /\ failure' = failure
    <3>1. l2w' = l2w \ {n} /\ w2l' = w2l \ {n}
      BY <1>1, <1>2
    <3>2. ReceiverType'
      BY <2>2 DEF ReceiverType
    <3> QED
      BY <1>2, <2>2, <3>1, <3>2, FreeFact
  <2> QED
    BY <1>1, <2>1, <2>2
<1>4. TypeOK'
  BY <1>1, <1>3, PoolKept, ThreadsKept DEF TypeOK, Failures, netVars, ringVars
<1>5. PairedAnswers'
  BY <1>1, <1>3, PairsKept DEF InFlight, netVars, ringVars
<1>6. Pointers'
  <2>1. sender.pc = "compose" => sender.table \in Nodes
    BY AtSender
  <2>2. /\ sender.pc = "compose" =>
             \/ IsFreed(sender.table)'
             \/ BelongsTo([type |-> "release", entry |-> node'[sender.table].entry], sender.order, node')
        /\ sender.pc = "push" => BelongsTo(sender.message, sender.order, node')
    BY <1>1, <1>3, <2>1, SenderKept
  <2>3. CASE receiver' = Idle
    BY <1>1, <2>2, <2>3 DEF Pointers, Idle, IsFreed
  <2>4. CASE UNCHANGED <<node, receiver>>
    BY <1>1, <2>4 DEF Pointers, IsFreed
  <2> QED
    BY <1>3, <2>3, <2>4
<1> QED
  BY <1>3, <1>4, <1>5, <1>6

-----------------------------------------------------------------------------
(* The specification *)

\* startPort .. endPort in order is a list of ports.
LEMMA AllPortsType == DB!AllPorts \in Seq(DB!Ports)
<1> USE ServerAssumption DEF DB!Ports
<1>1. \A i \in 1 .. endPort + 1 - startPort : startPort + i - 1 \in DB!Ports
  OBVIOUS
<1>2. CASE startPort <= endPort + 1
  <2>1. endPort + 1 - startPort \in Nat
    BY <1>2
  <2> QED
    BY <1>1, <2>1, IsASeq DEF DB!AllPorts
<1>3. CASE startPort > endPort + 1
  <2>1. 1 .. endPort + 1 - startPort = {} /\ DB!AllPorts = <<>>
    BY <1>3 DEF DB!AllPorts
  <2> QED
    BY <2>1
<1> QED
  BY <1>2, <1>3

LEMMA InitIInv == Init => IInv
<1> SUFFICES ASSUME Init PROVE IInv
  OBVIOUS
<1>1. DB!TypeOK
  BY AllPortsType DEF Init, DB!TypeOK
<1>2. DivertType /\ SenderType /\ ReceiverType /\ MainType
  BY DEF Init, DivertType, SenderType, ReceiverType, MainType
<1>3. TypeOK
  BY <1>1, <1>2, BoundsAssumption DEF Init, TypeOK
<1>4. InFlight = <<>>
  BY DEF Init, InFlight, Idle
<1>5. PairedAnswers /\ TreesAgree /\ Pointers
  BY <1>4 DEF Init, PairedAnswers, TreesAgree, Pointers, Idle
<1> QED
  BY <1>3, <1>5 DEF IInv

LEMMA StutterStep == IInv /\ UNCHANGED vars => IInv'
<1> SUFFICES ASSUME IInv, UNCHANGED vars PROVE IInv'
  OBVIOUS
<1> USE DEF IInv, vars
<1>1. TypeOK'
  BY PoolKept, ThreadsKept DEF TypeOK, netVars, tableVars, ringVars
<1> QED
  BY <1>1, Quiet DEF SameNodes, IsFreed, netVars, tableVars, ringVars

LEMMA NextStep == IInv /\ [Next]_vars => IInv'
<1> SUFFICES ASSUME IInv, [Next]_vars PROVE IInv'
  OBVIOUS
<1>1. ASSUME NEW p \in Packets, Receive(p) PROVE IInv'
  BY <1>1, ReceiveStep
<1>2. ASSUME NEW key \in LanKeys, Fire(key) PROVE IInv'
  BY <1>2, FireStep
<1>3. ASSUME NEW n \in Nodes, GrowIdle(n) PROVE IInv'
  BY <1>3, GrowIdleStep
<1>4. CASE Divert
  BY <1>4, PushRequestStep, AliasStep, PushReleaseStep, FindClosedStep, MarkClosedStep,
     DisarmClosedStep, RearmClosedStep DEF Divert
<1>5. CASE Sender
  BY <1>5, PopStep, ComposeStep, PushAwaitedStep, SendStep DEF Sender
<1>6. CASE PoolServer
  BY <1>6, AnswerRequestStep, AnswerReleaseStep DEF PoolServer
<1>7. CASE Receiver
  BY <1>7, RequestAckStep, ArmNewStep, RequestDiscardStep, ReleaseAckTimeoutStep, ReleaseAckStep,
     FindKeptStep, AliasKeptStep, RemoveReleasedStep, FreeReleasedStep DEF Receiver
<1>8. CASE Main
  BY <1>8, TestIdleStep, DisarmIdleStep, PushTimeoutStep DEF Main
<1>9. CASE Stopped \/ UNCHANGED vars
  BY <1>9, StutterStep DEF Stopped
<1> QED
  BY <1>1, <1>2, <1>3, <1>4, <1>5, <1>6, <1>7, <1>8, <1>9 DEF Next

\* The inductive invariant: the types, the pairing of answers and orders, the
\* agreement of the trees, and what the pointers of the threads are good for.
THEOREM Invariance == Spec => []IInv
<1>1. Init => IInv
  BY InitIInv
<1>2. IInv /\ [Next]_vars => IInv'
  BY NextStep
<1> QED
  BY <1>1, <1>2, PTL DEF Spec

\* The locals of the threads and the orders in the rings have their types,
\* and no ring holds more than its size, whatever the sizes, the segments
\* that arrive and the number of nodes (ring.h:63-126, addrpool.h:204-456).
THEOREM TypeCorrect == Spec => []TypeOK
<1>1. IInv => TypeOK
  BY DEF IInv
<1> QED
  BY <1>1, Invariance, PTL

\* Every answer of the server meets the order it answers, so that the
\* receiver never translates a packet with the addresses of another
\* connection (addrpool.h:204, 358, 400-406).
THEOREM AnswersPaired == Spec => []PairedAnswers
<1>1. IInv => PairedAnswers
  BY DEF IInv
<1> QED
  BY <1>1, Invariance, PTL

\* The two trees always hold the same nodes, none of them freed, and no two
\* with the same key (structure.h:664-701).
THEOREM TreesConsistent == Spec => []TreesAgree
<1>1. IInv => TreesAgree
  BY DEF IInv
<1> QED
  BY <1>1, Invariance, PTL

-----------------------------------------------------------------------------
(***************************************************************************)
(* Every node of the table expires.                                        *)
(*                                                                         *)
(* The inductive invariant is ExpiryInv of module Natporte.  The argument: *)
(* the timer of a node is deleted by divert, which adds it again, by main, *)
(* which then orders the removal of the node, and by the receiver, after   *)
(* the node has left the trees.  The order is handed on from main over     *)
(* h_send, the sender and h_recv to the receiver, which removes the node   *)
(* or, if it was freed, ends the program.                                  *)
(***************************************************************************)


LEMMA TailRange ==
  ASSUME NEW S, NEW q \in Seq(S), q # <<>>, NEW x \in Range(q), x # Head(q)
  PROVE  x \in Range(Tail(q))
<1>1. /\ Head(q) = q[1] /\ Len(q) \in Nat \ {0} /\ DOMAIN q = 1 .. Len(q)
      /\ Tail(q) \in Seq(S) /\ Len(Tail(q)) = Len(q) - 1
      /\ \A i \in 1 .. Len(q) - 1 : Tail(q)[i] = q[i + 1]
  BY HeadTailProperties, LenProperties, EmptySeq
<1>2. DOMAIN Tail(q) = 1 .. Len(q) - 1
  BY <1>1, LenProperties
<1>3. PICK i \in 1 .. Len(q) : x = q[i]
  BY <1>1 DEF Range
<1>4. i - 1 \in 1 .. Len(q) - 1 /\ (i - 1) + 1 = i
  BY <1>1, <1>3
<1>5. x = Tail(q)[i - 1]
  BY <1>1, <1>3, <1>4
<1> QED
  BY <1>2, <1>4, <1>5 DEF Range

LEMMA AppendRange ==
  ASSUME NEW S, NEW q \in Seq(S), NEW x \in S
  PROVE  Range(Append(q, x)) = Range(q) \cup {x}
<1>1. /\ Append(q, x) \in Seq(S) /\ Len(q) \in Nat
      /\ DOMAIN q = 1 .. Len(q) /\ DOMAIN Append(q, x) = 1 .. Len(q) + 1
      /\ \A i \in 1 .. Len(q) : Append(q, x)[i] = q[i]
      /\ Append(q, x)[Len(q) + 1] = x
  BY AppendProperties
<1> QED
  BY <1>1 DEF Range

LEMMA NodeKey ==
  ASSUME IInv, NEW n \in l2w
  PROVE  n \in Nodes /\ ~IsFreed(n) /\ LanKey(node[n].entry) \in LanKeys
<1>1. n \in Nodes /\ ~IsFreed(n)
  BY DEF IInv, TypeOK, TreesAgree
<1>2. node[n].entry \in Connections
  BY <1>1 DEF IInv, TypeOK, IsFreed, NodeRecords
<1> QED
  BY <1>1, <1>2, KeyType

\* A step after which every timer, and every order to remove a node, is where
\* it was or one place further.
LEMMA ExpiryKept ==
  ASSUME ExpiryInv, Running, SameNodes, l2w' \subseteq l2w,
         \A key \in LanKeys : Armed(key) => Armed(key)',
         \A m \in Nodes : TimeoutOrdered(m) => TimeoutOrdered(m)'
  PROVE  EveryNodeExpires'
<1> SUFFICES ASSUME NEW n \in l2w'
             PROVE  Expiring(n)'
  BY DEF EveryNodeExpires
<1> DEFINE key == LanKey(node[n].entry)
<1>1. n \in l2w /\ n \in Nodes /\ ~IsFreed(n) /\ key \in LanKeys
  BY NodeKey DEF ExpiryInv
<1>2. LanKey(node[n].entry)' = key
  BY <1>1 DEF SameNodes, LanKey
<1>3. Expiring(n)
  BY <1>1 DEF ExpiryInv, EveryNodeExpires
<1>4. CASE Armed(key)
  BY <1>1, <1>2, <1>4 DEF Expiring
<1>5. CASE \E m \in Nodes : (m = n \/ IsFreed(m)) /\ TimeoutOrdered(m)
  <2>1. PICK m \in Nodes : (m = n \/ IsFreed(m)) /\ TimeoutOrdered(m)
    BY <1>5
  <2>2. (m = n \/ IsFreed(m)') /\ TimeoutOrdered(m)'
    BY <2>1 DEF SameNodes
  <2> QED
    BY <2>2 DEF Expiring
<1> QED
  BY <1>3, <1>4, <1>5 DEF Expiring

\* A step that neither frees nor links a node, nor moves a thread to where it
\* is about to free one.
LEMMA LinkedKept ==
  ASSUME ExpiryInv, SameNodes, l2w' = l2w,
         receiver' = receiver \/ (receiver.pc # "disarm" /\ receiver'.pc # "disarm"),
         main' = main \/ main'.pc \notin {"test", "disarm"}
  PROVE  Linked'
<1>1. \A n \in Nodes : IsFreed(n)' \/ n \in l2w' \/ (receiver'.pc = "disarm" /\ receiver'.table = n)
  BY DEF ExpiryInv, Linked, SameNodes
<1>2. ASSUME receiver'.pc = "disarm", NEW n \in l2w
      PROVE  LanKey(node[n].entry)' # LanKey(node[receiver.table].entry)' /\ receiver' = receiver
  <2>1. receiver' = receiver /\ receiver.pc = "disarm"
    BY <1>2
  <2>2. receiver.table \in Nodes /\ ~IsFreed(receiver.table)
    BY <2>1, AtReceiver DEF ExpiryInv, IInv, Pointers
  <2>3. n \in Nodes /\ ~IsFreed(n)
    BY NodeKey DEF ExpiryInv
  <2>4. node'[n].entry = node[n].entry /\ node'[receiver.table].entry = node[receiver.table].entry
    BY <2>2, <2>3 DEF SameNodes
  <2>5. LanKey(node[n].entry) # LanKey(node[receiver.table].entry)
    BY <2>1 DEF ExpiryInv, Linked
  <2> QED
    BY <2>1, <2>4, <2>5 DEF LanKey
<1>3. ASSUME main'.pc \in {"test", "disarm"}
      PROVE  main' = main /\ (IsFreed(main.table)' \/ LanKey(node[main.table].entry)' = main.key)
  <2>1. main' = main /\ main.table \in Nodes
    BY <1>3, AtMain DEF ExpiryInv, IInv
  <2>2. IsFreed(main.table) \/ LanKey(node[main.table].entry) = main.key
    BY <1>3, <2>1 DEF ExpiryInv, Linked
  <2> QED
    BY <2>1, <2>2 DEF SameNodes, LanKey
<1> QED
  BY <1>1, <1>2, <1>3 DEF Linked, LanKey, IsFreed

\* A step that takes no timer away, and no order to remove a node.
LEMMA Onward ==
  ASSUME ExpiryInv, Running, SameNodes, l2w' \subseteq l2w, timers \subseteq timers',
         divert' = divert \/ divert.pc # "rearm",
         receiver' = receiver \/ receiver.pc # "arm",
         main' = main \/ main.pc # "push",
         sender' = sender \/ sender.pc \notin {"compose", "push"},
         Range(h_send) \subseteq Range(h_send'), Range(h_recv) \subseteq Range(h_recv')
  PROVE  EveryNodeExpires'
<1>1. \A key \in LanKeys : Armed(key) => Armed(key)'
  BY DEF Armed, LanKey
<1>2. \A m \in Nodes : TimeoutOrdered(m) => TimeoutOrdered(m)'
  BY DEF TimeoutOrdered, TimeoutOrder
<1> QED
  BY <1>1, <1>2, ExpiryKept

LEMMA SameRings == UNCHANGED ringVars =>
    Range(h_send) \subseteq Range(h_send') /\ Range(h_recv) \subseteq Range(h_recv')
BY DEF ringVars

-----------------------------------------------------------------------------
(* divert *)

\* A step of divert that leaves the table, the timers and the rings alone.
LEMMA DivertMoves ==
  ASSUME ExpiryInv, Running, SameNodes, divert.pc # "rearm",
         UNCHANGED <<l2w, timers, ringVars, sender, receiver, main>>
  PROVE  Linked' /\ EveryNodeExpires'
<1>1. Linked'
  BY LinkedKept
<1>2. EveryNodeExpires'
  BY Onward, SameRings
<1> QED
  BY <1>1, <1>2

LEMMA ReceiveExpiry ==
  ASSUME ExpiryInv, NEW p \in Packets, Receive(p)
  PROVE  Linked' /\ EveryNodeExpires'
<1>1. /\ Running /\ divert.pc # "rearm"
      /\ UNCHANGED <<node, l2w, timers, ringVars, sender, receiver, main>>
  BY DEF Receive, Idle, tableVars
<1> QED
  BY <1>1, DivertMoves DEF SameNodes, IsFreed

LEMMA PushExpiry ==
  ASSUME ExpiryInv, PushRequest \/ PushRelease
  PROVE  Linked' /\ EveryNodeExpires'
<1>1. /\ Running /\ divert.pc # "rearm"
      /\ UNCHANGED <<node, l2w, timers, h_recv, sender, receiver, main>>
      /\ \/ h_send' = h_send
         \/ \E o \in Orders : h_send' = Append(h_send, o)
  <2>1. CASE PushRequest
    <3>1. [kind |-> "REQ", packet |-> divert.packet] \in Orders
      BY <2>1, AtDivert DEF PushRequest, ExpiryInv, IInv, Orders, Requests
    <3> QED
      BY <2>1, <3>1 DEF PushRequest, tableVars
  <2>2. CASE PushRelease
    <3>1. [kind |-> "REL", packet |-> divert.packet] \in Orders
      BY <2>2, AtDivert DEF PushRelease, ExpiryInv, IInv, Orders, Releases
    <3> QED
      BY <2>2, <3>1 DEF PushRelease, tableVars
  <2> QED
    BY <2>1, <2>2
<1>2. h_send \in Seq(Orders)
  BY DEF ExpiryInv, IInv, TypeOK
<1>3. Range(h_send) \subseteq Range(h_send')
  <2>1. ASSUME NEW o \in Orders, h_send' = Append(h_send, o)
        PROVE  Range(h_send) \subseteq Range(h_send')
    <3>1. Range(Append(h_send, o)) = Range(h_send) \cup {o}
      BY <1>2, AppendRange
    <3> QED
      BY <2>1, <3>1
  <2> QED
    BY <1>1, <2>1
<1>4. SameNodes
  BY <1>1 DEF SameNodes, IsFreed
<1>5. Linked'
  BY <1>1, <1>4, LinkedKept
<1>6. EveryNodeExpires'
  BY <1>1, <1>3, <1>4, Onward
<1> QED
  BY <1>5, <1>6

LEMMA AliasExpiry ==
  ASSUME ExpiryInv, Alias
  PROVE  Linked' /\ EveryNodeExpires'
<1>1. /\ Running /\ divert.pc = "alias"
      /\ UNCHANGED <<l2w, timers, ringVars, sender, receiver, main>>
      /\ IF IsFreed(divert.table) THEN node' = node
         ELSE Apply(divert.table, divert.seen, divert.packet)
  BY DEF Alias
<1>2. divert.packet \in Packets /\ divert.table \in Nodes /\ divert.seen \in TcpStates
  BY <1>1, AtDivert DEF ExpiryInv, IInv
<1>3. SameNodes
  <2>1. CASE IsFreed(divert.table)
    BY <1>1, <2>1 DEF SameNodes, IsFreed
  <2>2. CASE ~IsFreed(divert.table)
    BY <1>1, <1>2, <2>2, ApplyNode DEF SameNodes, ExpiryInv, IInv
  <2> QED
    BY <2>1, <2>2
<1> QED
  BY <1>1, <1>3, DivertMoves

LEMMA FindClosedExpiry ==
  ASSUME ExpiryInv, FindClosed
  PROVE  Linked' /\ EveryNodeExpires'
<1>1. /\ Running /\ divert.pc # "rearm"
      /\ UNCHANGED <<node, l2w, timers, ringVars, sender, receiver, main>>
  BY DEF FindClosed, tableVars
<1> QED
  BY <1>1, DivertMoves DEF SameNodes, IsFreed

LEMMA MarkClosedExpiry ==
  ASSUME ExpiryInv, MarkClosed
  PROVE  Linked' /\ EveryNodeExpires'
<1>1. /\ Running /\ divert.pc = "mark"
      /\ UNCHANGED <<l2w, timers, ringVars, sender, receiver, main>>
      /\ IF IsFreed(divert.table) THEN node' = node
         ELSE node' = [node EXCEPT ![divert.table].timer_flags = "CLOSE"]
  BY DEF MarkClosed
<1>2. divert.table \in Nodes /\ node \in [Nodes -> NodeRecords \cup {Freed}]
  BY <1>1, AtDivert DEF ExpiryInv, IInv, TypeOK
<1>3. SameNodes
  <2>1. CASE IsFreed(divert.table)
    BY <1>1, <2>1 DEF SameNodes, IsFreed
  <2>2. CASE ~IsFreed(divert.table)
    <3>1. /\ \A m \in Nodes \ {divert.table} : node'[m] = node[m]
          /\ node'[divert.table] \in NodeRecords
          /\ node'[divert.table].entry = node[divert.table].entry
      BY <1>1, <1>2, <2>2 DEF IsFreed, NodeRecords
    <3> QED
      BY <2>2, <3>1, FreedAssumption DEF SameNodes, IsFreed
  <2> QED
    BY <2>1, <2>2
<1> QED
  BY <1>1, <1>3, DivertMoves

\* divert takes the timer of its key away, and is where it adds it again.
LEMMA DisarmClosedExpiry ==
  ASSUME ExpiryInv, DisarmClosed
  PROVE  Linked' /\ EveryNodeExpires'
<1>1. /\ Running /\ divert.pc = "disarm" /\ timers' = timers \ {divert.key}
      /\ divert' = [divert EXCEPT !.pc = "rearm"]
      /\ UNCHANGED <<node, l2w, ringVars, sender, receiver, main>>
  BY DEF DisarmClosed, tableVars
<1>2. divert'.pc = "rearm" /\ divert'.key = divert.key
  <2>1. divert \in [pc : {"disarm", "rearm"}, key : LanKeys]
    BY <1>1, AtDivert DEF ExpiryInv, IInv
  <2> QED
    BY <1>1, <2>1
<1>3. SameNodes
  BY <1>1 DEF SameNodes, IsFreed
<1>4. Linked'
  BY <1>1, <1>3, LinkedKept
<1>5. \A key \in LanKeys : Armed(key) => Armed(key)'
  BY <1>1, <1>2 DEF Armed, LanKey
<1>6. \A m \in Nodes : TimeoutOrdered(m) => TimeoutOrdered(m)'
  BY <1>1 DEF TimeoutOrdered, TimeoutOrder, ringVars
<1>7. EveryNodeExpires'
  BY <1>1, <1>3, <1>5, <1>6, ExpiryKept
<1> QED
  BY <1>4, <1>7

LEMMA RearmClosedExpiry ==
  ASSUME ExpiryInv, RearmClosed
  PROVE  Linked' /\ EveryNodeExpires'
<1>1. /\ Running /\ timers' = timers \cup {divert.key}
      /\ UNCHANGED <<node, l2w, ringVars, sender, receiver, main>>
  BY DEF RearmClosed, tableVars
<1>2. SameNodes
  BY <1>1 DEF SameNodes, IsFreed
<1>3. Linked'
  BY <1>1, <1>2, LinkedKept
<1>4. \A key \in LanKeys : Armed(key) => Armed(key)'
  BY <1>1 DEF Armed, LanKey
<1>5. \A m \in Nodes : TimeoutOrdered(m) => TimeoutOrdered(m)'
  BY <1>1 DEF TimeoutOrdered, TimeoutOrder, ringVars
<1>6. EveryNodeExpires'
  BY <1>1, <1>2, <1>4, <1>5, ExpiryKept
<1> QED
  BY <1>3, <1>6

-----------------------------------------------------------------------------
(* main *)

\* The timers of the node that main has got are where they were.
LEMMA FireExpiry ==
  ASSUME ExpiryInv, NEW key \in LanKeys, Fire(key)
  PROVE  Linked' /\ EveryNodeExpires'
<1>1. /\ Running /\ main = Idle
      /\ UNCHANGED <<node, l2w, timers, ringVars, divert, sender, receiver>>
  BY DEF Fire, tableVars
<1>2. PICK n \in find_l2w(key) : main' = [pc |-> "test", key |-> key, table |-> n]
  BY DEF Fire
<1>3. LanKey(node[n].entry) = key
  BY DEF find_l2w
<1>4. SameNodes
  BY <1>1 DEF SameNodes, IsFreed
<1>5. Linked'
  BY <1>1, <1>2, <1>3 DEF ExpiryInv, Linked, IsFreed, LanKey
<1>6. EveryNodeExpires'
  BY <1>1, <1>4, SameRings, Onward DEF Idle
<1> QED
  BY <1>5, <1>6

LEMMA TestIdleExpiry ==
  ASSUME ExpiryInv, TestIdle
  PROVE  Linked' /\ EveryNodeExpires'
<1>1. /\ Running /\ main.pc = "test"
      /\ UNCHANGED <<node, l2w, timers, ringVars, divert, sender, receiver>>
      /\ main' = main \/ main' = [main EXCEPT !.pc = "disarm"] \/ main' = Idle
  BY DEF TestIdle, tableVars
<1>2. main'.pc \in {"test", "disarm"} => main'.key = main.key /\ main'.table = main.table
  <2>1. main \in [pc : {"test", "disarm"}, key : LanKeys, table : Nodes]
    BY <1>1, AtMain DEF ExpiryInv, IInv
  <2> QED
    BY <1>1, <2>1 DEF Idle
<1>3. SameNodes
  BY <1>1 DEF SameNodes, IsFreed
<1>4. Linked'
  BY <1>1, <1>2 DEF ExpiryInv, Linked, IsFreed, LanKey
<1>5. EveryNodeExpires'
  BY <1>1, <1>3, SameRings, Onward
<1> QED
  BY <1>4, <1>5

\* main deletes the timer of one node at most, the one whose removal it is
\* about to order: the key it deletes is that of its node, or its node was
\* freed, and then using it ends the program.
LEMMA DisarmIdleExpiry ==
  ASSUME ExpiryInv, DisarmIdle
  PROVE  Linked' /\ EveryNodeExpires'
<1>1. /\ Running /\ main.pc = "disarm"
      /\ UNCHANGED <<node, l2w, ringVars, divert, sender, receiver>>
      /\ \/ timers' = timers \ {main.key} /\ main' = [pc |-> "push", table |-> main.table]
         \/ failure' = "no timer" /\ main' = main
  BY DEF DisarmIdle, tableVars
<1>2. SameNodes
  BY <1>1 DEF SameNodes, IsFreed
<1>3. PICK v \in Nodes : v = main.table
  BY <1>1, AtMain DEF ExpiryInv, IInv
<1>4. Linked'
  <2>1. [pc |-> "push", table |-> main.table].pc = "push"
    OBVIOUS
  <2>2. main' = main \/ main'.pc \notin {"test", "disarm"}
    BY <1>1, <2>1
  <2> QED
    BY <1>1, <1>2, <2>2, LinkedKept
<1>5. CASE failure' = "no timer"
  <2>1. ~Running'
    BY <1>5, FailureAssumption DEF Running, Failures
  <2> QED
    BY <1>4, <2>1 DEF EveryNodeExpires
<1>6. CASE timers' = timers \ {main.key} /\ main' = [pc |-> "push", table |-> main.table]
  <2>1. TimeoutOrdered(v)'
    BY <1>3, <1>6 DEF TimeoutOrdered
  <2>2. SUFFICES ASSUME Running', NEW n \in l2w'
                 PROVE  Expiring(n)'
    BY <1>4 DEF EveryNodeExpires
  <2> DEFINE key == LanKey(node[n].entry)
  <2>3. n \in l2w /\ n \in Nodes /\ key \in LanKeys
    BY <1>1, NodeKey DEF ExpiryInv
  <2>4. CASE IsFreed(v)
    BY <1>1, <2>1, <2>4 DEF Expiring, IsFreed
  <2>5. CASE ~IsFreed(v) /\ key = main.key
    <3>1. v = n
      <4>1. v \in l2w \/ (receiver.pc = "disarm" /\ receiver.table = v)
        BY <2>5 DEF ExpiryInv, Linked
      <4>2. LanKey(node[v].entry) = key
        BY <1>1, <1>3, <2>5 DEF ExpiryInv, Linked
      <4>3. v \in l2w
        BY <2>3, <4>1, <4>2 DEF ExpiryInv, Linked
      <4> QED
        BY <2>3, <4>2, <4>3 DEF ExpiryInv, IInv, TreesAgree, KeyOf, Directions
    <3> QED
      BY <2>1, <3>1 DEF Expiring
  <2>6. CASE key # main.key
    <3>1. Expiring(n) /\ key' = key
      BY <1>1, <2>3 DEF ExpiryInv, EveryNodeExpires, LanKey
    <3>2. Armed(key) => Armed(key)'
      BY <1>1, <1>6, <2>6 DEF Armed, LanKey
    <3>3. \A m \in Nodes : TimeoutOrdered(m) => TimeoutOrdered(m)'
      BY <1>1, <1>6 DEF TimeoutOrdered, TimeoutOrder, ringVars
    <3> QED
      BY <1>1, <3>1, <3>2, <3>3 DEF Expiring, IsFreed, LanKey
  <2> QED
    BY <2>4, <2>5, <2>6
<1> QED
  BY <1>1, <1>5, <1>6

LEMMA PushTimeoutExpiry ==
  ASSUME ExpiryInv, PushTimeout
  PROVE  Linked' /\ EveryNodeExpires'
<1>1. /\ Running /\ main.pc = "push" /\ main' = Idle
      /\ h_send' = Append(h_send, TimeoutOrder(main.table))
      /\ UNCHANGED <<node, l2w, timers, h_recv, divert, sender, receiver>>
  BY DEF PushTimeout, tableVars
<1>2. Range(h_send') = Range(h_send) \cup {TimeoutOrder(main.table)}
  <2>1. main.table \in Nodes
    BY <1>1, AtMain DEF ExpiryInv, IInv
  <2>2. TimeoutOrder(main.table) \in Orders /\ h_send \in Seq(Orders)
    BY <2>1 DEF TimeoutOrder, Orders, Timeouts, ExpiryInv, IInv, TypeOK
  <2> QED
    BY <1>1, <2>2, AppendRange
<1>3. SameNodes
  BY <1>1 DEF SameNodes, IsFreed
<1>4. Linked'
  BY <1>1, <1>3, LinkedKept DEF Idle
<1>5. \A key \in LanKeys : Armed(key) => Armed(key)'
  BY <1>1 DEF Armed, LanKey
<1>6. \A m \in Nodes : TimeoutOrdered(m) => TimeoutOrdered(m)'
  BY <1>1, <1>2 DEF TimeoutOrdered, TimeoutOrder
<1>7. EveryNodeExpires'
  BY <1>1, <1>3, <1>5, <1>6, ExpiryKept
<1> QED
  BY <1>4, <1>7

\* Time marks a node idle and nothing else.
LEMMA GrowIdleExpiry ==
  ASSUME ExpiryInv, NEW n \in Nodes, GrowIdle(n)
  PROVE  Linked' /\ EveryNodeExpires'
<1>1. /\ Running /\ n \in l2w /\ node' = [node EXCEPT ![n].idle = TRUE]
      /\ UNCHANGED <<l2w, timers, ringVars, divert, sender, receiver, main>>
  BY DEF GrowIdle
<1>2. node \in [Nodes -> NodeRecords \cup {Freed}] /\ ~IsFreed(n)
  BY <1>1, NodeKey DEF ExpiryInv, IInv, TypeOK
<1>3. /\ \A m \in Nodes \ {n} : node'[m] = node[m]
      /\ node'[n] \in NodeRecords /\ node'[n].entry = node[n].entry
  BY <1>1, <1>2 DEF IsFreed, NodeRecords
<1>4. SameNodes
  BY <1>2, <1>3, FreedAssumption DEF SameNodes, IsFreed
<1>5. Linked'
  BY <1>1, <1>4, LinkedKept
<1>6. EveryNodeExpires'
  BY <1>1, <1>4, SameRings, Onward
<1> QED
  BY <1>5, <1>6

-----------------------------------------------------------------------------
(* sender *)

\* The order that is taken out of h_send is in the hands of the sender.
LEMMA PopExpiry ==
  ASSUME ExpiryInv, Pop
  PROVE  Linked' /\ EveryNodeExpires'
<1> DEFINE o == Head(h_send)
<1>1. /\ Running /\ sender = Idle /\ h_send # <<>> /\ h_send' = Tail(h_send)
      /\ UNCHANGED <<node, l2w, timers, h_recv, divert, receiver, main>>
      /\ \/ failure' = "cannot match the release node table"
         \/ o.kind # "TIMEOUT"
         \/ o.kind = "TIMEOUT" /\ sender' = [pc |-> "compose", order |-> o, table |-> o.table]
  BY DEF Pop, tableVars
<1>2. SameNodes
  BY <1>1 DEF SameNodes, IsFreed
<1>3. Linked'
  BY <1>1, <1>2, LinkedKept
<1>4. CASE failure' = "cannot match the release node table"
  <2>1. ~Running'
    BY <1>4, FailureAssumption DEF Running, Failures
  <2> QED
    BY <1>3, <2>1 DEF EveryNodeExpires
<1>5. CASE \/ o.kind # "TIMEOUT"
           \/ sender' = [pc |-> "compose", order |-> o, table |-> o.table]
  <2>1. \A key \in LanKeys : Armed(key) => Armed(key)'
    BY <1>1 DEF Armed, LanKey
  <2>2. ASSUME NEW m \in Nodes, TimeoutOrdered(m) PROVE TimeoutOrdered(m)'
    <3>1. CASE TimeoutOrder(m) = o
      <4>1. sender'.pc = "compose" /\ sender'.order = TimeoutOrder(m)
        BY <1>5, <3>1 DEF TimeoutOrder
      <4> QED
        BY <4>1 DEF TimeoutOrdered, TimeoutOrder
    <3>2. CASE TimeoutOrder(m) # o /\ TimeoutOrder(m) \in Range(h_send)
      <4>1. h_send \in Seq(Orders)
        BY DEF ExpiryInv, IInv, TypeOK
      <4>2. TimeoutOrder(m) \in Range(h_send')
        BY <1>1, <3>2, <4>1, TailRange
      <4> QED
        BY <4>2 DEF TimeoutOrdered, TimeoutOrder
    <3>3. CASE TimeoutOrder(m) \notin Range(h_send)
      BY <1>1, <2>2, <3>3 DEF TimeoutOrdered, TimeoutOrder, Idle
    <3> QED
      BY <3>1, <3>2, <3>3
  <2>3. EveryNodeExpires'
    BY <1>1, <1>2, <2>1, <2>2, ExpiryKept
  <2> QED
    BY <1>3, <2>3
<1> QED
  BY <1>1, <1>4, <1>5

LEMMA ComposeExpiry ==
  ASSUME ExpiryInv, Compose
  PROVE  Linked' /\ EveryNodeExpires'
<1> DEFINE m == [type |-> "release", entry |-> node[sender.table].entry]
<1>1. /\ Running /\ sender.pc = "compose"
      /\ UNCHANGED <<node, l2w, timers, ringVars, divert, receiver, main>>
      /\ \/ sender' = sender
         \/ sender' = [pc |-> "push", order |-> sender.order, message |-> m]
  BY DEF Compose, tableVars
<1> HIDE DEF m
<1>2. sender' = sender \/ (sender'.pc = "push" /\ sender'.order = sender.order)
  BY <1>1
<1>3. SameNodes
  BY <1>1 DEF SameNodes, IsFreed
<1>4. Linked'
  BY <1>1, <1>3, LinkedKept
<1>5. \A key \in LanKeys : Armed(key) => Armed(key)'
  BY <1>1 DEF Armed, LanKey
<1>6. \A n \in Nodes : TimeoutOrdered(n) => TimeoutOrdered(n)'
  BY <1>1, <1>2 DEF TimeoutOrdered, TimeoutOrder, ringVars
<1>7. EveryNodeExpires'
  BY <1>1, <1>3, <1>5, <1>6, ExpiryKept
<1> QED
  BY <1>4, <1>7

\* The order that the sender had is in h_recv.
LEMMA PushAwaitedExpiry ==
  ASSUME ExpiryInv, PushAwaited
  PROVE  Linked' /\ EveryNodeExpires'
<1>1. /\ Running /\ sender.pc = "push" /\ h_recv' = Append(h_recv, sender.order)
      /\ UNCHANGED <<node, l2w, timers, h_send, divert, receiver, main>>
  BY DEF PushAwaited, tableVars
<1>2. Range(h_recv') = Range(h_recv) \cup {sender.order}
  <2>1. sender.order \in Orders /\ h_recv \in Seq(Orders)
    BY <1>1, AtSender DEF ExpiryInv, IInv, TypeOK
  <2> QED
    BY <1>1, <2>1, AppendRange
<1>3. SameNodes
  BY <1>1 DEF SameNodes, IsFreed
<1>4. Linked'
  BY <1>1, <1>3, LinkedKept
<1>5. \A key \in LanKeys : Armed(key) => Armed(key)'
  BY <1>1 DEF Armed, LanKey
<1>6. \A m \in Nodes : TimeoutOrdered(m) => TimeoutOrdered(m)'
  BY <1>1, <1>2 DEF TimeoutOrdered, TimeoutOrder
<1>7. EveryNodeExpires'
  BY <1>1, <1>3, <1>5, <1>6, ExpiryKept
<1> QED
  BY <1>4, <1>7

\* A message on its way to the server, and its answer on the way back.
LEMMA MessageExpiry ==
  ASSUME ExpiryInv, Send \/ AnswerRequest \/ AnswerRelease
  PROVE  Linked' /\ EveryNodeExpires'
<1>1. /\ Running /\ (sender' = sender \/ sender.pc \notin {"compose", "push"})
      /\ UNCHANGED <<node, l2w, timers, ringVars, divert, receiver, main>>
  BY DEF Send, AnswerRequest, AnswerRelease, tableVars
<1>2. SameNodes
  BY <1>1 DEF SameNodes, IsFreed
<1>3. Linked'
  BY <1>1, <1>2, LinkedKept
<1>4. EveryNodeExpires'
  BY <1>1, <1>2, SameRings, Onward
<1> QED
  BY <1>3, <1>4

-----------------------------------------------------------------------------
(* receiver *)

LEMMA TimeoutsKept ==
  ASSUME ExpiryInv, h_recv # <<>>, h_recv' = Tail(h_recv), UNCHANGED <<h_send, sender, main>>,
         NEW m \in Nodes, TimeoutOrdered(m), TimeoutOrder(m) # Head(h_recv)
  PROVE  TimeoutOrdered(m)'
<1>1. h_recv \in Seq(Orders)
  BY DEF ExpiryInv, IInv, TypeOK
<1>2. TimeoutOrder(m) \in Range(h_recv) => TimeoutOrder(m) \in Range(h_recv')
  BY <1>1, TailRange
<1> QED
  BY <1>2 DEF TimeoutOrdered, TimeoutOrder

\* The answer to a request never meets the order of a timeout.
LEMMA RequestMet ==
  ASSUME ExpiryInv, Answered("request_ack") \/ Answered("request_discard"), UNCHANGED <<to_pool, sender>>
  PROVE  \A m : TimeoutOrder(m) # Head(h_recv)
<1>1. /\ to_nat # <<>> /\ h_recv # <<>> /\ to_nat' = Tail(to_nat) /\ h_recv' = Tail(h_recv)
      /\ Head(to_nat).type \in {"request_ack", "request_discard"}
  BY DEF Answered
<1>2. BelongsTo(Head(to_nat), Head(h_recv), node)
  BY <1>1, ReceivePairs DEF ExpiryInv, IInv
<1>3. Head(h_recv).kind = "REQ"
  BY <1>1, <1>2 DEF BelongsTo
<1> QED
  BY <1>3 DEF TimeoutOrder

\* A step of the receiver after which the nodes, the timers and the orders to
\* remove a node are as they were.
LEMMA ReceiverMoves ==
  ASSUME ExpiryInv, Running, SameNodes, UNCHANGED <<l2w, timers, h_send, divert, sender, main>>,
         \/ h_recv' = h_recv
         \/ h_recv # <<>> /\ h_recv' = Tail(h_recv) /\ \A m : TimeoutOrder(m) # Head(h_recv),
         receiver' = receiver \/ (receiver.pc \notin {"arm", "disarm"} /\ receiver'.pc # "disarm")
  PROVE  Linked' /\ EveryNodeExpires'
<1>1. Linked'
  BY LinkedKept
<1>2. \A key \in LanKeys : Armed(key) => Armed(key)'
  BY DEF Armed, LanKey
<1>3. ASSUME NEW m \in Nodes, TimeoutOrdered(m) PROVE TimeoutOrdered(m)'
  <2>1. CASE h_recv' = h_recv
    BY <1>3, <2>1 DEF TimeoutOrdered, TimeoutOrder
  <2>2. CASE h_recv # <<>> /\ h_recv' = Tail(h_recv) /\ \A k : TimeoutOrder(k) # Head(h_recv)
    BY <1>3, <2>2, TimeoutsKept
  <2> QED
    BY <2>1, <2>2
<1>4. EveryNodeExpires'
  BY <1>2, <1>3, ExpiryKept
<1> QED
  BY <1>1, <1>4

\* A new node is one to which nobody has a pointer, and its timer is about to
\* be added.
LEMMA RequestAckExpiry ==
  ASSUME ExpiryInv, RequestAck
  PROVE  Linked' /\ EveryNodeExpires'
<1> DEFINE a == Head(to_nat)
           e == a.entry
<1>1. /\ Running /\ receiver = Idle /\ h_recv # <<>> /\ h_recv' = Tail(h_recv)
      /\ UNCHANGED <<timers, h_send, divert, sender, main, failure>>
  BY DEF RequestAck, Answered
<1>2. \A m : TimeoutOrder(m) # Head(h_recv)
  BY RequestMet DEF RequestAck
<1>3. CASE Collides(e)
  <2>1. UNCHANGED <<node, l2w, receiver>>
    BY <1>3 DEF RequestAck, tableVars
  <2> QED
    BY <1>1, <1>2, <2>1, ReceiverMoves DEF SameNodes, IsFreed
<1>4. CASE ~Collides(e)
  <2>1. PICK n \in Nodes :
          /\ IsFreed(n) /\ ~Held(n) /\ Insert(n, e)
          /\ receiver' = [pc |-> "arm", reply |-> a, order |-> Head(h_recv)]
    BY <1>4 DEF RequestAck
  <2> HIDE DEF a
  <2>2. node \in [Nodes -> NodeRecords \cup {Freed}] /\ l2w \subseteq Nodes
    BY DEF ExpiryInv, IInv, TypeOK
  <2>3. /\ l2w' = l2w \cup {n} /\ node'[n].entry = e
        /\ \A m \in Nodes \ {n} : node'[m] = node[m]
    BY <2>1, <2>2 DEF Insert
  <2>4. receiver'.pc = "arm" /\ receiver'.reply.entry = e /\ receiver.pc = "idle"
    BY <1>1, <2>1 DEF Idle
  <2>5. /\ ~TimeoutOrdered(n)
        /\ main.pc \in {"test", "disarm"} => main.table # n
    <3>1. /\ TimeoutOrder(n) \notin Range(h_send) \cup Range(h_recv)
          /\ ~HasPointer(sender, n) /\ ~HasPointer(main, n)
      BY <2>1 DEF Held
    <3>2. sender.pc \in {"compose", "push"} => sender.order # TimeoutOrder(n)
      BY <3>1, AtSender DEF ExpiryInv, IInv, HasPointer
    <3>3. main.pc \in {"test", "disarm", "push"} => main.table # n
      <4>1. main.pc \in {"test", "disarm", "push"} => "table" \in DOMAIN main
        BY AtMain DEF ExpiryInv, IInv
      <4> QED
        BY <3>1, <4>1 DEF HasPointer
    <3> QED
      BY <3>1, <3>2, <3>3 DEF TimeoutOrdered
  <2>6. Linked'
    <3>1. \A m \in Nodes : IsFreed(m)' \/ m \in l2w'
      BY <2>3, <2>4 DEF ExpiryInv, Linked, IsFreed
    <3>2. main.pc \in {"test", "disarm"} =>
            IsFreed(main.table)' \/ LanKey(node[main.table].entry)' = main.key
      BY <1>1, <2>3, <2>5, AtMain DEF ExpiryInv, IInv, Linked, IsFreed, LanKey
    <3> QED
      BY <1>1, <2>4, <3>1, <3>2 DEF Linked, IsFreed
  <2>7. ASSUME NEW k \in l2w'
        PROVE  Expiring(k)'
    <3>1. CASE k = n
      BY <2>3, <2>4, <3>1 DEF Expiring, Armed, LanKey
    <3>2. CASE k # n
      <4>1. k \in l2w /\ k \in Nodes /\ node'[k] = node[k]
        BY <2>2, <2>3, <2>7, <3>2
      <4>2. Expiring(k)
        BY <1>1, <4>1 DEF ExpiryInv, EveryNodeExpires
      <4>3. Armed(LanKey(node[k].entry)) => Armed(LanKey(node[k].entry))'
        BY <1>1, <2>4, <4>1 DEF Armed, LanKey
      <4>4. \A m \in Nodes : (m = k \/ IsFreed(m)) /\ TimeoutOrdered(m) =>
                             (m = k \/ IsFreed(m)') /\ TimeoutOrdered(m)'
        BY <1>1, <1>2, <2>3, <2>5, TimeoutsKept DEF IsFreed
      <4> QED
        BY <4>2, <4>3, <4>4 DEF Expiring
    <3> QED
      BY <3>1, <3>2
  <2> QED
    BY <2>6, <2>7 DEF EveryNodeExpires
<1> QED
  BY <1>3, <1>4

LEMMA ArmNewExpiry ==
  ASSUME ExpiryInv, ArmNew
  PROVE  Linked' /\ EveryNodeExpires'
<1>1. /\ Running /\ receiver.pc = "arm" /\ timers' = timers \cup {LanKey(receiver.reply.entry)}
      /\ receiver' = [receiver EXCEPT !.pc = "find"]
      /\ UNCHANGED <<node, l2w, ringVars, divert, sender, main>>
  BY DEF ArmNew, tableVars
<1>2. receiver'.pc = "find"
  <2>1. receiver \in [pc : {"arm", "find"}, reply : Acks, order : Requests \cup Releases]
    BY <1>1, AtReceiver DEF ExpiryInv, IInv
  <2> QED
    BY <1>1, <2>1
<1>3. SameNodes
  BY <1>1 DEF SameNodes, IsFreed
<1>4. Linked'
  BY <1>1, <1>2, <1>3, LinkedKept
<1>5. \A key \in LanKeys : Armed(key) => Armed(key)'
  BY <1>1 DEF Armed, LanKey
<1>6. \A m \in Nodes : TimeoutOrdered(m) => TimeoutOrdered(m)'
  BY <1>1 DEF TimeoutOrdered, TimeoutOrder, ringVars
<1>7. EveryNodeExpires'
  BY <1>1, <1>3, <1>5, <1>6, ExpiryKept
<1> QED
  BY <1>4, <1>7

LEMMA RequestDiscardExpiry ==
  ASSUME ExpiryInv, RequestDiscard
  PROVE  Linked' /\ EveryNodeExpires'
<1>1. /\ Running /\ h_recv # <<>> /\ h_recv' = Tail(h_recv)
      /\ UNCHANGED <<node, l2w, timers, h_send, divert, sender, receiver, main>>
  BY DEF RequestDiscard, Answered, tableVars
<1>2. \A m : TimeoutOrder(m) # Head(h_recv)
  BY RequestMet DEF RequestDiscard
<1> QED
  BY <1>1, <1>2, ReceiverMoves DEF SameNodes, IsFreed

\* The order to remove a node is carried out, or its node was freed before.
LEMMA ReleaseAckTimeoutExpiry ==
  ASSUME ExpiryInv, ReleaseAckTimeout
  PROVE  Linked' /\ EveryNodeExpires'
<1> DEFINE o == Head(h_recv)
<1>1. /\ Running /\ receiver = Idle /\ h_recv # <<>> /\ h_recv' = Tail(h_recv)
      /\ o.kind = "TIMEOUT" /\ o \in Orders
      /\ UNCHANGED <<timers, h_send, divert, sender, receiver, main>>
      /\ IF IsFreed(o.table) THEN failure' = "use after free" /\ UNCHANGED tableVars
         ELSE Remove(o.table) /\ Free(o.table)
  <2>1. to_nat # <<>> /\ h_recv # <<>> /\ to_nat' = Tail(to_nat) /\ h_recv' = Tail(h_recv)
    BY DEF ReleaseAckTimeout, Answered
  <2>2. o \in Orders
    BY <2>1, ReceivePairs DEF ExpiryInv, IInv, ReleaseAckTimeout
  <2> QED
    BY <2>2 DEF ReleaseAckTimeout, Answered
<1>2. PICK n \in Nodes : n = o.table /\ o = TimeoutOrder(n)
  BY <1>1 DEF Orders, Requests, Releases, Timeouts, TimeoutOrder
<1>3. node \in [Nodes -> NodeRecords \cup {Freed}] /\ l2w \subseteq Nodes
  BY DEF ExpiryInv, IInv, TypeOK
<1> HIDE DEF o
<1>4. CASE IsFreed(n)
  <2>1. UNCHANGED <<node, l2w>> /\ failure' = "use after free"
    BY <1>1, <1>2, <1>4 DEF tableVars
  <2>2. ~Running'
    BY <2>1, FailureAssumption DEF Running, Failures
  <2>3. Linked'
    BY <1>1, <2>1, LinkedKept DEF SameNodes, IsFreed
  <2> QED
    BY <2>2, <2>3 DEF EveryNodeExpires
<1>5. CASE ~IsFreed(n)
  <2>1. /\ l2w' = l2w \ {n} /\ node'[n] = Freed
        /\ \A m \in Nodes \ {n} : node'[m] = node[m]
    BY <1>1, <1>2, <1>3, <1>5 DEF Remove, Free
  <2>2. receiver.pc = "idle" /\ receiver'.pc = "idle"
    BY <1>1 DEF Idle
  <2>3. Linked'
    <3>1. \A m \in Nodes : IsFreed(m)' \/ m \in l2w'
      BY <2>1, <2>2 DEF ExpiryInv, Linked, IsFreed
    <3>2. main.pc \in {"test", "disarm"} =>
            IsFreed(main.table)' \/ LanKey(node[main.table].entry)' = main.key
      BY <1>1, <2>1, AtMain DEF ExpiryInv, IInv, Linked, IsFreed, LanKey
    <3> QED
      BY <1>1, <2>2, <3>1, <3>2 DEF Linked, IsFreed
  <2>4. ASSUME NEW k \in l2w'
        PROVE  Expiring(k)'
    <3>1. k \in l2w /\ k \in Nodes \ {n} /\ node'[k] = node[k]
      BY <1>3, <2>1
    <3>2. Expiring(k)
      BY <1>1, <3>1 DEF ExpiryInv, EveryNodeExpires
    <3>3. Armed(LanKey(node[k].entry)) => Armed(LanKey(node[k].entry))'
      BY <1>1, <3>1 DEF Armed, LanKey
    <3>4. ASSUME NEW m \in Nodes, m = k \/ IsFreed(m), TimeoutOrdered(m)
          PROVE  (m = k \/ IsFreed(m)') /\ TimeoutOrdered(m)'
      <4>1. m # n
        BY <1>5, <3>1, <3>4
      <4>2. TimeoutOrder(m) # o
        BY <1>2, <4>1 DEF TimeoutOrder
      <4>3. TimeoutOrdered(m)'
        BY <1>1, <3>4, <4>2, TimeoutsKept DEF o
      <4> QED
        BY <2>1, <3>4, <4>1, <4>3 DEF IsFreed
    <3> QED
      BY <3>2, <3>3, <3>4 DEF Expiring
  <2> QED
    BY <2>3, <2>4 DEF EveryNodeExpires
<1> QED
  BY <1>4, <1>5

LEMMA ReleaseAckExpiry ==
  ASSUME ExpiryInv, ReleaseAck
  PROVE  Linked' /\ EveryNodeExpires'
<1>1. /\ Running /\ receiver = Idle /\ h_recv # <<>> /\ h_recv' = Tail(h_recv)
      /\ Head(h_recv).kind # "TIMEOUT" /\ receiver'.pc = "find"
      /\ UNCHANGED <<node, l2w, timers, h_send, divert, sender, main>>
  BY DEF ReleaseAck, Answered, tableVars
<1>2. \A m : TimeoutOrder(m) # Head(h_recv)
  BY <1>1 DEF TimeoutOrder
<1> QED
  BY <1>1, <1>2, ReceiverMoves DEF SameNodes, IsFreed, Idle

LEMMA FindKeptExpiry ==
  ASSUME ExpiryInv, FindKept
  PROVE  Linked' /\ EveryNodeExpires'
<1>1. /\ Running /\ receiver.pc = "find" /\ receiver'.pc # "disarm"
      /\ UNCHANGED <<node, l2w, timers, h_send, h_recv, divert, sender, main>>
  BY DEF FindKept, Idle, tableVars, ringVars
<1> QED
  BY <1>1, ReceiverMoves DEF SameNodes, IsFreed

LEMMA AliasKeptExpiry ==
  ASSUME ExpiryInv, AliasKept
  PROVE  Linked' /\ EveryNodeExpires'
<1>1. /\ Running /\ receiver.pc = "alias" /\ receiver'.pc # "disarm"
      /\ Apply(receiver.table, receiver.seen, receiver.packet)
      /\ UNCHANGED <<l2w, timers, h_send, h_recv, divert, sender, main>>
  BY DEF AliasKept, Idle, ringVars
<1>2. /\ receiver.packet \in Packets /\ receiver.table \in Nodes /\ receiver.seen \in TcpStates
      /\ ~IsFreed(receiver.table)
  BY <1>1, AtReceiver, NodeKey DEF ExpiryInv, IInv, Pointers
<1>3. SameNodes
  BY <1>1, <1>2, ApplyNode DEF SameNodes, ExpiryInv, IInv
<1> QED
  BY <1>1, <1>3, ReceiverMoves

\* The node that leaves the trees was the only one with its key.
LEMMA RemoveReleasedExpiry ==
  ASSUME ExpiryInv, RemoveReleased
  PROVE  Linked' /\ EveryNodeExpires'
<1>1. /\ Running /\ receiver.pc = "remove"
      /\ UNCHANGED <<node, timers, ringVars, divert, sender, main>>
      /\ \/ UNCHANGED <<l2w, receiver>>
         \/ \E n \in l2w : l2w' = l2w \ {n} /\ receiver' = [pc |-> "disarm", table |-> n]
  BY DEF RemoveReleased, Remove, find_l2w
<1>2. SameNodes
  BY <1>1 DEF SameNodes, IsFreed
<1>3. Linked'
  <2>1. CASE UNCHANGED <<l2w, receiver>>
    BY <1>1, <1>2, <2>1, LinkedKept
  <2>2. ASSUME NEW n \in l2w, l2w' = l2w \ {n}, receiver' = [pc |-> "disarm", table |-> n]
        PROVE  Linked'
    <3>1. receiver'.pc = "disarm" /\ receiver'.table = n
      BY <2>2
    <3>2. \A m \in Nodes : IsFreed(m) \/ m \in l2w
      BY <1>1 DEF ExpiryInv, Linked
    <3>3. \A m \in l2w : LanKey(node[m].entry) = LanKey(node[n].entry) => m = n
      BY DEF ExpiryInv, IInv, TreesAgree, KeyOf, Directions
    <3>4. main.pc \in {"test", "disarm"} =>
            IsFreed(main.table) \/ LanKey(node[main.table].entry) = main.key
      BY DEF ExpiryInv, Linked
    <3> QED
      BY <1>1, <2>2, <3>1, <3>2, <3>3, <3>4 DEF Linked, IsFreed, LanKey
  <2> QED
    BY <1>1, <2>1, <2>2
<1>4. EveryNodeExpires'
  <2>1. l2w' \subseteq l2w
    BY <1>1
  <2> QED
    BY <1>1, <1>2, <2>1, SameRings, Onward
<1> QED
  BY <1>3, <1>4

\* The timer that is deleted here is not that of another node.
LEMMA FreeReleasedExpiry ==
  ASSUME ExpiryInv, FreeReleased
  PROVE  Linked' /\ EveryNodeExpires'
<1> DEFINE gone == LanKey(node[receiver.table].entry)
<1>1. /\ Running /\ receiver.pc = "disarm"
      /\ UNCHANGED <<l2w, ringVars, divert, sender, main>>
      /\ \/ timers' = timers \ {gone} /\ Free(receiver.table) /\ receiver' = Idle
         \/ failure' = "no timer" /\ UNCHANGED <<node, receiver>>
  BY DEF FreeReleased
<1>2. PICK n \in Nodes : n = receiver.table
  BY <1>1, AtReceiver DEF ExpiryInv, IInv
<1>3. /\ node \in [Nodes -> NodeRecords \cup {Freed}] /\ n \notin l2w
      /\ \A k \in l2w : LanKey(node[k].entry) # gone
  BY <1>1, <1>2 DEF ExpiryInv, IInv, TypeOK, Pointers, Linked
<1> HIDE DEF gone
<1>4. CASE failure' = "no timer" /\ UNCHANGED <<node, receiver>>
  <2>1. ~Running'
    BY <1>4, FailureAssumption DEF Running, Failures
  <2>2. Linked'
    BY <1>1, <1>4, LinkedKept DEF SameNodes, IsFreed
  <2> QED
    BY <2>1, <2>2 DEF EveryNodeExpires
<1>5. CASE timers' = timers \ {gone} /\ Free(receiver.table) /\ receiver' = Idle
  <2>1. node'[n] = Freed /\ \A m \in Nodes \ {n} : node'[m] = node[m]
    BY <1>2, <1>3, <1>5 DEF Free
  <2>2. receiver'.pc = "idle"
    BY <1>5 DEF Idle
  <2>3. Linked'
    <3>1. \A m \in Nodes : IsFreed(m)' \/ m \in l2w'
      BY <1>1, <1>2, <2>1 DEF ExpiryInv, Linked, IsFreed
    <3>2. main.pc \in {"test", "disarm"} =>
            IsFreed(main.table)' \/ LanKey(node[main.table].entry)' = main.key
      BY <1>1, <2>1, AtMain DEF ExpiryInv, IInv, Linked, IsFreed, LanKey
    <3> QED
      BY <1>1, <2>2, <3>1, <3>2 DEF Linked, IsFreed
  <2>4. ASSUME NEW k \in l2w'
        PROVE  Expiring(k)'
    <3>1. k \in l2w /\ k \in Nodes \ {n} /\ node'[k] = node[k] /\ LanKey(node[k].entry) # gone
      BY <1>1, <1>3, <2>1, <2>4, NodeKey DEF ExpiryInv
    <3>2. Expiring(k)
      BY <1>1, <3>1 DEF ExpiryInv, EveryNodeExpires
    <3>3. Armed(LanKey(node[k].entry)) => Armed(LanKey(node[k].entry))'
      BY <1>1, <1>5, <3>1 DEF Armed, LanKey
    <3>4. ASSUME NEW m \in Nodes, m = k \/ IsFreed(m), TimeoutOrdered(m)
          PROVE  (m = k \/ IsFreed(m)') /\ TimeoutOrdered(m)'
      <4>1. TimeoutOrdered(m)'
        BY <1>1, <3>4 DEF TimeoutOrdered, TimeoutOrder, ringVars
      <4> QED
        BY <2>1, <3>4, <4>1 DEF IsFreed
    <3> QED
      BY <3>2, <3>3, <3>4 DEF Expiring
  <2> QED
    BY <2>3, <2>4 DEF EveryNodeExpires
<1> QED
  BY <1>1, <1>4, <1>5

-----------------------------------------------------------------------------
(* The specification *)

LEMMA InitExpiry == Init => ExpiryInv
<1> SUFFICES ASSUME Init PROVE ExpiryInv
  OBVIOUS
<1>1. Linked
  BY DEF Init, Linked, IsFreed, Idle
<1>2. EveryNodeExpires
  BY DEF Init, EveryNodeExpires
<1> QED
  BY <1>1, <1>2, InitIInv DEF ExpiryInv

LEMMA StutterExpiry == ExpiryInv /\ UNCHANGED vars => Linked' /\ EveryNodeExpires'
<1> SUFFICES ASSUME ExpiryInv, UNCHANGED vars PROVE Linked' /\ EveryNodeExpires'
  OBVIOUS
<1>1. SameNodes /\ UNCHANGED <<node, l2w, timers, ringVars, divert, sender, receiver, main, failure>>
  BY DEF vars, tableVars, SameNodes, IsFreed
<1>2. Linked'
  BY <1>1, LinkedKept
<1>3. CASE Running
  BY <1>1, <1>2, <1>3, SameRings, Onward
<1>4. CASE ~Running
  BY <1>1, <1>2, <1>4 DEF EveryNodeExpires, Running
<1> QED
  BY <1>3, <1>4

LEMMA NextExpiry == ExpiryInv /\ [Next]_vars => ExpiryInv'
<1> SUFFICES ASSUME ExpiryInv, [Next]_vars PROVE Linked' /\ EveryNodeExpires'
  BY NextStep DEF ExpiryInv
<1>1. ASSUME NEW p \in Packets, Receive(p) PROVE Linked' /\ EveryNodeExpires'
  BY <1>1, ReceiveExpiry
<1>2. ASSUME NEW key \in LanKeys, Fire(key) PROVE Linked' /\ EveryNodeExpires'
  BY <1>2, FireExpiry
<1>3. ASSUME NEW n \in Nodes, GrowIdle(n) PROVE Linked' /\ EveryNodeExpires'
  BY <1>3, GrowIdleExpiry
<1>4. CASE Divert
  BY <1>4, PushExpiry, AliasExpiry, FindClosedExpiry, MarkClosedExpiry,
     DisarmClosedExpiry, RearmClosedExpiry DEF Divert
<1>5. CASE Sender
  BY <1>5, PopExpiry, ComposeExpiry, PushAwaitedExpiry, MessageExpiry DEF Sender
<1>6. CASE PoolServer
  BY <1>6, MessageExpiry DEF PoolServer
<1>7. CASE Receiver
  BY <1>7, RequestAckExpiry, ArmNewExpiry, RequestDiscardExpiry, ReleaseAckTimeoutExpiry,
     ReleaseAckExpiry, FindKeptExpiry, AliasKeptExpiry, RemoveReleasedExpiry, FreeReleasedExpiry
  DEF Receiver
<1>8. CASE Main
  BY <1>8, TestIdleExpiry, DisarmIdleExpiry, PushTimeoutExpiry DEF Main
<1>9. CASE Stopped \/ UNCHANGED vars
  BY <1>9, StutterExpiry DEF Stopped
<1> QED
  BY <1>1, <1>2, <1>3, <1>4, <1>5, <1>6, <1>7, <1>8, <1>9 DEF Next

\* The inductive invariant: on top of IInv, where a node and its key are while
\* its timer is taken away (structure.h:920-1047, addrpool.h:387-480).
THEOREM ExpiryInvariance == Spec => []ExpiryInv
<1>1. Init => ExpiryInv
  BY InitExpiry
<1>2. ExpiryInv /\ [Next]_vars => ExpiryInv'
  BY NextExpiry
<1> QED
  BY <1>1, <1>2, PTL DEF Spec

\* However divert, main and receiver interleave, a node of the table has its
\* timer, or is about to get it, or its removal has been ordered, so that a
\* connection that is abandoned is removed (structure.h:920-1047,
\* main.cpp:397-445).
THEOREM NodesExpire == Spec => []EveryNodeExpires
<1>1. ExpiryInv => EveryNodeExpires
  BY DEF ExpiryInv
<1> QED
  BY <1>1, ExpiryInvariance, PTL
=============================================================================
