------------------------------ MODULE Natporte ------------------------------
(***************************************************************************)
(* The four threads of natporte around the NAT table, with the pool server *)
(* they talk to, for the connections of one protocol, TCP or UDP.          *)
(*                                                                         *)
(*   divert    loop_divert (src/src/divert.h): the packets                 *)
(*   sender    addrpool_sender (src/src/addrpool.h): h_send to the server  *)
(*   receiver  addrpool_receiver (src/src/addrpool.h): the server's answers*)
(*   main      the loop over kevent() (src/src/main.cpp): the timers       *)
(*                                                                         *)
(* They share the nodes, which they use through pointers after s_lock is   *)
(* given up, the trees l2w and w2l over the nodes, the timers of the       *)
(* kqueue, and the two rings, which are the bounded FIFOs that module Ring *)
(* is proved to implement.  One step is what a thread does between two     *)
(* accesses to shared state.  The server handles one message at a time.    *)
(*                                                                         *)
(* Where the program calls exit(-1) or uses a node that was freed, failure *)
(* says so and the model goes no further: the process ended, or what it    *)
(* does next is undefined.                                                 *)
(***************************************************************************)
EXTENDS Naturals, Sequences, FiniteSets, Functions, TcpState

CONSTANTS
    Clients, LanPorts, WanAddrs, startPort, endPort, maxConnection, undefined,
    protocol,
    Nodes,                  \* the addresses that malloc may return for a node
    SendSize, RecvSize,     \* the entries that h_send and h_recv hold
    LanFlags, WanFlags,     \* the segments that arrive, by their flags
    OnlyExpected,           \* no segment arrives that tcp_state_check calls UNKNOWN
    Freed

\* How the program ends, or what it does that has no meaning.
Failures ==
    {"use after free", "no timer", "cannot match the release node table", "nat table delete error"}

ASSUME BoundsAssumption == SendSize \in Nat /\ RecvSize \in Nat
ASSUME ServerAssumption == Clients \subseteq Nat /\ startPort \in Nat /\ endPort \in Nat
ASSUME PoolAssumption ==
    maxConnection \in Nat \ {0} /\ IsFiniteSet(WanAddrs) /\ undefined \notin WanAddrs
ASSUME FailureAssumption == undefined \notin Failures

VARIABLES
    pool_addrs, pool_ports, clients, db, result,    \* the pool server
    to_pool, to_nat,        \* the TCP connection with it, both directions
    node, l2w, w2l,
    timers,                 \* the l2w_keys with an EVFILT_TIMER in kq
    h_send, h_recv,
    divert, sender, receiver, main,     \* where each thread is, and its locals
    failure

poolVars == <<pool_addrs, pool_ports, clients, db, result>>
netVars == <<to_pool, to_nat>>
tableVars == <<node, l2w, w2l>>
ringVars == <<h_send, h_recv>>
vars == <<poolVars, netVars, tableVars, timers, ringVars,
          divert, sender, receiver, main, failure>>

DB == INSTANCE Entry

Connections == DB!Entries
LanKey(e) == <<e.lan_ip, e.lan_port>>
WanKey(e) == <<e.wan_ip, e.wan_port>>
KeyOf(side, e) == IF side = "L2W" THEN LanKey(e) ELSE WanKey(e)

ASSUME ResultAssumption == undefined \notin Connections

NodeRecords ==
    [entry : Connections, flags : TcpStates, timer_flags : {"LOOP", "CLOSE"}, idle : BOOLEAN]

\* What malloc returned is no longer a node once it is freed.
ASSUME FreedAssumption == Freed \notin NodeRecords

LanKeys == Clients \X LanPorts
WanKeys == WanAddrs \X DB!Ports

\* A packet: the side it comes from, the endpoint that identifies its
\* connection (the source of a LAN packet, the destination of a WAN packet).
LanPackets == [from : {"L2W"}, key : LanKeys, flags : LanFlags]
WanPackets == [from : {"W2L"}, key : WanKeys, flags : WanFlags]
Packets == LanPackets \cup WanPackets

Idle == [pc |-> "idle"]

Init ==
    /\ \E a \in WanAddrs :
         /\ pool_addrs = <<a>>
         /\ pool_ports = [b \in WanAddrs |-> IF b = a THEN DB!AllPorts ELSE <<>>]
    /\ clients = {} /\ db = {} /\ result = undefined
    /\ to_pool = <<>> /\ to_nat = <<>>
    /\ node = [n \in Nodes |-> Freed] /\ l2w = {} /\ w2l = {}
    /\ timers = {}
    /\ h_send = <<>> /\ h_recv = <<>>
    /\ divert = Idle /\ sender = Idle /\ receiver = Idle /\ main = Idle
    /\ failure = undefined

Running == failure = undefined

-----------------------------------------------------------------------------
(* The table *)

find_l2w(key) == {n \in l2w : LanKey(node[n].entry) = key}
find_w2l(key) == {n \in w2l : WanKey(node[n].entry) = key}
find(side, key) == IF side = "L2W" THEN find_l2w(key) ELSE find_w2l(key)

\* Mutant: only the first tree is asked.
Collides_LanOnly(e) == find_l2w(LanKey(e)) # {}

\* s_insert: into l2w, then into w2l, and out of l2w again if that fails.
Collides(e) == find_l2w(LanKey(e)) \cup find_w2l(WanKey(e)) # {}

Insert(n, e) ==
    /\ node' = [node EXCEPT ![n] =
                  [entry |-> e, flags |-> IF protocol = "TCP" THEN "SYN_SENT" ELSE "ESTABLISHED",
                   timer_flags |-> "LOOP", idle |-> FALSE]]
    /\ l2w' = l2w \cup {n} /\ w2l' = w2l \cup {n}

Remove(n) == l2w' = l2w \ {n} /\ w2l' = w2l \ {n}

IsFreed(n) == node[n] = Freed

TimeoutOrder(n) == [kind |-> "TIMEOUT", table |-> n]

\* A thread or a ring has a pointer to the node.  Any use of a pointer to a
\* freed node is undefined, also when malloc has returned its address anew:
\* a new node gets an address that nobody holds, so that such a use is seen.
HasPointer(thread, n) ==
    \/ thread.pc \in {"alias", "mark", "compose", "test", "disarm", "push"}
       /\ "table" \in DOMAIN thread /\ thread.table = n
    \/ "order" \in DOMAIN thread /\ thread.order = TimeoutOrder(n)

Held(n) ==
    \/ \E thread \in {divert, sender, receiver, main} : HasPointer(thread, n)
    \/ TimeoutOrder(n) \in Range(h_send) \cup Range(h_recv)

Free(n) == node' = [node EXCEPT ![n] = Freed]

-----------------------------------------------------------------------------
(* lan2wan_alias and wan2lan_alias, once the node is found: seen is the    *)
(* state that was read, the outcome is written back to the node.           *)

\* A datagram is translated whatever the state, which stays at 0.
StateAfter(seen, p) == IF protocol = "UDP" THEN seen ELSE NewFlags(seen, p.flags, p.from)
Outcome(seen, p) == IF protocol = "UDP" THEN "DOALIAS" ELSE Verdict(seen, p.flags, p.from)

Expected(seen, p) == StateAfter(seen, p) # "UNKNOWN"

Apply(n, seen, p) ==
    node' = [node EXCEPT
               ![n].flags = IF seen \in Final THEN @ ELSE StateAfter(seen, p),
               ![n].idle = @ /\ Outcome(seen, p) \notin {"DOALIAS", "DEL_TABLE"}]

-----------------------------------------------------------------------------
(* divert *)

\* A packet is received and its node looked up and read.  Without one a SYN
\* or a datagram of the LAN is handed to the sender, anything else is dropped
\* or passed on.
Receive(p) ==
    /\ Running /\ divert = Idle
    /\ IF find(p.from, p.key) = {}
       THEN divert' = IF p.from = "L2W" /\ (protocol = "UDP" \/ p.flags = {"SYN"})
                      THEN [pc |-> "request", packet |-> p] ELSE Idle
       ELSE \E n \in find(p.from, p.key) :
              /\ OnlyExpected => Expected(node[n].flags, p)
              /\ divert' = [pc |-> "alias", packet |-> p, table |-> n, seen |-> node[n].flags]
    /\ UNCHANGED <<poolVars, netVars, tableVars, timers, ringVars,
                   sender, receiver, main, failure>>

\* Mutant: the last free slot is one further.
PushRequest_OffByOne ==
    /\ Running /\ divert.pc = "request"
    /\ h_send' = IF Len(h_send) <= SendSize
                 THEN Append(h_send, [kind |-> "REQ", packet |-> divert.packet]) ELSE h_send
    /\ divert' = Idle
    /\ UNCHANGED <<poolVars, netVars, tableVars, timers, h_recv,
                   sender, receiver, main, failure>>

\* One try to push: a full ring drops the packet.
PushRequest ==
    /\ Running /\ divert.pc = "request"
    /\ h_send' = IF Len(h_send) < SendSize
                 THEN Append(h_send, [kind |-> "REQ", packet |-> divert.packet]) ELSE h_send
    /\ divert' = Idle
    /\ UNCHANGED <<poolVars, netVars, tableVars, timers, h_recv,
                   sender, receiver, main, failure>>

Alias ==
    /\ Running /\ divert.pc = "alias"
    /\ LET n == divert.table
           p == divert.packet
       IN  IF IsFreed(n)
           THEN failure' = "use after free" /\ UNCHANGED <<node, divert>>
           ELSE /\ Apply(n, divert.seen, p)
                /\ divert' =
                     CASE Outcome(divert.seen, p) = "RESET_TABLE" -> [pc |-> "release", packet |-> p]
                       [] Outcome(divert.seen, p) = "DEL_TABLE" ->
                            [pc |-> "delete", from |-> Opposite(p.from),
                             key |-> KeyOf(Opposite(p.from), node[n].entry)]
                       [] OTHER -> Idle
                /\ UNCHANGED failure
    /\ UNCHANGED <<poolVars, netVars, l2w, w2l, timers, ringVars, sender, receiver, main>>

\* The loop over ring_push waits for room.
PushRelease ==
    /\ Running /\ divert.pc = "release"
    /\ Len(h_send) < SendSize
    /\ h_send' = Append(h_send, [kind |-> "REL", packet |-> divert.packet])
    /\ divert' = Idle
    /\ UNCHANGED <<poolVars, netVars, tableVars, timers, h_recv,
                   sender, receiver, main, failure>>

\* ALIAS_DEL_TABLE: the node is looked up again, by the translated packet.
FindClosed ==
    /\ Running /\ divert.pc = "delete"
    /\ IF find(divert.from, divert.key) = {} THEN divert' = Idle
       ELSE \E n \in find(divert.from, divert.key) : divert' = [pc |-> "mark", table |-> n]
    /\ UNCHANGED <<poolVars, netVars, tableVars, timers, ringVars,
                   sender, receiver, main, failure>>

\* timer_event_delete_for_node: mark the node, then replace its timer.
MarkClosed ==
    /\ Running /\ divert.pc = "mark"
    /\ IF IsFreed(divert.table)
       THEN failure' = "use after free" /\ UNCHANGED <<node, divert>>
       ELSE /\ node' = [node EXCEPT ![divert.table].timer_flags = "CLOSE"]
            /\ divert' = [pc |-> "disarm", key |-> LanKey(node[divert.table].entry)]
            /\ UNCHANGED failure
    /\ UNCHANGED <<poolVars, netVars, l2w, w2l, timers, ringVars, sender, receiver, main>>

\* An EV_DELETE without a timer fails, which is ignored here.
DisarmClosed ==
    /\ Running /\ divert.pc = "disarm"
    /\ timers' = timers \ {divert.key}
    /\ divert' = [divert EXCEPT !.pc = "rearm"]
    /\ UNCHANGED <<poolVars, netVars, tableVars, ringVars, sender, receiver, main, failure>>

\* Mutant: the timer is deleted and not added again.
RearmClosed_Forgotten ==
    /\ Running /\ divert.pc = "rearm"
    /\ divert' = Idle
    /\ UNCHANGED <<poolVars, netVars, tableVars, timers, ringVars,
                   sender, receiver, main, failure>>

RearmClosed ==
    /\ Running /\ divert.pc = "rearm"
    /\ timers' = timers \cup {divert.key}
    /\ divert' = Idle
    /\ UNCHANGED <<poolVars, netVars, tableVars, ringVars, sender, receiver, main, failure>>

Divert ==
    \/ PushRequest \/ Alias \/ PushRelease
    \/ FindClosed \/ MarkClosed \/ DisarmClosed \/ RearmClosed

-----------------------------------------------------------------------------
(* sender *)

\* A release by packet finds its node by the source, else by the destination.
Pop ==
    /\ Running /\ sender = Idle
    /\ h_send # <<>>
    /\ h_send' = Tail(h_send)
    /\ LET order == Head(h_send) IN
         CASE order.kind = "REQ" ->
                /\ sender' = [pc |-> "push", order |-> order,
                              message |-> [type |-> "request", lan |-> order.packet.key]]
                /\ UNCHANGED failure
           [] order.kind = "REL" /\ find(order.packet.from, order.packet.key) = {} ->
                failure' = "cannot match the release node table" /\ UNCHANGED sender
           [] order.kind = "REL" /\ find(order.packet.from, order.packet.key) # {} ->
                /\ \E n \in find(order.packet.from, order.packet.key) :
                     sender' = [pc |-> "compose", order |-> order, table |-> n]
                /\ UNCHANGED failure
           [] order.kind = "TIMEOUT" ->
                /\ sender' = [pc |-> "compose", order |-> order, table |-> order.table]
                /\ UNCHANGED failure
    /\ UNCHANGED <<poolVars, netVars, tableVars, timers, h_recv, divert, receiver, main>>

\* The addresses of a release are read from the node.
Compose ==
    /\ Running /\ sender.pc = "compose"
    /\ IF IsFreed(sender.table)
       THEN failure' = "use after free" /\ UNCHANGED sender
       ELSE /\ sender' = [pc |-> "push", order |-> sender.order,
                          message |-> [type |-> "release", entry |-> node[sender.table].entry]]
            /\ UNCHANGED failure
    /\ UNCHANGED <<poolVars, netVars, tableVars, timers, ringVars, divert, receiver, main>>

\* Mutant: the newest order is in front.
PushAwaited_AtHead ==
    /\ Running /\ sender.pc = "push"
    /\ Len(h_recv) < RecvSize
    /\ h_recv' = <<sender.order>> \o h_recv
    /\ sender' = [pc |-> "send", message |-> sender.message]
    /\ UNCHANGED <<poolVars, netVars, tableVars, timers, h_send,
                   divert, receiver, main, failure>>

\* The order is left to the receiver before the message is sent.
PushAwaited ==
    /\ Running /\ sender.pc = "push"
    /\ Len(h_recv) < RecvSize
    /\ h_recv' = Append(h_recv, sender.order)
    /\ sender' = [pc |-> "send", message |-> sender.message]
    /\ UNCHANGED <<poolVars, netVars, tableVars, timers, h_send,
                   divert, receiver, main, failure>>

Send ==
    /\ Running /\ sender.pc = "send"
    /\ to_pool' = Append(to_pool, sender.message)
    /\ sender' = Idle
    /\ UNCHANGED <<poolVars, to_nat, tableVars, timers, ringVars,
                   divert, receiver, main, failure>>

Sender == Pop \/ Compose \/ PushAwaited \/ Send

-----------------------------------------------------------------------------
(* The pool server: one message, one answer.  A release is acknowledged    *)
(* whether or not there was such an entry.                                 *)

AnswerRequest ==
    /\ Running /\ to_pool # <<>> /\ Head(to_pool).type = "request"
    /\ to_pool' = Tail(to_pool)
    /\ DB!AssignConnection(Head(to_pool).lan[1], Head(to_pool).lan[2])
    /\ to_nat' = Append(to_nat,
         IF result' = undefined
         THEN [type |-> "request_discard", lan |-> Head(to_pool).lan]
         ELSE [type |-> "request_ack", entry |-> result'])
    /\ UNCHANGED <<tableVars, timers, ringVars, divert, sender, receiver, main, failure>>

\* Mutant: the release is acknowledged and not made.
AnswerRelease_AckOnly ==
    /\ Running /\ to_pool # <<>> /\ Head(to_pool).type = "release"
    /\ to_pool' = Tail(to_pool)
    /\ to_nat' = Append(to_nat, [type |-> "release_ack", entry |-> Head(to_pool).entry])
    /\ UNCHANGED <<poolVars, tableVars, timers, ringVars,
                   divert, sender, receiver, main, failure>>

AnswerRelease ==
    /\ Running /\ to_pool # <<>> /\ Head(to_pool).type = "release"
    /\ to_pool' = Tail(to_pool)
    /\ DB!ReleaseConnection(Head(to_pool).entry)
    /\ to_nat' = Append(to_nat, [type |-> "release_ack", entry |-> Head(to_pool).entry])
    /\ UNCHANGED <<tableVars, timers, ringVars, divert, sender, receiver, main, failure>>

PoolServer == AnswerRequest \/ AnswerRelease

-----------------------------------------------------------------------------
(* receiver: an answer arrives and the order it belongs to is popped.      *)

Answered(type) ==
    /\ Running /\ receiver = Idle
    /\ to_nat # <<>> /\ Head(to_nat).type = type
    /\ h_recv # <<>>
    /\ to_nat' = Tail(to_nat)
    /\ h_recv' = Tail(h_recv)

\* A node is made and inserted; if its keys are taken it is freed again.
RequestAck ==
    /\ Answered("request_ack")
    /\ LET e == Head(to_nat).entry IN
         IF Collides(e)
         THEN UNCHANGED <<tableVars, receiver>>
         ELSE /\ \E n \in Nodes : IsFreed(n) /\ ~Held(n) /\ Insert(n, e)
              /\ receiver' = [pc |-> "arm", reply |-> Head(to_nat), order |-> Head(h_recv)]
    /\ UNCHANGED <<poolVars, to_pool, timers, h_send, divert, sender, main, failure>>

\* Mutant: a new node gets no timer.
ArmNew_Skipped ==
    /\ Running /\ receiver.pc = "arm"
    /\ receiver' = [receiver EXCEPT !.pc = "find"]
    /\ UNCHANGED <<poolVars, netVars, tableVars, timers, ringVars,
                   divert, sender, main, failure>>

\* add_timer_event_tcp, add_timer_event_udp
ArmNew ==
    /\ Running /\ receiver.pc = "arm"
    /\ timers' = timers \cup {LanKey(receiver.reply.entry)}
    /\ receiver' = [receiver EXCEPT !.pc = "find"]
    /\ UNCHANGED <<poolVars, netVars, tableVars, ringVars, divert, sender, main, failure>>

\* Mutant: a discarded request leaves its order in h_recv.
RequestDiscard_NoPop ==
    /\ Running /\ receiver = Idle
    /\ to_nat # <<>> /\ Head(to_nat).type = "request_discard"
    /\ to_nat' = Tail(to_nat)
    /\ UNCHANGED <<poolVars, to_pool, tableVars, timers, ringVars,
                   divert, sender, receiver, main, failure>>

\* The packet is dropped, or answered with a RST.
RequestDiscard ==
    /\ Answered("request_discard")
    /\ UNCHANGED <<poolVars, to_pool, tableVars, timers, h_send,
                   divert, sender, receiver, main, failure>>

\* Mutant: the answer to a timeout removes nothing.
ReleaseAckTimeout_KeepsNode ==
    /\ Answered("release_ack")
    /\ Head(h_recv).kind = "TIMEOUT"
    /\ UNCHANGED <<poolVars, to_pool, tableVars, timers, h_send,
                   divert, sender, receiver, main, failure>>

\* s_delete_for_point trusts the pointer: RB_REMOVE of a node that was freed.
ReleaseAckTimeout ==
    /\ Answered("release_ack")
    /\ Head(h_recv).kind = "TIMEOUT"
    /\ LET n == Head(h_recv).table IN
         IF IsFreed(n)
         THEN failure' = "use after free" /\ UNCHANGED tableVars
         ELSE Remove(n) /\ Free(n) /\ UNCHANGED failure
    /\ UNCHANGED <<poolVars, to_pool, timers, h_send, divert, sender, receiver, main>>

ReleaseAck ==
    /\ Answered("release_ack")
    /\ Head(h_recv).kind # "TIMEOUT"
    /\ receiver' = [pc |-> "find", reply |-> Head(to_nat), order |-> Head(h_recv)]
    /\ UNCHANGED <<poolVars, to_pool, tableVars, timers, h_send,
                   divert, sender, main, failure>>

\* The packet that was kept is translated as divert would do it.
FindKept ==
    /\ Running /\ receiver.pc = "find"
    /\ LET p == receiver.order.packet IN
         IF find(p.from, p.key) = {} THEN receiver' = Idle
         ELSE \E n \in find(p.from, p.key) :
                receiver' = [pc |-> "alias", reply |-> receiver.reply, packet |-> p,
                             table |-> n, seen |-> node[n].flags]
    /\ UNCHANGED <<poolVars, netVars, tableVars, timers, ringVars,
                   divert, sender, main, failure>>

\* Without ALIAS_DOALIAS the packet is freed and the answer is done with.
AliasKept ==
    /\ Running /\ receiver.pc = "alias"
    /\ Apply(receiver.table, receiver.seen, receiver.packet)
    /\ receiver' =
         IF /\ receiver.reply.type = "release_ack"
            /\ Outcome(receiver.seen, receiver.packet) = "DOALIAS"
         THEN [pc |-> "remove", entry |-> receiver.reply.entry] ELSE Idle
    /\ UNCHANGED <<poolVars, netVars, l2w, w2l, timers, ringVars,
                   divert, sender, main, failure>>

\* s_delete_for_value
RemoveReleased ==
    /\ Running /\ receiver.pc = "remove"
    /\ LET e == receiver.entry
           found == find_l2w(LanKey(e)) \cap find_w2l(WanKey(e))
       IN  IF found = {}
           THEN failure' = "nat table delete error" /\ UNCHANGED <<l2w, w2l, receiver>>
           ELSE \E n \in found :
                  /\ Remove(n)
                  /\ receiver' = [pc |-> "disarm", table |-> n]
                  /\ UNCHANGED failure
    /\ UNCHANGED <<poolVars, netVars, node, timers, ringVars, divert, sender, main>>

\* del_timer_event_tcp and del_timer_event_udp exit when there is no timer.
FreeReleased ==
    /\ Running /\ receiver.pc = "disarm"
    /\ LET key == LanKey(node[receiver.table].entry) IN
         IF key \in timers
         THEN /\ timers' = timers \ {key}
              /\ Free(receiver.table)
              /\ receiver' = Idle
              /\ UNCHANGED failure
         ELSE failure' = "no timer" /\ UNCHANGED <<timers, node, receiver>>
    /\ UNCHANGED <<poolVars, netVars, l2w, w2l, ringVars, divert, sender, main>>

Receiver ==
    \/ RequestAck \/ ArmNew \/ RequestDiscard \/ ReleaseAckTimeout \/ ReleaseAck
    \/ FindKept \/ AliasKept \/ RemoveReleased \/ FreeReleased

-----------------------------------------------------------------------------
(* main *)

\* kevent() returns a timer and its node is looked up; without one the timer
\* stays and the event is logged.
Fire(key) ==
    /\ Running /\ main = Idle
    /\ key \in timers
    /\ \E n \in find_l2w(key) : main' = [pc |-> "test", key |-> key, table |-> n]
    /\ UNCHANGED <<poolVars, netVars, tableVars, timers, ringVars,
                   divert, sender, receiver, failure>>

TestIdle ==
    /\ Running /\ main.pc = "test"
    /\ IF IsFreed(main.table)
       THEN failure' = "use after free" /\ UNCHANGED main
       ELSE /\ main' = IF node[main.table].idle \/ node[main.table].timer_flags = "CLOSE"
                       THEN [main EXCEPT !.pc = "disarm"] ELSE Idle
            /\ UNCHANGED failure
    /\ UNCHANGED <<poolVars, netVars, tableVars, timers, ringVars, divert, sender, receiver>>

\* del_timer_event_tcp, del_timer_event_udp
DisarmIdle ==
    /\ Running /\ main.pc = "disarm"
    /\ IF main.key \in timers
       THEN /\ timers' = timers \ {main.key}
            /\ main' = [pc |-> "push", table |-> main.table]
            /\ UNCHANGED failure
       ELSE failure' = "no timer" /\ UNCHANGED <<timers, main>>
    /\ UNCHANGED <<poolVars, netVars, tableVars, ringVars, divert, sender, receiver>>

PushTimeout ==
    /\ Running /\ main.pc = "push"
    /\ Len(h_send) < SendSize
    /\ h_send' = Append(h_send, TimeoutOrder(main.table))
    /\ main' = Idle
    /\ UNCHANGED <<poolVars, netVars, tableVars, timers, h_recv,
                   divert, sender, receiver, failure>>

Main == TestIdle \/ DisarmIdle \/ PushTimeout

\* Time passes: no packet of the node for longer than the timeout.
GrowIdle(n) ==
    /\ Running /\ n \in l2w /\ ~node[n].idle
    /\ node' = [node EXCEPT ![n].idle = TRUE]
    /\ UNCHANGED <<poolVars, netVars, l2w, w2l, timers, ringVars,
                   divert, sender, receiver, main, failure>>

-----------------------------------------------------------------------------

Stopped == ~Running /\ UNCHANGED vars

Next ==
    \/ \E p \in Packets : Receive(p)
    \/ \E key \in LanKeys : Fire(key)
    \/ \E n \in Nodes : GrowIdle(n)
    \/ Divert \/ Sender \/ PoolServer \/ Receiver \/ Main
    \/ Stopped

Spec == Init /\ [][Next]_vars

FairSpec ==
    /\ Spec
    /\ WF_vars(Divert) /\ WF_vars(Sender) /\ WF_vars(PoolServer)
    /\ WF_vars(Receiver) /\ WF_vars(Main)
    /\ \A key \in LanKeys : SF_vars(Fire(key))
    /\ \A n \in Nodes : WF_vars(GrowIdle(n))

-----------------------------------------------------------------------------
(* Properties *)

Requests == [kind : {"REQ"}, packet : LanPackets]
Releases == [kind : {"REL"}, packet : Packets]
Timeouts == [kind : {"TIMEOUT"}, table : Nodes]
Orders == Requests \cup Releases \cup Timeouts

Messages ==
    [type : {"request"}, lan : LanKeys] \cup [type : {"release"}, entry : Connections]
Acks == [type : {"request_ack", "release_ack"}, entry : Connections]
Answers == [type : {"request_discard"}, lan : LanKeys] \cup Acks

DivertType ==
    \/ divert = Idle
    \/ divert \in [pc : {"request"}, packet : LanPackets]
    \/ divert \in [pc : {"release"}, packet : Packets]
    \/ divert \in [pc : {"alias"}, packet : Packets, table : Nodes, seen : TcpStates]
    \/ divert \in [pc : {"delete"}, from : {"L2W"}, key : LanKeys]
    \/ divert \in [pc : {"delete"}, from : {"W2L"}, key : WanKeys]
    \/ divert \in [pc : {"mark"}, table : Nodes]
    \/ divert \in [pc : {"disarm", "rearm"}, key : LanKeys]

SenderType ==
    \/ sender = Idle
    \/ sender \in [pc : {"compose"}, order : Releases \cup Timeouts, table : Nodes]
    \/ sender \in [pc : {"push"}, order : Orders, message : Messages]
    \/ sender \in [pc : {"send"}, message : Messages]

ReceiverType ==
    \/ receiver = Idle
    \/ receiver \in [pc : {"arm", "find"}, reply : Acks, order : Requests \cup Releases]
    \/ receiver \in [pc : {"alias"}, reply : Acks, packet : Packets, table : Nodes, seen : TcpStates]
    \/ receiver \in [pc : {"remove"}, entry : Connections]
    \/ receiver \in [pc : {"disarm"}, table : Nodes]

MainType ==
    \/ main = Idle
    \/ main \in [pc : {"test", "disarm"}, key : LanKeys, table : Nodes]
    \/ main \in [pc : {"push"}, table : Nodes]

\* The types of the shared state, and of what each thread has in its locals:
\* an order in a ring is one of three kinds, neither ring holds more than it
\* has slots for, and the receiver never takes the pointer of a timeout for
\* a packet (ring.h:63-126, addrpool.h:204-280, 400-456).
TypeOK ==
    /\ DB!TypeOK
    /\ node \in [Nodes -> NodeRecords \cup {Freed}]
    /\ l2w \subseteq Nodes /\ w2l \subseteq Nodes
    /\ timers \subseteq LanKeys
    /\ h_send \in Seq(Orders) /\ Len(h_send) <= SendSize
    /\ h_recv \in Seq(Orders) /\ Len(h_recv) <= RecvSize
    /\ to_pool \in Seq(Messages) /\ to_nat \in Seq(Answers)
    /\ DivertType /\ SenderType /\ ReceiverType /\ MainType
    /\ failure \in Failures \cup {undefined}

\* The messages that are on their way, or the answers to them, oldest first.
InFlight ==
    to_nat \o to_pool \o (IF sender.pc = "send" THEN <<sender.message>> ELSE <<>>)

BelongsTo(m, order, nodes) ==
    CASE m.type \in {"request", "request_discard"} ->
           order.kind = "REQ" /\ order.packet.key = m.lan
      [] m.type = "request_ack" ->
           order.kind = "REQ" /\ order.packet.key = LanKey(m.entry)
      [] m.type \in {"release", "release_ack"} ->
           \/ order.kind = "REL" /\ order.packet.key = KeyOf(order.packet.from, m.entry)
           \/ order.kind = "TIMEOUT" /\ (nodes[order.table] = Freed \/ nodes[order.table].entry = m.entry)

\* The receiver learns what an answer is about by its place in h_recv alone.
\* Each answer meets the order it answers: the packet of that connection, or
\* the node of those addresses unless it has been freed (addrpool.h:204,
\* 358, 400 and 406, where the author asks "is release_ack information
\* match with buffer informaton of node...").
PairedAnswers ==
    /\ Len(InFlight) = Len(h_recv)
    /\ \A i \in DOMAIN h_recv : BelongsTo(InFlight[i], h_recv[i], node)

\* Both trees hold the same nodes, none of them freed, under distinct keys,
\* although the server may assign a port that a node here still has
\* (structure.h:664-701, addrpool.h:266-275).
TreesAgree ==
    /\ l2w = w2l
    /\ \A n \in l2w : ~IsFreed(n)
    /\ \A m, n \in l2w : \A side \in Directions :
         KeyOf(side, node[m].entry) = KeyOf(side, node[n].entry) => m = n

\* What makes the three inductive: the receiver alone frees nodes, so that
\* its own pointers are good, and a message belongs to its order before both
\* leave the sender.
Pointers ==
    /\ receiver.pc = "alias" => receiver.table \in l2w
    /\ receiver.pc = "disarm" => receiver.table \notin l2w /\ ~IsFreed(receiver.table)
    /\ sender.pc = "compose" =>
         \/ IsFreed(sender.table)
         \/ BelongsTo([type |-> "release", entry |-> node[sender.table].entry], sender.order, node)
    /\ sender.pc = "push" => BelongsTo(sender.message, sender.order, node)

IInv == TypeOK /\ PairedAnswers /\ TreesAgree /\ Pointers

TimeoutOrdered(n) ==
    \/ main.pc = "push" /\ main.table = n
    \/ sender.pc \in {"compose", "push"} /\ sender.order = TimeoutOrder(n)
    \/ TimeoutOrder(n) \in Range(h_send) \cup Range(h_recv)

Armed(key) ==
    \/ key \in timers
    \/ divert.pc = "rearm" /\ divert.key = key
    \/ receiver.pc = "arm" /\ LanKey(receiver.reply.entry) = key

Expiring(n) ==
    \/ Armed(LanKey(node[n].entry))
    \/ \E m \in Nodes : (m = n \/ IsFreed(m)) /\ TimeoutOrdered(m)

\* Every node has a timer, is about to get one, or its removal is under way,
\* however the deletes and adds of divert, main and receiver interleave: only
\* the timer ever removes a connection that is abandoned.  The exception is a
\* program that is about to use a freed node (structure.h:920-1047,
\* main.cpp:397-445).
EveryNodeExpires == Running => \A n \in l2w : Expiring(n)

\* What makes it inductive: a node is in the trees until the receiver takes
\* it out to free it, nobody has its key in between, and main deletes the
\* timer of the node whose removal it then orders.
Linked ==
    /\ \A n \in Nodes :
         IsFreed(n) \/ n \in l2w \/ (receiver.pc = "disarm" /\ receiver.table = n)
    /\ receiver.pc = "disarm" =>
         \A n \in l2w : LanKey(node[n].entry) # LanKey(node[receiver.table].entry)
    /\ main.pc \in {"test", "disarm"} =>
         IsFreed(main.table) \/ LanKey(node[main.table].entry) = main.key

ExpiryInv == IInv /\ Linked /\ EveryNodeExpires

\* A node stands for a connection of the server; if the server has released
\* it, the receiver is about to remove the node.  A node beyond that would
\* send the packets of another client to this one (addrpool.h:387-480).
NodeHasEntry ==
    Running => \A n \in l2w :
      LET acked == [type |-> "release_ack", entry |-> node[n].entry] IN
      \/ node[n].entry \in db
      \/ acked \in Range(to_nat)
      \/ receiver.pc \in {"find", "alias"} /\ receiver.reply = acked
      \/ receiver.pc = "remove" /\ receiver.entry = node[n].entry

\* A connection of the server has its node, or the answer that makes it or
\* the release that ends it is on its way: otherwise nobody would ever return
\* its port, for the server has no timers (addrpool.h:266-304, 662-748).
EntryHasNode ==
    Running => \A e \in db :
      \/ \E n \in l2w : node[n].entry = e
      \/ [type |-> "request_ack", entry |-> e] \in Range(to_nat)
      \/ [type |-> "release", entry |-> e] \in Range(InFlight)

\* No connection is reset: no segment is a RST, or UNKNOWN to tcp_state_check.
NoReset ==
    protocol = "UDP" \/ (OnlyExpected /\ \A flags \in LanFlags \cup WanFlags : "RST" \notin flags)

\* What an answer says of the server's connections.
AfterAnswer(entries, m) ==
    CASE m.type = "request_ack" -> entries \cup {m.entry}
      [] m.type = "release_ack" -> entries \ {m.entry}
      [] OTHER -> entries

OneToOne(entries) ==
    \A e, f \in entries : LanKey(e) = LanKey(f) \/ WanKey(e) = WanKey(f) => e = f

TableEntries == {node[n].entry : n \in l2w}

\* The table is the server's db as it was before the answers that are under
\* way: taking them in, one after the other, leads to the db of now, and in
\* no state between is a key taken twice.  Without resets, that is; a release
\* by packet may leave its node (addrpool.h:266-304, 400-480, entry.js:214-415).
TableFollowsServer ==
    NoReset /\ Running =>
      \E past \in [0 .. Len(to_nat) -> SUBSET Connections] :
        /\ past[0] = TableEntries /\ past[Len(to_nat)] = db
        /\ \A i \in DOMAIN to_nat : past[i] = AfterAnswer(past[i - 1], to_nat[i])
        /\ \A i \in DOMAIN past : OneToOne(past[i])

\* What makes it inductive: only resets are released by packet.
NoReleases ==
    NoReset =>
      /\ divert.pc # "release"
      /\ divert.pc = "alias" => Outcome(divert.seen, divert.packet) # "RESET_TABLE"
      /\ \A order \in Range(h_send) \cup Range(h_recv) : order.kind # "REL"
      /\ sender.pc \in {"compose", "push"} => sender.order.kind # "REL"
      /\ receiver.pc \notin {"remove", "disarm"}
      /\ receiver.pc \in {"arm", "find", "alias"} => receiver.reply.type = "request_ack"

ReplicaInv == ExpiryInv /\ DB!IInv /\ NoReleases /\ TableFollowsServer

\* When no packet is handled any more, the timers empty the table and the
\* server gets all ports back, or the process has ended (main.cpp:368-452).
QuietTableEmpties ==
    <>[](divert = Idle) => <>[](~Running \/ (l2w = {} /\ db = {}))

\* A release that was acknowledged has removed its node: the server sends
\* the ack even when its own release failed, "for the time being, so that it
\* is deleted from the NAT table" (bin/pool_server:367-368).
AckedReleaseRemoved ==
    [][/\ receiver.pc \in {"find", "alias"}
       /\ receiver.reply.type = "release_ack"
       /\ receiver' = Idle
       => \A n \in l2w' : node'[n].entry # receiver.reply.entry]_vars

\* A release that divert ordered finds its node; the sender exits with
\* "cannot match the release node table" otherwise (addrpool.h:671-690).
ReleaseFindsNode == failure # "cannot match the release node table"
=============================================================================
