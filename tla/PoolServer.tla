----------------------------- MODULE PoolServer -----------------------------
(***************************************************************************)
(* bin/pool_server: the natportes that are connected, their addresses, and *)
(* one database of module Entry per protocol.  The other end is natporte,  *)
(* reduced to what the server sees of it (addrpool.h): it connects, names  *)
(* its addresses, orders connections and releases, and exits.              *)
(*                                                                         *)
(* Both directions of a connection are streams, sequences of two kinds of  *)
(* tokens, the text of a message and the newline behind it.  A read takes  *)
(* any part of a stream from its front.  "connect", "end" and "reset" are  *)
(* the events that node.js tells the server of, in the place they have in  *)
(* the stream.                                                             *)
(*                                                                         *)
(* node.js runs one callback at a time.  A callback with a loop is a       *)
(* sequence of steps here; what is left of it is kept in server, and no    *)
(* other callback begins before it is done.                                *)
(***************************************************************************)
EXTENDS Naturals, Sequences, SequencesExt, FiniteSets, Functions

CONSTANTS
    Natportes, Sockets,
    pool_addr,              \* the WAN addresses of each natporte, one at least:
                            \* none would make a line that is no JSON
    Outstanding,            \* bound: the orders of each natporte under way
    Ordered,                \* bound: the protocols a natporte orders
    Clients, LanPorts, WanAddrs, startPort, endPort, maxConnection, undefined

Protocols == {"TCP", "UDP"}

ASSUME SessionAssumption ==
    /\ pool_addr \in [Natportes -> Seq(WanAddrs) \ {<<>>}]
    /\ Ordered \in [Natportes -> SUBSET Protocols]
    /\ undefined \notin Sockets
ASSUME DatabaseAssumption ==
    /\ Clients \subseteq Nat
    /\ startPort \in Nat /\ endPort \in Nat
    /\ maxConnection \in Nat \ {0}
    /\ IsFiniteSet(WanAddrs) /\ undefined \notin WanAddrs

VARIABLES
    tcp_addrs, tcp_ports, tcp_clients, tcp_db, tcp_result,      \* tcpDB
    udp_addrs, udp_ports, udp_clients, udp_db, udp_result,      \* udpDB
    wan_addrs_list,         \* for each connected socket, the addresses it named
    natporte_message,       \* the part of a line that was read from each socket
    server,                 \* the callback that runs
    to_pool, to_nat,        \* the streams of each socket
    natporte,
    overlapped              \* history: since the pool was last empty, two
                            \* connections had addresses at a time

tcpVars == <<tcp_addrs, tcp_ports, tcp_clients, tcp_db, tcp_result>>
udpVars == <<udp_addrs, udp_ports, udp_clients, udp_db, udp_result>>
sessionVars == <<wan_addrs_list, natporte_message>>
vars == <<tcpVars, udpVars, sessionVars, server, to_pool, to_nat, natporte, overlapped>>

tcpDB ==
    INSTANCE Entry WITH pool_addrs <- tcp_addrs, pool_ports <- tcp_ports,
                        clients <- tcp_clients, db <- tcp_db, result <- tcp_result
udpDB ==
    INSTANCE Entry WITH pool_addrs <- udp_addrs, pool_ports <- udp_ports,
                        clients <- udp_clients, db <- udp_db, result <- udp_result

Entries == tcpDB!Entries

ASSUME ResultAssumption == undefined \notin Entries

NL == [type |-> "newline"]
Text(m) == <<m, NL>>

\* The strings between the newlines; the last one has no newline behind it.
split(stream) ==
    LET lines[i \in 0 .. Len(stream)] ==
          IF i = 0 THEN <<<<>>>>
          ELSE LET before == lines[i - 1] IN
               IF stream[i] = NL THEN Append(before, <<>>)
               ELSE [before EXCEPT ![Len(before)] = Append(@, stream[i])]
    IN lines[Len(stream)]

Idle == [pc |-> "idle", socket |-> undefined, lines |-> <<>>, addrs |-> <<>>]
Down == [socket |-> undefined, table |-> {}, awaited |-> <<>>, string_buffer |-> <<>>]

Init ==
    /\ tcpDB!Init /\ udpDB!Init
    /\ wan_addrs_list = << >>
    /\ natporte_message = [s \in Sockets |-> <<>>]
    /\ server = Idle
    /\ to_pool = [s \in Sockets |-> <<>>]
    /\ to_nat = [s \in Sockets |-> <<>>]
    /\ natporte = [p \in Natportes |-> Down]
    /\ overlapped = FALSE

Listed(s) == s \in DOMAIN wan_addrs_list

Connecting == [type |-> "connect"]
Events == {Connecting, [type |-> "end"], [type |-> "reset"]}
Ends == Events \ {Connecting}

\* The server has the connection, or the kernel keeps it for accept().
Open(s) == Listed(s) \/ (to_pool[s] # <<>> /\ Head(to_pool[s]) = Connecting)

-----------------------------------------------------------------------------
(* natporte *)

\* open_addrpool and addrpool_initialize
Start(p, s) ==
    /\ natporte[p] = Down
    /\ ~Open(s) /\ \A q \in Natportes : natporte[q].socket # s
    /\ natporte' = [natporte EXCEPT ![p].socket = s]
    /\ to_pool' = [to_pool EXCEPT ![s] =
                     <<Connecting>> \o Text([type |-> "initialize", wan_addrs |-> pool_addr[p]])]
    /\ to_nat' = [to_nat EXCEPT ![s] = <<>>]
    /\ UNCHANGED <<tcpVars, udpVars, sessionVars, server, overlapped>>

Orders(p) ==
    [type : {"request"}, protocol : Ordered[p], lan : Clients \X LanPorts]
    \cup {[type |-> "release", protocol |-> c.protocol, entry |-> c.entry] : c \in natporte[p].table}

\* The sender pushes the order to h_recv and sends it.
Order(p, m) ==
    /\ natporte[p] # Down
    /\ Len(natporte[p].awaited) < Outstanding[p]
    /\ natporte' = [natporte EXCEPT ![p].awaited = Append(@, m)]
    /\ to_pool' = [to_pool EXCEPT ![natporte[p].socket] =
                     IF Open(natporte[p].socket) THEN @ \o Text(m) ELSE @]
    /\ UNCHANGED <<tcpVars, udpVars, sessionVars, server, to_nat, overlapped>>

Initialize == [type |-> "initialize"]

\* What an answer does to the table: a mapping that is there is not replaced.
Applied(table, m) ==
    CASE m.type = "request_ack" ->
           IF \E c \in table :
                /\ c.protocol = m.protocol
                /\ \/ c.entry.lan_ip = m.entry.lan_ip /\ c.entry.lan_port = m.entry.lan_port
                   \/ c.entry.wan_ip = m.entry.wan_ip /\ c.entry.wan_port = m.entry.wan_port
           THEN table ELSE table \cup {[protocol |-> m.protocol, entry |-> m.entry]}
      [] m.type = "release_ack" -> table \ {[protocol |-> m.protocol, entry |-> m.entry]}
      [] m.type \in {"request_discard", "initialize"} -> table

\* Each answer but initialize pops its order from h_recv.
Handled(n, m) ==
    IF m = Initialize THEN n
    ELSE [n EXCEPT !.table = Applied(@, m), !.awaited = SubSeq(@, 2, Len(@))]

\* The lines that are complete are handled, and the rest is kept for the next
\* read.
Read(p, lines) ==
    LET handled[i \in 0 .. Len(lines) - 1] ==
          IF i = 0 THEN natporte[p] ELSE Handled(handled[i - 1], Head(lines[i]))
    IN natporte' = [natporte EXCEPT
                      ![p] = [handled[Len(lines) - 1] EXCEPT !.string_buffer = Last(lines)]]

Readable(stream) == {k \in 1 .. Len(stream) : \A i \in 1 .. k : stream[i] \notin Events}

Receive(p) ==
    /\ natporte[p] # Down
    /\ LET s == natporte[p].socket IN
         \E k \in Readable(to_nat[s]) :
           /\ Read(p, split(natporte[p].string_buffer \o SubSeq(to_nat[s], 1, k)))
           /\ to_nat' = [to_nat EXCEPT ![s] = SubSeq(@, k + 1, Len(@))]
    /\ UNCHANGED <<tcpVars, udpVars, sessionVars, server, to_pool, overlapped>>

\* natporte stops, by itself or because recv returned 0.  The kernel closes
\* the connection: in good order, or as broken if answers were not read or
\* are still to be written.
Exit(p) ==
    /\ natporte[p] # Down
    /\ natporte' = [natporte EXCEPT ![p] = Down]
    /\ LET s == natporte[p].socket IN
         /\ \E type \in {"end"} \cup (IF natporte[p].awaited \o to_nat[s] = <<>> THEN {} ELSE {"reset"}) :
              to_pool' = [to_pool EXCEPT ![s] = IF Open(s) THEN Append(@, [type |-> type]) ELSE @]
         /\ to_nat' = [to_nat EXCEPT ![s] = <<>>]
    /\ UNCHANGED <<tcpVars, udpVars, sessionVars, server, overlapped>>

-----------------------------------------------------------------------------
(* The server: a connection, and the lines that arrive *)

\* server_connect
Connect(s) ==
    /\ server = Idle
    /\ to_pool[s] # <<>> /\ Head(to_pool[s]) = Connecting
    /\ to_pool' = [to_pool EXCEPT ![s] = Tail(@)]
    /\ wan_addrs_list' = [t \in DOMAIN wan_addrs_list \cup {s} |->
                            IF t = s THEN <<>> ELSE wan_addrs_list[t]]
    /\ natporte_message' = [natporte_message EXCEPT ![s] = <<>>]
    /\ to_nat' = [to_nat EXCEPT ![s] = @ \o Text(Initialize)]
    /\ UNCHANGED <<tcpVars, udpVars, server, natporte, overlapped>>

\* Mutant: the text that was kept is put behind what arrives.
ServerData_Behind(s) ==
    /\ server = Idle /\ Listed(s)
    /\ \E k \in Readable(to_pool[s]) :
         LET lines == split(SubSeq(to_pool[s], 1, k) \o natporte_message[s]) IN
         /\ to_pool' = [to_pool EXCEPT ![s] = SubSeq(@, k + 1, Len(@))]
         /\ natporte_message' = [natporte_message EXCEPT ![s] = Last(lines)]
         /\ server' = [pc |-> "lines", socket |-> s, lines |-> Front(lines), addrs |-> <<>>]
    /\ UNCHANGED <<tcpVars, udpVars, wan_addrs_list, to_nat, natporte, overlapped>>

\* server_data, up to its loop.
ServerData(s) ==
    /\ server = Idle /\ Listed(s)
    /\ \E k \in Readable(to_pool[s]) :
         LET lines == split(natporte_message[s] \o SubSeq(to_pool[s], 1, k)) IN
         /\ to_pool' = [to_pool EXCEPT ![s] = SubSeq(@, k + 1, Len(@))]
         /\ natporte_message' = [natporte_message EXCEPT ![s] = Last(lines)]
         /\ server' = [pc |-> "lines", socket |-> s, lines |-> Front(lines), addrs |-> <<>>]
    /\ UNCHANGED <<tcpVars, udpVars, wan_addrs_list, to_nat, natporte, overlapped>>

LoopEnds ==
    /\ server.pc = "lines" /\ server.lines = <<>>
    /\ server' = Idle
    /\ UNCHANGED <<tcpVars, udpVars, sessionVars, to_pool, to_nat, natporte, overlapped>>

Line == Head(server.lines)
NextLine == server' = [server EXCEPT !.lines = Tail(@)]

\* JSON.parse or releaseConnection would throw: the line is no message, or a
\* release of a client without a key in db.  The model goes no further there.
Throws(line) ==
    \/ Len(line) # 1
    \/ /\ line[1].type = "release"
       /\ line[1].entry.lan_ip \notin (IF line[1].protocol = "TCP" THEN tcp_clients ELSE udp_clients)

Message == Line[1]
Handles(type) ==
    /\ server.pc = "lines" /\ server.lines # <<>>
    /\ ~Throws(Line) /\ Message.type = type

Answer(m) == to_nat' = [to_nat EXCEPT ![server.socket] = @ \o Text(m)]

RequestAnswer(protocol, lan, assigned) ==
    IF assigned = undefined THEN [type |-> "request_discard", protocol |-> protocol, lan |-> lan]
    ELSE [type |-> "request_ack", protocol |-> protocol, entry |-> assigned]

Request ==
    /\ Handles("request")
    /\ \/ /\ Message.protocol = "TCP"
          /\ tcpDB!AssignConnection(Message.lan[1], Message.lan[2])
          /\ Answer(RequestAnswer("TCP", Message.lan, tcp_result'))
          /\ UNCHANGED udpVars
       \/ /\ Message.protocol = "UDP"
          /\ udpDB!AssignConnection(Message.lan[1], Message.lan[2])
          /\ Answer(RequestAnswer("UDP", Message.lan, udp_result'))
          /\ UNCHANGED tcpVars
    /\ NextLine
    /\ UNCHANGED <<sessionVars, to_pool, natporte, overlapped>>

\* Mutant: the answer of a release that the database refuses is left out.
Release_OnlyKnown ==
    /\ Handles("release")
    /\ \/ Message.protocol = "TCP" /\ tcpDB!ReleaseConnection(Message.entry) /\ UNCHANGED udpVars
       \/ Message.protocol = "UDP" /\ udpDB!ReleaseConnection(Message.entry) /\ UNCHANGED tcpVars
    /\ IF Message.entry \in (tcp_db \cup udp_db)
       THEN Answer([type |-> "release_ack", protocol |-> Message.protocol, entry |-> Message.entry])
       ELSE UNCHANGED to_nat
    /\ NextLine
    /\ UNCHANGED <<sessionVars, to_pool, natporte, overlapped>>

\* A release is acknowledged whether or not there was such an entry.
Release ==
    /\ Handles("release")
    /\ \/ Message.protocol = "TCP" /\ tcpDB!ReleaseConnection(Message.entry) /\ UNCHANGED udpVars
       \/ Message.protocol = "UDP" /\ udpDB!ReleaseConnection(Message.entry) /\ UNCHANGED tcpVars
    /\ Answer([type |-> "release_ack", protocol |-> Message.protocol, entry |-> Message.entry])
    /\ NextLine
    /\ UNCHANGED <<sessionVars, to_pool, natporte, overlapped>>

Name ==
    /\ Handles("initialize")
    /\ server' = [server EXCEPT !.pc = "adding", !.addrs = Message.wan_addrs]
    /\ UNCHANGED <<tcpVars, udpVars, sessionVars, to_pool, to_nat, natporte, overlapped>>

\* addPoolAddresses skips an address it has.
AddAddress ==
    /\ server.pc = "adding" /\ server.addrs # <<>>
    /\ LET a == Head(server.addrs) IN
         /\ IF tcpDB!InPool(a) THEN UNCHANGED tcpVars ELSE tcpDB!AddPoolAddress(a)
         /\ IF udpDB!InPool(a) THEN UNCHANGED udpVars ELSE udpDB!AddPoolAddress(a)
    /\ server' = [server EXCEPT !.addrs = Tail(@)]
    /\ UNCHANGED <<sessionVars, to_pool, to_nat, natporte, overlapped>>

\* wan_addrs_list[socket_id] = wan_addrs; an initialize has no answer.
Named ==
    /\ server.pc = "adding" /\ server.addrs = <<>>
    /\ wan_addrs_list' = [wan_addrs_list EXCEPT ![server.socket] = Message.wan_addrs]
    /\ overlapped' = (overlapped \/ \E t \in DOMAIN wan_addrs_list : wan_addrs_list[t] # <<>>)
    /\ server' = [server EXCEPT !.pc = "lines", !.lines = Tail(@)]
    /\ UNCHANGED <<tcpVars, udpVars, natporte_message, to_pool, to_nat, natporte>>

-----------------------------------------------------------------------------
(* The end of a connection, and of the server *)

\* Mutant: the list of the connection is not deleted.
End_ListKept(s) ==
    /\ server = Idle /\ Listed(s)
    /\ to_pool[s] # <<>> /\ Head(to_pool[s]) = [type |-> "end"]
    /\ to_pool' = [to_pool EXCEPT ![s] = Tail(@)]
    /\ server' = [pc |-> "deleting", socket |-> s, lines |-> <<>>, addrs |-> wan_addrs_list[s]]
    /\ UNCHANGED <<tcpVars, udpVars, sessionVars, to_nat, natporte, overlapped>>

\* server_end, up to its loop.
End(s) ==
    /\ server = Idle /\ Listed(s)
    /\ to_pool[s] # <<>> /\ Head(to_pool[s]) = [type |-> "end"]
    /\ to_pool' = [to_pool EXCEPT ![s] = Tail(@)]
    /\ server' = [pc |-> "deleting", socket |-> s, lines |-> <<>>, addrs |-> wan_addrs_list[s]]
    /\ wan_addrs_list' = Restrict(wan_addrs_list, DOMAIN wan_addrs_list \ {s})
    /\ UNCHANGED <<tcpVars, udpVars, natporte_message, to_nat, natporte, overlapped>>

\* Mutant: the address is deleted whoever else has it.
ListedElsewhere_Ignored(a) == FALSE

ListedElsewhere(a) == \E t \in DOMAIN wan_addrs_list : a \in Range(wan_addrs_list[t])

DeleteAddress ==
    /\ server.pc = "deleting" /\ server.addrs # <<>>
    /\ LET a == Head(server.addrs) IN
         IF ListedElsewhere(a) \/ ~tcpDB!InPool(a) THEN UNCHANGED <<tcpVars, udpVars>>
         ELSE tcpDB!DelPoolAddress(a) /\ udpDB!DelPoolAddress(a)
    /\ server' = [server EXCEPT !.addrs = Tail(@)]
    /\ UNCHANGED <<sessionVars, to_pool, to_nat, natporte, overlapped>>

Ended ==
    /\ server.pc = "deleting" /\ server.addrs = <<>>
    /\ server' = Idle
    /\ overlapped' = (overlapped /\ tcp_addrs # <<>>)
    /\ UNCHANGED <<tcpVars, udpVars, sessionVars, to_pool, to_nat, natporte>>

\* A broken connection is an 'error' event that nobody listens to: node.js
\* exits, and "forever" starts pool_server anew with nothing in it.
ServerDies(s) ==
    /\ server = Idle /\ Listed(s)
    /\ [type |-> "reset"] \in Range(to_pool[s])
    /\ tcp_addrs' = <<>> /\ tcp_clients' = {} /\ tcp_db' = {} /\ tcp_result' = undefined
    /\ udp_addrs' = <<>> /\ udp_clients' = {} /\ udp_db' = {} /\ udp_result' = undefined
    /\ tcp_ports' = [a \in WanAddrs |-> <<>>] /\ udp_ports' = tcp_ports'
    /\ wan_addrs_list' = << >>
    /\ natporte_message' = [t \in Sockets |-> <<>>]
    /\ to_pool' = [t \in Sockets |-> <<>>]
    /\ overlapped' = FALSE
    /\ UNCHANGED <<server, to_nat, natporte>>

-----------------------------------------------------------------------------

Server ==
    \/ \E s \in Sockets : Connect(s) \/ ServerData(s) \/ End(s) \/ ServerDies(s)
    \/ LoopEnds \/ Request \/ Release
    \/ Name \/ AddAddress \/ Named
    \/ DeleteAddress \/ Ended

Natporte(p) ==
    \/ \E s \in Sockets : Start(p, s)
    \/ \E m \in Orders(p) : Order(p, m)
    \/ Receive(p)
    \/ Exit(p)

Next == Server \/ \E p \in Natportes : Natporte(p)

Spec == Init /\ [][Next]_vars

-----------------------------------------------------------------------------
(* Properties *)

Held == [protocol : Protocols, entry : Entries]

Connected(p) == natporte[p] # Down /\ Open(natporte[p].socket)

\* The types of both databases, and of the callback and the natportes: the
\* server runs one callback, for a connection that it has unless it is the
\* end of that connection (bin/pool_server:210-298).
TypeOK ==
    /\ tcpDB!TypeOK /\ udpDB!TypeOK
    /\ DOMAIN wan_addrs_list \subseteq Sockets
    /\ Range(wan_addrs_list) \subseteq Seq(WanAddrs)
    /\ server.pc \in {"idle", "lines", "adding", "deleting"}
    /\ server # Idle => (server.pc # "deleting" <=> Listed(server.socket))
    /\ \A p \in Natportes :
         /\ natporte[p].socket \in Sockets \cup {undefined}
         /\ natporte[p].table \subseteq Held

\* Between two callbacks both pools hold exactly the addresses of the
\* natportes that are connected, however connections overlap and whatever
\* order their ends are handled in (bin/pool_server:264-281, 392-406).
PoolFollowsSessions ==
    server = Idle =>
      /\ Range(tcp_addrs) = UNION {Range(wan_addrs_list[s]) : s \in DOMAIN wan_addrs_list}
      /\ udp_addrs = tcp_addrs

OfOrder(token) ==
    token.type \in {"request", "release", "request_ack", "request_discard", "release_ack"}

\* The orders and answers of a stream; initialize is neither.
Messages(stream) ==
    LET found[i \in 0 .. Len(stream)] ==
          IF i = 0 THEN <<>>
          ELSE IF OfOrder(stream[i]) THEN Append(found[i - 1], stream[i]) ELSE found[i - 1]
    IN found[Len(stream)]

\* The lines from s that the callback still has; an empty one has no text.
LinesOf(s) ==
    IF server.socket # s THEN <<>>
    ELSE [i \in DOMAIN server.lines |-> IF server.lines[i] = <<>> THEN NL ELSE Head(server.lines[i])]

\* What is on its way between natporte p and the server: the answers, the
\* lines the server works on, the line it has in part, and what it has not read.
OnTheWay(p) ==
    LET s == natporte[p].socket IN
    Messages(natporte[p].string_buffer \o to_nat[s] \o LinesOf(s) \o natporte_message[s] \o to_pool[s])

Matches(m, order) ==
    /\ m.protocol = order.protocol
    /\ CASE m.type \in {"request", "request_discard"} -> order.type = "request" /\ order.lan = m.lan
         [] m.type = "request_ack" ->
              order.type = "request" /\ order.lan = <<m.entry.lan_ip, m.entry.lan_port>>
         [] m.type \in {"release", "release_ack"} -> order.type = "release" /\ order.entry = m.entry

Paired(messages, orders) ==
    /\ Len(messages) = Len(orders)
    /\ \A i \in DOMAIN orders : Matches(messages[i], orders[i])

\* Every order has its one answer, in the order they were sent, through both
\* streams and however they are cut: a natporte pairs them by their places
\* alone (bin/pool_server:221-252, addrpool.h:144-166, 565-569).
EveryOrderAnswered ==
    \A p \in Natportes : Connected(p) => Paired(OnTheWay(p), natporte[p].awaited)

Partial(text) == Len(text) <= 1 /\ NL \notin Range(text)

\* No line is empty or two messages in one, no release names a client that
\* the server never had, and what a natporte keeps never begins with a
\* newline, which split() answers with no string at all (utils.hpp:399-402,
\* addrpool.h:148-150, 565, bin/pool_server:231, bin/entry.js:362-363).
EveryLineUnderstood ==
    /\ server.pc = "lines" => \A i \in DOMAIN server.lines : ~Throws(server.lines[i])
    /\ \A s \in Sockets : Partial(natporte_message[s])
    /\ \A p \in Natportes : Partial(natporte[p].string_buffer)

Holds(p, c) ==
    /\ Connected(p)
    /\ \/ c \in natporte[p].table
       \/ \E m \in Range(OnTheWay(p)) :
            m.type = "request_ack" /\ m.protocol = c.protocol /\ m.entry = c.entry

\* The connections of the server.
Connections == [protocol : {"TCP"}, entry : tcp_db] \cup [protocol : {"UDP"}, entry : udp_db]

\* A connection of the server is one that a natporte knows of, or the natporte
\* whose address it has is gone and the end of its connection is still to be
\* handled.  So the ports of a natporte that has gone come back, unless another
\* one was registered meanwhile: then nobody ever returns them
\* (bin/pool_server:264-281).
EntryHeld ==
    overlapped \/
    \A c \in Connections :
      \/ \E p \in Natportes : Holds(p, c)
      \/ \E s \in DOMAIN wan_addrs_list :
           c.entry.wan_ip \in Range(wan_addrs_list[s]) /\ Ends \cap Range(to_pool[s]) # {}
      \/ server.pc = "deleting" /\ c.entry.wan_ip \in Range(server.addrs)

-----------------------------------------------------------------------------
(* What makes the invariants inductive *)

OrderTexts ==
    [type : {"request"}, protocol : Protocols, lan : Clients \X LanPorts]
    \cup [type : {"release"}, protocol : Protocols, entry : Entries]
AnswerTexts ==
    [type : {"request_discard"}, protocol : Protocols, lan : Clients \X LanPorts]
    \cup [type : {"request_ack", "release_ack"}, protocol : Protocols, entry : Entries]

UpTexts == [type : {"initialize"}, wan_addrs : Seq(WanAddrs) \ {<<>>}] \cup OrderTexts
DownTexts == {Initialize} \cup AnswerTexts

Types ==
    /\ wan_addrs_list \in [DOMAIN wan_addrs_list -> Seq(WanAddrs)]
    /\ DOMAIN wan_addrs_list \subseteq Sockets
    /\ natporte_message \in [Sockets -> Seq(UpTexts)]
    /\ server \in [pc : {"idle", "lines", "adding", "deleting"}, socket : Sockets \cup {undefined},
                   lines : Seq(Seq(UpTexts)), addrs : Seq(WanAddrs)]
    /\ to_pool \in [Sockets -> Seq(UpTexts \cup {NL} \cup Events)]
    /\ to_nat \in [Sockets -> Seq(DownTexts \cup {NL})]
    /\ natporte \in [Natportes -> [socket : Sockets \cup {undefined}, table : SUBSET Held,
                                   awaited : Seq(OrderTexts), string_buffer : Seq(DownTexts)]]

\* The callback that runs is for a connection that the server has, or for the
\* end of one, and its lines are messages.
Callback ==
    /\ server.pc = "idle" => server = Idle
    /\ server.pc \in {"lines", "adding"} => Listed(server.socket)
    /\ server.pc = "deleting" => server.socket \in Sockets /\ ~Listed(server.socket) /\ server.lines = <<>>
    /\ server.pc = "adding" => server.lines # <<>> /\ Message.type = "initialize"
    /\ \A i \in DOMAIN server.lines : Len(server.lines[i]) = 1

\* Each natporte that runs has a socket of its own.
OwnSockets ==
    \A p \in Natportes :
      /\ natporte[p].socket = undefined => natporte[p] = Down
      /\ natporte[p].socket # undefined =>
           \A q \in Natportes : natporte[q].socket = natporte[p].socket => q = p

Even(n) == n % 2 = 0

\* Where in its line the next token of the stream is: 1 behind a text.
Phase(s) == IF Listed(s) THEN Len(natporte_message[s]) ELSE 1

\* What the server has not read of a connection: texts and newlines take
\* turns between the events.
Framed(s) ==
    /\ Len(natporte_message[s]) <= 1
    /\ ~Listed(s) => to_pool[s] = <<>> \/ to_pool[s][1] = Connecting
    /\ \A i \in DOMAIN to_pool[s] :
         /\ to_pool[s][i] = Connecting => i = 1 /\ ~Listed(s)
         /\ to_pool[s][i] \in Ends => i = Len(to_pool[s])
         /\ to_pool[s][i] \notin Events => (to_pool[s][i] = NL <=> Even(i + Phase(s)))

FramedToPool == \A s \in Sockets : Framed(s)

\* No message is cut while the natporte runs.
Whole(s) ==
    /\ Even(Len(to_pool[s]) + Phase(s))
    /\ \A i \in DOMAIN to_pool[s] : to_pool[s][i] \notin Ends

WholeToPool == \A p \in Natportes : Connected(p) => Whole(natporte[p].socket)

\* What a natporte keeps and what it has not read, likewise.
FramedAnswers(kept, stream) ==
    /\ Len(kept) <= 1
    /\ Even(Len(stream) + Len(kept))
    /\ \A i \in DOMAIN stream : stream[i] = NL <=> Even(i + Len(kept))

FramedToNat ==
    \A p \in Natportes : natporte[p] # Down =>
      FramedAnswers(natporte[p].string_buffer, to_nat[natporte[p].socket])

\* The initialize is the first message of a connection, and there is no other.
Unnamed(s) == wan_addrs_list[s] = <<>> /\ (server.socket = s => server.lines = <<>>)

FirstLine ==
    \A i \in DOMAIN server.lines : server.lines[i][1].type = "initialize" =>
      i = 1 /\ wan_addrs_list[server.socket] = <<>>
FirstKept(s) ==
    Listed(s) /\ natporte_message[s] # <<>> /\ natporte_message[s][1].type = "initialize" => Unnamed(s)
FirstUnread(s) ==
    \A i \in DOMAIN to_pool[s] : to_pool[s][i].type = "initialize" =>
      IF Listed(s) THEN i = 1 /\ natporte_message[s] = <<>> /\ Unnamed(s) ELSE i = 2

InitializeFirst == FirstLine /\ \A s \in Sockets : FirstKept(s) /\ FirstUnread(s)

\* Every client that is named in a release has a key in the db, from the
\* answer that the release is of.
Client(c) == c.entry.lan_ip \in (IF c.protocol = "TCP" THEN tcp_clients ELSE udp_clients)

Known(text, type) == \A i \in DOMAIN text : text[i].type = type => Client(text[i])

AnswersKnown(p) ==
    /\ \A c \in natporte[p].table : Client(c)
    /\ Known(natporte[p].string_buffer, "request_ack")
    /\ Known(to_nat[natporte[p].socket], "request_ack")

LinesKnown == \A i \in DOMAIN server.lines : Known(server.lines[i], "release")

ClientsKnown ==
    /\ LinesKnown
    /\ \A s \in Sockets : Known(to_pool[s], "release")
    /\ \A s \in Sockets : Listed(s) => Known(natporte_message[s], "release")
    /\ \A p \in Natportes : Connected(p) => AnswersKnown(p)

Lists == UNION {Range(wan_addrs_list[s]) : s \in DOMAIN wan_addrs_list}

\* The pool while addresses are added or deleted.
PoolInCallback ==
    /\ udp_addrs = tcp_addrs
    /\ server.pc \in {"idle", "lines"} => Range(tcp_addrs) = Lists
    /\ server.pc = "adding" =>
         Range(tcp_addrs) \cup Range(server.addrs) = Lists \cup Range(Message.wan_addrs)
    /\ server.pc = "deleting" =>
         Lists \subseteq Range(tcp_addrs) /\ Range(tcp_addrs) \subseteq Lists \cup Range(server.addrs)

SessionInv ==
    /\ tcpDB!IInv /\ udpDB!IInv
    /\ Types /\ Callback /\ OwnSockets
    /\ FramedToPool /\ WholeToPool /\ FramedToNat
    /\ InitializeFirst /\ ClientsKnown /\ PoolInCallback

\* The end of a connection stands behind a newline, so nothing is left of its
\* lines when it is handled.
EndFramed(s) ==
    /\ ~Listed(s) => natporte_message[s] = <<>>
    /\ \A i \in DOMAIN to_pool[s] : to_pool[s][i] \in Ends => ~Even(i + Phase(s))

EndsFramed == \A s \in Sockets : EndFramed(s)

\* The inductive invariant of EveryOrderAnswered.
OrdersInv == SessionInv /\ EndsFramed /\ EveryOrderAnswered

\* Until a connection has named its addresses, the next that the server hears
\* of it is that.
NextSaid(s) ==
    IF server.socket = s /\ server.lines # <<>> THEN server.lines[1][1].type
    ELSE IF natporte_message[s] # <<>> THEN natporte_message[s][1].type
    ELSE IF to_pool[s] # <<>> THEN to_pool[s][1].type ELSE "nothing"

NamesFirst(s) ==
    /\ Listed(s) /\ wan_addrs_list[s] = <<>> => NextSaid(s) = "initialize"
    /\ ~Listed(s) /\ to_pool[s] # <<>> => Len(to_pool[s]) >= 2 /\ to_pool[s][2].type = "initialize"

\* Each connection has its natporte, or its end is in the stream.
Attended(s) ==
    Open(s) => \/ \E p \in Natportes : natporte[p].socket = s
               \/ \E i \in DOMAIN to_pool[s] : to_pool[s][i] \in Ends

Registered(s) == Listed(s) /\ wan_addrs_list[s] # <<>>

\* One connection at most has addresses, if they never overlapped.
SoleList ==
    ~overlapped =>
      /\ \A s, t \in Sockets : Registered(s) /\ Registered(t) => s = t
      /\ server.pc = "deleting" /\ server.addrs # <<>> => \A s \in Sockets : ~Registered(s)

\* Nothing is assigned while addresses are added.
AddingEntries == server.pc = "adding" => \A c \in Connections : c.entry.wan_ip \in Lists

\* The table when the answers have been taken in, one after the other.
Replayed(table, answers) ==
    LET after[i \in 0 .. Len(answers)] ==
          IF i = 0 THEN table ELSE Applied(after[i - 1], answers[i])
    IN after[Len(answers)]

AnswersTo(p) == Messages(natporte[p].string_buffer \o to_nat[natporte[p].socket])

\* The answers that a natporte has not taken in lead from its table to the
\* connections of the server; before it has named its addresses it has none.
TableReplays(p) ==
    Connected(p) =>
      IF Registered(natporte[p].socket)
      THEN overlapped \/ Replayed(natporte[p].table, AnswersTo(p)) = Connections
      ELSE Replayed(natporte[p].table, AnswersTo(p)) = {}

\* The inductive invariant of EntryHeld.
HeldInv ==
    /\ SessionInv /\ SoleList /\ AddingEntries
    /\ \A s \in Sockets : NamesFirst(s) /\ Attended(s)
    /\ \A p \in Natportes : TableReplays(p)
=============================================================================
