------------------------------- MODULE MCTcp --------------------------------
(***************************************************************************)
(* An instance of Alias with words of two bits, so addresses of four.  The *)
(* TCP node gets every set of flags from either side.  One UDP node has    *)
(* its LAN endpoint, another its WAN endpoint; the latter has the highest  *)
(* address, 15, where adding the port carries out of the two words.        *)
(***************************************************************************)
EXTENDS Alias

MCTable ==
    {[protocol |-> "TCP", lan |-> [ip |-> 2, port |-> 3], wan |-> [ip |-> 9, port |-> 1]],
     [protocol |-> "UDP", lan |-> [ip |-> 2, port |-> 3], wan |-> [ip |-> 9, port |-> 2]],
     [protocol |-> "UDP", lan |-> [ip |-> 15, port |-> 3], wan |-> [ip |-> 9, port |-> 1]],
     [protocol |-> "UDP", lan |-> [ip |-> 14, port |-> 1], wan |-> [ip |-> 9, port |-> 3]]}

NoQuote == [ip_p |-> "none", src |-> 0, sport |-> 0, dst |-> 0, dport |-> 0]

\* A packet with the right checksum.
Summed(p) == IF Transport(p) THEN [p EXCEPT !.sum = checksum_transport(p)] ELSE p

Packet(ip_p, src, sport, dst, dport, pflag, type, rest) ==
    Summed([ip_v |-> 4, size |-> 40, df |-> FALSE, ip_p |-> ip_p, src |-> src, sport |-> sport,
            dst |-> dst, dport |-> dport, flags |-> pflag, type |-> type, rest |-> rest,
            sum |-> 0, quote |-> NoQuote])

Segments ==
    {Packet("TCP", 2, 3, 6, 1, f, "none", 0) : f \in SUBSET Flags}
    \cup {Packet("TCP", 2, 3, dst, 2, {"ACK"}, "none", r) : dst \in {3, 6}, r \in Words}
    \cup {Packet("TCP", 2, 1, 6, 2, f, "none", 1) : f \in {{"SYN"}, {"ACK"}}}

Datagrams ==
    {Packet("UDP", src, sport, dst, 2, {}, "none", r) :
        src \in {2, 14, 15}, sport \in {1, 3}, dst \in {3, 6}, r \in Words}

Pings ==
    {Packet("ICMP", src, 0, dst, 0, {}, type, 0) :
        src \in {2, 15}, dst \in {3, 6, 7}, type \in {"ECHO", "ECHOREPLY", "TSTAMPREPLY"}}

\* One packet for each reason not to look at a packet.
Odd(p) ==
    {[p EXCEPT !.size = 20], [p EXCEPT !.ip_v = 6],
     Summed([p EXCEPT !.src = 0]), Summed([p EXCEPT !.dst = 12]),
     [p EXCEPT !.size = 1500, !.df = TRUE], [p EXCEPT !.ip_p = "GRE"]}

MCLanPackets ==
    Segments \cup Datagrams \cup Pings \cup Odd(Packet("UDP", 2, 3, 6, 1, {}, "none", 0))

Answers ==
    {Packet("TCP", 6, 1, 9, 1, f, "none", 0) : f \in SUBSET Flags}
    \cup {Packet(ip_p, 6, 1, 9, dport, {"ACK"}, "none", r) :
            ip_p \in {"TCP", "UDP"}, dport \in Words, r \in Words}

IcmpAnswers ==
    {Packet("ICMP", 6, 0, 9, 0, {}, type, 0) : type \in Replies \cup Errors \cup {"ECHO"}}

MCWanPackets ==
    Answers \cup IcmpAnswers
    \cup {[p EXCEPT !.quote.ip_p = "ICMP", !.quote.src = 9, !.quote.dst = 6] : p \in IcmpAnswers}
    \cup Odd(Packet("UDP", 6, 1, 9, 1, {}, "none", 0))

\* A ping of this host itself.
MCOtherPackets == {Packet("ICMP", 9, 0, 6, 0, {}, "ECHO", 0), Packet("UDP", 9, 0, 6, 0, {}, "none", 0)}
=============================================================================
