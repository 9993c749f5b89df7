------------------------------- MODULE Alias --------------------------------
(***************************************************************************)
(* The translation of packets, src/src/alias.h: lan2wan_alias,             *)
(* wan2lan_alias, the checks and checksums they call, and the answer to a  *)
(* packet that is too big.                                                 *)
(*                                                                         *)
(* Each function is an operator from a packet to a verdict and the packet  *)
(* as it is left in the buffer.  The state is what survives a packet: the  *)
(* flags of the TCP node, and icmp_bucket, the one place where pings are   *)
(* remembered.  The table has one node for TCP and any for UDP; inserting  *)
(* and deleting nodes is the matter of Natporte.  flags and seen are       *)
(* TcpConnection's variables; pingers is a history variable, the hosts     *)
(* whose addresses were put into icmp_bucket.                              *)
(*                                                                         *)
(* A packet's rest is the sum of what the translation leaves alone: the    *)
(* payload, and of the headers all but addresses, ports and checksum.      *)
(***************************************************************************)
EXTENDS Checksum, FiniteSets, TcpState

CONSTANTS
    Table,                          \* the nodes
    lan_addr, wan_addr,             \* the addresses of both interfaces
    icmp_wan_addr,                  \* the source given to pings
    Private, ClassD, Local, Loopback,
    lan_if_mtu, wan_if_mtu, opt_nagete_df,
    LanPackets, WanPackets,         \* the packets that may arrive, with right checksums
    OtherPackets                    \* and those of any other interface

ALIAS_MIN_SIZE == 20

Endpoints == [ip : Addresses, port : Words]

PacketRecords ==
    [ip_v : Nat, size : Nat, df : BOOLEAN, ip_p : STRING, src : Addresses, sport : Words,
     dst : Addresses, dport : Words, flags : SUBSET Flags, type : STRING, rest : Nat, sum : Words,
     quote : [ip_p : STRING, src : Addresses, sport : Words, dst : Addresses, dport : Words]]

ASSUME PacketAssumption == LanPackets \cup WanPackets \cup OtherPackets \subseteq PacketRecords

\* Both trees have distinct keys, and a node has an address of the WAN side.
ASSUME TableAssumption ==
    \A m, n \in Table :
        /\ n.protocol \in {"TCP", "UDP"} /\ n.lan \in Endpoints /\ n.wan \in Endpoints
        /\ n.wan.ip \in wan_addr \ Private
        /\ m.protocol = n.protocol /\ (m.protocol = "TCP" \/ m.lan = n.lan \/ m.wan = n.wan) => m = n

\* The addresses of the WAN interface are such that hosts can send to them.
ASSUME InterfaceAssumption ==
    wan_addr \cap (lan_addr \cup Local \cup ClassD \cup Loopback \cup {0}) = {}

VARIABLES flags, seen, icmp_bucket, pingers

vars == <<flags, seen, icmp_bucket, pingers>>

Connection == INSTANCE TcpConnection

-----------------------------------------------------------------------------
(* Checksums of a packet *)

Sum(p) == AddressSum(p.src) + AddressSum(p.dst) + p.sport + p.dport + p.rest

checksum_transport(p) == checksum(Sum(p))

Transport(p) == p.ip_p \in {"TCP", "UDP"}

\* A datagram may come without a checksum: zero.
ASSUME ChecksumAssumption ==
    \A p \in LanPackets \cup WanPackets :
        Transport(p) /\ (p.ip_p = "UDP" => p.sum # 0) => SameChecksum(p.sum, checksum_transport(p))

-----------------------------------------------------------------------------
(* Checks *)

is_too_big(p, from) ==
    /\ p.df /\ ~opt_nagete_df
    /\ p.size > IF from = "L2W" THEN wan_if_mtu ELSE lan_if_mtu

chk_drop(p, from) ==
    \/ p.src = 0 \/ p.dst = 0
    \/ from = "L2W" /\ (p.src \notin Private \/ p.dst \in ClassD)
    \/ from = "W2L" /\ p.dst \in Local \cup ClassD \cup Loopback

chk_selfaddr(dst, from) == dst \in IF from = "L2W" THEN lan_addr ELSE wan_addr

Result(verdict, p) == [verdict |-> verdict, packet |-> p]

\* What both directions return before they look at the protocol.
Refused(p, from) ==
    IF p.size <= ALIAS_MIN_SIZE THEN "TOOSHORT"
    ELSE IF p.ip_v # 4 \/ chk_drop(p, from) THEN "DODROP"
    ELSE IF is_too_big(p, from) THEN "TOO_BIG"
    ELSE "NO"

find_l2w(ip_p, ip, port) ==
    {n \in Table : n.protocol = ip_p /\ n.lan = [ip |-> ip, port |-> port]}

\* Mutant: the tree is searched without the protocol.
find_w2l_AnyProtocol(ip_p, ip, port) == {n \in Table : n.wan = [ip |-> ip, port |-> port]}

find_w2l(ip_p, ip, port) ==
    {n \in Table : n.protocol = ip_p /\ n.wan = [ip |-> ip, port |-> port]}

-----------------------------------------------------------------------------
(* Translation *)

ToWan(p, n) ==
    [p EXCEPT !.src = n.wan.ip, !.sport = n.wan.port,
              !.sum = set_diff_checksum(@, n.lan.ip, n.lan.port, n.wan.ip, n.wan.port)]

ToLan(p, n) ==
    [p EXCEPT !.dst = n.lan.ip, !.dport = n.lan.port,
              !.sum = set_diff_checksum(@, n.wan.ip, n.wan.port, n.lan.ip, n.lan.port)]

Translated(verdict) == verdict \in {"DOALIAS", "DEL_TABLE"}

\* A segment is translated unless the connection is reset by it.
Segment(p, from, translation) ==
    LET verdict == Verdict(flags, p.flags, from) IN
    Result(verdict, IF Translated(verdict) THEN translation ELSE p)

Replies == {"ECHOREPLY", "TSTAMPREPLY"}
Errors == {"UNREACH", "SOURCEQUENCH", "TIMXCEED", "PARAMPROB"}

\* Mutant: the quoted packet is left as the WAN saw it.
Requoted_OuterOnly(p, n) == [p EXCEPT !.dst = n.lan.ip]

\* The quoted packet of an error about a translated packet.
Requoted(p, n) ==
    [p EXCEPT !.dst = n.lan.ip, !.quote.src = n.lan.ip, !.quote.sport = n.lan.port]

\* No node for a packet of the WAN: it is for this host or for nobody.
Unknown(p) == Result(IF chk_selfaddr(p.dst, "W2L") THEN "TO_ME" ELSE "NO_TABLE", p)

IcmpToLan(p) ==
    LET quoted == find_w2l(p.quote.ip_p, p.quote.src, p.quote.sport) IN
    CASE p.type \in Replies ->
           IF chk_selfaddr(icmp_bucket.local, "W2L") THEN Result("TO_ME", p)
           ELSE Result("DOALIAS", [p EXCEPT !.dst = icmp_bucket.local])
      [] p.type \in Errors /\ p.quote.ip_p = "ICMP" ->
           Result("DOALIAS", [p EXCEPT !.dst = icmp_bucket.local,
                                       !.quote.dst = icmp_bucket.local,
                                       !.quote.src = icmp_bucket.foreign])
      [] p.type \in Errors /\ p.quote.ip_p \in {"TCP", "UDP"} ->
           IF quoted = {} THEN Unknown(p)
           ELSE Result("DOALIAS", Requoted(p, CHOOSE n \in quoted : TRUE))
      [] OTHER -> Result("NOT_SUPPORT", p)

wan2lan_alias(p) ==
    LET found == find_w2l(p.ip_p, p.dst, p.dport)
        n == CHOOSE m \in found : TRUE
    IN IF Refused(p, "W2L") # "NO" THEN Result(Refused(p, "W2L"), p)
       ELSE CASE p.ip_p = "ICMP" -> IcmpToLan(p)
              [] Transport(p) /\ found = {} -> Unknown(p)
              [] p.ip_p = "TCP" /\ found # {} -> Segment(p, "W2L", ToLan(p, n))
              [] p.ip_p = "UDP" /\ found # {} -> Result("DOALIAS", ToLan(p, n))
              [] OTHER -> Result("NOT_SUPPORT", p)

\* A datagram to an address of this host is first tried as one of the WAN.
Hairpin(p) ==
    IF chk_selfaddr(p.dst, "L2W") THEN wan2lan_alias(p) ELSE Result("DOALIAS", p)

UdpToWan(p) ==
    LET found == find_l2w("UDP", p.src, p.sport)
        inner == Hairpin(p)
    IN CASE inner.verdict # "DOALIAS" -> Result("TO_ME", inner.packet)
         [] inner.verdict = "DOALIAS" /\ found = {} -> Result("NO_TABLE", inner.packet)
         [] OTHER -> Result("DOALIAS", ToWan(inner.packet, CHOOSE n \in found : TRUE))

TcpToWan(p) ==
    LET found == find_l2w("TCP", p.src, p.sport) IN
    CASE chk_selfaddr(p.dst, "L2W") -> Result("TO_ME", p)
      [] ~chk_selfaddr(p.dst, "L2W") /\ found = {} ->
           Result(IF p.flags = {"SYN"} THEN "NO_TABLE" ELSE "DODROP", p)
      [] OTHER -> Segment(p, "L2W", ToWan(p, CHOOSE n \in found : TRUE))

IcmpToWan(p) ==
    CASE p.type \notin {"ECHO", "TSTAMPREPLY"} -> Result("NOT_SUPPORT", p)
      [] p.type \in {"ECHO", "TSTAMPREPLY"} /\ chk_selfaddr(p.dst, "L2W") -> Result("TO_ME", p)
      [] OTHER -> Result("DOALIAS", [p EXCEPT !.src = icmp_wan_addr])

lan2wan_alias(p) ==
    IF Refused(p, "L2W") # "NO" THEN Result(Refused(p, "L2W"), p)
    ELSE CASE p.ip_p = "TCP" -> TcpToWan(p)
           [] p.ip_p = "UDP" -> UdpToWan(p)
           [] p.ip_p = "ICMP" -> IcmpToWan(p)
           [] OTHER -> Result("NOT_SUPPORT", p)

-----------------------------------------------------------------------------
(* Steps: the packets that leave something behind *)

Init ==
    /\ Connection!Init
    /\ icmp_bucket = [local |-> 0, foreign |-> 0]
    /\ pingers = {}

ReachesNode(p, from) ==
    /\ p.ip_p = "TCP" /\ Refused(p, from) = "NO"
    /\ IF from = "L2W"
       THEN ~chk_selfaddr(p.dst, from) /\ find_l2w("TCP", p.src, p.sport) # {}
       ELSE find_w2l("TCP", p.dst, p.dport) # {}

LanSegment(p) ==
    /\ ReachesNode(p, "L2W")
    /\ Connection!Segment("L2W", p.flags)
    /\ UNCHANGED <<icmp_bucket, pingers>>

WanSegment(p) ==
    /\ ReachesNode(p, "W2L")
    /\ Connection!Segment("W2L", p.flags)
    /\ UNCHANGED <<icmp_bucket, pingers>>

\* Mutant: the two addresses are exchanged.
Remember_Swapped(p) ==
    /\ icmp_bucket' = [local |-> p.dst, foreign |-> p.src]
    /\ pingers' = pingers \cup {p.src}
    /\ UNCHANGED <<flags, seen>>

Remember(p) ==
    /\ icmp_bucket' = [local |-> p.src, foreign |-> p.dst]
    /\ pingers' = pingers \cup {p.src}
    /\ UNCHANGED <<flags, seen>>

LanPing(p) ==
    /\ p.ip_p = "ICMP" /\ lan2wan_alias(p).verdict = "DOALIAS"
    /\ Remember(p)

\* other_if_check, for a packet of neither interface.
OtherIcmp(p) == p.ip_p = "ICMP" /\ Remember(p)

Next ==
    \/ \E p \in LanPackets : LanSegment(p) \/ LanPing(p)
    \/ \E p \in WanPackets : WanSegment(p)
    \/ \E p \in OtherPackets : OtherIcmp(p)

Spec == Init /\ [][Next]_vars

-----------------------------------------------------------------------------
(* Properties *)

\* The types; tcp_state_check returns one of the twelve S_TF_ states.
TypeOK ==
    /\ Connection!TypeOK
    /\ icmp_bucket \in [local : Addresses, foreign : Addresses]
    /\ pingers \subseteq Addresses

\* TcpConnection's properties of the node (alias.h:141-505, 844-909,
\* 1128-1202), under the segments that get through the checks.
OrderlyClose == Connection!OrderlyClose
HandshakeFirst == Connection!HandshakeFirst
NeverBack == Connection!NeverBack

Endpoint(p, side) ==
    IF side = "L2W" THEN [ip |-> p.src, port |-> p.sport] ELSE [ip |-> p.dst, port |-> p.dport]

\* The sum of an address and a port leaves the two words that are read.
CarryLost(endpoint) == endpoint.ip + endpoint.port >= B * B

\* A translated packet has the checksum that a full computation would give,
\* but for exactly one case: the old endpoint or the new one carries out of
\* the 32 bits to which diff_checksum looks, and the other does not.
\* (A datagram without a checksum gets one, which is not looked at here.)
\* (alias.h:507-530, 612-663, compared in test/test_diff_checksum.c)
ChecksumKept ==
    LET Kept(p, out, side) ==
          SameChecksum(out.sum, checksum_transport(out))
            <=> (CarryLost(Endpoint(p, side)) <=> CarryLost(Endpoint(out, side)))
        Summed(p, result) ==
          Transport(p) /\ Translated(result.verdict) /\ (p.ip_p = "UDP" => p.sum # 0)
    IN /\ \A p \in LanPackets :
            Summed(p, lan2wan_alias(p)) => Kept(p, lan2wan_alias(p).packet, "L2W")
       /\ \A p \in WanPackets :
            Summed(p, wan2lan_alias(p)) => Kept(p, wan2lan_alias(p).packet, "W2L")

Reply(p) ==
    [p EXCEPT !.src = p.dst, !.dst = p.src, !.sport = p.dport, !.dport = p.sport, !.df = FALSE]

\* A translated packet hides the host of the LAN, and what the remote host
\* sends back to the address and port it saw returns to the host and port
\* that sent the packet, whatever other protocol uses the same numbers and
\* also by the way of the hairpin (alias.h:826-949, 1096-1262).
RoundTrip ==
    \A p \in LanPackets :
      LET out == lan2wan_alias(p)
          back == wan2lan_alias(Reply(out.packet))
      IN Translated(out.verdict) /\ Transport(p) =>
           /\ out.packet.src \in wan_addr \ Private
           /\ p.ip_p = "UDP" => back.verdict = "DOALIAS"
           /\ Translated(back.verdict) =>
                Endpoint(back.packet, "W2L") = Endpoint(p, "L2W") /\ back.packet.src = p.dst

Quote(p) == [ip_p |-> p.ip_p, src |-> p.src, sport |-> p.sport, dst |-> p.dst, dport |-> p.dport]

\* A router's error about a translated packet reaches the host that sent it,
\* and quotes the packet as that host knows it (alias.h:970-1026).
ErrorReturns ==
    \A p \in LanPackets : \A e \in {q \in WanPackets : q.ip_p = "ICMP" /\ q.type \in Errors} :
      LET out == lan2wan_alias(p)
          error == [e EXCEPT !.dst = out.packet.src, !.quote = Quote(out.packet)]
          back == wan2lan_alias(error)
      IN Translated(out.verdict) /\ Transport(p) /\ Refused(error, "W2L") = "NO" =>
           back.verdict = "DOALIAS" /\ back.packet.dst = p.src /\ back.packet.quote = Quote(p)

\* All pings share one icmp_bucket.  While a single host has pinged, every
\* answer and every error about a ping goes to that host; a second one takes
\* the answers of the first (alias.h:783-792, 957-968, 1027-1036, 1270-1282).
OnePingerAnswered ==
    \A p \in WanPackets :
      LET out == wan2lan_alias(p) IN
      /\ p.ip_p = "ICMP" /\ out.verdict = "DOALIAS"
      /\ p.type \in Replies \/ p.quote.ip_p = "ICMP"
      /\ Cardinality(pingers) = 1
      => out.packet.dst \in pingers
=============================================================================
