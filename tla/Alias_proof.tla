---------------------------- MODULE Alias_proof ----------------------------
(***************************************************************************)
(* The translation for any table, interfaces and packets.                  *)
(*                                                                         *)
(* A connection opens by a handshake and closes in order because each      *)
(* branch of tcp_state_check that moves it on asks for the flag, and       *)
(* because the wait states belong to the side whose FIN is still missing.  *)
(* What a packet is translated to leads back to it because the keys of the *)
(* nodes are distinct and no address of the WAN is one of the LAN.         *)
(***************************************************************************)
EXTENDS Alias, Checksum_proof, FiniteSetTheorems

-----------------------------------------------------------------------------
(* The states *)

\* The inductive invariant of the flags and of icmp_bucket.
BucketInv == pingers # {} => icmp_bucket.local \in pingers

IInv == TypeOK /\ OrderlyClose /\ HandshakeFirst /\ BucketInv

\* One branch of tcp_state_check, and of AfterFin and Opening below it.
LEMMA CheckResult ==
  ASSUME NEW tflag \in Connection!TcpStates, NEW pflag, NEW from \in Connection!Directions
  PROVE  LET next == Connection!NewFlags(tflag, pflag, from)
             other == Connection!Opposite(from)
         IN
         \/ next = tflag
         \/ next = "RESET" /\ "RST" \in pflag
         \/ next = "UNKNOWN" /\ tflag \notin Connection!Final
         \/ next = "SYNACK_RECIVED" /\ tflag = "SYN_SENT"
         \/ next = "ESTABLISHED" /\ tflag = "SYNACK_RECIVED" /\ {"SYN", "ACK"} \subseteq pflag
         \/ next = Connection!FIN_WAIT[other] /\ tflag = "ESTABLISHED" /\ "FIN" \in pflag
         \/ next = Connection!FINACK_WAIT[from] /\ tflag = Connection!FIN_WAIT[from]
         \/ /\ next = Connection!CLOSING[other] /\ "FIN" \in pflag
            /\ tflag \in {Connection!FIN_WAIT[from], Connection!FINACK_WAIT[from]}
         \/ next = "CLOSED" /\ tflag = Connection!CLOSING[from]
BY DEF Connection!NewFlags, Connection!tcp_state_check, Connection!AfterFin, Connection!Opening,
       Connection!TcpStates, Connection!Directions, Connection!Opposite, Connection!WaitStates,
       Connection!FIN_WAIT, Connection!FINACK_WAIT, Connection!CLOSING, Connection!Final

LEMMA NewFlagsType ==
  ASSUME NEW tflag \in Connection!TcpStates, NEW pflag, NEW from \in Connection!Directions
  PROVE  Connection!NewFlags(tflag, pflag, from) \in Connection!TcpStates
BY CheckResult
DEF Connection!TcpStates, Connection!Directions, Connection!Opposite, Connection!WaitStates,
    Connection!FIN_WAIT, Connection!FINACK_WAIT, Connection!CLOSING

\* A segment, from either side.
LEMMA SegmentStep ==
  ASSUME Connection!TypeOK, OrderlyClose, HandshakeFirst,
         NEW from \in Connection!Directions, NEW pflag \in SUBSET Connection!Flags,
         Connection!Segment(from, pflag)
  PROVE  Connection!TypeOK' /\ OrderlyClose' /\ HandshakeFirst'
<1> DEFINE other == Connection!Opposite(from)
           next == Connection!NewFlags(flags, pflag, from)
<1>1. /\ flags \in Connection!TcpStates /\ flags' = next
      /\ seen' = seen \cup ({from} \X Connection!Noted(pflag))
  BY DEF Connection!Segment, Connection!TypeOK
<1>2. Connection!TypeOK'
  <2>1. flags' \in Connection!TcpStates
    BY <1>1, NewFlagsType
  <2>2. Connection!Noted(pflag) \subseteq Connection!Flags \cup {"SYN+ACK"}
    BY DEF Connection!Noted
  <2> QED
    BY <1>1, <2>1, <2>2 DEF Connection!TypeOK
<1>3. /\ \A side, flag : <<side, flag>> \in seen => <<side, flag>> \in seen'
      /\ \A flag \in pflag : <<from, flag>> \in seen'
      /\ {"SYN", "ACK"} \subseteq pflag => <<from, "SYN+ACK">> \in seen'
  BY <1>1 DEF Connection!Noted
<1>4. OrderlyClose'
  BY <1>1, <1>3, CheckResult
  DEF OrderlyClose, Connection!OrderlyClose, Connection!FinFrom, Connection!TcpStates,
      Connection!Directions, Connection!Opposite, Connection!WaitStates,
      Connection!FIN_WAIT, Connection!FINACK_WAIT, Connection!CLOSING
<1>5. HandshakeFirst'
  BY <1>1, <1>3, CheckResult
  DEF HandshakeFirst, Connection!HandshakeFirst, Connection!TcpStates,
      Connection!Directions, Connection!Opposite, Connection!WaitStates,
      Connection!FIN_WAIT, Connection!FINACK_WAIT, Connection!CLOSING
<1> QED
  BY <1>2, <1>4, <1>5

\* A segment never takes a connection back.
LEMMA SegmentForward ==
  ASSUME Connection!TypeOK, NEW from \in Connection!Directions, NEW pflag, Connection!Segment(from, pflag)
  PROVE  /\ Connection!Stage[flags'] >= Connection!Stage[flags]
         /\ \A side \in Connection!Directions :
              /\ flags \in Connection!WaitStates(side)
              /\ flags' \in Connection!WaitStates(Connection!Opposite(side))
              => flags' = Connection!CLOSING[Connection!Opposite(side)]
<1>1. flags \in Connection!TcpStates /\ flags' = Connection!NewFlags(flags, pflag, from)
  BY DEF Connection!Segment, Connection!TypeOK
<1>2. flags' \in Connection!TcpStates
  BY <1>1, NewFlagsType
<1>3. Connection!Stage[flags'] >= Connection!Stage[flags]
  BY <1>1, <1>2, CheckResult
  DEF Connection!Stage, Connection!TcpStates, Connection!Directions, Connection!Opposite,
      Connection!WaitStates, Connection!FIN_WAIT, Connection!FINACK_WAIT, Connection!CLOSING,
      Connection!Final
<1>4. ASSUME NEW side \in Connection!Directions, flags \in Connection!WaitStates(side),
             flags' \in Connection!WaitStates(Connection!Opposite(side))
      PROVE  flags' = Connection!CLOSING[Connection!Opposite(side)]
  BY <1>1, <1>4, CheckResult
  DEF Connection!TcpStates, Connection!Directions, Connection!Opposite,
      Connection!WaitStates, Connection!FIN_WAIT, Connection!FINACK_WAIT, Connection!CLOSING
<1> QED
  BY <1>3, <1>4

LEMMA InitIInv == Init => IInv
<1>1. 0 \in Addresses
  <2>1. B * B \in Nat /\ B * B >= 2 * B
    BY BaseAssumption
  <2> QED
    BY <2>1, BaseAssumption DEF Addresses
<1> QED
  BY <1>1
  DEF Init, IInv, TypeOK, OrderlyClose, HandshakeFirst, BucketInv, Connection!Init, Connection!TypeOK,
      Connection!OrderlyClose, Connection!HandshakeFirst, Connection!TcpStates,
      Connection!Directions, Connection!WaitStates, Connection!FIN_WAIT,
      Connection!FINACK_WAIT, Connection!CLOSING

\* Every step is a segment of the node or a ping.
LEMMA StepKind ==
  ASSUME Next
  PROVE  \/ \E from \in Connection!Directions, pflag \in SUBSET Connection!Flags :
              Connection!Segment(from, pflag) /\ UNCHANGED <<icmp_bucket, pingers>>
         \/ \E p \in LanPackets \cup OtherPackets : Remember(p)
<1>1. ASSUME NEW p \in LanPackets \cup WanPackets PROVE p.flags \in SUBSET Connection!Flags
  BY PacketAssumption DEF PacketRecords, Flags, Connection!Flags
<1>2. "L2W" \in Connection!Directions /\ "W2L" \in Connection!Directions
  BY DEF Connection!Directions
<1>3. CASE \E p \in LanPackets : LanSegment(p)
  BY <1>1, <1>2, <1>3 DEF LanSegment
<1>4. CASE \E p \in WanPackets : WanSegment(p)
  BY <1>1, <1>2, <1>4 DEF WanSegment
<1>5. CASE \E p \in LanPackets : LanPing(p)
  BY <1>5 DEF LanPing
<1>6. CASE \E p \in OtherPackets : OtherIcmp(p)
  BY <1>6 DEF OtherIcmp
<1> QED
  BY <1>3, <1>4, <1>5, <1>6 DEF Next

LEMMA NextIInv == IInv /\ [Next]_vars => IInv'
<1> SUFFICES ASSUME IInv, [Next]_vars PROVE IInv'
  OBVIOUS
<1>1. CASE UNCHANGED vars
  BY <1>1 DEF vars, IInv, TypeOK, OrderlyClose, HandshakeFirst, BucketInv, Connection!TypeOK,
     Connection!OrderlyClose, Connection!HandshakeFirst, Connection!FinFrom
<1>2. ASSUME NEW from \in Connection!Directions, NEW pflag \in SUBSET Connection!Flags,
             Connection!Segment(from, pflag), UNCHANGED <<icmp_bucket, pingers>>
      PROVE  IInv'
  <2>1. Connection!TypeOK' /\ OrderlyClose' /\ HandshakeFirst'
    BY <1>2, SegmentStep DEF IInv, TypeOK
  <2> QED
    BY <1>2, <2>1 DEF IInv, TypeOK, BucketInv
<1>3. ASSUME NEW p \in LanPackets \cup OtherPackets, Remember(p)
      PROVE  IInv'
  <2>1. p.src \in Addresses /\ p.dst \in Addresses
    BY PacketAssumption DEF PacketRecords
  <2>2. TypeOK' /\ BucketInv'
    BY <1>3, <2>1 DEF Remember, IInv, TypeOK, BucketInv, Connection!TypeOK
  <2> QED
    BY <1>3, <2>2 DEF Remember, IInv, OrderlyClose, HandshakeFirst, Connection!OrderlyClose,
       Connection!HandshakeFirst, Connection!FinFrom
<1>4. CASE Next
  BY <1>2, <1>3, <1>4, StepKind
<1> QED
  BY <1>1, <1>4

THEOREM Invariance == Spec => []IInv
<1>1. Init => IInv
  BY InitIInv
<1>2. IInv /\ [Next]_vars => IInv'
  BY NextIInv
<1> QED
  BY <1>1, <1>2, PTL DEF Spec

\* tcp_state_check returns one of the states for every segment that gets
\* through the checks, and icmp_bucket holds addresses (alias.h:141-505).
THEOREM TypeCorrect == Spec => []TypeOK
<1>1. IInv => TypeOK
  BY DEF IInv
<1> QED
  BY <1>1, Invariance, PTL

\* No side's FIN is missing when a connection is taken for closed
\* (alias.h:141-489).
THEOREM ClosesInOrder == Spec => []OrderlyClose
<1>1. IInv => OrderlyClose
  BY DEF IInv
<1> QED
  BY <1>1, Invariance, PTL

\* No connection is established without a SYN with an ACK, none is reset
\* without a RST (alias.h:169-202, 346-379).
THEOREM OpensByHandshake == Spec => []HandshakeFirst
<1>1. IInv => HandshakeFirst
  BY DEF IInv
<1> QED
  BY <1>1, Invariance, PTL

\* No segment takes a connection back (alias.h:141-505).
THEOREM Forward == Spec => NeverBack
<1>1. IInv /\ [Next]_vars =>
        [/\ Connection!Stage[flags'] >= Connection!Stage[flags]
         /\ \A side \in Connection!Directions :
              flags \in Connection!WaitStates(side)
              /\ flags' \in Connection!WaitStates(Connection!Opposite(side))
              => flags' = Connection!CLOSING[Connection!Opposite(side)]]_<<flags, seen>>
  <2> SUFFICES ASSUME IInv, Next, ~UNCHANGED <<flags, seen>>
               PROVE  /\ Connection!Stage[flags'] >= Connection!Stage[flags]
                      /\ \A side \in Connection!Directions :
                           flags \in Connection!WaitStates(side)
                           /\ flags' \in Connection!WaitStates(Connection!Opposite(side))
                           => flags' = Connection!CLOSING[Connection!Opposite(side)]
    BY DEF vars
  <2>1. PICK from \in Connection!Directions, pflag \in SUBSET Connection!Flags :
          Connection!Segment(from, pflag)
    BY StepKind DEF Remember
  <2> QED
    BY <2>1, SegmentForward DEF IInv, TypeOK
<1> QED
  BY <1>1, Invariance, PTL DEF Spec, NeverBack, Connection!NeverBack, Connection!vars

-----------------------------------------------------------------------------
(* What comes back *)

LEMMA PacketType ==
  ASSUME NEW p \in LanPackets \cup WanPackets
  PROVE  p \in PacketRecords
BY PacketAssumption

LEMMA NodeType ==
  ASSUME NEW n \in Table
  PROVE  /\ n.protocol \in {"TCP", "UDP"} /\ n.lan \in Endpoints /\ n.wan \in Endpoints
         /\ n.wan.ip \in wan_addr \ Private
BY TableAssumption

\* The WAN endpoint of a node leads back to the node.
LEMMA FoundBack ==
  ASSUME NEW n \in Table
  PROVE  find_w2l(n.protocol, n.wan.ip, n.wan.port) = {n}
<1>1. n.wan = [ip |-> n.wan.ip, port |-> n.wan.port]
  BY NodeType DEF Endpoints
<1>2. \A m \in Table : m.protocol = n.protocol /\ m.wan = n.wan => m = n
  BY TableAssumption
<1> QED
  BY <1>1, <1>2 DEF find_w2l

\* A datagram to this host is not translated: no node has an address of the
\* LAN interface for its WAN side.
LEMMA NoHairpin ==
  ASSUME NEW p \in LanPackets, p.ip_p = "UDP", Hairpin(p).verdict = "DOALIAS"
  PROVE  Hairpin(p).packet = p
<1>1. CASE chk_selfaddr(p.dst, "L2W")
  <2>1. p.dst \in lan_addr
    BY <1>1 DEF chk_selfaddr
  <2>2. find_w2l("UDP", p.dst, p.dport) = {}
    BY <2>1, NodeType, InterfaceAssumption DEF find_w2l
  <2>3. wan2lan_alias(p).verdict # "DOALIAS"
    BY <2>2 DEF wan2lan_alias, Refused, Result, Unknown, Transport
  <2> QED
    BY <1>1, <2>3 DEF Hairpin
<1>2. CASE ~chk_selfaddr(p.dst, "L2W")
  BY <1>2 DEF Hairpin, Result
<1> QED
  BY <1>1, <1>2

\* What becomes of a TCP or UDP packet of the LAN that is translated.
LEMMA TranslatedOut ==
  ASSUME NEW p \in LanPackets, Transport(p), Translated(lan2wan_alias(p).verdict)
  PROVE  /\ Refused(p, "L2W") = "NO"
         /\ \E n \in Table :
              /\ n.protocol = p.ip_p /\ n.lan = [ip |-> p.src, port |-> p.sport]
              /\ lan2wan_alias(p).packet = ToWan(p, n)
<1>1. Refused(p, "L2W") = "NO"
  BY DEF lan2wan_alias, Refused, Result, Translated
<1>2. CASE p.ip_p = "TCP"
  <2> DEFINE found == find_l2w("TCP", p.src, p.sport)
             n == CHOOSE m \in found : TRUE
  <2>1. lan2wan_alias(p) = TcpToWan(p)
    BY <1>1, <1>2 DEF lan2wan_alias
  <2>2. ~chk_selfaddr(p.dst, "L2W") /\ found # {}
    BY <2>1 DEF TcpToWan, Result, Translated
  <2>3. lan2wan_alias(p) = Segment(p, "L2W", ToWan(p, n))
    BY <2>1, <2>2 DEF TcpToWan
  <2>4. lan2wan_alias(p).packet = ToWan(p, n)
    BY <2>3 DEF Segment, Result, Translated
  <2>5. n \in found
    BY <2>2
  <2> QED
    BY <1>1, <1>2, <2>4, <2>5 DEF find_l2w
<1>3. CASE p.ip_p = "UDP"
  <2> DEFINE found == find_l2w("UDP", p.src, p.sport)
             n == CHOOSE m \in found : TRUE
  <2>1. lan2wan_alias(p) = UdpToWan(p)
    BY <1>1, <1>3 DEF lan2wan_alias
  <2>2. Hairpin(p).verdict = "DOALIAS" /\ found # {}
    BY <2>1 DEF UdpToWan, Result, Translated
  <2>3. lan2wan_alias(p) = Result("DOALIAS", ToWan(p, n))
    BY <1>3, <2>1, <2>2, NoHairpin DEF UdpToWan
  <2>4. lan2wan_alias(p).packet = ToWan(p, n)
    BY <2>3 DEF Result
  <2>5. n \in found
    BY <2>2
  <2> QED
    BY <1>1, <1>3, <2>4, <2>5 DEF find_l2w
<1> QED
  BY <1>1, <1>2, <1>3 DEF Transport

\* A translated packet comes from the node's WAN endpoint.
LEMMA ToWanFields ==
  ASSUME NEW p \in PacketRecords, NEW n \in Table
  PROVE  LET out == ToWan(p, n) IN
         /\ out.src = n.wan.ip /\ out.sport = n.wan.port
         /\ out.dst = p.dst /\ out.dport = p.dport /\ out.ip_p = p.ip_p
         /\ out.ip_v = p.ip_v /\ out.size = p.size /\ out.flags = p.flags
         /\ DOMAIN out = DOMAIN p
BY DEF ToWan, PacketRecords

\* The answer to it finds the node, whatever checks are on its way.
LEMMA ReplyFields ==
  ASSUME NEW p \in LanPackets, NEW n \in Table, n.protocol = p.ip_p, Transport(p),
         Refused(p, "L2W") = "NO"
  PROVE  LET r == Reply(ToWan(p, n)) IN
         /\ r.ip_p = p.ip_p /\ r.src = p.dst /\ r.dst = n.wan.ip /\ r.dport = n.wan.port
         /\ DOMAIN r = DOMAIN p
         /\ Refused(r, "W2L") = "NO"
         /\ find_w2l(r.ip_p, r.dst, r.dport) = {n}
<1> DEFINE out == ToWan(p, n)
           r == Reply(out)
<1>1. p \in PacketRecords
  BY PacketType
<1>2. r = [out EXCEPT !.src = out.dst, !.dst = out.src, !.sport = out.dport, !.dport = out.sport,
                      !.df = FALSE]
  BY DEF Reply
<1>3. /\ out.src = n.wan.ip /\ out.sport = n.wan.port
      /\ out.dst = p.dst /\ out.dport = p.dport /\ out.ip_p = p.ip_p
      /\ out.ip_v = p.ip_v /\ out.size = p.size
      /\ DOMAIN out = DOMAIN p
  BY <1>1, ToWanFields
<1>4. DOMAIN p = {"ip_v", "size", "df", "ip_p", "src", "sport", "dst", "dport", "flags", "type",
                  "rest", "sum", "quote"}
  BY <1>1 DEF PacketRecords
<1> HIDE DEF out
<1>5. /\ r.ip_p = p.ip_p /\ r.src = p.dst /\ r.dst = n.wan.ip /\ r.dport = n.wan.port
      /\ r.ip_v = p.ip_v /\ r.size = p.size /\ r.df = FALSE /\ DOMAIN r = DOMAIN p
  BY <1>2, <1>3, <1>4
<1> HIDE DEF r
<1>6. p.size > ALIAS_MIN_SIZE /\ p.ip_v = 4 /\ p.dst # 0
  <2>1. ~(p.size <= ALIAS_MIN_SIZE) /\ p.ip_v = 4 /\ ~chk_drop(p, "L2W")
    BY DEF Refused
  <2>2. p.size \in Nat
    BY <1>1 DEF PacketRecords
  <2> QED
    BY <2>1, <2>2 DEF chk_drop, ALIAS_MIN_SIZE
<1>7. ~chk_drop(r, "W2L")
  BY <1>5, <1>6, NodeType, InterfaceAssumption DEF chk_drop
<1>8. Refused(r, "W2L") = "NO"
  <2>1. ~(r.size <= ALIAS_MIN_SIZE)
    BY <1>1, <1>5, <1>6 DEF PacketRecords, ALIAS_MIN_SIZE
  <2> QED
    BY <1>5, <1>6, <1>7, <2>1 DEF Refused, is_too_big
<1>9. find_w2l(r.ip_p, r.dst, r.dport) = {n}
  BY <1>5, FoundBack
<1> QED
  BY <1>5, <1>8, <1>9 DEF out, r

\* A packet that is translated to the LAN has the node's LAN endpoint.
LEMMA ToLanFields ==
  ASSUME NEW r, NEW n \in Table,
         {"src", "dst", "dport", "sum"} \subseteq DOMAIN r
  PROVE  LET back == ToLan(r, n) IN
         back.dst = n.lan.ip /\ back.dport = n.lan.port /\ back.src = r.src
BY DEF ToLan

LEMMA ReturnsToSender == RoundTrip
<1> SUFFICES ASSUME NEW p \in LanPackets, Translated(lan2wan_alias(p).verdict), Transport(p)
             PROVE  LET out == lan2wan_alias(p)
                        back == wan2lan_alias(Reply(out.packet))
                    IN /\ out.packet.src \in wan_addr \ Private
                       /\ p.ip_p = "UDP" => back.verdict = "DOALIAS"
                       /\ Translated(back.verdict) =>
                            /\ Endpoint(back.packet, "W2L") = Endpoint(p, "L2W")
                            /\ back.packet.src = p.dst
  BY DEF RoundTrip
<1>1. Refused(p, "L2W") = "NO" /\ p \in PacketRecords
  BY TranslatedOut, PacketType
<1>2. PICK n \in Table : /\ n.protocol = p.ip_p /\ n.lan = [ip |-> p.src, port |-> p.sport]
                         /\ lan2wan_alias(p).packet = ToWan(p, n)
  BY TranslatedOut
<1> DEFINE r == Reply(ToWan(p, n))
           back == wan2lan_alias(r)
<1>3. lan2wan_alias(p).packet.src \in wan_addr \ Private
  BY <1>1, <1>2, ToWanFields, NodeType
<1>4. /\ r.ip_p = p.ip_p /\ r.src = p.dst /\ DOMAIN r = DOMAIN p
      /\ Refused(r, "W2L") = "NO" /\ find_w2l(r.ip_p, r.dst, r.dport) = {n}
  BY <1>1, <1>2, ReplyFields
<1>5. {"src", "dst", "dport", "sum"} \subseteq DOMAIN r
  BY <1>1, <1>4 DEF PacketRecords
<1> HIDE DEF r
<1>6. /\ p.ip_p = "UDP" => back = Result("DOALIAS", ToLan(r, n))
      /\ p.ip_p = "TCP" => back = Segment(r, "W2L", ToLan(r, n))
  <2>1. (CHOOSE m \in {n} : TRUE) = n
    OBVIOUS
  <2> QED
    BY <1>4, <2>1 DEF wan2lan_alias, Transport
<1>7. Translated(back.verdict) => back.packet = ToLan(r, n)
  BY <1>6 DEF Transport, Segment, Result
<1>8. /\ ToLan(r, n).dst = n.lan.ip /\ ToLan(r, n).dport = n.lan.port /\ ToLan(r, n).src = r.src
  BY <1>5, ToLanFields
<1>9. Translated(back.verdict) =>
        Endpoint(back.packet, "W2L") = Endpoint(p, "L2W") /\ back.packet.src = p.dst
  BY <1>2, <1>4, <1>7, <1>8 DEF Endpoint
<1>10. p.ip_p = "UDP" => back.verdict = "DOALIAS"
  BY <1>6 DEF Result
<1> QED
  BY <1>2, <1>3, <1>9, <1>10 DEF r

\* For any table with distinct keys, any packet and any state of the node,
\* an answer returns to the host that asked (alias.h:826-949, 1096-1262).
THEOREM AnswersReturn == Spec => []RoundTrip
BY ReturnsToSender, PTL

LEMMA ErrorsFollow == ErrorReturns
<1> SUFFICES ASSUME NEW p \in LanPackets, NEW e \in WanPackets, e.ip_p = "ICMP", e.type \in Errors,
                    Translated(lan2wan_alias(p).verdict), Transport(p),
                    LET out == lan2wan_alias(p)
                    IN  Refused([e EXCEPT !.dst = out.packet.src, !.quote = Quote(out.packet)], "W2L")
                          = "NO"
             PROVE  LET out == lan2wan_alias(p)
                        error == [e EXCEPT !.dst = out.packet.src, !.quote = Quote(out.packet)]
                        back == wan2lan_alias(error)
                    IN  /\ back.verdict = "DOALIAS" /\ back.packet.dst = p.src
                        /\ back.packet.quote = Quote(p)
  BY DEF ErrorReturns
<1>1. PICK n \in Table : /\ n.protocol = p.ip_p /\ n.lan = [ip |-> p.src, port |-> p.sport]
                         /\ lan2wan_alias(p).packet = ToWan(p, n)
  BY TranslatedOut
<1> DEFINE out == ToWan(p, n)
           error == [e EXCEPT !.dst = out.src, !.quote = Quote(out)]
           back == wan2lan_alias(error)
<1>2. p \in PacketRecords /\ e \in PacketRecords
  BY PacketType
<1>3. /\ out.src = n.wan.ip /\ out.sport = n.wan.port
      /\ out.dst = p.dst /\ out.dport = p.dport /\ out.ip_p = p.ip_p
  BY <1>2, ToWanFields
<1>4. Quote(out) = [ip_p |-> p.ip_p, src |-> n.wan.ip, sport |-> n.wan.port,
                    dst |-> p.dst, dport |-> p.dport]
  BY <1>3 DEF Quote
<1> HIDE DEF out
<1>5. /\ error.ip_p = "ICMP" /\ error.type = e.type /\ error.quote = Quote(out)
      /\ DOMAIN error = DOMAIN e /\ {"dst", "quote"} \subseteq DOMAIN e
  BY <1>2 DEF PacketRecords
<1>6. Refused(error, "W2L") = "NO"
  BY <1>1 DEF out
<1> HIDE DEF error
<1>7. /\ error.quote.ip_p = p.ip_p
      /\ find_w2l(error.quote.ip_p, error.quote.src, error.quote.sport) = {n}
  BY <1>1, <1>4, <1>5, FoundBack
<1>8. back = Result("DOALIAS", Requoted(error, n))
  <2>1. (CHOOSE m \in {n} : TRUE) = n
    OBVIOUS
  <2>2. back = IcmpToLan(error)
    BY <1>5, <1>6 DEF wan2lan_alias, Transport
  <2>3. error.type \notin Replies
    BY <1>5 DEF Errors, Replies
  <2> QED
    BY <1>5, <1>7, <2>1, <2>2, <2>3 DEF IcmpToLan, Transport
<1>9. Requoted(error, n).dst = n.lan.ip
  BY <1>5 DEF Requoted
<1>10. Requoted(error, n).quote = [error.quote EXCEPT !.src = n.lan.ip, !.sport = n.lan.port]
  BY <1>5 DEF Requoted
<1>11. Requoted(error, n).quote = Quote(p)
  <2>1. error.quote = [ip_p |-> p.ip_p, src |-> n.wan.ip, sport |-> n.wan.port,
                       dst |-> p.dst, dport |-> p.dport]
    BY <1>4, <1>5
  <2>2. Requoted(error, n).quote = [ip_p |-> p.ip_p, src |-> n.lan.ip, sport |-> n.lan.port,
                                    dst |-> p.dst, dport |-> p.dport]
    <3> DEFINE q == error.quote
    <3>1. Requoted(error, n).quote = [q EXCEPT !.src = n.lan.ip, !.sport = n.lan.port]
      BY <1>10
    <3>2. q = [ip_p |-> p.ip_p, src |-> n.wan.ip, sport |-> n.wan.port,
               dst |-> p.dst, dport |-> p.dport]
      BY <2>1
    <3> HIDE DEF q
    <3>3. [q EXCEPT !.src = n.lan.ip, !.sport = n.lan.port]
            = [ip_p |-> p.ip_p, src |-> n.lan.ip, sport |-> n.lan.port,
               dst |-> p.dst, dport |-> p.dport]
      <4> DEFINE r == [q EXCEPT !.src = n.lan.ip]
      <4>1. r = [ip_p |-> p.ip_p, src |-> n.lan.ip, sport |-> n.wan.port,
                 dst |-> p.dst, dport |-> p.dport]
        BY <3>2
      <4>2. [q EXCEPT !.src = n.lan.ip, !.sport = n.lan.port] = [r EXCEPT !.sport = n.lan.port]
        OBVIOUS
      <4> HIDE DEF r
      <4> QED
        BY <4>1, <4>2
    <3> QED
      BY <3>1, <3>3
  <2>3. n.lan.ip = p.src /\ n.lan.port = p.sport
    BY <1>1
  <2> QED
    BY <2>2, <2>3 DEF Quote
<1>12. error = [e EXCEPT !.dst = lan2wan_alias(p).packet.src,
                         !.quote = Quote(lan2wan_alias(p).packet)]
  BY <1>1 DEF error, out
<1>13. back.verdict = "DOALIAS" /\ back.packet = Requoted(error, n)
  BY <1>8 DEF Result
<1>14. n.lan.ip = p.src
  BY <1>1
<1> QED
  BY <1>9, <1>11, <1>12, <1>13, <1>14

\* An error about a packet reaches its sender, and quotes what it sent
\* (alias.h:970-1026).
THEOREM ErrorsReturn == Spec => []ErrorReturns
BY ErrorsFollow, PTL

-----------------------------------------------------------------------------
(* Checksums *)

\* What becomes of a TCP or UDP packet of the WAN that is translated.
LEMMA TranslatedIn ==
  ASSUME NEW p \in WanPackets, Transport(p), Translated(wan2lan_alias(p).verdict)
  PROVE  \E n \in Table :
           n.wan = [ip |-> p.dst, port |-> p.dport] /\ wan2lan_alias(p).packet = ToLan(p, n)
<1> DEFINE found == find_w2l(p.ip_p, p.dst, p.dport)
           n == CHOOSE m \in found : TRUE
<1>1. Refused(p, "W2L") = "NO" /\ p.ip_p # "ICMP" /\ p.ip_p \in {"TCP", "UDP"}
  BY DEF wan2lan_alias, Refused, Result, Translated, Transport
<1>2. found # {}
  BY <1>1 DEF wan2lan_alias, Unknown, Result, Translated
<1>3. n \in found
  BY <1>2
<1>4. wan2lan_alias(p).packet = ToLan(p, n)
  <2>1. CASE p.ip_p = "TCP"
    <3>1. wan2lan_alias(p) = Segment(p, "W2L", ToLan(p, n))
      BY <1>1, <1>2, <2>1 DEF wan2lan_alias
    <3> QED
      BY <3>1 DEF Segment, Result, Translated
  <2>2. CASE p.ip_p = "UDP"
    <3>1. wan2lan_alias(p) = Result("DOALIAS", ToLan(p, n))
      BY <1>1, <1>2, <2>2 DEF wan2lan_alias
    <3> QED
      BY <3>1 DEF Result
  <2> QED
    BY <1>1, <2>1, <2>2
<1> QED
  BY <1>3, <1>4 DEF find_w2l

\* The new sum differs from the one that a full computation gives by the
\* carries that are lost.
LEMMA DifferenceKept ==
  ASSUME NEW sum \in Words, NEW new \in Words, NEW s \in Nat, NEW t \in Nat,
         NEW orig_ip \in Addresses, NEW orig_port \in Words,
         NEW alias_ip \in Addresses, NEW alias_port \in Words,
         SameChecksum(sum, checksum(s)),
         new = set_diff_checksum(sum, orig_ip, orig_port, alias_ip, alias_port),
         t = s - (AddressSum(orig_ip) + orig_port) + (AddressSum(alias_ip) + alias_port)
  PROVE  SameChecksum(new, checksum(t))
           <=> (orig_ip + orig_port >= B * B <=> alias_ip + alias_port >= B * B)
<1> DEFINE lo == Lost(orig_ip + orig_port)
           la == Lost(alias_ip + alias_port)
           c == checksum(t)
<1>1. Complements(sum, s)
  BY ChecksumComplements, SameComplements
<1>2. Complements(new, t + (lo - la))
  BY <1>1, TranslatedComplements
<1>3. c \in Words /\ Complements(c, t)
  BY ChecksumComplements
<1>4. lo \in {0, 1} /\ la \in {0, 1}
  BY DEF Lost
<1>5. (lo = la) <=> (orig_ip + orig_port >= B * B <=> alias_ip + alias_port >= B * B)
  BY DEF Lost
<1> HIDE DEF lo, la, c
<1>6. CASE lo = la
  <2>1. t + (lo - la) = t
    BY <1>4, <1>6
  <2>2. SameChecksum(new, c)
    BY <1>2, <1>3, <2>1, ComplementUnique
  <2> QED
    BY <1>5, <1>6, <2>2 DEF c
<1>7. CASE lo # la
  <2>1. lo - la \in {-1, 1}
    BY <1>4, <1>7
  <2>2. ~SameChecksum(c, new)
    BY <1>2, <1>3, <2>1, ComplementsDiffer
  <2>3. ~SameChecksum(new, c)
    BY <2>2 DEF SameChecksum
  <2> QED
    BY <1>5, <1>7, <2>3 DEF c
<1> QED
  BY <1>6, <1>7

LEMMA SetDiffType ==
  ASSUME NEW sum \in Words, NEW orig_ip \in Addresses, NEW orig_port \in Words,
         NEW alias_ip \in Addresses, NEW alias_port \in Words
  PROVE  set_diff_checksum(sum, orig_ip, orig_port, alias_ip, alias_port) \in Words
<1>1. -sum \in Int /\ sum + (-sum) = 0 * (B - 1)
  BY BaseAssumption DEF Words
<1>2. Complements(sum, -sum)
  BY <1>1 DEF Complements
<1> QED
  BY <1>1, <1>2, TranslatedComplements

LEMMA SumType ==
  ASSUME NEW p \in PacketRecords
  PROVE  /\ AddressSum(p.src) \in Nat /\ AddressSum(p.dst) \in Nat /\ Sum(p) \in Nat
         /\ p.src \in Addresses /\ p.dst \in Addresses /\ p.sport \in Words /\ p.dport \in Words
         /\ p.sum \in Words
<1>1. /\ p.src \in Addresses /\ p.dst \in Addresses /\ p.sport \in Words /\ p.dport \in Words
      /\ p.sum \in Words /\ p.rest \in Nat
  BY DEF PacketRecords
<1>2. AddressSum(p.src) \in Nat /\ AddressSum(p.dst) \in Nat
  BY <1>1, AddressCarried
<1> QED
  BY <1>1, <1>2 DEF Sum, Words

LEMMA ToWanKept ==
  ASSUME NEW p \in PacketRecords, NEW n \in Table,
         n.lan = [ip |-> p.src, port |-> p.sport], SameChecksum(p.sum, checksum_transport(p))
  PROVE  LET out == ToWan(p, n) IN
         SameChecksum(out.sum, checksum_transport(out))
           <=> (CarryLost(Endpoint(p, "L2W")) <=> CarryLost(Endpoint(out, "L2W")))
<1> DEFINE out == ToWan(p, n)
<1>1. /\ n.lan.ip = p.src /\ n.lan.port = p.sport
      /\ n.wan.ip \in Addresses /\ n.wan.port \in Words
  BY NodeType DEF Endpoints
<1>2. /\ out.src = n.wan.ip /\ out.sport = n.wan.port /\ out.dst = p.dst /\ out.dport = p.dport
      /\ out.rest = p.rest
      /\ out.sum = set_diff_checksum(p.sum, p.src, p.sport, n.wan.ip, n.wan.port)
  BY <1>1 DEF ToWan, PacketRecords
<1> HIDE DEF out
<1> DEFINE a == AddressSum(n.wan.ip)
           o == AddressSum(p.src)
           d == AddressSum(p.dst)
<1>3. a \in Nat /\ o \in Nat /\ d \in Nat
  BY <1>1, SumType, AddressCarried
<1>4. Sum(p) = o + d + p.sport + p.dport + p.rest /\ Sum(out) = a + d + n.wan.port + p.dport + p.rest
  BY <1>2 DEF Sum
<1>5. p.sport \in Nat /\ p.dport \in Nat /\ p.rest \in Nat /\ n.wan.port \in Nat
  BY <1>1 DEF PacketRecords, Words
<1> HIDE DEF a, o, d
<1>6. Sum(out) \in Nat /\ Sum(out) = Sum(p) - (o + p.sport) + (a + n.wan.port)
  BY <1>3, <1>4, <1>5
<1>7. out.sum \in Words
  BY <1>1, <1>2, SumType, SetDiffType
<1>8. SameChecksum(out.sum, checksum(Sum(out)))
        <=> (p.src + p.sport >= B * B <=> n.wan.ip + n.wan.port >= B * B)
  <2>1. /\ p.sum \in Words /\ Sum(p) \in Nat /\ p.src \in Addresses /\ p.sport \in Words
        /\ SameChecksum(p.sum, checksum(Sum(p)))
    BY SumType DEF checksum_transport
  <2>2. Sum(out) = Sum(p) - (AddressSum(p.src) + p.sport) + (AddressSum(n.wan.ip) + n.wan.port)
    BY <1>6 DEF a, o
  <2> QED
    BY <1>1, <1>2, <1>6, <1>7, <2>1, <2>2, DifferenceKept
<1> QED
  BY <1>2, <1>8 DEF checksum_transport, CarryLost, Endpoint, out

LEMMA ToLanKept ==
  ASSUME NEW p \in PacketRecords, NEW n \in Table,
         n.wan = [ip |-> p.dst, port |-> p.dport], SameChecksum(p.sum, checksum_transport(p))
  PROVE  LET out == ToLan(p, n) IN
         SameChecksum(out.sum, checksum_transport(out))
           <=> (CarryLost(Endpoint(p, "W2L")) <=> CarryLost(Endpoint(out, "W2L")))
<1> DEFINE out == ToLan(p, n)
<1>1. /\ n.wan.ip = p.dst /\ n.wan.port = p.dport
      /\ n.lan.ip \in Addresses /\ n.lan.port \in Words
  BY NodeType DEF Endpoints
<1>2. /\ out.dst = n.lan.ip /\ out.dport = n.lan.port /\ out.src = p.src /\ out.sport = p.sport
      /\ out.rest = p.rest
      /\ out.sum = set_diff_checksum(p.sum, p.dst, p.dport, n.lan.ip, n.lan.port)
  BY <1>1 DEF ToLan, PacketRecords
<1> HIDE DEF out
<1> DEFINE a == AddressSum(n.lan.ip)
           o == AddressSum(p.dst)
           d == AddressSum(p.src)
<1>3. a \in Nat /\ o \in Nat /\ d \in Nat
  BY <1>1, SumType, AddressCarried
<1>4. Sum(p) = d + o + p.sport + p.dport + p.rest /\ Sum(out) = d + a + p.sport + n.lan.port + p.rest
  BY <1>2 DEF Sum
<1>5. p.sport \in Nat /\ p.dport \in Nat /\ p.rest \in Nat /\ n.lan.port \in Nat
  BY <1>1 DEF PacketRecords, Words
<1> HIDE DEF a, o, d
<1>6. Sum(out) \in Nat /\ Sum(out) = Sum(p) - (o + p.dport) + (a + n.lan.port)
  BY <1>3, <1>4, <1>5
<1>7. out.sum \in Words
  BY <1>1, <1>2, SumType, SetDiffType
<1>8. SameChecksum(out.sum, checksum(Sum(out)))
        <=> (p.dst + p.dport >= B * B <=> n.lan.ip + n.lan.port >= B * B)
  <2>1. /\ p.sum \in Words /\ Sum(p) \in Nat /\ p.dst \in Addresses /\ p.dport \in Words
        /\ SameChecksum(p.sum, checksum(Sum(p)))
    BY SumType DEF checksum_transport
  <2>2. Sum(out) = Sum(p) - (AddressSum(p.dst) + p.dport) + (AddressSum(n.lan.ip) + n.lan.port)
    BY <1>6 DEF a, o
  <2> QED
    BY <1>1, <1>2, <1>6, <1>7, <2>1, <2>2, DifferenceKept
<1> QED
  BY <1>2, <1>8 DEF checksum_transport, CarryLost, Endpoint, out

LEMMA TranslationKeepsChecksum == ChecksumKept
<1>1. ASSUME NEW p \in LanPackets, Transport(p), Translated(lan2wan_alias(p).verdict),
             p.ip_p = "UDP" => p.sum # 0, NEW out, out = lan2wan_alias(p).packet
      PROVE  SameChecksum(out.sum, checksum_transport(out))
               <=> (CarryLost(Endpoint(p, "L2W")) <=> CarryLost(Endpoint(out, "L2W")))
  <2>1. PICK n \in Table : n.lan = [ip |-> p.src, port |-> p.sport] /\ out = ToWan(p, n)
    BY <1>1, TranslatedOut
  <2>2. p \in PacketRecords /\ SameChecksum(p.sum, checksum_transport(p))
    BY <1>1, PacketType, ChecksumAssumption
  <2> QED
    BY <2>1, <2>2, ToWanKept
<1>2. ASSUME NEW p \in WanPackets, Transport(p), Translated(wan2lan_alias(p).verdict),
             p.ip_p = "UDP" => p.sum # 0, NEW out, out = wan2lan_alias(p).packet
      PROVE  SameChecksum(out.sum, checksum_transport(out))
               <=> (CarryLost(Endpoint(p, "W2L")) <=> CarryLost(Endpoint(out, "W2L")))
  <2>1. PICK n \in Table : n.wan = [ip |-> p.dst, port |-> p.dport] /\ out = ToLan(p, n)
    BY <1>2, TranslatedIn
  <2>2. p \in PacketRecords /\ SameChecksum(p.sum, checksum_transport(p))
    BY <1>2, PacketType, ChecksumAssumption
  <2> QED
    BY <2>1, <2>2, ToLanKept
<1> QED
  BY <1>1, <1>2 DEF ChecksumKept

\* Whatever the packet and its node, a translated packet has the checksum of
\* a full computation, but where a carry is lost on one side only
\* (alias.h:507-530, 612-663).
THEOREM ChecksumsKept == Spec => []ChecksumKept
BY TranslationKeepsChecksum, PTL

-----------------------------------------------------------------------------
(* icmp_bucket *)

\* With one host in the history, icmp_bucket is that host's.
LEMMA BucketAnswers == IInv => OnePingerAnswered
<1> SUFFICES ASSUME IInv, NEW p \in WanPackets, p.ip_p = "ICMP",
                    wan2lan_alias(p).verdict = "DOALIAS",
                    p.type \in Replies \/ p.quote.ip_p = "ICMP", Cardinality(pingers) = 1
             PROVE  wan2lan_alias(p).packet.dst \in pingers
  BY DEF OnePingerAnswered
<1>1. icmp_bucket.local \in pingers
  BY FS_EmptySet DEF IInv, BucketInv
<1>2. "dst" \in DOMAIN p /\ "quote" \in DOMAIN p
  BY PacketType DEF PacketRecords
<1>3. wan2lan_alias(p) = IcmpToLan(p)
  BY DEF wan2lan_alias, Refused, Result, Transport
<1>4. CASE p.type \in Replies
  BY <1>1, <1>2, <1>3, <1>4 DEF IcmpToLan, Result, Replies, Errors
<1>5. CASE p.type \notin Replies
  <2>1. p.quote.ip_p = "ICMP" /\ p.type \in Errors
    BY <1>3, <1>5 DEF IcmpToLan, Result
  <2>2. IcmpToLan(p).packet = [p EXCEPT !.dst = icmp_bucket.local,
                                        !.quote.dst = icmp_bucket.local,
                                        !.quote.src = icmp_bucket.foreign]
    BY <1>5, <2>1 DEF IcmpToLan, Result
  <2> QED
    BY <1>1, <1>2, <1>3, <2>2
<1> QED
  BY <1>4, <1>5

\* Whatever else is translated, the only host that pings gets the answers
\* (alias.h:783-792, 957-968, 1027-1036, 1270-1282).
THEOREM OnePinger == Spec => []OnePingerAnswered
BY Invariance, BucketAnswers, PTL
=============================================================================
