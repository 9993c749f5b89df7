--------------------------- MODULE TcpConnection ----------------------------
(***************************************************************************)
(* The life of one node of the NAT table under TcpState: any segments from *)
(* both sides, as lan2wan_alias and wan2lan_alias (src/src/alias.h) feed   *)
(* them to tcp_state_check.  seen is a history variable, the flags that    *)
(* came from each side; SYN with ACK in one segment counts as a flag.      *)
(***************************************************************************)
EXTENDS Naturals, TcpState

VARIABLES flags, seen

vars == <<flags, seen>>

\* A node starts in SYN_SENT, made for a segment whose only flag is SYN.
Init == flags = "SYN_SENT" /\ seen = {}

Noted(pflag) == pflag \cup (IF {"SYN", "ACK"} \subseteq pflag THEN {"SYN+ACK"} ELSE {})

Segment(from, pflag) ==
    /\ flags' = NewFlags(flags, pflag, from)
    /\ seen' = seen \cup ({from} \X Noted(pflag))

Next == \E from \in Directions, pflag \in SUBSET Flags : Segment(from, pflag)

Spec == Init /\ [][Next]_vars

-----------------------------------------------------------------------------
(* Properties *)

\* The types: tcp_state_check returns one of the twelve S_TF_ states.
TypeOK ==
    /\ flags \in TcpStates
    /\ seen \subseteq Directions \X (Flags \cup {"SYN+ACK"})

FinFrom(side) == <<side, "FIN">> \in seen

\* A connection is taken for half closed only after the FIN of the side that
\* is done, and for closing or closed only after a FIN of both: the deletion
\* of a node never cuts off a side that still sends (alias.h:141-489).
OrderlyClose ==
    /\ \A side \in Directions :
         flags \in {FIN_WAIT[side], FINACK_WAIT[side]} => FinFrom(Opposite(side))
    /\ flags \in {CLOSING["L2W"], CLOSING["W2L"], "CLOSED"} =>
         FinFrom("L2W") /\ FinFrom("W2L")

\* Segments flow both ways without a check only after a SYN with an ACK, and
\* a connection is reset only by a RST (alias.h:169-202, 346-379).
HandshakeFirst ==
    /\ flags \in {"ESTABLISHED", "CLOSED"} \cup WaitStates("L2W") \cup WaitStates("W2L") =>
         \E side \in Directions : <<side, "SYN+ACK">> \in seen
    /\ flags = "RESET" => \E side \in Directions : <<side, "RST">> \in seen

Stage ==
    [s \in TcpStates |->
        CASE s = "SYN_SENT" -> 0
          [] s = "SYNACK_RECIVED" -> 1
          [] s = "ESTABLISHED" -> 2
          [] s \in {FIN_WAIT[side] : side \in Directions} -> 3
          [] s \in {FINACK_WAIT[side] : side \in Directions} -> 4
          [] s \in {CLOSING[side] : side \in Directions} -> 5
          [] s = "CLOSED" -> 6
          [] s = "UNKNOWN" -> 7
          [] s = "RESET" -> 8]

\* A node never goes back in its life and changes sides only on its way from
\* the wait for a FIN to the wait for the last ACK: an old or reordered
\* segment cannot reopen a connection (alias.h:141-505, 1128-1150).
NeverBack ==
    [][/\ Stage[flags'] >= Stage[flags]
       /\ \A side \in Directions :
            flags \in WaitStates(side) /\ flags' \in WaitStates(Opposite(side)) =>
                flags' = CLOSING[Opposite(side)]]_vars
=============================================================================
