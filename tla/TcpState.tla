------------------------------ MODULE TcpState ------------------------------
(***************************************************************************)
(* tcp_state_check of src/src/alias.h: the state of a connection after a   *)
(* segment with the flags pflag, seen by the translator from the LAN       *)
(* (L2W) or from the WAN (W2L).  A segment's flags are a set.              *)
(*                                                                         *)
(* The source spells the two directions out one after the other.  A state  *)
(* that waits for one side, such as FIN_WAIT_L2W, is a member of a         *)
(* function over the directions here, so that both copies are one text.    *)
(***************************************************************************)

Directions == {"L2W", "W2L"}
Flags == {"SYN", "ACK", "FIN", "RST"}

Opposite(from) == IF from = "L2W" THEN "W2L" ELSE "L2W"

\* The closing states name the side whose segment moves them on.
FIN_WAIT == [L2W |-> "FIN_WAIT_L2W", W2L |-> "FIN_WAIT_W2L"]
FINACK_WAIT == [L2W |-> "FINACK_WAIT_L2W", W2L |-> "FINACK_WAIT_W2L"]
CLOSING == [L2W |-> "CLOSING_L2W", W2L |-> "CLOSING_W2L"]

WaitStates(from) == {FIN_WAIT[from], FINACK_WAIT[from], CLOSING[from]}

TcpStates ==
    {"ESTABLISHED", "SYN_SENT", "SYNACK_RECIVED", "CLOSED", "RESET", "UNKNOWN"}
    \cup WaitStates("L2W") \cup WaitStates("W2L")

\* The aliases translate for a node in these states and leave its state alone.
Final == {"CLOSED", "RESET"}

\* Mutant: the last ACK takes the connection back to ESTABLISHED.
AfterFin_Reopens(tflag, pflag, from) ==
    CASE tflag \in {FIN_WAIT[from], FINACK_WAIT[from]} /\ "FIN" \in pflag -> CLOSING[Opposite(from)]
      [] tflag = CLOSING[from] /\ "ACK" \in pflag -> "ESTABLISHED"
      [] OTHER -> tflag

\* The side that the closing connection waits for.
AfterFin(tflag, pflag, from) ==
    CASE tflag \in {FIN_WAIT[from], FINACK_WAIT[from]} /\ "FIN" \in pflag -> CLOSING[Opposite(from)]
      [] tflag \in {FIN_WAIT[from], FINACK_WAIT[from]} /\ pflag \cap {"FIN", "ACK"} = {"ACK"} ->
           FINACK_WAIT[from]
      [] tflag = CLOSING[from] /\ "ACK" \in pflag -> "CLOSED"
      [] OTHER -> "UNKNOWN"

\* Mutant: the branch for the lone flags returns nothing.
Opening_NoReturn(tflag, pflag, from) ==
    CASE tflag = "SYN_SENT" /\ "SYN" \in pflag -> "SYNACK_RECIVED"
      [] tflag = "SYNACK_RECIVED" /\ {"SYN", "ACK"} \subseteq pflag -> "ESTABLISHED"
      [] OTHER -> "garbage"

\* Mutant: the answer of the server to a SYN need not be a SYN.
Opening_AnyAck(tflag, pflag, from) ==
    CASE "SYN" \in pflag -> "SYNACK_RECIVED"
      [] "ACK" \in pflag -> "ESTABLISHED"
      [] OTHER -> "UNKNOWN"

\* The lone flag that a half-open connection tolerates, by the side it is from.
Tolerated == [L2W |-> "SYN", W2L |-> "ACK"]

\* The three-way handshake; without a SYN and an ACK in one segment the
\* connection stays half open.
Opening(tflag, pflag, from) ==
    CASE tflag = "SYN_SENT" /\ "SYN" \in pflag -> "SYNACK_RECIVED"
      [] tflag = "SYNACK_RECIVED" /\ {"SYN", "ACK"} \subseteq pflag -> "ESTABLISHED"
      [] tflag = "SYNACK_RECIVED" /\ pflag \cap {"SYN", "ACK"} = {Tolerated[from]} -> "SYNACK_RECIVED"
      [] OTHER -> "UNKNOWN"

\* Mutant: the LAN's copy sends the connection to the wrong side's wait.
tcp_state_check_WrongSide(tflag, pflag, from) ==
    IF "RST" \in pflag /\ tflag \notin Final THEN "RESET"
    ELSE CASE tflag = "ESTABLISHED" ->
                IF "FIN" \in pflag THEN FIN_WAIT["W2L"] ELSE "ESTABLISHED"
           [] tflag \in WaitStates(from) -> AfterFin(tflag, pflag, from)
           [] tflag \in WaitStates(Opposite(from)) -> tflag
           [] OTHER -> Opening(tflag, pflag, from)

tcp_state_check(tflag, pflag, from) ==
    IF "RST" \in pflag /\ tflag \notin Final THEN "RESET"
    ELSE CASE tflag = "ESTABLISHED" ->
                IF "FIN" \in pflag THEN FIN_WAIT[Opposite(from)] ELSE "ESTABLISHED"
           [] tflag \in WaitStates(from) -> AfterFin(tflag, pflag, from)
           [] tflag \in WaitStates(Opposite(from)) -> tflag
           [] OTHER -> Opening(tflag, pflag, from)

\* What the aliases make of a segment for a node whose state they read as
\* seen: the new state, and the verdict they return for the packet.
NewFlags(seen, pflag, from) ==
    IF seen \in Final THEN seen ELSE tcp_state_check(seen, pflag, from)

Verdict(seen, pflag, from) ==
    IF seen \in Final THEN "DOALIAS"
    ELSE LET state == NewFlags(seen, pflag, from) IN
         CASE state = "CLOSED" -> "DEL_TABLE"
           [] state = "RESET" -> "RESET_TABLE"
           [] state = "UNKNOWN" -> IF from = "L2W" THEN "RESET_TABLE" ELSE "DODROP"
           [] OTHER -> "DOALIAS"
=============================================================================
