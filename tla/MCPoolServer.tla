---------------------------- MODULE MCPoolServer ----------------------------
(***************************************************************************)
(* Instances of PoolServer with two natportes, one of them with an address *)
(* of the other's, one LAN endpoint and one port.  p1 orders TCP, at most  *)
(* two orders at a time, and p2 UDP, one at a time.                        *)
(***************************************************************************)
EXTENDS PoolServer, TLC

CONSTANTS p1, p2, w1, w2

MCpool_addr == [p \in {p1, p2} |-> IF p = p1 THEN <<w1, w2>> ELSE <<w1>>]
MCOrdered == [p \in {p1, p2} |-> IF p = p1 THEN {"TCP"} ELSE {"UDP"}]
MCOutstanding == [p \in {p1, p2} |-> IF p = p1 THEN 2 ELSE 1]

\* The callbacks differ by nothing but the connection they are for.
Symmetry == Permutations(Sockets)
=============================================================================
