----------------------------- MODULE MCNatporte -----------------------------
(***************************************************************************)
(* Instances of Natporte with one WAN address and one port, so that the    *)
(* port is handed from connection to connection.                           *)
(*                                                                         *)
(* MCNatporte.cfg: two LAN endpoints compete for the port, and the WAN     *)
(* resets connections.  MCNatporte_close.cfg: one endpoint opens, closes   *)
(* with FINs and goes idle.  MCNatporte_live.cfg: one endpoint, with       *)
(* resets and fairness.  MCNatporte_ack.cfg and MCNatporte_match.cfg: a    *)
(* lone ACK of the LAN, or its RST against the timers.                     *)
(*                                                                         *)
(* The passing runs have more nodes than the threads and rings hold at     *)
(* once, so that a new one is always found.  Nodes are interchangeable.    *)
(***************************************************************************)
EXTENDS Natporte, TLC

Symmetry == Permutations(Nodes)
=============================================================================
