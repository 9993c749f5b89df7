------------------------------- MODULE MCRing -------------------------------
(***************************************************************************)
(* Instances of Ring with three slots.  MCRing.cfg has a thread of every   *)
(* role and two consumers, so that a signal may wake the wrong one;        *)
(* MCRing_live.cfg has one producer that spins and one consumer, as h_recv *)
(* has.  Opaque 0 is among the flags because a pop writes it back.         *)
(***************************************************************************)
EXTENDS Ring
=============================================================================
