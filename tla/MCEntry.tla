------------------------------ MODULE MCEntry -------------------------------
(***************************************************************************)
(* Instances of Entry: client addresses 1 and 2 take different addresses   *)
(* of a pool of two; three ports let a client reach its limit of two with  *)
(* ports left, so that assignConnection is refused by the limit and by the *)
(* empty list.                                                             *)
(***************************************************************************)
EXTENDS Entry
=============================================================================
