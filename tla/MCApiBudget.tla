---------------------------- MODULE MCApiBudget ----------------------------
(***************************************************************************)
(* A small instance of ApiBudget: two commands make the same search, over  *)
(* a month boundary, with a ceiling below the pages they would like.       *)
(***************************************************************************)
EXTENDS ApiBudget

CONSTANTS p1, p2

MCProcs == {p1, p2}
=============================================================================
