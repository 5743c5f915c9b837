----------------------------- MODULE MCDlCache ------------------------------
(***************************************************************************)
(* Libraries whose names collide in a small cache, wrap around its end and *)
(* part when it grows.                                                     *)
(***************************************************************************)
EXTENDS DlCache

CONSTANT HashValues

MCHashes == [Libs -> HashValues]
=============================================================================
