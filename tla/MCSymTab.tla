------------------------------ MODULE MCSymTab ------------------------------
(***************************************************************************)
(* Names that collide in small tables, wrap around their end, and part     *)
(* when a table grows; which name has which hash makes no difference, so   *)
(* they are taken in one order.                                            *)
(***************************************************************************)
EXTENDS SymTab

CONSTANT HashValues

MCHashes == {h \in [Names -> HashValues] : \A x, y \in Names : x <= y => h[x] <= h[y]}
=============================================================================
