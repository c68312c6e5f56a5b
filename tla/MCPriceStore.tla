---------------------------- MODULE MCPriceStore ---------------------------
(***************************************************************************)
(* Small instances of PriceStore.                                          *)
(***************************************************************************)
EXTENDS PriceStore, TLC

CONSTANTS k1, k2, p1, p2, w1, w2

Symmetry == Permutations(Key) \cup Permutations(Price) \cup Permutations(Writer)
=============================================================================
