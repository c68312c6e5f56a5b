--------------------------- MODULE MCErcotClient ---------------------------
(***************************************************************************)
(* A small instance of ErcotClient.                                        *)
(***************************************************************************)
EXTENDS ErcotClient, TLC

CONSTANTS t1, t2

Symmetry == Permutations(Thread)
=============================================================================
