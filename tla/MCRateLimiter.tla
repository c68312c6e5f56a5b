--------------------------- MODULE MCRateLimiter ---------------------------
(***************************************************************************)
(* A small instance of RateLimiter.                                        *)
(***************************************************************************)
EXTENDS RateLimiter, TLC

CONSTANTS t1, t2, t3

Symmetry == Permutations(Caller)
=============================================================================
