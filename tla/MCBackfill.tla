----------------------------- MODULE MCBackfill -----------------------------
(***************************************************************************)
(* A small instance of Backfill, and of the Paging it reads with.          *)
(***************************************************************************)
EXTENDS Backfill, TLC

CONSTANTS p1, p2, w1, w2

Keys == [point : Point, day : 1 .. LastDay]

\* A row of a first window comes late.
LateKeys == {[point |-> p1, day |-> 2]}

\* At first ERCOT has every other row, one point's rows, the rows of two days, or
\* none.
FirstReports ==
    {Keys \ LateKeys, {k \in Keys : k.point = p1}, {k \in Keys : k.day \in {3, 4}}, {}}

Asked(P, a, b) == [points |-> P, from |-> a, to |-> b]

Requests == {Asked({p1, p2}, 1, 4), Asked({p1}, 2, 2), Asked({p1}, 3, 1)}
=============================================================================
