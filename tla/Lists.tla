-------------------------------- MODULE Lists ---------------------------------
(***************************************************************************)
(* Lists of Python, and what is made of them by a loop: as functions on    *)
(* the indices, for which the provers can reason by the least index at     *)
(* which a claim fails.                                                    *)
(***************************************************************************)
EXTENDS Integers, Sequences, FiniteSets

\* The elements of s that are in S, in their order: [x for x in s if ...].
Among(s, S) ==
    LET kept[i \in 0 .. Len(s)] ==
            IF i = 0 THEN <<>>
            ELSE IF s[i] \in S THEN Append(kept[i - 1], s[i]) ELSE kept[i - 1]
    IN  kept[Len(s)]

\* sum(s)
Total(s) ==
    LET sum[i \in 0 .. Len(s)] == IF i = 0 THEN 0 ELSE sum[i - 1] + s[i]
    IN  sum[Len(s)]

\* The elements of a finite set in the order of their keys, which differ: sorted.
InOrder(S, key) ==
    [i \in 1 .. Cardinality(S) |->
        CHOOSE x \in S : Cardinality({y \in S : key[y] <= key[x]}) = i]

\* The k-th smallest of the values of f, a value counting as often as f takes it.
Kth(f, k) ==
    CHOOSE x \in {f[i] : i \in DOMAIN f} :
        /\ Cardinality({i \in DOMAIN f : f[i] < x}) < k
        /\ k <= Cardinality({i \in DOMAIN f : f[i] <= x})
=============================================================================
