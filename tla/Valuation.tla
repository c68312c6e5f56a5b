------------------------------ MODULE Valuation ------------------------------
(***************************************************************************)
(* strategy/valuation.py: the typical month, never the mean.  Payouts are  *)
(* integers; a median counts in halves and a price in twelfths of a unit,  *)
(* in which the mean of three months and of one or two is an integer.      *)
(***************************************************************************)
EXTENDS Lists

MIN_MONTHS == 6

NoValue == [months |-> 0]

\* The last n elements of a sequence, or all of it.
Latest(s, n) == SubSeq(s, IF Len(s) > n THEN Len(s) - n + 1 ELSE 1, Len(s))

\* Twice the median of the values of a function, or of a sequence.
Median2(f) ==
    LET n == Cardinality(DOMAIN f)
    IN  Kth(f, (n + 1) \div 2) + Kth(f, n \div 2 + 1)

Least(a, b) == IF a <= b THEN a ELSE b
Greatest(a, b) == IF a >= b THEN a ELSE b

\* recent < 0.30 * med: the last three fitted months against the median one.
Trend(fit) == 20 * Total(Latest(fit, 3)) < 9 * Median2(fit)

\* The two latest settled months, of the tail if it has them, paid under a
\* quarter of the median month.
Collapsed(fit, tail) ==
    /\ Median2(fit) > 0
    /\ \A i \in 1 .. 2 : 8 * Latest(fit \o tail, 2)[i] < Median2(fit)

\* Mutant of Typical: the tail is fitted with the rest.
TypicalOfAll(fit, tail, target) ==
    Least(6 * Median2(fit \o tail), Greatest(4 * Total(Latest(fit \o tail, 3)), 0))

\* The price base in twelfths: the median month, capped by the recent months and
\* by past payouts of the delivery month.
Typical(fit, tail, target) ==
    LET base == Least(6 * Median2(fit), Greatest(4 * Total(Latest(fit, 3)), 0))
    IN  IF target = <<>> THEN base
        ELSE Least(base, Greatest((12 * Total(target)) \div Len(target), 0))

\* value_months: typical in twelfths, the limit typical / 1.5 likewise, and how
\* many fitted months paid the limit (beat_rate * months).
ValueMonths(fit, tail, target) ==
    IF Len(fit) < MIN_MONTHS THEN NoValue
    ELSE LET typical == Typical(fit, tail, target)
         IN  [months |-> Len(fit), typical |-> typical, median2 |-> Median2(fit),
              fading |-> Trend(fit) \/ Collapsed(fit, tail),
              beat |-> Cardinality({i \in DOMAIN fit : 18 * fit[i] >= typical})]
=============================================================================
