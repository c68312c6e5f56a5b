------------------------------ MODULE Backtest -------------------------------
(***************************************************************************)
(* The walk-forward harnesses of strategy/: backtest.py (with db.spread),  *)
(* walk_forward_constraints.py, hub_walkforward.py.  Times of backtest.py  *)
(* are whole hours in UTC, months of the others are month numbers.         *)
(***************************************************************************)
EXTENDS Valuation, Functions, FiniteSetsExt

CONSTANTS
    MinHistory,  \* how many settled spreads a signal needs (30 in the code)
    Embargo      \* hours between training and test

ASSUME BacktestAssumption == MinHistory \in Nat \ {0} /\ Embargo \in Nat

\* db.spread: hours with a day-ahead and a real-time price, da and rt being
\* functions of the hours; the rest is dropped, not zero-filled.
Spread(da, rt, from, to) ==
    {[at |-> h, spread |-> da[h] - rt[h]] :
     h \in {x \in DOMAIN da \cap DOMAIN rt : from <= x /\ x < to}}

\* walk_forward: fold i of an expanding window.
Fold(start, end, folds, i) ==
    LET span == (end - start) \div (folds + 1)
        test == start + span * i
    IN  [train |-> <<start, test - Embargo>>, test |-> <<test, test + span>>]

\* Mutant of AsOfFor: the close of the target's own day, not of the day before.
AsOfForSameDay(target) == 24 * (target \div 24) + 15

\* as_of_for: 10:00 at UTC-5 on the day before the target's day in UTC.
AsOfFor(target) == 24 * ((target - 24) \div 24) + 15

ByTime(history) == InOrder(history, [r \in history |-> r.at])
Sorted(times) == InOrder(times, [t \in times |-> t])

\* What the pointer has added up when it has passed k rows.
Sums(series) ==
    LET upto[k \in 0 .. Len(series)] ==
            IF k = 0 THEN [n |-> 0, total |-> 0, square |-> 0, last |-> 0]
            ELSE LET x == series[k].spread
                 IN  [n |-> upto[k - 1].n + 1, total |-> upto[k - 1].total + x,
                      square |-> upto[k - 1].square + x * x, last |-> x]
    IN  upto

\* z against the threshold, in whole numbers; a signal or none.
Decide(target, s) ==
    LET var == s.n * s.square - s.total * s.total     \* n^2 times the variance
        off == s.n * s.last - s.total                 \* n times last - mean
    IN  IF s.n < MinHistory \/ var <= 0 \/ 4 * off * off < 9 * var THEN {}
        ELSE {[target |-> target, direction |-> IF off > 0 THEN -1 ELSE 1]}

\* The pointer moves on to the last row before each target's cutoff, and never back.
Pointer(series, targets) ==
    LET idx[i \in 0 .. Len(targets)] ==
            IF i = 0 THEN 0
            ELSE Cardinality({j \in DOMAIN series :
                                j <= idx[i - 1] \/ series[j].at < AsOfFor(targets[i])})
    IN  idx

\* generate_signals for one point.
Walk(series, targets) ==
    UNION {Decide(targets[i], Sums(series)[Pointer(series, targets)[i]]) :
           i \in DOMAIN targets}

GenerateSignals(history, targets) == Walk(ByTime(history), Sorted(targets))

\* score: what the signals earned on the spreads that are there, and the rest.
Score(signals, realised) ==
    LET matched == {s \in signals : \E r \in realised : r.at = s.target}
    IN  [orders |-> Cardinality(matched), unmatched |-> Cardinality(signals \ matched),
         net |-> MapThenSumSet(LAMBDA s : s.direction
                        * (CHOOSE r \in realised : r.at = s.target).spread, matched)]

\* main, one fold: signals for the hours of the test window, from the training and
\* the test rows.
RunFold(da, rt, f) ==
    LET train == Spread(da, rt, f.train[1], f.train[2])
        test == Spread(da, rt, f.test[1], f.test[2])
        signals == GenerateSignals(train \cup test, {r.at : r \in test})
    IN  [signals |-> signals, score |-> Score(signals, test)]

-----------------------------------------------------------------------------
(* walk_forward_constraints.py: folds of the months from dlo to dhi.       *)

TRAIN_MIN_MONTHS == 6
STEP_MONTHS == 2

\* month_add(d, n) for d the first of month <<y, m>>.
MonthAdd(ym, n) ==
    LET t == ym[1] * 12 + ym[2] - 1 + n IN <<t \div 12, (t % 12) + 1>>

Number(ym) == 12 * ym[1] + ym[2]

\* The folds: train from start to train, test from train to test, both exclusive.
WalkFolds(dlo, dhi) ==
    LET holdout == MonthAdd(dhi, -1)
        start == MonthAdd(dlo, 1)
    IN  {[start |-> start, train |-> MonthAdd(start, k), test |-> MonthAdd(start, k + 2)] :
         k \in {j \in TRAIN_MIN_MONTHS .. Number(dhi) - Number(dlo) :
                 /\ j % STEP_MONTHS = 0
                 /\ Number(MonthAdd(start, j + STEP_MONTHS)) <= Number(holdout)}}

\* The rule of one fold for one constraint: fit on its flags (hour -> shadow price,
\* an hour being <<month number, h>>) of the training months, then the hours it
\* takes in the test months: it is rare if flagged in under a fifth of the hours.
FoldHours(hours, flags, f) ==
    LET In(h, lo, hi) == Number(lo) <= h[1] /\ h[1] < Number(hi)
        trained == {h \in hours : In(h, f.start, f.train)}
        flagged == {h \in DOMAIN flags : In(h, f.start, f.train)}
        prices == Restrict(flags, flagged)
    IN  IF flagged = {} \/ 5 * Cardinality(flagged) >= Cardinality(trained) THEN {}
        ELSE {h \in hours \cap DOMAIN flags :
                 In(h, f.train, f.test) /\ 2 * flags[h] >= Median2(prices)}

-----------------------------------------------------------------------------
(* hub_walkforward.py: the pick and the grading of one path in one month.  *)

\* The auctions of the basis and the months of the fit, for test month ym.
HubBasis(ym) == {MonthAdd(ym, -k) : k \in 1 .. 3}
HubFit(ym) == {MonthAdd(ym, k - 13) : k \in 1 .. 11}

\* What path p paid in the months of the fit.
HubPaid(p, ym) == Restrict(p.paid, HubFit(ym) \cap DOMAIN p.paid)

\* Path p is picked for month ym, p.auction[b] being its bought megawatts and its
\* clear, in cents, in the auction of month b, p.paid[b] its average in month b.
HubPicked(p, ym) ==
    LET basis == {b \in HubBasis(ym) \cap DOMAIN p.auction : p.auction[b].mw > 0}
        n == Cardinality(basis)
        mw == SumFunction([b \in basis |-> p.auction[b].mw])
        clears == SumFunction([b \in basis |-> p.auction[b].clear])
        paid == HubPaid(p, ym)
        fade == MonthAdd(ym, -2)
    IN  /\ n >= 2 /\ mw >= 2 * n
        /\ Cardinality(DOMAIN paid) >= 8
        /\ Median2(paid) * n >= 4 * clears /\ clears >= 2 * n
        /\ Cardinality({b \in DOMAIN paid : paid[b] > 0}) >= 7
        /\ fade \in DOMAIN p.paid /\ 8 * p.paid[fade] >= Median2(paid)

\* A pick fills if its limit, the median over 1.5, reaches the clear of its month.
HubFilled(p, ym) ==
    /\ HubPicked(p, ym)
    /\ ym \in DOMAIN p.auction /\ p.auction[ym].mw > 0
    /\ Median2(HubPaid(p, ym)) >= 3 * p.auction[ym].clear
=============================================================================
