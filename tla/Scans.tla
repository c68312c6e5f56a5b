-------------------------------- MODULE Scans --------------------------------
(***************************************************************************)
(* The valuation scans of strategy/: market_scan.py, discover_paths.py,    *)
(* lt_strip_scan.py.  A month is a pair <<year, month>>.  A path is a      *)
(* record: month[ym] holds how many priced hours it has in month ym and    *)
(* what it paid on average in them, in cents; median is its median hour.   *)
(***************************************************************************)
EXTENDS Valuation, Calendar, SequencesExt

\* _shift(y, m, k)
Shift(ym, k) ==
    LET i == 12 * ym[1] + ym[2] - 1 + k IN <<i \div 12, (i % 12) + 1>>

\* window(target): the ten months ending four before delivery and its month two
\* years back are fitted, the two months after them are the tail.
Window(target) ==
    [fit |-> <<Shift(target, -24)>> \o [k \in 1 .. 10 |-> Shift(target, k - 14)],
     tail |-> <<Shift(target, -3), Shift(target, -2)>>,
     target |-> <<Shift(target, -24), Shift(target, -12)>>]

\* The months of a sequence that path p has at least so many priced hours in,
\* and what it paid in them.
Priced(p, months, least) ==
    Among(months, {ym \in DOMAIN p.month : p.month[ym].hours >= least})

Paid(p, months, least) ==
    LET priced == Priced(p, months, least)
    IN  [i \in DOMAIN priced |-> p.month[priced[i]].paid]

Hours(p, months) ==
    FoldSeq(LAMBDA ym, n : n + p.month[ym].hours, 0, Priced(p, months, 1))

\* mean > 3 * median, over the fitted hours.
SpikeDriven(p, months) ==
    LET money == FoldSeq(LAMBDA ym, n : n + p.month[ym].hours * p.month[ym].paid, 0,
                         Priced(p, months, 1))
    IN  p.median > 0 /\ money > 3 * p.median * Hours(p, months)

\* The haircut in percent.
Trim(p, months) ==
    (IF p.stale THEN 30 ELSE 0) + (IF SpikeDriven(p, months) THEN 25 ELSE 0)

Dropped == [verdict |-> "dropped"]

MIN_HOURS == 2000

MarketValue(p, W) ==
    ValueMonths(Paid(p, W.fit, 100), Paid(p, W.tail, 100), Paid(p, W.target, 100))

\* The clearing basis: the sum of the clears of the (at most three) latest
\* auctions, by the time they were ingested, newest first.
Basis(clears) == [sum |-> Total(SubSeq(clears, 1, Least(3, Len(clears)))),
                  n |-> Least(3, Len(clears))]

\* market_scan.main, one combination of the universe: it is valued, put aside as
\* faded or kept, with its ceiling in 1/1200 cents.
MarketRow(p, target) ==
    LET W == Window(target)
        v == MarketValue(p, W)
        b == Basis(p.clears)
        ceiling == v.typical * (100 - Least(Trim(p, W.fit), 75))
    IN  IF Hours(p, W.fit) < MIN_HOURS \/ v = NoValue THEN Dropped
        ELSE IF \/ ceiling < 12000 \/ b.sum < 5 * b.n \/ Len(p.clears) < 3
                \/ 4 * ceiling * b.n <= 6000 * b.sum
                \/ ceiling * b.n - 1200 * b.sum < 12000 * b.n THEN Dropped
        ELSE [verdict |-> IF v.fading THEN "faded" ELSE "kept", ceiling |-> ceiling,
              typical |-> v.typical, median2 |-> v.median2]

\* discover_paths.main, one candidate: the winners' position p, held in auctions
\* that cleared at p.clears on average, and not in the reference book.
DiscoverRow(p, target) ==
    LET W == Window(target)
        v == MarketValue(p, W)
        ceiling == v.typical * (100 - Least(Trim(p, W.fit), 75))
        sum == Total(p.clears)
        n == Len(p.clears)
    IN  IF p.known \/ Hours(p, W.fit) < MIN_HOURS \/ v = NoValue THEN Dropped
        ELSE IF v.fading \/ (sum > 0 /\ ceiling * n < 1800 * sum) \/ ceiling <= 6000
             THEN Dropped
        ELSE [verdict |-> "kept", ceiling |-> ceiling,
              typical |-> v.typical, median2 |-> v.median2]

-----------------------------------------------------------------------------
(* lt_strip_scan.main: the six single months of the 1st-6 strip of a year. *)

STRIP == 1 .. 6

StripFit(year) ==
    [k \in 1 .. 3 |-> <<year - 2, k + 9>>] \o [k \in 1 .. 7 |-> <<year - 1, k>>]

StripTail(year) == <<<<year - 1, 8>>, <<year - 1, 9>>>>

\* Same-calendar-month history; months before the archive drop out.
Seasonal(year, m) ==
    LET years == {y \in {year - 2, year - 1} : 12 * y + m >= 12 * 2024 + 7}
    IN  Among(<<<<year - 2, m>>, <<year - 1, m>>>>, {<<y, m>> : y \in years})

\* The worse of the same-month years, or nothing if one of them is not priced.
StripValue(p, year, m) ==
    LET ss == Seasonal(year, m)
        paid == Paid(p, ss, 40)
    IN  IF ss = <<>> \/ Len(paid) < Len(ss) THEN {} ELSE {Min(ToSet(paid))}

\* A row of the sheet for month m, if there is one; limits in thirds of a cent.
\* p.seqs lists [clear, mw] of the prior sequences, the most recent sale first.
StripRow(p, year, m) ==
    LET v == ValueMonths(Paid(p, StripFit(year), 40), Paid(p, StripTail(year), 40), <<>>)
        clear == p.seqs[1].clear
        depth == FoldSeq(LAMBDA s, n : n + s.mw, 0, p.seqs) \div (2 * Len(p.seqs))
        Limit(value) == IF clear < 50 THEN Least(2 * value, Greatest(9 * clear, 30))
                                      ELSE 2 * value
    IN  IF v = NoValue \/ Len(p.seqs) < 2 THEN {}
        ELSE {[value |-> value, clear |-> clear, limit |-> Limit(value),
               mw |-> Greatest(1, Least(25, depth))] :
              value \in {x \in StripValue(p, year, m) :
                          /\ ~v.fading
                          /\ x > 0 /\ clear >= 5 /\ x - clear >= 10
                          /\ Limit(x) > 3 * clear}}

\* An award of the book, of the months first to last of the strip, marked on the
\* same values and the months' block hours; a month without a value is unpriced.
BookMark(p, hours, year, first, last, mw) ==
    LET months == {m \in STRIP : first <= m /\ m <= last}
        priced == {m \in months : StripValue(p, year, m) # {}}
        Value(m) == CHOOSE x \in StripValue(p, year, m) : TRUE
    IN  [worth |-> SumFunction([m \in priced |-> Value(m) * hours[<<<<year, m>>, p.tou>>] * mw]),
         unpriced |-> Cardinality(months \ priced)]
=============================================================================
