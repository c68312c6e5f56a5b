------------------------------ MODULE BookBids -------------------------------
(***************************************************************************)
(* strategy/bid_ceiling.py and strategy/auction_prep.py: two programs that *)
(* read the same book, value its paths alike and must tell the trader the  *)
(* same.  A path k of the book has, where known,                           *)
(*   hist[k]     mean and median payout (in tenths of a cent) and hours,   *)
(*   clears[k]   what it cleared at on average, in tenths of a cent,       *)
(*   drivers[k]  per endpoint, which of its constraints were re-rated.     *)
(* A row of the book is [path, side, mw, bid], mw in tenths of a megawatt.  *)
(***************************************************************************)
EXTENDS Integers, Sequences, FiniteSets, SequencesExt

PathsOf(book) == {book[i].path : i \in DOMAIN book}

\* agg[k]: megawatts, and money bid, of the rows of path k - whatever their side.
Aggregate(book, k) ==
    FoldSeq(LAMBDA r, a : IF r.path # k THEN a
                          ELSE [mw |-> a.mw + r.mw, cost |-> a.cost + r.bid * r.mw],
            [mw |-> 0, cost |-> 0], book)

\* stale(node): one of the first three drivers of a node changed.
Stale(drivers) ==
    \E node \in DOMAIN drivers : \E i \in DOMAIN drivers[node] : i <= 3 /\ drivers[node][i]

\* bid_ceiling: the haircuts stack, floored at a quarter of the raw value.
Haircut(v, stale) ==
    LET cut == (IF stale THEN 30 ELSE 0) + (IF v.hours < 1500 THEN 20 ELSE 0)
                + (IF v.median > 0 /\ v.mean > 3 * v.median THEN 25 ELSE 0)
    IN  IF cut > 75 THEN 75 ELSE cut

\* vals: the paths with enough priced hours to be valued.
Valued(m) == {k \in DOMAIN m.hist : m.hist[k].hours >= 100}

\* bid_ceiling's row of path k; the ceiling in thousandths of a cent.
Verdict(m, k) ==
    IF k \notin Valued(m) THEN [verdict |-> "cannot value"]
    ELSE LET v == m.hist[k]
             a == Aggregate(m.book, k)
             ceiling == v.mean * (100 - Haircut(v, Stale(m.drivers[k])))
             clear == IF k \in DOMAIN m.clears THEN {100 * m.clears[k]} ELSE {}
         IN  [ceiling |-> ceiling,
              verdict |->
                CASE ceiling <= 0 -> "no value"
                  [] ceiling > 0 /\ \E c \in clear : c > ceiling -> "clears above"
                  [] ceiling > 0 /\ (\A c \in clear : c <= ceiling)
                        /\ 100 * a.cost > ceiling * a.mw -> "lower"
                  [] OTHER -> IF \E c \in clear : ceiling > 3 * c THEN "strong" ELSE "ok"]

\* round(ceiling, 2): the nearest cent, a tie to the even one.
Cents(x) ==
    LET q == x \div 1000
        r == x % 1000
    IN  IF r < 500 \/ (r = 500 /\ q % 2 = 0) THEN q ELSE q + 1

\* Mutant of Upload: the trim is left to the review workbook.
UploadUntrimmed(m) ==
    {[path |-> k, price |-> Cents(100 * m.hist[k].mean),
      mw |-> Aggregate(m.book, k).mw \div 10] :
     k \in {x \in PathsOf(m.book) \cap Valued(m) : m.hist[x].mean > 10}}

\* auction_prep: the lines of the upload file, every one of them to BUY, and int(mw)
\* megawatts of it (a book has no negative sizes).
Upload(m) ==
    LET Cut(v, k) == (IF Stale(m.drivers[k]) THEN 30 ELSE 0)
                     + (IF v.hours < 1500 THEN 20 ELSE 0)
                     + (IF v.median > 0 /\ v.mean > 3 * v.median THEN 25 ELSE 0)
        Ceiling(k) == m.hist[k].mean * (100 - IF Cut(m.hist[k], k) > 75 THEN 75
                                              ELSE Cut(m.hist[k], k))
    IN  {[path |-> k, price |-> Cents(Ceiling(k)), mw |-> Aggregate(m.book, k).mw \div 10] :
         k \in {x \in PathsOf(m.book) \cap Valued(m) :
                 /\ Ceiling(x) > 1000
                 /\ x \in DOMAIN m.clears => 100 * m.clears[x] <= Ceiling(x)}}
=============================================================================
