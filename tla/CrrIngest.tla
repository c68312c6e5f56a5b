----------------------------- MODULE CrrIngest ------------------------------
(***************************************************************************)
(* ercot/crr.py: the scheduled load of CRR auction results.  A run takes   *)
(* the newest reports of the listing one by one, and writes the awards, *)
(* the point prices and the bids of each in transactions of their own.     *)
(***************************************************************************)
EXTENDS Integers, Sequences, FiniteSets, SequencesExt

CONSTANTS
    Auction,    \* the auctions
    PointPrice, \* what a report prices: records [node, tou, month, price], per auction
    Limit,      \* how many of the newest reports a run takes
    MaxFaults   \* bound: how many failures happen

\* A report has one price per node, block and month (the comment at crr.py:160).
ASSUME ReportAssumption ==
    \A a \in Auction : \A r, s \in PointPrice[a] :
        r.node = s.node /\ r.tou = s.tou /\ r.month = s.month => r.price = s.price

ASSUME LimitAssumption == Limit \in Nat

VARIABLES
    posted,     \* ERCOT's listing: the auctions with results, newest first
    table,      \* table[t]: the auctions whose rows table t holds
    points,     \* crr_point_prices: price by auction, node, tou and month
    view,       \* the auctions that crr_pnl, the materialised view, shows
    ingest,     \* the run under way
    faults      \* how many failures there have been

crrVars == <<posted, table, points, view, ingest, faults>>

Tables == {"crr_awards", "crr_bids"}

Idle == [running |-> FALSE, docs |-> <<>>, step |-> 1]

\* Mutant of PointKey: without the month, as it was before 2026-10-16.
PointKeyMonthless(a, r) == [auction |-> a, node |-> r.node, tou |-> r.tou]

\* POINT_PRICE_KEY
PointKey(a, r) == [auction |-> a, node |-> r.node, tou |-> r.tou, month |-> r.month]

\* point_price_rows, written by an upsert on the key: a price for every key.
PointPrices(a) ==
    LET keys == {PointKey(a, r) : r \in PointPrice[a]}
    IN  {f \in [keys -> {r.price : r \in PointPrice[a]}] :
            \A k \in keys : \E r \in PointPrice[a] : k = PointKey(a, r) /\ f[k] = r.price}

CrrInit ==
    /\ posted = <<>>
    /\ table = [t \in Tables |-> {}]
    /\ points = <<>>
    /\ view = {}
    /\ ingest = Idle
    /\ faults = 0

\* ERCOT posts the results of an auction.
PostResults(a) ==
    /\ a \notin Range(posted)
    /\ posted' = <<a>> \o posted
    /\ UNCHANGED <<table, points, view, ingest, faults>>

\* ingest_recent: the newest reports of the listing.
StartIngest ==
    /\ ~ingest.running /\ posted # <<>>
    /\ ingest' = [Idle EXCEPT !.running = TRUE,
                              !.docs = SubSeq(posted, 1, IF Len(posted) < Limit
                                                         THEN Len(posted) ELSE Limit)]
    /\ UNCHANGED <<posted, table, points, view, faults>>

\* Mutant of AfterStep: the next report does not begin with its awards.
AfterStepOnly ==
    [ingest EXCEPT !.step = @ + 1, !.docs = IF ingest.step < 3 THEN @ ELSE Tail(@)]

\* Where a run is after it has written a table: at the next one, or the next report.
AfterStep ==
    IF ingest.step < 3 THEN [ingest EXCEPT !.step = @ + 1]
                       ELSE [ingest EXCEPT !.step = 1, !.docs = Tail(@)]

\* ingest_auction goes on: the auction with its awards, the point prices, the bids.
LoadStep ==
    /\ ingest.running /\ ingest.docs # <<>>
    /\ LET a == Head(ingest.docs)
           Write(t) == table' = [table EXCEPT ![t] = @ \cup {a}]
       IN  /\ \/ ingest.step = 1 /\ Write("crr_awards") /\ UNCHANGED points
              \/ /\ ingest.step = 2
                 /\ \E new \in PointPrices(a) :
                        points' = [k \in DOMAIN points \cup DOMAIN new |->
                                    IF k \in DOMAIN new THEN new[k] ELSE points[k]]
                 /\ UNCHANGED table
              \/ ingest.step = 3 /\ Write("crr_bids") /\ UNCHANGED points
           /\ ingest' = AfterStep
    /\ UNCHANGED <<posted, view, faults>>

\* A download, the zip or a write fails: this report is left, the next is tried.
ReportFails ==
    /\ ingest.running /\ ingest.docs # <<>> /\ faults < MaxFaults
    /\ ingest' = [ingest EXCEPT !.step = 1, !.docs = Tail(@)]
    /\ faults' = faults + 1
    /\ UNCHANGED <<posted, table, points, view>>

\* ingest_job ends: it refreshes the view, which may fail.
EndIngest ==
    /\ ingest.running /\ ingest.docs = <<>>
    /\ \/ view' = table["crr_awards"] /\ UNCHANGED faults
       \/ faults < MaxFaults /\ faults' = faults + 1 /\ UNCHANGED view
    /\ ingest' = Idle
    /\ UNCHANGED <<posted, table, points>>

\* The process is replaced in the middle of a run.
IngestDies ==
    /\ ingest.running /\ faults < MaxFaults
    /\ ingest' = Idle
    /\ faults' = faults + 1
    /\ UNCHANGED <<posted, table, points, view>>

IngestStep ==
    \/ StartIngest \/ LoadStep \/ ReportFails \/ EndIngest \/ IngestDies
=============================================================================
