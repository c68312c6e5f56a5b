------------------------------- MODULE Grading -------------------------------
(***************************************************************************)
(* The daily grading (ercot/scoring.py) of the paper bids and the sheet     *)
(* snapshots that were frozen before an auction, against the results that  *)
(* CrrIngest loads and the day-ahead prices of dam_spp.                    *)
(* All paths share the two endpoints of Endpoint; a key is a path with its *)
(* block and hedge type.  What hours paid is abstracted to the set of days *)
(* whose prices were summed.                                               *)
(***************************************************************************)
EXTENDS CrrIngest, FiniteSetsExt

CONSTANTS
    Endpoint,   \* the settlement points of the paths
    Awarded,    \* by auction: what it sold, records [key, first, last, price, mw]
    PaperBid,   \* records [batch, auction, key, month, mw, limit]
    SheetRow,   \* records [sheet, auction, key, month, mw, limit]
    MonthDays,  \* bound: days of a delivery month
    LastMonth,  \* bound: months
    Pass,       \* bound: the scoring passes that may overlap
    None        \* SQL's null

ASSUME GradingAssumption ==
    /\ MonthDays \in Nat \ {0} /\ LastMonth \in Nat \ {0}
    /\ PaperBid \cap SheetRow = {}
    /\ \A b \in PaperBid \cup SheetRow :
            b.month \in 1 .. LastMonth /\ b.auction \in Auction /\ b.mw \in Nat
    /\ \A a \in Auction : /\ IsFiniteSet(Awarded[a])
                         /\ \A w \in Awarded[a] : w.price \in Int /\ w.mw \in Nat

VARIABLES
    over,       \* how many months are over
    dam,        \* the days that dam_spp holds of each endpoint
    skipped,    \* history: the months of which a day came before an earlier one
    row,        \* the scoring columns of each bid and row
    pass        \* the scoring passes under way

gradeVars == <<over, dam, skipped, row, pass>>
vars == <<crrVars, gradeVars>>

Row == PaperBid \cup SheetRow
IsPaper(b) == b \in PaperBid
RegisterOf(b) == IF IsPaper(b) THEN <<"paper", b.batch>> ELSE <<"sheet", b.sheet>>
Register == {RegisterOf(b) : b \in Row}
RowsOf(r) == {b \in Row : RegisterOf(b) = r}
AuctionOf(r) == (CHOOSE b \in RowsOf(r) : TRUE).auction

\* month_window
DaysOf(m) == MonthDays * (m - 1) + 1 .. MonthDays * m

LastDay(m) == MonthDays * m

\* A column is null, or holds a value.
ASSUME NullAssumption ==
    /\ None \notin BOOLEAN
    /\ \A m \in 1 .. LastMonth : \A days \in SUBSET DaysOf(m) : days # None
    /\ None \notin [sum : Int, n : Nat]
    /\ None \notin [days : SUBSET Nat, clear : [sum : Int, n : Nat], mw : Nat]

Unscored == [clear |-> None, cleared |-> None, realized |-> None, pnl |-> None]

NoPass == [phase |-> "idle", todo |-> {}, staged |-> <<>>]

Init ==
    /\ CrrInit
    /\ over = 0
    /\ dam = [e \in Endpoint |-> {}] /\ skipped = {}
    /\ row = [b \in Row |-> Unscored]
    /\ pass = [p \in Pass |-> NoPass]

-----------------------------------------------------------------------------
(* The world: time, the day-ahead prices.                                  *)

\* A month ends.  ERCOT posts the results of an auction before its first month does.
MonthEnds ==
    /\ over < LastMonth
    /\ Range(posted) = Auction
    /\ over' = over + 1
    /\ UNCHANGED <<crrVars, dam, skipped, row, pass>>

\* The prices of an endpoint for a day are loaded, before the day or late: the job
\* asks for today and tomorrow, and a day it misses twice over is loaded by hand, when
\* later ones may be there.
LoadDam(e) ==
    \E d \in 1 .. MonthDays * LastMonth :
        /\ d <= MonthDays * (over + 1) /\ d \notin dam[e]
        /\ dam' = [dam EXCEPT ![e] = @ \cup {d}]
        /\ skipped' = skipped \cup {m \in 1 .. LastMonth :
               d \in DaysOf(m) /\ \E x \in DaysOf(m) : x < d /\ x \notin dam[e]}
        /\ UNCHANGED <<crrVars, over, row, pass>>

-----------------------------------------------------------------------------
(* Grades.                                                                 *)

\* The clear of a bid: of its own delivery window or, if nothing traded in exactly
\* that one, the average over the windows; as a sum over n.
Clear(b) ==
    LET sold == {w \in Awarded[b.auction] : w.key = b.key}
        own == {w \in sold : w.first = b.month /\ w.last = b.month}
        basis == IF own # {} /\ IsPaper(b) THEN own ELSE sold
    IN  IF basis = {} THEN None
        ELSE [sum |-> MapThenSumSet(LAMBDA w : w.price, basis), n |-> Cardinality(basis)]

Filled(b) == Clear(b) # None /\ b.limit * Clear(b).n >= Clear(b).sum

\* Paper fills are capped at what the auction awarded on the path; a sheet's red
\* rows count as one megawatt.
Size(b) ==
    IF IsPaper(b)
    THEN LET sold == MapThenSumSet(LAMBDA w : w.mw, {w \in Awarded[b.auction] : w.key = b.key})
         IN  IF b.mw <= sold THEN b.mw ELSE sold
    ELSE IF b.mw = 0 THEN 1 ELSE b.mw

\* The days of a bid's month that dam_spp has both endpoints of.
Priced(b) == {d \in DaysOf(b.month) : \A e \in Endpoint : d \in dam[e]}

\* Mutant of Settled: the month is over.
MonthIsOver(b) == b.month <= over

\* is_settled, which looks at the last day only, and for a sheet month_over.
Settled(b) ==
    /\ b.month <= over
    /\ IsPaper(b) => \A e \in Endpoint : LastDay(b.month) \in dam[e]
    /\ ~IsPaper(b) => Clear(b) # None

\* What a pass computes for a bid, null where there is nothing to say yet.  (The mark
\* to date of a month under way, which nothing reads back, is left out.)
Grade(b) ==
    LET realized == IF Settled(b) /\ Priced(b) # {} THEN Priced(b) ELSE None
    IN  [clear |-> Clear(b), cleared |-> Filled(b), realized |-> realized,
         pnl |-> IF realized # None /\ Filled(b) = TRUE
                 THEN [days |-> realized, clear |-> Clear(b), mw |-> Size(b)] ELSE None]

\* Mutant of Coalesce: the columns are set outright.
Overwrite(new, old) == new

\* SQL's coalesce.
Coalesce(new, old) == IF new # None THEN new ELSE old

\* The UPDATE: the fill is replaced, a value is only replaced by a value.
Merge(new, old) ==
    [clear |-> new.clear, cleared |-> new.cleared,
     realized |-> Coalesce(new.realized, old.realized),
     pnl |-> Coalesce(new.pnl, old.pnl)]

\* Mutant of Pending: a bid is done once its fill is known.
FillPending(b) == row[b].cleared = None

\* A row keeps its batch or sheet in scope.
Pending(b) ==
    \/ row[b].cleared = None
    \/ row[b].cleared = TRUE /\ row[b].pnl = None
    \/ row[b].realized = None

\* The batches or the sheets in scope.
Scope(kind) == {r \in Register : r[1] = kind /\ \E b \in RowsOf(r) : Pending(b)}

-----------------------------------------------------------------------------
(* One scoring pass: the batches in scope, then the sheets.                *)

BeginPass(p) ==
    /\ pass[p] = NoPass
    /\ Scope("paper") \cup Scope("sheet") # {}
    /\ pass' = [pass EXCEPT ![p] = [NoPass EXCEPT !.phase = "paper", !.todo = Scope("paper")]]
    /\ UNCHANGED <<crrVars, over, dam, skipped, row>>

\* The awards of a register's auction are read, and without any it has to wait; then
\* its bids, of a sheet the rows that are not done, and their prices, and they are
\* graded.  (Awards do not change once they are loaded: reading them and the prices
\* at once loses nothing.)
ReadAndGrade(p) ==
    /\ pass[p].staged = <<>>
    /\ \E r \in pass[p].todo :
        LET rows == {b \in RowsOf(r) :
                       IsPaper(b) \/ row[b].cleared = None \/ row[b].realized = None}
        IN  pass' = IF AuctionOf(r) \notin table["crr_awards"] \/ rows = {}
                    THEN [pass EXCEPT ![p].todo = @ \ {r}]
                    ELSE [pass EXCEPT ![p].todo = @ \ {r}, ![p].staged = [b \in rows |-> Grade(b)]]
    /\ UNCHANGED <<crrVars, over, dam, skipped, row>>

\* The updates are committed.
CommitGrades(p) ==
    /\ pass[p].staged # <<>>
    /\ row' = [b \in Row |-> IF b \in DOMAIN pass[p].staged
                             THEN Merge(pass[p].staged[b], row[b]) ELSE row[b]]
    /\ pass' = [pass EXCEPT ![p].staged = <<>>]
    /\ UNCHANGED <<crrVars, over, dam, skipped>>

\* score_all goes on with score_sheets, and ends.
NextPhase(p) ==
    /\ pass[p].phase # "idle" /\ pass[p].todo = {} /\ pass[p].staged = <<>>
    /\ pass' = [pass EXCEPT ![p] = IF pass[p].phase = "paper"
                                   THEN [NoPass EXCEPT !.phase = "sheet", !.todo = Scope("sheet")]
                                   ELSE NoPass]
    /\ UNCHANGED <<crrVars, over, dam, skipped, row>>

\* The process is replaced, or the database raises: what is not committed is lost.
PassFails(p) ==
    /\ pass[p] # NoPass /\ faults < MaxFaults
    /\ pass' = [pass EXCEPT ![p] = NoPass]
    /\ faults' = faults + 1
    /\ UNCHANGED <<posted, table, points, view, ingest, over, dam, skipped, row>>

PassStep(p) ==
    BeginPass(p) \/ ReadAndGrade(p) \/ CommitGrades(p) \/ NextPhase(p)

Next ==
    \/ (\E a \in Auction : PostResults(a)) /\ UNCHANGED gradeVars
    \/ IngestStep /\ UNCHANGED gradeVars
    \/ MonthEnds
    \/ \E e \in Endpoint : LoadDam(e)
    \/ \E p \in Pass : PassStep(p) \/ PassFails(p)

Spec == Init /\ [][Next]_vars

\* The jobs are scheduled again every day, prices arrive and time goes on.
Fairness ==
    /\ WF_over(MonthEnds)
    /\ \A e \in Endpoint : WF_dam(LoadDam(e))
    /\ WF_vars((StartIngest \/ LoadStep \/ EndIngest) /\ UNCHANGED gradeVars)
    /\ \A p \in Pass : WF_pass(PassStep(p))

FairSpec == Spec /\ Fairness

-----------------------------------------------------------------------------
(* Properties.                                                             *)

GradeType ==
    [clear : {None} \cup [sum : Int, n : Nat], cleared : {None} \cup BOOLEAN,
     realized : {None} \cup SUBSET Nat,
     pnl : {None} \cup [days : SUBSET Nat, clear : [sum : Int, n : Nat], mw : Nat]]

\* The tables hold what their columns allow, and a pass only what it has to do.
TypeOK ==
    /\ \A t \in Tables : table[t] \subseteq Range(posted)
    /\ Range(posted) \subseteq Auction /\ view \subseteq table["crr_awards"]
    /\ ingest.step \in 1 .. 3 /\ (ingest.running \/ ingest = Idle)
    /\ over \in Nat /\ dam \in [Endpoint -> SUBSET Nat] /\ skipped \subseteq 1 .. LastMonth
    /\ row \in [Row -> GradeType]
    /\ \A p \in Pass : pass[p].todo \subseteq Register /\ DOMAIN pass[p].staged \subseteq Row

\* A paper bid is realized no sooner than its last day is priced at both endpoints, and
\* then over its whole month unless a day of that month came out of order; its P&L is
\* over the same hours, of a bid that filled, at no more than the auction awarded:
\* however passes overlap, fail and meet late prices.
GradedInFull ==
    \A b \in PaperBid :
        /\ row[b].realized # None =>
            /\ LastDay(b.month) \in row[b].realized
            /\ b.month \notin skipped => row[b].realized = DaysOf(b.month)
        /\ row[b].cleared = TRUE /\ row[b].realized # None => row[b].pnl # None
        /\ row[b].pnl # None =>
            /\ row[b].cleared = TRUE /\ row[b].pnl.days = row[b].realized
            /\ row[b].pnl.mw <= MapThenSumSet(LAMBDA w : w.mw,
                                    {w \in Awarded[b.auction] : w.key = b.key})

\* "Settlement once the delivery month completes, same basis as score_paper": a sheet
\* row is realized over its whole month.
SheetsGradedInFull ==
    \A b \in SheetRow : row[b].realized # None => row[b].realized = DaysOf(b.month)

\* What is scored stays scored: no pass, however late it commits, takes back a fill, a
\* value or a P&L of a paper bid, nor changes one but in a month with a day out of order.
RegisterKeeps ==
    [][\A b \in PaperBid :
            /\ row[b].cleared # None => row'[b].cleared = row[b].cleared
            /\ row[b].realized # None =>
                /\ row'[b].realized # None
                /\ b.month \notin skipped => row'[b].realized = row[b].realized
            /\ row[b].pnl # None =>
                /\ row'[b].pnl # None
                /\ b.month \notin skipped => row'[b].pnl = row[b].pnl]_vars

\* Once an auction's bids are loaded its point prices are too, one for each node, block
\* and month of the report: of the same node no month hides another.
EveryMonthPriced ==
    \A a \in table["crr_bids"] : \A r \in PointPrice[a] :
        \E k \in DOMAIN points : /\ k.auction = a /\ k.node = r.node /\ k.tou = r.tou
                                 /\ points[k] = r.price

\* Once an auction is posted, every bid of it is graded in the end, fill, value and
\* P&L, and so is every row of a sheet that traded; and the view follows.
EveryBidGraded ==
    <>[](/\ \A b \in Row :
               b.auction \in Range(posted) /\ (IsPaper(b) \/ Clear(b) # None) =>
                   /\ row[b].cleared # None /\ row[b].realized # None
                   /\ row[b].cleared => row[b].pnl # None
         /\ view = Range(posted))
=============================================================================
