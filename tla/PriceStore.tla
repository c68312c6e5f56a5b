---------------------------- MODULE PriceStore -----------------------------
(***************************************************************************)
(* A price table (dam_spp, rt_spp or rt_lmp_5min) with its history table,  *)
(* the jobs that load it, and the *_asof functions that read it.           *)
(*                                                                         *)
(* A job fetches an ERCOT report, and db.upsert_rows writes what it holds  *)
(* in one transaction of two statements: an UPDATE of the rows that        *)
(* differ, whose trigger capture_price_revision moves a replaced price to  *)
(* the history table, then an INSERT ... ON CONFLICT DO NOTHING of the     *)
(* rows that are missing.  now() is the start of that transaction.         *)
(***************************************************************************)
EXTENDS Integers, FiniteSets

CONSTANTS
    Key,          \* (settlement_point, interval_start) pairs
    Price,        \* prices
    Writer,       \* the jobs, backfills and processes that load the table
    NoRow,        \* no row under a key
    NoQuote,      \* nothing to write under a key
    NoPrice,      \* an as-of read that finds nothing
    RowsPerKey,   \* how many rows of one report can map to one key
    MaxRev,       \* bound: publications by ERCOT
    MaxClock      \* bound: ticks of the database clock

ASSUME BoundsAssumption ==
    /\ RowsPerKey \in Nat \ {0}
    /\ MaxRev \in Nat
    /\ MaxClock \in Nat

ASSUME NullsAssumption ==
    /\ NoPrice \notin Price
    /\ \A p \in Price, r \in 1 .. MaxRev : [price |-> p, rev |-> r] # NoQuote
    /\ \A p \in Price, r \in 1 .. MaxRev, s, t, u \in 0 .. MaxClock :
          [price |-> p, rev |-> r, price_from |-> s, ingested_at |-> t,
           updated_at |-> u] # NoRow

Time == 0 .. MaxClock
Rev == 1 .. MaxRev

\* A report row: rev stands for the updated columns other than the price
\* (posted_at, sced_timestamp, the components) and counts publications.
Quote == [price : Price, rev : Rev]

Row == [price : Price, rev : Rev, price_from : Time, ingested_at : Time,
        updated_at : Time]

HistoryRow == [key : Key, price : Price, price_from : Time, price_to : Time,
               ingested_at : Time]

VARIABLES
    clock,      \* the database clock
    report,     \* report[k]: the rows ERCOT publishes that map to key k
    lastRev,    \* how many publications there have been
    published,  \* every publication, with its time: read by properties only
    live,       \* the price table
    history,    \* its history table
    pc,         \* where each writer is
    batch,      \* batch[w][k]: the rows writer w fetched
    began,      \* now() of writer w's transaction
    changed,    \* changed[w][k]: the uncommitted update of row k by writer w
    seen,       \* seen[w][k]: the publication row k held when writer w fetched:
                \* read by properties only, like
    overlapped  \* have two transactions been open at once

ercot == <<report, lastRev, published>>
tables == <<live, history>>
notes == <<seen, overlapped>>
vars == <<clock, ercot, tables, pc, batch, began, changed, notes>>

Nothing == [k \in Key |-> {}]
NoChange == [k \in Key |-> NoQuote]
NothingSeen == [k \in Key |-> 0]

Init ==
    /\ clock = 0
    /\ report = Nothing
    /\ lastRev = 0
    /\ published = {}
    /\ live = [k \in Key |-> NoRow]
    /\ history = {}
    /\ pc = [w \in Writer |-> "idle"]
    /\ batch = [w \in Writer |-> Nothing]
    /\ began = [w \in Writer |-> 0]
    /\ changed = [w \in Writer |-> NoChange]
    /\ seen = [w \in Writer |-> NothingSeen]
    /\ overlapped = FALSE

Tick ==
    /\ clock < MaxClock
    /\ clock' = clock + 1
    /\ UNCHANGED <<ercot, tables, pc, batch, began, changed, notes>>

\* ERCOT publishes a price for k: a restatement of the row the report had, or
\* one more row that maps to the same key.
Publish(k, p) ==
    LET q == [price |-> p, rev |-> lastRev + 1]
    IN  /\ lastRev < MaxRev
        /\ lastRev' = lastRev + 1
        /\ \/ report' = [report EXCEPT ![k] = {q}]
           \/ /\ Cardinality(report[k]) < RowsPerKey
              /\ report' = [report EXCEPT ![k] = @ \cup {q}]
        /\ published' = published \cup {[key |-> k, price |-> p, at |-> clock]}
        /\ UNCHANGED <<clock, tables, pc, batch, began, changed, notes>>

\* A loader reads the part of the report its window K covers, for the temporary
\* table, which the end of the last transaction has dropped.  Without a row
\* upsert_rows returns at once, and nothing has happened.
Fetch(w, K) ==
    /\ pc[w] = "idle"
    /\ \E k \in K : report[k] # {}
    /\ batch' = [batch EXCEPT ![w] =
                    [k \in Key |-> @[k] \cup (IF k \in K THEN report[k] ELSE {})]]
    /\ seen' = [seen EXCEPT ![w] =
                   [k \in Key |-> IF live[k] = NoRow THEN 0 ELSE live[k].rev]]
    /\ pc' = [pc EXCEPT ![w] = "fetched"]
    /\ UNCHANGED <<clock, ercot, tables, began, changed, overlapped>>

\* Writer w is in a transaction.
InTransaction(w) == pc[w] \in {"open", "updated"}

\* The temporary table is created and filled: the transaction's now() is fixed.
Begin(w) ==
    /\ pc[w] = "fetched"
    /\ began' = [began EXCEPT ![w] = clock]
    /\ pc' = [pc EXCEPT ![w] = "open"]
    /\ overlapped' = (overlapped \/ \E v \in Writer : InTransaction(v))
    /\ UNCHANGED <<clock, ercot, tables, batch, changed, seen>>

\* Mutants of Differs: every row counts as changed, or only a new price does.
DiffersAlways(row, q) == TRUE
DiffersInPrice(row, q) == row.price # q.price

\* is distinct from, over the columns upsert_rows is told to update.
Differs(row, q) == row.price # q.price \/ row.rev # q.rev

\* The fetched rows that would change the row under k.
Candidates(w, k) ==
    IF live[k] = NoRow THEN {} ELSE {q \in batch[w][k] : Differs(live[k], q)}

LockedByOther(w, k) == \E v \in Writer \ {w} : changed[v][k] # NoQuote

\* UPDATE ... FROM tmp: each row that differs takes the values of one of the
\* fetched rows that match it; a row another transaction has updated is waited
\* for.
Update(w) ==
    /\ pc[w] = "open"
    /\ \A k \in Key : Candidates(w, k) # {} => ~LockedByOther(w, k)
    /\ \E c \in [Key -> Quote \cup {NoQuote}] :
          /\ \A k \in Key : IF Candidates(w, k) = {} THEN c[k] = NoQuote
                                                     ELSE c[k] \in Candidates(w, k)
          /\ changed' = [changed EXCEPT ![w] = c]
    /\ pc' = [pc EXCEPT ![w] = "updated"]
    /\ UNCHANGED <<clock, ercot, tables, batch, began, notes>>

\* Mutant of Revised: the trigger forgets to move price_from.
RevisedKeepsStamp(row, q, t) ==
    [price |-> q.price, rev |-> q.rev, price_from |-> row.price_from,
     ingested_at |-> row.ingested_at, updated_at |-> t]

\* capture_price_revision: the row that replaces row, in a transaction begun at t.
Revised(row, q, t) ==
    [price |-> q.price, rev |-> q.rev,
     price_from |-> IF q.price # row.price THEN t ELSE row.price_from,
     ingested_at |-> row.ingested_at, updated_at |-> t]

\* Mutant of Captured: the history row starts at the ingestion.
CapturedFromIngestion(k, row, t) ==
    [key |-> k, price |-> row.price, price_from |-> row.ingested_at,
     price_to |-> t, ingested_at |-> row.ingested_at]

\* capture_price_revision: the history row of a replaced price.
Captured(k, row, t) ==
    [key |-> k, price |-> row.price, price_from |-> row.price_from,
     price_to |-> t, ingested_at |-> row.ingested_at]

\* Mutant of Inserted: a column without its default.
InsertedUnstamped(q, t) ==
    [price |-> q.price, rev |-> q.rev, price_from |-> NoPrice, ingested_at |-> t,
     updated_at |-> t]

\* A new row: price_from, ingested_at and updated_at default to now().
Inserted(q, t) ==
    [price |-> q.price, rev |-> q.rev, price_from |-> t, ingested_at |-> t,
     updated_at |-> t]

Repriced(w) ==
    {k \in Key : changed[w][k] # NoQuote /\ changed[w][k].price # live[k].price}

\* Mutant of Finish: the temporary table outlives the transaction, and the rows of
\* one fetch are written with those of the next.
FinishKeepsTemp(w) ==
    /\ pc' = [pc EXCEPT ![w] = "idle"]
    /\ began' = [began EXCEPT ![w] = 0]
    /\ changed' = [changed EXCEPT ![w] = NoChange]
    /\ seen' = [seen EXCEPT ![w] = NothingSeen]
    /\ UNCHANGED batch

\* The end of a transaction: its temporary table is dropped, its locks freed.
Finish(w) ==
    /\ pc' = [pc EXCEPT ![w] = "idle"]
    /\ batch' = [batch EXCEPT ![w] = Nothing]
    /\ began' = [began EXCEPT ![w] = 0]
    /\ changed' = [changed EXCEPT ![w] = NoChange]
    /\ seen' = [seen EXCEPT ![w] = NothingSeen]

\* INSERT ... ON CONFLICT DO NOTHING, then COMMIT.  Of several rows under one
\* missing key the first wins.
Commit(w) ==
    /\ pc[w] = "updated"
    /\ \E new \in [Key -> Quote \cup {NoQuote}] :
          /\ \A k \in Key : IF live[k] = NoRow /\ batch[w][k] # {}
                            THEN new[k] \in batch[w][k] ELSE new[k] = NoQuote
          /\ live' = [k \in Key |->
                IF new[k] # NoQuote THEN Inserted(new[k], began[w])
                ELSE IF changed[w][k] # NoQuote
                     THEN Revised(live[k], changed[w][k], began[w])
                     ELSE live[k]]
    /\ history' = history \cup {Captured(k, live[k], began[w]) : k \in Repriced(w)}
    /\ Finish(w)
    /\ UNCHANGED <<clock, ercot, overlapped>>

\* The request, a statement or the process fails before the commit.
Abort(w) ==
    /\ pc[w] # "idle"
    /\ Finish(w)
    /\ UNCHANGED <<clock, ercot, tables, overlapped>>

Load(w) ==
    \/ \E K \in SUBSET Key : Fetch(w, K)
    \/ Begin(w) \/ Update(w) \/ Commit(w) \/ Abort(w)

Next ==
    \/ Tick
    \/ \E k \in Key, p \in Price : Publish(k, p)
    \/ \E w \in Writer : Load(w)

Spec == Init /\ [][Next]_vars

-----------------------------------------------------------------------------
(* The *_asof functions.                                                   *)

\* The rows of the union that match key k as of t.
Matches(k, t) ==
    {[price |-> h.price, from |-> h.price_from] :
        h \in {g \in history : g.key = k /\ g.price_from <= t /\ g.price_to > t}}
    \cup
    (IF live[k] # NoRow /\ live[k].price_from <= t /\ live[k].ingested_at <= t
     THEN {[price |-> live[k].price, from |-> live[k].price_from]} ELSE {})

\* select distinct on ... order by price_from desc
Newest(M) == {m \in M : \A n \in M : n.from <= m.from}

Answers(k, t) == {m.price : m \in Newest(Matches(k, t))}

AsOf(k, t) == IF Answers(k, t) = {} THEN NoPrice ELSE CHOOSE p \in Answers(k, t) : TRUE

-----------------------------------------------------------------------------
(* Properties.                                                             *)

TypeOK ==
    /\ clock \in Time
    /\ report \in [Key -> SUBSET Quote]
    /\ lastRev \in 0 .. MaxRev
    /\ published \subseteq [key : Key, price : Price, at : Time]
    /\ live \in [Key -> Row \cup {NoRow}]
    /\ history \subseteq HistoryRow
    /\ pc \in [Writer -> {"idle", "fetched", "open", "updated"}]
    /\ batch \in [Writer -> [Key -> SUBSET Quote]]
    /\ began \in [Writer -> Time]
    /\ changed \in [Writer -> [Key -> Quote \cup {NoQuote}]]
    /\ seen \in [Writer -> [Key -> 0 .. MaxRev]]
    /\ overlapped \in BOOLEAN

\* A read as of t never returns a price ERCOT had not published by t, however
\* the writers interleave: "values nobody could have known at trade time" are
\* what the *_asof functions exist to withhold.
NoLookahead ==
    \A k \in Key, t \in Time : \A p \in Answers(k, t) :
        \E e \in published : e.key = k /\ e.price = p /\ e.at <= t

\* No history row ends before it begins, and the row in force begins no
\* earlier than any history row of its key ends.
IntervalsForward ==
    \A h \in history :
        /\ h.ingested_at <= h.price_from
        /\ h.price_from <= h.price_to
        /\ live[h.key] # NoRow
        /\ h.price_to <= live[h.key].price_from

\* The intervals of a key do not overlap: an as-of read matches one row.
IntervalsDisjoint ==
    \A g, h \in history :
        (g.key = h.key /\ g # h) =>
            (g.price_to <= h.price_from \/ h.price_to <= g.price_from)

\* From its ingestion on, a key has a price as of every instant: each interval
\* begins at the ingestion or where another one ended.
StartsAt(k, t) == \E h \in history : h.key = k /\ h.price_to = t

IntervalsUnbroken ==
    /\ \A h \in history : h.price_from = h.ingested_at \/ StartsAt(h.key, h.price_from)
    /\ \A k \in Key : live[k] # NoRow =>
          (live[k].price_from = live[k].ingested_at \/ StartsAt(k, live[k].price_from))

Chain == IntervalsForward /\ IntervalsDisjoint /\ IntervalsUnbroken

\* However many jobs and processes load a table, one after another or with
\* fetches that overlap, and whichever of their transactions fail: as long as no
\* two transactions are open at once, the revision history of every key is a
\* chain of intervals from the first ingestion to the price in force.
HistoryChain == ~overlapped => Chain

Ends(w) == pc[w] = "updated" /\ pc'[w] = "idle"

\* Loads of one table overlap, and one that fetched before a restatement may write
\* after another has stored it: what it can take back is what others stored since
\* it fetched, never what the table held by then.  With one report row per key.
NeverOlderThanSeen ==
    [][\A w \in Writer, k \in Key :
          (Ends(w) /\ live'[k] # live[k]) => live'[k].rev >= seen[w][k]]_vars

\* Writing a batch whose every row is already stored changes neither table,
\* whoever stored it and when: "an unchanged re-pull produces no writes and no
\* spurious revision history".  With one report row per key.
Stored(w) ==
    \A k \in Key : batch[w][k] # {} =>
        live[k] # NoRow /\ [price |-> live[k].price, rev |-> live[k].rev] \in batch[w][k]

RepullWritesNothing ==
    [][\A w \in Writer :
          (Ends(w) /\ Stored(w)) => UNCHANGED tables]_vars

\* What as-of reads answer is the ledger of PriceLedger: a commit adds a
\* revision from its stamp on, and the answers for earlier instants stand, until
\* two transactions have been open at once.
Stamps == {0} \cup {live[k].price_from : k \in {j \in Key : live[j] # NoRow}}

Ledger == INSTANCE PriceLedger WITH
    voided <- overlapped,
    known <- [k \in Key |-> [t \in Time |-> AsOf(k, t)]],
    frontier <- CHOOSE t \in Stamps : \A s \in Stamps : s <= t

ImplementsLedger == Ledger!Spec

\* Once ERCOT stops restating what the loads still cover, the table comes to
\* hold what the report holds.
UpToDate ==
    \A k \in Key : report[k] # {} =>
        /\ live[k] # NoRow
        /\ [price |-> live[k].price, rev |-> live[k].rev] \in report[k]

Converges == <>[]UpToDate

\* Loads are scheduled again and again over a window that covers every key,
\* and a load that is retried again and again commits in the end.
Fairness ==
    \A w \in Writer :
        /\ SF_vars(Fetch(w, Key))
        /\ SF_vars(Begin(w))
        /\ SF_vars(Update(w))
        /\ SF_vars(Commit(w))

FairSpec == Spec /\ Fairness
=============================================================================
