------------------------------ MODULE FeedRows ------------------------------
(***************************************************************************)
(* What each loader makes of what it reads: the rows it skips, the key of  *)
(* a row, and which row of a key it keeps.  An entry of a document is a    *)
(* record [key, n, flaw]: key = <<what the document is about, identity>>,  *)
(* n the number of the document in the order of posting, and flaw what is  *)
(* wrong with the row:                                                     *)
(*   undated   no date, hour or stamp, or one that maps to no instant      *)
(*   unnamed   no identity: constraint, resource, INR, project, notice     *)
(*   series    the energy-weighted twin (LZEW) of a load zone's price      *)
(*   buy       a bid to buy among the bids of an auction                   *)
(* A loader's rows are a function from keys to entries; where the order    *)
(* that Postgres picks is open, a set of such functions.                   *)
(***************************************************************************)
EXTENDS Lists, SequencesExt

\* The documents, by number, whose rows carry no posting time.
CONSTANT Unstamped

\* Table t with the rows of d written over it.
Over(d, t) ==
    [k \in DOMAIN d \cup DOMAIN t |-> IF k \in DOMAIN d THEN d[k] ELSE t[k]]

Without(es, flaws) == Among(es, {e \in ToSet(es) : e.flaw \notin flaws})

Keys(es) == {es[i].key : i \in DOMAIN es}

\* A dict, or executemany with ON CONFLICT DO UPDATE: the last of a key stays.
LastOfKey(es) ==
    [k \in Keys(es) |-> es[CHOOSE i \in DOMAIN es : es[i].key = k
                                /\ \A j \in DOMAIN es : es[j].key = k => j <= i]]

\* "if name in seen: continue", or re.search: the first of a key stays.
FirstOfKey(es) ==
    [k \in Keys(es) |-> es[CHOOSE i \in DOMAIN es : es[i].key = k
                                /\ \A j \in DOMAIN es : es[j].key = k => i <= j]]

\* The row with the latest posting time, of equal ones the first, whatever the order
\* of the rows; but a row without a posting time is always taken, and forgets the best
\* time so far, so that only the rows since the last such row are compared.
NewestOfKey(es) ==
    LET Of(k)    == {i \in DOMAIN es : es[i].key = k}
        Since(k) == {i \in Of(k) : \A j \in Of(k) : es[j].n \in Unstamped => j < i}
    IN  [k \in Keys(es) |->
            IF Since(k) = {} THEN LastOfKey(es)[k]
            ELSE es[CHOOSE i \in Since(k) : \A j \in Since(k) :
                        es[j].n < es[i].n \/ (es[j].n = es[i].n /\ i <= j)]]

\* upsert_rows on a list: UPDATE ... FROM takes any of the rows of a key.
AnyOfKey(es) ==
    LET picks == {p \in SUBSET ToSet(es) : \A k \in Keys(es) :
                        \E e \in p : e.key = k /\ \A f \in p : f.key = k => f = e}
    IN  {[k \in Keys(es) |-> CHOOSE e \in p : e.key = k] : p \in picks}

-----------------------------------------------------------------------------
\* Archives of daily files.

\* A constraint without an id is stored as constraint 0.
DamFile(es) ==
    LET dated == Without(es, {"undated"})
    IN  {LastOfKey([i \in DOMAIN dated |->
            IF dated[i].flaw = "unnamed" THEN [dated[i] EXCEPT !.key = <<@[1], 0>>] ELSE dated[i]])}

RucFile(es) == DamFile(es)

OutageSheet(es) == {LastOfKey(Without(es, {"undated", "unnamed"}))}

\* Documents of the planning pages.

GisSheets(es) == {LastOfKey(Without(es, {"unnamed"}))}

TpitSheets(es) == {LastOfKey(Without(es, {"unnamed"}))}

\* The sentences that the patterns find, the first match of each.
DeckMetrics(es) == {FirstOfKey(Without(es, {"unnamed"}))}

NoticeRows(es) == {FirstOfKey(Without(es, {"unnamed"}))}

\* A row is known by its number among the offers to sell of the file, the
\* undated ones, which are skipped, included.
OfferRows(es) ==
    LET sells == Without(es, {"buy"})
    IN  {LastOfKey(Without([i \in DOMAIN sells |-> [sells[i] EXCEPT !.key = <<@[1], i>>]], {"undated"}))}

\* Queries of the public API.

ConstraintRows(es) == {LastOfKey(Without(es, {"undated", "unnamed"}))}

WindowRows(es) == {LastOfKey(Without(es, {"undated", "unnamed"}))}

RenewableRows(es) == {NewestOfKey(Without(es, {"undated"}))}

LoadRows(es) == {NewestOfKey(Without(es, {"undated"}))}

\* Every run of RTD is a vintage of its own.
RtdRows(es) ==
    LET rows == Without(es, {"undated", "unnamed"})
    IN  AnyOfKey([i \in DOMAIN rows |-> [rows[i] EXCEPT !.key = <<@[1], @[2], rows[i].n>>]])

PointRows(es) == {FirstOfKey(Without(es, {"unnamed"}))}

RtmRows(es) == AnyOfKey(Without(es, {"undated", "unnamed", "series"}))

\* The scripts' loaders do not look at the type of the point.
ScriptDamRows(es) == AnyOfKey(Without(es, {"undated"}))

ScriptRtmRows(es) == AnyOfKey(Without(es, {"undated"}))

ScriptLmp5Rows(es) == AnyOfKey(Without(es, {"undated"}))
=============================================================================
