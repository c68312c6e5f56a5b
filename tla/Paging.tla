------------------------------- MODULE Paging -------------------------------
(***************************************************************************)
(* ErcotClient.rows(): a report is read page by page while ERCOT goes on   *)
(* publishing.  A row that is published takes a place anywhere in the      *)
(* report and moves the rows behind it; nothing is withdrawn.  The steps    *)
(* here are those of whoever reads: Backfill composes them.                *)
(***************************************************************************)
EXTENDS Integers, Sequences, FiniteSets

CONSTANTS
    Row,        \* rows of a report
    PageSize,   \* config.PAGE_SIZE
    MaxPages    \* config.MAX_PAGES

ASSUME PagingAssumption == PageSize \in Nat \ {0} /\ MaxPages \in Nat \ {0}

VARIABLES
    report,     \* the rows a query selects, in ERCOT's order
    reader      \* the call of rows()

Content(s) == {s[i] : i \in 1 .. Len(s)}

\* got: the rows yielded.  first: those the report held when it was opened.
Reader == [stage : {"idle", "reading", "done", "raised"}, page : 1 .. MaxPages + 1,
           got : SUBSET Row, first : SUBSET Row]

NoReader == [stage |-> "idle", page |-> 1, got |-> {}, first |-> {}]

Open(s) ==
    /\ reader.stage = "idle"
    /\ report' = s
    /\ reader' = [NoReader EXCEPT !.stage = "reading", !.first = Content(s)]

\* The rows of page p: params page and size.
OnPage(p) ==
    {report[i] : i \in {j \in 1 .. Len(report) : (p - 1) * PageSize < j /\ j <= p * PageSize}}

FullPage(p) == p * PageSize <= Len(report)

\* Mutants of LastPage: pages counted from 0; an equal length taken for a short page.
LastPageEarly(p, meta) ==
    IF meta THEN (p + 1) * PageSize >= Len(report) ELSE ~FullPage(p)

LastPageFull(p, meta) ==
    IF meta THEN p * PageSize >= Len(report) ELSE Cardinality(OnPage(p)) <= PageSize

\* page >= totalPages, or, without that field, a page that is not full.
LastPage(p, meta) ==
    IF meta THEN p * PageSize >= Len(report) ELSE ~FullPage(p)

\* Mutant of AfterLast: a report that hits the page cap counts as read.
AfterLastQuiet == "done"

\* The while loop ends at the page cap: rows() raises.
AfterLast == "raised"

GetPage(meta) ==
    LET p == reader.page
    IN  /\ reader.stage = "reading"
        /\ reader' = [reader EXCEPT
             !.got = @ \cup OnPage(p),
             !.page = p + 1,
             !.stage = IF OnPage(p) = {} \/ LastPage(p, meta) THEN "done"
                       ELSE IF p = MaxPages THEN AfterLast ELSE "reading"]
        /\ UNCHANGED report

\* get() raises.
GetFails ==
    /\ reader.stage = "reading"
    /\ reader' = [reader EXCEPT !.stage = "raised"]
    /\ UNCHANGED report

Close ==
    /\ reader.stage \in {"done", "raised"}
    /\ reader' = NoReader
    /\ report' = <<>>

\* ERCOT publishes row r, the i-th of the report from now on.
Insert(r, i) ==
    /\ report' = [j \in 1 .. Len(report) + 1 |->
                    IF j < i THEN report[j] ELSE IF j = i THEN r ELSE report[j - 1]]
    /\ UNCHANGED reader

PagingInit == report = <<>> /\ reader = NoReader

Read == (\E meta \in BOOLEAN : GetPage(meta)) \/ GetFails

-----------------------------------------------------------------------------
(* Properties.                                                             *)

\* rows() returns only with every row the report held when the reading began:
\* "a truncated window looks exactly like a quiet period downstream", so it
\* raises instead, and a row that moves while pages are fetched is not missed.
NeverTruncated == reader.stage = "done" => reader.first \subseteq reader.got
=============================================================================
