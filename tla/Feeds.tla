-------------------------------- MODULE Feeds --------------------------------
(***************************************************************************)
(* The loaders of everything that is not a settled price: the archives of  *)
(* daily constraint and outage files, the planning documents, the market   *)
(* notices, auction offers, the forecasts and constraints of the public    *)
(* API, Open-Meteo, and the scripts that load ranges.  Each is run by hand *)
(* or on its schedule, one run at a time, and has tables of its own: a     *)
(* behaviour is about one of them, feed, which Plan describes.  A run      *)
(* lists its parts, reads them one by one while ERCOT goes on posting, and *)
(* writes what FeedRows makes of them.  The feed "outage_plan" is the job  *)
(* of OutagePlan.                                                          *)
(***************************************************************************)
EXTENDS FeedRows, OutagePlan, FiniteSetsExt

CONSTANTS
    Feed,      \* the loaders
    Doc,       \* what ERCOT may post: records [about, rows, readable]
    PageSize,  \* documents on a page of an archive listing
    OldDocs,   \* how many documents were posted before the cutoff
    Span,      \* days, or hours, in a window of a range
    Loaded,    \* the auctions whose results crr_auctions has
    MaxDocs, MaxRuns, MaxFaults   \* bounds

ASSUME FeedsAssumption ==
    /\ PageSize \in Nat \ {0} /\ Span \in Nat \ {0}
    /\ OldDocs \in Nat /\ MaxDocs \in Nat /\ MaxRuns \in Nat /\ MaxFaults \in Nat

\* A row has an identity and may have a flaw.  Documents about the same thing have
\* a row with the same flaws: both series of a load zone, or none.
ASSUME DocAssumption ==
    /\ \A d \in Doc :
          /\ d.about \in Nat \ {0} /\ d.readable \in BOOLEAN
          /\ d.rows \in Seq([k : Nat, flaw : STRING])
    /\ \A c, d \in Doc : c.about = d.about =>
          \A i \in DOMAIN c.rows, j \in DOMAIN d.rows : c.rows[i].k = d.rows[j].k =>
              \E l \in DOMAIN d.rows : d.rows[l] = c.rows[i]

VARIABLES
    feed,      \* the loader this behaviour is about
    posted,    \* the documents, oldest first
    table,     \* the loader's table: entries by key
    archived,  \* weather_forecast_vintages: the series by site and model run
    run,       \* the run under way, or the last one
    runs, faults

feedVars == <<feed, posted, table, archived, run, runs, faults>>
vars == <<feed, posted, table, archived, run, runs, faults, planVars>>

About == {d.about : d \in Doc}
LastAbout == Max(About)

\* The range a script is asked for: the days or hours that documents are about.
ASSUME RangeAssumption == \E last \in About : last > 1 /\ \A a \in About : a <= last

\* parts: how a run finds what to read.  onError: what a failed read does to
\* the run.  commit: after each part, once at the end, or in batches.
Loader(parts, onError, commit) == [parts |-> parts, onError |-> onError, commit |-> commit]

\* The archive is paged, newest first, up to the cutoff; the files are loaded oldest
\* first, a file that cannot be had or read is left out, each is committed.
DamConstraints  == Loader("archive", "skip", "each")
RucConstraints  == Loader("archive", "skip", "each")
ResourceOutages == Loader("archive", "skip", "each")

\* Window after window of hours; one that fails is left out, each is committed.
ConstraintHistory == Loader("windows", "skip", "each")

\* Window after window of days; one that fails ends the script.
RangeScript == Loader("windows", "raise", "each")

\* One query, one upsert.
ApiJob == Loader("window", "raise", "each")

\* The newest document, in one transaction; of the decks the one the operator names.
GisQueue         == Loader("newest", "raise", "end")
TransmissionPlan == Loader("newest", "raise", "end")
LargeLoads       == Loader("newest", "raise", "end")

\* The notices are paged and read, then written in one transaction.
MarketNotices == Loader("notices", "raise", "end")

\* The newest auction's file, committed batch by batch.
CrrOffers == Loader("newest", "raise", "batch")

\* The auctions that are loaded already, each committed.
LtPointPrices == Loader("loaded", "raise", "each")

\* Site after site, one that fails is left out, then the means in one transaction.
Weather == Loader("sites", "skip", "end")

Plan ==
    CASE feed = "dam_constraints"  -> DamConstraints
      [] feed = "ruc_constraints"  -> RucConstraints
      [] feed = "resource_outages" -> ResourceOutages
      [] feed = "constraint_history" -> ConstraintHistory
      [] feed \in {"script_dam", "script_rtm", "script_lmp5"} -> RangeScript
      [] feed = "gis"     -> GisQueue
      [] feed = "tpit"    -> TransmissionPlan
      [] feed = "deck"    -> LargeLoads
      [] feed = "notices" -> MarketNotices
      [] feed = "offers"  -> CrrOffers
      [] feed = "lt_prices" -> LtPointPrices
      [] feed = "weather" -> Weather
      [] OTHER -> ApiJob

Rows(es) ==
    CASE feed = "dam_constraints"  -> DamFile(es)
      [] feed = "ruc_constraints"  -> RucFile(es)
      [] feed = "resource_outages" -> OutageSheet(es)
      [] feed = "constraint_history" -> WindowRows(es)
      [] feed = "script_dam"  -> ScriptDamRows(es)
      [] feed = "script_rtm"  -> ScriptRtmRows(es)
      [] feed = "script_lmp5" -> ScriptLmp5Rows(es)
      [] feed = "gis"     -> GisSheets(es)
      [] feed = "tpit"    -> TpitSheets(es)
      [] feed = "deck"    -> DeckMetrics(es)
      [] feed = "notices" -> NoticeRows(es)
      [] feed = "offers"  -> OfferRows(es)
      [] feed = "renewables"  -> RenewableRows(es)
      [] feed = "load"        -> LoadRows(es)
      [] feed = "constraints" -> ConstraintRows(es)
      [] feed = "rtd"     -> RtdRows(es)
      [] feed = "rtm"     -> RtmRows(es)
      [] feed = "points"  -> PointRows(es)
      [] OTHER -> {LastOfKey(es)}

\* The entries of document n.
Entries(n) ==
    [i \in DOMAIN posted[n].rows |->
        [key |-> <<posted[n].about, posted[n].rows[i].k>>, n |-> n,
         flaw |-> posted[n].rows[i].flaw]]

NoRun == [phase |-> "idle", page |-> 1, found |-> <<>>, todo |-> <<>>,
          buffer |-> <<>>, seen |-> 0, clean |-> TRUE]

FeedInit ==
    /\ feed \in Feed
    /\ posted = <<>>
    /\ table = <<>>
    /\ archived = {}
    /\ run = NoRun
    /\ runs = 0
    /\ faults = 0

\* ERCOT posts a document; the results of an auction and a notice only once.
Post(d) ==
    /\ Len(posted) < MaxDocs
    /\ feed \in {"lt_prices", "offers", "notices"} =>
          \A n \in DOMAIN posted : posted[n].about # d.about
    /\ Plan.parts \in {"windows", "window", "sites"} => d.readable
    /\ posted' = Append(posted, d)
    /\ UNCHANGED <<feed, table, archived, run, runs, faults>>

-----------------------------------------------------------------------------
(* What a run reads. *)

\* Mutant of OldestFirst: the files in the order of the listing.
AsListed(s) == s

\* reversed(docs): oldest first.
OldestFirst(s) == Reverse(s)

Newer(n) == n > OldDocs

\* Page p of a listing, newest first, as it is when the page is asked for.
ListingPage(p) ==
    LET newestFirst == [i \in DOMAIN posted |-> Len(posted) + 1 - i]
    IN  SubSeq(newestFirst, (p - 1) * PageSize + 1, Min({p * PageSize, Len(posted)}))

\* total_pages is that of the answer; the last document of a page may be old.
LastOfArchive(p) ==
    LET arcs == ListingPage(p)
    IN  arcs = <<>> \/ p * PageSize >= Len(posted) \/ ~Newer(arcs[Len(arcs)])

Recent == {n \in DOMAIN posted : Newer(n)}

\* The notices since the first day, an id that comes again left out.
NoticesOn(p) == Among(ListingPage(p), Recent \ ToSet(run.found))

NoticePages == 5

LastOfNotices(p) ==
    Len(Among(ListingPage(p), Recent)) < PageSize \/ p = NoticePages

\* The date windows of scripts/backfill.py, both ends inclusive.
Chunks(first, last) ==
    [i \in 1 .. (last - first + Span) \div Span |->
        <<first + (i - 1) * Span, Min({first + i * Span - 1, last})>>]

\* The windows of scripts/backfill_constraints.py share their ends.
SharedEnds(first, last) ==
    [i \in 1 .. (last - first + Span - 1) \div Span |->
        <<first + (i - 1) * Span, Min({first + i * Span, last})>>]

Sites == 1 .. 2

\* The parts of a run that does not page through a listing.
Parts ==
    CASE Plan.parts = "newest" -> <<Len(posted)>>
      [] Plan.parts = "loaded" ->
            Among(Reverse([n \in DOMAIN posted |-> n]),
                  {n \in DOMAIN posted : posted[n].about \in Loaded})
      [] Plan.parts = "windows" ->
            IF feed = "constraint_history" THEN SharedEnds(1, LastAbout) ELSE Chunks(1, LastAbout)
      [] Plan.parts = "window"  -> <<<<1, LastAbout>>>>
      [] Plan.parts = "sites"   -> [s \in Sites |-> s]
      [] OTHER -> <<>>

Paged == Plan.parts \in {"archive", "notices"}

\* Forecast reports hold every vintage of an hour; the others the current row.
HoldsVintages == feed \in {"renewables", "load", "rtd"}

\* What the API may answer for a window: its rows, in whatever order.
WindowAnswers(w) ==
    LET docs == {n \in DOMAIN posted : posted[n].about \in w[1] .. w[2]}
        all  == {FlattenSeq([i \in DOMAIN o |-> Entries(o[i])]) : o \in SetToSeqs(docs)}
        Current(es) == Among(es, {e \in ToSet(es) : \A f \in ToSet(es) :
                                    f.key = e.key /\ f.flaw = e.flaw => f.n <= e.n})
    IN  IF HoldsVintages THEN all ELSE {Current(es) : es \in all}

\* Open-Meteo answers for a site from its latest model run, entries by site.
SiteAnswer(s) ==
    IF posted = <<>> THEN <<>>
    ELSE LET es == Without(Entries(Len(posted)), {"undated"})
         IN  [i \in DOMAIN es |-> [es[i] EXCEPT !.key = <<@[1], @[2], s>>]]

Answers(part) ==
    CASE Plan.parts \in {"windows", "window"} -> WindowAnswers(part)
      [] Plan.parts = "sites" -> {SiteAnswer(part)}
      [] OTHER -> {Entries(part)}

Readable(part) ==
    IF Plan.parts \in {"windows", "window", "sites"} THEN TRUE ELSE posted[part].readable

\* A region's mean of an hour, from all of its sites or not at all; as new as
\* the oldest of them.
Means(d) ==
    LET hours == {<<k[1], k[2]>> : k \in DOMAIN d}
        full  == {h \in hours : \A s \in Sites : <<h[1], h[2], s>> \in DOMAIN d}
    IN  [h \in full |-> [key |-> h, flaw |-> "none",
                         n |-> Min({d[<<h[1], h[2], s>>].n : s \in Sites})]]

\* The series of each site and model run, whatever the other sites answered.
VintageRows(d) == {<<k[3], d[k].n>> : k \in DOMAIN d}

\* ON CONFLICT DO UPDATE, or DO NOTHING for RTD.
Stored(d) == IF feed = "rtd" THEN Over(table, d) ELSE Over(d, table)

-----------------------------------------------------------------------------
(* A run. *)

StartLoad ==
    /\ feed # "outage_plan"
    /\ run.phase \in {"idle", "ended", "dead"} /\ runs < MaxRuns
    /\ Plan.parts = "newest" => posted # <<>>
    /\ runs' = runs + 1
    /\ run' = [NoRun EXCEPT !.phase = IF Paged THEN "listing" ELSE "reading",
                            !.todo = Parts, !.seen = Len(posted)]
    /\ UNCHANGED <<feed, posted, table, archived, faults>>

ListPage ==
    LET archive == Plan.parts = "archive"
        found == run.found \o (IF archive THEN Among(ListingPage(run.page), Recent)
                                ELSE NoticesOn(run.page))
        last  == IF archive THEN LastOfArchive(run.page) ELSE LastOfNotices(run.page)
    IN  /\ run.phase = "listing"
        /\ run' = IF last
                  THEN [run EXCEPT !.phase = "reading", !.found = <<>>,
                                   !.todo = IF archive THEN OldestFirst(found) ELSE found]
                  ELSE [run EXCEPT !.page = @ + 1, !.found = found]
        /\ UNCHANGED <<feed, posted, table, archived, runs, faults>>

\* A part is read, and written at once where each has a transaction of its own.
ReadPart ==
    /\ run.phase = "reading" /\ run.todo # <<>>
    /\ Readable(Head(run.todo))
    /\ \E es \in Answers(Head(run.todo)) : \E d \in Rows(es) :
          /\ table' = IF Plan.commit = "each" THEN Stored(d) ELSE table
          /\ run' = [run EXCEPT !.todo = Tail(@),
                      !.buffer = IF Plan.commit = "each" THEN @ ELSE Over(d, @)]
    /\ UNCHANGED <<feed, posted, archived, runs, faults>>

\* Mutant of AfterError: a run that dies keeps its place.
AfterErrorKept(r, clean) ==
    IF Plan.onError = "skip" THEN [r EXCEPT !.todo = Tail(@), !.clean = clean]
    ELSE [r EXCEPT !.phase = "dead"]

\* "except Exception: continue", or nothing catches it.
AfterError(r, clean) ==
    IF Plan.onError = "skip" THEN [r EXCEPT !.todo = Tail(@), !.clean = clean]
    ELSE [NoRun EXCEPT !.phase = "dead"]

\* A document that is no zip or workbook.
PartUnreadable ==
    /\ run.phase = "reading" /\ run.todo # <<>>
    /\ ~Readable(Head(run.todo))
    /\ run' = AfterError(run, run.clean)
    /\ UNCHANGED <<feed, posted, table, archived, runs, faults>>

\* A request fails after its retries.
PartFails ==
    /\ run.phase = "reading" /\ run.todo # <<>> /\ faults < MaxFaults
    /\ run' = AfterError(run, FALSE)
    /\ faults' = faults + 1
    /\ UNCHANGED <<feed, posted, table, archived, runs>>

\* Everything is read.
AllRead ==
    /\ run.phase = "reading" /\ run.todo = <<>>
    /\ run' = [run EXCEPT !.phase = IF Plan.commit = "each" THEN "ended" ELSE "writing"]
    /\ UNCHANGED <<feed, posted, table, archived, runs, faults>>

\* One transaction for the whole run.
WriteAll ==
    /\ run.phase = "writing" /\ Plan.commit = "end"
    /\ table' = Stored(IF feed = "weather" THEN Means(run.buffer) ELSE run.buffer)
    /\ run' = [run EXCEPT !.phase = IF feed = "weather" THEN "archiving" ELSE "ended"]
    /\ UNCHANGED <<feed, posted, archived, runs, faults>>

\* One transaction for every batch, in the order of the file.
WriteBatch ==
    /\ run.phase = "writing" /\ Plan.commit = "batch"
    /\ IF run.buffer = <<>>
       THEN run' = [run EXCEPT !.phase = "ended"] /\ UNCHANGED table
       ELSE LET first == CHOOSE k \in DOMAIN run.buffer :
                            \A l \in DOMAIN run.buffer : k[2] <= l[2]
            IN  /\ table' = Stored([k \in {first} |-> run.buffer[first]])
                /\ run' = [run EXCEPT !.buffer =
                            [k \in DOMAIN @ \ {first} |-> @[k]]]
    /\ UNCHANGED <<feed, posted, archived, runs, faults>>

\* The vintages are archived after the means; a failure is logged.
Archive(works) ==
    /\ run.phase = "archiving"
    /\ works \/ faults < MaxFaults
    /\ archived' = IF works THEN archived \cup VintageRows(run.buffer) ELSE archived
    /\ run' = [run EXCEPT !.phase = "ended", !.buffer = <<>>]
    /\ faults' = IF works THEN faults ELSE faults + 1
    /\ UNCHANGED <<feed, posted, table, runs>>

\* A listing or the database fails, or the process is killed.
LoadDies ==
    /\ run.phase \in {"listing", "reading", "writing", "archiving"} /\ faults < MaxFaults
    /\ run' = [NoRun EXCEPT !.phase = "dead"]
    /\ faults' = faults + 1
    /\ UNCHANGED <<feed, posted, table, archived, runs>>

LoadStep ==
    \/ StartLoad \/ ListPage \/ ReadPart \/ PartUnreadable \/ PartFails
    \/ AllRead \/ WriteAll \/ WriteBatch \/ LoadDies
    \/ \E works \in BOOLEAN : Archive(works)

Init == FeedInit /\ PlanInit

Next ==
    \/ feed # "outage_plan" /\ UNCHANGED planVars
       /\ (LoadStep \/ \E d \in Doc : Post(d))
    \/ feed = "outage_plan" /\ UNCHANGED feedVars /\ PlanNext

Spec == Init /\ [][Next]_vars

-----------------------------------------------------------------------------
(* What the loads achieve. *)

EntryTypeOK(e) == e.n \in 1 .. MaxDocs /\ e.key[1] \in About

\* TYPE: a run has something to read in some phases only, and what a table or
\* a buffer holds comes from a document and is where its key says.
TypeOK ==
    /\ feed \in Feed /\ posted \in Seq(Doc)
    /\ runs \in 0 .. MaxRuns /\ faults \in 0 .. MaxFaults
    /\ \A k \in DOMAIN table : EntryTypeOK(table[k])
    /\ \A k \in DOMAIN run.buffer : run.buffer[k].key = k /\ EntryTypeOK(run.buffer[k])
    /\ archived \subseteq Sites \X (1 .. MaxDocs)
    /\ run.phase \in {"idle", "listing", "reading", "writing", "archiving", "ended", "dead"}
    /\ run.todo # <<>> => run.phase = "reading"
    /\ run.buffer # <<>> => Plan.commit # "each"
    /\ PlanTypeOK

\* The documents that a run which began when there were run.seen of them was
\* to load.
InScope(n) ==
    CASE Paged -> Newer(n) /\ posted[n].readable
      [] Plan.parts = "newest" -> n = run.seen
      [] Plan.parts = "loaded" -> posted[n].about \in Loaded
      [] Plan.parts = "sites"  -> n = Len(posted)
      [] OTHER -> TRUE

\* The keys under which a document has a row that the loader keeps.
KeysOf(n) == DOMAIN (CHOOSE d \in Rows(Without(Entries(n),
                        IF feed = "weather" THEN {"undated"} ELSE {})) : TRUE)

\* The documents whose rows no row without a posting time can replace.
Stamped ==
    {n \in DOMAIN posted : feed \in {"renewables", "load"} =>
        \A m \in DOMAIN posted \cap Unstamped : posted[m].about # posted[n].about}

(***************************************************************************)
(* After a run that came to its end with every read answered, the table    *)
(* holds, for every key of every document that was posted when the run     *)
(* began and that it was to load, the row of the newest of these documents *)
(* or of a newer one: whatever was posted while it listed and read, in     *)
(* whatever order the API answers, whatever documents are unreadable, and  *)
(* whatever earlier runs left behind when they failed or were killed.      *)
(* Where a forecast report has rows without a posting time, they decide    *)
(* what stands of an hour, and only that it has a row is claimed.          *)
(***************************************************************************)
NewestStands ==
    run.phase = "ended" /\ run.clean =>
        \A n \in 1 .. run.seen : InScope(n) =>
            \A k \in KeysOf(n) :
                k \in DOMAIN table /\ (n \in Stamped => table[k].n >= n)
=============================================================================
