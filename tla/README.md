# Verification of the ERCOT ingest service

TLA+ models, TLC runs and TLAPS proofs about the Python program of this repository:
`ercot/`, the service that pulls ERCOT's market reports, keeps them in Postgres
with a full revision history, records every run and grades the bids; the research
desk in `strategy/`; and the loaders and freezers in `scripts/`. References below
are to files of the repository.

- [Inventory](#inventory)
- [Modules](#modules)
- [Runs, their bounds and what they show](#runs)
- [Fairness](#fairness)
- [Proofs](#proofs)
- [Where the code and its documents part](#disagreements)
- [What is not modelled](#not-modelled)
- [Plan](#plan)

## Inventory

### Processes

The ingest service is one Python process (`ercot/service.py`) with an
APScheduler thread pool, a FastAPI server, and at most one backfill thread. At a
deploy the container platform starts the new process before it drains the old
one, so two run for a while; a process may be killed at any point. A Next.js site
(`app/`, `lib/`) reads the database, and two of its routes (billing, holder
claims) write to it. Everything durable is in Postgres (`supabase/migrations/`).

| component | state | operations | interacts with |
| --- | --- | --- | --- |
| **Price store** `db.py`, `ingest.py`, migrations `core`, `five_minute`, `views_functions` | `dam_spp`, `rt_spp`, `rt_lmp_5min` and a history table each | `upsert_rows` (UPDATE of what differs, then INSERT ... ON CONFLICT DO NOTHING, one transaction), the trigger `capture_price_revision`, reads by `*_asof` | every loader; the trigger stamps with `now()`, the start of the transaction |
| **Job runner and lifecycle** `jobs.py`, `service.py`, `db.py` | `ingest_runs`, the scheduler | `run_job`, `start_run`, `finish_run`, `close_interrupted_runs`, `/trigger`, start, shutdown | two processes share `ingest_runs` during a deploy |
| **ERCOT client** `client.py` | the process-wide limiter's deque, the cached token and its expiry | `acquire`, `token`, `get`, `download`, `rows` | threads of all jobs and the backfill share it |
| **Backfill** `backfill.py` | `_lock`, `_state`, a thread | `start`, `_run`, `status`, the loop over points and windows | the client, the price tables, `ingest_runs` |
| **Live five-minute jobs** `ingest.py`, `jobs.py` | `rt_lmp_5min` | `lmp5` every 5 minutes over 20 minutes, `lmp5_catchup` hourly over 180 | ask ERCOT by wall-clock time |
| **Time conversion** `timeutil.py` | none | Central wall clock to UTC, delivery hours, skipped and repeated hour | every loader |
| **TOU calendar** `calendar.py`, migration `crr_time_of_use` | none | `tou_of`, `nerc_holidays`, and the SQL function that must say the same | scans, scoring, views |
| **CRR ingest** `crr.py` | auctions, awards, point prices, bids, the view `crr_pnl` | `ingest_job`, `ingest_auction`: a transaction for each table | scoring reads the awards |
| **Scoring** `scoring.py` | the scoring columns of `paper_bids`, `sheet_snapshots` | `score_paper`, `score_sheets`, `score_all` | awards, `dam_spp` |
| **Research desk** `strategy/` | none of its own; it prints, and writes `path_valuations` and workbooks | the scans (`market_scan`, `discover_paths`, `lt_strip_scan`), the bid tools (`bid_ceiling`, `auction_prep`), the walk-forward harnesses | read prices, auctions, constraints |
| **Sheets** `freeze_sheet.py`, `reconstruct_sep_sheet.py`, `app/bids/page.tsx` | `sheet_snapshots` | limit, tier and size of a row, derived three times | scoring grades what was frozen |
| **Feeds**: `fundamentals.py`, `weather.py`, the settled-price jobs of `ingest.py`, the loaders in `scripts/` | a table or two each | list, read part by part, keep one row of a key, write in one transaction or many | client, ERCOT's archive, Open-Meteo |
| **Outage plan** `outage_plan.py` | `ercot_forecast_vintages` | one edition a day, saved before ERCOT drops it | client |
| Partitions `five_minute.sql`, `db.py` | monthly partitions, a default one | `ensure_month_partition`, detach | price tables |
| Signal views, artifacts `db.py`, `products.py` | materialised views, two JSON artifacts | refresh, rebuild | scheduler |
| Billing `app/api/billing`, migration `billing` | `profiles`, `billing_events` | checkout, webhook, `billing_apply` | Stripe |
| Holder claims `app/api/claim`, `verify-holder` | claims, tokens | claim, confirm, approve | mail |
| Email suppression, plan gate, health endpoint | one row each | | |
| Studies, reports and seeds, web pages | none of their own | | read the tables |

### What is hard here

- **Interleaving.** Two transactions on one table stamp with their start but commit
  in another order; several threads share one token and one limiter; two
  processes share `ingest_runs`.
- **Stale data.** A report is fetched, then written some time later, when ERCOT may
  have restated it; a token is cached and then revoked or expires.
- **Restarts and partial failure.** A job may die between `start_run` and
  `finish_run`, and each of those can itself fail.
- **Paging while the report grows.** `rows()` reads page by page.
- **Time.** Windows are asked for by the wall clock, which jumps twice a year.
- **Lookahead.** The reason for the history tables: a backtest must see what was
  known at the time and nothing later, and so must every fold and every signal.
- **Late data.** Awards come before their month is over, prices a day or two after; a
  grade given too early is never looked at again.
- **One rule, written several times.** The calendar exists in Python and in SQL, the
  limit of a sheet in Python, SQL and TypeScript, the price of a path in three
  scans, the ceiling of a bid in two tools.

What makes each component correct: a read as of *t* never returns what was
published after *t*, a load takes back no price the table held before its fetch, and
while no two transactions are open at once the history of a key has neither gap nor
overlap (price store); a row of `ingest_runs` says what its run came to, and what it
says of an ended run is final (jobs); the quota holds, no request carries an expired or rejected token (client);
what reports success is complete (backfill); no price is filed under another hour,
and no hole stays behind (live jobs); a bid is graded over its whole month, once
and for good, if the days of the month come in order, and every one is in the end
(scoring); after a load the newest row
of every key stands (feeds), and no edition that ERCOT drops is lost (outage
plan); the copies of a rule agree and nothing is decided on what came later
(desk).

## Modules

| module | models | state and actions |
| --- | --- | --- |
| `PriceLedger` | nothing in the code: the **abstract** promise of the as-of reads | for each key and instant the price known as of it; `Record` adds a revision from its stamp on, and what was recorded of earlier instants stands; `Void` is the first overlap of two transactions, after which nothing is promised |
| `PriceStore` | a price table, its history, its loaders | `Fetch` (the report is read), `Begin` (the transaction's `now()`), `Update` (the UPDATE, with the row locks), `Commit` (INSERT and commit; the trigger's history rows), `Abort`; ERCOT's `Publish`. `AsOf` is the SQL function. `seen` (what the table held when a writer fetched) and `overlapped` (two transactions have been open at once) are for the properties only, no action reads them |
| `Jobs` | `run_job` in several processes | a thread is `called`, `running`, `finishing`; `Fire` obeys `max_instances`, `Trigger` does not; `Boot`, `Sweep`, `Shutdown`, `Exit`, `Kill` |
| `RateLimiter` | the sliding window | one turn of `acquire`'s loop under its lock is one action |
| `ErcotClient` | `get`, `download`, `token`, ERCOT's answers | an attempt goes through pacing, keying, (fetching, receiving,) ready; the answers are actions; `Refresh`, `Fatal`, `BackedOff` are the branches of the retry loop |
| `Paging` | `rows()` | one page per step; ERCOT may `Insert` a row anywhere between two |
| `Backfill` | `backfill.py`, **composed** with `Paging` | `Start` .. `Release` are the steps of the thread, each step that can raise has an action for it; `Restart` replaces the one process |
| `CentralTime` | `timeutil.py` | operators only: `ToUtc` is `central_wall_to_utc`, `DamStart` is `dam_interval_start` |
| `LiveWindow` | `ingest_lmp5` as its two jobs run it, **using** `CentralTime` | `Answer` is the query by wall clock, `Load` the run |
| `Calendar` | `calendar.py` and the SQL twin | operators only: `TouOf`, `SqlTou` |
| `Lists` | sums, filters, orders and medians of Python lists | operators only, as functions on indices, which the provers can reason about |
| `Valuation` | `valuation.py` | operators only: the typical month and its median |
| `Scans` | `market_scan`, `discover_paths`, `lt_strip_scan` | operators only: the row a scan prints for a path |
| `BookBids` | `bid_ceiling`, `auction_prep` | operators only: the verdict and the line of the upload |
| `Sheets` | `freeze_sheet`, the ticket of `/bids`, the reconstruction | operators only: the row of each |
| `Backtest` | `backtest.py`, `walk_forward_constraints.py`, `hub_walkforward.py` | operators only: signals, folds, picks |
| `Desk` | one invocation of one of these programs, **composing** the modules from `Calendar` on | `ask` is what it is invoked with, `answer` what it came to; one action per program |
| `CrrIngest` | `crr.py` | `StartIngest`, `LoadStep` (the next table of the report), `ReportFails`, `EndIngest`, `IngestDies` |
| `Grading` | `scoring.py`, **composed** with `CrrIngest` | `MonthEnds` and `LoadDam` are the world (the days of an endpoint come in any order); `BeginPass` .. `NextPhase` the steps of a scoring pass, several of which may overlap |
| `FeedRows` | what each loader makes of what it reads | operators only: the rows it skips, their key, which row of a key it keeps, those without a posting time included |
| `OutagePlan` | `outage_plan.py` | `StartPlan`, `SaveEdition`, `EditionRaises`, `PlanFault`; `PostEdition` and `NextDay` are the world |
| `Feeds` | the loaders, **composed** of `FeedRows` and `OutagePlan` | `feed` is the loader of this behaviour, `Plan` how it lists, fails and commits; `ListPage`, `ReadPart`, `WriteAll`, `WriteBatch`, `Archive`, failures, kills; `Post` is ERCOT's |
| `*Proofs` | | the theorems |
| `MC*` | | small instances |

Conventions: definitions keep the names of the code; a definition whose comment
begins with *Mutant of* is a plausible bug of the definition that follows, and
shows that a property notices it. Data is abstracted to what the properties tell
apart: a price is a model value, an as-of stamp a small number, `rev` stands for
every updated column but the price, a report's row is its key.

Abstractions worth knowing:

- `PriceStore`: the temporary table is the batch; a fetched window is any set of
  keys. `UPDATE ... FROM` with several matching rows takes any of them, as
  Postgres documents. A conflicting row lock is waited for: where Postgres lets an
  UPDATE block half way and then tests its condition again on the row the other
  transaction left, the model lets the whole UPDATE start after that commit.
- `Jobs`: a run may last as long as it likes, past the guard of the sweep. `result` is what the job itself came to, kept beside the row to compare
  the row with. Ages count minutes up to `MaxAge`.
- `RateLimiter`: the deque is the part of `grants` after the first `head` entries,
  so that properties see what was popped.
- `ErcotClient`: `refused` collects the tokens a call was refused with; ERCOT may
  refuse any request, but accepts only tokens that have not run out.
- `Backfill`: ERCOT withdraws nothing. A withdrawal between two pages could hide a
  row from `rows()`, which the client can not notice; this is an assumption on
  ERCOT, not a property of the code. One process is modelled: at a deploy the old and
  the new one each have a lock and a state of their own and share the database only, and
  since a load reads nothing from it, a second process would add loads that do not see
  each other. What two of them do to a price table is in `PriceStore`.
- `LiveWindow`: a row is named by the instant of its SCED run. ERCOT's repeat flag is
  taken to be right. Two runs an hour apart are followed, which are the ones a
  clock change can confuse.
- `Desk`: money is counted in whole units small enough to stay exact (cents, thirds,
  twelfths); a median is counted doubled. A path is what its months paid and how
  many priced hours they have. Megawatts are counted in
  tenths, which `int(mw)` of the upload cuts off. Queries and workbooks are left out.
- `Grading`: the payout of a month is the set of days whose prices were summed, which
  is what tells a whole month from a part of it; `skipped` are the months of which a day
  came after a later one. Awards do not change once loaded.
- `Feeds`: a document is a number in the order of posting and a few rows with at most
  one flaw each; those in `Unstamped` carry no posting time where the loader reads one,
  and `Stamped` are those whose rows none of these can replace; the API answers a query in any order. Every loader has tables of
  its own, so a behaviour follows one of them.

## Runs

Every run finishes within two minutes on two workers, most within seconds.

| run | asks | bounds, and why they are enough |
| --- | --- | --- |
| `prices` | two writers: `TypeOK`, `NoLookahead`, `HistoryChain`, `NeverOlderThanSeen`, `RepullWritesNothing`, and refinement of `PriceLedger` (`ImplementsLedger`) | 1 key, 2 prices, 3 publications, 2 ticks, one report row for a key: both writers fetch and write in every order, with a restatement before, between and after them, a price that comes back to an earlier one, aborts, and stamps that coincide or differ |
| `prices_live` | two writers: `Converges`, the table ends up with what the report holds | 1 key with two report rows, 2 publications: every order of two fetches, two transactions and a restatement between them |
| `jobs` | `TypeOK`, `StatusTruthful`, `EndedRowsStand`, `OrphansClosed` | 2 processes, 2 threads, 2 runs: a deploy overlap with a run in each process; the guard is 1 minute, and a run lasts as long as it likes |
| `limiter` | `Budget`, `SentBudget`, `NoBusyWait` | 2 threads, a limit of 2, a window of 2 ticks and 6 ticks: the window fills, slides and fills again |
| `client` | `SentBeforeExpiry`, `RetryIsFresh`, `NoNeedlessFetch`, `CallsEnd` | 2 threads, 2 attempts, 2 tokens, 3 ticks of a token that lives 2: expiry, revocation and a late refusal of an old token all occur |
| `backfill` | `TypeOK`, `NeverTruncated`, `FinishedIsLoaded`, `AnswersAgree`, `OneAtATime`, `LoadsEnd` | 2 points, 4 days in windows of 3 (the last one is cut short), pages of one row and a cap of 2 (reports above, at and below it), one late row, every step that can raise does, restarts, 2 loads one after another |
| `backfill_leak` (violation) | a lock held with no thread | |
| `live_window` | `TypeOK`, `NoHourShifted`, `NoHoles` | the constants of `jobs.py` in units of five minutes; three hours on either side of both changes of the clock, publication late by a unit, one failed repair pass |
| `desk` | `CalendarTwins`, `TypicalMonth`, `SheetAsShown`, `UploadMatchesReview`, `DecidedOnThePast` | every day of 4 years, so that each fixed holiday falls on both sides of a weekend and 29 February occurs; paths that fade, collapse, spike, go stale and miss months in each block; rows on both sides of every threshold of a sheet; books with a row to sell and fractions of a megawatt; price histories with gaps and both signs, and targets in the evening, the night and the day, in summer and in winter; constraint flags on either side of each fold |
| `grading` | `TypeOK`, `GradedInFull`, `EveryMonthPriced`, `RegisterKeeps`, `EveryBidGraded` | a batch of three bids (one fills, one does not, one path does not trade), a month of 2 days that come in any order, 2 endpoints whose prices come apart, 2 passes that overlap, one failure anywhere |
| `grading_sheets` (violation) | a sheet is graded on part of its month | |
| `feeds` | `TypeOK`, `NewestStands`, `EditionsKept` | 21 loaders, up to 3 documents (one before the cutoff) about 2 of 3 days, flawed and unreadable ones, the second without a posting time, pages of one, windows of 2 that overlap or not, 2 runs, 1 fault; for the outage plan 5 days of which ERCOT lists 3 |

`limiter`, `desk` and `feeds` set `CHECK_DEADLOCK FALSE`: time ends at `MaxTime`, a
program of the desk ends with its answer, and the loads of a feed end with
`MaxRuns` and `MaxDocs`. In the desk every program is a function of its input, so a
behaviour is one step long; what its run explores is the inputs, some 38,000.

What the less obvious properties say:

- `ImplementsLedger`: a commit changes the answers of the as-of reads from its stamp
  on and no earlier one, until two transactions of a table are open at once; so does
  `HistoryChain` hold until then. Fetches may overlap, and usually do.
- `NeverOlderThanSeen`: several jobs write one table, and a report fetched before a
  restatement may be written after another job has stored the restatement. The older
  price then stands until the next load; what can be lost in this way is only what was
  stored since the fetch. `Converges` says that the table recovers.
- `RepullWritesNothing` is the docstring of `upsert_rows`. It and the one before are
  about reports with one row for a key, which `RowsPerKey` = 1 says.
- `EndedRowsStand`: a row that says how its run ended is not rewritten, but by its own
  run, once, if a process that started meanwhile had closed it as an error: the run
  outlasted the guard, and corrects the row.
- `OrphansClosed`: a row whose thread has died does not stay `running` for ever, as
  long as processes are replaced again and again. Nothing else closes it.
- `SentBeforeExpiry`: in the run a request leaves as soon as its token is taken; the
  theorem `MarginSuffices` has a delay.
- `NoBusyWait`: a sleeper wakes to a free slot unless another thread took it. It
  depends on the 0.05 s added to the wait.
- `RetryIsFresh`: a late 401 of an old token drops the *new* token another thread has
  just fetched; the retry must nevertheless not go out with a rejected one.
- `AnswersAgree`: `GET /backfill` and `ingest_runs` never tell of different ends,
  `finish_run` and the handler failing included.
- `OneAtATime` speaks of the threads of one process, see above.
- `NoHoles`: each row is stored before the three hours of the repair pass are over. In
  the second pass through the repeated hour that takes every repair pass to
  succeed: a window that begins in the first pass asks for times later than
  theirs and is blind to them, so one failure can leave a hole, although three
  passes fall within three hours. With `(Repeated(u) => failed = 0)` left out of
  the property TLC shows such a run.
- `GradedInFull`: `is_settled` looks for the last day of the month, so it is the order in
  which days are loaded that makes the month whole. The property claims it of the
  months whose days came in order, and of the others that their last day is there.
- `RegisterKeeps`: two passes overlap and the one that read earlier may write later;
  it must not take anything back. The update keeps an old value where the new one
  is null; the fill, which it always replaces, may still not change. A value may, in a month
  whose days came out of order.
- `EveryMonthPriced`: `POINT_PRICE_KEY` had no month once, and of a node one month
  hid another.
- `NewestStands`: after a run whose reads were all answered, every key of every
  document that was there when it began holds the row of the newest of them, or of
  a newer one; also after earlier runs were killed half way, and whatever was
  posted while it listed. It is not claimed of a run in which a read failed: an
  archive loader then goes on without that file. Nor is it claimed against a document
  without a posting time, which the two loaders that compare posting times always take,
  and forget the best one they had.
- `EditionsKept`: a malformed edition ends the run, and the ones after it wait; but an
  edition is the oldest listed one on its last day, and nothing is before it then.
- `TypicalMonth`: beside the rule of the house (never above the typical month), that
  `market_scan` and `discover_paths` price one path alike and a strip is marked in
  the book at the value of its sheet.
- `UploadMatchesReview`: the upload drops fractions of a megawatt of what was reviewed;
  nothing else comes apart, but for half a cent over the ceiling.
- `DecidedOnThePast`: an answer is compared with the answer to the same question with
  what was not known yet taken away. For a backtest that is not the program's own cutoff
  but the close of the day-ahead market, at 10:00 Central of the day before the
  operating day of the target. The evening hours are excepted (see
  [below](#disagreements)): of those it is claimed only that nothing from the hour itself
  on is used. Without the exception TLC refutes it.

## Fairness

Only `prices_live`, `jobs`, `client`, `backfill` and `grading` check liveness.

- `PriceStore`: a job fires again and again (the scheduler's cron triggers), its
  window covers every key the property speaks of, and a load that is aborted
  again and again commits in the end. Strong fairness, since an abort disables
  the steps in between.
- `Jobs`: time passes, `job.run` and `finish_run` return or raise (weak fairness: a
  thread that is in them stays in them), and a sweep that is tried again and
  again succeeds in the end (strong: a process may be killed while it boots).
  That processes are replaced is the hypothesis of `OrphansClosed`, not a
  fairness condition.
- `ErcotClient`: requests have a timeout (`httpx` clients are built with one), sleeps
  end, and a thread that keeps asking for the token lock gets it (strong: the
  lock is taken and released by others meanwhile).
- `Backfill`: the thread goes on until it ends. ERCOT's publications are not fair.
- `Grading`: the jobs are scheduled every day, so a pass that can go on does and a load
  of results begins again; prices arrive, months end (weak fairness). Failures,
  kills and ERCOT's posting of an auction are not fair: `EveryBidGraded` speaks of
  the auctions that were posted.

## Proofs

TLAPS checks every theorem for all values of the constants that satisfy the
modules' named assumptions. Each safety theorem rests on an inductive invariant,
which TLC was given first. A hypothesis beyond the assumptions stands in the
theorem itself.

| theorem | says | argument |
| --- | --- | --- |
| `TypeCorrect` (PriceStoreProofs) | `TypeOK` | inductive with `ChangedOK`: an uncommitted change is of a row that exists, so a revised row is a row |
| `NeverLooksAhead` | `NoLookahead` for any number of writers | `SourceOK`, `VisibleFrom`: whatever is in a batch, a change, the table or the history was published no later than the instant from which it can be read; the transaction begins after the fetch, so the stamp is late enough |
| `ChainUntilOverlap` | `HistoryChain` for any number of writers | `Alone` while no two transactions have been open at once; `StampsOrdered`: no stored stamp is later than the start of an open transaction. A commit then adds one link at the end of the chain |
| `TableImplementsLedger` | the refinement of `PriceLedger` for any number of writers | the same invariant. A commit is `Record` of what it changed: of an instant from its stamp on the answer is the row in force, of an earlier one the chain of history rows answers as before. The step that opens a second transaction is `Void`, and so is every commit after it; every other step leaves all answers alone |
| `NeverOlderThanTheFetch`, `RepullsAreSilent` | the action properties `NeverOlderThanSeen` and `RepullWritesNothing` for any number of writers and any overlap, if there is one report row for a key | `LoadInv`: a batch has one row of a key (`OneRow`), publication only grows from what the table held at a fetch over the batch to the report (`RevsOrdered`), and a change that is not committed differs from its row (`PendingDiffers`) |
| `RowsTellTheTruth` (JobsProofs) | `StatusTruthful` | a thread past `start_run` owns its row: two threads never have the same one, and the result a thread carries is the one recorded beside its row |
| `RowsAreNotShared` | `OneThreadPerRun` | part of the same invariant, `Truth` |
| `EndedRunsAreFinal` | the action property `EndedRowsStand`, for any guard and runs of any length | `Truth` again: what a thread writes is its own row, which it alone works on and has not ended yet; a sweep takes rows that say `running` |
| `JobsTypes` | `TypeOK` | a conjunct of `Truth` |
| `WindowNeverExceeded` (ErcotClientProofs) | `Budget` of the limiter | `LogOK`: the log is ordered and what has been popped is expired; a grant is appended only when the entry `Limit` places back has been popped |
| `RequestsNearBudget` | `SentBudget`: the requests of a window exceed the limit by one per thread at most | `SendsOK`: the n-th request is no older than the n-th grant and no younger than the grant as many places on as there are threads, since a thread holds one grant at a time |
| `SleepersFindASlot` | `NoBusyWait` | `SleepOK`: while no grant came after the one a thread slept for, its wake is past the expiry of the entry that keeps the window full |
| `MarginSuffices` | `SentBeforeExpiry`, if `Latency + Delay` does not exceed the margin and the margin is below a token's life | `Timing`: when a token was issued against when the process believes it ends |
| `RetriesAreFresh` | `RetryIsFresh` | `Fresh`: after a refusal no refused token of a call under way can be both cached and taken by it again |
| `ClientTypes`, `LockIsTheFetch` | `TypeOK`, `LockIsFetch` | `Base`: the lock agrees with the stages of the calls, every token in use was issued |
| `NoFetchIsNeedless` | the action property `NoNeedlessFetch` | `Believed`: the expiry a process believes in is no earlier than the token's own less the margin, so a token found stale is near its end |
| `PagesAreComplete`, `LoadsAreComplete`, `AnswersDoAgree`, `OneLoadAtATime`, `LoadTypes` (BackfillProofs) | `NeverTruncated`, `FinishedIsLoaded`, `AnswersAgree`, `OneAtATime`, `TypeOK` | `IInv`: every row a reader had at first is either yielded or on a later page (an insertion moves rows to later pages only), every wanted key of the windows behind the current one is stored, and the lock is held by the one thread that is not idle |
| `LockIsAThread` | `RefusedForARun`, if `start_run` and the client never raise | the run `backfill_leak` shows that the condition is needed |
| `RoundTrip`, `NeverCollide`, `RaisesOnTheSkipped` (CentralTimeProofs) | the conversion is exact, one-to-one and raises on the skipped hour only | linear arithmetic |
| `LongDayInOrder`, `ShortDayInOrder` | the hours of the 25- and 23-hour day follow each other | |
| `LiveTypes`, `PricesKeepTheirHour` | `TypeOK`, `NoHourShifted` of the live jobs | `RoundTrip`: a row's key is its own instant |
| `LookbackLeavesNoHole` | `NoHoles`, if `LongEnough`: the lookback has an hour for each pass that may fail, one for the pass itself and one for the clock, and ERCOT is late by less than an hour. The 180 minutes of `jobs.py` are that for one failed pass | `HoleInv`: a row that is missing has been in reach of failed passes only, so the next pass still comes before it leaves the window (`OnlyFailedPasses`); it needs that ERCOT's lateness is bounded (`Published`) and that a window that does not begin in the repeated hour holds what it should |
| `TheCalendarsAgree`, `CalendarsAgreeOnTheDesk` (DeskProofs) | `tou_of` and `crr_time_of_use` agree on every hour of every date of every year, not only those of the run | weekdays counted from Monday and from Sunday differ by a constant; holidays are compared one by one |
| `FrozenAsShown`, `RedIsNotBought` | the limit, tier and size frozen are those of the page, for all integers a row may hold, and a row is red exactly if nothing is bought | the two texts are brought to the same cases; the size is claimed of rows that did not clear at 0 |
| `SheetsAgree` | `SheetAsShown` | the former, the same for the rebuilt sheet, and the typed-in hours of the months against the calendar: a month's days are counted by the weekday it begins on |
| `UploadsAreReviewed` | `UploadMatchesReview`, for books of any size and prices | the two tools trim alike; what rounding to a cent does to a ceiling is `NearestCent` |
| `TheTypicalMonthRules` | `TypicalMonth`, for any prices paid and cleared at, any window and trim | `Kth` has fewer than k values below it and k at or under it (`KthIs`), so at least half of the fitted months are at or above a median's half (`HalfAbove`) and beat a price capped by it (`ValueIsFair`); the tail occurs in no price. The scans cut the same value by 55 percent at most |
| `NothingFromTheFuture` | `DecidedOnThePast`, for any spreads, flags and auctions, folds and months | the code's cutoff is not after the day-ahead close, nor for an evening hour after the hour (`CutoffBeforeClose`), and what comes after a cutoff changes no signal, so neither does what comes after any later instant (`SignalsKnowNoMore`): the rows before a cutoff are the first ones of the sorted history, in the same order (`FirstOnes`), and a running sum over them does not see the others (`SumsOfFirstOnes`); `MonthsAdd` for the windows of months |
| `PointerIsAtCutoff` | the pointer of `generate_signals` has passed just the rows before each target's cutoff | targets ascend, and so do their cutoffs: what it has passed for the last one belongs to the next |
| `GradingTypes` (GradingProofs) | `TypeOK` | `IngestOK`, `PassesOK`: what a load and a pass hold is of the posted auctions and the rows that are there |
| `BidsGradedInFull` | `GradedInFull`, for any bids, passes, failures and late prices, in any order | `GradesHonest`: what a pass has staged, and what a bid has got, is null or `Honest`, over a month whose last day is there, and all of it unless a day came after a later one, whatever has been loaded since. `DaysInOrder`: in such a month the days there are all up to the last one. Two passes may stage the same row: both are right |
| `NothingTakenBack` | the action property `RegisterKeeps` | the same invariant: two passes stage the same fill, for the awards of a loaded auction stay; a value of a month in order is its whole month in both |
| `PricesBeforeBids` | `EveryMonthPriced` | `PricedFirst`: the tables of a report are loaded in order, so before its bids its prices are |
| `FeedsTypes` (FeedsProofs) | `TypeOK` of the feeds, all 21 loaders | the conjunct `Types` of the invariant below |
| `NewestRowsStand` | `NewestStands`, for every page size, cutoff, window, number of documents, runs and faults; if the notices that may be posted fit the five pages that a listing reads; of documents with posting times | `FeedInv`, see below |
| `EditionsStay` | `EditionsKept`, for any number of days ERCOT lists | `PlanInv` with `UnderWay`, `Ended`: about the oldest day ERCOT lists. The run of today is the last that sees it and takes it first, so no other edition can be in its way |

`FeedInv` says of a run in each phase what it has seen to. `Listings`: what the pages
read so far hold is the newest of what was there when it began, without a gap.
`Readings`: of the parts behind it every row it keeps is in the buffer or the table,
from that document or a newer one; the archive loaders read oldest first, so the
last word is the newest, and a batch that was written took only what was older.
`Windows` and `SiteReadings` say the same of the loaders that read a window or a site
at a time, `Once` that no document is listed twice, and `Done` what is left of all
this when the run ends; that one is `NewestStands`. `Readings` and `Done` speak of
the loaders whose listing reaches back far enough.

Induction over data: the library's induction theorems take an operator as a
parameter, which the installed provers can not instantiate. Where a sum, a filter,
an order or a join over a sequence matters (`DeskProofs`, `GradingProofs`,
`FeedsProofs`) the proof takes the least length at which the claim fails, and derives
that it does not (`UptoInductive` states that with a set). For that such operators
are recursive functions over a sequence's indices (`Lists`, `Over` in `FeedRows`,
`Sums` and `Pointer` in `Backtest`) and not those of the community modules, and a
sorted list is the enumeration of a set by rank (`InOrder`).

Assumptions on the constants are what the code and its sources provide: bounds are
natural numbers, sentinels are not values (`NoTaskAssumption`, `NullAssumption`, ..),
a report gives a node one price for a block and month (`ReportAssumption`, which
`POINT_PRICE_KEY` relies on), what `market_scan` keeps has cleared at 5 cents or more
(`ValuationsAssumption`), documents about one thing have rows with the same flaws
(`DocAssumption`), a load range has an end (`RangeAssumption`). A month is a year and
a number from 1 to 12 and prices are whole cents (`PathsAssumption`,
`MonthsAssumption`); a history has finitely many hours, and its fold ends the training
before the test (`HistoriesAssumption`), as `walk_forward` does with any embargo that
is not negative. The limiter's threads are finitely many, which a thread pool's are.

Only model-checked: all liveness (`Converges`, `OrphansClosed`, `CallsEnd`,
`LoadsEnd`, `EveryBidGraded`), which is beyond the prover with fairness. Every
invariant and every action property of a passing run is a theorem. Not claimed by one:
that `HubFilled`, `Score` and the basis of a scan mean what they should, which the run
evaluates and no property is about.
`OneThreadPerRun`, `LockIsFetch` and `TypeOK` of the client are proved and no
longer run: a proof for all values leaves a run of them nothing to add.

## Disagreements

Two runs end in a violation, each of a sentence of the repository:

1. `backfill_leak`: `start_run` or the client's constructor raising before the `try`
   leaves the lock held; every later start is refused until a restart.
2. `grading_sheets`: `score_sheets` claims the "same basis as score_paper", but waits
   only for the month to be over, and not for its last prices: it settles a sheet
   row on the days that are there and does not look at it again.

Met while modelling, without a run of their own. In the price store and the jobs:

- `db.py:114-116` says there are no concurrent writers of a table. `rt_lmp_5min` is
  written by `lmp5` and `lmp5_catchup`, and every price table by a backfill. With two
  transactions open at once a row of the history can end before it begins, or overlap
  another: without `~overlapped`, `HistoryChain` fails in `prices`. `NoLookahead` holds
  nevertheless.
- `db.py:85` says "an unchanged re-pull produces no writes". Two SCED runs in one
  five-minute slot share a key (`ingest.py:257`), and writing the same batch again
  alternates the row, with a history row each time (`RowsPerKey` of two).
- A fetch overtaken by a restatement is written after it: `HANDOFF.md` calls
  overlapping runs "harmless - the primary keys make it idempotent", but the older
  price replaces the newer one until the next load. That a row is never replaced by an
  earlier publication of it fails with two writers; `NeverOlderThanSeen` says how far
  back a row can go.
- `close_interrupted_runs` says 5 minutes "is longer than any scheduled job takes"
  (`db.py:354-356`). `refresh_signal_views` allows itself 30, and a backfill takes longer
  still: when another process starts, the row of such a run is closed as an error while
  its thread works on. `EndedRowsStand` says that the run, when it ends, corrects it.
- "No two runs of the same job may overlap" (`service.py`) holds for the scheduler of
  one process; `/trigger` and a second process are not bound by it.
- `run_job` is documented never to raise; `start_run` and `finish_run` are outside its
  `try`.
- `client.py:121` promises one refresh of a rejected token, but line 124 ties it to the
  first *attempt*: a call that was throttled first and is refused then fails
  without it.
- The comment at `backfill.py:198` still speaks of a silent truncation at 40 pages;
  the client raises, at 250.
- The repair pass of the repeated hour, see `NoHoles` above. `ingest_rtd` has one
  repeat flag for two stamps (`ingest.py:304`).

On the research desk:

- `market_scan` drops a path with fewer than `MIN_HOURS` = 2000 fitted hours. Eleven
  fitted months hold 1552 to 1680 hours of PeakWE, so no such path is ever valued,
  although line 8 says it "values the ENTIRE traded universe"; likewise
  `discover_paths.py:165`.
- `freeze_sheet` "replicates the ticket's own derivation", but a path that cleared at 0
  is sized at its limit in the frozen sheet and at a rate of 0 on the page, and rows
  whose endpoints are no longer active are frozen while the page sets them aside.
- `backtest.as_of_for` takes the day of the target in UTC. The targets from 00:00 to
  05:00 UTC are the evening of the Central day before, so their cutoff lies a day after
  the day-ahead close of their operating day, in the operating day itself, although
  `backtest.py:13-15` calls the harness "exact about look-ahead" and `37-38` says a
  decision after the close "is not a decision, it is hindsight". `LatestFor` excepts these hours from `DecidedOnThePast`.
- "The tail can only remove" (`valuation.py`) holds of the price; but a fit whose end
  collapsed is forgiven if the tail recovered.
- `auction_prep` adds a row to sell to the megawatts of its path and uploads the sum as
  BUY; `int(mw)` cuts a fraction off, so that a path of less than a megawatt is uploaded
  with 0; the rounded price may be half a cent above the ceiling,
  which `UploadMatchesReview` allows.
- `bid_ceiling` and `auction_prep` look back 13 months; a month's cache file written
  before the month is complete stays partial; the "3 most recent" auctions of
  `market_scan` are those ingested last; `hub_walkforward` fits the month two before
  delivery; a freeze of `lt_strip_scan` puts several months under one primary key.

In scoring and the loaders:

- The load of CRR results reports `empty` when every report fails (`crr.py:303`). Awards
  revised between two overlapping passes could mix the fill of one with the P&L of
  the other, and a day-ahead hour filled after its month was settled is not seen.
- `is_settled` (`scoring.py:100-113`) asks for the last day of the month only. A month
  with a day missing before it, after a failed load say, is scored on the days that are
  there, and where a pass that overlaps reads the missing day, the value may change.
- One backfill at a time holds within a process; two of them overlap at a deploy.
- `scripts/backfill.py` `load_rtm` lacks the filter on the energy-weighted series that
  `ingest.py:43-48` explains and both other loaders have: of a load zone it stores
  either of the two.
- The archive loaders start again at the oldest file, so until they have caught up,
  and after a failure of the newest one, older values replace newer ones; rows a
  later RUC run no longer lists remain.
- Listings of notices end after five pages of 100; `--details N` overwrites stored
  bodies with nulls. `--limit` of the GIS loader reads the newest document first, so
  of a re-posted month the older one wins. Constraints without an id share id 0.
- Forecast rows without a posting time override others (`fundamentals.py:88`), newer
  ones too; `NewestStands` excepts the documents that come without. A second
  edition of a day posted after the first was saved is not saved
  (`outage_plan.py`), and "a malformed edition is skipped" ends the run instead;
  `EditionsKept` says what that costs: no well-formed edition. A failed archive of the
  weather loses that vintage, and a mean may mix model runs of its sites.

## Not modelled

`PROJECT.json` lists every component with the reason. In short:

- **Partitions and signal views**: where a row lies and a cached query; what a query
  returns is that of the tables, which are modelled. `crr_pnl`, the one view whose
  staleness a job depends on, is in `CrrIngest`.
- **Billing, holder claims, email suppression, plan gate**: the web site's, in
  TypeScript and SQL, each a row or two; the project is about the Python program.
- **Health endpoint**: reads and compares, changes nothing.
- **Product artifacts, studies, reports and seeds, constraint registry**: computations
  and reference data without state of their own. A model would repeat formulas.
- **Web pages**: they display. The one that derives something others must agree with,
  the ticket of `/bids`, is in `Sheets`.

Within the modelled components: parsing of stamps and columns, the filter on tracked
points, heartbeats and logging are left out; the rate limiter and the client are
modelled apart (the client's wait takes any time); of the desk the queries, files and
t-statistics; the count that refuses a second freeze of a sheet, and the
reconstruction's own copy of the market scan; of scoring the mark to date of a month
under way; of the loaders the columns and cells. Postgres is trusted to do what it
documents, and time in `Feeds` is the order of posting.

## Plan

Done, in this order: the price store and its ledger; jobs; limiter and client; paging
and backfill; time and the live jobs; the desk with its calendar and sheets; CRR
results and scoring; the feeds and the outage plan.

Of the proofs, in this order: types; the invariants of the store, the jobs, the
client and the backfill; time and the live jobs; the refinement of the ledger; the
limiter; scoring; the desk's sheets and uploads; the feeds; the desk's prices and
walks.

What is left:

1. The safety half of the liveness properties: that what a fair step needs stays
   there until it is taken, as invariants of their own.
2. An abstract register of paper bids, written once where days come in order, which `Grading`
   implements by `NothingTakenBack` and `BidsGradedInFull`.

The number of runs stays at what the questions need: a new component would bring one
run with all its properties.
