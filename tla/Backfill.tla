------------------------------ MODULE Backfill ------------------------------
(***************************************************************************)
(* Historical loads: POST /backfill starts a thread, one at a time, that   *)
(* reads every (point, window) of a date range page by page and stores it, *)
(* while ERCOT goes on publishing and the process may be replaced.         *)
(***************************************************************************)
EXTENDS Paging

CONSTANTS
    Worker,     \* threads that can be started
    Point,      \* settlement points
    LastDay,    \* bound: days
    Span,       \* CHUNK_DAYS: days of a window
    MaxRuns,    \* bound: backfills ever started
    Request,    \* the points and dates that are asked for
    Reports,    \* what ERCOT may have published at first
    Late,       \* bound: the keys ERCOT can still publish
    Faults      \* which steps can raise

Day == 1 .. LastDay

Steps == {"start_run", "store", "finish_run"}

\* A row of the market's report: its key, and so the place of its price.
Key == [point : Point, day : Day]

ASSUME BackfillAssumption ==
    /\ LastDay \in Nat \ {0} /\ Span \in Nat \ {0} /\ MaxRuns \in Nat /\ Point # {}
    /\ Request \subseteq [points : SUBSET Point, from : Day, to : Day]
    /\ Reports \subseteq SUBSET Key /\ Late \subseteq Key
    /\ \A R \in Reports : IsFiniteSet(R)
    /\ Faults \subseteq Steps
    /\ Row = Key

VARIABLES
    lock,       \* is _lock held
    state,      \* _state, what GET /backfill answers
    worker,     \* worker[w]: where thread w is
    published,  \* the rows ERCOT has published
    stored,     \* the keys the price table has
    log,        \* log[n]: the ingest_runs row of the n-th backfill
    begun       \* how many there have been

ercot == <<report, reader>>
vars == <<ercot, lock, state, worker, published, stored, log, begun>>

\* left: the points not loaded yet, the current one included.  lo: the first day
\* of the current window.
Task == [stage : {"none", "starting", "opening", "reading", "finishing", "failing",
                  "unmarking", "releasing"},
         run : 0 .. MaxRuns, left : SUBSET Point, from : Day, to : Day, lo : Day,
         point : Point, seen : BOOLEAN]

Run == [status : {"none", "running", "ok", "empty", "error"}, wanted : SUBSET Key]

NoState == [running |-> FALSE, finished |-> FALSE, error |-> FALSE, run |-> 0]

Idle == [stage |-> "none", run |-> 0, left |-> {}, from |-> 1, to |-> 1, lo |-> 1,
         point |-> CHOOSE p \in Point : TRUE, seen |-> FALSE]

At(w, stage) == worker[w].stage = stage

Goto(w, stage) == worker' = [worker EXCEPT ![w].stage = stage]

Init ==
    /\ PagingInit
    /\ lock = FALSE
    /\ state = NoState
    /\ worker = [w \in Worker |-> Idle]
    /\ published \in Reports
    /\ stored = {}
    /\ log = [n \in 1 .. MaxRuns |-> [status |-> "none", wanted |-> {}]]
    /\ begun = 0

InRange(k, P, a, b) == k.point \in P /\ a <= k.day /\ k.day <= b

\* The keys of a range that ERCOT has.
Wanted(P, a, b) == {k \in published : InRange(k, P, a, b)}

-----------------------------------------------------------------------------
\* The lock is taken, _state cleared and the thread started.
Begin(w, q) ==
    /\ begun' = begun + 1
    /\ lock' = TRUE
    /\ state' = [NoState EXCEPT !.running = TRUE, !.run = begun + 1]
    /\ worker' = [worker EXCEPT ![w] =
          [Idle EXCEPT !.stage = "starting", !.run = begun + 1, !.left = q.points,
                       !.from = q.from, !.to = q.to, !.lo = q.from]]

\* Mutant of Start: blocking = False, but the answer is not looked at.
StartUnlocked(w, q) ==
    /\ At(w, "none")
    /\ begun < MaxRuns
    /\ q.from <= q.to
    /\ Begin(w, q)
    /\ UNCHANGED <<ercot, published, stored, log>>

\* start(): refused while the lock is held, or if the dates are in the wrong order.
Start(w, q) ==
    /\ At(w, "none")
    /\ begun < MaxRuns
    /\ q.from <= q.to
    /\ ~lock
    /\ Begin(w, q)
    /\ UNCHANGED <<ercot, published, stored, log>>

\* _run: db.start_run and the client, before the try.
StartRun(w) ==
    /\ At(w, "starting")
    /\ log' = [log EXCEPT ![worker[w].run] =
                 [status |-> "running",
                  wanted |-> Wanted(worker[w].left, worker[w].from, worker[w].to)]]
    /\ Goto(w, "opening")
    /\ UNCHANGED <<ercot, lock, state, published, stored, begun>>

\* What they raise ends the thread: nothing releases the lock.
StartRunRaises(w) ==
    /\ "start_run" \in Faults
    /\ At(w, "starting")
    /\ worker' = [worker EXCEPT ![w] = Idle]
    /\ UNCHANGED <<ercot, lock, state, published, stored, log, begun>>

\* Mutant of Stop: the last window is not cut at the end of the range.
StopUncut(lo, to) == lo + Span - 1

\* min(current + timedelta(days - 1), end)
Stop(lo, to) == IF lo + Span - 1 < to THEN lo + Span - 1 ELSE to

Window(t) == Wanted({t.point}, t.lo, Stop(t.lo, t.to))

\* The next point is taken up when the windows of the last one are through.
OpenWindow(w) ==
    LET t == worker[w]
    IN  /\ At(w, "opening")
        /\ t.left # {}
        /\ \E p \in t.left :
              /\ t.lo > t.from => p = t.point
              /\ worker' = [worker EXCEPT ![w].stage = "reading", ![w].point = p]
              /\ \E s \in [1 .. Cardinality(Window([t EXCEPT !.point = p]))
                              -> Window([t EXCEPT !.point = p])] :
                    /\ Content(s) = Window([t EXCEPT !.point = p])
                    /\ Open(s)
        /\ UNCHANGED <<lock, state, published, stored, log, begun>>

\* rows(): page by page.
ReadPage(w) ==
    /\ At(w, "reading")
    /\ Read
    /\ UNCHANGED <<lock, state, worker, published, stored, log, begun>>

\* Mutants of Moved: the end of one point's windows ends the load; the same
\* window again.
MovedOnePoint(t, stop) ==
    [t EXCEPT !.stage = IF stop = t.to THEN "finishing" ELSE "opening",
              !.left = IF stop = t.to THEN {} ELSE @,
              !.lo = IF stop = t.to THEN t.from ELSE stop + 1]

MovedNowhere(t, stop) == [t EXCEPT !.stage = "opening"]

\* The two loops: the next window of the point, the next point, or the end.
Moved(t, stop) ==
    [t EXCEPT !.stage = IF stop = t.to /\ t.left = {t.point} THEN "finishing" ELSE "opening",
              !.left = IF stop = t.to THEN @ \ {t.point} ELSE @,
              !.lo = IF stop = t.to THEN t.from ELSE stop + 1]

\* rows() returns, and upsert_rows stores what it yielded.
Store(w) ==
    LET t == [worker[w] EXCEPT !.seen = @ \/ reader.got # {}]
    IN  /\ At(w, "reading")
        /\ reader.stage = "done"
        /\ stored' = stored \cup reader.got
        /\ Close
        /\ worker' = [worker EXCEPT ![w] = Moved(t, Stop(t.lo, t.to))]
        /\ UNCHANGED <<lock, state, published, log, begun>>

\* rows() or upsert_rows raises.
LoadFails(w) ==
    /\ At(w, "reading")
    /\ reader.stage = "raised" \/ (reader.stage = "done" /\ "store" \in Faults)
    /\ Close
    /\ Goto(w, "failing")
    /\ UNCHANGED <<lock, state, published, stored, log, begun>>

\* finish_run, then _state, at the end of the try.
Finish(w) ==
    /\ At(w, "finishing")
    /\ log' = [log EXCEPT ![worker[w].run].status = IF worker[w].seen THEN "ok" ELSE "empty"]
    /\ state' = [state EXCEPT !.finished = TRUE, !.error = FALSE]
    /\ Goto(w, "unmarking")
    /\ UNCHANGED <<ercot, lock, published, stored, begun>>

\* finish_run raises: the handler takes over.
FinishRaises(w) ==
    /\ At(w, "finishing")
    /\ "finish_run" \in Faults
    /\ Goto(w, "failing")
    /\ UNCHANGED <<ercot, lock, state, published, stored, log, begun>>

\* Mutant of Fail: _state is told of the end, and not of the error.
FailQuietly(w) ==
    /\ At(w, "failing")
    /\ log' = [log EXCEPT ![worker[w].run].status = "error"]
    /\ state' = [state EXCEPT !.finished = TRUE]
    /\ Goto(w, "unmarking")
    /\ UNCHANGED <<ercot, lock, published, stored, begun>>

\* The handler: finish_run with the error, then _state.
Fail(w) ==
    /\ At(w, "failing")
    /\ log' = [log EXCEPT ![worker[w].run].status = "error"]
    /\ state' = [state EXCEPT !.finished = TRUE, !.error = TRUE]
    /\ Goto(w, "unmarking")
    /\ UNCHANGED <<ercot, lock, published, stored, begun>>

\* finish_run raises in the handler; the finally is reached all the same.
FailRaises(w) ==
    /\ At(w, "failing")
    /\ "finish_run" \in Faults
    /\ Goto(w, "unmarking")
    /\ UNCHANGED <<ercot, lock, state, published, stored, log, begun>>

\* The finally: two steps.
Unmark(w) ==
    /\ At(w, "unmarking")
    /\ state' = [state EXCEPT !.running = FALSE]
    /\ Goto(w, "releasing")
    /\ UNCHANGED <<ercot, lock, published, stored, log, begun>>

Release(w) ==
    /\ At(w, "releasing")
    /\ lock' = FALSE
    /\ worker' = [worker EXCEPT ![w] = Idle]
    /\ UNCHANGED <<ercot, state, published, stored, log, begun>>

\* Thread w is reading the window that key k falls into.
Reading(w, k) ==
    /\ At(w, "reading")
    /\ reader.stage = "reading"
    /\ InRange(k, {worker[w].point}, worker[w].lo, Stop(worker[w].lo, worker[w].to))

\* ERCOT publishes one more row, anywhere in the report that is being read.
Publish(k) ==
    /\ k \notin published
    /\ published' = published \cup {k}
    /\ IF \E w \in Worker : Reading(w, k)
       THEN \E i \in 1 .. Len(report) + 1 : Insert(k, i)
       ELSE UNCHANGED ercot
    /\ UNCHANGED <<lock, state, worker, stored, log, begun>>

\* The process is replaced: its daemon thread, lock and state are gone.  At a deploy
\* the old process may go on for a while beside the new one, with a thread and a lock
\* of its own.  The two share only the database, where each has its own run, and a
\* load reads nothing from it: the module follows one process at a time.
Restart ==
    /\ lock' = FALSE
    /\ state' = NoState
    /\ worker' = [w \in Worker |-> Idle]
    /\ report' = <<>>
    /\ reader' = NoReader
    /\ UNCHANGED <<published, stored, log, begun>>

RunSteps(w) ==
    \/ StartRun(w) \/ StartRunRaises(w)
    \/ OpenWindow(w) \/ ReadPage(w) \/ Store(w) \/ LoadFails(w)
    \/ Finish(w) \/ FinishRaises(w) \/ Fail(w) \/ FailRaises(w)
    \/ Unmark(w) \/ Release(w)

Next ==
    \/ \E w \in Worker, q \in Request : Start(w, q)
    \/ \E w \in Worker : RunSteps(w)
    \/ \E k \in Late : Publish(k)
    \/ Restart

Spec == Init /\ [][Next]_vars

-----------------------------------------------------------------------------
(* Properties.                                                             *)

TypeOK ==
    /\ report \in Seq(Key)
    /\ reader \in Reader
    /\ lock \in BOOLEAN
    /\ state \in [running : BOOLEAN, finished : BOOLEAN, error : BOOLEAN, run : 0 .. MaxRuns]
    /\ worker \in [Worker -> Task]
    /\ published \subseteq Key
    /\ stored \subseteq published
    /\ log \in [1 .. MaxRuns -> Run]
    /\ begun \in 0 .. MaxRuns

\* A backfill that reports ok or empty has stored every row of its range that
\* ERCOT had when it began: the windows leave no day out, no page is missed, and
\* an exception anywhere is not taken for the end.  Empty means there was none.
FinishedIsLoaded ==
    \A n \in 1 .. MaxRuns :
        /\ log[n].status \in {"ok", "empty"} => log[n].wanted \subseteq stored
        /\ log[n].status = "empty" => log[n].wanted = {}

\* GET /backfill never tells of an end that ingest_runs tells otherwise.
AnswersAgree ==
    state.finished =>
        (IF state.error THEN log[state.run].status = "error"
                        ELSE log[state.run].status \in {"ok", "empty"})

\* "One backfill at a time", in one process: never two threads, and none without the
\* lock.  Nothing keeps the processes of a deploy, old and new, from a load each.
OneAtATime ==
    /\ \A v, w \in Worker : (~At(v, "none") /\ ~At(w, "none")) => v = w
    /\ \A w \in Worker : ~At(w, "none") => lock

\* "Raises if one is already running": what a refused start stands behind is a
\* thread at work.
RefusedForARun == lock => \E w \in Worker : ~At(w, "none")

\* Every load comes to its end, whatever ERCOT publishes meanwhile and which of its
\* steps fail.
LoadsEnd == \A w \in Worker : ~At(w, "none") ~> At(w, "none")

\* A thread goes on until it ends.
Fairness == \A w \in Worker : WF_vars(RunSteps(w))

FairSpec == Spec /\ Fairness
=============================================================================
