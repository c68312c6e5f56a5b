----------------------------- MODULE JobsProofs ----------------------------
(***************************************************************************)
(* Proofs about Jobs: the rows of ingest_runs tell the truth, and what a   *)
(* row says of an ended run is final, however long runs take and whatever  *)
(* the age guard of the startup sweep.                                     *)
(***************************************************************************)
EXTENDS Jobs, TLAPS

\* Nobody has recorded what run r came to.
Unended(r) == runs[r].status = "running" \/ (runs[r].status = "error" /\ runs[r].closed)

\* A thread past start_run has a row, which nobody has finished yet but a sweep
\* may have closed, and which holds the job's result once there is one.
RowsOK ==
    \A t \in Thread, r \in RunId : Runs(t, r) =>
        /\ IsRun(r)
        /\ Unended(r)
        /\ thread[t].stage = "finishing" => runs[r].result = thread[t].result

TaskOK ==
    \A t \in Thread : ~Idle(t) =>
        /\ IF thread[t].stage = "called" THEN thread[t].run = NoRun ELSE thread[t].run \in RunId
        /\ thread[t].stage = "finishing" => thread[t].result \in Result

Truth == TypeOK /\ TaskOK /\ RowsOK /\ OneThreadPerRun /\ StatusTruthful

LEMMA TruthInit == Init => Truth
<1> SUFFICES ASSUME Init PROVE Truth
  OBVIOUS
<1>1. Blank \in RunRow
  BY TimesAssumption DEF Blank, RunRow, Age
<1>2. TypeOK
  <2>1. thread \in [Thread -> Task \cup {NoTask}] /\ runs \in [RunId -> RunRow]
    BY <1>1 DEF Init
  <2>2. lastRun \in 0 .. MaxRuns
    BY TimesAssumption DEF Init
  <2>3. proc \in [Instance -> {"down", "booting", "up", "draining"}]
    BY DEF Init
  <2> QED BY <2>1, <2>2, <2>3 DEF TypeOK
<1>3. TaskOK /\ RowsOK /\ OneThreadPerRun
  BY DEF Init, TaskOK, RowsOK, OneThreadPerRun, Idle, Runs
<1>4. StatusTruthful
  BY DEF Init, StatusTruthful, IsRun, RunId
<1> QED BY <1>2, <1>3, <1>4 DEF Truth

\* A step that moves no thread and no row keeps the bookkeeping.
LEMMA TruthIdleStep ==
    ASSUME Truth, UNCHANGED <<thread, lastRun, runs>>,
           proc' \in [Instance -> {"down", "booting", "up", "draining"}]
    PROVE  Truth'
  BY DEF Truth, TypeOK, TaskOK, RowsOK, Unended, OneThreadPerRun, StatusTruthful, Idle, Runs, IsRun

\* A thread that becomes idle, or stays what it was, disturbs no row.
LEMMA TruthThreadsEnd ==
    ASSUME Truth, thread' \in [Thread -> Task \cup {NoTask}],
           \A t \in Thread : thread'[t] = NoTask \/ thread'[t] = thread[t],
           UNCHANGED <<lastRun, runs>>,
           proc' \in [Instance -> {"down", "booting", "up", "draining"}]
    PROVE  Truth'
  BY DEF Truth, TypeOK, TaskOK, RowsOK, Unended, OneThreadPerRun, StatusTruthful, Idle, Runs, IsRun

LEMMA TruthStep == Truth /\ [Next]_vars => Truth'
<1> SUFFICES ASSUME Truth, [Next]_vars PROVE Truth'
  OBVIOUS
<1>t. /\ proc \in [Instance -> {"down", "booting", "up", "draining"}]
      /\ thread \in [Thread -> Task \cup {NoTask}] /\ lastRun \in 0 .. MaxRuns
      /\ runs \in [RunId -> RunRow]
  BY DEF Truth, TypeOK
<1>1. CASE Minute
  <2>1. runs' \in [RunId -> RunRow]
    BY <1>t, <1>1, TimesAssumption DEF Minute, RunRow, Age
  <2>2. \A r \in RunId : /\ runs'[r].status = runs[r].status /\ runs'[r].result = runs[r].result
                         /\ runs'[r].closed = runs[r].closed
    BY <1>t, <1>1 DEF Minute, RunRow
  <2>3. UNCHANGED <<proc, thread, lastRun>>
    BY <1>1 DEF Minute
  <2> QED BY <2>1, <2>2, <2>3 DEF Truth, TypeOK, TaskOK, RowsOK, Unended, OneThreadPerRun,
             StatusTruthful, Idle, Runs, IsRun
<1>2. ASSUME NEW i \in Instance, Service(i) PROVE Truth'
  <2>1. CASE Boot(i) \/ SweepFails(i) \/ Shutdown(i) \/ Exit(i)
    BY <1>t, <2>1, TruthIdleStep DEF Boot, SweepFails, Shutdown, Exit
  <2>2. CASE Sweep(i)
    <3>1. runs' \in [RunId -> RunRow]
      BY <1>t, <2>2, ZenonT(60) DEF Sweep, RunRow, Result
    <3>2. \A r \in RunId :
             /\ runs'[r].result = runs[r].result
             /\ \/ runs'[r].status = runs[r].status /\ runs'[r].closed = runs[r].closed
                \/ runs'[r].status = "error" /\ runs'[r].closed
      BY <1>t, <2>2 DEF Sweep, RunRow
    <3>3. proc' \in [Instance -> {"down", "booting", "up", "draining"}]
      BY <1>t, <2>2 DEF Sweep
    <3>4. UNCHANGED <<thread, lastRun>>
      BY <2>2 DEF Sweep
    <3> QED BY <3>1, <3>2, <3>3, <3>4 DEF Truth, TypeOK, TaskOK, RowsOK, Unended, OneThreadPerRun,
               StatusTruthful, Idle, Runs, IsRun
  <2>3. CASE Kill(i)
    BY <1>t, <2>3, TruthThreadsEnd DEF Kill
  <2> QED BY <1>2, <2>1, <2>2, <2>3 DEF Service
<1>3. ASSUME NEW t \in Thread, NEW i \in Instance, NEW j \in Job, Fire(t, i, j) \/ Trigger(t, i, j)
      PROVE  Truth'
  <2> PICK via \in {"scheduler", "trigger"} : Call(t, i, j, via)
    BY <1>3 DEF Fire, Trigger
  <2> DEFINE new == [stage |-> "called", inst |-> i, job |-> j, via |-> via,
                     run |-> NoRun, result |-> NoResult]
  <2>1. new \in Task /\ new.stage = "called" /\ new.run = NoRun
    BY DEF Task
  <2>2. /\ thread' = [thread EXCEPT ![t] = new] /\ Idle(t)
        /\ UNCHANGED <<proc, lastRun, runs>>
    BY DEF Call
  <2> HIDE DEF new
  <2>3. thread' \in [Thread -> Task \cup {NoTask}]
    BY <1>t, <2>1, <2>2
  <2> QED BY <1>t, <2>1, <2>2, <2>3 DEF Truth, TypeOK, TaskOK, RowsOK, Unended, OneThreadPerRun,
             StatusTruthful, Idle, Runs, IsRun
<1>4. ASSUME NEW t \in Thread, RunJob(t) PROVE Truth'
  <2>1. CASE StartRun(t)
    <3>1. /\ lastRun + 1 \in RunId /\ lastRun' = lastRun + 1 /\ lastRun' \in 0 .. MaxRuns
          /\ thread[t] \in Task /\ thread[t].stage = "called"
          /\ UNCHANGED <<proc>>
      BY <1>t, <2>1, TimesAssumption DEF StartRun, At, Idle, RunId
    <3> DEFINE row == [status |-> "running", age |-> 0, closed |-> FALSE, result |-> NoResult]
    <3>2. runs' = [runs EXCEPT ![lastRun + 1] = row] /\ row \in RunRow
      BY <2>1, TimesAssumption DEF StartRun, RunRow, Age
    <3>3. thread' = [thread EXCEPT ![t].stage = "running", ![t].run = lastRun + 1]
      BY <2>1 DEF StartRun
    <3>4. /\ thread'[t] \in Task /\ thread'[t].stage = "running" /\ thread'[t].run = lastRun + 1
          /\ \A u \in Thread \ {t} : thread'[u] = thread[u]
          /\ thread' \in [Thread -> Task \cup {NoTask}]
      BY <1>t, <3>1, <3>3 DEF Task
    <3>5. TypeOK'
      BY <1>t, <3>1, <3>2, <3>4 DEF TypeOK
    <3>6. \A u \in Thread, r \in RunId : Runs(u, r) => r <= lastRun
      BY DEF Truth, RowsOK, IsRun
    <3>7. \A u \in Thread, r \in RunId : Runs(u, r)' =>
             IF u = t THEN r = lastRun + 1 ELSE Runs(u, r)
      BY <3>4 DEF Runs, Idle
    <3>8. TaskOK'
      BY <1>t, <3>1, <3>4, NoTaskAssumption DEF Truth, TaskOK, Idle
    <3>9. \A r \in RunId : r # lastRun + 1 => runs'[r] = runs[r]
      BY <3>2, <1>t
    <3>10. runs'[lastRun + 1].status = "running"
      BY <3>1, <3>2, <1>t
    <3>11. RowsOK' /\ OneThreadPerRun'
      BY <1>t, <3>1, <3>4, <3>6, <3>7, <3>9, <3>10
      DEF Truth, RowsOK, Unended, OneThreadPerRun, IsRun, RunId
    <3>12. StatusTruthful'
      BY <1>t, <3>1, <3>9, <3>10 DEF Truth, StatusTruthful, IsRun, RunId
    <3> QED BY <3>5, <3>8, <3>11, <3>12 DEF Truth
  <2>2. CASE StartRunRaises(t) \/ FinishRunRaises(t)
    BY <1>t, <2>2, TruthThreadsEnd DEF StartRunRaises, FinishRunRaises, Return
  <2>3. ASSUME NEW result \in Result, JobDone(t, result) PROVE Truth'
    <3> DEFINE r0 == thread[t].run
    <3>1. /\ thread[t] \in Task /\ thread[t] # NoTask /\ thread[t].stage = "running"
          /\ r0 \in RunId /\ Runs(t, r0) /\ UNCHANGED <<proc, lastRun>>
      BY <1>t, <2>3 DEF JobDone, At, Idle, Truth, TaskOK, Runs
    <3>2. /\ thread' \in [Thread -> Task \cup {NoTask}] /\ thread'[t].run = r0
          /\ thread'[t].result = result /\ thread'[t].stage = "finishing" /\ thread'[t] \in Task
          /\ \A u \in Thread \ {t} : thread'[u] = thread[u]
      BY <1>t, <2>3, <3>1 DEF JobDone, Task
    <3>3. runs' = [runs EXCEPT ![r0].result = result]
      BY <2>3 DEF JobDone
    <3> HIDE DEF r0
    <3>4. /\ runs' \in [RunId -> RunRow] /\ runs'[r0].result = result
          /\ \A r \in RunId : /\ runs'[r].status = runs[r].status
                             /\ runs'[r].closed = runs[r].closed
          /\ \A r \in RunId : r # r0 => runs'[r] = runs[r]
      BY <1>t, <3>1, <3>3 DEF RunRow
    <3>5. \A u \in Thread, r \in RunId : Runs(u, r)' <=> Runs(u, r)
      BY <3>1, <3>2, NoTaskAssumption DEF Runs, Idle, r0
    <3>6. Unended(r0) /\ \A u \in Thread : Runs(u, r0) => u = t
      BY <3>1 DEF Truth, RowsOK, OneThreadPerRun
    <3>7. TypeOK'
      BY <1>t, <3>1, <3>2, <3>4 DEF TypeOK
    <3>8. TaskOK'
      BY <3>1, <3>2 DEF Truth, TaskOK, Idle
    <3>9. RowsOK'
      <4> SUFFICES ASSUME NEW u \in Thread, NEW r \in RunId, Runs(u, r)'
                   PROVE  /\ IsRun(r)' /\ (Unended(r))'
                          /\ thread'[u].stage = "finishing" => runs'[r].result = thread'[u].result
        BY DEF RowsOK
      <4>0. Runs(u, r) /\ IsRun(r) /\ Unended(r)
        BY <3>5 DEF Truth, RowsOK
      <4>1. CASE u = t
        <5>1. r = r0
          BY <3>1, <4>0, <4>1 DEF Runs, r0
        <5> QED BY <3>1, <3>2, <3>4, <4>0, <4>1, <5>1 DEF IsRun, Unended
      <4>2. CASE u # t
        <5>1. r # r0
          BY <3>6, <4>0, <4>2
        <5> QED BY <3>1, <3>2, <3>4, <4>0, <4>2, <5>1 DEF Truth, RowsOK, Unended, IsRun
      <4> QED BY <4>1, <4>2
    <3>10. OneThreadPerRun'
      BY <3>5 DEF Truth, OneThreadPerRun
    <3>11. StatusTruthful'
      BY <3>1, <3>4, <3>6 DEF Truth, StatusTruthful, IsRun, Unended
    <3> QED BY <3>7, <3>8, <3>9, <3>10, <3>11 DEF Truth
  <2>4. CASE FinishRun(t)
    <3> DEFINE r0 == thread[t].run
    <3>1. /\ thread[t] \in Task /\ thread[t] # NoTask /\ thread[t].stage = "finishing"
          /\ r0 \in RunId /\ Runs(t, r0) /\ UNCHANGED <<proc, lastRun>>
      BY <1>t, <2>4 DEF FinishRun, At, Idle, Truth, TaskOK, Runs
    <3>2. /\ thread' \in [Thread -> Task \cup {NoTask}] /\ thread'[t] = NoTask
          /\ \A u \in Thread \ {t} : thread'[u] = thread[u]
      BY <1>t, <2>4 DEF FinishRun, Return
    <3>3. runs' = [runs EXCEPT ![r0].status = thread[t].result]
      BY <2>4 DEF FinishRun
    <3>4. runs[r0].result = thread[t].result
      BY <3>1 DEF Truth, RowsOK
    <3>5. \A u \in Thread, r \in RunId : Runs(u, r)' => Runs(u, r) /\ u # t /\ r # r0
      BY <3>1, <3>2 DEF Runs, Idle, Truth, OneThreadPerRun
    <3>6. thread[t].result \in Result
      BY <3>1 DEF Truth, TaskOK, Idle
    <3>7. /\ runs' \in [RunId -> RunRow] /\ runs'[r0].status = runs'[r0].result
          /\ \A r \in RunId : r # r0 => runs'[r] = runs[r]
      <4> HIDE DEF r0
      <4> QED BY <1>t, <3>1, <3>3, <3>4, <3>6 DEF RunRow
    <3>8. TypeOK' /\ TaskOK'
      BY <1>t, <3>1, <3>2, <3>7 DEF Truth, TypeOK, TaskOK, Idle
    <3>9. RowsOK' /\ OneThreadPerRun'
      BY <3>1, <3>2, <3>5, <3>7 DEF Truth, RowsOK, Unended, OneThreadPerRun, IsRun
    <3>10. StatusTruthful'
      BY <3>1, <3>7 DEF Truth, StatusTruthful, IsRun
    <3> QED BY <3>8, <3>9, <3>10 DEF Truth
  <2> QED BY <1>4, <2>1, <2>2, <2>3, <2>4 DEF RunJob
<1>5. CASE UNCHANGED vars
  BY <1>t, <1>5, TruthIdleStep DEF vars
<1> QED BY <1>1, <1>2, <1>3, <1>4, <1>5 DEF Next

\* Whatever processes, threads and bookkeeping failures there are, a row of
\* ingest_runs says ok or empty only of a run that came to that.
THEOREM RowsTellTheTruth == Spec => []StatusTruthful
<1>1. Truth => StatusTruthful
  BY DEF Truth
<1> QED BY TruthInit, TruthStep, <1>1, PTL DEF Spec

\* The tables and the threads of the processes keep their types (jobs.py: run_job,
\* service.py: lifespan).
THEOREM JobsTypes == Spec => []TypeOK
<1>1. Truth => TypeOK
  BY DEF Truth
<1> QED BY TruthInit, TruthStep, <1>1, PTL DEF Spec

\* start_run gives every run a row of its own (db.py: start_run): no two threads,
\* of one process or two, ever work on the same one.
THEOREM RowsAreNotShared == Spec => []OneThreadPerRun
<1>1. Truth => OneThreadPerRun
  BY DEF Truth
<1> QED BY TruthInit, TruthStep, <1>1, PTL DEF Spec

-----------------------------------------------------------------------------
(* Ended runs.                                                             *)

\* The step that EndedRowsStand speaks of, for one row.
Stands(r) ==
    (IsRun(r) /\ runs[r].status # "running" /\ runs'[r].status # runs[r].status) =>
        /\ runs[r].closed
        /\ \E t \in Thread : /\ At(t, "finishing") /\ thread[t].run = r
                              /\ runs'[r].status = thread[t].result

LEMMA StandsStep == Truth /\ Next => \A r \in RunId : Stands(r)
<1> SUFFICES ASSUME Truth, Next, NEW r \in RunId, IsRun(r), runs[r].status # "running",
                    runs'[r].status # runs[r].status
             PROVE  /\ runs[r].closed
                    /\ \E t \in Thread : /\ At(t, "finishing") /\ thread[t].run = r
                                          /\ runs'[r].status = thread[t].result
  BY DEF Stands
<1>t. thread \in [Thread -> Task \cup {NoTask}] /\ lastRun \in 0 .. MaxRuns
      /\ runs \in [RunId -> RunRow]
  BY DEF Truth, TypeOK
<1>1. CASE Minute
  BY <1>t, <1>1 DEF Minute, RunRow
<1>2. ASSUME NEW i \in Instance, Service(i) PROVE FALSE
  <2>1. CASE Sweep(i)
    BY <1>t, <2>1 DEF Sweep, Interrupted, RunRow
  <2> QED BY <1>2, <2>1 DEF Service, Boot, SweepFails, Shutdown, Exit, Kill
<1>3. ASSUME NEW t \in Thread, NEW i \in Instance, NEW j \in Job, Fire(t, i, j) \/ Trigger(t, i, j)
      PROVE  FALSE
  BY <1>3 DEF Fire, Trigger, Call
<1>4. ASSUME NEW t \in Thread, StartRun(t) PROVE FALSE
  <2>1. r # lastRun + 1
    BY <1>t, TimesAssumption DEF IsRun
  <2>2. runs'[r] = runs[r]
    BY <1>4, <1>t, <2>1 DEF StartRun
  <2> QED BY <2>2
<1>5. ASSUME NEW t \in Thread, NEW result \in Result, JobDone(t, result) PROVE FALSE
  BY <1>5, <1>t DEF JobDone, RunRow
<1>6. ASSUME NEW t \in Thread, FinishRun(t)
      PROVE  /\ runs[r].closed
             /\ At(t, "finishing") /\ thread[t].run = r /\ runs'[r].status = thread[t].result
  <2>1. At(t, "finishing") /\ runs' = [runs EXCEPT ![thread[t].run].status = thread[t].result]
    BY <1>6 DEF FinishRun
  <2>2. thread[t].run = r
    BY <1>t, <2>1
  <2>3. runs'[r].status = thread[t].result
    BY <1>t, <2>1, <2>2 DEF RunRow
  <2>4. Runs(t, r)
    BY <2>1, <2>2 DEF Runs, At
  <2>5. Unended(r)
    BY <2>4 DEF Truth, RowsOK
  <2> QED BY <2>1, <2>2, <2>3, <2>5 DEF Unended
<1>7. ASSUME NEW t \in Thread, StartRunRaises(t) \/ FinishRunRaises(t) PROVE FALSE
  BY <1>7 DEF StartRunRaises, FinishRunRaises
<1> QED BY <1>1, <1>2, <1>3, <1>4, <1>5, <1>6, <1>7 DEF Next, RunJob

\* What ingest_runs says of a run that ended is final, for any age guard and any
\* length of runs: only a row that close_interrupted_runs closed is rewritten, and
\* only by the finish_run of its own run, which was alive after all.
THEOREM EndedRunsAreFinal == Spec => EndedRowsStand
<1>1. Truth /\ [Next]_vars => [\A r \in RunId : Stands(r)]_vars
  BY StandsStep
<1> QED BY <1>1, TruthInit, TruthStep, PTL DEF Spec, EndedRowsStand, Stands
=============================================================================
