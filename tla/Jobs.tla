------------------------------- MODULE Jobs --------------------------------
(***************************************************************************)
(* The ingest service: each process (a Render container) has a scheduler   *)
(* that fires jobs and an API whose /trigger runs one on demand; run_job   *)
(* records every run in ingest_runs; a process that starts closes the rows *)
(* its predecessors left running.  Deploys overlap two processes, and a    *)
(* process can be killed at any point.                                     *)
(***************************************************************************)
EXTENDS Integers, FiniteSets

CONSTANTS
    Instance,   \* processes of the service
    Job,        \* job names
    Thread,     \* executor and request threads
    NoTask,     \* an idle thread
    MaxRuns,    \* bound: rows of ingest_runs
    Guard,      \* older_than_minutes of close_interrupted_runs
    MaxAge      \* bound: ages are counted up to here

ASSUME TimesAssumption ==
    /\ MaxRuns \in Nat
    /\ Guard \in Nat /\ MaxAge \in Nat /\ Guard < MaxAge

RunId == 1 .. MaxRuns
Age == 0 .. MaxAge
Result == {"ok", "empty", "error"}
NoResult == "none"
NoRun == 0

VARIABLES
    proc,       \* proc[i]: the life cycle of process i
    thread,     \* thread[t]: the call of run_job thread t is in
    lastRun,    \* the newest id of ingest_runs
    runs        \* runs[r]: the row of run r

vars == <<proc, thread, lastRun, runs>>

Task ==
    [stage : {"called", "running", "finishing"}, inst : Instance, job : Job,
     via : {"scheduler", "trigger"}, run : RunId \cup {NoRun},
     result : Result \cup {NoResult}]

ASSUME NoTaskAssumption == NoTask \notin Task

\* closed: by close_interrupted_runs.  result: what the job itself came to, which
\* the row does not record until finish_run.
RunRow == [status : {"running"} \cup Result, age : Age, closed : BOOLEAN,
           result : Result \cup {NoResult}]

Blank == [status |-> "running", age |-> 0, closed |-> FALSE, result |-> NoResult]

IsRun(r) == r \in 1 .. lastRun

Init ==
    /\ proc = [i \in Instance |-> "down"]
    /\ thread = [t \in Thread |-> NoTask]
    /\ lastRun = 0
    /\ runs = [r \in RunId |-> Blank]

Idle(t) == thread[t] = NoTask

\* Thread t is past start_run, and its run is r.
Runs(t, r) == ~Idle(t) /\ thread[t].stage # "called" /\ thread[t].run = r

Alive(r) == \E t \in Thread : Runs(t, r)

\* Thread t belongs to process i.
In(t, i) == ~Idle(t) /\ thread[t].inst = i

At(t, stage) == ~Idle(t) /\ thread[t].stage = stage

-----------------------------------------------------------------------------
(* Processes.                                                              *)

\* lifespan: the jobs are registered and the scheduler starts.
Boot(i) ==
    /\ proc[i] = "down"
    /\ proc' = [proc EXCEPT ![i] = "booting"]
    /\ UNCHANGED <<thread, lastRun, runs>>

\* Mutants of Interrupted: whatever the row says; the comparison turned round.
InterruptedAnyStatus(r) == IsRun(r) /\ runs[r].age > Guard
InterruptedYoung(r) == IsRun(r) /\ runs[r].status = "running" /\ runs[r].age < Guard

\* status = 'running' and started_at < now() - Guard
Interrupted(r) == IsRun(r) /\ runs[r].status = "running" /\ runs[r].age > Guard

\* Mutant of Sweep: a status ingest_runs does not have.
SweepNewStatus(i) ==
    /\ proc[i] = "booting"
    /\ proc' = [proc EXCEPT ![i] = "up"]
    /\ runs' = [r \in RunId |->
                  IF Interrupted(r) THEN [runs[r] EXCEPT !.status = "interrupted"] ELSE runs[r]]
    /\ UNCHANGED <<thread, lastRun>>

\* close_interrupted_runs; should it fail, lifespan logs it and goes on.
Sweep(i) ==
    /\ proc[i] = "booting"
    /\ proc' = [proc EXCEPT ![i] = "up"]
    /\ runs' = [r \in RunId |->
                  IF Interrupted(r)
                  THEN [runs[r] EXCEPT !.status = "error", !.closed = TRUE] ELSE runs[r]]
    /\ UNCHANGED <<thread, lastRun>>

SweepFails(i) ==
    /\ proc[i] = "booting"
    /\ proc' = [proc EXCEPT ![i] = "up"]
    /\ UNCHANGED <<thread, lastRun, runs>>

\* scheduler.shutdown(wait=False): nothing more is fired, runs under way go on.
Shutdown(i) ==
    /\ proc[i] = "up"
    /\ proc' = [proc EXCEPT ![i] = "draining"]
    /\ UNCHANGED <<thread, lastRun, runs>>

Exit(i) ==
    /\ proc[i] = "draining"
    /\ \A t \in Thread : ~In(t, i)
    /\ proc' = [proc EXCEPT ![i] = "down"]
    /\ UNCHANGED <<thread, lastRun, runs>>

\* The container is replaced: its threads die where they are.
Kill(i) ==
    /\ proc[i] # "down"
    /\ proc' = [proc EXCEPT ![i] = "down"]
    /\ thread' = [t \in Thread |-> IF In(t, i) THEN NoTask ELSE thread[t]]
    /\ UNCHANGED <<lastRun, runs>>

-----------------------------------------------------------------------------
(* run_job.                                                                *)

Call(t, i, j, via) ==
    /\ Idle(t)
    /\ thread' = [thread EXCEPT ![t] =
                    [stage |-> "called", inst |-> i, job |-> j, via |-> via,
                     run |-> NoRun, result |-> NoResult]]
    /\ UNCHANGED <<proc, lastRun, runs>>

\* max_instances = 1: a slot that finds the job's last run under way is dropped.
Fire(t, i, j) ==
    /\ proc[i] \in {"booting", "up"}
    /\ \A u \in Thread :
          In(u, i) => ~(thread[u].job = j /\ thread[u].via = "scheduler")
    /\ Call(t, i, j, "scheduler")

\* POST /trigger/{job_name} calls run_job in the request's thread.
Trigger(t, i, j) ==
    /\ proc[i] = "up"
    /\ Call(t, i, j, "trigger")

\* start_run: a row of its own for every run.
StartRun(t) ==
    /\ At(t, "called")
    /\ lastRun < MaxRuns
    /\ lastRun' = lastRun + 1
    /\ runs' = [runs EXCEPT ![lastRun + 1] =
                  [status |-> "running", age |-> 0, closed |-> FALSE, result |-> NoResult]]
    /\ thread' = [thread EXCEPT ![t].stage = "running", ![t].run = lastRun + 1]
    /\ UNCHANGED proc

Return(t) == thread' = [thread EXCEPT ![t] = NoTask]

\* start_run raises outside the try: no row, and the exception leaves run_job.
StartRunRaises(t) ==
    /\ At(t, "called")
    /\ Return(t)
    /\ UNCHANGED <<proc, lastRun, runs>>

\* job.run returns a Result, or raises and is caught.
JobDone(t, result) ==
    /\ At(t, "running")
    /\ thread' = [thread EXCEPT ![t].stage = "finishing", ![t].result = result]
    /\ runs' = [runs EXCEPT ![thread[t].run].result = result]
    /\ UNCHANGED <<proc, lastRun>>

\* Mutant of FinishRun: any Result object counts as ok.
FinishRunOk(t) ==
    /\ At(t, "finishing")
    /\ runs' = [runs EXCEPT ![thread[t].run].status =
                  IF thread[t].result = "empty" THEN "ok" ELSE thread[t].result]
    /\ Return(t)
    /\ UNCHANGED <<proc, lastRun>>

\* finish_run sets the row by its id, whatever its status is by now.
FinishRun(t) ==
    /\ At(t, "finishing")
    /\ runs' = [runs EXCEPT ![thread[t].run].status = thread[t].result]
    /\ Return(t)
    /\ UNCHANGED <<proc, lastRun>>

\* finish_run raises outside the try.
FinishRunRaises(t) ==
    /\ At(t, "finishing")
    /\ Return(t)
    /\ UNCHANGED <<proc, lastRun, runs>>

\* A minute passes, whatever is under way: a run has no limit that the guard knows
\* of.
Minute ==
    /\ runs' = [r \in RunId |->
                  IF IsRun(r) /\ runs[r].age < MaxAge
                  THEN [runs[r] EXCEPT !.age = @ + 1] ELSE runs[r]]
    /\ UNCHANGED <<proc, thread, lastRun>>

Service(i) ==
    Boot(i) \/ Sweep(i) \/ SweepFails(i) \/ Shutdown(i) \/ Exit(i) \/ Kill(i)

RunJob(t) ==
    \/ StartRun(t) \/ StartRunRaises(t)
    \/ \E result \in Result : JobDone(t, result)
    \/ FinishRun(t) \/ FinishRunRaises(t)

Next ==
    \/ Minute
    \/ \E i \in Instance : Service(i)
    \/ \E t \in Thread, i \in Instance, j \in Job : Fire(t, i, j) \/ Trigger(t, i, j)
    \/ \E t \in Thread : RunJob(t)

Spec == Init /\ [][Next]_vars

-----------------------------------------------------------------------------
(* Properties.                                                             *)

TypeOK ==
    /\ proc \in [Instance -> {"down", "booting", "up", "draining"}]
    /\ thread \in [Thread -> Task \cup {NoTask}]
    /\ lastRun \in 0 .. MaxRuns
    /\ runs \in [RunId -> RunRow]

\* A row says ok or empty only if that is what its job came to, through
\* deploys, kills, failed bookkeeping and the startup sweep.
StatusTruthful ==
    \A r \in RunId : (IsRun(r) /\ runs[r].status \in {"ok", "empty"}) =>
        runs[r].result = runs[r].status

\* No two threads work on one row.
OneThreadPerRun ==
    \A t, u \in Thread, r \in RunId : (Runs(t, r) /\ Runs(u, r)) => t = u

\* What ingest_runs says of a run that ended is final.  A run may outlast the
\* guard, and a process that starts then closes the row of a live run as an error:
\* such a row alone is rewritten, once, by its own run, with what that came to.
EndedRowsStand ==
    [][\A r \in RunId :
          (IsRun(r) /\ runs[r].status # "running" /\ runs'[r].status # runs[r].status) =>
              /\ runs[r].closed
              /\ \E t \in Thread : /\ At(t, "finishing") /\ thread[t].run = r
                                    /\ runs'[r].status = thread[t].result]_vars

\* As long as processes keep being replaced, no row stays running for ever once
\* its thread is gone.
Orphan(r) == IsRun(r) /\ runs[r].status = "running" /\ ~Alive(r)

OrphansClosed ==
    ([]<>(\E i \in Instance : proc[i] = "booting")) => \A r \in RunId : Orphan(r) ~> ~Orphan(r)

\* Runs end, the clock runs on, and a sweep that is tried again and again
\* succeeds in the end.
Fairness ==
    /\ WF_vars(Minute)
    /\ \A i \in Instance : SF_vars(Sweep(i))
    /\ \A t \in Thread : /\ WF_vars(FinishRun(t) \/ FinishRunRaises(t))
                         /\ WF_vars(\E result \in Result : JobDone(t, result))

FairSpec == Spec /\ Fairness
=============================================================================
