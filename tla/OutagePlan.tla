----------------------------- MODULE OutagePlan -----------------------------
(***************************************************************************)
(* The planned outage plan (ercot/outage_plan.py).  ERCOT lists an edition *)
(* of NP3-161-CD for a few days and then drops it: an edition that was not *)
(* saved by then is lost.  The job lists the editions of the last Back     *)
(* days, takes the latest of each day, skips the days it has, and saves    *)
(* the others one by one, oldest first, each in a transaction of its own.  *)
(* Anything that goes wrong raises, and ends the run.                      *)
(***************************************************************************)
EXTENDS Integers, FiniteSets

CONSTANTS Back,      \* days_back of ingest_planned_outage_cap
          LastDay    \* bound: the days the model lives through

ASSUME PlanAssumption == Back \in Nat \ {0} /\ LastDay \in Nat

Day == 0 .. LastDay

VARIABLES today,    \* the job's date.today()
          edition,  \* for each day, what its latest edition is
          saved,    \* the days of which ercot_forecast_vintages holds an edition
          planRun,  \* "due", "running", "ended": the scheduled run of today
          listing,  \* the editions that the run under way found listed
          pending,  \* the days of them it has still to save
          missed    \* the days whose last run was missed or failed by a fault

planVars == <<today, edition, saved, planRun, listing, pending, missed>>

PlanInit ==
    /\ today = 0
    /\ edition = [d \in Day |-> "none"]
    /\ saved = {}
    /\ planRun = "due"
    /\ listing = [d \in Day |-> "none"]
    /\ pending = {}
    /\ missed = {}

\* ERCOT posts an edition, which may have a gap in its dates, or posts the
\* edition of today again.
PostEdition(kind) ==
    /\ edition' = [edition EXCEPT ![today] = kind]
    /\ UNCHANGED <<today, saved, planRun, listing, pending, missed>>

Listed == {d \in Day : d >= today - Back /\ edition[d] # "none"}

\* The listing, the latest edition of each day, and what the table has.
StartPlan ==
    /\ planRun = "due"
    /\ planRun' = "running"
    /\ listing' = edition
    /\ pending' = Listed \ saved
    /\ UNCHANGED <<today, edition, saved, missed>>

\* Mutant of IsNext: the newest first.
IsNewest(d) == d \in pending /\ \A e \in pending : d >= e

\* sorted(latest.items()).
IsNext(d) == d \in pending /\ \A e \in pending : d <= e

\* A well-formed edition is copied and committed.
SaveEdition(d) ==
    /\ planRun = "running"
    /\ IsNext(d)
    /\ listing[d] = "good"
    /\ saved' = saved \cup {d}
    /\ pending' = pending \ {d}
    /\ UNCHANGED <<today, edition, planRun, listing, missed>>

\* edition_rows raises on a run of dates that is not contiguous, and nothing
\* catches it: the editions after this one wait.
EditionRaises(d) ==
    /\ planRun = "running"
    /\ IsNext(d)
    /\ listing[d] = "malformed"
    /\ planRun' = "ended"
    /\ pending' = {}
    /\ UNCHANGED <<today, edition, saved, listing, missed>>

EndPlan ==
    /\ planRun = "running"
    /\ pending = {}
    /\ planRun' = "ended"
    /\ UNCHANGED <<today, edition, saved, listing, pending, missed>>

\* A download or the database fails, or the process dies.
PlanFault ==
    /\ planRun = "running"
    /\ planRun' = "ended"
    /\ pending' = {}
    /\ missed' = missed \cup {today - Back}
    /\ UNCHANGED <<today, edition, saved, listing>>

\* The next day.  The service may have been down at the time of the run.
NextDay ==
    /\ today < LastDay
    /\ planRun # "running"
    /\ today' = today + 1
    /\ planRun' = "due"
    /\ missed' = IF planRun = "due" THEN missed \cup {today - Back} ELSE missed
    /\ UNCHANGED <<edition, saved, listing, pending>>

PlanNext ==
    \/ \E kind \in {"good", "malformed"} : PostEdition(kind)
    \/ StartPlan
    \/ \E d \in Day : SaveEdition(d) \/ EditionRaises(d)
    \/ EndPlan
    \/ PlanFault
    \/ NextDay

PlanSpec == PlanInit /\ [][PlanNext]_planVars

PlanTypeOK ==
    /\ today \in Day
    /\ edition \in [Day -> {"none", "good", "malformed"}]
    /\ listing \in [Day -> {"none", "good", "malformed"}]
    /\ saved \subseteq Day
    /\ planRun \in {"due", "running", "ended"}
    /\ pending \subseteq Day
    /\ missed \subseteq Int

(***************************************************************************)
(* A well-formed edition that ERCOT no longer lists has been saved, unless *)
(* the run of the last day it was listed was missed or hit by a fault: no  *)
(* malformed edition, of whatever day, costs another one, although it ends *)
(* the runs that meet it.  On its last day an edition is the oldest one.   *)
(***************************************************************************)
EditionsKept ==
    \A d \in Day :
        edition[d] = "good" /\ d < today - Back => d \in saved \cup missed
=============================================================================
