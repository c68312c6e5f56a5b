----------------------------- MODULE LiveWindow ------------------------------
(***************************************************************************)
(* The live five-minute jobs: every run of ingest_lmp5 asks for the SCED   *)
(* rows of a window that ends now, by the wall clock, and stores each row  *)
(* under the instant its stamp stands for.  Runs fail, ERCOT publishes     *)
(* late, and the wall clock jumps twice a year.                            *)
(***************************************************************************)
EXTENDS CentralTime

CONSTANTS
    Last,       \* bound: last instant
    Watched,    \* the sets of SCED runs that are followed, of those of every unit
    Delay,      \* bound: how late ERCOT publishes a SCED row
    Recent,     \* since_minutes of the job lmp5
    Lookback,   \* since_minutes of the job lmp5_catchup
    Phase,      \* the minute it runs at
    MaxFailed   \* bound: runs of lmp5_catchup that fail

ASSUME WindowAssumption ==
    /\ Last \in Nat /\ Delay \in Nat /\ Recent \in Nat /\ Lookback \in Nat
    /\ Phase \in 0 .. Hour - 1 /\ MaxFailed \in Nat
    /\ Watched \subseteq SUBSET (0 .. Last)

Instant == 0 .. Last

VARIABLES
    now,        \* the time
    runs,       \* the SCED runs followed
    sced,       \* the SCED rows ERCOT has published, each named by its instant
    stored,     \* stored[u]: the SCED row rt_lmp_5min has under instant u
    due,        \* is a run of lmp5_catchup due
    failed      \* how many runs of it have failed

vars == <<now, runs, sced, stored, due, failed>>

Absent == -1

Init ==
    /\ now = 0
    /\ runs \in Watched
    /\ sced = {}
    /\ stored = [u \in Instant |-> Absent]
    /\ due = FALSE
    /\ failed = 0

\* ERCOT publishes the run of instant u, late by at most Delay.
Publish(u) ==
    /\ u <= now
    /\ u \in runs \ sced
    /\ sced' = sced \cup {u}
    /\ UNCHANGED <<now, runs, stored, due, failed>>

\* Mutant of Tick: a due run does not hold up the clock, so it starts late.
TickOn ==
    /\ now < Last
    /\ \A u \in runs : u + Delay <= now => u \in sced
    /\ now' = now + 1
    /\ due' = (due \/ now' % Hour = Phase)
    /\ UNCHANGED <<runs, sced, stored, failed>>

\* lmp5_catchup is due once an hour, and it runs or fails in the minute it is due.
Tick ==
    /\ now < Last
    /\ ~due
    /\ \A u \in runs : u + Delay <= now => u \in sced
    /\ now' = now + 1
    /\ due' = (now' % Hour = Phase)
    /\ UNCHANGED <<runs, sced, stored, failed>>

\* Mutant of Answer: both bounds are printed in summer time.
AnswerSummer(since) ==
    {u \in sced : now - since + Hour <= Wall(u) /\ Wall(u) <= now + Hour}

\* SCEDTimestampFrom and SCEDTimestampTo are wall-clock times: ERCOT returns the
\* rows whose printed stamp lies between them, of both passes of a repeated hour.
Answer(since) ==
    {u \in sced : Wall(now - since) <= Wall(u) /\ Wall(u) <= Wall(now)}

\* The instant row u is stored under.
KeyOf(u) == ToUtc(Wall(u), Repeated(u))

\* ingest_lmp5: a row that maps to no instant is skipped; of the rows that map to
\* one instant one is stored there.
Load(since) ==
    LET mapped == {u \in Answer(since) : KeyOf(u) \in Instant}
    IN  \E rows \in SUBSET mapped :
          /\ \A u \in mapped : \E r \in rows : KeyOf(r) = KeyOf(u)
          /\ \A r, u \in rows : KeyOf(r) = KeyOf(u) => r = u
          /\ stored' = [k \in Instant |->
                IF \E r \in rows : KeyOf(r) = k THEN CHOOSE r \in rows : KeyOf(r) = k
                                                ELSE stored[k]]

\* A run of the job lmp5; one that fails changes nothing.
Lmp5 ==
    /\ Load(Recent)
    /\ UNCHANGED <<now, runs, sced, due, failed>>

\* Mutant of Catchup: the repair pass looks back no further than one hour.
CatchupShort ==
    /\ due
    /\ Load(Hour)
    /\ due' = FALSE
    /\ UNCHANGED <<now, runs, sced, failed>>

Catchup ==
    /\ due
    /\ Load(Lookback)
    /\ due' = FALSE
    /\ UNCHANGED <<now, runs, sced, failed>>

CatchupFails ==
    /\ due
    /\ failed < MaxFailed
    /\ due' = FALSE
    /\ failed' = failed + 1
    /\ UNCHANGED <<now, runs, sced, stored>>

Next ==
    \/ \E u \in Instant : Publish(u)
    \/ Tick \/ Lmp5 \/ Catchup \/ CatchupFails

Spec == Init /\ [][Next]_vars

-----------------------------------------------------------------------------
(* Properties.                                                             *)

TypeOK ==
    /\ now \in Instant
    /\ runs \subseteq Instant
    /\ sced \subseteq runs
    /\ stored \in [Instant -> Instant \cup {Absent}]
    /\ due \in BOOLEAN /\ (due => now % Hour = Phase)
    /\ failed \in 0 .. MaxFailed

\* "Getting this wrong silently shifts an hour of prices": a row is stored under
\* the instant of its own SCED run, in the repeated hour and next to the skipped
\* one too.
NoHourShifted == \A u \in Instant : stored[u] \in {Absent, u}

\* "5-minute repair pass, last 3 hours" leaves no hole: a SCED row older than the
\* lookback is stored, although ERCOT is late, although a window can end before it
\* begins when the clock goes back, and although MaxFailed passes fail.  Not so in
\* the repeated hour, of whose second pass a window that begins in the first may
\* see nothing: there a hole takes a single failed pass.
NoHoles ==
    \A u \in runs :
        u + Lookback < now /\ (Repeated(u) => failed = 0) => stored[u] # Absent
=============================================================================
