---------------------------- MODULE RateLimiter ----------------------------
(***************************************************************************)
(* The sliding-window limiter every request of a process passes through    *)
(* (client.py, RateLimiter), with the threads that use it.  Time is in     *)
(* ticks; the 0.05 s a sleeper adds to its wait is one tick.               *)
(*                                                                         *)
(* The deque of the code is the part of grants after the first head        *)
(* entries: what popleft has taken off is kept, for the properties to see. *)
(***************************************************************************)
EXTENDS Integers, Sequences, FiniteSets

CONSTANTS
    Caller,     \* threads of the process that make requests
    Limit,      \* per_minute
    Window,     \* ticks in a minute
    LastTick    \* bound: ticks

ASSUME LimiterAssumption ==
    /\ Limit \in Nat \ {0}
    /\ Window \in Nat
    /\ LastTick \in Nat
    /\ IsFiniteSet(Caller)

VARIABLES
    clock,      \* time.monotonic()
    grants,     \* the times acquire() appended to the deque
    head,       \* how many of them have been popped
    pc,         \* pc[t]: where thread t is
    wake,       \* wake[t]: when thread t's sleep ends
    slept,      \* slept[t]: the grants there were when thread t went to sleep
    sent        \* the times requests went out: read by properties only

limiterVars == <<clock, grants, head, pc, wake, slept, sent>>

LimiterInit ==
    /\ clock = 0
    /\ grants = <<>>
    /\ head = 0
    /\ pc = [t \in Caller |-> "idle"]
    /\ wake = [t \in Caller |-> 0]
    /\ slept = [t \in Caller |-> 0]
    /\ sent = <<>>

ClockTicks ==
    /\ clock < LastTick
    /\ clock' = clock + 1
    /\ UNCHANGED <<grants, head, pc, wake, slept, sent>>

Ask(t) ==
    /\ pc[t] = "idle"
    /\ pc' = [pc EXCEPT ![t] = "asking"]
    /\ slept' = [slept EXCEPT ![t] = 0]
    /\ UNCHANGED <<clock, grants, head, wake, sent>>

\* Mutant of OutOfWindow: an entry exactly a window old counts as expired.
OutOfWindowEarly(i) == clock - grants[i] >= Window

OutOfWindow(i) == clock - grants[i] > Window

\* The deque after the popleft loop starts at the first entry not expired.
Pruned(h) ==
    /\ h \in head .. Len(grants)
    /\ \A i \in head + 1 .. h : OutOfWindow(i)
    /\ h < Len(grants) => ~OutOfWindow(h + 1)

\* Mutant of WakeAt: without the margin of 0.05 s.
WakeAtOnce(h) == grants[h + 1] + Window

\* now + wait, where wait = 60 - (now - calls[0]) + 0.05
WakeAt(h) == grants[h + 1] + Window + 1

\* One turn of the loop, under the lock: a slot is taken, or the thread sleeps
\* until the oldest entry has left the window.
Acquire(t) ==
    /\ pc[t] = "asking"
    /\ \E h \in head .. Len(grants) :
          /\ Pruned(h)
          /\ head' = h
          /\ IF Len(grants) - h < Limit
             THEN /\ grants' = Append(grants, clock)
                  /\ pc' = [pc EXCEPT ![t] = "granted"]
                  /\ UNCHANGED <<wake, slept>>
             ELSE /\ pc' = [pc EXCEPT ![t] = "sleeping"]
                  /\ wake' = [wake EXCEPT ![t] = WakeAt(h)]
                  /\ slept' = [slept EXCEPT ![t] = Len(grants)]
                  /\ UNCHANGED grants
    /\ UNCHANGED <<clock, sent>>

Wake(t) ==
    /\ pc[t] = "sleeping"
    /\ clock >= wake[t]
    /\ pc' = [pc EXCEPT ![t] = "asking"]
    /\ UNCHANGED <<clock, grants, head, wake, slept, sent>>

\* Mutant of Send: a retry goes out on the grant of the first attempt.
SendOnOldGrant(t) ==
    /\ pc[t] = "granted"
    /\ sent' = Append(sent, clock)
    /\ UNCHANGED <<clock, grants, head, pc, wake, slept>>

\* The request goes out some time after acquire() returned: the token comes first.
Send(t) ==
    /\ pc[t] = "granted"
    /\ pc' = [pc EXCEPT ![t] = "idle"]
    /\ sent' = Append(sent, clock)
    /\ UNCHANGED <<clock, grants, head, wake, slept>>

LimiterNext == ClockTicks \/ \E t \in Caller : Ask(t) \/ Acquire(t) \/ Wake(t) \/ Send(t)

LimiterSpec == LimiterInit /\ [][LimiterNext]_limiterVars

-----------------------------------------------------------------------------
(* Properties.                                                             *)

LimiterTypes ==
    /\ clock \in 0 .. LastTick
    /\ grants \in Seq(0 .. LastTick)
    /\ head \in 0 .. Len(grants)
    /\ pc \in [Caller -> {"idle", "asking", "sleeping", "granted"}]
    /\ wake \in [Caller -> Nat]
    /\ slept \in [Caller -> Nat]
    /\ sent \in Seq(0 .. LastTick)

\* More than n + 1 entries of a log never fall within one window.
Sparse(log, n) == \A i \in 1 .. Len(log) : i + n <= Len(log) => log[i + n] - log[i] > Window

\* No window of a minute, wherever it begins, holds more than Limit grants.
Budget == Sparse(grants, Limit)

\* ERCOT sees at most one request more per thread: one granted earlier whose
\* thread was held up before sending it.
SentBudget == Sparse(sent, Limit + Cardinality(Caller))

\* A sleeper wakes to a free slot unless another thread took it: the limiter
\* never spins.
NoBusyWait ==
    \A t \in Caller :
        (pc[t] = "asking" /\ slept[t] > 0 /\ slept[t] = Len(grants)) =>
            Cardinality({i \in 1 .. Len(grants) : clock - grants[i] <= Window}) < Limit
=============================================================================
