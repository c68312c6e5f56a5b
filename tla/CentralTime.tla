----------------------------- MODULE CentralTime -----------------------------
(***************************************************************************)
(* timeutil.py: Central wall-clock times, as ERCOT's reports print them,   *)
(* and the instants they stand for.  Instants are counted in some unit     *)
(* from a standard-time midnight, so the clock shows Hour more between     *)
(* Spring and Autumn.                                                      *)
(***************************************************************************)
EXTENDS Integers

CONSTANTS
    Hour,       \* units of an hour
    Spring,     \* the instant the clock is put forward
    Autumn      \* the instant it is put back

ASSUME ClockAssumption ==
    /\ Hour \in Nat \ {0} /\ Spring \in Nat /\ Autumn \in Nat
    /\ Spring + 2 * Hour <= Autumn

\* What the clock shows at instant u: astimezone(CENTRAL).
Wall(u) == IF Spring <= u /\ u < Autumn THEN u + Hour ELSE u

\* u is in the second pass through the repeated hour: DSTFlag, repeatHourFlag.
Repeated(u) == Autumn <= u /\ u < Autumn + Hour

\* Python's reading of a wall-clock time w: fold = 1 if repeated else 0.  In the
\* skipped hour fold 0 is standard time, in the repeated one it is the first pass.
Summer(w, repeated) ==
    IF repeated THEN Spring <= w /\ w < Autumn
                ELSE Spring + Hour <= w /\ w < Autumn + Hour

Localize(w, repeated) == IF Summer(w, repeated) THEN w - Hour ELSE w

\* NonexistentLocalTime
Raised == -1

\* Mutants of ToUtc: the flag is not passed on; the round trip is not checked.
ToUtcFlagless(w, repeated) ==
    IF Wall(Localize(w, FALSE)) = w THEN Localize(w, FALSE) ELSE Raised

ToUtcUnchecked(w, repeated) == Localize(w, repeated)

\* central_wall_to_utc: an instant that does not show w again is an error.
ToUtc(w, repeated) ==
    IF Wall(Localize(w, repeated)) = w THEN Localize(w, repeated) ELSE Raised

\* dam_interval_start: day is its midnight, and hour ending 25 is the repeat of
\* hour ending 2.
DamStart(day, he, flag) ==
    IF he = 25 THEN ToUtc(day + Hour, TRUE) ELSE ToUtc(day + (he - 1) * Hour, flag)
=============================================================================
