-------------------------- MODULE CentralTimeProofs --------------------------
(***************************************************************************)
(* What the conversions of timeutil.py guarantee for both changes of the   *)
(* clock, wherever they fall, and that the live jobs shift no price.       *)
(***************************************************************************)
EXTENDS LiveWindow, TLAPS

\* The delivery day whose second hour is repeated, and the one whose third hour is
\* skipped.
LongDay(day) == day + Hour = Autumn
ShortDay(day) == day + 2 * Hour = Spring

\* The stamp and the repeat flag ERCOT prints of any instant are read back as that
\* instant: central_wall_to_utc never raises on a time that exists.
THEOREM RoundTrip ==
    \A u \in Nat : ToUtc(Wall(u), Repeated(u)) = u
BY ClockAssumption DEF ToUtc, Wall, Repeated, Localize, Summer, Raised

\* central_wall_to_utc raises on the times of the skipped hour and on no other, with
\* either flag.
THEOREM RaisesOnTheSkipped ==
    \A w \in Nat, repeated \in BOOLEAN :
        ToUtc(w, repeated) = Raised <=> Spring <= w /\ w < Spring + Hour
BY ClockAssumption DEF ToUtc, Wall, Localize, Summer, Raised

\* Times that differ on the clock never collide on the primary key: whichever their
\* flags, central_wall_to_utc gives them different instants or raises.
THEOREM NeverCollide ==
    \A v, w \in Nat, f, g \in BOOLEAN :
        /\ ToUtc(v, f) # Raised
        /\ ToUtc(v, f) = ToUtc(w, g)
        => v = w
BY ClockAssumption DEF ToUtc, Wall, Localize, Summer, Raised

\* The hours of the long day follow each other as dam_interval_start maps them: 1
\* and 2, then 25, the repeat of 2, and then 3 to 24, one hour apart.
THEOREM LongDayInOrder ==
    ASSUME NEW day \in Nat, LongDay(day)
    PROVE  /\ DamStart(day, 1, FALSE) = day - Hour
           /\ DamStart(day, 2, FALSE) = day
           /\ DamStart(day, 25, FALSE) = day + Hour
           /\ \A he \in 3 .. 24 : DamStart(day, he, FALSE) = day + (he - 1) * Hour
<1>1. ToUtc(day, FALSE) = day - Hour
  BY ClockAssumption DEF LongDay, ToUtc, Wall, Localize, Summer, Raised
<1>2. ToUtc(day + Hour, FALSE) = day /\ ToUtc(day + Hour, TRUE) = day + Hour
  BY ClockAssumption DEF LongDay, ToUtc, Wall, Localize, Summer, Raised
<1>3. ASSUME NEW he \in 3 .. 24
      PROVE  DamStart(day, he, FALSE) = day + (he - 1) * Hour
  <2> DEFINE since == (he - 1) * Hour
  <2>1. since \in Nat /\ 2 * Hour <= since
    BY ClockAssumption
  <2> HIDE DEF since
  <2>2. ToUtc(day + since, FALSE) = day + since
    BY <2>1, ClockAssumption DEF LongDay, ToUtc, Wall, Localize, Summer, Raised
  <2>3. he # 25
    OBVIOUS
  <2> QED
    BY <2>2, <2>3, Zenon DEF since, DamStart
<1>4. /\ day + (1 - 1) * Hour = day /\ 1 # 25
      /\ day + (2 - 1) * Hour = day + Hour /\ 2 # 25
  BY ClockAssumption
<1>5. DamStart(day, 1, FALSE) = day - Hour
  BY <1>1, <1>4, Zenon DEF DamStart
<1>6. DamStart(day, 2, FALSE) = day /\ DamStart(day, 25, FALSE) = day + Hour
  BY <1>2, <1>4, Zenon DEF DamStart
<1> QED
  BY <1>3, <1>5, <1>6

\* On the short day hour ending 3 raises, and 4 to 24 follow 2 without a gap.
THEOREM ShortDayInOrder ==
    ASSUME NEW day \in Nat, ShortDay(day), day + 24 * Hour <= Autumn
    PROVE  /\ DamStart(day, 1, FALSE) = day
           /\ DamStart(day, 2, FALSE) = day + Hour
           /\ DamStart(day, 3, FALSE) = Raised
           /\ \A he \in 4 .. 24 : DamStart(day, he, FALSE) = day + (he - 2) * Hour
<1>1. ToUtc(day, FALSE) = day /\ ToUtc(day + Hour, FALSE) = day + Hour
  BY ClockAssumption DEF ShortDay, ToUtc, Wall, Localize, Summer, Raised
<1>2. ToUtc(day + 2 * Hour, FALSE) = Raised
  BY ClockAssumption DEF ShortDay, ToUtc, Wall, Localize, Summer, Raised
<1>3. ASSUME NEW he \in 4 .. 24
      PROVE  DamStart(day, he, FALSE) = day + (he - 2) * Hour
  <2> DEFINE since == (he - 1) * Hour
  <2>1. since \in Nat /\ 3 * Hour <= since /\ since <= 23 * Hour
    BY ClockAssumption
  <2>2. (he - 2) * Hour = since - Hour
    BY ClockAssumption
  <2> HIDE DEF since
  <2>3. ToUtc(day + since, FALSE) = day + (since - Hour)
    BY <2>1, ClockAssumption DEF ShortDay, ToUtc, Wall, Localize, Summer, Raised
  <2>4. he # 25
    OBVIOUS
  <2>5. DamStart(day, he, FALSE) = ToUtc(day + since, FALSE)
    BY <2>4, Zenon DEF since, DamStart
  <2> QED
    BY <2>2, <2>3, <2>5, Zenon
<1>4. /\ day + (1 - 1) * Hour = day /\ 1 # 25
      /\ day + (2 - 1) * Hour = day + Hour /\ 2 # 25
      /\ day + (3 - 1) * Hour = day + 2 * Hour /\ 3 # 25
  BY ClockAssumption
<1>5. DamStart(day, 1, FALSE) = day /\ DamStart(day, 2, FALSE) = day + Hour
  BY <1>1, <1>4, Zenon DEF DamStart
<1>6. DamStart(day, 3, FALSE) = Raised
  BY <1>2, <1>4, Zenon DEF DamStart
<1> QED
  BY <1>3, <1>5, <1>6

-----------------------------------------------------------------------------
\* A SCED row is stored under its own instant.
LEMMA KeyOfSelf ==
    \A u \in Instant : KeyOf(u) = u
BY RoundTrip, WindowAssumption DEF KeyOf, Instant

\* A run of ingest_lmp5, of whatever window, stores no row under another's instant.
LEMMA LoadKeeps ==
    ASSUME NEW since, TypeOK, NoHourShifted, Load(since)
    PROVE  /\ stored' \in [Instant -> Instant \cup {Absent}]
           /\ NoHourShifted'
<1> DEFINE mapped == {u \in Answer(since) : KeyOf(u) \in Instant}
<1>1. PICK rows \in SUBSET mapped :
        stored' = [k \in Instant |->
            IF \E r \in rows : KeyOf(r) = k THEN CHOOSE r \in rows : KeyOf(r) = k
                                            ELSE stored[k]]
  BY DEF Load
<1>2. rows \subseteq Instant
  BY DEF TypeOK, Answer
<1>3. ASSUME NEW k \in Instant, \E r \in rows : KeyOf(r) = k
      PROVE  (CHOOSE r \in rows : KeyOf(r) = k) = k
  BY <1>2, <1>3, KeyOfSelf
<1>4. \A k \in Instant : stored'[k] = stored[k] \/ stored'[k] = k
  BY <1>1, <1>3
<1>5. stored' = [k \in Instant |-> stored'[k]]
  BY <1>1
<1>6. \A k \in Instant : stored'[k] \in Instant \cup {Absent}
  BY <1>4 DEF TypeOK
<1>7. \A k \in Instant : stored'[k] \in {Absent, k}
  BY <1>4 DEF NoHourShifted
<1> QED
  BY <1>5, <1>6, <1>7 DEF NoHourShifted

Inv == TypeOK /\ NoHourShifted

LEMMA InvInit == Init => Inv
<1> SUFFICES ASSUME Init PROVE Inv
  OBVIOUS
<1>1. now \in Instant /\ runs \subseteq Instant /\ sced \subseteq runs
  BY WindowAssumption DEF Init, Instant
<1>2. failed \in 0 .. MaxFailed
  BY WindowAssumption DEF Init
<1>3. due \in BOOLEAN /\ (due => now % Hour = Phase)
  BY Zenon DEF Init
<1>4. /\ stored \in [Instant -> Instant \cup {Absent}]
      /\ \A u \in Instant : stored[u] = Absent
  BY Zenon DEF Init
<1> QED
  BY <1>1, <1>2, <1>3, <1>4, Zenon DEF Inv, TypeOK, NoHourShifted

LEMMA InvNext == Inv /\ [Next]_vars => Inv'
<1> SUFFICES ASSUME Inv, [Next]_vars PROVE Inv'
  OBVIOUS
<1> USE DEF Inv
<1>1. ASSUME NEW u \in Instant, Publish(u) PROVE Inv'
  BY <1>1 DEF Publish, TypeOK, NoHourShifted
<1>2. CASE Tick
  BY <1>2, WindowAssumption, ClockAssumption DEF Tick, TypeOK, NoHourShifted, Instant
<1>3. CASE Lmp5
  BY <1>3, LoadKeeps DEF Lmp5, TypeOK
<1>4. CASE Catchup
  BY <1>4, LoadKeeps DEF Catchup, TypeOK
<1>5. CASE CatchupFails
  <2>1. failed' \in 0 .. MaxFailed
    BY <1>5, WindowAssumption DEF CatchupFails, TypeOK
  <2>2. due' = FALSE /\ UNCHANGED <<now, runs, sced, stored>>
    BY <1>5 DEF CatchupFails
  <2> QED
    BY <2>1, <2>2, Zenon DEF TypeOK, NoHourShifted, Instant
<1>6. CASE UNCHANGED vars
  BY <1>6 DEF vars, TypeOK, NoHourShifted
<1> QED
  BY <1>1, <1>2, <1>3, <1>4, <1>5, <1>6 DEF Next

\* TypeOK holds of the live jobs for every lookback, lateness and change of clock.
THEOREM LiveTypes == Spec => []TypeOK
<1>1. Inv => TypeOK
  BY DEF Inv
<1> QED
  BY InvInit, InvNext, <1>1, PTL DEF Spec

\* NoHourShifted: whatever the windows ask for and whenever a run fails, each price
\* is stored under the instant of its own SCED run, in the repeated hour too.
THEOREM PricesKeepTheirHour == Spec => []NoHourShifted
<1>1. Inv => NoHourShifted
  BY DEF Inv
<1> QED
  BY InvInit, InvNext, <1>1, PTL DEF Spec
-----------------------------------------------------------------------------
(* No hole outlives the lookback.  The argument follows one SCED run that  *)
(* is not stored and the next pass of lmp5_catchup: as long as u is not    *)
(* stored, each pass since it was in reach has failed.                     *)

\* The lookback spans one pass more than may fail, and the hour in which the clock
\* is put back; the 180 minutes of jobs.py do, for one failed pass and any Delay
\* of less than an hour.
LongEnough ==
    /\ Lookback + 1 >= Hour + Hour + MaxFailed * Hour
    /\ Lookback >= Hour + Delay + MaxFailed * Hour
    /\ Lookback >= 2 * Hour + Delay

\* From when on every pass finds row u, until it leaves the lookback.
Since(u) == IF Repeated(u) \/ Delay + 1 >= Hour THEN u + Delay + 1 ELSE u + Hour

\* When the next pass of lmp5_catchup starts, or the one that is due has.
NextPass ==
    IF due THEN now
    ELSE (now - (now % Hour)) + (IF now % Hour < Phase THEN Phase ELSE Hour + Phase)

\* ERCOT's lateness is bounded.
Published == \A u \in runs : u + Delay < now => u \in sced

\* A row that is missing has been in reach of failed passes only.
OnlyFailedPasses ==
    \A u \in runs :
        stored[u] = Absent /\ (Repeated(u) => failed = 0)
            => NextPass < Since(u) + Hour + failed * Hour

HoleInv == TypeOK /\ NoHourShifted /\ Published /\ OnlyFailedPasses

\* The remainder of the next number.
LEMMA NextRemainder ==
    ASSUME NEW n \in Nat, NEW d \in Nat \ {0}
    PROVE  (n + 1) % d = IF n % d = d - 1 THEN 0 ELSE (n % d) + 1
<1> DEFINE q == n \div d
           p == (n + 1) \div d
           r == n % d
           s == (n + 1) % d
<1>1. q \in Nat /\ p \in Nat /\ r \in 0 .. d - 1 /\ s \in 0 .. d - 1
  OBVIOUS
<1>2. n = d * q + r /\ n + 1 = d * p + s
  OBVIOUS
<1> HIDE DEF q, p, r, s
<1>3. CASE p >= q + 1
  <2>1. PICK k \in Nat : p = q + 1 + k
    BY <1>1, <1>3
  <2>2. d * p = d * q + d + d * k /\ d * k \in Nat
    BY <2>1, <1>1
  <2> QED
    BY <2>2, <1>2, <1>1 DEF r, s
<1>4. CASE p = q
  BY <1>4, <1>2, <1>1 DEF r, s
<1>5. CASE p <= q - 1
  <2>1. PICK k \in Nat : q = p + 1 + k
    BY <1>1, <1>5
  <2>2. d * q = d * p + d + d * k /\ d * k \in Nat
    BY <2>1, <1>1
  <2> QED
    BY <2>2, <1>2, <1>1 DEF r, s
<1> QED
  BY <1>1, <1>3, <1>4, <1>5

\* A pass that is due is the next one, another lies ahead, and the clock reaches it.
LEMMA PassIsNext ==
    ASSUME TypeOK
    PROVE  /\ NextPass \in Nat /\ now <= NextPass
           /\ ~due => now < NextPass
           /\ now % Hour = Phase /\ ~due => NextPass = now + Hour
<1>1. now % Hour \in 0 .. Hour - 1 /\ now % Hour <= now /\ now \in Nat
  BY ClockAssumption, WindowAssumption DEF TypeOK, Instant
<1> QED
  BY <1>1, ClockAssumption, WindowAssumption DEF NextPass, TypeOK

\* The clock neither skips a pass nor puts one off.
LEMMA TickKeepsPass ==
    ASSUME TypeOK, Tick
    PROVE  NextPass' = NextPass
<1> DEFINE r == now % Hour
           s == now' % Hour
<1>1. now \in Nat /\ now' = now + 1 /\ ~due /\ due' = (s = Phase)
  BY WindowAssumption DEF TypeOK, Instant, Tick
<1>2. s = IF r = Hour - 1 THEN 0 ELSE r + 1
  BY <1>1, NextRemainder, ClockAssumption
<1>3. r \in 0 .. Hour - 1
  BY <1>1, ClockAssumption
<1>4. /\ NextPass = (now - r) + (IF r < Phase THEN Phase ELSE Hour + Phase)
      /\ NextPass' = IF s = Phase THEN now'
                     ELSE (now' - s) + (IF s < Phase THEN Phase ELSE Hour + Phase)
  BY <1>1 DEF NextPass
<1> HIDE DEF r, s
<1> QED
  BY <1>1, <1>2, <1>3, <1>4, ClockAssumption, WindowAssumption

\* A run of ingest_lmp5 stores every row of its window, and takes none away.
LEMMA LoadStores ==
    ASSUME NEW since, TypeOK, NoHourShifted, Load(since), NEW u \in Instant
    PROVE  /\ stored'[u] = Absent => stored[u] = Absent
           /\ u \in Answer(since) => stored'[u] # Absent
<1> DEFINE mapped == {v \in Answer(since) : KeyOf(v) \in Instant}
<1>1. PICK rows \in SUBSET mapped :
        /\ \A v \in mapped : \E r \in rows : KeyOf(r) = KeyOf(v)
        /\ stored' = [k \in Instant |->
            IF \E r \in rows : KeyOf(r) = k THEN CHOOSE r \in rows : KeyOf(r) = k
                                            ELSE stored[k]]
  BY DEF Load
<1>2. rows \subseteq Instant
  BY DEF TypeOK, Answer
<1>3. ASSUME \E r \in rows : KeyOf(r) = u
      PROVE  stored'[u] = u
  BY <1>1, <1>2, <1>3, KeyOfSelf
<1>4. Absent \notin Instant
  BY WindowAssumption DEF Absent, Instant
<1>5. (~\E r \in rows : KeyOf(r) = u) => stored'[u] = stored[u]
  BY <1>1
<1>6. u \in Answer(since) => u \in mapped
  BY KeyOfSelf
<1> HIDE DEF mapped
<1>7. u \in Answer(since) => \E r \in rows : KeyOf(r) = u
  BY <1>1, <1>6, KeyOfSelf
<1> QED
  BY <1>3, <1>4, <1>5, <1>7

\* failed * Hour in linear terms.
LEMMA FailedHours ==
    /\ \A f \in Nat : f * Hour \in Nat /\ (f + 1) * Hour = f * Hour + Hour
    /\ \A f \in 0 .. MaxFailed : f * Hour <= MaxFailed * Hour
    /\ MaxFailed * Hour \in Nat
BY ClockAssumption, WindowAssumption

\* A pass at p has row u in its window, if it is in reach.
LEMMA InReach ==
    ASSUME LongEnough, TypeOK, Published, NEW u \in runs,
           Since(u) <= now, now < Since(u) + Hour + failed * Hour,
           Repeated(u) => failed = 0
    PROVE  u \in Answer(Lookback)
<1>1. u \in Nat /\ now \in Nat /\ failed \in 0 .. MaxFailed
  BY WindowAssumption DEF TypeOK, Instant
<1> DEFINE f == failed * Hour
           m == MaxFailed * Hour
<1>2. f \in Nat /\ m \in Nat /\ f <= m /\ (failed = 0 => f = 0)
  BY <1>1, FailedHours, ClockAssumption, WindowAssumption
<1>3. now < Since(u) + Hour + f
  OBVIOUS
<1>4. Lookback + 1 >= Hour + Hour + m /\ Lookback >= Hour + Delay + m
      /\ Lookback >= 2 * Hour + Delay
  BY DEF LongEnough
<1> HIDE DEF f, m
<1>5. u + Delay < now
  BY <1>1, ClockAssumption, WindowAssumption DEF Since
<1>6. Wall(u) <= Wall(now)
  BY <1>1, <1>5, ClockAssumption, WindowAssumption DEF Since, Wall, Repeated
<1>7. Wall(now - Lookback) <= Wall(u)
  <2>1. CASE Repeated(u)
    BY <2>1, <1>1, <1>2, <1>3, <1>4, ClockAssumption, WindowAssumption DEF Since, Wall, Repeated
  <2>2. CASE ~Repeated(u)
    BY <2>2, <1>1, <1>2, <1>3, <1>4, ClockAssumption, WindowAssumption DEF Since, Wall, Repeated
  <2> QED
    BY <2>1, <2>2
<1> QED
  BY <1>5, <1>6, <1>7 DEF Published, Answer

\* A row that is missing when its pass succeeds was not yet in reach.
LEMMA CatchupKeeps ==
    ASSUME LongEnough, HoleInv, Catchup
    PROVE  OnlyFailedPasses'
<1> USE DEF HoleInv
<1> SUFFICES ASSUME NEW u \in runs, stored'[u] = Absent, Repeated(u) => failed = 0
             PROVE  NextPass' < Since(u) + Hour + failed * Hour
  BY DEF Catchup, OnlyFailedPasses, Since, Repeated
<1>1. /\ UNCHANGED <<now, runs, sced, failed>> /\ due /\ due' = FALSE /\ Load(Lookback)
      /\ u \in Instant
  BY DEF Catchup, TypeOK
<1>2. stored[u] = Absent /\ u \notin Answer(Lookback)
  BY <1>1, LoadStores
<1>3. NextPass < Since(u) + Hour + failed * Hour /\ NextPass = now
  BY <1>1, <1>2 DEF OnlyFailedPasses, NextPass
<1>4. now < Since(u)
  <2> SUFFICES ASSUME ~(now < Since(u)) PROVE FALSE
    OBVIOUS
  <2>1. Since(u) \in Int /\ now \in Int
    BY <1>1, WindowAssumption, ClockAssumption DEF TypeOK, Instant, Since
  <2> QED
    BY <1>2, <1>3, <2>1, InReach
<1>5. TypeOK' /\ now' % Hour = Phase /\ ~due'
  BY <1>1, LoadKeeps DEF TypeOK
<1>6. NextPass' = now + Hour
  <2>1. now % Hour = Phase
    BY <1>1 DEF TypeOK
  <2>2. NextPass' = (now - (now % Hour)) + (IF now % Hour < Phase THEN Phase ELSE Hour + Phase)
    BY <1>1 DEF NextPass
  <2>3. now \in Int
    BY WindowAssumption DEF TypeOK, Instant
  <2> QED
    BY <2>1, <2>2, <2>3, ClockAssumption, WindowAssumption
<1>7. failed * Hour \in Nat /\ Since(u) \in Int /\ now \in Int
  BY <1>1, FailedHours, WindowAssumption, ClockAssumption DEF TypeOK, Instant, Since
<1> QED
  BY <1>4, <1>6, <1>7, ClockAssumption

LEMMA HoleInit == Init => HoleInv
<1> SUFFICES ASSUME Init PROVE HoleInv
  OBVIOUS
<1>1. Inv /\ now = 0 /\ failed = 0 /\ runs \subseteq Instant
  BY InvInit DEF Init, Inv, TypeOK
<1>2. NextPass <= Hour
  BY <1>1, ClockAssumption, WindowAssumption DEF NextPass, Init
<1>3. Published
  BY <1>1, WindowAssumption DEF Published, Instant
<1>4. ASSUME NEW u \in runs
      PROVE  NextPass < Since(u) + Hour + failed * Hour
  <2>1. u \in Nat /\ Since(u) \in Nat /\ Since(u) >= 1 /\ failed * Hour = 0
    BY <1>1, ClockAssumption, WindowAssumption DEF Instant, Since
  <2>2. NextPass \in Nat
    BY <1>1, PassIsNext DEF Inv
  <2> QED
    BY <1>2, <2>1, <2>2, ClockAssumption
<1> QED
  BY <1>1, <1>3, <1>4 DEF HoleInv, Inv, OnlyFailedPasses

LEMMA HoleNext == LongEnough /\ HoleInv /\ [Next]_vars => HoleInv'
<1> SUFFICES ASSUME LongEnough, HoleInv, [Next]_vars PROVE HoleInv'
  OBVIOUS
<1>1. TypeOK' /\ NoHourShifted'
  BY InvNext DEF HoleInv, Inv
<1> USE DEF HoleInv
<1>2. ASSUME NEW u \in Instant, Publish(u) PROVE Published' /\ OnlyFailedPasses'
  BY <1>2 DEF Publish, Published, OnlyFailedPasses, NextPass, Since, Repeated
<1>3. CASE Tick
  <2>1. Published'
    BY <1>3, WindowAssumption DEF Tick, Published, TypeOK, Instant
  <2>2. NextPass' = NextPass
    BY <1>3, TickKeepsPass
  <2>3. UNCHANGED <<runs, stored, failed>>
    BY <1>3 DEF Tick
  <2> QED
    BY <1>1, <2>1, <2>2, <2>3 DEF OnlyFailedPasses, Since, Repeated
<1>4. CASE Lmp5
  <2>1. UNCHANGED <<now, runs, sced, due, failed>> /\ Load(Recent)
    BY <1>4 DEF Lmp5
  <2>2. \A u \in runs : stored'[u] = Absent => stored[u] = Absent
    BY <2>1, LoadStores DEF TypeOK
  <2>3. NextPass' = NextPass
    BY <2>1 DEF NextPass
  <2> QED
    BY <1>1, <2>1, <2>2, <2>3 DEF Published, OnlyFailedPasses, Since, Repeated
<1>5. CASE Catchup
  <2>1. Published'
    BY <1>5 DEF Catchup, Published
  <2> QED
    BY <1>1, <1>5, <2>1, CatchupKeeps
<1>6. CASE CatchupFails
  <2>1. UNCHANGED <<now, runs, sced, stored>> /\ due /\ due' = FALSE /\ failed' = failed + 1
    BY <1>6 DEF CatchupFails
  <2>2. Published'
    BY <2>1 DEF Published
  <2>3. NextPass = now /\ NextPass' = now + Hour
    <3>1. now % Hour = Phase /\ now \in Int
      BY <2>1, WindowAssumption DEF TypeOK, Instant
    <3>2. NextPass' = (now - (now % Hour)) + (IF now % Hour < Phase THEN Phase ELSE Hour + Phase)
      BY <2>1 DEF NextPass
    <3> QED
      BY <2>1, <3>1, <3>2, ClockAssumption, WindowAssumption DEF NextPass
  <2>4. failed \in Nat /\ failed' * Hour = failed * Hour + Hour /\ failed * Hour \in Nat
    BY <2>1, FailedHours, WindowAssumption DEF TypeOK
  <2>5. ASSUME NEW u \in runs, stored'[u] = Absent, Repeated(u) => failed' = 0
        PROVE  NextPass' < Since(u) + Hour + failed' * Hour
    <3>1. ~Repeated(u) /\ stored[u] = Absent
      BY <2>1, <2>4, <2>5
    <3>2. NextPass < Since(u) + Hour + failed * Hour
      BY <3>1 DEF OnlyFailedPasses
    <3>3. Since(u) \in Int /\ now \in Int
      BY WindowAssumption, ClockAssumption DEF TypeOK, Instant, Since
    <3> QED
      BY <3>2, <3>3, <2>3, <2>4, ClockAssumption
  <2> QED
    BY <1>1, <2>1, <2>2, <2>5 DEF OnlyFailedPasses, Since, Repeated
<1>7. CASE UNCHANGED vars
  BY <1>1, <1>7 DEF vars, Published, OnlyFailedPasses, NextPass, Since, Repeated
<1> QED
  BY <1>1, <1>2, <1>3, <1>4, <1>5, <1>6, <1>7 DEF Next

\* NoHoles: for every lateness, phase, number of failed passes and change of the
\* clock, a lookback of that length leaves no row of lmp5_catchup's behind.
THEOREM LookbackLeavesNoHole == LongEnough => (Spec => []NoHoles)
<1> SUFFICES ASSUME LongEnough PROVE Spec => []NoHoles
  OBVIOUS
<1>1. HoleInv => NoHoles
  <2> SUFFICES ASSUME HoleInv, NEW u \in runs, u + Lookback < now,
                      Repeated(u) => failed = 0, stored[u] = Absent
               PROVE  FALSE
    BY DEF NoHoles
  <2> USE DEF HoleInv
  <2>1. NextPass < Since(u) + Hour + failed * Hour /\ now <= NextPass /\ NextPass \in Nat
    BY PassIsNext DEF OnlyFailedPasses
  <2>2. u \in Nat /\ now \in Nat /\ failed \in 0 .. MaxFailed
    BY WindowAssumption DEF TypeOK, Instant
  <2> DEFINE f == failed * Hour
             m == MaxFailed * Hour
  <2>3. f \in Nat /\ m \in Nat /\ f <= m /\ (failed = 0 => f = 0)
    BY <2>2, FailedHours, ClockAssumption, WindowAssumption
  <2>4. NextPass < Since(u) + Hour + f
    BY <2>1
  <2>5. Lookback + 1 >= Hour + Hour + m /\ Lookback >= Hour + Delay + m
        /\ Lookback >= 2 * Hour + Delay
    BY DEF LongEnough
  <2> HIDE DEF f, m
  <2> QED
    BY <2>1, <2>2, <2>3, <2>4, <2>5, ClockAssumption, WindowAssumption DEF Since
<1>2. HoleInv /\ [Next]_vars => HoleInv'
  BY HoleNext
<1> QED
  BY HoleInit, <1>1, <1>2, PTL DEF Spec
==============================================================================
