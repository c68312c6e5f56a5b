----------------------------- MODULE DeskProofs ------------------------------
(***************************************************************************)
(* The desk's programs, for every input where the run takes samples: its   *)
(* twins agree (two calendars, three derivations of a sheet and the hours  *)
(* typed into them, the review of a book and the upload file), the typical *)
(* month prices a path, and no decision uses what came after it.           *)
(***************************************************************************)
EXTENDS Desk, FiniteSetTheorems, WellFoundedInduction, TLAPS

LEMMA DatesAreIntegers ==
    ASSUME NEW y \in Int, NEW m \in 1 .. 12, NEW d \in Int
    PROVE  Date(y, m, d) \in Int
<1>1. DaysBefore[m] \in Int
  BY SMT DEF DaysBefore
<1> QED BY <1>1, SMT DEF Date, Leap

\* The last day of May is the day before the first of June, in leap years too.
LEMMA EndOfMay ==
    ASSUME NEW y \in Int
    PROVE  MonthEnd(y, 5) - 1 = Date(y, 5, 31)
<1>1. DaysBefore[5] = 120 /\ DaysBefore[6] = 151
  BY SMT DEF DaysBefore
<1> QED BY <1>1, SMT DEF MonthEnd, Date, Leap

\* Both count the weekdays from the same day of the week.
LEMMA SameWeekdays ==
    ASSUME NEW d \in Int
    PROVE  /\ IsoDow(d) = 7 <=> Weekday(d) = 6
           /\ IsoDow(d) <= 5 <=> ~(Weekday(d) >= 5)
           /\ (Weekday(d) - 0) % 7 = (IsoDow(d) - 1) % 7
           /\ (0 - Weekday(d)) % 7 = (8 - IsoDow(d)) % 7
           /\ (3 - Weekday(d)) % 7 = (11 - IsoDow(d)) % 7
BY SMT DEF IsoDow, Weekday

\* The holidays are the same set of days.
LEMMA SameHolidays ==
    ASSUME NEW y \in Int, NEW d \in Int
    PROVE  d \in NercHolidays(y) <=> SqlHoliday(y, d)
<1>1. \A f \in Fixed(y) : f \in Int
  <2>1. Date(y, 1, 1) \in Int /\ Date(y, 7, 4) \in Int /\ Date(y, 12, 25) \in Int
    BY DatesAreIntegers, SMT
  <2> QED BY <2>1 DEF Fixed
<1>2. {IF Weekday(f) = 6 THEN f + 1 ELSE f : f \in Fixed(y)}
        = {IF IsoDow(f) = 7 THEN f + 1 ELSE f : f \in Fixed(y)}
  BY <1>1, SameWeekdays
<1>3. LastWeekday(y, 5, 0) = Date(y, 5, 31) - ((IsoDow(Date(y, 5, 31)) - 1) % 7)
  BY EndOfMay, DatesAreIntegers, SameWeekdays DEF LastWeekday
<1>4. NthWeekday(y, 9, 0, 1) = Date(y, 9, 1) + ((8 - IsoDow(Date(y, 9, 1))) % 7)
  <2>1. Date(y, 9, 1) \in Int
    BY DatesAreIntegers
  <2>2. (0 - Weekday(Date(y, 9, 1))) % 7 = (8 - IsoDow(Date(y, 9, 1))) % 7
    BY <2>1, SameWeekdays
  <2> QED BY <2>1, <2>2, SMT DEF NthWeekday, IsoDow, Weekday
<1>5. NthWeekday(y, 11, 3, 4) = Date(y, 11, 1) + ((11 - IsoDow(Date(y, 11, 1))) % 7) + 21
  <2>1. Date(y, 11, 1) \in Int
    BY DatesAreIntegers
  <2>2. (3 - Weekday(Date(y, 11, 1))) % 7 = (11 - IsoDow(Date(y, 11, 1))) % 7
    BY <2>1, SameWeekdays
  <2> QED BY <2>1, <2>2, SMT DEF NthWeekday, IsoDow, Weekday
<1> QED BY <1>2, <1>3, <1>4, <1>5, Zenon DEF NercHolidays, SqlHoliday

\* Every hour of every date is in the same block, in Python and in SQL.
THEOREM TheCalendarsAgree ==
    ASSUME NEW y \in Int, NEW d \in Int, NEW he \in Int
    PROVE  TouOf(y, d, he) = SqlTou(y, d, he)
<1>1. he \notin 7 .. 22 <=> (he < 7 \/ he > 22)
  BY SMT
<1>2. IsoDow(d) <= 5 <=> ~(Weekday(d) >= 5)
  BY SameWeekdays
<1>3. d \in NercHolidays(y) <=> SqlHoliday(y, d)
  BY SameHolidays
<1> QED BY <1>1, <1>2, <1>3, Zenon DEF TouOf, SqlTou

-----------------------------------------------------------------------------
(* Sheets: prices and sizes of any value, in place of the run's samples.   *)

LEMMA LimitsAgree ==
    ASSUME NEW v \in PathRow
    PROVE  /\ FrozenLimit(v) \in Int
           /\ FrozenLimit(v) = IF v.clear < 50
                               THEN Least(2 * v.ceiling, Greatest(9 * v.clear, 30))
                               ELSE 2 * v.ceiling
BY SMT DEF FrozenLimit, PathRow, Least, Greatest

\* A path is frozen as red exactly if the sheet buys none of it (freeze_sheet.py
\* writes the condition out twice, in lines 46-49 and 60-62).
THEOREM RedIsNotBought ==
    ASSUME NEW v \in PathRow, NEW month \in DOMAIN HOURS
    PROVE  FrozenTier(v) = "red" <=> FrozenMw(v, month) = 0
<1> DEFINE ref == FrozenLimit(v)
           red == ref < 30 \/ (v.clear > 0 /\ ref <= 3 * v.clear)
           rate == IF v.clear # 0 THEN 3 * v.clear ELSE ref
           bought == Least(Budget250(HoursOf(month, v.tou), rate),
                           Least(Greatest(v.mw \div 2, 1), 200))
<1>1. FrozenMw(v, month) = IF red THEN 0 ELSE Greatest(1, bought)
  BY DEF FrozenMw
<1>2. FrozenTier(v) = "red" <=> red
  BY DEF FrozenTier
<1>3. ~(Greatest(1, bought) = 0)
  BY SMT DEF Greatest
<1> QED BY <1>1, <1>2, <1>3

\* "Replicates the ticket's own derivation": the row that freeze_sheet writes has the
\* limit and the tier of the ticket on the page, and its size unless it cleared at 0.
THEOREM FrozenAsShown ==
    ASSUME NEW v \in PathRow, NEW month \in DOMAIN HOURS, v.active
    PROVE  /\ TicketRow(v, month).limit = FrozenLimit(v)
           /\ TicketRow(v, month).tier = FrozenTier(v)
           /\ v.clear # 0 => TicketRow(v, month).mw = FrozenMw(v, month)
<1> DEFINE limit == FrozenLimit(v)
           red == limit < 30 \/ (v.clear > 0 /\ limit <= 3 * v.clear)
           size == Greatest(1, Least(Budget250(HoursOf(month, v.tou), 3 * v.clear),
                                     Least(Greatest(v.mw \div 2, 1), 200)))
           Margin(percent) == v.clear > 0 /\ 100 * limit > percent * 3 * v.clear
           green == /\ v.book # "Market" /\ ~v.flagged /\ Margin(105)
                    /\ \/ v.clear < 75
                       \/ v.clear > 0 /\ v.clear <= 500 /\ limit >= 6 * v.clear
<1>1. limit \in Int /\ v.clear \in Int
  BY LimitsAgree DEF PathRow
<1>2. limit = IF v.clear < 50 THEN Least(2 * v.ceiling, Greatest(9 * v.clear, 30))
              ELSE 2 * v.ceiling
  BY LimitsAgree
<1>3. TicketRow(v, month) =
        IF limit < 30 \/ (v.clear > 0 /\ ~Margin(100))
        THEN [tier |-> "red", limit |-> limit, mw |-> 0]
        ELSE [tier |-> IF green THEN "green" ELSE "amber", limit |-> limit, mw |-> size]
  <2>1. v.active = TRUE
    BY DEF PathRow
  <2> QED BY <1>2, <2>1, SMT DEF TicketRow
<1> HIDE DEF limit, size
<1>4. red <=> (limit < 30 \/ (v.clear > 0 /\ ~Margin(100)))
  BY <1>1, SMT
<1>5. FrozenTier(v) = IF red THEN "red" ELSE IF green THEN "green" ELSE "amber"
  <2>1. 20 * limit > 63 * v.clear <=> 100 * limit > 105 * 3 * v.clear
    BY <1>1, SMT
  <2>2. FrozenTier(v) =
          CASE red -> "red"
            [] OTHER -> IF /\ v.book # "Market" /\ ~v.flagged
                           /\ v.clear > 0 /\ 20 * limit > 63 * v.clear
                           /\ v.clear < 75 \/ (v.clear <= 500 /\ limit >= 6 * v.clear)
                        THEN "green" ELSE "amber"
    BY Zenon DEF FrozenTier, limit
  <2>3. CASE red
    BY <2>2, <2>3
  <2>4. CASE ~red
    <3>1. FrozenTier(v) =
            IF /\ v.book # "Market" /\ ~v.flagged
               /\ v.clear > 0 /\ 20 * limit > 63 * v.clear
               /\ v.clear < 75 \/ (v.clear <= 500 /\ limit >= 6 * v.clear)
            THEN "green" ELSE "amber"
      BY <2>2, <2>4, Zenon
    <3>2. green <=> (/\ v.book # "Market" /\ ~v.flagged
                     /\ v.clear > 0 /\ 20 * limit > 63 * v.clear
                     /\ v.clear < 75 \/ (v.clear <= 500 /\ limit >= 6 * v.clear))
      BY <2>1, Zenon
    <3> HIDE DEF red, green
    <3>3. CASE green
      BY <2>4, <3>1, <3>2, <3>3, Zenon
    <3>4. CASE ~green
      BY <2>4, <3>1, <3>2, <3>4, Zenon
    <3> QED BY <3>3, <3>4
  <2> QED BY <2>3, <2>4
<1>6. v.clear # 0 => FrozenMw(v, month) = IF red THEN 0 ELSE size
  BY Zenon DEF FrozenMw, limit, size
<1>7. CASE red
  <2>1. TicketRow(v, month) = [tier |-> "red", limit |-> limit, mw |-> 0]
    BY <1>3, <1>4, <1>7, Zenon
  <2>2. FrozenTier(v) = "red"
    BY <1>5, <1>7, Zenon
  <2>3. v.clear # 0 => FrozenMw(v, month) = 0
    BY <1>6, <1>7, Zenon
  <2> HIDE DEF red
  <2> QED BY <2>1, <2>2, <2>3 DEF limit
<1>8. CASE ~red
  <2> DEFINE tier == IF green THEN "green" ELSE "amber"
  <2>1. TicketRow(v, month) = [tier |-> tier, limit |-> limit, mw |-> size]
    BY <1>3, <1>4, <1>8, Zenon
  <2>2. FrozenTier(v) = tier
    BY <1>5, <1>8, Zenon
  <2>3. v.clear # 0 => FrozenMw(v, month) = size
    BY <1>6, <1>8, Zenon
  <2> HIDE DEF tier
  <2> QED BY <2>1, <2>2, <2>3 DEF limit
<1> QED BY <1>7, <1>8

\* The script that rebuilt the sheet of September 2026 derives a row of the market
\* scan as freeze_sheet does, where the path cleared and was awarded.
LEMMA RebuiltAsFrozen ==
    ASSUME NEW v \in PathRow, NEW month \in DOMAIN HOURS,
           v.book = "Market", v.clear >= 5, v.mw >= 1
    PROVE  RebuiltRow(v, month) = FrozenRow(v, month)
<1> DEFINE limit == FrozenLimit(v)
           red == limit < 30 \/ (v.clear > 0 /\ limit <= 3 * v.clear)
           bought == Budget250(HoursOf(month, v.tou), 3 * v.clear)
           liquid == Least(Greatest(v.mw \div 2, 1), 200)
<1>1. v.clear \in Int /\ v.clear # 0 /\ v.mw \in Nat /\ v.mw # 0
  BY DEF PathRow
<1>2. limit = IF v.clear # 0 /\ v.clear < 50
              THEN Least(2 * v.ceiling, Greatest(9 * v.clear, 30)) ELSE 2 * v.ceiling
  BY <1>1, LimitsAgree
<1>3. RebuiltRow(v, month) =
        IF red THEN [tier |-> "red", limit |-> limit, mw |-> 0]
        ELSE [tier |-> "amber", limit |-> limit,
              mw |-> Greatest(1, Least(IF bought > 0 THEN bought ELSE 1, liquid))]
  BY <1>1, <1>2, Zenon DEF RebuiltRow
<1>4. FrozenMw(v, month) = IF red THEN 0 ELSE Greatest(1, Least(bought, liquid))
  BY <1>1 DEF FrozenMw
<1>5. FrozenTier(v) = IF red THEN "red" ELSE "amber"
  BY DEF FrozenTier
<1>6. bought \in Int
  <2>1. v.tou \in Blocks
    BY DEF PathRow
  <2>2. HoursOf(month, v.tou) \in Int
    BY <2>1 DEF HoursOf, HOURS, Blocks
  <2>3. HoursOf(month, v.tou) * (3 * v.clear) \in Int
    BY <1>1, <2>2
  <2> QED BY <2>3 DEF Budget250, Greatest
<1>7. liquid \in Int /\ liquid >= 1
  BY <1>1 DEF Least, Greatest
<1> HIDE DEF limit, red, bought, liquid
<1>8. Greatest(1, Least(IF bought > 0 THEN bought ELSE 1, liquid))
        = Greatest(1, Least(bought, liquid))
  BY <1>6, <1>7 DEF Least, Greatest
<1> QED BY <1>3, <1>4, <1>5, <1>8 DEF FrozenRow, limit

-----------------------------------------------------------------------------
(* The hours typed into freeze_sheet.py, lib/auction.ts and                *)
(* reconstruct_sep_sheet.py are the calendar's.                            *)

\* A set of days grows by a later run of days.
LEMMA LaterRun ==
    ASSUME NEW S, S \subseteq Int, IsFiniteSet(S), NEW a \in Int, NEW b \in Int, a <= b,
           \A d \in S : d < a
    PROVE  /\ S \cup a .. b \subseteq Int
           /\ IsFiniteSet(S \cup a .. b)
           /\ Cardinality(S \cup a .. b) = Cardinality(S) + b - a + 1
<1>1. IsFiniteSet(a .. b) /\ Cardinality(a .. b) = b - a + 1
  BY FS_Interval
<1>2. S \cap a .. b = {}
  OBVIOUS
<1>3. Cardinality(S) \in Nat /\ Cardinality(S \cap a .. b) = 0
  BY <1>2, FS_CardinalityType, FS_EmptySet
<1>4. /\ IsFiniteSet(S \cup a .. b)
      /\ Cardinality(S \cup a .. b)
           = Cardinality(S) + Cardinality(a .. b) - Cardinality(S \cap a .. b)
  BY <1>1, FS_Union
<1> QED BY <1>1, <1>3, <1>4

\* The length of a run.
LEMMA RunLength ==
    ASSUME NEW a \in Int, NEW b \in Int, a <= b
    PROVE  IsFiniteSet(a .. b) /\ Cardinality(a .. b) = b - a + 1
  BY FS_Interval

\* Six runs of days, one after the other.
Runs(a, b) ==
    ((((a[1] .. b[1] \cup a[2] .. b[2]) \cup a[3] .. b[3]) \cup a[4] .. b[4])
        \cup a[5] .. b[5]) \cup a[6] .. b[6]

LEMMA SixRuns ==
    ASSUME NEW a, NEW b, \A i \in 1 .. 6 : a[i] \in Int /\ b[i] \in Int /\ a[i] <= b[i],
           \A i \in 1 .. 5 : b[i] < a[i + 1]
    PROVE  /\ IsFiniteSet(Runs(a, b))
           /\ Cardinality(Runs(a, b))
                = (b[1] - a[1]) + (b[2] - a[2]) + (b[3] - a[3]) + (b[4] - a[4])
                    + (b[5] - a[5]) + (b[6] - a[6]) + 6
<1> DEFINE S1 == a[1] .. b[1]
           S2 == S1 \cup a[2] .. b[2]
           S3 == S2 \cup a[3] .. b[3]
           S4 == S3 \cup a[4] .. b[4]
           S5 == S4 \cup a[5] .. b[5]
           S6 == S5 \cup a[6] .. b[6]
<1>0. /\ a[1] \in Int /\ a[2] \in Int /\ a[3] \in Int /\ a[4] \in Int /\ a[5] \in Int
      /\ b[1] \in Int /\ b[2] \in Int /\ b[3] \in Int /\ b[4] \in Int /\ b[5] \in Int
      /\ a[6] \in Int /\ b[6] \in Int
      /\ a[1] <= b[1] /\ b[1] < a[2] /\ a[2] <= b[2] /\ b[2] < a[3] /\ a[3] <= b[3]
      /\ b[3] < a[4] /\ a[4] <= b[4] /\ b[4] < a[5] /\ a[5] <= b[5] /\ b[5] < a[6]
      /\ a[6] <= b[6]
  BY 1 + 1 = 2, 2 + 1 = 3, 3 + 1 = 4, 4 + 1 = 5, 5 + 1 = 6
<1>1. /\ IsFiniteSet(S1) /\ Cardinality(S1) = b[1] - a[1] + 1 /\ S1 \subseteq Int
      /\ \A d \in S1 : d <= b[1]
  <2>1. IsFiniteSet(S1) /\ Cardinality(S1) = b[1] - a[1] + 1
    BY <1>0, RunLength
  <2>2. S1 \subseteq Int /\ \A d \in S1 : d <= b[1]
    BY <1>0
  <2> QED BY <2>1, <2>2
<1>2. /\ IsFiniteSet(S2) /\ Cardinality(S2) = Cardinality(S1) + b[2] - a[2] + 1
      /\ S2 \subseteq Int /\ \A d \in S2 : d <= b[2]
  <2> HIDE DEF S1
  <2>0. b[1] \in Int /\ b[2] \in Int /\ a[2] \in Int /\ b[1] < a[2] /\ a[2] <= b[2]
    BY <1>0
  <2>1. S1 \subseteq Int /\ IsFiniteSet(S1) /\ \A d \in S1 : d < a[2] /\ d <= b[2]
    <3>1. ASSUME NEW d \in S1 PROVE d \in Int /\ d < a[2] /\ d <= b[2]
      BY <1>1, <2>0
    <3> QED BY <1>1, <3>1
  <2>2. IsFiniteSet(S2) /\ Cardinality(S2) = Cardinality(S1) + b[2] - a[2] + 1
    BY <2>0, <2>1, LaterRun
  <2>3. ASSUME NEW d \in S2 PROVE d \in Int /\ d <= b[2]
    <3>1. CASE d \in S1
      BY <2>1, <3>1
    <3>2. CASE d \in a[2] .. b[2]
      BY <2>0, <3>2
    <3> QED BY <3>1, <3>2
  <2> HIDE DEF S2
  <2> QED BY <2>2, <2>3
<1>3. /\ IsFiniteSet(S3) /\ Cardinality(S3) = Cardinality(S2) + b[3] - a[3] + 1
      /\ S3 \subseteq Int /\ \A d \in S3 : d <= b[3]
  <2> HIDE DEF S2
  <2>0. b[2] \in Int /\ b[3] \in Int /\ a[3] \in Int /\ b[2] < a[3] /\ a[3] <= b[3]
    BY <1>0
  <2>1. S2 \subseteq Int /\ IsFiniteSet(S2) /\ \A d \in S2 : d < a[3] /\ d <= b[3]
    <3>1. ASSUME NEW d \in S2 PROVE d \in Int /\ d < a[3] /\ d <= b[3]
      BY <1>2, <2>0, SMTT(30)
    <3> QED BY <1>2, <3>1
  <2>2. IsFiniteSet(S3) /\ Cardinality(S3) = Cardinality(S2) + b[3] - a[3] + 1
    BY <2>0, <2>1, LaterRun
  <2>3. ASSUME NEW d \in S3 PROVE d \in Int /\ d <= b[3]
    <3>1. CASE d \in S2
      BY <2>1, <3>1
    <3>2. CASE d \in a[3] .. b[3]
      BY <2>0, <3>2
    <3> QED BY <3>1, <3>2
  <2> HIDE DEF S3
  <2> QED BY <2>2, <2>3
<1>4. /\ IsFiniteSet(S4) /\ Cardinality(S4) = Cardinality(S3) + b[4] - a[4] + 1
      /\ S4 \subseteq Int /\ \A d \in S4 : d <= b[4]
  <2> HIDE DEF S3
  <2>0. b[3] \in Int /\ b[4] \in Int /\ a[4] \in Int /\ b[3] < a[4] /\ a[4] <= b[4]
    BY <1>0
  <2>1. S3 \subseteq Int /\ IsFiniteSet(S3) /\ \A d \in S3 : d < a[4] /\ d <= b[4]
    <3>1. ASSUME NEW d \in S3 PROVE d \in Int /\ d < a[4] /\ d <= b[4]
      BY <1>3, <2>0
    <3> QED BY <1>3, <3>1
  <2>2. IsFiniteSet(S4) /\ Cardinality(S4) = Cardinality(S3) + b[4] - a[4] + 1
    BY <2>0, <2>1, LaterRun
  <2>3. ASSUME NEW d \in S4 PROVE d \in Int /\ d <= b[4]
    <3>1. CASE d \in S3
      BY <2>1, <3>1
    <3>2. CASE d \in a[4] .. b[4]
      BY <2>0, <3>2
    <3> QED BY <3>1, <3>2
  <2> HIDE DEF S4
  <2> QED BY <2>2, <2>3
<1>5. /\ IsFiniteSet(S5) /\ Cardinality(S5) = Cardinality(S4) + b[5] - a[5] + 1
      /\ S5 \subseteq Int /\ \A d \in S5 : d <= b[5]
  <2> HIDE DEF S4
  <2>0. b[4] \in Int /\ b[5] \in Int /\ a[5] \in Int /\ b[4] < a[5] /\ a[5] <= b[5]
    BY <1>0
  <2>1. S4 \subseteq Int /\ IsFiniteSet(S4) /\ \A d \in S4 : d < a[5] /\ d <= b[5]
    <3>1. ASSUME NEW d \in S4 PROVE d \in Int /\ d < a[5] /\ d <= b[5]
      BY <1>4, <2>0
    <3> QED BY <1>4, <3>1
  <2>2. IsFiniteSet(S5) /\ Cardinality(S5) = Cardinality(S4) + b[5] - a[5] + 1
    BY <2>0, <2>1, LaterRun
  <2>3. ASSUME NEW d \in S5 PROVE d \in Int /\ d <= b[5]
    <3>1. CASE d \in S4
      BY <2>1, <3>1
    <3>2. CASE d \in a[5] .. b[5]
      BY <2>0, <3>2
    <3> QED BY <3>1, <3>2
  <2> HIDE DEF S5
  <2> QED BY <2>2, <2>3
<1>6. /\ IsFiniteSet(S6) /\ Cardinality(S6) = Cardinality(S5) + b[6] - a[6] + 1
      /\ S6 \subseteq Int /\ \A d \in S6 : d <= b[6]
  <2> HIDE DEF S5
  <2>0. b[5] \in Int /\ b[6] \in Int /\ a[6] \in Int /\ b[5] < a[6] /\ a[6] <= b[6]
    BY <1>0
  <2>1. S5 \subseteq Int /\ IsFiniteSet(S5) /\ \A d \in S5 : d < a[6] /\ d <= b[6]
    <3>1. ASSUME NEW d \in S5 PROVE d \in Int /\ d < a[6] /\ d <= b[6]
      BY <1>5, <2>0
    <3> QED BY <1>5, <3>1
  <2>2. IsFiniteSet(S6) /\ Cardinality(S6) = Cardinality(S5) + b[6] - a[6] + 1
    BY <2>0, <2>1, LaterRun
  <2>3. ASSUME NEW d \in S6 PROVE d \in Int /\ d <= b[6]
    <3>1. CASE d \in S5
      BY <2>1, <3>1
    <3>2. CASE d \in a[6] .. b[6]
      BY <2>0, <3>2
    <3> QED BY <3>1, <3>2
  <2> HIDE DEF S6
  <2> QED BY <2>2, <2>3
<1>7. Runs(a, b) = S6
  BY DEF Runs
<1> HIDE DEF S1, S2, S3, S4, S5, S6
<1> QED BY <1>0, <1>1, <1>2, <1>3, <1>4, <1>5, <1>6, <1>7

\* The hours by day and by night.
LEMMA DayAndNight ==
    /\ IsFiniteSet(7 .. 22) /\ Cardinality(7 .. 22) = 16
    /\ IsFiniteSet((1 .. 6) \cup 23 .. 24) /\ Cardinality((1 .. 6) \cup 23 .. 24) = 8
<1>1. PICK a \in Int, b \in Int, c \in Int, d \in Int, e \in Int, f \in Int :
        a = 7 /\ b = 22 /\ c = 1 /\ d = 6 /\ e = 23 /\ f = 24
  OBVIOUS
<1>2. a <= b /\ c <= d /\ e <= f
  BY <1>1
<1>3. /\ IsFiniteSet(a .. b) /\ Cardinality(a .. b) = b - a + 1
      /\ IsFiniteSet(c .. d) /\ Cardinality(c .. d) = d - c + 1
  BY <1>2, RunLength
<1>4. c .. d \subseteq Int /\ \A x \in c .. d : x < e
  BY <1>1
<1>5. /\ IsFiniteSet((c .. d) \cup e .. f)
      /\ Cardinality((c .. d) \cup e .. f) = Cardinality(c .. d) + f - e + 1
  <2> DEFINE S == c .. d
  <2> HIDE DEF S
  <2>1. S \subseteq Int /\ IsFiniteSet(S) /\ \A x \in S : x < e
    BY <1>3, <1>4 DEF S
  <2>2. /\ IsFiniteSet(S \cup e .. f)
        /\ Cardinality(S \cup e .. f) = Cardinality(S) + f - e + 1
    BY <1>2, <2>1, LaterRun
  <2> QED BY <2>2 DEF S
<1> QED BY <1>1, <1>3, <1>5

\* The block hours of a month whose peak weekdays are W.
LEMMA HoursOfMonth ==
    ASSUME NEW y, NEW m, NEW first \in Int, NEW last \in Int, first <= last,
           Date(y, m, 1) = first, MonthEnd(y, m) - 1 = last, NEW W \in SUBSET (first .. last),
           \A d \in first .. last : d \in W <=> ~(Weekday(d) >= 5 \/ d \in NercHolidays(y))
    PROVE  /\ TouHours(y, m)["PeakWD"] = 16 * Cardinality(W)
           /\ TouHours(y, m)["PeakWE"] = 16 * (last - first + 1 - Cardinality(W))
           /\ TouHours(y, m)["Off-peak"] = 8 * (last - first + 1)
<1> DEFINE days == first .. last
           Cells(tou) == {c \in days \X (1 .. 24) : TouOf(y, c[1], c[2]) = tou}
           night == (1 .. 6) \cup (23 .. 24)
<1>1. IsFiniteSet(days) /\ Cardinality(days) = last - first + 1
  BY FS_Interval
<1>2. IsFiniteSet(W) /\ IsFiniteSet(days \ W) /\ Cardinality(W) \in Nat
  BY <1>1, FS_Subset, FS_CardinalityType
<1>3. Cardinality(days \ W) = Cardinality(days) - Cardinality(W)
  <2>1. Cardinality(days \ W) = Cardinality(days) - Cardinality(days \cap W)
    BY <1>1, FS_Difference
  <2>2. days \cap W = W
    OBVIOUS
  <2> QED BY <2>1, <2>2
<1>4. IsFiniteSet(7 .. 22) /\ Cardinality(7 .. 22) = 16
  BY DayAndNight
<1>5. IsFiniteSet(night) /\ Cardinality(night) = 8
  BY DayAndNight
<1>6. TouHours(y, m) = [tou \in Blocks |-> Cardinality(Cells(tou))]
  <2>1. Date(y, m, 1) .. MonthEnd(y, m) - 1 = days
    OBVIOUS
  <2> QED BY <2>1 DEF TouHours
<1>7. ASSUME NEW d \in days, NEW he \in 1 .. 24
      PROVE  TouOf(y, d, he) = IF he \notin 7 .. 22 THEN "Off-peak"
                               ELSE IF d \in W THEN "PeakWD" ELSE "PeakWE"
  BY DEF TouOf
<1>8. \A c : c \in days \X (1 .. 24) => /\ c = <<c[1], c[2]>> /\ c[1] \in days /\ c[2] \in 1 .. 24
  OBVIOUS
<1>9. /\ Cells("PeakWD") = W \X (7 .. 22)
      /\ Cells("PeakWE") = (days \ W) \X (7 .. 22)
      /\ Cells("Off-peak") = days \X night
  <2>1. \A c \in days \X (1 .. 24) :
          /\ TouOf(y, c[1], c[2]) = "PeakWD" <=> c[1] \in W /\ c[2] \in 7 .. 22
          /\ TouOf(y, c[1], c[2]) = "PeakWE" <=> c[1] \notin W /\ c[2] \in 7 .. 22
          /\ TouOf(y, c[1], c[2]) = "Off-peak" <=> c[2] \in night
    BY <1>7, <1>8
  <2> HIDE DEF days
  <2>2. ASSUME NEW c PROVE c \in Cells("PeakWD") <=> c \in W \X (7 .. 22)
    BY <1>8, <2>1 DEF days
  <2>3. ASSUME NEW c PROVE c \in Cells("PeakWE") <=> c \in (days \ W) \X (7 .. 22)
    BY <1>8, <2>1
  <2>4. ASSUME NEW c PROVE c \in Cells("Off-peak") <=> c \in days \X night
    BY <1>8, <2>1
  <2> HIDE DEF Cells, night
  <2> QED BY <2>2, <2>3, <2>4
<1> HIDE DEF Cells, night, days
<1>10. Cardinality(Cells("PeakWD")) = Cardinality(W) * 16
  BY <1>2, <1>4, <1>9, FS_Product
<1>11. Cardinality(Cells("PeakWE")) = Cardinality(days \ W) * 16
  BY <1>2, <1>4, <1>9, FS_Product
<1>12. Cardinality(Cells("Off-peak")) = Cardinality(days) * 8
  BY <1>1, <1>5, <1>9, FS_Product, ZenonT(60)
<1> QED BY <1>1, <1>2, <1>3, <1>6, <1>10, <1>11, <1>12 DEF Blocks

\* The three months of the sheets.
LEMMA HoursOfSheets ==
    ASSUME NEW month \in DOMAIN HOURS, NEW tou \in Blocks
    PROVE  HoursOf(month, tou) = TouHours(month[1], month[2])[tou]
<1>d. \A m \in 1 .. 12 : Date(2026, m, 1) = 739616 + DaysBefore[m] + 1
  BY DEF Date, Leap, DaysBefore
<1>y. /\ DaysBefore[1] = 0 /\ DaysBefore[5] = 120 /\ DaysBefore[6] = 151 /\ DaysBefore[7] = 181
      /\ DaysBefore[9] = 243 /\ DaysBefore[10] = 273 /\ DaysBefore[11] = 304 /\ DaysBefore[12] = 334
  BY DEF DaysBefore
<1>b. tou \in {"PeakWD", "PeakWE", "Off-peak"}
  BY DEF Blocks
<1>h. ASSUME NEW d \in 739860 .. 739950
      PROVE  d \in NercHolidays(2026) <=> d \in {739866, 739946}
  <2>1. Fixed(2026) = {739617, 739801, 739975}
    BY <1>y DEF Fixed, Date, Leap
  <2>2. LastWeekday(2026, 5, 0) = 739761
    BY <1>d, <1>y DEF LastWeekday, MonthEnd, Weekday
  <2>3. NthWeekday(2026, 9, 0, 1) = 739866 /\ NthWeekday(2026, 11, 3, 4) = 739946
    BY <1>d, <1>y DEF NthWeekday, Weekday
  <2> QED BY <2>1, <2>2, <2>3 DEF NercHolidays, Weekday
<1>1. CASE month = <<2026, 9>>
  <2> DEFINE a == <<739860, 739867, 739873, 739880, 739887, 739889>>
             b == <<739863, 739870, 739877, 739884, 739888, 739889>>
  <2>1. /\ \A i \in 1 .. 6 : a[i] \in Int /\ b[i] \in Int /\ a[i] <= b[i]
        /\ \A i \in 1 .. 5 : b[i] < a[i + 1]
    OBVIOUS
  <2>2. (b[1] - a[1]) + (b[2] - a[2]) + (b[3] - a[3]) + (b[4] - a[4])
            + (b[5] - a[5]) + (b[6] - a[6]) + 6 = 21
    OBVIOUS
  <2>3. \A d \in 739860 .. 739889 :
          d \in Runs(a, b) <=> ~(Weekday(d) >= 5 \/ d \in NercHolidays(2026))
    BY <1>h DEF Runs, Weekday
  <2>4. Date(2026, 9, 1) = 739860 /\ MonthEnd(2026, 9) - 1 = 739889
    BY <1>d, <1>y DEF MonthEnd
  <2>5. Runs(a, b) \in SUBSET (739860 .. 739889)
    BY DEF Runs
  <2> HIDE DEF a, b
  <2>6. Cardinality(Runs(a, b)) = 21
    BY <2>1, <2>2, SixRuns
  <2>7. PICK first \in Int, last \in Int : first = 739860 /\ last = 739889
    OBVIOUS
  <2>8. first <= last /\ Date(2026, 9, 1) = first /\ MonthEnd(2026, 9) - 1 = last
    BY <2>4, <2>7
  <2>9. /\ Runs(a, b) \in SUBSET (first .. last)
        /\ \A d \in first .. last :
             d \in Runs(a, b) <=> ~(Weekday(d) >= 5 \/ d \in NercHolidays(2026))
    BY <2>3, <2>5, <2>7
  <2>10. /\ TouHours(2026, 9)["PeakWD"] = 16 * Cardinality(Runs(a, b))
         /\ TouHours(2026, 9)["PeakWE"] = 16 * (last - first + 1 - Cardinality(Runs(a, b)))
         /\ TouHours(2026, 9)["Off-peak"] = 8 * (last - first + 1)
    BY <2>8, <2>9, HoursOfMonth
  <2>11. /\ TouHours(2026, 9)["PeakWD"] = 336 /\ TouHours(2026, 9)["PeakWE"] = 144
         /\ TouHours(2026, 9)["Off-peak"] = 240
    BY <2>6, <2>7, <2>10
  <2>12. /\ HoursOf(month, "PeakWD") = 336 /\ HoursOf(month, "PeakWE") = 144
         /\ HoursOf(month, "Off-peak") = 240
    BY <1>1 DEF HoursOf, HOURS
  <2> QED BY <1>1, <1>b, <2>11, <2>12
<1>2. CASE month = <<2026, 10>>
  <2> DEFINE a == <<739890, 739894, 739901, 739908, 739915, 739916>>
             b == <<739891, 739898, 739905, 739912, 739915, 739919>>
  <2>1. /\ \A i \in 1 .. 6 : a[i] \in Int /\ b[i] \in Int /\ a[i] <= b[i]
        /\ \A i \in 1 .. 5 : b[i] < a[i + 1]
    OBVIOUS
  <2>2. (b[1] - a[1]) + (b[2] - a[2]) + (b[3] - a[3]) + (b[4] - a[4])
            + (b[5] - a[5]) + (b[6] - a[6]) + 6 = 22
    OBVIOUS
  <2>3. \A d \in 739890 .. 739920 :
          d \in Runs(a, b) <=> ~(Weekday(d) >= 5 \/ d \in NercHolidays(2026))
    BY <1>h DEF Runs, Weekday
  <2>4. Date(2026, 10, 1) = 739890 /\ MonthEnd(2026, 10) - 1 = 739920
    BY <1>d, <1>y DEF MonthEnd
  <2>5. Runs(a, b) \in SUBSET (739890 .. 739920)
    BY DEF Runs
  <2> HIDE DEF a, b
  <2>6. Cardinality(Runs(a, b)) = 22
    BY <2>1, <2>2, SixRuns
  <2>7. PICK first \in Int, last \in Int : first = 739890 /\ last = 739920
    OBVIOUS
  <2>8. first <= last /\ Date(2026, 10, 1) = first /\ MonthEnd(2026, 10) - 1 = last
    BY <2>4, <2>7
  <2>9. /\ Runs(a, b) \in SUBSET (first .. last)
        /\ \A d \in first .. last :
             d \in Runs(a, b) <=> ~(Weekday(d) >= 5 \/ d \in NercHolidays(2026))
    BY <2>3, <2>5, <2>7
  <2>10. /\ TouHours(2026, 10)["PeakWD"] = 16 * Cardinality(Runs(a, b))
         /\ TouHours(2026, 10)["PeakWE"] = 16 * (last - first + 1 - Cardinality(Runs(a, b)))
         /\ TouHours(2026, 10)["Off-peak"] = 8 * (last - first + 1)
    BY <2>8, <2>9, HoursOfMonth
  <2>11. /\ TouHours(2026, 10)["PeakWD"] = 352 /\ TouHours(2026, 10)["PeakWE"] = 144
         /\ TouHours(2026, 10)["Off-peak"] = 248
    BY <2>6, <2>7, <2>10
  <2>12. /\ HoursOf(month, "PeakWD") = 352 /\ HoursOf(month, "PeakWE") = 144
         /\ HoursOf(month, "Off-peak") = 248
    BY <1>2 DEF HoursOf, HOURS
  <2> QED BY <1>2, <1>b, <2>11, <2>12
<1>3. CASE month = <<2026, 11>>
  <2> DEFINE a == <<739922, 739929, 739936, 739943, 739947, 739950>>
             b == <<739926, 739933, 739940, 739945, 739947, 739950>>
  <2>1. /\ \A i \in 1 .. 6 : a[i] \in Int /\ b[i] \in Int /\ a[i] <= b[i]
        /\ \A i \in 1 .. 5 : b[i] < a[i + 1]
    OBVIOUS
  <2>2. (b[1] - a[1]) + (b[2] - a[2]) + (b[3] - a[3]) + (b[4] - a[4])
            + (b[5] - a[5]) + (b[6] - a[6]) + 6 = 20
    OBVIOUS
  <2>3. \A d \in 739921 .. 739950 :
          d \in Runs(a, b) <=> ~(Weekday(d) >= 5 \/ d \in NercHolidays(2026))
    BY <1>h DEF Runs, Weekday
  <2>4. Date(2026, 11, 1) = 739921 /\ MonthEnd(2026, 11) - 1 = 739950
    BY <1>d, <1>y DEF MonthEnd
  <2>5. Runs(a, b) \in SUBSET (739921 .. 739950)
    BY DEF Runs
  <2> HIDE DEF a, b
  <2>6. Cardinality(Runs(a, b)) = 20
    BY <2>1, <2>2, SixRuns
  <2>7. PICK first \in Int, last \in Int : first = 739921 /\ last = 739950
    OBVIOUS
  <2>8. first <= last /\ Date(2026, 11, 1) = first /\ MonthEnd(2026, 11) - 1 = last
    BY <2>4, <2>7
  <2>9. /\ Runs(a, b) \in SUBSET (first .. last)
        /\ \A d \in first .. last :
             d \in Runs(a, b) <=> ~(Weekday(d) >= 5 \/ d \in NercHolidays(2026))
    BY <2>3, <2>5, <2>7
  <2>10. /\ TouHours(2026, 11)["PeakWD"] = 16 * Cardinality(Runs(a, b))
         /\ TouHours(2026, 11)["PeakWE"] = 16 * (last - first + 1 - Cardinality(Runs(a, b)))
         /\ TouHours(2026, 11)["Off-peak"] = 8 * (last - first + 1)
    BY <2>8, <2>9, HoursOfMonth
  <2>11. /\ TouHours(2026, 11)["PeakWD"] = 320 /\ TouHours(2026, 11)["PeakWE"] = 160
         /\ TouHours(2026, 11)["Off-peak"] = 240
    BY <2>6, <2>7, <2>10
  <2>12. /\ HoursOf(month, "PeakWD") = 320 /\ HoursOf(month, "PeakWE") = 160
         /\ HoursOf(month, "Off-peak") = 240
    BY <1>3 DEF HoursOf, HOURS
  <2> QED BY <1>3, <1>b, <2>11, <2>12
<1>4. month \in {<<2026, 9>>, <<2026, 10>>, <<2026, 11>>}
  BY DEF HOURS
<1> QED BY <1>1, <1>2, <1>3, <1>4

-----------------------------------------------------------------------------
(* The two readers of a book.                                              *)

\* What is known of the paths of a book, as far as the two programs compute.
BookFacts(m) ==
    /\ \A k \in DOMAIN m.hist :
          m.hist[k].mean \in Int /\ m.hist[k].median \in Int /\ m.hist[k].hours \in Nat
    /\ \A k \in DOMAIN m.clears : m.clears[k] \in Int

\* bid_ceiling would have the trader bid on a path.
Bids(row) == row.verdict \notin {"cannot value", "no value", "clears above"}

\* bid_ceiling's ceiling of a path that it can value.
CeilingOf(m, k) == m.hist[k].mean * (100 - Haircut(m.hist[k], Stale(m.drivers[k])))

LEMMA CeilingsAreIntegers ==
    ASSUME NEW m, BookFacts(m), NEW k \in Valued(m)
    PROVE  CeilingOf(m, k) \in Int
<1> DEFINE cut == Haircut(m.hist[k], Stale(m.drivers[k]))
<1>1. cut \in Int
  BY DEF Haircut
<1>2. m.hist[k].mean \in Int
  BY DEF BookFacts, Valued
<1> HIDE DEF cut
<1>3. m.hist[k].mean * (100 - cut) \in Int
  BY <1>1, <1>2
<1> QED BY <1>3 DEF CeilingOf, cut

\* A price in cents is the nearest one to a ceiling in thousandths.
LEMMA NearestCent ==
    ASSUME NEW x \in Int
    PROVE  /\ Cents(x) \in Int
           /\ 1000 * Cents(x) <= x + 500 /\ x <= 1000 * Cents(x) + 500
<1> DEFINE q == x \div 1000
           r == x % 1000
<1>1. q \in Int /\ r \in 0 .. 999 /\ x = 1000 * q + r
  OBVIOUS
<1>2. Cents(x) = IF r < 500 \/ (r = 500 /\ q % 2 = 0) THEN q ELSE q + 1
  BY DEF Cents
<1> HIDE DEF q, r
<1> QED BY <1>1, <1>2

\* bid_ceiling has nothing bid on a path that it cannot value.
LEMMA WhatIsUnvalued ==
    ASSUME NEW m, NEW k, Bids(Verdict(m, k))
    PROVE  k \in Valued(m)
<1> DEFINE a == Aggregate(m.book, k)
           ceiling == m.hist[k].mean * (100 - Haircut(m.hist[k], Stale(m.drivers[k])))
           clear == IF k \in DOMAIN m.clears THEN {100 * m.clears[k]} ELSE {}
           row == [ceiling |-> ceiling,
                   verdict |->
                     CASE ceiling <= 0 -> "no value"
                       [] ceiling > 0 /\ \E c \in clear : c > ceiling -> "clears above"
                       [] ceiling > 0 /\ (\A c \in clear : c <= ceiling)
                             /\ 100 * a.cost > ceiling * a.mw -> "lower"
                       [] OTHER -> IF \E c \in clear : ceiling > 3 * c THEN "strong" ELSE "ok"]
<1>1. Verdict(m, k) = IF k \notin Valued(m) THEN [verdict |-> "cannot value"] ELSE row
  BY DEF Verdict
<1> HIDE DEF row
<1>2. k \notin Valued(m) => Verdict(m, k) = [verdict |-> "cannot value"]
  BY <1>1, Zenon
<1>3. \A word, x : x = [verdict |-> word] => x.verdict = word
  OBVIOUS
<1>4. Verdict(m, k).verdict # "cannot value"
  BY Zenon DEF Bids
<1> QED BY <1>2, <1>3, <1>4, Zenon

\* What bid_ceiling tells the trader to leave alone, besides what it cannot value,
\* is what is worth nothing and what clears above its ceiling.
LEMMA WhatIsSkipped ==
    ASSUME NEW m, BookFacts(m), NEW k, k \in Valued(m)
    PROVE  /\ Verdict(m, k).ceiling = CeilingOf(m, k)
           /\ Bids(Verdict(m, k))
                <=> /\ CeilingOf(m, k) > 0
                    /\ k \in DOMAIN m.clears => 100 * m.clears[k] <= CeilingOf(m, k)
<1> DEFINE ceiling == CeilingOf(m, k)
           clear == IF k \in DOMAIN m.clears THEN {100 * m.clears[k]} ELSE {}
           lower == 100 * Aggregate(m.book, k).cost > ceiling * Aggregate(m.book, k).mw
           word == CASE ceiling <= 0 -> "no value"
                     [] ceiling > 0 /\ \E c \in clear : c > ceiling -> "clears above"
                     [] ceiling > 0 /\ (\A c \in clear : c <= ceiling) /\ lower -> "lower"
                     [] OTHER -> IF \E c \in clear : ceiling > 3 * c THEN "strong" ELSE "ok"
<1>1. ceiling \in Int /\ \A c \in clear : c \in Int
  BY CeilingsAreIntegers DEF BookFacts
<1>2. Verdict(m, k) = [ceiling |-> ceiling, verdict |-> word]
  BY Zenon DEF Verdict, CeilingOf
<1>3. (k \in DOMAIN m.clears => 100 * m.clears[k] <= ceiling) <=> \A c \in clear : c <= ceiling
  OBVIOUS
<1>4. (\E c \in clear : c > ceiling) <=> ~ \A c \in clear : c <= ceiling
  BY <1>1
<1> HIDE DEF lower, clear, ceiling
<1>5. word \notin {"cannot value", "no value", "clears above"}
         <=> ceiling > 0 /\ \A c \in clear : c <= ceiling
  BY <1>1, <1>4
<1> HIDE DEF word
<1>6. Verdict(m, k).ceiling = ceiling /\ Verdict(m, k).verdict = word
  BY <1>2
<1>7. ceiling > 0 /\ (\A c \in clear : c <= ceiling)
         <=> ceiling > 0 /\ (k \in DOMAIN m.clears => 100 * m.clears[k] <= ceiling)
  BY <1>3
<1>8. ceiling = CeilingOf(m, k)
  BY DEF ceiling
<1> QED BY <1>5, <1>6, <1>7, <1>8 DEF Bids

\* "Bid the ceiling ... never above": the upload holds exactly the paths that
\* bid_ceiling values above a cent and does not skip, at the nearest cent.
LEMMA UploadIsReviewed ==
    ASSUME NEW m, BookFacts(m), NEW v, v = [k \in PathsOf(m.book) |-> Verdict(m, k)]
    PROVE  /\ \A line \in Upload(m) :
                 /\ Bids(v[line.path])
                 /\ 1000 * line.price <= v[line.path].ceiling + 500
                 /\ v[line.path].ceiling <= 1000 * line.price + 500
           /\ \A k \in DOMAIN v :
                 Bids(v[k]) /\ v[k].ceiling > 1000 => \E line \in Upload(m) : line.path = k
<1> DEFINE Lines == {x \in PathsOf(m.book) \cap Valued(m) :
                       /\ CeilingOf(m, x) > 1000
                       /\ x \in DOMAIN m.clears => 100 * m.clears[x] <= CeilingOf(m, x)}
           Line(k) == [path |-> k, price |-> Cents(CeilingOf(m, k)),
                       mw |-> Aggregate(m.book, k).mw \div 10]
<1>1. Upload(m) = {Line(k) : k \in Lines}
  BY DEF Upload, CeilingOf, Haircut
<1>2. \A k : Line(k).path = k /\ Line(k).price = Cents(CeilingOf(m, k))
  OBVIOUS
<1>3. \A k \in Lines :
        /\ k \in Valued(m) /\ k \in DOMAIN v /\ CeilingOf(m, k) \in Int
        /\ v[k].ceiling = CeilingOf(m, k) /\ CeilingOf(m, k) > 0
        /\ Bids(v[k])
  <2> SUFFICES ASSUME NEW k \in Lines
               PROVE  /\ k \in Valued(m) /\ k \in DOMAIN v /\ CeilingOf(m, k) \in Int
                      /\ v[k].ceiling = CeilingOf(m, k) /\ CeilingOf(m, k) > 0
                      /\ Bids(v[k])
    OBVIOUS
  <2>1. k \in Valued(m) /\ k \in DOMAIN v /\ v[k] = Verdict(m, k)
    OBVIOUS
  <2>2. CeilingOf(m, k) \in Int /\ CeilingOf(m, k) > 0
    BY <2>1, CeilingsAreIntegers
  <2>3. k \in DOMAIN m.clears => 100 * m.clears[k] <= CeilingOf(m, k)
    OBVIOUS
  <2> HIDE DEF Lines
  <2> QED BY <2>1, <2>2, <2>3, WhatIsSkipped
<1>4. \A k \in DOMAIN v :
         Bids(v[k]) /\ v[k].ceiling > 1000
            => k \in Lines
  <2> SUFFICES ASSUME NEW k \in DOMAIN v, v[k].ceiling > 1000,
                      Bids(v[k])
               PROVE  k \in Lines
    OBVIOUS
  <2>1. k \in PathsOf(m.book) /\ v[k] = Verdict(m, k)
    OBVIOUS
  <2>2. k \in Valued(m)
    <3>1. Bids(Verdict(m, k))
      BY <2>1
    <3> HIDE DEF Lines, Line
    <3> QED BY <3>1, WhatIsUnvalued
  <2>3. /\ CeilingOf(m, k) > 1000
        /\ k \in DOMAIN m.clears => 100 * m.clears[k] <= CeilingOf(m, k)
    BY <2>1, <2>2, WhatIsSkipped
  <2> QED BY <2>1, <2>2, <2>3
<1> HIDE DEF Line, Lines
<1>5. ASSUME NEW line \in Upload(m)
      PROVE  /\ Bids(v[line.path])
             /\ 1000 * line.price <= v[line.path].ceiling + 500
             /\ v[line.path].ceiling <= 1000 * line.price + 500
  <2>1. PICK k \in Lines : line = Line(k)
    BY <1>1
  <2>2. line.path = k /\ line.price = Cents(CeilingOf(m, k))
    BY <1>2, <2>1
  <2>3. CeilingOf(m, k) \in Int /\ v[k].ceiling = CeilingOf(m, k) /\ Bids(v[k])
    BY <1>3
  <2>4. /\ 1000 * Cents(CeilingOf(m, k)) <= CeilingOf(m, k) + 500
        /\ CeilingOf(m, k) <= 1000 * Cents(CeilingOf(m, k)) + 500
    BY <2>3, NearestCent
  <2> QED BY <2>2, <2>3, <2>4
<1>6. ASSUME NEW k \in DOMAIN v, Bids(v[k]), v[k].ceiling > 1000
      PROVE  \E line \in Upload(m) : line.path = k
  <2>1. k \in Lines
    BY <1>4, <1>6
  <2>2. Line(k) \in Upload(m) /\ Line(k).path = k
    BY <1>1, <1>2, <2>1
  <2> QED BY <2>2
<1> QED BY <1>5, <1>6

-----------------------------------------------------------------------------
(* Lists.                                                                  *)

\* Every set of natural numbers has a least one.
LEMMA LeastNumber ==
    ASSUME NEW S \in SUBSET Nat, S # {}
    PROVE  \E n \in S : \A m \in S : n <= m
<1> DEFINE R == OpToRel(<, Nat)
<1>1. IsWellFoundedOn(R, Nat)
    BY NatLessThanWellFounded
<1>2. PICK n \in S : \A m \in S : <<m, n>> \notin R
  <2> HIDE DEF R
  <2> QED BY <1>1, WFMin
<1>3. ASSUME NEW m \in S PROVE n <= m
  <2>1. ~(m < n)
    BY <1>2 DEF OpToRel
  <2> QED BY <2>1
<1> QED BY <1>3

\* Induction up to a number, stated with a set.
LEMMA UptoInductive ==
    ASSUME NEW N \in Nat, NEW Q, 0 \in Q, \A n \in 0 .. N - 1 : n \in Q => n + 1 \in Q
    PROVE  0 .. N \subseteq Q
<1> SUFFICES ASSUME (0 .. N) \ Q # {} PROVE FALSE OBVIOUS
<1> DEFINE W == (0 .. N) \ Q
<1>0. W \in SUBSET Nat /\ W # {} OBVIOUS
<1>1. PICK n \in W : \A m \in W : n <= m
  <2> HIDE DEF W
  <2> QED BY <1>0, LeastNumber
<1>2. n # 0 OBVIOUS
<1>3. n - 1 \in Q /\ n - 1 \in 0 .. N - 1 BY <1>1, <1>2
<1>4. n \in Q BY <1>1, <1>3
<1> QED BY <1>1, <1>4

\* Every set of natural numbers with a bound has a greatest one.
LEMMA GreatestNumber ==
    ASSUME NEW S \in SUBSET Nat, S # {}, NEW b \in Nat, \A m \in S : m <= b
    PROVE  \E n \in S : \A m \in S : m <= n
<1> DEFINE R == {k \in Nat : \E m \in S : k = b - m}
<1>1. R \in SUBSET Nat /\ R # {}
  <2>1. PICK m \in S : TRUE
    OBVIOUS
  <2>2. m \in Nat /\ m <= b /\ b - m \in Nat
    OBVIOUS
  <2>3. b - m \in R
    BY <2>2
  <2> QED BY <2>3
<1>2. PICK k \in R : \A l \in R : k <= l
  <2> HIDE DEF R
  <2> QED BY <1>1, LeastNumber
<1>3. PICK n \in S : k = b - n
  OBVIOUS
<1>4. ASSUME NEW m \in S PROVE m <= n
  <2>1. b - m \in R
    OBVIOUS
  <2>2. k <= b - m
    BY <1>2, <2>1
  <2> QED BY <1>3, <2>2
<1> QED BY <1>4

\* What Among has kept of the first elements.
LEMMA AmongTyped ==
    ASSUME NEW T, NEW s \in Seq(T), NEW S
    PROVE  Among(s, S) \in Seq(S \cap T)
<1> DEFINE Is(g, N) == \A i \in N : g[i] = IF i = 0 THEN <<>>
                           ELSE IF s[i] \in S THEN Append(g[i - 1], s[i]) ELSE g[i - 1]
           Q == {n \in Nat : \E g \in [0 .. n -> Seq(S \cap T)] : Is(g, 0 .. n)}
<1>1. 0 \in Q
  <2> DEFINE g == [i \in 0 .. 0 |-> <<>>]
  <2>1. g \in [0 .. 0 -> Seq(S \cap T)] /\ Is(g, 0 .. 0)
    OBVIOUS
  <2> QED BY <2>1
<1>2. ASSUME NEW n \in 0 .. Len(s) - 1, n \in Q PROVE n + 1 \in Q
  <2>1. PICK g \in [0 .. n -> Seq(S \cap T)] : Is(g, 0 .. n)
    BY <1>2
  <2> DEFINE x == IF s[n + 1] \in S THEN Append(g[n], s[n + 1]) ELSE g[n]
             h == [i \in 0 .. n + 1 |-> IF i = n + 1 THEN x ELSE g[i]]
  <2>2. n + 1 \in 1 .. Len(s) /\ s[n + 1] \in T /\ n \in 0 .. n /\ g[n] \in Seq(S \cap T) /\ n + 1 # 0
    OBVIOUS
  <2>3. x \in Seq(S \cap T)
    BY <2>2
  <2> HIDE DEF x
  <2>4. h \in [0 .. n + 1 -> Seq(S \cap T)]
    BY <2>1, <2>3
  <2>5. h[n + 1] = x /\ h[n] = g[n] /\ \A i \in 0 .. n : h[i] = g[i]
    BY <2>2
  <2>6. ASSUME NEW i \in 0 .. n + 1
        PROVE  h[i] = IF i = 0 THEN <<>>
                      ELSE IF s[i] \in S THEN Append(h[i - 1], s[i]) ELSE h[i - 1]
    <3> HIDE DEF h
    <3>1. CASE i = n + 1
      <4>1. i - 1 = n /\ i # 0
        BY <3>1
      <4> QED BY <2>5, <3>1, <4>1, <2>2 DEF x
    <3>2. CASE i \in 0 .. n /\ i # 0
      <4>1. i - 1 \in 0 .. n
        BY <3>2
      <4> QED BY <2>1, <2>5, <3>2, <4>1
    <3>3. CASE i = 0
      BY <2>1, <2>5, <3>3
    <3> QED BY <3>1, <3>2, <3>3
  <2>7. Is(h, 0 .. n + 1)
    BY <2>6
  <2>8. n + 1 \in Nat
    OBVIOUS
  <2> HIDE DEF h, Is
  <2> QED BY <2>4, <2>7, <2>8
<1>3. Len(s) \in Nat
  OBVIOUS
<1>4. Len(s) \in Q
  <2> HIDE DEF Q
  <2>1. 0 .. Len(s) \subseteq Q
    BY <1>1, <1>2, <1>3, UptoInductive
  <2> QED BY <1>3, <2>1
<1>5. PICK g \in [0 .. Len(s) -> Seq(S \cap T)] : Is(g, 0 .. Len(s))
  BY <1>4
<1>6. g = [i \in 0 .. Len(s) |-> IF i = 0 THEN <<>>
                           ELSE IF s[i] \in S THEN Append(g[i - 1], s[i]) ELSE g[i - 1]]
  BY <1>5
<1> DEFINE kept == CHOOSE f : f = [i \in 0 .. Len(s) |-> IF i = 0 THEN <<>>
                           ELSE IF s[i] \in S THEN Append(f[i - 1], s[i]) ELSE f[i - 1]]
<1>7. kept = [i \in 0 .. Len(s) |-> IF i = 0 THEN <<>>
                           ELSE IF s[i] \in S THEN Append(kept[i - 1], s[i]) ELSE kept[i - 1]]
  BY <1>6
<1>8. Among(s, S) = kept[Len(s)]
  BY DEF Among
<1> HIDE DEF kept
<1> DEFINE P == {n \in Nat : n <= Len(s) => kept[n] \in Seq(S \cap T)}
<1>9. kept[0] = <<>> /\ 0 \in P
  <2>1. 0 \in 0 .. Len(s)
    BY <1>3
  <2>2. kept[0] = <<>>
    BY <1>7, <2>1
  <2> QED BY <2>2, SMTT(30)
<1>10. ASSUME NEW n \in 0 .. Len(s) - 1, n \in P PROVE n + 1 \in P
  <2>1. n + 1 \in 0 .. Len(s) /\ n + 1 # 0 /\ (n + 1) - 1 = n /\ n <= Len(s) /\ s[n + 1] \in T
    BY <1>3
  <2>2. kept[n + 1] = IF s[n + 1] \in S THEN Append(kept[n], s[n + 1]) ELSE kept[n]
    BY <1>7, <2>1
  <2>3. kept[n] \in Seq(S \cap T)
    BY <1>10, <2>1
  <2>4. s[n + 1] \in S => Append(kept[n], s[n + 1]) \in Seq(S \cap T)
    BY <2>1, <2>3
  <2>5. kept[n + 1] \in Seq(S \cap T)
    BY <2>2, <2>3, <2>4
  <2> QED BY <2>1, <2>5
<1>11. Len(s) \in P
  <2> HIDE DEF P
  <2>1. 0 .. Len(s) \subseteq P
    BY <1>3, <1>9, <1>10, UptoInductive
  <2> QED BY <1>3, <2>1
<1>12. kept[Len(s)] \in Seq(S \cap T)
  BY <1>3, <1>11
<1> QED BY <1>8, <1>12

\* The sum of integers is one.
LEMMA TotalTyped ==
    ASSUME NEW s \in Seq(Int)
    PROVE  Total(s) \in Int
<1> DEFINE Is(g, N) == \A i \in N : g[i] = IF i = 0 THEN 0 ELSE g[i - 1] + s[i]
           Q == {n \in Nat : n <= Len(s) => \E g \in [0 .. n -> Int] : Is(g, 0 .. n)}
<1>1. Len(s) \in Nat /\ \A i \in 1 .. Len(s) : s[i] \in Int
  OBVIOUS
<1>2. 0 \in Q
  <2> DEFINE g == [i \in 0 .. 0 |-> 0]
  <2>1. g \in [0 .. 0 -> Int] /\ Is(g, 0 .. 0)
    OBVIOUS
  <2> QED BY <2>1
<1>3. ASSUME NEW n \in 0 .. Len(s) - 1, n \in Q PROVE n + 1 \in Q
  <2>1. PICK g \in [0 .. n -> Int] : Is(g, 0 .. n)
    BY <1>1, <1>3, SMTT(30)
  <2> DEFINE h == [i \in 0 .. n + 1 |-> IF i = n + 1 THEN g[n] + s[n + 1] ELSE g[i]]
  <2>2. n + 1 \in 1 .. Len(s) /\ g[n] + s[n + 1] \in Int /\ n + 1 # 0
    BY <1>1
  <2>3. h \in [0 .. n + 1 -> Int]
    BY <2>2
  <2>4. h[n + 1] = g[n] + s[n + 1] /\ \A i \in 0 .. n : h[i] = g[i]
    BY <2>2
  <2>5. ASSUME NEW i \in 0 .. n + 1 PROVE h[i] = IF i = 0 THEN 0 ELSE h[i - 1] + s[i]
    <3> HIDE DEF h
    <3>1. CASE i = n + 1
      <4>1. i - 1 = n /\ i # 0 /\ n \in 0 .. n
        BY <3>1
      <4> QED BY <2>4, <3>1, <4>1
    <3>2. CASE i \in 0 .. n /\ i # 0
      <4>1. i - 1 \in 0 .. n
        BY <3>2
      <4> QED BY <2>1, <2>4, <3>2, <4>1
    <3>3. CASE i = 0
      BY <2>1, <2>4, <3>3
    <3> QED BY <3>1, <3>2, <3>3
  <2>6. Is(h, 0 .. n + 1) /\ n + 1 \in Nat
    <3> HIDE DEF h
    <3> QED BY <2>5
  <2> HIDE DEF h, Is
  <2> QED BY <2>3, <2>6
<1>4. Len(s) \in Q
  <2> HIDE DEF Q
  <2>1. 0 .. Len(s) \subseteq Q
    BY <1>1, <1>2, <1>3, UptoInductive
  <2> QED BY <1>1, <2>1
<1>5. PICK g \in [0 .. Len(s) -> Int] : Is(g, 0 .. Len(s))
  BY <1>1, <1>4
<1>6. g = [i \in 0 .. Len(s) |-> IF i = 0 THEN 0 ELSE g[i - 1] + s[i]]
  BY <1>5
<1> DEFINE sum == CHOOSE f : f = [i \in 0 .. Len(s) |-> IF i = 0 THEN 0 ELSE f[i - 1] + s[i]]
<1>7. sum = [i \in 0 .. Len(s) |-> IF i = 0 THEN 0 ELSE sum[i - 1] + s[i]]
  BY <1>6
<1>8. Total(s) = sum[Len(s)]
  BY DEF Total
<1> HIDE DEF sum
<1> DEFINE P == {n \in Nat : n <= Len(s) => sum[n] \in Int}
<1>9. 0 \in P
  <2>1. 0 \in 0 .. Len(s)
    BY <1>1
  <2> QED BY <1>7, <2>1
<1>10. ASSUME NEW n \in 0 .. Len(s) - 1, n \in P PROVE n + 1 \in P
  <2>1. n + 1 \in 0 .. Len(s) /\ n + 1 # 0 /\ (n + 1) - 1 = n /\ n <= Len(s) /\ s[n + 1] \in Int
    BY <1>1
  <2>2. sum[n + 1] = sum[n] + s[n + 1]
    BY <1>7, <2>1
  <2> QED BY <1>10, <2>1, <2>2
<1>11. Len(s) \in P
  <2> HIDE DEF P
  <2>1. 0 .. Len(s) \subseteq P
    BY <1>1, <1>9, <1>10, UptoInductive
  <2> QED BY <1>1, <2>1
<1>12. sum[Len(s)] \in Int
  BY <1>1, <1>11
<1> QED BY <1>8, <1>12

\* What Kth says of its value is true: there is one.
LEMMA KthIs ==
    ASSUME NEW D, IsFiniteSet(D), NEW f \in [D -> Int], NEW k \in 1 .. Cardinality(D)
    PROVE  /\ Kth(f, k) \in Int
           /\ Cardinality({i \in D : f[i] < Kth(f, k)}) < k
           /\ k <= Cardinality({i \in D : f[i] <= Kth(f, k)})
<1> DEFINE Below(x) == {i \in D : f[i] < x}
           Upto(x) == {i \in D : f[i] <= x}
           rank(i) == Cardinality(Upto(f[i]))
<1>1. Cardinality(D) \in Nat /\ D # {}
  BY FS_CardinalityType, FS_EmptySet
<1>2. \A x : IsFiniteSet(Below(x)) /\ IsFiniteSet(Upto(x))
  BY FS_Subset
<1>3. \A x : Cardinality(Below(x)) \in Nat /\ Cardinality(Upto(x)) \in Nat /\ Cardinality(Upto(x)) <= Cardinality(D)
  BY <1>2, FS_CardinalityType, FS_Subset
<1>r. \A i \in D : rank(i) \in Nat
  BY <1>3
<1>4. \A i, j \in D : f[i] < f[j] => rank(i) < rank(j)
  <2> SUFFICES ASSUME NEW i \in D, NEW j \in D, f[i] < f[j] PROVE rank(i) < rank(j)
    OBVIOUS
  <2>1. f[i] \in Int /\ f[j] \in Int
    OBVIOUS
  <2>2. Upto(f[i]) \in SUBSET Upto(f[j])
    BY <2>1
  <2>3. j \in Upto(f[j]) /\ j \notin Upto(f[i])
    BY <2>1
  <2>4. rank(i) \in Nat /\ rank(j) \in Nat
    BY <1>r
  <2> HIDE DEF Upto
  <2>5. Cardinality(Upto(f[i])) <= Cardinality(Upto(f[j])) /\ Cardinality(Upto(f[j])) # Cardinality(Upto(f[i]))
    BY <1>2, <2>2, <2>3, FS_Subset
  <2>6. rank(i) <= rank(j) /\ rank(i) # rank(j)
    BY <2>5
  <2> HIDE DEF rank
  <2> QED BY <2>4, <2>6
\* The greatest of a part of the values.
<1>5. ASSUME NEW E \in SUBSET D, E # {} PROVE \E j \in E : \A i \in E : f[i] <= f[j]
  <2> DEFINE R == {rank(i) : i \in E}
  <2>1. R \in SUBSET Nat /\ R # {} /\ \A r \in R : r <= Cardinality(D)
    BY <1>3, <1>5
  <2>2. PICK r \in R : \A q \in R : q <= r
    <3> HIDE DEF R
    <3> QED BY <1>1, <2>1, GreatestNumber
  <2>3. PICK j \in E : r = rank(j)
    OBVIOUS
  <2>4. ASSUME NEW i \in E PROVE f[i] <= f[j]
    <3>1. rank(i) <= rank(j)
      BY <2>2, <2>3
    <3>2. ~(rank(j) < rank(i))
      <4>1. rank(i) \in Nat /\ rank(j) \in Nat
        BY <1>r
      <4> HIDE DEF rank
      <4> QED BY <3>1, <4>1
    <3>3. ~(f[j] < f[i])
      BY <1>4, <3>2
    <3> QED BY <3>3
  <2> QED BY <2>4
<1>6. \E i \in D : k <= rank(i)
  <2>1. PICK j \in D : \A i \in D : f[i] <= f[j]
    BY <1>1, <1>5
  <2>2. Upto(f[j]) = D
    BY <2>1
  <2> QED BY <2>2
<1>7. PICK i \in D : k <= rank(i) /\ \A j \in D : k <= rank(j) => rank(i) <= rank(j)
  <2> DEFINE R == {r \in Nat : k <= r /\ \E j \in D : r = rank(j)}
  <2>1. R \in SUBSET Nat /\ R # {}
    BY <1>3, <1>6
  <2>2. PICK r \in R : \A q \in R : r <= q
    <3> HIDE DEF R
    <3> QED BY <2>1, LeastNumber
  <2>3. PICK j \in D : r = rank(j)
    OBVIOUS
  <2>4. ASSUME NEW l \in D, k <= rank(l) PROVE rank(j) <= rank(l)
    BY <1>3, <2>2, <2>3, <2>4
  <2> QED BY <2>2, <2>3, <2>4
<1>8. Cardinality(Below(f[i])) < k
  <2>n. k \in Nat /\ k > 0
    BY <1>1
  <2>t. Cardinality(Below(f[i])) \in Nat /\ k \in Nat /\ k > 0
    <3> HIDE DEF Below
    <3> QED BY <1>3, <2>n
  <2> SUFFICES ASSUME k <= Cardinality(Below(f[i])) PROVE FALSE
    <3> HIDE DEF Below
    <3> QED BY <2>t
  <2>1. Below(f[i]) # {}
    BY <2>t, FS_EmptySet
  <2>2. PICK j \in Below(f[i]) : \A l \in Below(f[i]) : f[l] <= f[j]
    BY <1>5, <2>1
  <2>3. j \in D /\ f[j] < f[i] /\ f[i] \in Int /\ f[j] \in Int
    OBVIOUS
  <2>4. Upto(f[j]) = Below(f[i])
    BY <2>2, <2>3
  <2>5. k <= rank(j) /\ rank(j) < rank(i)
    BY <1>4, <2>3, <2>4
  <2>6. rank(i) <= rank(j)
    BY <1>7, <2>3, <2>5
  <2>7. rank(i) \in Nat /\ rank(j) \in Nat
    BY <1>r, <2>3
  <2> HIDE DEF rank
  <2> QED BY <2>5, <2>6, <2>7
<1>9. f[i] \in {f[j] : j \in DOMAIN f} /\ DOMAIN f = D
  OBVIOUS
<1>10. \E x \in {f[j] : j \in DOMAIN f} :
          Cardinality({j \in DOMAIN f : f[j] < x}) < k /\ k <= Cardinality({j \in DOMAIN f : f[j] <= x})
  BY <1>7, <1>8, <1>9
<1>11. /\ Kth(f, k) \in {f[j] : j \in D}
       /\ Cardinality({j \in D : f[j] < Kth(f, k)}) < k
       /\ k <= Cardinality({j \in D : f[j] <= Kth(f, k)})
  BY <1>9, <1>10 DEF Kth
<1> QED BY <1>11

\* The same of the values of a sequence.
LEMMA KthInSeq ==
    ASSUME NEW s \in Seq(Int), NEW k \in 1 .. Len(s)
    PROVE  /\ Kth(s, k) \in Int
           /\ Cardinality({i \in DOMAIN s : s[i] < Kth(s, k)}) < k
           /\ k <= Cardinality({i \in DOMAIN s : s[i] <= Kth(s, k)})
<1>1. DOMAIN s = 1 .. Len(s) /\ s \in [1 .. Len(s) -> Int] /\ Len(s) \in Nat
  OBVIOUS
<1>2. IsFiniteSet(1 .. Len(s)) /\ Cardinality(1 .. Len(s)) = Len(s)
  <2>1. \A n \in Nat : IsFiniteSet(1 .. n) /\ Cardinality(1 .. n) = n
    BY FS_Interval
  <2> QED BY <1>1, <2>1
<1> QED BY <1>1, <1>2, KthIs

\* At least half of the values are no less than a price of at most the median.
LEMMA HalfAbove ==
    ASSUME NEW s \in Seq(Int), s # <<>>, NEW p \in Nat, p <= 6 * Median2(s)
    PROVE  2 * Cardinality({i \in DOMAIN s : 18 * s[i] >= p}) >= Len(s)
<1> DEFINE n == Len(s)
           lo == Kth(s, (n + 1) \div 2)
           hi == Kth(s, n \div 2 + 1)
           Less == {i \in 1 .. n : s[i] < hi}
           Above == {i \in 1 .. n : 18 * s[i] >= p}
<1>1. n \in Nat \ {0} /\ DOMAIN s = 1 .. n /\ \A i \in 1 .. n : s[i] \in Int
  OBVIOUS
<1>2. Cardinality(1 .. n) = n /\ IsFiniteSet(1 .. n)
  <2> HIDE DEF n
  <2> QED BY <1>1, FS_Interval
<1>3. (n + 1) \div 2 \in 1 .. n /\ n \div 2 + 1 \in 1 .. n /\ (n + 1) \div 2 <= n \div 2 + 1 /\ 2 * (n \div 2) <= n
  BY <1>1
<1>4. lo \in Int /\ Cardinality({i \in DOMAIN s : s[i] < lo}) < (n + 1) \div 2
  BY <1>3, KthInSeq
<1>5. /\ hi \in Int /\ Cardinality({i \in DOMAIN s : s[i] < hi}) < n \div 2 + 1
      /\ n \div 2 + 1 <= Cardinality({i \in DOMAIN s : s[i] <= hi})
  BY <1>3, KthInSeq
<1>6. Median2(s) = lo + hi
  BY <1>1, <1>2 DEF Median2
<1> HIDE DEF lo, hi
<1>7. lo <= hi
  <2> SUFFICES ASSUME hi < lo PROVE FALSE
    BY <1>4, <1>5
  <2> DEFINE A == {i \in DOMAIN s : s[i] <= hi}
             B == {i \in DOMAIN s : s[i] < lo}
  <2>1. A \in SUBSET B
    BY <1>1, <1>4, <1>5
  <2>2. IsFiniteSet(B)
    BY <1>1, <1>2, FS_Subset
  <2>3. Cardinality(A) <= Cardinality(B) /\ IsFiniteSet(A)
    <3> HIDE DEF A, B
    <3> QED BY <2>1, <2>2, FS_Subset
  <2>4. Cardinality(A) \in Nat /\ Cardinality(B) \in Nat
    <3> HIDE DEF A, B
    <3> QED BY <2>2, <2>3, FS_CardinalityType
  <2>5. Cardinality(B) < (n + 1) \div 2 /\ n \div 2 + 1 <= Cardinality(A)
    BY <1>4, <1>5
  <2> HIDE DEF A, B
  <2>6. (n + 1) \div 2 \in Nat /\ n \div 2 \in Nat
    BY <1>1
  <2> QED BY <1>3, <2>3, <2>4, <2>5, <2>6
<1>8. hi >= 0 /\ 18 * hi >= p
  BY <1>4, <1>5, <1>6, <1>7
<1>9. (1 .. n) \ Less \in SUBSET Above
  <2> SUFFICES ASSUME NEW i \in 1 .. n, ~(s[i] < hi) PROVE 18 * s[i] >= p
    OBVIOUS
  <2>1. s[i] \in Int /\ s[i] >= hi
    BY <1>1, <1>5
  <2> QED BY <1>5, <1>8, <2>1
<1>10. /\ IsFiniteSet(Less) /\ IsFiniteSet(Above)
       /\ Cardinality((1 .. n) \ Less) = n - Cardinality(Less)
       /\ Cardinality((1 .. n) \ Less) <= Cardinality(Above)
  <2>1. Less \in SUBSET (1 .. n) /\ Above \in SUBSET (1 .. n)
    OBVIOUS
  <2> HIDE DEF Less, Above
  <2>2. (1 .. n) \cap Less = Less
    BY <2>1
  <2>3. IsFiniteSet(Less) /\ IsFiniteSet(Above)
    BY <1>2, <2>1, FS_Subset
  <2>4. Cardinality((1 .. n) \ Less) = n - Cardinality(Less)
    <3> DEFINE N == 1 .. n
    <3>1. IsFiniteSet(N) /\ Cardinality(N) = n /\ N \cap Less = Less
      BY <1>2, <2>2
    <3> HIDE DEF N, n
    <3>2. Cardinality(N \ Less) = Cardinality(N) - Cardinality(N \cap Less)
      BY <3>1, FS_Difference
    <3> QED BY <3>1, <3>2 DEF N
  <2>5. Cardinality((1 .. n) \ Less) <= Cardinality(Above)
    BY <1>9, <2>3, FS_Subset
  <2> QED BY <2>3, <2>4, <2>5
<1>11. Cardinality(Less) \in Nat /\ Cardinality(Above) \in Nat
  <2> HIDE DEF Less, Above
  <2> QED BY <1>10, FS_CardinalityType
<1>12. Cardinality(Less) < n \div 2 + 1
  BY <1>1, <1>5
<1>13. Cardinality({i \in DOMAIN s : 18 * s[i] >= p}) = Cardinality(Above)
  BY <1>1
<1>14. 2 * Cardinality(Above) >= n
  <2>1. n \div 2 \in Nat
    BY <1>1
  <2> HIDE DEF Less, Above
  <2> QED BY <1>1, <1>3, <1>10, <1>11, <1>12, <2>1
<1> QED BY <1>13, <1>14

-----------------------------------------------------------------------------
(* The typical month.                                                      *)

IsPath(p) ==
    /\ \A ym \in DOMAIN p.month : p.month[ym].paid \in Int
    /\ p.seqs \in Seq([clear : Int, mw : Nat])

\* What a path paid in some months: integers.
LEMMA PaidTyped ==
    ASSUME NEW p, IsPath(p), NEW T, NEW months \in Seq(T), NEW least
    PROVE  Paid(p, months, least) \in Seq(Int)
<1> DEFINE S == {ym \in DOMAIN p.month : p.month[ym].hours >= least}
           priced == Among(months, S)
<1>1. priced \in Seq(S \cap T)
  <2> HIDE DEF S
  <2> QED BY AmongTyped
<1>2. Paid(p, months, least) = [i \in DOMAIN priced |-> p.month[priced[i]].paid]
  BY DEF Paid, Priced
<1> HIDE DEF priced
<1>3. DOMAIN priced = 1 .. Len(priced) /\ Len(priced) \in Nat
  BY <1>1
<1>4. \A i \in 1 .. Len(priced) : p.month[priced[i]].paid \in Int
  <2>1. \A i \in 1 .. Len(priced) : priced[i] \in DOMAIN p.month
    BY <1>1
  <2> QED BY <2>1 DEF IsPath
<1>5. [i \in 1 .. Len(priced) |-> p.month[priced[i]].paid] \in [1 .. Len(priced) -> Int]
  BY <1>4
<1>6. \A n \in Nat : \A f \in [1 .. n -> Int] : f \in Seq(Int)
  OBVIOUS
<1> QED BY <1>2, <1>3, <1>5, <1>6

\* The price base is no more than the median month.
LEMMA TypicalIsCapped ==
    ASSUME NEW fit \in Seq(Int), fit # <<>>, NEW tail, NEW target \in Seq(Int)
    PROVE  Typical(fit, tail, target) \in Int /\ Typical(fit, tail, target) <= 6 * Median2(fit)
<1>1. Len(fit) \in Nat \ {0} /\ DOMAIN fit = 1 .. Len(fit)
  OBVIOUS
<1>2. Cardinality(DOMAIN fit) = Len(fit)
  BY <1>1, FS_Interval
<1>3. Median2(fit) \in Int
  <2>1. (Len(fit) + 1) \div 2 \in 1 .. Len(fit) /\ Len(fit) \div 2 + 1 \in 1 .. Len(fit)
    BY <1>1
  <2>2. Kth(fit, (Len(fit) + 1) \div 2) \in Int /\ Kth(fit, Len(fit) \div 2 + 1) \in Int
    BY <2>1, KthInSeq
  <2>3. Median2(fit) = Kth(fit, (Len(fit) + 1) \div 2) + Kth(fit, Len(fit) \div 2 + 1)
    BY <1>2 DEF Median2
  <2> QED BY <2>2, <2>3
<1>4. Latest(fit, 3) \in Seq(Int)
  <2>1. (IF Len(fit) > 3 THEN Len(fit) - 3 + 1 ELSE 1) \in 1 .. Len(fit)
    BY <1>1
  <2>2. \A a \in 1 .. Len(fit) : SubSeq(fit, a, Len(fit)) \in Seq(Int)
    BY <1>1
  <2> QED BY <2>1, <2>2 DEF Latest
<1>5. Total(Latest(fit, 3)) \in Int
  BY <1>4, TotalTyped
<1>6. target # <<>> => (12 * Total(target)) \div Len(target) \in Int
  <2>1. target # <<>> => Len(target) \in Nat \ {0}
    OBVIOUS
  <2>2. Total(target) \in Int
    BY TotalTyped
  <2> QED BY <2>1, <2>2
<1> DEFINE recent == Total(Latest(fit, 3))
           past == (12 * Total(target)) \div Len(target)
<1> HIDE DEF recent, past
<1>7. Typical(fit, tail, target) =
        LET base == Least(6 * Median2(fit), Greatest(4 * recent, 0))
        IN  IF target = <<>> THEN base ELSE Least(base, Greatest(past, 0))
  BY DEF Typical, recent, past
<1> QED BY <1>3, <1>5, <1>6, <1>7, SMTT(30) DEF Least, Greatest, recent, past

\* The haircut takes less than all.
LEMMA TrimIsPart ==
    ASSUME NEW p, NEW months
    PROVE  Least(Trim(p, months), 75) \in 0 .. 55
BY DEF Trim, Least

\* The window of a month consists of months.
LEMMA WindowTyped ==
    ASSUME NEW target \in Int \X (1 .. 12)
    PROVE  /\ Window(target).fit \in Seq(Int \X Int) /\ Window(target).tail \in Seq(Int \X Int)
           /\ Window(target).target \in Seq(Int \X Int)
<1>1. \A k \in Int : Shift(target, k) \in Int \X Int
  BY DEF Shift
<1>2. [k \in 1 .. 10 |-> Shift(target, k - 14)] \in Seq(Int \X Int)
  <2>1. [k \in 1 .. 10 |-> Shift(target, k - 14)] \in [1 .. 10 -> Int \X Int]
    BY <1>1
  <2>2. \A T : \A n \in Nat : \A f \in [1 .. n -> T] : f \in Seq(T)
    OBVIOUS
  <2> QED BY <2>1, <2>2
<1>3. <<Shift(target, -24)>> \in Seq(Int \X Int)
  BY <1>1
<1>4. \A T : \A s, t \in Seq(T) : s \o t \in Seq(T)
  OBVIOUS
<1>5. <<Shift(target, -3), Shift(target, -2)>> \in Seq(Int \X Int)
      /\ <<Shift(target, -24), Shift(target, -12)>> \in Seq(Int \X Int)
  BY <1>1
<1> QED BY <1>2, <1>3, <1>4, <1>5 DEF Window

\* What a path's months are worth, whatever its tail.
THEOREM ValueIsFair ==
    ASSUME NEW fit \in Seq(Int), NEW tail, NEW aim \in Seq(Int),
           ValueMonths(fit, tail, aim) # NoValue
    PROVE  /\ ValueMonths(fit, tail, aim).typical \in Int
           /\ ValueMonths(fit, tail, aim).fading = (Trend(fit) \/ Collapsed(fit, tail))
           /\ ValueMonths(fit, tail, aim).typical >= 0 =>
                2 * Cardinality({i \in DOMAIN fit :
                        18 * fit[i] >= ValueMonths(fit, tail, aim).typical}) >= Len(fit)
           /\ \A other : ValueMonths(fit, other, aim).typical = ValueMonths(fit, tail, aim).typical
<1> DEFINE v == ValueMonths(fit, tail, aim)
<1>2. ~(Len(fit) < MIN_MONTHS)
  BY DEF ValueMonths
<1> DEFINE fading(other) == Trend(fit) \/ Collapsed(fit, other)
           beat(other) == Cardinality({i \in DOMAIN fit : 18 * fit[i] >= Typical(fit, other, aim)})
<1>3. \A other : ValueMonths(fit, other, aim) =
        [months |-> Len(fit), typical |-> Typical(fit, other, aim), median2 |-> Median2(fit),
         fading |-> fading(other), beat |-> beat(other)]
  BY <1>2 DEF ValueMonths
<1>4. \A other : Typical(fit, other, aim) = Typical(fit, tail, aim)
  BY DEF Typical
<1>5. fit # <<>>
  BY <1>2 DEF MIN_MONTHS
<1>6. Typical(fit, tail, aim) \in Int /\ Typical(fit, tail, aim) <= 6 * Median2(fit)
  BY <1>5, TypicalIsCapped
<1>7. Typical(fit, tail, aim) >= 0 =>
        2 * Cardinality({i \in DOMAIN fit : 18 * fit[i] >= Typical(fit, tail, aim)}) >= Len(fit)
  <2> DEFINE t == Typical(fit, tail, aim)
  <2>1. t >= 0 => t \in Nat
    BY <1>6
  <2> HIDE DEF t
  <2> QED BY <1>5, <1>6, <2>1, HalfAbove DEF t
<1>8. /\ v.typical = Typical(fit, tail, aim) /\ v.median2 = Median2(fit)
      /\ v.fading = (Trend(fit) \/ Collapsed(fit, tail))
      /\ \A other : ValueMonths(fit, other, aim).typical = v.typical
  <2> HIDE DEF fading, beat
  <2>1. \A other : ValueMonths(fit, other, aim).typical = Typical(fit, other, aim)
    BY <1>3
  <2>2. v.median2 = Median2(fit) /\ v.fading = fading(tail)
    BY <1>3
  <2> QED BY <1>4, <2>1, <2>2 DEF fading
<1> HIDE DEF v
<1>9. /\ v.typical \in Int
      /\ v.typical >= 0 =>
                    2 * Cardinality({i \in DOMAIN fit : 18 * fit[i] >= v.typical}) >= Len(fit)
  BY <1>6, <1>7, <1>8
<1> QED BY <1>8, <1>9 DEF v

\* A scan that does not drop a path prices it at its typical month.
LEMMA PricedFairly ==
    ASSUME NEW p, IsPath(p), NEW target \in Int \X (1 .. 12), NEW row,
           MarketValue(p, Window(target)) # NoValue,
           row.typical = MarketValue(p, Window(target)).typical,
           row.ceiling = row.typical * (100 - Least(Trim(p, Window(target).fit), 75)),
           row.ceiling >= 0,
           row.verdict = "kept" => ~MarketValue(p, Window(target)).fading
    PROVE  FairlyPriced(row, p, target)
<1> DEFINE fit == Paid(p, Window(target).fit, 100)
           late == Paid(p, Window(target).tail, 100)
           aim == Paid(p, Window(target).target, 100)
           v == ValueMonths(fit, late, aim)
           trim == Least(Trim(p, Window(target).fit), 75)
<1>1. MarketValue(p, Window(target)) = v
  BY DEF MarketValue
<1>t. fit \in Seq(Int) /\ aim \in Seq(Int)
  BY WindowTyped, PaidTyped
<1> HIDE DEF fit, aim, late
<1>2. /\ v.typical \in Int /\ v.fading = (Trend(fit) \/ Collapsed(fit, late))
      /\ v.typical >= 0 =>
           2 * Cardinality({i \in DOMAIN fit : 18 * fit[i] >= v.typical}) >= Len(fit)
      /\ \A other : ValueMonths(fit, other, aim).typical = v.typical
  BY <1>1, <1>t, ValueIsFair, ZenonT(60)
<1>3. trim \in 0 .. 55
  BY TrimIsPart
<1> HIDE DEF v, trim
<1>4. row.typical = v.typical /\ row.ceiling = v.typical * (100 - trim)
  BY <1>1 DEF trim
<1>5. v.typical >= 0 /\ v.typical * (100 - trim) <= 100 * v.typical
  <2> DEFINE t == v.typical
             u == 100 - trim
  <2>1. t \in Int /\ u \in 45 .. 100 /\ t * u >= 0
    BY <1>2, <1>3, <1>4
  <2> HIDE DEF t, u
  <2>2. t >= 0
    <3> SUFFICES ASSUME t < 0 PROVE FALSE
      BY <2>1
    <3>1. t * u <= t * 45
      <4>1. \A a \in Int, b, c \in Nat : a < 0 /\ b <= c => a * c <= a * b
        OBVIOUS
      <4> QED BY <2>1, <4>1
    <3> QED BY <2>1, <3>1
  <2>3. t * u <= t * 100
    <3>1. \A a, b, c \in Nat : b <= c => a * b <= a * c
      OBVIOUS
    <3> QED BY <2>1, <2>2, <3>1
  <2> QED BY <2>1, <2>2, <2>3 DEF t, u
<1>6. row.verdict = "kept" => ~Trend(fit)
  BY <1>1, <1>2
<1>7. 2 * Cardinality({i \in DOMAIN fit : 18 * fit[i] >= row.typical}) >= Len(fit)
  BY <1>2, <1>4, <1>5
<1>8. row.ceiling <= 100 * row.typical
  BY <1>4, <1>5
<1>9. \A tail : ValueMonths(fit, tail, aim).typical = row.typical
  BY <1>2, <1>4
<1> QED BY <1>6, <1>7, <1>8, <1>9 DEF FairlyPriced, fit, aim

\* The ceiling of a scan, whatever is trimmed off it.
LEMMA CeilingIsInteger ==
    ASSUME NEW p, IsPath(p), NEW target \in Int \X (1 .. 12),
           MarketValue(p, Window(target)) # NoValue
    PROVE  MarketValue(p, Window(target)).typical
                * (100 - Least(Trim(p, Window(target).fit), 75)) \in Int
<1> DEFINE trim == Least(Trim(p, Window(target).fit), 75)
<1>1. MarketValue(p, Window(target)).typical \in Int
  <2>1. /\ Paid(p, Window(target).fit, 100) \in Seq(Int)
        /\ Paid(p, Window(target).target, 100) \in Seq(Int)
    BY WindowTyped, PaidTyped
  <2> QED BY <2>1, ValueIsFair, ZenonT(60) DEF MarketValue
<1>2. trim \in 0 .. 55
  BY TrimIsPart
<1> HIDE DEF trim
<1> QED BY <1>1, <1>2 DEF trim

\* What market_scan keeps or puts aside.
LEMMA MarketIsFair ==
    ASSUME NEW p, IsPath(p), NEW target \in Int \X (1 .. 12)
    PROVE  FairlyPriced(MarketRow(p, target), p, target)
<1> DEFINE W == Window(target)
           v == MarketValue(p, W)
           ceiling == v.typical * (100 - Least(Trim(p, W.fit), 75))
           row == [verdict |-> IF v.fading THEN "faded" ELSE "kept", ceiling |-> ceiling,
                   typical |-> v.typical, median2 |-> v.median2]
<1>1. CASE MarketRow(p, target) = Dropped
  BY <1>1 DEF FairlyPriced, Dropped
<1>2. CASE MarketRow(p, target) # Dropped
  <2>1. v # NoValue /\ ~(ceiling < 12000) /\ MarketRow(p, target) = row
    BY <1>2 DEF MarketRow
  <2>2. ceiling \in Int
    BY <2>1, CeilingIsInteger
  <2>3. row.typical = v.typical /\ row.ceiling = ceiling /\ (row.verdict = "kept" => ~v.fading)
    <3> HIDE DEF v, ceiling
    <3> QED OBVIOUS
  <2>4. ceiling >= 0
    <3> HIDE DEF ceiling
    <3> QED BY <2>1, <2>2
  <2> HIDE DEF row
  <2>5. FairlyPriced(row, p, target)
    BY <2>1, <2>3, <2>4, PricedFairly
  <2> QED BY <2>1, <2>5
<1> QED BY <1>1, <1>2

\* What discover_paths keeps, next to what market_scan makes of the same path.
LEMMA DiscoverIsFair ==
    ASSUME NEW p, IsPath(p), NEW target \in Int \X (1 .. 12)
    PROVE  /\ FairlyPriced(DiscoverRow(p, target), p, target)
           /\ DiscoverRow(p, target).verdict = "kept" =>
                /\ MarketRow(p, target).verdict # "faded"
                /\ MarketRow(p, target).verdict = "kept" =>
                      MarketRow(p, target).typical = DiscoverRow(p, target).typical
<1> DEFINE W == Window(target)
           v == MarketValue(p, W)
           ceiling == v.typical * (100 - Least(Trim(p, W.fit), 75))
           row == [verdict |-> "kept", ceiling |-> ceiling,
                   typical |-> v.typical, median2 |-> v.median2]
           market == [verdict |-> IF v.fading THEN "faded" ELSE "kept", ceiling |-> ceiling,
                      typical |-> v.typical, median2 |-> v.median2]
<1>1. CASE DiscoverRow(p, target) = Dropped
  BY <1>1 DEF FairlyPriced, Dropped
<1>2. CASE DiscoverRow(p, target) # Dropped
  <2>1. v # NoValue /\ ~v.fading /\ ~(ceiling <= 6000) /\ DiscoverRow(p, target) = row
    BY <1>2 DEF DiscoverRow
  <2>2. ceiling \in Int
    BY <2>1, CeilingIsInteger
  <2>m. MarketRow(p, target) \in {Dropped, market}
    BY DEF MarketRow
  <2>3. row.typical = v.typical /\ row.ceiling = ceiling /\ row.verdict = "kept"
    <3> HIDE DEF v, ceiling
    <3> QED OBVIOUS
  <2>4. ceiling >= 0
    <3> HIDE DEF ceiling
    <3> QED BY <2>1, <2>2
  <2>5. market.verdict = "kept" /\ market.typical = v.typical
    <3> HIDE DEF v, ceiling
    <3> QED BY <2>1
  <2>6. Dropped.verdict = "dropped"
    BY DEF Dropped
  <2> HIDE DEF row, market, v
  <2>7. FairlyPriced(row, p, target)
    BY <2>1, <2>3, <2>4, PricedFairly DEF v
  <2> QED BY <2>1, <2>3, <2>5, <2>6, <2>7, <2>m
<1> QED BY <1>1, <1>2

-----------------------------------------------------------------------------
(* The strip, and the book that is marked on its values.                   *)

\* A value of the strip is an integer.
LEMMA StripValueTyped ==
    ASSUME NEW p, IsPath(p), NEW year \in Int, NEW m \in STRIP
    PROVE  StripValue(p, year, m) \in SUBSET Int
<1> DEFINE ss == Seasonal(year, m)
           paid == Paid(p, ss, 40)
<1>1. ss \in Seq(Int \X Int)
  <2> DEFINE S == {<<y, m>> : y \in {z \in {year - 2, year - 1} : 12 * z + m >= 12 * 2024 + 7}}
             both == <<<<year - 2, m>>, <<year - 1, m>>>>
  <2>1. both \in Seq(Int \X Int)
    BY DEF STRIP
  <2>2. ss = Among(both, S)
    BY DEF Seasonal
  <2> HIDE DEF S, both, ss
  <2>3. ss \in Seq(S \cap (Int \X Int))
    BY <2>1, <2>2, AmongTyped
  <2>4. \A T, U : \A s \in Seq(T \cap U) : s \in Seq(U)
    OBVIOUS
  <2> QED BY <2>3, <2>4
<1> HIDE DEF ss
<1>2. paid \in Seq(Int)
  BY <1>1, PaidTyped
<1> HIDE DEF paid
<1>3. StripValue(p, year, m) = IF ss = <<>> \/ Len(paid) < Len(ss) THEN {} ELSE {Min(ToSet(paid))}
  BY DEF StripValue, ss, paid
<1>4. ASSUME ~(ss = <<>> \/ Len(paid) < Len(ss)) PROVE Min(ToSet(paid)) \in Int
  <2>1. Len(paid) \in Nat \ {0} /\ DOMAIN paid = 1 .. Len(paid)
    <3>1. Len(ss) \in Nat \ {0} /\ Len(paid) \in Nat
      BY <1>1, <1>2, <1>4
    <3> QED BY <1>2, <1>4, <3>1
  <2> DEFINE low == Kth(paid, 1)
  <2>2. /\ low \in Int
        /\ Cardinality({i \in DOMAIN paid : paid[i] < low}) < 1
        /\ 1 <= Cardinality({i \in DOMAIN paid : paid[i] <= low})
    <3>1. 1 \in 1 .. Len(paid)
      BY <2>1
    <3> QED BY <1>2, <3>1, KthInSeq
  <2> DEFINE Less == {i \in DOMAIN paid : paid[i] < low}
             Upto == {i \in DOMAIN paid : paid[i] <= low}
  <2> HIDE DEF low
  <2>3. IsFiniteSet(Less) /\ IsFiniteSet(Upto)
    <3>1. Less \in SUBSET (1 .. Len(paid)) /\ Upto \in SUBSET (1 .. Len(paid)) /\ IsFiniteSet(1 .. Len(paid))
      BY <2>1, FS_Interval
    <3> HIDE DEF Less, Upto
    <3> QED BY <3>1, FS_Subset
  <2>4. Less = {} /\ Upto # {}
    <3> HIDE DEF Less, Upto
    <3>1. Cardinality(Less) \in Nat /\ Cardinality(Upto) \in Nat
      BY <2>3, FS_CardinalityType
    <3>2. Cardinality(Less) < 1 /\ 1 <= Cardinality(Upto)
      BY <2>2 DEF Less, Upto
    <3>3. Cardinality(Less) = 0 /\ Cardinality(Upto) # 0
      BY <3>1, <3>2
    <3> QED BY <2>3, <3>3, FS_EmptySet
  <2>5. PICK i \in DOMAIN paid : paid[i] <= low
    BY <2>4
  <2>6. \A j \in DOMAIN paid : paid[i] <= paid[j] /\ paid[j] \in Int
    BY <1>2, <2>1, <2>2, <2>4, <2>5
  <2>7. paid[i] \in ToSet(paid) /\ \A x \in ToSet(paid) : paid[i] <= x /\ x \in Int
    BY <2>5, <2>6 DEF ToSet
  <2> QED BY <2>7 DEF Min
<1> QED BY <1>3, <1>4

\* The sum over one month.
LEMMA SumOfOne ==
    ASSUME NEW m, NEW f, f[m] \in Int, DOMAIN f = {m}
    PROVE  SumFunction(f) = f[m]
<1> DEFINE Body(g) == [s \in SUBSET {m} |->
                IF s = {} THEN 0
                ELSE LET x == CHOOSE y \in s : TRUE IN f[x] + g[s \ {x}]]
           iter == CHOOSE g : g = Body(g)
           one == [s \in SUBSET {m} |-> IF s = {} THEN 0 ELSE f[m]]
<1>1. \A s \in SUBSET {m} : s # {} => s = {m} /\ (CHOOSE y \in s : TRUE) = m /\ s \ {m} = {}
  OBVIOUS
<1>2. one = Body(one)
  <2>1. one[{}] = 0
    OBVIOUS
  <2> HIDE DEF one
  <2>2. ASSUME NEW s \in SUBSET {m}
        PROVE  one[s] = IF s = {} THEN 0
                ELSE LET x == CHOOSE y \in s : TRUE IN f[x] + one[s \ {x}]
    BY <1>1, <2>1 DEF one
  <2>3. one = [s \in SUBSET {m} |-> one[s]]
    BY DEF one
  <2> QED BY <2>2, <2>3
<1>3. iter = Body(iter)
  <2> HIDE DEF one
  <2> QED BY <1>2, ZenonT(60)
<1>4. SumFunction(f) = iter[{m}]
  BY DEF SumFunction, SumFunctionOnSet, FoldFunctionOnSet, MapThenFoldSet
<1> HIDE DEF iter
<1>5. iter[{}] = 0
  BY <1>3
<1>6. iter[{m}] = f[m] + iter[{}]
  BY <1>1, <1>3
<1> QED BY <1>4, <1>5, <1>6

\* A row of the strip's sheet pays more than it cleared at and is marked at its value.
LEMMA StripIsMarked ==
    ASSUME NEW p, IsPath(p), NEW year \in Int, NEW m \in STRIP,
           NEW hours, hours[<<<<year, m>>, p.tou>>] \in Int,
           NEW row \in StripRow(p, year, m)
    PROVE  /\ 3 * row.clear < row.limit /\ row.limit <= 2 * row.value
           /\ BookMark(p, hours, year, m, m, 1).unpriced = 0
           /\ BookMark(p, hours, year, m, m, 1).worth = row.value * hours[<<<<year, m>>, p.tou>>]
<1> DEFINE clear == p.seqs[1].clear
           depth == FoldSeq(LAMBDA s, n : n + s.mw, 0, p.seqs) \div (2 * Len(p.seqs))
           Limit(x) == IF clear < 50 THEN Least(2 * x, Greatest(9 * clear, 30)) ELSE 2 * x
           size == Greatest(1, Least(25, depth))
           v == ValueMonths(Paid(p, StripFit(year), 40), Paid(p, StripTail(year), 40), <<>>)
           sold == {x \in StripValue(p, year, m) :
                          /\ ~v.fading
                          /\ x > 0 /\ clear >= 5 /\ x - clear >= 10
                          /\ Limit(x) > 3 * clear}
<1>1. /\ ~(Len(p.seqs) < 2)
      /\ row \in {[value |-> x, clear |-> clear, limit |-> Limit(x), mw |-> size] : x \in sold}
  BY DEF StripRow
<1>2. clear \in Int
  <2> DEFINE T == [clear : Int, mw : Nat]
  <2>1. p.seqs \in Seq(T)
    BY DEF IsPath
  <2> HIDE DEF T
  <2>2. \A U : \A q \in Seq(U) : ~(Len(q) < 2) => q[1] \in U
    OBVIOUS
  <2>3. p.seqs[1] \in T
    BY <1>1, <2>1, <2>2
  <2> QED BY <2>3 DEF T
<1> HIDE DEF clear, depth, v, size
<1>3. PICK x \in sold : row = [value |-> x, clear |-> clear, limit |-> Limit(x), mw |-> size]
  BY <1>1
<1>4. x \in StripValue(p, year, m) /\ Limit(x) > 3 * clear /\ x \in Int
  BY StripValueTyped
<1>5. row.value = x /\ row.clear = clear /\ row.limit = Limit(x)
  <2> HIDE DEF Limit
  <2> QED BY <1>3
<1>6. Limit(x) \in Int /\ Limit(x) <= 2 * x
  BY <1>2, <1>4 DEF Least, Greatest
<1>7. 3 * row.clear < row.limit /\ row.limit <= 2 * row.value
  <2> HIDE DEF Limit
  <2> QED BY <1>2, <1>4, <1>5, <1>6
<1>8. StripValue(p, year, m) = {x}
  BY <1>4 DEF StripValue
<1> DEFINE Value(k) == CHOOSE y \in StripValue(p, year, k) : TRUE
           months == {k \in STRIP : m <= k /\ k <= m}
           priced == {k \in months : StripValue(p, year, k) # {}}
           earned == [k \in priced |-> Value(k) * hours[<<<<year, k>>, p.tou>>] * 1]
<1>9. months = {m} /\ priced = {m} /\ months \ priced = {}
  <2>1. months = {m}
    BY DEF STRIP
  <2> HIDE DEF months
  <2> QED BY <1>8, <2>1
<1>10. Value(m) = x
  BY <1>8
<1>11. BookMark(p, hours, year, m, m, 1) =
         [worth |-> SumFunction(earned), unpriced |-> Cardinality(months \ priced)]
  BY DEF BookMark
<1> HIDE DEF Value
<1>12. DOMAIN earned = {m} /\ earned[m] = x * hours[<<<<year, m>>, p.tou>>] /\ earned[m] \in Int
  BY <1>4, <1>9, <1>10
<1> HIDE DEF earned, priced, months, sold
<1>13. SumFunction(earned) = x * hours[<<<<year, m>>, p.tou>>]
  BY <1>12, SumOfOne
<1>14. Cardinality(months \ priced) = 0
  BY <1>9, FS_EmptySet
<1>15. /\ BookMark(p, hours, year, m, m, 1).unpriced = 0
       /\ BookMark(p, hours, year, m, m, 1).worth = x * hours[<<<<year, m>>, p.tou>>]
  BY <1>11, <1>13, <1>14
<1> QED BY <1>5, <1>7, <1>15

-----------------------------------------------------------------------------
(* Nothing from the future: months.                                        *)

\* Both ways of counting months forward or back count them.
LEMMA MonthsAdd ==
    ASSUME NEW ym \in Int \X (1 .. 12), NEW n \in Int
    PROVE  /\ MonthAdd(ym, n) \in Int \X (1 .. 12) /\ Number(MonthAdd(ym, n)) = Number(ym) + n
           /\ Number(Shift(ym, n)) = Number(ym) + n
<1> DEFINE t == ym[1] * 12 + ym[2] - 1 + n
           q == t \div 12
           r == t % 12
<1>1. ym[1] \in Int /\ ym[2] \in 1 .. 12 /\ t \in Int
  OBVIOUS
<1>2. q \in Int /\ r \in 0 .. 11 /\ t = 12 * q + r
  <2> HIDE DEF t
  <2> QED BY <1>1
<1>3. MonthAdd(ym, n) = <<q, r + 1>>
  BY DEF MonthAdd
<1>4. Shift(ym, n) = <<q, r + 1>>
  <2>1. 12 * ym[1] + ym[2] - 1 + n = t
    BY <1>1
  <2> QED BY <2>1 DEF Shift
<1>5. Number(<<q, r + 1>>) = t + 1
  <2> HIDE DEF q, r, t
  <2> QED BY <1>2 DEF Number
<1>6. t + 1 = Number(ym) + n
  BY <1>1 DEF Number
<1> HIDE DEF q, r, t
<1> QED BY <1>2, <1>3, <1>4, <1>5, <1>6

\* The scans fit months that end four before delivery.
LEMMA FittedMonths ==
    ASSUME NEW target \in Int \X (1 .. 12), NEW i \in DOMAIN Window(target).fit
    PROVE  Number(Window(target).fit[i]) <= Number(target) - 4
<1> DEFINE late == [k \in 1 .. 10 |-> Shift(target, k - 14)]
           fit == <<Shift(target, -24)>> \o late
<1>1. Window(target).fit = fit
  BY DEF Window
<1>2. Number(target) \in Int
  BY DEF Number
<1>3. \A k \in 1 .. 10 : Number(late[k]) <= Number(target) - 4
  <2> SUFFICES ASSUME NEW k \in 1 .. 10 PROVE Number(late[k]) <= Number(target) - 4
    OBVIOUS
  <2>1. k - 14 \in Int /\ late[k] = Shift(target, k - 14)
    OBVIOUS
  <2>2. Number(Shift(target, k - 14)) = Number(target) + (k - 14)
    BY <2>1, MonthsAdd
  <2> HIDE DEF late
  <2> QED BY <1>2, <2>1, <2>2
<1>4. Number(Shift(target, -24)) = Number(target) - 24
  BY MonthsAdd, <1>2
<1>5. DOMAIN fit = 1 .. 11 /\ fit[1] = Shift(target, -24) /\ \A k \in 2 .. 11 : fit[k] = late[k - 1]
  <2>1. \A T : \A n \in Nat : \A f \in [1 .. n -> T] : f \in Seq(T) /\ Len(f) = n
    OBVIOUS
  <2>2. late \in [1 .. 10 -> {Shift(target, k - 14) : k \in 1 .. 10}]
    OBVIOUS
  <2>3. late \in Seq({Shift(target, k - 14) : k \in 1 .. 10}) /\ Len(late) = 10
    BY <2>1, <2>2
  <2>4. \A T : \A x \in T : \A s \in Seq(T) :
          /\ DOMAIN (<<x>> \o s) = 1 .. (1 + Len(s)) /\ (<<x>> \o s)[1] = x
          /\ \A k \in 2 .. 1 + Len(s) : (<<x>> \o s)[k] = s[k - 1]
    OBVIOUS
  <2> DEFINE T == {Shift(target, k - 14) : k \in 1 .. 10} \cup {Shift(target, -24)}
             x == Shift(target, -24)
  <2>5. x \in T /\ late \in Seq(T)
    <3>1. late \in [1 .. 10 -> T]
      OBVIOUS
    <3> QED BY <2>1, <3>1
  <2> HIDE DEF T, late, x
  <2>6. /\ DOMAIN (<<x>> \o late) = 1 .. (1 + Len(late)) /\ (<<x>> \o late)[1] = x
        /\ \A k \in 2 .. 1 + Len(late) : (<<x>> \o late)[k] = late[k - 1]
    BY <2>4, <2>5
  <2> QED BY <2>3, <2>6, SMTT(30) DEF x
<1> HIDE DEF fit, late
<1>6. i \in 1 .. 11
  BY <1>1, <1>5
<1>7. CASE i = 1
  BY <1>1, <1>2, <1>4, <1>5, <1>7
<1>8. CASE i \in 2 .. 11
  <2>1. i - 1 \in 1 .. 10 /\ fit[i] = late[i - 1]
    BY <1>5, <1>8
  <2> QED BY <1>1, <1>3, <2>1
<1> QED BY <1>6, <1>7, <1>8

\* The walk ends before its last month, and a fold takes the same hours whatever
\* the flags are in its other test hours.
LEMMA FoldsArePast ==
    ASSUME NEW from \in Int \X (1 .. 12), NEW to \in Int \X (1 .. 12),
           NEW f \in WalkFolds(from, to), NEW hours, NEW h \in hours, NEW flags
    PROVE  LET known == {x \in DOMAIN flags : x[1] < Number(f.train) \/ x = h}
           IN  /\ Number(f.test) + 1 <= Number(to)
               /\ h \in FoldHours(hours, flags, f)
                    <=> h \in FoldHours(hours, Restrict(flags, known), f)
<1> DEFINE known == {x \in DOMAIN flags : x[1] < Number(f.train) \/ x = h}
           only == Restrict(flags, known)
           In(x, lo, hi) == Number(lo) <= x[1] /\ x[1] < Number(hi)
           Flagged(g) == {x \in DOMAIN g : In(x, f.start, f.train)}
           trained == {x \in hours : In(x, f.start, f.train)}
<1>1. Number(f.test) + 1 <= Number(to)
  <2> DEFINE holdout == MonthAdd(to, -1)
             start == MonthAdd(from, 1)
  <2>1. PICK k \in TRAIN_MIN_MONTHS .. Number(to) - Number(from) :
           /\ f = [start |-> start, train |-> MonthAdd(start, k), test |-> MonthAdd(start, k + 2)]
           /\ Number(MonthAdd(start, k + STEP_MONTHS)) <= Number(holdout)
    BY DEF WalkFolds
  <2>2. Number(to) \in Int /\ Number(from) \in Int
    BY DEF Number
  <2>3. k \in Int
    BY <2>2 DEF TRAIN_MIN_MONTHS
  <2>4. start \in Int \X (1 .. 12)
    <3>1. 1 \in Int
      OBVIOUS
    <3>2. \A n \in Int : MonthAdd(from, n) \in Int \X (1 .. 12)
      BY MonthsAdd
    <3> QED BY <3>1, <3>2
  <2>5. Number(holdout) = Number(to) - 1
    BY <2>2, MonthsAdd
  <2> HIDE DEF holdout, start
  <2>6. Number(MonthAdd(start, k + 2)) = Number(start) + (k + 2) /\ Number(start) \in Int
    <3>1. k + 2 \in Int
      BY <2>3
    <3>2. Number(start) \in Int
      BY <2>4 DEF Number
    <3> QED BY <2>4, <3>1, <3>2, MonthsAdd
  <2>7. f.test = MonthAdd(start, k + 2)
    BY <2>1
  <2> QED BY <2>1, <2>2, <2>3, <2>5, <2>6, <2>7 DEF STEP_MONTHS
<1>2. DOMAIN only = known /\ \A x \in known : only[x] = flags[x]
  BY DEF Restrict
<1>3. Flagged(only) = Flagged(flags)
  <2> HIDE DEF only
  <2> QED BY <1>2
<1>4. Restrict(only, Flagged(only)) = Restrict(flags, Flagged(flags))
  <2>1. \A x \in Flagged(only) : x \in known
    BY <1>2
  <2> HIDE DEF only, known, Flagged
  <2> QED BY <1>2, <1>3, <2>1 DEF Restrict
<1>5. \A g : FoldHours(hours, g, f) =
         IF Flagged(g) = {} \/ 5 * Cardinality(Flagged(g)) >= Cardinality(trained) THEN {}
         ELSE {x \in hours \cap DOMAIN g :
                 In(x, f.train, f.test) /\ 2 * g[x] >= Median2(Restrict(g, Flagged(g)))}
  BY Zenon DEF FoldHours
<1>6. h \in DOMAIN flags <=> h \in DOMAIN only
  <2> HIDE DEF only
  <2> QED BY <1>2
<1>7. h \in DOMAIN flags => only[h] = flags[h]
  <2> HIDE DEF only
  <2> QED BY <1>2
<1> DEFINE Rare(g) == Flagged(g) = {} \/ 5 * Cardinality(Flagged(g)) >= Cardinality(trained)
           Half(g) == Median2(Restrict(g, Flagged(g)))
<1>8. Rare(only) <=> Rare(flags)
  <2> HIDE DEF only, Flagged, trained
  <2> QED BY <1>3
<1>9. Half(only) = Half(flags)
  BY <1>4
<1>10. \A g : h \in FoldHours(hours, g, f) <=>
          /\ ~Rare(g) /\ h \in DOMAIN g
          /\ In(h, f.train, f.test) /\ 2 * g[h] >= Half(g)
  <2> HIDE DEF Flagged, trained, In
  <2> QED BY <1>5
<1> HIDE DEF Rare, Half, In, only
<1>11. h \in FoldHours(hours, flags, f) <=> h \in FoldHours(hours, only, f)
  BY <1>6, <1>7, <1>8, <1>9, <1>10
<1> QED BY <1>1, <1>11 DEF only

\* A path of the hub walk is picked alike whatever is known of later months.
LEMMA PickedOnThePast ==
    ASSUME NEW month \in Int \X (1 .. 12), NEW p,
           NEW q, q.auction = Restrict(p.auction, {b \in DOMAIN p.auction : Number(b) < Number(month)}),
           q.paid = Restrict(p.paid, {b \in DOMAIN p.paid : Number(b) < Number(month) - 1})
    PROVE  HubPicked(p, month) <=> HubPicked(q, month)
<1> DEFINE settled == {b \in DOMAIN p.paid : Number(b) < Number(month) - 1}
           cleared == {b \in DOMAIN p.auction : Number(b) < Number(month)}
           Basis1(x) == {b \in HubBasis(month) \cap DOMAIN x.auction : x.auction[b].mw > 0}
           Mw(x) == [b \in Basis1(x) |-> x.auction[b].mw]
           Clears(x) == [b \in Basis1(x) |-> x.auction[b].clear]
           fade == MonthAdd(month, -2)
<1>0. Number(month) \in Int
  BY DEF Number
<1>1. \A b \in HubBasis(month) : Number(b) < Number(month)
  <2> SUFFICES ASSUME NEW k \in 1 .. 3 PROVE Number(MonthAdd(month, -k)) < Number(month)
    BY DEF HubBasis
  <2>1. -k \in Int
    OBVIOUS
  <2> QED BY <1>0, <2>1, MonthsAdd
<1>2. \A b \in HubFit(month) : Number(b) < Number(month) - 1
  <2> SUFFICES ASSUME NEW k \in 1 .. 11 PROVE Number(MonthAdd(month, k - 13)) < Number(month) - 1
    BY DEF HubFit
  <2>1. k - 13 \in Int
    OBVIOUS
  <2> QED BY <1>0, <2>1, MonthsAdd
<1>3. Number(fade) < Number(month) - 1
  BY <1>0, MonthsAdd
<1>4. DOMAIN q.auction = cleared /\ \A b \in cleared : q.auction[b] = p.auction[b]
  BY DEF Restrict
<1>5. DOMAIN q.paid = settled /\ \A b \in settled : q.paid[b] = p.paid[b]
  BY DEF Restrict
<1>6. Basis1(q) = Basis1(p) /\ Basis1(p) \subseteq cleared
  BY <1>1, <1>4
<1>7. Mw(q) = Mw(p) /\ Clears(q) = Clears(p)
  <2> HIDE DEF cleared, Basis1
  <2> QED BY <1>4, <1>6
<1>8. HubPaid(q, month) = HubPaid(p, month)
  <2> DEFINE fit == HubFit(month) \cap DOMAIN q.paid
  <2>1. fit = HubFit(month) \cap DOMAIN p.paid /\ fit \subseteq settled
    BY <1>2, <1>5
  <2>2. \A x : HubPaid(x, month) = [b \in HubFit(month) \cap DOMAIN x.paid |-> x.paid[b]]
    BY DEF HubPaid, Restrict
  <2> HIDE DEF fit, settled
  <2>3. [b \in fit |-> q.paid[b]] = [b \in fit |-> p.paid[b]]
    BY <1>5, <2>1
  <2>4. HubPaid(q, month) = [b \in fit |-> q.paid[b]]
    BY <2>2 DEF fit
  <2>5. HubPaid(p, month) = [b \in fit |-> p.paid[b]]
    BY <2>1, <2>2
  <2> QED BY <2>3, <2>4, <2>5
<1>9. /\ fade \in DOMAIN p.paid <=> fade \in DOMAIN q.paid
      /\ fade \in DOMAIN p.paid => p.paid[fade] = q.paid[fade]
  <2> HIDE DEF fade
  <2> QED BY <1>3, <1>5
<1> DEFINE N(x) == Cardinality(Basis1(x))
           paid(x) == HubPaid(x, month)
           Good(x) == /\ N(x) >= 2 /\ SumFunction(Mw(x)) >= 2 * N(x)
                      /\ Cardinality(DOMAIN paid(x)) >= 8
                      /\ Median2(paid(x)) * N(x) >= 4 * SumFunction(Clears(x))
                      /\ SumFunction(Clears(x)) >= 2 * N(x)
                      /\ Cardinality({b \in DOMAIN paid(x) : paid(x)[b] > 0}) >= 7
           Fades(x) == fade \in DOMAIN x.paid /\ 8 * x.paid[fade] >= Median2(paid(x))
<1>10. \A x : HubPicked(x, month) <=> Good(x) /\ Fades(x)
  BY Zenon DEF HubPicked
<1>11. Good(q) <=> Good(p)
  <2>1. N(q) = N(p)
    BY <1>6
  <2> HIDE DEF N, Mw, Clears
  <2> QED BY <1>7, <1>8, <2>1
<1>12. Fades(q) <=> Fades(p)
  <2> HIDE DEF fade
  <2> QED BY <1>8, <1>9
<1> HIDE DEF Good, Fades
<1> QED BY <1>10, <1>11, <1>12

-----------------------------------------------------------------------------
(* Nothing from the future: the backtest.                                  *)

\* Sorted by keys that differ, the element at i is the one that i elements, itself
\* among them, do not follow, and every element has its place.
LEMMA InOrderIs ==
    ASSUME NEW S, IsFiniteSet(S), NEW key, \A x \in S : key[x] \in Int,
           \A x, y \in S : key[x] = key[y] => x = y
    PROVE  /\ Cardinality(S) \in Nat
           /\ InOrder(S, key) \in [1 .. Cardinality(S) -> S]
           /\ \A i \in 1 .. Cardinality(S) :
                 Cardinality({y \in S : key[y] <= key[InOrder(S, key)[i]]}) = i
           /\ \A x \in S : LET i == Cardinality({y \in S : key[y] <= key[x]})
                           IN  i \in 1 .. Cardinality(S) /\ InOrder(S, key)[i] = x
<1> DEFINE Upto(x) == {y \in S : key[y] <= key[x]}
           n == Cardinality(S)
           rank == [x \in S |-> Cardinality(Upto(x))]
<1>1. n \in Nat
  BY FS_CardinalityType
<1>2. \A x \in S : Upto(x) \in SUBSET S /\ x \in Upto(x)
  OBVIOUS
<1>3. \A x \in S : IsFiniteSet(Upto(x)) /\ Cardinality(Upto(x)) \in Nat /\ Cardinality(Upto(x)) <= n
  <2> HIDE DEF Upto
  <2> QED BY <1>2, FS_Subset, FS_CardinalityType
<1>4. \A x \in S : Cardinality(Upto(x)) # 0
  <2> HIDE DEF Upto
  <2> QED BY <1>2, <1>3, FS_EmptySet
<1>5. \A x \in S : rank[x] \in 1 .. n
  <2> HIDE DEF Upto
  <2> QED BY <1>1, <1>3, <1>4
<1>6. \A x, y \in S : key[x] < key[y] => rank[x] < rank[y]
  <2> SUFFICES ASSUME NEW x \in S, NEW y \in S, key[x] < key[y] PROVE rank[x] < rank[y]
    OBVIOUS
  <2>1. Upto(x) \in SUBSET Upto(y) /\ y \notin Upto(x)
    OBVIOUS
  <2>2. rank[x] = Cardinality(Upto(x)) /\ rank[y] = Cardinality(Upto(y))
    OBVIOUS
  <2> HIDE DEF Upto, rank
  <2>3. Cardinality(Upto(x)) <= Cardinality(Upto(y)) /\ Cardinality(Upto(y)) # Cardinality(Upto(x))
    BY <1>2, <1>3, <2>1, FS_Subset
  <2> QED BY <1>3, <2>2, <2>3
<1>7. \A x, y \in S : rank[x] = rank[y] => x = y
  <2> SUFFICES ASSUME NEW x \in S, NEW y \in S, rank[x] = rank[y], x # y PROVE FALSE
    OBVIOUS
  <2>1. rank[x] \in Int
    BY <1>1, <1>5
  <2>2. ~(rank[x] < rank[y]) /\ ~(rank[y] < rank[x])
    <3> HIDE DEF rank
    <3> QED BY <2>1
  <2>3. ~(key[x] < key[y]) /\ ~(key[y] < key[x])
    <3> HIDE DEF rank
    <3> QED BY <1>6, <2>2
  <2> QED BY <2>3
<1>8. rank \in Surjection(S, 1 .. n)
  <2>1. rank \in [S -> 1 .. n]
    <3>1. rank = [x \in S |-> rank[x]]
      OBVIOUS
    <3> HIDE DEF rank, n
    <3> QED BY <1>5, <3>1
  <2>2. rank \in Injection(S, 1 .. n)
    <3> HIDE DEF rank, n
    <3> QED BY <1>7, <2>1 DEF Injection, IsInjective
  <2>3. IsFiniteSet(1 .. n) /\ Cardinality(1 .. n) = n
    <3> HIDE DEF n
    <3> QED BY <1>1, FS_Interval
  <2>4. Cardinality(S) = Cardinality(1 .. n)
    BY <2>3
  <2> HIDE DEF rank, n
  <2> QED BY <2>2, <2>3, <2>4, FS_Injection
<1>9. \A i \in 1 .. n : \E x \in S : rank[x] = i
  <2> HIDE DEF rank, n
  <2> QED BY <1>8 DEF Surjection
<1>10. InOrder(S, key) = [i \in 1 .. n |-> CHOOSE x \in S : rank[x] = i]
  <2> DEFINE one(i) == CHOOSE x \in S : Cardinality({y \in S : key[y] <= key[x]}) = i
             two(i) == CHOOSE x \in S : rank[x] = i
  <2>1. ASSUME NEW i PROVE one(i) = two(i)
    <3>1. \A x \in S : Cardinality({y \in S : key[y] <= key[x]}) = i <=> rank[x] = i
      OBVIOUS
    <3> HIDE DEF rank
    <3> QED BY <3>1
  <2>2. InOrder(S, key) = [i \in 1 .. n |-> one(i)]
    BY DEF InOrder
  <2> HIDE DEF one, n
  <2>3. InOrder(S, key) = [i \in 1 .. n |-> two(i)]
    <3> HIDE DEF two
    <3> QED BY <2>1, <2>2
  <2> QED BY <2>3
<1>11. \A x \in S : rank[x] = Cardinality({y \in S : key[y] <= key[x]})
  OBVIOUS
<1> HIDE DEF rank, n
<1>12. InOrder(S, key) \in [1 .. n -> S] /\ \A i \in 1 .. n : rank[InOrder(S, key)[i]] = i
  BY <1>9, <1>10
<1>13. \A x \in S : rank[x] \in 1 .. n /\ InOrder(S, key)[rank[x]] = x
  <2> SUFFICES ASSUME NEW x \in S PROVE InOrder(S, key)[rank[x]] = x
    BY <1>5
  <2>1. InOrder(S, key)[rank[x]] \in S /\ rank[InOrder(S, key)[rank[x]]] = rank[x]
    BY <1>5, <1>12
  <2> QED BY <1>7, <2>1
<1>14. \A i \in 1 .. n : Cardinality({y \in S : key[y] <= key[InOrder(S, key)[i]]}) = i
  <2> SUFFICES ASSUME NEW i \in 1 .. n
               PROVE  Cardinality({y \in S : key[y] <= key[InOrder(S, key)[i]]}) = i
    OBVIOUS
  <2>1. InOrder(S, key)[i] \in S /\ rank[InOrder(S, key)[i]] = i
    BY <1>12
  <2> QED BY <1>11, <2>1
<1>15. \A x \in S : LET i == Cardinality({y \in S : key[y] <= key[x]})
                    IN  i \in 1 .. n /\ InOrder(S, key)[i] = x
  <2> SUFFICES ASSUME NEW x \in S
               PROVE  LET i == Cardinality({y \in S : key[y] <= key[x]})
                      IN  i \in 1 .. n /\ InOrder(S, key)[i] = x
    OBVIOUS
  <2>1. Cardinality({y \in S : key[y] <= key[x]}) = rank[x]
    BY <1>11
  <2> QED BY <1>13, <2>1
<1> QED BY <1>1, <1>12, <1>14, <1>15 DEF n

\* The rows of a history: at integer times, and one at each.
IsHistory(S) ==
    /\ IsFiniteSet(S)
    /\ \A r \in S : r.at \in Int
    /\ \A r, s \in S : r.at = s.at => r = s

\* Those before a time.
Before(S, t) == {r \in S : r.at < t}

\* A history in order: the rows before a time are its first ones, in the order they
\* have without the later ones.
LEMMA FirstOnes ==
    ASSUME NEW S, IsHistory(S), NEW t \in Int
    PROVE  /\ ByTime(S) \in Seq(S) /\ Len(ByTime(S)) = Cardinality(S)
           /\ IsHistory(Before(S, t)) /\ Cardinality(Before(S, t)) \in 0 .. Cardinality(S)
           /\ Cardinality(S) \in Nat
           /\ \A j \in 1 .. Cardinality(S) : ByTime(S)[j].at < t <=> j <= Cardinality(Before(S, t))
           /\ \A j \in 1 .. Cardinality(Before(S, t)) : ByTime(Before(S, t))[j] = ByTime(S)[j]
<1> DEFINE P == Before(S, t)
           at == [r \in S |-> r.at]
           atP == [r \in P |-> r.at]
           n == Cardinality(S)
           c == Cardinality(P)
           s == InOrder(S, at)
           p == InOrder(P, atP)
<1>1. P \in SUBSET S /\ \A r \in S : r \in P <=> r.at < t
  BY DEF Before
<1>2. IsHistory(P)
  <2> HIDE DEF P
  <2> QED BY <1>1, FS_Subset DEF IsHistory
<1>3. c \in Nat /\ c <= n /\ n \in Nat
  <2> HIDE DEF P
  <2> QED BY <1>1, <1>2, FS_Subset, FS_CardinalityType DEF IsHistory
<1>4. \A r \in S : at[r] = r.at
  OBVIOUS
<1>5. \A r \in P : atP[r] = r.at
  OBVIOUS
<1>6. ByTime(S) = s /\ ByTime(P) = p
  BY DEF ByTime
<1> HIDE DEF P, at, atP, n, c
<1>7. /\ s \in [1 .. n -> S]
      /\ \A j \in 1 .. n : Cardinality({y \in S : at[y] <= at[s[j]]}) = j
  BY <1>4, InOrderIs DEF IsHistory, n
<1>8. \A x \in P : LET i == Cardinality({y \in P : atP[y] <= atP[x]}) IN p[i] = x
  BY <1>2, <1>5, InOrderIs DEF IsHistory
<1> HIDE DEF s, p
<1>9. s \in Seq(S) /\ Len(s) = n
  <2>1. \A T : \A k \in Nat : \A f \in [1 .. k -> T] : f \in Seq(T) /\ Len(f) = k
    OBVIOUS
  <2> QED BY <1>3, <1>7, <2>1
<1>10. \A j \in 1 .. n : s[j] \in S /\ s[j].at \in Int /\ at[s[j]] = s[j].at
  BY <1>4, <1>7 DEF IsHistory
<1>11. ASSUME NEW j \in 1 .. n PROVE s[j].at < t <=> j <= c
  <2> DEFINE U == {y \in S : at[y] <= at[s[j]]}
  <2>1. Cardinality(U) = j /\ s[j] \in U /\ U \in SUBSET S
    BY <1>7, <1>10
  <2>2. IsFiniteSet(U) /\ IsFiniteSet(P)
    <3> HIDE DEF U
    <3> QED BY <1>2, <2>1, FS_Subset DEF IsHistory
  <2>3. ASSUME s[j].at < t PROVE j <= c
    <3>1. U \in SUBSET P
      <4> SUFFICES ASSUME NEW y \in U PROVE y.at < t
        BY <1>1
      <4>1. y \in S /\ y.at <= s[j].at /\ y.at \in Int
        BY <1>4, <1>10 DEF IsHistory
      <4> QED BY <1>10, <2>3, <4>1
    <3> HIDE DEF U
    <3> QED BY <2>1, <2>2, <3>1, FS_Subset DEF c
  <2>4. ASSUME ~(s[j].at < t) PROVE ~(j <= c)
    <3>1. P \in SUBSET U
      <4> SUFFICES ASSUME NEW y \in P PROVE y.at <= s[j].at
        BY <1>1, <1>4, <1>10
      <4>1. y.at \in Int /\ y.at < t
        BY <1>1 DEF IsHistory
      <4> QED BY <1>10, <2>4, <4>1
    <3>2. s[j] \notin P
      BY <1>1, <2>4
    <3> HIDE DEF U
    <3>3. c <= j /\ c # j
      BY <2>1, <2>2, <3>1, <3>2, FS_Subset DEF c
    <3> QED BY <1>3, <3>3
  <2> QED BY <2>3, <2>4
<1>12. ASSUME NEW j \in 1 .. c PROVE p[j] = s[j]
  <2>1. j \in 1 .. n
    BY <1>3
  <2>2. s[j].at < t /\ s[j] \in P
    BY <1>1, <1>10, <1>11, <2>1
  <2>3. {y \in P : atP[y] <= atP[s[j]]} = {y \in S : at[y] <= at[s[j]]}
    <3> DEFINE A == {y \in P : y.at <= s[j].at}
               B == {y \in S : y.at <= s[j].at}
    <3>1. {y \in P : atP[y] <= atP[s[j]]} = A
      BY <1>5, <2>2
    <3>2. {y \in S : at[y] <= at[s[j]]} = B
      BY <1>4, <1>10, <2>1
    <3>3. A = B
      <4> SUFFICES ASSUME NEW y \in S, y.at <= s[j].at PROVE y \in P
        BY <1>1
      <4>1. y.at \in Int /\ s[j].at \in Int
        BY <1>10, <2>1 DEF IsHistory
      <4> QED BY <1>1, <2>2, <4>1
    <3> QED BY <3>1, <3>2, <3>3
  <2>4. Cardinality({y \in P : atP[y] <= atP[s[j]]}) = j
    BY <1>7, <2>1, <2>3
  <2> QED BY <1>8, <2>2, <2>4
<1> QED BY <1>2, <1>3, <1>6, <1>9, <1>11, <1>12 DEF P, n, c

\* What the pointer adds up, row by row.
LEMMA SumsStep ==
    ASSUME NEW s, Len(s) \in Nat
    PROVE  /\ Sums(s)[0] = [n |-> 0, total |-> 0, square |-> 0, last |-> 0]
           /\ \A k \in 1 .. Len(s) :
                 Sums(s)[k] = [n |-> Sums(s)[k - 1].n + 1,
                               total |-> Sums(s)[k - 1].total + s[k].spread,
                               square |-> Sums(s)[k - 1].square + s[k].spread * s[k].spread,
                               last |-> s[k].spread]
<1> DEFINE zero == [n |-> 0, total |-> 0, square |-> 0, last |-> 0]
           Add(u, x) == [n |-> u.n + 1, total |-> u.total + x,
                         square |-> u.square + x * x, last |-> x]
           Is(g, m) == g = [k \in 0 .. m |-> IF k = 0 THEN zero ELSE Add(g[k - 1], s[k].spread)]
           Q == {m \in Nat : \E g : Is(g, m)}
<1>1. Sums(s) = CHOOSE g : Is(g, Len(s))
  BY DEF Sums
<1>2. \A u, x : Add(u, x) = [n |-> u.n + 1, total |-> u.total + x,
                             square |-> u.square + x * x, last |-> x]
  OBVIOUS
<1> HIDE DEF zero, Add
<1>3. 0 \in Q
  <2> DEFINE g == [k \in 0 .. 0 |-> zero]
  <2>1. Is(g, 0)
    OBVIOUS
  <2> QED BY <2>1
<1>4. ASSUME NEW m \in 0 .. Len(s) - 1, m \in Q PROVE m + 1 \in Q
  <2>1. PICK g : Is(g, m)
    BY <1>4
  <2> DEFINE x == Add(g[m], s[m + 1].spread)
             h == [k \in 0 .. m + 1 |-> IF k = m + 1 THEN x ELSE g[k]]
  <2>2. m \in Nat /\ m + 1 \in Nat
    OBVIOUS
  <2>3. /\ h[m + 1] = x /\ \A k \in 0 .. m : h[k] = g[k]
        /\ h = [k \in 0 .. m + 1 |-> h[k]]
    BY <2>2
  <2>4. x = Add(g[m], s[m + 1].spread)
    OBVIOUS
  <2> HIDE DEF h, x
  <2>5. ASSUME NEW k \in 0 .. m + 1
        PROVE  h[k] = IF k = 0 THEN zero ELSE Add(h[k - 1], s[k].spread)
    <3>1. CASE k = m + 1
      <4>1. k - 1 = m /\ k # 0 /\ m \in 0 .. m
        BY <2>2, <3>1
      <4> QED BY <2>3, <2>4, <3>1, <4>1
    <3>2. CASE k \in 0 .. m
      <4>1. h[k] = g[k] /\ g[k] = IF k = 0 THEN zero ELSE Add(g[k - 1], s[k].spread)
        BY <2>1, <2>3, <3>2
      <4>2. k # 0 => k - 1 \in 0 .. m
        BY <3>2
      <4> QED BY <2>3, <4>1, <4>2
    <3> QED BY <3>1, <3>2
  <2>6. Is(h, m + 1)
    BY <2>3, <2>5
  <2> HIDE DEF Is
  <2> QED BY <2>2, <2>6
<1>5. Len(s) \in Q
  <2> HIDE DEF Q
  <2>1. 0 .. Len(s) \subseteq Q
    BY <1>3, <1>4, UptoInductive
  <2> QED BY <2>1
<1>6. Is(Sums(s), Len(s))
  <2> HIDE DEF Is
  <2> QED BY <1>1, <1>5
<1>7. 0 \in 0 .. Len(s) /\ \A k \in 1 .. Len(s) : k \in 0 .. Len(s) /\ k # 0
  OBVIOUS
<1>8. Sums(s)[0] = zero
  BY <1>6, <1>7
<1>9. \A k \in 1 .. Len(s) : Sums(s)[k] = Add(Sums(s)[k - 1], s[k].spread)
  BY <1>6, <1>7
<1>10. zero = [n |-> 0, total |-> 0, square |-> 0, last |-> 0]
  BY DEF zero
<1> QED BY <1>2, <1>8, <1>9, <1>10

\* The sums of the first rows do not depend on the others.
LEMMA SumsOfFirstOnes ==
    ASSUME NEW s, NEW p, Len(s) \in Nat, Len(p) \in 0 .. Len(s),
           \A j \in 1 .. Len(p) : p[j] = s[j]
    PROVE  Sums(p)[Len(p)] = Sums(s)[Len(p)]
<1> DEFINE Q == {k \in Nat : Sums(p)[k] = Sums(s)[k]}
           c == Len(p)
<1>1. c \in Nat /\ 1 .. c \subseteq 1 .. Len(s)
  OBVIOUS
<1>2. 0 \in Q
  BY SumsStep
<1>3. ASSUME NEW k \in 0 .. c - 1, k \in Q PROVE k + 1 \in Q
  <2>1. k + 1 \in 1 .. c /\ (k + 1) - 1 = k /\ k + 1 \in Nat
    BY <1>1
  <2>2. p[k + 1] = s[k + 1] /\ Sums(p)[k] = Sums(s)[k]
    BY <1>3, <2>1
  <2>3. Sums(p)[k + 1] = [n |-> Sums(p)[k].n + 1, total |-> Sums(p)[k].total + p[k + 1].spread,
                          square |-> Sums(p)[k].square + p[k + 1].spread * p[k + 1].spread,
                          last |-> p[k + 1].spread]
    BY <1>1, <2>1, SumsStep
  <2>4. Sums(s)[k + 1] = [n |-> Sums(s)[k].n + 1, total |-> Sums(s)[k].total + s[k + 1].spread,
                          square |-> Sums(s)[k].square + s[k + 1].spread * s[k + 1].spread,
                          last |-> s[k + 1].spread]
    BY <1>1, <2>1, SumsStep
  <2> QED BY <2>1, <2>2, <2>3, <2>4
<1>4. 0 .. c \subseteq Q
  <2> HIDE DEF Q, c
  <2> QED BY <1>1, <1>2, <1>3, UptoInductive
<1> QED BY <1>1, <1>4

\* Where the pointer stands, target by target.
LEMMA PointerStep ==
    ASSUME NEW s, NEW ts, Len(ts) \in Nat
    PROVE  /\ Pointer(s, ts)[0] = 0
           /\ \A i \in 1 .. Len(ts) :
                 Pointer(s, ts)[i] = Cardinality({j \in DOMAIN s :
                    j <= Pointer(s, ts)[i - 1] \/ s[j].at < AsOfFor(ts[i])})
<1> DEFINE Move(u, i) == Cardinality({j \in DOMAIN s : j <= u \/ s[j].at < AsOfFor(ts[i])})
           Is(g, m) == g = [i \in 0 .. m |-> IF i = 0 THEN 0 ELSE Move(g[i - 1], i)]
           Q == {m \in Nat : \E g : Is(g, m)}
<1>1. Pointer(s, ts) = CHOOSE g : Is(g, Len(ts))
  BY DEF Pointer
<1>2. \A u, i : Move(u, i) = Cardinality({j \in DOMAIN s : j <= u \/ s[j].at < AsOfFor(ts[i])})
  OBVIOUS
<1> HIDE DEF Move
<1>3. 0 \in Q
  <2> DEFINE g == [i \in 0 .. 0 |-> 0]
  <2>1. Is(g, 0)
    OBVIOUS
  <2> QED BY <2>1
<1>4. ASSUME NEW m \in 0 .. Len(ts) - 1, m \in Q PROVE m + 1 \in Q
  <2>1. PICK g : Is(g, m)
    BY <1>4
  <2> DEFINE x == Move(g[m], m + 1)
             h == [i \in 0 .. m + 1 |-> IF i = m + 1 THEN x ELSE g[i]]
  <2>2. m \in Nat /\ m + 1 \in Nat
    OBVIOUS
  <2>3. /\ h[m + 1] = x /\ \A i \in 0 .. m : h[i] = g[i]
        /\ h = [i \in 0 .. m + 1 |-> h[i]]
    BY <2>2
  <2>4. x = Move(g[m], m + 1)
    OBVIOUS
  <2> HIDE DEF h, x
  <2>5. ASSUME NEW i \in 0 .. m + 1 PROVE h[i] = IF i = 0 THEN 0 ELSE Move(h[i - 1], i)
    <3>1. CASE i = m + 1
      <4>1. i - 1 = m /\ i # 0 /\ m \in 0 .. m
        BY <2>2, <3>1
      <4> QED BY <2>3, <2>4, <3>1, <4>1
    <3>2. CASE i \in 0 .. m
      <4>1. h[i] = g[i] /\ g[i] = IF i = 0 THEN 0 ELSE Move(g[i - 1], i)
        BY <2>1, <2>3, <3>2
      <4>2. i # 0 => i - 1 \in 0 .. m
        BY <3>2
      <4> QED BY <2>3, <4>1, <4>2
    <3> QED BY <3>1, <3>2
  <2>6. Is(h, m + 1)
    BY <2>3, <2>5
  <2> HIDE DEF Is
  <2> QED BY <2>2, <2>6
<1>5. Len(ts) \in Q
  <2> HIDE DEF Q
  <2>1. 0 .. Len(ts) \subseteq Q
    BY <1>3, <1>4, UptoInductive
  <2> QED BY <2>1
<1>6. Is(Pointer(s, ts), Len(ts))
  <2> HIDE DEF Is
  <2> QED BY <1>1, <1>5
<1>7. 0 \in 0 .. Len(ts) /\ \A i \in 1 .. Len(ts) : i \in 0 .. Len(ts) /\ i # 0
  OBVIOUS
<1>8. Pointer(s, ts)[0] = 0
  BY <1>6, <1>7
<1>9. \A i \in 1 .. Len(ts) : Pointer(s, ts)[i] = Move(Pointer(s, ts)[i - 1], i)
  BY <1>6, <1>7
<1> QED BY <1>2, <1>8, <1>9

\* A later target has no earlier cutoff.
LEMMA CutoffsAscend ==
    ASSUME NEW t \in Int, NEW u \in Int, t <= u
    PROVE  AsOfFor(t) \in Int /\ AsOfFor(t) <= AsOfFor(u)
<1> DEFINE x == (t - 24) \div 24
           y == (u - 24) \div 24
           a == (t - 24) % 24
           b == (u - 24) % 24
<1>1. x \in Int /\ y \in Int /\ a \in 0 .. 23 /\ b \in 0 .. 23 /\ t - 24 = 24 * x + a /\ u - 24 = 24 * y + b
  OBVIOUS
<1>2. AsOfFor(t) = 24 * x + 15 /\ AsOfFor(u) = 24 * y + 15
  BY DEF AsOfFor
<1> HIDE DEF x, y, a, b
<1>3. x <= y
  BY <1>1
<1> QED BY <1>1, <1>2, <1>3

\* Targets in order: integers, ascending, and each of them once.
LEMMA SortedTargets ==
    ASSUME NEW T, IsFiniteSet(T), \A t \in T : t \in Int
    PROVE  /\ Sorted(T) \in Seq(T) /\ Len(Sorted(T)) \in Nat
           /\ \A i, j \in 1 .. Len(Sorted(T)) : i <= j => Sorted(T)[i] <= Sorted(T)[j]
           /\ \A t \in T : \E i \in 1 .. Len(Sorted(T)) : Sorted(T)[i] = t
           /\ \A i, j \in 1 .. Len(Sorted(T)) : Sorted(T)[i] = Sorted(T)[j] => i = j
<1> DEFINE key == [t \in T |-> t]
           n == Cardinality(T)
           ts == InOrder(T, key)
           Upto(i) == {y \in T : key[y] <= key[ts[i]]}
<1>1. \A t \in T : key[t] = t /\ key[t] \in Int
  OBVIOUS
<1>2. Sorted(T) = ts
  BY DEF Sorted
<1> HIDE DEF key, n
<1>3. /\ n \in Nat /\ ts \in [1 .. n -> T]
      /\ \A i \in 1 .. n : Cardinality({y \in T : key[y] <= key[ts[i]]}) = i
      /\ \A x \in T : LET i == Cardinality({y \in T : key[y] <= key[x]})
                      IN  i \in 1 .. n /\ ts[i] = x
  <2>1. \A x, y \in T : key[x] = key[y] => x = y
    BY <1>1
  <2>2. \A x \in T : key[x] \in Int
    BY <1>1
  <2>3. /\ Cardinality(T) \in Nat
        /\ InOrder(T, key) \in [1 .. Cardinality(T) -> T]
        /\ \A i \in 1 .. Cardinality(T) :
              Cardinality({y \in T : key[y] <= key[InOrder(T, key)[i]]}) = i
        /\ \A x \in T : LET i == Cardinality({y \in T : key[y] <= key[x]})
                        IN  i \in 1 .. Cardinality(T) /\ InOrder(T, key)[i] = x
    <3> HIDE DEF ts, Upto
    <3> QED BY <2>1, <2>2, InOrderIs, SMTT(30)
  <2> QED BY <2>3 DEF n
<1> HIDE DEF ts
<1>4. ts \in Seq(T) /\ Len(ts) = n
  <2>1. \A U : \A k \in Nat : \A f \in [1 .. k -> U] : f \in Seq(U) /\ Len(f) = k
    OBVIOUS
  <2> QED BY <1>3, <2>1
<1>5. \A t \in T : \E i \in 1 .. n : ts[i] = t
  BY <1>3
<1>6. \A i, j \in 1 .. n : ts[i] = ts[j] => i = j
  BY <1>3
<1>7. ASSUME NEW i \in 1 .. n, NEW j \in 1 .. n, i <= j PROVE ts[i] <= ts[j]
  <2>1. ts[i] \in T /\ ts[j] \in T /\ ts[i] \in Int /\ ts[j] \in Int
    BY <1>3
  <2>2. SUFFICES ASSUME ts[j] < ts[i] PROVE FALSE
    BY <2>1
  <2>3. Upto(j) \in SUBSET Upto(i) /\ ts[i] \in Upto(i) /\ ts[i] \notin Upto(j)
    <3>1. \A y : y \in Upto(i) <=> y \in T /\ y <= ts[i]
      BY <1>1, <2>1
    <3>2. \A y : y \in Upto(j) <=> y \in T /\ y <= ts[j]
      BY <1>1, <2>1
    <3>3. \A y \in T : y \in Int
      OBVIOUS
    <3> HIDE DEF Upto
    <3>4. ASSUME NEW y \in Upto(j) PROVE y \in Upto(i)
      <4>1. y \in T /\ y <= ts[j] /\ y \in Int
        BY <3>2, <3>3
      <4>2. y <= ts[i]
        BY <2>1, <2>2, <4>1
      <4> QED BY <3>1, <4>1, <4>2
    <3>5. ts[i] \in Upto(i) /\ ts[i] \notin Upto(j)
      BY <2>1, <2>2, <3>1, <3>2
    <3> QED BY <3>4, <3>5
  <2>4. Cardinality(Upto(i)) = i /\ Cardinality(Upto(j)) = j /\ Upto(i) \in SUBSET T
    BY <1>3
  <2> HIDE DEF Upto
  <2>5. IsFiniteSet(Upto(i))
    BY <2>4, FS_Subset
  <2>6. j <= i /\ j # i
    BY <2>3, <2>4, <2>5, FS_Subset
  <2> QED BY <1>7, <2>6
<1> QED BY <1>2, <1>3, <1>4, <1>5, <1>6, <1>7

\* At each target the pointer has passed the rows before the target's cutoff, and
\* no other: going on from the target before it leaves none of them out.
THEOREM PointerIsAtCutoff ==
    ASSUME NEW S, IsHistory(S), NEW T, IsFiniteSet(T), \A t \in T : t \in Int,
           NEW i \in 1 .. Len(Sorted(T))
    PROVE  Pointer(ByTime(S), Sorted(T))[i] = Cardinality(Before(S, AsOfFor(Sorted(T)[i])))
<1> DEFINE s == ByTime(S)
           ts == Sorted(T)
           n == Cardinality(S)
           idx == Pointer(s, ts)
           c(k) == Cardinality(Before(S, AsOfFor(ts[k])))
           Q == {k \in Nat : k \in 1 .. Len(ts) => idx[k] = c(k)}
<1>1. /\ ts \in Seq(T) /\ Len(ts) \in Nat
      /\ \A k, l \in 1 .. Len(ts) : k <= l => ts[k] <= ts[l]
  BY SortedTargets
<1>2. \A k \in 1 .. Len(ts) : ts[k] \in T /\ ts[k] \in Int /\ AsOfFor(ts[k]) \in Int
  <2> HIDE DEF ts
  <2>1. \A k \in 1 .. Len(ts) : ts[k] \in T /\ ts[k] \in Int
    BY <1>1
  <2>2. \A t \in Int : AsOfFor(t) \in Int
    BY DEF AsOfFor
  <2> QED BY <2>1, <2>2
<1>3. \A k \in 1 .. Len(ts) :
        /\ c(k) \in 0 .. n /\ n \in Nat /\ DOMAIN s = 1 .. n
        /\ \A j \in 1 .. n : s[j].at < AsOfFor(ts[k]) <=> j <= c(k)
  <2> SUFFICES ASSUME NEW k \in 1 .. Len(ts)
               PROVE  /\ c(k) \in 0 .. n /\ n \in Nat /\ DOMAIN s = 1 .. n
                      /\ \A j \in 1 .. n : s[j].at < AsOfFor(ts[k]) <=> j <= c(k)
    OBVIOUS
  <2>1. AsOfFor(ts[k]) \in Int
    BY <1>2
  <2> HIDE DEF ts
  <2> DEFINE A == AsOfFor(ts[k])
  <2> HIDE DEF A
  <2>2. /\ ByTime(S) \in Seq(S) /\ Len(ByTime(S)) = Cardinality(S)
        /\ Cardinality(Before(S, A)) \in 0 .. Cardinality(S) /\ Cardinality(S) \in Nat
        /\ \A j \in 1 .. Cardinality(S) :
              ByTime(S)[j].at < A <=> j <= Cardinality(Before(S, A))
    BY <2>1, FirstOnes DEF A
  <2>3. DOMAIN ByTime(S) = 1 .. Cardinality(S)
    BY <2>2
  <2> QED BY <2>2, <2>3 DEF A
<1>4. \A k, l \in 1 .. Len(ts) : k <= l => c(k) <= c(l)
  <2> SUFFICES ASSUME NEW k \in 1 .. Len(ts), NEW l \in 1 .. Len(ts), k <= l
               PROVE  c(k) <= c(l)
    OBVIOUS
  <2>1. AsOfFor(ts[k]) <= AsOfFor(ts[l])
    <3>1. ts[k] \in Int /\ ts[l] \in Int /\ ts[k] <= ts[l]
      BY <1>1, <1>2
    <3> HIDE DEF ts
    <3> QED BY <3>1, CutoffsAscend
  <2> DEFINE A == Before(S, AsOfFor(ts[k]))
             B == Before(S, AsOfFor(ts[l]))
  <2>2. A \in SUBSET B /\ B \in SUBSET S
    <3>1. \A r \in S : r.at \in Int
      BY DEF IsHistory
    <3>2. AsOfFor(ts[k]) \in Int /\ AsOfFor(ts[l]) \in Int
      BY <1>2
    <3> HIDE DEF ts
    <3> QED BY <2>1, <3>1, <3>2 DEF Before
  <2> HIDE DEF A, B
  <2>3. IsFiniteSet(B)
    BY <2>2, FS_Subset DEF IsHistory
  <2>4. Cardinality(A) <= Cardinality(B)
    BY <2>2, <2>3, FS_Subset
  <2> QED BY <2>4 DEF A, B
<1> HIDE DEF s, ts, n, c
<1>5. /\ idx[0] = 0
      /\ \A k \in 1 .. Len(ts) :
            idx[k] = Cardinality({j \in DOMAIN s : j <= idx[k - 1] \/ s[j].at < AsOfFor(ts[k])})
  BY <1>1, PointerStep
<1> HIDE DEF idx
<1>6. 0 \in Q
  BY <1>1
<1>7. ASSUME NEW m \in 0 .. Len(ts) - 1, m \in Q PROVE m + 1 \in Q
  <2>1. m + 1 \in 1 .. Len(ts) /\ (m + 1) - 1 = m /\ m \in Nat
    BY <1>1
  <2>2. idx[m] \in Nat /\ idx[m] <= c(m + 1)
    <3>1. CASE m = 0
      BY <1>3, <1>5, <2>1, <3>1
    <3>2. CASE m # 0
      <4>1. m \in 1 .. Len(ts) /\ m <= m + 1
        BY <1>1, <3>2
      <4> QED BY <1>3, <1>4, <1>7, <2>1, <4>1
    <3> QED BY <3>1, <3>2
  <2> DEFINE J == {j \in DOMAIN s : j <= idx[m] \/ s[j].at < AsOfFor(ts[m + 1])}
  <2>3. idx[m + 1] = Cardinality(J)
    BY <1>5, <2>1
  <2>4. J = 1 .. c(m + 1)
    <3>1. DOMAIN s = 1 .. n /\ n \in Nat /\ c(m + 1) \in 0 .. n
      BY <1>3, <2>1
    <3>2. \A j \in 1 .. n : s[j].at < AsOfFor(ts[m + 1]) <=> j <= c(m + 1)
      BY <1>3, <2>1
    <3>3. \A j \in 1 .. n : j \in J <=> j <= c(m + 1)
      BY <2>2, <3>1, <3>2
    <3>4. J \subseteq 1 .. n /\ 1 .. c(m + 1) \subseteq 1 .. n
      BY <3>1
    <3> DEFINE top == c(m + 1)
    <3> HIDE DEF J, top
    <3>5. top \in 0 .. n /\ n \in Nat /\ J \subseteq 1 .. n /\ \A j \in 1 .. n : j \in J <=> j <= top
      BY <3>1, <3>3, <3>4 DEF top
    <3>6. ASSUME NEW j PROVE j \in J <=> j \in 1 .. top
      <4>1. j \in J => j \in 1 .. n /\ j <= top
        BY <3>5
      <4>2. j \in 1 .. top => j \in 1 .. n
        BY <3>5
      <4>3. j \in 1 .. n /\ j <= top => j \in J
        BY <3>5
      <4>4. j \in 1 .. n /\ j <= top => j \in 1 .. top
        BY <3>5
      <4>5. j \in 1 .. top => j <= top
        BY <3>5
      <4> QED BY <4>1, <4>2, <4>3, <4>4, <4>5, Zenon
    <3>7. J = 1 .. top
      BY <3>6, Zenon
    <3> QED BY <3>7 DEF top
  <2>5. Cardinality(1 .. c(m + 1)) = c(m + 1)
    <3>1. c(m + 1) \in Nat
      BY <1>3, <2>1
    <3> QED BY <3>1, FS_Interval
  <2> HIDE DEF J
  <2>6. idx[m + 1] = c(m + 1)
    BY <2>3, <2>4, <2>5
  <2> QED BY <2>1, <2>6
<1>8. 0 .. Len(ts) \subseteq Q
  <2> HIDE DEF Q
  <2> QED BY <1>1, <1>6, <1>7, UptoInductive
<1>9. i \in 1 .. Len(ts) /\ i \in 0 .. Len(ts)
  BY <1>1 DEF ts
<1>10. idx[i] = c(i)
  BY <1>8, <1>9
<1> QED BY <1>10 DEF idx, c, s, ts

\* The signals of a target: decided on the sums at its cutoff.
LEMMA SignalsOfTarget ==
    ASSUME NEW S, IsHistory(S), NEW T, IsFiniteSet(T), \A t \in T : t \in Int
    PROVE  /\ \A x \in GenerateSignals(S, T) : x.target \in T
           /\ \A t \in T :
                {x \in GenerateSignals(S, T) : x.target = t}
                  = Decide(t, Sums(ByTime(S))[Cardinality(Before(S, AsOfFor(t)))])
<1> DEFINE ts == Sorted(T)
           At(i) == Sums(ByTime(S))[Pointer(ByTime(S), ts)[i]]
           Sig(i) == Decide(ts[i], At(i))
           G == GenerateSignals(S, T)
<1>1. /\ ts \in Seq(T)
      /\ \A t \in T : \E i \in 1 .. Len(ts) : ts[i] = t
      /\ \A i, j \in 1 .. Len(ts) : ts[i] = ts[j] => i = j
  BY SortedTargets
<1>2. DOMAIN ts = 1 .. Len(ts) /\ \A i \in 1 .. Len(ts) : ts[i] \in T
  <2> HIDE DEF ts
  <2> QED BY <1>1
<1>3. G = UNION {Sig(i) : i \in DOMAIN ts}
  BY DEF GenerateSignals, Walk
<1>4. \A t, s : \A x \in Decide(t, s) : x.target = t
  <2> SUFFICES ASSUME NEW t, NEW s, NEW x \in Decide(t, s) PROVE x.target = t
    OBVIOUS
  <2> DEFINE off == s.n * s.last - s.total
  <2>1. x \in {[target |-> t, direction |-> IF off > 0 THEN -1 ELSE 1]}
    BY DEF Decide
  <2> HIDE DEF off
  <2> QED BY <2>1
<1>5. \A i \in 1 .. Len(ts) : At(i) = Sums(ByTime(S))[Cardinality(Before(S, AsOfFor(ts[i])))]
  BY PointerIsAtCutoff
<1> HIDE DEF ts, G, At
<1>6. \A i \in 1 .. Len(ts) : \A x \in Sig(i) : x.target = ts[i]
  BY <1>4
<1> DEFINE AtCut(t) == Sums(ByTime(S))[Cardinality(Before(S, AsOfFor(t)))]
<1>7. \A i \in 1 .. Len(ts) : Sig(i) = Decide(ts[i], AtCut(ts[i]))
  BY <1>5
<1> HIDE DEF Sig, AtCut
<1>8. \A x : x \in G <=> \E i \in 1 .. Len(ts) : x \in Sig(i)
  BY <1>2, <1>3
<1>9. \A x \in G : x.target \in T
  BY <1>2, <1>6, <1>8
<1>10. ASSUME NEW t \in T PROVE {x \in G : x.target = t} = Decide(t, AtCut(t))
  <2>1. PICK i \in 1 .. Len(ts) : ts[i] = t
    BY <1>1
  <2>2. Sig(i) = Decide(t, AtCut(t))
    BY <1>7, <2>1
  <2>3. ASSUME NEW x \in G, x.target = t PROVE x \in Sig(i)
    <3>1. PICK j \in 1 .. Len(ts) : x \in Sig(j)
      BY <1>8
    <3>2. ts[j] = t
      BY <1>6, <2>3, <3>1
    <3>3. j = i
      BY <1>1, <2>1, <3>2
    <3> QED BY <3>1, <3>3
  <2>4. ASSUME NEW x \in Sig(i) PROVE x \in G /\ x.target = t
    BY <1>6, <1>8, <2>1
  <2> QED BY <2>2, <2>3, <2>4
<1> QED BY <1>9, <1>10 DEF G, AtCut

\* The signals of a target are those the rule makes of the rows before its cutoff,
\* for this target alone.
LEMMA SignalsArePast ==
    ASSUME NEW S, IsHistory(S), NEW T, IsFiniteSet(T), \A t \in T : t \in Int, NEW t \in T
    PROVE  {x \in GenerateSignals(S, T) : x.target = t}
             = GenerateSignals(Before(S, AsOfFor(t)), {t})
<1> DEFINE A == AsOfFor(t)
           P == Before(S, A)
           c == Cardinality(P)
           s == ByTime(S)
           p == ByTime(P)
<1>1. A \in Int
  BY CutoffsAscend
<1>2. Before(P, A) = P
  <2> HIDE DEF A
  <2> QED BY DEF Before
<1> HIDE DEF A
<1>3. /\ s \in Seq(S) /\ Len(s) = Cardinality(S) /\ Cardinality(S) \in Nat
      /\ IsHistory(P) /\ c \in 0 .. Cardinality(S)
      /\ \A j \in 1 .. c : p[j] = s[j]
  BY <1>1, FirstOnes
<1> HIDE DEF P
<1>4. Len(p) = c
  BY <1>1, <1>3, FirstOnes
<1> HIDE DEF s, p, c
<1>5. Sums(p)[c] = Sums(s)[c]
  BY <1>3, <1>4, SumsOfFirstOnes
<1>6. {x \in GenerateSignals(S, T) : x.target = t} = Decide(t, Sums(s)[c])
  BY SignalsOfTarget DEF s, c, P, A
<1>7. IsFiniteSet({t}) /\ \A u \in {t} : u \in Int
  BY FS_Singleton
<1>8. {x \in GenerateSignals(P, {t}) : x.target = t} = Decide(t, Sums(p)[Cardinality(Before(P, AsOfFor(t)))])
  BY <1>3, <1>7, SignalsOfTarget DEF p
<1>9. \A x \in GenerateSignals(P, {t}) : x.target \in {t}
  BY <1>3, <1>7, SignalsOfTarget
<1>10. {x \in GenerateSignals(P, {t}) : x.target = t} = GenerateSignals(P, {t})
  BY <1>9
<1>11. Cardinality(Before(P, AsOfFor(t))) = c
  BY <1>2 DEF A, c
<1>12. Decide(t, Sums(p)[Cardinality(Before(P, AsOfFor(t)))]) = Decide(t, Sums(s)[c])
  BY <1>5, <1>11
<1>13. GenerateSignals(P, {t}) = {x \in GenerateSignals(S, T) : x.target = t}
  BY <1>6, <1>8, <1>10, <1>12
<1> QED BY <1>13 DEF P, A

\* The cutoff of a target is no later than the last that may be known of it.
LEMMA CutoffBeforeClose ==
    ASSUME NEW t \in Int, NEW off \in {5, 6}
    PROVE  LatestFor(t, off) \in Int /\ AsOfFor(t) <= LatestFor(t, off)
<1> DEFINE x == t \div 24
           y == t % 24
           q == (t - off) \div 24
<1>1. /\ x \in Int /\ y \in 0 .. 23 /\ t = 24 * x + y
      /\ (t - 24) \div 24 = x - 1
      /\ q \in Int /\ (y >= off => q = x)
  OBVIOUS
<1>2. /\ AsOfFor(t) = 24 * (x - 1) + 15
      /\ LatestFor(t, off) = IF y < off THEN t ELSE 24 * (q - 1) + 10 + off
  BY <1>1 DEF AsOfFor, LatestFor, DamClose
<1> HIDE DEF x, y, q
<1>3. CASE y < off
  BY <1>1, <1>2, <1>3
<1>4. CASE y >= off
  BY <1>1, <1>2, <1>4
<1> QED BY <1>1, <1>3, <1>4

\* Nor would the rule make anything else of all the rows before a later moment.
LEMMA SignalsKnowNoMore ==
    ASSUME NEW S, IsHistory(S), NEW T, IsFiniteSet(T), \A t \in T : t \in Int, NEW t \in T,
           NEW B \in Int, AsOfFor(t) <= B
    PROVE  {x \in GenerateSignals(S, T) : x.target = t} = GenerateSignals(Before(S, B), {t})
<1> DEFINE P == Before(S, B)
           A == AsOfFor(t)
           G == GenerateSignals(P, {t})
<1>1. A \in Int /\ A <= B
  BY CutoffsAscend
<1>2. IsHistory(P)
  BY FirstOnes
<1>3. Before(P, A) = Before(S, A)
  <2> HIDE DEF A
  <2> QED BY <1>1 DEF Before, IsHistory
<1> HIDE DEF P
<1>4. IsFiniteSet({t}) /\ (\A u \in {t} : u \in Int) /\ t \in {t}
  BY FS_Singleton
<1>5. \A x \in G : x.target = t
  BY <1>2, <1>4, SignalsOfTarget
<1>6. {x \in G : x.target = t} = GenerateSignals(Before(P, A), {t})
  BY <1>2, <1>4, SignalsArePast
<1>7. {x \in GenerateSignals(S, T) : x.target = t} = GenerateSignals(Before(S, A), {t})
  BY SignalsArePast
<1> HIDE DEF A, G
<1>8. {x \in G : x.target = t} = G
  BY <1>5
<1> QED BY <1>3, <1>6, <1>7, <1>8 DEF G, P

\* The spreads of a fold: a row at each hour with both prices, and those from the
\* start of the test on are the rows of the test.
LEMMA SpreadsOfFold ==
    ASSUME NEW da, NEW rt, DOMAIN da \subseteq Int, IsFiniteSet(DOMAIN da),
           NEW f \in [train : Int \X Int, test : Int \X Int], f.train[2] <= f.test[1]
    PROVE  LET train == Spread(da, rt, f.train[1], f.train[2])
               test == Spread(da, rt, f.test[1], f.test[2])
               times == {r.at : r \in test}
           IN  /\ IsHistory(train \cup test)
               /\ IsFiniteSet(times) /\ \A t \in times : t \in Int
               /\ \A r \in train \cup test : r.at >= f.test[1] => r \in test
<1> DEFINE train == Spread(da, rt, f.train[1], f.train[2])
           test == Spread(da, rt, f.test[1], f.test[2])
           times == {r.at : r \in test}
           seen == train \cup test
           D == DOMAIN da
           Row(h) == [at |-> h, spread |-> da[h] - rt[h]]
<1>1. f.train[1] \in Int /\ f.train[2] \in Int /\ f.test[1] \in Int /\ f.test[2] \in Int
  OBVIOUS
<1>2. \A a, b : \A r \in Spread(da, rt, a, b) : r.at \in D /\ r = Row(r.at) /\ a <= r.at /\ r.at < b
  <2> SUFFICES ASSUME NEW a, NEW b, NEW r \in Spread(da, rt, a, b)
               PROVE  r.at \in D /\ r = Row(r.at) /\ a <= r.at /\ r.at < b
    OBVIOUS
  <2>1. PICK h \in {x \in DOMAIN da \cap DOMAIN rt : a <= x /\ x < b} : r = Row(h)
    BY DEF Spread
  <2>2. r.at = h
    BY <2>1
  <2> HIDE DEF Row
  <2> QED BY <2>1, <2>2
<1> HIDE DEF train, test, Row
<1>3. \A r \in seen : r.at \in D /\ r.at \in Int /\ r = Row(r.at)
  BY <1>2 DEF train, test
<1>4. \A r, s \in seen : r.at = s.at => r = s
  BY <1>3
<1>5. IsFiniteSet(seen)
  <2> DEFINE at == [r \in seen |-> r.at]
  <2>1. at \in Injection(seen, D)
    <3>1. at \in [seen -> D] /\ \A r, s \in seen : at[r] = at[s] => r = s
      BY <1>3, <1>4
    <3> HIDE DEF at, seen, D
    <3> QED BY <3>1 DEF Injection, IsInjective
  <2> HIDE DEF at, seen
  <2> QED BY <2>1, FS_Injection
<1>6. IsHistory(seen)
  BY <1>3, <1>4, <1>5 DEF IsHistory
<1>7. times \in SUBSET D /\ \A t \in times : t \in Int
  BY <1>3
<1>8. IsFiniteSet(times)
  <2> HIDE DEF times
  <2> QED BY <1>7, FS_Subset
<1>9. ASSUME NEW r \in seen, r.at >= f.test[1] PROVE r \in test
  <2>1. SUFFICES ASSUME r \in train PROVE FALSE
    BY <1>9
  <2>2. r.at < f.train[2] /\ r.at \in Int
    BY <1>2, <1>3, <2>1 DEF train
  <2> QED BY <1>1, <1>9, <2>2
<1> QED BY <1>6, <1>7, <1>8, <1>9 DEF train, test

-----------------------------------------------------------------------------
(* The programs' answers.                                                  *)

\* What a program is asked lies in the tables, and its answer is the one that it
\* computes of what it was asked.
Computed ==
    /\ ask.program = "calendar" => ask.in \in Days
    /\ ask.program = "scan" => ask.in \in Paths
    /\ ask.program = "sheet" => ask.in \in Valuations
    /\ ask.program = "book" => ask.in \in Books
    /\ ask.program = "backtest" => ask.in \in Histories
    /\ ask.program = "constraints" => ask.in \in FlagSets
    /\ ask.program = "hub" => ask.in \in HubPaths
    /\ Answered("calendar") =>
          answer.is = [he \in 1 .. 25 |-> TouOf(ask.in.year, ask.in.date, he)]
    /\ Answered("scan") =>
          answer.is =
            [market |-> MarketRow(ask.in.path, ask.in.target),
             discover |-> DiscoverRow(ask.in.path, ask.in.target),
             strip |-> [m \in STRIP |-> StripRow(ask.in.path, ask.in.target[1] + 1, m)],
             book |-> [m \in STRIP |->
                         BookMark(ask.in.path, BlockHours, ask.in.target[1] + 1, m, m, 1)]]
    /\ Answered("sheet") =>
          answer.is = [frozen |-> FrozenRow(ask.in.row, ask.in.month),
                       shown |-> TicketRow(ask.in.row, ask.in.month),
                       rebuilt |-> RebuiltRow(ask.in.row, ask.in.month)]
    /\ Answered("book") =>
          answer.is = [verdicts |-> [k \in PathsOf(ask.in.book) |-> Verdict(ask.in, k)],
                       upload |-> Upload(ask.in)]
    /\ Answered("backtest") => answer.is = RunFold(ask.in.da, ask.in.rt, ask.in.fold)
    /\ Answered("constraints") =>
          answer.is = [f \in WalkFolds(ask.in.from, ask.in.to) |->
                          FoldHours(ask.in.hours, ask.in.flags, f)]
    /\ Answered("hub") =>
          answer.is = [picked |-> HubPicked(ask.in.path, ask.in.month),
                       filled |-> HubFilled(ask.in.path, ask.in.month)]

\* The desk's invariant.
LEMMA AnswersAreComputed == Spec => []Computed
<1>1. Init => Computed
  <2> SUFFICES ASSUME Init PROVE Computed
    OBVIOUS
  <2>1. /\ ask.program = "calendar" => ask.in \in Days
        /\ ask.program = "scan" => ask.in \in Paths
        /\ ask.program = "sheet" => ask.in \in Valuations
        /\ ask.program = "book" => ask.in \in Books
        /\ ask.program = "backtest" => ask.in \in Histories
        /\ ask.program = "constraints" => ask.in \in FlagSets
        /\ ask.program = "hub" => ask.in \in HubPaths
    BY DEF Init
  <2>2. ~answer.done
    BY DEF Init, NoAnswer
  <2> QED BY <2>1, <2>2 DEF Computed, Answered
<1>2. Computed /\ [Next]_vars => Computed'
  <2> SUFFICES ASSUME Computed, [Next]_vars PROVE Computed'
    OBVIOUS
  <2>1. CASE Classify
    BY <2>1 DEF Classify, Answers, Computed, Answered
  <2>2. CASE Scan
    BY <2>2 DEF Scan, Answers, Computed, Answered
  <2>3. CASE DeriveSheet
    BY <2>3 DEF DeriveSheet, Answers, Computed, Answered
  <2>4. CASE ReadBook
    BY <2>4 DEF ReadBook, Answers, Computed, Answered
  <2>5. CASE RunBacktest
    BY <2>5 DEF RunBacktest, Answers, Computed, Answered
  <2>6. CASE WalkConstraints
    BY <2>6 DEF WalkConstraints, Answers, Computed, Answered
  <2>7. CASE WalkHub
    BY <2>7 DEF WalkHub, Answers, Computed, Answered
  <2>8. CASE UNCHANGED vars
    BY <2>8 DEF vars, Computed, Answered
  <2> QED BY <2>1, <2>2, <2>3, <2>4, <2>5, <2>6, <2>7, <2>8 DEF Next
<1> QED BY <1>1, <1>2, PTL DEF Spec

\* Whatever date the desk asks for, tou_of and crr_time_of_use say the same of it.
THEOREM CalendarsAgreeOnTheDesk == Spec => []CalendarTwins
<1>1. Computed => CalendarTwins
  <2> SUFFICES ASSUME Computed, Answered("calendar"), NEW he \in 1 .. 25
               PROVE  answer.is[he] = SqlTou(ask.in.year, ask.in.date, he)
    BY DEF CalendarTwins
  <2>1. ask.in.year \in Int /\ ask.in.date \in Int
    BY DeskAssumption DEF Computed, Answered
  <2>2. answer.is[he] = TouOf(ask.in.year, ask.in.date, he)
    BY DEF Computed
  <2> QED BY <2>1, <2>2, TheCalendarsAgree
<1> QED BY <1>1, AnswersAreComputed, PTL

\* Of any path that a scan can leave, at any price and size, the sheet that is
\* frozen before the auction is the one the page shows and, for the market scan,
\* the one the reconstruction derives, and its hours are the calendar's.
THEOREM SheetsAgree == Spec => []SheetAsShown
<1>1. Computed => SheetAsShown
  <2> SUFFICES ASSUME Computed, Answered("sheet") PROVE SheetAsShown
    BY DEF SheetAsShown
  <2> DEFINE v == ask.in.row
             month == ask.in.month
  <2>1. ask.in \in Valuations
    BY DEF Computed, Answered
  <2>2. v \in PathRow /\ month \in DOMAIN HOURS
    BY <2>1, ValuationsAssumption
  <2>3. v.book = "Market" => v.clear >= 5 /\ v.mw >= 1
    BY <2>1, ValuationsAssumption
  <2>4. /\ answer.is.frozen = FrozenRow(v, month)
        /\ answer.is.shown = TicketRow(v, month)
        /\ answer.is.rebuilt = RebuiltRow(v, month)
    BY DEF Computed
  <2> HIDE DEF v, month
  <2>5. /\ answer.is.frozen.tier = FrozenTier(v)
        /\ answer.is.frozen.limit = FrozenLimit(v)
        /\ answer.is.frozen.mw = FrozenMw(v, month)
    BY <2>4 DEF FrozenRow
  <2>6. v.active =>
          /\ answer.is.shown.tier = answer.is.frozen.tier
          /\ answer.is.shown.limit = answer.is.frozen.limit
          /\ v.clear # 0 => answer.is.shown.mw = answer.is.frozen.mw
    BY <2>2, <2>4, <2>5, FrozenAsShown
  <2>7. answer.is.frozen.tier = "red" <=> answer.is.frozen.mw = 0
    BY <2>2, <2>5, RedIsNotBought
  <2>8. v.book = "Market" => answer.is.rebuilt = answer.is.frozen
    BY <2>2, <2>3, <2>4, RebuiltAsFrozen
  <2>9. HoursOf(month, v.tou) = BlockHours[<<month, v.tou>>]
    <3>1. v.tou \in Blocks /\ <<month, v.tou>> \in DOMAIN BlockHours
      BY <2>2, DeskAssumption DEF PathRow
    <3>2. BlockHours[<<month, v.tou>>] = TouHours(month[1], month[2])[v.tou]
      BY <3>1, DeskAssumption
    <3> QED BY <2>2, <3>1, <3>2, HoursOfSheets
  <2> QED BY <2>6, <2>7, <2>8, <2>9 DEF SheetAsShown, v, month
<1> QED BY <1>1, AnswersAreComputed, PTL

\* Of any book, with any prices known of its paths, auction_prep uploads what
\* bid_ceiling would have the trader bid, at its ceiling, and leaves out nothing.
THEOREM UploadsAreReviewed == Spec => []UploadMatchesReview
<1>1. Computed => UploadMatchesReview
  <2> SUFFICES ASSUME Computed, Answered("book") PROVE UploadMatchesReview
    BY DEF UploadMatchesReview
  <2>1. BookFacts(ask.in)
    BY BooksAssumption DEF Computed, Answered, BookFacts
  <2>2. /\ answer.is.verdicts = [k \in PathsOf(ask.in.book) |-> Verdict(ask.in, k)]
        /\ answer.is.upload = Upload(ask.in)
    BY DEF Computed
  <2>3. /\ \A line \in Upload(ask.in) :
              /\ Bids(answer.is.verdicts[line.path])
              /\ 1000 * line.price <= answer.is.verdicts[line.path].ceiling + 500
              /\ answer.is.verdicts[line.path].ceiling <= 1000 * line.price + 500
        /\ \A k \in DOMAIN answer.is.verdicts :
              Bids(answer.is.verdicts[k]) /\ answer.is.verdicts[k].ceiling > 1000 =>
                 \E line \in Upload(ask.in) : line.path = k
    BY <2>1, <2>2, UploadIsReviewed
  <2>4. \A line \in answer.is.upload :
          /\ answer.is.verdicts[line.path].verdict
               \notin {"cannot value", "no value", "clears above"}
          /\ 1000 * line.price <= answer.is.verdicts[line.path].ceiling + 500
          /\ answer.is.verdicts[line.path].ceiling <= 1000 * line.price + 500
    <3> SUFFICES ASSUME NEW line \in answer.is.upload
                 PROVE  /\ Bids(answer.is.verdicts[line.path])
                        /\ 1000 * line.price <= answer.is.verdicts[line.path].ceiling + 500
                        /\ answer.is.verdicts[line.path].ceiling <= 1000 * line.price + 500
      BY Zenon DEF Bids
    <3>1. line \in Upload(ask.in)
      BY <2>2
    <3> QED BY <2>3, <3>1
  <2>5. \A k \in DOMAIN answer.is.verdicts :
          answer.is.verdicts[k].verdict \notin {"cannot value", "no value", "clears above"}
              /\ answer.is.verdicts[k].ceiling > 1000
            => \E line \in answer.is.upload : line.path = k
    <3> SUFFICES ASSUME NEW k \in DOMAIN answer.is.verdicts, answer.is.verdicts[k].ceiling > 1000,
                        Bids(answer.is.verdicts[k])
                 PROVE  \E line \in answer.is.upload : line.path = k
      BY Zenon DEF Bids
    <3> QED BY <2>2, <2>3
  <2> QED BY <2>4, <2>5, Zenon DEF UploadMatchesReview
<1> QED BY <1>1, AnswersAreComputed, PTL

\* The house rule, for any prices a path may have paid and cleared at, and any month:
\* no scan prices it beyond its typical month, or otherwise than another scan.
THEOREM TheTypicalMonthRules == Spec => []TypicalMonth
<1>1. Computed => TypicalMonth
  <2> SUFFICES ASSUME Computed, Answered("scan") PROVE TypicalMonth
    BY DEF TypicalMonth
  <2> DEFINE p == ask.in.path
             target == ask.in.target
             year == target[1] + 1
  <2>1. ask.in \in Paths
    BY DEF Computed, Answered
  <2>2. /\ IsPath(p) /\ target \in Int \X (1 .. 12)
        /\ \A m \in STRIP : <<<<year, m>>, p.tou>> \in DOMAIN BlockHours
    BY <2>1, PathsAssumption DEF IsPath
  <2>3. /\ answer.is.market = MarketRow(p, target)
        /\ answer.is.discover = DiscoverRow(p, target)
        /\ answer.is.strip = [m \in STRIP |-> StripRow(p, year, m)]
        /\ answer.is.book = [m \in STRIP |-> BookMark(p, BlockHours, year, m, m, 1)]
    BY DEF Computed
  <2>4. year \in Int
    BY <2>2
  <2> HIDE DEF p, target, year
  <2>5. FairlyPriced(answer.is.market, p, target)
    BY <2>2, <2>3, MarketIsFair
  <2>6. /\ FairlyPriced(answer.is.discover, p, target)
        /\ answer.is.discover.verdict = "kept" =>
             /\ answer.is.market.verdict # "faded"
             /\ answer.is.market.verdict = "kept" =>
                   answer.is.market.typical = answer.is.discover.typical
    BY <2>2, <2>3, DiscoverIsFair
  <2>7. ASSUME NEW m \in STRIP, NEW row \in answer.is.strip[m]
        PROVE  /\ 3 * row.clear < row.limit /\ row.limit <= 2 * row.value
               /\ answer.is.book[m].unpriced = 0
               /\ answer.is.book[m].worth = row.value * BlockHours[<<<<year, m>>, p.tou>>]
    <3>1. row \in StripRow(p, year, m)
      BY <2>3, <2>7
    <3>2. BlockHours[<<<<year, m>>, p.tou>>] \in Int
      BY <2>2, PathsAssumption
    <3>3. answer.is.book[m] = BookMark(p, BlockHours, year, m, m, 1)
      BY <2>3
    <3> QED BY <2>2, <2>4, <3>1, <3>2, <3>3, StripIsMarked
  <2> QED BY <2>5, <2>6, <2>7 DEF TypicalMonth, p, target, year
<1> QED BY <1>1, AnswersAreComputed, PTL

\* No program of the desk lets a decision depend on what came after it: of any
\* prices, flags and auctions, whatever the fold or the month.
THEOREM NothingFromTheFuture == Spec => []DecidedOnThePast
<1>1. Computed => DecidedOnThePast
  <2> SUFFICES ASSUME Computed PROVE DecidedOnThePast
    OBVIOUS
  <2>1. Answered("scan") =>
          \A i \in DOMAIN Window(ask.in.target).fit :
              Number(Window(ask.in.target).fit[i]) <= Number(ask.in.target) - 4
    <3> SUFFICES ASSUME Answered("scan")
                 PROVE  \A i \in DOMAIN Window(ask.in.target).fit :
                            Number(Window(ask.in.target).fit[i]) <= Number(ask.in.target) - 4
      OBVIOUS
    <3>1. ask.in.target \in Int \X (1 .. 12)
      BY PathsAssumption DEF Computed, Answered
    <3> QED BY <3>1, FittedMonths
  <2>2. Answered("backtest") =>
          LET f == ask.in.fold
              seen == Spread(ask.in.da, ask.in.rt, f.train[1], f.train[2])
                        \cup Spread(ask.in.da, ask.in.rt, f.test[1], f.test[2])
              Known(t, off) == {r \in seen : r.at < LatestFor(t, off)}
              Of(t) == {s \in answer.is.signals : s.target = t}
          IN  \A r \in seen : \A off \in {5, 6} : r.at >= f.test[1] =>
                  Of(r.at) = GenerateSignals(Known(r.at, off), {r.at})
    <3> SUFFICES ASSUME Answered("backtest")
                 PROVE  LET f == ask.in.fold
                            seen == Spread(ask.in.da, ask.in.rt, f.train[1], f.train[2])
                                      \cup Spread(ask.in.da, ask.in.rt, f.test[1], f.test[2])
                            Known(t, off) == {r \in seen : r.at < LatestFor(t, off)}
                            Of(t) == {s \in answer.is.signals : s.target = t}
                        IN  \A r \in seen : \A off \in {5, 6} : r.at >= f.test[1] =>
                                Of(r.at) = GenerateSignals(Known(r.at, off), {r.at})
      OBVIOUS
    <3> DEFINE f == ask.in.fold
               train == Spread(ask.in.da, ask.in.rt, f.train[1], f.train[2])
               test == Spread(ask.in.da, ask.in.rt, f.test[1], f.test[2])
               seen == train \cup test
               times == {r.at : r \in test}
               signals == GenerateSignals(seen, times)
    <3>1. /\ DOMAIN ask.in.da \subseteq Int /\ IsFiniteSet(DOMAIN ask.in.da)
          /\ f \in [train : Int \X Int, test : Int \X Int] /\ f.train[2] <= f.test[1]
      BY HistoriesAssumption DEF Computed, Answered
    <3>2. answer.is.signals = signals
      <4>1. answer.is = RunFold(ask.in.da, ask.in.rt, f)
        BY DEF Computed
      <4>2. RunFold(ask.in.da, ask.in.rt, f) = [signals |-> signals, score |-> Score(signals, test)]
        BY DEF RunFold
      <4> HIDE DEF signals, test
      <4> QED BY <4>1, <4>2
    <3>3. /\ IsHistory(seen) /\ IsFiniteSet(times) /\ \A t \in times : t \in Int
          /\ \A r \in seen : r.at >= f.test[1] => r \in test
      <4> HIDE DEF f
      <4> QED BY <3>1, SpreadsOfFold
    <3> HIDE DEF f, train, test
    <3>4. ASSUME NEW r \in seen, NEW off \in {5, 6}, r.at >= f.test[1]
          PROVE  {s \in answer.is.signals : s.target = r.at}
                   = GenerateSignals({q \in seen : q.at < LatestFor(r.at, off)}, {r.at})
      <4>1. r.at \in times /\ r.at \in Int
        BY <3>3, <3>4
      <4> HIDE DEF seen, times
      <4>2. LatestFor(r.at, off) \in Int /\ AsOfFor(r.at) <= LatestFor(r.at, off)
        BY <4>1, CutoffBeforeClose
      <4>3. {s \in signals : s.target = r.at} = GenerateSignals(Before(seen, LatestFor(r.at, off)), {r.at})
        BY <3>3, <4>1, <4>2, SignalsKnowNoMore
      <4> QED BY <3>2, <4>3 DEF Before
    <3> QED BY <3>4 DEF f, train, test
  <2>3. Answered("constraints") =>
          \A f \in DOMAIN answer.is :
              /\ Number(f.test) + 1 <= Number(ask.in.to)
              /\ \A h \in ask.in.hours :
                  LET known == {x \in DOMAIN ask.in.flags : x[1] < Number(f.train) \/ x = h}
                  IN  h \in answer.is[f]
                      <=> h \in FoldHours(ask.in.hours, Restrict(ask.in.flags, known), f)
    <3> SUFFICES ASSUME Answered("constraints"), NEW f \in DOMAIN answer.is
                 PROVE  /\ Number(f.test) + 1 <= Number(ask.in.to)
                        /\ \A h \in ask.in.hours :
                            LET known == {x \in DOMAIN ask.in.flags :
                                             x[1] < Number(f.train) \/ x = h}
                            IN  h \in answer.is[f]
                                <=> h \in FoldHours(ask.in.hours,
                                                    Restrict(ask.in.flags, known), f)
      OBVIOUS
    <3>1. /\ ask.in.from \in Int \X (1 .. 12) /\ ask.in.to \in Int \X (1 .. 12)
          /\ f \in WalkFolds(ask.in.from, ask.in.to)
          /\ answer.is[f] = FoldHours(ask.in.hours, ask.in.flags, f)
      BY MonthsAssumption DEF Computed, Answered
    <3>2. Number(f.test) + 1 <= Number(ask.in.to)
      <4> DEFINE from == ask.in.from
                 to == ask.in.to
      <4>1. from \in Int \X (1 .. 12) /\ to \in Int \X (1 .. 12) /\ f \in WalkFolds(from, to)
        BY <3>1
      <4> HIDE DEF from, to
      <4>2. Number(f.test) + 1 <= Number(to)
        BY <4>1, FoldsArePast
      <4> QED BY <4>2 DEF to
    <3>3. ASSUME NEW h \in ask.in.hours
          PROVE  LET known == {x \in DOMAIN ask.in.flags : x[1] < Number(f.train) \/ x = h}
                 IN  h \in answer.is[f]
                     <=> h \in FoldHours(ask.in.hours, Restrict(ask.in.flags, known), f)
      BY <3>1, FoldsArePast
    <3> QED BY <3>2, <3>3
  <2>4. Answered("hub") =>
          LET p == ask.in.path
              month == ask.in.month
              settled == {b \in DOMAIN p.paid : Number(b) < Number(month) - 1}
              cleared == {b \in DOMAIN p.auction : Number(b) < Number(month)}
          IN  answer.is.picked
              <=> HubPicked([auction |-> Restrict(p.auction, cleared),
                             paid |-> Restrict(p.paid, settled)], month)
    <3> DEFINE p == ask.in.path
               month == ask.in.month
               settled == {b \in DOMAIN p.paid : Number(b) < Number(month) - 1}
               cleared == {b \in DOMAIN p.auction : Number(b) < Number(month)}
               q == [auction |-> Restrict(p.auction, cleared), paid |-> Restrict(p.paid, settled)]
    <3> SUFFICES ASSUME Answered("hub") PROVE answer.is.picked <=> HubPicked(q, month)
      OBVIOUS
    <3>1. month \in Int \X (1 .. 12) /\ answer.is.picked = HubPicked(p, month)
      BY MonthsAssumption DEF Computed, Answered
    <3>2. q.auction = Restrict(p.auction, cleared) /\ q.paid = Restrict(p.paid, settled)
      OBVIOUS
    <3> HIDE DEF q, p, month
    <3>3. HubPicked(p, month) <=> HubPicked(q, month)
      BY <3>1, <3>2, PickedOnThePast
    <3> QED BY <3>1, <3>3
  <2> QED BY <2>1, <2>2, <2>3, <2>4 DEF DecidedOnThePast
<1> QED BY <1>1, AnswersAreComputed, PTL
=============================================================================
