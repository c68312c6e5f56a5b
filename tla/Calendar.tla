------------------------------ MODULE Calendar -------------------------------
(***************************************************************************)
(* ercot/calendar.py: the one time-of-use calendar, and its twin in SQL.   *)
(* A date is its proleptic ordinal, as date.toordinal() counts.            *)
(***************************************************************************)
EXTENDS Integers, FiniteSets

Leap(y) == y % 400 = 0 \/ (y % 4 = 0 /\ y % 100 # 0)

\* Days before the first of month m.
DaysBefore == <<0, 31, 59, 90, 120, 151, 181, 212, 243, 273, 304, 334>>

\* date(y, m, d).
Date(y, m, d) ==
    365 * (y - 1) + (y - 1) \div 4 - (y - 1) \div 100 + (y - 1) \div 400
        + DaysBefore[m] + (IF m > 2 /\ Leap(y) THEN 1 ELSE 0) + d

\* date.weekday(): Monday is 0.
Weekday(d) == (d + 6) % 7

\* The first day of the month after month m.
MonthEnd(y, m) == IF m = 12 THEN Date(y + 1, 1, 1) ELSE Date(y, m + 1, 1)

NthWeekday(y, m, weekday, n) ==
    LET d == Date(y, m, 1) IN d + ((weekday - Weekday(d)) % 7) + 7 * (n - 1)

LastWeekday(y, m, weekday) ==
    LET d == MonthEnd(y, m) - 1 IN d - ((Weekday(d) - weekday) % 7)

Fixed(y) == {Date(y, 1, 1), Date(y, 7, 4), Date(y, 12, 25)}

\* The observed holidays of a year: Memorial Day, Labor Day, Thanksgiving, and
\* the three of a fixed date, a Sunday being observed on the Monday.
NercHolidays(y) ==
    {LastWeekday(y, 5, 0), NthWeekday(y, 9, 0, 1), NthWeekday(y, 11, 3, 4)}
        \cup {IF Weekday(d) = 6 THEN d + 1 ELSE d : d \in Fixed(y)}

\* The block of hour ending he of date d, which lies in year y.
TouOf(y, d, he) ==
    IF he \notin 7 .. 22 THEN "Off-peak"
    ELSE IF Weekday(d) >= 5 \/ d \in NercHolidays(y) THEN "PeakWE" ELSE "PeakWD"

Blocks == {"PeakWD", "PeakWE", "Off-peak"}

\* How many hours of a delivery month each block has, by hour-endings 1 to 24.
TouHours(y, m) ==
    LET days == Date(y, m, 1) .. MonthEnd(y, m) - 1
    IN  [tou \in Blocks |->
            Cardinality({c \in days \X (1 .. 24) : TouOf(y, c[1], c[2]) = tou})]

-----------------------------------------------------------------------------
(* The migration's twin: nerc_holiday(date) and crr_time_of_use(date, int). *)

IsoDow(d) == Weekday(d) + 1

\* Mutant of SqlHoliday: Thanksgiving as the last Thursday of November.
SqlHolidayLast(y, d) ==
    \/ d \in {IF IsoDow(f) = 7 THEN f + 1 ELSE f : f \in Fixed(y)}
    \/ d = Date(y, 5, 31) - ((IsoDow(Date(y, 5, 31)) - 1) % 7)
    \/ d = Date(y, 9, 1) + ((8 - IsoDow(Date(y, 9, 1))) % 7)
    \/ d = LastWeekday(y, 11, 3)

SqlHoliday(y, d) ==
    \/ d \in {IF IsoDow(f) = 7 THEN f + 1 ELSE f : f \in Fixed(y)}
    \/ d = Date(y, 5, 31) - ((IsoDow(Date(y, 5, 31)) - 1) % 7)
    \/ d = Date(y, 9, 1) + ((8 - IsoDow(Date(y, 9, 1))) % 7)
    \/ d = Date(y, 11, 1) + ((11 - IsoDow(Date(y, 11, 1))) % 7) + 21

SqlTou(y, d, he) ==
    CASE he < 7 \/ he > 22 -> "Off-peak"
      [] he \in 7 .. 22 /\ IsoDow(d) <= 5 /\ ~SqlHoliday(y, d) -> "PeakWD"
      [] OTHER -> "PeakWE"
=============================================================================
