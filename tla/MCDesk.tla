------------------------------- MODULE MCDesk -------------------------------
(***************************************************************************)
(* Small inputs of Desk.                                                   *)
(***************************************************************************)
EXTENDS Desk, TLC

\* Every day of four years: the fixed holidays fall on each side of a weekend.
AllDays ==
    UNION {{[year |-> y, date |-> d] : d \in Date(y, 1, 1) .. Date(y + 1, 1, 1) - 1} :
           y \in {2021, 2022, 2023, 2028}}

-----------------------------------------------------------------------------
(* Paths for the delivery of December 2026 and the first half of 2027.     *)

Target == <<2026, 12>>
PricedMonths == {Shift(Target, k) : k \in -24 .. -2}

\* The peak weekdays of December 2024, of 2025, of January to November 2026 and of
\* January to June 2027; Desk's assumption checks the table against the calendar.
PeakWeekdays ==
    <<21, 22, 20, 21, 22, 21, 21, 22, 21, 21, 23, 19, 22,
      21, 20, 22, 22, 20, 22, 23, 21, 21, 22, 20, 20, 20, 23, 22, 20, 22>>

Position(ym) == 12 * ym[1] + ym[2] - 12 * 2024 - 11 - (IF ym[1] = 2027 THEN 1 ELSE 0)

HoursThen ==
    [c \in (PricedMonths \cup {<<2026, 11>>} \cup {<<2027, m>> : m \in STRIP}) \X Blocks |->
        LET days == MonthEnd(c[1][1], c[1][2]) - Date(c[1][1], c[1][2], 1)
            weekdays == PeakWeekdays[Position(c[1])]
        IN  CASE c[2] = "PeakWD" -> 16 * weekdays
              [] c[2] = "PeakWE" -> 16 * (days - weekdays)
              [] c[2] = "Off-peak" -> 8 * days]

\* What a path paid: base, but in its last fitted months, in the tail, in the month
\* of delivery and in its one month of spikes.
PathOf(tou, base, recent, tail, past, spike) ==
    [ym \in PricedMonths |->
        [hours |-> BlockHours[<<ym, tou>>],
         paid |-> CASE ym \in {<<2026, 6>>, <<2026, 7>>, <<2026, 8>>} -> recent
                    [] ym \in {<<2026, 9>>, <<2026, 10>>} -> tail
                    [] ym \in {<<2024, 12>>, <<2025, 12>>} -> past
                    [] ym = <<2026, 1>> -> spike
                    [] OTHER -> base]]

SomePaths ==
    {[target |-> Target,
      path |-> [tou |-> tou, month |-> PathOf(tou, base, recent, tail, past, spike),
                median |-> 40, stale |-> stale, known |-> FALSE, clears |-> clears,
                seqs |-> [i \in DOMAIN clears |-> [clear |-> clears[i], mw |-> 30]]]] :
     tou \in Blocks, base \in {60, 400}, recent \in {10, 400}, tail \in {0, 400},
     past \in {30, 400}, spike \in {400, 3000}, stale \in BOOLEAN,
     clears \in {<<8, 6, 9>>, <<90, 5, 5, 700>>, <<8>>}}

-----------------------------------------------------------------------------
(* Rows of path_valuations, as market_scan and discover_paths leave them.  *)

\* The rows that a scan publishes: its floors on price and headroom.
Published(row) ==
    IF row.book = "Market"
    THEN /\ row.ceiling >= 10 /\ row.clear >= 5
         /\ 4 * row.ceiling > 5 * row.clear /\ row.ceiling - row.clear >= 10
    ELSE row.ceiling > 5 /\ (row.clear > 0 => 2 * row.ceiling >= 3 * row.clear)

SomeValuations ==
    {[month |-> month, row |-> row] :
     month \in DOMAIN HOURS,
     row \in {r \in [book : {"Market", "Discovery"}, tou : Blocks,
                     ceiling : {6, 15, 16, 72, 76, 119, 160, 900, 1700},
                     clear : {-20, 0, 1, 5, 12, 40, 48, 50, 75, 501}, mw : {1, 9, 500},
                     flagged : BOOLEAN, active : BOOLEAN] : Published(r)}}

-----------------------------------------------------------------------------
(* Books of one or two paths.                                              *)

Row(path, side, mw, bid) == [path |-> path, side |-> side, mw |-> mw, bid |-> bid]

SomeBooks ==
    {[book |-> <<Row("k", "BUY", 105, bid), Row("l", "BUY", 50, 20), Row("k", "SELL", 20, 90)>>,
      hist |-> [k |-> [mean |-> mean, median |-> median, hours |-> hours]],
      clears |-> clears, drivers |-> [k |-> [source |-> driven, sink |-> <<>>]]] :
     bid \in {10, 300}, mean \in {-5, 9, 10, 15, 45, 205, 600}, median \in {0, 3, 60},
     hours \in {99, 1499, 1500}, clears \in {<<>>, [k |-> 1], [k |-> 40], [k |-> 500]},
     driven \in {<<>>, <<FALSE, TRUE>>, <<FALSE, FALSE, FALSE, TRUE>>}}

-----------------------------------------------------------------------------
(* Histories of one point over four days, tested on the last two: 53 is    *)
(* the first hour of an operating day in daylight time, 74 is an evening   *)
(* hour, and 84 is at noon in UTC.                                         *)

HoursWithSpread == {4, 12, 36, 53, 74, 84}

SomeHistories ==
    {[da |-> da, rt |-> [h \in HoursWithSpread \ gap |-> 0], fold |-> Fold(0, 96, 1, 1)] :
     da \in [HoursWithSpread -> {0, 1, 30}], gap \in {{}, {12}, {53}}}

SomeFlagSets ==
    {[hours |-> (24301 .. 24313) \X (1 .. 3), flags |-> flags,
      from |-> <<2025, 1>>, to |-> to] :
     flags \in UNION {[S -> {5, 20}] :
        S \in SUBSET {<<24302, 1>>, <<24304, 2>>, <<24307, 1>>, <<24308, 1>>,
                      <<24309, 2>>, <<24311, 1>>}},
     to \in {<<2025, 10>>, <<2025, 11>>, <<2025, 12>>}}

\* A hub path of thirteen months: what it paid lately, and where it was sold.
SomeHubPaths ==
    {[month |-> <<2026, 1>>,
      path |->
        [paid |-> [ym \in {MonthAdd(<<2026, 1>>, -k) : k \in late .. 12} |->
                    CASE ym = <<2025, 11>> -> fade
                      [] Number(ym) > 24311 -> last
                      [] OTHER -> base],
         auction |-> [ym \in {MonthAdd(<<2026, 1>>, -k) : k \in sold} |->
                        [mw |-> IF ym = <<2025, 12>> THEN 0 ELSE 2, clear |-> clear]]]] :
     late \in 0 .. 3, fade \in {0, 9, 40}, base \in {0, 40}, last \in {0, 900},
     sold \in {{0, 1, 2, 3}, {2, 3}, {3}}, clear \in {1, 10, 30}}
=============================================================================
