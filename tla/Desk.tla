-------------------------------- MODULE Desk ---------------------------------
(***************************************************************************)
(* The research desk: one invocation of one program of strategy/.  A       *)
(* program is asked something, reads the tables and prints its answer; of  *)
(* the sheets also the scripts and the page that derive them.              *)
(***************************************************************************)
EXTENDS Scans, BookBids, Sheets, Backtest, FiniteSetsExt

CONSTANTS
    Days,       \* the days to classify: pairs of a year and a date in it
    BlockHours, \* the hours of a block, by month and block
    Paths,      \* the paths the scans value: [path, target] or [path, year]
    Valuations, \* rows of path_valuations, each with a delivery month
    Books,      \* the books and what is known of their paths
    Histories,  \* the price histories of a backtest
    FlagSets,   \* the hours and the flags of a constraint, and its months
    HubPaths    \* the paths of the hub walk-forward, each with a month

VARIABLES
    ask,        \* the program invoked, and what it finds in the tables
    answer      \* what it came to, once it is done

vars == <<ask, answer>>

ASSUME DeskAssumption ==
    /\ Days \subseteq [year : Int, date : Int]
    /\ (DOMAIN HOURS) \X Blocks \subseteq DOMAIN BlockHours
    /\ \A c \in DOMAIN BlockHours : BlockHours[c] = TouHours(c[1][1], c[1][2])[c[2]]

\* What market_scan keeps has cleared at 5 cents or more, in awards of some size.
ASSUME ValuationsAssumption ==
    /\ Valuations \subseteq [month : DOMAIN HOURS, row : PathRow]
    /\ \A v \in Valuations : v.row.book = "Market" => v.row.clear >= 5 /\ v.row.mw >= 1

ASSUME BooksAssumption ==
    \A m \in Books :
        /\ \A k \in DOMAIN m.hist :
              m.hist[k].mean \in Int /\ m.hist[k].median \in Int /\ m.hist[k].hours \in Nat
        /\ \A k \in DOMAIN m.clears : m.clears[k] \in Int

\* A month is a year and a number from 1 to 12; prices are whole cents.
ASSUME PathsAssumption ==
    /\ \A c \in DOMAIN BlockHours : BlockHours[c] \in Nat
    /\ \A x \in Paths :
          /\ x.target \in Int \X (1 .. 12)
          /\ \A ym \in DOMAIN x.path.month : x.path.month[ym].paid \in Int
          /\ x.path.seqs \in Seq([clear : Int, mw : Nat])
          /\ \A m \in STRIP : <<<<x.target[1] + 1, m>>, x.path.tou>> \in DOMAIN BlockHours

\* Prices of finitely many hours; Fold ends the training before the test.
ASSUME HistoriesAssumption ==
    \A x \in Histories :
        /\ DOMAIN x.da \subseteq Int /\ IsFiniteSet(DOMAIN x.da)
        /\ x.fold \in [train : Int \X Int, test : Int \X Int]
        /\ x.fold.train[2] <= x.fold.test[1]

ASSUME MonthsAssumption ==
    /\ \A x \in FlagSets : x.from \in Int \X (1 .. 12) /\ x.to \in Int \X (1 .. 12)
    /\ \A x \in HubPaths : x.month \in Int \X (1 .. 12)

NoAnswer == [done |-> FALSE]

Init ==
    /\ \/ \E x \in Days : ask = [program |-> "calendar", in |-> x]
       \/ \E x \in Paths : ask = [program |-> "scan", in |-> x]
       \/ \E x \in Valuations : ask = [program |-> "sheet", in |-> x]
       \/ \E x \in Books : ask = [program |-> "book", in |-> x]
       \/ \E x \in Histories : ask = [program |-> "backtest", in |-> x]
       \/ \E x \in FlagSets : ask = [program |-> "constraints", in |-> x]
       \/ \E x \in HubPaths : ask = [program |-> "hub", in |-> x]
    /\ answer = NoAnswer

\* The program returns an answer to what it was asked.
Answers(program, result) ==
    /\ ask.program = program
    /\ answer = NoAnswer
    /\ answer' = [done |-> TRUE, is |-> result]
    /\ UNCHANGED ask

Classify ==
    Answers("calendar", [he \in 1 .. 25 |-> TouOf(ask.in.year, ask.in.date, he)])

\* market_scan, discover_paths and lt_strip_scan, of the same path.
Scan ==
    Answers("scan",
        [market |-> MarketRow(ask.in.path, ask.in.target),
         discover |-> DiscoverRow(ask.in.path, ask.in.target),
         strip |-> [m \in STRIP |-> StripRow(ask.in.path, ask.in.target[1] + 1, m)],
         book |-> [m \in STRIP |->
                     BookMark(ask.in.path, BlockHours, ask.in.target[1] + 1, m, m, 1)]])

\* freeze_sheet, the page and the reconstruction, of the same row.
DeriveSheet ==
    Answers("sheet", [frozen |-> FrozenRow(ask.in.row, ask.in.month),
                      shown |-> TicketRow(ask.in.row, ask.in.month),
                      rebuilt |-> RebuiltRow(ask.in.row, ask.in.month)])

\* bid_ceiling and auction_prep, of the same book.
ReadBook ==
    Answers("book", [verdicts |-> [k \in PathsOf(ask.in.book) |-> Verdict(ask.in, k)],
                     upload |-> Upload(ask.in)])

RunBacktest ==
    Answers("backtest", RunFold(ask.in.da, ask.in.rt, ask.in.fold))

WalkConstraints ==
    Answers("constraints",
        [f \in WalkFolds(ask.in.from, ask.in.to) |->
            FoldHours(ask.in.hours, ask.in.flags, f)])

WalkHub ==
    Answers("hub", [picked |-> HubPicked(ask.in.path, ask.in.month),
                    filled |-> HubFilled(ask.in.path, ask.in.month)])

Next ==
    \/ Classify \/ Scan \/ DeriveSheet \/ ReadBook
    \/ RunBacktest \/ WalkConstraints \/ WalkHub

Spec == Init /\ [][Next]_vars

-----------------------------------------------------------------------------
(* Properties.                                                             *)

Answered(program) == ask.program = program /\ answer.done

\* "Change both together": calendar.py and the migration's crr_time_of_use put
\* every hour of every date into the same block, the repeated hour 25 included.
CalendarTwins ==
    Answered("calendar") =>
        \A he \in 1 .. 25 : answer.is[he] = SqlTou(ask.in.year, ask.in.date, he)

\* "A limit of value/1.5 is beaten in at least half the months by construction",
\* and "the tail can only remove a path, never price one": whatever the tail had
\* been, the price would be the same, and a path faded by trend stays out.
FairlyPriced(row, p, target) ==
    LET fit == Paid(p, Window(target).fit, 100)
        aim == Paid(p, Window(target).target, 100)
    IN  row.verdict # "dropped" =>
          /\ row.ceiling <= 100 * row.typical
          /\ 2 * Cardinality({i \in DOMAIN fit : 18 * fit[i] >= row.typical}) >= Len(fit)
          /\ \A tail \in {<<>>, <<0, 0>>, <<1000, 1000>>} :
                LET v == ValueMonths(fit, tail, aim)
                IN  v.typical = row.typical /\ (row.verdict = "kept" => ~Trend(fit))

\* The house rule, of every scan: the price is the typical month's, no scan prices
\* a path otherwise than another, and an award is marked at the value on the sheet.
TypicalMonth ==
    Answered("scan") =>
        LET p == ask.in.path
            Kept(row) == row.verdict = "kept"
        IN  /\ FairlyPriced(answer.is.market, p, ask.in.target)
            /\ FairlyPriced(answer.is.discover, p, ask.in.target)
            /\ Kept(answer.is.discover) =>
                  /\ answer.is.market.verdict # "faded"
                  /\ Kept(answer.is.market) =>
                        answer.is.market.typical = answer.is.discover.typical
            /\ \A m \in STRIP : \A row \in answer.is.strip[m] :
                  /\ 3 * row.clear < row.limit /\ row.limit <= 2 * row.value
                  /\ answer.is.book[m].unpriced = 0
                  /\ answer.is.book[m].worth
                        = row.value * BlockHours[<<<<ask.in.target[1] + 1, m>>, p.tou>>]

\* "Bid the ceiling ... never above": a path that auction_prep uploads is none that
\* bid_ceiling tells the trader to skip, at its ceiling to the nearest cent, and
\* every path bid_ceiling values above a cent and does not skip is uploaded.
UploadMatchesReview ==
    Answered("book") =>
        LET Skipped == {"cannot value", "no value", "clears above"}
        IN  /\ \A line \in answer.is.upload :
                  LET row == answer.is.verdicts[line.path]
                  IN  /\ row.verdict \notin Skipped
                      /\ 1000 * line.price <= row.ceiling + 500
                      /\ row.ceiling <= 1000 * line.price + 500
            /\ \A k \in DOMAIN answer.is.verdicts :
                  LET row == answer.is.verdicts[k]
                  IN  row.verdict \notin Skipped /\ row.ceiling > 1000 =>
                        \E line \in answer.is.upload : line.path = k

\* "Replicates the ticket's own derivation": what is frozen is what is shown, limit,
\* tier and size, a path being red exactly if it is not to be bought; the rebuilt
\* sheet has the same rules, and the hours of the month are the calendar's.  (Two
\* rows differ by the code: one whose endpoints are gone is frozen all the same, and
\* one that cleared at nothing is sized at its limit.)
SheetAsShown ==
    Answered("sheet") =>
        LET v == ask.in.row
            frozen == answer.is.frozen
        IN  /\ v.active =>
                  /\ answer.is.shown.tier = frozen.tier /\ answer.is.shown.limit = frozen.limit
                  /\ v.clear # 0 => answer.is.shown.mw = frozen.mw
            /\ frozen.tier = "red" <=> frozen.mw = 0
            /\ v.book = "Market" => answer.is.rebuilt = frozen
            /\ HoursOf(ask.in.month, v.tou) = BlockHours[<<ask.in.month, v.tou>>]

\* "Day-ahead market closes at 10:00 CPT for the next operating day": the close for
\* hour t, in UTC, when Central time is off hours behind UTC.
DamClose(t, off) == 24 * ((t - off) \div 24 - 1) + 10 + off

\* The last that may be known of the decision on hour t.  as_of_for takes the day of t
\* in UTC for its operating day: in the evening hours of Central time, which are the
\* first off hours of a day in UTC, its cutoff lies a day after the close, and all that
\* is claimed of those is that the hour itself is yet to come.
LatestFor(t, off) == IF t % 24 < off THEN t ELSE DamClose(t, off)

\* No decision uses what came after it.  A signal is what the same rule makes of
\* only the spreads before the day-ahead market closed for its operating day, in
\* daylight and in standard time, but for an evening hour (see LatestFor); a fold of
\* the constraint walk takes the same hours whatever the flags of its other test
\* hours; a hub path is picked alike whatever it paid from the month before delivery
\* on; and neither a scan nor a fold of the walk fits a month among the latest two
\* with a price when it is run.
DecidedOnThePast ==
    /\ Answered("scan") =>
        \A i \in DOMAIN Window(ask.in.target).fit :
            Number(Window(ask.in.target).fit[i]) <= Number(ask.in.target) - 4
    /\ Answered("backtest") =>
        LET f == ask.in.fold
            seen == Spread(ask.in.da, ask.in.rt, f.train[1], f.train[2])
                      \cup Spread(ask.in.da, ask.in.rt, f.test[1], f.test[2])
            Known(t, off) == {r \in seen : r.at < LatestFor(t, off)}
            Of(t) == {s \in answer.is.signals : s.target = t}
        IN  \A r \in seen : \A off \in {5, 6} : r.at >= f.test[1] =>
                Of(r.at) = GenerateSignals(Known(r.at, off), {r.at})
    /\ Answered("constraints") =>
        \A f \in DOMAIN answer.is :
            /\ Number(f.test) + 1 <= Number(ask.in.to)
            /\ \A h \in ask.in.hours :
                LET known == {x \in DOMAIN ask.in.flags : x[1] < Number(f.train) \/ x = h}
                IN  h \in answer.is[f]
                    <=> h \in FoldHours(ask.in.hours, Restrict(ask.in.flags, known), f)
    /\ Answered("hub") =>
        LET p == ask.in.path
            month == ask.in.month
            settled == {b \in DOMAIN p.paid : Number(b) < Number(month) - 1}
            cleared == {b \in DOMAIN p.auction : Number(b) < Number(month)}
        IN  answer.is.picked
            <=> HubPicked([auction |-> Restrict(p.auction, cleared),
                           paid |-> Restrict(p.paid, settled)], month)

=============================================================================
