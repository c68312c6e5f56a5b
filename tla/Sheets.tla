------------------------------- MODULE Sheets --------------------------------
(***************************************************************************)
(* A sheet of bids is derived three times: scripts/freeze_sheet.py writes  *)
(* it into sheet_snapshots before the auction, the page /bids shows it,    *)
(* and scripts/reconstruct_sep_sheet.py rebuilt the one of September 2026. *)
(* A row v of path_valuations is a record: its book and block, ceiling and *)
(* clear in cents, mw, the most an auction awarded, flagged, whether it    *)
(* has warnings, and active, whether its endpoints still are.  A scan      *)
(* leaves none of them null.  Limits are in thirds of a cent.              *)
(***************************************************************************)
EXTENDS Valuation, Calendar

\* The columns of path_valuations that the derivations read.
PathRow == [book : {"Market", "Discovery"}, tou : Blocks, ceiling : Int, clear : Int,
            mw : Nat, flagged : BOOLEAN, active : BOOLEAN]

\* The hours of the blocks of a delivery month, typed in.
HOURS ==
    [month \in {<<2026, 9>>, <<2026, 10>>, <<2026, 11>>} |->
        CASE month = <<2026, 9>>  -> [PeakWD |-> 336, PeakWE |-> 144, OffPeak |-> 240]
          [] month = <<2026, 10>> -> [PeakWD |-> 352, PeakWE |-> 144, OffPeak |-> 248]
          [] month = <<2026, 11>> -> [PeakWD |-> 320, PeakWE |-> 160, OffPeak |-> 240]]

HoursOf(month, tou) == HOURS[month][IF tou = "Off-peak" THEN "OffPeak" ELSE tou]

\* floor(250 / max(hours * rate, 1)): what 250 dollars buy at a rate.
Budget250(hours, rate) == 75000 \div Greatest(hours * rate, 300)

-----------------------------------------------------------------------------
\* Mutant of FrozenLimit: a path that clears for cents is bid at full value.
FrozenLimitUncapped(v) == 2 * v.ceiling

\* ref: the ceiling over 1.5; for a clear under 50 cents at most thrice the clear.
FrozenLimit(v) ==
    IF v.clear < 50 THEN Least(2 * v.ceiling, 3 * Greatest(3 * v.clear, 10))
    ELSE 2 * v.ceiling

FrozenTier(v) ==
    LET ref == FrozenLimit(v)
    IN  CASE ref < 30 \/ (v.clear > 0 /\ ref <= 3 * v.clear) -> "red"
          [] OTHER ->
               IF /\ v.book # "Market" /\ ~v.flagged
                  /\ v.clear > 0 /\ 20 * ref > 63 * v.clear
                  /\ v.clear < 75 \/ (v.clear <= 500 /\ ref >= 6 * v.clear)
               THEN "green" ELSE "amber"

\* A clear of zero is taken for none: the rate is the limit then.
FrozenMw(v, month) ==
    LET ref == FrozenLimit(v)
        rate == IF v.clear # 0 THEN 3 * v.clear ELSE ref
    IN  IF ref < 30 \/ (v.clear > 0 /\ ref <= 3 * v.clear) THEN 0
        ELSE Greatest(1, Least(Budget250(HoursOf(month, v.tou), rate),
                               Least(Greatest(v.mw \div 2, 1), 200)))

FrozenRow(v, month) ==
    [tier |-> FrozenTier(v), limit |-> FrozenLimit(v), mw |-> FrozenMw(v, month)]

-----------------------------------------------------------------------------
\* The ticket of /bids: a row whose endpoints are gone is set aside, a red one
\* is listed without a size.
TicketRow(v, month) ==
    LET limit == IF v.clear < 50 THEN Least(2 * v.ceiling, Greatest(9 * v.clear, 30))
                 ELSE 2 * v.ceiling
        Margin(percent) == v.clear > 0 /\ 100 * limit > percent * 3 * v.clear
        edge == v.clear < 75 \/ (v.clear > 0 /\ v.clear <= 500 /\ limit >= 6 * v.clear)
        green == v.book # "Market" /\ ~v.flagged /\ Margin(105) /\ edge
    IN  CASE ~v.active -> [tier |-> "excluded"]
          [] v.active /\ (limit < 30 \/ (v.clear > 0 /\ ~Margin(100))) ->
               [tier |-> "red", limit |-> limit, mw |-> 0]
          [] OTHER ->
               [tier |-> IF green THEN "green" ELSE "amber", limit |-> limit,
                mw |-> Greatest(1, Least(Budget250(HoursOf(month, v.tou), 3 * v.clear),
                                         Least(Greatest(v.mw \div 2, 1), 200)))]

\* derive: a row of the market scan, in Python; a zero counts as none.
RebuiltRow(v, month) ==
    LET limit == IF v.clear # 0 /\ v.clear < 50
                 THEN Least(2 * v.ceiling, Greatest(9 * v.clear, 30)) ELSE 2 * v.ceiling
        rate == IF v.clear # 0 THEN 3 * v.clear ELSE limit
        bought == Budget250(HoursOf(month, v.tou), rate)
        liquid == Greatest((IF v.mw = 0 THEN 10 ELSE v.mw) \div 2, 1)
    IN  IF limit < 30 \/ (v.clear > 0 /\ limit <= 3 * v.clear)
        THEN [tier |-> "red", limit |-> limit, mw |-> 0]
        ELSE [tier |-> "amber", limit |-> limit,
              mw |-> Greatest(1, Least(IF bought > 0 THEN bought ELSE 1, Least(liquid, 200)))]
=============================================================================
