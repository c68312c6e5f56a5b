---------------------------- MODULE PriceLedger ----------------------------
(***************************************************************************)
(* What the price tables promise a backtest: for every key a record of     *)
(* which price was known as of every instant, to which a writer adds from  *)
(* some instant on, and whose past, once a later revision is recorded, no  *)
(* write ever alters.  The promise ends when two loads of a table overlap. *)
(***************************************************************************)
EXTENDS Integers

CONSTANTS
    Key,        \* (settlement_point, interval_start) pairs
    Price,      \* prices
    NoPrice,    \* the answer for an interval nothing is known of
    MaxClock    \* bound: last instant of the model's clock

Time == 0 .. MaxClock

Answer == Price \cup {NoPrice}

VARIABLES
    known,      \* known[k][t]: the price of k as known as of t
    frontier,   \* the stamp of the newest revision
    voided      \* has the promise ended

vars == <<known, frontier, voided>>

Init ==
    /\ known = [k \in Key |-> [t \in Time |-> NoPrice]]
    /\ frontier = 0
    /\ voided = FALSE

\* A load stamped t makes news[k] the price of k from t on.
Record(t, news) ==
    /\ ~voided
    /\ t >= frontier
    /\ frontier' = t
    /\ known' = [k \in Key |-> [s \in Time |->
                    IF s >= t /\ news[k] # NoPrice THEN news[k] ELSE known[k][s]]]
    /\ UNCHANGED voided

\* Two loads overlap, now or earlier: the record may be anything.
Void ==
    /\ voided' = TRUE
    /\ frontier' \in Time
    /\ known' \in [Key -> [Time -> Answer]]

Next == Void \/ \E t \in Time, news \in [Key -> Answer] : Record(t, news)

Spec == Init /\ [][Next]_vars
=============================================================================
