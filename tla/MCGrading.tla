------------------------------ MODULE MCGrading ------------------------------
(***************************************************************************)
(* A small instance of Grading: an auction with a paper batch and a sheet. *)
(***************************************************************************)
EXTENDS Grading

CONSTANTS x, y, p1, p2

Sold(key, first, last, price, mw) ==
    [key |-> key, first |-> first, last |-> last, price |-> price, mw |-> mw]

\* The auction sells the month alone and with the next one.
SomeAwards == [a \in Auction |-> {Sold("k", 1, 1, 4, 2), Sold("k", 1, 2, 6, 1)}]

Bid(key, mw, limit) ==
    [batch |-> "batch", auction |-> "auction", key |-> key, month |-> 1, mw |-> mw,
     limit |-> limit]

SomeBids == {Bid("k", 5, 4), Bid("k", 1, 3), Bid("l", 1, 9)}

SomeRows ==
    {[sheet |-> "sheet", auction |-> "auction", key |-> "k", month |-> 1, mw |-> 0,
      limit |-> 4]}

SomePrices ==
    [a \in Auction |->
        {[node |-> "x", tou |-> "PeakWD", month |-> m, price |-> m] : m \in {1, 2}}]
=============================================================================
