------------------------------- MODULE MCFeeds -------------------------------
(*****************************************************************************)
(* Small instances of Feeds: documents about the first and the last of three *)
(* days, with up to four rows, of which some may be flawed, or that cannot   *)
(* be read.                                                                  *)
(*****************************************************************************)
EXTENDS Feeds

Raw(k, flaw) == [k |-> k, flaw |-> flaw]

Document(about, rows) == [about |-> about, rows |-> rows, readable |-> TRUE]

Documents ==
    {Document(1, <<Raw(1, "none")>>),
     Document(1, <<Raw(2, "undated"), Raw(1, "none"), Raw(2, "none")>>),
     Document(3, <<Raw(1, "unnamed"), Raw(1, "none"), Raw(1, "series"), Raw(2, "buy")>>),
     [Document(1, <<Raw(1, "none")>>) EXCEPT !.readable = FALSE]}
=============================================================================
