---------------------------- MODULE MCLiveWindow ----------------------------
(***************************************************************************)
(* An instance of LiveWindow in units of five minutes, with the constants  *)
(* of jobs.py: three hours around each change of the clock.                *)
(***************************************************************************)
EXTENDS LiveWindow

\* Two runs an hour apart, which print the same stamp in the repeated hour.
Pairs == {{u, u + Hour} : u \in 0 .. Last - Hour}
=============================================================================
