------------------------------- MODULE MCJobs ------------------------------
(***************************************************************************)
(* A small instance of Jobs: two processes, two threads, one job name.     *)
(***************************************************************************)
EXTENDS Jobs

CONSTANTS a, b, j1, t1, t2
=============================================================================
