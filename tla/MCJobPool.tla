----------------------------- MODULE MCJobPool ------------------------------
(* Every call with at most 3 jobs and at most 3 threads.                   *)
EXTENDS JobPool
=============================================================================
