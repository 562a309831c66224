------------------------------ MODULE JobBatch ------------------------------
(***************************************************************************)
(* What runJobsMT (db/Database.cpp) promises to its callers, who run every *)
(* parallel phase of the router through it: each job of the call is        *)
(* handled once, jobs may overlap in any way, and the call returns only    *)
(* when every job has finished, so that a phase never overlaps the next.   *)
(***************************************************************************)

CONSTANT Jobs            \* every job index a call may use

VARIABLES waiting,       \* jobs of this call no handler has been called for
          running,       \* jobs whose handler has been called, not returned
          finished,      \* jobs whose handler has returned
          returned       \* the call itself has returned

vars == <<waiting, running, finished, returned>>

Init ==
  /\ waiting \in SUBSET Jobs
  /\ running = {}
  /\ finished = {}
  /\ returned = FALSE

Start(j) ==
  /\ j \in waiting
  /\ waiting' = waiting \ {j}
  /\ running' = running \cup {j}
  /\ UNCHANGED <<finished, returned>>

Finish(j) ==
  /\ j \in running
  /\ running' = running \ {j}
  /\ finished' = finished \cup {j}
  /\ UNCHANGED <<waiting, returned>>

Return ==
  /\ waiting = {}
  /\ running = {}
  /\ returned' = TRUE
  /\ UNCHANGED <<waiting, running, finished>>

Next == Return \/ \E j \in Jobs : Start(j) \/ Finish(j)

Spec == Init /\ [][Next]_vars
=============================================================================
