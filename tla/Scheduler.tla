----------------------------- MODULE Scheduler ------------------------------
(***************************************************************************)
(* Scheduler::schedule (multi_net/Scheduler.cpp): the batches in which the *)
(* nets of one rip-up-and-reroute iteration are maze routed. The boxes of  *)
(* a job are its route guides after pre-route. Nets whose pre-route failed *)
(* and nets with a single pin are skipped; the others are scanned from the *)
(* largest estimate of grid-graph vertices down, and the list of batches   *)
(* may be reversed at the end.                                             *)
(***************************************************************************)
EXTENDS Batching, RouteStatus

CONSTANTS PreRouteStatus,    \* the verdicts pre-route may give
          Estimates          \* values of estimatedNumOfVertices

ASSUME SchedulerAssumption ==
  PreRouteStatus \subseteq Status /\ Estimates \subseteq Nat

VARIABLES
  status, estimate,          \* of each router
  sortAll, reverseBatches,   \* setting.multiNetScheduleSortAll, ...Reverse
  returned                   \* schedule() has returned

settings == <<status, estimate, sortAll, reverseBatches>>
svars == <<vars, settings, returned>>

\* mutant: nets with one pin are routed as well
skippedFailures == {j \in Jobs : ~isSucc(status[j])}

skipped == {j \in Jobs : ~isSucc(status[j]) \/ status[j] = "SUCC_ONE_PIN"}

\* std::sort leaves jobs with equal estimates in any order
Sorted(f) ==
  \A p, q \in Positions : p < q => estimate[f[p]] >= estimate[f[q]]

\* SingleNetRouter starts from SUCC_NORMAL and takes in pre-route's verdict
SchedulerInit ==
  /\ status \in [Jobs -> {Both("SUCC_NORMAL", s) : s \in PreRouteStatus}]
  /\ estimate \in [Jobs -> Estimates]
  /\ sortAll \in BOOLEAN
  /\ reverseBatches \in BOOLEAN
  /\ returned = FALSE
  /\ skip = skipped
  /\ Init
  /\ IF sortAll THEN Sorted(order) ELSE order = [p \in Positions |-> p]

Loop == Step /\ UNCHANGED <<settings, returned>>

\* the batches are reversed, if so set, as the last thing schedule() does
Reverse ==
  /\ pc = "done"
  /\ ~returned
  /\ returned' = TRUE
  /\ batches' = IF reverseBatches
                THEN [k \in 1 .. Len(batches) |-> batches[Len(batches) + 1 - k]]
                ELSE batches
  /\ UNCHANGED <<input, assigned, rtrees, lastUnroute, i, pc, settings>>

Over == returned /\ UNCHANGED svars

SchedulerNext == Loop \/ Reverse \/ Over

SchedulerSpec == SchedulerInit /\ [][SchedulerNext]_svars

-----------------------------------------------------------------------------
(* Properties                                                              *)

(* schedule() hands out exactly the nets that Router::route may maze route:*)
(* a net whose pre-route failed would be routed outside its guides, a net  *)
(* left out would stay unrouted without a failure being reported.          *)
HandsOutRoutable ==
  returned =>
    UNION {batches[k] : k \in 1 .. Len(batches)} =
      {j \in Jobs : status[j] \in {"SUCC_NORMAL", "SUCC_CONN_EXT_PIN"}}
=============================================================================
