------------------------------ MODULE Batching ------------------------------
(***************************************************************************)
(* The greedy loop by which Scheduler::schedule and PostScheduler::schedule*)
(* (multi_net/Scheduler.cpp) split jobs into batches whose members can be  *)
(* processed by several threads at once: scan the unassigned jobs in a     *)
(* fixed order, take each one that conflicts with none taken so far, and   *)
(* start the next batch at the first job left over.                        *)
(*                                                                         *)
(* Two jobs conflict when two of their boxes on one layer intersect after  *)
(* each is grown by half the layer's mtSafeMargin, an integer division.    *)
(* The order of the jobs inside a batch only decides who draws which job   *)
(* index (see JobPool), so a batch is a set.                               *)
(***************************************************************************)
EXTENDS Integers, Sequences

CONSTANTS NumJobs,        \* routers.size(), dbNets.size()
          Layers,
          Margin,         \* mtSafeMargin of each layer
          BoxChoices      \* the sets of boxes a job may have

Box == [layer : Layers, xl : Int, xh : Int, yl : Int, yh : Int]

ASSUME BatchingAssumption ==
  /\ NumJobs \in Nat
  /\ Margin \in [Layers -> Nat]
  /\ BoxChoices \subseteq SUBSET Box

VARIABLES
  boxes,          \* of each job: route guides, or boxes of its grid topology
  skip,           \* jobs marked as assigned before the loop
  simple,         \* setting.numThreads = 0
  order,          \* the order of the scan
  assigned, batches,
  rtrees,         \* the grown boxes of the batch being filled, with their job
  lastUnroute, i, pc

input == <<boxes, skip, simple, order>>
vars == <<boxes, skip, simple, order, assigned, batches, rtrees, lastUnroute,
          i, pc>>

Jobs == 0 .. NumJobs - 1
Positions == 0 .. NumJobs - 1

-----------------------------------------------------------------------------
(* Boxes                                                                   *)

Grow(box) ==
  LET safeMargin == Margin[box.layer] \div 2
  IN  [box EXCEPT !.xl = @ - safeMargin, !.xh = @ + safeMargin,
                  !.yl = @ - safeMargin, !.yh = @ + safeMargin]

\* mutant: boxes that touch do not conflict
Overlaps(a, b) ==
  /\ a.layer = b.layer
  /\ a.xl < b.xh /\ b.xl < a.xh
  /\ a.yl < b.yh /\ b.yl < a.yh

\* bgi::intersects: closed boxes that share at least a point
Intersects(a, b) ==
  /\ a.layer = b.layer
  /\ a.xl <= b.xh /\ b.xl <= a.xh
  /\ a.yl <= b.yh /\ b.yl <= a.yh

hasConflict(job) ==
  \E box \in boxes[job], entry \in rtrees :
     entry.job # job /\ Intersects(Grow(box), entry.box)

\* mutant: the index of the next job is recorded
EntriesOfNext(job) == {[box |-> Grow(box), job |-> job + 1] : box \in boxes[job]}

Entries(job) == {[box |-> Grow(box), job |-> job] : box \in boxes[job]}

\* a \ b disjoint on some axis by at least the layer's margin
Apart(a, b) ==
  LET margin == Margin[a.layer]
  IN  a.layer = b.layer =>
        \/ b.xl - a.xh >= margin \/ a.xl - b.xh >= margin
        \/ b.yl - a.yh >= margin \/ a.yl - b.yh >= margin

-----------------------------------------------------------------------------

\* every job is listed once
Orders ==
  {f \in [Positions -> Jobs] :
     /\ \A p, q \in Positions : f[p] = f[q] => p = q
     /\ \A j \in Jobs : \E p \in Positions : f[p] = j}

Init ==
  /\ boxes \in [Jobs -> BoxChoices]
  /\ skip \in SUBSET Jobs
  /\ simple \in BOOLEAN
  /\ order \in Orders
  /\ assigned = skip
  /\ batches = <<>>
  /\ rtrees = {}
  /\ lastUnroute = 0
  /\ i = 0
  /\ pc = IF simple THEN "simple" ELSE "seed"

\* numThreads = 0: every unassigned job is a batch of its own
SimpleStep ==
  /\ pc = "simple"
  /\ i < NumJobs
  /\ i' = i + 1
  /\ batches' = IF order[i] \in assigned THEN batches
                                         ELSE Append(batches, {order[i]})
  /\ UNCHANGED <<input, assigned, rtrees, lastUnroute, pc>>

SimpleEnd ==
  /\ pc = "simple"
  /\ i = NumJobs
  /\ pc' = "done"
  /\ UNCHANGED <<input, assigned, batches, rtrees, lastUnroute, i>>

\* create a new batch from a seed
SeedBatch ==
  /\ pc = "seed"
  /\ lastUnroute < NumJobs
  /\ batches' = Append(batches, {})
  /\ rtrees' = {}
  /\ i' = lastUnroute
  /\ pc' = "scan"
  /\ UNCHANGED <<input, assigned, lastUnroute>>

\* mutant: the job is not marked as assigned
TakeJobUnmarked ==
  /\ pc = "scan"
  /\ i < NumJobs
  /\ order[i] \notin assigned
  /\ ~hasConflict(order[i])
  /\ batches' = [batches EXCEPT ![Len(batches)] = @ \cup {order[i]}]
  /\ rtrees' = rtrees \cup Entries(order[i])
  /\ i' = i + 1
  /\ UNCHANGED <<input, assigned, lastUnroute, pc>>

TakeJob ==
  /\ pc = "scan"
  /\ i < NumJobs
  /\ order[i] \notin assigned
  /\ ~hasConflict(order[i])
  /\ batches' = [batches EXCEPT ![Len(batches)] = @ \cup {order[i]}]
  /\ assigned' = assigned \cup {order[i]}
  /\ rtrees' = rtrees \cup Entries(order[i])
  /\ i' = i + 1
  /\ UNCHANGED <<input, lastUnroute, pc>>

\* mutant: the loop does not go on after a conflict
PassOverStays ==
  /\ pc = "scan"
  /\ i < NumJobs
  /\ order[i] \in assigned \/ hasConflict(order[i])
  /\ i' = i
  /\ UNCHANGED <<input, assigned, batches, rtrees, lastUnroute, pc>>

PassOver ==
  /\ pc = "scan"
  /\ i < NumJobs
  /\ order[i] \in assigned \/ hasConflict(order[i])
  /\ i' = i + 1
  /\ UNCHANGED <<input, assigned, batches, rtrees, lastUnroute, pc>>

\* mutant: the loop steps past the job that stops it
NextSeedPast ==
  /\ pc = "scan"
  /\ i = NumJobs
  /\ \E seed \in lastUnroute .. NumJobs :
       /\ \A p \in lastUnroute .. seed - 1 : order[p] \in assigned
       /\ seed < NumJobs => order[seed] \notin assigned
       /\ lastUnroute' = IF seed < NumJobs THEN seed + 1 ELSE seed
  /\ pc' = "seed"
  /\ UNCHANGED <<input, assigned, batches, rtrees, i>>

\* find the next seed
NextSeed ==
  /\ pc = "scan"
  /\ i = NumJobs
  /\ lastUnroute' \in lastUnroute .. NumJobs
  /\ \A p \in lastUnroute .. lastUnroute' - 1 : order[p] \in assigned
  /\ lastUnroute' < NumJobs => order[lastUnroute'] \notin assigned
  /\ pc' = "seed"
  /\ UNCHANGED <<input, assigned, batches, rtrees, i>>

ScanEnd ==
  /\ pc = "seed"
  /\ lastUnroute >= NumJobs
  /\ pc' = "done"
  /\ UNCHANGED <<input, assigned, batches, rtrees, lastUnroute, i>>

Step ==
  \/ SimpleStep \/ SimpleEnd
  \/ SeedBatch \/ TakeJob \/ PassOver \/ NextSeed \/ ScanEnd

Done == pc = "done" /\ UNCHANGED vars

Next == Step \/ Done

Spec == Init /\ [][Next]_vars

\* one thread runs the loop
FairSpec == Spec /\ WF_vars(Step)

-----------------------------------------------------------------------------
(* Properties                                                              *)

TypeOK ==
  /\ boxes \in [Jobs -> SUBSET Box]
  /\ skip \in SUBSET Jobs
  /\ simple \in BOOLEAN
  /\ order \in Orders
  /\ assigned \in SUBSET Jobs
  /\ batches \in Seq(SUBSET Jobs)
  /\ rtrees \subseteq [box : Box, job : Jobs]
  /\ lastUnroute \in 0 .. NumJobs
  /\ i \in 0 .. NumJobs
  /\ pc \in {"simple", "seed", "scan", "done"}

(* Two jobs of one batch, which will be routed (or finished) at the same   *)
(* time, stay at least mtSafeMargin apart on every layer: halving an odd   *)
(* margin loses a unit on each side, which the closed intersection test    *)
(* of hasConflict must make up for.                                        *)
SafeDistance ==
  \A k \in 1 .. Len(batches) : \A a, b \in batches[k] :
     a # b => \A s \in boxes[a], t \in boxes[b] : Apart(s, t)

(* No job is put into two batches, and none that was to be skipped (a net  *)
(* with one pin, or whose pre-route failed) is put into any.               *)
OncePerJob ==
  /\ \A k, l \in 1 .. Len(batches) :
        k # l => batches[k] \cap batches[l] = {}
  /\ \A k \in 1 .. Len(batches) : batches[k] \cap skip = {}

(* When the loop ends no job has been forgotten: the seed's advance over   *)
(* assigned jobs never steps over one that is still waiting.               *)
Complete ==
  pc = "done" =>
    \A j \in Jobs : j \in skip \/ \E k \in 1 .. Len(batches) : j \in batches[k]

(* The loop terminates: each new batch takes at least the job it is seeded *)
(* with, so lastUnroute advances.                                          *)
Terminates == <>(pc = "done")
=============================================================================
