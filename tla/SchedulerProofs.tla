-------------------------- MODULE SchedulerProofs ---------------------------
(***************************************************************************)
(* Proofs about the greedy batching loop, for every number of jobs, every  *)
(* set of boxes and every margin, and about what Scheduler and             *)
(* PostScheduler add to it, for all verdicts of pre-route, all topologies  *)
(* and margins.                                                            *)
(***************************************************************************)
EXTENDS Scheduler, PostScheduler, TLAPS

Last == Len(batches)

(***************************************************************************)
(* The inductive invariant. The parts:                                     *)
(*   Filled    while a batch is scanned, the r-trees hold the grown boxes  *)
(*             of all its members, so hasConflict sees each of them;       *)
(*   Placed    the jobs assigned by the loop are those in the batches, and *)
(*             a batch only holds jobs the scan has reached;               *)
(*   Waiting   a job still unassigned is not before lastUnroute.           *)
(***************************************************************************)
Filled ==
  pc = "scan" =>
    /\ Last >= 1
    /\ \A j \in batches[Last] : \A box \in boxes[j] :
         [box |-> Grow(box), job |-> j] \in rtrees

Placed ==
  /\ pc = "simple" => simple
  /\ pc \in {"seed", "scan"} => ~simple
  /\ simple =>
       /\ assigned = skip
       /\ \A k \in 1 .. Last : \A j \in batches[k] :
            \E p \in Positions : p < i /\ order[p] = j
       /\ \A p \in Positions :
            p < i => order[p] \in skip \/ \E k \in 1 .. Last : order[p] \in batches[k]
       /\ pc = "done" => i = NumJobs
  /\ ~simple =>
       \A j \in Jobs :
         j \in assigned <=> j \in skip \/ \E k \in 1 .. Last : j \in batches[k]

Waiting ==
  ~simple =>
    /\ \A p \in Positions : p < lastUnroute => order[p] \in assigned
    /\ pc = "done" => lastUnroute = NumJobs

IInv == TypeOK /\ Filled /\ Placed /\ Waiting /\ SafeDistance /\ OncePerJob

-----------------------------------------------------------------------------

(* The geometry of a batch: when the two grown boxes do not intersect, the *)
(* boxes themselves are apart by the margin, although half an odd margin   *)
(* is rounded down on both sides.                                          *)
LEMMA GrowApart ==
  ASSUME NEW s \in Box, NEW t \in Box, ~Intersects(Grow(s), Grow(t))
  PROVE  Apart(s, t) /\ Apart(t, s)
  <1>1. CASE s.layer # t.layer
    BY <1>1 DEF Apart
  <1>2. CASE s.layer = t.layer
    <2> DEFINE m == Margin[s.layer]
               h == m \div 2
    <2>1. s.layer \in Layers /\ m \in Nat
      BY BatchingAssumption DEF Box
    <2>2. h \in Nat /\ 2 * h + 1 >= m
      BY <2>1
    <2>3. /\ s.xl \in Int /\ s.xh \in Int /\ s.yl \in Int /\ s.yh \in Int
          /\ t.xl \in Int /\ t.xh \in Int /\ t.yl \in Int /\ t.yh \in Int
      BY DEF Box
    <2>4. /\ Grow(s).layer = s.layer /\ Grow(t).layer = s.layer
          /\ Grow(s).xl = s.xl - h /\ Grow(s).xh = s.xh + h
          /\ Grow(s).yl = s.yl - h /\ Grow(s).yh = s.yh + h
          /\ Grow(t).xl = t.xl - h /\ Grow(t).xh = t.xh + h
          /\ Grow(t).yl = t.yl - h /\ Grow(t).yh = t.yh + h
      BY <1>2 DEF Grow, Box
    <2>5. \/ s.xl - h > t.xh + h \/ t.xl - h > s.xh + h
          \/ s.yl - h > t.yh + h \/ t.yl - h > s.yh + h
      <3> HIDE DEF h
      <3> QED BY <2>2, <2>3, <2>4 DEF Intersects
    <2>6. \/ t.xl - s.xh >= m \/ s.xl - t.xh >= m
          \/ t.yl - s.yh >= m \/ s.yl - t.yh >= m
      <3> HIDE DEF h, m
      <3> QED BY <2>1, <2>2, <2>3, <2>5
    <2> QED BY <1>2, <2>6 DEF Apart
  <1> QED BY <1>1, <1>2

LEMMA GrowType == ASSUME NEW box \in Box PROVE Grow(box) \in Box
  <1> DEFINE h == Margin[box.layer] \div 2
  <1>1. box.layer \in Layers /\ Margin[box.layer] \in Nat
    BY BatchingAssumption DEF Box
  <1>2. h \in Nat
    BY <1>1
  <1> HIDE DEF h
  <1>3. ASSUME NEW a \in Int, NEW b \in Int, NEW c \in Int, NEW d \in Int
        PROVE  [box EXCEPT !.xl = a, !.xh = b, !.yl = c, !.yh = d] \in Box
    BY DEF Box
  <1>4. /\ box.xl - h \in Int /\ box.xh + h \in Int
        /\ box.yl - h \in Int /\ box.yh + h \in Int
    BY <1>2 DEF Box
  <1>5. [box EXCEPT !.xl = box.xl - h, !.xh = box.xh + h,
                    !.yl = box.yl - h, !.yh = box.yh + h] \in Box
    BY <1>3, <1>4
  <1> QED BY <1>5 DEF Grow, h

LEMMA InitIInv == Init => IInv
  <1> SUFFICES ASSUME Init PROVE IInv
    OBVIOUS
  <1> USE BatchingAssumption DEF Init
  <1>0. Len(batches) = 0 /\ batches \in Seq(SUBSET Jobs)
    OBVIOUS
  <1>1. TypeOK
    BY <1>0 DEF TypeOK, Orders, Box
  <1>2. Filled /\ Waiting
    BY <1>0 DEF Filled, Waiting, Positions
  <1>3. Placed
    BY <1>0 DEF Placed, Last, Positions
  <1>4. SafeDistance /\ OncePerJob
    BY <1>0 DEF SafeDistance, OncePerJob
  <1> QED BY <1>1, <1>2, <1>3, <1>4 DEF IInv

-----------------------------------------------------------------------------
(* One step per action.                                                    *)

LEMMA SimpleStepIInv == IInv /\ SimpleStep => IInv'
  <1> SUFFICES ASSUME IInv, SimpleStep PROVE IInv'
    OBVIOUS
  <1>t. TypeOK /\ simple /\ i \in Positions /\ order[i] \in Jobs
    BY BatchingAssumption DEF IInv, SimpleStep, TypeOK, Placed, Positions, Orders
  <1>u. UNCHANGED <<boxes, skip, simple, order, assigned, rtrees, lastUnroute, pc>>
    BY DEF SimpleStep, input
  <1>1. CASE order[i] \in assigned
    <2>1. batches' = batches
      BY <1>1 DEF SimpleStep
    <2>2. TypeOK'
      BY <1>t, <1>u, <2>1, BatchingAssumption
      DEF TypeOK, SimpleStep, Orders, Positions, Box
    <2>3. Placed'
      <3>1. i' = i + 1 /\ i \in Int /\ pc = "simple" /\ assigned = skip
        BY <1>t DEF IInv, Placed, SimpleStep, TypeOK
      <3>2. \A p \in Positions : p \in Int /\ (p < i' => p < i \/ p = i)
        BY <3>1 DEF Positions
      <3>3. \A p \in Positions : p < i => p < i'
        BY <3>1 DEF Positions
      <3> QED BY <1>1, <1>t, <1>u, <2>1, <3>1, <3>2, <3>3 DEF IInv, Placed, Last
    <2>4. Filled' /\ Waiting' /\ SafeDistance' /\ OncePerJob'
      BY <1>t, <1>u, <2>1
      DEF IInv, SimpleStep, Filled, Waiting, SafeDistance, OncePerJob, Last,
          Apart, Placed
    <2> QED BY <2>2, <2>3, <2>4 DEF IInv
  <1>2. CASE order[i] \notin assigned
    <2>1. batches' = Append(batches, {order[i]})
      BY <1>2 DEF SimpleStep
    <2>2. /\ batches' \in Seq(SUBSET Jobs)
          /\ Len(batches') = Last + 1
          /\ \A k \in 1 .. Last : batches'[k] = batches[k]
          /\ batches'[Last + 1] = {order[i]}
          /\ Last \in Nat
      BY <1>t, <2>1 DEF TypeOK, Last
    <2>3. TypeOK'
      <3>1. i' \in 0 .. NumJobs
        BY <1>t, BatchingAssumption DEF SimpleStep, Positions
      <3> QED BY <1>t, <1>u, <2>2, <3>1 DEF TypeOK, Orders
    <2>4. \A k \in 1 .. Last : order[i] \notin batches[k]
      BY <1>t DEF IInv, Placed, TypeOK, Orders, Positions
    <2>5. Placed'
      <3>1. \A k \in 1 .. Last' : \A j \in batches'[k] :
              \E p \in Positions : p < i' /\ order'[p] = j
        BY <1>t, <1>u, <2>2 DEF IInv, Placed, SimpleStep, Last, Positions, TypeOK
      <3>2. \A p \in Positions : p < i' =>
              order'[p] \in skip' \/ \E k \in 1 .. Last' : order'[p] \in batches'[k]
        BY <1>t, <1>u, <2>2, SMTT(30) DEF IInv, Placed, SimpleStep, Last, Positions, TypeOK
      <3> QED BY <1>t, <1>u, <3>1, <3>2 DEF IInv, Placed, SimpleStep
    <2>6. SafeDistance'
      BY <1>u, <2>2 DEF IInv, SafeDistance, Last, Apart
    <2>7. OncePerJob'
      <3>1. order[i] \notin skip
        BY <1>2, <1>t DEF IInv, Placed
      <3>2. ASSUME NEW k \in 1 .. Last + 1, NEW l \in 1 .. Last + 1, k # l
            PROVE  batches'[k] \cap batches'[l] = {}
        <4>1. \A m \in 1 .. Last + 1 : m \in 1 .. Last \/ m = Last + 1
          BY <2>2
        <4> QED BY <2>2, <2>4, <3>2, <4>1 DEF IInv, OncePerJob, Last
      <3>3. ASSUME NEW k \in 1 .. Last + 1 PROVE batches'[k] \cap skip = {}
        BY <2>2, <3>1 DEF IInv, OncePerJob, Last
      <3> QED BY <1>u, <2>2, <3>2, <3>3 DEF OncePerJob
    <2>8. Filled' /\ Waiting'
      BY <1>t, <1>u DEF IInv, SimpleStep, Filled, Waiting, Placed
    <2> QED BY <2>3, <2>5, <2>6, <2>7, <2>8 DEF IInv
  <1> QED BY <1>1, <1>2

LEMMA SeedIInv == IInv /\ SeedBatch => IInv'
  <1> SUFFICES ASSUME IInv, SeedBatch PROVE IInv'
    OBVIOUS
  <1>t. TypeOK /\ ~simple
    BY DEF IInv, SeedBatch, Placed
  <1>u. UNCHANGED <<boxes, skip, simple, order, assigned, lastUnroute>>
    BY DEF SeedBatch, input
  <1>2. /\ batches' \in Seq(SUBSET Jobs)
        /\ Len(batches') = Last + 1
        /\ \A k \in 1 .. Last : batches'[k] = batches[k]
        /\ batches'[Last + 1] = {}
        /\ Last \in Nat
    BY <1>t DEF TypeOK, Last, SeedBatch
  <1>3. TypeOK'
    BY <1>t, <1>u, <1>2, BatchingAssumption
    DEF TypeOK, SeedBatch, Orders, Positions, Box
  <1>4. Filled'
    BY <1>2 DEF Filled, Last
  <1>5. Placed'
    <2>1. \A j \in Jobs :
            j \in assigned' <=>
              j \in skip' \/ \E k \in 1 .. Last' : j \in batches'[k]
      BY <1>t, <1>u, <1>2 DEF IInv, Placed, Last
    <2> QED BY <1>t, <1>u, <2>1 DEF Placed, SeedBatch
  <1>6. Waiting'
    BY <1>u DEF IInv, Waiting, SeedBatch
  <1>7. SafeDistance'
    BY <1>u, <1>2 DEF IInv, SafeDistance, Last, Apart
  <1>8. OncePerJob'
    BY <1>u, <1>2 DEF IInv, OncePerJob, Last
  <1> QED BY <1>3, <1>4, <1>5, <1>6, <1>7, <1>8 DEF IInv

LEMMA TakeIInv == IInv /\ TakeJob => IInv'
  <1> SUFFICES ASSUME IInv, TakeJob PROVE IInv'
    OBVIOUS
  <1> DEFINE a == order[i]
  <1>t. /\ TypeOK /\ ~simple /\ pc = "scan"
        /\ i \in Positions /\ a \in Jobs /\ a \notin assigned
    BY BatchingAssumption
    DEF IInv, TakeJob, TypeOK, Placed, Positions, Orders
  <1>u. /\ UNCHANGED <<boxes, skip, simple, order, lastUnroute, pc>>
        /\ assigned' = assigned \cup {a}
        /\ rtrees' = rtrees \cup Entries(a)
        /\ i' = i + 1
    BY DEF TakeJob, input
  <1>n. Last \in Nat /\ Last >= 1
    BY <1>t DEF IInv, Filled, TypeOK, Last
  <1>2. /\ batches' \in Seq(SUBSET Jobs)
        /\ Len(batches') = Last
        /\ \A k \in 1 .. Last :
             batches'[k] = IF k = Last THEN batches[Last] \cup {a} ELSE batches[k]
    BY <1>t, <1>n DEF TypeOK, Last, TakeJob
  <1>3. TypeOK'
    <2>1. Entries(a) \subseteq [box : Box, job : Jobs]
      BY <1>t, GrowType DEF Entries, TypeOK
    <2>2. rtrees' \subseteq [box : Box, job : Jobs] /\ assigned' \in SUBSET Jobs
      BY <1>t, <1>u, <2>1 DEF TypeOK
    <2>3. i' \in 0 .. NumJobs /\ lastUnroute' \in 0 .. NumJobs
      BY <1>t, <1>u, BatchingAssumption DEF TypeOK, Positions
    <2> QED BY <1>t, <1>u, <1>2, <2>2, <2>3 DEF TypeOK, Orders
  <1>4. Filled'
    BY <1>t, <1>u, <1>2, <1>n DEF IInv, Filled, Entries, Last
  <1>5. Placed'
    <2>1. \A j \in Jobs :
            j \in assigned' <=>
              j \in skip' \/ \E k \in 1 .. Last' : j \in batches'[k]
      BY <1>t, <1>u, <1>2, <1>n DEF IInv, Placed, Last
    <2> QED BY <1>t, <1>u, <2>1 DEF Placed
  <1>6. Waiting'
    BY <1>t, <1>u DEF IInv, Waiting
  <1>7. SafeDistance'
    <2>1. ASSUME NEW b \in batches[Last], NEW s \in boxes[a], NEW t \in boxes[b]
          PROVE  Apart(s, t) /\ Apart(t, s)
      <3>1. b \in Jobs /\ s \in Box /\ t \in Box
        BY <1>t, <1>n DEF TypeOK, Last
      <3>2. b # a
        BY <1>t, <1>n, <3>1 DEF IInv, Placed
      <3>3. [box |-> Grow(t), job |-> b] \in rtrees
        BY <1>t DEF IInv, Filled
      <3>4. ~Intersects(Grow(s), Grow(t))
        BY <3>2, <3>3 DEF TakeJob, hasConflict
      <3> QED BY <3>1, <3>4, GrowApart
    <2>2. \A k \in 1 .. Last : \A b, c \in batches'[k] :
            b # c => \A s \in boxes[b], t \in boxes[c] : Apart(s, t)
      <3> SUFFICES ASSUME NEW k \in 1 .. Last, NEW b \in batches'[k],
                          NEW c \in batches'[k], b # c,
                          NEW s \in boxes[b], NEW t \in boxes[c]
                   PROVE  Apart(s, t)
        OBVIOUS
      <3>1. CASE b \in batches[k] /\ c \in batches[k]
        BY <3>1 DEF IInv, SafeDistance, Last
      <3>2. CASE b = a /\ k = Last /\ c \in batches[Last]
        BY <3>2, <2>1
      <3>3. CASE c = a /\ k = Last /\ b \in batches[Last]
        BY <3>3, <2>1
      <3> QED BY <1>2, <3>1, <3>2, <3>3
    <2> QED BY <1>u, <1>2, <2>2 DEF SafeDistance, Apart, Last
  <1>8. OncePerJob'
    <2>1. a \notin skip /\ \A k \in 1 .. Last : a \notin batches[k]
      BY <1>t DEF IInv, Placed
    <2> QED BY <1>u, <1>2, <1>n, <2>1 DEF IInv, OncePerJob, Last
  <1> QED BY <1>3, <1>4, <1>5, <1>6, <1>7, <1>8 DEF IInv

(* The steps that leave the batches alone.                                 *)
LEMMA OtherIInv ==
  IInv /\ (SimpleEnd \/ PassOver \/ NextSeed \/ ScanEnd) => IInv'
  <1> SUFFICES ASSUME IInv, SimpleEnd \/ PassOver \/ NextSeed \/ ScanEnd
               PROVE  IInv'
    OBVIOUS
  <1>u. UNCHANGED <<boxes, skip, simple, order, assigned, batches, rtrees>>
    BY DEF SimpleEnd, PassOver, NextSeed, ScanEnd, input
  <1>1. TypeOK'
    BY <1>u, BatchingAssumption
    DEF IInv, TypeOK, SimpleEnd, PassOver, NextSeed, ScanEnd, Orders,
        Positions, Box
  <1>2. Filled'
    BY <1>u DEF IInv, Filled, Last, SimpleEnd, PassOver, NextSeed, ScanEnd
  <1>3. Placed'
    <2>1. CASE SimpleEnd
      BY <1>u, <2>1 DEF IInv, Placed, Last, SimpleEnd
    <2>2. CASE PassOver \/ NextSeed \/ ScanEnd
      <3>1. ~simple
        BY <2>2 DEF IInv, Placed, PassOver, NextSeed, ScanEnd
      <3> QED BY <1>u, <2>2, <3>1
              DEF IInv, Placed, Last, PassOver, NextSeed, ScanEnd
    <2> QED BY <2>1, <2>2
  <1>4. Waiting'
    <2>1. CASE SimpleEnd
      BY <1>u, <2>1 DEF IInv, Placed, Waiting, SimpleEnd
    <2>2. CASE PassOver
      BY <1>u, <2>2 DEF IInv, Waiting, PassOver
    <2>3. CASE NextSeed
      <3> SUFFICES ASSUME NEW p \in Positions, p < lastUnroute'
                   PROVE  order[p] \in assigned
        BY <1>u, <2>3 DEF Waiting, NextSeed
      <3> DEFINE u == lastUnroute'
      <3>1. NumJobs \in Int /\ lastUnroute \in Int /\ p \in Int
        BY BatchingAssumption DEF IInv, TypeOK, Positions
      <3>2. /\ u \in lastUnroute .. NumJobs
            /\ \A q \in lastUnroute .. u - 1 : order[q] \in assigned
        BY <2>3 DEF NextSeed
      <3>3. p < u
        OBVIOUS
      <3>4. ~simple
        BY <2>3 DEF IInv, Placed, NextSeed
      <3> HIDE DEF u
      <3>5. CASE p < lastUnroute
        BY <3>4, <3>5 DEF IInv, Waiting
      <3>6. CASE ~(p < lastUnroute)
        <4>1. u \in Int
          BY <3>1, <3>2
        <4>2. p \in lastUnroute .. u - 1
          BY <3>1, <3>3, <3>6, <4>1
        <4> QED BY <3>2, <4>2
      <3> QED BY <3>5, <3>6
    <2>4. CASE ScanEnd
      BY <1>u, <2>4, BatchingAssumption DEF IInv, Waiting, ScanEnd, TypeOK
    <2> QED BY <2>1, <2>2, <2>3, <2>4
  <1>5. SafeDistance' /\ OncePerJob'
    BY <1>u DEF IInv, SafeDistance, OncePerJob, Apart
  <1> QED BY <1>1, <1>2, <1>3, <1>4, <1>5 DEF IInv

LEMMA NextIInv == IInv /\ [Next]_vars => IInv'
  <1> SUFFICES ASSUME IInv, UNCHANGED vars PROVE IInv'
    BY SimpleStepIInv, SeedIInv, TakeIInv, OtherIInv DEF Next, Step, Done
  <1> QED BY DEF vars, IInv, TypeOK, Filled, Placed, Waiting, SafeDistance,
                 OncePerJob, Last, Orders, Apart

-----------------------------------------------------------------------------

(* The inductive invariant holds throughout the loop.                      *)
THEOREM SpecIInv == Spec => []IInv
  BY InitIInv, NextIInv, PTL DEF Spec

(* Type correctness of the loop.                                           *)
THEOREM SpecTypeOK == Spec => []TypeOK
  <1>1. IInv => TypeOK
    BY DEF IInv
  <1> QED BY <1>1, SpecIInv, PTL

(* Jobs that are processed at the same time are at least mtSafeMargin      *)
(* apart, for every set of boxes and every margin, odd ones included.      *)
THEOREM SpecSafeDistance == Spec => []SafeDistance
  <1>1. IInv => SafeDistance
    BY DEF IInv
  <1> QED BY <1>1, SpecIInv, PTL

(* No job is processed in two batches, and no skipped job in any.          *)
THEOREM SpecOncePerJob == Spec => []OncePerJob
  <1>1. IInv => OncePerJob
    BY DEF IInv
  <1> QED BY <1>1, SpecIInv, PTL

(* Where the loop ends, every position is before lastUnroute, or before i. *)
LEMMA IInvComplete == IInv => Complete
  <1> SUFFICES ASSUME IInv, pc = "done", NEW j \in Jobs
               PROVE  j \in skip \/ \E k \in 1 .. Last : j \in batches[k]
    BY DEF Complete, Last
  <1>1. PICK p \in Positions : order[p] = j
    BY DEF IInv, TypeOK, Orders
  <1>2. p < NumJobs
    BY BatchingAssumption DEF Positions
  <1>3. CASE simple
    BY <1>1, <1>2, <1>3 DEF IInv, Placed
  <1>4. CASE ~simple
    BY <1>1, <1>2, <1>4 DEF IInv, Placed, Waiting
  <1> QED BY <1>3, <1>4

(* When the loop ends, every job that was not to be skipped is in a batch. *)
THEOREM SpecComplete == Spec => []Complete
  BY IInvComplete, SpecIInv, PTL

-----------------------------------------------------------------------------
(* The schedulers                                                          *)

Assigned == UNION {batches[k] : k \in 1 .. Len(batches)}

(* While the loop runs its own invariant holds; when the list of batches   *)
(* has been returned, reversed or not, it holds all jobs not skipped.      *)
SInv ==
  /\ status \in [Jobs -> Status]
  /\ skip = skipped
  /\ ~returned => IInv
  /\ returned => pc = "done" /\ Assigned = Jobs \ skip

LEMMA BothStatus == ASSUME NEW s \in Status, NEW t \in Status PROVE Both(s, t) \in Status
  BY DEF Both

LEMMA SchedulerInitSInv == SchedulerInit => SInv
  <1> SUFFICES ASSUME SchedulerInit PROVE SInv
    OBVIOUS
  <1>1. \A s \in PreRouteStatus : Both("SUCC_NORMAL", s) \in Status
    BY BothStatus, SchedulerAssumption DEF Status, SuccStatus
  <1>2. status \in [Jobs -> Status]
    BY <1>1 DEF SchedulerInit
  <1> QED BY <1>2, InitIInv DEF SchedulerInit, SInv

(* A loop that has ended has put into batches what it did not skip.        *)
LEMMA DoneAssigned == IInv /\ pc = "done" => Assigned = Jobs \ skip
  <1> SUFFICES ASSUME IInv, pc = "done" PROVE Assigned = Jobs \ skip
    OBVIOUS
  <1>1. \A k \in 1 .. Len(batches) : batches[k] \subseteq Jobs
    BY DEF IInv, TypeOK
  <1>2. \A k \in 1 .. Len(batches) : batches[k] \cap skip = {}
    BY DEF IInv, OncePerJob
  <1>3. \A j \in Jobs : j \in skip \/ \E k \in 1 .. Len(batches) : j \in batches[k]
    BY IInvComplete DEF Complete
  <1> QED BY <1>1, <1>2, <1>3 DEF Assigned

(* Turning a sequence round loses no element.                              *)
LEMMA ReverseAssigned == IInv /\ Reverse => Assigned' = Assigned
  <1> SUFFICES ASSUME IInv, Reverse PROVE Assigned' = Assigned
    OBVIOUS
  <1> DEFINE n == Len(batches)
  <1>1. n \in Nat
    BY DEF IInv, TypeOK
  <1>2. CASE ~reverseBatches
    BY <1>2 DEF Reverse, Assigned
  <1>3. CASE reverseBatches
    <2>1. batches' = [k \in 1 .. n |-> batches[n + 1 - k]]
      BY <1>3 DEF Reverse
    <2>2. Len(batches') = n
      BY <1>1, <2>1
    <2>3. \A k \in 1 .. n : n + 1 - k \in 1 .. n /\ n + 1 - (n + 1 - k) = k
      BY <1>1
    <2> HIDE DEF n
    <2>4. \A k \in 1 .. n : batches'[k] = batches[n + 1 - k] /\ batches[k] = batches'[n + 1 - k]
      BY <2>1, <2>3
    <2>5. Assigned' = UNION {batches'[k] : k \in 1 .. n}
      BY <2>2 DEF Assigned
    <2>6. Assigned = UNION {batches[k] : k \in 1 .. n}
      BY DEF Assigned, n
    <2> QED BY <2>3, <2>4, <2>5, <2>6
  <1> QED BY <1>2, <1>3

LEMMA SchedulerNextSInv == SInv /\ [SchedulerNext]_svars => SInv'
  <1> SUFFICES ASSUME SInv, [SchedulerNext]_svars PROVE SInv'
    OBVIOUS
  <1>1. CASE Loop
    <2>1. ~returned /\ IInv
      BY <1>1 DEF SInv, Loop, Step, SimpleStep, SimpleEnd, SeedBatch, TakeJob, PassOver,
                  NextSeed, ScanEnd
    <2>2. IInv'
      BY <1>1, <2>1, NextIInv DEF Loop, Next
    <2>3. UNCHANGED <<status, skip, returned>>
      BY <1>1 DEF Loop, settings, Step, SimpleStep, SimpleEnd, SeedBatch, TakeJob, PassOver,
                  NextSeed, ScanEnd, input
    <2> QED BY <2>1, <2>2, <2>3 DEF SInv, skipped
  <1>2. CASE Reverse
    <2>1. IInv /\ pc = "done"
      BY <1>2 DEF SInv, Reverse
    <2>2. UNCHANGED <<status, skip, pc>> /\ returned'
      BY <1>2 DEF Reverse, settings, input
    <2>3. Assigned' = Jobs \ skip
      BY <1>2, <2>1, DoneAssigned, ReverseAssigned
    <2> QED BY <2>1, <2>2, <2>3 DEF SInv, skipped
  <1>3. CASE UNCHANGED svars
    <2>1. UNCHANGED <<vars, status, skip, returned, pc, batches>>
      BY <1>3 DEF svars, vars, settings
    <2>2. IInv => IInv'
      BY <2>1, NextIInv
    <2> QED BY <2>1, <2>2 DEF SInv, skipped, Assigned
  <1> QED BY <1>1, <1>2, <1>3 DEF SchedulerNext, Over

(* schedule() hands out exactly the nets that may be maze routed.          *)
THEOREM SpecHandsOutRoutable == SchedulerSpec => []HandsOutRoutable
  <1>1. SInv => HandsOutRoutable
    <2> SUFFICES ASSUME SInv, returned
                 PROVE  Jobs \ skip = {j \in Jobs : status[j] \in {"SUCC_NORMAL", "SUCC_CONN_EXT_PIN"}}
      BY DEF SInv, HandsOutRoutable, Assigned
    <2> QED BY DEF SInv, skipped, isSucc, Status, SuccStatus, FailStatus
  <1> QED BY <1>1, SchedulerInitSInv, SchedulerNextSInv, PTL DEF SchedulerSpec

-----------------------------------------------------------------------------
(* PostScheduler                                                           *)

PInv ==
  /\ IInv
  /\ topo \in [Jobs -> TopoChoices]
  /\ boxes = [j \in Jobs |-> getNetBoxes(topo[j])]

Inside(p, box) ==
  /\ box.layer = p.layer
  /\ box.xl <= getLoc(p).x /\ getLoc(p).x <= box.xh
  /\ box.yl <= getLoc(p).y /\ getLoc(p).y <= box.yh

LEMMA LocType ==
  ASSUME NEW p \in GridPoint PROVE getLoc(p).x \in Int /\ getLoc(p).y \in Int
  BY GridAssumption DEF GridPoint, getLoc

(* A segment runs along a track or along a cross point, so that its box is *)
(* as long as the segment, from whichever end it is given.                 *)
LEMMA SegmentInside ==
  ASSUME NEW e, e.u \in GridPoint, e.v \in GridPoint,
         isTrackSegment(e) \/ isWrongWaySegment(e),
         NEW p \in SegmentPoints(e)
  PROVE  Inside(p, SegmentBox(e))
  <1> DEFINE l == e.u.layer
             a == getLoc(e.u)
             b == getLoc(e.v)
             c == getLoc(p)
  <1>1. l \in GridLayers /\ e.v.layer = l /\ p.layer = l /\ p \in GridPoint
    BY DEF GridPoint, isTrackSegment, isWrongWaySegment, SegmentPoints
  <1>2. /\ e.u.track \in Range0(NumTracks[l]) /\ e.v.track \in Range0(NumTracks[l])
        /\ p.track \in Range0(NumTracks[l])
        /\ e.u.cp \in Range0(NumCrossPoints[l]) /\ e.v.cp \in Range0(NumCrossPoints[l])
        /\ p.cp \in Range0(NumCrossPoints[l])
    BY <1>1 DEF GridPoint
  <1>3. /\ e.u.track \in Int /\ e.v.track \in Int /\ p.track \in Int
        /\ e.u.cp \in Int /\ e.v.cp \in Int /\ p.cp \in Int
    BY <1>1, <1>2, GridAssumption DEF Range0
  <1>4. /\ \/ e.u.track <= p.track /\ p.track <= e.v.track
           \/ e.v.track <= p.track /\ p.track <= e.u.track
        /\ \/ e.u.cp <= p.cp /\ p.cp <= e.v.cp
           \/ e.v.cp <= p.cp /\ p.cp <= e.u.cp
    BY <1>3 DEF SegmentPoints, Between
  <1> DEFINE T(k) == TrackLoc[l][k]
             C(k) == CrossPointLoc[l][k]
  <1>5. /\ \/ T(e.u.track) <= T(p.track) /\ T(p.track) <= T(e.v.track)
           \/ T(e.v.track) <= T(p.track) /\ T(p.track) <= T(e.u.track)
        /\ \/ C(e.u.cp) <= C(p.cp) /\ C(p.cp) <= C(e.v.cp)
           \/ C(e.v.cp) <= C(p.cp) /\ C(p.cp) <= C(e.u.cp)
    BY <1>1, <1>2, <1>4, LocAssumption
  <1>6. /\ a.x \in Int /\ a.y \in Int /\ b.x \in Int /\ b.y \in Int
        /\ c.x \in Int /\ c.y \in Int
    BY <1>1, LocType
  <1>7. /\ \/ a.x <= c.x /\ c.x <= b.x
           \/ b.x <= c.x /\ c.x <= a.x
        /\ \/ a.y <= c.y /\ c.y <= b.y
           \/ b.y <= c.y /\ c.y <= a.y
        /\ a.x = b.x \/ a.y = b.y
    BY <1>1, <1>5 DEF getLoc, isTrackSegment, isWrongWaySegment
  <1>8. /\ SegmentBox(e).layer = l
        /\ \/ /\ SegmentBox(e).xl = a.x /\ SegmentBox(e).xh = b.x
              /\ SegmentBox(e).yl = a.y /\ SegmentBox(e).yh = b.y
              /\ a.x < b.x \/ (a.x = b.x /\ a.y < b.y)
           \/ /\ SegmentBox(e).xl = b.x /\ SegmentBox(e).xh = a.x
              /\ SegmentBox(e).yl = b.y /\ SegmentBox(e).yh = a.y
              /\ ~(a.x < b.x \/ (a.x = b.x /\ a.y < b.y))
    <2>1. CASE a.x < b.x \/ (a.x = b.x /\ a.y < b.y)
      <3>1. SegmentBox(e) = [layer |-> l, xl |-> a.x, xh |-> b.x, yl |-> a.y, yh |-> b.y]
        BY <1>6, <2>1 DEF SegmentBox
      <3> QED BY <2>1, <3>1
    <2>2. CASE ~(a.x < b.x \/ (a.x = b.x /\ a.y < b.y))
      <3>1. SegmentBox(e) = [layer |-> l, xl |-> b.x, xh |-> a.x, yl |-> b.y, yh |-> a.y]
        BY <1>6, <2>2 DEF SegmentBox
      <3> QED BY <2>2, <3>1
    <2> QED BY <2>1, <2>2
  <1> HIDE DEF a, b, c
  <1>9. /\ SegmentBox(e).xl <= c.x /\ c.x <= SegmentBox(e).xh
        /\ SegmentBox(e).yl <= c.y /\ c.y <= SegmentBox(e).yh
    BY <1>6, <1>7, <1>8
  <1> QED BY <1>1, <1>8, <1>9 DEF Inside, c

LEMMA PointInside == ASSUME NEW p \in GridPoint PROVE Inside(p, PointBox(p))
  BY LocType DEF Inside, PointBox

(* Whatever the edges of a topology are, its metal is in its boxes.        *)
LEMMA OccupiedInside ==
  ASSUME NEW net \in TopoChoices, NEW p \in Occupied(net)
  PROVE  p \in GridPoint /\ \E box \in getNetBoxes(net) : Inside(p, box)
  <1>1. CASE \E e \in net.edges : isVia(e) /\ p \in {e.u, e.v}
    <2>1. PICK e \in net.edges : isVia(e) /\ p \in {e.u, e.v}
      BY <1>1
    <2>2. EdgeBoxes(e) = {PointBox(e.u), PointBox(e.v)} /\ p \in GridPoint
      BY <2>1, TopoAssumption DEF EdgeBoxes
    <2>3. PointBox(p) \in getNetBoxes(net)
      BY <2>1, <2>2 DEF getNetBoxes
    <2> QED BY <2>2, <2>3, PointInside
  <1>2. CASE \E e \in net.edges : ~isVia(e) /\ p \in SegmentPoints(e)
    <2>1. PICK e \in net.edges : ~isVia(e) /\ p \in SegmentPoints(e)
      BY <1>2
    <2>2. /\ e.u \in GridPoint /\ e.v \in GridPoint
          /\ isTrackSegment(e) \/ isWrongWaySegment(e)
      BY <2>1, TopoAssumption
    <2>3. EdgeBoxes(e) = {SegmentBox(e)}
      BY <2>1, <2>2 DEF EdgeBoxes
    <2>4. SegmentBox(e) \in getNetBoxes(net) /\ p \in GridPoint
      BY <2>1, <2>3 DEF getNetBoxes, SegmentPoints
    <2> QED BY <2>1, <2>2, <2>4, SegmentInside
  <1>3. CASE \E e \in net.exts : p \in SegmentPoints(e)
    <2>1. PICK e \in net.exts : p \in SegmentPoints(e)
      BY <1>3
    <2>2. e.u \in GridPoint /\ e.v \in GridPoint /\ isTrackSegment(e)
      BY <2>1, TopoAssumption
    <2>3. SegmentBox(e) \in getNetBoxes(net) /\ p \in GridPoint
      BY <2>1 DEF getNetBoxes, SegmentPoints
    <2> QED BY <2>1, <2>2, <2>3, SegmentInside
  <1> QED BY <1>1, <1>2, <1>3 DEF Occupied

(* Points inside boxes that are apart are not near each other.             *)
LEMMA InsideApart ==
  ASSUME NEW s \in Box, NEW t \in Box, Apart(s, t),
         NEW p \in GridPoint, NEW q \in GridPoint, Inside(p, s), Inside(q, t)
  PROVE  ~Near(p, q)
  <1> SUFFICES ASSUME p.layer = q.layer PROVE ~Near(p, q)
    BY DEF Near
  <1> DEFINE margin == Margin[p.layer]
             a == getLoc(p)
             b == getLoc(q)
  <1>1. s.layer = p.layer /\ t.layer = p.layer /\ margin \in Nat
    BY BatchingAssumption DEF Inside, Box
  <1>2. /\ a.x \in Int /\ a.y \in Int /\ b.x \in Int /\ b.y \in Int
        /\ s.xl \in Int /\ s.xh \in Int /\ s.yl \in Int /\ s.yh \in Int
        /\ t.xl \in Int /\ t.xh \in Int /\ t.yl \in Int /\ t.yh \in Int
    BY LocType DEF Box
  <1>3. \/ t.xl - s.xh >= margin \/ s.xl - t.xh >= margin
        \/ t.yl - s.yh >= margin \/ s.yl - t.yh >= margin
    BY <1>1 DEF Apart
  <1>4. /\ s.xl <= a.x /\ a.x <= s.xh /\ s.yl <= a.y /\ a.y <= s.yh
        /\ t.xl <= b.x /\ b.x <= t.xh /\ t.yl <= b.y /\ b.y <= t.yh
    BY DEF Inside
  <1> HIDE DEF margin, a, b
  <1>5. \/ b.x - a.x >= margin \/ a.x - b.x >= margin
        \/ b.y - a.y >= margin \/ a.y - b.y >= margin
    BY <1>1, <1>2, <1>3, <1>4
  <1>6. ~(/\ a.x - b.x < margin /\ b.x - a.x < margin
          /\ a.y - b.y < margin /\ b.y - a.y < margin)
    BY <1>1, <1>2, <1>5
  <1> QED BY <1>6 DEF Near, margin, a, b

LEMMA PInvNeighboursApart == PInv => NeighboursApart
  <1> SUFFICES ASSUME PInv, NEW k \in 1 .. Len(batches),
                      NEW a \in batches[k], NEW b \in batches[k], a # b,
                      NEW p \in Occupied(topo[a]), NEW q \in Occupied(topo[b])
               PROVE  ~Near(p, q)
    BY DEF NeighboursApart
  <1>1. a \in Jobs /\ b \in Jobs
    BY DEF PInv, IInv, TypeOK
  <1>2. /\ topo[a] \in TopoChoices /\ topo[b] \in TopoChoices
        /\ boxes[a] = getNetBoxes(topo[a]) /\ boxes[b] = getNetBoxes(topo[b])
    BY <1>1 DEF PInv
  <1>3. PICK s \in boxes[a] : p \in GridPoint /\ Inside(p, s)
    BY <1>2, OccupiedInside
  <1>4. PICK t \in boxes[b] : q \in GridPoint /\ Inside(q, t)
    BY <1>2, OccupiedInside
  <1>5. s \in Box /\ t \in Box
    BY <1>1 DEF PInv, IInv, TypeOK
  <1>6. Apart(s, t)
    BY DEF PInv, IInv, SafeDistance
  <1> QED BY <1>3, <1>4, <1>5, <1>6, InsideApart

(* Nets that are finished at the same time are apart by mtSafeMargin, for  *)
(* every topology of vias, segments and extensions.                        *)
THEOREM SpecNeighboursApart == PostSpec => []NeighboursApart
  <1>1. PostInit => PInv
    BY InitIInv DEF PostInit, PInv
  <1>2. PInv /\ [PostNext]_pvars => PInv'
    <2> SUFFICES ASSUME PInv, [PostNext]_pvars PROVE PInv'
      OBVIOUS
    <2>1. [Next]_vars /\ UNCHANGED topo
      BY DEF PostNext, pvars
    <2>2. boxes' = boxes
      BY <2>1 DEF Next, Step, Done, SimpleStep, SimpleEnd, SeedBatch, TakeJob, PassOver,
                  NextSeed, ScanEnd, input, vars
    <2> QED BY <2>1, <2>2, NextIInv DEF PInv
  <1> QED BY <1>1, <1>2, PInvNeighboursApart, PTL DEF PostSpec
=============================================================================
