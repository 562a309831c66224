--------------------------- MODULE JobPoolProofs ----------------------------
(***************************************************************************)
(* Proofs about runJobsMT for every number of jobs and of threads: each    *)
(* job is handled at most once, the call is a barrier, and the workers     *)
(* implement the abstract batch of jobs.                                   *)
(***************************************************************************)
EXTENDS JobPool, TLAPS

(***************************************************************************)
(* The inductive invariant. Drawn(t): worker t holds an index the counter  *)
(* has passed, and nobody else holds it. The parts:                        *)
(*   Mutex     the mutex holder is the one worker inside the section, so   *)
(*             the index it read is still the counter's value;             *)
(*   Fresh     indices the counter has not passed have not been handled;   *)
(*   Owned     an index the counter has passed is finished or drawn;       *)
(*   Caller    what the caller's loop variable says of the workers.        *)
(***************************************************************************)
Inside(t) == pc[t] \in {"read", "bump", "unlock"}
Drawn(t)  == pc[t] \in {"unlock", "check", "handle"}
Parallel  == numThreads > 1

Mutex ==
  /\ \A t \in Threads : Inside(t) <=> mtx = t
  /\ \A t \in Threads : pc[t] = "bump" => jobIdx[t] = globalJobIdx

Fresh ==
  /\ \A t \in Threads : Drawn(t) => jobIdx[t] < globalJobIdx
  /\ \A t, u \in Threads :
        Drawn(t) /\ Drawn(u) /\ jobIdx[t] = jobIdx[u] => t = u
  /\ Parallel =>
       /\ \A j \in Jobs : j >= globalJobIdx => started[j] = 0
       /\ \A t \in Threads : \A j \in Jobs :
            /\ pc[t] \in {"unlock", "check"} /\ jobIdx[t] = j => started[j] = 0
            /\ pc[t] = "handle" /\ jobIdx[t] = j =>
                 started[j] = 1 /\ j \notin finished

Owned ==
  /\ \A t \in Threads : pc[t] = "handle" => jobIdx[t] < numJobs
  /\ \A j \in Jobs :
       /\ started[j] <= 1
       /\ j \in finished => started[j] = 1 /\ j < numJobs
       /\ started[j] # 0 => j < numJobs
  /\ Parallel =>
       /\ \A j \in Jobs : j < globalJobIdx /\ j < numJobs =>
            \/ j \in finished
            \/ \E t \in Threads : Drawn(t) /\ jobIdx[t] = j
       /\ \A j \in Jobs : started[j] # 0 =>
            \/ j \in finished
            \/ \E t \in Threads : pc[t] = "handle" /\ jobIdx[t] = j
       /\ \A t \in Threads : pc[t] = "exited" => globalJobIdx > numJobs

CallerInv ==
  /\ Parallel =>
       /\ main \in {"spawn", "join", "returned"}
       /\ main = "spawn" =>
            /\ i < numThreads
            /\ \A t \in Threads : t >= i => pc[t] = "unborn"
       /\ main \in {"join", "returned"} => i <= numThreads
       /\ main = "join" => i < numThreads
       /\ main = "returned" => i = numThreads
       /\ \A t \in Threads : t >= numThreads => pc[t] = "unborn"
       /\ main \in {"join", "returned"} =>
            \A t \in Threads : t < i => pc[t] = "exited"
  /\ ~Parallel =>
       /\ main \in {"seq", "seqHandle", "returned"}
       /\ i <= numJobs
       /\ main = "seqHandle" => i < numJobs
       /\ main = "returned" => i = numJobs
       /\ \A t \in Threads : pc[t] = "unborn"
       /\ \A j \in Jobs : j \in finished <=> j < i
       /\ \A j \in Jobs :
            started[j] = IF j < i \/ (j = i /\ main = "seqHandle") THEN 1 ELSE 0

IInv == TypeOK /\ Mutex /\ Fresh /\ Owned /\ CallerInv

-----------------------------------------------------------------------------

(* A call starts with no index drawn and no worker alive.                  *)
LEMMA InitIInv == Init => IInv
  BY BoundsAssumption
  DEF Init, IInv, TypeOK, Mutex, Fresh, Owned, CallerInv, Inside, Drawn,
      Parallel, numThreads, Threads, Jobs, Free

(* Thread numbers are not the free mark, and the size of the crew is fixed *)
(* for the call.                                                           *)
LEMMA ThreadFacts == Threads \subseteq Nat /\ Free \notin Threads
  BY BoundsAssumption DEF Threads, Free

LEMMA JobFacts == Jobs \subseteq Nat
  BY BoundsAssumption DEF Jobs

LEMMA CrewFixed ==
  UNCHANGED args => numThreads' = numThreads /\ (Parallel' <=> Parallel)
  BY DEF args, numThreads, Parallel

LEMMA CrewSize ==
  TypeOK => /\ numThreads \in Nat
            /\ numThreads <= numJobs
            /\ numThreads <= MaxThreads
            /\ numJobs \in Nat
  BY BoundsAssumption DEF TypeOK, numThreads

LEMMA CallerStep == IInv /\ Caller => IInv'
  <1> SUFFICES ASSUME IInv, Caller PROVE IInv'
    OBVIOUS
  <1>1. CASE SeqBegin
    BY <1>1, BoundsAssumption
    DEF SeqBegin, IInv, TypeOK, Mutex, Fresh, Owned, CallerInv, Inside, Drawn,
        Parallel, numThreads, Threads, Jobs, Free, args
  <1>2. CASE SeqEnd
    BY <1>2, BoundsAssumption, SMTT(30)
    DEF SeqEnd, IInv, TypeOK, Mutex, Fresh, Owned, CallerInv, Inside, Drawn,
        Parallel, numThreads, Threads, Jobs, Free, args
  <1>3. CASE SeqReturn
    BY <1>3, BoundsAssumption
    DEF SeqReturn, IInv, TypeOK, Mutex, Fresh, Owned, CallerInv, Inside, Drawn,
        Parallel, numThreads, Threads, Jobs, Free, args
  <1>4. ASSUME Spawn PROVE IInv'
    <2>p. Parallel
      BY <1>4 DEF Spawn, IInv, CallerInv
    <2>a. UNCHANGED args
      BY <1>4 DEF Spawn
    <2>n. numThreads' = numThreads /\ Parallel'
      BY <2>p, <2>a, CrewFixed
    <2>t. TypeOK /\ Mutex /\ Fresh /\ Owned /\ CallerInv
      BY DEF IInv
    <2>i. i \in Threads
      BY <2>p, <2>t, <1>4, CrewSize, BoundsAssumption
      DEF Spawn, CallerInv, TypeOK, Threads
    <2> USE <1>4, <2>p, <2>n, <2>t, <2>i, ThreadFacts, JobFacts, CrewSize
        DEF Spawn, args
    <2>1. TypeOK'
      BY DEF TypeOK
    <2>2. Mutex'
      BY DEF Mutex, Inside, TypeOK, CallerInv
    <2>3. Fresh'
      BY DEF Fresh, Drawn, TypeOK, CallerInv
    <2>4. Owned'
      BY DEF Owned, Drawn, TypeOK, CallerInv
    <2>5. CallerInv'
      BY DEF CallerInv, TypeOK
    <2> QED BY <2>1, <2>2, <2>3, <2>4, <2>5 DEF IInv
  <1>5. ASSUME Join PROVE IInv'
    <2>p. Parallel
      BY <1>5 DEF Join, IInv, CallerInv
    <2>a. UNCHANGED args
      BY <1>5 DEF Join
    <2>n. numThreads' = numThreads /\ Parallel'
      BY <2>p, <2>a, CrewFixed
    <2>t. TypeOK /\ Mutex /\ Fresh /\ Owned /\ CallerInv
      BY DEF IInv
    <2>i. i \in Threads
      BY <2>p, <2>t, <1>5, CrewSize, BoundsAssumption
      DEF Join, CallerInv, TypeOK, Threads
    <2> USE <1>5, <2>p, <2>n, <2>t, <2>i, ThreadFacts, JobFacts, CrewSize
        DEF Join, args
    <2>1. TypeOK'
      BY DEF TypeOK
    <2>2. Mutex'
      BY DEF Mutex, Inside, TypeOK, CallerInv
    <2>3. Fresh'
      BY DEF Fresh, Drawn, TypeOK, CallerInv
    <2>4. Owned'
      BY DEF Owned, Drawn, TypeOK, CallerInv
    <2>5. CallerInv'
      BY DEF CallerInv, TypeOK
    <2> QED BY <2>1, <2>2, <2>3, <2>4, <2>5 DEF IInv
  <1> QED BY <1>1, <1>2, <1>3, <1>4, <1>5 DEF Caller

(* A worker runs only in a parallel call, which leaves CallerInv alone but *)
(* for the workers that have exited.                                       *)
LEMMA WorkerStep == ASSUME NEW t \in Threads, IInv, Worker(t) PROVE IInv'
  <1>p. Parallel
    BY DEF IInv, CallerInv, TypeOK, Worker, Lock, ReadIdx, BumpIdx, Unlock,
           Exit, HandleBegin, HandleEnd
  <1>a. UNCHANGED args
    BY DEF Worker, Lock, ReadIdx, BumpIdx, Unlock, Exit, HandleBegin,
           HandleEnd
  <1>n. numThreads' = numThreads /\ Parallel'
    BY <1>p, <1>a, CrewFixed
  <1>t. TypeOK /\ Mutex /\ Fresh /\ Owned /\ CallerInv
    BY DEF IInv
  <1> USE <1>p, <1>n, <1>t, ThreadFacts, JobFacts, CrewSize
  <1>1. CASE Lock(t)
    <2> USE <1>1 DEF Lock, args
    <2>1. TypeOK'
      BY DEF TypeOK
    <2>2. Mutex'
      BY DEF Mutex, Inside, TypeOK
    <2>3. Fresh'
      BY DEF Fresh, Drawn, Mutex, Inside, Owned, TypeOK
    <2>4. Owned'
      BY DEF Owned, Drawn, Fresh, Mutex, Inside, TypeOK
    <2>5. CallerInv'
      BY DEF CallerInv, TypeOK
    <2> QED BY <2>1, <2>2, <2>3, <2>4, <2>5 DEF IInv
  <1>2. CASE ReadIdx(t)
    <2> USE <1>2 DEF ReadIdx, args
    <2>1. TypeOK'
      BY DEF TypeOK
    <2>2. Mutex'
      BY DEF Mutex, Inside, TypeOK
    <2>3. Fresh'
      BY DEF Fresh, Drawn, Mutex, Inside, Owned, TypeOK
    <2>4. Owned'
      BY DEF Owned, Drawn, Fresh, Mutex, Inside, TypeOK
    <2>5. CallerInv'
      BY DEF CallerInv, TypeOK
    <2> QED BY <2>1, <2>2, <2>3, <2>4, <2>5 DEF IInv
  <1>3. CASE BumpIdx(t)
    <2> USE <1>3 DEF BumpIdx, args
    <2>1. TypeOK'
      BY DEF TypeOK
    <2>2. Mutex'
      BY DEF Mutex, Inside, TypeOK
    <2>3. Fresh'
      BY DEF Fresh, Drawn, Mutex, Inside, Owned, TypeOK
    <2>4. Owned'
      BY DEF Owned, Drawn, Fresh, Mutex, Inside, TypeOK
    <2>5. CallerInv'
      BY DEF CallerInv, TypeOK
    <2> QED BY <2>1, <2>2, <2>3, <2>4, <2>5 DEF IInv
  <1>4. CASE Unlock(t)
    <2> USE <1>4 DEF Unlock, args
    <2>1. TypeOK'
      BY DEF TypeOK
    <2>2. Mutex'
      BY DEF Mutex, Inside, TypeOK
    <2>3. Fresh'
      BY DEF Fresh, Drawn, Mutex, Inside, Owned, TypeOK
    <2>4. Owned'
      BY DEF Owned, Drawn, Fresh, Mutex, Inside, TypeOK
    <2>5. CallerInv'
      BY DEF CallerInv, TypeOK
    <2> QED BY <2>1, <2>2, <2>3, <2>4, <2>5 DEF IInv
  <1>5. CASE Exit(t)
    <2> USE <1>5 DEF Exit, args
    <2>1. TypeOK'
      BY DEF TypeOK
    <2>2. Mutex'
      BY DEF Mutex, Inside, TypeOK
    <2>3. Fresh'
      BY DEF Fresh, Drawn, Mutex, Inside, Owned, TypeOK
    <2>4. Owned'
      BY DEF Owned, Drawn, Fresh, Mutex, Inside, TypeOK
    <2>5. CallerInv'
      BY DEF CallerInv, TypeOK
    <2> QED BY <2>1, <2>2, <2>3, <2>4, <2>5 DEF IInv
  <1>6. CASE HandleBegin(t)
    <2> USE <1>6 DEF HandleBegin, args
    <2>j. jobIdx[t] \in Jobs /\ started[jobIdx[t]] = 0
      BY BoundsAssumption DEF Jobs, Fresh, TypeOK
    <2>1. TypeOK'
      BY <2>j DEF TypeOK
    <2>2. Mutex'
      BY DEF Mutex, Inside, TypeOK
    <2>3. Fresh'
      BY DEF Fresh, Drawn, Mutex, Inside, Owned, TypeOK
    <2>4. Owned'
      <3>1. \A u \in Threads : pc'[u] = "handle" => jobIdx'[u] < numJobs'
        BY DEF Owned, TypeOK
      <3>2. \A j \in Jobs :
              /\ started'[j] <= 1
              /\ j \in finished' => started'[j] = 1 /\ j < numJobs'
              /\ started'[j] # 0 => j < numJobs'
        BY <2>j DEF Owned, TypeOK
      <3>3. \A j \in Jobs : j < globalJobIdx' /\ j < numJobs' =>
              \/ j \in finished'
              \/ \E u \in Threads : Drawn(u)' /\ jobIdx'[u] = j
        BY DEF Owned, Drawn, TypeOK
      <3>4. \A j \in Jobs : started'[j] # 0 =>
              \/ j \in finished'
              \/ \E u \in Threads : pc'[u] = "handle" /\ jobIdx'[u] = j
        BY <2>j DEF Owned, TypeOK
      <3>5. \A u \in Threads : pc'[u] = "exited" => globalJobIdx' > numJobs'
        BY DEF Owned, TypeOK
      <3> QED BY <3>1, <3>2, <3>3, <3>4, <3>5 DEF Owned
    <2>5. CallerInv'
      BY DEF CallerInv, TypeOK
    <2> QED BY <2>1, <2>2, <2>3, <2>4, <2>5 DEF IInv
  <1>7. CASE HandleEnd(t)
    <2> USE <1>7 DEF HandleEnd, args
    <2>j. jobIdx[t] \in Jobs /\ started[jobIdx[t]] = 1
      BY BoundsAssumption DEF Jobs, Fresh, Owned, TypeOK
    <2>1. TypeOK'
      BY <2>j DEF TypeOK
    <2>2. Mutex'
      BY DEF Mutex, Inside, TypeOK
    <2>3. Fresh'
      BY DEF Fresh, Drawn, Mutex, Inside, Owned, TypeOK
    <2>4. Owned'
      <3>1. \A u \in Threads : pc'[u] = "handle" => jobIdx'[u] < numJobs'
        BY DEF Owned, TypeOK
      <3>2. \A j \in Jobs :
              /\ started'[j] <= 1
              /\ j \in finished' => started'[j] = 1 /\ j < numJobs'
              /\ started'[j] # 0 => j < numJobs'
        BY <2>j DEF Owned, TypeOK
      <3>3. \A j \in Jobs : j < globalJobIdx' /\ j < numJobs' =>
              \/ j \in finished'
              \/ \E u \in Threads : Drawn(u)' /\ jobIdx'[u] = j
        BY DEF Owned, Drawn, TypeOK
      <3>4. \A j \in Jobs : started'[j] # 0 =>
              \/ j \in finished'
              \/ \E u \in Threads : pc'[u] = "handle" /\ jobIdx'[u] = j
        BY <2>j DEF Owned, TypeOK
      <3>5. \A u \in Threads : pc'[u] = "exited" => globalJobIdx' > numJobs'
        BY DEF Owned, TypeOK
      <3> QED BY <3>1, <3>2, <3>3, <3>4, <3>5 DEF Owned
    <2>5. CallerInv'
      BY DEF CallerInv, TypeOK
    <2> QED BY <2>1, <2>2, <2>3, <2>4, <2>5 DEF IInv
  <1> QED BY <1>1, <1>2, <1>3, <1>4, <1>5, <1>6, <1>7 DEF Worker

LEMMA NextIInv == IInv /\ [Next]_vars => IInv'
  <1> SUFFICES ASSUME IInv, [Next]_vars PROVE IInv'
    OBVIOUS
  <1>1. CASE Caller
    BY <1>1, CallerStep
  <1>2. CASE \E t \in Threads : Worker(t)
    BY <1>2, WorkerStep
  <1>3. CASE UNCHANGED vars
    BY <1>3
    DEF vars, IInv, TypeOK, Mutex, Fresh, Owned, CallerInv, Inside, Drawn,
        Parallel, numThreads
  <1> QED BY <1>1, <1>2, <1>3 DEF Next, Returned

(* The inductive invariant holds of every call.                            *)
THEOREM SpecIInv == Spec => []IInv
  BY InitIInv, NextIInv, PTL DEF Spec

(* Type correctness of runJobsMT.                                          *)
THEOREM SpecTypeOK == Spec => []TypeOK
  <1>1. IInv => TypeOK
    BY DEF IInv
  <1> QED BY <1>1, SpecIInv, PTL

(* No job of a call is handled twice, for any number of jobs and threads.  *)
THEOREM SpecAtMostOnce == Spec => []AtMostOnce
  <1>1. IInv => AtMostOnce
    BY DEF IInv, Owned, AtMostOnce
  <1> QED BY <1>1, SpecIInv, PTL

LEMMA IInvBarrier == IInv => Barrier
  <1> SUFFICES ASSUME IInv, main = "returned" PROVE Barrier
    BY DEF Barrier
  <1>1. CASE Parallel
    <2>1. \A t \in Threads : pc[t] \in {"unborn", "exited"}
      BY <1>1, ThreadFacts, CrewSize DEF IInv, CallerInv, TypeOK
    <2>2. 0 \in Threads /\ pc[0] = "exited"
      BY <1>1, CrewSize, BoundsAssumption
      DEF IInv, CallerInv, TypeOK, Parallel, Threads
    <2>3. \A j \in Jobs : j < numJobs => j \in finished
      BY <1>1, <2>1, <2>2, JobFacts, CrewSize DEF IInv, Owned, Drawn, TypeOK
    <2> QED BY <2>1, <2>3 DEF Barrier, IInv, Owned
  <1>2. CASE ~Parallel
    BY <1>2 DEF Barrier, IInv, CallerInv
  <1> QED BY <1>1, <1>2

(* When the call returns, every job has been handled and the workers are   *)
(* gone, for any number of jobs and threads.                               *)
THEOREM SpecBarrier == Spec => []Barrier
  BY IInvBarrier, SpecIInv, PTL

-----------------------------------------------------------------------------
(* Refinement: each step of the call is a step of the abstract batch, or   *)
(* leaves the batch alone. The handlers' begins and ends and the caller's  *)
(* last join (or loop test) are its only visible steps.                    *)

LEMMA InitBatch == Init => Batch!Init
  BY DEF Init, Batch!Init, waitingJobs, runningJobs, numThreads, Threads

LEMMA CallerBatch == IInv /\ IInv' /\ Caller => [Batch!Next]_(Batch!vars)
  <1> SUFFICES ASSUME IInv, IInv', Caller PROVE [Batch!Next]_(Batch!vars)
    OBVIOUS
  <1>t. TypeOK /\ CallerInv /\ Owned
    BY DEF IInv
  <1>1. CASE SeqBegin
    <2>1. ~Parallel /\ i \in Jobs /\ i \in waitingJobs
      BY <1>1, <1>t, BoundsAssumption
      DEF SeqBegin, CallerInv, TypeOK, waitingJobs, Jobs
    <2>2. runningJobs = {} /\ runningJobs' = {i}
      BY <1>1, <1>t, <2>1 DEF SeqBegin, CallerInv, runningJobs
    <2>3. waitingJobs' = waitingJobs \ {i}
      BY <1>1, <1>t, <2>1 DEF SeqBegin, TypeOK, waitingJobs, args
    <2>4. Batch!Start(i)
      BY <1>1, <2>1, <2>2, <2>3 DEF SeqBegin, Batch!Start
    <2> QED BY <2>1, <2>4 DEF Batch!Next
  <1>2. CASE SeqEnd
    <2>1. ~Parallel /\ i \in Jobs
      BY <1>2, <1>t, BoundsAssumption DEF SeqEnd, CallerInv, TypeOK, Jobs
    <2>2. runningJobs = {i} /\ runningJobs' = {}
      BY <1>2, <1>t, <2>1 DEF SeqEnd, CallerInv, runningJobs
    <2>3. waitingJobs' = waitingJobs
      BY <1>2 DEF SeqEnd, waitingJobs, args
    <2>4. Batch!Finish(i)
      BY <1>2, <2>2, <2>3 DEF SeqEnd, Batch!Finish
    <2> QED BY <2>1, <2>4 DEF Batch!Next
  <1>3. CASE SeqReturn
    <2>1. ~Parallel
      BY <1>3, <1>t DEF SeqReturn, CallerInv
    <2>2. runningJobs = {} /\ runningJobs' = {}
      BY <1>3, <1>t, <2>1 DEF SeqReturn, CallerInv, runningJobs
    <2>3. waitingJobs = {} /\ waitingJobs' = {}
      <3>1. \A j \in Jobs : j < numJobs => started[j] = 1
        BY <1>3, <1>t, <2>1, JobFacts, CrewSize
        DEF SeqReturn, CallerInv, TypeOK
      <3> QED BY <1>3, <3>1 DEF SeqReturn, waitingJobs, args
    <2>4. Batch!Return
      BY <1>3, <2>2, <2>3 DEF SeqReturn, Batch!Return
    <2> QED BY <2>4 DEF Batch!Next
  <1>4. CASE Spawn
    <2>1. Parallel /\ i \in Threads /\ pc[i] = "unborn"
      BY <1>4, <1>t, CrewSize, BoundsAssumption
      DEF Spawn, CallerInv, TypeOK, Threads
    <2>2. runningJobs' = runningJobs
      BY <1>4, <1>t, <2>1 DEF Spawn, TypeOK, runningJobs
    <2>3. waitingJobs' = waitingJobs
      BY <1>4 DEF Spawn, waitingJobs, args
    <2> QED BY <1>4, <2>2, <2>3 DEF Spawn, Batch!vars
  <1>5. CASE Join
    <2>1. Parallel
      BY <1>5, <1>t DEF Join, CallerInv
    <2>2. runningJobs' = runningJobs
      BY <1>5 DEF Join, runningJobs
    <2>3. waitingJobs' = waitingJobs
      BY <1>5 DEF Join, waitingJobs, args
    <2>4. CASE main' = main
      BY <1>5, <2>2, <2>3, <2>4 DEF Join, Batch!vars
    <2>5. CASE main' = "returned"
      <3>1. /\ \A t \in Threads : pc[t] # "handle"
            /\ waitingJobs = {}
        <4>1. Barrier'
          BY IInvBarrier, PTL
        <4>2. \A t \in Threads : pc'[t] = pc[t]
          BY <1>5 DEF Join
        <4>3. \A t \in Threads : pc[t] # "handle"
          BY <2>5, <4>1, <4>2 DEF Barrier
        <4>4. \A j \in Jobs : j < numJobs => j \in finished
          BY <1>5, <2>5, <4>1 DEF Join, Barrier, args
        <4> QED BY <1>t, <4>3, <4>4 DEF Owned, waitingJobs
      <3>2. runningJobs = {}
        BY <1>5, <3>1 DEF Join, runningJobs
      <3>3. Batch!Return
        BY <1>5, <2>2, <2>3, <2>5, <3>1, <3>2 DEF Join, Batch!Return
      <3> QED BY <3>3 DEF Batch!Next
    <2> QED BY <1>5, <2>4, <2>5 DEF Join
  <1> QED BY <1>1, <1>2, <1>3, <1>4, <1>5 DEF Caller

LEMMA WorkerBatch ==
  ASSUME NEW t \in Threads, IInv, IInv', Worker(t)
  PROVE  [Batch!Next]_(Batch!vars)
  <1>t. TypeOK /\ CallerInv /\ Owned /\ Fresh
    BY DEF IInv
  <1>p. Parallel
    BY DEF IInv, CallerInv, TypeOK, Worker, Lock, ReadIdx, BumpIdx, Unlock,
           Exit, HandleBegin, HandleEnd
  <1>m. main # "seqHandle"
    BY <1>p, <1>t DEF CallerInv
  <1>1. CASE \/ Lock(t) \/ ReadIdx(t) \/ BumpIdx(t) \/ Unlock(t) \/ Exit(t)
    <2>1. \A u \in Threads :
            /\ pc'[u] = "handle" <=> pc[u] = "handle"
            /\ pc[u] = "handle" => jobIdx'[u] = jobIdx[u]
      BY <1>1, <1>t DEF Lock, ReadIdx, BumpIdx, Unlock, Exit, TypeOK
    <2>2. UNCHANGED <<args, main, i, started, finished>>
      BY <1>1 DEF Lock, ReadIdx, BumpIdx, Unlock, Exit
    <2>3. runningJobs' = runningJobs
      BY <2>1, <2>2 DEF runningJobs
    <2>4. waitingJobs' = waitingJobs
      BY <2>2 DEF waitingJobs, args
    <2> QED BY <2>2, <2>3, <2>4 DEF Batch!vars
  <1>2. CASE HandleBegin(t)
    <2>1. jobIdx[t] \in Jobs /\ jobIdx[t] \in waitingJobs
      BY <1>2, <1>t, <1>p, BoundsAssumption
      DEF HandleBegin, Fresh, TypeOK, Jobs, waitingJobs
    <2>2. runningJobs' = runningJobs \cup {jobIdx[t]}
      BY <1>2, <1>t, <1>m DEF HandleBegin, TypeOK, runningJobs
    <2>3. waitingJobs' = waitingJobs \ {jobIdx[t]}
      BY <1>2, <1>t, <2>1 DEF HandleBegin, TypeOK, waitingJobs, args
    <2>4. Batch!Start(jobIdx[t])
      BY <1>2, <2>1, <2>2, <2>3 DEF HandleBegin, Batch!Start
    <2> QED BY <2>1, <2>4 DEF Batch!Next
  <1>3. CASE HandleEnd(t)
    <2>1. jobIdx[t] \in Jobs
      BY <1>3, <1>t, BoundsAssumption DEF HandleEnd, Owned, TypeOK, Jobs
    <2>2. jobIdx[t] \in runningJobs
      BY <1>3 DEF HandleEnd, runningJobs
    <2>3. runningJobs' = runningJobs \ {jobIdx[t]}
      BY <1>3, <1>t, <1>m DEF HandleEnd, TypeOK, Fresh, Drawn, runningJobs
    <2>4. waitingJobs' = waitingJobs
      BY <1>3 DEF HandleEnd, waitingJobs, args
    <2>5. Batch!Finish(jobIdx[t])
      BY <1>3, <2>2, <2>3, <2>4 DEF HandleEnd, Batch!Finish
    <2> QED BY <2>1, <2>5 DEF Batch!Next
  <1> QED BY <1>1, <1>2, <1>3 DEF Worker

(* runJobsMT implements the abstract batch of jobs.                        *)
THEOREM SpecJobBatch == Spec => ImplementsJobBatch
  <1>1. IInv /\ IInv' /\ [Next]_vars => [Batch!Next]_(Batch!vars)
    <2> SUFFICES ASSUME IInv, IInv', [Next]_vars
                 PROVE  [Batch!Next]_(Batch!vars)
      OBVIOUS
    <2>1. CASE Caller
      BY <2>1, CallerBatch
    <2>2. CASE \E t \in Threads : Worker(t)
      BY <2>2, WorkerBatch
    <2>3. CASE UNCHANGED vars
      BY <2>3 DEF vars, Batch!vars, waitingJobs, runningJobs
    <2> QED BY <2>1, <2>2, <2>3 DEF Next, Returned
  <1> QED BY <1>1, InitBatch, SpecIInv, PTL
          DEF Spec, ImplementsJobBatch, Batch!Spec
=============================================================================
