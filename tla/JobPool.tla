------------------------------ MODULE JobPool -------------------------------
(***************************************************************************)
(* runJobsMT (db/Database.cpp): the calling thread either handles the jobs *)
(* itself, in order, or spawns numThreads workers, which draw job indices  *)
(* from a shared counter under a mutex, and joins them.                    *)
(*                                                                         *)
(* The arguments of one call (numJobs, setting.numThreads) are chosen in   *)
(* Init. globalJobIdx++ is two steps, a read and a write, so that it is    *)
(* the mutex, not the granularity of the model, that makes it atomic. The  *)
(* handler is its begin and its end; what it does is left to the modules   *)
(* that model the phases.                                                  *)
(***************************************************************************)
EXTENDS Integers

CONSTANTS MaxJobs,       \* bound on numJobs
          MaxThreads     \* bound on setting.numThreads

ASSUME BoundsAssumption == MaxJobs \in Nat /\ MaxThreads \in Nat

VARIABLES
  numJobs, settingThreads,    \* the arguments of the call
  main,                       \* where the calling thread is
  i,                          \* its loop variable
  globalJobIdx, mtx,          \* the shared counter and its mutex
  pc, jobIdx,                 \* of each worker
  started,                    \* how often the handler was called on each job
  finished                    \* jobs whose handler has returned

args == <<numJobs, settingThreads>>
vars == <<numJobs, settingThreads, main, i, globalJobIdx, mtx, pc, jobIdx,
          started, finished>>

Jobs == 0 .. MaxJobs - 1
Threads == 0 .. MaxThreads - 1
Free == -1                    \* value of mtx when no worker holds it

numThreads == IF numJobs < settingThreads THEN numJobs ELSE settingThreads

Init ==
  /\ numJobs \in 0 .. MaxJobs
  /\ settingThreads \in 0 .. MaxThreads
  /\ main = IF numThreads <= 1 THEN "seq" ELSE "spawn"
  /\ i = 0
  /\ globalJobIdx = 0
  /\ mtx = Free
  /\ pc = [t \in Threads |-> "unborn"]
  /\ jobIdx = [t \in Threads |-> 0]
  /\ started = [j \in Jobs |-> 0]
  /\ finished = {}

-----------------------------------------------------------------------------
(* numThreads <= 1: the caller handles the jobs one after the other.       *)

SeqBegin ==
  /\ main = "seq"
  /\ i < numJobs
  /\ main' = "seqHandle"
  /\ started' = [started EXCEPT ![i] = @ + 1]
  /\ UNCHANGED <<args, i, globalJobIdx, mtx, pc, jobIdx, finished>>

SeqEnd ==
  /\ main = "seqHandle"
  /\ main' = "seq"
  /\ i' = i + 1
  /\ finished' = finished \cup {i}
  /\ UNCHANGED <<args, globalJobIdx, mtx, pc, jobIdx, started>>

SeqReturn ==
  /\ main = "seq"
  /\ i >= numJobs
  /\ main' = "returned"
  /\ UNCHANGED <<args, i, globalJobIdx, mtx, pc, jobIdx, started, finished>>

-----------------------------------------------------------------------------
(* numThreads > 1: the caller spawns the workers and joins them in order.  *)

Spawn ==
  /\ main = "spawn"
  /\ pc' = [pc EXCEPT ![i] = "lock"]
  /\ \/ /\ i + 1 < numThreads
        /\ i' = i + 1
        /\ main' = main
     \/ /\ i + 1 = numThreads
        /\ i' = 0
        /\ main' = "join"
  /\ UNCHANGED <<args, globalJobIdx, mtx, jobIdx, started, finished>>

\* mutant: the caller does not wait for the worker
JoinEarly ==
  /\ main = "join"
  /\ i' = i + 1
  /\ main' = IF i + 1 = numThreads THEN "returned" ELSE main
  /\ UNCHANGED <<args, globalJobIdx, mtx, pc, jobIdx, started, finished>>

\* mutant: the caller joins the first worker again and again
JoinFirst ==
  /\ main = "join"
  /\ pc[i] = "exited"
  /\ i' = i
  /\ main' = IF i + 1 = numThreads THEN "returned" ELSE main
  /\ UNCHANGED <<args, globalJobIdx, mtx, pc, jobIdx, started, finished>>

Join ==
  /\ main = "join"
  /\ pc[i] = "exited"
  /\ i' = i + 1
  /\ main' = IF i + 1 = numThreads THEN "returned" ELSE main
  /\ UNCHANGED <<args, globalJobIdx, mtx, pc, jobIdx, started, finished>>

-----------------------------------------------------------------------------
(* thread_func                                                             *)

\* mutant: the mutex is not waited for
LockAtOnce(t) ==
  /\ pc[t] = "lock"
  /\ mtx' = t
  /\ pc' = [pc EXCEPT ![t] = "read"]
  /\ UNCHANGED <<args, main, i, globalJobIdx, jobIdx, started, finished>>

Lock(t) ==
  /\ pc[t] = "lock"
  /\ mtx = Free
  /\ mtx' = t
  /\ pc' = [pc EXCEPT ![t] = "read"]
  /\ UNCHANGED <<args, main, i, globalJobIdx, jobIdx, started, finished>>

ReadIdx(t) ==
  /\ pc[t] = "read"
  /\ jobIdx' = [jobIdx EXCEPT ![t] = globalJobIdx]
  /\ pc' = [pc EXCEPT ![t] = "bump"]
  /\ UNCHANGED <<args, main, i, globalJobIdx, mtx, started, finished>>

BumpIdx(t) ==
  /\ pc[t] = "bump"
  /\ globalJobIdx' = jobIdx[t] + 1
  /\ pc' = [pc EXCEPT ![t] = "unlock"]
  /\ UNCHANGED <<args, main, i, mtx, jobIdx, started, finished>>

Unlock(t) ==
  /\ pc[t] = "unlock"
  /\ mtx' = Free
  /\ pc' = [pc EXCEPT ![t] = "check"]
  /\ UNCHANGED <<args, main, i, globalJobIdx, jobIdx, started, finished>>

Exit(t) ==
  /\ pc[t] = "check"
  /\ jobIdx[t] >= numJobs
  /\ pc' = [pc EXCEPT ![t] = "exited"]
  /\ UNCHANGED <<args, main, i, globalJobIdx, mtx, jobIdx, started, finished>>

HandleBegin(t) ==
  /\ pc[t] = "check"
  /\ jobIdx[t] < numJobs
  /\ pc' = [pc EXCEPT ![t] = "handle"]
  /\ started' = [started EXCEPT ![jobIdx[t]] = @ + 1]
  /\ UNCHANGED <<args, main, i, globalJobIdx, mtx, jobIdx, finished>>

HandleEnd(t) ==
  /\ pc[t] = "handle"
  /\ pc' = [pc EXCEPT ![t] = "lock"]
  /\ finished' = finished \cup {jobIdx[t]}
  /\ UNCHANGED <<args, main, i, globalJobIdx, mtx, jobIdx, started>>

-----------------------------------------------------------------------------

Caller == SeqBegin \/ SeqEnd \/ SeqReturn \/ Spawn \/ Join

Worker(t) ==
  \/ Lock(t) \/ ReadIdx(t) \/ BumpIdx(t) \/ Unlock(t)
  \/ Exit(t) \/ HandleBegin(t) \/ HandleEnd(t)

\* the call is over: nothing is left to do
Returned == main = "returned" /\ UNCHANGED vars

Next == Caller \/ Returned \/ \E t \in Threads : Worker(t)

Spec == Init /\ [][Next]_vars

(***************************************************************************)
(* Every thread runs, and every handler returns. std::mutex promises no    *)
(* fairness between waiters, so a worker's attempt to lock is only weakly  *)
(* fair: it may be overtaken as long as others take the lock again.        *)
(***************************************************************************)
FairSpec == Spec /\ WF_vars(Caller) /\ \A t \in Threads : WF_vars(Worker(t))

-----------------------------------------------------------------------------
(* Properties                                                              *)

TypeOK ==
  /\ numJobs \in 0 .. MaxJobs
  /\ settingThreads \in 0 .. MaxThreads
  /\ main \in {"seq", "seqHandle", "spawn", "join", "returned"}
  /\ i \in Nat
  /\ globalJobIdx \in Nat
  /\ mtx \in Threads \cup {Free}
  /\ pc \in [Threads -> {"unborn", "lock", "read", "bump", "unlock", "check",
                         "handle", "exited"}]
  /\ jobIdx \in [Threads -> Nat]
  /\ started \in [Jobs -> Nat]
  /\ finished \in SUBSET Jobs

(* No job is handled twice, however the workers interleave around the      *)
(* shared counter: a net is never committed, or removed, twice in a phase. *)
AtMostOnce == \A j \in Jobs : started[j] <= 1

(* The call is a barrier: when runJobsMT returns, the handler has returned *)
(* on every job of the call and no worker is still alive.                  *)
Barrier ==
  main = "returned" =>
    /\ \A j \in Jobs : j < numJobs <=> j \in finished
    /\ \A t \in Threads : pc[t] \in {"unborn", "exited"}

(* The workers implement the abstract batch of jobs. The running jobs are  *)
(* read off the threads, so a job handled by two threads, or handled again *)
(* once finished, is a step JobBatch does not allow.                       *)
waitingJobs == {j \in Jobs : j < numJobs /\ started[j] = 0}

runningJobs ==
  (IF main = "seqHandle" THEN {i} ELSE {}) \cup
  {jobIdx[t] : t \in {u \in Threads : pc[u] = "handle"}}

Batch == INSTANCE JobBatch WITH waiting  <- waitingJobs,
                                running  <- runningJobs,
                                finished <- finished,
                                returned <- main = "returned"

ImplementsJobBatch == Batch!Spec

(* Every call returns, although a worker may be overtaken at the mutex.    *)
CallReturns == <>(main = "returned")
=============================================================================
