---------------------------- MODULE RouterProofs ----------------------------
(***************************************************************************)
(* What holds of the nets, their statuses and the database throughout      *)
(* Router::run, for every number of nets, iterations and rounds, whatever  *)
(* the batches are and whatever fails.                                     *)
(***************************************************************************)
EXTENDS Router, TLAPS

Topo == [routed : BOOLEAN, route : Route, ext : SUBSET SUBSET Cells]

TypeInv ==
  /\ iter \in Nat /\ writeEach \in BOOLEAN /\ final \in BOOLEAN
  /\ pc \in {"iterate", "pre", "loop", "post", "unfinish", "done"}
  /\ b \in Nat /\ k \in Nat
  /\ batches \in Seq(SUBSET Nets) /\ pending \subseteq Nets
  /\ status \in [Nets -> Status] /\ verdict \in [Nets -> Status]
  /\ local \in [Nets -> Topo] /\ topo \in [Nets -> Topo]
  /\ usage \subseteq Cells \X Nets

\* how many phases a loop has
Phases(l) == IF l = "route" THEN 4 ELSE IF l = "minArea" THEN 3 ELSE 2

(* In a loop over batches the jobs are nets of the batch in hand, and no   *)
(* net is in two batches.                                                  *)
LoopInv ==
  pc = "loop" =>
    /\ loop \in {"route", "minArea", "select"}
    /\ k \in 1 .. Phases(loop)
    /\ b >= 1
    /\ batches = <<>> => pending = {}
    /\ batches # <<>> => b \in 1 .. Len(batches) /\ pending \subseteq batches[b]
    /\ \A i, j \in 1 .. Len(batches) : i # j => batches[i] \cap batches[j] = {}

InRoute == pc = "loop" /\ loop = "route"

\* a net whose job in the first phase is still to come
Waiting(n) ==
  \/ \E i \in 1 .. Len(batches) : i > b /\ n \in batches[i]
  \/ k = 1 /\ n \in pending

\* a net between its jobs in the first two phases
InHand(n) ==
  \/ k = 1 /\ batches # <<>> /\ n \in batches[b] \ pending
  \/ k = 2 /\ n \in pending

Settled(n) ==
  \/ isSucc(status[n]) /\ topo[n].routed
  \/ ~isSucc(status[n]) /\ topo[n] = NoTopo

Fresh(n) == ~isSucc(status[n]) /\ topo[n] = NoTopo

Mazed(n) ==
  /\ status[n] = verdict[n] /\ topo[n] = NoTopo
  /\ isSucc(verdict[n]) => local[n].routed

(* Status and topology of a net disagree between its maze routing and the  *)
(* commit of what was found, and at no other time. A net that is to be     *)
(* routed has no topology left.                                            *)
StageInv ==
  /\ \A n \in Nets : InRoute /\ InHand(n) => Mazed(n)
  /\ \A n \in Nets : ~(InRoute /\ InHand(n)) => Settled(n)
  /\ \A n \in Nets : InRoute /\ Waiting(n) =>
       n \in MultiPin /\ verdict[n] = "SUCC_NORMAL" /\ Fresh(n)
  /\ \A n \in Nets : pc = "pre" /\ verdict[n] = "SUCC_NORMAL" =>
       Fresh(n) /\ n \in MultiPin \cup pending
  /\ \A n \in Nets : pc = "iterate" /\ iter = 0 => Fresh(n)

(* The database has no more than the topologies, and no less until the     *)
(* first finish(). A net whose extensions are being redone has only its    *)
(* tree in it. Intermediate results are written if writeEach says so.      *)
UsageInv ==
  /\ \A n \in Nets, c \in Cells : <<c, n>> \in usage => c \in Covered(topo[n])
  /\ ~writeEach /\ (pc \in {"iterate", "pre"} \/ InRoute) =>
       \A n \in Nets : \A c \in Covered(topo[n]) : <<c, n>> \in usage
  /\ pc = "loop" /\ loop = "minArea" =>
       \A n \in Nets, c \in Cells :
         InHand(n) /\ <<c, n>> \in usage => c \in topo[n].route.tree
  /\ pc = "unfinish" => writeEach
  /\ pc = "post" \/ (pc = "loop" /\ loop # "route") => writeEach \/ final

RInv == TypeInv /\ LoopInv /\ StageInv /\ UsageInv

-----------------------------------------------------------------------------
(* Topologies, statuses, batches                                           *)

LEMMA NoTopoFacts == /\ NoTopo \in Topo
                     /\ ~NoTopo.routed
                     /\ NoTopo.route.tree = {}
                     /\ Covered(NoTopo) = {}
  BY DEF NoTopo, NoRoute, Topo, Route, Covered

LEMMA CoveredInCells == ASSUME NEW t \in Topo PROVE Covered(t) \subseteq Cells
  BY DEF Topo, Route, Covered

LEMMA ExtensionsTyped ==
  ASSUME NEW n, NEW r \in Route, NEW e \in Extensions(n, r)
  PROVE  e \in SUBSET SUBSET Cells
  <1>1. r.exts \in SUBSET SUBSET SUBSET Cells
    BY DEF Route
  <1>2. {o \in r.exts : ~Violates(n, UNION o)} \subseteq r.exts
    OBVIOUS
  <1>3. e = {} \/ e \in r.exts
    BY <1>2 DEF Extensions
  <1> QED BY <1>1, <1>3

LEMMA RedoneTyped ==
  ASSUME NEW n, NEW t \in Topo, NEW e \in Redone(n, t)
  PROVE  e \in SUBSET SUBSET Cells
  <1>1. t.route \in Route /\ t.ext \in SUBSET SUBSET Cells
    BY DEF Topo
  <1>2. {seg \in t.ext : ~Violates(n, seg)} \subseteq t.ext
    OBVIOUS
  <1>3. e \subseteq t.ext \/ e \in Extensions(n, t.route)
    BY <1>2 DEF Redone
  <1> QED BY <1>1, <1>3, ExtensionsTyped

LEMMA StatusFacts ==
  /\ "SUCC_NORMAL" \in Status /\ isSucc("SUCC_NORMAL")
  /\ "SUCC_ONE_PIN" \in Status
  /\ "FAIL_UNPROCESSED" \in Status /\ ~isSucc("FAIL_UNPROCESSED")
  /\ "FAIL_DISCONNECTED_GRID_GRAPH" \in Status /\ ~isSucc("FAIL_DISCONNECTED_GRID_GRAPH")
  /\ \A s \in FailStatus : s \in Status /\ ~isSucc(s) /\ s # "SUCC_NORMAL"
  BY DEF Status, SuccStatus, FailStatus, isSucc

LEMMA BothFacts ==
  ASSUME NEW s \in Status, NEW t \in Status
  PROVE  /\ Both(s, t) \in Status
         /\ Both(s, t) = "SUCC_NORMAL" => s = "SUCC_NORMAL" /\ t = "SUCC_NORMAL"
         /\ ~isSucc(t) => ~isSucc(Both(s, t))
  BY DEF Both, Status, SuccStatus, FailStatus, isSucc

LEMMA ListFacts ==
  ASSUME NEW S \in SUBSET Nets, NEW apart, NEW list \in BatchLists(S, apart)
  PROVE  /\ list \in Seq(SUBSET Nets)
         /\ \A i \in 1 .. Len(list) : list[i] \subseteq S
         /\ \A i, j \in 1 .. Len(list) : i # j => list[i] \cap list[j] = {}
         /\ list # <<>> => 1 \in 1 .. Len(list)
  <1>1. PICK m \in 0 .. Cardinality(S) : list \in [1 .. m -> SUBSET S \ {{}}]
    BY DEF BatchLists
  <1>2. m \in Nat
    BY <1>1
  <1>3. list \in Seq(SUBSET Nets) /\ Len(list) = m /\ DOMAIN list = 1 .. m
    BY <1>1, <1>2
  <1>4. \A i, j \in DOMAIN list : i # j => list[i] \cap list[j] = {}
    BY DEF BatchLists
  <1>5. list # <<>> => m > 0
    BY <1>1, <1>2, <1>3
  <1> QED BY <1>1, <1>2, <1>3, <1>4, <1>5

LEMMA ChainFacts ==
  /\ \A l \in {"route", "minArea", "select"} :
        Len(Chain[l]) = Phases(l) /\ Phases(l) \in {2, 3, 4}
  /\ Chain["route"][1] = "maze" /\ Chain["route"][2] = "commit"
  /\ Chain["route"][3] = "types" /\ Chain["route"][4] = "mark"
  /\ Chain["minArea"][1] = "clear" /\ Chain["minArea"][2] = "extend"
  /\ Chain["minArea"][3] = "recommit"
  /\ Chain["select"][1] = "types" /\ Chain["select"][2] = "mark"
  BY DEF Chain, Phases

(* Which loop and phase a job belongs to.                                  *)
LEMMA PhaseFacts ==
  ASSUME TypeInv, LoopInv
  PROVE  /\ Phase = "maze" => InRoute /\ k = 1
         /\ Phase = "commit" => InRoute /\ k = 2
         /\ Phase \in {"types", "mark"} => pc = "loop"
         /\ Phase = "types" => ~(loop = "route" /\ k \in {1, 2}) /\ ~(loop = "minArea")
         /\ Phase = "mark" => k > 1 /\ ~(loop = "route" /\ k = 2) /\ ~(loop = "minArea")
         /\ Phase = "clear" => pc = "loop" /\ loop = "minArea" /\ k = 1
         /\ Phase = "extend" => pc = "loop" /\ loop = "minArea" /\ k = 2
         /\ Phase = "recommit" => pc = "loop" /\ loop = "minArea" /\ k = 3
         /\ \A p \in {"pre", "post", "unfinish"} : Phase = p => pc = p
  <1>1. CASE pc # "loop"
    BY <1>1 DEF Phase, TypeInv
  <1>2. CASE pc = "loop"
    <2>1. /\ loop \in {"route", "minArea", "select"} /\ Phase = Chain[loop][k]
          /\ k \in 1 .. Phases(loop)
      BY <1>2 DEF Phase, LoopInv
    <2>2. CASE loop = "route"
      <3>1. k \in {1, 2, 3, 4}
        BY <2>1, <2>2 DEF Phases
      <3> QED BY <1>2, <2>1, <2>2, <3>1, ChainFacts DEF InRoute
    <2>3. CASE loop = "minArea"
      <3>1. k \in {1, 2, 3}
        BY <2>1, <2>3 DEF Phases
      <3> QED BY <1>2, <2>1, <2>3, <3>1, ChainFacts DEF InRoute
    <2>4. CASE loop = "select"
      <3>1. k \in {1, 2}
        BY <2>1, <2>4 DEF Phases
      <3> QED BY <1>2, <2>1, <2>4, <3>1, ChainFacts DEF InRoute
    <2> QED BY <2>1, <2>2, <2>3, <2>4
  <1> QED BY <1>1, <1>2

-----------------------------------------------------------------------------
(* Moving through the batches                                              *)

(* A job leaves the phase it is in; in the first phase it takes its net in *)
(* hand, in the second out of it.                                          *)
LEMMA JobStep ==
  ASSUME TypeInv, LoopInv, NEW n \in Nets, Job(n), UNCHANGED place
  PROVE  /\ LoopInv' /\ pending' \subseteq Nets
         /\ \A m \in Nets \ {n} : (InHand(m)' <=> InHand(m)) /\ (Waiting(m)' <=> Waiting(m))
         /\ Waiting(n)' => Waiting(n)
         /\ pc = "loop" /\ k = 1 => Waiting(n) /\ InHand(n)' /\ ~InHand(n) /\ ~Waiting(n)'
         /\ pc = "loop" /\ k = 2 => InHand(n) /\ ~InHand(n)'
         /\ pc = "loop" /\ k \notin {1, 2} => ~InHand(n) /\ ~InHand(n)'
  <1>1. /\ pending' = pending \ {n} /\ n \in pending /\ pc' = pc /\ loop' = loop
        /\ b' = b /\ k' = k /\ batches' = batches
    BY DEF Job, place
  <1>2. LoopInv' /\ pending' \subseteq Nets
    BY <1>1 DEF LoopInv, TypeInv
  <1>3. /\ \A m \in Nets \ {n} : (InHand(m)' <=> InHand(m)) /\ (Waiting(m)' <=> Waiting(m))
        /\ Waiting(n)' => Waiting(n)
    BY <1>1 DEF InHand, Waiting
  <1>4. ASSUME pc = "loop", k = 1
        PROVE  Waiting(n) /\ InHand(n)' /\ ~InHand(n) /\ ~Waiting(n)'
    <2>1. batches # <<>> /\ b \in 1 .. Len(batches) /\ n \in batches[b]
      BY <1>1, <1>4 DEF LoopInv
    <2>2. \A i \in 1 .. Len(batches) : i > b => n \notin batches[i]
      BY <1>4, <2>1 DEF LoopInv, TypeInv
    <2> QED BY <1>1, <1>4, <2>1, <2>2 DEF Waiting, InHand
  <1>5. pc = "loop" /\ k = 2 => InHand(n) /\ ~InHand(n)'
    BY <1>1 DEF InHand
  <1>6. pc = "loop" /\ k \notin {1, 2} => ~InHand(n) /\ ~InHand(n)'
    BY <1>1 DEF InHand
  <1> QED BY <1>2, <1>3, <1>4, <1>5, <1>6

LEMMA WaitingNotInHand ==
  ASSUME TypeInv, LoopInv, pc = "loop", k = 2, NEW n \in Nets, n \in pending
  PROVE  ~Waiting(n)
  <1>1. b \in 1 .. Len(batches) /\ n \in batches[b]
    BY DEF LoopInv
  <1>2. \A i \in 1 .. Len(batches) : i > b => n \notin batches[i]
    BY <1>1 DEF LoopInv, TypeInv
  <1> QED BY <1>2 DEF Waiting

LEMMA EnterStep ==
  ASSUME NEW S \in SUBSET Nets, NEW apart, NEW list \in BatchLists(S, apart),
         NEW l \in {"route", "minArea", "select"}, NEW r, Enter(l, list, r)
  PROVE  /\ pc' = "loop" /\ loop' = l /\ LoopInv'
         /\ b' \in Nat /\ k' \in Nat /\ batches' \in Seq(SUBSET Nets)
         /\ pending' \subseteq Nets
         /\ \A n \in Nets : ~InHand(n)' /\ (Waiting(n)' => n \in S)
  <1>1. /\ pc' = "loop" /\ loop' = l /\ b' = 1 /\ k' = 1 /\ batches' = list
        /\ pending' = IF list = <<>> THEN {} ELSE list[1]
    BY DEF Enter
  <1>2. /\ list \in Seq(SUBSET Nets)
        /\ \A i \in 1 .. Len(list) : list[i] \subseteq S
        /\ \A i, j \in 1 .. Len(list) : i # j => list[i] \cap list[j] = {}
        /\ list # <<>> => 1 \in 1 .. Len(list)
    BY ListFacts
  <1>3. LoopInv'
    BY <1>1, <1>2 DEF LoopInv, Phases
  <1>4. pending' \subseteq S
    BY <1>1, <1>2
  <1>5. \A n \in Nets : ~InHand(n)' /\ (Waiting(n)' => n \in S)
    BY <1>1, <1>2, <1>4 DEF InHand, Waiting
  <1> QED BY <1>1, <1>2, <1>3, <1>4, <1>5

LEMMA ProceedStep ==
  ASSUME TypeInv, LoopInv, Proceed
  PROVE  /\ LoopInv' /\ b' \in Nat /\ k' \in Nat /\ pending' \subseteq Nets
         /\ \A n \in Nets : (InHand(n)' <=> InHand(n)) /\ (Waiting(n)' => Waiting(n))
  <1>1. /\ pc = "loop" /\ pc' = pc /\ loop' = loop /\ batches' = batches /\ pending = {}
        /\ batches \in Seq(SUBSET Nets) /\ Len(batches) \in Nat /\ b \in Nat /\ k \in Nat
    BY DEF Proceed, TypeInv
  <1>2. Len(Chain[loop]) = Phases(loop) /\ Phases(loop) \in {2, 3, 4}
    BY <1>1, ChainFacts DEF LoopInv
  <1>3. k \in 1 .. Phases(loop)
    BY <1>1 DEF LoopInv
  <1>4. CASE /\ b <= Len(batches) /\ k < Len(Chain[loop])
             /\ k' = k + 1 /\ b' = b /\ pending' = batches[b]
    <2>1. b \in 1 .. Len(batches) /\ batches # <<>> /\ batches[b] \subseteq Nets
      BY <1>1, <1>4 DEF LoopInv
    <2>2. LoopInv'
      BY <1>1, <1>2, <1>3, <1>4, <2>1 DEF LoopInv
    <2>3. \A n \in Nets : (InHand(n)' <=> InHand(n)) /\ (Waiting(n)' => Waiting(n))
      BY <1>1, <1>3, <1>4, <2>1 DEF InHand, Waiting
    <2> QED BY <1>1, <1>4, <2>1, <2>2, <2>3
  <1>5. CASE /\ b < Len(batches) /\ k = Len(Chain[loop])
             /\ k' = 1 /\ b' = b + 1 /\ pending' = batches[b + 1]
    <2>1. b + 1 \in 1 .. Len(batches) /\ batches[b + 1] \subseteq Nets /\ batches # <<>>
      BY <1>1, <1>5
    <2>2. LoopInv'
      BY <1>1, <1>2, <1>5, <2>1 DEF LoopInv
    <2>3. \A n \in Nets : ~InHand(n) /\ ~InHand(n)' /\ (Waiting(n)' => Waiting(n))
      BY <1>1, <1>2, <1>5, <2>1 DEF InHand, Waiting
    <2> QED BY <1>1, <1>5, <2>1, <2>2, <2>3
  <1> QED BY <1>4, <1>5 DEF Proceed

LEMMA EndStep ==
  ASSUME TypeInv, LoopInv, EndOfLoop
  PROVE  \A n \in Nets : ~InHand(n)
  <1>1. pc = "loop" /\ pending = {} /\ (batches # <<>> => k = Len(Chain[loop]))
    BY DEF EndOfLoop
  <1>2. batches # <<>> => k # 1
    BY <1>1, ChainFacts DEF LoopInv
  <1> QED BY <1>1, <1>2 DEF InHand

-----------------------------------------------------------------------------
(* The initial state and the starts of iterations                          *)

LEMMA InitRInv == Init => RInv
  <1> SUFFICES ASSUME Init PROVE RInv
    OBVIOUS
  <1>1. TypeInv
    <2>1. writeEach \in BOOLEAN /\ final \in BOOLEAN
      BY DEF Init
    <2>2. batches \in Seq(SUBSET Nets) /\ pending \subseteq Nets /\ usage \subseteq Cells \X Nets
      BY DEF Init
    <2> QED BY <2>1, <2>2, StatusFacts, NoTopoFacts DEF Init, TypeInv
  <1>2. LoopInv
    BY DEF Init, LoopInv
  <1>3. \A n \in Nets : Fresh(n)
    BY StatusFacts DEF Init, Fresh
  <1>4. StageInv
    BY <1>3 DEF Init, StageInv, Fresh, Settled, InRoute
  <1>5. UsageInv
    BY NoTopoFacts DEF Init, UsageInv, InRoute
  <1> QED BY <1>1, <1>2, <1>4, <1>5 DEF RInv

(* What is ripped up is gone: topology, status and everything recorded.    *)
LEMMA RipupStep ==
  ASSUME TypeInv, UsageInv, NEW S \in SUBSET Nets, ripup(S)
  PROVE  /\ status' \in [Nets -> Status] /\ topo' \in [Nets -> Topo]
         /\ usage' \subseteq Cells \X Nets
         /\ \A n \in S : Fresh(n)'
         /\ \A n \in Nets \ S : status'[n] = status[n] /\ topo'[n] = topo[n]
         /\ \A n \in S, c \in Cells : <<c, n>> \notin usage'
         /\ \A n \in Nets \ S, c \in Cells : <<c, n>> \in usage' <=> <<c, n>> \in usage
  <1>1. /\ usage' = usage \ UNION {Recorded(n, topo[n]) : n \in S}
        /\ topo' = [n \in Nets |-> IF n \in S THEN NoTopo ELSE topo[n]]
        /\ status' = [n \in Nets |-> IF n \in S THEN "FAIL_UNPROCESSED" ELSE status[n]]
    BY DEF ripup, clearRouteResult, unprocessed
  <1>2. \A n \in S : Fresh(n)'
    BY <1>1, StatusFacts DEF Fresh
  <1>3. status' \in [Nets -> Status] /\ topo' \in [Nets -> Topo] /\ usage' \subseteq Cells \X Nets
    BY <1>1, StatusFacts, NoTopoFacts DEF TypeInv
  <1>4. ASSUME NEW n \in Nets, NEW c \in Cells
        PROVE  /\ n \in S => <<c, n>> \notin usage'
               /\ n \notin S => (<<c, n>> \in usage' <=> <<c, n>> \in usage)
    <2>1. <<c, n>> \in UNION {Recorded(m, topo[m]) : m \in S}
            <=> n \in S /\ c \in Covered(topo[n])
      BY DEF Recorded
    <2> QED BY <1>1, <2>1 DEF UsageInv
  <1> QED BY <1>1, <1>2, <1>3, <1>4

(* No other step leads from the end of an iteration to pre-route.          *)
LEMMA OnlyStart ==
  ASSUME TypeInv, LoopInv, [Next]_vars, pc = "iterate", pc' = "pre"
  PROVE  StartIteration
  <1>1. Phase = "iterate"
    BY DEF Phase
  <1>2. ~(UNCHANGED vars) /\ ~Done
    BY DEF vars, Done
  <1>3. ASSUME NEW n \in Nets PROVE ~JobOf(n)
    BY <1>1 DEF JobOf, preRoute, mazeRoute, commitRouteResult, getViaTypes, commitViaTypes,
                clearMinAreaRouteResult, run2, commitMinAreaRouteResult, postRoute, unfinish
  <1>4. Stop => pc' = "loop"
    BY DEF Stop, finish, Enter
  <1>5. ~Schedule /\ ~Proceed /\ ~EndRoute /\ ~EndFinishLoop /\ ~FixOpen /\ ~EndUnfinish
    BY <1>1 DEF Schedule, Proceed, EndRoute, EndFinishLoop, EndOfLoop, FixOpen, EndUnfinish
  <1> QED BY <1>2, <1>3, <1>4, <1>5 DEF Next, Main

LEMMA StartRInv == ASSUME RInv, StartIteration PROVE RInv'
  <1> DEFINE R == getNetsToRoute
             S == IF iter > 0 THEN R ELSE {}
  <1>1. TypeInv /\ LoopInv /\ StageInv /\ UsageInv
    BY DEF RInv
  <1>2. R \subseteq Nets
    BY DEF getNetsToRoute
  <1>3. /\ pc = "iterate" /\ pc' = "pre" /\ ripup(S) /\ pending' = R
        /\ verdict' = [n \in Nets |->
              IF n \in R THEN "SUCC_NORMAL" ELSE "FAIL_UNPROCESSED"]
        /\ iter' = iter /\ writeEach' = writeEach /\ final' = final /\ local' = local
        /\ b' = 0 /\ k' = 0 /\ batches' = <<>>
    BY DEF StartIteration, EnterPhase
  <1> HIDE DEF R
  <1>4. /\ status' \in [Nets -> Status] /\ topo' \in [Nets -> Topo]
        /\ usage' \subseteq Cells \X Nets
        /\ \A n \in S : Fresh(n)'
        /\ \A n \in Nets \ S : status'[n] = status[n] /\ topo'[n] = topo[n]
        /\ \A n \in S, c \in Cells : <<c, n>> \notin usage'
        /\ \A n \in Nets \ S, c \in Cells : <<c, n>> \in usage' <=> <<c, n>> \in usage
    BY <1>1, <1>2, <1>3, RipupStep
  <1>5. TypeInv'
    BY <1>1, <1>2, <1>3, <1>4, StatusFacts DEF TypeInv
  <1>6. LoopInv'
    BY <1>3 DEF LoopInv
  <1>7. StageInv'
    <2>1. \A n \in Nets : Settled(n)
      BY <1>1, <1>3 DEF StageInv, InRoute
    <2>2. \A n \in Nets : Settled(n)'
      BY <1>4, <2>1 DEF Settled, Fresh
    <2>3. ASSUME NEW n \in Nets, verdict'[n] = "SUCC_NORMAL" PROVE Fresh(n)' /\ n \in pending'
      <3>1. n \in R
        BY <1>3, <2>3
      <3>2. CASE iter > 0
        BY <1>3, <1>4, <3>1, <3>2
      <3>3. CASE ~(iter > 0)
        <4>1. iter = 0
          BY <1>1, <3>3 DEF TypeInv
        <4>2. Fresh(n)
          BY <1>1, <1>3, <4>1 DEF StageInv
        <4> QED BY <1>3, <1>4, <3>1, <3>3, <4>2 DEF Fresh
      <3> QED BY <3>2, <3>3
    <2> QED BY <1>3, <2>2, <2>3 DEF StageInv, InRoute
  <1>8. UsageInv'
    <2>1. \A n \in S : Covered(topo'[n]) = {}
      BY <1>4, NoTopoFacts DEF Fresh
    <2>2. \A n \in Nets \ S : Covered(topo'[n]) = Covered(topo[n])
      BY <1>4
    <2>3. \A n \in Nets : Covered(topo[n]) \subseteq Cells
      BY <1>1, CoveredInCells DEF TypeInv
    <2>4. \A n \in Nets, c \in Cells : <<c, n>> \in usage' => c \in Covered(topo'[n])
      BY <1>1, <1>4, <2>1, <2>2 DEF UsageInv
    <2>5. ~writeEach => \A n \in Nets : \A c \in Covered(topo'[n]) : <<c, n>> \in usage'
      BY <1>1, <1>3, <1>4, <2>1, <2>2, <2>3 DEF UsageInv
    <2> QED BY <1>3, <2>4, <2>5 DEF UsageInv
  <1> QED BY <1>5, <1>6, <1>7, <1>8 DEF RInv

(* A step that leaves the nets and the database as they are.               *)
LEMMA StillUsage ==
  ASSUME UsageInv, UNCHANGED <<usage, topo, writeEach>>,
         pc' \in {"iterate", "pre"} \/ InRoute' =>
           writeEach \/ pc \in {"iterate", "pre"} \/ InRoute,
         pc' = "loop" /\ loop' = "minArea" =>
           \A n \in Nets : InHand(n)' => pc = "loop" /\ loop = "minArea" /\ InHand(n),
         pc' = "unfinish" => writeEach,
         pc' = "post" \/ (pc' = "loop" /\ loop' # "route") => writeEach \/ final'
  PROVE  UsageInv'
  BY DEF UsageInv, Covered

LEMMA FinishRInv ==
  ASSUME RInv, NEW last \in BOOLEAN, NEW early, finish(last, early),
         last \/ writeEach, \A n \in Nets : Settled(n),
         iter' = iter, UNCHANGED <<writeEach, usage, nets>>
  PROVE  RInv'
  <1>1. TypeInv /\ LoopInv /\ StageInv /\ UsageInv
    BY DEF RInv
  <1>2. UNCHANGED <<usage, writeEach, status, verdict, local, topo>>
    BY DEF nets
  <1>3. PICK list \in BatchLists(Nets, ToposApart) : Enter("minArea", list, 0)
    BY DEF finish
  <1>4. /\ pc' = "loop" /\ loop' = "minArea" /\ LoopInv'
        /\ b' \in Nat /\ k' \in Nat /\ batches' \in Seq(SUBSET Nets)
        /\ pending' \subseteq Nets
        /\ \A n \in Nets : ~InHand(n)' /\ (Waiting(n)' => n \in Nets)
    BY <1>3, EnterStep
  <1>5. final' = last
    BY DEF finish
  <1>6. TypeInv'
    BY <1>1, <1>2, <1>4, <1>5 DEF TypeInv
  <1>7. StageInv'
    BY <1>2, <1>4 DEF StageInv, Settled, InRoute
  <1>8. UsageInv'
    BY <1>1, <1>2, <1>4, <1>5, StillUsage DEF InRoute
  <1> QED BY <1>4, <1>6, <1>7, <1>8 DEF RInv

LEMMA StopRInv == ASSUME RInv, Stop PROVE RInv'
  <1>1. \A n \in Nets : Settled(n)
    BY DEF Stop, RInv, StageInv, InRoute
  <1>2. UNCHANGED <<iter, writeEach, usage, nets>> /\ finish(TRUE, iter < IterLimit)
    BY DEF Stop
  <1> QED BY <1>1, <1>2, FinishRInv

-----------------------------------------------------------------------------
(* The jobs                                                                *)

(* Jobs that choose and record via types, write and delete output.         *)
LEMMA QuietJob ==
  ASSUME RInv, NEW n \in Nets, Job(n), UNCHANGED <<place, setting>>,
         UNCHANGED <<status, verdict, local, topo, usage>>,
         pc # "pre",
         pc = "loop" => loop # "minArea" /\ ~(loop = "route" /\ k \in {1, 2})
  PROVE  RInv'
  <1>1. TypeInv /\ LoopInv /\ StageInv /\ UsageInv
    BY DEF RInv
  <1>2. /\ pc' = pc /\ loop' = loop /\ b' = b /\ k' = k /\ batches' = batches
        /\ iter' = iter /\ writeEach' = writeEach /\ final' = final
        /\ UNCHANGED <<status, verdict, local, topo, usage>>
    BY DEF place, setting
  <1>3. LoopInv' /\ pending' \subseteq Nets
    BY <1>1, JobStep
  <1>4. \A m \in Nets : InRoute => ~InHand(m)' /\ ~InHand(m)
    <2>1. InRoute => k \notin {1, 2}
      BY DEF InRoute
    <2> QED BY <1>2, <2>1 DEF InHand
  <1>5. \A m \in Nets : Waiting(m)' => Waiting(m)
    BY <1>1, JobStep
  <1>6. TypeInv'
    BY <1>1, <1>2, <1>3 DEF TypeInv
  <1>7. StageInv'
    BY <1>1, <1>2, <1>4, <1>5 DEF StageInv, InRoute, Settled, Fresh
  <1>8. UsageInv'
    BY <1>1, <1>2, StillUsage DEF UsageInv, InRoute
  <1> QED BY <1>3, <1>6, <1>7, <1>8 DEF RInv

LEMMA PreRInv == ASSUME RInv, NEW n \in Nets, preRoute(n) PROVE RInv'
  <1>1. TypeInv /\ LoopInv /\ StageInv /\ UsageInv
    BY DEF RInv
  <1>2. /\ pc = "pre" /\ Job(n)
        /\ pc' = pc /\ loop' = loop /\ b' = b /\ k' = k /\ batches' = batches
        /\ iter' = iter /\ writeEach' = writeEach /\ final' = final
        /\ UNCHANGED <<status, local, topo, usage, place>>
    BY <1>1, PhaseFacts DEF preRoute, place, setting
  <1>3. PICK s \in IF n \in MultiPin THEN {"SUCC_NORMAL"} \cup PreRouteFailures
                                     ELSE {"SUCC_ONE_PIN"} :
          verdict' = [verdict EXCEPT ![n] = Both(@, s)]
    BY DEF preRoute
  <1>4. s \in Status /\ (n \notin MultiPin => s # "SUCC_NORMAL")
    BY StatusFacts, RouterAssumption
  <1>5. verdict[n] \in Status
    BY <1>1 DEF TypeInv
  <1>6. /\ verdict' \in [Nets -> Status]
        /\ \A m \in Nets : verdict'[m] = "SUCC_NORMAL" => verdict[m] = "SUCC_NORMAL"
        /\ verdict'[n] = "SUCC_NORMAL" => s = "SUCC_NORMAL"
    BY <1>1, <1>3, <1>4, <1>5, BothFacts DEF TypeInv
  <1>7. LoopInv' /\ pending' = pending \ {n} /\ pending' \subseteq Nets
    BY <1>1, <1>2, JobStep DEF Job
  <1>8. TypeInv'
    BY <1>1, <1>2, <1>6, <1>7 DEF TypeInv
  <1>9. StageInv'
    <2>1. \A m \in Nets : verdict'[m] = "SUCC_NORMAL" => Fresh(m)' /\ m \in MultiPin \cup pending'
      BY <1>1, <1>2, <1>4, <1>6, <1>7 DEF StageInv, Fresh
    <2> QED BY <1>1, <1>2, <2>1 DEF StageInv, InRoute, Settled
  <1>10. UsageInv'
    BY <1>1, <1>2, StillUsage DEF InRoute
  <1> QED BY <1>7, <1>8, <1>9, <1>10 DEF RInv

LEMMA MazeRInv == ASSUME RInv, NEW n \in Nets, mazeRoute(n) PROVE RInv'
  <1>1. TypeInv /\ LoopInv /\ StageInv /\ UsageInv
    BY DEF RInv
  <1>2. /\ InRoute /\ InRoute' /\ pc = "loop" /\ k = 1 /\ Job(n)
        /\ pc' = pc /\ loop' = loop /\ b' = b /\ k' = k /\ batches' = batches
        /\ iter' = iter /\ writeEach' = writeEach /\ final' = final
        /\ UNCHANGED <<topo, usage, place>>
    BY <1>1, PhaseFacts DEF mazeRoute, place, setting, InRoute
  <1>3. /\ LoopInv' /\ pending' \subseteq Nets
        /\ \A m \in Nets \ {n} : (InHand(m)' <=> InHand(m)) /\ (Waiting(m)' <=> Waiting(m))
        /\ Waiting(n) /\ InHand(n)' /\ ~Waiting(n)'
    BY <1>1, <1>2, JobStep
  <1>4. n \in MultiPin /\ verdict[n] = "SUCC_NORMAL" /\ Fresh(n)
    BY <1>1, <1>2, <1>3 DEF StageInv
  <1>5. /\ status' = [status EXCEPT ![n] = verdict'[n]]
        /\ local' \in [Nets -> Topo] /\ verdict' \in [Nets -> Status]
        /\ isSucc(verdict'[n]) => local'[n].routed
        /\ \A m \in Nets \ {n} : verdict'[m] = verdict[m] /\ local'[m] = local[m]
    <2>1. status' = [status EXCEPT ![n] = verdict'[n]]
      BY DEF mazeRoute
    <2>2. CASE \E r \in Routes[n] : \E e \in Extensions(n, r) :
                 /\ local' = [local EXCEPT ![n] = [routed |-> TRUE, route |-> r, ext |-> e]]
                 /\ verdict' = verdict
      <3>1. PICK r \in Routes[n] : \E e \in Extensions(n, r) :
              /\ local' = [local EXCEPT ![n] = [routed |-> TRUE, route |-> r, ext |-> e]]
              /\ verdict' = verdict
        BY <2>2
      <3>2. PICK e \in Extensions(n, r) :
              /\ local' = [local EXCEPT ![n] = [routed |-> TRUE, route |-> r, ext |-> e]]
              /\ verdict' = verdict
        BY <3>1
      <3>3. r \in Route
        BY <1>4, RouterAssumption
      <3>4. [routed |-> TRUE, route |-> r, ext |-> e] \in Topo
        BY <3>3, ExtensionsTyped DEF Topo
      <3> QED BY <1>1, <2>1, <3>2, <3>4 DEF TypeInv
    <2>3. CASE /\ verdict' = [verdict EXCEPT ![n] = Both(@, "FAIL_DISCONNECTED_GRID_GRAPH")]
               /\ local' = local
      <3>1. /\ Both(verdict[n], "FAIL_DISCONNECTED_GRID_GRAPH") \in Status
            /\ ~isSucc(Both(verdict[n], "FAIL_DISCONNECTED_GRID_GRAPH"))
        BY <1>4, StatusFacts, BothFacts
      <3> QED BY <1>1, <2>1, <2>3, <3>1 DEF TypeInv
    <2> QED BY <2>2, <2>3 DEF mazeRoute
  <1>6. TypeInv'
    BY <1>1, <1>2, <1>3, <1>5 DEF TypeInv
  <1>7. StageInv'
    <2>1. Mazed(n)'
      BY <1>1, <1>2, <1>4, <1>5 DEF Mazed, Fresh, TypeInv
    <2>2. \A m \in Nets \ {n} :
            /\ status'[m] = status[m] /\ verdict'[m] = verdict[m]
            /\ topo'[m] = topo[m] /\ local'[m] = local[m]
      BY <1>1, <1>2, <1>5 DEF TypeInv
    <2> QED BY <1>1, <1>2, <1>3, <2>1, <2>2 DEF StageInv, InRoute, Settled, Fresh, Mazed
  <1>8. UsageInv'
    BY <1>1, <1>2, StillUsage DEF InRoute
  <1> QED BY <1>3, <1>6, <1>7, <1>8 DEF RInv

(* The topology found is made the net's own and recorded in one step; a    *)
(* net without success has and gets nothing.                               *)
LEMMA CommitRInv == ASSUME RInv, NEW n \in Nets, commitRouteResult(n) PROVE RInv'
  <1>1. TypeInv /\ LoopInv /\ StageInv /\ UsageInv
    BY DEF RInv
  <1>2. /\ InRoute /\ InRoute' /\ pc = "loop" /\ loop = "route" /\ k = 2 /\ Job(n)
        /\ pc' = pc /\ loop' = loop /\ b' = b /\ k' = k /\ batches' = batches
        /\ iter' = iter /\ writeEach' = writeEach /\ final' = final
        /\ UNCHANGED <<status, verdict, place>>
    BY <1>1, PhaseFacts DEF commitRouteResult, place, setting, InRoute
  <1>3. /\ LoopInv' /\ pending' \subseteq Nets
        /\ \A m \in Nets \ {n} : (InHand(m)' <=> InHand(m)) /\ (Waiting(m)' <=> Waiting(m))
        /\ InHand(n) /\ ~InHand(n)' /\ (Waiting(n)' => Waiting(n))
    BY <1>1, <1>2, JobStep
  <1>4. Mazed(n)
    BY <1>1, <1>2, <1>3 DEF StageInv
  <1>5. succeeded(n) <=> isSucc(verdict[n])
    BY <1>2 DEF succeeded
  <1>6. Covered(topo[n]) = {} /\ local[n] \in Topo
    BY <1>1, <1>4, NoTopoFacts DEF Mazed, TypeInv
  <1>7. CASE ~succeeded(n)
    <2>1. UNCHANGED <<topo, local, usage>>
      BY <1>7 DEF commitRouteResult
    <2>2. TypeInv'
      BY <1>1, <1>2, <1>3, <2>1 DEF TypeInv
    <2>3. Settled(n)'
      BY <1>2, <1>4, <1>5, <1>7, <2>1 DEF Settled, Mazed
    <2>4. StageInv'
      BY <1>1, <1>2, <1>3, <2>1, <2>3 DEF StageInv, InRoute, Settled, Fresh, Mazed
    <2>5. UsageInv'
      BY <1>1, <1>2, <2>1, StillUsage DEF InRoute
    <2> QED BY <1>3, <2>2, <2>4, <2>5 DEF RInv
  <1>8. CASE succeeded(n)
    <2>1. /\ topo' = [topo EXCEPT ![n] = local[n]]
          /\ local' = [local EXCEPT ![n] = NoTopo]
          /\ usage' = usage \cup Recorded(n, local[n])
      BY <1>8 DEF commitRouteResult
    <2>2. Recorded(n, local[n]) \subseteq Cells \X Nets
      BY <1>6, CoveredInCells DEF Recorded
    <2>3. TypeInv'
      BY <1>1, <1>2, <1>3, <1>6, <2>1, <2>2, NoTopoFacts DEF TypeInv
    <2>4. /\ topo'[n] = local[n]
          /\ \A m \in Nets \ {n} : topo'[m] = topo[m] /\ local'[m] = local[m]
      BY <1>1, <2>1 DEF TypeInv
    <2>5. Settled(n)'
      BY <1>2, <1>4, <1>5, <1>8, <2>4 DEF Settled, Mazed
    <2>6. \A m \in Nets : Waiting(m)' => m # n
      BY <1>1, <1>2, <1>3, WaitingNotInHand DEF Job
    <2>7. StageInv'
      BY <1>1, <1>2, <1>3, <2>4, <2>5, <2>6 DEF StageInv, InRoute, Settled, Fresh, Mazed
    <2>8. /\ \A c \in Cells : <<c, n>> \in usage' <=> c \in Covered(topo'[n])
          /\ \A m \in Nets \ {n}, c \in Cells : <<c, m>> \in usage' <=> <<c, m>> \in usage
      BY <1>1, <1>6, <2>1, <2>4 DEF UsageInv, Recorded
    <2>9. \A m \in Nets : Covered(topo'[m]) \subseteq Cells
      BY <2>3, CoveredInCells DEF TypeInv
    <2>10. \A m \in Nets, c \in Cells : <<c, m>> \in usage' => c \in Covered(topo'[m])
      BY <1>1, <2>4, <2>8 DEF UsageInv
    <2>11. ~writeEach => \A m \in Nets : \A c \in Covered(topo'[m]) : <<c, m>> \in usage'
      BY <1>1, <1>2, <2>4, <2>8, <2>9 DEF UsageInv
    <2>12. UsageInv'
      BY <1>2, <2>10, <2>11 DEF UsageInv
    <2> QED BY <1>3, <2>3, <2>7, <2>12 DEF RInv
  <1> QED BY <1>7, <1>8

(* What the jobs of the min-area pass have in common.                      *)
LEMMA MinAreaJob ==
  ASSUME RInv, NEW n \in Nets, Job(n), UNCHANGED <<place, setting>>,
         pc = "loop", loop = "minArea", UNCHANGED <<status, verdict, local>>,
         topo' \in [Nets -> Topo], usage' \subseteq Cells \X Nets,
         \A m \in Nets : Settled(m)',
         \A m \in Nets, c \in Cells : <<c, m>> \in usage' => c \in Covered(topo'[m]),
         \A m \in Nets, c \in Cells :
           InHand(m)' /\ <<c, m>> \in usage' => c \in topo'[m].route.tree
  PROVE  RInv'
  <1>1. TypeInv /\ LoopInv /\ StageInv /\ UsageInv
    BY DEF RInv
  <1>2. /\ pc' = "loop" /\ loop' = "minArea" /\ b' = b /\ k' = k /\ batches' = batches
        /\ iter' = iter /\ writeEach' = writeEach /\ final' = final
    BY DEF place, setting
  <1>3. LoopInv' /\ pending' \subseteq Nets
    BY <1>1, JobStep
  <1>4. TypeInv'
    BY <1>1, <1>2, <1>3 DEF TypeInv
  <1>5. StageInv'
    BY <1>2 DEF StageInv, InRoute
  <1>6. UsageInv'
    BY <1>1, <1>2 DEF UsageInv, InRoute
  <1> QED BY <1>3, <1>4, <1>5, <1>6 DEF RInv

(* A net whose status is no success has nothing in the database.           *)
LEMMA NothingRecorded ==
  ASSUME UsageInv, NEW n \in Nets, Settled(n), ~isSucc(status[n])
  PROVE  \A c \in Cells : <<c, n>> \notin usage
  BY NoTopoFacts DEF Settled, UsageInv

LEMMA ClearRInv == ASSUME RInv, NEW n \in Nets, clearMinAreaRouteResult(n) PROVE RInv'
  <1>1. TypeInv /\ LoopInv /\ StageInv /\ UsageInv
    BY DEF RInv
  <1>2. /\ pc = "loop" /\ loop = "minArea" /\ k = 1 /\ Job(n)
        /\ UNCHANGED <<place, setting, status, verdict, local, topo>>
    BY <1>1, PhaseFacts DEF clearMinAreaRouteResult, nets
  <1>3. usage' = IF succeeded(n) THEN usage \ RecordedExt(n, topo[n]) ELSE usage
    BY DEF clearMinAreaRouteResult
  <1>4. \A m \in Nets \ {n} : InHand(m)' <=> InHand(m)
    BY <1>1, <1>2, JobStep
  <1>5. \A m \in Nets : Settled(m)
    BY <1>1, <1>2 DEF StageInv, InRoute
  <1>6. succeeded(n) <=> isSucc(status[n])
    BY <1>2 DEF succeeded
  <1>7. \A c \in Cells : <<c, n>> \in usage' => c \in topo[n].route.tree
    <2>1. CASE succeeded(n)
      <3>1. \A c \in UNION topo[n].ext : <<c, n>> \in RecordedExt(n, topo[n])
        BY DEF RecordedExt
      <3> QED BY <1>1, <1>3, <2>1, <3>1 DEF UsageInv, Covered
    <2>2. CASE ~succeeded(n)
      BY <1>1, <1>3, <1>5, <1>6, <2>2, NothingRecorded
    <2> QED BY <2>1, <2>2
  <1>8. \A m \in Nets : Settled(m)'
    BY <1>2, <1>5 DEF Settled
  <1>9. usage' \subseteq usage
    BY <1>3
  <1>10. \A m \in Nets, c \in Cells : <<c, m>> \in usage' => c \in Covered(topo'[m])
    BY <1>1, <1>2, <1>9 DEF UsageInv
  <1>11. \A m \in Nets, c \in Cells :
           InHand(m)' /\ <<c, m>> \in usage' => c \in topo'[m].route.tree
    BY <1>1, <1>2, <1>4, <1>7, <1>9 DEF UsageInv
  <1>12. topo' \in [Nets -> Topo] /\ usage' \subseteq Cells \X Nets
    BY <1>1, <1>2, <1>9 DEF TypeInv
  <1> QED BY <1>2, <1>8, <1>10, <1>11, <1>12, MinAreaJob

LEMMA ExtendRInv == ASSUME RInv, NEW n \in Nets, run2(n) PROVE RInv'
  <1>1. TypeInv /\ LoopInv /\ StageInv /\ UsageInv
    BY DEF RInv
  <1>2. /\ pc = "loop" /\ loop = "minArea" /\ k = 2 /\ Job(n)
        /\ UNCHANGED <<place, setting, status, verdict, local, usage>>
    BY <1>1, PhaseFacts DEF run2
  <1>3. /\ \A m \in Nets \ {n} : InHand(m)' <=> InHand(m)
        /\ InHand(n) /\ ~InHand(n)'
    BY <1>1, <1>2, JobStep
  <1>4. \A m \in Nets : Settled(m)
    BY <1>1, <1>2 DEF StageInv, InRoute
  <1>5. succeeded(n) <=> isSucc(status[n])
    BY <1>2 DEF succeeded
  <1>6. topo[n] \in Topo
    BY <1>1 DEF TypeInv
  <1>7. /\ topo' \in [Nets -> Topo]
        /\ \A m \in Nets \ {n} : topo'[m] = topo[m]
        /\ topo'[n].route = topo[n].route /\ topo'[n].routed = topo[n].routed
        /\ ~succeeded(n) => topo'[n] = topo[n]
    <2>1. CASE succeeded(n)
      <3>1. PICK e \in Redone(n, topo[n]) : topo' = [topo EXCEPT ![n].ext = e]
        BY <2>1 DEF run2
      <3>2. e \in SUBSET SUBSET Cells
        BY <1>6, RedoneTyped
      <3>3. [topo[n] EXCEPT !.ext = e] \in Topo
        BY <1>6, <3>2 DEF Topo
      <3>4. topo' = [topo EXCEPT ![n] = [topo[n] EXCEPT !.ext = e]]
        BY <1>1, <3>1 DEF TypeInv
      <3>5. /\ [topo[n] EXCEPT !.ext = e].route = topo[n].route
            /\ [topo[n] EXCEPT !.ext = e].routed = topo[n].routed
        BY <1>6 DEF Topo
      <3> QED BY <1>1, <2>1, <3>3, <3>4, <3>5 DEF TypeInv
    <2>2. CASE ~succeeded(n)
      BY <1>1, <2>2 DEF run2, TypeInv
    <2> QED BY <2>1, <2>2
  <1>8. \A m \in Nets : Settled(m)'
    BY <1>2, <1>4, <1>5, <1>7 DEF Settled
  <1>9. \A c \in Cells : <<c, n>> \in usage => c \in topo[n].route.tree
    BY <1>1, <1>2, <1>3 DEF UsageInv
  <1>10. \A m \in Nets, c \in Cells : <<c, m>> \in usage' => c \in Covered(topo'[m])
    <2>1. topo[n].route.tree \subseteq Covered(topo'[n])
      BY <1>7 DEF Covered
    <2> QED BY <1>1, <1>2, <1>7, <1>9, <2>1 DEF UsageInv
  <1>11. \A m \in Nets, c \in Cells :
           InHand(m)' /\ <<c, m>> \in usage' => c \in topo'[m].route.tree
    BY <1>1, <1>2, <1>3, <1>7 DEF UsageInv
  <1>12. usage' \subseteq Cells \X Nets
    BY <1>1, <1>2 DEF TypeInv
  <1> QED BY <1>2, <1>7, <1>8, <1>10, <1>11, <1>12, MinAreaJob

LEMMA RecommitRInv == ASSUME RInv, NEW n \in Nets, commitMinAreaRouteResult(n) PROVE RInv'
  <1>1. TypeInv /\ LoopInv /\ StageInv /\ UsageInv
    BY DEF RInv
  <1>2. /\ pc = "loop" /\ loop = "minArea" /\ k = 3 /\ Job(n)
        /\ UNCHANGED <<place, setting, status, verdict, local, topo>>
    BY <1>1, PhaseFacts DEF commitMinAreaRouteResult, nets
  <1>3. usage' = IF succeeded(n) THEN usage \cup RecordedExt(n, topo[n]) ELSE usage
    BY DEF commitMinAreaRouteResult
  <1>4. \A m \in Nets : ~InHand(m)'
    BY <1>2 DEF InHand, place
  <1>5. \A m \in Nets : Settled(m)
    BY <1>1, <1>2 DEF StageInv, InRoute
  <1>6. topo[n] \in Topo /\ Covered(topo[n]) \subseteq Cells
    BY <1>1, CoveredInCells DEF TypeInv
  <1>7. RecordedExt(n, topo[n]) \subseteq Covered(topo[n]) \X {n}
    BY DEF RecordedExt, Covered
  <1>8. \A m \in Nets : Settled(m)'
    BY <1>2, <1>5 DEF Settled
  <1>9. \A m \in Nets, c \in Cells : <<c, m>> \in usage' => c \in Covered(topo'[m])
    BY <1>1, <1>2, <1>3, <1>7 DEF UsageInv
  <1>10. topo' \in [Nets -> Topo] /\ usage' \subseteq Cells \X Nets
    BY <1>1, <1>2, <1>3, <1>6, <1>7 DEF TypeInv
  <1> QED BY <1>2, <1>4, <1>8, <1>9, <1>10, MinAreaJob

LEMMA JobRInv == ASSUME RInv, NEW n \in Nets, JobOf(n) PROVE RInv'
  <1>1. TypeInv /\ LoopInv
    BY DEF RInv
  <1>2. CASE getViaTypes(n)
    BY <1>1, <1>2, PhaseFacts, QuietJob DEF getViaTypes, InRoute
  <1>3. CASE commitViaTypes(n)
    BY <1>1, <1>3, PhaseFacts, QuietJob DEF commitViaTypes, InRoute
  <1>4. CASE postRoute(n)
    BY <1>1, <1>4, PhaseFacts, QuietJob DEF postRoute
  <1>5. CASE unfinish(n)
    BY <1>1, <1>5, PhaseFacts, QuietJob DEF unfinish
  <1> QED BY <1>2, <1>3, <1>4, <1>5, PreRInv, MazeRInv, CommitRInv, ClearRInv,
             ExtendRInv, RecommitRInv DEF JobOf

-----------------------------------------------------------------------------
(* The main thread between the jobs                                        *)

LEMMA ScheduleRInv == ASSUME RInv, Schedule PROVE RInv'
  <1> DEFINE S == {n \in Nets : verdict[n] = "SUCC_NORMAL"}
  <1>1. TypeInv /\ LoopInv /\ StageInv /\ UsageInv
    BY DEF RInv
  <1>2. /\ pc = "pre" /\ pending = {}
        /\ iter' = iter /\ writeEach' = writeEach /\ final' = final
        /\ UNCHANGED <<status, verdict, local, topo, usage>>
    BY <1>1, PhaseFacts DEF Schedule, setting, nets
  <1>3. PICK list \in BatchLists(S, GuidesApart) : Enter("route", list, 0)
    BY DEF Schedule
  <1>4. /\ pc' = "loop" /\ loop' = "route" /\ LoopInv'
        /\ b' \in Nat /\ k' \in Nat /\ batches' \in Seq(SUBSET Nets)
        /\ pending' \subseteq Nets
        /\ \A n \in Nets : ~InHand(n)' /\ (Waiting(n)' => n \in S)
    BY <1>3, EnterStep
  <1>5. TypeInv'
    BY <1>1, <1>2, <1>4 DEF TypeInv
  <1>6. StageInv'
    BY <1>1, <1>2, <1>4 DEF StageInv, Settled, Fresh, InRoute
  <1>7. UsageInv'
    BY <1>1, <1>2, <1>4, StillUsage DEF InRoute
  <1> QED BY <1>4, <1>5, <1>6, <1>7 DEF RInv

LEMMA ProceedRInv == ASSUME RInv, Proceed PROVE RInv'
  <1>1. TypeInv /\ LoopInv /\ StageInv /\ UsageInv
    BY DEF RInv
  <1>2. /\ pc = "loop" /\ pc' = pc /\ loop' = loop /\ batches' = batches
        /\ iter' = iter /\ writeEach' = writeEach /\ final' = final
        /\ UNCHANGED <<status, verdict, local, topo, usage>>
    BY DEF Proceed, setting, nets
  <1>3. /\ LoopInv' /\ b' \in Nat /\ k' \in Nat /\ pending' \subseteq Nets
        /\ \A n \in Nets : (InHand(n)' <=> InHand(n)) /\ (Waiting(n)' => Waiting(n))
    BY <1>1, ProceedStep
  <1>4. TypeInv'
    BY <1>1, <1>2, <1>3 DEF TypeInv
  <1>5. StageInv'
    BY <1>1, <1>2, <1>3 DEF StageInv, Settled, Fresh, Mazed, InRoute
  <1>6. UsageInv'
    BY <1>1, <1>2, <1>3, StillUsage DEF UsageInv, InRoute
  <1> QED BY <1>3, <1>4, <1>5, <1>6 DEF RInv

(* Leaving the loops for a phase over all nets, the next iteration or the  *)
(* end.                                                                    *)
LEMMA LeaveRInv ==
  ASSUME RInv, NEW p \in {"iterate", "post", "unfinish", "done"},
         NEW jobs \in SUBSET Nets, EnterPhase(p, jobs),
         \A n \in Nets : Settled(n), iter' \in Nat, p = "iterate" => iter' # 0,
         UNCHANGED <<writeEach, usage, status, verdict, local, topo, final>>,
         p = "iterate" => writeEach \/ InRoute,
         p = "unfinish" => writeEach, p = "post" => writeEach \/ final
  PROVE  RInv'
  <1>1. TypeInv /\ LoopInv /\ StageInv /\ UsageInv
    BY DEF RInv
  <1>2. pc' = p /\ pending' = jobs /\ b' = 0 /\ k' = 0 /\ batches' = <<>>
    BY DEF EnterPhase
  <1>3. batches' \in Seq(SUBSET Nets)
    BY <1>2
  <1>4. TypeInv'
    BY <1>1, <1>2, <1>3 DEF TypeInv
  <1>5. LoopInv'
    BY <1>2 DEF LoopInv
  <1>6. StageInv'
    BY <1>2 DEF StageInv, Settled, InRoute
  <1>7. UsageInv'
    BY <1>1, <1>2, StillUsage DEF InRoute
  <1> QED BY <1>4, <1>5, <1>6, <1>7 DEF RInv

LEMMA EndRouteRInv == ASSUME RInv, EndRoute PROVE RInv'
  <1>1. TypeInv /\ LoopInv /\ StageInv /\ UsageInv
    BY DEF RInv
  <1>2. InRoute /\ UNCHANGED <<writeEach, usage, nets>>
    BY DEF EndRoute, EndOfLoop, InRoute
  <1>3. \A n \in Nets : Settled(n)
    BY <1>1, EndStep DEF EndRoute, StageInv
  <1>4. CASE writeEach
    BY <1>2, <1>3, <1>4, FinishRInv DEF EndRoute
  <1>5. CASE ~writeEach
    <2>1. iter' = iter + 1 /\ EnterPhase("iterate", {}) /\ final' = final
      BY <1>5 DEF EndRoute, NextIteration
    <2>2. iter' \in Nat /\ iter' # 0
      BY <1>1, <2>1 DEF TypeInv
    <2> QED BY <1>2, <1>3, <2>1, <2>2, LeaveRInv DEF nets
  <1> QED BY <1>4, <1>5

LEMMA EndFinishRInv == ASSUME RInv, EndFinishLoop PROVE RInv'
  <1>1. TypeInv /\ LoopInv /\ StageInv /\ UsageInv
    BY DEF RInv
  <1>2. /\ pc = "loop" /\ loop \in {"minArea", "select"}
        /\ iter' = iter /\ writeEach' = writeEach /\ final' = final
        /\ UNCHANGED <<status, verdict, local, topo, usage>>
    BY DEF EndFinishLoop, EndOfLoop, setting, nets
  <1>3. \A n \in Nets : Settled(n)
    BY <1>1, <1>2 DEF StageInv, InRoute
  <1>4. CASE Enter("select", batches, round + 1)
    <2>1. /\ pc' = "loop" /\ loop' = "select" /\ b' = 1 /\ k' = 1 /\ batches' = batches
          /\ pending' = IF batches = <<>> THEN {} ELSE batches[1]
      BY <1>4 DEF Enter
    <2>2. batches \in Seq(SUBSET Nets) /\ (batches # <<>> => 1 \in 1 .. Len(batches))
      BY <1>1 DEF TypeInv
    <2>3. pending' \subseteq Nets
      BY <2>1, <2>2
    <2>4. LoopInv'
      BY <1>1, <1>2, <2>1, <2>2 DEF LoopInv, Phases
    <2>5. TypeInv'
      BY <1>1, <1>2, <2>1, <2>3 DEF TypeInv
    <2>6. StageInv'
      BY <1>2, <1>3, <2>1 DEF StageInv, Settled, InRoute
    <2>7. UsageInv'
      BY <1>1, <1>2, <2>1, StillUsage DEF UsageInv, InRoute
    <2> QED BY <2>4, <2>5, <2>6, <2>7 DEF RInv
  <1>5. CASE EnterPhase("post", Nets)
    <2>1. writeEach \/ final
      BY <1>1, <1>2 DEF UsageInv
    <2>2. iter' \in Nat
      BY <1>1, <1>2 DEF TypeInv
    <2> QED BY <1>2, <1>3, <1>5, <2>1, <2>2, LeaveRInv
  <1> QED BY <1>4, <1>5 DEF EndFinishLoop

LEMMA FixOpenRInv == ASSUME RInv, FixOpen PROVE RInv'
  <1>1. TypeInv /\ LoopInv /\ StageInv /\ UsageInv
    BY DEF RInv
  <1>2. /\ pc = "post" /\ iter' = iter /\ writeEach' = writeEach /\ final' = final
        /\ UNCHANGED <<status, verdict, local, topo, usage>>
    BY <1>1, PhaseFacts DEF FixOpen, setting
  <1>3. \A n \in Nets : Settled(n)
    BY <1>1, <1>2 DEF StageInv, InRoute
  <1>4. iter' \in Nat /\ (writeEach \/ final)
    BY <1>1, <1>2 DEF TypeInv, UsageInv
  <1>5. CASE final
    BY <1>2, <1>3, <1>4, <1>5, LeaveRInv DEF FixOpen
  <1>6. CASE ~final
    BY <1>2, <1>3, <1>4, <1>6, LeaveRInv DEF FixOpen
  <1> QED BY <1>5, <1>6

LEMMA EndUnfinishRInv == ASSUME RInv, EndUnfinish PROVE RInv'
  <1>1. TypeInv /\ LoopInv /\ StageInv /\ UsageInv
    BY DEF RInv
  <1>2. /\ pc = "unfinish" /\ iter' = iter + 1 /\ EnterPhase("iterate", {})
        /\ UNCHANGED <<writeEach, usage, status, verdict, local, topo, final>>
    BY <1>1, PhaseFacts DEF EndUnfinish, NextIteration, nets
  <1>3. \A n \in Nets : Settled(n)
    BY <1>1, <1>2 DEF StageInv, InRoute
  <1>4. iter' \in Nat /\ iter' # 0 /\ writeEach
    BY <1>1, <1>2 DEF TypeInv, UsageInv
  <1> QED BY <1>2, <1>3, <1>4, LeaveRInv

LEMMA StillRInv == ASSUME RInv, UNCHANGED vars PROVE RInv'
  BY DEF RInv, TypeInv, LoopInv, StageInv, UsageInv, InRoute, Waiting, InHand,
         Settled, Fresh, Mazed, Covered, vars

LEMMA NextRInv == RInv /\ [Next]_vars => RInv'
  <1> SUFFICES ASSUME RInv, [Next]_vars PROVE RInv'
    OBVIOUS
  <1>1. CASE Main
    BY <1>1, StartRInv, StopRInv, ScheduleRInv, ProceedRInv, EndRouteRInv,
       EndFinishRInv, FixOpenRInv, EndUnfinishRInv DEF Main
  <1>2. CASE UNCHANGED vars
    BY <1>2, StillRInv
  <1>3. CASE Done
    BY <1>3, StillRInv DEF Done
  <1>4. ASSUME NEW n \in Nets, JobOf(n) PROVE RInv'
    BY <1>4, JobRInv
  <1> QED BY <1>1, <1>2, <1>3, <1>4 DEF Next

LEMMA SpecRInv == Spec => []RInv
  <1> QED BY InitRInv, NextRInv, PTL DEF Spec

-----------------------------------------------------------------------------
(* Whatever fails in which iteration, the status by which finish() decides *)
(* whom to process tells which nets have a topology: Router::run keeps     *)
(* none of an earlier iteration and loses none (multi_net/Router.cpp).     *)
THEOREM SpecStatusMatchesTopo == Spec => []StatusMatchesTopo
  <1>1. RInv => StatusMatchesTopo
    BY NoTopoFacts DEF RInv, StageInv, StatusMatchesTopo, Between, InRoute, Settled
  <1> QED BY SpecRInv, <1>1, PTL

(* The database has no wire that is not in a topology, and as long as no   *)
(* intermediate result is written it has all of them whenever the nets to  *)
(* reroute are looked for.                                                 *)
THEOREM SpecDatabaseExact == Spec => []DatabaseExact
  <1>1. ASSUME RInv PROVE DatabaseExact
    <2>1. TypeInv /\ UsageInv
      BY <1>1 DEF RInv
    <2>2. usage \subseteq AllRecorded
      <3>1. ASSUME NEW u \in usage PROVE u \in AllRecorded
        <4>1. PICK c \in Cells, n \in Nets : u = <<c, n>>
          BY <2>1 DEF TypeInv
        <4>2. c \in Covered(topo[n])
          BY <2>1, <4>1 DEF UsageInv
        <4>3. u \in Recorded(n, topo[n])
          BY <4>1, <4>2 DEF Recorded
        <4> QED BY <4>3 DEF AllRecorded
      <3> QED BY <3>1
    <2>3. pc = "iterate" /\ ~writeEach => AllRecorded \subseteq usage
      BY <2>1 DEF UsageInv, AllRecorded, Recorded
    <2> QED BY <2>2, <2>3 DEF DatabaseExact
  <1> QED BY SpecRInv, <1>1, PTL

(* Whatever was recorded since, and by whom: a net that has a wire or via  *)
(* too close to another net's metal, by the types on record and taking its *)
(* own vias for default ones, loses its topology; of wires and default     *)
(* vias both nets do, as they see each other alike.                        *)
THEOREM SpecBothRippedUp == Spec => BothRippedUp
  <1> DEFINE Start == pc = "iterate" /\ pc' = "pre" /\ ~writeEach
  <1>1. ASSUME RInv, [Next]_vars, Start, NEW n \in Nets, NEW m \in Nets, n # m,
               NEW c \in Covered(topo[n]), NEW d \in Covered(topo[m]),
               <<c, d>> \in Near[viaType[d]]
        PROVE  ~topo'[n].routed
    <2>1. TypeInv /\ LoopInv /\ StageInv /\ UsageInv
      BY <1>1 DEF RInv
    <2>2. <<d, m>> \in usage
      BY <1>1, <2>1 DEF UsageInv
    <2>3. checkViolation(n)
      <3>1. c \in topo[n].route.tree \/ \E seg \in topo[n].ext : c \in seg
        BY <1>1 DEF Covered
      <3>2. ASSUME NEW C, c \in C PROVE Violates(n, C)
        <4>1. <<d, m>>[1] = d /\ <<d, m>>[2] = m
          OBVIOUS
        <4> QED BY <1>1, <2>2, <3>2, <4>1 DEF Violates, Sees
      <3> QED BY <3>1, <3>2 DEF checkViolation
    <2>4. n \in getNetsToRoute
      BY <2>3 DEF getNetsToRoute
    <2>5. StartIteration
      BY <1>1, <2>1, OnlyStart
    <2>6. CASE iter > 0
      <3>1. ripup(getNetsToRoute)
        BY <2>5, <2>6 DEF StartIteration
      <3>2. getNetsToRoute \subseteq Nets
        BY DEF getNetsToRoute
      <3> QED BY <2>1, <2>4, <3>1, <3>2, RipupStep, NoTopoFacts DEF Fresh
    <2>7. CASE ~(iter > 0)
      <3>1. iter = 0
        BY <2>1, <2>7 DEF TypeInv
      <3>2. Covered(topo[n]) = {}
        BY <1>1, <2>1, <3>1, NoTopoFacts DEF StageInv, Fresh
      <3> QED BY <1>1, <3>2
    <2> QED BY <2>6, <2>7
  <1>2. ASSUME RInv, NEW n \in Nets, NEW m \in Nets,
               NEW c \in Covered(topo[n]), NEW d \in Covered(topo[m]),
               <<c, d>> \in Near[viaType[d]], viaType[c] = DefaultType, viaType[d] = DefaultType
        PROVE  <<d, c>> \in Near[viaType[c]]
    <2>1. Covered(topo[n]) \subseteq Cells /\ Covered(topo[m]) \subseteq Cells
      BY <1>2, CoveredInCells DEF RInv, TypeInv
    <2> QED BY <1>2, <2>1, RouterAssumption
  <1>3. ASSUME RInv, [Next]_vars, Start, NEW n \in Nets, NEW m \in Nets, n # m,
               NEW c \in Covered(topo[n]), NEW d \in Covered(topo[m]),
               <<c, d>> \in Near[viaType[d]]
        PROVE  /\ ~topo'[n].routed
               /\ viaType[c] = DefaultType /\ viaType[d] = DefaultType => ~topo'[m].routed
    BY <1>1, <1>2, <1>3
  <1>4. RInv /\ [Next]_vars =>
          [pc = "iterate" /\ pc' = "pre" /\ ~writeEach =>
             \A n, m \in Nets : n # m =>
               \A c \in Covered(topo[n]), d \in Covered(topo[m]) :
                 <<c, d>> \in Near[viaType[d]] =>
                   /\ ~topo'[n].routed
                   /\ viaType[c] = DefaultType /\ viaType[d] = DefaultType => ~topo'[m].routed]_vars
    BY <1>3
  <1> QED BY SpecRInv, <1>4, PTL DEF Spec, BothRippedUp

-----------------------------------------------------------------------------
(* What Router::finish writes: the via types of each net are the recorded  *)
(* ones, and each net of several pins has its wires once, with and without *)
(* intermediate results.                                                   *)

\* a net of the batch that chooses or records via types
InBatch(n) ==
  pc = "loop" /\ loop \in {"route", "select"} /\ batches # <<>> /\ n \in batches[b]

Recent(n) == n \in typed /\ n \in marked

(* Outside the loops that choose via types those of a routed net are       *)
(* recorded. In them a net of the batch has chosen once its job is done,   *)
(* and what it chose is recorded by its job in the next phase.             *)
TypesInv ==
  /\ \A n \in Nets : isSucc(status[n]) /\ ~InBatch(n) => Recent(n)
  /\ loop = "route" =>
       \A n \in Nets : InBatch(n) /\ ~(k = 1 /\ n \in pending) => status[n] = verdict[n]
  /\ loop = "route" =>
       \A n \in Nets : InBatch(n) /\ isSucc(status[n]) =>
         /\ k = 4 \/ (k = 3 /\ n \notin pending) => n \in typed
         /\ k = 4 /\ n \notin pending => n \in marked
  /\ loop = "select" =>
       \A n \in Nets : InBatch(n) /\ isSucc(status[n]) =>
         /\ n \in typed
         /\ (k = 1 /\ n \in pending) \/ (k = 2 /\ n \notin pending) => n \in marked

\* the wires of a net are written: its own, or a Steiner tree
Written(n) ==
  /\ n \in MultiPin => output[n] # <<>>
  /\ topo[n].route.tree # {} => output[n] = <<"route">>

(* Output is made in the phase that writes and taken back before the next  *)
(* iteration.                                                              *)
OutInv ==
  /\ output \in [Nets -> {<<>>, <<"route">>, <<"STT">>}]
  /\ \A n \in Nets : n \notin MultiPin => ~isSucc(status[n]) /\ output[n] = <<>>
  /\ pc \notin {"post", "unfinish", "done"} => \A n \in Nets : output[n] = <<>>
  /\ pc = "post" =>
       /\ loop = "none"
       /\ \A n \in Nets :
            /\ n \in pending => output[n] = <<>>
            /\ n \notin pending /\ topo[n].route.tree # {} => output[n] = <<"route">>
  /\ pc = "unfinish" => \A n \in Nets \ pending : output[n] = <<>>
  /\ \A n \in Nets : pc = "done" \/ (pc = "unfinish" /\ n \in pending) => Written(n)

FInv == RInv /\ TypesInv /\ OutInv

-----------------------------------------------------------------------------
(* Via types                                                               *)

LEMMA InitFInv == Init => FInv
  <1> SUFFICES ASSUME Init PROVE FInv
    OBVIOUS
  <1>1. TypesInv
    BY StatusFacts DEF Init, TypesInv
  <1>2. OutInv
    BY StatusFacts DEF Init, OutInv
  <1> QED BY <1>1, <1>2, InitRInv DEF FInv

(* A step outside the loops that choose types, and into none of them.      *)
LEMMA TypesOutside ==
  ASSUME TypesInv, UNCHANGED <<typed, marked>>,
         \A n \in Nets : ~InBatch(n), \A n \in Nets : ~InBatch(n)',
         \A n \in Nets : isSucc(status'[n]) => status'[n] = status[n]
  PROVE  TypesInv'
  BY DEF TypesInv, Recent

LEMMA StartTypes == ASSUME RInv, TypesInv, StartIteration PROVE TypesInv'
  <1> DEFINE S == IF iter > 0 THEN getNetsToRoute ELSE {}
  <1>1. /\ pc = "iterate" /\ pc' = "pre" /\ ripup(S)
    BY DEF StartIteration, EnterPhase
  <1>2. S \subseteq Nets
    BY DEF getNetsToRoute
  <1> HIDE DEF S
  <1>3. /\ typed' = typed \ S /\ marked' = marked \ S
        /\ \A n \in Nets : n \in S => ~isSucc(status'[n])
        /\ \A n \in Nets \ S : status'[n] = status[n]
    BY <1>1, <1>2, StatusFacts DEF ripup, unprocessed
  <1> QED BY <1>1, <1>3 DEF TypesInv, InBatch, Recent

(* Entering the first batch of routing and of a round of selection.        *)
LEMMA EnterTypes ==
  ASSUME TypesInv, NEW list, NEW l \in {"route", "select"}, NEW r, Enter(l, list, r),
         \A n \in Nets : ~InBatch(n) \/ Recent(n) \/ ~isSucc(status[n]),
         UNCHANGED <<status, verdict, typed, marked>>
  PROVE  TypesInv'
  <1>1. /\ pc' = "loop" /\ loop' = l /\ b' = 1 /\ k' = 1 /\ batches' = list
        /\ pending' = IF list = <<>> THEN {} ELSE list[1]
    BY DEF Enter
  <1>2. \A n \in Nets : isSucc(status[n]) => Recent(n)
    BY DEF TypesInv
  <1>3. \A n \in Nets : InBatch(n)' => n \in pending'
    BY <1>1 DEF InBatch
  <1> QED BY <1>1, <1>2, <1>3 DEF TypesInv, Recent

(* At the end of the loops all types are recorded.                         *)
LEMMA EndTypes ==
  ASSUME RInv, TypesInv, EndOfLoop
  PROVE  \A n \in Nets : isSucc(status[n]) => Recent(n)
  <1>1. TypeInv /\ LoopInv
    BY DEF RInv
  <1>2. pc = "loop" /\ pending = {} /\ (batches # <<>> => k = Len(Chain[loop]))
    BY DEF EndOfLoop
  <1>3. /\ loop = "route" /\ batches # <<>> => k = 4
        /\ loop = "select" /\ batches # <<>> => k = 2
    BY <1>2, ChainFacts DEF Phases
  <1> QED BY <1>2, <1>3 DEF TypesInv, InBatch, Recent

LEMMA ProceedTypes == ASSUME RInv, TypesInv, Proceed PROVE TypesInv'
  <1>1. TypeInv /\ LoopInv
    BY DEF RInv
  <1>2. /\ pc = "loop" /\ pc' = pc /\ loop' = loop /\ batches' = batches /\ pending = {}
        /\ UNCHANGED <<status, verdict, typed, marked>>
        /\ k \in Nat /\ b \in Nat
    BY <1>1 DEF Proceed, nets, TypeInv
  <1>3. loop \in {"route", "minArea", "select"} /\ Len(Chain[loop]) = Phases(loop)
    BY <1>1, <1>2, ChainFacts DEF LoopInv
  <1>4. CASE /\ b <= Len(batches) /\ k < Len(Chain[loop])
             /\ k' = k + 1 /\ b' = b /\ pending' = batches[b]
    <2>1. \A n \in Nets : InBatch(n)' <=> InBatch(n)
      BY <1>2, <1>4 DEF InBatch
    <2>2. \A n \in Nets : InBatch(n) => n \in pending'
      BY <1>4 DEF InBatch
    <2>3. (loop = "route" => k < 4) /\ (loop = "select" => k < 2)
      BY <1>3, <1>4 DEF Phases
    <2>4. k' # 1
      BY <1>1, <1>2, <1>4 DEF LoopInv
    <2> QED BY <1>2, <1>4, <2>1, <2>2, <2>3, <2>4 DEF TypesInv, Recent
  <1>5. CASE /\ b < Len(batches) /\ k = Len(Chain[loop])
             /\ k' = 1 /\ b' = b + 1 /\ pending' = batches[b + 1]
    <2>1. (loop = "route" => k = 4) /\ (loop = "select" => k = 2)
      BY <1>3, <1>5 DEF Phases
    <2>2. \A n \in Nets : isSucc(status[n]) => Recent(n)
      BY <1>2, <2>1 DEF TypesInv, InBatch, Recent
    <2>3. \A n \in Nets : InBatch(n)' => n \in pending'
      BY <1>2, <1>5 DEF InBatch
    <2> QED BY <1>2, <1>5, <2>2, <2>3 DEF TypesInv, Recent
  <1> QED BY <1>4, <1>5 DEF Proceed

(* A job of the batch, of whatever phase.                                  *)
LEMMA JobPlace ==
  ASSUME RInv, NEW n \in Nets, Job(n), UNCHANGED place
  PROVE  /\ pc' = pc /\ loop' = loop /\ k' = k
         /\ n \in pending /\ pending' = pending \ {n}
         /\ \A m \in Nets : InBatch(m)' <=> InBatch(m)
         /\ pc = "loop" /\ loop \in {"route", "select"} => InBatch(n)
  <1>1. /\ pc' = pc /\ loop' = loop /\ b' = b /\ k' = k /\ batches' = batches
        /\ n \in pending /\ pending' = pending \ {n}
    BY DEF Job, place
  <1>2. pc = "loop" => batches # <<>> /\ n \in batches[b]
    BY <1>1 DEF RInv, LoopInv
  <1> QED BY <1>1, <1>2 DEF InBatch

(* Jobs of phases that neither route nor choose nor record.                *)
LEMMA OtherTypes ==
  ASSUME RInv, TypesInv, NEW n \in Nets, Job(n), UNCHANGED place,
         UNCHANGED <<status, typed, marked>>,
         InBatch(n) => loop = "route" /\ k = 2 /\ verdict' = verdict
  PROVE  TypesInv'
  <1>1. /\ pc' = pc /\ loop' = loop /\ k' = k /\ n \in pending /\ pending' = pending \ {n}
        /\ \A m \in Nets : InBatch(m)' <=> InBatch(m)
        /\ pc = "loop" /\ loop \in {"route", "select"} => InBatch(n)
    BY JobPlace
  <1>2. CASE InBatch(n)
    BY <1>1, <1>2 DEF TypesInv, Recent
  <1>3. CASE ~InBatch(n)
    <2>1. \A m \in Nets : ~InBatch(m)
      BY <1>1, <1>3 DEF InBatch
    <2> QED BY <1>1, <2>1, TypesOutside
  <1> QED BY <1>2, <1>3

LEMMA MazeTypes == ASSUME RInv, TypesInv, NEW n \in Nets, mazeRoute(n) PROVE TypesInv'
  <1>1. TypeInv /\ LoopInv
    BY DEF RInv
  <1>2. pc = "loop" /\ loop = "route" /\ k = 1
    BY <1>1, PhaseFacts DEF mazeRoute, InRoute
  <1>3. /\ pc' = pc /\ loop' = loop /\ k' = k /\ n \in pending /\ pending' = pending \ {n}
        /\ \A m \in Nets : InBatch(m)' <=> InBatch(m)
        /\ InBatch(n)
    BY <1>2, JobPlace DEF mazeRoute
  <1>4. /\ status' = [status EXCEPT ![n] = verdict'[n]]
        /\ \A m \in Nets \ {n} : verdict'[m] = verdict[m]
        /\ typed' = typed /\ marked' = marked
    BY <1>1 DEF mazeRoute, TypeInv
  <1>5. status'[n] = verdict'[n] /\ \A m \in Nets \ {n} : status'[m] = status[m]
    BY <1>1, <1>4 DEF TypeInv
  <1> QED BY <1>2, <1>3, <1>4, <1>5 DEF TypesInv, Recent

LEMMA ChooseTypes == ASSUME RInv, TypesInv, NEW n \in Nets, getViaTypes(n) PROVE TypesInv'
  <1>1. TypeInv /\ LoopInv
    BY DEF RInv
  <1>2. /\ pc = "loop" /\ loop \in {"route", "select"} /\ k \in 1 .. Phases(loop)
        /\ ~(loop = "route" /\ k \in {1, 2})
    BY <1>1, PhaseFacts DEF getViaTypes, LoopInv
  <1>3. (loop = "route" => k = 3) /\ (loop = "select" => k = 1)
    <2>1. Phase = "types" /\ Phase = Chain[loop][k]
      BY <1>2 DEF getViaTypes, Phase
    <2>2. loop = "route" => k \in {3, 4}
      BY <1>2 DEF Phases
    <2>3. loop = "select" => k \in {1, 2}
      BY <1>2 DEF Phases
    <2> QED BY <2>1, <2>2, <2>3, ChainFacts
  <1>4. /\ pc' = pc /\ loop' = loop /\ k' = k /\ n \in pending /\ pending' = pending \ {n}
        /\ \A m \in Nets : InBatch(m)' <=> InBatch(m)
        /\ InBatch(n)
    BY <1>2, JobPlace DEF getViaTypes
  <1>5. succeeded(n) <=> isSucc(status[n])
    <2>1. loop = "route" => status[n] = verdict[n]
      BY <1>3, <1>4 DEF TypesInv
    <2> QED BY <2>1 DEF succeeded
  <1>6. /\ status' = status /\ verdict' = verdict
        /\ typed' = IF succeeded(n) THEN typed \cup {n} ELSE typed
        /\ marked' = IF succeeded(n) THEN marked \ {n} ELSE marked
    BY DEF getViaTypes
  <1> QED BY <1>2, <1>3, <1>4, <1>5, <1>6 DEF TypesInv, Recent

LEMMA MarkTypes == ASSUME RInv, TypesInv, NEW n \in Nets, commitViaTypes(n) PROVE TypesInv'
  <1>1. TypeInv /\ LoopInv
    BY DEF RInv
  <1>2. /\ pc = "loop" /\ loop \in {"route", "select"} /\ k \in 1 .. Phases(loop)
    BY <1>1, PhaseFacts DEF commitViaTypes, LoopInv
  <1>3. (loop = "route" => k = 4) /\ (loop = "select" => k = 2)
    <2>1. Phase = "mark" /\ Phase = Chain[loop][k]
      BY <1>2 DEF commitViaTypes, Phase
    <2>2. loop = "route" => k \in {1, 2, 3, 4}
      BY <1>2 DEF Phases
    <2>3. loop = "select" => k \in {1, 2}
      BY <1>2 DEF Phases
    <2> QED BY <2>1, <2>2, <2>3, ChainFacts
  <1>4. /\ pc' = pc /\ loop' = loop /\ k' = k /\ n \in pending /\ pending' = pending \ {n}
        /\ \A m \in Nets : InBatch(m)' <=> InBatch(m)
        /\ InBatch(n)
    BY <1>2, JobPlace DEF commitViaTypes
  <1>5. succeeded(n) <=> isSucc(status[n])
    <2>1. loop = "route" => status[n] = verdict[n]
      BY <1>3, <1>4 DEF TypesInv
    <2> QED BY <2>1 DEF succeeded
  <1>6. /\ status' = status /\ verdict' = verdict /\ typed' = typed
        /\ marked' = IF succeeded(n) THEN marked \cup {n} ELSE marked
    BY DEF commitViaTypes
  <1> QED BY <1>2, <1>3, <1>4, <1>5, <1>6 DEF TypesInv, Recent

LEMMA JobTypes == ASSUME RInv, TypesInv, NEW n \in Nets, JobOf(n) PROVE TypesInv'
  <1>1. TypeInv /\ LoopInv
    BY DEF RInv
  <1>2. CASE preRoute(n)
    BY <1>1, <1>2, PhaseFacts, OtherTypes DEF preRoute, InBatch
  <1>3. CASE commitRouteResult(n)
    BY <1>1, <1>3, PhaseFacts, OtherTypes DEF commitRouteResult, InRoute
  <1>4. CASE clearMinAreaRouteResult(n)
    BY <1>1, <1>4, PhaseFacts, OtherTypes DEF clearMinAreaRouteResult, InBatch, nets
  <1>5. CASE run2(n)
    BY <1>1, <1>5, PhaseFacts, OtherTypes DEF run2, InBatch
  <1>6. CASE commitMinAreaRouteResult(n)
    BY <1>1, <1>6, PhaseFacts, OtherTypes DEF commitMinAreaRouteResult, InBatch, nets
  <1>7. CASE postRoute(n)
    BY <1>1, <1>7, PhaseFacts, OtherTypes DEF postRoute, InBatch
  <1>8. CASE unfinish(n)
    BY <1>1, <1>8, PhaseFacts, OtherTypes DEF unfinish, InBatch
  <1> QED BY <1>2, <1>3, <1>4, <1>5, <1>6, <1>7, <1>8, MazeTypes, ChooseTypes, MarkTypes
          DEF JobOf

LEMMA MainTypes == ASSUME RInv, TypesInv, Main PROVE TypesInv'
  <1>1. TypeInv /\ LoopInv
    BY DEF RInv
  <1>2. CASE Stop
    BY <1>2, TypesOutside DEF Stop, finish, Enter, InBatch, nets
  <1>3. CASE Schedule
    <2>1. pc = "pre" /\ UNCHANGED <<status, verdict, typed, marked>>
      BY <1>1, <1>3, PhaseFacts DEF Schedule, nets
    <2>2. PICK list : Enter("route", list, 0)
      BY <1>3 DEF Schedule
    <2>3. \A n \in Nets : ~InBatch(n)
      BY <2>1 DEF InBatch
    <2> QED BY <2>1, <2>2, <2>3, EnterTypes
  <1>4. CASE EndRoute
    <2>1. \A n \in Nets : isSucc(status[n]) => Recent(n)
      BY <1>4, EndTypes DEF EndRoute
    <2>2. UNCHANGED <<status, typed, marked>>
      BY <1>4 DEF EndRoute, nets
    <2>3. \A n \in Nets : ~InBatch(n)'
      BY <1>4 DEF EndRoute, finish, Enter, NextIteration, EnterPhase, InBatch
    <2> QED BY <2>1, <2>2, <2>3 DEF TypesInv, Recent
  <1>5. CASE EndFinishLoop
    <2>1. \A n \in Nets : isSucc(status[n]) => Recent(n)
      BY <1>5, EndTypes DEF EndFinishLoop
    <2>2. UNCHANGED <<status, verdict, typed, marked>>
      BY <1>5 DEF EndFinishLoop, nets
    <2>3. CASE Enter("select", batches, round + 1)
      BY <2>1, <2>2, <2>3, EnterTypes
    <2>4. CASE EnterPhase("post", Nets)
      <3>1. \A n \in Nets : ~InBatch(n)'
        BY <2>4 DEF EnterPhase, InBatch
      <3> QED BY <2>1, <2>2, <3>1 DEF TypesInv, Recent
    <2> QED BY <1>5, <2>3, <2>4 DEF EndFinishLoop
  <1>6. CASE FixOpen
    <2>1. pc = "post" /\ UNCHANGED <<status, typed, marked>>
      BY <1>1, <1>6, PhaseFacts DEF FixOpen
    <2>2. pc' # "loop"
      BY <1>6 DEF FixOpen, EnterPhase
    <2> QED BY <2>1, <2>2, TypesOutside DEF InBatch
  <1>7. CASE EndUnfinish
    <2>1. pc = "unfinish" /\ UNCHANGED <<status, typed, marked>> /\ pc' # "loop"
      BY <1>1, <1>7, PhaseFacts DEF EndUnfinish, NextIteration, EnterPhase, nets
    <2> QED BY <2>1, TypesOutside DEF InBatch
  <1> QED BY <1>2, <1>3, <1>4, <1>5, <1>6, <1>7, StartTypes, ProceedTypes DEF Main

-----------------------------------------------------------------------------
(* Output                                                                  *)

(* Steps that leave output alone.                                          *)
LEMMA SameOutput ==
  ASSUME OutInv, output' = output, pc \notin {"post", "unfinish", "done"},
         pc' \notin {"unfinish", "done"}, pc' = "post" => loop' = "none",
         pc' = "post" => pending' = Nets,
         \A n \in Nets : n \notin MultiPin => ~isSucc(status'[n])
  PROVE  OutInv'
  BY DEF OutInv

LEMMA PostOut == ASSUME RInv, OutInv, NEW n \in Nets, postRoute(n) PROVE OutInv'
  <1>1. TypeInv /\ LoopInv /\ StageInv
    BY DEF RInv
  <1>2. /\ pc = "post" /\ pc' = pc /\ loop = "none" /\ loop' = loop
        /\ n \in pending /\ pending' = pending \ {n}
        /\ topo' = topo /\ status' = status
    BY <1>1, PhaseFacts DEF postRoute, Job, place, OutInv
  <1>3. PICK written \in BOOLEAN :
          /\ topo[n].route.tree # {} => written
          /\ output' = IF succeeded(n) /\ written
                       THEN [output EXCEPT ![n] = Append(@, "route")] ELSE output
    BY DEF postRoute
  <1>4. succeeded(n) <=> isSucc(status[n])
    BY <1>2 DEF succeeded
  <1>5. output[n] = <<>> /\ Append(output[n], "route") = <<"route">>
    <2>1. Append(<<>>, "route") = <<"route">>
      OBVIOUS
    <2> QED BY <1>2, <2>1 DEF OutInv
  <1>6. topo[n].route.tree # {} => isSucc(status[n])
    BY <1>1, <1>2, NoTopoFacts DEF StageInv, InRoute, Settled
  <1>7. CASE succeeded(n) /\ written
    <2>1. output' = [output EXCEPT ![n] = <<"route">>]
      BY <1>3, <1>5, <1>7 DEF OutInv
    <2> QED BY <1>2, <1>4, <1>7, <2>1 DEF OutInv, Written
  <1>8. CASE ~(succeeded(n) /\ written)
    BY <1>2, <1>3, <1>4, <1>5, <1>6, <1>8 DEF OutInv, Written
  <1> QED BY <1>7, <1>8

LEMMA UnfinishOut == ASSUME RInv, OutInv, NEW n \in Nets, unfinish(n) PROVE OutInv'
  <1>1. /\ pc = "unfinish" /\ pc' = pc /\ pending' = pending \ {n}
        /\ topo' = topo /\ status' = status
        /\ output' = [output EXCEPT ![n] = <<>>]
    BY PhaseFacts DEF unfinish, Job, place, RInv
  <1> QED BY <1>1 DEF OutInv, Written

LEMMA JobOut == ASSUME RInv, OutInv, NEW n \in Nets, JobOf(n) PROVE OutInv'
  <1>1. TypeInv /\ LoopInv /\ StageInv
    BY DEF RInv
  <1>2. CASE mazeRoute(n)
    <2>1. pc = "loop" /\ pc' = pc /\ output' = output /\ k = 1 /\ InRoute
      BY <1>1, <1>2, PhaseFacts DEF mazeRoute, place, InRoute
    <2>2. n \in MultiPin
      BY <1>1, <1>2, <2>1 DEF mazeRoute, Job, StageInv, Waiting
    <2>3. \A m \in Nets \ {n} : status'[m] = status[m]
      BY <1>1, <1>2 DEF mazeRoute, TypeInv
    <2>4. \A m \in Nets : m \notin MultiPin => ~isSucc(status'[m])
      BY <2>2, <2>3 DEF OutInv
    <2> QED BY <2>1, <2>4, SameOutput
  <1>3. ASSUME pc \in {"pre", "loop"}, pc' = pc, output' = output, status' = status
        PROVE  OutInv'
    BY <1>3, SameOutput DEF OutInv
  <1>4. CASE preRoute(n)
    BY <1>1, <1>3, <1>4, PhaseFacts DEF preRoute, place
  <1>5. CASE commitRouteResult(n)
    BY <1>1, <1>3, <1>5, PhaseFacts DEF commitRouteResult, place, InRoute
  <1>6. CASE getViaTypes(n) \/ commitViaTypes(n)
    BY <1>1, <1>3, <1>6, PhaseFacts DEF getViaTypes, commitViaTypes, place
  <1>7. CASE clearMinAreaRouteResult(n) \/ run2(n) \/ commitMinAreaRouteResult(n)
    BY <1>1, <1>3, <1>7, PhaseFacts
       DEF clearMinAreaRouteResult, run2, commitMinAreaRouteResult, place, nets
  <1> QED BY <1>2, <1>4, <1>5, <1>6, <1>7, PostOut, UnfinishOut DEF JobOf

LEMMA FixOpenOut == ASSUME RInv, OutInv, FixOpen PROVE OutInv'
  <1>1. /\ pc = "post" /\ pending = {} /\ status' = status /\ topo' = topo
        /\ output' = [n \in Nets |-> IF isOpen(n) THEN <<"STT">> ELSE output[n]]
    BY PhaseFacts DEF FixOpen, RInv
  <1>2. pc' \in {"done", "unfinish"} /\ (pc' = "unfinish" => pending' = Nets)
    BY DEF FixOpen, EnterPhase
  <1>3. output' \in [Nets -> {<<>>, <<"route">>, <<"STT">>}]
    BY <1>1 DEF OutInv
  <1>4. <<"STT">> # <<>> /\ <<"route">> # <<>>
    OBVIOUS
  <1>5. \A n \in Nets : n \notin MultiPin => output'[n] = <<>>
    BY <1>1 DEF OutInv, isOpen
  <1>6. ASSUME NEW n \in Nets PROVE Written(n)'
    <2>1. CASE isOpen(n)
      BY <1>1, <1>4, <2>1 DEF OutInv, isOpen, Written
    <2>2. CASE ~isOpen(n)
      BY <1>1, <1>4, <2>2 DEF OutInv, isOpen, Written
    <2> QED BY <2>1, <2>2
  <1> QED BY <1>1, <1>2, <1>3, <1>5, <1>6 DEF OutInv

LEMMA MainOut == ASSUME RInv, OutInv, Main PROVE OutInv'
  <1>1. TypeInv /\ LoopInv
    BY DEF RInv
  <1>2. CASE StartIteration
    <2>1. /\ pc = "iterate" /\ pc' = "pre"
          /\ \E S \in {getNetsToRoute, {}} : ripup(S)
      BY <1>2 DEF StartIteration, EnterPhase
    <2>2. PICK S \in {getNetsToRoute, {}} : ripup(S)
      BY <2>1
    <2>3. output' = [n \in Nets |-> <<>>]
      BY <2>1, <2>2 DEF ripup, OutInv
    <2>4. \A n \in Nets : isSucc(status'[n]) => isSucc(status[n])
      BY <2>2, StatusFacts DEF ripup, unprocessed
    <2> QED BY <2>1, <2>3, <2>4 DEF OutInv
  <1>3. CASE Stop \/ EndRoute
    <2>1. /\ pc \in {"iterate", "loop"} /\ output' = output /\ status' = status
          /\ pc' \in {"loop", "iterate"}
      BY <1>3 DEF Stop, EndRoute, EndOfLoop, finish, Enter, NextIteration, EnterPhase, nets
    <2> QED BY <2>1, SameOutput DEF OutInv
  <1>4. CASE Schedule
    <2>1. pc = "pre" /\ output' = output /\ status' = status /\ pc' = "loop"
      BY <1>1, <1>4, PhaseFacts DEF Schedule, Enter, nets
    <2> QED BY <2>1, SameOutput DEF OutInv
  <1>5. CASE Proceed
    <2>1. pc = "loop" /\ output' = output /\ status' = status /\ pc' = "loop"
      BY <1>5 DEF Proceed, nets
    <2> QED BY <2>1, SameOutput DEF OutInv
  <1>6. CASE EndFinishLoop
    <2>1. /\ pc = "loop" /\ output' = output /\ status' = status
          /\ pc' \in {"loop", "post"}
          /\ pc' = "post" => pending' = Nets /\ loop' = "none"
      BY <1>6 DEF EndFinishLoop, EndOfLoop, Enter, EnterPhase, nets
    <2> QED BY <2>1, SameOutput DEF OutInv
  <1>7. CASE EndUnfinish
    <2>1. /\ pc = "unfinish" /\ pending = {} /\ output' = output /\ status' = status
          /\ pc' = "iterate"
      BY <1>1, <1>7, PhaseFacts DEF EndUnfinish, NextIteration, EnterPhase, nets
    <2> QED BY <2>1 DEF OutInv
  <1> QED BY <1>2, <1>3, <1>4, <1>5, <1>6, <1>7, FixOpenOut DEF Main

LEMMA StillFInv == ASSUME TypesInv, OutInv, UNCHANGED vars PROVE TypesInv' /\ OutInv'
  BY DEF TypesInv, OutInv, Written, Recent, InBatch, vars

LEMMA NextFInv == FInv /\ [Next]_vars => FInv'
  <1> SUFFICES ASSUME FInv, [Next]_vars PROVE FInv'
    OBVIOUS
  <1>1. RInv /\ TypesInv /\ OutInv /\ RInv'
    BY NextRInv DEF FInv
  <1>2. CASE Main
    BY <1>1, <1>2, MainTypes, MainOut DEF FInv
  <1>3. CASE Done \/ UNCHANGED vars
    BY <1>1, <1>3, StillFInv DEF FInv, Done
  <1>4. ASSUME NEW n \in Nets, JobOf(n) PROVE FInv'
    BY <1>1, <1>4, JobTypes, JobOut DEF FInv
  <1> QED BY <1>2, <1>3, <1>4 DEF Next

LEMMA SpecFInv == Spec => []FInv
  <1> QED BY InitFInv, NextFInv, PTL DEF Spec

-----------------------------------------------------------------------------
(* When wires are written the via types of each net with a topology are    *)
(* chosen and recorded, so that its neighbours saw them (Router::finish).  *)
THEOREM SpecWrittenTypesRecorded == Spec => []WrittenTypesRecorded
  <1>1. FInv => WrittenTypesRecorded
    BY DEF FInv, TypesInv, InBatch, Recent, WrittenTypesRecorded
  <1> QED BY SpecFInv, <1>1, PTL

(* Whatever failed and however often results were written before, a result *)
(* has each net of several pins once, as routed if it is (Router::finish,  *)
(* Router::unfinish).                                                      *)
THEOREM SpecEveryNetOnce == Spec => []EveryNetOnce
  <1>1. ASSUME FInv PROVE EveryNetOnce
    <2>1. Len(<<>>) = 0 /\ Len(<<"route">>) = 1 /\ Len(<<"STT">>) = 1
      OBVIOUS
    <2> QED BY <1>1, <2>1 DEF FInv, OutInv, Written, EveryNetOnce
  <1> QED BY SpecFInv, <1>1, PTL

-----------------------------------------------------------------------------
(* Finishing after an early stop                                           *)

\* a wire that can be extended is
Extended(t) == t.ext = {} => t.route.exts = {}

(* No wire touches fixed metal or another net, vias taken for default      *)
(* ones, and run2 has nothing to extend that is not extended.              *)
AllClean ==
  \A n \in Nets :
    /\ Extended(topo[n]) /\ Covered(topo[n]) \cap Blocked = {}
    /\ \A m \in Nets \ {n} : \A c \in Covered(topo[n]) \ Vias, d \in Covered(topo[m]) :
         <<c, d>> \notin Near[DefaultType]

\* by the types on record
NobodySees ==
  \A n \in Nets : \A m \in Nets \ {n} : \A c \in Covered(topo[n]), d \in Covered(topo[m]) :
    <<c, d>> \notin Near[viaType[d]]

\* only vias have other types than the default one
ViaInv == \A c \in Cells \ Vias : viaType[c] = DefaultType

(* While the router may still stop early, extensions are never given up:   *)
(* if none is free of violations one that is not is taken. Types stay as   *)
(* they are while extensions are redone.                                   *)
CleanInv ==
  /\ pc = "pre" \/ InRoute => iter < IterLimit /\ convert = (iter + 1 < IterLimit)
  /\ pc = "iterate" /\ iter < IterLimit /\ ~writeEach => \A n \in Nets : Extended(topo[n])
  /\ (pc = "pre" \/ InRoute) /\ convert /\ ~writeEach =>
       \A n \in Nets : /\ Extended(topo[n])
                       /\ InRoute /\ InHand(n) /\ isSucc(verdict[n]) => Extended(local[n])
  /\ pc \in {"loop", "post", "done"} /\ ~InRoute /\ clean /\ ~writeEach => AllClean
  /\ pc = "loop" /\ loop = "minArea" /\ clean /\ ~writeEach => NobodySees

LEMMA InitVia == Init => ViaInv
  BY DEF Init, ViaInv

LEMMA NextVia == ViaInv /\ [Next]_vars => ViaInv'
  <1> SUFFICES ASSUME ViaInv, [Next]_vars PROVE ViaInv'
    OBVIOUS
  <1>1. ASSUME viaType' = viaType PROVE ViaInv'
    BY <1>1 DEF ViaInv
  <1>2. CASE StartIteration
    <2>1. PICK S : ripup(S)
      BY <1>2 DEF StartIteration
    <2> QED BY <2>1 DEF ripup, removeVias, ViaInv
  <1>3. ASSUME NEW n \in Nets, commitViaTypes(n) PROVE ViaInv'
    <2>1. CASE succeeded(n)
      <3>1. PICK type \in [topo[n].route.tree \cap Vias -> ViaTypes] :
              viaType' = [c \in Cells |-> IF c \in DOMAIN type THEN type[c] ELSE viaType[c]]
        BY <1>3, <2>1 DEF commitViaTypes
      <3> QED BY <3>1 DEF ViaInv
    <2> QED BY <1>1, <1>3, <2>1 DEF commitViaTypes
  <1>4. ASSUME NEW n \in Nets, JobOf(n), ~commitViaTypes(n) PROVE ViaInv'
    BY <1>1, <1>4 DEF JobOf, preRoute, mazeRoute, commitRouteResult, getViaTypes,
       clearMinAreaRouteResult, run2, commitMinAreaRouteResult, postRoute, unfinish, nets
  <1>5. CASE Main /\ ~StartIteration
    BY <1>1, <1>5 DEF Main, Stop, Schedule, Proceed, EndRoute, EndFinishLoop, FixOpen,
       EndUnfinish, nets
  <1>6. CASE Done \/ UNCHANGED vars
    BY <1>1, <1>6 DEF Done, vars
  <1> QED BY <1>2, <1>3, <1>4, <1>5, <1>6 DEF Next

LEMMA ExtensionsConverted ==
  ASSUME convert, NEW n \in MultiPin, NEW r \in Routes[n], NEW e \in Extensions(n, r)
  PROVE  e = {} => r.exts = {}
  <1>1. {} \notin r.exts
    BY RouterAssumption
  <1>2. {o \in r.exts : ~Violates(n, UNION o)} \subseteq r.exts
    OBVIOUS
  <1>3. r.exts = {} \/ e \in r.exts
    BY <1>2 DEF Extensions
  <1> QED BY <1>1, <1>3

(* What is clean and recorded at most stays as it is when it is redone.    *)
LEMMA RedoneSame ==
  ASSUME TypeInv, UsageInv, AllClean, NobodySees, NEW n \in Nets, NEW e \in Redone(n, topo[n])
  PROVE  e = topo[n].ext
  <1>1. ASSUME NEW seg \in topo[n].ext, Violates(n, seg) PROVE FALSE
    <2>1. seg \subseteq Covered(topo[n])
      BY DEF Covered
    <2>2. PICK use \in usage : use[2] # n /\ \E c \in seg : Sees(c, use[1])
      BY <1>1, <2>1 DEF Violates, AllClean
    <2>3. PICK d \in Cells, m \in Nets : use = <<d, m>>
      BY DEF TypeInv
    <2>4. d \in Covered(topo[m]) /\ m # n
      BY <2>2, <2>3 DEF UsageInv
    <2>5. use[1] = d /\ use[2] = m
      BY <2>3
    <2> QED BY <2>1, <2>2, <2>4, <2>5 DEF NobodySees, Sees
  <1>2. {seg \in topo[n].ext : ~Violates(n, seg)} = topo[n].ext
    BY <1>1
  <1>3. CASE topo[n].ext # {}
    BY <1>2, <1>3 DEF Redone
  <1>4. CASE topo[n].ext = {}
    <2>1. topo[n].route.exts = {}
      BY <1>4 DEF AllClean, Extended
    <2>2. e \in Extensions(n, topo[n].route)
      BY <1>2, <1>4 DEF Redone
    <2> QED BY <1>4, <2>1, <2>2 DEF Extensions
  <1> QED BY <1>3, <1>4

LEMMA NoTopoExtended == Extended(NoTopo)
  BY DEF Extended, NoTopo, NoRoute

(* A stop with nothing left to reroute: no net has a violation.            *)
LEMMA StopClean ==
  ASSUME RInv, ViaInv, CleanInv, pc = "iterate", ~writeEach, iter < IterLimit,
         getNetsToRoute = {}
  PROVE  AllClean /\ NobodySees
  <1>1. TypeInv /\ UsageInv
    BY DEF RInv
  <1>2. \A n \in Nets : ~checkViolation(n)
    BY DEF getNetsToRoute
  <1>3. ASSUME NEW n \in Nets, NEW c \in Covered(topo[n])
        PROVE  \E C : c \in C /\ ~Violates(n, C)
    BY <1>2 DEF checkViolation, Covered
  <1>4. \A n \in Nets : Covered(topo[n]) \cap Blocked = {}
    BY <1>3 DEF Violates
  <1>5. ASSUME NEW n \in Nets, NEW m \in Nets \ {n},
               NEW c \in Covered(topo[n]), NEW d \in Covered(topo[m])
        PROVE  <<c, d>> \notin Near[viaType[d]]
    <2>1. <<d, m>> \in usage /\ <<d, m>>[1] = d /\ <<d, m>>[2] = m
      BY <1>1 DEF UsageInv
    <2>2. PICK C : c \in C /\ ~Violates(n, C)
      BY <1>3
    <2> QED BY <2>1, <2>2 DEF Violates, Sees
  <1>6. NobodySees
    BY <1>5 DEF NobodySees
  <1>7. ASSUME NEW n \in Nets, NEW m \in Nets \ {n},
               NEW c \in Covered(topo[n]) \ Vias, NEW d \in Covered(topo[m])
        PROVE  <<c, d>> \notin Near[DefaultType]
    <2>1. c \in Cells /\ d \in Cells
      BY <1>1, CoveredInCells DEF TypeInv
    <2>2. viaType[c] = DefaultType
      BY <2>1 DEF ViaInv
    <2>3. <<d, c>> \notin Near[viaType[c]]
      BY <1>5
    <2> QED BY <2>1, <2>2, <2>3, RouterAssumption
  <1> QED BY <1>4, <1>6, <1>7 DEF AllClean, CleanInv

LEMMA InitClean == Init => CleanInv
  BY NoTopoExtended DEF Init, CleanInv, InRoute

LEMMA MainClean == ASSUME RInv, ViaInv, CleanInv, Main PROVE CleanInv'
  <1>1. TypeInv /\ LoopInv /\ StageInv /\ UsageInv
    BY DEF RInv
  <1>2. CASE StartIteration
    <2>1. /\ pc = "iterate" /\ pc' = "pre" /\ iter < IterLimit /\ iter' = iter
          /\ convert' = (iter + 1 < IterLimit) /\ writeEach' = writeEach
          /\ b' = 0 /\ k' = 0
          /\ \E S \in {getNetsToRoute, {}} : ripup(S)
      BY <1>2 DEF StartIteration, EnterPhase
    <2>2. \A n \in Nets : topo'[n] \in {topo[n], NoTopo}
      BY <2>1 DEF ripup
    <2>3. ~writeEach => \A n \in Nets : Extended(topo'[n])
      BY <2>1, <2>2, NoTopoExtended DEF CleanInv
    <2> QED BY <2>1, <2>3 DEF CleanInv, InRoute, InHand, Extended
  <1>3. CASE Stop
    <2>1. /\ pc = "iterate" /\ pc' = "loop" /\ loop' = "minArea"
          /\ clean' = (iter < IterLimit) /\ writeEach' = writeEach
          /\ topo' = topo /\ viaType' = viaType
          /\ iter = IterLimit \/ getNetsToRoute = {}
      BY <1>3 DEF Stop, finish, Enter, nets
    <2>2. clean' /\ ~writeEach => AllClean /\ NobodySees
      BY <1>1, <2>1, StopClean, RouterAssumption DEF TypeInv
    <2> QED BY <2>1, <2>2 DEF CleanInv, InRoute, AllClean, NobodySees, Extended, Covered
  <1>4. CASE Schedule
    <2>1. /\ pc = "pre" /\ pc' = "loop" /\ loop' = "route"
          /\ UNCHANGED <<iter, convert, writeEach, topo, verdict, local>>
      BY <1>1, <1>4, PhaseFacts DEF Schedule, Enter, setting, nets
    <2>2. PICK list \in BatchLists({n \in Nets : verdict[n] = "SUCC_NORMAL"}, GuidesApart) :
            Enter("route", list, 0)
      BY <1>4 DEF Schedule
    <2>3. \A n \in Nets : ~InHand(n)'
      BY <2>2, EnterStep
    <2> QED BY <2>1, <2>3 DEF CleanInv, InRoute, Extended
  <1>5. CASE Proceed
    <2>1. /\ pc = "loop" /\ pc' = "loop" /\ loop' = loop
          /\ UNCHANGED <<iter, convert, writeEach, clean, topo, viaType, verdict, local>>
      BY <1>5 DEF Proceed, setting, nets
    <2>2. \A n \in Nets : InHand(n)' <=> InHand(n)
      BY <1>1, <1>5, ProceedStep
    <2> QED BY <2>1, <2>2 DEF CleanInv, InRoute, AllClean, NobodySees, Extended, Covered
  <1>6. CASE EndRoute
    <2>1. /\ InRoute /\ UNCHANGED <<convert, writeEach, topo>>
          /\ ~writeEach => iter' = iter + 1 /\ pc' = "iterate"
          /\ writeEach => pc' = "loop" /\ loop' = "minArea"
      BY <1>6 DEF EndRoute, EndOfLoop, InRoute, NextIteration, EnterPhase, finish, Enter, nets
    <2> QED BY <2>1 DEF CleanInv, InRoute, Extended
  <1>7. CASE EndFinishLoop
    <2>1. /\ pc = "loop" /\ ~InRoute /\ UNCHANGED <<iter, convert, writeEach, clean, topo>>
          /\ pc' \in {"loop", "post"} /\ (pc' = "loop" => loop' = "select")
      BY <1>7 DEF EndFinishLoop, EndOfLoop, InRoute, Enter, EnterPhase, setting, nets
    <2> QED BY <2>1 DEF CleanInv, InRoute, AllClean, NobodySees, Extended, Covered
  <1>8. CASE FixOpen
    <2>1. /\ pc = "post" /\ UNCHANGED <<iter, convert, writeEach, clean, topo>>
          /\ pc' \in {"done", "unfinish"}
      BY <1>1, <1>8, PhaseFacts DEF FixOpen, EnterPhase, setting
    <2> QED BY <2>1 DEF CleanInv, InRoute, AllClean, NobodySees, Extended, Covered
  <1>9. CASE EndUnfinish
    <2>1. pc = "unfinish" /\ pc' = "iterate" /\ writeEach' = writeEach
      BY <1>1, <1>9, PhaseFacts DEF EndUnfinish, NextIteration, EnterPhase
    <2> QED BY <1>1, <2>1 DEF CleanInv, InRoute, UsageInv
  <1> QED BY <1>2, <1>3, <1>4, <1>5, <1>6, <1>7, <1>8, <1>9 DEF Main

(* Jobs that leave topologies alone.                                       *)
LEMMA QuietClean ==
  ASSUME RInv, CleanInv, NEW n \in Nets, Job(n), UNCHANGED <<place, setting, topo, local>>,
         InRoute => k \notin {1, 2} /\ verdict' = verdict,
         pc = "loop" /\ loop = "minArea" => viaType' = viaType
  PROVE  CleanInv'
  <1>1. /\ pc' = pc /\ loop' = loop /\ k' = k /\ batches' = batches /\ b' = b
        /\ UNCHANGED <<iter, convert, writeEach, clean, topo, local>>
    BY DEF place, setting
  <1>2. InRoute => \A m \in Nets : ~InHand(m)'
    BY <1>1 DEF InHand
  <1> QED BY <1>1, <1>2 DEF CleanInv, InRoute, AllClean, NobodySees, Extended, Covered

LEMMA MazeClean == ASSUME RInv, CleanInv, NEW n \in Nets, mazeRoute(n) PROVE CleanInv'
  <1>1. TypeInv /\ LoopInv /\ StageInv
    BY DEF RInv
  <1>2. /\ InRoute /\ InRoute' /\ pc = "loop" /\ k = 1 /\ Job(n) /\ pc' = pc
        /\ UNCHANGED <<iter, convert, writeEach, topo, place>>
    BY <1>1, PhaseFacts DEF mazeRoute, place, setting, InRoute
  <1>3. /\ \A m \in Nets \ {n} : InHand(m)' <=> InHand(m)
        /\ Waiting(n)
    BY <1>1, <1>2, JobStep
  <1>4. n \in MultiPin /\ verdict[n] = "SUCC_NORMAL"
    BY <1>1, <1>2, <1>3 DEF StageInv
  <1>5. \A m \in Nets \ {n} : verdict'[m] = verdict[m] /\ local'[m] = local[m]
    BY <1>1 DEF mazeRoute, TypeInv
  <1>6. convert /\ isSucc(verdict'[n]) => Extended(local'[n])
    <2>1. CASE \E r \in Routes[n] : \E e \in Extensions(n, r) :
                 local' = [local EXCEPT ![n] = [routed |-> TRUE, route |-> r, ext |-> e]]
      <3>1. PICK r \in Routes[n] : \E e \in Extensions(n, r) :
              local' = [local EXCEPT ![n] = [routed |-> TRUE, route |-> r, ext |-> e]]
        BY <2>1
      <3>2. PICK e \in Extensions(n, r) :
              local' = [local EXCEPT ![n] = [routed |-> TRUE, route |-> r, ext |-> e]]
        BY <3>1
      <3>3. convert => (e = {} => r.exts = {})
        BY <1>4, ExtensionsConverted
      <3>4. local'[n] = [routed |-> TRUE, route |-> r, ext |-> e]
        BY <1>1, <3>2 DEF TypeInv
      <3> QED BY <3>3, <3>4 DEF Extended
    <2>2. CASE verdict' = [verdict EXCEPT ![n] = Both(@, "FAIL_DISCONNECTED_GRID_GRAPH")]
      <3>1. ~isSucc(Both(verdict[n], "FAIL_DISCONNECTED_GRID_GRAPH"))
        BY <1>4, StatusFacts, BothFacts
      <3> QED BY <1>1, <2>2, <3>1 DEF TypeInv
    <2> QED BY <2>1, <2>2 DEF mazeRoute
  <1> QED BY <1>2, <1>3, <1>5, <1>6 DEF CleanInv, InRoute, Extended

LEMMA CommitClean == ASSUME RInv, CleanInv, NEW n \in Nets, commitRouteResult(n) PROVE CleanInv'
  <1>1. TypeInv /\ LoopInv /\ StageInv
    BY DEF RInv
  <1>2. /\ InRoute /\ InRoute' /\ pc = "loop" /\ loop = "route" /\ k = 2 /\ Job(n) /\ pc' = pc
        /\ UNCHANGED <<iter, convert, writeEach, verdict, place>>
    BY <1>1, PhaseFacts DEF commitRouteResult, place, setting, InRoute
  <1>3. /\ \A m \in Nets \ {n} : InHand(m)' <=> InHand(m)
        /\ InHand(n) /\ ~InHand(n)'
    BY <1>1, <1>2, JobStep
  <1>4. \A m \in Nets \ {n} : topo'[m] = topo[m] /\ local'[m] = local[m]
    BY <1>1 DEF commitRouteResult, TypeInv
  <1>5. \/ topo'[n] = topo[n]
        \/ topo'[n] = local[n] /\ isSucc(verdict[n])
    BY <1>1, <1>2 DEF commitRouteResult, succeeded, TypeInv
  <1> QED BY <1>2, <1>3, <1>4, <1>5 DEF CleanInv, InRoute, Extended

LEMMA ExtendClean == ASSUME RInv, CleanInv, NEW n \in Nets, run2(n) PROVE CleanInv'
  <1>1. TypeInv /\ LoopInv /\ UsageInv
    BY DEF RInv
  <1>2. /\ pc = "loop" /\ loop = "minArea" /\ pc' = pc /\ loop' = loop
        /\ UNCHANGED <<iter, convert, writeEach, clean, viaType>>
    BY <1>1, PhaseFacts DEF run2, place, setting
  <1>3. ASSUME AllClean, NobodySees PROVE topo' = topo
    <2>1. CASE succeeded(n)
      <3>1. PICK e \in Redone(n, topo[n]) : topo' = [topo EXCEPT ![n].ext = e]
        BY <2>1 DEF run2
      <3>2. e = topo[n].ext
        BY <1>1, <1>3, RedoneSame
      <3>3. topo[n] \in Topo /\ [topo[n] EXCEPT !.ext = topo[n].ext] = topo[n]
        BY <1>1 DEF TypeInv, Topo
      <3>4. topo' = [topo EXCEPT ![n] = [topo[n] EXCEPT !.ext = e]]
        BY <1>1, <3>1 DEF TypeInv
      <3> QED BY <1>1, <3>2, <3>3, <3>4 DEF TypeInv
    <2>2. CASE ~succeeded(n)
      BY <2>2 DEF run2
    <2> QED BY <2>1, <2>2
  <1> QED BY <1>2, <1>3 DEF CleanInv, InRoute, AllClean, NobodySees, Extended, Covered

LEMMA JobClean == ASSUME RInv, CleanInv, NEW n \in Nets, JobOf(n) PROVE CleanInv'
  <1>1. TypeInv /\ LoopInv
    BY DEF RInv
  <1>2. CASE preRoute(n)
    BY <1>1, <1>2, PhaseFacts, QuietClean DEF preRoute, InRoute
  <1>3. CASE getViaTypes(n)
    BY <1>1, <1>3, PhaseFacts, QuietClean DEF getViaTypes, InRoute
  <1>4. CASE commitViaTypes(n)
    BY <1>1, <1>4, PhaseFacts, QuietClean DEF commitViaTypes, InRoute
  <1>5. CASE clearMinAreaRouteResult(n)
    BY <1>1, <1>5, PhaseFacts, QuietClean DEF clearMinAreaRouteResult, InRoute, nets
  <1>6. CASE commitMinAreaRouteResult(n)
    BY <1>1, <1>6, PhaseFacts, QuietClean DEF commitMinAreaRouteResult, InRoute, nets
  <1>7. CASE postRoute(n)
    BY <1>1, <1>7, PhaseFacts, QuietClean DEF postRoute, InRoute
  <1>8. CASE unfinish(n)
    BY <1>1, <1>8, PhaseFacts, QuietClean DEF unfinish, InRoute
  <1>9. CASE mazeRoute(n)
    BY <1>9, MazeClean
  <1>10. CASE commitRouteResult(n)
    BY <1>10, CommitClean
  <1>11. CASE run2(n)
    BY <1>11, ExtendClean
  <1> QED BY <1>2, <1>3, <1>4, <1>5, <1>6, <1>7, <1>8, <1>9, <1>10, <1>11 DEF JobOf

LEMMA StillClean == ASSUME CleanInv, UNCHANGED vars PROVE CleanInv'
  <1>1. (AllClean' <=> AllClean) /\ (NobodySees' <=> NobodySees)
    BY DEF AllClean, NobodySees, Covered, vars
  <1>2. (InRoute' <=> InRoute) /\ \A n \in Nets : InHand(n)' <=> InHand(n)
    BY DEF InRoute, InHand, vars
  <1> QED BY <1>1, <1>2 DEF CleanInv, Extended, vars

LEMMA NextClean == RInv /\ ViaInv /\ CleanInv /\ [Next]_vars => CleanInv'
  <1> SUFFICES ASSUME RInv, ViaInv, CleanInv, [Next]_vars PROVE CleanInv'
    OBVIOUS
  <1>1. ASSUME NEW n \in Nets, JobOf(n) PROVE CleanInv'
    BY <1>1, JobClean
  <1>2. CASE Done \/ UNCHANGED vars
    BY <1>2, StillClean DEF Done
  <1> QED BY <1>1, <1>2, MainClean DEF Next

(* If the iterations stop early because no net has a violation, finish()   *)
(* adds no wire that violates a rule, although converMinAreaToOtherVio is  *)
(* still on: every wire that can be extended is, and run2 keeps what       *)
(* violates nothing.                                                       *)
THEOREM SpecCleanStopStaysClean == Spec => []CleanStopStaysClean
  <1>1. CleanInv => CleanStopStaysClean
    BY DEF CleanInv, AllClean, CleanStopStaysClean, InRoute
  <1>2. Spec => []ViaInv
    BY InitVia, NextVia, PTL DEF Spec
  <1> QED BY InitClean, NextClean, SpecRInv, <1>1, <1>2, PTL DEF Spec

=============================================================================
