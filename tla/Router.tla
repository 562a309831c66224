------------------------------- MODULE Router -------------------------------
(***************************************************************************)
(* Router::run (multi_net/Router.cpp): rip-up-and-reroute iterations over  *)
(* the nets of the design, and the finishing passes that redo min-area     *)
(* extensions, choose via types, write each net's wires and connect by     *)
(* Steiner trees what has none.                                            *)
(*                                                                         *)
(* Every phase is one runJobsMT over a batch or over a list of nets (see   *)
(* JobPool: each job once, no overlap with the next phase), so the jobs of *)
(* a phase are taken in any order and each is one step: what a job reads   *)
(* of the database no job of the same phase writes, and each update of the *)
(* database is atomic (see RouteGrid).                                     *)
(*                                                                         *)
(* A net's topology is abstracted to the grid cells of its tree, the cells *)
(* of the one piece of wire that may be too short (cand), and the ways to  *)
(* extend that piece: each is the set of the segments it adds (exts). Some *)
(* cells are those of vias; the types of the vias there are in viaType.    *)
(***************************************************************************)
EXTENDS Integers, Sequences, FiniteSets, RouteStatus

CONSTANTS
  Nets, MultiPin,       \* nets, those with more than one pin
  Cells, Blocked,       \* grid cells, those near fixed metal
  Vias,                 \* the cells of vias, all others are those of wires
  ViaTypes, DefaultType,
  Near,                 \* of each type: the pairs of cells that violate a rule if
                        \* the second has a via of that type, the first a default one
  Routes,               \* of each net: what maze routing may find
  GuideClash,           \* pairs of nets whose guide boxes conflict
  PreRouteFailures,     \* verdicts of a failing pre-route
  IterLimit,            \* setting.rrrIterLimit
  SelectIters           \* setting.multiNetSelectViaTypesIter

Route == [tree : SUBSET Cells, cand : SUBSET Cells,
          exts : SUBSET SUBSET SUBSET Cells]

ASSUME RouterAssumption ==
  /\ MultiPin \subseteq Nets /\ Blocked \subseteq Cells
  /\ Vias \subseteq Cells /\ DefaultType \in ViaTypes
  /\ Near \in [ViaTypes -> SUBSET (Cells \X Cells)]
  /\ \A c, d \in Cells : <<c, d>> \in Near[DefaultType] => <<d, c>> \in Near[DefaultType]
  /\ \A n \in MultiPin : Routes[n] \subseteq Route /\ Routes[n] # {}
  /\ \A n \in MultiPin : \A r \in Routes[n] :
       {} \notin r.exts /\ \A o \in r.exts : UNION o \cap Vias = {}
  /\ PreRouteFailures \subseteq FailStatus
  /\ IterLimit \in Nat /\ SelectIters \in Nat \ {0}

VARIABLES
  iter, convert,        \* the iteration, rrrIterSetting.converMinAreaToOtherVio
  writeEach,            \* setting.rrrWriteEachIter
  pc, loop, b, k, round,\* where run() is: see Chain
  batches, pending,     \* the batches, the jobs of the phase not yet done
  status, verdict,      \* allNetStatus, the status of the SingleNetRouters
  local, topo,          \* gridTopo of the LocalNets and of the nets
  usage,                \* the routed wires and vias: pairs of a cell and a net
  viaType,              \* routedNonDefViaMap: a type for each cell, whosever via it is
  typed, marked,        \* nets whose vias have types, whose types are recorded
  output,               \* defWireSegments of each net, one entry per writer
  final, clean          \* this is the last finish(); it follows an early stop

place == <<pc, loop, b, k, round, batches>>
setting == <<iter, convert, writeEach, final, clean>>
nets == <<status, verdict, local, topo, viaType, typed, marked, output>>
vars == <<iter, convert, writeEach, pc, loop, b, k, round, batches, pending,
          status, verdict, local, topo, usage, viaType, typed, marked, output,
          final, clean>>

-----------------------------------------------------------------------------
(* Topologies and the database                                             *)

NoRoute == [tree |-> {}, cand |-> {}, exts |-> {}]
NoTopo == [routed |-> FALSE, route |-> NoRoute, ext |-> {}]

Covered(t) == t.route.tree \cup UNION t.ext

Recorded(n, t) == Covered(t) \X {n}
RecordedExt(n, t) == UNION {seg \X {n} : seg \in t.ext}

\* what a net with a wire or via on c sees of another net's on d, of which it
\* looks up the type; its own via it takes to be of the default type
Sees(c, d) == <<c, d>> \in Near[viaType[d]]

\* getEdgeVioCost without history cost: fixed metal and metal of other nets
Violates(n, cells) ==
  \/ cells \cap Blocked # {}
  \/ \E use \in usage : use[2] # n /\ \E c \in cells : Sees(c, use[1])

\* mutant: extensions are not looked at
checkTree(n) == Violates(n, topo[n].route.tree)

checkViolation(n) ==
  Violates(n, topo[n].route.tree) \/ \E seg \in topo[n].ext : Violates(n, seg)

(* PostMazeRoute::extendMinAreaWires: an extension free of violations if   *)
(* the wire itself is and there is one; else, when min-area violations are *)
(* to be turned into others, any; else none.                               *)
Extensions(n, r) ==
  LET free == {o \in r.exts : ~Violates(n, UNION o)}
  IN  CASE r.exts = {} -> {{}}
        [] r.exts # {} /\ ~Violates(n, r.cand) /\ free # {} -> free
        [] r.exts # {} /\ (Violates(n, r.cand) \/ free = {}) ->
             IF convert THEN r.exts ELSE {{}}

\* mutant: every extension is chosen anew
RedoneAnew(n, t) == Extensions(n, t.route)

\* PostMazeRoute::run2: segments with violations go; one that stays suffices
Redone(n, t) ==
  LET kept == {seg \in t.ext : ~Violates(n, seg)}
  IN  IF kept # {} THEN {kept} ELSE Extensions(n, t.route)

-----------------------------------------------------------------------------
(* Batches                                                                 *)

\* the lists of batches of S whose members are pairwise apart
BatchLists(S, apart) ==
  {f \in UNION {[1 .. m -> SUBSET S \ {{}}] : m \in 0 .. Cardinality(S)} :
     /\ UNION {f[m] : m \in DOMAIN f} = S
     /\ \A m \in DOMAIN f : \A p, q \in f[m] : p # q => <<p, q>> \in apart
     /\ \A m, l \in DOMAIN f : m # l => f[m] \cap f[l] = {}}

\* what Scheduler and PostScheduler see to
GuidesApart == {e \in Nets \X Nets : {e[1], e[2]} \notin GuideClash}

Clash(t, u) == \E c \in Covered(t), d \in Covered(u) : <<c, d>> \in Near[DefaultType]

ToposApart == {e \in Nets \X Nets : ~Clash(topo[e[1]], topo[e[2]])}

\* mutant: the types chosen in finish() are not recorded
ChainUnmarked == [route   |-> <<"maze", "commit", "types", "mark">>,
                  minArea |-> <<"clear", "extend", "recommit">>,
                  select  |-> <<"types">>]

\* the phases each batch goes through in each loop over batches
Chain == [route   |-> <<"maze", "commit", "types", "mark">>,
          minArea |-> <<"clear", "extend", "recommit">>,
          select  |-> <<"types", "mark">>]

Phase == IF pc = "loop" THEN Chain[loop][k] ELSE pc

Enter(l, list, r) ==
  /\ pc' = "loop" /\ loop' = l /\ b' = 1 /\ k' = 1 /\ round' = r
  /\ batches' = list
  /\ pending' = IF list = <<>> THEN {} ELSE list[1]

EnterPhase(p, jobs) ==
  /\ pc' = p /\ pending' = jobs
  /\ loop' = "none" /\ b' = 0 /\ k' = 0 /\ round' = 0 /\ batches' = <<>>

-----------------------------------------------------------------------------
(* Iterations                                                              *)

getNetsToRoute == IF iter = 0 THEN Nets ELSE {n \in Nets : checkViolation(n)}

\* entered with the topologies as they are; a net with none is apart from all
finish(last, early) ==
  /\ \E list \in BatchLists(Nets, ToposApart) : Enter("minArea", list, 0)
  /\ final' = last
  /\ clean' = early

Stop ==
  /\ pc = "iterate"
  /\ iter = IterLimit \/ getNetsToRoute = {}
  /\ finish(TRUE, iter < IterLimit)
  /\ UNCHANGED <<iter, convert, writeEach, usage, nets>>

\* mutant: the extensions stay behind
clearTreesOnly(S) == usage \ UNION {topo[n].route.tree \X {n} : n \in S}

\* clearRouteResult removes every edge and extension from the database
clearRouteResult(S) == usage \ UNION {Recorded(n, topo[n]) : n \in S}

\* removeVia erases the type of the location, also if another net is there
removeVias(cells) == [c \in Cells |-> IF c \in cells THEN DefaultType ELSE viaType[c]]

\* mutant: the status is left as it was
keepStatus(S) == status

unprocessed(S) ==
  [n \in Nets |-> IF n \in S THEN "FAIL_UNPROCESSED" ELSE status[n]]

ripup(S) ==
  /\ usage' = clearRouteResult(S)
  /\ viaType' = removeVias(UNION {topo[n].route.tree : n \in S})
  /\ topo' = [n \in Nets |-> IF n \in S THEN NoTopo ELSE topo[n]]
  /\ output' = [n \in Nets |-> IF n \in S THEN <<>> ELSE output[n]]
  /\ typed' = typed \ S /\ marked' = marked \ S
  /\ status' = unprocessed(S)

StartIteration ==
  /\ pc = "iterate"
  /\ iter < IterLimit /\ getNetsToRoute # {}
  /\ convert' = (iter + 1 < IterLimit)
  /\ ripup(IF iter > 0 THEN getNetsToRoute ELSE {})
  /\ verdict' = [n \in Nets |->
       IF n \in getNetsToRoute THEN "SUCC_NORMAL" ELSE "FAIL_UNPROCESSED"]
  /\ EnterPhase("pre", getNetsToRoute)
  /\ UNCHANGED <<iter, writeEach, local, final, clean>>

Job(n) == n \in pending /\ pending' = pending \ {n}

preRoute(n) ==
  /\ Phase = "pre" /\ Job(n)
  /\ \E s \in IF n \in MultiPin THEN {"SUCC_NORMAL"} \cup PreRouteFailures
                                ELSE {"SUCC_ONE_PIN"} :
       verdict' = [verdict EXCEPT ![n] = Both(@, s)]
  /\ UNCHANGED <<place, setting, status, local, topo, usage, viaType, typed, marked, output>>

Schedule ==
  /\ Phase = "pre" /\ pending = {}
  /\ \E list \in BatchLists({n \in Nets : verdict[n] = "SUCC_NORMAL"}, GuidesApart) :
       Enter("route", list, 0)
  /\ UNCHANGED <<setting, usage, nets>>

\* MazeRoute, then PostMazeRoute on what it left in the LocalNet
mazeRoute(n) ==
  /\ Phase = "maze" /\ Job(n)
  /\ \/ \E r \in Routes[n] : \E e \in Extensions(n, r) :
          /\ local' = [local EXCEPT ![n] = [routed |-> TRUE, route |-> r, ext |-> e]]
          /\ verdict' = verdict
     \/ /\ verdict' = [verdict EXCEPT ![n] = Both(@, "FAIL_DISCONNECTED_GRID_GRAPH")]
        /\ local' = local
  /\ status' = [status EXCEPT ![n] = verdict'[n]]
  /\ UNCHANGED <<place, setting, topo, usage, viaType, typed, marked, output>>

\* a job of a later phase returns at once for a net without success
succeeded(n) == isSucc(IF loop = "route" THEN verdict[n] ELSE status[n])

commitRouteResult(n) ==
  /\ Phase = "commit" /\ Job(n)
  /\ IF succeeded(n)
     THEN /\ topo' = [topo EXCEPT ![n] = local[n]]
          /\ local' = [local EXCEPT ![n] = NoTopo]
          /\ usage' = usage \cup Recorded(n, local[n])
     ELSE UNCHANGED <<topo, local, usage>>
  /\ UNCHANGED <<place, setting, status, verdict, viaType, typed, marked, output>>

\* chosen anew; the record keeps the former types until they are committed
getViaTypes(n) ==
  /\ Phase = "types" /\ Job(n)
  /\ typed' = IF succeeded(n) THEN typed \cup {n} ELSE typed
  /\ marked' = IF succeeded(n) THEN marked \ {n} ELSE marked
  /\ UNCHANGED <<place, setting, status, verdict, local, topo, usage, viaType, output>>

\* getViaTypes may have chosen any types
commitViaTypes(n) ==
  /\ Phase = "mark" /\ Job(n)
  /\ IF succeeded(n)
     THEN \E type \in [topo[n].route.tree \cap Vias -> ViaTypes] :
            viaType' = [c \in Cells |-> IF c \in DOMAIN type THEN type[c] ELSE viaType[c]]
     ELSE viaType' = viaType
  /\ marked' = IF succeeded(n) THEN marked \cup {n} ELSE marked
  /\ UNCHANGED <<place, setting, status, verdict, local, topo, usage, typed, output>>

-----------------------------------------------------------------------------
(* Finishing                                                               *)

\* the whole of each segment goes, the cell it shares with the tree included
clearMinAreaRouteResult(n) ==
  /\ Phase = "clear" /\ Job(n)
  /\ usage' = IF succeeded(n) THEN usage \ RecordedExt(n, topo[n]) ELSE usage
  /\ UNCHANGED <<place, setting, nets>>

run2(n) ==
  /\ Phase = "extend" /\ Job(n)
  /\ IF succeeded(n)
     THEN \E e \in Redone(n, topo[n]) : topo' = [topo EXCEPT ![n].ext = e]
     ELSE topo' = topo
  /\ UNCHANGED <<place, setting, status, verdict, local, usage, viaType, typed, marked, output>>

commitMinAreaRouteResult(n) ==
  /\ Phase = "recommit" /\ Job(n)
  /\ usage' = IF succeeded(n) THEN usage \cup RecordedExt(n, topo[n]) ELSE usage
  /\ UNCHANGED <<place, setting, nets>>

\* a tree of one vertex has no wire, but its links to the pins may have
postRoute(n) ==
  /\ Phase = "post" /\ Job(n)
  /\ \E written \in BOOLEAN :
       /\ topo[n].route.tree # {} => written
       /\ output' = IF succeeded(n) /\ written
                    THEN [output EXCEPT ![n] = Append(@, "route")] ELSE output
  /\ UNCHANGED <<place, setting, status, verdict, local, topo, usage, viaType, typed, marked>>

\* mutant: only nets without success are looked at
isFailed(n) == n \in MultiPin /\ ~isSucc(status[n])

isOpen(n) == n \in MultiPin /\ output[n] = <<>>

\* setting.fixOpenBySST: connectBySTT in the main thread
FixOpen ==
  /\ Phase = "post" /\ pending = {}
  /\ output' = [n \in Nets |->
       IF isOpen(n) THEN <<"STT">> ELSE output[n]]
  /\ IF final THEN EnterPhase("done", {}) ELSE EnterPhase("unfinish", Nets)
  /\ UNCHANGED <<setting, status, verdict, local, topo, usage, viaType, typed, marked>>

unfinish(n) ==
  /\ Phase = "unfinish" /\ Job(n)
  /\ output' = [output EXCEPT ![n] = <<>>]
  /\ UNCHANGED <<place, setting, status, verdict, local, topo, usage, viaType, typed, marked>>

-----------------------------------------------------------------------------
(* From phase to phase                                                     *)

\* mutant: the counter does not move
SameIteration ==
  /\ iter' = iter
  /\ EnterPhase("iterate", {})
  /\ UNCHANGED <<final, clean>>

NextIteration ==
  /\ iter' = iter + 1
  /\ EnterPhase("iterate", {})
  /\ UNCHANGED <<final, clean>>

\* the next phase of the batch, or the first one of the next batch
Proceed ==
  /\ pc = "loop" /\ pending = {}
  /\ \/ /\ b <= Len(batches) /\ k < Len(Chain[loop])
        /\ k' = k + 1 /\ b' = b /\ pending' = batches[b]
     \/ /\ b < Len(batches) /\ k = Len(Chain[loop])
        /\ k' = 1 /\ b' = b + 1 /\ pending' = batches[b + 1]
  /\ UNCHANGED <<pc, loop, round, batches, setting, usage, nets>>

EndOfLoop ==
  /\ pc = "loop" /\ pending = {}
  /\ batches # <<>> => b = Len(batches) /\ k = Len(Chain[loop])

EndRoute ==
  /\ EndOfLoop /\ loop = "route"
  /\ IF writeEach THEN finish(FALSE, FALSE) /\ iter' = iter ELSE NextIteration
  /\ UNCHANGED <<convert, writeEach, usage, nets>>

\* all rounds of via-type selection use the batches of the min-area pass
EndFinishLoop ==
  /\ EndOfLoop /\ loop \in {"minArea", "select"}
  /\ IF round < SelectIters THEN Enter("select", batches, round + 1)
                            ELSE EnterPhase("post", Nets)
  /\ UNCHANGED <<setting, usage, nets>>

EndUnfinish ==
  /\ Phase = "unfinish" /\ pending = {}
  /\ NextIteration
  /\ UNCHANGED <<convert, writeEach, usage, nets>>

Done == pc = "done" /\ UNCHANGED vars

JobOf(n) ==
  \/ preRoute(n) \/ mazeRoute(n) \/ commitRouteResult(n) \/ getViaTypes(n)
  \/ commitViaTypes(n) \/ clearMinAreaRouteResult(n) \/ run2(n)
  \/ commitMinAreaRouteResult(n) \/ postRoute(n) \/ unfinish(n)

Main ==
  \/ StartIteration \/ Stop \/ Schedule \/ Proceed \/ EndRoute
  \/ EndFinishLoop \/ FixOpen \/ EndUnfinish

Init ==
  /\ iter = 0 /\ convert = FALSE
  /\ writeEach \in BOOLEAN
  /\ pc = "iterate" /\ loop = "none" /\ b = 0 /\ k = 0 /\ round = 0
  /\ batches = <<>> /\ pending = {}
  /\ status = [n \in Nets |-> "FAIL_UNPROCESSED"]
  /\ verdict = [n \in Nets |-> "FAIL_UNPROCESSED"]
  /\ local = [n \in Nets |-> NoTopo]
  /\ topo = [n \in Nets |-> NoTopo]
  /\ usage = {} /\ viaType = [c \in Cells |-> DefaultType] /\ typed = {} /\ marked = {}
  /\ output = [n \in Nets |-> <<>>]
  /\ final = FALSE /\ clean = FALSE

Next == Main \/ Done \/ \E n \in Nets : JobOf(n)

Spec == Init /\ [][Next]_vars

\* the process runs: every job returns, and so does runJobsMT (see JobPool)
FairSpec == Spec /\ WF_vars(Next)

-----------------------------------------------------------------------------
(* Properties                                                              *)

AllRecorded == UNION {Recorded(n, topo[n]) : n \in Nets}

\* no job is under way and none is prepared
Between == pc \in {"iterate", "done"} \/ (pc = "post" /\ pending = Nets)

(* A wire is never left in the database after its net has changed or been  *)
(* ripped up, in finish() and after it as well. When the nets to reroute   *)
(* are looked for, the database holds exactly the wires of the present     *)
(* topologies, after any number of rip-ups, failures and reroutes; only    *)
(* intermediate results, if written, go through finish(), which loses some.*)
DatabaseExact ==
  /\ Between => usage \subseteq AllRecorded
  /\ pc = "iterate" /\ ~writeEach => usage = AllRecorded

(* allNetStatus, by which finish() decides whom to process, agrees with    *)
(* the topologies: a net that failed in this iteration has none left over  *)
(* from an earlier one, and a net that succeeded has one, recorded or not. *)
StatusMatchesTopo ==
  Between => \A n \in Nets : isSucc(status[n]) <=> topo[n].routed

(* Of two nets that short or come too close by wires and vias of the       *)
(* default type, both are ripped up and rerouted in the next iteration,    *)
(* whichever of them came later. If it is the shape of a via of another    *)
(* type that is too close, the net that does not own it is ripped up; the  *)
(* owner takes its via to be of the default type, and is ripped up if that *)
(* would be too close. All this is by the types on record at that time.    *)
BothRippedUp ==
  [][pc = "iterate" /\ pc' = "pre" /\ ~writeEach =>
       \A n, m \in Nets : n # m =>
         \A c \in Covered(topo[n]), d \in Covered(topo[m]) :
           <<c, d>> \in Near[viaType[d]] =>
             /\ ~topo'[n].routed
             /\ viaType[c] = DefaultType /\ viaType[d] = DefaultType => ~topo'[m].routed]_vars

(* If the iterations stop early because no net has a violation, finishing  *)
(* adds no wire that violates a rule, although the setting that lets       *)
(* extensions violate rules was left on by the last iteration: no wire of  *)
(* a net is near fixed metal, another net's wire, or another net's via of  *)
(* the default shape. What two vias do to each other is not said: finish() *)
(* chooses their types anew.                                               *)
CleanStopStaysClean ==
  pc = "done" /\ clean /\ ~writeEach =>
    \A n \in Nets : /\ Covered(topo[n]) \cap Blocked = {}
                    /\ \A m \in Nets \ {n} :
                         \A c \in Covered(topo[n]) \ Vias, d \in Covered(topo[m]) :
                           <<c, d>> \notin Near[DefaultType]

(* The via types written are those recorded in the database, chosen for    *)
(* the topology that is written: neighbours saw the same types.            *)
WrittenTypesRecorded ==
  pc = "post" =>
    \A n \in Nets : isSucc(status[n]) => n \in typed /\ n \in marked

(* Whatever failed on the way, and however often results were written      *)
(* before, a result has the wires of each net of several pins once: from   *)
(* its own topology if it has one, else a Steiner tree.                    *)
EveryNetOnce ==
  pc = "done" \/ (pc = "unfinish" /\ pending = Nets) =>
    \A n \in Nets :
      /\ Len(output[n]) = IF n \in MultiPin THEN 1 ELSE 0
      /\ topo[n].route.tree # {} => output[n] = <<"route">>

(* The router ends, whatever fails and however often violations come back. *)
Terminates == <>(pc = "done")
=============================================================================
