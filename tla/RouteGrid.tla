----------------------------- MODULE RouteGrid ------------------------------
(***************************************************************************)
(* The routed-usage maps of RouteGrid (db/RouteGrid.cpp) and the threads   *)
(* of UpdateDB (single_net/UpdateDB.cpp) that record nets in them.         *)
(*                                                                         *)
(* The maps are kept per track: an interval map from cross points to nets  *)
(* for wires, and two multimaps from cross points to nets for vias, one    *)
(* under the lower and one under the upper grid point. One more map holds  *)
(* the type of each via that is not of its layer's default type. None of   *)
(* these containers is safe to use from two threads; every access locks    *)
(* the container's mutex (removeVia locks another one, see there). A step  *)
(* of a thread is therefore to lock and read the container or to write it  *)
(* back and unlock, so that updates without the lock would be lost.        *)
(*                                                                         *)
(* The main thread moves through the phases of Router::route and           *)
(* Router::finish: each is one runJobsMT over a batch, but for rip-up,     *)
(* which it does itself. Which thread draws which net is left open.        *)
(***************************************************************************)
EXTENDS Grid, Sequences, FiniteSets, Functions

CONSTANTS
  Nets, Threads,
  ViaTypes, DefaultType,
  Walks           \* of each net: the topologies maze routing may give it

(* A topology is the sequence of its edges in the order in which           *)
(* postOrderVisitGridTopo hands them to commitRouteResult: the edge from   *)
(* each node to its parent, then the node's min-area extension (ext).      *)
Item == [edge : [u : GridPoint, v : GridPoint], ext : BOOLEAN]

ASSUME RouteGridAssumption ==
  /\ DefaultType \in ViaTypes
  /\ ViaTypes \cap {"add", "subtract", "emplace", "erase"} = {}
  /\ "no net" \notin Nets /\ "free" \notin Threads
  /\ \A n \in Nets : \A w \in Walks[n] :
       /\ w \in Seq(Item)
       /\ \A k \in 1 .. Len(w) : w[k].ext => isTrackSegment(w[k].edge)

VARIABLES
  maps,        \* content of each container
  holder,      \* the thread that holds each container's mutex
  phase,       \* what runJobsMT runs now, or "idle" between two calls
  batch,       \* the nets of the batch in hand
  pending,     \* those no thread has begun in this phase
  worker,      \* of each thread: net, position in its walk, section
  read,        \* of each thread: the container it has locked, as found
  walk,        \* of each net: the topology it has
  viaType,     \* of each net: the type of each of its vias
  stage,       \* of each net: what the maps hold of it
  finishing    \* Router::finish has been entered

mainVars == <<phase, batch, walk, viaType, stage, finishing>>
vars == <<maps, holder, phase, batch, pending, worker, read, walk, viaType,
          stage, finishing>>

-----------------------------------------------------------------------------
(* Containers                                                              *)

TrackOf(kind, p) == [kind |-> kind, layer |-> p.layer, track |-> p.track]
routedNonDefViaMap == [kind |-> "type", layer |-> -1, track |-> -1]

Containers ==
  {TrackOf(kind, p) : kind \in {"wire", "via", "viaUpper"}, p \in GridPoint}
  \cup {routedNonDefViaMap}

\* in a via map how many entries a net has at a cross point; in a wire map 0 or 1
Entries(c) == {q.cp : q \in {p \in GridPoint : p.layer = c.layer}} \X Nets

EmptyMap(c) ==
  IF c = routedNonDefViaMap THEN [p \in GridPoint |-> DefaultType]
                            ELSE [e \in Entries(c) |-> 0]

-----------------------------------------------------------------------------
(* Critical sections: the container it updates, the mutex it holds, the    *)
(* entries and what is done to them.                                       *)

Section(kind, p, entries, op) ==
  [of |-> TrackOf(kind, p), mutex |-> TrackOf(kind, p),
   entries |-> entries, op |-> op]

Cells(e, n) == {<<p.cp, n>> : p \in SegmentPoints(e)}

\* one section per track
WireSections(e, n, op) ==
  LET first == IF e.u.track <= e.v.track THEN e.u.track ELSE e.v.track
      last == IF e.u.track <= e.v.track THEN e.v.track ELSE e.u.track
  IN  [k \in 1 .. last - first + 1 |->
         Section("wire", [e.u EXCEPT !.track = first + k - 1], Cells(e, n), op)]

isWire(e) == ~isVia(e) /\ (isTrackSegment(e) \/ isWrongWaySegment(e))

\* an edge of no known type is only warned about
useEdge(e, n) ==
  CASE isVia(e) ->
         << Section("via", lower(e), {<<lower(e).cp, n>>}, "emplace"),
            Section("viaUpper", upper(e), {<<upper(e).cp, n>>}, "emplace") >>
    [] isWire(e) -> WireSections(e, n, "add")
    [] OTHER -> << >>

markViaType(p, type) ==
  << [of |-> routedNonDefViaMap, mutex |-> routedNonDefViaMap,
      entries |-> {p}, op |-> type] >>

\* mutant: the upper map is forgotten
removeViaLower(p, n) ==
  << Section("via", p, {<<p.cp, n>>}, "erase"), markViaType(p, DefaultType)[1] >>

\* mutant: the type of the via stays
removeViaKeepType(p, n) ==
  << Section("via", p, {<<p.cp, n>>}, "erase"),
     [Section("viaUpper", getUpper(p), {<<getUpper(p).cp, n>>}, "erase")
        EXCEPT !.mutex = TrackOf("viaUpper", p)] >>

\* the upper map is updated under the mutex of the lower point's indices
removeVia(p, n) ==
  << Section("via", p, {<<p.cp, n>>}, "erase"),
     markViaType(p, DefaultType)[1],
     [Section("viaUpper", getUpper(p), {<<getUpper(p).cp, n>>}, "erase")
        EXCEPT !.mutex = TrackOf("viaUpper", p)] >>

\* mutant: a wrong-way segment is removed from its first track only
removeFirstTrack(e, n) ==
  CASE isVia(e)  -> removeVia(lower(e), n)
    [] isWire(e) -> << WireSections(e, n, "subtract")[1] >>
    [] OTHER -> << >>

removeEdge(e, n) ==
  CASE isVia(e)  -> removeVia(lower(e), n)
    [] isWire(e) -> WireSections(e, n, "subtract")
    [] OTHER -> << >>

\* an interval map's sets of nets, a multimap's entries, the type of a via
Value(op, old) ==
  CASE op = "add"      -> 1
    [] op = "subtract" -> 0
    [] op = "emplace"  -> old + 1
    [] op = "erase"    -> IF old = 0 THEN 0 ELSE old - 1
    [] OTHER           -> op

Update(s, content) ==
  [e \in DOMAIN content |->
     IF e \in s.entries THEN Value(s.op, content[e]) ELSE content[e]]

(* What a phase does to one edge of a net's topology: commitRouteResult,   *)
(* commitViaTypes, clearRouteResult and clear- and commitMinAreaRouteResult*)
Sections(n, k) ==
  LET item == walk[n][k]
  IN  CASE phase = "commit" -> useEdge(item.edge, n)
        [] phase = "rip"    -> removeEdge(item.edge, n)
        [] phase = "clearExt" /\ item.ext  -> removeEdge(item.edge, n)
        [] phase = "commitExt" /\ item.ext -> useEdge(item.edge, n)
        [] phase = "mark" /\ ~item.ext /\ isVia(item.edge) ->
             markViaType(lower(item.edge), viaType[n][lower(item.edge)])
        [] OTHER -> << >>

-----------------------------------------------------------------------------
(* Threads                                                                 *)

Idle == "no net"
AtRest == [net |-> Idle, k |-> 0, j |-> 0, inside |-> FALSE]
Nothing == << >>
NoThread == "free"

current(t) == Sections(worker[t].net, worker[t].k)[worker[t].j]

\* rip-up runs in the main thread alone
MayRun(t) == phase = "rip" => \A u \in Threads \ {t} : worker[u] = AtRest

Draw(t) ==
  /\ worker[t] = AtRest
  /\ MayRun(t)
  /\ \E n \in pending :
       /\ pending' = pending \ {n}
       /\ worker' = [worker EXCEPT ![t] = [@ EXCEPT !.net = n, !.k = 1, !.j = 1]]
  /\ UNCHANGED <<maps, holder, read, mainVars>>

\* mutant: the mutex is not waited for
EnterAtOnce(t) ==
  LET w == worker[t]
  IN  /\ w.net # Idle /\ ~w.inside
      /\ w.k <= Len(walk[w.net])
      /\ w.j <= Len(Sections(w.net, w.k))
      /\ holder' = [holder EXCEPT ![current(t).mutex] = t]
      /\ worker' = [worker EXCEPT ![t] = [@ EXCEPT !.inside = TRUE]]
      /\ read' = [read EXCEPT ![t] = maps[current(t).of]]
      /\ UNCHANGED <<maps, pending, mainVars>>

\* lock the mutex and look the container up
Enter(t) ==
  LET w == worker[t]
  IN  /\ w.net # Idle /\ ~w.inside
      /\ w.k <= Len(walk[w.net])
      /\ w.j <= Len(Sections(w.net, w.k))
      /\ holder[current(t).mutex] = NoThread
      /\ holder' = [holder EXCEPT ![current(t).mutex] = t]
      /\ worker' = [worker EXCEPT ![t] = [@ EXCEPT !.inside = TRUE]]
      /\ read' = [read EXCEPT ![t] = maps[current(t).of]]
      /\ UNCHANGED <<maps, pending, mainVars>>

\* update the container as it was found and unlock
Leave(t) ==
  LET w == worker[t]
      s == current(t)
  IN  /\ w.inside
      /\ maps' = [maps EXCEPT ![s.of] = Update(s, read[t])]
      /\ holder' = [holder EXCEPT ![s.mutex] = NoThread]
      /\ worker' = [worker EXCEPT ![t] =
                      [@ EXCEPT !.inside = FALSE, !.j = w.j + 1]]
      /\ read' = [read EXCEPT ![t] = Nothing]
      /\ UNCHANGED <<pending, mainVars>>

\* mutant: the visit does not move on to the parent
NextEdgeStays(t) ==
  LET w == worker[t]
  IN  /\ w.net # Idle /\ ~w.inside
      /\ w.k <= Len(walk[w.net])
      /\ w.j > Len(Sections(w.net, w.k))
      /\ worker' = worker
      /\ UNCHANGED <<maps, holder, pending, read, mainVars>>

NextEdge(t) ==
  LET w == worker[t]
  IN  /\ w.net # Idle /\ ~w.inside
      /\ w.k <= Len(walk[w.net])
      /\ w.j > Len(Sections(w.net, w.k))
      /\ worker' = [worker EXCEPT ![t] = [@ EXCEPT !.k = w.k + 1, !.j = 1]]
      /\ UNCHANGED <<maps, holder, pending, read, mainVars>>

EndNet(t) ==
  LET w == worker[t]
  IN  /\ w.net # Idle
      /\ w.k > Len(walk[w.net])
      /\ worker' = [worker EXCEPT ![t] = AtRest]
      /\ UNCHANGED <<maps, holder, pending, read, mainVars>>

Thread(t) == Draw(t) \/ Enter(t) \/ Leave(t) \/ NextEdge(t) \/ EndNet(t)

-----------------------------------------------------------------------------
(* The main thread                                                         *)

At(s) == {n \in Nets : stage[n] = s}

Begin(what, nets) ==
  /\ phase' = what
  /\ batch' = nets
  /\ pending' = nets
  /\ UNCHANGED <<maps, holder, worker, read>>

Points(w) ==
  UNION {IF isVia(w[k].edge) THEN {w[k].edge.u, w[k].edge.v}
                             ELSE SegmentPoints(w[k].edge) : k \in DOMAIN w}

\* the schedulers keep the nets of one batch apart
Separate(nets, w) ==
  \A n, m \in nets : n # m => Points(w[n]) \cap Points(w[m]) = {}

Vias(n) ==
  {lower(walk[n][k].edge) : k \in {j \in DOMAIN walk[n] : isVia(walk[n][j].edge)}}

\* Router::route: a batch of nets maze routing has found topologies for
Commit ==
  /\ phase = "idle" /\ ~finishing
  /\ At("unmarked") = {}
  /\ \E nets \in (SUBSET At("out")) \ {{}} :
       /\ Begin("commit", nets)
       /\ \E choice \in [nets -> UNION {Walks[n] : n \in nets}] :
            /\ \A n \in nets : choice[n] \in Walks[n]
            /\ Separate(nets, choice)
            /\ walk' = [n \in Nets |-> IF n \in nets THEN choice[n] ELSE walk[n]]
  /\ UNCHANGED <<viaType, stage, finishing>>

\* PostRoute::getViaTypes has chosen a type for each via of the batch
Mark ==
  /\ phase = "idle"
  /\ \/ At("unmarked") # {} /\ Begin("mark", batch)
     \/ /\ finishing /\ At("unmarked") = {} /\ At("bare") = {}
        /\ \E nets \in (SUBSET At("in")) \ {{}} :
             Separate(nets, walk) /\ Begin("mark", nets)
  /\ \E type \in [UNION {{n} \X Vias(n) : n \in batch'} -> ViaTypes] :
       viaType' = [n \in Nets |-> [p \in GridPoint |->
         IF <<n, p>> \in DOMAIN type THEN type[<<n, p>>] ELSE viaType[n][p]]]
  /\ UNCHANGED <<walk, stage, finishing>>

\* nets that share a via violate the spacing rules and are ripped up together
Rip ==
  /\ phase = "idle" /\ ~finishing
  /\ At("unmarked") = {}
  /\ \E nets \in (SUBSET At("in")) \ {{}} :
       /\ \A n \in nets, m \in At("in") \ nets : Vias(n) \cap Vias(m) = {}
       /\ Begin("rip", nets)
  /\ UNCHANGED <<walk, viaType, stage, finishing>>

\* Router::finish: the extensions of a batch are removed ...
ClearMinArea ==
  /\ phase = "idle"
  /\ At("unmarked") = {} /\ At("bare") = {}
  /\ \E nets \in (SUBSET At("in")) \ {{}} :
       Separate(nets, walk) /\ Begin("clearExt", nets)
  /\ finishing' = TRUE
  /\ UNCHANGED <<walk, viaType, stage>>

\* ... chosen again (run2: the tree stays as it is) and recorded
TreeItems(w) == {k \in DOMAIN w : ~w[k].ext}
SameTree(w, v) ==
  \E f \in Bijection(TreeItems(w), TreeItems(v)) :
    \A k \in TreeItems(w) : v[f[k]] = w[k]

CommitMinArea ==
  /\ phase = "idle"
  /\ At("bare") # {}
  /\ Begin("commitExt", batch)
  /\ \E choice \in [batch -> UNION {Walks[n] : n \in batch}] :
       /\ \A n \in batch :
            choice[n] \in Walks[n] /\ SameTree(walk[n], choice[n])
       /\ walk' = [n \in Nets |-> IF n \in batch THEN choice[n] ELSE walk[n]]
  /\ UNCHANGED <<viaType, stage, finishing>>

\* runJobsMT returns; after a rip-up the nets have no topology any more
Join ==
  /\ phase # "idle"
  /\ pending = {}
  /\ \A t \in Threads : worker[t] = AtRest
  /\ phase' = "idle"
  /\ stage' = [n \in Nets |->
       CASE n \notin batch        -> stage[n]
         [] n \in batch /\ phase = "commit"   -> "unmarked"
         [] n \in batch /\ phase = "rip"      -> "out"
         [] n \in batch /\ phase = "clearExt" -> "bare"
         [] OTHER -> "in"]
  /\ walk' = [n \in Nets |->
       IF phase = "rip" /\ n \in batch THEN << >> ELSE walk[n]]
  /\ UNCHANGED <<maps, holder, batch, pending, worker, read, viaType, finishing>>

Main == Commit \/ Mark \/ Rip \/ ClearMinArea \/ CommitMinArea \/ Join

Init ==
  /\ maps = [c \in Containers |-> EmptyMap(c)]
  /\ holder = [c \in Containers |-> NoThread]
  /\ phase = "idle"
  /\ batch = {}
  /\ pending = {}
  /\ worker = [t \in Threads |-> AtRest]
  /\ read = [t \in Threads |-> Nothing]
  /\ walk = [n \in Nets |-> << >>]
  /\ viaType = [n \in Nets |-> [p \in GridPoint |-> DefaultType]]
  /\ stage = [n \in Nets |-> "out"]
  /\ finishing = FALSE

Next == Main \/ \E t \in Threads : Thread(t)

Spec == Init /\ [][Next]_vars

FairSpec == Spec /\ WF_vars(Join) /\ \A t \in Threads : WF_vars(Thread(t))

-----------------------------------------------------------------------------
(* Properties                                                              *)

\* what the maps say of a net at a grid point
Wire(p, n) == maps[TrackOf("wire", p)][<<p.cp, n>>]
ViaEntries(kind, p, n) == maps[TrackOf(kind, p)][<<p.cp, n>>]
ViaTypeAt(p) == maps[routedNonDefViaMap][p]

\* what they should say
Routed(n) == stage[n] # "out"

WirePoints(n) ==
  UNION {SegmentPoints(walk[n][k].edge) :
           k \in {j \in DOMAIN walk[n] : /\ isWire(walk[n][j].edge)
                                         /\ walk[n][j].ext => stage[n] # "bare"}}

ViaCount(p, n) ==
  Cardinality({k \in DOMAIN walk[n] :
                 isVia(walk[n][k].edge) /\ lower(walk[n][k].edge) = p})

(* Every change of a map is one whole update of what the map holds: an     *)
(* update read by one thread is never written over that of another, even   *)
(* though removeVia locks the wrong mutex for the upper map.               *)
AtomicUpdates ==
  [][\A c \in Containers : maps'[c] # maps[c] =>
       \E t \in Threads : /\ worker[t].inside
                          /\ current(t).of = c
                          /\ maps'[c] = Update(current(t), maps[c])]_vars

(* Between phases routedWireMap has no wire of a net that is no longer     *)
(* there, even when extensions are removed and chosen anew, and before     *)
(* finish() each cross point of each routed net exactly once.              *)
WireMapExact ==
  phase = "idle" =>
    \A p \in GridPoint, n \in Nets :
      /\ Wire(p, n) = 1 => Routed(n) /\ p \in WirePoints(n)
      /\ ~finishing => Wire(p, n) = IF Routed(n) /\ p \in WirePoints(n) THEN 1 ELSE 0

(* Both via maps hold each via of each routed net once per edge, one under *)
(* its lower and the other under its upper grid point.                     *)
ViaMapsExact ==
  phase = "idle" =>
    \A p \in {q \in GridPoint : getUpper(q) \in GridPoint}, n \in Nets :
      LET count == IF Routed(n) THEN ViaCount(p, n) ELSE 0
      IN  /\ ViaEntries("via", p, n) = count
          /\ ViaEntries("viaUpper", getUpper(p), n) = count

(* A location's via type is kept under the location alone, for all nets,   *)
(* and erased when any net leaves it. Still a via that no other net shares *)
(* has the type chosen for it, and an empty location has no type.          *)
SoleViaMark ==
  phase = "idle" /\ At("unmarked") = {} =>
    \A p \in GridPoint :
      LET users == {n \in Nets : Routed(n) /\ p \in Vias(n)}
      IN  /\ \A n \in users : users = {n} => ViaTypeAt(p) = viaType[n][p]
          /\ users = {} => ViaTypeAt(p) = DefaultType

(* RouteGrid.h says of routedWireMap "(layerIdx, trackIdx) -> all          *)
(* (crossPointRange, netIdxs)": a wire of a routed net is always in it.    *)
(* clearMinAreaRouteResult subtracts a whole extension, the cross point it *)
(* shares with the tree's own wire included.                               *)
WireMapComplete ==
  phase = "idle" =>
    \A n \in At("in") : \A p \in WirePoints(n) : Wire(p, n) = 1

(* Every phase ends: no thread waits for ever for a mutex.                 *)
PhaseEnds == (phase # "idle") ~> (phase = "idle")
=============================================================================
