------------------------------ MODULE GridGraph ------------------------------
(***************************************************************************)
(* The grid graph of a net (single_net/GridGraph, GridGraphBuilder and     *)
(* GridGraphBuilderBase), built from what pre-route leaves behind: the     *)
(* vertices are the grid points of the guides, which the slices share out  *)
(* among them, so that a vertex is its grid point. Vertices along a track  *)
(* where nothing can happen are skipped by direct edges.                   *)
(*                                                                         *)
(* What metal of other nets costs at a cross point and at a via, and where *)
(* it leaves room, is read from the database: constants here.              *)
(***************************************************************************)
EXTENDS PreRoute

CONSTANTS
  CpCost, ViaCost,      \* of grid points, and of the vias above them
  Free,                 \* grid points where a wire violates nothing
  BadTap,               \* grid points no pin can be tapped from without violation
  MinLen,               \* of each layer
  WrongWayCost,         \* of each layer
  DensityNum, DensityDen,       \* wrongWayPointDensity
  outOfPinWireLengthPenalty, UnitViaCost, UnitSpaceVioCost

ASSUME GridGraphAssumption ==
  /\ CpCost \in [GridPoint -> Nat] /\ ViaCost \in [GridPoint -> Nat]
  /\ Free \subseteq GridPoint /\ BadTap \subseteq GridPoint
  /\ MinLen \in [GridLayers -> Int]
  /\ DensityNum \in Nat /\ DensityDen \in Nat \ {0}

VARIABLES
  stage,                \* of GridGraphBuilder::run
  pin,                  \* the pin a loop over pins is at
  vertexToPin, pinToVertex, pinToOriVertex, fakePins,
  edges,                \* <<vertex, direction>> -> the end point and the cost
  vertexCost, minAreaFixable

pinVars == <<vertexToPin, pinToVertex, pinToOriVertex, fakePins>>
graphVars == <<stage, pin, pinVars, edges, vertexCost, minAreaFixable>>

Vertices == UNION {PointsIn(gridGuides[g]) : g \in DOMAIN gridGuides}

GraphInit ==
  /\ Init
  /\ stage = "pins" /\ pin = 1
  /\ vertexToPin = <<>> /\ fakePins = {} /\ edges = <<>> /\ vertexCost = <<>> /\ minAreaFixable = {}
  /\ pinToVertex = [p \in Pins |-> {}] /\ pinToOriVertex = [p \in Pins |-> {}]

-----------------------------------------------------------------------------
(* Vertices of pins                                                        *)

Nearest(boxes, which, p) == Min({BoxDist(boxes[i], getLocBox(PointBox(p))) : i \in which})

\* how far a vertex is from a pin, on its layer if the pin has a box there
getPinPointCost(boxes, p) ==
  LET same == {i \in DOMAIN boxes : boxes[i].layer = p.layer}
  IN  IF same # {} THEN Nearest(boxes, same, p) * outOfPinWireLengthPenalty
      ELSE Nearest(boxes, DOMAIN boxes, p) * outOfPinWireLengthPenalty + UnitViaCost

Common(a, b) == GridBox(a.layer, IntersectWith(a.tracks, b.tracks), IntersectWith(a.cps, b.cps))

\* the vertices of access box a of a pin in guides on its own layer
VerticesOf(p, a) ==
  UNION {PointsIn(Common(access[p][a], gridGuides[g])) :
           g \in {h \in DOMAIN gridGuides : <<h, a>> \in pinConn[p] /\ gridGuides[h].layer = access[p][a].layer}}

FakeBoxes(p) ==
  {a \in DOMAIN access[p] : a > 1 /\ a = Len(access[p]) /\ access[p][a].layer # access[p][a - 1].layer}

\* mutant: a vertex that another pin gets is not erased
KeepAll(p, gone) == pinToVertex[p]

Erased(p, gone) == pinToVertex[p] \ gone

\* updatePinVertex, for all vertices of a pin: a contested one goes to the pin
\* that it is closer to
UpdatePinVertices ==
  /\ stage = "pins" /\ pin <= Len(access)
  /\ LET claimed == UNION {VerticesOf(pin, a) : a \in DOMAIN access[pin]}
         cost(q, v) == getPinPointCost(dbNet.pins[q], v)
         won == {v \in claimed : v \in DOMAIN vertexToPin => cost(vertexToPin[v], v) > cost(pin, v)}
     IN  /\ vertexToPin' = [v \in DOMAIN vertexToPin \cup claimed |->
                              IF v \in won THEN pin ELSE vertexToPin[v]]
         /\ pinToVertex' = [q \in Pins |-> IF q = pin THEN won ELSE Erased(q, won)]
         /\ pinToOriVertex' = [pinToOriVertex EXCEPT ![pin] = claimed]
         /\ fakePins' = fakePins \cup UNION {VerticesOf(pin, a) : a \in FakeBoxes(pin)}
  /\ pin' = pin + 1
  /\ UNCHANGED <<stage, edges, vertexCost, minAreaFixable>>

-----------------------------------------------------------------------------
(* Edges                                                                   *)

oppDirections ==
  [UP |-> "DOWN", DOWN |-> "UP", LEFT |-> "RIGHT", RIGHT |-> "LEFT",
   FORWARD |-> "BACKWARD", BACKWARD |-> "FORWARD"]

EdgeTo(u, v, dir, cost) == [u |-> u, v |-> v, dir |-> dir, cost |-> cost]
hasEdge(u, dir) == <<u, dir>> \in DOMAIN edges

\* addEdge, for a set of edges: one that is there stays, and each leads both ways
addEdges(new) ==
  LET added == {e \in new : ~hasEdge(e.u, e.dir)}
      there == {<<e.u, e.dir>> : e \in added}
      back == {<<e.v, oppDirections[e.dir]>> : e \in added}
      at(k) == CHOOSE e \in added : k \in {<<e.u, e.dir>>, <<e.v, oppDirections[e.dir]>>}
  IN  edges' = [k \in DOMAIN edges \cup there \cup back |->
                  IF k \in there THEN [to |-> at(k).v, cost |-> at(k).cost]
                  ELSE IF k \in back THEN [to |-> at(k).u, cost |-> at(k).cost] ELSE edges[k]]

DbGrid == [d \in DOMAIN dbNet.guides |-> rangeSearch(dbNet.guides[d])]

Point(l, t, c) == [layer |-> l, track |-> t, cp |-> c]

\* connectTwoGuides: a via at every crossing of the tracks that the guides share
ViaEdges(lowerGuide, upperGuide, viaBox, db) ==
  LET l == viaBox.lower.layer
      edge(t, ut) ==
        LET u == Point(l + 1, ut, UpperCrossPoint[l][t])
            v == Point(l, t, LowerCrossPoint(l + 1, ut))
            penalty == getViaPenalty(mapping[upperGuide], u.track, u.cp, mapping[lowerGuide], v.track, v.cp, db)
        IN  EdgeTo(u, v, "DOWN", ViaCost[v] * (1 + penalty))
  IN  IF isValidViaBox(viaBox)
      THEN {edge(t, ut) : t \in In(viaBox.lower.tracks), ut \in In(viaBox.upper.tracks)} ELSE {}

ConnectGuides ==
  /\ stage = "pins" /\ pin > Len(access)
  /\ LET pairs == {w \in (DOMAIN gridGuides) \X (DOMAIN gridGuides) :
                     w[2] \in conn[w[1]] /\ gridGuides[w[1]].layer < gridGuides[w[2]].layer}
         db == DbGrid
     IN  addEdges(UNION {ViaEdges(w[1], w[2], getViaBoxBetween(gridGuides[w[1]], gridGuides[w[2]]), db) : w \in pairs})
  /\ stage' = "wrongway" /\ pin' = 1
  /\ UNCHANGED <<pinVars, vertexCost, minAreaFixable>>

\* the cross points at which wrong-way edges are added, in a range of n
WrongWayPoints(r, num) ==
  LET n == r.high - r.low + 1
  IN  IF num = 1 THEN {(r.high + r.low) \div 2}
      ELSE {i * (1 + (n - num) \div (num - 1)) + r.low : i \in 0 .. num - 1}
DensePoints(r) == WrongWayPoints(r, ((r.high - r.low + 1) * DensityNum) \div DensityDen)

Across1(l, t, c) == EdgeTo(Point(l, t, c), Point(l, t + 1, c), "RIGHT", WrongWayCost[l])

\* addRegWrongWayConn
RegEdges(b) == {Across1(b.layer, t, c) : t \in b.tracks.low .. b.tracks.high - 1, c \in DensePoints(b.cps)}

\* addAdjGuideWrongWayConn
AdjEdges(b1, b2) ==
  LET t == IF b1.tracks.low > b2.tracks.high THEN b2.tracks.high ELSE b1.tracks.high
  IN  {Across1(b1.layer, t, c) : c \in DensePoints(IntersectWith(b1.cps, b2.cps))}

\* addPinWrongWayConn: around access boxes, also those of the layers next to the guide
OnGuideLayer(b, l) ==
  IF b.layer + 1 = l THEN getUpperBox(b) ELSE IF b.layer - 1 = l THEN getLowerBox(b) ELSE b
extraRange == 2
PinEdges(b, guide) ==
  LET around == GridBox(b.layer, Widen(b.tracks, extraRange), Widen(b.cps, extraRange))
      tracks == IntersectWith(around.tracks, guide.tracks)
  IN  {Across1(guide.layer, t, c) : t \in tracks.low .. tracks.high - 1, c \in In(IntersectWith(around.cps, guide.cps))}

addWrongWayConn ==
  /\ stage = "wrongway"
  /\ LET adjacent == guideAdj(gridGuides)
         adj == {w \in (DOMAIN gridGuides) \X (DOMAIN gridGuides) : w[1] < w[2] /\ w[2] \in adjacent[w[1]]}
         touching(p) == {PinEdges(OnGuideLayer(access[p][ga[2]], gridGuides[ga[1]].layer), gridGuides[ga[1]]) :
                           ga \in pinConn[p]}
     IN  addEdges((UNION {RegEdges(gridGuides[g]) : g \in DOMAIN gridGuides})
                  \cup (UNION {UNION touching(p) : p \in Pins})
                  \cup (UNION {AdjEdges(gridGuides[w[1]], gridGuides[w[2]]) : w \in adj}))
  /\ stage' = "tracks"
  /\ UNCHANGED <<pin, pinVars, vertexCost, minAreaFixable>>

\* mutant: the vertex of a pin may go, too
CanRemovePins(b, v) ==
  /\ \A dir \in {"UP", "DOWN", "LEFT", "RIGHT"} : ~hasEdge(v, dir)
  /\ v.cp \notin {b.cps.low, b.cps.high}

canRemove(b, v) ==
  /\ \A dir \in {"UP", "DOWN", "LEFT", "RIGHT"} : ~hasEdge(v, dir)
  /\ v \notin DOMAIN vertexToPin
  /\ v.cp \notin {b.cps.low, b.cps.high}

\* the cross points of a track of a guide that stay, and pairs that follow each other
Kept(b, t) == {c \in In(b.cps) : ~canRemove(b, Point(b.layer, t, c))}
Consecutive(K) == {w \in K \X K : w[1] < w[2] /\ K \cap (w[1] + 1 .. w[2] - 1) = {}}

getWireSegmentCost(l, t, r) == MapThenSumSet(LAMBDA c : CpCost[Point(l, t, c)], In(r))

\* mutant: the cross points at its ends are charged for as well
DirectCostWithEnds(g, l, t, c1, c2, db) ==
  getWireSegmentCost(l, t, Intvl(c1, c2)) * (1 + getWireSegmentPenalty(l, mapping[g], db, dbNet.guides, t, c1, c2))

DirectCost(g, l, t, c1, c2, db) ==
  IF c2 = c1 + 1 THEN 0
  ELSE getWireSegmentCost(l, t, Intvl(c1 + 1, c2 - 1))
       * (1 + getWireSegmentPenalty(l, mapping[g], db, dbNet.guides, t, c1, c2))

TrackEdges(g, t, pairs, db) ==
  LET l == gridGuides[g].layer
  IN  {EdgeTo(Point(l, t, w[1]), Point(l, t, w[2]), "FORWARD", DirectCost(g, l, t, w[1], w[2], db)) : w \in pairs}

\* connectGuide: vertices that are skipped cost nothing themselves
ConnectTracks ==
  /\ stage = "tracks"
  /\ LET db == DbGrid
         edgesOf(g) == UNION {TrackEdges(g, t, Consecutive(Kept(gridGuides[g], t)), db) : t \in In(gridGuides[g].tracks)}
         guideOf(v) == CHOOSE g \in DOMAIN gridGuides : includePoint(gridGuides[g], v)
         costIn(v, g) == IF canRemove(gridGuides[g], v) THEN 0
                         ELSE CpCost[v] * (1 + getCrossPointPenalty(mapping[g], db, v.track, v.cp))
     IN  /\ addEdges(UNION {edgesOf(g) : g \in DOMAIN gridGuides})
         /\ vertexCost' = [v \in Vertices |-> costIn(v, guideOf(v))]
  /\ stage' = "minarea"
  /\ UNCHANGED <<pin, pinVars, minAreaFixable>>

-----------------------------------------------------------------------------
(* Minimum lengths, and what pins cost                                     *)

CpDist(l, r) == CrossPointLoc[l][r.high] - CrossPointLoc[l][r.low]

\* getEmptyIntvl: the longest intervals without violations, except one that is
\* the last cross point alone
getEmptyIntvl(l, t, r) ==
  LET isFree(c) == Point(l, t, c) \in Free
      ends(w) == /\ w[1] <= w[2] /\ w[1] < r.high
                 /\ \A c \in w[1] .. w[2] : isFree(c)
                 /\ (w[1] = r.low \/ ~isFree(w[1] - 1)) /\ (w[2] = r.high \/ ~isFree(w[2] + 1))
  IN  {Intvl(w[1], w[2]) : w \in {v \in In(r) \X In(r) : ends(v)}}

\* mutant: only the guide itself
WindowOfGuide(b) == b.cps

\* a guide's cross points and those beside it that a wire of minimum length needs
Window(b) ==
  LET l == b.layer
      below == {c \in 0 .. b.cps.low - 1 : CpDist(l, Intvl(c, b.cps.low)) >= MinLen[l]}
      above == {c \in b.cps.high + 1 .. NumCrossPoints[l] - 1 : CpDist(l, Intvl(b.cps.high, c)) >= MinLen[l]}
  IN  Intvl(Max({0} \cup below), Min({NumCrossPoints[l] - 1} \cup above))

setMinAreaFlags ==
  /\ stage = "minarea"
  /\ LET fixable(b, t) == {c \in In(b.cps) : \E e \in getEmptyIntvl(b.layer, t, Window(b)) :
                             c \in In(e) /\ CpDist(b.layer, e) >= MinLen[b.layer]}
         flagged(b) == UNION {{Point(b.layer, t, c) : c \in fixable(b, t)} : t \in In(b.tracks)}
     IN  minAreaFixable' = UNION {flagged(gridGuides[g]) : g \in DOMAIN gridGuides}
  /\ stage' = "penalty"
  /\ UNCHANGED <<pin, pinVars, edges, vertexCost>>

addOutofPinPenalty ==
  /\ stage = "penalty"
  /\ LET tap(p, v) == getPinPointCost(dbNet.pins[p], v) + IF v \in BadTap THEN UnitSpaceVioCost ELSE 0
         owners(v) == {p \in Pins : v \in pinToVertex[p]}
     IN  vertexCost' = [v \in Vertices |-> vertexCost[v] + MapThenSumSet(LAMBDA p : tap(p, v), owners(v))]
  /\ stage' = "fix" /\ pin' = 1
  /\ UNCHANGED <<pinVars, edges, minAreaFixable>>

\* mutant: a pin may give its last vertex away
CanGiveLast(v) == pinToVertex[vertexToPin[v]] # {}

\* its pin has more than this one
CanGive(v) == \E u, w \in pinToVertex[vertexToPin[v]] : u # w

\* one pin of the loop; the vertex is not put into the pinToVertex of the pin
fixDisconnectedPin ==
  /\ stage = "fix" /\ pin <= Len(access)
  /\ LET given == {v \in pinToOriVertex[pin] : CanGive(v)}
     IN  IF pinToVertex[pin] # {} \/ given = {} THEN UNCHANGED pinVars
         ELSE \E v \in given :
           /\ \A w \in given : vertexCost[v] <= vertexCost[w]
           /\ vertexToPin' = [vertexToPin EXCEPT ![v] = pin]
           /\ pinToVertex' = [pinToVertex EXCEPT ![vertexToPin[v]] = Erased(vertexToPin[v], {v})]
           /\ UNCHANGED <<pinToOriVertex, fakePins>>
  /\ pin' = pin + 1
  /\ UNCHANGED <<stage, edges, vertexCost, minAreaFixable>>

Built ==
  /\ stage = "fix" /\ pin > Len(access)
  /\ stage' = "built"
  /\ UNCHANGED <<pin, pinVars, edges, vertexCost, minAreaFixable>>

Build ==
  \/ UpdatePinVertices \/ ConnectGuides \/ addWrongWayConn \/ ConnectTracks
  \/ setMinAreaFlags \/ addOutofPinPenalty \/ fixDisconnectedPin \/ Built

\* a graph is built for a net that pre-route has passed
GraphNext ==
  \/ Next /\ UNCHANGED graphVars
  \/ phase = "done" /\ status = "SUCC_NORMAL" /\ Build /\ UNCHANGED vars

GraphSpec == GraphInit /\ [][GraphNext]_<<vars, graphVars>>

-----------------------------------------------------------------------------
(* Properties                                                              *)

\* Vertices are skipped and slices share out the grid, but pins whose vertices
\* are joined on the grid of the guides, point by point, are joined in the graph.
SkippingKeepsPaths ==
  stage = "minarea" /\ JoinedOnGrid(LocalNetNow, pinToVertex) =>
    LET steps == {<<k[1], edges[k].to>> : k \in DOMAIN edges}
                 \cup UNION {{<<v, w>> : w \in pinToVertex[vertexToPin[v]]} : v \in DOMAIN vertexToPin}
        reached == ReachIn(steps, pinToVertex[1])
    IN  \A p \in Pins : pinToVertex[p] \cap reached # {}

\* what a path pays along the whole track of a guide
WalkCost(b, t) ==
  LET points == {Point(b.layer, t, c) : c \in In(b.cps)}
  IN  MapThenSumSet(LAMBDA v : vertexCost[v], points)
      + MapThenSumSet(LAMBDA v : edges[<<v, "FORWARD">>].cost, {v \in points : hasEdge(v, "FORWARD")})

\* Direct edges and vertices, which have prices of their own, charge for each
\* cross point of a track once: the cost of the wire if the track lies in one
\* guide of the design, twice that if none has it, else something between.
TrackCosts ==
  stage = "minarea" =>
    \A g \in DOMAIN gridGuides : \A t \in In(gridGuides[g].tracks) :
      LET b == gridGuides[g]
          wire == getWireSegmentCost(b.layer, t, b.cps)
          on(d) == t \in In(rangeSearch(dbNet.guides[d]).tracks)
          inside(d) == on(d) /\ In(b.cps) \subseteq In(rangeSearch(dbNet.guides[d]).cps)
          cost == WalkCost(b, t)
      IN  /\ cost \in wire .. 2 * wire
          /\ (\E d \in mapping[g] : inside(d)) => cost = wire
          /\ (\A d \in mapping[g] : ~on(d)) => cost = 2 * wire

\* Whatever window around a guide setMinAreaFlags looks at, a vertex is flagged
\* just if a wire of the minimum length fits there on its whole track, on a
\* layer that asks for one (its last cross point is left out if it is free alone,
\* which only counts where it is long enough).
MinAreaFlagsExact ==
  stage = "penalty" =>
    \A v \in {u \in Vertices : MinLen[u.layer] > 0} :
      v \in minAreaFixable <=>
        \E lo, hi \in Range0(NumCrossPoints[v.layer]) :
          /\ v.cp \in lo .. hi /\ CpDist(v.layer, Intvl(lo, hi)) >= MinLen[v.layer]
          /\ \A c \in lo .. hi : Point(v.layer, v.track, c) \in Free

\* Mending a pin never leaves another one without: a pin that has a vertex, its
\* own or one that it was given, keeps one.
MendingKeepsOthers ==
  [][stage = "fix" =>
       LET owners(owner) == {owner[v] : v \in DOMAIN owner}
       IN  owners(vertexToPin) \subseteq owners(vertexToPin')]_<<vars, graphVars>>

\* vertexToPin and pinToVertex tell the same story when maze routing starts, but
\* for a pin that was given its only vertex (MazeRoute!IsGridGraph); and a pin is
\* without only if all that it could have are other pins' only vertices.
PinsReady ==
  stage = "built" =>
    \A p \in Pins :
      LET own == {v \in DOMAIN vertexToPin : vertexToPin[v] = p}
      IN  /\ own = pinToVertex[p] \/ (pinToVertex[p] = {} /\ \E v \in own : own = {v})
          /\ own = {} => \A v \in pinToOriVertex[p] : ~CanGive(v)

-----------------------------------------------------------------------------
(* What a comment says, and the code does not                              *)

\* MazeRoute.cpp:45: "init from startPin". The search starts with the vertices
\* of the first pin, those that it was given included.
StartPinMended ==
  stage = "built" => \A v \in DOMAIN vertexToPin : vertexToPin[v] = 1 => v \in pinToVertex[1]
=============================================================================
