---------------------------- MODULE MCMazeRoute -----------------------------
(***************************************************************************)
(* Grid graphs on one of three parts of a grid. Flat: 12 vertices, layer 0 *)
(* has 2 tracks with 3 cross points, layer 1 has 3 tracks with 2; no       *)
(* minimum lengths. Stacked: 12 vertices on layers 2 to 4, of 2 by 2, with *)
(* minimum lengths. Looping: one graph on layers 5 and 6.                  *)
(***************************************************************************)
EXTENDS MazeRoute, TLC

Flat == {0, 1}
Stacked == {2, 3, 4}
Looping == {5, 6}

MCTrackIsX == {1, 3, 5}
MCTracks == 0 :> 2 @@ 1 :> 3 @@ [l \in Stacked |-> 2] @@ [l \in Looping |-> 3]
MCCrossPoints == 0 :> 3 @@ 1 :> 2 @@ [l \in Stacked |-> 2] @@ [l \in Looping |-> 3]
Spaced == [l \in 0 .. 6 |-> [k \in 0 .. 2 |-> 4 * k]]
\* no track of layers 2 and 5 lies over a cross point of the layer below
Straight == [l \in 0 .. 6 |-> [k \in 0 .. 2 |-> IF l \in {1, 4, 6} THEN -1 ELSE k]]
Four == [l \in 0 .. 6 |-> 4]

\* on the middle layer of Stacked one segment is too short, two are long
\* enough; on layer 6 the whole of a track is too short
MCMinLen == 0 :> 0 @@ 1 :> 0 @@ 2 :> 4 @@ 3 :> 8 @@ 4 :> 3 @@ 5 :> 0 @@ 6 :> 16
MCOneVia == 0 :> 0 @@ 1 :> 0 @@ 2 :> 5 @@ 3 :> 8 @@ 4 :> 4 @@ 5 :> 0 @@ 6 :> 16
MCTwoVia == 0 :> 0 @@ 1 :> 0 @@ 2 :> 3 @@ 3 :> 7 @@ 4 :> 3 @@ 5 :> 0 @@ 6 :> 16
MCOverlap == 0 :> 0 @@ 1 :> 0 @@ 2 :> 2 @@ 3 :> 2 @@ 4 :> 2 @@ 5 :> 0 @@ 6 :> 0

\* the vertex of a point of a part, layer by layer, track by track
V(p) == IF p.layer \in Flat THEN 6 * p.layer + MCCrossPoints[p.layer] * p.track + p.cp
                            ELSE 4 * (p.layer - 2) + 2 * p.track + p.cp
PointOf(part, v) == CHOOSE p \in GridPoint : p.layer \in part /\ V(p) = v

VertexAt(part, p) ==
  IF p \in GridPoint /\ p.layer \in part THEN V(p) ELSE NoVertex

\* the point next to p in a direction of the full graph, wrong way included
PointNextTo(p, dir) ==
  CASE dir = "FORWARD" -> [p EXCEPT !.cp = @ + 1]
    [] dir = "BACKWARD" -> [p EXCEPT !.cp = @ - 1]
    [] dir = "RIGHT" -> [p EXCEPT !.track = @ + 1]
    [] dir = "LEFT" -> [p EXCEPT !.track = @ - 1]
    [] dir = "UP" -> [layer |-> p.layer + 1, track |-> p.cp, cp |-> p.track]
    [] OTHER -> [layer |-> p.layer - 1, track |-> p.cp, cp |-> p.track]

NextTo(part, v, dir) == VertexAt(part, PointNextTo(PointOf(part, v), dir))

Along(dir) == dir \in {"FORWARD", "BACKWARD"}

\* The vertices that v is connected to, one of nexts for each direction; a
\* vertex in skipped is replaced by a direct edge between its neighbours on the
\* track, and the edges in without, sets of two vertices, are left out.
ConnOf(part, v, nexts, without, skipped) ==
  [dir \in Directions |->
     CASE v \in skipped \/ {v, nexts[dir]} \in without -> NoVertex
       [] nexts[dir] \notin skipped -> nexts[dir]
       [] Along(dir) -> NextTo(part, nexts[dir], dir)
       [] OTHER -> NoVertex]

Connections(part, without, skipped) ==
  [v \in 0 .. 11 |->
     ConnOf(part, v, [dir \in Directions |-> NextTo(part, v, dir)], without, skipped)]

\* the cost of the edge from v, which leads past next or ends there
EdgeCostOf(v, dir, end, next, vertexCost) ==
  CASE end = NoVertex -> -1
    [] end # NoVertex /\ switchLayer(dir) -> 3
    [] end # NoVertex /\ Along(dir) -> IF end = next THEN 0 ELSE vertexCost[next]
    [] OTHER -> 5

GraphWith(part, connections, vertexCost, pins, fake, fixable) ==
  [vertexToGridPoint |-> [v \in 0 .. 11 |-> PointOf(part, v)],
   conn |-> connections,
   edgeCost |-> [v \in 0 .. 11 |-> [dir \in Directions |->
      EdgeCostOf(v, dir, connections[v][dir], NextTo(part, v, dir), vertexCost)]],
   vertexCost |-> vertexCost,
   vertexToPin |-> [v \in 0 .. 11 |->
      IF \E p \in DOMAIN pins : v \in ToSet(pins[p])
      THEN CHOOSE p \in DOMAIN pins : v \in ToSet(pins[p]) ELSE NoPin],
   pinToVertex |-> pins,
   fakePins |-> fake,
   minAreaFixable |-> fixable]

MakeGraph(part, without, skipped, vertexCost, pins, fake, fixable) ==
  GraphWith(part, Connections(part, without, skipped), vertexCost, pins, fake, fixable)

WrongWay(part) == {{v, NextTo(part, v, "RIGHT")} : v \in 0 .. 11}
Vias(part) == {{v, NextTo(part, v, "UP")} : v \in 0 .. 11}

PinsFromZero(s) == [p \in 0 .. Len(s) - 1 |-> s[p + 1]]

-----------------------------------------------------------------------------
(* Flat                                                                    *)

\* what is missing: nothing; wrong-way edges; these and vias, so that the
\* corners, one side or nothing of the layers is joined
FlatWithout ==
  { {}, WrongWay(Flat), WrongWay(Flat) \cup {{1, 8}, {4, 9}},
    WrongWay(Flat) \cup {{0, 6}, {5, 11}, {4, 9}},
    WrongWay(Flat) \cup (Vias(Flat) \ {{1, 8}}), WrongWay(Flat) \cup Vias(Flat),
    Vias(Flat) \cup {{1, 2}, {3, 4}, {2, 5}} }

FlatCosts ==
  { [v \in 0 .. 11 |-> 4], [v \in 0 .. 11 |-> IF v \in {1, 8} THEN 11 ELSE 3],
    [v \in 0 .. 11 |-> IF v = 4 THEN 9 ELSE 2 + (v % 3)] }

\* pins at one vertex and at several, on both layers
FlatPins ==
  { << <<0>>, <<5>> >>, << <<0>>, <<2, 5>>, <<10>> >>, << <<0>>, <<1, 5>>, <<4>> >>,
    << <<3, 0>>, <<1>>, <<2>> >>,
    << <<7>>, <<4, 9>>, <<2, 6>> >>, << <<0, 2>>, <<7, 11>>, <<1>> >> }

\* fixDisconnectedPin leaves pinToVertex of the pin it mends empty
Mended(g, pin) == [g EXCEPT !.pinToVertex = [@ EXCEPT ![pin] = <<>>]]

FlatGraphs ==
  LET plain == {MakeGraph(Flat, w, {}, c, PinsFromZero(p), {6, 2}, {}) :
                  w \in FlatWithout, c \in FlatCosts, p \in FlatPins}
      direct == {MakeGraph(Flat, w, {v}, c, PinsFromZero(<< <<0>>, <<5>>, <<11>> >>), {}, {}) :
                   w \in {WrongWay(Flat), Vias(Flat) \cup {{2, 5}}}, v \in {1, 4}, c \in FlatCosts}
      mended == {Mended(MakeGraph(Flat, WrongWay(Flat), {}, c,
                                  PinsFromZero(<< <<0>>, <<4>>, <<2>> >>), {}, {}), pin) :
                   c \in FlatCosts, pin \in {0, 1}}
  IN  plain \cup direct \cup mended

-----------------------------------------------------------------------------
(* Stacked                                                                 *)

StackedWithout ==
  { {}, WrongWay(Stacked), Vias(Stacked) \ {{0, 4}, {4, 8}},
    Vias(Stacked) \ {{1, 6}, {5, 10}, {7, 11}},
    WrongWay(Stacked) \cup (Vias(Stacked) \ {{0, 4}, {3, 7}, {4, 8}, {7, 11}}) }

\* uneven, so that few solutions cost the same
StackedCosts ==
  { [v \in 0 .. 11 |-> 2 + ((5 * v) % 13)],
    [v \in 0 .. 11 |-> IF v \in {5, 6} THEN 29 ELSE 2 + ((7 * v) % 11)] }

StackedPins ==
  { << <<0>>, <<8>> >>, << <<1>>, <<11, 8>>, <<2>> >>, << <<9, 5>>, <<0>>, <<3, 10>> >> }

\* nothing, everything or the far half of the middle layer can be extended
StackedGraphs ==
  {MakeGraph(Stacked, w, {}, c, PinsFromZero(p), f[1], f[2]) :
     w \in StackedWithout, c \in StackedCosts, p \in StackedPins,
     f \in {<<{}, {}>>, <<{}, 0 .. 11>>, <<{0, 8}, {6, 7}>>}}

-----------------------------------------------------------------------------
(* Looping: a path comes back to where it was, to make a wire long enough. *)
(* On layer 5 there are two guides of one point each, on two tracks; on    *)
(* layer 6 one guide of two tracks, whose last cross points are dear, with *)
(* wrong-way edges.                                                        *)

LoopAt(l, t, c) == [layer |-> l, track |-> t, cp |-> c]
LoopPoints ==
  0 :> LoopAt(5, 0, 0) @@ 1 :> LoopAt(5, 1, 0)
  @@ 2 :> LoopAt(6, 0, 0) @@ 3 :> LoopAt(6, 0, 1) @@ 4 :> LoopAt(6, 0, 2)
  @@ 5 :> LoopAt(6, 1, 0) @@ 6 :> LoopAt(6, 1, 1) @@ 7 :> LoopAt(6, 1, 2)

\* two guides are joined by vias only
LoopEdge(u, dir) ==
  LET next == {v \in DOMAIN LoopPoints : /\ LoopPoints[v] = PointNextTo(LoopPoints[u], dir)
                                         /\ {u, v} # {0, 1}}
  IN  IF next = {} THEN NoVertex ELSE CHOOSE v \in next : TRUE

\* one pin at each end of the net, and one beside the first
LoopPins == 0 :> <<0>> @@ 1 :> <<7>> @@ 2 :> <<1>>

LoopGraph ==
  [vertexToGridPoint |-> LoopPoints,
   conn |-> [v \in 0 .. 7 |-> [dir \in Directions |-> LoopEdge(v, dir)]],
   edgeCost |-> [v \in 0 .. 7 |-> [dir \in Directions |->
      CASE LoopEdge(v, dir) = NoVertex -> -1
        [] LoopEdge(v, dir) # NoVertex /\ Along(dir) -> 0
        [] LoopEdge(v, dir) # NoVertex /\ switchLayer(dir) -> 1
        [] OTHER -> 4]],
   vertexCost |-> [v \in 0 .. 7 |-> CASE v = 4 -> 90 [] v = 7 -> 14 [] OTHER -> 1 + (v % 3)],
   vertexToPin |-> [v \in 0 .. 7 |->
      CASE v = 0 -> 0 [] v = 7 -> 1 [] v = 1 -> 2 [] OTHER -> NoPin],
   pinToVertex |-> LoopPins,
   fakePins |-> {},
   minAreaFixable |-> {}]

MCGraphs == FlatGraphs \cup StackedGraphs \cup {LoopGraph}
=============================================================================
