--------------------------- MODULE PostScheduler ----------------------------
(***************************************************************************)
(* PostScheduler::schedule (multi_net/Scheduler.cpp): the batches in which *)
(* Router::finish redoes min-area handling and chooses via types. It runs  *)
(* the loop of Batching over all nets, in the order of the net list; the   *)
(* boxes of a net are those of the edges of its committed grid topology    *)
(* and of its min-area extensions.                                         *)
(***************************************************************************)
EXTENDS Batching, Grid

CONSTANT TopoChoices     \* grid topologies: [edges, exts], two sets of edges

ASSUME TopoAssumption ==
  \A net \in TopoChoices :
    /\ \A e \in net.edges \cup net.exts : e.u \in GridPoint /\ e.v \in GridPoint
    /\ \A e \in net.edges : isVia(e) \/ isTrackSegment(e) \/ isWrongWaySegment(e)
    /\ \A e \in net.exts : isTrackSegment(e)

VARIABLE topo            \* the grid topology of each net

pvars == <<vars, topo>>

PointBox(p) ==
  LET loc == getLoc(p)
  IN  [layer |-> p.layer, xl |-> loc.x, xh |-> loc.x, yl |-> loc.y, yh |-> loc.y]

\* getLoc of a segment sorts its two ends
SegmentBox(e) ==
  LET a == getLoc(e.u)
      b == getLoc(e.v)
      first == IF IF a.x = b.x THEN a.y < b.y ELSE a.x < b.x THEN a ELSE b
      second == IF first = a THEN b ELSE a
  IN  [layer |-> e.u.layer, xl |-> first.x, xh |-> second.x,
       yl |-> first.y, yh |-> second.y]

\* mutant: a via blocks the layer of its first point only
EdgeBoxesOfFirst(e) ==
  CASE isVia(e) -> {PointBox(e.u)}
    [] ~isVia(e) /\ (isTrackSegment(e) \/ isWrongWaySegment(e)) -> {SegmentBox(e)}
    [] OTHER -> {}

\* a via blocks both of its layers; an edge of no known type is left out
EdgeBoxes(e) ==
  CASE isVia(e) -> {PointBox(e.u), PointBox(e.v)}
    [] ~isVia(e) /\ (isTrackSegment(e) \/ isWrongWaySegment(e)) -> {SegmentBox(e)}
    [] OTHER -> {}

getNetBoxes(net) ==
  (UNION {EdgeBoxes(e) : e \in net.edges}) \cup {SegmentBox(e) : e \in net.exts}

PostInit ==
  /\ topo \in [Jobs -> TopoChoices]
  /\ boxes = [j \in Jobs |-> getNetBoxes(topo[j])]
  /\ skip = {}
  /\ order = [p \in Positions |-> p]
  /\ Init

PostNext == Next /\ UNCHANGED topo

PostSpec == PostInit /\ [][PostNext]_pvars

-----------------------------------------------------------------------------
(* Properties                                                              *)

\* the grid points whose metal a net's topology occupies
Occupied(net) ==
  (UNION {IF isVia(e) THEN {e.u, e.v} ELSE SegmentPoints(e) : e \in net.edges})
  \cup (UNION {SegmentPoints(e) : e \in net.exts})

Near(p, q) ==
  LET a == getLoc(p)
      b == getLoc(q)
      margin == Margin[p.layer]
  IN  /\ p.layer = q.layer
      /\ a.x - b.x < margin /\ b.x - a.x < margin
      /\ a.y - b.y < margin /\ b.y - a.y < margin

(* Nets whose wires or vias come closer than mtSafeMargin on some layer    *)
(* are never finished at the same time, whatever the edge types that bring *)
(* them there and in whatever direction the topology's edges point: the    *)
(* via types of one are not chosen while those of its neighbour change.    *)
NeighboursApart ==
  \A k \in 1 .. Len(batches) : \A a, b \in batches[k] :
     a # b =>
       \A p \in Occupied(topo[a]), q \in Occupied(topo[b]) : ~Near(p, q)
=============================================================================
