------------------------------ MODULE GridTopo ------------------------------
(***************************************************************************)
(* The topology of a net (db/GridTopo): trees of GridSteiner nodes. A      *)
(* topology is a function from node identifiers, which are positive, to    *)
(* [point, pin, parent]: the grid point, the pin the node stands for or    *)
(* NoPin, and the parent node, 0 for the root of a tree. The pointers from *)
(* a parent to its children are the inverse of parent.                     *)
(***************************************************************************)
EXTENDS Grid, FiniteSets

NoPin == -1
NoParent == 0

Roots(topo) == {n \in DOMAIN topo : topo[n].parent = NoParent}

children(topo, n) == {m \in DOMAIN topo : topo[m].parent = n}

SameTrack(p, q) == p.layer = q.layer /\ p.track = q.track

\* mutant: a wire that turns to another track is taken for a straight one
MergeableOnLayer(topo, n) ==
  /\ topo[n].parent # NoParent
  /\ topo[n].pin = NoPin
  /\ Cardinality(children(topo, n)) = 1
  /\ \A m \in {topo[n].parent} \cup children(topo, n) :
        topo[m].point.layer = topo[n].point.layer

\* a node in the middle of a straight wire that is neither a pin nor a fork
Mergeable(topo, n) ==
  /\ topo[n].parent # NoParent
  /\ topo[n].pin = NoPin
  /\ Cardinality(children(topo, n)) = 1
  /\ \A m \in {topo[n].parent} \cup children(topo, n) :
        SameTrack(topo[m].point, topo[n].point)

\* The code removes such nodes one by one in post-order; removing one changes
\* neither the number of children nor the tracks that another depends on.
mergeNodes(topo) ==
  LET Kept == {n \in DOMAIN topo : ~Mergeable(topo, n)}
      AncestorOf[n \in DOMAIN topo \cup {NoParent}] ==
        IF n \in Kept \cup {NoParent} THEN n ELSE AncestorOf[topo[n].parent]
  IN  [n \in Kept |-> [topo[n] EXCEPT !.parent = AncestorOf[topo[n].parent]]]

\* the grid points between two nodes of a tree
EdgePoints(p, q) ==
  IF p.layer = q.layer THEN SegmentPoints(Edge(p, q)) ELSE {p, q}

Covered(topo) ==
  {topo[n].point : n \in DOMAIN topo} \cup
  UNION {EdgePoints(topo[n].point, topo[topo[n].parent].point)
           : n \in DOMAIN topo \ Roots(topo)}

\* each edge of a topology is one that UpdateDB and the schedulers understand
ValidEdges(topo) ==
  \A n \in DOMAIN topo \ Roots(topo) :
    LET e == Edge(topo[n].point, topo[topo[n].parent].point)
    IN  isVia(e) \/ isTrackSegment(e) \/ isWrongWaySegment(e)
=============================================================================
