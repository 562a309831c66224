------------------------------- MODULE LocalNet -------------------------------
(***************************************************************************)
(* A net as pre-route and the grid graph see it (single_net/LocalNet,      *)
(* single_net/RouteGuideGraph): its guides and the access boxes of its     *)
(* pins in grid boxes, what is connected to what, and the penalties for    *)
(* leaving the guides the net had in the beginning.                        *)
(*                                                                         *)
(* A net is a record: gridGuides, access (the access boxes of each pin in  *)
(* grid boxes), pinConn and conn (pinGuideConn, guideConn).                *)
(***************************************************************************)
EXTENDS LayerList

CONSTANTS
  ForbidMargin,     \* of each layer: how far from a pin other metal is forbidden
  PoorVia           \* lower points of the vias that no via type makes good

ASSUME LocalNetAssumption ==
  /\ PoorVia \subseteq GridPoint
  /\ \A l \in GridLayers : ForbidMargin[l] \in Nat

Concat(seqs) == FlattenSeq(seqs)
OnLayer(boxes, l) == Only(boxes, {b \in ToSet(boxes) : b.layer = l})
PerLayer(Op(_)) == Concat([i \in 1 .. LayerNum |-> Op(i - 1)])

\* what start reaches in a relation, a set of pairs
ReachIn(R, start) ==
  LET next(S) == S \cup {e[2] : e \in {f \in R : f[1] \in S}}
      reach[S \in SUBSET (start \cup {e[2] : e \in R})] == IF next(S) = S THEN S ELSE reach[next(S)]
  IN  reach[start]

-----------------------------------------------------------------------------
(* Access boxes of a pin (Database::getGridPinAccessBoxes)                 *)

\* the grid points near a box of a pin: where metal would touch or violate the
\* spacing to it, as one box, and others within a pitch, one by one
PointBox(p) == GridBox(p.layer, Intvl(p.track, p.track), Intvl(p.cp, p.cp))
AccessOutside(box, forbidden, extension) ==
  LET near == {PointBox(p) : p \in {q \in PointsIn(extension) :
                 /\ ~includePoint(forbidden, q)
                 /\ BoxDist(box, getLocBox(PointBox(q))) <= Pitch[box.layer]}}
      rank == [b \in near |-> <<b.tracks.low, b.cps.low>>]
  IN  (IF isValid(forbidden) THEN <<forbidden>> ELSE <<>>) \o InOrder(near, rank)
AccessNear(box) ==
  AccessOutside(box, rangeSearch([box EXCEPT !.x = Widen(@, ForbidMargin[box.layer]),
                                             !.y = Widen(@, ForbidMargin[box.layer])]),
                rangeSearch(expandBox(box, 1)))

\* an interval between two indices becomes one of them
Snap(i) ==
  IF IsValid(i) THEN i ELSE IF i.low = 0 THEN Intvl(0, 0) ELSE Intvl(i.high, i.high)
Snapped(b) == GridBox(b.layer, Snap(b.tracks), Snap(b.cps))

\* a relatively far grid point if there are none
OrFar(pin, near) ==
  IF near # <<>> THEN near ELSE [i \in DOMAIN pin |-> Snapped(rangeSearch(pin[i]))]

Sliced(boxes) ==
  LET slices == PerLayer(LAMBDA l : sliceGridPolygons(OnLayer(boxes, l)))
  IN  Only(slices, {b \in ToSet(slices) : isValid(b)})

TapBoxes(pin) ==
  Sliced(OrFar(pin, Concat([i \in DOMAIN pin |-> AccessNear(pin[i])])))

\* of the vias there are above and below a grid point, one is poor
PoorTap(p) ==
  \/ p.layer < LayerNum - 1 /\ getUpper(p) \in GridPoint /\ p \in PoorVia
  \/ \E q \in PoorVia : q.layer + 1 = p.layer /\ getUpper(q) = p

AllTapsPoor(boxes) == \A i \in DOMAIN boxes : \A p \in PointsIn(boxes[i]) : PoorTap(p)

Area(b) == (b.x.high - b.x.low) * (b.y.high - b.y.low)
getMaxAccessBox(pin) ==
  pin[CHOOSE i \in DOMAIN pin :
        \A j \in DOMAIN pin : \/ Area(pin[j]) < Area(pin[i])
                              \/ Area(pin[j]) = Area(pin[i]) /\ i <= j]

\* access from the layers next to the pin's, when it has no good tap
DiffLayerBoxes(best) ==
  LET at(l) == getSurroundingGrid(l, (best.x.low + best.x.high) \div 2,
                                     (best.y.low + best.y.high) \div 2)
      layers == Only(<<best.layer - 1, best.layer + 1>>, GridLayers)
  IN  [i \in DOMAIN layers |-> at(layers[i])]

WithDiffLayer(pin, taps) ==
  IF AllTapsPoor(taps) THEN taps \o DiffLayerBoxes(getMaxAccessBox(pin)) ELSE taps

getGridPinAccessBoxes(pin) == WithDiffLayer(pin, TapBoxes(pin))

-----------------------------------------------------------------------------
(* Guides                                                                  *)

\* the guides of the design, sliced once in the beginning
sliceRouteGuides(boxes) ==
  PerLayer(LAMBDA l : SlicePolygons(l, OnLayer(boxes, l)))

\* guides in grid boxes, sliced so that no grid point is in two of them
gridRouteGuides(guides) ==
  LET onGrid == [i \in DOMAIN guides |-> rangeSearch(guides[i])]
      sliced(l) == sliceGridPolygons(OnLayer(onGrid, l))
  IN  PerLayer(sliced)

\* the guides of the design that a guide overlaps
OverlapsOf(guide, dbGuides) ==
  {d \in DOMAIN dbGuides : dbGuides[d].layer = guide.layer /\ BoxesMeet(dbGuides[d], guide)}

\* resize keeps what the mapping held before
getRouteGuideMapping(guides, dbGuides, before) ==
  [i \in DOMAIN guides |->
     OverlapsOf(guides[i], dbGuides) \cup IF i \in DOMAIN before THEN before[i] ELSE {}]

\* initConn: for each pin the (guide, access box) pairs, for each guide the
\* guides that are connected, and those on the tracks next to it
pinGuideConn(grid, access) ==
  [p \in DOMAIN access |-> {ga \in (DOMAIN grid) \X (DOMAIN access[p]) :
                              isConnected(grid[ga[1]], access[p][ga[2]])}]

guideConn(grid) ==
  [g \in DOMAIN grid |-> {h \in DOMAIN grid \ {g} : isConnected(grid[g], grid[h])}]

guideAdj(grid) ==
  [g \in DOMAIN grid |-> {h \in DOMAIN grid \ {g} : isAdjacent(grid[g], grid[h])}]

checkPin(net) ==
  \A p \in DOMAIN net.access : \E a \in DOMAIN net.access[p] : isValid(net.access[p][a])

checkPinGuideConn(net) == \A p \in DOMAIN net.access : net.pinConn[p] # {}

-----------------------------------------------------------------------------
(* Penalties outside the guides of the design; db are these in grid boxes. *)
(* The layer of a guide is taken for granted.                              *)

CoversPoint(b, t, c) == t \in In(b.tracks) /\ c \in In(b.cps)

getCrossPointPenalty(mapped, db, t, c) ==
  IF \E d \in mapped : CoversPoint(db[d], t, c) THEN 0 ELSE 1

getViaPenalty(mapped1, t1, c1, mapped2, t2, c2, db) ==
  Greater(getCrossPointPenalty(mapped1, db, t1, c1), getCrossPointPenalty(mapped2, db, t2, c2))

\* The part of a segment outside the guides; its caller keeps the integer part,
\* which is 0 as soon as some of the segment is inside.
getWireSegmentPenalty(l, mapped, db, dbGuides, t, c1, c2) ==
  LET segment == Intvl(CrossPointLoc[l][c1], CrossPointLoc[l][c2])
      covers(d) == \/ CoversPoint(db[d], t, c1) /\ CoversPoint(db[d], t, c2)
                   \/ LET common == IntersectWith(Along(l, dbGuides[d]), segment)
                      IN  common.low < common.high
  IN  IF \E d \in mapped : t \in In(db[d].tracks) /\ covers(d) THEN 0 ELSE 1
=============================================================================
