-------------------------------- MODULE Grid --------------------------------
(***************************************************************************)
(* The routing grid (db/LayerList, db/MetalLayer, db/GeoPrimitive): each   *)
(* metal layer has parallel tracks, crossed at its cross points by the     *)
(* projections of the tracks of the layers next to it. A grid point is a   *)
(* (layer, track, cross point); an edge of a net's topology is a via to    *)
(* the grid point right above, a segment along a track, or a wrong-way     *)
(* segment across tracks.                                                  *)
(*                                                                         *)
(* Locations and projections are constants, read from the design.          *)
(***************************************************************************)
EXTENDS Integers

CONSTANTS
  LayerNum,
  TrackIsX,         \* layers whose track index is the x coordinate
  NumTracks, NumCrossPoints,      \* of each layer
  TrackLoc, CrossPointLoc,        \* location of (layer, index)
  UpperTrack,       \* (layer, cross point) -> track of the layer above, or -1
  UpperCrossPoint   \* (layer, track) -> cross point of the layer above, or -1

GridLayers == 0 .. LayerNum - 1

Range0(n) == 0 .. n - 1

GridPoint ==
  UNION {[layer : {l}, track : Range0(NumTracks[l]),
          cp : Range0(NumCrossPoints[l])] : l \in GridLayers}

ASSUME GridAssumption ==
  /\ LayerNum \in Nat
  /\ TrackIsX \subseteq GridLayers
  /\ NumTracks \in [GridLayers -> Nat]
  /\ NumCrossPoints \in [GridLayers -> Nat]
  /\ \A l \in GridLayers :
       /\ \A t \in Range0(NumTracks[l]) : TrackLoc[l][t] \in Int
       /\ \A c \in Range0(NumCrossPoints[l]) : CrossPointLoc[l][c] \in Int

\* tracks and cross points are sorted
ASSUME LocAssumption ==
  \A l \in GridLayers :
    /\ \A s, t \in Range0(NumTracks[l]) : s <= t => TrackLoc[l][s] <= TrackLoc[l][t]
    /\ \A c, d \in Range0(NumCrossPoints[l]) :
         c <= d => CrossPointLoc[l][c] <= CrossPointLoc[l][d]

\* a track above crosses at one cross point, and so do tracks of the layer above
ASSUME UpperAssumption ==
  \A l \in {k \in GridLayers : k + 1 \in GridLayers} :
    /\ \A c, d \in Range0(NumCrossPoints[l]) :
         UpperTrack[l][c] = UpperTrack[l][d] /\ UpperTrack[l][c] # -1 => c = d
    /\ \A s, t \in Range0(NumTracks[l]) :
         UpperCrossPoint[l][s] = UpperCrossPoint[l][t] /\ UpperCrossPoint[l][s] # -1 => s = t

\* the grid point above; one that is not on the grid has an index -1
getUpper(p) ==
  [layer |-> p.layer + 1, track |-> UpperTrack[p.layer][p.cp],
   cp |-> UpperCrossPoint[p.layer][p.track]]

getLoc(p) ==
  IF p.layer \in TrackIsX
  THEN [x |-> TrackLoc[p.layer][p.track], y |-> CrossPointLoc[p.layer][p.cp]]
  ELSE [x |-> CrossPointLoc[p.layer][p.cp], y |-> TrackLoc[p.layer][p.track]]

Edge(p, q) == [u |-> p, v |-> q]

lower(e) == IF e.u.layer <= e.v.layer THEN e.u ELSE e.v
upper(e) == IF e.u.layer > e.v.layer THEN e.u ELSE e.v

isVia(e) == lower(e).layer + 1 # LayerNum /\ getUpper(lower(e)) = upper(e)

isTrackSegment(e) == e.u.layer = e.v.layer /\ e.u.track = e.v.track

isWrongWaySegment(e) == e.u.layer = e.v.layer /\ e.u.cp = e.v.cp

\* an interval that does not mind in which order its ends are given
Between(a, b) == IF a <= b THEN a .. b ELSE b .. a

\* the grid points a segment covers
SegmentPoints(e) ==
  {p \in GridPoint : /\ p.layer = e.u.layer
                     /\ p.track \in Between(e.u.track, e.v.track)
                     /\ p.cp \in Between(e.u.cp, e.v.cp)}
=============================================================================
