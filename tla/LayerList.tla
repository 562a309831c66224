------------------------------ MODULE LayerList ------------------------------
(***************************************************************************)
(* Intervals and boxes on the routing grid (db/LayerList, db/MetalLayer,   *)
(* db/GeoPrimitive): which tracks and cross points lie in a region, where  *)
(* two guides can be joined by vias, and how overlapping boxes are sliced  *)
(* into disjoint ones.                                                     *)
(***************************************************************************)
EXTENDS Grid, SequencesExt, FiniteSetsExt

CONSTANT Pitch      \* of each layer; its tracks are that far apart

ASSUME LayerListAssumption ==
  /\ LayerNum > 1
  /\ \A l \in GridLayers : Pitch[l] \in Nat \ {0} /\ NumTracks[l] > 0

ASSUME PitchAssumption ==
  \A l \in GridLayers : \A t \in Range0(NumTracks[l]) : TrackLoc[l][t] = TrackLoc[l][0] + t * Pitch[l]

\* initCrossPoints: the tracks of the layer above and of the layer below, in
\* order; where a location has a track of both they share a cross point
ASSUME CrossPointAssumption ==
  \A l \in GridLayers :
    /\ \A c, d \in Range0(NumCrossPoints[l]) : c < d => CrossPointLoc[l][c] < CrossPointLoc[l][d]
    /\ \A c \in Range0(NumCrossPoints[l]) :
         \/ l + 1 \in GridLayers /\ UpperTrack[l][c] # -1
         \/ l - 1 \in GridLayers /\ \E t \in Range0(NumTracks[l - 1]) : UpperCrossPoint[l - 1][t] = c
    /\ l + 1 \in GridLayers =>
         /\ \A c \in Range0(NumCrossPoints[l]) : UpperTrack[l][c] # -1 =>
              /\ UpperTrack[l][c] \in Range0(NumTracks[l + 1])
              /\ TrackLoc[l + 1][UpperTrack[l][c]] = CrossPointLoc[l][c]
         /\ \A t \in Range0(NumTracks[l + 1]) :
              \E c \in Range0(NumCrossPoints[l]) : UpperTrack[l][c] = t
         /\ \A t \in Range0(NumTracks[l]) :
              /\ UpperCrossPoint[l][t] \in Range0(NumCrossPoints[l + 1])
              /\ CrossPointLoc[l + 1][UpperCrossPoint[l][t]] = TrackLoc[l][t]

\* the cross points of the lowest and of the highest layer are the tracks of
\* the layer next to it
ASSUME EndLayersAssumption ==
  /\ NumCrossPoints[0] = NumTracks[1]
  /\ \A c \in Range0(NumCrossPoints[0]) : UpperTrack[0][c] = c
  /\ NumCrossPoints[LayerNum - 1] = NumTracks[LayerNum - 2]
  /\ \A t \in Range0(NumTracks[LayerNum - 2]) : UpperCrossPoint[LayerNum - 2][t] = t

\* layers next to each other have tracks in different directions
ASSUME DirectionAssumption ==
  \A l \in GridLayers : l + 1 \in GridLayers => (l \in TrackIsX <=> l + 1 \notin TrackIsX)

-----------------------------------------------------------------------------
(* Intervals                                                               *)

Intvl(a, b) == [low |-> a, high |-> b]
IsValid(i) == i.low <= i.high
In(i) == i.low .. i.high

Lesser(a, b) == IF a < b THEN a ELSE b
Greater(a, b) == IF a > b THEN a ELSE b

IntersectWith(i, j) == Intvl(Greater(i.low, j.low), Lesser(i.high, j.high))
HasIntersectWith(i, j) == IsValid(IntersectWith(i, j))
UnionWith(i, j) ==
  IF ~IsValid(i) THEN j ELSE IF ~IsValid(j) THEN i
  ELSE Intvl(Lesser(i.low, j.low), Greater(i.high, j.high))
Widen(i, margin) == Intvl(i.low - margin, i.high + margin)
CeilDiv(a, b) == -((-a) \div b)

\* pairs in lexicographic order
Lex(v, w) == v[1] < w[1] \/ (v[1] = w[1] /\ v[2] <= w[2])

\* a set in the order of its elements' ranks, pairs of numbers
InOrder(S, rank) ==
  LET first(T) == CHOOSE e \in T : \A x \in T : Lex(rank[e], rank[x])
      ordered[T \in SUBSET S] == IF T = {} THEN <<>> ELSE <<first(T)>> \o ordered[T \ {first(T)}]
  IN  ordered[S]
Ascending(S) == InOrder(S, [i \in S |-> <<i, i>>])

\* the elements of a sequence that are in a set
Only(s, S) ==
  LET at == Ascending({i \in DOMAIN s : s[i] \in S})
  IN  [k \in DOMAIN at |-> s[at[k]]]

-----------------------------------------------------------------------------
(* Boxes: of locations, on a layer (x, y), and of the grid (tracks, cps)   *)

\* the extent of a box across and along the tracks of a layer
Across(l, box) == IF l \in TrackIsX THEN box.x ELSE box.y
Along(l, box) == IF l \in TrackIsX THEN box.y ELSE box.x

Box(l, x, y) == [layer |-> l, x |-> x, y |-> y]
BoxAt(l, across, along) ==
  IF l \in TrackIsX THEN Box(l, across, along) ELSE Box(l, along, across)
GridBox(l, tracks, cps) == [layer |-> l, tracks |-> tracks, cps |-> cps]

NoGridBox == GridBox(-1, Intvl(0, -1), Intvl(0, -1))

expandBox(box, numPitch) ==
  [box EXCEPT !.x = Widen(@, numPitch * Pitch[box.layer]),
              !.y = Widen(@, numPitch * Pitch[box.layer])]

BoxesMeet(a, b) == HasIntersectWith(a.x, b.x) /\ HasIntersectWith(a.y, b.y)
BoxIntersect(l, a, b) == Box(l, IntersectWith(a.x, b.x), IntersectWith(a.y, b.y))

\* the distance of two boxes, 0 if they touch
Gap(i, j) == Greater(0, Greater(i.low - j.high, j.low - i.high))
BoxDist(a, b) == Gap(a.x, b.x) + Gap(a.y, b.y)

isTrackRangeValid(l, r) == 0 <= r.low /\ r.high < NumTracks[l] /\ IsValid(r)
isTrackRangeWeaklyValid(l, r) == {r.low, r.high} \subseteq Range0(NumTracks[l])
isValid(b) ==
  /\ b.layer \in GridLayers
  /\ isTrackRangeValid(b.layer, b.tracks)
  /\ 0 <= b.cps.low /\ b.cps.high < NumCrossPoints[b.layer] /\ IsValid(b.cps)

PointsIn(b) ==
  {[layer |-> b.layer, track |-> t, cp |-> c] : t \in In(b.tracks), c \in In(b.cps)}
includePoint(b, p) ==
  b.layer = p.layer /\ p.track \in In(b.tracks) /\ p.cp \in In(b.cps)

getLocBox(b) ==
  BoxAt(b.layer, Intvl(TrackLoc[b.layer][b.tracks.low], TrackLoc[b.layer][b.tracks.high]),
        Intvl(CrossPointLoc[b.layer][b.cps.low], CrossPointLoc[b.layer][b.cps.high]))

-----------------------------------------------------------------------------
(* Projections and searches                                                *)

\* lowerCPIdx of a track: the cross point of the layer below it belongs to
LowerCrossPoint(l, t) ==
  CHOOSE c \in Range0(NumCrossPoints[l - 1]) : UpperTrack[l - 1][c] = t

getUpperCrossPointRange(l, r) == Intvl(UpperCrossPoint[l][r.low], UpperCrossPoint[l][r.high])
getLowerCrossPointRange(l, r) == Intvl(LowerCrossPoint(l, r.low), LowerCrossPoint(l, r.high))

FirstTrackLoc(l) == TrackLoc[l][0]
LastTrackLoc(l) == TrackLoc[l][NumTracks[l] - 1]

rangeSearchTrack(l, r) ==
  Intvl(CeilDiv(Greater(r.low, FirstTrackLoc(l)) - FirstTrackLoc(l), Pitch[l]),
        (Lesser(r.high, LastTrackLoc(l)) - FirstTrackLoc(l)) \div Pitch[l])

getSurroundingTrack(l, loc) ==
  LET offset == Lesser(Greater(FirstTrackLoc(l), loc), LastTrackLoc(l)) - FirstTrackLoc(l)
  IN  Intvl(offset \div Pitch[l], CeilDiv(offset, Pitch[l]))

\* the cross points of the tracks in a range above or below, whichever are there
CrossPointsBetween(l, up, down) ==
  LET fromUp == getLowerCrossPointRange(l + 1, up)
      fromDown == getUpperCrossPointRange(l - 1, down)
  IN  CASE isTrackRangeValid(l + 1, up) /\ isTrackRangeValid(l - 1, down) -> UnionWith(fromUp, fromDown)
        [] isTrackRangeValid(l + 1, up) /\ ~isTrackRangeValid(l - 1, down) -> fromUp
        [] ~isTrackRangeValid(l + 1, up) /\ isTrackRangeValid(l - 1, down) -> fromDown
        [] OTHER -> IF isTrackRangeWeaklyValid(l + 1, up) THEN fromUp
                    ELSE IF isTrackRangeWeaklyValid(l - 1, down) THEN fromDown
                    ELSE Intvl(0, -1)

\* mutant: where both neighbours have tracks in range, only those above count
CrossPointsAbove(l, r) ==
  IF l \in {0, LayerNum - 1} THEN rangeSearchTrack(IF l = 0 THEN 1 ELSE l - 1, r)
  ELSE getLowerCrossPointRange(l + 1, rangeSearchTrack(l + 1, r))

rangeSearchCrossPoint(l, r) ==
  IF l \in {0, LayerNum - 1} THEN rangeSearchTrack(IF l = 0 THEN 1 ELSE l - 1, r)
  ELSE CrossPointsBetween(l, rangeSearchTrack(l + 1, r), rangeSearchTrack(l - 1, r))

rangeSearch(box) ==
  GridBox(box.layer, rangeSearchTrack(box.layer, Across(box.layer, box)),
          rangeSearchCrossPoint(box.layer, Along(box.layer, box)))

getSurroundingCrossPoint(l, loc) ==
  IF l = 0 THEN getSurroundingTrack(1, loc)
  ELSE IF l = LayerNum - 1 THEN getSurroundingTrack(l - 1, loc)
  ELSE IntersectWith(getLowerCrossPointRange(l + 1, getSurroundingTrack(l + 1, loc)),
                     getUpperCrossPointRange(l - 1, getSurroundingTrack(l - 1, loc)))

getSurroundingGrid(l, x, y) ==
  LET at == Box(l, x, y)
  IN  GridBox(l, getSurroundingTrack(l, Across(l, at)), getSurroundingCrossPoint(l, Along(l, at)))

\* the locations of the cross points of a grid box
CpLocs(b) == Intvl(CrossPointLoc[b.layer][b.cps.low], CrossPointLoc[b.layer][b.cps.high])

getUpperBox(b) ==
  GridBox(b.layer + 1, rangeSearchTrack(b.layer + 1, CpLocs(b)),
          getUpperCrossPointRange(b.layer, b.tracks))
getLowerBox(b) ==
  GridBox(b.layer - 1, rangeSearchTrack(b.layer - 1, CpLocs(b)),
          getLowerCrossPointRange(b.layer, b.tracks))

-----------------------------------------------------------------------------
(* Boxes that touch                                                        *)

NoViaBox == [lower |-> NoGridBox, upper |-> NoGridBox]

\* The program also asks that each box be the projection of the other. That
\* is so for every box of vias made below, on tracks a pitch apart; MCLayers
\* has TLC verify it (ViaBoxesConsistent).
isValidViaBox(v) == isValid(v.lower) /\ isValid(v.upper)

ViaBox(common, above, below) ==
  IF isValid(common) /\ isValid(above) /\ isValid(below)
  THEN [lower |-> below, upper |-> above] ELSE NoViaBox

ViaBoxAbove(common, above) == ViaBox(common, above, getLowerBox(above))
ViaBoxIn(common) == ViaBoxAbove(common, getUpperBox(common))

\* where two grid boxes on neighbouring layers can be joined by vias
getViaBoxBetween(lowerBox, upperBox) ==
  ViaBoxIn(rangeSearch(BoxIntersect(lowerBox.layer, getLocBox(lowerBox), getLocBox(upperBox))))

isConnected(a, b) ==
  /\ isValid(a) /\ isValid(b) /\ a.layer - b.layer \in -1 .. 1
  /\ IF a.layer = b.layer
     THEN HasIntersectWith(a.tracks, b.tracks) /\ HasIntersectWith(a.cps, b.cps)
     ELSE isValidViaBox(getViaBoxBetween(IF a.layer < b.layer THEN a ELSE b,
                                         IF a.layer < b.layer THEN b ELSE a))

isAdjacent(a, b) ==
  /\ isValid(a) /\ isValid(b) /\ a.layer = b.layer
  /\ {a.tracks.low - b.tracks.high, b.tracks.low - a.tracks.high} \cap {-1, 1} # {}
  /\ HasIntersectWith(a.cps, b.cps)

-----------------------------------------------------------------------------
(* Slicing                                                                 *)

\* the last box extended, or one more
WithBox(boxes, b, aligned, along) ==
  IF boxes # <<>> /\ Last(boxes)[aligned] = b[aligned] /\ b[along].low <= Last(boxes)[along].high
  THEN Append(Front(boxes), [b EXCEPT ![along] = UnionWith(Last(boxes)[along], @)])
  ELSE Append(boxes, b)

\* MergeRects: boxes that are aligned in one direction and meet in the other
\* become one, in the order of their low ends
MergeRects(boxes, aligned, along) ==
  LET sorted == InOrder(boxes, [b \in boxes |-> <<b[aligned].low, b[along].low>>])
      merged[i \in 0 .. Len(sorted)] == IF i = 0 THEN <<>> ELSE WithBox(merged[i - 1], sorted[i], aligned, along)
  IN  merged[Len(sorted)]

\* SlicePolygons: the route guides of one layer, cut across its tracks; the
\* pieces share their boundaries, so that aligned ones are stitched again
SlicePolygons(l, boxes) ==
  LET sweep == IF l \in TrackIsX THEN "x" ELSE "y"
      slice == IF l \in TrackIsX THEN "y" ELSE "x"
      locs == UNION {{b[sweep].low, b[sweep].high} : b \in ToSet(boxes)}
      slabs(b) == {[b EXCEPT ![sweep] = Intvl(w[1], w[2])] :
                     w \in {v \in locs \X locs :
                              /\ b[sweep].low <= v[1] /\ v[1] < v[2] /\ v[2] <= b[sweep].high
                              /\ locs \cap (v[1] + 1 .. v[2] - 1) = {}}}
      sliced == UNION {slabs(b) : b \in ToSet(boxes)}
  IN  IF Len(boxes) <= 1 THEN boxes
      ELSE MergeRects(ToSet(MergeRects(sliced, sweep, slice)), slice, sweep)

\* the tracks where some box begins or ends, in a box, and the ranges between
SlicesOf(b, locs) ==
  {[b EXCEPT !.tracks = Intvl(t, t)] : t \in locs \cap In(b.tracks)} \cup
  {[b EXCEPT !.tracks = Intvl(w[1] + 1, w[2] - 1)] :
     w \in {v \in (locs \cap In(b.tracks)) \X (locs \cap In(b.tracks)) :
              v[1] + 1 < v[2] /\ locs \cap (v[1] + 1 .. v[2] - 1) = {}}}

sliceGridPolygons(boxes) ==
  LET locs == UNION {{b.tracks.low, b.tracks.high} : b \in ToSet(boxes)}
      sliced == MergeRects(UNION {SlicesOf(b, locs) : b \in ToSet(boxes)}, "tracks", "cps")
  IN  IF Len(boxes) <= 1 THEN boxes ELSE MergeRects(ToSet(sliced), "cps", "tracks")
=============================================================================
