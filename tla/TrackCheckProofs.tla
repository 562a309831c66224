-------------------------- MODULE TrackCheckProofs -------------------------
(***************************************************************************)
(* Proof that checkGuideConnTrack, which visits ranges of tracks, joins    *)
(* the pins that a search of the grid joins, for any routing grid and any  *)
(* nets; with what is needed of vias between boxes and of searches.        *)
(***************************************************************************)
EXTENDS PreRouteProofs

-----------------------------------------------------------------------------
(* Vias between boxes                                                      *)

\* what makes a grid point
LEMMA GridPointFacts ==
  ASSUME NEW p
  PROVE  p \in GridPoint <=> /\ p = [layer |-> p.layer, track |-> p.track, cp |-> p.cp]
                             /\ p.layer \in GridLayers
                             /\ p.track \in Range0(NumTracks[p.layer])
                             /\ p.cp \in Range0(NumCrossPoints[p.layer])
  <1>1. ASSUME p \in GridPoint
        PROVE  /\ p = [layer |-> p.layer, track |-> p.track, cp |-> p.cp]
               /\ p.layer \in GridLayers
               /\ p.track \in Range0(NumTracks[p.layer])
               /\ p.cp \in Range0(NumCrossPoints[p.layer])
    <2>1. PICK l \in GridLayers : p \in [layer : {l}, track : Range0(NumTracks[l]), cp : Range0(NumCrossPoints[l])]
      BY <1>1 DEF GridPoint
    <2> QED BY <2>1
  <1>2. ASSUME p = [layer |-> p.layer, track |-> p.track, cp |-> p.cp],
               p.layer \in GridLayers,
               p.track \in Range0(NumTracks[p.layer]),
               p.cp \in Range0(NumCrossPoints[p.layer])
        PROVE  p \in GridPoint
    <2>1. p \in [layer : {p.layer}, track : Range0(NumTracks[p.layer]), cp : Range0(NumCrossPoints[p.layer])]
      BY <1>2
    <2> QED BY <1>2, <2>1 DEF GridPoint
  <1> QED BY <1>1, <1>2

\* a grid point and the one above it are at one location
LEMMA SameLocation ==
  ASSUME NEW p \in GridPoint, p.layer + 1 \in GridLayers, getUpper(p) \in GridPoint
  PROVE  getLoc(getUpper(p)) = getLoc(p)
  <1> DEFINE l == p.layer
             q == getUpper(p)
  <1>1. /\ l \in GridLayers /\ p.track \in Range0(NumTracks[l]) /\ p.cp \in Range0(NumCrossPoints[l])
    BY GridPointFacts
  <1>2. q.layer = l + 1 /\ q.track = UpperTrack[l][p.cp] /\ q.cp = UpperCrossPoint[l][p.track]
    BY DEF getUpper
  <1>3. q.track \in Range0(NumTracks[l + 1])
    BY <1>2, GridPointFacts
  <1>4. UpperTrack[l][p.cp] # -1
    BY <1>2, <1>3, GridAssumption DEF Range0
  <1>5. TrackLoc[l + 1][q.track] = CrossPointLoc[l][p.cp] /\ CrossPointLoc[l + 1][q.cp] = TrackLoc[l][p.track]
    BY <1>1, <1>2, <1>4, CrossPointAssumption
  <1>6. l \in TrackIsX <=> l + 1 \notin TrackIsX
    BY <1>1, DirectionAssumption
  <1> QED BY <1>2, <1>5, <1>6 DEF getLoc

\* a range search finds a box of the grid if it finds a grid point at all
LEMMA SearchValid ==
  ASSUME NEW b \in LocBox, NEW p \in PointsIn(rangeSearch(b))
  PROVE  isValid(rangeSearch(b))
  <1> DEFINE r == rangeSearch(b)
             l == b.layer
  <1>1. /\ r \in GridBoxes /\ r.layer = l /\ l \in GridLayers
        /\ \A t \in In(r.tracks) : t \in Range0(NumTracks[l])
        /\ \A c \in In(r.cps) : c \in Range0(NumCrossPoints[l])
    BY RangeSearchExact, LocBoxFacts
  <1> HIDE DEF r, l
  <1>2. r.tracks \in Interval /\ r.cps \in Interval
    BY <1>1 DEF GridBoxes
  <1>3. PICK t \in In(r.tracks), c \in In(r.cps) : TRUE
    BY DEF PointsIn, r
  <1>4. r.tracks.low \in In(r.tracks) /\ r.tracks.high \in In(r.tracks)
    BY <1>2, <1>3 DEF In, Interval
  <1>5. r.cps.low \in In(r.cps) /\ r.cps.high \in In(r.cps)
    BY <1>2, <1>3 DEF In, Interval
  <1>6. /\ r.tracks.low \in Range0(NumTracks[l]) /\ r.tracks.high \in Range0(NumTracks[l])
        /\ r.cps.low \in Range0(NumCrossPoints[l]) /\ r.cps.high \in Range0(NumCrossPoints[l])
    BY <1>1, <1>4, <1>5
  <1>7. r.tracks.low <= r.tracks.high /\ r.cps.low <= r.cps.high
    BY <1>2, <1>3 DEF In, Interval
  <1>8. NumTracks[l] \in Nat /\ NumCrossPoints[l] \in Nat
    BY <1>1, GridAssumption
  <1>9. isTrackRangeValid(l, r.tracks)
    BY <1>2, <1>6, <1>7, <1>8 DEF isTrackRangeValid, IsValid, Range0, Interval
  <1>10. 0 <= r.cps.low /\ r.cps.high < NumCrossPoints[l] /\ IsValid(r.cps)
    BY <1>2, <1>6, <1>7, <1>8 DEF IsValid, Range0, Interval
  <1> QED BY <1>1, <1>9, <1>10 DEF isValid, r

\* the cross points at the ends of a range of locations bound it
LEMMA CpLocsHold ==
  ASSUME NEW l \in GridLayers, NEW lo \in Range0(NumCrossPoints[l]), NEW hi \in Range0(NumCrossPoints[l]),
         NEW c \in lo .. hi
  PROVE  /\ Intvl(CrossPointLoc[l][lo], CrossPointLoc[l][hi]) \in Interval
         /\ CrossPointLoc[l][c] \in In(Intvl(CrossPointLoc[l][lo], CrossPointLoc[l][hi]))
  <1>1. c \in Range0(NumCrossPoints[l])
    BY GridAssumption DEF Range0
  <1>2. CrossPointLoc[l][lo] <= CrossPointLoc[l][c] /\ CrossPointLoc[l][c] <= CrossPointLoc[l][hi]
        /\ CrossPointLoc[l][lo] \in Int /\ CrossPointLoc[l][hi] \in Int /\ CrossPointLoc[l][c] \in Int
    BY <1>1, CrossPointOrder DEF Range0
  <1> QED BY <1>2 DEF Intvl, In, Interval

\* the cross points of the tracks of a range, on the layer above
LEMMA UpperOrder ==
  ASSUME NEW l \in GridLayers, l + 1 \in GridLayers,
         NEW s \in Range0(NumTracks[l]), NEW t \in Range0(NumTracks[l]), s <= t
  PROVE  /\ UpperCrossPoint[l][s] \in Range0(NumCrossPoints[l + 1])
         /\ UpperCrossPoint[l][t] \in Range0(NumCrossPoints[l + 1])
         /\ UpperCrossPoint[l][s] <= UpperCrossPoint[l][t]
  <1>1. /\ UpperCrossPoint[l][s] \in Range0(NumCrossPoints[l + 1])
        /\ UpperCrossPoint[l][t] \in Range0(NumCrossPoints[l + 1])
        /\ CrossPointLoc[l + 1][UpperCrossPoint[l][s]] = TrackLoc[l][s]
        /\ CrossPointLoc[l + 1][UpperCrossPoint[l][t]] = TrackLoc[l][t]
    BY CrossPointAssumption
  <1>2. TrackLoc[l][s] <= TrackLoc[l][t]
    BY TrackOrder
  <1> QED BY <1>1, <1>2, CrossPointOrder

\* and on the layer below
LEMMA LowerOrder ==
  ASSUME NEW l \in GridLayers, l + 1 \in GridLayers,
         NEW s \in Range0(NumTracks[l + 1]), NEW t \in Range0(NumTracks[l + 1]), s <= t
  PROVE  /\ LowerCrossPoint(l + 1, s) \in Range0(NumCrossPoints[l])
         /\ LowerCrossPoint(l + 1, t) \in Range0(NumCrossPoints[l])
         /\ LowerCrossPoint(l + 1, s) <= LowerCrossPoint(l + 1, t)
  <1> DEFINE from == [u \in Range0(NumTracks[l + 1]) |-> LowerCrossPoint(l + 1, u)]
  <1>1. Crosses(l, l + 1, from, {c \in Range0(NumCrossPoints[l]) : UpperTrack[l][c] # -1})
    BY CrossesAbove
  <1>2. /\ from[s] \in Range0(NumCrossPoints[l]) /\ from[t] \in Range0(NumCrossPoints[l])
        /\ CrossPointLoc[l][from[s]] = TrackLoc[l + 1][s] /\ CrossPointLoc[l][from[t]] = TrackLoc[l + 1][t]
    BY <1>1 DEF Crosses
  <1>3. TrackLoc[l + 1][s] <= TrackLoc[l + 1][t]
    BY TrackOrder
  <1>4. from[s] <= from[t]
    <2> HIDE DEF from
    <2> QED BY <1>2, <1>3, CrossPointOrder
  <1> QED BY <1>2, <1>4

\* a track above a grid point has a cross point below, the only one
LEMMA LowerCrossPointOf ==
  ASSUME NEW l \in GridLayers, l + 1 \in GridLayers, NEW t \in Range0(NumTracks[l + 1])
  PROVE  /\ LowerCrossPoint(l + 1, t) \in Range0(NumCrossPoints[l])
         /\ UpperTrack[l][LowerCrossPoint(l + 1, t)] = t
         /\ \A c \in Range0(NumCrossPoints[l]) : UpperTrack[l][c] = t => c = LowerCrossPoint(l + 1, t)
  <1>1. l + 1 - 1 = l /\ l \in Int
    BY DEF GridLayers
  <1>2. \E c \in Range0(NumCrossPoints[l]) : UpperTrack[l][c] = t
    BY CrossPointAssumption
  <1>3. t # -1
    BY GridAssumption DEF Range0
  <1>4. \A c, d \in Range0(NumCrossPoints[l]) :
          UpperTrack[l][c] = UpperTrack[l][d] /\ UpperTrack[l][c] # -1 => c = d
    BY UpperAssumption
  <1> DEFINE c0 == CHOOSE c \in Range0(NumCrossPoints[l]) : UpperTrack[l][c] = t
  <1>5. c0 \in Range0(NumCrossPoints[l]) /\ UpperTrack[l][c0] = t
    BY <1>2
  <1>6. LowerCrossPoint(l + 1, t) = c0
    BY <1>1 DEF LowerCrossPoint
  <1> HIDE DEF c0
  <1> QED BY <1>3, <1>4, <1>5, <1>6

\* what two intervals have in common
LEMMA IntersectFacts ==
  ASSUME NEW i \in Interval, NEW j \in Interval
  PROVE  /\ IntersectWith(i, j) \in Interval
         /\ \A x : x \in In(IntersectWith(i, j)) <=> x \in In(i) /\ x \in In(j)
  BY DEF IntersectWith, Intvl, Interval, In, Greater, Lesser

\* of the grid box above a box: the points above its points are in it
LEMMA UpperBoxHas ==
  ASSUME NEW b \in GridBoxes, isValid(b), NEW l, l = b.layer, l + 1 \in GridLayers,
         NEW p \in PointsIn(b), p \in GridPoint, getUpper(p) \in GridPoint
  PROVE  LET u == getUpperBox(b)
         IN  /\ u \in GridBoxes /\ isValid(u) /\ u.layer = l + 1
             /\ getUpper(p) \in PointsIn(u)
  <1> DEFINE u == getUpperBox(b)
             q == getUpper(p)
             locs == CpLocs(b)
             tracks == rangeSearchTrack(l + 1, locs)
             cps == getUpperCrossPointRange(l, b.tracks)
  <1>1. /\ l \in GridLayers /\ b.tracks \in Interval /\ b.cps \in Interval
        /\ b.tracks.low \in Range0(NumTracks[l]) /\ b.tracks.high \in Range0(NumTracks[l])
        /\ b.cps.low \in Range0(NumCrossPoints[l]) /\ b.cps.high \in Range0(NumCrossPoints[l])
        /\ b.tracks.low <= b.tracks.high
    <2>1. l \in GridLayers /\ b.tracks \in Interval /\ b.cps \in Interval
      BY DEF GridBoxes
    <2> QED BY <2>1, GridAssumption DEF isValid, isTrackRangeValid, IsValid, Range0, Interval
  <1>2. p.layer = l /\ p.track \in In(b.tracks) /\ p.cp \in In(b.cps)
    BY DEF PointsIn
  <1>3. /\ p.track \in Range0(NumTracks[l]) /\ p.cp \in Range0(NumCrossPoints[l])
        /\ q.layer = l + 1 /\ q.track = UpperTrack[l][p.cp] /\ q.cp = UpperCrossPoint[l][p.track]
        /\ q = [layer |-> q.layer, track |-> q.track, cp |-> q.cp]
        /\ q.track \in Range0(NumTracks[l + 1]) /\ q.cp \in Range0(NumCrossPoints[l + 1])
    BY <1>2, GridPointFacts DEF getUpper
  <1>4. TrackLoc[l + 1][q.track] = CrossPointLoc[l][p.cp]
    <2>1. q.track # -1
      BY <1>1, <1>3, GridAssumption DEF Range0
    <2> QED BY <1>1, <1>3, <2>1, CrossPointAssumption
  <1>5. locs \in Interval /\ CrossPointLoc[l][p.cp] \in In(locs)
    BY <1>1, <1>2, CpLocsHold DEF CpLocs, In
  <1>6. tracks \in Interval /\ q.track \in In(tracks)
    <2> HIDE DEF locs, q
    <2>1. q.track \in Int
      BY <1>3 DEF Range0
    <2> QED BY <1>3, <1>4, <1>5, <2>1, TrackSearch
  <1>7. isTrackRangeValid(l + 1, tracks)
    <2>1. IsValid(tracks)
      BY <1>6 DEF IsValid, In, Interval
    <2> QED BY <1>5, <2>1, TrackRange
  <1>8. /\ cps \in Interval /\ q.cp \in In(cps) /\ IsValid(cps)
        /\ 0 <= cps.low /\ cps.high < NumCrossPoints[l + 1]
    <2>1. cps.low = UpperCrossPoint[l][b.tracks.low] /\ cps.high = UpperCrossPoint[l][b.tracks.high]
          /\ cps = Intvl(UpperCrossPoint[l][b.tracks.low], UpperCrossPoint[l][b.tracks.high])
      BY DEF getUpperCrossPointRange, Intvl
    <2>2. b.tracks.low <= p.track /\ p.track <= b.tracks.high
      BY <1>1, <1>2 DEF In, Interval
    <2>3. cps.low \in Range0(NumCrossPoints[l + 1]) /\ cps.high \in Range0(NumCrossPoints[l + 1])
          /\ cps.low <= q.cp /\ q.cp <= cps.high
      <3> HIDE DEF cps, q
      <3>1. cps.low \in Range0(NumCrossPoints[l + 1]) /\ cps.low <= q.cp
        <4>1. /\ UpperCrossPoint[l][b.tracks.low] \in Range0(NumCrossPoints[l + 1])
              /\ UpperCrossPoint[l][b.tracks.low] <= UpperCrossPoint[l][p.track]
          BY <1>1, <1>3, <2>2, UpperOrder
        <4> QED BY <1>3, <2>1, <4>1
      <3>2. cps.high \in Range0(NumCrossPoints[l + 1]) /\ q.cp <= cps.high
        <4>1. /\ UpperCrossPoint[l][b.tracks.high] \in Range0(NumCrossPoints[l + 1])
              /\ UpperCrossPoint[l][p.track] <= UpperCrossPoint[l][b.tracks.high]
          BY <1>1, <1>3, <2>2, UpperOrder
        <4> QED BY <1>3, <2>1, <4>1
      <3> QED BY <3>1, <3>2
    <2>4. NumCrossPoints[l + 1] \in Nat
      BY GridAssumption
    <2> HIDE DEF cps, q
    <2> QED BY <1>3, <2>1, <2>3, <2>4 DEF In, IsValid, Interval, Intvl, Range0
  <1>9. u = [layer |-> l + 1, tracks |-> tracks, cps |-> cps]
    BY DEF getUpperBox, GridBox
  <1> HIDE DEF tracks, cps, locs, q
  <1>10. u \in GridBoxes /\ u.layer = l + 1 /\ u.tracks = tracks /\ u.cps = cps
    BY <1>6, <1>8, <1>9 DEF GridBoxes
  <1> HIDE DEF u
  <1>11. isValid(u)
    BY <1>7, <1>8, <1>10 DEF isValid
  <1>12. q \in PointsIn(u)
    BY <1>3, <1>6, <1>8, <1>10 DEF PointsIn
  <1> QED BY <1>10, <1>11, <1>12 DEF u, q

\* and of the box below
LEMMA LowerBoxHas ==
  ASSUME NEW u \in GridBoxes, isValid(u), NEW l \in GridLayers, u.layer = l + 1,
         NEW p \in GridPoint, p.layer = l, getUpper(p) \in PointsIn(u)
  PROVE  LET b == getLowerBox(u)
         IN  isValid(b) /\ b.layer = l /\ p.track \in In(b.tracks)
  <1> DEFINE b == getLowerBox(u)
             q == getUpper(p)
             locs == CpLocs(u)
             tracks == rangeSearchTrack(l, locs)
             cps == getLowerCrossPointRange(l + 1, u.tracks)
  <1>1. /\ l + 1 \in GridLayers /\ l + 1 - 1 = l /\ u.tracks \in Interval /\ u.cps \in Interval
        /\ u.tracks.low \in Range0(NumTracks[l + 1]) /\ u.tracks.high \in Range0(NumTracks[l + 1])
        /\ u.cps.low \in Range0(NumCrossPoints[l + 1]) /\ u.cps.high \in Range0(NumCrossPoints[l + 1])
        /\ u.tracks.low <= u.tracks.high
    <2>1. l + 1 \in GridLayers /\ u.tracks \in Interval /\ u.cps \in Interval /\ l \in Int
      BY DEF GridBoxes, GridLayers
    <2> QED BY <2>1, GridAssumption DEF isValid, isTrackRangeValid, IsValid, Range0, Interval
  <1>2. /\ p.track \in Range0(NumTracks[l]) /\ q.cp = UpperCrossPoint[l][p.track]
        /\ q.cp \in In(u.cps)
    <2>1. p.track \in Range0(NumTracks[l])
      BY GridPointFacts
    <2>2. q.cp = UpperCrossPoint[l][p.track]
      BY DEF getUpper
    <2>3. q.cp \in In(u.cps)
      <3>1. q \in PointsIn(u)
        OBVIOUS
      <3> HIDE DEF q
      <3> QED BY <3>1 DEF PointsIn
    <2> QED BY <2>1, <2>2, <2>3
  <1>3. TrackLoc[l][p.track] = CrossPointLoc[l + 1][q.cp]
    BY <1>1, <1>2, CrossPointAssumption
  <1>4. locs \in Interval /\ CrossPointLoc[l + 1][q.cp] \in In(locs)
    BY <1>1, <1>2, CpLocsHold DEF CpLocs, In
  <1>5. tracks \in Interval /\ p.track \in In(tracks)
    <2> HIDE DEF locs, q
    <2>1. p.track \in Int
      BY <1>2 DEF Range0
    <2> QED BY <1>2, <1>3, <1>4, <2>1, TrackSearch
  <1>6. isTrackRangeValid(l, tracks)
    <2>1. IsValid(tracks)
      BY <1>5 DEF IsValid, In, Interval
    <2> QED BY <1>4, <2>1, TrackRange
  <1>7. IsValid(cps) /\ 0 <= cps.low /\ cps.high < NumCrossPoints[l]
    <2>1. cps.low = LowerCrossPoint(l + 1, u.tracks.low) /\ cps.high = LowerCrossPoint(l + 1, u.tracks.high)
      BY DEF getLowerCrossPointRange, Intvl
    <2>2. cps.low \in Range0(NumCrossPoints[l]) /\ cps.high \in Range0(NumCrossPoints[l]) /\ cps.low <= cps.high
      <3> HIDE DEF cps
      <3> QED BY <1>1, <2>1, LowerOrder
    <2>3. NumCrossPoints[l] \in Nat
      BY GridAssumption
    <2> HIDE DEF cps
    <2> QED BY <2>2, <2>3 DEF IsValid, Range0
  <1>8. b = [layer |-> l, tracks |-> tracks, cps |-> cps]
    <2>1. u.layer - 1 = l
      <3>1. l \in Int
        BY DEF GridLayers
      <3> QED BY <3>1
    <2>2. b = GridBox(u.layer - 1, rangeSearchTrack(u.layer - 1, CpLocs(u)),
                      getLowerCrossPointRange(u.layer, u.tracks))
      BY DEF getLowerBox
    <2> QED BY <2>1, <2>2 DEF GridBox
  <1> HIDE DEF tracks, cps, locs, q
  <1>9. b.layer = l /\ b.tracks = tracks /\ b.cps = cps
    BY <1>8
  <1> HIDE DEF b
  <1>10. isValid(b)
    BY <1>6, <1>7, <1>9 DEF isValid
  <1> QED BY <1>5, <1>9, <1>10 DEF b

\* the tracks of two points above each other are in the via box of their boxes
LEMMA ViaBoxHas ==
  ASSUME NEW a \in GridBoxes, InTables(a), NEW b \in GridBoxes, InTables(b), b.layer = a.layer + 1,
         NEW p \in PointsIn(a), getUpper(p) \in PointsIn(b)
  PROVE  LET v == getViaBoxBetween(a, b)
         IN  isValidViaBox(v) /\ p.track \in In(v.lower.tracks) /\ getUpper(p).track \in In(v.upper.tracks)
  <1> DEFINE l == a.layer
             q == getUpper(p)
             la == getLocBox(a)
             lb == getLocBox(b)
             common == rangeSearch(BoxIntersect(l, la, lb))
             above == getUpperBox(common)
             below == getLowerBox(above)
  <1>1. l \in GridLayers /\ l + 1 \in GridLayers
    BY DEF GridBoxes
  <1>2. /\ la \in LocBox /\ p \in GridPoint /\ LocBoxOn(la, p)
        /\ lb \in LocBox /\ q \in GridPoint /\ LocBoxOn(lb, q)
    BY LocBoxOfGridBox
  <1>3. p.layer = l
    BY DEF PointsIn
  <1>4. getLoc(q) = getLoc(p)
    BY <1>1, <1>2, <1>3, SameLocation
  <1>5. BoxIntersect(l, la, lb) \in LocBox /\ BoxIntersect(l, la, lb).layer = l /\ LocBoxOn(BoxIntersect(l, la, lb), p)
    <2> DEFINE x == IntersectWith(la.x, lb.x)
               y == IntersectWith(la.y, lb.y)
    <2>1. la.x \in Interval /\ lb.x \in Interval /\ la.y \in Interval /\ lb.y \in Interval
      BY <1>2, LocBoxFacts
    <2>2. x \in Interval /\ y \in Interval /\ getLoc(p).x \in In(x) /\ getLoc(p).y \in In(y)
      <3> HIDE DEF la, lb, q
      <3> QED BY <1>2, <1>4, <2>1, IntersectFacts DEF LocBoxOn
    <2>3. BoxIntersect(l, la, lb) = [layer |-> l, x |-> x, y |-> y]
      BY DEF BoxIntersect, Box
    <2> HIDE DEF x, y, la, lb
    <2> QED BY <1>1, <1>3, <2>2, <2>3, LocBoxFacts DEF LocBoxOn
  <1> HIDE DEF la, lb
  <1>6. common \in GridBoxes /\ common.layer = l /\ p \in PointsIn(common)
    BY <1>2, <1>5, RangeSearchExact
  <1>7. isValid(common)
    BY <1>5, <1>6, SearchValid
  <1>8. getViaBoxBetween(a, b) = ViaBoxIn(common)
    BY DEF getViaBoxBetween, la, lb
  <1> HIDE DEF common
  <1>9. above \in GridBoxes /\ isValid(above) /\ above.layer = l + 1 /\ q \in PointsIn(above)
    BY <1>1, <1>2, <1>6, <1>7, UpperBoxHas
  <1>10. ViaBoxIn(common) = ViaBox(common, above, below)
    BY DEF ViaBoxIn, ViaBoxAbove
  <1> HIDE DEF above
  <1>11. isValid(below) /\ below.layer = l /\ p.track \in In(below.tracks)
    BY <1>1, <1>2, <1>3, <1>9, LowerBoxHas
  <1>12. q.track \in In(above.tracks)
    BY <1>9 DEF PointsIn
  <1> HIDE DEF below, q
  <1>13. getViaBoxBetween(a, b) = [lower |-> below, upper |-> above]
    BY <1>7, <1>8, <1>9, <1>10, <1>11 DEF ViaBox
  <1> QED BY <1>9, <1>11, <1>12, <1>13 DEF isValidViaBox, q

\* the locations of a box's cross points are an interval
LEMMA CpLocsType ==
  ASSUME NEW b \in GridBoxes, isValid(b)
  PROVE  CpLocs(b) \in Interval
  <1>1. /\ b.layer \in GridLayers /\ b.cps \in Interval
        /\ b.cps.low \in Range0(NumCrossPoints[b.layer]) /\ b.cps.high \in Range0(NumCrossPoints[b.layer])
        /\ b.cps.low \in b.cps.low .. b.cps.high
    <2>1. b.layer \in GridLayers /\ b.cps \in Interval
      BY DEF GridBoxes
    <2> QED BY <2>1, GridAssumption DEF isValid, IsValid, Range0, Interval
  <1> QED BY <1>1, CpLocsHold DEF CpLocs

\* The tracks of boxes that vias can join are tracks of the grid. They come from
\* searching three times: for what the boxes have in common, for what is above
\* of it, and for what is below of that.
LEMMA ViaBoxType ==
  ASSUME NEW a \in GridBoxes, InTables(a), NEW b \in GridBoxes, InTables(b),
         NEW v, v = getViaBoxBetween(a, b), isValidViaBox(v),
         NEW common, common = rangeSearch(BoxIntersect(a.layer, getLocBox(a), getLocBox(b)))
  PROVE  /\ common \in GridBoxes /\ common.layer = a.layer /\ isValid(common)
         /\ v.upper \in GridBoxes /\ v.upper.layer = a.layer + 1 /\ isValid(v.upper)
         /\ v.upper.tracks = rangeSearchTrack(a.layer + 1, CpLocs(common))
         /\ v.upper.cps = getUpperCrossPointRange(a.layer, common.tracks)
         /\ isValid(v.lower) /\ v.lower.tracks = rangeSearchTrack(a.layer, CpLocs(v.upper))
         /\ a.layer + 1 \in GridLayers /\ v.lower.layer = a.layer
         /\ v.lower.tracks \in Interval /\ v.upper.tracks \in Interval
         /\ \A t \in In(v.lower.tracks) : t \in Range0(NumTracks[a.layer])
         /\ \A t \in In(v.upper.tracks) : t \in Range0(NumTracks[a.layer + 1])
  <1> DEFINE l == a.layer
             la == getLocBox(a)
             lb == getLocBox(b)
             above == getUpperBox(common)
             below == getLowerBox(above)
  <1>0. common = rangeSearch(BoxIntersect(l, la, lb))
    OBVIOUS
  <1>1. v = ViaBox(common, above, below)
    BY <1>0 DEF getViaBoxBetween, ViaBoxIn, ViaBoxAbove
  <1>2. l \in GridLayers /\ l \in Int
    BY DEF GridBoxes, GridLayers
  <1>3. BoxIntersect(l, la, lb) \in LocBox /\ BoxIntersect(l, la, lb).layer = l
    <2> DEFINE x == IntersectWith(la.x, lb.x)
               y == IntersectWith(la.y, lb.y)
    <2>1. la.x \in Interval /\ lb.x \in Interval /\ la.y \in Interval /\ lb.y \in Interval
      BY LocBoxOfGridBox, LocBoxFacts
    <2>2. x \in Interval /\ y \in Interval
      BY <2>1, IntersectFacts
    <2>3. BoxIntersect(l, la, lb) = [layer |-> l, x |-> x, y |-> y]
      BY DEF BoxIntersect, Box
    <2> HIDE DEF x, y, la, lb
    <2> QED BY <1>2, <2>2, <2>3, LocBoxFacts
  <1> HIDE DEF la, lb
  <1>4. common \in GridBoxes /\ common.layer = l
    BY <1>0, <1>3, RangeSearchExact
  <1>5. isValid(common) /\ isValid(above) /\ isValid(below) /\ v = [lower |-> below, upper |-> above]
    <2>1. ~isValid(NoViaBox.lower)
      BY DEF NoViaBox, NoGridBox, GridBox, isValid, GridLayers
    <2> HIDE DEF above, below
    <2> QED BY <1>1, <2>1 DEF ViaBox, isValidViaBox
  <1>6. /\ above.layer = l + 1 /\ above.tracks = rangeSearchTrack(l + 1, CpLocs(common))
        /\ above.cps = getUpperCrossPointRange(l, common.tracks)
    BY <1>4 DEF getUpperBox, GridBox
  <1>7. l + 1 \in GridLayers
    BY <1>5, <1>6 DEF isValid
  <1>8. above.tracks \in Interval
    BY <1>4, <1>5, <1>6, <1>7, CpLocsType, TrackSearch
  <1>9. above.cps \in Interval
    <2>1. common.tracks \in Interval /\ common.tracks.low \in Range0(NumTracks[l])
          /\ common.tracks.high \in Range0(NumTracks[l])
      <3>1. common.tracks \in Interval
        BY <1>4 DEF GridBoxes
      <3> QED BY <1>2, <1>4, <1>5, <3>1, GridAssumption DEF isValid, isTrackRangeValid, IsValid, Range0, Interval
    <2>2. UpperCrossPoint[l][common.tracks.low] \in Int /\ UpperCrossPoint[l][common.tracks.high] \in Int
      BY <1>2, <1>7, <2>1, CrossPointAssumption DEF Range0
    <2> HIDE DEF above
    <2> QED BY <1>6, <2>2 DEF getUpperCrossPointRange, Intvl, Interval
  <1>10. above \in GridBoxes
    <2>1. above = [layer |-> above.layer, tracks |-> above.tracks, cps |-> above.cps]
      BY DEF getUpperBox, GridBox
    <2> HIDE DEF above
    <2> QED BY <1>6, <1>7, <1>8, <1>9, <2>1 DEF GridBoxes
  <1> HIDE DEF above
  <1>11. below.layer = l /\ below.tracks = rangeSearchTrack(l, CpLocs(above))
    <2>1. above.layer - 1 = l
      BY <1>2, <1>6
    <2>2. below = GridBox(above.layer - 1, rangeSearchTrack(above.layer - 1, CpLocs(above)),
                          getLowerCrossPointRange(above.layer, above.tracks))
      BY DEF getLowerBox
    <2> HIDE DEF below
    <2> QED BY <2>1, <2>2 DEF GridBox
  <1>12. below.tracks \in Interval
    BY <1>2, <1>5, <1>10, <1>11, CpLocsType, TrackSearch
  <1> HIDE DEF below
  <1>13. v.lower = below /\ v.upper = above
    BY <1>5
  <1>14. NumTracks[l] \in Nat /\ NumTracks[l + 1] \in Nat
    BY <1>2, <1>7, GridAssumption
  <1>15. \A t \in In(below.tracks) : t \in Range0(NumTracks[l])
    BY <1>5, <1>11, <1>12, <1>14 DEF isValid, isTrackRangeValid, In, Range0, Interval
  <1>16. \A t \in In(above.tracks) : t \in Range0(NumTracks[l + 1])
    BY <1>5, <1>6, <1>8, <1>14 DEF isValid, isTrackRangeValid, In, Range0, Interval
  <1> QED BY <1>4, <1>5, <1>6, <1>7, <1>8, <1>10, <1>11, <1>12, <1>13, <1>15, <1>16

\* two grid points have two grid points above them
LEMMA UpperInjective ==
  ASSUME NEW p \in GridPoint, NEW q \in GridPoint, p.layer + 1 \in GridLayers,
         getUpper(p) = getUpper(q), getUpper(p) \in GridPoint
  PROVE  p = q
  <1> DEFINE l == p.layer
             u == getUpper(p)
  <1>1. /\ l \in GridLayers /\ q.layer \in GridLayers
        /\ p.track \in Range0(NumTracks[l]) /\ p.cp \in Range0(NumCrossPoints[l])
        /\ q.track \in Range0(NumTracks[q.layer]) /\ q.cp \in Range0(NumCrossPoints[q.layer])
        /\ p = [layer |-> p.layer, track |-> p.track, cp |-> p.cp]
        /\ q = [layer |-> q.layer, track |-> q.track, cp |-> q.cp]
    BY GridPointFacts
  <1>2. /\ u.layer = l + 1 /\ u.layer = q.layer + 1
        /\ u.track = UpperTrack[l][p.cp] /\ u.track = UpperTrack[q.layer][q.cp]
        /\ u.cp = UpperCrossPoint[l][p.track] /\ u.cp = UpperCrossPoint[q.layer][q.track]
    BY DEF getUpper
  <1>3. u.track \in Range0(NumTracks[u.layer]) /\ u.cp \in Range0(NumCrossPoints[u.layer]) /\ u.layer \in GridLayers
    <2> HIDE DEF u
    <2>1. u \in GridPoint
      BY DEF u
    <2> QED BY <2>1, GridPointFacts
  <1> HIDE DEF u
  <1>4. u.track # -1 /\ u.cp # -1
    BY <1>3, GridAssumption DEF Range0
  <1>5. q.layer = l
    BY <1>1, <1>2 DEF GridLayers
  <1>6. p.cp = q.cp /\ p.track = q.track
    BY <1>1, <1>2, <1>4, <1>5, UpperAssumption
  <1> QED BY <1>1, <1>5, <1>6

\* guides with points above each other are connected
LEMMA AboveConnected ==
  ASSUME NEW a \in GridBoxes, InTables(a), NEW b \in GridBoxes, InTables(b),
         NEW p \in PointsIn(a), NEW q \in PointsIn(b), Above(p, q)
  PROVE  /\ b.layer = a.layer + 1 /\ a.layer + 1 \in GridLayers /\ getUpper(p) = q /\ p.layer = a.layer
         /\ isConnected(a, b)
  <1>1. a.layer \in Int /\ b.layer \in Int /\ a.layer \in GridLayers /\ b.layer \in GridLayers
    BY DEF GridBoxes, GridLayers
  <1>2. p.layer = a.layer /\ q.layer = b.layer /\ getUpper(p) = q
    BY DEF PointsIn, Above
  <1>3. b.layer = a.layer + 1
    BY <1>2 DEF getUpper
  <1>4. isValid(a) /\ isValid(b)
    <2>1. ASSUME NEW c \in GridBoxes, InTables(c), NEW r \in PointsIn(c) PROVE isValid(c)
      <3>1. c.tracks \in Interval /\ c.cps \in Interval /\ c.layer \in GridLayers
        BY DEF GridBoxes
      <3>2. PICK t \in In(c.tracks), k \in In(c.cps) : TRUE
        BY <2>1 DEF PointsIn
      <3>3. NumTracks[c.layer] \in Nat /\ NumCrossPoints[c.layer] \in Nat
        BY <3>1, GridAssumption
      <3> QED BY <2>1, <3>1, <3>2, <3>3 DEF InTables, isValid, isTrackRangeValid, IsValid, In, Interval, Range0
    <2> QED BY <2>1
  <1>5. isValidViaBox(getViaBoxBetween(a, b))
    BY <1>2, <1>3, ViaBoxHas
  <1> QED BY <1>1, <1>2, <1>3, <1>4, <1>5 DEF isConnected

-----------------------------------------------------------------------------
(* What is reached step by step                                            *)

\* f goes on from a set with next until nothing is added
StepsUntil(f, U, next) == f = [S \in SUBSET U |-> IF next[S] = S THEN S ELSE f[next[S]]]

\* next adds to sets, more to larger ones
Growing(U, next) ==
  /\ next \in [SUBSET U -> SUBSET U]
  /\ \A S \in SUBSET U : S \subseteq next[S]
  /\ \A S, T \in SUBSET U : S \subseteq T => next[S] \subseteq next[T]

\* there is such an f: the least set that next leaves alone
LEMMA UntilExists ==
  ASSUME NEW U, NEW next, Growing(U, next)
  PROVE  \E f : StepsUntil(f, U, next)
  <1> DEFINE closed(S) == {C \in SUBSET U : S \subseteq C /\ next[C] = C}
             least(S) == {x \in U : \A C \in closed(S) : x \in C}
             way == [S \in SUBSET U |-> least(S)]
  <1>1. ASSUME NEW S \in SUBSET U
        PROVE  way[S] = IF next[S] = S THEN S ELSE way[next[S]]
    <2>1. next[S] \in SUBSET U /\ S \subseteq next[S] /\ \A C \in SUBSET U : S \subseteq C => next[S] \subseteq next[C]
      BY DEF Growing
    <2>2. closed(next[S]) = closed(S)
      BY <2>1
    <2>3. next[S] = S => least(S) = S
      BY <2>1
    <2>4. way[S] = least(S) /\ way[next[S]] = least(next[S])
      BY <2>1
    <2> HIDE DEF way
    <2> QED BY <2>2, <2>3, <2>4
  <1>2. way = [S \in SUBSET U |-> way[S]]
    OBVIOUS
  <1> HIDE DEF way
  <1>3. [S \in SUBSET U |-> way[S]] = [S \in SUBSET U |-> IF next[S] = S THEN S ELSE way[next[S]]]
    BY <1>1
  <1>4. StepsUntil(way, U, next)
    BY <1>2, <1>3 DEF StepsUntil
  <1> HIDE DEF least, closed
  <1>5. \E f : StepsUntil(f, U, next)
    BY <1>4
  <1> QED BY <1>5

\* on a finite set, it ends with the least one that next leaves alone
LEMMA UntilEnds ==
  ASSUME NEW U, IsFiniteSet(U), NEW next, Growing(U, next), NEW f, StepsUntil(f, U, next)
  PROVE  \A S \in SUBSET U :
           /\ f[S] \in SUBSET U /\ S \subseteq f[S] /\ next[f[S]] = f[S]
           /\ \A C \in SUBSET U : S \subseteq C /\ next[C] = C => f[S] \subseteq C
  <1> DEFINE Ends(S) == /\ f[S] \in SUBSET U /\ S \subseteq f[S] /\ next[f[S]] = f[S]
                        /\ \A C \in SUBSET U : S \subseteq C /\ next[C] = C => f[S] \subseteq C
             G == {T \in SUBSET U : Ends(U \ T)}
  <1>1. ASSUME NEW S \in SUBSET U
        PROVE  f[S] = IF next[S] = S THEN S ELSE f[next[S]]
    BY DEF StepsUntil
  <1>2. ASSUME NEW S \in SUBSET U, next[S] = S PROVE Ends(S)
    BY <1>1, <1>2
  <1>3. ASSUME NEW S \in SUBSET U, next[S] # S, Ends(next[S]) PROVE Ends(S)
    <2>1. next[S] \in SUBSET U /\ S \subseteq next[S] /\ \A C \in SUBSET U : S \subseteq C => next[S] \subseteq next[C]
      BY DEF Growing
    <2>2. f[S] = f[next[S]]
      BY <1>1, <1>3
    <2> QED BY <1>3, <2>1, <2>2
  <1>4. {} \in G
    <2>1. next[U] = U /\ U \in SUBSET U
      BY DEF Growing
    <2>2. Ends(U)
      BY <1>2, <2>1
    <2>3. U \ {} = U
      OBVIOUS
    <2> HIDE DEF Ends
    <2> QED BY <2>2, <2>3
  <1>5. ASSUME NEW T \in SUBSET U, T # {}, \A V \in SUBSET T : V # T => V \in G
        PROVE  T \in G
    <2> DEFINE S == U \ T
    <2>1. S \in SUBSET U
      OBVIOUS
    <2>2. ASSUME next[S] # S PROVE Ends(next[S])
      <3>1. next[S] \in SUBSET U /\ S \subseteq next[S]
        BY DEF Growing
      <3>2. U \ next[S] \in SUBSET T /\ U \ next[S] # T
        BY <2>2, <3>1
      <3>3. U \ next[S] \in G
        BY <1>5, <3>2
      <3>4. U \ (U \ next[S]) = next[S]
        BY <3>1
      <3> HIDE DEF Ends
      <3> QED BY <3>3, <3>4
    <2> HIDE DEF Ends
    <2> QED BY <1>2, <1>3, <2>1, <2>2
  <1> HIDE DEF Ends
  <1>6. \A T \in SUBSET U : T \in G
    <2> HIDE DEF G
    <2> QED BY <1>4, <1>5, AllSubsets
  <1>7. ASSUME NEW S \in SUBSET U PROVE Ends(S)
    <2>1. U \ S \in G /\ U \ (U \ S) = S
      BY <1>6
    <2> QED BY <2>1
  <1> QED BY <1>7 DEF Ends

\* what is reached in a relation has the start, and all that its elements are related to
LEMMA ReachInClosed ==
  ASSUME NEW R, IsFiniteSet(R), NEW start, IsFiniteSet(start)
  PROVE  LET reached == ReachIn(R, start)
         IN  start \subseteq reached /\ \A e \in R : e[1] \in reached => e[2] \in reached
  <1> DEFINE U == start \cup {e[2] : e \in R}
             next == [S \in SUBSET U |-> S \cup {e[2] : e \in {h \in R : h[1] \in S}}]
             steps(f) == f = [S \in SUBSET U |->
                                IF S \cup {e[2] : e \in {h \in R : h[1] \in S}} = S THEN S
                                ELSE f[S \cup {e[2] : e \in {h \in R : h[1] \in S}}]]
             reach == CHOOSE f : steps(f)
  <1>1. ReachIn(R, start) = reach[start]
    BY DEF ReachIn
  <1>2. \A f : steps(f) <=> StepsUntil(f, U, next)
    <2>1. ASSUME NEW f
          PROVE  [S \in SUBSET U |-> IF S \cup {e[2] : e \in {h \in R : h[1] \in S}} = S THEN S
                                     ELSE f[S \cup {e[2] : e \in {h \in R : h[1] \in S}}]]
                 = [S \in SUBSET U |-> IF next[S] = S THEN S ELSE f[next[S]]]
      <3>1. \A S \in SUBSET U : next[S] = S \cup {e[2] : e \in {h \in R : h[1] \in S}}
        OBVIOUS
      <3> HIDE DEF next, U
      <3> QED BY <3>1
    <2> HIDE DEF next, U
    <2> QED BY <2>1 DEF StepsUntil
  <1>3. Growing(U, next)
    <2>1. ASSUME NEW S \in SUBSET U
          PROVE  next[S] \in SUBSET U /\ next[S] = S \cup {e[2] : e \in {h \in R : h[1] \in S}}
      OBVIOUS
    <2>2. next \in [SUBSET U -> SUBSET U]
      BY <2>1
    <2>3. ASSUME NEW S \in SUBSET U, NEW T \in SUBSET U, S \subseteq T PROVE next[S] \subseteq next[T]
      <3> HIDE DEF next, U
      <3> QED BY <2>1, <2>3
    <2> HIDE DEF next, U
    <2> QED BY <2>1, <2>2, <2>3 DEF Growing
  <1>4. IsFiniteSet(U)
    <2> DEFINE ends == [e \in R |-> e[2]]
    <2>1. IsFiniteSet({ends[e] : e \in R})
      <3> HIDE DEF ends
      <3> QED BY ImageFinite
    <2>2. {ends[e] : e \in R} = {e[2] : e \in R}
      OBVIOUS
    <2> QED BY <2>1, <2>2, FS_Union
  <1>5. StepsUntil(reach, U, next)
    <2>1. \E f : steps(f)
      <3> HIDE DEF steps, U, next, reach
      <3>1. \E f : StepsUntil(f, U, next)
        BY <1>3, UntilExists
      <3> QED BY <1>2, <3>1
    <2>2. steps(reach)
      <3> HIDE DEF steps
      <3> QED BY <2>1
    <2> HIDE DEF steps, reach
    <2> QED BY <1>2, <2>2
  <1>6. start \in SUBSET U
    OBVIOUS
  <1> DEFINE X == reach[start]
  <1>7. X \in SUBSET U /\ start \subseteq X /\ next[X] = X
    <2> HIDE DEF reach, next, U
    <2> QED BY <1>3, <1>4, <1>5, <1>6, UntilEnds
  <1>8. next[X] = X \cup {e[2] : e \in {h \in R : h[1] \in X}}
    <2> HIDE DEF reach, U
    <2> QED BY <1>7
  <1> HIDE DEF reach, next, U, X
  <1>9. \A e \in R : e[1] \in X => e[2] \in X
    BY <1>7, <1>8
  <1> QED BY <1>1, <1>7, <1>9 DEF X

\* a set has all that a step along a track, through a pin or a via leads to
ClosedOnGrid(guidePoints, accessPoints, grid, C) ==
  /\ \A g \in DOMAIN guidePoints : \A p, q \in guidePoints[g] : q \in C /\ q.track = p.track => p \in C
  /\ \A p \in DOMAIN accessPoints : accessPoints[p] \cap C # {} => accessPoints[p] \subseteq C
  /\ \A p \in grid : \A q \in C : Above(p, q) \/ Above(q, p) => p \in C

\* what is reached on the grid is the least set that has the start and all that
\* a step leads to
LEMMA ReachedIsLeast ==
  ASSUME NEW guidePoints, NEW accessPoints, NEW grid,
         grid = (UNION {guidePoints[g] : g \in DOMAIN guidePoints})
                \cup (UNION {accessPoints[p] : p \in DOMAIN accessPoints}),
         IsFiniteSet(grid), NEW start \in SUBSET grid,
         NEW reached, reached = ReachedOnGrid(guidePoints, accessPoints, start)
  PROVE  /\ reached \subseteq grid /\ start \subseteq reached
         /\ ClosedOnGrid(guidePoints, accessPoints, grid, reached)
         /\ \A C \in SUBSET grid :
              start \subseteq C /\ ClosedOnGrid(guidePoints, accessPoints, grid, C) => reached \subseteq C
  <1> DEFINE along(S, from) == {p \in S : \E q \in S \cap from : q.track = p.track}
             add(from) == from
               \cup (UNION {along(guidePoints[g], from) : g \in DOMAIN guidePoints})
               \cup (UNION {accessPoints[p] : p \in {k \in DOMAIN accessPoints : accessPoints[k] \cap from # {}}})
               \cup {p \in grid : \E q \in from : Above(p, q) \/ Above(q, p)}
             next == [S \in SUBSET grid |-> add(S)]
             steps(f) == f = [S \in SUBSET grid |-> IF add(S) = S THEN S ELSE f[add(S)]]
             reach == CHOOSE f : steps(f)
  <1>1. reached = reach[start]
    BY DEF ReachedOnGrid, Above
  <1> DEFINE leads(p, S) ==
               \/ \E g \in DOMAIN guidePoints : p \in guidePoints[g] /\ \E q \in guidePoints[g] : q \in S /\ q.track = p.track
               \/ \E k \in DOMAIN accessPoints : p \in accessPoints[k] /\ accessPoints[k] \cap S # {}
               \/ p \in grid /\ \E q \in S : Above(p, q) \/ Above(q, p)
  <1>2. ASSUME NEW S, NEW p PROVE p \in add(S) <=> p \in S \/ leads(p, S)
    OBVIOUS
  <1>20. ASSUME NEW S, NEW p, leads(p, S) PROVE p \in grid
    BY <1>20
  <1> HIDE DEF add
  <1>3. ASSUME NEW S \in SUBSET grid PROVE next[S] = add(S) /\ add(S) \in SUBSET grid /\ S \subseteq add(S)
    <2> HIDE DEF leads
    <2> QED BY <1>2, <1>20
  <1>4. ASSUME NEW S \in SUBSET grid, NEW T \in SUBSET grid, S \subseteq T PROVE add(S) \subseteq add(T)
    <2>1. \A p : leads(p, S) => leads(p, T)
      BY <1>4
    <2> HIDE DEF leads
    <2> QED BY <1>2, <1>4, <2>1
  <1>5. Growing(grid, next)
    <2>1. next \in [SUBSET grid -> SUBSET grid]
      BY <1>3
    <2> HIDE DEF next
    <2> QED BY <1>3, <1>4, <2>1 DEF Growing
  <1>6. \A f : steps(f) <=> StepsUntil(f, grid, next)
    <2>1. ASSUME NEW f
          PROVE  [S \in SUBSET grid |-> IF add(S) = S THEN S ELSE f[add(S)]]
                 = [S \in SUBSET grid |-> IF next[S] = S THEN S ELSE f[next[S]]]
      <3> HIDE DEF next
      <3> QED BY <1>3
    <2> HIDE DEF next
    <2> QED BY <2>1 DEF StepsUntil
  <1> HIDE DEF next
  <1>7. StepsUntil(reach, grid, next)
    <2>1. \E f : steps(f)
      <3> HIDE DEF steps, reach
      <3>1. \E f : StepsUntil(f, grid, next)
        BY <1>5, UntilExists
      <3> QED BY <1>6, <3>1
    <2>2. steps(reach)
      <3> HIDE DEF steps
      <3> QED BY <2>1
    <2> HIDE DEF steps, reach
    <2> QED BY <1>6, <2>2
  <1>8. ASSUME NEW C \in SUBSET grid
        PROVE  next[C] = C <=> ClosedOnGrid(guidePoints, accessPoints, grid, C)
    <2>1. (\A p : leads(p, C) => p \in C) <=> ClosedOnGrid(guidePoints, accessPoints, grid, C)
      <3>1. ASSUME \A p : leads(p, C) => p \in C
            PROVE  ClosedOnGrid(guidePoints, accessPoints, grid, C)
        <4>1. \A g \in DOMAIN guidePoints : \A p, q \in guidePoints[g] : q \in C /\ q.track = p.track => p \in C
          BY <3>1
        <4>2. \A p \in DOMAIN accessPoints : accessPoints[p] \cap C # {} => accessPoints[p] \subseteq C
          BY <3>1
        <4>3. \A p \in grid : \A q \in C : Above(p, q) \/ Above(q, p) => p \in C
          BY <3>1
        <4> QED BY <4>1, <4>2, <4>3 DEF ClosedOnGrid
      <3>2. ASSUME ClosedOnGrid(guidePoints, accessPoints, grid, C), NEW p, leads(p, C) PROVE p \in C
        BY <3>2 DEF ClosedOnGrid
      <3> HIDE DEF leads
      <3> QED BY <3>1, <3>2
    <2> HIDE DEF leads
    <2>2. next[C] = add(C) /\ C \subseteq add(C)
      BY <1>3
    <2>3. \A p : p \in add(C) <=> p \in C \/ leads(p, C)
      BY <1>2
    <2>4. add(C) = C <=> \A p : leads(p, C) => p \in C
      BY <2>2, <2>3
    <2> QED BY <2>1, <2>2, <2>4
  <1> HIDE DEF reach
  <1>9. /\ reach[start] \in SUBSET grid /\ start \subseteq reach[start] /\ next[reach[start]] = reach[start]
        /\ \A C \in SUBSET grid : start \subseteq C /\ next[C] = C => reach[start] \subseteq C
    <2> HIDE DEF leads
    <2> QED BY <1>5, <1>7, UntilEnds
  <1> HIDE DEF leads
  <1> QED BY <1>1, <1>8, <1>9

-----------------------------------------------------------------------------
(* Finite sets                                                             *)

\* the image of finitely many pairs
LEMMA PairImageFinite ==
  ASSUME NEW A, IsFiniteSet(A), NEW B, IsFiniteSet(B), NEW f
  PROVE  IsFiniteSet({f[w] : w \in A \X B})
  <1>1. IsFiniteSet(A \X B)
    BY FS_Product
  <1> QED BY <1>1, ImageFinite

\* the union of finitely many finite sets
LEMMA UnionFinite ==
  ASSUME NEW A, IsFiniteSet(A), NEW f, \A x \in A : IsFiniteSet(f[x])
  PROVE  IsFiniteSet(UNION {f[x] : x \in A})
  <1>1. IsFiniteSet({f[x] : x \in A})
    BY ImageFinite
  <1>2. \A s \in {f[x] : x \in A} : IsFiniteSet(s)
    OBVIOUS
  <1> QED BY <1>1, <1>2, FS_UNION

\* intervals and via edges are finite
LEMMA InFinite ==
  ASSUME NEW r \in Interval
  PROVE  IsFiniteSet(In(r))
  <1>1. r.low \in Int /\ r.high \in Int
    BY DEF Interval
  <1> QED BY <1>1, FS_Interval DEF In

-----------------------------------------------------------------------------
(* A search that goes on until nothing is left                             *)

\* f goes on from a state in D with step until one in done
GoesOn(f, D, done, step, out) == f = [w \in D |-> IF w \in done THEN out[w] ELSE f[step[w]]]

\* there is such an f: all that a state leads to has the same states to end in
LEMMA GoesOnExists ==
  ASSUME NEW D, NEW done, NEW step \in [D -> D], NEW out
  PROVE  \E f : GoesOn(f, D, done, step, out)
  <1> DEFINE closed(x) == {C \in SUBSET D : x \in C /\ \A z \in C : z \notin done => step[z] \in C}
             ends(x) == {y \in D : y \in done /\ \A C \in closed(x) : y \in C}
             value(S) == IF S = {} THEN {} ELSE out[CHOOSE y \in S : TRUE]
             way == [x \in D |-> value(ends(x))]
  <1>1. ASSUME NEW x \in D, x \in done PROVE way[x] = out[x]
    <2>1. {x} \in closed(x)
      BY <1>1
    <2>2. ends(x) = {x}
      BY <1>1, <2>1
    <2>3. (CHOOSE y \in {x} : TRUE) = x
      OBVIOUS
    <2>4. value({x}) = out[x]
      BY <2>3
    <2>5. way[x] = value(ends(x))
      OBVIOUS
    <2> HIDE DEF way, value, ends
    <2> QED BY <2>2, <2>4, <2>5
  <1>2. ASSUME NEW x \in D, x \notin done PROVE way[x] = way[step[x]]
    <2>1. ASSUME NEW y \in ends(x), NEW C \in closed(step[x]) PROVE y \in C
      <3>1. C \cup {x} \in closed(x)
        BY <1>2
      <3>2. y \in C \cup {x} /\ y \in done
        BY <3>1
      <3> QED BY <1>2, <3>2
    <2>2. ASSUME NEW y \in ends(step[x]), NEW C \in closed(x) PROVE y \in C
      <3>1. C \in closed(step[x])
        BY <1>2
      <3> QED BY <3>1
    <2>3. ends(x) = ends(step[x])
      <3>1. \A z : \A y \in ends(z) : y \in D /\ y \in done
        OBVIOUS
      <3>2. \A z : \A y \in D : y \in done /\ (\A C \in closed(z) : y \in C) => y \in ends(z)
        OBVIOUS
      <3> HIDE DEF ends, closed
      <3> QED BY <2>1, <2>2, <3>1, <3>2
    <2>4. way[x] = value(ends(x)) /\ way[step[x]] = value(ends(step[x]))
      OBVIOUS
    <2> HIDE DEF way, value, ends
    <2> QED BY <2>3, <2>4
  <1>3. way = [x \in D |-> way[x]]
    OBVIOUS
  <1> HIDE DEF way
  <1>4. [x \in D |-> way[x]] = [x \in D |-> IF x \in done THEN out[x] ELSE way[step[x]]]
    BY <1>1, <1>2
  <1>5. GoesOn(way, D, done, step, out)
    BY <1>3, <1>4 DEF GoesOn
  <1> QED BY <1>5

\* steps keep states in J, and a measure falls: the first number, or else the second
Falls(J, done, step, left, size) ==
  /\ left \in [J -> Nat] /\ size \in [J -> Nat]
  /\ \A w \in J : w \notin done =>
       /\ step[w] \in J
       /\ left[step[w]] < left[w] \/ (left[step[w]] = left[w] /\ size[step[w]] < size[w])

\* of states of a kind that steps keep, each leads to one of the kind in which
\* the search ends, if a measure falls: the first number, or else the second
LEMMA GoesOnEnds ==
  ASSUME NEW D, NEW done, NEW step \in [D -> D], NEW out, NEW f, GoesOn(f, D, done, step, out),
         NEW J \in SUBSET D, NEW left, NEW size, Falls(J, done, step, left, size)
  PROVE  \A w \in J : \E y \in J : y \in done /\ f[w] = out[y]
  <1> DEFINE good(w) == \E y \in J : y \in done /\ f[w] = out[y]
             bad == {w \in J : ~good(w)}
  <1>0. /\ left \in [J -> Nat] /\ size \in [J -> Nat]
        /\ \A w \in J : w \notin done =>
             /\ step[w] \in J
             /\ left[step[w]] < left[w] \/ (left[step[w]] = left[w] /\ size[step[w]] < size[w])
    BY DEF Falls
  <1>1. ASSUME NEW w \in bad
        PROVE  w \in J /\ w \notin done /\ step[w] \in bad
    <2>1. f[w] = IF w \in done THEN out[w] ELSE f[step[w]]
      BY DEF GoesOn
    <2>2. w \notin done
      BY <2>1
    <2> QED BY <1>0, <2>1, <2>2
  <1> HIDE DEF bad
  <1>2. ASSUME bad # {} PROVE FALSE
    <2> DEFINE L == {left[w] : w \in bad}
    <2>1. L \subseteq Nat /\ L # {}
      BY <1>0, <1>1, <1>2
    <2>2. PICK m \in L : \A n \in L : m <= n
      <3> HIDE DEF L
      <3> QED BY <2>1, LeastNatural
    <2> DEFINE B == {w \in bad : left[w] = m}
               M == {size[w] : w \in B}
    <2>3. M \subseteq Nat /\ M # {}
      BY <1>0, <1>1, <2>2
    <2>4. PICK k \in M : \A n \in M : k <= n
      <3> HIDE DEF M
      <3> QED BY <2>3, LeastNatural
    <2>5. PICK w \in bad : left[w] = m /\ size[w] = k
      BY <2>4
    <2>6. step[w] \in bad /\ step[w] \in J /\ w \in J
      BY <1>1, <2>5
    <2>7. left[step[w]] \in Nat /\ m <= left[step[w]] /\ left[w] \in Nat /\ size[step[w]] \in Nat /\ size[w] \in Nat
      BY <1>0, <2>2, <2>6
    <2>8. left[step[w]] = m /\ size[step[w]] < k
      <3>1. w \notin done
        BY <1>1
      <3>2. left[step[w]] < left[w] \/ (left[step[w]] = left[w] /\ size[step[w]] < size[w])
        BY <1>0, <2>6, <3>1
      <3> QED BY <2>5, <2>7, <3>2
    <2>9. size[step[w]] \in M
      BY <2>6, <2>8
    <2>10. k <= size[step[w]]
      BY <2>4, <2>9
    <2> QED BY <2>5, <2>7, <2>8, <2>10
  <1>3. bad = {}
    BY <1>2
  <1> QED BY <1>3 DEF bad

-----------------------------------------------------------------------------
(* Where vias between boxes lead                                           *)

\* what is at a location between those of a box's ends is between its ends
LEMMA WithinEnds ==
  ASSUME NEW l \in GridLayers
  PROVE  /\ \A s, t, u \in Range0(NumTracks[l]) :
              TrackLoc[l][t] \in In(Intvl(TrackLoc[l][s], TrackLoc[l][u])) => t \in s .. u
         /\ \A s, t, u \in Range0(NumCrossPoints[l]) :
              CrossPointLoc[l][t] \in In(Intvl(CrossPointLoc[l][s], CrossPointLoc[l][u])) => t \in s .. u
  <1>1. ASSUME NEW s \in Range0(NumTracks[l]), NEW t \in Range0(NumTracks[l]), NEW u \in Range0(NumTracks[l]),
               TrackLoc[l][t] \in In(Intvl(TrackLoc[l][s], TrackLoc[l][u]))
        PROVE  t \in s .. u
    <2>1. /\ s \in Int /\ t \in Int /\ u \in Int
          /\ TrackLoc[l][s] \in Int /\ TrackLoc[l][t] \in Int /\ TrackLoc[l][u] \in Int
          /\ (s <= t <=> TrackLoc[l][s] <= TrackLoc[l][t])
          /\ (t <= u <=> TrackLoc[l][t] <= TrackLoc[l][u])
      BY TrackOrder
    <2> QED BY <1>1, <2>1 DEF In, Intvl
  <1>2. ASSUME NEW s \in Range0(NumCrossPoints[l]), NEW t \in Range0(NumCrossPoints[l]),
               NEW u \in Range0(NumCrossPoints[l]),
               CrossPointLoc[l][t] \in In(Intvl(CrossPointLoc[l][s], CrossPointLoc[l][u]))
        PROVE  t \in s .. u
    <2>1. /\ s \in Int /\ t \in Int /\ u \in Int
          /\ CrossPointLoc[l][s] \in Int /\ CrossPointLoc[l][t] \in Int /\ CrossPointLoc[l][u] \in Int
          /\ (s <= t <=> CrossPointLoc[l][s] <= CrossPointLoc[l][t])
          /\ (t <= u <=> CrossPointLoc[l][t] <= CrossPointLoc[l][u])
      BY CrossPointOrder
    <2> QED BY <1>2, <2>1 DEF In, Intvl
  <1> QED BY <1>1, <1>2

\* where the tracks and cross points of a box are
TrackLocs(b) == Intvl(TrackLoc[b.layer][b.tracks.low], TrackLoc[b.layer][b.tracks.high])

\* the locations of a box, across and along its own tracks and those next to it
LEMMA LocBoxExtents ==
  ASSUME NEW b \in GridBoxes, InTables(b)
  PROVE  /\ Across(b.layer, getLocBox(b)) = TrackLocs(b) /\ Along(b.layer, getLocBox(b)) = CpLocs(b)
         /\ \A l \in GridLayers : b.layer = l + 1 =>
              Across(l, getLocBox(b)) = CpLocs(b) /\ Along(l, getLocBox(b)) = TrackLocs(b)
         /\ TrackLocs(b) \in Interval /\ CpLocs(b) \in Interval
  <1> DEFINE k == b.layer
  <1>1. k \in GridLayers
    BY DEF GridBoxes
  <1>2. Across(k, getLocBox(b)) = TrackLocs(b) /\ Along(k, getLocBox(b)) = CpLocs(b)
    BY DEF getLocBox, BoxAt, Box, Across, Along, TrackLocs, CpLocs
  <1>3. ASSUME NEW l \in GridLayers, k = l + 1
        PROVE  Across(l, getLocBox(b)) = CpLocs(b) /\ Along(l, getLocBox(b)) = TrackLocs(b)
    <2>1. l \in TrackIsX <=> k \notin TrackIsX
      BY <1>1, <1>3, DirectionAssumption
    <2> QED BY <2>1 DEF getLocBox, BoxAt, Box, Across, Along, TrackLocs, CpLocs
  <1>4. TrackLocs(b) \in Interval /\ CpLocs(b) \in Interval
    <2>1. /\ TrackLoc[k][b.tracks.low] \in Int /\ TrackLoc[k][b.tracks.high] \in Int
          /\ CrossPointLoc[k][b.cps.low] \in Int /\ CrossPointLoc[k][b.cps.high] \in Int
      BY <1>1, GridAssumption DEF InTables
    <2> QED BY <2>1 DEF TrackLocs, CpLocs, Intvl, Interval
  <1> QED BY <1>2, <1>3, <1>4

\* a via from a track in the via box of two boxes leads to a cross point of the
\* other, and the track is one of its own box
LEMMA ViaBoxInside ==
  ASSUME NEW a \in GridBoxes, InTables(a), NEW b \in GridBoxes, InTables(b), b.layer = a.layer + 1,
         NEW v, v = getViaBoxBetween(a, b), isValidViaBox(v)
  PROVE  /\ v.lower.tracks \in Interval /\ v.upper.tracks \in Interval
         /\ IsValid(v.lower.tracks) /\ IsValid(v.upper.tracks)
         /\ \A t \in In(v.lower.tracks) :
              t \in Range0(NumTracks[a.layer]) /\ t \in In(a.tracks) /\ UpperCrossPoint[a.layer][t] \in In(b.cps)
         /\ \A t \in In(v.upper.tracks) :
              t \in Range0(NumTracks[b.layer]) /\ t \in In(b.tracks) /\ LowerCrossPoint(b.layer, t) \in In(a.cps)
  <1> DEFINE l == a.layer
             box == BoxIntersect(l, getLocBox(a), getLocBox(b))
             common == rangeSearch(box)
             above == v.upper
  <1>1. /\ l \in GridLayers /\ l + 1 \in GridLayers
        /\ common \in GridBoxes /\ common.layer = l /\ isValid(common)
        /\ above \in GridBoxes /\ above.layer = l + 1 /\ isValid(above)
        /\ above.tracks = rangeSearchTrack(l + 1, CpLocs(common))
        /\ above.cps = getUpperCrossPointRange(l, common.tracks)
        /\ isValid(v.lower) /\ v.lower.tracks = rangeSearchTrack(l, CpLocs(above))
        /\ v.lower.tracks \in Interval /\ above.tracks \in Interval /\ v.lower.layer = l
        /\ \A t \in In(v.lower.tracks) : t \in Range0(NumTracks[l])
        /\ \A t \in In(above.tracks) : t \in Range0(NumTracks[l + 1])
    <2>1. l \in GridLayers
      BY DEF GridBoxes
    <2> QED BY <2>1, ViaBoxType
  <1>2. /\ IntersectWith(TrackLocs(a), CpLocs(b)) \in Interval
        /\ IntersectWith(CpLocs(a), TrackLocs(b)) \in Interval
        /\ \A x : x \in In(IntersectWith(TrackLocs(a), CpLocs(b))) <=> x \in In(TrackLocs(a)) /\ x \in In(CpLocs(b))
        /\ \A x : x \in In(IntersectWith(CpLocs(a), TrackLocs(b))) <=> x \in In(CpLocs(a)) /\ x \in In(TrackLocs(b))
    BY LocBoxExtents, IntersectFacts
  <1>3. /\ Across(l, box) = IntersectWith(TrackLocs(a), CpLocs(b))
        /\ Along(l, box) = IntersectWith(CpLocs(a), TrackLocs(b))
    <2>1. /\ Across(l, box) = IntersectWith(Across(l, getLocBox(a)), Across(l, getLocBox(b)))
          /\ Along(l, box) = IntersectWith(Along(l, getLocBox(a)), Along(l, getLocBox(b)))
      BY DEF Across, Along, BoxIntersect, Box
    <2> HIDE DEF box
    <2> QED BY <1>1, <2>1, LocBoxExtents
  <1>4. /\ common.tracks = rangeSearchTrack(l, Across(l, box))
        /\ common.cps = rangeSearchCrossPoint(l, Along(l, box))
    BY DEF rangeSearch, GridBox, BoxIntersect, Box
  <1> HIDE DEF box, common, above
  <1>5. /\ \A t \in Int : t \in In(common.tracks) <=>
              t \in Range0(NumTracks[l]) /\ TrackLoc[l][t] \in In(TrackLocs(a)) /\ TrackLoc[l][t] \in In(CpLocs(b))
        /\ \A c \in Int : c \in In(common.cps) <=>
              c \in Range0(NumCrossPoints[l]) /\ CrossPointLoc[l][c] \in In(CpLocs(a))
              /\ CrossPointLoc[l][c] \in In(TrackLocs(b))
    <2>1. FindsCrossPoints(l, Along(l, box), common.cps)
      BY <1>1, <1>2, <1>3, <1>4, CrossPointSearch
    <2> QED BY <1>1, <1>2, <1>3, <1>4, <2>1, TrackSearch DEF FindsCrossPoints
  <1>6. /\ {a.tracks.low, a.tracks.high} \subseteq Range0(NumTracks[l])
        /\ {a.cps.low, a.cps.high} \subseteq Range0(NumCrossPoints[l])
        /\ {b.tracks.low, b.tracks.high} \subseteq Range0(NumTracks[l + 1])
        /\ {b.cps.low, b.cps.high} \subseteq Range0(NumCrossPoints[l + 1])
    BY DEF InTables
  <1>7. /\ {common.tracks.low, common.tracks.high} \subseteq Range0(NumTracks[l])
        /\ {common.cps.low, common.cps.high} \subseteq Range0(NumCrossPoints[l])
        /\ {above.cps.low, above.cps.high} \subseteq Range0(NumCrossPoints[l + 1])
    <2>1. /\ common.tracks \in Interval /\ common.cps \in Interval /\ above.cps \in Interval
          /\ NumTracks[l] \in Nat /\ NumCrossPoints[l] \in Nat /\ NumCrossPoints[l + 1] \in Nat
      BY <1>1, GridAssumption DEF GridBoxes
    <2> QED BY <1>1, <2>1 DEF isValid, isTrackRangeValid, IsValid, Interval, Range0
  <1>8. ASSUME NEW t \in In(above.tracks)
        PROVE  t \in In(b.tracks) /\ LowerCrossPoint(l + 1, t) \in In(a.cps)
    <2> DEFINE c == LowerCrossPoint(l + 1, t)
    <2>1. t \in Range0(NumTracks[l + 1]) /\ t \in Int
      BY <1>1 DEF Range0
    <2>2. c \in Range0(NumCrossPoints[l]) /\ UpperTrack[l][c] = t /\ c \in Int
      BY <1>1, <2>1, LowerCrossPointOf DEF Range0
    <2>3. TrackLoc[l + 1][t] = CrossPointLoc[l][c]
      <3>1. t # -1
        BY <1>1, <2>1, GridAssumption DEF Range0
      <3> HIDE DEF c
      <3> QED BY <1>1, <2>2, <3>1, CrossPointAssumption
    <2>4. TrackLoc[l + 1][t] \in In(CpLocs(common))
      BY <1>1, <2>1, CpLocsType, TrackSearch
    <2>5. c \in common.cps.low .. common.cps.high
      <3> HIDE DEF c
      <3> QED BY <1>1, <1>7, <2>2, <2>3, <2>4, WithinEnds DEF CpLocs
    <2>6. CrossPointLoc[l][c] \in In(CpLocs(a)) /\ CrossPointLoc[l][c] \in In(TrackLocs(b))
      <3> HIDE DEF c
      <3> QED BY <1>5, <2>2, <2>5 DEF In
    <2>7. c \in a.cps.low .. a.cps.high
      <3> HIDE DEF c
      <3> QED BY <1>1, <1>6, <2>2, <2>6, WithinEnds DEF CpLocs
    <2>8. t \in b.tracks.low .. b.tracks.high
      BY <1>1, <1>6, <2>1, <2>3, <2>6, WithinEnds DEF TrackLocs
    <2> QED BY <2>7, <2>8 DEF In
  <1>9. ASSUME NEW t \in In(v.lower.tracks)
        PROVE  t \in In(a.tracks) /\ UpperCrossPoint[l][t] \in In(b.cps)
    <2> DEFINE c == UpperCrossPoint[l][t]
    <2>1. t \in Range0(NumTracks[l]) /\ t \in Int
      BY <1>1 DEF Range0
    <2>2. c \in Range0(NumCrossPoints[l + 1]) /\ CrossPointLoc[l + 1][c] = TrackLoc[l][t]
      BY <1>1, <2>1, CrossPointAssumption
    <2>3. TrackLoc[l][t] \in In(CpLocs(above))
      BY <1>1, <2>1, CpLocsType, TrackSearch
    <2>4. CpLocs(above) = TrackLocs(common)
      <3>1. /\ above.cps.low = UpperCrossPoint[l][common.tracks.low]
            /\ above.cps.high = UpperCrossPoint[l][common.tracks.high]
        BY <1>1 DEF getUpperCrossPointRange, Intvl
      <3>2. /\ CrossPointLoc[l + 1][above.cps.low] = TrackLoc[l][common.tracks.low]
            /\ CrossPointLoc[l + 1][above.cps.high] = TrackLoc[l][common.tracks.high]
        BY <1>1, <1>7, <3>1, CrossPointAssumption
      <3> QED BY <1>1, <3>2 DEF CpLocs, TrackLocs
    <2>5. t \in common.tracks.low .. common.tracks.high
      BY <1>1, <1>7, <2>1, <2>3, <2>4, WithinEnds DEF TrackLocs
    <2>6. TrackLoc[l][t] \in In(TrackLocs(a)) /\ TrackLoc[l][t] \in In(CpLocs(b))
      BY <1>5, <2>1, <2>5 DEF In
    <2>7. t \in a.tracks.low .. a.tracks.high
      BY <1>1, <1>6, <2>1, <2>6, WithinEnds DEF TrackLocs
    <2>8. c \in b.cps.low .. b.cps.high
      <3> HIDE DEF c
      <3> QED BY <1>1, <1>6, <2>2, <2>6, WithinEnds DEF CpLocs
    <2> QED BY <2>7, <2>8 DEF In
  <1>10. IsValid(v.lower.tracks) /\ IsValid(v.upper.tracks)
    BY <1>1 DEF isValid, isTrackRangeValid, above
  <1> QED BY <1>1, <1>8, <1>9, <1>10 DEF above

-----------------------------------------------------------------------------
(* Where a visit leads                                                     *)

\* a net whose guides and access boxes are on the grid, with its connections
Ready(net) ==
  /\ net.gridGuides \in Seq(GridBoxes)
  /\ \A g \in DOMAIN net.gridGuides : InTables(net.gridGuides[g])
  /\ InPairs(net.gridGuides, Disjoint)
  /\ net.access \in Seq(Seq(GridBoxes))
  /\ \A p \in DOMAIN net.access : \A a \in DOMAIN net.access[p] : InTables(net.access[p][a])
  /\ net.pinConn = pinGuideConn(net.gridGuides, net.access)
  /\ net.conn = guideConn(net.gridGuides)

\* the tracks of a guide that an access box of a pin has, too
FromPin(net, p, ga) ==
  GuideVisit(ga[1], IntersectWith(net.gridGuides[ga[1]].tracks, net.access[p][ga[2]].tracks))
Touches(net, g, tracks, p) ==
  \E ga \in net.pinConn[p] : ga[1] = g /\ HasIntersectWith(tracks, net.access[p][ga[2]].tracks)

\* a visit leads to another
Leads(net, v, u) ==
  IF v.pin > 0 THEN \E ga \in net.pinConn[v.pin] : u = FromPin(net, v.pin, ga)
  ELSE \/ \E h \in net.conn[v.guide] : /\ JoinedFrom(net, v.guide, v.tracks, h)
                                       /\ u = GuideVisit(h, JoiningTracks(net, v.guide, h))
       \/ \E p \in DOMAIN net.access : Touches(net, v.guide, v.tracks, p) /\ u = PinVisit(p)

\* boxes that are connected meet on a layer, or have a via between them
LEMMA ConnectedFacts ==
  ASSUME NEW a \in GridBoxes, NEW b \in GridBoxes, isConnected(a, b)
  PROVE  /\ isValid(a) /\ isValid(b)
         /\ a.layer = b.layer => HasIntersectWith(a.tracks, b.tracks) /\ HasIntersectWith(a.cps, b.cps)
         /\ a.layer < b.layer => b.layer = a.layer + 1 /\ isValidViaBox(getViaBoxBetween(a, b))
         /\ b.layer < a.layer => a.layer = b.layer + 1 /\ isValidViaBox(getViaBoxBetween(b, a))
  <1>1. a.layer \in Int /\ b.layer \in Int
    BY DEF GridBoxes, GridLayers
  <1>2. isValid(a) /\ isValid(b) /\ a.layer - b.layer \in -1 .. 1
    BY DEF isConnected
  <1>3. CASE a.layer = b.layer
    BY <1>1, <1>2, <1>3 DEF isConnected
  <1>4. CASE a.layer < b.layer
    <2>1. a.layer # b.layer /\ ~(b.layer < a.layer) /\ b.layer = a.layer + 1
      BY <1>1, <1>2, <1>4
    <2>2. isValidViaBox(getViaBoxBetween(a, b))
      BY <1>4, <2>1 DEF isConnected
    <2> QED BY <1>2, <2>1, <2>2
  <1>5. CASE b.layer < a.layer
    <2>1. a.layer # b.layer /\ ~(a.layer < b.layer) /\ a.layer = b.layer + 1
      BY <1>1, <1>2, <1>5
    <2>2. isValidViaBox(getViaBoxBetween(b, a))
      BY <1>5, <2>1 DEF isConnected
    <2> QED BY <1>2, <2>1, <2>2
  <1> QED BY <1>1, <1>3, <1>4, <1>5

\* what the connections of a net are
LEMMA ReadyFacts ==
  ASSUME NEW net, Ready(net)
  PROVE  /\ DOMAIN net.gridGuides = 1 .. Len(net.gridGuides) /\ Len(net.gridGuides) \in Nat
         /\ DOMAIN net.access = 1 .. Len(net.access) /\ Len(net.access) \in Nat
         /\ \A g \in DOMAIN net.gridGuides :
              /\ net.gridGuides[g] \in GridBoxes /\ InTables(net.gridGuides[g])
              /\ IsFiniteSet(net.conn[g])
              /\ \A h : h \in net.conn[g] <=> /\ h \in DOMAIN net.gridGuides /\ h # g
                                             /\ isConnected(net.gridGuides[g], net.gridGuides[h])
         /\ \A p \in DOMAIN net.access :
              /\ IsFiniteSet(net.pinConn[p])
              /\ \A a \in DOMAIN net.access[p] : net.access[p][a] \in GridBoxes /\ InTables(net.access[p][a])
              /\ \A ga \in net.pinConn[p] :
                   /\ ga = <<ga[1], ga[2]>> /\ ga[1] \in DOMAIN net.gridGuides /\ ga[2] \in DOMAIN net.access[p]
                   /\ ga[1] \in Nat /\ ga[2] \in Nat
                   /\ isConnected(net.gridGuides[ga[1]], net.access[p][ga[2]])
              /\ \A g \in DOMAIN net.gridGuides : \A a \in DOMAIN net.access[p] :
                   isConnected(net.gridGuides[g], net.access[p][a]) => <<g, a>> \in net.pinConn[p]
  <1> DEFINE G == net.gridGuides
             A == net.access
  <1>1. /\ G \in Seq(GridBoxes) /\ A \in Seq(Seq(GridBoxes))
        /\ \A g \in DOMAIN G : InTables(G[g])
        /\ \A p \in DOMAIN A : \A a \in DOMAIN A[p] : InTables(A[p][a])
        /\ net.pinConn = [p \in DOMAIN A |-> {ga \in (DOMAIN G) \X (DOMAIN A[p]) : isConnected(G[ga[1]], A[p][ga[2]])}]
        /\ net.conn = [g \in DOMAIN G |-> {h \in DOMAIN G \ {g} : isConnected(G[g], G[h])}]
    BY DEF Ready, pinGuideConn, guideConn
  <1> HIDE DEF G, A
  <1>2. /\ DOMAIN G = 1 .. Len(G) /\ Len(G) \in Nat /\ DOMAIN A = 1 .. Len(A) /\ Len(A) \in Nat
        /\ \A g \in DOMAIN G : G[g] \in GridBoxes
        /\ \A p \in DOMAIN A : A[p] \in Seq(GridBoxes)
    BY <1>1, LenProperties
  <1>3. \A p \in DOMAIN A : /\ DOMAIN A[p] = 1 .. Len(A[p]) /\ Len(A[p]) \in Nat
                            /\ \A a \in DOMAIN A[p] : A[p][a] \in GridBoxes
    BY <1>2, LenProperties
  <1>4. \A n \in Nat : IsFiniteSet(1 .. n)
    BY FS_Interval
  <1>5. ASSUME NEW g \in DOMAIN G
        PROVE  /\ IsFiniteSet(net.conn[g])
               /\ \A h : h \in net.conn[g] <=> h \in DOMAIN G /\ h # g /\ isConnected(G[g], G[h])
    <2>1. net.conn[g] = {h \in DOMAIN G \ {g} : isConnected(G[g], G[h])}
      BY <1>1
    <2>2. IsFiniteSet(DOMAIN G) /\ net.conn[g] \subseteq DOMAIN G
      BY <1>2, <1>4, <2>1
    <2> QED BY <2>1, <2>2, FS_Subset
  <1>6. ASSUME NEW p \in DOMAIN A
        PROVE  /\ IsFiniteSet(net.pinConn[p])
               /\ \A ga \in net.pinConn[p] :
                    /\ ga = <<ga[1], ga[2]>> /\ ga[1] \in DOMAIN G /\ ga[2] \in DOMAIN A[p]
                    /\ ga[1] \in Nat /\ ga[2] \in Nat
                    /\ isConnected(G[ga[1]], A[p][ga[2]])
               /\ \A g \in DOMAIN G : \A a \in DOMAIN A[p] :
                    isConnected(G[g], A[p][a]) => <<g, a>> \in net.pinConn[p]
    <2>1. net.pinConn[p] = {ga \in (DOMAIN G) \X (DOMAIN A[p]) : isConnected(G[ga[1]], A[p][ga[2]])}
      BY <1>1
    <2>2. IsFiniteSet((DOMAIN G) \X (DOMAIN A[p]))
      BY <1>2, <1>3, <1>4, FS_Product
    <2>3. IsFiniteSet(net.pinConn[p])
      <3>1. net.pinConn[p] \subseteq (DOMAIN G) \X (DOMAIN A[p])
        BY <2>1
      <3> QED BY <2>2, <3>1, FS_Subset
    <2>4. \A ga \in net.pinConn[p] :
            /\ ga = <<ga[1], ga[2]>> /\ ga[1] \in DOMAIN G /\ ga[2] \in DOMAIN A[p]
            /\ isConnected(G[ga[1]], A[p][ga[2]])
      BY <2>1
    <2>5. \A g \in DOMAIN G : g \in Nat
      BY <1>2
    <2>6. \A a \in DOMAIN A[p] : a \in Nat
      BY <1>3
    <2>7. \A g \in DOMAIN G : \A a \in DOMAIN A[p] :
            isConnected(G[g], A[p][a]) => <<g, a>> \in net.pinConn[p]
      BY <2>1
    <2> QED BY <2>3, <2>4, <2>5, <2>6, <2>7
  <1> QED BY <1>1, <1>2, <1>3, <1>5, <1>6 DEF G, A

\* a set of numbers in order
LEMMA AscendingFacts ==
  ASSUME NEW S \in SUBSET Int, IsFiniteSet(S)
  PROVE  Ascending(S) \in Seq(S) /\ Elements(Ascending(S)) = S
  <1> DEFINE rank == [i \in S |-> <<i, i>>]
             s == InOrder(S, rank)
  <1>1. rank \in [S -> Int \X Int]
    OBVIOUS
  <1> HIDE DEF rank
  <1>2. InOrderOf(s, S, rank)
    BY <1>1, InOrderFacts
  <1>3. Ascending(S) = s
    BY DEF Ascending, rank
  <1> HIDE DEF s
  <1>4. s \in Seq(S) /\ \A e \in S : \E i \in DOMAIN s : s[i] = e
    BY <1>2 DEF InOrderOf
  <1>5. \A i \in DOMAIN s : s[i] \in S
    BY <1>4, LenProperties
  <1> QED BY <1>3, <1>4, <1>5 DEF Elements

\* what a visit to a pin leads to
LEMMA PinNext ==
  ASSUME NEW net, Ready(net), NEW p \in DOMAIN net.access
  PROVE  /\ VisitNext(net, PinVisit(p)) \in Seq(Visits(net))
         /\ \A u : u \in Elements(VisitNext(net, PinVisit(p))) <=> Leads(net, PinVisit(p), u)
  <1> DEFINE S == net.pinConn[p]
             rank == [ga \in S |-> <<ga[2], ga[1]>>]
             s == InOrder(S, rank)
             f == [ga \in S |-> FromPin(net, p, ga)]
             r == [i \in DOMAIN s |-> f[s[i]]]
  <1>1. /\ IsFiniteSet(S) /\ p \in Nat /\ p > 0
        /\ \A ga \in S : /\ ga[1] \in DOMAIN net.gridGuides /\ ga[2] \in DOMAIN net.access[p]
                         /\ ga[1] \in Nat /\ ga[2] \in Nat
                         /\ net.gridGuides[ga[1]] \in GridBoxes /\ net.access[p][ga[2]] \in GridBoxes
    BY ReadyFacts
  <1>2. PinVisit(p).pin = p /\ PinVisit(p).pin > 0
    BY <1>1 DEF PinVisit
  <1>3. rank \in [S -> Int \X Int]
    BY <1>1
  <1> HIDE DEF rank
  <1>4. s \in Seq(S) /\ Elements(s) = S
    <2>1. InOrderOf(s, S, rank)
      BY <1>1, <1>3, InOrderFacts
    <2>2. s \in Seq(S) /\ \A e \in S : \E i \in DOMAIN s : s[i] = e
      BY <2>1 DEF InOrderOf
    <2> HIDE DEF s, S
    <2>3. \A i \in DOMAIN s : s[i] \in S
      BY <2>2, LenProperties
    <2> QED BY <2>2, <2>3 DEF Elements
  <1>5. ASSUME NEW ga \in S PROVE f[ga] = FromPin(net, p, ga) /\ f[ga] \in Visits(net)
    <2> DEFINE g == ga[1]
               tracks == IntersectWith(net.gridGuides[g].tracks, net.access[p][ga[2]].tracks)
    <2>1. net.gridGuides[g].tracks \in Interval /\ net.access[p][ga[2]].tracks \in Interval
      BY <1>1 DEF GridBoxes
    <2>2. tracks \in Interval /\ In(tracks) \subseteq In(net.gridGuides[g].tracks)
      BY <2>1, IntersectFacts
    <2>3. f[ga] = FromPin(net, p, ga) /\ FromPin(net, p, ga) = GuideVisit(g, tracks)
      BY DEF FromPin
    <2> HIDE DEF tracks, f
    <2> QED BY <1>1, <2>2, <2>3 DEF GuideVisit, Visits, Interval
  <1>6. VisitNext(net, PinVisit(p)) = r
    <2>1. VisitNext(net, PinVisit(p)) = VisitPin(net, p)
      BY <1>2 DEF VisitNext
    <2>2. VisitPin(net, p) = [i \in DOMAIN s |-> FromPin(net, p, s[i])]
      BY DEF VisitPin, FromPin, rank
    <2>3. \A i \in DOMAIN s : s[i] \in S
      <3> HIDE DEF s, S
      <3> QED BY <1>4 DEF Elements
    <2> HIDE DEF s, f
    <2> QED BY <1>5, <2>1, <2>2, <2>3
  <1>7. r \in Seq(Visits(net)) /\ \A e : e \in Elements(r) <=> \E x \in Elements(s) : e = f[x]
    <2>1. DOMAIN r = DOMAIN s /\ r = [i \in DOMAIN s |-> r[i]] /\ \A i \in DOMAIN s : r[i] = f[s[i]]
      OBVIOUS
    <2>2. \A x \in S : f[x] \in Visits(net)
      BY <1>5
    <2> HIDE DEF s, f, S, r
    <2>3. r \in Seq(Visits(net)) /\ \A e : e \in Elements(r) <=> \E x \in Elements(s) : e = f[x]
      <3>1. \A i \in DOMAIN s : s[i] \in S
        BY <1>4 DEF Elements
      <3>2. \A i \in DOMAIN r : r[i] \in Visits(net)
        BY <2>1, <2>2, <3>1
      <3>3. r \in Seq(Visits(net))
        BY <1>4, <2>1, <3>2, MapType
      <3> QED BY <2>1, <3>3 DEF Elements
    <2> QED BY <2>3
  <1> HIDE DEF r, s, f
  <1>8. \A u : Leads(net, PinVisit(p), u) <=> \E ga \in S : u = FromPin(net, p, ga)
    BY <1>2 DEF Leads
  <1> QED BY <1>4, <1>5, <1>6, <1>7, <1>8

\* and one to some tracks of a guide
LEMMA GuideNext ==
  ASSUME NEW net, Ready(net), NEW g \in DOMAIN net.gridGuides, NEW tracks \in Interval
  PROVE  LET v == GuideVisit(g, tracks)
         IN  /\ VisitNext(net, v) \in Seq(Visits(net))
             /\ \A u : u \in Elements(VisitNext(net, v)) <=> Leads(net, v, u)
  <1> DEFINE v == GuideVisit(g, tracks)
             H == {h \in net.conn[g] : JoinedFrom(net, g, tracks, h)}
             P == {p \in DOMAIN net.access : Touches(net, g, tracks, p)}
             next == Ascending(H)
             pins == Ascending(P)
             onto == [h \in H |-> GuideVisit(h, JoiningTracks(net, g, h))]
             pin == [p \in P |-> PinVisit(p)]
             r1 == [i \in DOMAIN next |-> onto[next[i]]]
             r2 == [i \in DOMAIN pins |-> pin[pins[i]]]
  <1>1. v.pin = 0 /\ v.guide = g /\ v.tracks = tracks
    BY DEF GuideVisit
  <1>2. /\ H \in SUBSET Int /\ IsFiniteSet(H) /\ P \in SUBSET Int /\ IsFiniteSet(P)
        /\ \A h \in H : /\ h \in DOMAIN net.gridGuides /\ isConnected(net.gridGuides[g], net.gridGuides[h])
                        /\ JoinedFrom(net, g, tracks, h)
    <2>1. IsFiniteSet(net.conn[g]) /\ H \subseteq net.conn[g]
      BY ReadyFacts
    <2>2. IsFiniteSet(DOMAIN net.access) /\ P \subseteq DOMAIN net.access /\ DOMAIN net.access \subseteq Int
      <3>1. DOMAIN net.access = 1 .. Len(net.access) /\ Len(net.access) \in Nat
        BY ReadyFacts
      <3> QED BY <3>1, FS_Interval
    <2>3. \A h \in H : /\ h \in DOMAIN net.gridGuides /\ isConnected(net.gridGuides[g], net.gridGuides[h])
                       /\ JoinedFrom(net, g, tracks, h) /\ h \in Int
      BY ReadyFacts
    <2>4. IsFiniteSet(H) /\ IsFiniteSet(P)
      <3> HIDE DEF H, P
      <3> QED BY <2>1, <2>2, FS_Subset
    <2> QED BY <2>2, <2>3, <2>4
  <1>3. /\ next \in Seq(H) /\ Elements(next) = H /\ pins \in Seq(P) /\ Elements(pins) = P
    <2> HIDE DEF H, P
    <2> QED BY <1>2, AscendingFacts
  <1>4. ASSUME NEW h \in H PROVE onto[h] = GuideVisit(h, JoiningTracks(net, g, h)) /\ onto[h] \in Visits(net)
    <2> DEFINE a == net.gridGuides[g]
               b == net.gridGuides[h]
    <2>1. /\ a \in GridBoxes /\ InTables(a) /\ b \in GridBoxes /\ InTables(b) /\ isConnected(a, b)
          /\ h \in DOMAIN net.gridGuides /\ b.layer # a.layer
      BY <1>2, ReadyFacts DEF JoinedFrom
    <2>2. a.layer \in Int /\ b.layer \in Int
      BY <2>1 DEF GridBoxes, GridLayers
    <2>3. JoiningTracks(net, g, h) \in Interval /\ In(JoiningTracks(net, g, h)) \subseteq In(b.tracks)
      <3>1. CASE b.layer > a.layer
        <4>1. b.layer = a.layer + 1 /\ isValidViaBox(getViaBoxBetween(a, b))
          BY <2>1, <2>2, <3>1, ConnectedFacts
        <4>2. JoiningTracks(net, g, h) = getViaBoxBetween(a, b).upper.tracks
          BY <3>1 DEF JoiningTracks
        <4> HIDE DEF a, b
        <4> QED BY <2>1, <4>1, <4>2, ViaBoxInside
      <3>2. CASE b.layer < a.layer
        <4>1. a.layer = b.layer + 1 /\ isValidViaBox(getViaBoxBetween(b, a))
          BY <2>1, <2>2, <3>2, ConnectedFacts
        <4>2. JoiningTracks(net, g, h) = getViaBoxBetween(b, a).lower.tracks
          <5>1. ~(b.layer > a.layer)
            BY <2>2, <3>2
          <5> QED BY <5>1 DEF JoiningTracks
        <4> HIDE DEF a, b
        <4> QED BY <2>1, <4>1, <4>2, ViaBoxInside
      <3> QED BY <2>1, <2>2, <3>1, <3>2
    <2>4. onto[h] = GuideVisit(h, JoiningTracks(net, g, h))
      OBVIOUS
    <2> QED BY <2>1, <2>3, <2>4 DEF GuideVisit, Visits, Interval
  <1>5. ASSUME NEW p \in P PROVE pin[p] = PinVisit(p) /\ pin[p] \in Visits(net)
    BY DEF Visits
  <1> HIDE DEF H, P, onto, pin
  <1>6. /\ r1 \in Seq(Visits(net)) /\ \A e : e \in Elements(r1) <=> \E h \in H : e = onto[h]
        /\ r2 \in Seq(Visits(net)) /\ \A e : e \in Elements(r2) <=> \E p \in P : e = pin[p]
    <2>1. /\ DOMAIN r1 = DOMAIN next /\ r1 = [i \in DOMAIN next |-> r1[i]]
          /\ DOMAIN r2 = DOMAIN pins /\ r2 = [i \in DOMAIN pins |-> r2[i]]
          /\ \A i \in DOMAIN next : r1[i] = onto[next[i]]
          /\ \A i \in DOMAIN pins : r2[i] = pin[pins[i]]
      OBVIOUS
    <2>2. \A h \in H : onto[h] \in Visits(net)
      BY <1>4
    <2>3. \A p \in P : pin[p] \in Visits(net)
      BY <1>5
    <2> HIDE DEF next, pins, r1, r2
    <2>4. r1 \in Seq(Visits(net)) /\ \A e : e \in Elements(r1) <=> \E x \in Elements(next) : e = onto[x]
      <3>1. \A i \in DOMAIN next : next[i] \in H
        BY <1>3 DEF Elements
      <3>2. \A i \in DOMAIN r1 : r1[i] \in Visits(net)
        BY <2>1, <2>2, <2>3, <3>1
      <3>3. r1 \in Seq(Visits(net))
        BY <1>3, <2>1, <3>2, MapType
      <3> QED BY <2>1, <3>3 DEF Elements
    <2>5. r2 \in Seq(Visits(net)) /\ \A e : e \in Elements(r2) <=> \E x \in Elements(pins) : e = pin[x]
      <3>1. \A i \in DOMAIN pins : pins[i] \in P
        BY <1>3 DEF Elements
      <3>2. \A i \in DOMAIN r2 : r2[i] \in Visits(net)
        BY <2>1, <2>2, <2>3, <3>1
      <3>3. r2 \in Seq(Visits(net))
        BY <1>3, <2>1, <3>2, MapType
      <3> QED BY <2>1, <3>3 DEF Elements
    <2> QED BY <1>3, <2>4, <2>5
  <1>7. VisitNext(net, v) = r1 \o r2
    <2>1. VisitNext(net, v) = VisitGuide(net, g, tracks)
      BY <1>1 DEF VisitNext
    <2>2. VisitGuide(net, g, tracks) =
            [i \in DOMAIN next |-> GuideVisit(next[i], JoiningTracks(net, g, next[i]))]
            \o [i \in DOMAIN pins |-> PinVisit(pins[i])]
      BY DEF VisitGuide, Touches, H, P
    <2>3. /\ \A i \in DOMAIN next : next[i] \in H
          /\ \A i \in DOMAIN pins : pins[i] \in P
      <3> HIDE DEF next, pins
      <3> QED BY <1>3 DEF Elements
    <2>4. r1 = [i \in DOMAIN next |-> GuideVisit(next[i], JoiningTracks(net, g, next[i]))]
      <3> HIDE DEF next
      <3> QED BY <1>4, <2>3
    <2>5. r2 = [i \in DOMAIN pins |-> PinVisit(pins[i])]
      <3> HIDE DEF pins
      <3> QED BY <1>5, <2>3
    <2> QED BY <2>1, <2>2, <2>4, <2>5
  <1> HIDE DEF r1, r2, v
  <1>8. VisitNext(net, v) \in Seq(Visits(net))
        /\ \A e : e \in Elements(VisitNext(net, v)) <=> e \in Elements(r1) \/ e \in Elements(r2)
    BY <1>6, <1>7, ConcatElements
  <1>9. \A u : Leads(net, v, u) <=> \/ \E h \in H : u = GuideVisit(h, JoiningTracks(net, g, h))
                                    \/ \E p \in P : u = PinVisit(p)
    BY <1>1 DEF Leads, H, P
  <1>10. \A u : u \in Elements(VisitNext(net, v)) <=> Leads(net, v, u)
    BY <1>4, <1>5, <1>6, <1>8, <1>9
  <1> QED BY <1>8, <1>10 DEF v

\* a visit is to a pin, or to tracks of a guide
LEMMA VisitFacts ==
  ASSUME NEW net, Ready(net), NEW v \in Visits(net)
  PROVE  /\ \/ /\ v.pin \in DOMAIN net.access /\ v.pin > 0 /\ v = PinVisit(v.pin)
               /\ \A m : m \in Marks(v) <=> m = <<v.pin, 0, v.pin>>
            \/ /\ v.pin = 0 /\ v.guide \in DOMAIN net.gridGuides /\ v.tracks \in Interval
               /\ v = GuideVisit(v.guide, v.tracks)
               /\ In(v.tracks) \subseteq In(net.gridGuides[v.guide].tracks)
               /\ \A m : m \in Marks(v) <=> \E t \in In(v.tracks) : m = <<0, v.guide, t>>
         /\ Marks(v) \subseteq AllMarks(net)
  <1>1. CASE \E p \in DOMAIN net.access : v = PinVisit(p)
    <2>1. PICK p \in DOMAIN net.access : v = PinVisit(p)
      BY <1>1
    <2>2. p \in Nat /\ p > 0
      BY ReadyFacts
    <2>3. v.pin = p /\ v.guide = 0 /\ v.tracks = Intvl(p, p)
      BY <2>1 DEF PinVisit
    <2>4. \A t : t \in In(v.tracks) <=> t = p
      BY <2>2, <2>3 DEF In, Intvl
    <2>5. \A m : m \in Marks(v) <=> m = <<p, 0, p>>
      BY <2>3, <2>4 DEF Marks
    <2>6. Marks(v) \subseteq AllMarks(net)
      BY <2>5 DEF AllMarks
    <2> QED BY <2>1, <2>2, <2>3, <2>5, <2>6
  <1>2. CASE v \in [pin : {0}, guide : DOMAIN net.gridGuides, tracks : [low : Int, high : Int]]
             /\ In(v.tracks) \subseteq In(net.gridGuides[v.guide].tracks)
    <2>1. v.pin = 0 /\ v.guide \in DOMAIN net.gridGuides /\ v.tracks \in Interval
          /\ v = [pin |-> v.pin, guide |-> v.guide, tracks |-> v.tracks]
      BY <1>2 DEF Interval
    <2>2. v = GuideVisit(v.guide, v.tracks)
      BY <2>1 DEF GuideVisit
    <2>3. \A m : m \in Marks(v) <=> \E t \in In(v.tracks) : m = <<0, v.guide, t>>
      BY <2>1 DEF Marks
    <2>4. Marks(v) \subseteq AllMarks(net)
      BY <1>2, <2>1, <2>3 DEF AllMarks
    <2> QED BY <1>2, <2>1, <2>2, <2>3, <2>4
  <1> QED BY <1>1, <1>2 DEF Visits

\* there are finitely many tracks and pins to mark
LEMMA AllMarksFinite ==
  ASSUME NEW net, Ready(net)
  PROVE  IsFiniteSet(AllMarks(net))
  <1> DEFINE G == DOMAIN net.gridGuides
             A == DOMAIN net.access
             pin == [p \in A |-> <<p, 0, p>>]
             track(g) == [t \in In(net.gridGuides[g].tracks) |-> <<0, g, t>>]
             tracks == [g \in G |-> {<<0, g, t>> : t \in In(net.gridGuides[g].tracks)}]
  <1>1. IsFiniteSet(A) /\ IsFiniteSet(G)
    <2>1. A = 1 .. Len(net.access) /\ Len(net.access) \in Nat /\ G = 1 .. Len(net.gridGuides) /\ Len(net.gridGuides) \in Nat
      BY ReadyFacts
    <2>2. \A n \in Nat : IsFiniteSet(1 .. n)
      BY FS_Interval
    <2> QED BY <2>1, <2>2
  <1>2. IsFiniteSet({pin[p] : p \in A})
    <2> HIDE DEF pin, A
    <2> QED BY <1>1, ImageFinite
  <1>3. ASSUME NEW g \in G PROVE IsFiniteSet(tracks[g])
    <2>1. net.gridGuides[g].tracks \in Interval
      BY ReadyFacts DEF GridBoxes
    <2>2. IsFiniteSet(In(net.gridGuides[g].tracks))
      BY <2>1, InFinite
    <2>3. IsFiniteSet({track(g)[t] : t \in In(net.gridGuides[g].tracks)})
      BY <2>2, ImageFinite
    <2>4. {track(g)[t] : t \in In(net.gridGuides[g].tracks)} = tracks[g]
      OBVIOUS
    <2> QED BY <2>3, <2>4
  <1>4. IsFiniteSet(UNION {tracks[g] : g \in G})
    <2> HIDE DEF tracks, G
    <2> QED BY <1>1, <1>3, UnionFinite
  <1> DEFINE ofPins == {pin[p] : p \in A}
             ofGuides == UNION {tracks[g] : g \in G}
  <1>5. AllMarks(net) \subseteq ofPins \cup ofGuides
    <2>1. ASSUME NEW m \in AllMarks(net)
          PROVE  (\E p \in A : m = pin[p]) \/ (\E g \in G : m \in tracks[g])
      BY DEF AllMarks
    <2> HIDE DEF pin, tracks, A, G
    <2> QED BY <2>1
  <1>6. IsFiniteSet(ofPins) /\ IsFiniteSet(ofGuides)
    BY <1>2, <1>4
  <1> HIDE DEF ofPins, ofGuides
  <1>7. IsFiniteSet(ofPins \cup ofGuides)
    BY <1>6, FS_Union
  <1> QED BY <1>5, <1>7, FS_Subset

\* how far a search has come: the visits to make and the marks made
Searches(net) == Seq(Visits(net)) \X SUBSET AllMarks(net)

\* A step leaves the first visit if it marks nothing, or else makes it and goes
\* on to all that it leads to.
LEMMA VisitStepFacts ==
  ASSUME NEW net, Ready(net), NEW w \in Searches(net), w[1] # <<>>,
         NEW v, v = Head(w[1]), NEW next, next = VisitStep(net, w)
  PROVE  /\ v \in Visits(net) /\ next \in Searches(net) /\ w[1] \in Seq(Visits(net)) /\ w[2] \subseteq AllMarks(net)
         /\ \A u \in Elements(w[1]) : u = v \/ u \in Elements(Tail(w[1]))
         /\ v \in Elements(w[1]) /\ Elements(Tail(w[1])) \subseteq Elements(w[1])
         /\ \/ Marks(v) \subseteq w[2] /\ next = <<Tail(w[1]), w[2]>> /\ Len(next[1]) = Len(w[1]) - 1
            \/ /\ ~(Marks(v) \subseteq w[2]) /\ next[2] = w[2] \cup Marks(v)
               /\ \A u : u \in Elements(next[1]) <=> Leads(net, v, u) \/ u \in Elements(Tail(w[1]))
  <1> DEFINE todo == w[1]
             rest == Tail(todo)
  <1>1. todo \in Seq(Visits(net)) /\ todo # <<>> /\ w[2] \subseteq AllMarks(net) /\ w = <<w[1], w[2]>>
    BY DEF Searches
  <1>2. /\ v \in Visits(net) /\ rest \in Seq(Visits(net)) /\ Len(rest) = Len(todo) - 1
        /\ v = todo[1] /\ DOMAIN todo = 1 .. Len(todo) /\ Len(todo) \in Nat /\ Len(todo) > 0
        /\ DOMAIN rest = 1 .. Len(todo) - 1 /\ \A i \in 1 .. Len(todo) - 1 : rest[i] = todo[i + 1]
    <2> HIDE DEF todo
    <2>1. v = Head(todo)
      BY DEF todo
    <2> QED BY <1>1, <2>1, HeadTailProperties
  <1> HIDE DEF todo, rest
  <1>3. /\ \A u \in Elements(todo) : u = v \/ u \in Elements(rest)
        /\ v \in Elements(todo) /\ Elements(rest) \subseteq Elements(todo)
    <2>1. ASSUME NEW i \in DOMAIN todo, i # 1 PROVE todo[i] \in Elements(rest)
      <3>1. i - 1 \in DOMAIN rest /\ rest[i - 1] = todo[i - 1 + 1] /\ i - 1 + 1 = i
        BY <1>2, <2>1
      <3> QED BY <3>1 DEF Elements
    <2>2. ASSUME NEW i \in DOMAIN rest PROVE rest[i] \in Elements(todo)
      <3>1. i + 1 \in DOMAIN todo /\ rest[i] = todo[i + 1]
        BY <1>2
      <3> QED BY <3>1 DEF Elements
    <2>3. 1 \in DOMAIN todo
      BY <1>2
    <2> QED BY <1>2, <2>1, <2>2, <2>3 DEF Elements
  <1>4. CASE Marks(v) \subseteq w[2]
    <2>1. next = <<rest, w[2]>>
      BY <1>4 DEF VisitStep, rest, todo
    <2>2. next \in Searches(net) /\ next[1] = rest
      BY <1>1, <1>2, <2>1 DEF Searches
    <2> QED BY <1>1, <1>2, <1>3, <1>4, <2>1, <2>2 DEF rest, todo
  <1>5. CASE ~(Marks(v) \subseteq w[2])
    <2>1. next = <<VisitNext(net, v) \o rest, w[2] \cup Marks(v)>>
      BY <1>5 DEF VisitStep, rest, todo
    <2>2. VisitNext(net, v) \in Seq(Visits(net))
          /\ \A u : u \in Elements(VisitNext(net, v)) <=> Leads(net, v, u)
      BY <1>2, VisitFacts, PinNext, GuideNext
    <2>3. VisitNext(net, v) \o rest \in Seq(Visits(net))
          /\ \A u : u \in Elements(VisitNext(net, v) \o rest) <=> Leads(net, v, u) \/ u \in Elements(rest)
      BY <1>2, <2>2, ConcatElements
    <2>4. Marks(v) \subseteq AllMarks(net)
      BY <1>2, VisitFacts
    <2>5. next \in Searches(net) /\ next[1] = VisitNext(net, v) \o rest /\ next[2] = w[2] \cup Marks(v)
      <3> DEFINE s == VisitNext(net, v) \o rest
                 m == w[2] \cup Marks(v)
      <3>1. s \in Seq(Visits(net)) /\ m \in SUBSET AllMarks(net) /\ next = <<s, m>>
        BY <1>1, <2>1, <2>3, <2>4
      <3> HIDE DEF s, m
      <3>2. next \in Searches(net) /\ next[1] = s /\ next[2] = m
        BY <3>1 DEF Searches
      <3> QED BY <3>2 DEF s, m
    <2> QED BY <1>1, <1>2, <1>3, <1>5, <2>3, <2>5 DEF rest, todo
  <1> QED BY <1>4, <1>5

\* The search ends with what it has marked when nothing is left to visit, in a
\* state of any kind that the beginning is of and that steps keep.
LEMMA VisitedEnds ==
  ASSUME NEW net, Ready(net), NEW first \in Visits(net), NEW J \in SUBSET Searches(net),
         << <<first>>, {} >> \in J,
         \A w \in J : w[1] # <<>> => VisitStep(net, w) \in J
  PROVE  \E y \in J : y[1] = <<>> /\ Visited(net, first) = y[2]
  <1> DEFINE D == Searches(net)
             done == {w \in D : w[1] = <<>>}
             step == [w \in D |-> IF w[1] = <<>> THEN w ELSE VisitStep(net, w)]
             out == [w \in D |-> w[2]]
             goes(f) == f = [w \in D |-> IF w[1] = <<>> THEN w[2] ELSE f[VisitStep(net, w)]]
             visited == CHOOSE f : goes(f)
             left == [w \in J |-> Cardinality(AllMarks(net) \ w[2])]
             size == [w \in J |-> Len(w[1])]
  <1>1. Visited(net, first) = visited[<< <<first>>, {} >>]
    BY DEF Visited, Searches
  <1>2. step \in [D -> D]
    <2>1. \A w \in D : w[1] # <<>> => VisitStep(net, w) \in D
      BY VisitStepFacts
    <2> HIDE DEF D
    <2> QED BY <2>1
  <1>3. \A f : goes(f) <=> GoesOn(f, D, done, step, out)
    <2>1. ASSUME NEW f
          PROVE  [w \in D |-> IF w[1] = <<>> THEN w[2] ELSE f[VisitStep(net, w)]]
                 = [w \in D |-> IF w \in done THEN out[w] ELSE f[step[w]]]
      <3>1. \A w \in D : (w \in done <=> w[1] = <<>>) /\ out[w] = w[2] /\ (w[1] # <<>> => step[w] = VisitStep(net, w))
        OBVIOUS
      <3> HIDE DEF D, done, step, out
      <3> QED BY <3>1
    <2> HIDE DEF D, done, step, out
    <2> QED BY <2>1 DEF GoesOn
  <1>4. GoesOn(visited, D, done, step, out)
    <2>1. \E f : goes(f)
      <3> HIDE DEF goes, D, done, step, out, visited
      <3>1. \E f : GoesOn(f, D, done, step, out)
        BY <1>2, GoesOnExists
      <3> QED BY <1>3, <3>1
    <2>2. goes(visited)
      <3> HIDE DEF goes
      <3> QED BY <2>1
    <2> HIDE DEF goes, visited
    <2> QED BY <1>3, <2>2
  <1>5. \A w \in J : w \in D /\ w[1] \in Seq(Visits(net)) /\ w[2] \subseteq AllMarks(net)
    BY DEF Searches
  <1>6. left \in [J -> Nat] /\ size \in [J -> Nat]
    <2>1. ASSUME NEW w \in J PROVE Cardinality(AllMarks(net) \ w[2]) \in Nat /\ Len(w[1]) \in Nat
      <3>1. IsFiniteSet(AllMarks(net) \ w[2])
        BY AllMarksFinite, FS_Subset
      <3> QED BY <1>5, <3>1, FS_CardinalityType
    <2> QED BY <2>1
  <1>7. ASSUME NEW w \in J, w \notin done
        PROVE  /\ step[w] \in J
               /\ left[step[w]] < left[w] \/ (left[step[w]] = left[w] /\ size[step[w]] < size[w])
    <2> DEFINE v == Head(w[1])
               y == VisitStep(net, w)
    <2>1. w[1] # <<>> /\ step[w] = y /\ y \in J
      BY <1>5, <1>7
    <2>2. left[w] = Cardinality(AllMarks(net) \ w[2]) /\ left[y] = Cardinality(AllMarks(net) \ y[2])
          /\ size[w] = Len(w[1]) /\ size[y] = Len(y[1])
      BY <2>1
    <2>3. \/ Marks(v) \subseteq w[2] /\ y = <<Tail(w[1]), w[2]>> /\ Len(y[1]) = Len(w[1]) - 1
          \/ ~(Marks(v) \subseteq w[2]) /\ y[2] = w[2] \cup Marks(v)
      BY <1>5, <2>1, VisitStepFacts
    <2>4. CASE Marks(v) \subseteq w[2] /\ y = <<Tail(w[1]), w[2]>> /\ Len(y[1]) = Len(w[1]) - 1
      <3>1. y[2] = w[2]
        BY <2>4
      <3>2. Len(w[1]) \in Nat
        BY <1>5
      <3> HIDE DEF y, left, size, step
      <3> QED BY <2>1, <2>2, <2>4, <3>1, <3>2
    <2>5. CASE ~(Marks(v) \subseteq w[2]) /\ y[2] = w[2] \cup Marks(v)
      <3>1. Marks(v) \subseteq AllMarks(net)
        <4>1. v \in Visits(net)
          BY <1>5, <2>1, VisitStepFacts
        <4> QED BY <4>1, VisitFacts
      <3>2. AllMarks(net) \ y[2] \subseteq AllMarks(net) \ w[2] /\ AllMarks(net) \ y[2] # AllMarks(net) \ w[2]
        <4> HIDE DEF y, v
        <4> QED BY <2>5, <3>1
      <3>3. IsFiniteSet(AllMarks(net) \ w[2])
        BY AllMarksFinite, FS_Subset
      <3>4. left[y] < left[w]
        <4> HIDE DEF y, left
        <4>1. /\ Cardinality(AllMarks(net) \ y[2]) <= Cardinality(AllMarks(net) \ w[2])
              /\ Cardinality(AllMarks(net) \ y[2]) # Cardinality(AllMarks(net) \ w[2])
              /\ Cardinality(AllMarks(net) \ y[2]) \in Nat /\ Cardinality(AllMarks(net) \ w[2]) \in Nat
          BY <3>2, <3>3, FS_Subset, FS_CardinalityType
        <4> QED BY <2>2, <4>1
      <3> HIDE DEF y, left, size, step
      <3> QED BY <2>1, <3>4
    <2> QED BY <2>3, <2>4, <2>5
  <1> DEFINE start == << <<first>>, {} >>
  <1>8. start \in J
    OBVIOUS
  <1>9. \E y \in J : y \in done /\ visited[start] = out[y]
    <2> HIDE DEF D, done, step, out, visited, left, size, start
    <2>1. J \in SUBSET D
      BY <1>5
    <2>2. Falls(J, done, step, left, size)
      BY <1>6, <1>7 DEF Falls
    <2>3. \A w \in J : \E y \in J : y \in done /\ visited[w] = out[y]
      BY <1>2, <1>4, <2>1, <2>2, GoesOnEnds
    <2> QED BY <1>8, <2>3
  <1>10. PICK y \in J : y \in done /\ visited[start] = out[y]
    BY <1>9
  <1>11. y[1] = <<>> /\ out[y] = y[2]
    BY <1>10
  <1> HIDE DEF visited, done, out
  <1> QED BY <1>1, <1>10, <1>11

-----------------------------------------------------------------------------
(* All that visits lead to is visited                                      *)

\* what is to be seen is, or is still to visit
Seen(v, w) == Marks(v) \subseteq w[2] \/ v \in Elements(w[1])
\* each mark was made by a visit, and what that led to is, or will be, seen
Progress(net, first, w) ==
  /\ Seen(first, w)
  /\ \A m \in w[2] : \E v \in Visits(net) : m \in Marks(v) /\ \A u : Leads(net, v, u) => Seen(u, w)

\* the marks of a search: those of its first visit, and of all that the visits led to
LEMMA VisitedClosed ==
  ASSUME NEW net, Ready(net), NEW first \in Visits(net), NEW seen, seen = Visited(net, first)
  PROVE  /\ Marks(first) \subseteq seen
         /\ \A m \in seen : \E v \in Visits(net) :
              m \in Marks(v) /\ \A u : Leads(net, v, u) => Marks(u) \subseteq seen
  <1> DEFINE J == {w \in Searches(net) : Progress(net, first, w)}
             start == << <<first>>, {} >>
  <1>1. start \in J
    <2>1. <<first>> \in Seq(Visits(net)) /\ {} \in SUBSET AllMarks(net)
      OBVIOUS
    <2>2. start \in Searches(net) /\ start[1] = <<first>> /\ start[2] = {}
      BY <2>1 DEF Searches
    <2>3. first \in Elements(<<first>>)
      <3>1. 1 \in DOMAIN <<first>> /\ <<first>>[1] = first
        OBVIOUS
      <3> QED BY <3>1 DEF Elements
    <2> HIDE DEF start
    <2>4. Seen(first, start) /\ \A m \in start[2] : FALSE
      BY <2>2, <2>3 DEF Seen
    <2> QED BY <2>2, <2>4 DEF Progress
  <1>2. ASSUME NEW w \in J, w[1] # <<>> PROVE VisitStep(net, w) \in J
    <2> DEFINE v == Head(w[1])
               next == VisitStep(net, w)
    <2>1. w \in Searches(net) /\ Progress(net, first, w)
      OBVIOUS
    <2>2. /\ v \in Visits(net) /\ next \in Searches(net)
          /\ \A u \in Elements(w[1]) : u = v \/ u \in Elements(Tail(w[1]))
          /\ \/ Marks(v) \subseteq w[2] /\ next = <<Tail(w[1]), w[2]>>
             \/ /\ ~(Marks(v) \subseteq w[2]) /\ next[2] = w[2] \cup Marks(v)
                /\ \A u : u \in Elements(next[1]) <=> Leads(net, v, u) \/ u \in Elements(Tail(w[1]))
      BY <1>2, <2>1, VisitStepFacts
    <2>3. /\ next[2] = w[2] \cup Marks(v) /\ \A u \in Elements(Tail(w[1])) : u \in Elements(next[1])
          /\ Marks(v) \subseteq w[2] \/ \A u : Leads(net, v, u) => u \in Elements(next[1])
      <3> HIDE DEF next, v
      <3>1. CASE Marks(v) \subseteq w[2] /\ next = <<Tail(w[1]), w[2]>>
        <4>1. next[1] = Tail(w[1]) /\ next[2] = w[2]
          BY <3>1
        <4> QED BY <3>1, <4>1
      <3> QED BY <2>2, <3>1
    <2> HIDE DEF next, v, J
    <2>4. \A u : Seen(u, w) => Seen(u, next)
      BY <2>2, <2>3 DEF Seen
    <2>5. Seen(first, next)
      BY <2>1, <2>4 DEF Progress
    <2>6. ASSUME NEW m \in next[2]
          PROVE  \E x \in Visits(net) : m \in Marks(x) /\ \A u : Leads(net, x, u) => Seen(u, next)
      <3>1. CASE m \in w[2]
        <4>1. PICK x \in Visits(net) : m \in Marks(x) /\ \A u : Leads(net, x, u) => Seen(u, w)
          BY <2>1, <3>1 DEF Progress
        <4> QED BY <2>4, <4>1
      <3>2. CASE m \notin w[2]
        <4>1. m \in Marks(v) /\ \A u : Leads(net, v, u) => u \in Elements(next[1])
          BY <2>3, <2>6, <3>2
        <4>2. \A u : Leads(net, v, u) => Seen(u, next)
          BY <4>1 DEF Seen
        <4> QED BY <2>2, <4>1, <4>2
      <3> QED BY <3>1, <3>2
    <2>7. Progress(net, first, next)
      BY <2>5, <2>6 DEF Progress
    <2> QED BY <2>2, <2>7 DEF J, next
  <1>3. PICK y \in J : y[1] = <<>> /\ seen = y[2]
    <2>1. J \in SUBSET Searches(net)
      OBVIOUS
    <2> HIDE DEF J
    <2> QED BY <1>1, <1>2, <2>1, VisitedEnds DEF start
  <1>4. Progress(net, first, y)
    OBVIOUS
  <1>5. \A u : Seen(u, y) => Marks(u) \subseteq seen
    <2>1. \A u : u \notin Elements(<<>>)
      BY DEF Elements
    <2> QED BY <1>3, <2>1 DEF Seen
  <1> QED BY <1>3, <1>4, <1>5 DEF Progress

-----------------------------------------------------------------------------
(* What a search of the grid joins is joined                               *)

\* what a box with a point is
LEMMA PointOfBox ==
  ASSUME NEW b \in GridBoxes, InTables(b), NEW p \in PointsIn(b)
  PROVE  /\ p \in GridPoint /\ p.layer = b.layer /\ p.track \in In(b.tracks) /\ p.cp \in In(b.cps)
         /\ p = [layer |-> p.layer, track |-> p.track, cp |-> p.cp]
         /\ isValid(b)
  <1>1. p \in GridPoint
    BY LocBoxOfGridBox
  <1>2. p.layer = b.layer /\ p.track \in In(b.tracks) /\ p.cp \in In(b.cps)
        /\ p = [layer |-> p.layer, track |-> p.track, cp |-> p.cp]
    BY DEF PointsIn
  <1>3. b.tracks \in Interval /\ b.cps \in Interval /\ b.layer \in GridLayers
    BY DEF GridBoxes
  <1>4. NumTracks[b.layer] \in Nat /\ NumCrossPoints[b.layer] \in Nat
    BY <1>3, GridAssumption
  <1>5. isValid(b)
    BY <1>2, <1>3, <1>4 DEF InTables, isValid, isTrackRangeValid, IsValid, In, Interval, Range0
  <1> QED BY <1>1, <1>2, <1>5

\* boxes with a point in common are connected
LEMMA SharedConnected ==
  ASSUME NEW a \in GridBoxes, InTables(a), NEW b \in GridBoxes, InTables(b),
         NEW p \in PointsIn(a), p \in PointsIn(b)
  PROVE  /\ isConnected(a, b) /\ a.layer = b.layer
         /\ p.track \in In(IntersectWith(a.tracks, b.tracks))
  <1>1. /\ isValid(a) /\ isValid(b) /\ a.layer = b.layer /\ a.layer \in Int
        /\ p.track \in In(a.tracks) /\ p.track \in In(b.tracks) /\ p.cp \in In(a.cps) /\ p.cp \in In(b.cps)
    BY PointOfBox DEF GridBoxes, GridLayers
  <1>2. a.tracks \in Interval /\ b.tracks \in Interval /\ a.cps \in Interval /\ b.cps \in Interval
    BY DEF GridBoxes
  <1>3. p.track \in In(IntersectWith(a.tracks, b.tracks)) /\ p.cp \in In(IntersectWith(a.cps, b.cps))
        /\ IntersectWith(a.tracks, b.tracks) \in Interval /\ IntersectWith(a.cps, b.cps) \in Interval
    BY <1>1, <1>2, IntersectFacts
  <1>4. HasIntersectWith(a.tracks, b.tracks) /\ HasIntersectWith(a.cps, b.cps)
    BY <1>3 DEF HasIntersectWith, IsValid, In, Interval
  <1>5. a.layer - b.layer \in -1 .. 1
    BY <1>1
  <1> QED BY <1>1, <1>3, <1>4, <1>5 DEF isConnected

\* a number between two others is in any interval with them
LEMMA IntersectBetween ==
  ASSUME NEW i \in Interval, NEW s \in Int, NEW t \in Int, NEW c \in In(i), s <= c, c <= t
  PROVE  HasIntersectWith(i, Intvl(s, t))
  BY DEF HasIntersectWith, IntersectWith, IsValid, Intvl, In, Interval, Greater, Lesser

\* a visit to tracks of a guide leads to each track of a guide above or below
\* with a grid point above or below one of theirs
LEMMA AboveLeads ==
  ASSUME NEW net, Ready(net), NEW g \in DOMAIN net.gridGuides, NEW h \in DOMAIN net.gridGuides,
         NEW p \in PointsIn(net.gridGuides[g]), NEW q \in PointsIn(net.gridGuides[h]),
         Above(p, q) \/ Above(q, p),
         NEW v \in Visits(net), v.pin = 0, v.guide = g, p.track \in In(v.tracks)
  PROVE  \E u : Leads(net, v, u) /\ <<0, h, q.track>> \in Marks(u)
  <1> DEFINE a == net.gridGuides[g]
             b == net.gridGuides[h]
             u == GuideVisit(h, JoiningTracks(net, g, h))
             r == v.tracks
  <1>1. /\ a \in GridBoxes /\ InTables(a) /\ b \in GridBoxes /\ InTables(b)
        /\ p \in PointsIn(a) /\ q \in PointsIn(b)
        /\ \A k : k \in net.conn[g] <=> k \in DOMAIN net.gridGuides /\ k # g /\ isConnected(a, net.gridGuides[k])
    BY ReadyFacts
  <1>2. /\ p \in GridPoint /\ p.layer = a.layer /\ p.track \in In(a.tracks) /\ isValid(a)
        /\ q \in GridPoint /\ q.layer = b.layer /\ q.track \in In(b.tracks) /\ isValid(b) /\ q.cp \in In(b.cps)
    BY <1>1, PointOfBox
  <1>3. a.layer \in GridLayers /\ b.layer \in GridLayers /\ a.layer \in Int /\ b.layer \in Int
        /\ b.cps \in Interval /\ a.tracks \in Interval
    BY <1>1 DEF GridBoxes, GridLayers
  <1>4. /\ r \in Interval /\ r.low \in Range0(NumTracks[a.layer]) /\ r.high \in Range0(NumTracks[a.layer])
        /\ r.low <= p.track /\ p.track <= r.high /\ p.track \in Range0(NumTracks[a.layer])
    <2>1. r \in Interval /\ In(r) \subseteq In(a.tracks)
      BY VisitFacts
    <2>2. r.low \in In(r) /\ r.high \in In(r) /\ r.low <= p.track /\ p.track <= r.high
      BY <2>1 DEF In, Interval
    <2>3. \A t \in In(a.tracks) : t \in Range0(NumTracks[a.layer])
      BY <1>1, <1>3, GridAssumption DEF InTables, In, Interval, Range0
    <2> QED BY <1>2, <2>1, <2>2, <2>3
  <1>5. isConnected(a, b) /\ a.layer # b.layer /\ JoinedFrom(net, g, r, h)
        /\ q.track \in In(JoiningTracks(net, g, h))
    <2>1. CASE Above(p, q)
      <3>1. b.layer = a.layer + 1 /\ getUpper(p) = q /\ isConnected(a, b) /\ a.layer + 1 \in GridLayers
        BY <1>1, <2>1, AboveConnected
      <3>2. b.layer > a.layer /\ a.layer # b.layer
        BY <1>3, <3>1
      <3>3. q.track \in In(JoiningTracks(net, g, h))
        <4>1. JoiningTracks(net, g, h) = getViaBoxBetween(a, b).upper.tracks
          BY <3>2 DEF JoiningTracks
        <4> HIDE DEF a, b
        <4> QED BY <1>1, <3>1, <4>1, ViaBoxHas
      <3>4. q.cp = UpperCrossPoint[a.layer][p.track]
        BY <1>2, <3>1 DEF getUpper
      <3> DEFINE s == UpperCrossPoint[a.layer][r.low]
                 t == UpperCrossPoint[a.layer][r.high]
      <3>5. s \in Int /\ t \in Int /\ s <= q.cp /\ q.cp <= t
        <4> HIDE DEF a, b, r
        <4>1. s \in Range0(NumCrossPoints[a.layer + 1]) /\ s <= q.cp
          BY <1>3, <1>4, <3>1, <3>4, UpperOrder
        <4>2. t \in Range0(NumCrossPoints[a.layer + 1]) /\ q.cp <= t
          BY <1>3, <1>4, <3>1, <3>4, UpperOrder
        <4> QED BY <4>1, <4>2 DEF Range0
      <3>6. HasIntersectWith(b.cps, Intvl(s, t))
        <4> HIDE DEF a, b, r, s, t
        <4> QED BY <1>2, <1>3, <3>5, IntersectBetween
      <3>7. getUpperCrossPointRange(a.layer, r) = Intvl(s, t)
        BY DEF getUpperCrossPointRange
      <3>8. JoinedFrom(net, g, r, h)
        BY <3>2, <3>6, <3>7 DEF JoinedFrom
      <3> QED BY <3>1, <3>2, <3>3, <3>8
    <2>2. CASE Above(q, p)
      <3>1. a.layer = b.layer + 1 /\ getUpper(q) = p /\ isConnected(b, a) /\ b.layer + 1 \in GridLayers
        BY <1>1, <2>2, AboveConnected
      <3>2. b.layer < a.layer /\ a.layer # b.layer /\ ~(b.layer > a.layer) /\ ~(a.layer < b.layer)
        BY <1>3, <3>1
      <3>3. isConnected(a, b)
        <4>1. a.layer - b.layer \in -1 .. 1
          BY <1>3, <3>1
        <4> QED BY <1>2, <3>1, <3>2, <4>1 DEF isConnected
      <3>4. q.track \in In(JoiningTracks(net, g, h))
        <4>1. JoiningTracks(net, g, h) = getViaBoxBetween(b, a).lower.tracks
          BY <3>2 DEF JoiningTracks
        <4> HIDE DEF a, b
        <4> QED BY <1>1, <3>1, <4>1, ViaBoxHas
      <3>5. q.cp = LowerCrossPoint(a.layer, p.track)
        <4>1. p.track = UpperTrack[b.layer][q.cp]
          BY <1>2, <3>1 DEF getUpper
        <4>2. q.cp \in Range0(NumCrossPoints[b.layer])
          BY <1>2, GridPointFacts
        <4> HIDE DEF a, b
        <4> QED BY <1>3, <1>4, <3>1, <4>1, <4>2, LowerCrossPointOf
      <3> DEFINE s == LowerCrossPoint(a.layer, r.low)
                 t == LowerCrossPoint(a.layer, r.high)
      <3>6. s \in Int /\ t \in Int /\ s <= q.cp /\ q.cp <= t
        <4> HIDE DEF a, b, r
        <4>1. s \in Range0(NumCrossPoints[b.layer]) /\ s <= q.cp
          BY <1>3, <1>4, <3>1, <3>5, LowerOrder
        <4>2. t \in Range0(NumCrossPoints[b.layer]) /\ q.cp <= t
          BY <1>3, <1>4, <3>1, <3>5, LowerOrder
        <4> QED BY <4>1, <4>2 DEF Range0
      <3>7. HasIntersectWith(b.cps, Intvl(s, t))
        <4> HIDE DEF a, b, r, s, t
        <4> QED BY <1>2, <1>3, <3>6, IntersectBetween
      <3>8. getLowerCrossPointRange(a.layer, r) = Intvl(s, t)
        BY DEF getLowerCrossPointRange
      <3>9. JoinedFrom(net, g, r, h)
        BY <3>2, <3>7, <3>8 DEF JoinedFrom
      <3> QED BY <3>2, <3>3, <3>4, <3>9
    <2> QED BY <2>1, <2>2
  <1>6. Leads(net, v, u)
    <2>1. h \in net.conn[g]
      <3>1. h # g
        BY <1>5
      <3> QED BY <1>1, <1>5, <3>1
    <2> QED BY <1>5, <2>1 DEF Leads
  <1>7. <<0, h, q.track>> \in Marks(u)
    BY <1>5 DEF Marks, GuideVisit
  <1> HIDE DEF u
  <1> QED BY <1>6, <1>7

\* an access point in a guide makes a connection of its pin
LEMMA AttachedAt ==
  ASSUME NEW net, Ready(net), NEW p \in DOMAIN net.access, NEW x \in AccessInGuides(net)[p]
  PROVE  /\ \E g \in DOMAIN net.gridGuides : x \in PointsIn(net.gridGuides[g])
         /\ \A g \in DOMAIN net.gridGuides : x \in PointsIn(net.gridGuides[g]) =>
              \E ga \in net.pinConn[p] : /\ ga[1] = g
                                         /\ x.track \in In(IntersectWith(net.gridGuides[g].tracks,
                                                                         net.access[p][ga[2]].tracks))
  <1>1. x \in Covered(net.access[p]) /\ x \in Covered(net.gridGuides)
    BY DEF AccessInGuides
  <1>2. PICK a \in DOMAIN net.access[p] : x \in PointsIn(net.access[p][a])
    BY <1>1 DEF Covered
  <1>3. \E g \in DOMAIN net.gridGuides : x \in PointsIn(net.gridGuides[g])
    BY <1>1 DEF Covered
  <1>4. ASSUME NEW g \in DOMAIN net.gridGuides, x \in PointsIn(net.gridGuides[g])
        PROVE  \E ga \in net.pinConn[p] : /\ ga[1] = g
                                          /\ x.track \in In(IntersectWith(net.gridGuides[g].tracks,
                                                                          net.access[p][ga[2]].tracks))
    <2>1. /\ net.gridGuides[g] \in GridBoxes /\ InTables(net.gridGuides[g])
          /\ net.access[p][a] \in GridBoxes /\ InTables(net.access[p][a])
          /\ isConnected(net.gridGuides[g], net.access[p][a]) => <<g, a>> \in net.pinConn[p]
      BY ReadyFacts
    <2>2. /\ isConnected(net.gridGuides[g], net.access[p][a])
          /\ x.track \in In(IntersectWith(net.gridGuides[g].tracks, net.access[p][a].tracks))
      BY <1>2, <1>4, <2>1, SharedConnected
    <2>3. <<g, a>> \in net.pinConn[p] /\ <<g, a>>[1] = g /\ <<g, a>>[2] = a
      BY <2>1, <2>2
    <2> QED BY <2>2, <2>3
  <1> QED BY <1>3, <1>4

\* what was marked with a pin, or a track of a guide, leads on
LEMMA MarkedLeads ==
  ASSUME NEW net, Ready(net), NEW seen,
         \A m \in seen : \E v \in Visits(net) :
           m \in Marks(v) /\ \A u : Leads(net, v, u) => Marks(u) \subseteq seen
  PROVE  /\ \A p \in DOMAIN net.access : <<p, 0, p>> \in seen =>
              \A u : Leads(net, PinVisit(p), u) => Marks(u) \subseteq seen
         /\ \A g \in DOMAIN net.gridGuides : \A t : <<0, g, t>> \in seen =>
              \E v \in Visits(net) : /\ v.pin = 0 /\ v.guide = g /\ t \in In(v.tracks)
                                     /\ \A u : Leads(net, v, u) => Marks(u) \subseteq seen
  <1>1. ASSUME NEW p \in DOMAIN net.access, <<p, 0, p>> \in seen
        PROVE  \A u : Leads(net, PinVisit(p), u) => Marks(u) \subseteq seen
    <2>1. PICK v \in Visits(net) : /\ <<p, 0, p>> \in Marks(v)
                                   /\ \A u : Leads(net, v, u) => Marks(u) \subseteq seen
      BY <1>1
    <2>2. p # 0
      BY ReadyFacts
    <2>3. v = PinVisit(p)
      BY <2>1, <2>2, VisitFacts
    <2> QED BY <2>1, <2>3
  <1>2. ASSUME NEW g \in DOMAIN net.gridGuides, NEW t, <<0, g, t>> \in seen
        PROVE  \E v \in Visits(net) : /\ v.pin = 0 /\ v.guide = g /\ t \in In(v.tracks)
                                      /\ \A u : Leads(net, v, u) => Marks(u) \subseteq seen
    <2>1. PICK v \in Visits(net) : /\ <<0, g, t>> \in Marks(v)
                                   /\ \A u : Leads(net, v, u) => Marks(u) \subseteq seen
      BY <1>2
    <2>2. v.pin = 0 /\ v.guide = g /\ t \in In(v.tracks)
      BY <2>1, VisitFacts
    <2> QED BY <2>1, <2>2
  <1> QED BY <1>1, <1>2

\* a marked track of a guide at an access point marks the pin, and a marked pin
\* the tracks of guides at its access points
LEMMA AttachedMarks ==
  ASSUME NEW net, Ready(net), NEW seen,
         \A m \in seen : \E v \in Visits(net) :
           m \in Marks(v) /\ \A u : Leads(net, v, u) => Marks(u) \subseteq seen,
         NEW p \in DOMAIN net.access, NEW x \in AccessInGuides(net)[p],
         NEW g \in DOMAIN net.gridGuides, x \in PointsIn(net.gridGuides[g])
  PROVE  <<0, g, x.track>> \in seen <=> <<p, 0, p>> \in seen
  <1>1. PICK ga \in net.pinConn[p] :
          /\ ga[1] = g
          /\ x.track \in In(IntersectWith(net.gridGuides[g].tracks, net.access[p][ga[2]].tracks))
    BY AttachedAt
  <1>2. p \in Nat /\ p > 0 /\ net.gridGuides[g].tracks \in Interval /\ net.access[p][ga[2]].tracks \in Interval
    BY ReadyFacts DEF GridBoxes
  <1>3. ASSUME <<0, g, x.track>> \in seen PROVE <<p, 0, p>> \in seen
    <2>1. PICK v \in Visits(net) : /\ v.pin = 0 /\ v.guide = g /\ x.track \in In(v.tracks)
                                   /\ \A u : Leads(net, v, u) => Marks(u) \subseteq seen
      BY <1>3, MarkedLeads
    <2>2. v.tracks \in Interval
      BY <2>1, VisitFacts
    <2>3. x.track \in In(IntersectWith(v.tracks, net.access[p][ga[2]].tracks))
          /\ IntersectWith(v.tracks, net.access[p][ga[2]].tracks) \in Interval
      BY <1>1, <1>2, <2>1, <2>2, IntersectFacts
    <2>4. HasIntersectWith(v.tracks, net.access[p][ga[2]].tracks)
      BY <2>3 DEF HasIntersectWith, IsValid, In, Interval
    <2>5. Leads(net, v, PinVisit(p))
      BY <1>1, <2>1, <2>4 DEF Leads, Touches
    <2>6. PinVisit(p) \in Visits(net) /\ PinVisit(p).pin = p
      BY DEF Visits, PinVisit
    <2>7. <<p, 0, p>> \in Marks(PinVisit(p))
      BY <1>2, <2>6, VisitFacts
    <2> QED BY <2>1, <2>5, <2>7
  <1>4. ASSUME <<p, 0, p>> \in seen PROVE <<0, g, x.track>> \in seen
    <2>1. \A u : Leads(net, PinVisit(p), u) => Marks(u) \subseteq seen
      BY <1>4, MarkedLeads
    <2>2. Leads(net, PinVisit(p), FromPin(net, p, ga))
      BY <1>2 DEF Leads, PinVisit
    <2>3. <<0, g, x.track>> \in Marks(FromPin(net, p, ga))
      BY <1>1 DEF FromPin, GuideVisit, Marks
    <2> QED BY <2>1, <2>2, <2>3
  <1> QED BY <1>3, <1>4

\* The pins that a search of the grid joins through guides on their own layers
\* are found: it reaches only points on marked tracks.
LEMMA JoinedIsFound ==
  ASSUME NEW net, Ready(net), 1 \in DOMAIN net.access, JoinedOnGrid(net, AccessInGuides(net))
  PROVE  checkGuideConnTrack(net)
  <1> DEFINE seen == Visited(net, PinVisit(1))
             points == [g \in DOMAIN net.gridGuides |-> PointsIn(net.gridGuides[g])]
             taps == AccessInGuides(net)
             grid == (UNION {points[g] : g \in DOMAIN points}) \cup (UNION {taps[p] : p \in DOMAIN taps})
             C == {x \in grid : \E g \in DOMAIN net.gridGuides : x \in PointsIn(net.gridGuides[g])
                                                                /\ <<0, g, x.track>> \in seen}
  <1>1. /\ \A m \in seen : \E v \in Visits(net) :
             m \in Marks(v) /\ \A u : Leads(net, v, u) => Marks(u) \subseteq seen
        /\ <<1, 0, 1>> \in seen
    <2>1. PinVisit(1) \in Visits(net) /\ PinVisit(1).pin = 1
      BY DEF Visits, PinVisit
    <2>2. <<1, 0, 1>> \in Marks(PinVisit(1))
      BY <2>1, VisitFacts
    <2> HIDE DEF seen
    <2>3. seen = Visited(net, PinVisit(1))
      BY DEF seen
    <2> QED BY <2>1, <2>2, <2>3, VisitedClosed
  <1> HIDE DEF seen
  <1>2. /\ DOMAIN points = DOMAIN net.gridGuides /\ \A g \in DOMAIN points : points[g] = PointsIn(net.gridGuides[g])
        /\ DOMAIN taps = DOMAIN net.access
        /\ \A p \in DOMAIN taps : taps[p] = Covered(net.access[p]) \cap Covered(net.gridGuides)
    BY DEF AccessInGuides
  <1> HIDE DEF points, taps
  <1>3. \A x \in grid : \E g \in DOMAIN net.gridGuides : x \in PointsIn(net.gridGuides[g])
    BY <1>2 DEF Covered
  <1>4. \A p \in DOMAIN taps : taps[p] \subseteq grid
    OBVIOUS
  <1>5. \A g \in DOMAIN net.gridGuides : PointsIn(net.gridGuides[g]) \subseteq grid
    BY <1>2
  <1>6. IsFiniteSet(grid)
    <2>1. IsFiniteSet(DOMAIN points)
      <3>1. DOMAIN points = 1 .. Len(net.gridGuides) /\ Len(net.gridGuides) \in Nat
        BY <1>2, ReadyFacts
      <3>2. IsFiniteSet(1 .. Len(net.gridGuides))
        BY <3>1, FS_Interval
      <3> QED BY <3>1, <3>2
    <2>2. \A g \in DOMAIN points : IsFiniteSet(points[g])
      BY <1>2, ReadyFacts, PointsFinite
    <2>3. IsFiniteSet(UNION {points[g] : g \in DOMAIN points})
      BY <2>1, <2>2, UnionFinite
    <2>4. grid \subseteq UNION {points[g] : g \in DOMAIN points}
      BY <1>2, <1>3
    <2> HIDE DEF grid
    <2> QED BY <2>3, <2>4, FS_Subset
  <1>7. \A x : x \in C <=> x \in grid /\ \E g \in DOMAIN net.gridGuides : x \in PointsIn(net.gridGuides[g])
                                                                         /\ <<0, g, x.track>> \in seen
    OBVIOUS
  <1>8. grid = (UNION {points[g] : g \in DOMAIN points}) \cup (UNION {taps[p] : p \in DOMAIN taps})
    OBVIOUS
  <1> HIDE DEF C, grid
  <1>9. ASSUME NEW g \in DOMAIN net.gridGuides, NEW x \in C, x \in PointsIn(net.gridGuides[g])
        PROVE  <<0, g, x.track>> \in seen
    <2>1. PICK h \in DOMAIN net.gridGuides : x \in PointsIn(net.gridGuides[h]) /\ <<0, h, x.track>> \in seen
      BY <1>7
    <2>2. h = g
      <3>1. InPairs(net.gridGuides, Disjoint)
        BY DEF Ready
      <3>2. h # g => <<net.gridGuides[h], net.gridGuides[g]>> \in Disjoint
        BY <3>1 DEF InPairs
      <3>3. \A a, b : <<a, b>> \in Disjoint => PointsIn(a) \cap PointsIn(b) = {}
        BY DEF Disjoint
      <3> QED BY <1>9, <2>1, <3>2, <3>3
    <2> QED BY <2>1, <2>2
  <1>10. ASSUME NEW p \in DOMAIN taps, NEW x \in taps[p]
         PROVE  x \in C <=> <<p, 0, p>> \in seen
    <2>1. x \in grid /\ p \in DOMAIN net.access /\ x \in AccessInGuides(net)[p]
      BY <1>2, <1>4 DEF taps
    <2>2. PICK g \in DOMAIN net.gridGuides : x \in PointsIn(net.gridGuides[g])
      BY <1>3, <2>1
    <2>3. <<0, g, x.track>> \in seen <=> <<p, 0, p>> \in seen
      BY <1>1, <2>1, <2>2, AttachedMarks
    <2> QED BY <1>7, <1>9, <2>1, <2>2, <2>3
  <1>11. ASSUME NEW g \in DOMAIN points, NEW x \in points[g], NEW y \in points[g], y \in C, y.track = x.track
         PROVE  x \in C
    <2>1. g \in DOMAIN net.gridGuides /\ x \in PointsIn(net.gridGuides[g]) /\ y \in PointsIn(net.gridGuides[g])
      BY <1>2
    <2>2. <<0, g, x.track>> \in seen
      BY <1>9, <1>11, <2>1
    <2> QED BY <1>5, <1>7, <2>1, <2>2
  <1>12. ASSUME NEW p \in DOMAIN taps, taps[p] \cap C # {} PROVE taps[p] \subseteq C
    BY <1>10, <1>12
  <1>13. ASSUME NEW x \in grid, NEW y \in C, Above(x, y) \/ Above(y, x) PROVE x \in C
    <2>1. PICK h \in DOMAIN net.gridGuides : x \in PointsIn(net.gridGuides[h])
      BY <1>3
    <2>2. PICK g \in DOMAIN net.gridGuides : y \in PointsIn(net.gridGuides[g]) /\ <<0, g, y.track>> \in seen
      BY <1>7
    <2>3. PICK v \in Visits(net) : /\ v.pin = 0 /\ v.guide = g /\ y.track \in In(v.tracks)
                                   /\ \A u : Leads(net, v, u) => Marks(u) \subseteq seen
      BY <1>1, <2>2, MarkedLeads
    <2>4. \E u : Leads(net, v, u) /\ <<0, h, x.track>> \in Marks(u)
      BY <1>13, <2>1, <2>2, <2>3, AboveLeads
    <2>5. <<0, h, x.track>> \in seen
      BY <2>3, <2>4
    <2> QED BY <1>7, <2>1, <2>5
  <1>14. taps[1] \in SUBSET C
    BY <1>1, <1>2, <1>10
  <1>15. ReachedOnGrid(points, taps, taps[1]) \subseteq C
    <2>1. C \in SUBSET grid /\ taps[1] \in SUBSET grid
      BY <1>7, <1>14
    <2>2. ClosedOnGrid(points, taps, grid, C)
      BY <1>11, <1>12, <1>13 DEF ClosedOnGrid
    <2> QED BY <1>6, <1>8, <1>14, <2>1, <2>2, ReachedIsLeast
  <1>16. ASSUME NEW p \in DOMAIN net.access PROVE <<p, 0, p>> \in seen
    <2>1. taps[p] \cap ReachedOnGrid(points, taps, taps[1]) # {}
      <3>1. JoinedOnGrid(net, taps)
        BY DEF taps
      <3> QED BY <1>2, <3>1 DEF JoinedOnGrid, points
    <2>2. PICK x \in taps[p] : x \in C
      BY <1>15, <2>1
    <2> QED BY <1>2, <1>10, <2>2
  <1> QED BY <1>16 DEF checkGuideConnTrack, seen

-----------------------------------------------------------------------------
(* What is joined, a search of the grid joins                              *)

\* of tracks in a range, some has its cross point in an interval if the cross
\* points of the range's ends meet it and it has one of any track
LEMMA SomeTrack ==
  ASSUME NEW N \in SUBSET Int, NEW f \in [N -> Int], \A s, t \in N : s <= t => f[s] <= f[t],
         NEW r \in Interval, IsValid(r), r.low \in N, r.high \in N,
         NEW i \in Interval, HasIntersectWith(i, Intvl(f[r.low], f[r.high])),
         NEW u \in N, f[u] \in In(i)
  PROVE  \E t \in N : t \in In(r) /\ f[t] \in In(i)
  <1>1. /\ r.low \in Int /\ r.high \in Int /\ r.low <= r.high /\ i.low \in Int /\ i.high \in Int
        /\ f[r.low] \in Int /\ f[r.high] \in Int /\ f[u] \in Int /\ i.low <= f[u] /\ f[u] <= i.high
    BY DEF Interval, IsValid, In
  <1>2. f[r.low] <= i.high /\ i.low <= f[r.high] /\ f[r.low] <= f[r.high]
    <2>1. i.low <= f[r.high] /\ f[r.low] <= i.high
      BY <1>1 DEF HasIntersectWith, IntersectWith, IsValid, Intvl, Greater, Lesser
    <2> QED BY <1>1, <2>1
  <1>3. CASE i.low <= f[r.low]
    <2>1. r.low \in In(r) /\ f[r.low] \in In(i)
      BY <1>1, <1>2, <1>3 DEF In
    <2> QED BY <2>1
  <1>4. CASE f[r.high] <= i.high
    <2>1. r.high \in In(r) /\ f[r.high] \in In(i)
      BY <1>1, <1>2, <1>4 DEF In
    <2> QED BY <2>1
  <1>5. CASE f[r.low] < i.low /\ i.high < f[r.high]
    <2>1. f[r.low] < f[u] /\ f[u] < f[r.high]
      BY <1>1, <1>5
    <2>2. ~(u <= r.low) /\ ~(r.high <= u)
      BY <1>1, <2>1
    <2>3. u \in In(r)
      BY <1>1, <2>2 DEF In
    <2> QED BY <2>3
  <1> QED BY <1>1, <1>3, <1>4, <1>5

\* a track of a box and one of a box above it that cross at both have a via there
LEMMA ViaAt ==
  ASSUME NEW a \in GridBoxes, InTables(a), NEW b \in GridBoxes, InTables(b), b.layer = a.layer + 1,
         NEW s \in In(a.tracks), UpperCrossPoint[a.layer][s] \in In(b.cps),
         NEW t \in In(b.tracks), t \in Range0(NumTracks[b.layer]), LowerCrossPoint(b.layer, t) \in In(a.cps)
  PROVE  \E p \in PointsIn(a), q \in PointsIn(b) : p.track = s /\ q.track = t /\ Above(p, q)
  <1> DEFINE l == a.layer
             c == LowerCrossPoint(b.layer, t)
             p == [layer |-> l, track |-> s, cp |-> c]
             q == [layer |-> b.layer, track |-> t, cp |-> UpperCrossPoint[l][s]]
  <1>1. l \in GridLayers /\ b.layer \in GridLayers /\ l + 1 \in GridLayers /\ l \in Int
    BY DEF GridBoxes, GridLayers
  <1>2. UpperTrack[l][c] = t
    BY <1>1, LowerCrossPointOf
  <1>3. p \in PointsIn(a) /\ q \in PointsIn(b)
    BY DEF PointsIn
  <1>4. getUpper(p) = q
    BY <1>2 DEF getUpper
  <1>5. p.layer < LayerNum - 1
    BY <1>1, GridAssumption DEF GridLayers
  <1> QED BY <1>3, <1>4, <1>5 DEF Above

\* each track that some tracks of a guide lead to has a via from one of them
LEMMA JoinedVias ==
  ASSUME NEW net, Ready(net), NEW g \in DOMAIN net.gridGuides, NEW h \in net.conn[g],
         NEW r \in Interval, IsValid(r), In(r) \subseteq In(net.gridGuides[g].tracks),
         JoinedFrom(net, g, r, h), NEW t \in In(JoiningTracks(net, g, h))
  PROVE  \E p \in PointsIn(net.gridGuides[g]), q \in PointsIn(net.gridGuides[h]) :
           p.track \in In(r) /\ q.track = t /\ (Above(p, q) \/ Above(q, p))
  <1> DEFINE a == net.gridGuides[g]
             b == net.gridGuides[h]
  <1>1. /\ a \in GridBoxes /\ InTables(a) /\ b \in GridBoxes /\ InTables(b) /\ isConnected(a, b)
        /\ h \in DOMAIN net.gridGuides
    BY ReadyFacts
  <1>2. /\ a.layer \in Int /\ b.layer \in Int /\ a.layer \in GridLayers /\ b.layer \in GridLayers
        /\ a.tracks \in Interval /\ b.tracks \in Interval /\ a.cps \in Interval /\ b.cps \in Interval
    BY <1>1 DEF GridBoxes, GridLayers
  <1>3. /\ In(r) \subseteq In(a.tracks) /\ b.layer # a.layer
        /\ t \in In(JoiningTracks(net, g, h))
        /\ HasIntersectWith(b.cps, IF b.layer > a.layer THEN getUpperCrossPointRange(a.layer, r)
                                   ELSE getLowerCrossPointRange(a.layer, r))
    BY DEF JoinedFrom
  <1>4. /\ r.low \in Range0(NumTracks[a.layer]) /\ r.high \in Range0(NumTracks[a.layer])
        /\ \A s \in In(a.tracks) : s \in Range0(NumTracks[a.layer])
    <2>1. r.low \in In(r) /\ r.high \in In(r)
      BY DEF In, Interval, IsValid
    <2>2. \A s \in In(a.tracks) : s \in Range0(NumTracks[a.layer])
      BY <1>1, <1>2, GridAssumption DEF InTables, In, Interval, Range0
    <2> QED BY <1>3, <2>1, <2>2
  <1> DEFINE N == Range0(NumTracks[a.layer])
  <1>5. N \in SUBSET Int
    BY DEF Range0
  <1>6. CASE b.layer > a.layer
    <2> DEFINE v == getViaBoxBetween(a, b)
               f == [s \in N |-> UpperCrossPoint[a.layer][s]]
    <2>1. b.layer = a.layer + 1 /\ isValidViaBox(v)
      BY <1>1, <1>2, <1>6, ConnectedFacts
    <2>2. JoiningTracks(net, g, h) = v.upper.tracks
      BY <1>6 DEF JoiningTracks
    <2> HIDE DEF v, a, b
    <2>3. /\ v.lower.tracks \in Interval /\ IsValid(v.lower.tracks)
          /\ \A s \in In(v.lower.tracks) : s \in N /\ UpperCrossPoint[a.layer][s] \in In(b.cps)
          /\ t \in Range0(NumTracks[b.layer]) /\ t \in In(b.tracks) /\ LowerCrossPoint(b.layer, t) \in In(a.cps)
      BY <1>1, <1>3, <2>1, <2>2, ViaBoxInside DEF v
    <2> DEFINE u == v.lower.tracks.low
    <2>4. u \in In(v.lower.tracks)
      BY <2>3 DEF In, Interval, IsValid
    <2>5. \A s \in N : f[s] = UpperCrossPoint[a.layer][s]
      OBVIOUS
    <2>6. f \in [N -> Int]
      <3>1. \A s \in N : UpperCrossPoint[a.layer][s] \in Int
        BY <1>2, <2>1, CrossPointAssumption DEF Range0
      <3> QED BY <3>1
    <2> HIDE DEF f, u
    <2>7. \A s, k \in N : s <= k => f[s] <= f[k]
      BY <1>2, <2>1, <2>5, UpperOrder
    <2>8. HasIntersectWith(b.cps, Intvl(f[r.low], f[r.high]))
      BY <1>3, <1>4, <1>6, <2>5 DEF getUpperCrossPointRange
    <2>9. u \in N /\ f[u] \in In(b.cps)
      BY <2>3, <2>4, <2>5
    <2> HIDE DEF N
    <2>10. PICK s \in N : s \in In(r) /\ f[s] \in In(b.cps)
      BY <1>2, <1>4, <1>5, <2>6, <2>7, <2>8, <2>9, SomeTrack DEF N
    <2>11. s \in In(a.tracks) /\ UpperCrossPoint[a.layer][s] \in In(b.cps)
      BY <1>3, <2>5, <2>10
    <2>12. \E p \in PointsIn(a), q \in PointsIn(b) : p.track = s /\ q.track = t /\ Above(p, q)
      BY <1>1, <2>1, <2>3, <2>11, ViaAt
    <2> QED BY <2>10, <2>12 DEF a, b
  <1>7. CASE b.layer < a.layer
    <2> DEFINE v == getViaBoxBetween(b, a)
               f == [s \in N |-> LowerCrossPoint(a.layer, s)]
    <2>1. a.layer = b.layer + 1 /\ isValidViaBox(v) /\ ~(b.layer > a.layer)
      BY <1>1, <1>2, <1>7, ConnectedFacts
    <2>2. JoiningTracks(net, g, h) = v.lower.tracks
      BY <2>1 DEF JoiningTracks
    <2> HIDE DEF v, a, b
    <2>3. /\ v.upper.tracks \in Interval /\ IsValid(v.upper.tracks)
          /\ \A s \in In(v.upper.tracks) : s \in N /\ LowerCrossPoint(a.layer, s) \in In(b.cps)
          /\ t \in In(b.tracks) /\ UpperCrossPoint[b.layer][t] \in In(a.cps)
      BY <1>1, <1>3, <2>1, <2>2, ViaBoxInside DEF v
    <2> DEFINE u == v.upper.tracks.low
    <2>4. u \in In(v.upper.tracks)
      BY <2>3 DEF In, Interval, IsValid
    <2>5. \A s \in N : f[s] = LowerCrossPoint(a.layer, s)
      OBVIOUS
    <2>6. f \in [N -> Int]
      <3>1. \A s \in N : LowerCrossPoint(a.layer, s) \in Int
        BY <1>2, <2>1, LowerCrossPointOf DEF Range0
      <3> QED BY <3>1
    <2> HIDE DEF f, u
    <2>7. \A s, k \in N : s <= k => f[s] <= f[k]
      BY <1>2, <2>1, <2>5, LowerOrder
    <2>8. HasIntersectWith(b.cps, Intvl(f[r.low], f[r.high]))
      BY <1>3, <1>4, <2>1, <2>5 DEF getLowerCrossPointRange
    <2>9. u \in N /\ f[u] \in In(b.cps)
      BY <2>3, <2>4, <2>5
    <2> HIDE DEF N
    <2>10. PICK s \in N : s \in In(r) /\ f[s] \in In(b.cps)
      BY <1>2, <1>4, <1>5, <2>6, <2>7, <2>8, <2>9, SomeTrack DEF N
    <2>11. s \in In(a.tracks) /\ LowerCrossPoint(a.layer, s) \in In(b.cps) /\ s \in Range0(NumTracks[a.layer])
      BY <1>3, <2>5, <2>10 DEF N
    <2>12. \E p \in PointsIn(b), q \in PointsIn(a) : p.track = t /\ q.track = s /\ Above(p, q)
      BY <1>1, <2>1, <2>3, <2>11, ViaAt
    <2> QED BY <2>10, <2>12 DEF a, b
  <1> QED BY <1>2, <1>3, <1>6, <1>7

\* a track that a guide and an access box have in common is where they meet, or
\* have a via, unless it is misread
LEMMA PinVias ==
  ASSUME NEW net, Ready(net), ~Misread(net), NEW p \in DOMAIN net.access, NEW ga \in net.pinConn[p],
         NEW t \in In(IntersectWith(net.gridGuides[ga[1]].tracks, net.access[p][ga[2]].tracks))
  PROVE  \E x \in PointsIn(net.gridGuides[ga[1]]), y \in PointsIn(net.access[p][ga[2]]) :
           x.track = t /\ (x = y \/ Above(x, y) \/ Above(y, x))
  <1> DEFINE a == net.gridGuides[ga[1]]
             b == net.access[p][ga[2]]
  <1>1. a \in GridBoxes /\ b \in GridBoxes /\ isConnected(a, b)
    BY ReadyFacts
  <1>2. /\ a.tracks \in Interval /\ b.tracks \in Interval /\ a.cps \in Interval /\ b.cps \in Interval
    BY <1>1 DEF GridBoxes
  <1>3. t \in In(a.tracks) /\ t \in In(b.tracks)
    BY <1>2, IntersectFacts
  <1>4. CASE a.layer = b.layer
    <2>1. HasIntersectWith(a.cps, b.cps)
      BY <1>1, <1>4, ConnectedFacts
    <2> DEFINE common == IntersectWith(a.cps, b.cps)
               c == common.low
    <2>2. common \in Interval /\ \A e : e \in In(common) <=> e \in In(a.cps) /\ e \in In(b.cps)
      BY <1>2, IntersectFacts
    <2>3. IsValid(common)
      BY <2>1 DEF HasIntersectWith
    <2> HIDE DEF common
    <2>4. c \in In(common)
      BY <2>2, <2>3 DEF In, Interval, IsValid
    <2> DEFINE x == [layer |-> a.layer, track |-> t, cp |-> c]
    <2>5. x \in PointsIn(a) /\ x \in PointsIn(b)
      <3>1. t \in In(a.tracks) /\ t \in In(b.tracks) /\ c \in In(a.cps) /\ c \in In(b.cps) /\ a.layer = b.layer
        <4> HIDE DEF c
        <4> QED BY <1>3, <1>4, <2>2, <2>4
      <3> HIDE DEF c, a, b
      <3> QED BY <3>1 DEF PointsIn
    <2> QED BY <2>5
  <1>5. CASE a.layer # b.layer
    <2>1. \E x \in PointsIn(a), y \in PointsIn(b) : x.track = t /\ (Above(x, y) \/ Above(y, x))
      BY <1>5 DEF Misread
    <2> QED BY <2>1
  <1> QED BY <1>4, <1>5

\* the points of a pin or of a track of a guide that is marked are reached, from
\* access points there are
SoundMark(net, reached, m) ==
  /\ m[1] # 0 => Covered(net.access[m[1]]) \subseteq reached
  /\ m[1] \notin {0, 1} => Covered(net.access[m[1]]) # {}
  /\ m[1] = 0 => \A x \in PointsIn(net.gridGuides[m[2]]) : x.track = m[3] => x \in reached
  /\ m[1] # 1 => Covered(net.access[1]) # {}
SoundVisit(net, reached, v) == \A m \in Marks(v) : SoundMark(net, reached, m)

\* the points of the guides and of the pins of a net
GridOf(net) ==
  (UNION {PointsIn(net.gridGuides[g]) : g \in DOMAIN net.gridGuides})
  \cup (UNION {Covered(net.access[p]) : p \in DOMAIN net.access})

\* a set of grid points has all that a step leads to
StepsKeep(net, reached) ==
  /\ \A g \in DOMAIN net.gridGuides : \A p, q \in PointsIn(net.gridGuides[g]) :
       q \in reached /\ q.track = p.track => p \in reached
  /\ \A p \in DOMAIN net.access :
       Covered(net.access[p]) \cap reached # {} => Covered(net.access[p]) \subseteq reached
  /\ \A p \in GridOf(net) : \A q \in reached : Above(p, q) \/ Above(q, p) => p \in reached

\* from what is reached, visits lead only to what is
LEMMA LeadsSound ==
  ASSUME NEW net, Ready(net), ~Misread(net), NEW reached, StepsKeep(net, reached),
         NEW v \in Visits(net), Marks(v) # {}, SoundVisit(net, reached, v),
         NEW u, Leads(net, v, u)
  PROVE  SoundVisit(net, reached, u)
  <1>1. ASSUME NEW g \in DOMAIN net.gridGuides, NEW p \in DOMAIN net.access
        PROVE  PointsIn(net.gridGuides[g]) \subseteq GridOf(net) /\ Covered(net.access[p]) \subseteq GridOf(net)
    BY DEF GridOf
  <1>2. ASSUME NEW p \in DOMAIN net.access, NEW ga \in net.pinConn[p],
               NEW x \in PointsIn(net.gridGuides[ga[1]]), NEW y \in PointsIn(net.access[p][ga[2]]),
               x = y \/ Above(x, y) \/ Above(y, x)
        PROVE  /\ ga[1] \in DOMAIN net.gridGuides /\ y \in Covered(net.access[p])
               /\ x \in reached <=> y \in reached
    <2>1. ga[1] \in DOMAIN net.gridGuides /\ ga[2] \in DOMAIN net.access[p]
      BY ReadyFacts
    <2>2. y \in Covered(net.access[p])
      BY <2>1 DEF Covered
    <2>3. x \in GridOf(net) /\ y \in GridOf(net)
      BY <1>1, <2>1, <2>2
    <2> QED BY <1>2, <2>1, <2>2, <2>3 DEF StepsKeep
  <1>3. CASE v.pin > 0
    <2> DEFINE p == v.pin
    <2>1. /\ p \in DOMAIN net.access /\ \A m : m \in Marks(v) <=> m = <<p, 0, p>>
      BY <1>3, VisitFacts
    <2>2. PICK ga \in net.pinConn[p] : u = FromPin(net, p, ga)
      BY <1>3 DEF Leads
    <2> DEFINE g == ga[1]
               common == IntersectWith(net.gridGuides[g].tracks, net.access[p][ga[2]].tracks)
    <2>3. Covered(net.access[p]) \subseteq reached
      <3>1. <<p, 0, p>>[1] = p /\ p # 0
        BY <2>1, ReadyFacts
      <3> QED BY <2>1, <3>1 DEF SoundVisit, SoundMark
    <2>4. p # 1 => Covered(net.access[1]) # {}
      <3>1. <<p, 0, p>>[1] = p
        OBVIOUS
      <3> QED BY <2>1, <3>1 DEF SoundVisit, SoundMark
    <2>5. ASSUME NEW t \in In(common) PROVE SoundMark(net, reached, <<0, g, t>>)
      <3>1. PICK x \in PointsIn(net.gridGuides[g]), y \in PointsIn(net.access[p][ga[2]]) :
              x.track = t /\ (x = y \/ Above(x, y) \/ Above(y, x))
        <4>1. t \in In(IntersectWith(net.gridGuides[ga[1]].tracks, net.access[p][ga[2]].tracks))
          OBVIOUS
        <4> HIDE DEF common, p
        <4> QED BY <2>1, <4>1, PinVias
      <3>2. g \in DOMAIN net.gridGuides /\ y \in Covered(net.access[p]) /\ x \in reached
        BY <1>2, <2>1, <2>3, <3>1
      <3>3. \A z \in PointsIn(net.gridGuides[g]) : z.track = t => z \in reached
        BY <3>1, <3>2 DEF StepsKeep
      <3>4. Covered(net.access[1]) # {}
        BY <2>4, <3>2
      <3> DEFINE m == <<0, g, t>>
      <3>5. m[1] = 0 /\ m[2] = g /\ m[3] = t
        OBVIOUS
      <3> HIDE DEF m, g
      <3> QED BY <3>3, <3>4, <3>5 DEF SoundMark, m
    <2>6. \A m \in Marks(u) : \E t \in In(common) : m = <<0, g, t>>
      BY <2>2 DEF FromPin, GuideVisit, Marks
    <2> QED BY <2>5, <2>6 DEF SoundVisit
  <1>4. CASE v.pin = 0
    <2> DEFINE g == v.guide
               r == v.tracks
    <2>1. /\ g \in DOMAIN net.gridGuides /\ r \in Interval /\ In(r) \subseteq In(net.gridGuides[g].tracks)
          /\ \A m : m \in Marks(v) <=> \E t \in In(r) : m = <<0, g, t>>
      BY <1>4, VisitFacts
    <2>2. PICK k \in In(r) : TRUE
      BY <2>1
    <2>3. IsValid(r)
      BY <2>1, <2>2 DEF In, Interval, IsValid
    <2>4. ASSUME NEW t \in In(r)
          PROVE  /\ \A x \in PointsIn(net.gridGuides[g]) : x.track = t => x \in reached
                 /\ Covered(net.access[1]) # {}
      <3>1. SoundMark(net, reached, <<0, g, t>>)
        BY <2>1 DEF SoundVisit
      <3> DEFINE m == <<0, g, t>>
      <3>2. m[1] = 0 /\ m[2] = g /\ m[3] = t
        OBVIOUS
      <3> HIDE DEF g
      <3> QED BY <3>1, <3>2 DEF SoundMark
    <2>5. Covered(net.access[1]) # {}
      BY <2>2, <2>4
    <2>6. CASE \E h \in net.conn[g] : JoinedFrom(net, g, r, h) /\ u = GuideVisit(h, JoiningTracks(net, g, h))
      <3>1. PICK h \in net.conn[g] : JoinedFrom(net, g, r, h) /\ u = GuideVisit(h, JoiningTracks(net, g, h))
        BY <2>6
      <3>2. h \in DOMAIN net.gridGuides
        BY <2>1, ReadyFacts
      <3>3. ASSUME NEW t \in In(JoiningTracks(net, g, h)) PROVE SoundMark(net, reached, <<0, h, t>>)
        <4>1. PICK x \in PointsIn(net.gridGuides[g]), y \in PointsIn(net.gridGuides[h]) :
                x.track \in In(r) /\ y.track = t /\ (Above(x, y) \/ Above(y, x))
          <5> HIDE DEF g, r
          <5> QED BY <2>1, <2>3, <3>1, <3>3, JoinedVias
        <4>2. x \in reached /\ y \in GridOf(net)
          BY <2>4, <3>2, <4>1 DEF GridOf
        <4>3. y \in reached
          BY <4>1, <4>2 DEF StepsKeep
        <4>4. \A z \in PointsIn(net.gridGuides[h]) : z.track = t => z \in reached
          BY <3>2, <4>1, <4>3 DEF StepsKeep
        <4> DEFINE m == <<0, h, t>>
        <4>5. m[1] = 0 /\ m[2] = h /\ m[3] = t
          OBVIOUS
        <4> HIDE DEF m
        <4> QED BY <2>5, <4>4, <4>5 DEF SoundMark, m
      <3>4. \A m \in Marks(u) : \E t \in In(JoiningTracks(net, g, h)) : m = <<0, h, t>>
        BY <3>1 DEF GuideVisit, Marks
      <3> QED BY <3>3, <3>4 DEF SoundVisit
    <2>7. CASE \E p \in DOMAIN net.access : Touches(net, g, r, p) /\ u = PinVisit(p)
      <3>1. PICK p \in DOMAIN net.access : Touches(net, g, r, p) /\ u = PinVisit(p)
        BY <2>7
      <3>2. PICK ga \in net.pinConn[p] : ga[1] = g /\ HasIntersectWith(r, net.access[p][ga[2]].tracks)
        BY <3>1 DEF Touches
      <3>3. net.access[p][ga[2]].tracks \in Interval /\ net.gridGuides[g].tracks \in Interval
        BY <2>1, ReadyFacts DEF GridBoxes
      <3> DEFINE both == IntersectWith(r, net.access[p][ga[2]].tracks)
                 t == both.low
      <3>4. both \in Interval /\ \A e : e \in In(both) <=> e \in In(r) /\ e \in In(net.access[p][ga[2]].tracks)
        BY <2>1, <3>3, IntersectFacts
      <3>5. t \in In(both)
        <4>1. IsValid(both)
          BY <3>2 DEF HasIntersectWith
        <4> HIDE DEF both
        <4> QED BY <3>4, <4>1 DEF In, Interval, IsValid
      <3> HIDE DEF t, both
      <3>6. t \in In(IntersectWith(net.gridGuides[g].tracks, net.access[p][ga[2]].tracks)) /\ t \in In(r)
        BY <2>1, <3>3, <3>4, <3>5, IntersectFacts
      <3>7. PICK x \in PointsIn(net.gridGuides[g]), y \in PointsIn(net.access[p][ga[2]]) :
              x.track = t /\ (x = y \/ Above(x, y) \/ Above(y, x))
        BY <3>2, <3>6, PinVias
      <3>8. y \in Covered(net.access[p]) /\ y \in reached
        BY <1>2, <2>4, <3>2, <3>6, <3>7
      <3>9. Covered(net.access[p]) \subseteq reached /\ Covered(net.access[p]) # {}
        BY <3>8 DEF StepsKeep
      <3>10. SoundMark(net, reached, <<p, 0, p>>)
        <4> DEFINE m == <<p, 0, p>>
        <4>1. m[1] = p /\ p # 0
          BY ReadyFacts
        <4> HIDE DEF m
        <4> QED BY <2>5, <3>9, <4>1 DEF SoundMark, m
      <3>11. \A m \in Marks(u) : m = <<p, 0, p>>
        <4>1. u \in Visits(net) /\ u.pin = p /\ p > 0
          BY <3>1, ReadyFacts DEF Visits, PinVisit
        <4> QED BY <4>1, VisitFacts
      <3> QED BY <3>10, <3>11 DEF SoundVisit
    <2> QED BY <1>4, <2>6, <2>7 DEF Leads
  <1> QED BY <1>3, <1>4, VisitFacts

\* The pins that are found, a search of the grid joins, if there are two and no
\* track is misread: what is marked is reached, and each pin but the first one
\* is marked only where it has access points.
LEMMA FoundIsJoined ==
  ASSUME NEW net, Ready(net), {1, 2} \subseteq DOMAIN net.access, ~Misread(net), checkGuideConnTrack(net)
  PROVE  JoinedOnGrid(net, AccessPoints(net))
  <1> DEFINE points == [g \in DOMAIN net.gridGuides |-> PointsIn(net.gridGuides[g])]
             taps == AccessPoints(net)
             reached == ReachedOnGrid(points, taps, taps[1])
             J == {w \in Searches(net) : /\ \A m \in w[2] : SoundMark(net, reached, m)
                                         /\ \A u \in Elements(w[1]) : SoundVisit(net, reached, u)}
             first == PinVisit(1)
             start == << <<first>>, {} >>
  <1>1. /\ DOMAIN points = DOMAIN net.gridGuides /\ \A g \in DOMAIN points : points[g] = PointsIn(net.gridGuides[g])
        /\ DOMAIN taps = DOMAIN net.access /\ \A p \in DOMAIN taps : taps[p] = Covered(net.access[p])
    BY DEF AccessPoints
  <1> HIDE DEF points, taps
  <1>2. GridOf(net) = (UNION {points[g] : g \in DOMAIN points}) \cup (UNION {taps[p] : p \in DOMAIN taps})
    BY <1>1 DEF GridOf
  <1>3. IsFiniteSet(GridOf(net))
    <2>1. IsFiniteSet(DOMAIN points) /\ IsFiniteSet(DOMAIN taps)
      <3>1. /\ DOMAIN points = 1 .. Len(net.gridGuides) /\ Len(net.gridGuides) \in Nat
            /\ DOMAIN taps = 1 .. Len(net.access) /\ Len(net.access) \in Nat
        BY <1>1, ReadyFacts
      <3>2. \A n \in Nat : IsFiniteSet(1 .. n)
        BY FS_Interval
      <3> QED BY <3>1, <3>2
    <2>2. \A g \in DOMAIN points : IsFiniteSet(points[g])
      BY <1>1, ReadyFacts, PointsFinite
    <2>3. ASSUME NEW p \in DOMAIN taps PROVE IsFiniteSet(taps[p])
      <3> DEFINE of == [a \in DOMAIN net.access[p] |-> PointsIn(net.access[p][a])]
      <3>1. net.access[p] \in Seq(GridBoxes)
        BY <1>1 DEF Ready
      <3>2. IsFiniteSet(DOMAIN net.access[p])
        <4>1. DOMAIN net.access[p] = 1 .. Len(net.access[p]) /\ Len(net.access[p]) \in Nat
          BY <3>1, LenProperties
        <4>2. IsFiniteSet(1 .. Len(net.access[p]))
          BY <4>1, FS_Interval
        <4> QED BY <4>1, <4>2
      <3>3. \A a \in DOMAIN net.access[p] : IsFiniteSet(of[a])
        <4>1. \A a \in DOMAIN net.access[p] : net.access[p][a] \in GridBoxes
          BY <3>1, ElementOfSeq
        <4> QED BY <4>1, PointsFinite
      <3>4. IsFiniteSet(UNION {of[a] : a \in DOMAIN net.access[p]})
        <4> HIDE DEF of
        <4> QED BY <3>2, <3>3, UnionFinite
      <3>5. UNION {of[a] : a \in DOMAIN net.access[p]} = taps[p]
        <4>1. \A a \in DOMAIN net.access[p] : of[a] = PointsIn(net.access[p][a])
          OBVIOUS
        <4> HIDE DEF of
        <4> QED BY <1>1, <4>1 DEF Covered
      <3> HIDE DEF of
      <3> QED BY <3>4, <3>5
    <2>4. IsFiniteSet(UNION {points[g] : g \in DOMAIN points}) /\ IsFiniteSet(UNION {taps[p] : p \in DOMAIN taps})
      BY <2>1, <2>2, <2>3, UnionFinite
    <2> DEFINE ofGuides == UNION {points[g] : g \in DOMAIN points}
               ofPins == UNION {taps[p] : p \in DOMAIN taps}
    <2>5. IsFiniteSet(ofGuides) /\ IsFiniteSet(ofPins) /\ GridOf(net) = ofGuides \cup ofPins
      BY <1>2, <2>4
    <2> HIDE DEF ofGuides, ofPins
    <2> QED BY <2>5, FS_Union
  <1>4. taps[1] \subseteq reached /\ StepsKeep(net, reached)
    <2>1. taps[1] \in SUBSET GridOf(net)
      BY <1>1, <1>2
    <2>2. taps[1] \subseteq reached /\ ClosedOnGrid(points, taps, GridOf(net), reached)
      <3> HIDE DEF reached
      <3>1. reached = ReachedOnGrid(points, taps, taps[1])
        BY DEF reached
      <3> QED BY <1>2, <1>3, <2>1, <3>1, ReachedIsLeast
    <2> HIDE DEF reached
    <2> QED BY <1>1, <2>2 DEF ClosedOnGrid, StepsKeep
  <1> HIDE DEF reached
  <1>5. first \in Visits(net) /\ first.pin = 1
    BY DEF Visits, PinVisit
  <1>6. start \in J
    <2>1. start \in Searches(net) /\ start[1] = <<first>> /\ start[2] = {}
      BY <1>5 DEF Searches
    <2>2. \A u \in Elements(<<first>>) : u = first
      BY DEF Elements
    <2>3. SoundVisit(net, reached, first)
      <3>1. \A m \in Marks(first) : m = <<1, 0, 1>>
        BY <1>5, VisitFacts
      <3>2. SoundMark(net, reached, <<1, 0, 1>>)
        BY <1>1, <1>4 DEF SoundMark
      <3> QED BY <3>1, <3>2 DEF SoundVisit
    <2> HIDE DEF start, first
    <2> QED BY <2>1, <2>2, <2>3
  <1>7. ASSUME NEW w \in J, w[1] # <<>> PROVE VisitStep(net, w) \in J
    <2>1. w \in Searches(net) /\ (\A m \in w[2] : SoundMark(net, reached, m))
          /\ \A u \in Elements(w[1]) : SoundVisit(net, reached, u)
      BY Zenon DEF J
    <2> DEFINE v == Head(w[1])
               next == VisitStep(net, w)
    <2>2. /\ v \in Visits(net) /\ next \in Searches(net) /\ v \in Elements(w[1])
          /\ Elements(Tail(w[1])) \subseteq Elements(w[1])
          /\ \/ Marks(v) \subseteq w[2] /\ next = <<Tail(w[1]), w[2]>>
             \/ /\ ~(Marks(v) \subseteq w[2]) /\ next[2] = w[2] \cup Marks(v)
                /\ \A u : u \in Elements(next[1]) <=> Leads(net, v, u) \/ u \in Elements(Tail(w[1]))
      BY <1>7, <2>1, VisitStepFacts
    <2> HIDE DEF next, v, J
    <2>3. \A m \in next[2] : SoundMark(net, reached, m)
      <3>1. \A m \in Marks(v) : SoundMark(net, reached, m)
        BY <2>1, <2>2 DEF SoundVisit
      <3>2. next[2] \subseteq w[2] \cup Marks(v)
        BY <2>2
      <3> QED BY <2>1, <3>1, <3>2
    <2>4. ASSUME NEW u \in Elements(next[1]) PROVE SoundVisit(net, reached, u)
      <3>1. CASE u \in Elements(Tail(w[1]))
        BY <2>1, <2>2, <3>1
      <3>2. CASE u \notin Elements(Tail(w[1]))
        <4>1. Marks(v) # {} /\ Leads(net, v, u)
          <5>1. CASE Marks(v) \subseteq w[2] /\ next = <<Tail(w[1]), w[2]>>
            <6>1. next[1] = Tail(w[1])
              BY <5>1
            <6> QED BY <2>4, <3>2, <6>1
          <5> QED BY <2>2, <2>4, <3>2, <5>1
        <4>2. SoundVisit(net, reached, v)
          BY <2>1, <2>2
        <4> QED BY <1>4, <2>2, <4>1, <4>2, LeadsSound
      <3> QED BY <3>1, <3>2
    <2> QED BY <2>2, <2>3, <2>4 DEF J, next
  <1>8. PICK y \in J : y[1] = <<>> /\ Visited(net, first) = y[2]
    <2>1. J \in SUBSET Searches(net)
      OBVIOUS
    <2> HIDE DEF J, first
    <2>2. first \in Visits(net) /\ << <<first>>, {} >> \in J
      BY <1>5, <1>6
    <2>3. \A w \in J : w[1] # <<>> => VisitStep(net, w) \in J
      BY <1>7
    <2> QED BY <2>1, <2>2, <2>3, VisitedEnds
  <1>9. ASSUME NEW p \in DOMAIN net.access
        PROVE  taps[p] \subseteq reached /\ (p # 1 => taps[p] # {} /\ taps[1] # {})
    <2>1. <<p, 0, p>> \in Visited(net, PinVisit(1))
      BY DEF checkGuideConnTrack
    <2>2. SoundMark(net, reached, <<p, 0, p>>)
      BY <1>8, <2>1
    <2> DEFINE m == <<p, 0, p>>
    <2>3. m[1] = p /\ p # 0
      BY ReadyFacts
    <2> HIDE DEF m
    <2>4. SoundMark(net, reached, m)
      BY <2>2 DEF m
    <2> QED BY <1>1, <2>3, <2>4 DEF SoundMark
  <1>10. \A p \in DOMAIN net.access : taps[p] \cap reached # {}
    <2>1. taps[1] # {} /\ \A p \in DOMAIN net.access : p # 1 => taps[p] # {}
      <3>1. 2 \in DOMAIN net.access /\ 2 # 1
        OBVIOUS
      <3> QED BY <1>9, <3>1
    <2> QED BY <1>9, <2>1
  <1> QED BY <1>1, <1>10 DEF JoinedOnGrid, points, taps, reached

-----------------------------------------------------------------------------
(* The nets that are checked                                               *)

\* A net has two pins or more from the time its guides are expanded, and is on
\* the grid with its connections when they are checked.
ReadyToCheck ==
  /\ phase \in {"cover", "grid", "check"} => Cardinality(Pins) >= 2
  /\ phase = "check" => Ready(LocalNetNow) /\ DOMAIN access = Pins

CheckInv == IInv /\ ReadyToCheck

\* the guides and pins put on the grid are ready
LEMMA GridReady ==
  ASSUME IInv, initGridBoxes
  PROVE  Ready(LocalNetNow)' /\ DOMAIN access' = Pins
  <1> DEFINE pins == [p \in Pins |-> getGridPinAccessBoxes(dbNet.pins[p])]
  <1>1. /\ gridGuides' \in Seq(GridBoxes) /\ InPairs(gridGuides', Disjoint)
        /\ \A g \in DOMAIN gridGuides' : InTables(gridGuides'[g])
    BY GridGuides
  <1>2. /\ access' = pins /\ pinConn' = pinGuideConn(gridGuides', access') /\ conn' = guideConn(gridGuides')
        /\ \A p \in DOMAIN pins : \A a \in DOMAIN pins[p] : InTables(pins[p][a])
    BY DEF initGridBoxes, Defined
  <1>3. DOMAIN pins = Pins /\ DOMAIN pins = DOMAIN dbNet.pins
    BY DEF Pins
  <1>4. pins \in Seq(Seq(GridBoxes))
    <2>1. dbNet.pins \in Seq(Seq(LocBox) \ {<<>>})
      BY DEF IInv, PinInv
    <2>2. DOMAIN dbNet.pins = 1 .. Len(dbNet.pins) /\ Len(dbNet.pins) \in Nat
      BY <2>1, LenProperties
    <2>3. \A p \in Pins : dbNet.pins[p] \in Seq(LocBox) /\ dbNet.pins[p] # <<>>
      <3> HIDE DEF LocBox
      <3> QED BY <2>1, LenProperties DEF Pins
    <2>4. \A p \in Pins : getGridPinAccessBoxes(dbNet.pins[p]) \in Seq(GridBoxes)
      BY <2>3, AccessBoxesType
    <2>5. pins \in [1 .. Len(dbNet.pins) -> Seq(GridBoxes)]
      <3> HIDE DEF GridBoxes
      <3> QED BY <2>2, <2>4 DEF Pins
    <2> HIDE DEF pins
    <2> QED BY <2>2, <2>5, SeqDef
  <1> HIDE DEF pins
  <1>5. Ready(LocalNetNow)'
    BY <1>1, <1>2, <1>4 DEF Ready, LocalNetNow
  <1> QED BY <1>2, <1>3, <1>5

\* it is inductive: only initGridBoxes leads to the check, and only nets with
\* two pins or more get there
LEMMA NextCheckInv == CheckInv /\ [Next]_vars => CheckInv'
  <1> SUFFICES ASSUME CheckInv, [Next]_vars PROVE CheckInv'
    OBVIOUS
  <1>1. IInv /\ ReadyToCheck
    BY DEF CheckInv
  <1>2. IInv'
    BY <1>1, NextIInv
  <1>3. ReadyToCheck'
    <2>1. CASE Expand
      <3>1. Pins' = Pins /\ phase' # "check" /\ (Cardinality(Pins) < 2 => phase' = "checked")
        BY <2>1 DEF Expand, Pins
      <3>2. Cardinality(Pins) \in Nat
        <4>1. dbNet.pins \in Seq(Seq(LocBox) \ {<<>>})
          BY <1>1 DEF IInv, PinInv
        <4>2. Pins = 1 .. Len(dbNet.pins) /\ Len(dbNet.pins) \in Nat
          BY <4>1, LenProperties DEF Pins
        <4>3. \A n \in Nat : IsFiniteSet(1 .. n)
          BY FS_Interval
        <4>4. IsFiniteSet(Pins)
          BY <4>2, <4>3
        <4> QED BY <4>4, FS_CardinalityType
      <3> QED BY <3>1, <3>2 DEF ReadyToCheck
    <2>2. CASE expandGuidesToCoverPins
      <3>1. Pins' = Pins /\ phase' # "check" /\ phase = "cover"
        BY <2>2 DEF expandGuidesToCoverPins, Pins
      <3> QED BY <1>1, <3>1 DEF ReadyToCheck
    <2>3. CASE initGridBoxes
      <3>1. Pins' = Pins /\ phase = "grid"
        BY <2>3 DEF initGridBoxes, Pins
      <3>2. Ready(LocalNetNow)' /\ DOMAIN access' = Pins
        BY <1>1, <2>3, GridReady
      <3> QED BY <1>1, <3>1, <3>2 DEF ReadyToCheck
    <2>4. CASE Check
      BY <2>4 DEF Check, ReadyToCheck
    <2>5. CASE Retry
      BY <2>5 DEF Retry, ReadyToCheck
    <2>6. CASE Finish
      BY <2>6 DEF Finish, ReadyToCheck
    <2>7. CASE UNCHANGED vars
      BY <1>1, <2>7 DEF vars, netVars, ReadyToCheck, Pins, LocalNetNow, Ready
    <2> QED BY <2>1, <2>2, <2>3, <2>4, <2>5, <2>6, <2>7 DEF Next
  <1> QED BY <1>2, <1>3 DEF CheckInv

\* what is checked on the grid is the net that is ready
LEMMA CheckInvExact == CheckInv => TrackCheckExact
  <1> SUFFICES ASSUME CheckInv, phase = "check"
               PROVE  /\ JoinedOnGrid(LocalNetNow, AccessInGuides(LocalNetNow)) => checkGuideConnTrack(LocalNetNow)
                      /\ ~Misread(LocalNetNow) /\ checkGuideConnTrack(LocalNetNow)
                           => JoinedOnGrid(LocalNetNow, AccessPoints(LocalNetNow))
    BY DEF TrackCheckExact
  <1>1. Ready(LocalNetNow) /\ DOMAIN access = Pins /\ Cardinality(Pins) >= 2
    BY DEF CheckInv, ReadyToCheck
  <1>2. {1, 2} \subseteq DOMAIN LocalNetNow.access
    <2>1. dbNet.pins \in Seq(Seq(LocBox) \ {<<>>})
      BY DEF CheckInv, IInv, PinInv
    <2>2. Pins = 1 .. Len(dbNet.pins) /\ Len(dbNet.pins) \in Nat
      BY <2>1, LenProperties DEF Pins
    <2>3. Cardinality(1 .. Len(dbNet.pins)) = Len(dbNet.pins)
      <3>1. \A n \in Nat : Cardinality(1 .. n) = n
        BY FS_Interval
      <3> QED BY <2>2, <3>1
    <2>4. LocalNetNow.access = access
      BY DEF LocalNetNow
    <2> QED BY <1>1, <2>2, <2>3, <2>4
  <1> QED BY <1>1, <1>2, JoinedIsFound, FoundIsJoined

\* checkGuideConnTrack, which visits ranges of tracks of guides, finds all pins
\* that a search of the grid, point by point, joins through guides on their own
\* layers, and none that such a search does not join, unless a track is misread:
\* for any grid, any guides and pins, after any attempts before.
THEOREM SpecTrackCheckExact == Spec => []TrackCheckExact
  <1>1. Init => CheckInv
    <2>1. Init => IInv
      BY InitIInv
    <2>2. Init => ReadyToCheck
      BY DEF Init, ReadyToCheck
    <2> QED BY <2>1, <2>2 DEF CheckInv
  <1> QED BY <1>1, NextCheckInv, CheckInvExact, PTL DEF Spec
=============================================================================
