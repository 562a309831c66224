------------------------------- MODULE PreRoute -------------------------------
(***************************************************************************)
(* PreRoute::runIterative for one net (single_net/PreRoute.cpp): expand    *)
(* the guides, make sure that they cover the pins, put them on the grid    *)
(* and check that they connect the pins; if they do not, expand what is    *)
(* there by some more and try again.                                       *)
(***************************************************************************)
EXTENDS LocalNet

CONSTANTS
  NetChoices,       \* guides, routeGuideVios and pins (access boxes) of nets
  defaultGuideExpand, guideExpandIterLimit, diffLayerGuideVioThres,
  addDiffLayerGuides

LocBox == [layer : GridLayers, x : [low : Int, high : Int], y : [low : Int, high : Int]]

ASSUME NetAssumption ==
  \A net \in NetChoices :
    net.guides \in Seq(LocBox) /\ net.pins \in Seq(Seq(LocBox) \ {<<>>})

ASSUME ExpandAssumption == defaultGuideExpand \in Nat

VARIABLES
  dbNet,            \* the net chosen, and its guides as the database slices them
  guides, gridGuides, pinBoxes, access, mapping,      \* LocalNet
  pinConn, conn,                                      \* RouteGuideGraph
  iter, numPitch,
  phase, status

netVars == <<guides, gridGuides, pinBoxes, access, mapping, pinConn, conn>>
vars == <<dbNet, netVars, iter, numPitch, phase, status>>

Pins == DOMAIN dbNet.pins
LocalNetNow ==
  [gridGuides |-> gridGuides, access |-> access, pinConn |-> pinConn, conn |-> conn]

Init ==
  /\ \E net \in NetChoices :
       dbNet = [guides |-> sliceRouteGuides(net.guides), vios |-> net.vios, pins |-> net.pins]
  /\ guides = dbNet.guides
  /\ gridGuides = <<>> /\ access = <<>> /\ mapping = <<>> /\ pinConn = <<>> /\ conn = <<>>
  /\ pinBoxes = dbNet.pins
  /\ iter = 0 /\ numPitch = defaultGuideExpand
  /\ phase = "expand" /\ status = "SUCC_NORMAL"

-----------------------------------------------------------------------------
(* Expansion                                                               *)

\* routeGuideVios is as long as the guides of the input; behind its end
\* anything may be read (the same for all guides there)
Vios(n) ==
  {[i \in 1 .. n |-> IF i \in DOMAIN dbNet.vios THEN dbNet.vios[i] ELSE v] :
     v \in {0, diffLayerGuideVioThres, 2 * diffLayerGuideVioThres}}

\* guides on the layers next to those with violations, not on layers 0 and 1
DiffLayerGuides(g, vio) ==
  LET l == g.layer
      to(far) == (IF l - far > 1 THEN <<[g EXCEPT !.layer = l - far]>> ELSE <<>>)
                 \o (IF l + far < LayerNum THEN <<[g EXCEPT !.layer = l + far]>> ELSE <<>>)
  IN  (IF vio >= diffLayerGuideVioThres THEN to(1) ELSE <<>>)
      \o (IF vio >= 2 * diffLayerGuideVioThres THEN to(2) ELSE <<>>)

\* mutant: what a guide covered before is forgotten
ReachOnly(boxes, i, l, range) ==
  IF l \in TrackIsX THEN [boxes EXCEPT ![i].x = range] ELSE [boxes EXCEPT ![i].y = range]

\* box i extended across the tracks of a layer
Reach(boxes, i, l, range) ==
  IF l \in TrackIsX THEN [boxes EXCEPT ![i].x = UnionWith(@, range)]
  ELSE [boxes EXCEPT ![i].y = UnionWith(@, range)]

\* Guides on neighbouring layers that overlap extend each other so that their
\* tracks cross; which pairs do is found before any is extended.
expandGuidesToMargin(boxes) ==
  LET crossing == {w \in (DOMAIN boxes) \X (DOMAIN boxes) :
                     /\ w[1] < w[2] /\ BoxesMeet(boxes[w[1]], boxes[w[2]])
                     /\ boxes[w[1]].layer - boxes[w[2]].layer \in {-1, 1}}
      ordered == InOrder(crossing, [w \in crossing |-> w])
      step(bs, w) == LET l1 == bs[w[1]].layer
                         l2 == bs[w[2]].layer
                         first == Reach(bs, w[1], l2, Across(l2, bs[w[2]]))
                     IN  Reach(first, w[2], l1, Across(l1, first[w[1]]))
      after[i \in 0 .. Len(ordered)] == IF i = 0 THEN boxes ELSE step(after[i - 1], ordered[i])
  IN  after[Len(ordered)]

Expand ==
  /\ phase = "expand"
  /\ \E vios \in IF addDiffLayerGuides THEN Vios(Len(guides)) ELSE {<<>>} :
       LET wide == [i \in DOMAIN guides |-> expandBox(guides[i], numPitch)]
           extra(i) == DiffLayerGuides(wide[i], vios[i])
       IN  guides' = expandGuidesToMargin(
             IF addDiffLayerGuides THEN wide \o Concat([i \in DOMAIN wide |-> extra(i)]) ELSE wide)
  /\ IF Cardinality(Pins) < 2
     THEN phase' = "checked" /\ status' = "SUCC_ONE_PIN"
     ELSE phase' = "cover" /\ UNCHANGED status
  /\ UNCHANGED <<dbNet, gridGuides, pinBoxes, access, mapping, pinConn, conn, iter, numPitch>>

-----------------------------------------------------------------------------
(* Covering the pins                                                       *)

\* (access box, guide) pairs at most one layer apart, and the first of the
\* closest ones
NearPairs(boxes, p) ==
  {w \in (DOMAIN pinBoxes[p]) \X (DOMAIN boxes) :
     /\ boxes[w[2]].layer - pinBoxes[p][w[1]].layer \in -1 .. 1
     /\ IsValid(boxes[w[2]].x) /\ IsValid(boxes[w[2]].y)}

ClosestPair(boxes, p) ==
  LET dist(w) == BoxDist(pinBoxes[p][w[1]], boxes[w[2]])
      pairs == NearPairs(boxes, p)
  IN  CHOOSE w \in pairs : \A v \in pairs :
        \/ dist(w) < dist(v)
        \/ dist(w) = dist(v) /\ Lex(w, v)

\* mutant: extended in one direction only
CoverPinAlongX(boxes, p) ==
  LET w == ClosestPair(boxes, p)
  IN  [boxes EXCEPT ![w[2]].x = UnionWith(@, pinBoxes[p][w[1]].x)]

CoverPin(boxes, p) ==
  LET w == ClosestPair(boxes, p)
      box == pinBoxes[p][w[1]]
  IN  IF BoxDist(box, boxes[w[2]]) = 0 THEN boxes
      ELSE [boxes EXCEPT ![w[2]].x = UnionWith(@, box.x), ![w[2]].y = UnionWith(@, box.y)]

\* the guides extended for the pins before one that is too far away stay so
expandGuidesToCoverPins ==
  /\ phase = "cover"
  /\ LET far == {p \in Pins : NearPairs(guides, p) = {}}
         near == {p \in Pins : \A q \in far : p < q}
         covered[p \in 0 .. Len(dbNet.pins)] ==
           IF p = 0 THEN guides ELSE IF p \in near THEN CoverPin(covered[p - 1], p) ELSE covered[p - 1]
     IN  /\ guides' = covered[Len(dbNet.pins)]
         /\ IF far = {} THEN phase' = "grid" /\ UNCHANGED status
            ELSE phase' = "checked" /\ status' = "FAIL_DETACHED_PIN"
  /\ UNCHANGED <<dbNet, gridGuides, pinBoxes, access, mapping, pinConn, conn, iter, numPitch>>

\* Ends of grid boxes are looked up in tables, of tracks and of cross points, and
\* slicing several guides of a layer relies on tracks in each. Elsewhere assertions
\* stop the program, or it reads memory that is not its own.
InTables(b) ==
  /\ b.layer \in GridLayers
  /\ {b.tracks.low, b.tracks.high} \subseteq Range0(NumTracks[b.layer])
  /\ {b.cps.low, b.cps.high} \subseteq Range0(NumCrossPoints[b.layer])

Defined(grid, gridPins) ==
  /\ \A i \in DOMAIN guides :
       \/ IsValid(rangeSearch(guides[i]).tracks)
       \/ \A j \in DOMAIN guides : guides[j].layer = guides[i].layer => j = i
  /\ \A i \in DOMAIN grid : InTables(grid[i])
  /\ \A p \in DOMAIN gridPins : \A i \in DOMAIN gridPins[p] : InTables(gridPins[p][i])

initGridBoxes ==
  /\ phase = "grid"
  /\ \E grid \in {gridRouteGuides(guides)},
        gridPins \in {[p \in Pins |-> getGridPinAccessBoxes(dbNet.pins[p])]} :
       LET boxes == [i \in DOMAIN grid |-> getLocBox(grid[i])]
       IN  /\ Defined(grid, gridPins)
           /\ gridGuides' = grid /\ guides' = boxes /\ access' = gridPins
           /\ pinBoxes' = [p \in Pins |-> [i \in DOMAIN gridPins[p] |-> getLocBox(gridPins[p][i])]]
           /\ mapping' = getRouteGuideMapping(boxes, dbNet.guides, mapping)
           /\ pinConn' = pinGuideConn(grid, gridPins) /\ conn' = guideConn(grid)
  /\ phase' = "check"
  /\ UNCHANGED <<dbNet, iter, numPitch, status>>

-----------------------------------------------------------------------------
(* Checking                                                                *)

\* A visit of checkGuideConnTrack is to a pin, or to a range of tracks of a
\* guide. These are the visits one tries, in the order of the code.
PinVisit(p) == [pin |-> p, guide |-> 0, tracks |-> Intvl(p, p)]
GuideVisit(g, tracks) == [pin |-> 0, guide |-> g, tracks |-> tracks]

VisitPin(net, p) ==
  LET visit(ga) == GuideVisit(ga[1], IntersectWith(net.gridGuides[ga[1]].tracks,
                                                   net.access[p][ga[2]].tracks))
      guidesOf == InOrder(net.pinConn[p], [ga \in net.pinConn[p] |-> <<ga[2], ga[1]>>])
  IN  [i \in DOMAIN guidesOf |-> visit(guidesOf[i])]

\* guide h is on the layer above or below, and a track in the range leads to it
JoinedFrom(net, g, tracks, h) ==
  LET l == net.gridGuides[g].layer
  IN  /\ net.gridGuides[h].layer # l
      /\ HasIntersectWith(net.gridGuides[h].cps,
           IF net.gridGuides[h].layer > l THEN getUpperCrossPointRange(l, tracks)
           ELSE getLowerCrossPointRange(l, tracks))

JoiningTracks(net, g, h) ==
  IF net.gridGuides[h].layer > net.gridGuides[g].layer
  THEN getViaBoxBetween(net.gridGuides[g], net.gridGuides[h]).upper.tracks
  ELSE getViaBoxBetween(net.gridGuides[h], net.gridGuides[g]).lower.tracks

\* mutant: from any track of the guide
VisitWholeGuide(net, g, tracks) ==
  LET next == Ascending({h \in net.conn[g] : JoinedFrom(net, g, net.gridGuides[g].tracks, h)})
      pins == Ascending({p \in DOMAIN net.access : \E ga \in net.pinConn[p] : ga[1] = g})
  IN  [i \in DOMAIN next |-> GuideVisit(next[i], JoiningTracks(net, g, next[i]))]
      \o [i \in DOMAIN pins |-> PinVisit(pins[i])]

\* onto all the tracks joined with the guide, once a track has a via to it
VisitGuide(net, g, tracks) ==
  LET touches(p) == \E ga \in net.pinConn[p] :
        ga[1] = g /\ HasIntersectWith(tracks, net.access[p][ga[2]].tracks)
      next == Ascending({h \in net.conn[g] : JoinedFrom(net, g, tracks, h)})
      pins == Ascending({p \in DOMAIN net.access : touches(p)})
  IN  [i \in DOMAIN next |-> GuideVisit(next[i], JoiningTracks(net, g, next[i]))]
      \o [i \in DOMAIN pins |-> PinVisit(pins[i])]

\* visits are to pins and to tracks of guides, which are marked one by one
Visits(net) ==
  {PinVisit(p) : p \in DOMAIN net.access} \cup
  {v \in [pin : {0}, guide : DOMAIN net.gridGuides, tracks : [low : Int, high : Int]] :
     In(v.tracks) \subseteq In(net.gridGuides[v.guide].tracks)}
Marks(v) == {<<v.pin, v.guide, t>> : t \in In(v.tracks)}
AllMarks(net) ==
  {<<p, 0, p>> : p \in DOMAIN net.access} \cup
  UNION {{<<0, g, t>> : t \in In(net.gridGuides[g].tracks)} : g \in DOMAIN net.gridGuides}

VisitNext(net, v) == IF v.pin > 0 THEN VisitPin(net, v.pin) ELSE VisitGuide(net, v.guide, v.tracks)

\* depth first, with what is still to visit and the marks made; a visit that
\* finds nothing unmarked is left at once
VisitStep(net, w) ==
  LET v == Head(w[1])
  IN  IF Marks(v) \subseteq w[2] THEN <<Tail(w[1]), w[2]>>
      ELSE <<VisitNext(net, v) \o Tail(w[1]), w[2] \cup Marks(v)>>

Visited(net, first) ==
  LET visited[w \in Seq(Visits(net)) \X SUBSET AllMarks(net)] ==
        IF w[1] = <<>> THEN w[2] ELSE visited[VisitStep(net, w)]
  IN  visited[<< <<first>>, {} >>]

checkGuideConnTrack(net) ==
  LET seen == Visited(net, PinVisit(1))
  IN  \A p \in DOMAIN net.access : <<p, 0, p>> \in seen

Check ==
  /\ phase = "check"
  /\ status' = CASE ~checkPin(LocalNetNow) -> "FAIL_PIN_OUT_OF_GRID"
                 [] checkPin(LocalNetNow) /\ ~checkPinGuideConn(LocalNetNow) -> "FAIL_DETACHED_PIN"
                 [] checkPinGuideConn(LocalNetNow) /\ ~checkGuideConnTrack(LocalNetNow) -> "FAIL_DETACHED_GUIDE"
                 [] OTHER -> "SUCC_NORMAL"
  /\ phase' = "checked"
  /\ UNCHANGED <<dbNet, netVars, iter, numPitch>>

-----------------------------------------------------------------------------
(* Again                                                                   *)

MayRetry == status = "FAIL_DETACHED_GUIDE" /\ iter < guideExpandIterLimit

Retry ==
  /\ phase = "checked" /\ MayRetry
  /\ iter' = iter + 1
  /\ numPitch' = numPitch + iter'
  /\ phase' = "expand" /\ status' = "SUCC_NORMAL"
  /\ UNCHANGED <<dbNet, netVars>>

Finish ==
  /\ phase = "checked" /\ ~MayRetry
  /\ phase' = "done"
  /\ UNCHANGED <<dbNet, netVars, iter, numPitch, status>>

Next ==
  \/ Expand \/ expandGuidesToCoverPins \/ initGridBoxes \/ Check \/ Retry \/ Finish

Spec == Init /\ [][Next]_vars

-----------------------------------------------------------------------------
(* Properties                                                              *)

Covered(boxes) == UNION {PointsIn(boxes[i]) : i \in DOMAIN boxes}

\* The guides put on the grid (initGridBoxes) are exactly the grid points that
\* lie in the guides, by the locations of tracks and cross points and whatever
\* the pitches of the layers above and below, each point in one guide only.
SlicesExact ==
  [][phase = "grid" =>
       /\ Covered(gridGuides') =
            {p \in GridPoint : \E i \in DOMAIN guides :
               /\ guides[i].layer = p.layer
               /\ getLoc(p).x \in In(guides[i].x) /\ getLoc(p).y \in In(guides[i].y)}
       /\ \A i, j \in DOMAIN gridGuides' :
            i # j => PointsIn(gridGuides'[i]) \cap PointsIn(gridGuides'[j]) = {}]_vars

\* Whatever guides a retry expands, slices and covers the pins with again, no
\* grid point that an attempt had is lost in a later one.
CoverageGrows ==
  [][phase = "grid" => Covered(gridGuides) \subseteq Covered(gridGuides')]_vars

\* q is above p
Above(p, q) == p.layer < LayerNum - 1 /\ getUpper(p) = q

\* the grid points reached from some: along a track in a guide, through the
\* access boxes of a pin, or through a via between grid points of these
ReachedOnGrid(guidePoints, accessPoints, start) ==
  LET grid == (UNION {guidePoints[g] : g \in DOMAIN guidePoints})
              \cup (UNION {accessPoints[p] : p \in DOMAIN accessPoints})
      alongIn(S, from) == {p \in S : \E q \in S \cap from : q.track = p.track}
      next(from) == from
        \cup (UNION {alongIn(guidePoints[g], from) : g \in DOMAIN guidePoints})
        \cup (UNION {accessPoints[p] : p \in {k \in DOMAIN accessPoints : accessPoints[k] \cap from # {}}})
        \cup {p \in grid : \E q \in from : Above(p, q) \/ Above(q, p)}
      reach[S \in SUBSET grid] == IF next(S) = S THEN S ELSE reach[next(S)]
  IN  reach[start]

JoinedOnGrid(net, accessPoints) ==
  LET guidePoints == [g \in DOMAIN net.gridGuides |-> PointsIn(net.gridGuides[g])]
      reached == ReachedOnGrid(guidePoints, accessPoints, accessPoints[1])
  IN  \A p \in DOMAIN accessPoints : accessPoints[p] \cap reached # {}

\* access points, and those of them in a guide of their own layer
AccessPoints(net) == [p \in DOMAIN net.access |-> Covered(net.access[p])]
AccessInGuides(net) ==
  [p \in DOMAIN net.access |-> Covered(net.access[p]) \cap Covered(net.gridGuides)]

\* an access box and a guide on another layer have a number of a track in common,
\* with which the program takes them as joined, and no via there
Misread(net) ==
  \E p \in DOMAIN net.access : \E ga \in net.pinConn[p] :
    LET guide == net.gridGuides[ga[1]]
        box == net.access[p][ga[2]]
    IN  /\ guide.layer # box.layer
        /\ \E t \in In(IntersectWith(guide.tracks, box.tracks)) :
             ~\E u \in PointsIn(guide), v \in PointsIn(box) : u.track = t /\ (Above(u, v) \/ Above(v, u))

\* checkGuideConnTrack looks at ranges of tracks and at boxes. It never misses
\* pins that a search of the grid, point by point, joins through guides on their
\* own layers; and it joins none that such a search, vias from access points to
\* guides on other layers included, does not, unless it takes the track of a
\* guide for one of an access box.
TrackCheckExact ==
  phase = "check" =>
    /\ JoinedOnGrid(LocalNetNow, AccessInGuides(LocalNetNow)) => checkGuideConnTrack(LocalNetNow)
    /\ ~Misread(LocalNetNow) /\ checkGuideConnTrack(LocalNetNow)
         => JoinedOnGrid(LocalNetNow, AccessPoints(LocalNetNow))

\* db/Stat.cpp:29 says of FAIL_DETACHED_GUIDE "has route guide detached from
\* others": the guides do not join the pins. They may: tracks of a guide are
\* compared with those of an access box also where the layers differ.
DetachedGuideIsDetached ==
  status = "FAIL_DETACHED_GUIDE" => ~JoinedOnGrid(LocalNetNow, AccessPoints(LocalNetNow))

\* A pin on the grid is detached only if no guide is within a layer of it, for those
\* that are have been extended to it, or if a guide has no grid point when it is
\* put on the grid; being extended to one of these does not attach a pin.
CoveredPinsAttached ==
  status = "FAIL_DETACHED_PIN" =>
    \/ \E p \in Pins : NearPairs(guides, p) = {}
    \/ \E i \in DOMAIN gridGuides : ~isValid(gridGuides[i])
=============================================================================
