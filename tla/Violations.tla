----------------------------- MODULE Violations -------------------------------
(***************************************************************************)
(* What an edge of a net's topology violates (RouteGrid::getEdgeVioCost    *)
(* and what it calls): the usage maps around the edge are searched with    *)
(* the tables of DesignRules. Only whether a cost is positive matters      *)
(* here: all weights are.                                                  *)
(***************************************************************************)
EXTENDS DesignRules

CONSTANTS
  Nets,
  PoorWire,    \* pairs of a grid point and the only net that may have a wire there
  FixedVio,    \* (via, net, type): where a via would be too near fixed metal
  PinHist      \* points with history cost from the start, but for one net

VARIABLES
  wireMap, viaMap,     \* pairs of a (lower) grid point and a net
  nonDefVia,           \* the vias of other than the default type, with their type
  histWire, histVia    \* points with history cost

maps == <<wireMap, viaMap, nonDefVia, histWire, histVia>>

Point(l, t, c) == [layer |-> l, track |-> t, cp |-> c]

getViaType(via) == IF via \in DOMAIN nonDefVia THEN nonDefVia[via] ELSE DefaultType

\* the nets with a wire at a point
WireAt(p) == {n \in Nets : <<p, n>> \in wireMap}
OtherWireAt(p, net) == \E n \in Nets \ {net} : <<p, n>> \in wireMap

-----------------------------------------------------------------------------
(* Vias                                                                    *)

\* in each track, the cross points from the first to the last in the table
TableRows(p, table) ==
  UNION {LET row == {o[2] : o \in {q \in table : q[1] = i}}
         IN  {Point(p.layer, p.track + i, p.cp + j) : j \in Min(row) .. Max(row)}
           : i \in {o[1] : o \in table}}

getViaUsageOnWires(via, net, type) ==
  LET up == getUpper(via)
  IN  \E p \in TableRows(via, viaBotWire[via.layer][type][via.cp])
                 \cup TableRows(up, viaTopWire[via.layer][type][up.cp]) :
        p \in GridPoint /\ OtherWireAt(p, net)

OtherVias(net) == {v[1] : v \in {w \in viaMap : w[2] # net}}

getViaUsageOnSameLayerVias(via, net, type) ==
  \E v \in OtherVias(net) :
    /\ v.layer = via.layer
    /\ <<v.track - via.track, getUpper(v).track - getUpper(via).track>>
         \in allViaMetal[via.layer][type][getViaType(v)]

\* from via with its lower point p to one below it with its upper point q
getViaUsageOnBotLayerVias(via, net, type) ==
  \E v \in OtherVias(net) :
    /\ v.layer + 1 = via.layer
    /\ <<getUpper(v).track - via.track, getUpper(v).cp - via.cp>>
         \in allViaBotVia[via.layer][type][getViaType(v)][via.cp]

\* viaTopVia is viaBotVia of the via above, seen from the one below
getViaUsageOnTopLayerVias(via, net, type) ==
  LET up == getUpper(via)
  IN  \E v \in OtherVias(net) :
        /\ v.layer = up.layer
        /\ <<up.track - v.track, up.cp - v.cp>>
             \in allViaBotVia[v.layer][getViaType(v)][type][v.cp]

getViaUsageOnVias(via, net, type) ==
  \/ getViaUsageOnSameLayerVias(via, net, type)
  \/ getViaUsageOnBotLayerVias(via, net, type)
  \/ getViaUsageOnTopLayerVias(via, net, type)

\* getViaPoorness: no type of via is allowed there
poorVia(via, net) == \A type \in ViaTypes : <<via, net, type>> \in FixedVio

\* getEdgeVioCost looks up the type of the via, which is then not passed on
getViaVio(via, net) ==
  \/ getViaUsageOnVias(via, net, DefaultType)
  \/ getViaUsageOnWires(via, net, DefaultType)
  \/ poorVia(via, net)

-----------------------------------------------------------------------------
(* Wires: a segment is the cross points lo to hi of a track                *)

\* the intervals of a track in routedWireMap: neighbours with the same nets are one
Intervals(l, t) ==
  LET nets(c) == WireAt(Point(l, t, c))
      used == {c \in Range0(NumCrossPoints[l]) : nets(c) # {}}
      from(c) == Max({d \in used : d >= c /\ \A e \in c .. d : nets(e) = nets(c)})
  IN  {[low |-> c, high |-> from(c), nets |-> nets(c)] :
         c \in {d \in used : d = 0 \/ nets(d - 1) # nets(d)}}

Meeting(intervals, lo, hi) == {i \in intervals : i.low <= hi /\ lo <= i.high}

\* only the nearest interval on each side is looked at
getWireSegmentSpaceVioOnWires(l, t, lo, hi, net) ==
  LET intervals == Intervals(l, t)
      before == Meeting(intervals, lo + wireRange[l][lo].low, lo - 1)
      after == Meeting(intervals, hi + 1, hi + wireRange[l][hi].high)
  IN  \/ \E i \in before :
           /\ \A j \in before : j.low <= i.low
           /\ net \notin i.nets /\ i.high < lo
           /\ lo <= i.high + wireRange[l][i.high].high
      \/ \E i \in after :
           /\ \A j \in after : i.low <= j.low
           /\ net \notin i.nets /\ hi < i.low
           /\ i.low + wireRange[l][i.low].low <= hi

\* the same for single cross points, where the net's own wires count as well
getShortWireSegmentSpaceVioOnWires(l, t, lo, hi) ==
  UNION {(i.low + wireRange[l][i.low].low .. i.low - 1)
           \cup (i.high + 1 .. i.high + wireRange[l][i.high].high)
           : i \in Meeting(Intervals(l, t), lo + wireRange[l][lo].low, hi + wireRange[l][hi].high)}
  \cap (lo .. hi)

\* mutant: vias beyond the ends of the segment are not looked at
ViaWindowOfSegment(l, t, lo, hi) ==
  LET points(reach) == (t - reach.x .. t + reach.x) \X (lo .. hi)
  IN  [top |-> IF l = LayerNum - 1 THEN {} ELSE points(wireTopReach[l]),
       bot |-> IF l = 0 THEN {} ELSE points(wireBotReach[l])]

\* the tracks and cross points of vias that are looked at, above and below the layer
ViaWindow(l, t, lo, hi) ==
  LET around(y) == lo - Greater(y[lo], y[hi]) .. hi + Greater(y[lo], y[hi])
      points(reach) == (t - reach.x .. t + reach.x) \X around(reach.y)
  IN  [top |-> IF l = LayerNum - 1 THEN {} ELSE points(wireTopReach[l]),
       bot |-> IF l = 0 THEN {} ELSE points(wireBotReach[l])]

getWireSegmentUsageOnVias(l, t, lo, hi, net) ==
  LET window == ViaWindow(l, t, lo, hi)
      inside(p, points) == <<p.track, p.cp>> \in points
      top == {v \in OtherVias(net) : v.layer = l /\ inside(v, window.top)}
      bot == {v \in OtherVias(net) : v.layer + 1 = l /\ inside(getUpper(v), window.bot)}
      hits(p, table) == {j \in lo .. hi : <<t - p.track, j - p.cp>> \in table}
  IN  (UNION {hits(v, viaBotWire[l][getViaType(v)][v.cp]) : v \in top}) \cup
      (UNION {hits(getUpper(v), viaTopWire[l - 1][getViaType(v)][getUpper(v).cp]) : v \in bot})

poorFor(p, net) == \E w \in PoorWire : w[1] = p /\ w[2] # net

getWireSegmentVio(l, t, lo, hi, net) ==
  \/ \E c \in lo .. hi : OtherWireAt(Point(l, t, c), net) \/ poorFor(Point(l, t, c), net)
  \/ getWireSegmentSpaceVioOnWires(l, t, lo, hi, net)
  \/ getWireSegmentUsageOnVias(l, t, lo, hi, net) # {}

histFor(p, net) ==
  p \in histWire \/ (p \in DOMAIN PinHist /\ PinHist[p] # net)

\* getShortWireSegmentVioCost: the cross points of a segment that cost something
getShortWireSegmentVio(l, t, lo, hi, net, histCost) ==
  {c \in lo .. hi : \/ OtherWireAt(Point(l, t, c), net)
                    \/ poorFor(Point(l, t, c), net)
                    \/ histCost /\ histFor(Point(l, t, c), net)}
  \cup getShortWireSegmentSpaceVioOnWires(l, t, lo, hi)
  \cup getWireSegmentUsageOnVias(l, t, lo, hi, net)

getEdgeVio(e, net) ==
  IF isVia(e) THEN getViaVio(lower(e), net)
  ELSE LET p == e.u
           Lo(f) == Lesser(e.u[f], e.v[f])
           Hi(f) == Greater(e.u[f], e.v[f])
       IN  IF isTrackSegment(e)
           THEN getWireSegmentVio(p.layer, p.track, Lo("cp"), Hi("cp"), net)
           ELSE \E t \in Lo("track") .. Hi("track") :
                  getWireSegmentVio(p.layer, t, p.cp, p.cp, net)

-----------------------------------------------------------------------------
(* History                                                                 *)

\* addWireHistCost, addViaHistCost; fading never makes a cost zero
HistOfTrack(l, t) ==
  UNION {(IF Cardinality(i.nets) > 1 THEN i.low .. i.high ELSE {}) \cup
         UNION {getWireSegmentUsageOnVias(l, t, i.low, i.high, n) : n \in i.nets}
           : i \in Intervals(l, t)}

\* mutant: vias are judged as being of the default type
addHistCostByDefault ==
  /\ histWire' = histWire \cup
       {p \in {w[1] : w \in wireMap} : p.cp \in HistOfTrack(p.layer, p.track)}
  /\ histVia' = histVia \cup
       {v[1] : v \in {w \in viaMap : getViaUsageOnVias(w[1], w[2], DefaultType)}}

addHistCost ==
  /\ histWire' = histWire \cup
       {p \in {w[1] : w \in wireMap} : p.cp \in HistOfTrack(p.layer, p.track)}
  /\ histVia' = histVia \cup
       {v[1] : v \in {w \in viaMap : getViaUsageOnVias(w[1], w[2], getViaType(w[1]))}}
=============================================================================
