------------------------------- MODULE MinArea --------------------------------
(***************************************************************************)
(* Wires that are too short and what becomes of them: PostMazeRoute gives  *)
(* a wire an extension that violates no rule or, in all iterations but the *)
(* last, one that does, so that rip-up and reroute sees the violation;     *)
(* UpdateDB records the net, finds the nets to rip up and leaves history   *)
(* costs where they met; finish() redoes extensions that came into         *)
(* conflict.                                                               *)
(*                                                                         *)
(* Batches have one net here, taken in any order (Router has the others),  *)
(* and maze routing finds any of a few topologies, whatever its costs. A   *)
(* node of a topology is [point, pin, parent, real]: real tells pins from  *)
(* fake ones.                                                              *)
(***************************************************************************)
EXTENDS Violations, GridTopo

CONSTANTS
  Topologies,          \* of each net
  PreferredType,       \* of each via, without regard to conflicts
  MinLen, MinLenOneVia, MinLenTwoVia, ViaOvlpDist,     \* of each layer
  rrrIterLimit

ASSUME MinAreaAssumption == rrrIterLimit \in Nat \ {0}

VARIABLES
  topo, ext,     \* of each net: its nodes; pairs of a node and its extWireSeg
  iter, pending, \* the iteration, the nets the phase has still to do
  phase, net     \* what is done next, to which net

vars == <<maps, topo, ext, iter, pending, phase, net>>

converMinAreaToOtherVio == iter + 1 < rrrIterLimit

-----------------------------------------------------------------------------
(* Candidates                                                              *)

EdgeAbove(t, m) == Edge(t[m].point, t[t[m].parent].point)
WithParent(t) == DOMAIN t \ Roots(t)
WireChildren(t, m) == {c \in children(t, m) : isTrackSegment(EdgeAbove(t, c))}

\* nodes that make a wire long enough: real pins and ends of wrong-way segments
Exempt(t) ==
  {m \in DOMAIN t : t[m].real} \cup
  UNION {{m, t[m].parent} : m \in {c \in WithParent(t) : isWrongWaySegment(EdgeAbove(t, c))}}

\* wires, given by their ends, that no exempt node is part of
WireCandidates(t) ==
  LET chain[m \in DOMAIN t] ==
        {m} \cup (IF WireChildren(t, m) = {} THEN {}
                  ELSE chain[CHOOSE c \in WireChildren(t, m) : TRUE])
      wire(m) == {m} \cup UNION {chain[c] : c \in WireChildren(t, m)}
      leaves(m) == {c \in wire(m) \ {m} : WireChildren(t, c) = {}}
      heads == {m \in DOMAIN t : /\ WireChildren(t, m) # {}
                                 /\ m \in Roots(t) \/ ~isTrackSegment(EdgeAbove(t, m))
                                 /\ wire(m) \cap Exempt(t) = {}}
  IN  {IF Cardinality(leaves(m)) = 1 THEN {m} \cup leaves(m) ELSE leaves(m) : m \in heads}

\* a via on a via, or one that ends the tree at a fake pin
ViaCandidates(t) ==
  LET vias == {m \in WithParent(t) : isVia(EdgeAbove(t, m))}
      between == {m \in vias : /\ children(t, m) \subseteq vias
                               /\ Cardinality(children(t, m)) <= 1}
      first == {m \in Roots(t) : \E c \in vias : children(t, m) = {c}}
  IN  {{m} : m \in {c \in between \cup first : ~t[c].real}}

-----------------------------------------------------------------------------
(* Extensions                                                              *)

hasMinLenVioAcc(l, len) ==
  len < IF len < ViaOvlpDist[l] THEN MinLenOneVia[l] ELSE MinLenTwoVia[l]
Dist(l, lo, hi) == Loc(l, hi) - Loc(l, lo)

\* mutant: the bounds are the last cross points at which the wire is too short
WireInside(l, t, left, right) ==
  [layer |-> l, track |-> t, left |-> left, right |-> right,
   low |-> Min({left} \cup {c \in 0 .. left - 1 : Dist(l, c, right) < MinLen[l]}),
   high |-> Max({right} \cup
                {c \in right + 1 .. NumCrossPoints[l] - 1 : Dist(l, left, c) < MinLen[l]})]

\* a wire on a track, and how far an extension may have to go
Wire(l, t, left, right) ==
  [layer |-> l, track |-> t, left |-> left, right |-> right,
   low |-> Max({0} \cup {c \in 0 .. left - 1 : Dist(l, c, right) >= MinLen[l]}),
   high |-> Min({NumCrossPoints[l] - 1} \cup
                {c \in right + 1 .. NumCrossPoints[l] - 1 : Dist(l, left, c) >= MinLen[l]})]

LongEnough(w, i) == Dist(w.layer, i.low, i.high) >= MinLen[w.layer]

\* mutant: the cross point that stopped the growth stays in
StoppedOn(w, blocked, s) ==
  [s EXCEPT !.leftStop = @ \/ s.low < w.low \/ s.low \in blocked,
            !.rightStop = @ \/ s.high > w.high \/ s.high \in blocked,
            !.low = Greater(@, w.low), !.high = Lesser(@, w.high)]

\* stop at the ends and at what is blocked, and step back from there
Stopped(w, blocked, s) ==
  LET hitLeft == s.low < w.low \/ s.low \in blocked
      hitRight == s.high > w.high \/ s.high \in blocked
  IN  [s EXCEPT !.leftStop = @ \/ hitLeft, !.rightStop = @ \/ hitRight,
                !.low = IF hitLeft /\ @ < w.left THEN @ + 1 ELSE @,
                !.high = IF hitRight /\ @ > w.right THEN @ - 1 ELSE @]

\* one side in turn, unless it is stopped
Step(s) ==
  IF (~s.moveLeft \/ s.rightStop) /\ ~s.leftStop
  THEN [s EXCEPT !.low = @ - 1, !.moveLeft = TRUE]
  ELSE [s EXCEPT !.high = @ + 1, !.moveLeft = FALSE]

Growth == [low : Int, high : Int, leftStop : BOOLEAN, rightStop : BOOLEAN, moveLeft : BOOLEAN]

extendRange(w, from, blocked) ==
  LET grow[s \in Growth] ==
        IF (s.leftStop /\ s.rightStop) \/ LongEnough(w, s) THEN Intvl(s.low, s.high)
        ELSE grow[Stopped(w, blocked, Step(s))]
  IN  grow[Stopped(w, blocked, [low |-> from.low, high |-> from.high, moveLeft |-> FALSE,
                                leftStop |-> FALSE, rightStop |-> FALSE])]

\* the cross points of and around a wire that cost something
Costly(w, n, hist) == getShortWireSegmentVio(w.layer, w.track, w.low, w.high, n, hist)

\* the longer wire, or the wire itself where it is in conflict already
Grown(w, self, costly, withHist) ==
  IF costly \cap In(self) # {} THEN self
  ELSE IF LongEnough(w, extendRange(w, self, withHist)) THEN extendRange(w, self, withHist)
  ELSE extendRange(w, self, costly)

Converted(w, i) ==
  IF converMinAreaToOtherVio /\ ~LongEnough(w, i) THEN extendRange(w, i, {}) ELSE i

WireOf(t, cand) ==
  LET p == t[CHOOSE m \in cand : TRUE].point
      cps == {t[m].point.cp : m \in cand}
  IN  Wire(p.layer, p.track, Min(cps), Max(cps))

TooShort(w) == hasMinLenVioAcc(w.layer, Dist(w.layer, w.left, w.right))

Segment(w, lo, hi) == Edge(Point(w.layer, w.track, lo), Point(w.layer, w.track, hi))

\* the segments that make w as long as i
Patches(t, cand, w, i) ==
  CASE ~LongEnough(w, i) -> {}
    [] LongEnough(w, i) /\ Cardinality(cand) = 1 -> {<<m, Segment(w, i.low, i.high)>> : m \in cand}
    [] OTHER ->
         {<<m, Segment(w, i.low, w.left)>> :
            m \in {k \in cand : t[k].point.cp = w.left /\ i.low # w.left}} \cup
         {<<m, Segment(w, w.right, i.high)>> :
            m \in {k \in cand : t[k].point.cp = w.right /\ i.high # w.right}}

getExtendWireRects(t, cand, n) ==
  UNION {Patches(t, cand, w, Converted(w, i)) : <<w, i>> \in
    UNION {{<<v, Grown(v, Intvl(v.left, v.right), c, h)>> :
              c \in {Costly(v, n, FALSE)}, h \in {Costly(v, n, TRUE)}}
             : v \in {u \in {WireOf(t, cand)} : TooShort(u)}}}

candidateEdges(t) == WireCandidates(t) \cup ViaCandidates(t)

\* x with extensions for the candidates none of whose nodes has one
extendMinAreaWires(t, x, n) ==
  x \cup UNION {getExtendWireRects(t, cand, n) :
                  cand \in {c \in candidateEdges(t) : \A e \in x : e[1] \notin c}}

-----------------------------------------------------------------------------
(* Steps                                                                   *)

Empty == [m \in {} |-> 0]
edgesOf(t, x) == {EdgeAbove(t, m) : m \in WithParent(t)} \cup {e[2] : e \in x}
wiresOf(es) == UNION {SegmentPoints(e) : e \in {f \in es : ~isVia(f)}}
viasOf(es) == {lower(e) : e \in {f \in es : isVia(f)}}

Init ==
  /\ wireMap = {} /\ viaMap = {} /\ nonDefVia = Empty
  /\ histWire = {} /\ histVia = {}
  /\ topo = [n \in Nets |-> Empty] /\ ext = [n \in Nets |-> {}]
  /\ iter = 0 /\ pending = Nets
  /\ phase = "route" /\ net \in Nets

\* maze routing, PostMazeRoute::run and commitNetToDB for one net
Route ==
  /\ phase = "route"
  /\ \E n \in pending : \E t \in Topologies[n] :
       /\ \E x \in {extendMinAreaWires(t, {}, n)} :
            /\ topo' = [topo EXCEPT ![n] = t]
            /\ ext' = [ext EXCEPT ![n] = x]
            /\ wireMap' = wireMap \cup (wiresOf(edgesOf(t, x)) \X {n})
            /\ viaMap' = viaMap \cup (viasOf(edgesOf(t, x)) \X {n})
       /\ pending' = pending \ {n} /\ net' = n
  /\ phase' = "types"
  /\ UNCHANGED <<nonDefVia, histWire, histVia, iter>>

\* The types in conflict with the fewest others: with none, if there are such
\* types. Of these the score prefers one, by its cuts and the pin next to it.
BestTypes(via, n) ==
  LET free == {type \in ViaTypes : /\ <<via, n, type>> \notin FixedVio
                                   /\ ~getViaUsageOnWires(via, n, type)
                                   /\ ~getViaUsageOnVias(via, n, type)}
  IN  CASE PreferredType[via] \in free -> {PreferredType[via]}
        [] PreferredType[via] \notin free /\ free # {} -> free
        [] OTHER -> ViaTypes

\* PostRoute::getViaTypes and commitViaTypes
SelectViaTypes ==
  LET vias == viasOf(edgesOf(topo[net], ext[net]))
  IN  /\ phase = "types"
      /\ \E type \in [vias -> ViaTypes] :
           /\ \A via \in vias : type[via] \in BestTypes(via, net)
           /\ nonDefVia' = [via \in (DOMAIN nonDefVia \ vias) \cup {v \in vias : type[v] # DefaultType}
                              |-> IF via \in vias THEN type[via] ELSE nonDefVia[via]]
      /\ phase' = "route"
      /\ UNCHANGED <<wireMap, viaMap, histWire, histVia, topo, ext, iter, pending, net>>

checkViolation(n) == \E e \in edgesOf(topo[n], ext[n]) : getEdgeVio(e, n)

netsToRoute == {n \in Nets : checkViolation(n)}

\* UpdateDB::clearRouteResult of several nets
ripup(ns) ==
  LET es == UNION {edgesOf(topo[n], ext[n]) : n \in ns}
  IN  /\ wireMap' = wireMap \ UNION {wiresOf(edgesOf(topo[n], ext[n])) \X {n} : n \in ns}
      /\ viaMap' = {v \in viaMap : v[2] \notin ns}
      /\ nonDefVia' = [via \in DOMAIN nonDefVia \ viasOf(es) |-> nonDefVia[via]]
      /\ topo' = [n \in Nets |-> IF n \in ns THEN Empty ELSE topo[n]]
      /\ ext' = [n \in Nets |-> IF n \in ns THEN {} ELSE ext[n]]

BetweenIterations == phase = "route" /\ pending = {}

StartIteration ==
  /\ BetweenIterations /\ iter + 1 < rrrIterLimit
  /\ \E ns \in {netsToRoute} \ {{}} : ripup(ns) /\ pending' = ns
  /\ addHistCost
  /\ iter' = iter + 1
  /\ UNCHANGED <<phase, net>>

StartFinish ==
  /\ BetweenIterations /\ (iter + 1 = rrrIterLimit \/ netsToRoute = {})
  /\ phase' = "clear" /\ pending' = Nets
  /\ UNCHANGED <<maps, topo, ext, iter, net>>

clearMinAreaRouteResult ==
  /\ phase = "clear"
  /\ \E n \in pending :
       /\ wireMap' = wireMap \ (wiresOf({e[2] : e \in ext[n]}) \X {n})
       /\ pending' = pending \ {n} /\ net' = n
  /\ phase' = "run2"
  /\ UNCHANGED <<viaMap, nonDefVia, histWire, histVia, topo, ext, iter>>

run2 ==
  /\ phase = "run2"
  /\ \E x \in {{e \in ext[net] : ~getEdgeVio(e[2], net)}} :
       ext' = [ext EXCEPT ![net] = extendMinAreaWires(topo[net], x, net)]
  /\ phase' = "commit"
  /\ UNCHANGED <<maps, topo, iter, pending, net>>

commitMinAreaRouteResult ==
  /\ phase = "commit"
  /\ wireMap' = wireMap \cup (wiresOf({e[2] : e \in ext[net]}) \X {net})
  /\ phase' = IF pending = {} THEN "done" ELSE "clear"
  /\ UNCHANGED <<viaMap, nonDefVia, histWire, histVia, topo, ext, iter, pending, net>>

Next ==
  \/ Route \/ SelectViaTypes \/ StartIteration \/ StartFinish
  \/ clearMinAreaRouteResult \/ run2 \/ commitMinAreaRouteResult

Spec == Init /\ [][Next]_vars

-----------------------------------------------------------------------------
(* Properties                                                              *)

cellsOf(n) == wiresOf(edgesOf(topo[n], ext[n]))
Others(n, Of(_)) == UNION {Of(m) : m \in Nets \ {n}}
netVias(n) == viasOf(edgesOf(topo[n], ext[n]))

\* the metal of a via and of a wire at a point, without tables
MetalOf(via, type, part) ==
  LET box == ViaMetal[via.layer][type][part]
  IN  Box(box.layer, Shift(box.x, getLoc(via).x), Shift(box.y, getLoc(via).y))
WireMetal(p) ==
  LET around(loc) == Widen(Intvl(loc, loc), halfWidth(p.layer))
  IN  Box(p.layer, around(getLoc(p).x), around(getLoc(p).y))

TooNear(l, metal, wire) ==
  \/ L2Less(metal, wire, Space[l])
  \/ isEolViolation(l, Gap(metal.x, wire.x), Length(metal.y), Gap(metal.y, wire.y))
  \/ isEolViolation(l, Gap(metal.y, wire.y), Length(metal.x), Gap(metal.x, wire.x))

ViaHitsWire(via, type, p) ==
  \/ p.layer = via.layer /\ TooNear(p.layer, MetalOf(via, type, "bot"), WireMetal(p))
  \/ p.layer = via.layer + 1 /\ TooNear(p.layer, MetalOf(via, type, "top"), WireMetal(p))

PartLayer(via, part) == IF part = "bot" THEN via.layer ELSE via.layer + 1

ViaHitsVia(v, type, w, other) ==
  \/ v.layer = w.layer /\ L2Less(MetalOf(v, type, "cut"), MetalOf(w, other, "cut"), CutSpace[v.layer])
  \/ \E a, b \in {"bot", "top"} :
       /\ PartLayer(v, a) = PartLayer(w, b)
       /\ MetalConflict(PartLayer(v, a), MetalOf(v, type, a), MetalOf(w, other, b))

EndsTooNear(p, q) ==
  /\ SameTrack(p, q)
  /\ Loc(p.layer, p.cp) - Loc(q.layer, q.cp) < wireEndPointSpace(p.layer)
  /\ Loc(q.layer, q.cp) - Loc(p.layer, p.cp) < wireEndPointSpace(p.layer)

InConflict(n) ==
  \/ \E p \in cellsOf(n) :
       \/ poorFor(p, n)
       \/ \E q \in Others(n, cellsOf) : EndsTooNear(p, q)
       \/ \E v \in Others(n, netVias) : ViaHitsWire(v, getViaType(v), p)
  \/ \E v \in netVias(n) :
       \/ poorVia(v, n)
       \/ \E q \in Others(n, cellsOf) : ViaHitsWire(v, DefaultType, q)
       \/ \E w \in Others(n, netVias) : ViaHitsVia(v, DefaultType, w, getViaType(w))

(* checkViolation finds a net to rip up exactly if its metal is too near   *)
(* that of another net or fixed metal, by the design rules themselves and  *)
(* from the topologies: the tables, windows and interval maps of the       *)
(* search, with edges merged and cut at will, neither miss one nor invent  *)
(* one. A net's own vias are judged as being of the default type.          *)
ViolationsExact ==
  phase \in {"route", "types"} => \A n \in Nets : checkViolation(n) <=> InConflict(n)

ShortWires(t) ==
  {w \in {WireOf(t, cand) : cand \in candidateEdges(t)} : TooShort(w)}

\* where a wire could be long enough without violating a rule
FreePatches(w, n) ==
  {i \in {Intvl(lo, hi) : lo \in 0 .. w.left, hi \in w.right .. NumCrossPoints[w.layer] - 1} :
     LongEnough(w, i) /\ ~getWireSegmentVio(w.layer, w.track, i.low, i.high, n)}

\* the wire is part of one that is long enough and violates no rule
Mended(w, n, es) ==
  \E i \in FreePatches(w, n) :
    \A c \in In(i) \ (w.left .. w.right) : Point(w.layer, w.track, c) \in wiresOf({e[2] : e \in es})

(* Growing an extension to both sides in turns, first around history and   *)
(* then without, finds one that violates no rule whenever there is one.    *)
ExtensionFound ==
  [][phase = "route" /\ phase' = "types" =>
       \A w \in ShortWires(topo'[net']) :
         FreePatches(w, net') # {} => Mended(w, net', ext'[net'])]_vars

(* In the last iteration no extension violates a rule, when it is chosen   *)
(* and when finish() chooses it anew; before, only those of wires that no  *)
(* rule leaves room for.                                                   *)
ExtensionsClean ==
  [][\A e \in ext'[net'] \ ext[net'] :
       getEdgeVio(e[2], net') =>
         /\ converMinAreaToOtherVio
         /\ \E w \in ShortWires(topo'[net']) :
              /\ w.layer = e[2].u.layer /\ w.track = e[2].u.track
              /\ phase = "run2" \/ FreePatches(w, net') = {}]_vars

Shorted == {p \in {w[1] : w \in wireMap} : Cardinality(WireAt(p)) > 1}
WireHits == {w \in wireMap : \E v \in viaMap : v[2] # w[2] /\ ViaHitsWire(v[1], getViaType(v[1]), w[1])}
ViaHits == {v \in viaMap : \E w \in viaMap :
              v[2] # w[2] /\ ViaHitsVia(v[1], getViaType(v[1]), w[1], getViaType(w[1]))}

(* Rip-up leaves history costs at each point where two wires overlap, a    *)
(* wire is too near a via or two vias are too near each other, by the      *)
(* types they had: the nets are removed, and the types with them, only     *)
(* after that.                                                             *)
HistoryRemembers ==
  [][iter' = iter + 1 =>
       /\ Shorted \cup {w[1] : w \in WireHits} \subseteq histWire'
       /\ {v[1] : v \in ViaHits} \subseteq histVia']_vars

(* finish() redoes min-area handling: a wire that has lost its extension   *)
(* gets another one if the other nets leave room.                          *)
ExtensionRedone ==
  [][phase = "run2" =>
       \A w \in ShortWires(topo[net]) :
         FreePatches(w, net) # {} => Mended(w, net, ext'[net])]_vars
=============================================================================
