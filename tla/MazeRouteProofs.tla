-------------------------- MODULE MazeRouteProofs ---------------------------
(***************************************************************************)
(* Proof that the search of maze routing fails only when it must, for any  *)
(* grid graph, costs and minimum lengths.                                  *)
(***************************************************************************)
EXTENDS MazeRoute, TLAPS, FiniteSetTheorems, SequenceTheorems

-----------------------------------------------------------------------------
(* The least of a set of natural numbers, and functions that are defined by*)
(* recursion on smaller numbers.                                           *)

LEMMA LeastNatural ==
  ASSUME NEW S, S \subseteq Nat, S # {}
  PROVE  \E m \in S : \A n \in S : m <= n
  <1> DEFINE U == {0 .. n - 1 : n \in S}
             R == StrictSubsetOrdering(Nat)
  <1>1. U \subseteq FiniteSubsetsOf(Nat) /\ U # {}
    <2>1. \A n \in S : 0 .. n - 1 \in SUBSET Nat /\ IsFiniteSet(0 .. n - 1)
      BY FS_Interval
    <2> QED BY <2>1 DEF FiniteSubsetsOf
  <1>2. IsWellFoundedOn(R, FiniteSubsetsOf(Nat))
    BY FS_StrictSubsetOrderingWellFounded
  <1>3. PICK x \in U : \A y \in U : ~ (<<y, x>> \in R)
    <2> HIDE DEF U, R
    <2> QED BY <1>1, <1>2, WFMin
  <1>4. PICK m \in S : x = 0 .. m - 1
    OBVIOUS
  <1>5. ASSUME NEW n \in S, n < m PROVE FALSE
    <2>1. 0 .. n - 1 \in U /\ 0 .. n - 1 \subseteq 0 .. m - 1 /\ 0 .. n - 1 # 0 .. m - 1
      <3>1. n \in 0 .. m - 1 /\ n \notin 0 .. n - 1
        BY <1>5
      <3> QED BY <1>5, <3>1
    <2>2. <<0 .. n - 1, x>> \in R
      BY <1>4, <2>1 DEF StrictSubsetOrdering
    <2> QED BY <1>3, <2>1, <2>2
  <1> QED BY <1>5

\* iterating a function
Iterates(f, N, a, g) ==
  f = [n \in 0 .. N |-> IF n = 0 THEN a ELSE g[f[n - 1]]]

LEMMA IteratesExist ==
  ASSUME NEW S, NEW a \in S, NEW g \in [S -> S], NEW N \in Nat
  PROVE  \E f \in [0 .. N -> S] : Iterates(f, N, a, g)
  <1> DEFINE Bad == {n \in Nat : ~\E f \in [0 .. n -> S] : Iterates(f, n, a, g)}
  <1>1. ASSUME Bad # {} PROVE FALSE
    <2>1. PICK m \in Bad : \A n \in Bad : m <= n
      <3>1. Bad \subseteq Nat
        OBVIOUS
      <3> QED BY <1>1, <3>1, LeastNatural
    <2>2. CASE m = 0
      <3> DEFINE f == [n \in 0 .. 0 |-> a]
      <3>1. f \in [0 .. m -> S] /\ Iterates(f, m, a, g)
        BY <2>2 DEF Iterates
      <3> QED BY <2>1, <3>1
    <2>3. CASE m # 0
      <3>1. m - 1 \in Nat /\ m - 1 \notin Bad
        BY <2>1, <2>3
      <3>2. PICK f \in [0 .. m - 1 -> S] : Iterates(f, m - 1, a, g)
        BY <3>1
      <3> DEFINE h == [n \in 0 .. m |-> IF n = m THEN g[f[m - 1]] ELSE f[n]]
      <3>3. h \in [0 .. m -> S]
        BY <2>3, <3>1
      <3>4. \A n \in 0 .. m : h[n] = IF n = 0 THEN a ELSE g[h[n - 1]]
        BY <2>3, <3>1, <3>2 DEF Iterates
      <3>5. Iterates(h, m, a, g)
        BY <3>3, <3>4 DEF Iterates
      <3> QED BY <2>1, <3>3, <3>5
    <2> QED BY <2>2, <2>3
  <1> QED BY <1>1

\* following a chain of numbers backwards, to 0 or to where it stops
Follows(f, N, prev, stops) ==
  f = [s \in 0 .. N |-> IF s = 0 \/ s \in stops THEN <<>> ELSE <<s>> \o f[prev[s]]]

LEMMA FollowsExist ==
  ASSUME NEW N \in Nat, NEW prev \in [1 .. N -> Nat], \A s \in 1 .. N : prev[s] < s,
         NEW stops
  PROVE  \E f \in [0 .. N -> Seq(1 .. N)] : Follows(f, N, prev, stops)
  <1> DEFINE S == Seq(1 .. N)
             Bad == {n \in 0 .. N : ~\E f \in [0 .. n -> S] : Follows(f, n, prev, stops)}
  <1>0. <<>> \in S
    OBVIOUS
  <1>1. ASSUME Bad # {} PROVE FALSE
    <2>1. PICK m \in Bad : \A n \in Bad : m <= n
      <3>1. Bad \subseteq Nat
        OBVIOUS
      <3> QED BY <1>1, <3>1, LeastNatural
    <2>2. CASE m = 0
      <3> DEFINE f == [n \in 0 .. 0 |-> <<>>]
      <3>1. f \in [0 .. m -> S] /\ Follows(f, m, prev, stops)
        BY <1>0, <2>2 DEF Follows
      <3> QED BY <2>1, <3>1
    <2>3. CASE m # 0
      <3>1. m - 1 \in 0 .. N /\ m - 1 \notin Bad /\ m \in 1 .. N
        <4>1. m \in 0 .. N
          BY <2>1
        <4>2. m - 1 \in 0 .. N /\ m \in 1 .. N /\ ~(m <= m - 1)
          BY <2>3, <4>1
        <4> HIDE DEF Bad
        <4> QED BY <2>1, <4>2
      <3>2. PICK f \in [0 .. m - 1 -> S] : Follows(f, m - 1, prev, stops)
        BY <3>1
      <3>3. prev[m] \in 0 .. m - 1
        BY <3>1
      <3> DEFINE top == IF m \in stops THEN <<>> ELSE <<m>> \o f[prev[m]]
                 h == [n \in 0 .. m |-> IF n = m THEN top ELSE f[n]]
      <3>4. top \in S
        <4>1. f[prev[m]] \in S /\ <<m>> \in S
          BY <3>1, <3>2, <3>3
        <4>2. <<m>> \o f[prev[m]] \in S
          BY <4>1, ConcatProperties
        <4> QED BY <1>0, <4>2
      <3>5. h \in [0 .. m -> S]
        <4> HIDE DEF top, S
        <4>1. \A n \in 0 .. m : n # m => f[n] \in S
          BY <3>1, <3>2
        <4> QED BY <3>4, <4>1
      <3>6. \A s \in 0 .. m : h[s] = IF s = 0 \/ s \in stops THEN <<>> ELSE <<s>> \o h[prev[s]]
        <4>1. h[m] = IF m \in stops THEN <<>> ELSE <<m>> \o h[prev[m]]
          BY <3>1, <3>3
        <4>2. ASSUME NEW s \in 0 .. m - 1
              PROVE  h[s] = IF s = 0 \/ s \in stops THEN <<>> ELSE <<s>> \o h[prev[s]]
          <5>1. h[s] = f[s] /\ s # m
            BY <3>1, <4>2
          <5>2. s # 0 => h[prev[s]] = f[prev[s]]
            <6>1. s # 0 => prev[s] \in 0 .. m - 1 /\ prev[s] # m
              BY <3>1, <4>2, SMTT(30)
            <6>2. \A n \in 0 .. m - 1 : n # m => n \in 0 .. m
              BY <3>1
            <6> HIDE DEF top, S
            <6> QED BY <6>1, <6>2
          <5> HIDE DEF h, S
          <5> QED BY <3>2, <5>1, <5>2 DEF Follows
        <4>3. \A s \in 0 .. m : s = m \/ s \in 0 .. m - 1
          BY <3>1
        <4> HIDE DEF h, S
        <4> QED BY <2>3, <4>1, <4>2, <4>3
      <3>7. Follows(h, m, prev, stops)
        <4> HIDE DEF top, S
        <4> QED BY <3>5, <3>6 DEF Follows
      <3> HIDE DEF h, S
      <3>8. \E g \in [0 .. m -> S] : Follows(g, m, prev, stops)
        BY <3>5, <3>7
      <3> QED BY <2>1, <3>8
    <2> QED BY <2>2, <2>3
  <1> QED BY <1>1

-----------------------------------------------------------------------------
(***************************************************************************)
(* The invariant of the search. The parts:                                 *)
(*   Shape     solutions have a cost that the bound of their vertex, and   *)
(*             their own, do not fall below, and come after the ones they  *)
(*             go on from;                                                 *)
(*   Passed    a path goes on from a vertex of a new pin only when the pin *)
(*             has been connected, and none reaches a new pin for nothing; *)
(*   Frontier  what has a bound has been explored, or waits for it in the  *)
(*             heap with a solution that will not be pruned;               *)
(*   Connected all vertices of the connected pins have a bound.            *)
(***************************************************************************)
Sol == [cost : Nat, len : Int, costUB : Nat, vertex : Vertices, prev : Nat]

Bounded(v) == vertexCostUBs[v] # NoBound

SolOK(s) ==
  /\ s.cost <= s.costUB
  /\ s.len <= MinLen[LayerOf(s.vertex)]

Shape ==
  /\ graph \in GraphChoices
  /\ sols \in Seq(Sol) /\ solQueue \subseteq DOMAIN sols
  /\ vertexCostUBs \in [Vertices -> Nat \cup {NoBound}]
  /\ visitedPin \subseteq Pins /\ startPin \in visitedPin
  /\ \A s \in DOMAIN sols :
       SolOK(sols[s]) /\ sols[s].prev < s /\ Bounded(sols[s].vertex)

\* no pin, or one that is connected
Joined(v) == graph.vertexToPin[v] \in visitedPin \cup {NoPin}

Passed ==
  \A s \in DOMAIN sols :
    /\ sols[s].prev # NoSol => Joined(sols[sols[s].prev].vertex)
    /\ sols[s].cost = 0 => Joined(sols[s].vertex)

Explored(v) ==
  /\ Joined(v)
  /\ \A dir \in Directions : graph.conn[v][dir] # NoVertex => Bounded(graph.conn[v][dir])

Waits(v) == \E s \in solQueue : sols[s].vertex = v /\ sols[s].cost <= vertexCostUBs[v]

Frontier == \A v \in Vertices : Bounded(v) => Explored(v) \/ Waits(v)

Connected ==
  \A p \in visitedPin, v \in Vertices :
    graph.vertexToPin[v] = p =>
      \/ Bounded(v)
      \/ p = startPin /\ graph.pinToVertex[startPin] = <<>>

IInv ==
  Shape /\ Passed /\ Frontier /\ Connected /\ FailsOnlyWhenDisconnected

-----------------------------------------------------------------------------
(* Sequences.                                                              *)

LEMMA InToSet ==
  ASSUME NEW S, NEW s \in Seq(S)
  PROVE  /\ \A i \in DOMAIN s : s[i] \in ToSet(s) /\ s[i] \in S
         /\ \A x \in ToSet(s) : \E i \in DOMAIN s : s[i] = x
         /\ DOMAIN s = 1 .. Len(s) /\ Len(s) \in Nat
  BY DEF ToSet

LEMMA ConcatToSet ==
  ASSUME NEW S, NEW s \in Seq(S), NEW t \in Seq(S)
  PROVE  s \o t \in Seq(S) /\ ToSet(s \o t) = ToSet(s) \cup ToSet(t)
  <1>1. /\ s \o t \in Seq(S) /\ Len(s \o t) = Len(s) + Len(t)
        /\ \A i \in 1 .. Len(s) + Len(t) :
             (s \o t)[i] = IF i <= Len(s) THEN s[i] ELSE t[i - Len(s)]
    BY ConcatProperties
  <1> DEFINE c == s \o t
  <1>2. /\ DOMAIN s = 1 .. Len(s) /\ DOMAIN t = 1 .. Len(t) /\ DOMAIN c = 1 .. Len(c)
        /\ Len(s) \in Nat /\ Len(t) \in Nat
    BY <1>1
  <1> HIDE DEF c
  <1>3. /\ \A i \in DOMAIN c : \/ i \in DOMAIN s /\ c[i] = s[i]
                               \/ i - Len(s) \in DOMAIN t /\ c[i] = t[i - Len(s)]
        /\ \A i \in DOMAIN s : i \in DOMAIN c /\ c[i] = s[i]
        /\ \A i \in DOMAIN t : i + Len(s) \in DOMAIN c /\ c[i + Len(s)] = t[i]
    BY <1>1, <1>2 DEF c
  <1>4. ToSet(c) = ToSet(s) \cup ToSet(t)
    BY <1>3 DEF ToSet
  <1> QED BY <1>1, <1>4 DEF c

LEMMA WithoutOne ==
  ASSUME NEW S, NEW vs \in Seq(S), NEW u
  PROVE  /\ Without(vs, u) \in Seq(S)
         /\ ToSet(Without(vs, u)) \subseteq ToSet(vs)
         /\ ToSet(vs) \ {u} \subseteq ToSet(Without(vs, u))
  <1>1. CASE u \in ToSet(vs)
    <2> DEFINE k == CHOOSE i \in DOMAIN vs : vs[i] = u
               s == SubSeq(vs, 1, k - 1)
               t == SubSeq(vs, k + 1, Len(vs))
    <2>1. k \in DOMAIN vs /\ vs[k] = u
      BY <1>1 DEF ToSet
    <2>2. DOMAIN vs = 1 .. Len(vs) /\ Len(vs) \in Nat /\ \A i \in 1 .. Len(vs) : vs[i] \in S
      OBVIOUS
    <2> HIDE DEF k
    <2>3. k \in 1 .. Len(vs) /\ k - 1 \in Int /\ k + 1 \in Int
      BY <2>1, <2>2
    <2>4. /\ s \in Seq(S) /\ Len(s) = k - 1
          /\ \A i \in 1 .. k - 1 : s[i] = vs[i]
      <3>1. \A i \in 1 .. k - 1 : vs[i] \in S
        BY <2>2, <2>3
      <3>2. /\ s \in Seq(S) /\ Len(s) = IF 1 <= k - 1 THEN (k - 1) - 1 + 1 ELSE 0
            /\ \A i \in 1 .. (k - 1) - 1 + 1 : s[i] = vs[1 + i - 1]
        BY <2>3, <3>1, SubSeqProperties
      <3> HIDE DEF s
      <3> QED BY <2>3, <3>2
    <2>5. /\ t \in Seq(S) /\ Len(t) = Len(vs) - k
          /\ \A i \in 1 .. Len(vs) - k : t[i] = vs[k + i]
      <3>1. \A i \in k + 1 .. Len(vs) : vs[i] \in S
        BY <2>2, <2>3
      <3>2. /\ t \in Seq(S) /\ Len(t) = IF k + 1 <= Len(vs) THEN Len(vs) - (k + 1) + 1 ELSE 0
            /\ \A i \in 1 .. Len(vs) - (k + 1) + 1 : t[i] = vs[(k + 1) + i - 1]
        BY <2>2, <2>3, <3>1, SubSeqProperties
      <3>3. /\ Len(vs) - (k + 1) + 1 = Len(vs) - k
            /\ ~(k + 1 <= Len(vs)) => Len(vs) - k = 0
            /\ \A i \in 1 .. Len(vs) - k : (k + 1) + i - 1 = k + i
        <4>1. \A m \in Nat : \A j \in 1 .. m :
                /\ m - (j + 1) + 1 = m - j
                /\ ~(j + 1 <= m) => m - j = 0
                /\ \A i \in 1 .. m - j : (j + 1) + i - 1 = j + i
          OBVIOUS
        <4> HIDE DEF s, t
        <4> QED BY <2>2, <2>3, <4>1
      <3> HIDE DEF t
      <3> QED BY <3>2, <3>3
    <2> HIDE DEF s, t
    <2>6. DOMAIN s = 1 .. k - 1 /\ DOMAIN t = 1 .. Len(vs) - k
      BY <2>4, <2>5
    <2>7. /\ \A i \in DOMAIN s : i \in DOMAIN vs /\ s[i] = vs[i]
          /\ \A i \in DOMAIN t : k + i \in DOMAIN vs /\ t[i] = vs[k + i]
          /\ \A i \in DOMAIN vs : \/ i = k
                                  \/ i \in DOMAIN s /\ s[i] = vs[i]
                                  \/ i - k \in DOMAIN t /\ t[i - k] = vs[i]
      BY <2>2, <2>3, <2>4, <2>5, <2>6
    <2>8. ToSet(s) \cup ToSet(t) \subseteq ToSet(vs) /\ ToSet(vs) \ {u} \subseteq ToSet(s) \cup ToSet(t)
      BY <2>1, <2>7 DEF ToSet
    <2>9. Without(vs, u) = s \o t
      BY <1>1 DEF Without, RemoveAt, k, s, t
    <2> QED BY <2>4, <2>5, <2>8, <2>9, ConcatToSet
  <1>2. CASE u \notin ToSet(vs)
    BY <1>2 DEF Without
  <1> QED BY <1>1, <1>2

-----------------------------------------------------------------------------
(* Solutions.                                                              *)

LEMMA GraphFacts ==
  ASSUME graph \in GraphChoices
  PROVE  /\ IsGridGraph(graph)
         /\ Vertices \subseteq Nat /\ IsFiniteSet(Vertices) /\ Pins \subseteq Nat
         /\ startPin \in Pins /\ NoPin \notin Pins
         /\ \A v \in Vertices :
              /\ LayerOf(v) \in GridLayers /\ MinLen[LayerOf(v)] \in Nat
              /\ graph.vertexCost[v] \in Nat /\ graph.vertexToPin[v] \in Pins \cup {NoPin}
              /\ graph.vertexToGridPoint[v] \in GridPoint
         /\ \A p \in Pins : graph.pinToVertex[p] \in Seq(Vertices)
  <1>1. IsGridGraph(graph)
    BY GraphAssumption
  <1>2. /\ Vertices \subseteq Nat /\ IsFiniteSet(Vertices) /\ Pins \subseteq Nat
        /\ startPin \in Pins /\ NoPin \notin Pins
    BY <1>1 DEF IsGridGraph, Vertices, Pins, NoPin
  <1>3. ASSUME NEW v \in Vertices
        PROVE  /\ LayerOf(v) \in GridLayers /\ MinLen[LayerOf(v)] \in Nat
               /\ graph.vertexCost[v] \in Nat /\ graph.vertexToPin[v] \in Pins \cup {NoPin}
               /\ graph.vertexToGridPoint[v] \in GridPoint
    <2>1. /\ graph.vertexToGridPoint[v] \in GridPoint
          /\ graph.vertexCost[v] \in Nat /\ graph.vertexToPin[v] \in Pins \cup {NoPin}
      BY <1>1 DEF IsGridGraph, Vertices, Pins
    <2>2. LayerOf(v) \in GridLayers
      BY <2>1 DEF LayerOf, GridPoint
    <2> QED BY <2>1, <2>2, GraphAssumption
  <1>4. \A p \in Pins : graph.pinToVertex[p] \in Seq(Vertices)
    BY <1>1 DEF IsGridGraph, Vertices, Pins
  <1> QED BY <1>1, <1>2, <1>3, <1>4

LEMMA SolFacts ==
  ASSUME Shape, NEW s \in DOMAIN sols
  PROVE  /\ sols[s] \in Sol /\ s \in 1 .. Len(sols) /\ Len(sols) \in Nat
         /\ sols[s].cost \in Nat /\ sols[s].len \in Int /\ sols[s].costUB \in Nat
         /\ sols[s].vertex \in Vertices /\ sols[s].prev \in Nat /\ sols[s].prev < s
         /\ sols[s].prev # NoSol => sols[s].prev \in DOMAIN sols
         /\ SolOK(sols[s]) /\ Bounded(sols[s].vertex)
  <1>1. DOMAIN sols = 1 .. Len(sols) /\ Len(sols) \in Nat /\ sols[s] \in Sol
    BY DEF Shape
  <1>2. SolOK(sols[s]) /\ sols[s].prev < s /\ Bounded(sols[s].vertex)
    BY DEF Shape
  <1>3. sols[s].prev \in Nat
    BY <1>1 DEF Sol
  <1>4. sols[s].prev # NoSol => sols[s].prev \in 1 .. Len(sols)
    BY <1>1, <1>2, <1>3 DEF NoSol
  <1> QED BY <1>1, <1>2, <1>3, <1>4 DEF Sol

\* a wire too short costs something
LEMMA PenaltyNat ==
  ASSUME graph \in GraphChoices, NEW v \in Vertices, NEW len \in Int,
         len <= MinLen[LayerOf(v)]
  PROVE  MinAreaPenalty(v, len) \in Nat
  <1>1. MinLen[LayerOf(v)] \in Nat /\ UnitMinAreaVioCost \in Nat
    BY GraphFacts, GraphAssumption
  <1>2. MinLen[LayerOf(v)] - len \in Nat
    BY <1>1
  <1> DEFINE short == hasMinLenVioAcc(LayerOf(v), len)
             fix == v \in graph.minAreaFixable \/ graph.vertexToPin[v] # NoPin
  <1>3. MinAreaPenalty(v, len) = CASE ~short -> 0
                                   [] short /\ fix -> MinLen[LayerOf(v)] - len
                                   [] OTHER -> UnitMinAreaVioCost
    BY DEF MinAreaPenalty
  <1> HIDE DEF short, fix
  <1> QED BY <1>1, <1>2, <1>3

LEMMA ExtensionFacts ==
  ASSUME Shape, NEW s \in DOMAIN sols, NEW dir \in Directions,
         graph.conn[sols[s].vertex][dir] # NoVertex
  PROVE  LET e == Extension(s, dir)
         IN  /\ e \in Sol /\ SolOK(e) /\ e.cost > 0 /\ e.prev = s
             /\ e.vertex = graph.conn[sols[s].vertex][dir]
  <1> DEFINE u == sols[s].vertex
             v == graph.conn[u][dir]
             penalty == IF ~areOverlappedVertexes(u, dir) /\ switchLayer(dir)
                        THEN MinAreaPenalty(u, sols[s].len) ELSE 0
             newCost == Weight(u, dir) + sols[s].cost + penalty
             len == IF LayerOf(u) = LayerOf(v) THEN sols[s].len + EdgeLen(u, v) ELSE 0
             newLen == Least(len, MinLen[LayerOf(v)])
  <1>1. graph \in GraphChoices /\ IsGridGraph(graph)
    BY GraphFacts DEF Shape
  <1>2. /\ u \in Vertices /\ sols[s].cost \in Nat /\ sols[s].len \in Int
        /\ sols[s].len <= MinLen[LayerOf(u)] /\ s \in Nat
    BY SolFacts DEF SolOK
  <1>3. v \in Vertices
    BY <1>1, <1>2 DEF IsGridGraph, Vertices
  <1>4. /\ graph.edgeCost[u][dir] \in Nat
        /\ graph.edgeCost[u][dir] + graph.vertexCost[v] > 0
        /\ switchLayer(dir) => graph.edgeCost[u][dir] > 0
        /\ graph.vertexCost[v] \in Nat
    BY <1>1, <1>2, <1>3 DEF IsGridGraph, Vertices
  <1>5. Weight(u, dir) \in Nat /\ Weight(u, dir) > 0
    BY <1>4 DEF Weight, areOverlappedVertexes
  <1>6. penalty \in Nat
    BY <1>1, <1>2, PenaltyNat
  <1>7. newCost \in Nat /\ newCost > 0
    <2> HIDE DEF penalty, u
    <2> QED BY <1>2, <1>5, <1>6
  <1>8. MinLen[LayerOf(v)] \in Nat
    BY <1>1, <1>3, GraphFacts
  <1>9. len \in Int
    <2>1. CASE LayerOf(u) = LayerOf(v)
      <3> DEFINE p == graph.vertexToGridPoint[u]
                 q == graph.vertexToGridPoint[v]
      <3>1. p \in GridPoint /\ q \in GridPoint /\ p.layer = q.layer
        BY <1>1, <1>2, <1>3, <2>1, GraphFacts DEF LayerOf
      <3>2. EdgeLen(u, v) \in Int
        <4>1. ASSUME NEW r \in GridPoint
              PROVE  /\ r.layer \in GridLayers /\ r.track \in Int
                     /\ CrossPointLoc[r.layer][r.cp] \in Int
          <5>1. PICK l \in GridLayers : r \in [layer : {l}, track : Range0(NumTracks[l]),
                                               cp : Range0(NumCrossPoints[l])]
            BY DEF GridPoint
          <5>2. NumTracks[l] \in Nat /\ NumCrossPoints[l] \in Nat
            BY GridAssumption
          <5> QED BY <5>1, <5>2, GridAssumption DEF Range0
        <4>2. Pitch[p.layer] \in Nat
          BY <3>1, <4>1, GraphAssumption
        <4>3. /\ p.track \in Int /\ q.track \in Int
              /\ CrossPointLoc[p.layer][p.cp] \in Int /\ CrossPointLoc[q.layer][q.cp] \in Int
          BY <3>1, <4>1
        <4>4. \A n \in Int : Abs(n) \in Int
          BY DEF Abs
        <4>5. \A a, b \in Int : a * b \in Int
          OBVIOUS
        <4> DEFINE a == Abs(CrossPointLoc[p.layer][p.cp] - CrossPointLoc[q.layer][q.cp])
                   b == Abs(p.track - q.track)
        <4>6. a \in Int /\ b \in Int
          <5>1. \A m, n \in Int : m - n \in Int
            OBVIOUS
          <5>2. /\ CrossPointLoc[p.layer][p.cp] - CrossPointLoc[q.layer][q.cp] \in Int
                /\ p.track - q.track \in Int
            BY <4>3, <5>1
          <5> QED BY <4>4, <5>2
        <4>7. EdgeLen(u, v) = a + Pitch[p.layer] * b
          BY DEF EdgeLen
        <4> HIDE DEF a, b, p, q
        <4>8. Pitch[p.layer] * b \in Int
          BY <4>2, <4>5, <4>6
        <4> QED BY <4>6, <4>7, <4>8
      <3> QED BY <1>2, <2>1, <3>2
    <2>2. CASE LayerOf(u) # LayerOf(v)
      BY <2>2
    <2> QED BY <2>1, <2>2
  <1>10. newLen \in Int /\ newLen <= MinLen[LayerOf(v)]
    <2> HIDE DEF len
    <2> QED BY <1>8, <1>9 DEF Least
  <1>11. MinAreaPenalty(v, newLen) \in Nat
    <2> HIDE DEF newLen
    <2> QED BY <1>1, <1>3, <1>10, PenaltyNat
  <1>12. Extension(s, dir) = Solution(newCost, newLen, newCost + MinAreaPenalty(v, newLen), v, s)
    BY DEF Extension
  <1> HIDE DEF newCost, newLen
  <1>13. LET e == Solution(newCost, newLen, newCost + MinAreaPenalty(v, newLen), v, s)
         IN  /\ e \in Sol /\ SolOK(e) /\ e.cost > 0 /\ e.prev = s /\ e.vertex = v
    BY <1>2, <1>3, <1>7, <1>10, <1>11 DEF Solution, Sol, SolOK
  <1> QED BY <1>12, <1>13

\* what the heap, the solutions and the bounds are after updateSol
LEMMA UpdateFacts ==
  ASSUME Shape, NEW new \in Seq(Sol), NEW queue \in SUBSET solQueue,
         sols' = sols \o new,
         solQueue' = queue \cup (Len(sols) + 1 .. Len(sols) + Len(new)),
         vertexCostUBs' =
           [v \in Vertices |->
              LET ubs == ({vertexCostUBs[v]} \ {NoBound}) \cup
                         {new[i].costUB : i \in {j \in DOMAIN new : new[j].vertex = v}}
              IN  IF ubs = {} THEN NoBound ELSE Min(ubs)]
  PROVE  /\ sols' \in Seq(Sol) /\ Len(sols') = Len(sols) + Len(new)
         /\ solQueue' \subseteq DOMAIN sols'
         /\ \A s \in DOMAIN sols : s \in DOMAIN sols' /\ sols'[s] = sols[s]
         /\ \A i \in DOMAIN new :
              /\ Len(sols) + i \in DOMAIN sols' /\ Len(sols) + i \in solQueue'
              /\ sols'[Len(sols) + i] = new[i]
         /\ \A s \in DOMAIN sols' :
              s \in DOMAIN sols \/ \E i \in DOMAIN new : s = Len(sols) + i
         /\ vertexCostUBs' \in [Vertices -> Nat \cup {NoBound}]
         /\ \A v \in Vertices : Bounded(v) => Bounded(v)'
         /\ \A i \in DOMAIN new : Bounded(new[i].vertex)'
         /\ \A v \in Vertices : Bounded(v)' =>
              \/ Bounded(v) /\ vertexCostUBs'[v] = vertexCostUBs[v]
              \/ \E i \in DOMAIN new : new[i].vertex = v /\ vertexCostUBs'[v] = new[i].costUB
         /\ \A v \in Vertices : Bounded(v) => vertexCostUBs'[v] <= vertexCostUBs[v]
  <1>1. /\ sols \in Seq(Sol) /\ Len(sols) \in Nat /\ DOMAIN sols = 1 .. Len(sols)
        /\ Len(new) \in Nat /\ DOMAIN new = 1 .. Len(new) /\ solQueue \subseteq DOMAIN sols
    BY DEF Shape
  <1>2. /\ sols' \in Seq(Sol) /\ Len(sols') = Len(sols) + Len(new)
        /\ \A i \in 1 .. Len(sols) + Len(new) :
             sols'[i] = IF i <= Len(sols) THEN sols[i] ELSE new[i - Len(sols)]
    BY <1>1, ConcatProperties
  <1>3. DOMAIN sols' = 1 .. Len(sols) + Len(new)
    BY <1>1, <1>2
  <1>4. /\ solQueue' \subseteq DOMAIN sols'
        /\ \A s \in DOMAIN sols : s \in DOMAIN sols' /\ sols'[s] = sols[s]
    BY <1>1, <1>2, <1>3
  <1>5. \A i \in DOMAIN new :
          /\ Len(sols) + i \in DOMAIN sols' /\ Len(sols) + i \in solQueue'
          /\ sols'[Len(sols) + i] = new[i]
    BY <1>1, <1>2, <1>3
  <1>6. \A s \in DOMAIN sols' : s \in DOMAIN sols \/ \E i \in DOMAIN new : s = Len(sols) + i
    <2>1. \A s \in DOMAIN sols' : s \in DOMAIN sols \/ (s - Len(sols) \in DOMAIN new
                                                        /\ s = Len(sols) + (s - Len(sols)))
      BY <1>1, <1>3
    <2> QED BY <2>1
  <1> DEFINE ubs(v) == ({vertexCostUBs[v]} \ {NoBound}) \cup
                       {new[i].costUB : i \in {j \in DOMAIN new : new[j].vertex = v}}
  <1>7. \A v \in Vertices : vertexCostUBs'[v] = IF ubs(v) = {} THEN NoBound ELSE Min(ubs(v))
    OBVIOUS
  <1>8. \A i \in DOMAIN new : new[i].costUB \in Nat /\ new[i].vertex \in Vertices
    <2>1. \A i \in DOMAIN new : new[i] \in Sol
      BY <1>1
    <2>2. \A x \in Sol : x.costUB \in Nat /\ x.vertex \in Vertices
      BY DEF Sol
    <2> HIDE DEF ubs
    <2> QED BY <2>1, <2>2
  <1>9. \A v \in Vertices : ubs(v) \subseteq Nat
    BY <1>8 DEF Shape
  <1>10. \A v \in Vertices : ubs(v) # {} =>
           vertexCostUBs'[v] \in ubs(v) /\ \A x \in ubs(v) : vertexCostUBs'[v] <= x
    <2> SUFFICES ASSUME NEW v \in Vertices, ubs(v) # {}
                 PROVE  vertexCostUBs'[v] \in ubs(v) /\ \A x \in ubs(v) : vertexCostUBs'[v] <= x
      OBVIOUS
    <2>1. vertexCostUBs'[v] = Min(ubs(v))
      BY <1>7
    <2>2. \E m \in ubs(v) : \A x \in ubs(v) : m <= x
      BY <1>9, LeastNatural
    <2> HIDE DEF ubs
    <2> QED BY <2>1, <2>2 DEF Min
  <1>11. \A v \in Vertices : Bounded(v)' <=> ubs(v) # {}
    <2> SUFFICES ASSUME NEW v \in Vertices PROVE Bounded(v)' <=> ubs(v) # {}
      OBVIOUS
    <2>1. ubs(v) # {} => vertexCostUBs'[v] \in Nat
      BY <1>9, <1>10
    <2>2. Bounded(v)' <=> vertexCostUBs'[v] # NoBound
      BY DEF Bounded
    <2>3. NoBound \notin Nat
      BY DEF NoBound
    <2>4. ubs(v) = {} => vertexCostUBs'[v] = NoBound
      BY <1>7
    <2> HIDE DEF ubs
    <2> QED BY <2>1, <2>2, <2>3, <2>4
  <1>12. \A v \in Vertices : Bounded(v) => vertexCostUBs[v] \in ubs(v)
    BY DEF Bounded
  <1>13. \A i \in DOMAIN new : new[i].costUB \in ubs(new[i].vertex)
    OBVIOUS
  <1>14. \A v \in Vertices : \A x \in ubs(v) :
           \/ Bounded(v) /\ x = vertexCostUBs[v]
           \/ \E i \in DOMAIN new : new[i].vertex = v /\ x = new[i].costUB
    BY DEF Bounded
  <1>15. vertexCostUBs' \in [Vertices -> Nat \cup {NoBound}]
    <2>1. \A v \in Vertices : vertexCostUBs'[v] \in Nat \cup {NoBound}
      <3> HIDE DEF ubs
      <3> QED BY <1>7, <1>9, <1>10
    <2> QED BY <2>1
  <1> HIDE DEF ubs
  <1>16. /\ \A v \in Vertices : Bounded(v) => Bounded(v)'
         /\ \A v \in Vertices : Bounded(v) => vertexCostUBs'[v] <= vertexCostUBs[v]
    BY <1>10, <1>11, <1>12
  <1>17. \A i \in DOMAIN new : Bounded(new[i].vertex)'
    BY <1>8, <1>11, <1>13
  <1>18. \A v \in Vertices : Bounded(v)' =>
              \/ Bounded(v) /\ vertexCostUBs'[v] = vertexCostUBs[v]
              \/ \E i \in DOMAIN new : new[i].vertex = v /\ vertexCostUBs'[v] = new[i].costUB
    BY <1>10, <1>11, <1>14
  <1> QED BY <1>2, <1>4, <1>5, <1>6, <1>15, <1>16, <1>17, <1>18

\* an extension that is kept
Kept(s, dir) ==
  LET e == Extension(s, dir)
  IN  Onward(s, dir) /\ Below(e.cost, vertexCostUBs[e.vertex])

TryIs(s, dir) ==
  /\ Try(s, dir) \in Seq(Sol)
  /\ ToSet(Try(s, dir)) = {e \in {Extension(s, dir)} : Kept(s, dir)}

LEMMA TryFacts ==
  ASSUME Shape, NEW s \in DOMAIN sols, NEW dir \in Directions
  PROVE  TryIs(s, dir)
  <1> DEFINE x == Extension(s, dir)
  <1>1. CASE Kept(s, dir)
    <2>1. Onward(s, dir) /\ \E e \in {x} : Below(e.cost, vertexCostUBs[e.vertex])
      BY <1>1 DEF Kept
    <2>2. Try(s, dir) = <<x>>
      BY <2>1 DEF Try
    <2>3. x \in Sol
      BY <2>1, ExtensionFacts DEF Onward
    <2> HIDE DEF x
    <2>4. <<x>> \in Seq(Sol) /\ ToSet(<<x>>) = {x}
      BY <2>3 DEF ToSet
    <2> QED BY <1>1, <2>2, <2>4 DEF TryIs, x
  <1>2. CASE ~Kept(s, dir)
    <2>1. ~(Onward(s, dir) /\ \E e \in {x} : Below(e.cost, vertexCostUBs[e.vertex]))
      BY <1>2 DEF Kept
    <2>2. Try(s, dir) = <<>>
      BY <2>1 DEF Try
    <2>3. <<>> \in Seq(Sol) /\ ToSet(<<>>) = {}
      BY DEF ToSet
    <2> HIDE DEF x
    <2> QED BY <1>2, <2>2, <2>3 DEF TryIs
  <1> QED BY <1>1, <1>2

LEMMA BetterFacts ==
  ASSUME Shape, NEW s \in DOMAIN sols
  PROVE  /\ Better(s) \in Seq(Sol)
         /\ \A e \in ToSet(Better(s)) : \E dir \in Directions : Kept(s, dir) /\ e = Extension(s, dir)
         /\ \A dir \in Directions : Kept(s, dir) => Extension(s, dir) \in ToSet(Better(s))
  <1> DEFINE a == Try(s, "BACKWARD")
             b == Try(s, "FORWARD")
             c == Try(s, "UP")
             d == Try(s, "DOWN")
             f == Try(s, "LEFT")
             g == Try(s, "RIGHT")
  <1>1. \A dir \in Directions : TryIs(s, dir)
    BY TryFacts
  <1>2. /\ a \in Seq(Sol) /\ b \in Seq(Sol) /\ c \in Seq(Sol)
        /\ d \in Seq(Sol) /\ f \in Seq(Sol) /\ g \in Seq(Sol)
    <2>1. /\ TryIs(s, "BACKWARD") /\ TryIs(s, "FORWARD") /\ TryIs(s, "UP")
          /\ TryIs(s, "DOWN") /\ TryIs(s, "LEFT") /\ TryIs(s, "RIGHT")
      BY <1>1 DEF Directions
    <2> QED BY <2>1 DEF TryIs
  <1>3. Better(s) = a \o b \o c \o d \o f \o g
    BY DEF Better
  <1>4. /\ Better(s) \in Seq(Sol)
        /\ ToSet(Better(s))
             = ToSet(a) \cup ToSet(b) \cup ToSet(c) \cup ToSet(d) \cup ToSet(f) \cup ToSet(g)
    <2> HIDE DEF a, b, c, d, f, g
    <2> DEFINE ab == a \o b
               abc == ab \o c
               abcd == abc \o d
               abcdf == abcd \o f
    <2>1. ab \in Seq(Sol) /\ ToSet(ab) = ToSet(a) \cup ToSet(b)
      BY <1>2, ConcatToSet
    <2> HIDE DEF ab
    <2>2. abc \in Seq(Sol) /\ ToSet(abc) = ToSet(ab) \cup ToSet(c)
      BY <1>2, <2>1, ConcatToSet
    <2> HIDE DEF abc
    <2>3. abcd \in Seq(Sol) /\ ToSet(abcd) = ToSet(abc) \cup ToSet(d)
      BY <1>2, <2>2, ConcatToSet
    <2> HIDE DEF abcd
    <2>4. abcdf \in Seq(Sol) /\ ToSet(abcdf) = ToSet(abcd) \cup ToSet(f)
      BY <1>2, <2>3, ConcatToSet
    <2> HIDE DEF abcdf
    <2>5. abcdf \o g \in Seq(Sol) /\ ToSet(abcdf \o g) = ToSet(abcdf) \cup ToSet(g)
      BY <1>2, <2>4, ConcatToSet
    <2>6. Better(s) = abcdf \o g
      BY <1>3 DEF ab, abc, abcd, abcdf
    <2> QED BY <2>1, <2>2, <2>3, <2>4, <2>5, <2>6
  <1>5. ToSet(Better(s)) = UNION {ToSet(Try(s, dir)) : dir \in Directions}
    BY <1>4 DEF Directions
  <1> HIDE DEF a, b, c, d, f, g
  <1>6. \A dir \in Directions :
          ToSet(Try(s, dir)) = {e \in {Extension(s, dir)} : Kept(s, dir)}
    BY <1>1 DEF TryIs
  <1>7. ASSUME NEW e \in ToSet(Better(s))
        PROVE  \E dir \in Directions : Kept(s, dir) /\ e = Extension(s, dir)
    <2>1. PICK dir \in Directions : e \in ToSet(Try(s, dir))
      BY <1>5
    <2> QED BY <1>6, <2>1
  <1>8. ASSUME NEW dir \in Directions, Kept(s, dir)
        PROVE  Extension(s, dir) \in ToSet(Better(s))
    <2>1. Extension(s, dir) \in ToSet(Try(s, dir))
      BY <1>6, <1>8
    <2> QED BY <1>5, <2>1
  <1> QED BY <1>4, <1>7, <1>8

-----------------------------------------------------------------------------
(* The path to a pin.                                                      *)

\* an unpaid path holds its last solution and ones that others go on from
UnpaidIs(s) ==
  /\ UnpaidPath[s] \in Seq(DOMAIN sols)
  /\ \A r \in ToSet(UnpaidPath[s]) :
       r = s \/ \E t \in DOMAIN sols : sols[t].prev = r
  /\ (s # NoSol /\ sols[s].cost # 0) => s \in ToSet(UnpaidPath[s])

LEMMA UnpaidPathUnfolds ==
  ASSUME Shape
  PROVE  \A s \in DOMAIN sols \cup {NoSol} :
           UnpaidPath[s] = IF s = NoSol \/ sols[s].cost = 0 THEN <<>>
                           ELSE <<s>> \o UnpaidPath[sols[s].prev]
  <1> DEFINE N == Len(sols)
             prev == [s \in 1 .. N |-> sols[s].prev]
             stops == {s \in 1 .. N : sols[s].cost = 0}
             Is(f) == f = [s \in DOMAIN sols \cup {NoSol} |->
                             IF s = NoSol \/ sols[s].cost = 0 THEN <<>>
                             ELSE <<s>> \o f[sols[s].prev]]
  <1>1. N \in Nat /\ DOMAIN sols = 1 .. N /\ 0 .. N = DOMAIN sols \cup {NoSol}
    BY DEF Shape, NoSol
  <1>2. prev \in [1 .. N -> Nat] /\ \A s \in 1 .. N : prev[s] < s
    BY <1>1, SolFacts
  <1>3. PICK p \in [0 .. N -> Seq(1 .. N)] : Follows(p, N, prev, stops)
    <2> HIDE DEF N, prev, stops
    <2> QED BY <1>1, <1>2, FollowsExist
  <1>4. Is(p)
    <2>1. \A s \in 0 .. N : (s = 0 \/ s \in stops) <=> (s = NoSol \/ sols[s].cost = 0)
      BY <1>1 DEF NoSol
    <2>2. \A s \in 0 .. N : s # 0 => prev[s] = sols[s].prev
      BY <1>1
    <2>3. p = [s \in 0 .. N |-> IF s = 0 \/ s \in stops THEN <<>> ELSE <<s>> \o p[prev[s]]]
      BY <1>3 DEF Follows
    <2> DEFINE g == [s \in 0 .. N |-> IF s = NoSol \/ sols[s].cost = 0 THEN <<>>
                                      ELSE <<s>> \o p[sols[s].prev]]
    <2>4. \A s \in 0 .. N : p[s] = g[s]
      <3> HIDE DEF N, prev, stops
      <3> QED BY <2>1, <2>2, <2>3
    <2>5. p = g
      <3> HIDE DEF N, prev, stops
      <3> QED BY <2>3, <2>4
    <2> HIDE DEF N, prev, stops
    <2> QED BY <1>1, <2>5
  <1>5. UnpaidPath = CHOOSE f : Is(f)
    BY DEF UnpaidPath
  <1>6. Is(UnpaidPath)
    <2> HIDE DEF Is, N, prev, stops
    <2> QED BY <1>4, <1>5
  <1> HIDE DEF N, prev, stops
  <1> QED BY <1>6

LEMMA UnpaidPathFacts ==
  ASSUME Shape, NEW s \in DOMAIN sols
  PROVE  UnpaidIs(s)
  <1> DEFINE N == Len(sols)
             Bad == {n \in 0 .. N : ~UnpaidIs(n)}
  <1>1. N \in Nat /\ DOMAIN sols = 1 .. N /\ 0 .. N = DOMAIN sols \cup {NoSol}
    BY DEF Shape, NoSol
  <1> HIDE DEF N
  <1>2. ASSUME Bad # {} PROVE FALSE
    <2>1. PICK m \in Bad : \A n \in Bad : m <= n
      <3>1. Bad \subseteq Nat
        BY <1>1
      <3> HIDE DEF Bad
      <3> QED BY <1>2, <3>1, LeastNatural
    <2>2. m \in 0 .. N /\ m \in DOMAIN sols \cup {NoSol} /\ ~UnpaidIs(m)
      BY <1>1, <2>1
    <2>3. CASE m = NoSol \/ sols[m].cost = 0
      <3>1. UnpaidPath[m] = <<>>
        BY <2>2, <2>3, UnpaidPathUnfolds
      <3>2. <<>> \in Seq(DOMAIN sols) /\ ToSet(<<>>) = {}
        BY DEF ToSet
      <3>3. UnpaidIs(m)
        BY <2>3, <3>1, <3>2 DEF UnpaidIs
      <3> QED BY <2>2, <3>3
    <2>4. CASE m # NoSol /\ sols[m].cost # 0
      <3> DEFINE p == sols[m].prev
                 rest == UnpaidPath[p]
      <3>1. m \in DOMAIN sols /\ p \in 0 .. N /\ ~(m <= p)
        <4>1. m \in DOMAIN sols
          BY <2>2, <2>4
        <4>2. p \in Nat /\ p < m /\ m \in 1 .. N
          BY <1>1, <4>1, SolFacts
        <4> QED BY <1>1, <4>1, <4>2
      <3>2. UnpaidIs(p)
        <4>1. p \notin Bad
          BY <2>1, <3>1
        <4> QED BY <3>1, <4>1
      <3>3. UnpaidPath[m] = <<m>> \o rest
        BY <2>2, <2>4, UnpaidPathUnfolds
      <3>4. rest \in Seq(DOMAIN sols)
            /\ \A r \in ToSet(rest) : r = p \/ \E t \in DOMAIN sols : sols[t].prev = r
        BY <3>2 DEF UnpaidIs
      <3>5. <<m>> \in Seq(DOMAIN sols) /\ ToSet(<<m>>) = {m}
        BY <3>1 DEF ToSet
      <3> DEFINE one == <<m>>
      <3> HIDE DEF rest, one, Bad
      <3>6. /\ UnpaidPath[m] \in Seq(DOMAIN sols)
            /\ ToSet(UnpaidPath[m]) = {m} \cup ToSet(rest)
        <4>1. one \in Seq(DOMAIN sols) /\ ToSet(one) = {m} /\ UnpaidPath[m] = one \o rest
          BY <3>3, <3>5 DEF one
        <4>2. one \o rest \in Seq(DOMAIN sols) /\ ToSet(one \o rest) = ToSet(one) \cup ToSet(rest)
          BY <3>4, <4>1, ConcatToSet
        <4> QED BY <4>1, <4>2
      <3>7. \A r \in ToSet(UnpaidPath[m]) : r = m \/ \E t \in DOMAIN sols : sols[t].prev = r
        BY <3>1, <3>4, <3>6
      <3>8. UnpaidIs(m)
        BY <3>6, <3>7 DEF UnpaidIs
      <3> QED BY <2>2, <3>8
    <2> QED BY <2>3, <2>4
  <1> QED BY <1>1, <1>2

\* what a path and a pin give when they become free
FreedIs(s, new) ==
  LET u == sols[s].vertex
      pin == graph.vertexToPin[u]
  IN  /\ new \in Seq(Sol)
      /\ \A e \in ToSet(new) :
           /\ SolOK(e) /\ e.prev <= Len(sols)
           /\ e.prev # NoSol => Joined(sols[e.prev].vertex)
           /\ Joined(e.vertex) \/ graph.vertexToPin[e.vertex] = pin
      /\ \E e \in ToSet(new) : e.vertex = u /\ e.cost = 0
      /\ \A v \in Vertices : graph.vertexToPin[v] = pin =>
           v = u \/ \E e \in ToSet(new) : e.vertex = v

LEMMA FreedFacts ==
  ASSUME Shape, NEW s \in DOMAIN sols
  PROVE  /\ Freed(s) \in Sol /\ SolOK(Freed(s)) /\ Freed(s).cost = 0
         /\ Freed(s).vertex = sols[s].vertex /\ Freed(s).prev = sols[s].prev
  <1>1. /\ sols[s].vertex \in Vertices /\ sols[s].prev \in Nat
        /\ MinLen[LayerOf(sols[s].vertex)] \in Nat
    BY SolFacts, GraphFacts DEF Shape
  <1> QED BY <1>1 DEF Freed, Solution, Sol, SolOK

LEMMA AccessFacts ==
  ASSUME graph \in GraphChoices, NEW vs \in Seq(Vertices)
  PROVE  /\ AccessSolutions(graph, vs) \in Seq(Sol)
         /\ DOMAIN AccessSolutions(graph, vs) = DOMAIN vs
         /\ \A i \in DOMAIN vs :
              LET e == AccessSolutions(graph, vs)[i]
              IN  /\ e \in Sol /\ SolOK(e) /\ e.vertex = vs[i] /\ e.prev = NoSol
                  /\ e.cost = graph.vertexCost[vs[i]] /\ e.costUB = graph.vertexCost[vs[i]]
  <1> DEFINE new == AccessSolutions(graph, vs)
  <1>1. DOMAIN vs = 1 .. Len(vs) /\ Len(vs) \in Nat /\ \A i \in DOMAIN vs : vs[i] \in Vertices
    OBVIOUS
  <1>2. ASSUME NEW v \in Vertices
        PROVE  LET e == AccessSolution(graph, v)
               IN  /\ e \in Sol /\ SolOK(e) /\ e.vertex = v /\ e.prev = NoSol
                   /\ e.cost = graph.vertexCost[v] /\ e.costUB = graph.vertexCost[v]
    <2> DEFINE minLen == IF v \in graph.fakePins THEN 0
                         ELSE MinLen[graph.vertexToGridPoint[v].layer]
    <2>1. graph.vertexCost[v] \in Nat /\ MinLen[LayerOf(v)] \in Nat /\ NoSol \in Nat
      BY GraphFacts DEF NoSol
    <2>2. minLen \in Int /\ minLen <= MinLen[LayerOf(v)]
      BY <2>1 DEF LayerOf
    <2>3. AccessSolution(graph, v)
            = Solution(graph.vertexCost[v], minLen, graph.vertexCost[v], v, NoSol)
      BY DEF AccessSolution
    <2> HIDE DEF minLen
    <2> QED BY <2>1, <2>2, <2>3 DEF Solution, Sol, SolOK
  <1>3. DOMAIN new = DOMAIN vs /\ \A i \in DOMAIN vs : new[i] = AccessSolution(graph, vs[i])
    BY DEF AccessSolutions
  <1>4. new = [i \in 1 .. Len(vs) |-> AccessSolution(graph, vs[i])]
    BY <1>1 DEF AccessSolutions
  <1> HIDE DEF new
  <1>5. \A i \in 1 .. Len(vs) : AccessSolution(graph, vs[i]) \in Sol
    BY <1>1, <1>2
  <1>6. new \in Seq(Sol)
    BY <1>1, <1>4, <1>5, IsASeq
  <1> QED BY <1>1, <1>2, <1>3, <1>6 DEF new

LEMMA FreedByFacts ==
  ASSUME Shape, Passed, NEW s \in DOMAIN sols, ReachesPin(s)
  PROVE  FreedIs(s, FreedBy(s))
  <1> DEFINE u == sols[s].vertex
             pin == graph.vertexToPin[u]
             path == UnpaidPath[s]
             free == FreedPath(s)
             rest == Without(graph.pinToVertex[pin], u)
             access == AccessSolutions(graph, rest)
  <1>1. /\ graph \in GraphChoices /\ u \in Vertices /\ pin \in Pins /\ pin \notin visitedPin
        /\ graph.pinToVertex[pin] \in Seq(Vertices) /\ ~Joined(u) /\ Len(sols) \in Nat
    BY SolFacts, GraphFacts DEF Shape, ReachesPin, Joined
  <1>2. /\ path \in Seq(DOMAIN sols) /\ s \in ToSet(path)
        /\ \A r \in ToSet(path) : r = s \/ \E t \in DOMAIN sols : sols[t].prev = r
    <2>1. s # NoSol /\ sols[s].cost # 0
      BY <1>1, SolFacts DEF Passed, NoSol
    <2> QED BY <2>1, UnpaidPathFacts DEF UnpaidIs
  <1>3. /\ DOMAIN path = 1 .. Len(path) /\ Len(path) \in Nat
        /\ \A i \in DOMAIN path : path[i] \in DOMAIN sols /\ path[i] \in ToSet(path)
        /\ \A r \in ToSet(path) : \E i \in DOMAIN path : path[i] = r
    BY <1>2, InToSet
  <1>4. /\ free = [i \in 1 .. Len(path) |-> Freed(path[i])]
        /\ DOMAIN free = DOMAIN path /\ \A i \in DOMAIN path : free[i] = Freed(path[i])
    BY <1>3 DEF FreedPath
  <1>5. free \in Seq(Sol)
    <2>1. \A i \in 1 .. Len(path) : Freed(path[i]) \in Sol
      BY <1>3, FreedFacts
    <2> HIDE DEF free, path
    <2> QED BY <1>3, <1>4, <2>1, IsASeq
  <1>6. rest \in Seq(Vertices)
        /\ ToSet(rest) \subseteq ToSet(graph.pinToVertex[pin])
        /\ ToSet(graph.pinToVertex[pin]) \ {u} \subseteq ToSet(rest)
    BY <1>1, WithoutOne
  <1>7. /\ access \in Seq(Sol) /\ DOMAIN access = DOMAIN rest
        /\ \A i \in DOMAIN rest :
             /\ SolOK(access[i]) /\ access[i].vertex = rest[i] /\ access[i].prev = NoSol
    <2> HIDE DEF rest
    <2> QED BY <1>1, <1>6, AccessFacts
  <1>8. /\ \A i \in DOMAIN rest : rest[i] \in ToSet(rest)
        /\ \A v \in ToSet(rest) : \E i \in DOMAIN rest : rest[i] = v
    BY <1>6, InToSet
  <1>9. FreedBy(s) = free \o access
    BY DEF FreedBy
  <1>10. FreedBy(s) \in Seq(Sol) /\ ToSet(FreedBy(s)) = ToSet(free) \cup ToSet(access)
    <2> HIDE DEF free, access
    <2> QED BY <1>5, <1>7, <1>9, ConcatToSet
  <1>11. ASSUME NEW e \in ToSet(free)
         PROVE  \E r \in ToSet(path) : e = Freed(r)
    <2>1. PICK i \in DOMAIN free : free[i] = e
      BY DEF ToSet
    <2> QED BY <1>3, <1>4, <2>1
  <1>12. ASSUME NEW e \in ToSet(access)
         PROVE  \E i \in DOMAIN rest : e = access[i]
    <2>1. PICK i \in DOMAIN access : access[i] = e
      BY DEF ToSet
    <2> QED BY <1>7, <2>1
  <1>13. \/ \A v \in Vertices : graph.vertexToPin[v] = pin <=> v \in ToSet(graph.pinToVertex[pin])
         \/ /\ graph.pinToVertex[pin] = <<>>
            /\ \A v \in Vertices : graph.vertexToPin[v] = pin => v = u
    <2>1. IsGridGraph(graph)
      BY <1>1, GraphFacts
    <2> DEFINE own == {v \in Vertices : graph.vertexToPin[v] = pin}
    <2>2. \/ own = ToSet(graph.pinToVertex[pin])
          \/ graph.pinToVertex[pin] = <<>> /\ \A v, w \in own : v = w
      BY <1>1, <2>1 DEF IsGridGraph, Vertices, Pins
    <2>3. CASE own = ToSet(graph.pinToVertex[pin])
      <3>1. ToSet(graph.pinToVertex[pin]) \subseteq Vertices
        BY <2>3
      <3> QED BY <2>3, <3>1
    <2>4. CASE graph.pinToVertex[pin] = <<>> /\ \A v, w \in own : v = w
      BY <1>1, <2>4
    <2> QED BY <2>2, <2>3, <2>4
  <1> HIDE DEF free, access, rest, path
  <1>14. ASSUME NEW e \in ToSet(free)
         PROVE  /\ SolOK(e) /\ e.prev <= Len(sols)
                /\ e.prev # NoSol => Joined(sols[e.prev].vertex)
                /\ Joined(e.vertex) \/ graph.vertexToPin[e.vertex] = pin
    <2>1. PICK r \in ToSet(path) : e = Freed(r)
      BY <1>11
    <2>2. r \in DOMAIN sols
      BY <1>3, <2>1
    <2>3. SolOK(e) /\ e.vertex = sols[r].vertex /\ e.prev = sols[r].prev
      BY <2>1, <2>2, FreedFacts
    <2>4. e.prev <= Len(sols)
      BY <1>1, <2>2, <2>3, SolFacts
    <2>5. e.prev # NoSol => Joined(sols[e.prev].vertex)
      BY <2>2, <2>3 DEF Passed
    <2>6. Joined(e.vertex) \/ graph.vertexToPin[e.vertex] = pin
      <3>1. CASE r = s
        BY <2>3, <3>1
      <3>2. CASE \E t \in DOMAIN sols : sols[t].prev = r
        <4>1. PICK t \in DOMAIN sols : sols[t].prev = r
          BY <3>2
        <4>2. r # NoSol
          BY <2>2, SolFacts DEF NoSol
        <4> QED BY <2>3, <4>1, <4>2 DEF Passed
      <3> QED BY <1>2, <2>1, <3>1, <3>2
    <2> QED BY <2>3, <2>4, <2>5, <2>6
  <1>15. ASSUME NEW e \in ToSet(access)
         PROVE  /\ SolOK(e) /\ e.prev <= Len(sols) /\ e.prev = NoSol
                /\ graph.vertexToPin[e.vertex] = pin
    <2>1. PICK i \in DOMAIN rest : e = access[i]
      BY <1>12
    <2>2. SolOK(e) /\ e.prev = NoSol /\ e.vertex \in ToSet(graph.pinToVertex[pin])
      BY <1>6, <1>7, <1>8, <2>1
    <2>3. e.prev <= Len(sols)
      BY <1>1, <2>2 DEF NoSol
    <2>4. e.vertex \in Vertices
      BY <1>1, <2>2 DEF ToSet
    <2>5. graph.pinToVertex[pin] # <<>>
      BY <2>2 DEF ToSet
    <2> QED BY <1>13, <2>2, <2>3, <2>4, <2>5
  <1>16. \E e \in ToSet(free) : e.vertex = u /\ e.cost = 0
    <2>1. PICK i \in DOMAIN path : path[i] = s
      BY <1>2, <1>3
    <2>2. Freed(s) \in ToSet(free)
      BY <1>4, <2>1 DEF ToSet
    <2> QED BY <2>2, FreedFacts
  <1>17. ASSUME NEW v \in Vertices, graph.vertexToPin[v] = pin
         PROVE  v = u \/ \E e \in ToSet(access) : e.vertex = v
    <2>1. CASE v # u /\ v \in ToSet(graph.pinToVertex[pin])
      <3>1. PICK i \in DOMAIN rest : rest[i] = v
        BY <1>6, <1>8, <2>1
      <3>2. access[i] \in ToSet(access) /\ access[i].vertex = v
        BY <1>7, <3>1 DEF ToSet
      <3> QED BY <3>2
    <2> QED BY <1>13, <1>17, <2>1
  <1> HIDE DEF u, pin
  <1>18. /\ \A e \in ToSet(FreedBy(s)) :
              /\ SolOK(e) /\ e.prev <= Len(sols)
              /\ e.prev # NoSol => Joined(sols[e.prev].vertex)
              /\ Joined(e.vertex) \/ graph.vertexToPin[e.vertex] = pin
         /\ \E e \in ToSet(FreedBy(s)) : e.vertex = u /\ e.cost = 0
         /\ \A v \in Vertices : graph.vertexToPin[v] = pin =>
              v = u \/ \E e \in ToSet(FreedBy(s)) : e.vertex = v
    BY <1>10, <1>14, <1>15, <1>16, <1>17
  <1> QED BY <1>10, <1>18 DEF FreedIs, u, pin

-----------------------------------------------------------------------------
(* The steps of the search.                                                *)

\* updateSols(new, queue), with what it adds named
Updated(new, queue) ==
  /\ sols' = sols \o new
  /\ solQueue' = queue \cup (Len(sols) + 1 .. Len(sols) + Len(new))
  /\ vertexCostUBs' =
       [v \in Vertices |->
          LET ubs == ({vertexCostUBs[v]} \ {NoBound}) \cup
                     {new[i].costUB : i \in {j \in DOMAIN new : new[j].vertex = v}}
          IN  IF ubs = {} THEN NoBound ELSE Min(ubs)]

LEMMA UpdateSolsIs ==
  ASSUME NEW new, NEW queue, updateSols(new, queue)
  PROVE  Updated(new, queue)
  BY DEF updateSols, Updated

\* a new solution keeps Shape and Passed
NewOK(e) ==
  /\ SolOK(e) /\ e.prev <= Len(sols)
  /\ e.prev # NoSol => graph.vertexToPin[sols[e.prev].vertex] \in visitedPin' \cup {NoPin}
  /\ e.cost = 0 => graph.vertexToPin[e.vertex] \in visitedPin' \cup {NoPin}

LEMMA SearchStep ==
  ASSUME Shape, Passed, Frontier,
         NEW new \in Seq(Sol), NEW s \in solQueue, Updated(new, solQueue \ {s}),
         graph' = graph, visitedPin \subseteq visitedPin', visitedPin' \subseteq Pins,
         \A e \in ToSet(new) : NewOK(e),
         NEW u, u = sols[s].vertex,
         Explored(u)' \/ \E e \in ToSet(new) : e.vertex = u /\ e.cost = 0
  PROVE  /\ Shape' /\ Passed' /\ Frontier'
         /\ \A v \in Vertices : Bounded(v) => Bounded(v)'
         /\ \A e \in ToSet(new) : Bounded(e.vertex)'
  <1>1. /\ Vertices' = Vertices /\ Pins' = Pins /\ Sol' = Sol
        /\ \A v : LayerOf(v)' = LayerOf(v)
        /\ \A e : SolOK(e)' <=> SolOK(e)
    BY DEF Vertices, Pins, Sol, LayerOf, SolOK
  <1> DEFINE queue == solQueue \ {s}
  <1>2. queue \in SUBSET solQueue
    OBVIOUS
  <1>3. /\ sols' \in Seq(Sol) /\ Len(sols') = Len(sols) + Len(new)
        /\ solQueue' \subseteq DOMAIN sols'
        /\ \A r \in DOMAIN sols : r \in DOMAIN sols' /\ sols'[r] = sols[r]
        /\ \A i \in DOMAIN new :
             /\ Len(sols) + i \in DOMAIN sols' /\ Len(sols) + i \in solQueue'
             /\ sols'[Len(sols) + i] = new[i]
        /\ \A r \in DOMAIN sols' :
             r \in DOMAIN sols \/ \E i \in DOMAIN new : r = Len(sols) + i
        /\ vertexCostUBs' \in [Vertices -> Nat \cup {NoBound}]
        /\ \A v \in Vertices : Bounded(v) => Bounded(v)'
        /\ \A i \in DOMAIN new : Bounded(new[i].vertex)'
        /\ \A v \in Vertices : Bounded(v)' =>
             \/ Bounded(v) /\ vertexCostUBs'[v] = vertexCostUBs[v]
             \/ \E i \in DOMAIN new : new[i].vertex = v /\ vertexCostUBs'[v] = new[i].costUB
        /\ \A v \in Vertices : Bounded(v) => vertexCostUBs'[v] <= vertexCostUBs[v]
    <2>1. /\ sols' = sols \o new
          /\ solQueue' = queue \cup (Len(sols) + 1 .. Len(sols) + Len(new))
          /\ vertexCostUBs' =
               [v \in Vertices |->
                  LET ubs == ({vertexCostUBs[v]} \ {NoBound}) \cup
                             {new[i].costUB : i \in {j \in DOMAIN new : new[j].vertex = v}}
                  IN  IF ubs = {} THEN NoBound ELSE Min(ubs)]
      BY DEF Updated
    <2> HIDE DEF queue
    <2> QED BY <1>2, <2>1, UpdateFacts
  <1>4. /\ DOMAIN new = 1 .. Len(new) /\ Len(new) \in Nat /\ Len(sols) \in Nat
        /\ \A i \in DOMAIN new : new[i] \in ToSet(new) /\ new[i] \in Sol
        /\ \A e \in ToSet(new) : \E i \in DOMAIN new : new[i] = e
    BY InToSet DEF Shape
  <1>5. ASSUME NEW i \in DOMAIN new
        PROVE  /\ new[i].cost \in Nat /\ new[i].costUB \in Nat /\ new[i].prev \in Nat
               /\ new[i].vertex \in Vertices /\ NewOK(new[i])
    <2>1. new[i] \in Sol /\ NewOK(new[i])
      BY <1>4
    <2> QED BY <2>1 DEF Sol
  <1>6. \A v : Joined(v) => Joined(v)'
    BY DEF Joined
  <1>7. \A v \in Vertices : Explored(v) => Explored(v)'
    <2> SUFFICES ASSUME NEW v \in Vertices, Explored(v)
                 PROVE  Explored(v)'
      OBVIOUS
    <2>1. IsGridGraph(graph)
      BY GraphFacts DEF Shape
    <2>2. ASSUME NEW dir \in Directions, graph.conn[v][dir] # NoVertex
          PROVE  graph.conn[v][dir] \in Vertices /\ Bounded(graph.conn[v][dir])
      BY <2>1, <2>2 DEF IsGridGraph, Vertices, Explored
    <2>3. \A w : w \in Vertices /\ Bounded(w) => vertexCostUBs'[w] # NoBound
      BY <1>3 DEF Bounded
    <2>4. \A dir \in Directions : graph.conn[v][dir] # NoVertex =>
            vertexCostUBs'[graph.conn[v][dir]] # NoBound
      BY <2>2, <2>3
    <2> QED BY <1>6, <2>4 DEF Explored, Bounded
  <1>8. \A i \in DOMAIN new : Waits(new[i].vertex)'
         \/ vertexCostUBs'[new[i].vertex] # new[i].costUB
    <2> SUFFICES ASSUME NEW i \in DOMAIN new,
                        vertexCostUBs'[new[i].vertex] = new[i].costUB
                 PROVE  Waits(new[i].vertex)'
      OBVIOUS
    <2>1. new[i].cost <= new[i].costUB
      BY <1>5 DEF NewOK, SolOK
    <2>2. \E r \in solQueue' :
            sols'[r].vertex = new[i].vertex /\ sols'[r].cost <= vertexCostUBs'[new[i].vertex]
      BY <1>3, <2>1
    <2> QED BY <2>2 DEF Waits
  <1>9. Shape'
    <2>1. ASSUME NEW r \in DOMAIN sols'
          PROVE  /\ SolOK(sols'[r]) /\ sols'[r].prev < r
                 /\ vertexCostUBs'[sols'[r].vertex] # NoBound
      <3>1. CASE r \in DOMAIN sols
        <4>1. SolOK(sols[r]) /\ sols[r].prev < r /\ Bounded(sols[r].vertex)
              /\ sols[r].vertex \in Vertices
          BY <3>1, SolFacts
        <4>2. \A w \in Vertices : Bounded(w) => vertexCostUBs'[w] # NoBound
          BY <1>3 DEF Bounded
        <4> QED BY <1>3, <3>1, <4>1, <4>2
      <3>2. ASSUME NEW i \in DOMAIN new, r = Len(sols) + i
            PROVE  /\ SolOK(sols'[r]) /\ sols'[r].prev < r
                   /\ vertexCostUBs'[sols'[r].vertex] # NoBound
        <4>1. sols'[r] = new[i]
          BY <1>3, <3>2
        <4>2. SolOK(new[i]) /\ new[i].prev <= Len(sols) /\ new[i].prev \in Nat
          BY <1>5 DEF NewOK
        <4>3. new[i].prev < r
          BY <1>4, <3>2, <4>2
        <4>4. vertexCostUBs'[new[i].vertex] # NoBound
          BY <1>3 DEF Bounded
        <4> QED BY <4>1, <4>2, <4>3, <4>4
      <3> QED BY <1>3, <3>1, <3>2
    <2>2. \A r \in DOMAIN sols' :
            (SolOK(sols[r]) /\ sols[r].prev < r /\ Bounded(sols[r].vertex))'
      BY <1>1, <2>1 DEF Bounded
    <2>3. /\ (graph \in GraphChoices)' /\ (startPin \in visitedPin)'
          /\ sols' \in Seq(Sol)' /\ vertexCostUBs' \in [Vertices' -> Nat \cup {NoBound}]
          /\ visitedPin' \subseteq Pins'
      BY <1>1, <1>3 DEF Shape
    <2> QED BY <1>3, <2>2, <2>3 DEF Shape
  <1>10. Passed'
    <2>1. ASSUME NEW r \in DOMAIN sols'
          PROVE  /\ sols'[r].prev # NoSol =>
                      graph.vertexToPin[sols'[sols'[r].prev].vertex] \in visitedPin' \cup {NoPin}
                 /\ sols'[r].cost = 0 =>
                      graph.vertexToPin[sols'[r].vertex] \in visitedPin' \cup {NoPin}
      <3>1. CASE r \in DOMAIN sols
        <4>1. sols[r].prev # NoSol => sols[r].prev \in DOMAIN sols
          BY <3>1, SolFacts
        <4> QED BY <1>3, <3>1, <4>1 DEF Passed, Joined
      <3>2. ASSUME NEW i \in DOMAIN new, r = Len(sols) + i
            PROVE  /\ sols'[r].prev # NoSol =>
                        graph.vertexToPin[sols'[sols'[r].prev].vertex]
                          \in visitedPin' \cup {NoPin}
                   /\ sols'[r].cost = 0 =>
                        graph.vertexToPin[sols'[r].vertex] \in visitedPin' \cup {NoPin}
        <4>1. sols'[r] = new[i] /\ NewOK(new[i]) /\ new[i].prev \in Nat
          BY <1>3, <1>5, <3>2
        <4>2. new[i].prev # NoSol => new[i].prev \in DOMAIN sols
          <5>1. DOMAIN sols = 1 .. Len(sols)
            BY DEF Shape
          <5> QED BY <1>4, <4>1, <5>1 DEF NewOK, NoSol
        <4> QED BY <1>3, <4>1, <4>2 DEF NewOK
      <3> QED BY <1>3, <3>1, <3>2
    <2> QED BY <2>1 DEF Passed, Joined
  <1>11. Frontier'
    <2> SUFFICES ASSUME NEW v \in Vertices, Bounded(v)'
                 PROVE  Explored(v)' \/ Waits(v)'
      BY <1>1 DEF Frontier
    <2>1. CASE \E i \in DOMAIN new : new[i].vertex = v /\ vertexCostUBs'[v] = new[i].costUB
      BY <1>8, <2>1
    <2>2. CASE Bounded(v) /\ vertexCostUBs'[v] = vertexCostUBs[v]
      <3>1. CASE Explored(v)
        BY <1>7, <3>1
      <3>2. CASE Waits(v)
        <4>1. PICK r \in solQueue : sols[r].vertex = v /\ sols[r].cost <= vertexCostUBs[v]
          BY <3>2 DEF Waits
        <4>2. CASE r # s
          <5>1. r \in solQueue' /\ sols'[r] = sols[r]
            <6>1. r \in solQueue' /\ r \in DOMAIN sols
              BY <4>1, <4>2 DEF Updated, Shape
            <6> QED BY <1>3, <6>1
          <5> QED BY <2>2, <4>1, <5>1 DEF Waits
        <4>3. CASE r = s /\ ~Explored(u)'
          <5>1. PICK e \in ToSet(new) : e.vertex = v /\ e.cost = 0
            BY <4>1, <4>3
          <5>2. PICK i \in DOMAIN new : new[i] = e
            BY <1>4, <5>1
          <5>3. vertexCostUBs'[v] \in Nat
            BY <1>3 DEF Bounded
          <5>4. \E q \in solQueue' : sols'[q].vertex = v /\ sols'[q].cost <= vertexCostUBs'[v]
            BY <1>3, <5>1, <5>2, <5>3
          <5> QED BY <5>4 DEF Waits
        <4>4. CASE r = s /\ Explored(u)'
          <5>1. u = v
            BY <4>1, <4>4
          <5> QED BY <4>4, <5>1
        <4> QED BY <4>2, <4>3, <4>4
      <3> QED BY <2>2, <3>1, <3>2 DEF Frontier
    <2> QED BY <1>3, <2>1, <2>2
  <1>12. \A e \in ToSet(new) : Bounded(e.vertex)'
    <2>1. \A e \in ToSet(new) : vertexCostUBs'[e.vertex] # NoBound
      BY <1>3, <1>4 DEF Bounded
    <2> QED BY <2>1 DEF Bounded
  <1> QED BY <1>3, <1>9, <1>10, <1>11, <1>12

\* a pin's access vertices are those that have it, unless it was mended
LEMMA PinVertices ==
  ASSUME graph \in GraphChoices, NEW pin \in Pins
  PROVE  /\ \A v \in ToSet(graph.pinToVertex[pin]) :
              v \in Vertices /\ graph.vertexToPin[v] = pin
         /\ \A v \in Vertices : graph.vertexToPin[v] = pin =>
              v \in ToSet(graph.pinToVertex[pin]) \/ graph.pinToVertex[pin] = <<>>
  <1>1. IsGridGraph(graph)
    BY GraphFacts
  <1> DEFINE own == {v \in Vertices : graph.vertexToPin[v] = pin}
  <1>2. \/ own = ToSet(graph.pinToVertex[pin])
        \/ graph.pinToVertex[pin] = <<>> /\ \A v, w \in own : v = w
    BY <1>1 DEF IsGridGraph, Vertices, Pins
  <1>3. CASE own = ToSet(graph.pinToVertex[pin])
    BY <1>3
  <1>4. CASE graph.pinToVertex[pin] = <<>>
    <2>1. ToSet(<<>>) = {}
      BY DEF ToSet
    <2> QED BY <1>4, <2>1
  <1> QED BY <1>2, <1>3, <1>4

LEMMA InitIInv == Init => IInv
  <1> SUFFICES ASSUME Init PROVE IInv
    OBVIOUS
  <1> DEFINE vs == graph.pinToVertex[startPin]
  <1>1. /\ graph \in GraphChoices /\ startPin \in Pins /\ vs \in Seq(Vertices)
        /\ \A v \in Vertices : graph.vertexCost[v] \in Nat
    BY GraphFacts DEF Init
  <1>2. sols = AccessSolutions(graph, vs) /\ solQueue = DOMAIN sols /\ visitedPin = {startPin}
    BY DEF Init
  <1>3. /\ sols \in Seq(Sol) /\ DOMAIN sols = DOMAIN vs
        /\ \A i \in DOMAIN vs :
             /\ SolOK(sols[i]) /\ sols[i].vertex = vs[i] /\ sols[i].prev = NoSol
             /\ sols[i].cost = graph.vertexCost[vs[i]]
    <2> HIDE DEF vs
    <2> QED BY <1>1, <1>2, AccessFacts
  <1>4. /\ DOMAIN vs \subseteq Nat \ {0}
        /\ \A i \in DOMAIN vs : vs[i] \in ToSet(vs) /\ vs[i] \in Vertices
        /\ \A v \in ToSet(vs) : \E i \in DOMAIN vs : vs[i] = v
    <2> HIDE DEF vs
    <2> QED BY <1>1, InToSet
  <1>5. \A v \in Vertices :
          vertexCostUBs[v] = IF v \in ToSet(vs) THEN graph.vertexCost[v] ELSE NoBound
    <2>1. AccessOf({startPin}) = ToSet(vs)
      BY DEF AccessOf
    <2> QED BY <2>1 DEF Init
  <1>6. \A v \in Vertices : Bounded(v) <=> v \in ToSet(vs)
    BY <1>1, <1>5 DEF Bounded, NoBound
  <1>7. vertexCostUBs \in [Vertices -> Nat \cup {NoBound}]
    <2>1. \A v \in Vertices : vertexCostUBs[v] \in Nat \cup {NoBound}
      BY <1>1, <1>5
    <2> QED BY <2>1 DEF Init
  <1>8. \A v \in ToSet(vs) : Joined(v)
    BY <1>1, <1>2, PinVertices DEF Joined
  <1>9. \A v \in Vertices : graph.vertexToPin[v] = startPin => v \in ToSet(vs) \/ vs = <<>>
    BY <1>1, PinVertices
  <1> HIDE DEF vs
  <1>10. Shape
    BY <1>1, <1>2, <1>3, <1>4, <1>6, <1>7 DEF Shape, NoSol
  <1>11. Passed
    BY <1>3, <1>4, <1>8 DEF Passed
  <1>12. Frontier
    <2> SUFFICES ASSUME NEW v \in Vertices, Bounded(v)
                 PROVE  Waits(v)
      BY DEF Frontier
    <2>1. PICK i \in DOMAIN vs : vs[i] = v
      BY <1>4, <1>6
    <2>2. i \in solQueue /\ sols[i].vertex = v /\ sols[i].cost <= vertexCostUBs[v]
      BY <1>1, <1>2, <1>3, <1>4, <1>5, <2>1
    <2> QED BY <2>2 DEF Waits
  <1>13. Connected
    BY <1>2, <1>6, <1>9 DEF Connected, vs
  <1>14. FailsOnlyWhenDisconnected
    BY DEF Init, FailsOnlyWhenDisconnected
  <1> QED BY <1>10, <1>11, <1>12, <1>13, <1>14 DEF IInv

LEMMA ReachPinStep ==
  ASSUME IInv, NEW s \in solQueue, ReachPin(s)
  PROVE  IInv'
  <1> DEFINE pin == graph.vertexToPin[sols[s].vertex]
             new == FreedBy(s)
  <1>1. /\ Shape /\ Passed /\ Frontier /\ Connected /\ s \in DOMAIN sols /\ ReachesPin(s)
        /\ graph' = graph /\ visitedPin' = visitedPin \cup {pin} /\ status' = "routing"
    BY DEF IInv, Shape, ReachPin, Routing
  <1>2. Updated(new, solQueue \ {s})
    BY UpdateSolsIs DEF ReachPin
  <1>3. FreedIs(s, new)
    BY <1>1, FreedByFacts
  <1>4. /\ pin \in Pins /\ graph \in GraphChoices /\ visitedPin \subseteq Pins
        /\ sols[s].vertex \in Vertices
        /\ graph.pinToVertex[pin] \in Seq(Vertices)
    BY <1>1, SolFacts, GraphFacts DEF Shape, ReachesPin
  <1>5. PICK b : b = new
    OBVIOUS
  <1>6. \A e \in ToSet(b) : NewOK(e)
    BY <1>1, <1>3, <1>5 DEF FreedIs, NewOK, Joined
  <1>7. b \in Seq(Sol) /\ \E e \in ToSet(b) : e.vertex = sols[s].vertex /\ e.cost = 0
    BY <1>3, <1>5 DEF FreedIs
  <1>8. Updated(b, solQueue \ {s}) /\ FreedIs(s, b)
    BY <1>2, <1>3, <1>5
  <1>9. PICK u : u = sols[s].vertex
    OBVIOUS
  <1>10. /\ Shape' /\ Passed' /\ Frontier'
         /\ \A v \in Vertices : Bounded(v) => Bounded(v)'
         /\ \A e \in ToSet(b) : Bounded(e.vertex)'
    <2>1. \E e \in ToSet(b) : e.vertex = u /\ e.cost = 0
      BY <1>7, <1>9
    <2>2. visitedPin \subseteq visitedPin' /\ visitedPin' \subseteq Pins
      BY <1>1, <1>4
    <2> HIDE DEF pin, new
    <2> QED BY <1>1, <1>6, <1>7, <1>8, <1>9, <2>1, <2>2, SearchStep
  <1>11. Connected'
    <2>1. Vertices' = Vertices
      BY <1>1 DEF Vertices
    <2>2. \A v \in Vertices : Bounded(v) => vertexCostUBs'[v] # NoBound
      BY <1>10 DEF Bounded
    <2>3. \A e \in ToSet(b) : vertexCostUBs'[e.vertex] # NoBound
      BY <1>10 DEF Bounded
    <2>4. ASSUME NEW v \in Vertices, graph.vertexToPin[v] = pin
          PROVE  vertexCostUBs'[v] # NoBound
      <3>1. v = sols[s].vertex \/ \E e \in ToSet(b) : e.vertex = v
        BY <1>8, <2>4 DEF FreedIs
      <3>2. Bounded(sols[s].vertex)
        BY <1>1, SolFacts
      <3> QED BY <2>2, <2>3, <3>1, <3>2
    <2> HIDE DEF pin
    <2> QED BY <1>1, <2>1, <2>2, <2>4 DEF Connected, Bounded
  <1>12. FailsOnlyWhenDisconnected'
    BY <1>1 DEF FailsOnlyWhenDisconnected
  <1> QED BY <1>10, <1>11, <1>12 DEF IInv

LEMMA PruneStep ==
  ASSUME IInv, NEW s \in solQueue, Prune(s)
  PROVE  IInv'
  <1>1. /\ Shape /\ Passed /\ Frontier /\ Connected /\ s \in DOMAIN sols
        /\ graph' = graph /\ sols' = sols /\ vertexCostUBs' = vertexCostUBs
        /\ visitedPin' = visitedPin /\ status' = "routing" /\ solQueue' = solQueue \ {s}
    BY DEF IInv, Shape, Prune, Routing
  <1>2. \A v : (Joined(v)' <=> Joined(v)) /\ (Bounded(v)' <=> Bounded(v))
    BY <1>1 DEF Joined, Bounded
  <1>3. Shape'
    BY <1>1 DEF Shape, Vertices, Pins, Sol, SolOK, LayerOf, Bounded
  <1>4. Passed'
    BY <1>1 DEF Passed, Joined
  <1>5. Connected'
    BY <1>1 DEF Connected, Bounded, Vertices
  <1>6. Frontier'
    <2> SUFFICES ASSUME NEW v \in Vertices, Bounded(v)
                 PROVE  Explored(v)' \/ Waits(v)'
      BY <1>1, <1>2 DEF Frontier, Vertices
    <2>1. CASE Explored(v)
      BY <1>1, <2>1 DEF Explored, Joined, Bounded
    <2>2. CASE Waits(v)
      <3>1. PICK r \in solQueue : sols[r].vertex = v /\ sols[r].cost <= vertexCostUBs[v]
        BY <2>2 DEF Waits
      <3>2. r # s
        <4>1. /\ vertexCostUBs[sols[s].vertex] = NoBound
                   \/ vertexCostUBs[sols[s].vertex] < sols[s].cost \/ sols[s].cost = NoBound
          BY DEF Prune, Outdone, Below
        <4>2. vertexCostUBs[v] \in Nat /\ sols[s].cost \in Nat /\ NoBound \notin Nat
          BY <1>1, SolFacts DEF Shape, Bounded, NoBound
        <4> QED BY <3>1, <4>1, <4>2
      <3> QED BY <1>1, <3>1, <3>2 DEF Waits
    <2> QED BY <1>1, <2>1, <2>2 DEF Frontier
  <1>7. FailsOnlyWhenDisconnected'
    BY <1>1 DEF FailsOnlyWhenDisconnected
  <1> QED BY <1>3, <1>4, <1>5, <1>6, <1>7 DEF IInv

LEMMA ExpandStep ==
  ASSUME IInv, NEW s \in solQueue, Expand(s)
  PROVE  IInv'
  <1> DEFINE new == Better(s)
  <1>1. /\ Shape /\ Passed /\ Frontier /\ Connected /\ s \in DOMAIN sols /\ ~ReachesPin(s)
        /\ graph' = graph /\ visitedPin' = visitedPin /\ status' = "routing"
    BY DEF IInv, Shape, Expand, Routing
  <1>2. Updated(new, solQueue \ {s})
    BY UpdateSolsIs DEF Expand
  <1>3. PICK b : b = new
    OBVIOUS
  <1>4. PICK u : u = sols[s].vertex
    OBVIOUS
  <1>5. /\ u \in Vertices /\ Joined(u) /\ IsGridGraph(graph) /\ Len(sols) \in Nat
        /\ visitedPin \subseteq Pins
    <2>1. u \in Vertices /\ IsGridGraph(graph) /\ Len(sols) \in Nat /\ visitedPin \subseteq Pins
      BY <1>1, <1>4, SolFacts, GraphFacts DEF Shape
    <2>2. Joined(u)
      BY <1>1, <1>4 DEF ReachesPin, Joined
    <2> QED BY <2>1, <2>2
  <1>6. /\ b \in Seq(Sol) /\ Updated(b, solQueue \ {s})
        /\ \A e \in ToSet(b) : \E dir \in Directions : Kept(s, dir) /\ e = Extension(s, dir)
        /\ \A dir \in Directions : Kept(s, dir) => Extension(s, dir) \in ToSet(b)
    BY <1>1, <1>2, <1>3, BetterFacts
  <1>7. ASSUME NEW e \in ToSet(b)
        PROVE  NewOK(e)
    <2>1. PICK dir \in Directions : Kept(s, dir) /\ e = Extension(s, dir)
      BY <1>6
    <2>2. SolOK(e) /\ e.cost > 0 /\ e.prev = s
      BY <1>1, <2>1, ExtensionFacts DEF Kept, Onward
    <2>3. s <= Len(sols)
      BY <1>1, SolFacts
    <2>4. graph.vertexToPin[sols[s].vertex] \in visitedPin' \cup {NoPin}
      BY <1>1, <1>4, <1>5 DEF Joined
    <2> QED BY <2>2, <2>3, <2>4 DEF NewOK
  <1>8. DOMAIN b = 1 .. Len(b) /\ \A e \in ToSet(b) : \E i \in DOMAIN b : b[i] = e
    BY <1>6, InToSet
  <1>9. /\ \A v \in Vertices : Bounded(v) => Bounded(v)'
        /\ \A i \in DOMAIN b : Bounded(b[i].vertex)'
    <2> DEFINE queue == solQueue \ {s}
    <2>1. queue \in SUBSET solQueue
      OBVIOUS
    <2>2. /\ sols' = sols \o b
          /\ solQueue' = queue \cup (Len(sols) + 1 .. Len(sols) + Len(b))
          /\ vertexCostUBs' =
               [v \in Vertices |->
                  LET ubs == ({vertexCostUBs[v]} \ {NoBound}) \cup
                             {b[i].costUB : i \in {j \in DOMAIN b : b[j].vertex = v}}
                  IN  IF ubs = {} THEN NoBound ELSE Min(ubs)]
      BY <1>6 DEF Updated
    <2> HIDE DEF queue, new
    <2> QED BY <1>1, <1>6, <2>1, <2>2, UpdateFacts
  <1>10. Explored(u)'
    <2>1. ASSUME NEW dir \in Directions, graph.conn[u][dir] # NoVertex
          PROVE  vertexCostUBs'[graph.conn[u][dir]] # NoBound
      <3> DEFINE v == graph.conn[u][dir]
      <3>1. v \in Vertices
        BY <1>5, <2>1 DEF IsGridGraph, Vertices
      <3>2. CASE Kept(s, dir)
        <4>1. Extension(s, dir) \in ToSet(b) /\ Extension(s, dir).vertex = v
          BY <1>1, <1>4, <1>6, <2>1, <3>2, ExtensionFacts
        <4>2. PICK i \in DOMAIN b : b[i].vertex = v
          BY <1>8, <4>1
        <4> QED BY <1>9, <4>2 DEF Bounded
      <3>3. CASE Onward(s, dir) /\ ~Kept(s, dir)
        <4>1. Extension(s, dir).vertex = v
          BY <1>1, <1>4, <2>1, ExtensionFacts
        <4>2. vertexCostUBs[v] # NoBound
          BY <3>3, <4>1 DEF Kept, Below
        <4> QED BY <1>9, <3>1, <4>2 DEF Bounded
      <3>4. CASE ~Onward(s, dir)
        <4>1. sols[s].prev # NoSol /\ v = sols[sols[s].prev].vertex
          BY <1>4, <2>1, <3>4 DEF Onward
        <4>2. sols[s].prev \in DOMAIN sols
          BY <1>1, <4>1, SolFacts
        <4>3. Bounded(v)
          BY <1>1, <4>1, <4>2, SolFacts
        <4> QED BY <1>9, <3>1, <4>3 DEF Bounded
      <3> QED BY <3>2, <3>3, <3>4
    <2>2. graph.vertexToPin[u] \in visitedPin' \cup {NoPin}
      BY <1>1, <1>5 DEF Joined
    <2> QED BY <1>1, <2>1, <2>2 DEF Explored, Joined, Bounded
  <1>11. Shape' /\ Passed' /\ Frontier'
    <2> HIDE DEF new
    <2> QED BY <1>1, <1>4, <1>5, <1>6, <1>7, <1>10, SearchStep
  <1>12. Connected'
    <2>1. Vertices' = Vertices
      BY <1>1 DEF Vertices
    <2>2. \A v \in Vertices : Bounded(v) => vertexCostUBs'[v] # NoBound
      BY <1>9 DEF Bounded
    <2> QED BY <1>1, <2>1, <2>2 DEF Connected, Bounded
  <1>13. FailsOnlyWhenDisconnected'
    BY <1>1 DEF FailsOnlyWhenDisconnected
  <1> QED BY <1>11, <1>12, <1>13 DEF IInv

\* nothing waits: what has a bound is closed under edges and connected pins
LEMMA GiveUpStep ==
  ASSUME IInv, GiveUp
  PROVE  IInv'
  <1>1. /\ Shape /\ Passed /\ Frontier /\ Connected /\ solQueue = {} /\ visitedPin # Pins
        /\ UNCHANGED <<graph, sols, solQueue, vertexCostUBs, visitedPin>>
    BY DEF IInv, GiveUp, Routing, searchVars
  <1>2. Shape' /\ Passed' /\ Frontier' /\ Connected'
    <2>1. Shape'
      BY <1>1 DEF Shape, Vertices, Pins, Sol, SolOK, LayerOf, Bounded
    <2>2. Passed' /\ Connected'
      BY <1>1 DEF Passed, Connected, Joined, Bounded, Vertices
    <2>3. Frontier'
      BY <1>1 DEF Frontier, Vertices, Bounded, Explored, Joined, Waits
    <2> QED BY <2>1, <2>2, <2>3
  <1> DEFINE closed == {v \in Vertices : Bounded(v)}
             N == Cardinality(Vertices)
  <1>3. \A v \in closed : Explored(v)
    BY <1>1 DEF Frontier, Waits
  <1>4. /\ Vertices \subseteq Nat /\ N \in Nat /\ Pins \subseteq Nat /\ startPin \in visitedPin
        /\ NoPin \notin Pins /\ visitedPin \subseteq Pins /\ NoVertex \notin Vertices
    BY <1>1, GraphFacts, FS_CardinalityType DEF Shape, NoVertex
  <1>5. ASSUME graph.pinToVertex[startPin] # <<>>
        PROVE  \E p \in Pins \ {startPin} :
                 VerticesOf(p) \cap Reached[Cardinality(Vertices)] = {}
    <2>1. \A p \in visitedPin : VerticesOf(p) \subseteq closed
      BY <1>1, <1>5 DEF Connected, VerticesOf
    <2>2. ASSUME NEW vs \in SUBSET closed
          PROVE  Spread(vs) \subseteq closed
      <3>1. ASSUME NEW u \in vs, NEW v \in Vertices, Adjacent(u, v)
            PROVE  v \in closed
        <4>1. PICK dir \in Directions : graph.conn[u][dir] = v
          BY <3>1 DEF Adjacent
        <4>2. Explored(u) /\ v # NoVertex
          BY <1>3, <1>4
        <4> QED BY <4>1, <4>2 DEF Explored
      <3>2. ASSUME NEW u \in vs, graph.vertexToPin[u] # NoPin
            PROVE  VerticesOf(graph.vertexToPin[u]) \subseteq closed
        <4>1. Explored(u)
          BY <1>3
        <4>2. graph.vertexToPin[u] \in visitedPin
          BY <3>2, <4>1 DEF Explored, Joined
        <4> QED BY <2>1, <4>2
      <3> HIDE DEF closed
      <3> QED BY <3>1, <3>2 DEF Spread
    <2>3. \A n \in 0 .. N :
            Reached[n] = IF n = 0 THEN VerticesOf(startPin) ELSE Spread(Reached[n - 1])
      <3> DEFINE g == [vs \in SUBSET Vertices |-> Spread(vs)]
                 a == VerticesOf(startPin)
                 Is(f) == f = [n \in 0 .. N |-> IF n = 0 THEN VerticesOf(startPin)
                                                ELSE Spread(f[n - 1])]
      <3>1. a \in SUBSET Vertices /\ g \in [SUBSET Vertices -> SUBSET Vertices]
        BY DEF VerticesOf, Spread
      <3>2. PICK r \in [0 .. N -> SUBSET Vertices] : Iterates(r, N, a, g)
        <4> HIDE DEF a, g, N
        <4> QED BY <1>4, <3>1, IteratesExist
      <3>3. Is(r)
        <4>1. \A n \in 0 .. N : n # 0 => n - 1 \in 0 .. N /\ r[n - 1] \in SUBSET Vertices
          <5> HIDE DEF N
          <5> QED BY <1>4, <3>2
        <4>2. \A n \in 0 .. N : n # 0 => g[r[n - 1]] = Spread(r[n - 1])
          BY <4>1
        <4>3. r = [n \in 0 .. N |-> IF n = 0 THEN a ELSE g[r[n - 1]]]
          BY <3>2 DEF Iterates
        <4> DEFINE h == [n \in 0 .. N |-> IF n = 0 THEN a ELSE Spread(r[n - 1])]
        <4>4. \A n \in 0 .. N : r[n] = h[n]
          <5> HIDE DEF a, g, N
          <5> QED BY <4>2, <4>3
        <4>5. r = h
          <5> HIDE DEF a, g, N
          <5> QED BY <4>3, <4>4
        <4> HIDE DEF g, N
        <4> QED BY <4>5
      <3>4. Reached = CHOOSE f : Is(f)
        BY DEF Reached
      <3>5. Is(Reached)
        <4> HIDE DEF Is, N
        <4> QED BY <3>3, <3>4
      <3> HIDE DEF N
      <3> QED BY <3>5
    <2>4. \A n \in 0 .. N : Reached[n] \subseteq closed
      <3> DEFINE Bad == {n \in 0 .. N : ~(Reached[n] \subseteq closed)}
      <3>1. ASSUME Bad # {} PROVE FALSE
        <4>1. PICK m \in Bad : \A n \in Bad : m <= n
          <5>1. Bad \subseteq Nat
            OBVIOUS
          <5> HIDE DEF Bad
          <5> QED BY <3>1, <5>1, LeastNatural
        <4>2. m \in 0 .. N /\ ~(Reached[m] \subseteq closed)
          OBVIOUS
        <4>3. m # 0
          <5> HIDE DEF closed, N
          <5> QED BY <1>4, <2>1, <2>3, <4>2
        <4>4. m - 1 \in 0 .. N /\ ~(m <= m - 1)
          <5> HIDE DEF closed, N
          <5> QED BY <1>4, <4>2, <4>3
        <4>5. Reached[m - 1] \subseteq closed
          BY <4>1, <4>4
        <4>6. Reached[m] = Spread(Reached[m - 1])
          <5> HIDE DEF closed, N
          <5> QED BY <2>3, <4>2, <4>3
        <4> HIDE DEF closed
        <4> QED BY <2>2, <4>2, <4>5, <4>6
      <3> QED BY <3>1
    <2>5. PICK p \in Pins \ visitedPin : TRUE
      BY <1>1, <1>4
    <2>6. VerticesOf(p) \cap closed = {}
      <3> SUFFICES ASSUME NEW v \in closed, v \in VerticesOf(p)
                   PROVE  FALSE
        BY DEF VerticesOf
      <3>1. Explored(v) /\ graph.vertexToPin[v] = p
        BY <1>3 DEF VerticesOf
      <3> QED BY <1>4, <2>5, <3>1 DEF Explored, Joined
    <2>7. Reached[N] \subseteq closed
      <3> HIDE DEF closed
      <3> QED BY <1>4, <2>4
    <2>8. p \in Pins \ {startPin}
      BY <1>4, <2>5
    <2> HIDE DEF closed
    <2> QED BY <2>6, <2>7, <2>8
  <1>6. FailsOnlyWhenDisconnected'
    <2>1. \/ graph.pinToVertex[startPin] = <<>>
          \/ \E p \in Pins \ {startPin} :
               VerticesOf(p) \cap Reached[Cardinality(Vertices)] = {}
      BY <1>5
    <2>2. Vertices' = Vertices /\ Pins' = Pins
      BY <1>1 DEF Vertices, Pins
    <2>3. \A p : VerticesOf(p)' = VerticesOf(p)
      BY <1>1 DEF VerticesOf, Vertices
    <2>4. Reached' = Reached
      BY <1>1 DEF Reached, VerticesOf, Spread, Adjacent, Vertices
    <2> QED BY <1>1, <2>1, <2>2, <2>3, <2>4 DEF FailsOnlyWhenDisconnected
  <1> QED BY <1>2, <1>6 DEF IInv

\* the search is over, or nothing happens
LEMMA OtherStep ==
  ASSUME IInv, (\E pin \in Pins : TracePin(pin)) \/ MergeTopo \/ UNCHANGED vars
  PROVE  IInv'
  <1>1. /\ Shape /\ Passed /\ Frontier /\ Connected /\ FailsOnlyWhenDisconnected
        /\ UNCHANGED <<graph, sols, solQueue, vertexCostUBs, visitedPin>>
        /\ status' = status \/ status' = "SUCC_NORMAL"
    BY DEF IInv, TracePin, MergeTopo, vars, searchVars
  <1>2. Shape'
    BY <1>1 DEF Shape, Vertices, Pins, Sol, SolOK, LayerOf, Bounded
  <1>3. Passed' /\ Connected'
    BY <1>1 DEF Passed, Connected, Joined, Bounded, Vertices
  <1>4. Frontier'
    BY <1>1 DEF Frontier, Vertices, Bounded, Explored, Joined, Waits
  <1>5. FailsOnlyWhenDisconnected'
    <2>1. Vertices' = Vertices /\ Pins' = Pins
      BY <1>1 DEF Vertices, Pins
    <2>2. \A p : VerticesOf(p)' = VerticesOf(p)
      BY <1>1 DEF VerticesOf, Vertices
    <2>3. Reached' = Reached
      BY <1>1 DEF Reached, VerticesOf, Spread, Adjacent, Vertices
    <2> QED BY <1>1, <2>1, <2>2, <2>3 DEF FailsOnlyWhenDisconnected
  <1> QED BY <1>2, <1>3, <1>4, <1>5 DEF IInv

(* What the proof of FailsOnlyWhenDisconnected rests on: at all times each *)
(* vertex with a cost bound has been explored or waits in the heap with a  *)
(* solution that will not be pruned, paths go on from a pin only when it is*)
(* connected, and all vertices of connected pins have a bound.             *)
THEOREM SpecIInv == Spec => []IInv
  <1>1. IInv /\ [Next]_vars => IInv'
    <2> SUFFICES ASSUME IInv, [Next]_vars PROVE IInv'
      OBVIOUS
    <2>1. CASE \E s \in solQueue : ReachPin(s) \/ Prune(s) \/ Expand(s)
      BY <2>1, ReachPinStep, PruneStep, ExpandStep
    <2>2. CASE GiveUp
      BY <2>2, GiveUpStep
    <2>3. CASE (\E pin \in Pins : TracePin(pin)) \/ MergeTopo \/ UNCHANGED vars
      BY <2>3, OtherStep
    <2>4. CASE Done
      BY <2>4, OtherStep DEF Done
    <2> QED BY <2>1, <2>2, <2>3, <2>4 DEF Next
  <1> QED BY InitIInv, <1>1, PTL DEF Spec

(* The search fails only when the grid graph, with pins taken as           *)
(* connections, does not join the pins, or when nothing is left to start   *)
(* from: pruning, bounds that never rise and the costs that getResult's    *)
(* paths reset cut no vertex off, whatever the costs and minimum lengths.  *)
THEOREM SpecFailsOnlyWhenDisconnected == Spec => []FailsOnlyWhenDisconnected
  <1>1. IInv => FailsOnlyWhenDisconnected
    BY DEF IInv
  <1> QED BY SpecIInv, <1>1, PTL
=============================================================================
