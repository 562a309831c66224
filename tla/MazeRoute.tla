----------------------------- MODULE MazeRoute ------------------------------
(***************************************************************************)
(* MazeRoute::run for one net (single_net/MazeRoute.cpp): a search from    *)
(* pin 0 over the net's grid graph that connects the pins one by one. Each *)
(* time a pin is reached, the path to it becomes free for the pins that    *)
(* follow. A solution is a path to a vertex; its length on the present     *)
(* track matters, since leaving a layer with too short a wire costs a      *)
(* penalty: cost is what the path costs, costUB what it costs at most when *)
(* the present wire has to be made longer.                                 *)
(*                                                                         *)
(* Costs are integers. The heap pops any of the cheapest solutions.        *)
(***************************************************************************)
EXTENDS GridTopo, SequencesExt

CONSTANTS
  GraphChoices,      \* grid graphs, as GridGraphBuilder leaves them
  MinLen, MinLenOneVia, MinLenTwoVia, ViaOvlpDist, Pitch,   \* of each layer
  UnitMinAreaVioCost

NoVertex == -1
startPin == 0

Directions == {"BACKWARD", "FORWARD", "UP", "DOWN", "LEFT", "RIGHT"}
switchLayer(dir) == dir \in {"UP", "DOWN"}

(* What GridGraphBuilder leaves: every vertex has a grid point and at most *)
(* one pin. A pin's vertices are those that have it, unless they all went  *)
(* to other pins and fixDisconnectedPin gave it one back. Going along an   *)
(* edge has a price, for that of a via is positive and so is that of a     *)
(* cross point.                                                            *)
IsGridGraph(g) ==
  LET V == DOMAIN g.vertexToGridPoint
      P == DOMAIN g.pinToVertex
  IN  /\ V \subseteq Nat /\ IsFiniteSet(V)
      /\ P \subseteq Nat /\ IsFiniteSet(P) /\ startPin \in P
      /\ g.vertexToGridPoint \in [V -> GridPoint]
      /\ g.conn \in [V -> [Directions -> V \cup {NoVertex}]]
      /\ g.vertexCost \in [V -> Nat]
      /\ \A u \in V, dir \in Directions : g.conn[u][dir] # NoVertex =>
           /\ g.edgeCost[u][dir] \in Nat
           /\ g.edgeCost[u][dir] + g.vertexCost[g.conn[u][dir]] > 0
           /\ switchLayer(dir) => g.edgeCost[u][dir] > 0
      /\ g.vertexToPin \in [V -> P \cup {NoPin}]
      /\ g.pinToVertex \in [P -> Seq(V)]
      /\ \A p \in P :
           LET own == {v \in V : g.vertexToPin[v] = p}
           IN  \/ own = ToSet(g.pinToVertex[p])
               \/ g.pinToVertex[p] = <<>> /\ \A u, v \in own : u = v

ASSUME GraphAssumption ==
  /\ \A g \in GraphChoices : IsGridGraph(g)
  /\ UnitMinAreaVioCost \in Nat
  /\ \A l \in GridLayers :
       MinLen[l] \in Nat /\ MinLenOneVia[l] \in Nat /\ MinLenTwoVia[l] \in Nat /\ Pitch[l] \in Nat

VARIABLES
  graph,
  sols,              \* all solutions made; those in solQueue wait to be popped
  solQueue,
  vertexCostUBs,     \* for each vertex, NoBound or the least costUB
  pinSols,           \* for each pin, the solution that reached it, or NoSol
  visitedPin,
  status,            \* "routing" until it is known how the search ended
  gridTopo, visited, \* the result; for vertices that have one, the node
  tracedPins         \* pins whose path is part of the result

searchVars == <<sols, solQueue, vertexCostUBs, pinSols, visitedPin>>
resultVars == <<gridTopo, visited, tracedPins>>
vars == <<graph, searchVars, status, resultVars>>

NoBound == -1
NoSol == 0

Vertices == DOMAIN graph.vertexToGridPoint
Pins == DOMAIN graph.pinToVertex
\* the access vertices of a set of pins
AccessOf(pins) == UNION {ToSet(graph.pinToVertex[p]) : p \in pins}
LayerOf(v) == graph.vertexToGridPoint[v].layer

Abs(n) == IF n < 0 THEN -n ELSE n
Least(a, b) == IF a < b THEN a ELSE b

\* below an upper bound that may not be there yet
Below(cost, ub) == ub = NoBound \/ cost < ub

getMinLenAcc(l, len) ==
  IF len < ViaOvlpDist[l] THEN MinLenOneVia[l] ELSE MinLenTwoVia[l]
hasMinLenVioAcc(l, len) == len < getMinLenAcc(l, len)

-----------------------------------------------------------------------------
(* Solutions                                                               *)

Solution(c, len, ub, v, prev) ==
  [cost |-> c, len |-> len, costUB |-> ub, vertex |-> v, prev |-> prev]

\* updateSol, for each of a sequence of solutions
updateSols(solutions, queue) ==
  \E new \in {solutions} :
    /\ sols' = sols \o new
    /\ solQueue' = queue \cup (Len(sols) + 1 .. Len(sols) + Len(new))
    /\ vertexCostUBs' =
         [v \in Vertices |->
            LET ubs == ({vertexCostUBs[v]} \ {NoBound}) \cup
                       {new[i].costUB : i \in {j \in DOMAIN new : new[j].vertex = v}}
            IN  IF ubs = {} THEN NoBound ELSE Min(ubs)]

\* a solution that starts at an access vertex of a pin
AccessSolution(g, v) ==
  LET minLen == IF v \in g.fakePins THEN 0
                ELSE MinLen[g.vertexToGridPoint[v].layer]
  IN  Solution(g.vertexCost[v], minLen, g.vertexCost[v], v, NoSol)

AccessSolutions(g, vs) == [i \in DOMAIN vs |-> AccessSolution(g, vs[i])]

\* the penalty for a wire of length len that ends at v, if it is too short
MinAreaPenalty(v, len) ==
  LET l == LayerOf(v)
  IN  CASE ~hasMinLenVioAcc(l, len) -> 0
        [] hasMinLenVioAcc(l, len) /\ (v \in graph.minAreaFixable
             \/ graph.vertexToPin[v] # NoPin) -> MinLen[l] - len
        [] OTHER -> UnitMinAreaVioCost

\* length of the edge from u to v, in the layer of both
EdgeLen(u, v) ==
  LET p == graph.vertexToGridPoint[u]
      q == graph.vertexToGridPoint[v]
  IN  Abs(CrossPointLoc[p.layer][p.cp] - CrossPointLoc[q.layer][q.cp])
        + Pitch[p.layer] * Abs(p.track - q.track)

areOverlappedVertexes(u, dir) == switchLayer(dir) /\ graph.edgeCost[u][dir] = 0

\* what going from u in a direction adds to a path, penalties apart
Weight(u, dir) ==
  IF areOverlappedVertexes(u, dir) THEN 0
  ELSE graph.edgeCost[u][dir] + graph.vertexCost[graph.conn[u][dir]]

\* solution s extended by the edge of its vertex in a direction
Extension(s, dir) ==
  LET u == sols[s].vertex
      v == graph.conn[u][dir]
      penalty == IF ~areOverlappedVertexes(u, dir) /\ switchLayer(dir)
                 THEN MinAreaPenalty(u, sols[s].len) ELSE 0
      newCost == Weight(u, dir) + sols[s].cost + penalty
      len == IF LayerOf(u) = LayerOf(v) THEN sols[s].len + EdgeLen(u, v) ELSE 0
      newLen == Least(len, MinLen[LayerOf(v)])
  IN  Solution(newCost, newLen, newCost + MinAreaPenalty(v, newLen), v, s)

\* the solutions from s back to the start of its path
PathOf[s \in DOMAIN sols \cup {NoSol}] ==
  IF s = NoSol THEN <<>> ELSE <<s>> \o PathOf[sols[s].prev]

\* the part of the path that is not free yet
UnpaidPath[s \in DOMAIN sols \cup {NoSol}] ==
  IF s = NoSol \/ sols[s].cost = 0 THEN <<>>
  ELSE <<s>> \o UnpaidPath[sols[s].prev]

-----------------------------------------------------------------------------
(* The search                                                              *)

\* the order of the heap: by cost, then by costUB
Top(s) ==
  /\ s \in solQueue
  /\ \A r \in solQueue :
       \/ sols[s].cost < sols[r].cost
       \/ sols[s].cost = sols[r].cost /\ sols[s].costUB <= sols[r].costUB

ReachesPin(s) == graph.vertexToPin[sols[s].vertex] \notin visitedPin \cup {NoPin}

Routing == status = "routing" /\ visitedPin # Pins

Init ==
  /\ graph \in GraphChoices
  /\ sols = AccessSolutions(graph, graph.pinToVertex[startPin])
  /\ solQueue = DOMAIN sols
  /\ vertexCostUBs =
       [v \in Vertices |-> IF v \in AccessOf({startPin})
                           THEN graph.vertexCost[v] ELSE NoBound]
  /\ pinSols = [p \in Pins |-> NoSol]
  /\ visitedPin = {startPin}
  /\ status = "routing"
  /\ gridTopo = <<>> /\ visited = <<>> /\ tracedPins = {}

\* a solution of the path to a pin once more, now free
Freed(s) ==
  LET v == sols[s].vertex
  IN  Solution(0, MinLen[LayerOf(v)], 0, v, sols[s].prev)

FreedPath(s) == LET path == UnpaidPath[s] IN [i \in DOMAIN path |-> Freed(path[i])]

\* a sequence without an element it may have, and has once
Without(vs, u) ==
  IF u \in ToSet(vs) THEN RemoveAt(vs, CHOOSE i \in DOMAIN vs : vs[i] = u) ELSE vs

\* with the path to a pin, its other access vertices are free from now on
FreedBy(s) ==
  LET u == sols[s].vertex
  IN  FreedPath(s) \o AccessSolutions(graph,
        Without(graph.pinToVertex[graph.vertexToPin[u]], u))

\* A solution at a new pin ends the inner loop; the search for the next pin
\* starts from what it frees.
ReachPin(s) ==
  LET pin == graph.vertexToPin[sols[s].vertex]
  IN  /\ Routing /\ Top(s) /\ ReachesPin(s)
      /\ updateSols(FreedBy(s), solQueue \ {s})
      /\ pinSols' = [pinSols EXCEPT ![pin] = s]
      /\ visitedPin' = visitedPin \cup {pin}
      /\ UNCHANGED <<graph, status, resultVars>>

\* mutant: a solution is outdone by itself too
OutdoneByEqual(s) == ~Below(sols[s].cost, vertexCostUBs[sols[s].vertex])

\* another solution is better, whatever making its wire longer still costs
Outdone(s) == Below(vertexCostUBs[sols[s].vertex], sols[s].cost)

\* mutant: an outdone solution is looked at but not popped
PruneWithoutPop(s) ==
  /\ Routing /\ Top(s) /\ ~ReachesPin(s) /\ Outdone(s)
  /\ UNCHANGED vars

Prune(s) ==
  /\ Routing /\ Top(s) /\ ~ReachesPin(s) /\ Outdone(s)
  /\ solQueue' = solQueue \ {s}
  /\ UNCHANGED <<graph, sols, vertexCostUBs, pinSols, visitedPin, status, resultVars>>

\* there is an edge in a direction, not back to where the path came from
Onward(s, dir) ==
  LET v == graph.conn[sols[s].vertex][dir]
  IN  /\ v # NoVertex
      /\ sols[s].prev # NoSol => v # sols[sols[s].prev].vertex

\* the extension in a direction, if it is worth keeping
Try(s, dir) ==
  IF Onward(s, dir) /\ \E e \in {Extension(s, dir)} : Below(e.cost, vertexCostUBs[e.vertex])
  THEN <<Extension(s, dir)>> ELSE <<>>

\* what the path can become at the next vertices
Better(s) ==
  Try(s, "BACKWARD") \o Try(s, "FORWARD") \o Try(s, "UP") \o Try(s, "DOWN")
    \o Try(s, "LEFT") \o Try(s, "RIGHT")

Expand(s) ==
  /\ Routing /\ Top(s) /\ ~ReachesPin(s) /\ ~Outdone(s)
  /\ updateSols(Better(s), solQueue \ {s})
  /\ UNCHANGED <<graph, pinSols, visitedPin, status, resultVars>>

GiveUp ==
  /\ Routing /\ solQueue = {}
  /\ status' = "FAIL_DISCONNECTED_GRID_GRAPH"
  /\ UNCHANGED <<graph, searchVars, resultVars>>

-----------------------------------------------------------------------------
(* getResult                                                               *)

\* how many solutions of a path come before it meets a vertex that an earlier
\* pin's path has a node for
NewOf(path) ==
  LET met == {i \in DOMAIN path : sols[path[i]].vertex \in DOMAIN visited}
  IN  IF met = {} THEN Len(path) ELSE Min(met) - 1

\* mutant: where a path meets an earlier one it starts a tree of its own
NoGraft(path) == NoParent

\* the node that a path is grafted to
GraftedTo(path) ==
  IF NewOf(path) = Len(path) THEN NoParent
  ELSE visited[sols[path[NewOf(path) + 1]].vertex]

\* The nodes for a path, each the child of the next; base is how many nodes
\* there are before.
NodesOf(path, base) ==
  [i \in 1 .. NewOf(path) |->
     LET v == sols[path[i]].vertex
     IN  [point |-> graph.vertexToGridPoint[v], pin |-> graph.vertexToPin[v],
          parent |-> IF i < NewOf(path) THEN base + i + 1 ELSE GraftedTo(path)]]

\* One pass of getResult's loop over the pins: back along the path of a pin.
TracePin(pin) ==
  /\ status = "routing" /\ visitedPin = Pins
  /\ tracedPins = 0 .. pin - 1
  /\ \E path \in {PathOf[pinSols[pin]]}, base \in {Len(gridTopo)} :
       \E new \in {NodesOf(path, base)} :
         LET At(i) == sols[path[i]].vertex
             added == {At(i) : i \in DOMAIN new}
             first(v) == Min({i \in DOMAIN new : At(i) = v})
         IN  /\ gridTopo' = gridTopo \o new
             /\ visited' = [v \in DOMAIN visited \cup added |->
                              IF v \in DOMAIN visited THEN visited[v]
                              ELSE base + first(v)]
  /\ tracedPins' = tracedPins \cup {pin}
  /\ UNCHANGED <<graph, searchVars, status>>

MergeTopo ==
  /\ status = "routing" /\ tracedPins = Pins
  /\ gridTopo' = mergeNodes(gridTopo)
  /\ status' = "SUCC_NORMAL"
  /\ UNCHANGED <<graph, searchVars, visited, tracedPins>>

Done == status # "routing" /\ UNCHANGED vars

Next ==
  \/ \E s \in solQueue : ReachPin(s) \/ Prune(s) \/ Expand(s)
  \/ GiveUp
  \/ \E pin \in Pins : TracePin(pin)
  \/ MergeTopo
  \/ Done

Spec == Init /\ [][Next]_vars /\ WF_vars(Next)

-----------------------------------------------------------------------------
(* Properties                                                              *)

Adjacent(u, v) == \E dir \in Directions : graph.conn[u][dir] = v

VerticesOf(pin) == {v \in Vertices : graph.vertexToPin[v] = pin}

\* what is joined to the start pin, a pin joining all its access vertices
Spread(vs) ==
  vs \cup {v \in Vertices : \E u \in vs : Adjacent(u, v)}
     \cup UNION {VerticesOf(pin) : pin \in {graph.vertexToPin[u] : u \in vs} \ {NoPin}}

Reached[n \in 0 .. Cardinality(Vertices)] ==
  IF n = 0 THEN VerticesOf(startPin) ELSE Spread(Reached[n - 1])

(* The search fails only when the grid graph, pins taken as connections,   *)
(* does not connect the pins, or when the first pin was mended and there is*)
(* nothing to start from: neither pruning nor the vertices and paths that  *)
(* change their cost on the way cut anything off.                          *)
FailsOnlyWhenDisconnected ==
  status = "FAIL_DISCONNECTED_GRID_GRAPH" =>
    \/ graph.pinToVertex[startPin] = <<>>
    \/ \E p \in Pins \ {startPin} :
         VerticesOf(p) \cap Reached[Cardinality(Vertices)] = {}

\* nodes joined by an edge of a tree or by being access points of one pin
Linked(n, m) ==
  \/ gridTopo[n].parent = m \/ gridTopo[m].parent = n
  \/ gridTopo[n].pin = gridTopo[m].pin /\ gridTopo[n].pin # NoPin

Component[n \in 0 .. Cardinality(DOMAIN gridTopo)] ==
  IF n = 0 THEN {m \in DOMAIN gridTopo : gridTopo[m].pin = startPin}
  ELSE LET before == Component[n - 1]
       IN  before \cup {m \in DOMAIN gridTopo : \E k \in before : Linked(k, m)}

(* A successful result connects all pins of the net: its trees, with the   *)
(* access points of a pin taken as joined, are one component that holds a  *)
(* node of every pin, and all of their edges are vias or straight wires.   *)
PinsJoined ==
  status = "SUCC_NORMAL" =>
    /\ Component[Cardinality(DOMAIN gridTopo)] = DOMAIN gridTopo
    /\ Pins \subseteq {gridTopo[n].pin : n \in DOMAIN gridTopo}
    /\ ValidEdges(gridTopo)

\* the vertices of the path to a pin, from the pin back to its source
Path(pin) ==
  LET path == PathOf[pinSols[pin]] IN [i \in DOMAIN path |-> sols[path[i]].vertex]

PointsOf(path) ==
  LET At(i) == graph.vertexToGridPoint[path[i]]
  IN  {At(i) : i \in DOMAIN path} \cup
      UNION {EdgePoints(At(i), At(i + 1)) : i \in 1 .. Len(path) - 1}

(* The result covers grid points of the paths found and no others, and, if *)
(* no path comes back to a vertex, all of them: grafting a path onto an    *)
(* earlier one and removing nodes in straight wires lose and add none. The *)
(* path of a pin that comes back to a vertex is there at least up to where *)
(* it meets one of an earlier pin; if that is where it comes back to, the  *)
(* loop that made the wire long enough is lost.                            *)
TopoIsPaths ==
  status = "SUCC_NORMAL" =>
    LET alone(p) == LET path == Path(p)
                        met == {i \in DOMAIN path : \E q \in 0 .. p - 1 : path[i] \in ToSet(Path(q))}
                    IN  IF met = {} THEN path ELSE SubSeq(path, 1, Min(met))
        loops == \E p \in Pins : ~IsInjective(Path(p))
    IN  /\ Covered(gridTopo) \subseteq UNION {PointsOf(Path(p)) : p \in Pins}
        /\ \A p \in Pins :
             PointsOf(IF loops THEN alone(p) ELSE Path(p)) \subseteq Covered(gridTopo)

\* the vertices of the paths found so far
Paid == UNION {{sols[s].vertex : s \in ToSet(PathOf[pinSols[p]])} : p \in Pins}

\* pairs of a vertex and its cost of which there is no cheaper one
LeastOnly(S) == {x \in S : \A y \in S : y[1] = x[1] => x[2] <= y[2]}

\* the least cost of a walk with at most n edges from what is connected, as
\* pairs of a vertex and a cost
CheapestTo[n \in 0 .. Cardinality(Vertices)] ==
  IF n = 0
  THEN LeastOnly({<<v, 0>> : v \in Paid} \cup
                 {<<v, graph.vertexCost[v]>> : v \in AccessOf(visitedPin)})
  ELSE LET before == CheapestTo[n - 1]
           steps == {s \in before \X Directions :
                       graph.conn[s[1][1]][s[2]] # NoVertex}
       IN  LeastOnly(before \cup
             {<<graph.conn[s[1][1]][s[2]], s[1][2] + Weight(s[1][1], s[2])>> : s \in steps})

NoMinLen == \A v \in Vertices : MinLenOneVia[LayerOf(v)] = 0 /\ MinLenTwoVia[LayerOf(v)] = 0

(* Where no layer in use asks for a minimum length, each pin is reached at *)
(* the least cost from all that is connected by then, over all pins left:  *)
(* resetting the costs of the path and of the pin's access vertices keeps  *)
(* the search exact although vertices have been popped before.             *)
CheapestConnection ==
  [][\A p \in Pins :
       NoMinLen /\ pinSols'[p] # pinSols[p] =>
         sols[pinSols'[p]].cost =
           Min({x[2] : x \in {y \in CheapestTo[Cardinality(Vertices)] :
                  graph.vertexToPin[y[1]] \notin visitedPin \cup {NoPin}}})]_vars

(* The search ends for every graph, whatever penalties make longer paths   *)
(* to a vertex worth keeping.                                              *)
Terminates == <>(status # "routing")
=============================================================================
