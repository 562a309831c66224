# Dr. CU in TLA+

Dr. CU is a multi-threaded detailed router: it reads a placed design with
global-routing guides and produces, for every net, wires and vias on the tracks
of the metal layers. These modules model the parts of `src/src` that decide
which net is routed when, what the shared database says of it, and what is
finally written. TLC checks small instances, TLAPS proves the results that hold
for all of them.

Paths below are relative to `src/src/` of the repository.

## The system

| Part | State | Operations | Hard because |
|---|---|---|---|
| **Job pool**, `runJobsMT` in `db/Database.cpp` | shared job counter, mutex, worker threads | draw an index, handle the job, join | all parallelism goes through it; every phase counts on "each job once" and "a call is a barrier" |
| **Usage database**, `db/RouteGrid`, `single_net/UpdateDB` | per track: interval map of wires, two multimaps of vias; one map of non-default via types; a mutex each | `useEdge`, `removeEdge`, `markViaType`, commit and clear of whole nets and of extensions, cost queries | many threads, fine locks, uses and removals that must mirror each other over many iterations |
| **Schedulers**, `multi_net/Scheduler` | R-trees of the batch in hand, batches | greedy batches of nets that stay apart | rounding of margins, both layers of a via, nets that must be skipped |
| **Router**, `multi_net/Router` | iteration, status of each net, topologies, output | rip up and reroute until no violation is left; redo extensions, choose via types, write, connect what is open | failures half way, order of phases, settings left from the last iteration |
| **Pre-route**, `single_net/PreRoute`, `LocalNet`, `RouteGuideGraph` | guides of one net | expand guides until pins and guides connect | bounded retry on state changed by the attempt before |
| **Grid graph**, `single_net/GridGraph*` | vertices and edges of one net's graph | build it from the guides, skip vertices, mend pins | indices on three layers of different pitch, order of the steps |
| **Maze route**, `single_net/MazeRoute` | solutions with a length to make up | cheapest tree over pins | lengths below the minimum in the cost, pruning |
| **Post maze route**, `single_net/PostMazeRoute` | topology of one net | remove track switches, extend short wires | extension with two ends, redone later against another database |
| **Post route**, `single_net/PostRoute`, `PinTapConnector` | wires and vias to write | link pins, choose via types, write; Steiner trees for open nets | choices of neighbours made at the same time |
| **Violations**, in `db/RouteGrid.cpp`, `db/LayerList.cpp` | tables of conflicts, history cost | price edges, add and fade history | tables, windows and nearest neighbours stand for the design rules; order with rip-up |
| **Grid**, `db/LayerList`, `MetalLayer`, `GeoPrimitive` | tracks, cross points | locations, projections, boxes | index ranges at the edge of the grid |
| **Topology**, `db/GridTopo`, `db/Net` | trees of grid points | visit, merge, copy, clear | shared pointers, parents and children in step |

How they interact: `Router::route` takes the nets to route through *pre-route*
(one call of the job pool), `Scheduler`, and, batch by batch, four calls of the
job pool: maze route, commit, choose via types, record via types. What a phase
reads of the database no job of the same phase writes; what it writes is
guarded by the mutexes of the database. `Router::finish` does the same over the
batches of `PostScheduler`: remove extensions, choose them again, record them,
then rounds of via-type selection, then one call that writes each net.

What makes each part correct, in short: the job pool handles each job once and
is a barrier; the database holds exactly the wires and vias of the topologies
the nets have; the members of a batch are apart; a net's status says whether it
has a topology; nets that conflict are all ripped up, but for shapes of vias that their
own net overlooks; stopping early is final; every net with several pins is written exactly once.

## Modules

| Module | Models | State and actions |
|---|---|---|
| `JobBatch` | what `runJobsMT` promises: each job starts once and finishes, the call returns last | abstract specification |
| `JobPool` | `runJobsMT` | one action per statement of the worker loop (lock, read, bump, unlock, test, handle) and of the caller (spawn, join, or the sequential loop); `globalJobIdx++` is two steps |
| `Batching` | the greedy loop both schedulers share | one action per iteration of its loops; the R-trees are the set `rtrees` of grown boxes |
| `RouteStatus` | `RouteStatus`, `isSucc`, `operator&` | pure |
| `Scheduler` | `Scheduler::schedule` on top of `Batching` | skipping, sorting, the loop, reversal |
| `Grid` | grid points, edges, their types and locations | pure, over constants |
| `PostScheduler` | `PostScheduler::schedule` on `Batching` and `Grid` | the boxes of a net are computed from its topology |
| `RouteGrid` | the usage maps, their mutexes, and the threads of `UpdateDB` | `Enter` locks and reads a container, `Leave` writes it back and unlocks; the main thread's phases commit, mark, rip up and redo extensions |
| `Router` | `Router::run` | one action per job of each phase, one per step of the main thread; `Chain` lists the phases a batch goes through |
| `LayerList` | intervals and boxes on the grid, searches for tracks and cross points, `getUpper`/`getLower`, `MergeRects`, `SlicePolygons` | pure |
| `LocalNet` | `LocalNet`, `RouteGuideGraph`, the access boxes of pins on the grid, slicing, penalties outside of guides | pure, on a record |
| `PreRoute` | `PreRoute::runIterative` | one action per step of an attempt: expand, add guides on other layers, cover pins, slice, build the guide graph, check, retry |
| `GridGraph` | `GridGraphBuilder::run`, after `PreRoute` | one action per step of `run`: vertices, pins, mending, edges along tracks, across and up, skipping |
| `GridTopo` | trees of grid points: parents, children, `mergeNodes` | a topology is a function from nodes to point, pin and parent |
| `MazeRoute` | `MazeRoute::run`: the search and its result | one action per pop of the heap, by what becomes of the solution (`ReachPin`, `Prune`, `Expand`), one per pin traced back, `MergeTopo`; `sols` holds every solution made, `solQueue` those in the heap |
| `DesignRules` | end-of-line, parallel-run and cut spacing, and the tables `LayerList` makes of them | pure |
| `Violations` | `getEdgeVioCost` and its queries on the usage maps, history cost | `wireMap`, `viaMap`, `nonDefVia`, `histWire`, `histVia` |
| `MinArea` | `PostMazeRoute` with `UpdateDB` and history over the iterations, on `Violations` and `GridTopo` | route, via types, rip-up, history, the passes of `finish()` |
| `JobPoolProofs`, `SchedulerProofs`, `RouteGridProofs`, `RouterProofs`, `PreRouteProofs`, `TrackCheckProofs`, `GridGraphProofs`, `MazeRouteProofs` | | theorems |
| `MC...` | | constants for TLC; `MCLayers` is the grid of four layers that three of them share |

How they compose. `Scheduler` and `PostScheduler` extend `Batching`.
`JobPool` implements `JobBatch`, and that is what the other modules take for
granted of a phase: in `RouteGrid` a phase draws each net of the batch once and
ends when all threads rest; in `Router` the jobs of a phase are taken from
`pending` in any order. `RouteGrid` shows that an update of a map is atomic
however threads interleave; `Router` and `MinArea` therefore let a job update the
database in one step. `Scheduler` and `PostScheduler` show which nets share a batch;
`Router` takes any list of batches that respects that (`GuidesApart`,
`ToposApart`). `GridGraph` extends `PreRoute`: its graphs are built from the guides
pre-route ends with, never from made-up ones. `MazeRoute` takes a grid graph as
input; the shapes it is run on are those `GridGraph` makes, and `IsGridGraph` says what
the search relies on. `MinArea` and `Router`
are two views of one program: `Router` has all phases, failures and batches
over topologies of cells, `MinArea` has real topologies, design rules and
locations with batches of one net.

What is abstracted:

- `JobPool`: the handler is its begin and its end. Timing statistics are left out.
- `Batching`: a batch is a set (the order in it only decides who draws which
  index); `bgi::intersects` is intersection of closed boxes.
- `RouteGrid`: an interval map from cross points to sets of nets is a function on
  cross points; a multimap a number of entries. A container is read when its
  mutex is taken and written when it is given back, so that an update without
  the mutex would be lost, as it may be in the program. Which topology a net
  gets is a choice of `Walks`. Nets that share a via are ripped up together: that is
  a conflict whatever types the vias have, so both nets see it (`BothRippedUp`).
- `LayerList`: that the two boxes of a via box are each other's projections (`db/LayerList.cpp:117`) is not
  asked again: TLC finds it of every via box of the instance's grid (`ViaBoxesConsistent` of `MCLayers`).
- `PreRoute`: what the program reads beyond the end of `routeGuideVios` is any
  count. A guide may lie between tracks or between cross points; where slicing it would
  then run past the end of a list, or an index lies outside the tables, what the program does
  is undefined and the model stops (`Defined`). Indices in the tables but in the
  wrong order are looked up as in a build without assertions. `GridGraph`: a vertex is its grid point, since slices are disjoint
  (`SlicesExact`); what metal of other nets costs, where it leaves room for a
  wire and where a pin cannot be tapped are constants.
- `MazeRoute`: with and without wrong-way edges and vias, with direct edges in
  place of vertices that nothing else touches, with pins at several vertices and
  layers, and with a pin, the first or another, whose vertex `fixDisconnectedPin` set and left
  out of `pinToVertex`. Going along an edge costs something (`IsGridGraph`): a via has its
  unit cost, and a cross point half the distance to the ones beside it. Costs are integers. Where several solutions in the heap are equal any
  may be popped. The minimum lengths stay constant while one net is routed. The
  flag `fakePin` that a node carries on to later stages is left out, what it does
  to the search is not.
- `DesignRules`: parallel-run spacing does not depend on widths. The tables are constants that
  `TablesAssumption` requires to be equal to their definitions; so TLC makes them
  once and not at every query.
- `Violations`, `MinArea`: a cost is positive or zero, for all weights are
  positive; fading leaves positive what was positive. Where the program takes the
  cheapest of several via types and none is free of conflicts, the choice is a
  constant (`PreferredType`). Poor wires, poor vias and violations with fixed metal
  are constants. Maze routing finds any of a net's topologies.
- `Router`: a topology is the set of cells of its tree and one place that may need
  an extension, with the extensions it may get; `Near` is when two nets on
  two cells violate a rule, for each type a via may have, and `Blocked` are the cells
  near fixed metal. Who sees a conflict is as in the code: a net judges its own vias as
  ones of the default type (`db/RouteGrid.cpp:151-158` ignores the type it is given) and those of
  others by the types recorded for their locations (`viaType`; lines 251, 309, 727). So `Near` is symmetric for wires
  and vias of the default type only, and of two nets where one has another via
  the owner may see nothing (`Sees`). The instance has such a pair of cells. Costs are not modelled: maze routing may find any of the
  net's routes, or fail; so may pre-route. `fixOpenBySST` is on, as it is by default,
  and there are at least two layers. Pin taps lie on the layer of an access box of
  the pin or next to it (`Database::getGridPinAccessBoxes`), so `connectPins`
  succeeds. The choice of via types is any, for each via; a net keeps whether it has chosen for
  its present topology and whether those are the types recorded. `finish()` chooses
  again, and what the new types violate no code looks for and no property is about.

Definitions whose comment begins with "mutant" are plausible mistakes in the
definition that follows them. They are used by no specification: replacing the
definition by its mutant shows that a property would notice.

## Runs

| Run | Configuration | Bounds | Shows |
|---|---|---|---|
| `job_pool` | `MCJobPool.cfg` | all calls with up to 3 jobs and 3 threads, so fewer, as many and more jobs than threads, none at all, and the sequential path | barrier, return, implements `JobBatch`; that each job is handled once is proved |
| `schedulers` | `MCSchedulers.cfg` | 3 nets on a grid of 2 layers of 5x5 points, an odd and an even margin; for `Scheduler` gaps below, at and above them, 3 verdicts of pre-route, 2 sizes, all settings; for `PostScheduler` 7 topologies: segments from both ends, vias, a lone one, wrong-way, extension, none | type, safe distance, once per job, complete, termination; hands out what may be routed; neighbours apart |
| `route_grid` | `MCRouteGrid.cfg` | 2 nets, 2 threads, 2 via types, a grid of 2 layers of 3x3 points, vias at one location and at two | maps exact, no lost update, via types, phases end |
| `route_grid_complete` | `MCRouteGridComplete.cfg` | the same | finding 1 below |
| `router` | `MCRouter.cfg` | 2 competing nets and a one-pin net, 2 via types with vias at two cells, 3 iterations, 2 rounds of via types, intermediate results on and off | see below |
| `pre_route` | `MCPreRoute.cfg` | 4 layers of 2 to 4 tracks of different pitches, 1 or 2 guides out of 11, one of them without a track and one without a cross point, 1 or 2 pins out of 4, violations or none, 2 retries | see below |
| `pre_route_detached_guide` | `MCPreRouteDetachedGuide.cfg` | the same | finding 4 |
| `grid_graph` | `MCGridGraph.cfg` | 288 nets on the same layers: 9 sets of guides, 32 sets of pins | see below |
| `grid_graph_start_pin` | `MCGridGraphStartPinMended.cfg` | the same | finding 2 |
| `maze_route` | `MCMazeRoute.cfg` | 235 grid graphs: 144 on layers 0 and 1 with 12 vertices and no minimum length, 90 on layers 2 to 4 with 2 by 2 points each where one segment of the middle layer is too short and two are not, one of 8 vertices where a whole track is too short | fails only when disconnected or without a start (finding 2), each pin at the least cost, all pins joined, the topology is the paths found, apart from lost loops, the search ends |
| `min_area` | `MCMinArea.cfg` | 2 nets with 6 and 5 topologies, 2 via types, 2 iterations and `finish()` | see below |
| `min_area_redone` | `MCMinAreaRedone.cfg` | the same | finding 3 |

Why the bounds are enough. Two threads and two nets are the least with which
the maps can disagree: every container is updated per net and entry, and the
properties relate two nets at most; the proof of `AtomicUpdates` covers all
numbers of both. In `Router` three iterations have a first one (no rip-up), a
middle one, after which the loop may stop early with `convert` on, and a last
one that turns it off; violations are between pairs of nets. The routes
include a pair that collides on an extension only, a pair in which a via that is not of the default type
conflicts with a wire that only the wire's net notices, an extension of two
segments, two extensions that exclude each other, a route that always touches fixed
metal and one that is a single vertex. `IterLimit` and `SelectIters` are
settings of the program, not bounds of the model; the proofs cover them all.

In `pre_route` and `grid_graph` the cross points of the middle layers come from
tracks of two others whose pitches have no common multiple within the grid but at
its ends, so that a range may meet tracks of both, of one or of none; this is where
indices of neighbouring layers could be confused. Guides overlap, touch, lie on
other layers and far apart; pins lie in them, beside them and outside. Two
retries are what it takes for a retry to start from guides an earlier one has cut.

For `maze_route` a graph has to be large enough for a detour that is cheaper than
the direct way, for paths to different pins to share a part and for an access
vertex other than the one first reached to be the better start; 12 vertices
do. With minimum lengths the layer in between is the point of the 3 layers:
a stack of vias through it pays the penalty, a detour does not. There the
search may route a net through a vertex twice, round a loop that makes the wire
long enough. The program warns "self loop found in a path" and goes on.
`PinsJoined` says that the topology joins all pins all the same, `TopoIsPaths` that it covers
nothing off the paths, and all of them if none comes back to a vertex; of one that does,
the part up to where it first meets an earlier pin's path. The single graph is there for a path that
loses its loop in this way.
`CheapestConnection` is about graphs without minimum lengths, since with them the
pruning by upper bounds is a heuristic: a solution that `vertexCostUBs` cuts off
may be the start of the best wire further on.

In `min_area` wires of 0, 4, 8 and 12 units meet a minimum of 8 where one
neighbour's end, side or via may be in the way; the two nets share tracks, lie on
neighbouring ones and have vias of two shapes one above the other. Two iterations
are one that may convert min-area violations and one, the last, that may not.

The properties of `router`: `DatabaseExact` (the database is exactly the
topologies when violations are looked for, and never has too much),
`StatusMatchesTopo` (whatever failed in which iteration), `BothRippedUp` (after the check, whoever sees a
conflict with another net is to be ripped up, and so is the other net if what conflicts is on both sides a wire
or a via of the default type: nobody is rerouted around a culprit that stays, except one
whose culprit is its other via), `CleanStopStaysClean` (finishing after an
early stop creates no violation of wires and extensions although `converMinAreaToOtherVio` is still
on), `WrittenTypesRecorded`, `EveryNetOnce` (results are complete and not
doubled, intermediate ones too), `Terminates`.

Of `pre_route`: `SlicesExact` (the guides on the grid are the grid points that lie
in them by location, none twice), `CoverageGrows` (a retry loses no grid point),
`CoveredPinsAttached` (only a pin that no guide is within a layer of is detached when
the guides are cut, unless a guide has no grid point), `TrackCheckExact` (the search over ranges of tracks misses no
connection that a search over single grid points finds through guides on the pins'
own layers, and finds none that such a search, vias from access points to guides above and
below included, does not - unless it mistakes a track of a guide for one of an access box
on another layer, finding 4).

Of `grid_graph`: `SkippingKeepsPaths` (pins that are joined on the grid of the guides are
joined in the graph, whatever was skipped), `TrackCosts` (direct edges and vertices
charge for each cross point once, with the penalty outside of the design's guides), `MinAreaFlagsExact` (a flag says that a wire of minimum length fits through a
vertex just when one does, on layers that ask for a minimum length: `minLenRaw` is the minimum
area by the width less the width, `db/MetalLayer.cpp:28`, and may be none; there the program
leaves out the last cross point of a track where it is free alone), `PinsReady` (when the graph is built the tables from pins to vertices and back agree, but for
a pin that was given its only vertex, and a pin has none only if all it could
have are the only ones of others), `MendingKeepsOthers` (mending a pin takes no other
pin's last vertex). Pre-route has no violations to react to there and no guides on
other layers to add; `pre_route` has both.

Of `min_area`: `ViolationsExact` (the tables, windows and nearest intervals by which
the program finds violations agree with the design rules applied to the metal of
both nets), `ExtensionFound` (a short wire is made long enough where there is room),
`ExtensionsClean` (a new extension violates a rule only where that is allowed),
`HistoryRemembers` (every conflict that leads to a rip-up leaves a cost where it was).

Fairness. `JobPool`: weak fairness of the caller and of each worker, as the
operating system runs every thread; `std::mutex` promises nothing between
waiters, so a worker waiting for it is only weakly fair and may be overtaken. `Batching`,
`Router`, `MazeRoute`: weak fairness of the next step, one program that runs. `RouteGrid`:
weak fairness of each thread and of `Join`; what the main thread starts next is
not forced. `PreRoute`, `GridGraph` and `MinArea` state no fairness and no liveness:
they are straight lines of steps with bounded loops, and every property of theirs
is about what a step does or a state is. Their runs stop where the job they model
returns, hence `CHECK_DEADLOCK FALSE` there and nowhere else.

### Findings

1. *A cell is lost when an extension is redone* (`WireMapComplete`).
   `UpdateDB::clearMinAreaRouteResult` subtracts the whole extension from
   `routedWireMap` (`db/RouteGrid.cpp:935`), the cross point included at which
   it is attached to the wire it extends. The wire's own record of
   that point goes with it, as an interval map of sets does not count. If `run2`
   keeps the extension it comes back; if it drops or moves it, the wire is
   missing at that point for the rest of `finish()`, and with
   `rrrWriteEachIter` for the following iterations. `db/RouteGrid.h:231-232`
   describes the map as holding the routed wires. `WireMapExact` and `DatabaseExact`
   say what still holds: the map never has too much.
2. *A mended first pin has no start* (`StartPinMended`). `fixDisconnectedPin` enters
   the vertex it gives a pin in `vertexToPin` and not in `pinToVertex`
   (`single_net/GridGraphBuilderBase.cpp:88`); maze routing starts from
   `pinToVertex` of pin 0 (`single_net/MazeRoute.cpp:45`), so the net
   fails; that is the second case of `FailsOnlyWhenDisconnected`.
3. *Extensions are not redone* (`ExtensionRedone`). In `finish()` the search for a
   new extension prices a short segment without regard to whose the wires around it
   are (`db/RouteGrid.cpp:681`); the net is recorded by then, so its own wire is
   in the way and the search stops where it starts. `multi_net/Router.cpp:199` names
   the pass "redo min area handling".
4. *Tracks of different layers are compared* (`DetachedGuideIsDetached`). `checkGuideConnTrack`
   intersects the tracks of a guide with those of an access box also where the guide
   is on the layer above or below the box (`single_net/PreRoute.cpp:169`, `231`), whose tracks run
   the other way and are numbered from elsewhere. A single guide that crosses all pins of a net
   one layer above them is found to leave one out if the numbers do not meet,
   the guides are expanded and tried again, and in the end the net is given up as one that
   "has route guide detached from others" (`db/Stat.cpp:29`). Numbers that meet by accident join
   pins that no via joins (`Misread`); maze routing then fails in place of pre-route.
Smaller disagreements met on the way, each part of the model as the code has it:

- An extension may have two segments, one at each end. `run2` resets those with
  violations one by one; the wire is then skipped because one end still has a
  segment (`single_net/PostMazeRoute.cpp:442-451`), and stays too short.
- Extending a guide to a pin attaches the pin only if the guide then has a grid point. A guide
  that lies between cross points keeps none, may be the closest to a pin and be extended
  to it in place of one that has, and the pin is detached when the guides are put on
  the grid (`single_net/PreRoute.cpp:130-147`); the attempt ends there and is not repeated.
- A guide on a neighbouring layer counts as covering a pin
  (`single_net/PreRoute.cpp:128`), also where no via leads from the one to the other.
- `dbRouteGuideIdxes` is resized and appended to at every attempt and never cleared
  (`single_net/LocalNet.cpp:32`), so that after a retry a guide keeps the guides of
  the design that the guide with its index met in former attempts.
- `MergeRects` joins boxes that overlap or touch in location units; adjoining boxes of
  grid indices, one unit apart, stay apart (`db/GeoPrimitive.cpp:114-115`).
- `GridGraphBuilder::run` marks an access box as fake if its layer differs from that of the box
  before it, and only the last box of a pin (`single_net/GridGraphBuilder.cpp:34`). With boxes added
  on two other layers the first is not marked, and a real box of a pin with shapes on two layers
  is; `single_net/GridGraph.h:44` calls these pins "diff-layer access point".
- To make a wire as long as the minimum asks, a path may come back to a vertex it has
  passed. `getResult`, which goes "back track from pin to source", stops at the first vertex that an earlier
  pin's path has (`single_net/MazeRoute.cpp:174-186`). If that is the vertex where the loop closes, the loop is
  not in the topology, and the wire is shorter than the search made it and paid for; `PostMazeRoute` may
  extend it later. `TopoIsPaths` says what is kept.
- `getViaVioCost` does not use its argument `viaType` for the violations with routed
  metal (`db/RouteGrid.cpp:151-158`): its own via is judged as one of the default type. Other
  nets judge that via by its recorded type, so the two sides of a conflict may disagree: a net whose larger via
  is in the way stays, and the other is ripped up alone.

## Proofs

All theorems are about every value of the constants, under the assumptions
named in the modules, which TLC evaluates in the runs:

- sizes and settings: `BoundsAssumption`, `BatchingAssumption`, `SchedulerAssumption`,
  `RouteGridAssumption`, `RouterAssumption`, `ExpandAssumption` (the expansion is a number);
- the grid, as `MetalLayer` and `LayerList::initCrossPoints` make it: `GridAssumption`,
  `LocAssumption` (sorted), `UpperAssumption` (`getUpper` is one-to-one), `LayerListAssumption`,
  `PitchAssumption` (tracks are a pitch apart), `CrossPointAssumption` (a layer has a
  cross point where a track of the layer above or below crosses it, and nowhere
  else, in order), `EndLayersAssumption` (on the outer layers these are the tracks of the one
  neighbour), `DirectionAssumption` (tracks of neighbouring layers run in different directions);
- inputs: `TopoAssumption`, `GraphAssumption`, `NetAssumption` (a net has guides on layers of
  the grid and each pin has a box), `LocalNetAssumption` (forbidden margins, poor vias),
  `GridGraphAssumption` (costs are not negative, minimum lengths are numbers).

- `JobPoolProofs`: `SpecTypeOK`, `SpecAtMostOnce`, `SpecBarrier`, `SpecJobBatch`.
  `AtMostOnce` is not inductive by itself. The invariant `IInv` adds that the
  mutex is held by the one worker between lock and unlock; that all indices drawn
  are below the counter and held by one worker each; that a job has been started iff
  its index is below the counter and no worker is about to start it; and
  where the caller's loop variable stands against the workers' states. The step
  simulation of `JobBatch` follows from it. (`IInv` is `TypeOK`, `Mutex`, `Fresh`, `Owned`,
  `CallerInv`.)
- `SchedulerProofs`, of the loop (`Batching`): `SpecTypeOK`, `SpecSafeDistance`, `SpecOncePerJob`,
  `SpecComplete`. The invariant says that `rtrees` holds exactly the grown boxes of
  the batch being filled, that batches are disjoint and made of assigned jobs, and
  that all positions before `lastUnroute` are assigned. The arithmetic of the rounded
  half margins is one lemma. (`TypeOK`, `Filled`, `Placed`, `Waiting` with `SafeDistance` and
  `OncePerJob`.)
- `SchedulerProofs`, of the schedulers: `SpecHandsOutRoutable`, `SpecNeighboursApart`. `SInv` carries the
  invariant of `Batching` through `Scheduler`: what is skipped is what may not be
  routed, and reversing the batches loses none. `PInv` says that the boxes in use
  are those `getNetBoxes` makes of the topologies; the lemmas `SegmentInside` and
  `OccupiedInside` say that every place an edge of a net occupies, from whichever end it is
  written, lies in one of the boxes. They need that tracks and cross points
  are sorted (`LocAssumption`). `SafeDistance` then keeps nets apart as it does boxes.
- `RouteGridProofs`: `SpecAtomicUpdates`. The invariant says that a thread inside a
  section holds that section's mutex and has read what the container still
  holds. Because `removeVia` locks another mutex for the upper map, holding "the
  container's mutex" is not what excludes others: the invariant says that
  sections are excluded within a phase (all threads of a commit lock the upper point's
  mutex), and that removals of vias run in the main thread alone.
- `RouteGridProofs`, of the maps: `SpecWireMapExact`, `SpecViaMapsExact`, `SpecSoleViaMark`. They say
  what the maps hold between phases; the invariant `MInv` says it in the middle
  of each. `Done` tells from the threads' positions which sections of which
  item of a net's topology are over, `Has` what the maps hold of the item then, and
  `WireInv`, `ViaInv`, `TypeInv` state the maps by it. Three things make it more than
  bookkeeping. Wires of one net may overlap and interval maps do not count, so
  subtracting one wire takes what others have in common with it: a cross point is
  held if some item that crosses it is held and none that is being removed
  has passed it (`MayHold`); with `finishing` this is an upper bound only (finding 1).
  Via maps count, and `erase` takes one of a net's entries at a point, so entries are the
  cardinality of the items done (`LeaveViaCount`); that the upper map is right needs that
  `getUpper` is one-to-one (`UpperAssumption`, from `LayerList::initCrossPoints`).
  A type is kept for a location and not for a net, so `TypeInv` needs that nets that
  share a via are ripped up together (`RippedApart`).
  `Staged` says which nets a phase may be about and `Alone` that no two threads have
  the same net. `AtomicUpdates` is what lets a step of one thread be
  compared with the map at that moment (`LeaveWrites`).
- `RouterProofs`: `SpecStatusMatchesTopo`, `SpecDatabaseExact`, `SpecBothRippedUp`. None
  of them holds in the middle of a phase. `RInv` says in which phase of which
  loop they may fail and for which nets: `InHand` are the nets between their jobs in
  the first two phases of the batch (maze routing and commit; clearing and
  redoing extensions), `Waiting` those whose first job is still to come. A net in
  hand has a verdict and no topology, or only its tree in the database; a net that
  waits has neither topology nor success; all others are settled (`StageInv`, `UsageInv`). That batches are
  disjoint (`LoopInv`) is what keeps a later batch from undoing an earlier one.
  From the same invariant follow `SpecWrittenTypesRecorded` (`TypesInv` follows types from choice to
  record through both loops), `SpecEveryNetOnce` (`OutInv`),
  `SpecCleanStopStaysClean`. `SpecBothRippedUp` rests on the exact database: violations are looked for
  when it holds every net's cells, so a net sees all that is near it by the types on record; that
  the other net sees it too needs that conflicts are symmetric (`RouterAssumption`), which is
  assumed, and true, of wires and vias of the default type only. `SpecCleanStopStaysClean` rests on `CleanInv`: as long as the router may stop
  early `converMinAreaToOtherVio` is on, and then every wire that can be extended
  is; and a clean stop leaves no net that sees another's metal, by the types that stay on record until `finish()`
  chooses new ones (`NobodySees`), while all but vias are of the default type (`ViaInv`). So after a clean stop `run2` keeps every extension and chooses none (`RedoneSame`),
  also while the extensions of other nets are out of the database.
- `PreRouteProofs`: `SpecIInv`, `SpecSlicesExact`, `SpecCoverageGrows`, for any layout of tracks, any
  guides and pins and any number of attempts. Most of it is about what the operators of
  `LayerList` return; their recursive functions are unfolded from the set or the
  sequence they run over, by least counterexample. In the order of the module:
  *searching* (`RangeSearchExact`): the tracks in a range of locations are a range of
  indices because tracks are a pitch apart, rounded up at one end and down at the other; the
  cross points in a range are the hull of those that the tracks above and below have
  there, since every cross point belongs to one of them and both are in order
  (`CrossesRange`, `CrossPointSearch`) - also where only one of the two neighbours has a track
  in the range, or none. *Slicing* (`SlicesCover`, `SliceRangesApart`): the ends of all boxes
  of a layer divide its tracks into ranges of which any two are equal or apart, and
  a box is the union of the ranges in it. *Merging* (`MergeAlongTracks`, `MergeAlongCps`,
  `MergedTwice`): along the tracks, boxes of equal ranges that overlap become one and the result is
  in order (`Merging` is the invariant of that loop); then no two share a grid point,
  and merging the other way joins nothing, for boxes that have the same cross points
  have ranges that do not touch. So `gridRouteGuides` is exact (`GuidesOnGrid`), layer by layer.
  *Growing* (`ExpandGrows`, `CoverGrows`): expansion, the guides on other layers,
  extending each other and extending to pins never make a guide smaller, and keep its place in
  the list. *State*: `SlicesExact` needs only that the guides are boxes of the grid's
  layers; `CoverageGrows` needs `StillCovered`: all points of the guides on the grid lie in `guides`, first
  because the locations of a grid box's ends include those between (`LocBoxOfGridBox`),
  then because they grow. `IInv` is `StillCovered` with the types that these lemmas ask for, of which
  that of the access boxes is the longest to prove, as they are searched, sliced
  and looked for on other layers too (`AccessBoxesType`).
- `TrackCheckProofs`: `SpecTrackCheckExact`, which compares two searches: the one of the code,
  depth first over a pin or a guide with a range of its tracks (`Visited`), and one over single
  grid points (`ReachedOnGrid`). What is to visit and the marks made are one pair, `VisitStep`
  takes it to the next, and `GoesOnEnds` says that such a search ends if every step makes a measure fall: a step adds marks, which
  are finite (`AllMarksFinite`), or only takes from the list (`VisitedEnds`). *It misses nothing*: when
  it ends, marked tracks are closed under what a visit leads to (`VisitedClosed`). Joined grid
  points of two guides lie above each other, so the via box of the two holds both (`ViaBoxHas`,
  `AboveLeads`), and access points on a guide's own layer lie in both boxes (`AttachedMarks`):
  the points of marked tracks and pins are closed under the steps of the other search, which finds the
  least such set (`ReachedIsLeast`, `JoinedIsFound`). *It invents nothing*: every mark stands
  for points that the other search has reached (`SoundMark`). Ranges are hulls, so a visit to a guide's
  tracks must be traced back to one of them: a via box that is valid holds a via from a track
  of the range (`JoinedVias`), and so does the box between an access box and a guide above or below
  it, as the indices that the code compares wrongly cannot mislead it outside of `Misread` (`PinVias`).
  *State*: `CheckInv` has nets of two pins or more and, once the graph is built, guides cut apart
  on their grid (`Ready`), by the lemmas of `PreRouteProofs`.
- `GridGraphProofs`: `SpecMendingKeepsOthers`, `SpecPinsReady`, for any nets and costs. `PinType` types
  the tables of pins, `AccessOfPins` says where the vertices of a pin come from, `Shared` which of them
  other pins may hold before mending, and `Mended` what holds of the pins already mended while
  the loop goes on. Giving a vertex to a pin takes it from one that keeps another,
  and what may be given only gets less (`CanGive` never becomes true again for a
  mended pin), so that a pin left without has had no choice. (These make `PinsInv`.)
- `GridGraphProofs`, of the edges: `SpecJoinsInv`, `SpecSkippingKeepsPaths`, for any layout, guides and
  pins. `JoinsInv` says, stage by stage, which joins are there already: `ViasJoined` once
  `connectTwoGuides` has run, for the box of vias between two guides has the tracks of any two points
  above each other (`ViaBoxHas` of `TrackCheckProofs`; both searches are exact); `TracksJoined` once `connectGuide` has.
  Every stage adds edges and none takes or redirects what is there (`AddedEdges`): a point has
  one point above it, as `getUpper` is one-to-one, and is in one guide, as guides are cut apart
  (`SlicesExact` again, which is why the theorem rests on `PreRouteProofs`). The rest
  is an argument on graphs. Take the grid points whose nearest kept points on the track are
  reached in the graph: a via keeps both its ends, and a step along a track stays between the
  same kept points or passes one, so the set is closed under steps on the grid (`JoinsKeepPaths`) and what is joined
  there is joined in the graph. `ReachIn` is a recursive function over sets: in `TrackCheckProofs`, `UntilEnds`
  shows that it ends because edges are finite (`VerticesFinite` up to `PinEdgesFinite`), `ReachInClosed` that it ends in the
  least closed set.
- `GridGraphProofs`, of the flags: `SpecMinAreaFlagsExact`. A free interval that the window cuts reaches from
  the vertex to the end of the window, which is a minimum length away (`WindowFacts`), and distances grow with intervals
  (`DistGrows`); so the longest interval in the window is long enough just if some interval of the
  track around the vertex is (`LongestAround`, `FlagsHold`). Where no minimum length is asked for this fails
  for the last cross point, as said above.
- `MazeRouteProofs`: `SpecIInv`, `SpecFailsOnlyWhenDisconnected`, for any grid graph, costs
  and minimum lengths. The argument of Dijkstra's algorithm does not apply: bounds
  are upper bounds with penalties, a vertex may be popped many times, and its cost
  falls to zero when a pin is reached. What holds at all times is `Frontier`: a vertex that
  has a bound has been explored, so that all its neighbours have one, or waits in the heap with
  a solution no worse than its bound, which `Prune` therefore does not drop. `Passed` keeps a
  new pin from being run through and says that what reaches it is not free yet, so
  that `UnpaidPath` starts with the solution that was popped and puts its vertex back into
  the heap; the paths made free stay inside what is connected. `Connected` says that
  all vertices of a connected pin have a bound. With an empty heap the bounded vertices are
  closed under edges and pins (`GiveUpStep`), and a pin not reached has none of them.
  The recursive functions `UnpaidPath` and `Reached` are unfolded with the lemmas
  `FollowsExist` and `IteratesExist`, by least counterexample instead of induction.

Only model-checked, and why:

- liveness and termination (`Terminates` of three components, `CallReturns` of the job pool,
  `PhaseEnds`), which the proof system does not reach;
- `PinsJoined`, `TopoIsPaths`, `CheapestConnection` of `MazeRoute`: what a tree or a path computes, step by step over
  data of any size; the induction this takes is out of the provers' reach where it is not
  over a set or an index that shrinks;
- `CoveredPinsAttached`: which grid points lie between a pin and a guide that touches it depends on
  pitches and margins of real layers; for arbitrary ones it does not hold;
- `TrackCosts`: sums over sets, which the community modules define by a fold that takes an operator;
- `ViolationsExact` and the other properties of `MinArea`:
  arithmetic over tables, for which no general argument shorter than the code was found.

## Not modelled

- Reading the design (Rsyn, LEF/DEF, guides), options, statistics and the format of
  the output are pure I/O. They are also most of the lines of the repository: the
  vendored parsers and writers of LEF and DEF and the Rsyn framework are far more than
  half of it, which is why the share of lines the modules stand for is small.
- Database initialisation is one pass before routing starts: fixed metal, tracks,
  poor wires and vias. Its results are constants here.
- The shapes of pin links, which depend on polygons of real pins.
- `connectBySTT` beyond when it steps in: a Steiner tree by a library.
- `removeTrackSwitchWithVio`: it replaces one topology by another, and the search
  may find either.
- `getBestViaTypeForFixed`, which compares via types beside fixed metal: it takes real metal shapes. It
  is a tie-break in the selection of via types, and chooses the vias that link pins (`single_net/PostRoute.cpp:146`).
- Numeric costs, their fading and weights.
- Rounds of via-type selection among neighbours of one batch, with batches made before
  `run2` moved extensions: metal and several nets per batch are beyond what TLC
  can enumerate together.

## Plan

Done: the job pool, both schedulers, recording in the usage database, the router,
pre-route, the grid graph, the search of maze routing, violations, history and
min-area extensions; theorems about all of them but the last three.

Left, in this order:

1. Theorems about the topology that `MazeRoute` makes of its paths.
2. `connectBySTT`: which points it joins; `removeTrackSwitchWithVio` on `GridTopo`.
3. Via-type selection with neighbours in one batch: whether the rounds settle.
