---------------------------- MODULE MCSchedulers ----------------------------
(***************************************************************************)
(* Both schedulers over one grid of two layers of 5 tracks and 5 cross     *)
(* points at pitch 2, tracks of layer 0 along x and of layer 1 along y,    *)
(* with an odd margin on layer 0 and an even one on layer 1. Each          *)
(* behaviour is that of one of them; the other's variables stand still.    *)
(***************************************************************************)
EXTENDS Scheduler, PostScheduler, TLC

MCLayers == {0, 1}
MCMargin == 0 :> 3 @@ 1 :> 4
MCTrackIsX == {1}
Five == 0 :> 5 @@ 1 :> 5
Pitch2 == [l \in {0, 1} |-> [k \in 0 .. 4 |-> 2 * k]]
Straight == 0 :> [k \in 0 .. 4 |-> k] @@ 1 :> [k \in 0 .. 4 |-> -1]

P(l, t, c) == [layer |-> l, track |-> t, cp |-> c]

\* topologies written from both ends, with vias, one of them alone, a
\* wrong-way segment, a min-area extension, and none at all
MCTopoChoices ==
  { [edges |-> {}, exts |-> {}],
    [edges |-> {Edge(P(0, 0, 3), P(0, 0, 0))}, exts |-> {}],
    [edges |-> {Edge(P(0, 1, 4), P(1, 4, 1)), Edge(P(1, 4, 1), P(1, 4, 3))},
     exts |-> {}],
    [edges |-> {Edge(P(0, 4, 0), P(0, 2, 0))}, exts |-> {}],
    [edges |-> {Edge(P(1, 2, 2), P(0, 2, 2))},
     exts |-> {Edge(P(1, 2, 2), P(1, 2, 4))}],
    [edges |-> {Edge(P(1, 0, 4), P(1, 0, 2))}, exts |-> {}],
    [edges |-> {Edge(P(0, 3, 1), P(1, 1, 3))}, exts |-> {}] }

Guide(l, xl, xh) == [layer |-> l, xl |-> xl, xh |-> xh, yl |-> 0, yh |-> 2]

\* gaps of 2 and 3 to the first guide on layer 0, and of 4 on layer 1
GuideChoices ==
  { {Guide(0, 0, 2), Guide(1, 0, 2)}, {Guide(0, 4, 6)},
    {Guide(0, 5, 8), Guide(1, 6, 7)} }

MCBoxChoices == GuideChoices \cup {getNetBoxes(net) : net \in MCTopoChoices}

MCPreRouteStatus == {"SUCC_NORMAL", "SUCC_ONE_PIN", "FAIL_DETACHED_GUIDE"}
MCEstimates == {1, 2}

NoNet == [edges |-> {}, exts |-> {}]

SchedulerCase ==
  /\ boxes \in [Jobs -> GuideChoices]
  /\ topo = [j \in Jobs |-> NoNet]
  /\ SchedulerInit

PostCase ==
  /\ PostInit
  /\ status = [j \in Jobs |-> "SUCC_NORMAL"]
  /\ estimate = [j \in Jobs |-> 1]
  /\ sortAll = FALSE
  /\ reverseBatches = FALSE
  /\ returned = FALSE

IsPost == topo # [j \in Jobs |-> NoNet]

MCNext ==
  \/ ~IsPost /\ SchedulerNext /\ UNCHANGED topo
  \/ IsPost /\ PostNext /\ UNCHANGED <<settings, returned>>

MCSpec ==
  /\ SchedulerCase \/ (PostCase /\ IsPost)
  /\ [][MCNext]_<<svars, topo>>
  /\ WF_<<svars, topo>>(Step /\ UNCHANGED <<topo, settings, returned>>)
=============================================================================
