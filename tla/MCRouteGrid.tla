---------------------------- MODULE MCRouteGrid -----------------------------
(***************************************************************************)
(* Two layers of 3 tracks and 3 cross points. Net a runs along track 0 and *)
(* takes a via up, where a min-area extension is needed; net b crosses     *)
(* tracks with a wrong-way segment and takes a via from the same track, at *)
(* its own cross point or at that of a.                                    *)
(***************************************************************************)
EXTENDS RouteGrid, TLC

Three == 0 :> 3 @@ 1 :> 3
MCTrackIsX == {1}
Pitch1 == [l \in {0, 1} |-> [k \in 0 .. 2 |-> k]]
Straight == 0 :> [k \in 0 .. 2 |-> k] @@ 1 :> [k \in 0 .. 2 |-> -1]

P(l, t, c) == [layer |-> l, track |-> t, cp |-> c]
Tree(p, q) == [edge |-> Edge(p, q), ext |-> FALSE]
Ext(p, q) == [edge |-> Edge(p, q), ext |-> TRUE]

WalkOfA == << Tree(P(0, 0, 0), P(0, 0, 1)), Tree(P(0, 0, 1), P(1, 1, 0)),
              Tree(P(1, 1, 0), P(1, 1, 1)) >>

MCWalks ==
  "a" :> { WalkOfA \o << Ext(P(1, 1, 1), P(1, 1, 2)) >>, WalkOfA }
  @@ "b" :> { << Tree(P(1, 2, 0), P(0, 0, 2)), Tree(P(0, 0, 2), P(0, 1, 2)) >>,
              << Tree(P(1, 1, 0), P(0, 0, 1)) >> }
=============================================================================
