------------------------------ MODULE MCMinArea ------------------------------
(***************************************************************************)
(* Two nets on the layers of MCPreRoute whose wires on layer 1, of 0, 4, 8 *)
(* or 12 units where 8 are needed, share tracks or lie on neighbouring     *)
(* ones; end-of-line spacing is 3 there, parallel-run spacing 2. A via is  *)
(* longer along x below and along y above, or the other way round.         *)
(***************************************************************************)
EXTENDS MinArea, MCLayers

Same(v) == [l \in 0 .. 3 |-> v]
MCWidth == Same(2)
MCSpace == Same(2)
MCEolSpace == 0 :> 0 @@ 1 :> 3 @@ 2 :> 0 @@ 3 :> 0
MCEolWidth == Same(3)
MCEolWithin == 0 :> 0 @@ 1 :> 2 @@ 2 :> 0 @@ 3 :> 0
MCCutSpace == [t \in 0 .. 2 |-> 2]
MCViaMetal ==
  [t \in 0 .. 2 |->
     [type \in {"default", "rotated"} |->
        LET long == Intvl(-2, 2)
            short == Intvl(-1, 1)
            flat(l) == Box(l, long, short)
            tall(l) == Box(l, short, long)
        IN  [cut |-> Box(t, short, short),
             bot |-> IF (type = "default") = (t \in TrackIsX) THEN tall(t) ELSE flat(t),
             top |-> IF (type = "default") = (t \in TrackIsX) THEN flat(t + 1) ELSE tall(t + 1)]]]

MCMinLen == 0 :> 0 @@ 1 :> 8 @@ 2 :> 4 @@ 3 :> 0
MCOneVia == 0 :> 0 @@ 1 :> 7 @@ 2 :> 4 @@ 3 :> 0
MCTwoVia == 0 :> 0 @@ 1 :> 6 @@ 2 :> 3 @@ 3 :> 0
MCOvlpDist == Same(3)

\* a node: where, below which node of the sequence, and as what
N(p, parent, as) ==
  [point |-> p, pin |-> IF as = "none" THEN NoPin ELSE 0, parent |-> parent, real |-> as = "pin"]
On1(t, c) == Point(1, t, c)
Below1(t, c) == Point(0, CHOOSE u \in 0 .. 3 : UpperCrossPoint[0][u] = c, t)
Above1(t, c) == Point(2, UpperTrack[1][c], t)

\* a wire from a to b, with a via to layer 0 at a and a pin at b on a layer
Pinned(t, a, end) ==
  << N(Below1(t, a), 0, "pin"), N(On1(t, a), 1, "none") >> \o end
Straight(t, a, b) == Pinned(t, a, << N(On1(t, b), 2, "none"), N(Below1(t, b), 3, "pin") >>)
Rising(t, a, b, as) == Pinned(t, a, << N(On1(t, b), 2, "none"), N(Above1(t, b), 3, as) >>)
Stack(t, a, as) == Pinned(t, a, << N(Above1(t, a), 2, as) >>)
Jog(t, a) == Pinned(t, a, << N(On1(t + 1, a), 2, "none"), N(Below1(t + 1, a), 3, "pin") >>)
Stub(t, a) == << N(Below1(t, a), 0, "pin"), N(On1(t, a), 1, "fake") >>
StubDown(t, a) == << N(On1(t, a), 0, "fake"), N(Below1(t, a), 1, "pin") >>
\* a via from above in the middle of a wire
Fork(t) ==
  << N(Above1(t, 2), 0, "pin"), N(On1(t, 2), 1, "none"), N(On1(t, 1), 2, "none"),
     N(Below1(t, 1), 3, "pin"), N(On1(t, 3), 2, "none"), N(Below1(t, 3), 5, "pin") >>

MCTopologies ==
  "a" :> {Straight(1, 0, 1), Straight(1, 3, 4), Stack(1, 0, "fake"), Jog(1, 3), Stub(1, 3), Fork(1)}
  @@ "b" :> {Straight(1, 4, 3), Straight(0, 1, 0), Stack(1, 4, "pin"), StubDown(1, 0),
             Rising(2, 4, 2, "fake")}

MCPoorWire == {<<On1(1, 2), "a">>, <<On1(0, 3), "b">>, <<Point(2, 0, 2), "b">>}
MCFixedVio ==
  {<<Below1(1, 4), "a", "default">>} \cup
  {<<Below1(1, 0), "b", type>> : type \in {"default", "rotated"}}
MCPreferredType ==
  [p \in GridPoint |-> IF (p.track + p.cp) % 2 = 0 THEN "default" ELSE "rotated"]
MCPinHist == On1(1, 4) :> "b" @@ On1(1, 1) :> "a"

\* the tables, made once
MCWireRange == LET table == initWireRange IN table
MCViaBotWire == LET table == initViaBotWire IN table
MCViaTopWire == LET table == initViaTopWire IN table
MCWireTopReach == LET table == initWireTopReach IN table
MCWireBotReach == LET table == initWireBotReach IN table
MCAllViaMetal == LET table == initAllViaMetal IN table
MCAllViaBotVia == LET table == initAllViaBotVia IN table
==============================================================================
