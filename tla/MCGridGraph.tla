----------------------------- MODULE MCGridGraph -----------------------------
(***************************************************************************)
(* The layers of MCPreRoute, with guides wide enough to skip vertices,     *)
(* pins that contest grid points, in both orders, pins that only other     *)
(* layers can tap, and prices that differ from one grid point to the next. *)
(***************************************************************************)
EXTENDS GridGraph, MCLayers

\* where a pin on layer 1 can be tapped: vias below it at 4 and 8, above it at 6
MCPoorVia == {p \in GridPoint : (p.layer = 0 /\ getLoc(p).x \in {4, 8}) \/ (p.layer = 1 /\ getLoc(p).x = 6)}

\* from one point to the next, never twice the same along a track
MCCpCost == [p \in GridPoint |-> 1 + p.cp * p.cp + p.track]
MCViaCost == [p \in GridPoint |-> 7 + p.track]
MCFree == {p \in GridPoint : (p.layer + p.track + p.cp) % 4 # 0}
MCBadTap == {p \in GridPoint : p.cp = 0}
MCMinLen == 0 :> 4 @@ 1 :> 6 @@ 2 :> 8 @@ 3 :> 6
MCWrongWayCost == [l \in 0 .. 3 |-> 4 * MCPitch[l]]

GuideSets ==
  {<<B(0, 0, 12, 0, 12)>>, <<B(0, 0, 12, 0, 4)>>, <<B(1, 0, 12, 2, 10)>>, <<B(1, 0, 12, 6, 6)>>,
   <<B(0, 0, 12, 0, 6), B(0, 6, 12, 4, 12)>>,
   <<B(0, 0, 6, 0, 8), B(1, 0, 12, 2, 6)>>, <<B(0, 0, 12, 0, 12), B(2, 0, 12, 0, 12)>>,
   <<B(0, 4, 8, 0, 12), B(1, 0, 12, 2, 10), B(2, 0, 12, 0, 12)>>,
   <<B(1, 0, 6, 2, 6), B(1, 8, 12, 6, 10), B(2, 0, 12, 2, 10)>>}

\* pins of one point or two, near each other or apart, and of two layers
PinPool ==
  {<<B(0, 1, 1, 0, 0)>>, <<B(0, 0, 0, 3, 3)>>, <<B(1, 6, 6, 6, 6)>>, <<B(0, 12, 12, 10, 10)>>,
   <<B(1, 0, 0, 2, 2), B(0, 4, 4, 6, 6)>>, <<B(1, 12, 12, 9, 9)>>}
PinSets ==
  {s \in PinPool \X PinPool : s[1] # s[2]} \cup
  {<<<<B(0, 0, 0, 2, 2)>>, <<B(0, 8, 8, 9, 9)>>, <<B(2, 12, 12, 10, 10)>>>>,
   <<<<B(0, 4, 4, 2, 2)>>, <<B(0, 4, 4, 3, 3)>>, <<B(0, 5, 5, 2, 2)>>>>}

MCNetChoices ==
  {[guides |-> g, vios |-> [i \in DOMAIN g |-> 0], pins |-> p] : g \in GuideSets, p \in PinSets}
=============================================================================
