------------------------------- MODULE MCLayers -------------------------------
(***************************************************************************)
(* Four layers over a square of 12 by 12. Layers 1 and 2 are crossed by    *)
(* the tracks of two others, of different pitches, so that not every track *)
(* and cross point has a via.                                              *)
(***************************************************************************)
EXTENDS LayerList, TLC

MCTrackIsX == {0, 2}
MCNumTracks == 0 :> 4 @@ 1 :> 3 @@ 2 :> 3 @@ 3 :> 2
MCNumCrossPoints == 0 :> 3 @@ 1 :> 5 @@ 2 :> 3 @@ 3 :> 3
From0(s) == [i \in 0 .. Len(s) - 1 |-> s[i + 1]]
MCTrackLoc ==
  LET map == 0 :> From0(<<0, 4, 8, 12>>) @@ 1 :> From0(<<2, 6, 10>>)
             @@ 2 :> From0(<<0, 6, 12>>) @@ 3 :> From0(<<2, 10>>)
  IN  map
MCCrossPointLoc ==
  LET map == 0 :> From0(<<2, 6, 10>>) @@ 1 :> From0(<<0, 4, 6, 8, 12>>)
             @@ 2 :> From0(<<2, 6, 10>>) @@ 3 :> From0(<<0, 6, 12>>)
  IN  map
MCUpperTrack ==
  LET map == 0 :> From0(<<0, 1, 2>>) @@ 1 :> From0(<<0, -1, 1, -1, 2>>)
             @@ 2 :> From0(<<0, -1, 1>>) @@ 3 :> From0(<<-1, -1, -1>>)
  IN  map
MCUpperCrossPoint ==
  LET map == 0 :> From0(<<0, 1, 3, 4>>) @@ 1 :> From0(<<0, 1, 2>>)
             @@ 2 :> From0(<<0, 1, 2>>) @@ 3 :> From0(<<-1, -1>>)
  IN  map
MCPitch == 0 :> 4 @@ 1 :> 4 @@ 2 :> 6 @@ 3 :> 8
MCForbidMargin == [l \in 0 .. 3 |-> 1]

B(l, x1, x2, y1, y2) == Box(l, Intvl(x1, x2), Intvl(y1, y2))

\* The boxes of the grid, and of these the ones that getViaBoxBetween may
\* find for a layer and the one above: each box of vias made of them is the
\* projection of the other (the consistency that LayerList::isValid asks of
\* a ViaBox, LayerList.cpp:117).
BoxesOf(l) ==
  LET ranges(n) == {Intvl(r[1], r[2]) : r \in {w \in (0 .. n - 1) \X (0 .. n - 1) : w[1] <= w[2]}}
  IN  {GridBox(l, t, c) : t \in ranges(NumTracks[l]), c \in ranges(NumCrossPoints[l])}

ASSUME ViaBoxesConsistent ==
  \A l \in 0 .. LayerNum - 2 : \A common \in BoxesOf(l) :
    LET v == ViaBoxIn(common)
    IN  isValidViaBox(v) => getUpperBox(v.lower) = v.upper /\ getLowerBox(v.upper) = v.lower
=============================================================================
