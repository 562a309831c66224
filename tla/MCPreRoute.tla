----------------------------- MODULE MCPreRoute -----------------------------
(***************************************************************************)
(* A net has two guides out of a pool, which may overlap or leave pins out *)
(* or have no grid point, one or two pins, and violations of an earlier    *)
(* iteration or none.                                                      *)
(***************************************************************************)
EXTENDS PreRoute, MCLayers

\* two of the pins have poor vias only
MCPoorVia == {[layer |-> 0, track |-> 0, cp |-> 0], [layer |-> 0, track |-> 3, cp |-> 2]}

\* the last two have no track and no cross point in them
GuidePool ==
  <<B(0, 0, 4, 0, 6), B(0, 3, 9, 5, 9), B(0, 8, 12, 6, 12), B(1, 0, 6, 2, 6), B(1, 7, 12, 6, 10),
    B(1, 2, 10, 2, 3), B(2, 0, 12, 6, 12), B(2, 5, 7, 0, 11), B(3, 4, 12, 8, 12),
    B(1, 0, 6, 11, 12), B(1, 1, 3, 2, 6)>>
PinPool == {<<B(0, 0, 0, 2, 2)>>, <<B(0, 12, 12, 10, 10)>>, <<B(2, 12, 12, 10, 10)>>, <<B(0, 1, 2, 8, 9)>>}

CONSTANTS GuideCounts, PinCounts, VioCounts

MCNetChoices ==
  LET guideSets == UNION {kSubset(n, DOMAIN GuidePool) : n \in GuideCounts}
      pinSets == UNION {kSubset(n, PinPool) : n \in PinCounts}
      seqOf(S) == LET s == Ascending(S) IN [i \in DOMAIN s |-> GuidePool[s[i]]]
  IN  {[guides |-> seqOf(g), vios |-> [i \in 1 .. Cardinality(g) |-> v], pins |-> SetToSeq(p)] :
         g \in guideSets, p \in pinSets, v \in VioCounts}
=============================================================================
