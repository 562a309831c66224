------------------------------ MODULE MCRouter ------------------------------
(***************************************************************************)
(* Two nets of several pins that compete for cells, with extensions of one *)
(* and of two segments, and a net of one pin. Cell 8 is near fixed metal.  *)
(* There are vias on 1 and 9; the wires they are too close to depend on    *)
(* their types.                                                            *)
(***************************************************************************)
EXTENDS Router, TLC

MCCells == 1 .. 9
MCBlocked == {8}
MCVias == {1, 9}
MCNear ==
  "default" :> ({<<c, c>> : c \in MCCells} \cup {<<5, 9>>, <<9, 5>>})
  @@ "rotated" :> {<<1, 1>>, <<9, 9>>, <<2, 9>>, <<4, 1>>}

R(tree, cand, exts) == [tree |-> tree, cand |-> cand, exts |-> exts]

MCRoutes ==
  "a" :> { R({1, 2}, {2}, {{{2, 3}}}), R({5}, {}, {}) }
  @@ "b" :> { R({3, 4, 8}, {}, {}), R({6, 9}, {6}, {{{5, 6}, {6, 7}}, {{3, 4, 5, 6}}}),
              R({}, {}, {}) }
  @@ "s" :> {}

MCGuideClash == {}
=============================================================================
