----------------------------- MODULE DesignRules ------------------------------
(***************************************************************************)
(* Spacing rules and the tables LayerList::initViaConfLUT makes of them:   *)
(* which grid points near a via hold no wire and no via of another net. A  *)
(* table is the set of its true entries, offsets from the via.             *)
(*                                                                         *)
(* Parallel-run spacing does not depend on widths here; a location is an   *)
(* even number of units where half of a width is needed.                   *)
(***************************************************************************)
EXTENDS LayerList

CONSTANTS
  Width, Space,                    \* of each layer: wires, parallel-run spacing
  EolSpace, EolWidth, EolWithin,   \* of each layer: end-of-line spacing
  CutSpace,                        \* of each cut layer
  ViaTypes, DefaultType,
  ViaMetal,    \* (cut layer, via type) -> [bot, cut, top], boxes around the via
  wireRange, viaBotWire, viaTopWire, wireTopReach, wireBotReach,
  allViaMetal, allViaBotVia        \* the tables, see the end of the module

ASSUME DesignRulesAssumption == DefaultType \in ViaTypes

Cuts == 0 .. LayerNum - 2

isEolViolation(l, space, width, within) ==
  space < EolSpace[l] /\ width < EolWidth[l] /\ within < EolWithin[l]

Length(i) == i.high - i.low
Shift(i, d) == Intvl(i.low + d, i.high + d)
\* a box moved by d across and e along the tracks of layer l
ShiftBy(l, box, d, e) == BoxAt(l, Shift(Across(l, box), d), Shift(Along(l, box), e))

L2Less(a, b, space) ==
  Gap(a.x, b.x) * Gap(a.x, b.x) + Gap(a.y, b.y) * Gap(a.y, b.y) < space * space

\* two shapes of metal on a layer that break a rule
MetalConflict(l, a, b) ==
  \/ L2Less(a, b, Space[l])
  \/ isEolViolation(l, Gap(a.y, b.y), Lesser(Length(a.x), Length(b.x)), Gap(a.x, b.x))
  \/ isEolViolation(l, Gap(a.x, b.x), Lesser(Length(a.y), Length(b.y)), Gap(a.y, b.y))

Loc(l, c) == CrossPointLoc[l][c]
Reach(l) == Greater(Space[l], Greater(EolSpace[l], EolWithin[l]))

\* by how many cross points the ends of two wires on a track must differ
wireEndPointSpace(l) ==
  (IF Width[l] < EolWidth[l] /\ EolSpace[l] > 0 THEN EolSpace[l] ELSE Space[l]) + Width[l]
CrossPointsNear(l, c) ==
  {d \in Range0(NumCrossPoints[l]) :
     Loc(l, c) - Loc(l, d) < wireEndPointSpace(l) /\ Loc(l, d) - Loc(l, c) < wireEndPointSpace(l)}
initWireRange ==
  [l \in GridLayers |-> [c \in Range0(NumCrossPoints[l]) |->
     Intvl(Min(CrossPointsNear(l, c)) - c, Max(CrossPointsNear(l, c)) - c)]]

-----------------------------------------------------------------------------
(* Vias and wires                                                          *)

halfWidth(l) == CeilDiv(Width[l], 2)

viaWireXSize(l, metal) ==
  LET far(d) == CeilDiv(Reach(l) + halfWidth(l) + d, Pitch[l]) - 1
  IN  Greater(far(Across(l, metal).high), far(-Across(l, metal).low))

viaWireYSize(l, metal, c) ==
  LET margin == Reach(l) + halfWidth(l) - 1
      r == rangeSearchCrossPoint(l, Intvl(Loc(l, c) + Along(l, metal).low - margin,
                                          Loc(l, c) + Along(l, metal).high + margin))
  IN  Greater(c - r.low, r.high - c)

\* from a via's metal to a wire that is d away, in a direction
Clear(l, d, extent) ==
  IF d = 0 THEN 0
  ELSE Greater(0, IF d < 0 THEN extent.low - d - halfWidth(l) ELSE d - extent.high - halfWidth(l))

ViaWireConflict(l, metal, across, along) ==
  \/ across * across + along * along < Space[l] * Space[l]
  \/ isEolViolation(l, across, Length(Along(l, metal)), along)
  \/ isEolViolation(l, along, Length(Across(l, metal)), across)

\* initViaWire: for a via at each cross point, <<tracks, cross points>> to a wire
viaWire(l, metal) ==
  [c \in Range0(NumCrossPoints[l]) |->
     LET xSize == viaWireXSize(l, metal)
         ySize == viaWireYSize(l, metal, c)
     IN  {o \in (-xSize .. xSize) \X (-ySize .. ySize) :
            /\ c + o[2] \in Range0(NumCrossPoints[l])
            /\ ViaWireConflict(l, metal, Clear(l, o[1] * Pitch[l], Across(l, metal)),
                 Clear(l, Loc(l, c + o[2]) - Loc(l, c), Along(l, metal)))}]

initViaBotWire == [t \in Cuts |-> [v \in ViaTypes |-> viaWire(t, ViaMetal[t][v].bot)]]
initViaTopWire == [t \in Cuts |-> [v \in ViaTypes |-> viaWire(t + 1, ViaMetal[t][v].top)]]

\* initOppLUT: the same table seen from the other side
Opposite(table) ==
  [c \in DOMAIN table |->
     UNION {{<<-o[1], -o[2]>> : o \in {p \in table[b] : b + p[2] = c}} : b \in DOMAIN table}]

\* half the size of the merged tables of all via types seen from a wire
XReach(tables) ==
  Max(UNION {{Greater(o[1], -o[1]) : o \in tables[v][c]} :
               <<v, c>> \in ViaTypes \X DOMAIN tables[DefaultType]})
YReach(tables) ==
  LET seen == [v \in ViaTypes |-> Opposite(tables[v])]
  IN  [c \in DOMAIN tables[DefaultType] |->
         Max(UNION {{Greater(o[2], -o[2]) : o \in seen[v][c]} : v \in ViaTypes})]

initWireTopReach == [l \in Cuts |-> [x |-> XReach(viaBotWire[l]), y |-> YReach(viaBotWire[l])]]
initWireBotReach == [l \in 1 .. LayerNum - 1 |->
                   [x |-> XReach(viaTopWire[l - 1]), y |-> YReach(viaTopWire[l - 1])]]

-----------------------------------------------------------------------------
(* Vias and vias                                                           *)

\* how far apart two shapes can be and still be in conflict, in steps of a pitch
Steps(space, pitch, i, j) ==
  CeilDiv(space + Greater(i.high - j.low, j.high - i.low), pitch) - 1

\* initSameLayerViaConfLUT, as <<lower tracks, upper tracks>> from v to w
sameLayerConflicts(t, v, w) ==
  LET a == ViaMetal[t][v]
      b == ViaMetal[t][w]
      size(l, ext(_)) ==
        Max({Steps(CutSpace[t], Pitch[l], ext(a.cut), ext(b.cut)),
             Steps(Reach(t), Pitch[l], ext(a.bot), ext(b.bot)),
             Steps(Reach(t + 1), Pitch[l], ext(a.top), ext(b.top))})
      xSize == size(t, LAMBDA box : Across(t, box))
      ySize == size(t + 1, LAMBDA box : Along(t, box))
      moved(box, o) == ShiftBy(t, box, o[1] * Pitch[t], o[2] * Pitch[t + 1])
  IN  {o \in (-xSize .. xSize) \X (-ySize .. ySize) :
         \/ L2Less(moved(b.cut, o), a.cut, CutSpace[t])
         \/ MetalConflict(t, moved(b.bot, o), a.bot)
         \/ MetalConflict(t + 1, moved(b.top, o), a.top)}

initAllViaMetal == [t \in Cuts |-> [v \in ViaTypes |-> [w \in ViaTypes |-> sameLayerConflicts(t, v, w)]]]

\* initDiffLayerViaConfLUT: for a via of type v above layer l at each cross
\* point, <<tracks, cross points>> to a via of type w below it
diffLayerConflicts(l, v, w) ==
  LET bot == ViaMetal[l][v].bot
      top == ViaMetal[l - 1][w].top
      xSize == Steps(Reach(l), Pitch[l], Across(l, bot), Across(l, top))
      range(c) == rangeSearchCrossPoint(l,
                    Intvl(Loc(l, c) - Along(l, top).high + Along(l, bot).low - Reach(l) + 1,
                          Loc(l, c) + Along(l, bot).high - Along(l, top).low + Reach(l) - 1))
      ySize(c) == Greater(c - range(c).low, range(c).high - c)
  IN  [c \in Range0(NumCrossPoints[l]) |->
         {o \in (-xSize .. xSize) \X (-ySize(c) .. ySize(c)) :
            /\ c + o[2] \in Range0(NumCrossPoints[l])
            /\ MetalConflict(l, bot,
                 ShiftBy(l, top, o[1] * Pitch[l], Loc(l, c + o[2]) - Loc(l, c)))}]

initAllViaBotVia ==
  [l \in 1 .. LayerNum - 2 |-> [v \in ViaTypes |-> [w \in ViaTypes |-> diffLayerConflicts(l, v, w)]]]

ASSUME TablesAssumption ==
  /\ wireRange = initWireRange
  /\ viaBotWire = initViaBotWire /\ viaTopWire = initViaTopWire
  /\ wireTopReach = initWireTopReach /\ wireBotReach = initWireBotReach
  /\ allViaMetal = initAllViaMetal /\ allViaBotVia = initAllViaBotVia
=============================================================================
