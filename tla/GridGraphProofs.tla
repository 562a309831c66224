-------------------------- MODULE GridGraphProofs --------------------------
(***************************************************************************)
(* Proofs about the grid graph of a net, for any routing grid, any nets    *)
(* and any prices: how vertices are shared out among the pins, that        *)
(* skipping vertices loses no connection, and that flags are exact.        *)
(***************************************************************************)
EXTENDS GridGraph, TrackCheckProofs

-----------------------------------------------------------------------------
(* Vertices of pins: the inductive invariant                               *)

\* the vertices of a pin
Own(owner, p) == {v \in DOMAIN owner : owner[v] = p}

\* types; a pin has at least one box
PinType ==
  /\ dbNet.pins \in Seq(Seq(LocBox) \ {<<>>})
  /\ pin \in Nat \ {0}
  /\ vertexToPin \in [DOMAIN vertexToPin -> Pins]
  /\ pinToVertex \in [Pins -> SUBSET DOMAIN vertexToPin]
  /\ pinToOriVertex \in [Pins -> SUBSET DOMAIN vertexToPin]

\* a net that pre-route passes has access boxes for each pin
AccessOfPins ==
  phase = "check" \/ (phase \in {"checked", "done"} /\ status = "SUCC_NORMAL") =>
    Len(access) = Len(dbNet.pins)

\* until pins are mended they have the vertices that pinToVertex tells, and
\* none before their turn
Shared ==
  stage \notin {"fix", "built"} =>
    /\ \A p \in Pins : Own(vertexToPin, p) = pinToVertex[p]
    /\ stage = "pins" => \A p \in Pins : p >= pin => pinToVertex[p] = {}

\* a pin that has been mended has the only vertex it was given, or none if
\* all that it could have are others' only ones
Mended ==
  stage \in {"fix", "built"} =>
    /\ \A p \in Pins :
         \/ Own(vertexToPin, p) = pinToVertex[p]
         \/ p < pin /\ pinToVertex[p] = {} /\ \E v \in Own(vertexToPin, p) : Own(vertexToPin, p) = {v}
    /\ \A p \in Pins : p < pin /\ Own(vertexToPin, p) = {} => \A v \in pinToOriVertex[p] : ~CanGive(v)
    /\ stage = "built" => pin > Len(dbNet.pins)

\* together
PinsInv == PinType /\ AccessOfPins /\ Shared /\ Mended

-----------------------------------------------------------------------------
(* Its proof                                                               *)

\* the length of a function on 1 .. n
LEMMA LenOfFunction ==
  ASSUME NEW n \in Nat, NEW f, f = [i \in 1 .. n |-> f[i]]
  PROVE  Len(f) = n
  <1> DEFINE S == {f[i] : i \in 1 .. n}
  <1>1. f \in [1 .. n -> S]
    <2>1. \A i \in 1 .. n : f[i] \in S
      OBVIOUS
    <2> HIDE DEF S
    <2> QED BY <2>1
  <1> HIDE DEF S
  <1> QED BY <1>1

\* no pin has a vertex at first
LEMMA InitPinsInv == GraphInit => PinsInv
  <1> SUFFICES ASSUME GraphInit PROVE PinsInv
    OBVIOUS
  <1> USE DEF GraphInit, Init
  <1>1. PICK net \in NetChoices : dbNet = [guides |-> sliceRouteGuides(net.guides),
                                           vios |-> net.vios, pins |-> net.pins]
    OBVIOUS
  <1>2. dbNet.pins \in Seq(Seq(LocBox) \ {<<>>})
    BY <1>1, NetAssumption
  <1>3. DOMAIN vertexToPin = {}
    OBVIOUS
  <1>4. PinType
    <2>1. vertexToPin \in [DOMAIN vertexToPin -> Pins]
      OBVIOUS
    <2> QED BY <1>2, <2>1 DEF PinType
  <1> QED BY <1>3, <1>4 DEF PinsInv, AccessOfPins, Shared, Mended, Own

\* steps elsewhere
LEMMA SameMended ==
  ASSUME Mended, UNCHANGED <<dbNet, stage, pin, vertexToPin, pinToVertex, pinToOriVertex>>
  PROVE  Mended'
  <1>1. Pins' = Pins
    BY DEF Pins
  <1>2. \A v : CanGive(v)' <=> CanGive(v)
    BY DEF CanGive
  <1> QED BY <1>1, <1>2 DEF Mended

\* pre-route does not touch the graph
LEMMA PreRoutePinsInv ==
  ASSUME PinsInv, Next, UNCHANGED graphVars
  PROVE  PinsInv'
  <1> USE DEF PinsInv
  <1>1. dbNet' = dbNet
    BY DEF Next, Expand, expandGuidesToCoverPins, initGridBoxes, Check, Retry, Finish, netVars
  <1>2. UNCHANGED <<stage, pin, vertexToPin, pinToVertex, pinToOriVertex>>
    BY DEF graphVars, pinVars
  <1>3. PinType'
    BY <1>1, <1>2 DEF PinType, Pins
  <1>4. Shared'
    BY <1>1, <1>2 DEF Shared, Pins, Own
  <1>5. Mended'
    BY <1>1, <1>2, SameMended
  <1>6. AccessOfPins'
    <2> USE DEF AccessOfPins
    <2>1. CASE Expand
      BY <2>1 DEF Expand
    <2>2. CASE expandGuidesToCoverPins
      BY <2>2 DEF expandGuidesToCoverPins
    <2>3. CASE initGridBoxes
      <3>1. Pins = 1 .. Len(dbNet.pins) /\ Len(dbNet.pins) \in Nat
        BY DEF PinType, Pins
      <3>2. access' = [p \in Pins |-> getGridPinAccessBoxes(dbNet.pins[p])]
        BY <2>3 DEF initGridBoxes
      <3>3. Len(access') = Len(dbNet.pins)
        <4> HIDE DEF PinsInv, AccessOfPins
        <4>1. access' = [i \in 1 .. Len(dbNet.pins) |-> access'[i]]
          BY <3>1, <3>2
        <4> QED BY <3>1, <4>1, LenOfFunction
      <3> QED BY <1>1, <3>3
    <2>4. CASE Check
      BY <1>1, <2>4 DEF Check, netVars
    <2>5. CASE Retry
      BY <2>5 DEF Retry
    <2>6. CASE Finish
      BY <1>1, <2>6 DEF Finish, netVars
    <2> QED BY <2>1, <2>2, <2>3, <2>4, <2>5, <2>6 DEF Next
  <1> QED BY <1>3, <1>4, <1>5, <1>6

\* the vertices that a pin claims go from others to it, or stay
LEMMA UpdatePinsInv ==
  ASSUME PinsInv, phase = "done", status = "SUCC_NORMAL", UpdatePinVertices, UNCHANGED vars
  PROVE  PinsInv'
  <1> DEFINE claimed == UNION {VerticesOf(pin, a) : a \in DOMAIN access[pin]}
             cost(q, v) == getPinPointCost(dbNet.pins[q], v)
             won == {v \in claimed : v \in DOMAIN vertexToPin => cost(vertexToPin[v], v) > cost(pin, v)}
  <1>1. stage = "pins" /\ stage' = stage /\ pin' = pin + 1
    BY DEF UpdatePinVertices
  <1>2. /\ vertexToPin' = [v \in DOMAIN vertexToPin \cup claimed |-> IF v \in won THEN pin ELSE vertexToPin[v]]
        /\ pinToVertex' = [q \in Pins |-> IF q = pin THEN won ELSE Erased(q, won)]
        /\ pinToOriVertex' = [pinToOriVertex EXCEPT ![pin] = claimed]
    BY DEF UpdatePinVertices
  <1>3. won \subseteq claimed /\ \A v \in claimed : v \notin DOMAIN vertexToPin => v \in won
    OBVIOUS
  <1> HIDE DEF claimed, won
  <1>4. UNCHANGED <<dbNet, phase, status, access>>
    BY DEF vars, netVars
  <1>5. pin \in Pins /\ pin \in Nat
    BY <1>1 DEF PinsInv, PinType, AccessOfPins, Pins, UpdatePinVertices
  <1>6. PinType /\ Pins' = Pins
    BY <1>4 DEF PinsInv, Pins
  <1>7. DOMAIN vertexToPin' = DOMAIN vertexToPin \cup claimed
    BY <1>2
  <1>8. \A q \in Pins : pinToVertex'[q] = IF q = pin THEN won ELSE pinToVertex[q] \ won
    BY <1>2 DEF Erased
  <1>9. PinType'
    <2>1. vertexToPin' \in [DOMAIN vertexToPin' -> Pins]
      BY <1>2, <1>3, <1>5, <1>6, <1>7 DEF PinType
    <2>2. pinToVertex' \in [Pins -> SUBSET DOMAIN vertexToPin']
      <3>1. \A q \in Pins : pinToVertex'[q] \in SUBSET DOMAIN vertexToPin'
        BY <1>3, <1>6, <1>7, <1>8 DEF PinType
      <3> QED BY <1>2, <3>1
    <2>3. pinToOriVertex' \in [Pins -> SUBSET DOMAIN vertexToPin']
      BY <1>2, <1>6, <1>7 DEF PinType
    <2>4. dbNet'.pins \in Seq(Seq(LocBox) \ {<<>>})
      BY <1>4, <1>6 DEF PinType
    <2> QED BY <1>1, <1>5, <1>6, <2>1, <2>2, <2>3, <2>4 DEF PinType
  <1>10. Shared'
    <2>1. ASSUME NEW p \in Pins PROVE Own(vertexToPin', p) = pinToVertex'[p]
      <3>1. Own(vertexToPin, p) = pinToVertex[p] /\ (p = pin => Own(vertexToPin, p) = {})
        <4>1. Own(vertexToPin, p) = pinToVertex[p] /\ (p >= pin => pinToVertex[p] = {})
          BY <1>1 DEF PinsInv, Shared
        <4> QED BY <1>5, <4>1
      <3>2. \A v \in DOMAIN vertexToPin' : vertexToPin'[v] = p <=> IF p = pin THEN v \in won ELSE v \in Own(vertexToPin, p) /\ v \notin won
        BY <1>2, <1>3, <1>7, <3>1 DEF Own
      <3>3. CASE p = pin
        BY <1>3, <1>7, <1>8, <3>2, <3>3 DEF Own
      <3>4. CASE p # pin
        BY <1>3, <1>7, <1>8, <3>1, <3>2, <3>4 DEF Own
      <3> QED BY <3>3, <3>4
    <2>2. ASSUME NEW p \in Pins, p >= pin + 1 PROVE pinToVertex'[p] = {}
      <3>1. p \in Nat /\ p > pin
        BY <1>5, <1>6, <2>2 DEF PinType, Pins
      <3>2. pinToVertex[p] = {}
        BY <1>1, <1>5, <3>1 DEF PinsInv, Shared
      <3> QED BY <1>5, <1>8, <3>1, <3>2
    <2> QED BY <1>1, <1>6, <2>1, <2>2 DEF Shared
  <1>11. Mended' /\ AccessOfPins'
    BY <1>1, <1>4 DEF Mended, AccessOfPins, PinsInv
  <1> QED BY <1>9, <1>10, <1>11 DEF PinsInv

\* the actions that leave the vertices of the pins alone
LEMMA EdgesPinsInv ==
  ASSUME PinsInv, phase = "done", status = "SUCC_NORMAL", UNCHANGED vars,
         ConnectGuides \/ addWrongWayConn \/ ConnectTracks \/ setMinAreaFlags \/ addOutofPinPenalty \/ Built
  PROVE  PinsInv'
  <1>1. UNCHANGED <<vertexToPin, pinToVertex, pinToOriVertex, dbNet, phase, status, access>>
    BY DEF ConnectGuides, addWrongWayConn, ConnectTracks, setMinAreaFlags, addOutofPinPenalty, Built, pinVars, vars, netVars
  <1>2. \/ stage \notin {"fix", "built"} /\ stage' \notin {"pins", "fix", "built"} /\ pin' \in {pin, 1}
        \/ stage \notin {"fix", "built"} /\ stage' = "fix" /\ pin' = 1
        \/ stage = "fix" /\ stage' = "built" /\ pin' = pin /\ pin > Len(access)
    BY DEF ConnectGuides, addWrongWayConn, ConnectTracks, setMinAreaFlags, addOutofPinPenalty, Built
  <1>3. PinType' /\ Pins' = Pins /\ Pins \subseteq Nat \ {0}
    BY <1>1, <1>2 DEF PinsInv, PinType, Pins
  <1>4. Shared'
    BY <1>1, <1>2, <1>3 DEF PinsInv, Shared, Own
  <1>5. AccessOfPins'
    BY <1>1 DEF PinsInv, AccessOfPins
  <1>6. Mended'
    <2>1. CASE stage' = "fix"
      BY <1>1, <1>2, <1>3, <2>1 DEF PinsInv, Shared, Mended, Own
    <2>2. CASE stage' = "built"
      BY <1>1, <1>2, <1>3, <2>2 DEF PinsInv, Mended, AccessOfPins, Own, CanGive
    <2> QED BY <1>2, <2>1, <2>2 DEF Mended
  <1> QED BY <1>3, <1>4, <1>5, <1>6 DEF PinsInv

\* a pin is given a vertex of one that has others
Gives(v) ==
  /\ v \in DOMAIN vertexToPin /\ pin \in Pins
  /\ pinToVertex[pin] = {} /\ v \in pinToOriVertex[pin] /\ CanGive(v)
  /\ vertexToPin' = [vertexToPin EXCEPT ![v] = pin]
  /\ pinToVertex' = [pinToVertex EXCEPT ![vertexToPin[v]] = pinToVertex[vertexToPin[v]] \ {v}]

\* a pin is given a vertex, or stays as it is
LEMMA FixSteps ==
  ASSUME PinsInv, phase = "done", status = "SUCC_NORMAL", UNCHANGED vars, fixDisconnectedPin
  PROVE  /\ stage = "fix" /\ stage' = "fix" /\ pin \in Pins /\ pin' = pin + 1
         /\ UNCHANGED <<dbNet, phase, status, access, pinToOriVertex>>
         /\ \/ /\ UNCHANGED <<vertexToPin, pinToVertex>>
               /\ pinToVertex[pin] # {} \/ \A v \in pinToOriVertex[pin] : ~CanGive(v)
            \/ \E v \in DOMAIN vertexToPin : Gives(v)
  <1>1. pin \in Pins
    BY DEF PinsInv, PinType, AccessOfPins, Pins, fixDisconnectedPin
  <1>2. UNCHANGED <<dbNet, phase, status, access>>
    BY DEF vars, netVars
  <1> DEFINE given == {v \in pinToOriVertex[pin] : CanGive(v)}
  <1>3. CASE pinToVertex[pin] # {} \/ given = {}
    <2>1. UNCHANGED pinVars
      BY <1>3 DEF fixDisconnectedPin
    <2> QED BY <1>1, <1>2, <1>3, <2>1 DEF fixDisconnectedPin, pinVars
  <1>4. CASE pinToVertex[pin] = {} /\ given # {}
    <2>1. PICK v \in given :
            /\ vertexToPin' = [vertexToPin EXCEPT ![v] = pin]
            /\ pinToVertex' = [pinToVertex EXCEPT ![vertexToPin[v]] = Erased(vertexToPin[v], {v})]
            /\ UNCHANGED pinToOriVertex
      BY <1>4 DEF fixDisconnectedPin
    <2>2. v \in DOMAIN vertexToPin
      BY <1>1, <2>1 DEF PinsInv, PinType
    <2>3. Gives(v)
      BY <1>1, <1>4, <2>1, <2>2 DEF Gives, Erased
    <2> QED BY <1>1, <1>2, <2>1, <2>2, <2>3 DEF fixDisconnectedPin
  <1> QED BY <1>3, <1>4

\* what a vertex that is given changes: the pin has it alone, the one that
\* gives it keeps another, and the others all they have
LEMMA GivesOne ==
  ASSUME PinsInv, stage = "fix", NEW v \in DOMAIN vertexToPin, Gives(v)
  PROVE  LET q == vertexToPin[v]
         IN  /\ DOMAIN vertexToPin' = DOMAIN vertexToPin
             /\ q \in Pins /\ q # pin /\ Own(vertexToPin, q) = pinToVertex[q] /\ Own(vertexToPin, pin) = {}
             /\ Own(vertexToPin', pin) = {v} /\ pinToVertex'[pin] = {}
             /\ Own(vertexToPin', q) = Own(vertexToPin, q) \ {v} /\ pinToVertex'[q] = Own(vertexToPin, q) \ {v} /\ Own(vertexToPin', q) # {}
             /\ \A p \in Pins \ {pin, q} : Own(vertexToPin', p) = Own(vertexToPin, p) /\ pinToVertex'[p] = pinToVertex[p]
  <1> DEFINE q == vertexToPin[v]
  <1>1. PinType /\ q \in Pins /\ pin \in Pins
    BY DEF PinsInv, PinType, Gives
  <1>2. PICK u, w \in pinToVertex[q] : u # w
    BY DEF Gives, CanGive
  <1>3. q # pin
    BY <1>2 DEF Gives
  <1>4. Own(vertexToPin, q) = pinToVertex[q] /\ Own(vertexToPin, pin) = {}
    <2>1. ~ (pin < pin)
      BY <1>1 DEF PinType
    <2> QED BY <1>1, <1>2, <2>1 DEF PinsInv, Mended, Gives
  <1>5. DOMAIN vertexToPin' = DOMAIN vertexToPin /\ vertexToPin'[v] = pin
        /\ \A x \in DOMAIN vertexToPin : x # v => vertexToPin'[x] = vertexToPin[x]
    BY <1>1 DEF Gives, PinType
  <1>6. pinToVertex'[q] = pinToVertex[q] \ {v} /\ \A p \in Pins : p # q => pinToVertex'[p] = pinToVertex[p]
    BY <1>1 DEF Gives, PinType
  <1>7. Own(vertexToPin', pin) = {v}
    BY <1>4, <1>5 DEF Own
  <1>8. Own(vertexToPin', q) = Own(vertexToPin, q) \ {v}
    BY <1>3, <1>5 DEF Own
  <1>9. \A p \in Pins \ {pin, q} : Own(vertexToPin', p) = Own(vertexToPin, p)
    BY <1>5 DEF Own
  <1>10. pinToVertex'[pin] = {}
    BY <1>1, <1>3, <1>6 DEF Gives
  <1>11. Own(vertexToPin', q) # {}
    BY <1>2, <1>4, <1>8
  <1> QED BY <1>1, <1>3, <1>4, <1>5, <1>6, <1>7, <1>8, <1>9, <1>10, <1>11

\* mending a pin keeps it
LEMMA FixPinsInv ==
  ASSUME PinsInv, phase = "done", status = "SUCC_NORMAL", UNCHANGED vars, fixDisconnectedPin
  PROVE  PinsInv'
  <1>1. /\ stage = "fix" /\ stage' = "fix" /\ pin \in Pins /\ pin' = pin + 1
        /\ UNCHANGED <<dbNet, phase, status, access, pinToOriVertex>>
    BY FixSteps
  <1>2. Pins' = Pins /\ Pins \subseteq Nat \ {0}
    BY <1>1 DEF PinsInv, PinType, Pins
  <1>3. Shared' /\ AccessOfPins'
    BY <1>1 DEF PinsInv, Shared, AccessOfPins
  <1>4. CASE UNCHANGED <<vertexToPin, pinToVertex>>
             /\ (pinToVertex[pin] # {} \/ \A v \in pinToOriVertex[pin] : ~CanGive(v))
    <2>1. PinType'
      BY <1>1, <1>2, <1>4 DEF PinsInv, PinType
    <2>2. \A p \in Pins : Own(vertexToPin', p) = Own(vertexToPin, p)
      BY <1>4 DEF Own
    <2>3. \A p \in Pins : \/ Own(vertexToPin', p) = pinToVertex'[p]
                          \/ p < pin' /\ pinToVertex'[p] = {} /\ \E v \in Own(vertexToPin', p) : Own(vertexToPin', p) = {v}
      BY <1>1, <1>2, <1>4, <2>2 DEF PinsInv, Mended
    <2>4. ASSUME NEW p \in Pins, p < pin', Own(vertexToPin', p) = {}, NEW v \in pinToOriVertex'[p] PROVE ~CanGive(v)'
      <3>1. p < pin \/ p = pin
        BY <1>1, <1>2, <2>4
      <3>2. pinToVertex[pin] # {} => Own(vertexToPin, pin) # {}
        BY <1>1 DEF PinsInv, Mended
      <3>3. ~CanGive(v)
        BY <1>1, <1>4, <2>2, <2>4, <3>1, <3>2 DEF PinsInv, Mended
      <3> QED BY <1>4, <3>3 DEF CanGive
    <2>5. Mended'
      BY <1>1, <1>2, <2>3, <2>4 DEF Mended
    <2> QED BY <1>3, <2>1, <2>5 DEF PinsInv
  <1>5. ASSUME NEW v \in DOMAIN vertexToPin, Gives(v) PROVE PinsInv'
    <2> DEFINE q == vertexToPin[v]
    <2>1. /\ DOMAIN vertexToPin' = DOMAIN vertexToPin
          /\ q \in Pins /\ q # pin /\ Own(vertexToPin, q) = pinToVertex[q] /\ Own(vertexToPin, pin) = {}
          /\ Own(vertexToPin', pin) = {v} /\ pinToVertex'[pin] = {}
          /\ Own(vertexToPin', q) = Own(vertexToPin, q) \ {v} /\ pinToVertex'[q] = Own(vertexToPin, q) \ {v} /\ Own(vertexToPin', q) # {}
          /\ \A p \in Pins \ {pin, q} : Own(vertexToPin', p) = Own(vertexToPin, p) /\ pinToVertex'[p] = pinToVertex[p]
      BY <1>1, <1>5, GivesOne
    <2>2. PinType'
      <3>1. vertexToPin' \in [DOMAIN vertexToPin' -> Pins]
        BY <1>1, <1>5, <2>1 DEF Gives, PinsInv, PinType
      <3>2. pinToVertex' \in [Pins -> SUBSET DOMAIN vertexToPin']
        BY <1>5, <2>1 DEF Gives, PinsInv, PinType
      <3> QED BY <1>1, <1>2, <2>1, <3>1, <3>2 DEF PinsInv, PinType
    <2>3. \A p \in Pins : \/ Own(vertexToPin', p) = pinToVertex'[p]
                          \/ p < pin' /\ pinToVertex'[p] = {} /\ \E x \in Own(vertexToPin', p) : Own(vertexToPin', p) = {x}
      <3>1. ASSUME NEW p \in Pins \ {pin, q}
            PROVE  \/ Own(vertexToPin', p) = pinToVertex'[p]
                   \/ p < pin' /\ pinToVertex'[p] = {} /\ \E x \in Own(vertexToPin', p) : Own(vertexToPin', p) = {x}
        BY <1>1, <1>2, <2>1, <3>1 DEF PinsInv, Mended
      <3>2. pin < pin'
        BY <1>1, <1>2
      <3> QED BY <2>1, <3>1, <3>2
    <2>4. ASSUME NEW p \in Pins, p < pin', Own(vertexToPin', p) = {}, NEW x \in pinToOriVertex'[p] PROVE ~CanGive(x)'
      <3>1. p \in Pins \ {pin, q} /\ p < pin /\ Own(vertexToPin, p) = {}
        BY <1>1, <1>2, <2>1, <2>4
      <3>2. ~CanGive(x) /\ x \in DOMAIN vertexToPin
        BY <1>1, <2>4, <3>1 DEF PinsInv, Mended, PinType
      <3>3. x # v
        BY <1>5, <3>2 DEF Gives
      <3>4. vertexToPin'[x] = vertexToPin[x] /\ vertexToPin[x] \in Pins
        BY <1>5, <3>2, <3>3 DEF Gives, PinsInv, PinType
      <3>5. \A p2 \in Pins : pinToVertex'[p2] \subseteq pinToVertex[p2]
        BY <2>1
      <3> QED BY <3>2, <3>4, <3>5 DEF CanGive
    <2>5. Mended'
      BY <1>1, <1>2, <2>3, <2>4 DEF Mended
    <2> QED BY <1>3, <2>2, <2>5 DEF PinsInv
  <1> QED BY <1>4, <1>5, FixSteps

\* every step does
LEMMA StepPinsInv == PinsInv /\ [GraphNext]_<<vars, graphVars>> => PinsInv'
  <1> SUFFICES ASSUME PinsInv, [GraphNext]_<<vars, graphVars>> PROVE PinsInv'
    OBVIOUS
  <1>1. CASE Next /\ UNCHANGED graphVars
    BY <1>1, PreRoutePinsInv
  <1>2. CASE phase = "done" /\ status = "SUCC_NORMAL" /\ Build /\ UNCHANGED vars
    BY <1>2, UpdatePinsInv, EdgesPinsInv, FixPinsInv DEF Build
  <1>3. CASE UNCHANGED <<vars, graphVars>>
    <2>1. UNCHANGED <<dbNet, phase, status, access, stage, pin, vertexToPin, pinToVertex, pinToOriVertex>>
      BY <1>3 DEF vars, netVars, graphVars, pinVars
    <2>2. Mended'
      BY <2>1, SameMended DEF PinsInv
    <2> QED BY <2>1, <2>2 DEF PinsInv, PinType, AccessOfPins, Shared, Pins
  <1> QED BY <1>1, <1>2, <1>3 DEF GraphNext

\* The inductive invariant holds throughout.
THEOREM SpecPinsInv == GraphSpec => []PinsInv
  BY InitPinsInv, StepPinsInv, PTL DEF GraphSpec

\* When the graph is built, vertexToPin and pinToVertex agree but for pins that
\* were given their only vertex, and a pin has none only if all that it could
\* have are other pins' only vertices (fixDisconnectedPin of all pins).
THEOREM SpecPinsReady == GraphSpec => []PinsReady
  <1>1. PinsInv => PinsReady
    <2> SUFFICES ASSUME PinsInv, stage = "built" PROVE PinsReady
      BY DEF PinsReady
    <2>1. \A p \in Pins : p < pin
      BY DEF PinsInv, PinType, Mended, Pins
    <2> QED BY <2>1 DEF PinsInv, Mended, PinsReady, Own
  <1> QED BY <1>1, SpecPinsInv, PTL

\* No step of fixDisconnectedPin takes the only vertex of a pin away.
THEOREM SpecMendingKeepsOthers == GraphSpec => MendingKeepsOthers
  <1> DEFINE owners(owner) == {owner[v] : v \in DOMAIN owner}
             Keeps == stage = "fix" => owners(vertexToPin) \subseteq owners(vertexToPin')
  <1>1. ASSUME PinsInv, [GraphNext]_<<vars, graphVars>> PROVE [Keeps]_<<vars, graphVars>>
    <2> SUFFICES ASSUME stage = "fix", vertexToPin' # vertexToPin PROVE Keeps
      OBVIOUS
    <2>1. fixDisconnectedPin /\ phase = "done" /\ status = "SUCC_NORMAL" /\ UNCHANGED vars
      BY <1>1 DEF GraphNext, Build, UpdatePinVertices, ConnectGuides, addWrongWayConn, ConnectTracks,
                  setMinAreaFlags, addOutofPinPenalty, Built, pinVars, graphVars
    <2>2. PICK v \in DOMAIN vertexToPin : Gives(v)
      BY <1>1, <2>1, FixSteps
    <2> DEFINE q == vertexToPin[v]
    <2>3. /\ DOMAIN vertexToPin' = DOMAIN vertexToPin /\ Own(vertexToPin', q) # {} /\ Own(vertexToPin, pin) = {}
          /\ \A p \in Pins \ {pin, q} : Own(vertexToPin', p) = Own(vertexToPin, p)
      BY <1>1, <2>2, GivesOne
    <2>4. ASSUME NEW x \in DOMAIN vertexToPin PROVE vertexToPin[x] \in owners(vertexToPin')
      <3>1. vertexToPin[x] \in Pins \ {pin}
        BY <1>1, <2>3 DEF PinsInv, PinType, Own
      <3>2. \E y \in DOMAIN vertexToPin' : vertexToPin'[y] = vertexToPin[x]
        <4>1. CASE vertexToPin[x] = q
          BY <2>3, <4>1 DEF Own
        <4>2. CASE vertexToPin[x] # q
          BY <2>3, <3>1, <4>2 DEF Own
        <4> QED BY <4>1, <4>2
      <3> QED BY <3>2
    <2> QED BY <2>4
  <1> QED BY <1>1, SpecPinsInv, PTL DEF GraphSpec, MendingKeepsOthers

-----------------------------------------------------------------------------
(* Edges that are added                                                    *)

\* edges that are not there yet are added with those back, the others stay
LEMMA AddedEdges ==
  ASSUME NEW new, addEdges(new), NEW D \in {"DOWN", "RIGHT", "FORWARD"}, NEW O, O = oppDirections[D],
         \A e \in new : e.dir = D, \A k \in DOMAIN edges : k[2] \notin {D, O}
  PROVE  /\ DOMAIN edges' = DOMAIN edges \cup {<<e.u, D>> : e \in new} \cup {<<e.v, O>> : e \in new}
         /\ \A k \in DOMAIN edges : edges'[k] = edges[k]
         /\ \A e \in new : /\ \E d \in new : d.u = e.u /\ edges'[<<e.u, D>>].to = d.v
                           /\ \E d \in new : d.v = e.v /\ edges'[<<e.v, O>>].to = d.u
  <1> DEFINE there == {<<e.u, e.dir>> : e \in new}
             back == {<<e.v, oppDirections[e.dir]>> : e \in new}
             at(k) == CHOOSE e \in new : k \in {<<e.u, e.dir>>, <<e.v, oppDirections[e.dir]>>}
             to(k) == IF k \in there THEN [to |-> at(k).v, cost |-> at(k).cost]
                      ELSE IF k \in back THEN [to |-> at(k).u, cost |-> at(k).cost] ELSE edges[k]
  <1>1. D # O /\ O \in {"UP", "LEFT", "BACKWARD"}
    BY DEF oppDirections
  <1>2. {e \in new : ~hasEdge(e.u, e.dir)} = new
    BY DEF hasEdge
  <1>3. edges' = [k \in DOMAIN edges \cup there \cup back |-> to(k)]
    BY <1>2 DEF addEdges
  <1>4. there = {<<e.u, D>> : e \in new} /\ back = {<<e.v, O>> : e \in new}
    OBVIOUS
  <1>5. \A k \in DOMAIN edges : k \notin there /\ k \notin back
    BY <1>4
  <1>6. \A k \in DOMAIN edges : edges'[k] = edges[k]
    <2> HIDE DEF there, back, at
    <2> QED BY <1>3, <1>5
  <1>7. ASSUME NEW e \in new
        PROVE  /\ \E d \in new : d.u = e.u /\ edges'[<<e.u, D>>].to = d.v
               /\ \E d \in new : d.v = e.v /\ edges'[<<e.v, O>>].to = d.u
    <2>1. <<e.u, D>> \in there /\ <<e.v, O>> \in back /\ <<e.v, O>> \notin there
      BY <1>1, <1>4
    <2>2. \A k \in there \cup back : at(k) \in new /\ k \in {<<at(k).u, D>>, <<at(k).v, O>>}
      <3>1. ASSUME NEW k \in there \cup back
            PROVE  \E d \in new : k \in {<<d.u, d.dir>>, <<d.v, oppDirections[d.dir]>>}
        OBVIOUS
      <3>2. ASSUME NEW k \in there \cup back
            PROVE  at(k) \in new /\ k \in {<<at(k).u, at(k).dir>>, <<at(k).v, oppDirections[at(k).dir]>>}
        BY <3>1
      <3> HIDE DEF at, there, back
      <3> QED BY <3>2
    <2> HIDE DEF at, there, back
    <2>3. edges'[<<e.u, D>>].to = at(<<e.u, D>>).v /\ edges'[<<e.v, O>>].to = at(<<e.v, O>>).u
      BY <1>3, <2>1
    <2>4. at(<<e.u, D>>) \in new /\ at(<<e.u, D>>).u = e.u
      BY <1>1, <2>1, <2>2
    <2>5. at(<<e.v, O>>) \in new /\ at(<<e.v, O>>).v = e.v
      BY <1>1, <2>1, <2>2
    <2> QED BY <2>3, <2>4, <2>5
  <1>8. DOMAIN edges' = DOMAIN edges \cup {<<e.u, D>> : e \in new} \cup {<<e.v, O>> : e \in new}
    <2> HIDE DEF there, back, at
    <2> QED BY <1>3, <1>4
  <1> QED BY <1>6, <1>7, <1>8

\* finitely many, if finitely many are
LEMMA AddedFinite ==
  ASSUME NEW new, IsFiniteSet(new), NEW K, IsFiniteSet(K), NEW S,
         \A k \in S : k \in K \/ \E e \in new, d \in DOMAIN oppDirections : k = <<e.u, d>> \/ k = <<e.v, d>>
  PROVE  IsFiniteSet(S)
  <1> DEFINE P == new \X DOMAIN oppDirections
             us == [w \in P |-> <<w[1].u, w[2]>>]
             vs == [w \in P |-> <<w[1].v, w[2]>>]
             A == {us[w] : w \in P}
             B == {vs[w] : w \in P}
  <1>1. IsFiniteSet(DOMAIN oppDirections)
    <2>1. DOMAIN oppDirections = {} \cup {"UP"} \cup {"DOWN"} \cup {"LEFT"} \cup {"RIGHT"} \cup {"FORWARD"} \cup {"BACKWARD"}
      BY DEF oppDirections
    <2>2. \A T, x : IsFiniteSet(T) => IsFiniteSet(T \cup {x})
      BY FS_AddElement
    <2> HIDE DEF P
    <2>3. IsFiniteSet({} \cup {"UP"} \cup {"DOWN"} \cup {"LEFT"})
      BY <2>2, FS_EmptySet
    <2>4. IsFiniteSet({} \cup {"UP"} \cup {"DOWN"} \cup {"LEFT"} \cup {"RIGHT"} \cup {"FORWARD"} \cup {"BACKWARD"})
      BY <2>2, <2>3
    <2> QED BY <2>1, <2>4
  <1>2. IsFiniteSet(P)
    BY <1>1, FS_Product
  <1>3. \A e \in new, d \in DOMAIN oppDirections :
          <<e, d>> \in P /\ us[<<e, d>>] = <<e.u, d>> /\ vs[<<e, d>>] = <<e.v, d>>
    OBVIOUS
  <1> HIDE DEF us, vs, P
  <1>4. IsFiniteSet(A) /\ IsFiniteSet(B)
    BY <1>2, ImageFinite
  <1>5. S \in SUBSET (K \cup A \cup B)
    <2>1. SUFFICES ASSUME NEW k \in S, k \notin K PROVE k \in A \cup B
      OBVIOUS
    <2>2. PICK e \in new, d \in DOMAIN oppDirections : k = <<e.u, d>> \/ k = <<e.v, d>>
      BY <2>1
    <2>3. us[<<e, d>>] \in A /\ vs[<<e, d>>] \in B
      BY <1>3
    <2> QED BY <1>3, <2>2, <2>3
  <1> HIDE DEF A, B
  <1>6. IsFiniteSet(K \cup A \cup B)
    BY <1>4, FS_Union
  <1> QED BY <1>5, <1>6, FS_Subset

-----------------------------------------------------------------------------
(* Edges through vias                                                      *)

\* each leads from the grid point above to a grid point
LEMMA ViaEdgesUp ==
  ASSUME NEW a \in GridBoxes, InTables(a), NEW b \in GridBoxes, InTables(b), NEW g, NEW h, NEW db,
         NEW e \in ViaEdges(g, h, getViaBoxBetween(a, b), db)
  PROVE  /\ e.dir = "DOWN" /\ e.v \in GridPoint /\ e.v.layer = a.layer /\ a.layer < LayerNum - 1
         /\ e.u = getUpper(e.v)
  <1> DEFINE v == getViaBoxBetween(a, b)
             l == a.layer
  <1> HIDE DEF v
  <1>1. isValidViaBox(v)
    BY DEF ViaEdges, v
  <1>2. /\ l + 1 \in GridLayers /\ v.lower.layer = l
        /\ \A t \in In(v.lower.tracks) : t \in Range0(NumTracks[l])
        /\ \A t \in In(v.upper.tracks) : t \in Range0(NumTracks[l + 1])
    BY <1>1, ViaBoxType DEF v
  <1>3. PICK t \in In(v.lower.tracks), ut \in In(v.upper.tracks) :
          /\ e.dir = "DOWN" /\ e.u = Point(l + 1, ut, UpperCrossPoint[l][t])
          /\ e.v = Point(l, t, LowerCrossPoint(l + 1, ut))
    BY <1>1, <1>2 DEF ViaEdges, EdgeTo, v
  <1>4. l \in GridLayers
    BY DEF GridBoxes
  <1>5. /\ LowerCrossPoint(l + 1, ut) \in Range0(NumCrossPoints[l])
        /\ UpperTrack[l][LowerCrossPoint(l + 1, ut)] = ut
    BY <1>2, <1>3, <1>4, LowerCrossPointOf
  <1>6. e.v \in GridPoint /\ e.v.layer = l
    BY <1>2, <1>3, <1>4, <1>5, GridPointFacts DEF Point
  <1>7. e.u = getUpper(e.v)
    BY <1>3, <1>5 DEF Point, getUpper
  <1>8. l < LayerNum - 1
    BY <1>2, <1>4, GridAssumption DEF GridLayers
  <1> QED BY <1>3, <1>6, <1>7, <1>8

\* there is one for each pair of points of the guides
LEMMA ViaEdgesAll ==
  ASSUME NEW a \in GridBoxes, InTables(a), NEW b \in GridBoxes, InTables(b), b.layer = a.layer + 1,
         NEW g, NEW h, NEW db, NEW p \in PointsIn(a), getUpper(p) \in PointsIn(b)
  PROVE  \E e \in ViaEdges(g, h, getViaBoxBetween(a, b), db) : e.u = getUpper(p) /\ e.v = p
  <1> DEFINE v == getViaBoxBetween(a, b)
             q == getUpper(p)
             l == a.layer
             pt == p.track
             qt == q.track
             cost == ViaCost[Point(l, pt, LowerCrossPoint(l + 1, qt))]
                     * (1 + getViaPenalty(mapping[h], Point(l + 1, qt, UpperCrossPoint[l][pt]).track,
                                          Point(l + 1, qt, UpperCrossPoint[l][pt]).cp,
                                          mapping[g], Point(l, pt, LowerCrossPoint(l + 1, qt)).track,
                                          Point(l, pt, LowerCrossPoint(l + 1, qt)).cp, db))
             e == EdgeTo(Point(l + 1, qt, UpperCrossPoint[l][pt]), Point(l, pt, LowerCrossPoint(l + 1, qt)), "DOWN", cost)
  <1>1. isValidViaBox(v) /\ pt \in In(v.lower.tracks) /\ qt \in In(v.upper.tracks)
    BY ViaBoxHas
  <1>2. v.lower.layer = l
    BY <1>1, ViaBoxType
  <1>3. e \in ViaEdges(g, h, v, db)
    <2> HIDE DEF v, q, pt, qt
    <2> QED BY <1>1, <1>2 DEF ViaEdges
  <1>4. p \in GridPoint /\ q \in GridPoint /\ p.layer = l /\ l \in GridLayers /\ q.layer = l + 1
    BY LocBoxOfGridBox DEF PointsIn, GridBoxes
  <1>5. /\ p = [layer |-> l, track |-> pt, cp |-> p.cp] /\ p.cp \in Range0(NumCrossPoints[l])
        /\ qt \in Range0(NumTracks[l + 1]) /\ l + 1 \in GridLayers
    BY <1>4, GridPointFacts
  <1>6. qt = UpperTrack[l][p.cp] /\ q = [layer |-> l + 1, track |-> qt, cp |-> UpperCrossPoint[l][pt]]
    BY <1>4 DEF getUpper
  <1>7. p.cp = LowerCrossPoint(l + 1, qt)
    <2> HIDE DEF q, qt
    <2> QED BY <1>4, <1>5, <1>6, LowerCrossPointOf
  <1> HIDE DEF v, q, pt, qt
  <1>8. e.u = q /\ e.v = p
    BY <1>5, <1>6, <1>7 DEF EdgeTo, Point
  <1> QED BY <1>3, <1>8 DEF v, q

\* finitely many vias join two guides
LEMMA ViaEdgesFinite ==
  ASSUME NEW a \in GridBoxes, InTables(a), NEW b \in GridBoxes, InTables(b), NEW g, NEW h, NEW db
  PROVE  IsFiniteSet(ViaEdges(g, h, getViaBoxBetween(a, b), db))
  <1> DEFINE v == getViaBoxBetween(a, b)
             l == v.lower.layer
             edge(t, ut) ==
               LET u == Point(l + 1, ut, UpperCrossPoint[l][t])
                   w == Point(l, t, LowerCrossPoint(l + 1, ut))
                   penalty == getViaPenalty(mapping[h], u.track, u.cp, mapping[g], w.track, w.cp, db)
               IN  EdgeTo(u, w, "DOWN", ViaCost[w] * (1 + penalty))
             A == In(v.lower.tracks)
             B == In(v.upper.tracks)
             f == [x \in A \X B |-> edge(x[1], x[2])]
  <1> HIDE DEF v
  <1>1. CASE isValidViaBox(v)
    <2>1. IsFiniteSet(A) /\ IsFiniteSet(B)
      BY <1>1, ViaBoxType, InFinite DEF v
    <2>2. ViaEdges(g, h, v, db) = {edge(t, ut) : t \in A, ut \in B}
      BY <1>1 DEF ViaEdges
    <2> HIDE DEF edge, A, B
    <2> DEFINE P == {f[w] : w \in A \X B}
    <2>3. \A t \in A, ut \in B : <<t, ut>> \in A \X B /\ f[<<t, ut>>] = edge(t, ut)
      OBVIOUS
    <2> HIDE DEF f
    <2>4. ViaEdges(g, h, v, db) \in SUBSET P
      <3>1. SUFFICES ASSUME NEW e \in ViaEdges(g, h, v, db) PROVE e \in P
        OBVIOUS
      <3>2. PICK t \in A, ut \in B : e = edge(t, ut)
        BY <2>2
      <3> QED BY <2>3, <3>2
    <2>5. IsFiniteSet(P)
      BY <2>1, PairImageFinite
    <2> HIDE DEF P
    <2> QED BY <2>4, <2>5, FS_Subset DEF v
  <1>2. CASE ~isValidViaBox(v)
    <2>1. ViaEdges(g, h, v, db) = {}
      BY <1>2 DEF ViaEdges
    <2> QED BY <2>1, FS_EmptySet DEF v
  <1> QED BY <1>1, <1>2

-----------------------------------------------------------------------------
(* Wrong-way edges                                                         *)

\* wrong-way edges are at finitely many cross points
LEMMA DenseFinite ==
  ASSUME NEW r \in Interval
  PROVE  IsFiniteSet(DensePoints(r))
  <1> DEFINE n == r.high - r.low + 1
             num == (n * DensityNum) \div DensityDen
             step == 1 + (n - num) \div (num - 1)
             f == [i \in 0 .. num - 1 |-> i * step + r.low]
  <1>1. n \in Int
    BY DEF Interval
  <1>2. num \in Int
    <2>1. n * DensityNum \in Int /\ DensityDen \in Nat \ {0}
      BY <1>1, GridGraphAssumption
    <2>2. \A x \in Int, y \in Nat \ {0} : x \div y \in Int
      OBVIOUS
    <2> QED BY <2>1, <2>2
  <1>3. DensePoints(r) = IF num = 1 THEN {(r.high + r.low) \div 2} ELSE {i * step + r.low : i \in 0 .. num - 1}
    BY DEF DensePoints, WrongWayPoints
  <1> HIDE DEF num, step
  <1>4. IsFiniteSet({(r.high + r.low) \div 2})
    BY FS_Singleton
  <1>5. IsFiniteSet(0 .. num - 1)
    BY <1>2, FS_Interval
  <1>6. {f[i] : i \in 0 .. num - 1} = {i * step + r.low : i \in 0 .. num - 1}
    OBVIOUS
  <1>7. IsFiniteSet({f[i] : i \in 0 .. num - 1})
    <2> HIDE DEF f
    <2> QED BY <1>5, ImageFinite
  <1> QED BY <1>3, <1>4, <1>6, <1>7

\* edges across to the next track, from a set of tracks and a set of cross points
LEMMA AcrossFinite ==
  ASSUME NEW l, NEW A, IsFiniteSet(A), NEW B, IsFiniteSet(B), NEW E,
         \A e \in E : \E t \in A, c \in B : e = Across1(l, t, c)
  PROVE  IsFiniteSet(E) /\ \A e \in E : e.dir = "RIGHT"
  <1> DEFINE f == [w \in A \X B |-> Across1(l, w[1], w[2])]
             P == {f[w] : w \in A \X B}
  <1>1. \A t \in A, c \in B : <<t, c>> \in A \X B /\ f[<<t, c>>] = Across1(l, t, c)
    OBVIOUS
  <1>2. \A e \in E : e.dir = "RIGHT"
    BY DEF Across1, EdgeTo
  <1> HIDE DEF f
  <1>3. E \in SUBSET P
    <2>1. SUFFICES ASSUME NEW e \in E PROVE e \in P
      OBVIOUS
    <2>2. PICK t \in A, c \in B : e = Across1(l, t, c)
      OBVIOUS
    <2> QED BY <1>1, <2>2
  <1>4. IsFiniteSet(P)
    BY PairImageFinite
  <1> HIDE DEF P
  <1> QED BY <1>2, <1>3, <1>4, FS_Subset

\* finitely many are inside a guide
LEMMA RegEdgesFinite ==
  ASSUME NEW b \in GridBoxes
  PROVE  IsFiniteSet(RegEdges(b)) /\ \A e \in RegEdges(b) : e.dir = "RIGHT"
  <1> DEFINE A == b.tracks.low .. b.tracks.high - 1
             B == DensePoints(b.cps)
  <1>1. IsFiniteSet(A)
    <2>1. b.tracks.low \in Int /\ b.tracks.high - 1 \in Int
      BY DEF GridBoxes, Interval
    <2> QED BY <2>1, FS_Interval
  <1>2. IsFiniteSet(B)
    BY DenseFinite DEF GridBoxes
  <1>3. RegEdges(b) = {Across1(b.layer, t, c) : t \in A, c \in B}
    BY DEF RegEdges
  <1> HIDE DEF A, B
  <1>4. \A e \in RegEdges(b) : \E t \in A, c \in B : e = Across1(b.layer, t, c)
    BY <1>3
  <1> QED BY <1>1, <1>2, <1>4, AcrossFinite

\* between two guides
LEMMA AdjEdgesFinite ==
  ASSUME NEW a \in GridBoxes, NEW b \in GridBoxes
  PROVE  IsFiniteSet(AdjEdges(a, b)) /\ \A e \in AdjEdges(a, b) : e.dir = "RIGHT"
  <1> DEFINE t == IF a.tracks.low > b.tracks.high THEN b.tracks.high ELSE a.tracks.high
             B == DensePoints(IntersectWith(a.cps, b.cps))
  <1>1. IsFiniteSet(B)
    BY IntersectFacts, DenseFinite DEF GridBoxes
  <1>2. IsFiniteSet({t})
    BY FS_Singleton
  <1>3. AdjEdges(a, b) = {Across1(a.layer, t, c) : c \in B}
    BY DEF AdjEdges
  <1> HIDE DEF t, B
  <1>4. \A e \in AdjEdges(a, b) : \E s \in {t}, c \in B : e = Across1(a.layer, s, c)
    BY <1>3
  <1> QED BY <1>1, <1>2, <1>4, AcrossFinite

\* the projection of an access box onto the layer of a guide
LEMMA OnGuideLayerType ==
  ASSUME NEW b \in GridBoxes, InTables(b), NEW l \in GridLayers
  PROVE  OnGuideLayer(b, l).tracks \in Interval /\ OnGuideLayer(b, l).cps \in Interval
  <1>1. /\ b.layer \in GridLayers /\ b.layer \in Int /\ b.tracks \in Interval /\ b.cps \in Interval
        /\ b.tracks.low \in Range0(NumTracks[b.layer]) /\ b.tracks.high \in Range0(NumTracks[b.layer])
        /\ b.cps.low \in Range0(NumCrossPoints[b.layer]) /\ b.cps.high \in Range0(NumCrossPoints[b.layer])
    BY DEF GridBoxes, InTables, GridLayers
  <1>2. CpLocs(b) \in Interval
    BY <1>1, GridAssumption DEF CpLocs, Intvl, Interval
  <1>3. rangeSearchTrack(l, CpLocs(b)) \in Interval
    BY <1>2, TrackSearch
  <1>4. CASE b.layer + 1 = l
    <2>1. OnGuideLayer(b, l) = [layer |-> b.layer + 1, tracks |-> rangeSearchTrack(b.layer + 1, CpLocs(b)),
                                cps |-> getUpperCrossPointRange(b.layer, b.tracks)]
      BY <1>4 DEF OnGuideLayer, getUpperBox, GridBox
    <2>2. UpperCrossPoint[b.layer][b.tracks.low] \in Int /\ UpperCrossPoint[b.layer][b.tracks.high] \in Int
      BY <1>1, <1>4, CrossPointAssumption DEF Range0
    <2>3. getUpperCrossPointRange(b.layer, b.tracks) \in Interval
      BY <2>2 DEF getUpperCrossPointRange, Intvl, Interval
    <2> QED BY <1>3, <1>4, <2>1, <2>3
  <1>5. CASE b.layer - 1 = l
    <2>1. OnGuideLayer(b, l) = [layer |-> b.layer - 1, tracks |-> rangeSearchTrack(b.layer - 1, CpLocs(b)),
                                cps |-> getLowerCrossPointRange(b.layer, b.tracks)]
      <3>1. b.layer + 1 # l
        BY <1>1, <1>5
      <3> QED BY <1>5, <3>1 DEF OnGuideLayer, getLowerBox, GridBox
    <2>2. l + 1 = b.layer
      BY <1>1, <1>5
    <2>3. LowerCrossPoint(b.layer, b.tracks.low) \in Int /\ LowerCrossPoint(b.layer, b.tracks.high) \in Int
      <3>1. \A t \in Range0(NumTracks[l + 1]) : LowerCrossPoint(l + 1, t) \in Range0(NumCrossPoints[l])
        BY <1>1, <2>2, LowerCrossPointOf
      <3>2. \A c \in Range0(NumCrossPoints[l]) : c \in Int
        BY DEF Range0
      <3> QED BY <1>1, <2>2, <3>1, <3>2
    <2>4. getLowerCrossPointRange(b.layer, b.tracks) \in Interval
      BY <2>3 DEF getLowerCrossPointRange, Intvl, Interval
    <2> QED BY <1>3, <1>5, <2>1, <2>4
  <1>6. CASE b.layer + 1 # l /\ b.layer - 1 # l
    BY <1>1, <1>6 DEF OnGuideLayer
  <1> QED BY <1>4, <1>5, <1>6

\* and around an access box
LEMMA PinEdgesFinite ==
  ASSUME NEW b \in GridBoxes, InTables(b), NEW guide \in GridBoxes
  PROVE  LET E == PinEdges(OnGuideLayer(b, guide.layer), guide)
         IN  IsFiniteSet(E) /\ \A e \in E : e.dir = "RIGHT"
  <1> DEFINE o == OnGuideLayer(b, guide.layer)
             tracks == IntersectWith(Widen(o.tracks, extraRange), guide.tracks)
             cps == IntersectWith(Widen(o.cps, extraRange), guide.cps)
             A == tracks.low .. tracks.high - 1
             B == In(cps)
  <1>1. o.tracks \in Interval /\ o.cps \in Interval /\ guide.tracks \in Interval /\ guide.cps \in Interval
    BY OnGuideLayerType DEF GridBoxes
  <1> HIDE DEF o
  <1>2. Widen(o.tracks, extraRange) \in Interval /\ Widen(o.cps, extraRange) \in Interval
    BY <1>1 DEF Widen, extraRange, Intvl, Interval
  <1>3. tracks \in Interval /\ cps \in Interval
    BY <1>1, <1>2, IntersectFacts
  <1>4. PinEdges(o, guide) = {Across1(guide.layer, t, c) : t \in A, c \in B}
    BY DEF PinEdges, GridBox
  <1> HIDE DEF tracks, cps
  <1>5. IsFiniteSet(A)
    <2>1. tracks.low \in Int /\ tracks.high - 1 \in Int
      BY <1>3 DEF Interval
    <2> QED BY <2>1, FS_Interval
  <1>6. IsFiniteSet(B)
    BY <1>3, InFinite
  <1> HIDE DEF A, B
  <1>7. \A e \in PinEdges(o, guide) : \E t \in A, c \in B : e = Across1(guide.layer, t, c)
    BY <1>4
  <1> QED BY <1>5, <1>6, <1>7, AcrossFinite DEF o

-----------------------------------------------------------------------------
(* The graph while it is built                                             *)

\* what pre-route leaves behind for a net that passes its checks
OnGrid ==
  phase = "check" \/ (phase \in {"checked", "done"} /\ status = "SUCC_NORMAL") =>
    /\ gridGuides \in Seq(GridBoxes) /\ InPairs(gridGuides, Disjoint)
    /\ \A g \in DOMAIN gridGuides : InTables(gridGuides[g])
    /\ access \in [Pins -> Seq(GridBoxes)]
    /\ \A p \in Pins : \A a \in DOMAIN access[p] : InTables(access[p][a])
    /\ conn = guideConn(gridGuides) /\ pinConn = pinGuideConn(gridGuides, access)

\* a graph is built afterwards
NotBefore ==
  ~(phase = "done" /\ status = "SUCC_NORMAL") => stage = "pins" /\ DOMAIN vertexToPin = {} /\ DOMAIN edges = {}

\* vertices of the guides that are above each other are joined
ViasJoined ==
  \A p, q \in Vertices : Above(p, q) =>
    /\ <<q, "DOWN">> \in DOMAIN edges /\ edges[<<q, "DOWN">>].to = p
    /\ <<p, "UP">> \in DOMAIN edges /\ edges[<<p, "UP">>].to = q

\* and the vertices that follow each other when others are skipped
TracksJoined ==
  \A g \in DOMAIN gridGuides : \A t \in In(gridGuides[g].tracks) :
    \A w \in Consecutive(Kept(gridGuides[g], t)) :
      LET u == Point(gridGuides[g].layer, t, w[1])
          v == Point(gridGuides[g].layer, t, w[2])
      IN  /\ <<u, "FORWARD">> \in DOMAIN edges /\ edges[<<u, "FORWARD">>].to = v
          /\ <<v, "BACKWARD">> \in DOMAIN edges /\ edges[<<v, "BACKWARD">>].to = u

\* only edges of these directions
EdgesIn(dirs) == \A k \in DOMAIN edges : k[2] \in dirs

\* what each stage of the construction has joined
Joins ==
  /\ stage \in {"pins", "wrongway", "tracks", "minarea"} =>
       DOMAIN vertexToPin \subseteq Vertices /\ IsFiniteSet(DOMAIN edges)
  /\ stage = "pins" => DOMAIN edges = {}
  /\ stage = "wrongway" => EdgesIn({"UP", "DOWN"}) /\ ViasJoined
  /\ stage = "tracks" => EdgesIn({"UP", "DOWN", "LEFT", "RIGHT"}) /\ ViasJoined
  /\ stage = "minarea" => ViasJoined /\ TracksJoined

\* there are finitely many vertices
LEMMA VerticesFinite ==
  ASSUME gridGuides \in Seq(GridBoxes)
  PROVE  IsFiniteSet(Vertices) /\ IsFiniteSet(DOMAIN gridGuides)
  <1> DEFINE pts == [g \in DOMAIN gridGuides |-> PointsIn(gridGuides[g])]
             D == DOMAIN gridGuides
  <1> HIDE DEF GridBoxes
  <1>1. IsFiniteSet(D)
    <2>1. D = 1 .. Len(gridGuides) /\ Len(gridGuides) \in Nat
      OBVIOUS
    <2> QED BY <2>1, FS_Interval
  <1>2. \A g \in D : gridGuides[g] \in GridBoxes
    OBVIOUS
  <1>3. \A g \in D : IsFiniteSet(pts[g])
    BY <1>2, PointsFinite
  <1>4. Vertices = UNION {pts[g] : g \in D}
    BY DEF Vertices
  <1> HIDE DEF pts, D
  <1>5. IsFiniteSet(UNION {pts[g] : g \in D})
    BY <1>1, <1>3, UnionFinite
  <1> QED BY <1>1, <1>4, <1>5 DEF D

\* the inductive invariant, with those of pre-route and of the pins
JoinsInv == IInv /\ PinsInv /\ OnGrid /\ NotBefore /\ Joins

\* nothing is built at first
LEMMA InitJoinsInv == GraphInit => JoinsInv
  <1> SUFFICES ASSUME GraphInit PROVE JoinsInv
    OBVIOUS
  <1>1. IInv /\ PinsInv
    BY InitIInv, InitPinsInv DEF GraphInit
  <1>2. phase = "expand" /\ stage = "pins" /\ DOMAIN vertexToPin = {} /\ DOMAIN edges = {}
    BY DEF GraphInit, Init
  <1> QED BY <1>1, <1>2, FS_EmptySet DEF JoinsInv, OnGrid, NotBefore, Joins

\* pre-route
LEMMA OnGridKeeps ==
  ASSUME IInv, OnGrid, Next
  PROVE  OnGrid'
  <1>1. CASE Expand
    BY <1>1 DEF Expand, OnGrid
  <1>2. CASE expandGuidesToCoverPins
    BY <1>2 DEF expandGuidesToCoverPins, OnGrid
  <1>3. CASE Retry
    BY <1>3 DEF Retry, OnGrid
  <1>4. CASE Check \/ Finish
    <2>1. UNCHANGED <<dbNet, gridGuides, access, conn, pinConn>>
      BY <1>4 DEF Check, Finish, netVars
    <2>2. phase = "check" \/ (phase = "checked" /\ status' = status)
      BY <1>4 DEF Check, Finish
    <2>3. phase' \in {"checked", "done"}
      BY <1>4 DEF Check, Finish
    <2>4. Pins' = Pins
      BY <2>1 DEF Pins
    <2> QED BY <2>1, <2>2, <2>3, <2>4 DEF OnGrid
  <1>5. CASE initGridBoxes
    <2> HIDE DEF GridBoxes, Disjoint
    <2>1. /\ gridGuides' \in Seq(GridBoxes) /\ InPairs(gridGuides', Disjoint)
          /\ \A i \in DOMAIN gridGuides' : InTables(gridGuides'[i])
      BY <1>5, GridGuides
    <2>2. dbNet' = dbNet /\ Pins' = Pins /\ dbNet.pins \in Seq(Seq(LocBox) \ {<<>>})
      BY <1>5 DEF initGridBoxes, Pins, IInv, PinInv
    <2> DEFINE gridPins == [p \in Pins |-> getGridPinAccessBoxes(dbNet.pins[p])]
               grid == gridRouteGuides(guides)
    <2>3. /\ gridGuides' = grid /\ access' = gridPins /\ pinConn' = pinGuideConn(grid, gridPins) /\ conn' = guideConn(grid)
          /\ \A p \in DOMAIN gridPins : \A i \in DOMAIN gridPins[p] : InTables(gridPins[p][i])
      BY <1>5 DEF initGridBoxes, Defined
    <2>4. DOMAIN gridPins = Pins /\ \A p \in Pins : gridPins[p] \in Seq(GridBoxes)
      <3>1. \A p \in Pins : dbNet.pins[p] \in Seq(LocBox) /\ dbNet.pins[p] # <<>>
        BY <2>2 DEF Pins
      <3> HIDE DEF LocBox
      <3> QED BY <3>1, AccessBoxesType
    <2>5. gridPins \in [Pins -> Seq(GridBoxes)]
      BY <2>4
    <2> HIDE DEF gridPins, grid
    <2>6. \A p \in Pins : \A a \in DOMAIN access'[p] : InTables(access'[p][a])
      BY <2>3, <2>4
    <2> QED BY <2>1, <2>2, <2>3, <2>5, <2>6 DEF OnGrid
  <1> QED BY <1>1, <1>2, <1>3, <1>4, <1>5 DEF Next

\* what the graph is built from
LEMMA BuiltFrom ==
  ASSUME JoinsInv, phase = "done", status = "SUCC_NORMAL"
  PROVE  /\ gridGuides \in Seq(GridBoxes) /\ InPairs(gridGuides, Disjoint)
         /\ \A g \in DOMAIN gridGuides : gridGuides[g] \in GridBoxes /\ InTables(gridGuides[g])
         /\ \A p \in Pins : \A a \in DOMAIN access[p] : access[p][a] \in GridBoxes /\ InTables(access[p][a])
         /\ access \in [Pins -> Seq(GridBoxes)]
         /\ conn = guideConn(gridGuides) /\ pinConn = pinGuideConn(gridGuides, access)
         /\ IsFiniteSet(Vertices) /\ IsFiniteSet(DOMAIN gridGuides)
  <1> HIDE DEF GridBoxes, Disjoint
  <1>1. /\ gridGuides \in Seq(GridBoxes) /\ InPairs(gridGuides, Disjoint)
        /\ \A g \in DOMAIN gridGuides : InTables(gridGuides[g])
        /\ access \in [Pins -> Seq(GridBoxes)]
        /\ \A p \in Pins : \A a \in DOMAIN access[p] : InTables(access[p][a])
        /\ conn = guideConn(gridGuides) /\ pinConn = pinGuideConn(gridGuides, access)
    BY DEF JoinsInv, OnGrid
  <1>2. \A p \in Pins : access[p] \in Seq(GridBoxes)
    BY <1>1
  <1>3. \A p \in Pins : \A a \in DOMAIN access[p] : access[p][a] \in GridBoxes
    BY <1>2
  <1>4. \A g \in DOMAIN gridGuides : gridGuides[g] \in GridBoxes
    BY <1>1
  <1> QED BY <1>1, <1>3, <1>4, VerticesFinite

\* pre-route's variables, while it is built
LEMMA BuiltOn ==
  ASSUME JoinsInv, UNCHANGED vars
  PROVE  /\ UNCHANGED <<phase, status, gridGuides, access, conn, pinConn, Vertices, Pins>>
         /\ IInv' /\ OnGrid'
  <1>1. UNCHANGED <<phase, status, gridGuides, access, conn, pinConn, dbNet>>
    BY DEF vars, netVars
  <1>2. UNCHANGED <<Vertices, Pins>>
    BY <1>1 DEF Vertices, Pins
  <1>3. OnGrid'
    BY <1>1, <1>2 DEF JoinsInv, OnGrid
  <1>4. IInv'
    BY NextIInv DEF JoinsInv
  <1> QED BY <1>1, <1>2, <1>3, <1>4

\* the vertices of pins are in the guides
LEMMA UpdateJoins ==
  ASSUME JoinsInv, phase = "done", status = "SUCC_NORMAL", UNCHANGED vars, UpdatePinVertices
  PROVE  Joins'
  <1> DEFINE claimed == UNION {VerticesOf(pin, a) : a \in DOMAIN access[pin]}
             won == {v \in claimed : v \in DOMAIN vertexToPin =>
                       getPinPointCost(dbNet.pins[vertexToPin[v]], v) > getPinPointCost(dbNet.pins[pin], v)}
  <1>1. stage = "pins" /\ stage' = "pins" /\ edges' = edges /\ pin <= Len(access)
    BY DEF UpdatePinVertices
  <1>2. vertexToPin' = [v \in DOMAIN vertexToPin \cup claimed |-> IF v \in won THEN pin ELSE vertexToPin[v]]
    BY DEF UpdatePinVertices
  <1>3. pin \in Pins
    BY <1>1 DEF JoinsInv, PinsInv, PinType, AccessOfPins, Pins
  <1>4. claimed \subseteq Vertices
    <2> HIDE DEF GridBoxes
    <2>1. SUFFICES ASSUME NEW a \in DOMAIN access[pin], NEW v \in VerticesOf(pin, a) PROVE v \in Vertices
      OBVIOUS
    <2>2. PICK g \in DOMAIN gridGuides : /\ gridGuides[g].layer = access[pin][a].layer
                                         /\ v \in PointsIn(Common(access[pin][a], gridGuides[g]))
      BY DEF VerticesOf
    <2> DEFINE b == access[pin][a]
               c == gridGuides[g]
    <2>3. b \in GridBoxes /\ c \in GridBoxes
      BY <1>3, BuiltFrom
    <2>4. b.tracks \in Interval /\ c.tracks \in Interval /\ b.cps \in Interval /\ c.cps \in Interval
      BY <2>3 DEF GridBoxes
    <2>5. b.layer = c.layer /\ v \in PointsIn([layer |-> b.layer, tracks |-> IntersectWith(b.tracks, c.tracks),
                                              cps |-> IntersectWith(b.cps, c.cps)])
      BY <2>2 DEF Common, GridBox
    <2> HIDE DEF b, c
    <2>6. \A t : t \in In(IntersectWith(b.tracks, c.tracks)) => t \in In(c.tracks)
      BY <2>4, IntersectFacts
    <2>7. \A t : t \in In(IntersectWith(b.cps, c.cps)) => t \in In(c.cps)
      BY <2>4, IntersectFacts
    <2>8. v \in PointsIn(c)
      BY <2>5, <2>6, <2>7 DEF PointsIn
    <2> QED BY <2>8 DEF c, Vertices
  <1> HIDE DEF claimed, won
  <1>5. DOMAIN vertexToPin \subseteq Vertices /\ IsFiniteSet(DOMAIN edges) /\ DOMAIN edges = {}
    BY <1>1 DEF JoinsInv, Joins
  <1>6. DOMAIN vertexToPin' \subseteq Vertices'
    BY <1>2, <1>4, <1>5, BuiltOn
  <1> QED BY <1>1, <1>5, <1>6 DEF Joins

-----------------------------------------------------------------------------
(* Vias, and edges across tracks                                           *)

\* the edges through vias join the vertices that are above each other
LEMMA ConnectGuidesJoins ==
  ASSUME JoinsInv, phase = "done", status = "SUCC_NORMAL", UNCHANGED vars, ConnectGuides
  PROVE  Joins'
  <1> HIDE DEF GridBoxes, Disjoint
  <1> DEFINE D == DOMAIN gridGuides
             pairs == {w \in D \X D : w[2] \in conn[w[1]] /\ gridGuides[w[1]].layer < gridGuides[w[2]].layer}
             F == [w \in pairs |-> ViaEdges(w[1], w[2], getViaBoxBetween(gridGuides[w[1]], gridGuides[w[2]]), DbGrid)]
             new == UNION {F[w] : w \in pairs}
  <1>1. stage = "pins" /\ stage' = "wrongway" /\ UNCHANGED pinVars
    BY DEF ConnectGuides
  <1>2. addEdges(new)
    <2>1. {F[w] : w \in pairs} = {ViaEdges(w[1], w[2], getViaBoxBetween(gridGuides[w[1]], gridGuides[w[2]]), DbGrid) : w \in pairs}
      OBVIOUS
    <2> HIDE DEF F
    <2> QED BY <2>1 DEF ConnectGuides
  <1>3. DOMAIN edges = {} /\ DOMAIN vertexToPin \subseteq Vertices
    BY <1>1 DEF JoinsInv, Joins
  <1>4. /\ \A g \in D : gridGuides[g] \in GridBoxes /\ InTables(gridGuides[g])
        /\ conn = guideConn(gridGuides) /\ Vertices' = Vertices /\ IsFiniteSet(D)
    BY BuiltFrom, BuiltOn
  <1>5. \A w \in pairs : w[1] \in D /\ w[2] \in D /\ F[w] = ViaEdges(w[1], w[2], getViaBoxBetween(gridGuides[w[1]], gridGuides[w[2]]), DbGrid)
    OBVIOUS
  <1>6. IsFiniteSet(pairs)
    <2>1. IsFiniteSet(D \X D) /\ pairs \in SUBSET (D \X D)
      BY <1>4, FS_Product
    <2> HIDE DEF pairs
    <2> QED BY <2>1, FS_Subset
  <1>7. \A w \in D \X D : w \in pairs <=> w[2] \in conn[w[1]] /\ gridGuides[w[1]].layer < gridGuides[w[2]].layer
    OBVIOUS
  <1> HIDE DEF F, pairs
  <1>8. IsFiniteSet(new)
    <2>1. ASSUME NEW w \in pairs PROVE IsFiniteSet(F[w])
      BY <1>4, <1>5, ViaEdgesFinite
    <2> QED BY <1>6, <2>1, UnionFinite
  <1>9. ASSUME NEW e \in new
        PROVE  e.dir = "DOWN" /\ e.v \in GridPoint /\ e.v.layer + 1 \in GridLayers /\ e.u = getUpper(e.v)
    <2>1. PICK w \in pairs : e \in F[w]
      OBVIOUS
    <2>2. /\ e.dir = "DOWN" /\ e.v \in GridPoint /\ e.v.layer = gridGuides[w[1]].layer
          /\ gridGuides[w[1]].layer < LayerNum - 1 /\ e.u = getUpper(e.v)
      BY <1>4, <1>5, <2>1, ViaEdgesUp
    <2>3. gridGuides[w[1]].layer \in GridLayers
      BY <1>4, <1>5 DEF GridBoxes
    <2> QED BY <2>2, <2>3, GridAssumption DEF GridLayers
  <1>10. ASSUME NEW p \in Vertices, NEW q \in Vertices, Above(p, q)
         PROVE  p \in GridPoint /\ q = getUpper(p) /\ q \in GridPoint /\ \E e \in new : e.u = q /\ e.v = p
    <2>1. PICK g \in D : p \in PointsIn(gridGuides[g])
      BY DEF Vertices
    <2>2. PICK h \in D : q \in PointsIn(gridGuides[h])
      BY DEF Vertices
    <2> DEFINE a == gridGuides[g]
               b == gridGuides[h]
    <2>3. a \in GridBoxes /\ InTables(a) /\ b \in GridBoxes /\ InTables(b)
      BY <1>4
    <2>4. b.layer = a.layer + 1 /\ getUpper(p) = q /\ isConnected(a, b)
      <3> HIDE DEF a, b
      <3> QED BY <1>10, <2>1, <2>2, <2>3, AboveConnected DEF a, b
    <2>5. a.layer \in Int
      BY <2>3 DEF GridBoxes, GridLayers
    <2>6. g # h /\ h \in conn[g]
      BY <1>4, <2>4, <2>5 DEF guideConn
    <2>7. <<g, h>> \in pairs
      BY <1>7, <2>4, <2>5, <2>6
    <2>8. PICK e \in ViaEdges(g, h, getViaBoxBetween(a, b), DbGrid) : e.u = getUpper(p) /\ e.v = p
      <3> HIDE DEF a, b
      <3> QED BY <2>1, <2>2, <2>3, <2>4, ViaEdgesAll DEF a, b
    <2>9. e \in new
      BY <1>5, <2>7, <2>8
    <2>10. p \in GridPoint /\ q \in GridPoint
      <3> HIDE DEF a, b
      <3> QED BY <2>1, <2>2, <2>3, LocBoxOfGridBox DEF a, b
    <2> QED BY <2>4, <2>8, <2>9, <2>10
  <1> HIDE DEF new
  <1>11. /\ DOMAIN edges' = DOMAIN edges \cup {<<e.u, "DOWN">> : e \in new} \cup {<<e.v, "UP">> : e \in new}
         /\ \A e \in new : /\ \E d \in new : d.u = e.u /\ edges'[<<e.u, "DOWN">>].to = d.v
                           /\ \E d \in new : d.v = e.v /\ edges'[<<e.v, "UP">>].to = d.u
    <2>1. oppDirections["DOWN"] = "UP"
      BY DEF oppDirections
    <2>2. \A e \in new : e.dir = "DOWN"
      BY <1>9
    <2>3. \A k \in DOMAIN edges : k[2] \notin {"DOWN", "UP"}
      BY <1>3
    <2>4. "DOWN" \in {"DOWN", "RIGHT", "FORWARD"}
      OBVIOUS
    <2> QED BY <1>2, <2>1, <2>2, <2>3, <2>4, AddedEdges
  <1>12. IsFiniteSet(DOMAIN edges')
    <2>1. IsFiniteSet(DOMAIN edges)
      BY <1>3, FS_EmptySet
    <2>2. \A k \in DOMAIN edges' : k \in DOMAIN edges \/ \E e \in new, d \in DOMAIN oppDirections : k = <<e.u, d>> \/ k = <<e.v, d>>
      BY <1>11 DEF oppDirections
    <2> QED BY <1>8, <2>1, <2>2, AddedFinite
  <1>13. EdgesIn({"UP", "DOWN"})'
    BY <1>3, <1>11 DEF EdgesIn
  <1>14. ASSUME NEW p \in Vertices, NEW q \in Vertices, Above(p, q)
         PROVE  /\ <<q, "DOWN">> \in DOMAIN edges' /\ edges'[<<q, "DOWN">>].to = p
                /\ <<p, "UP">> \in DOMAIN edges' /\ edges'[<<p, "UP">>].to = q
    <2>1. PICK e \in new : e.u = q /\ e.v = p
      BY <1>10, <1>14
    <2>2. p \in GridPoint /\ q \in GridPoint /\ q = getUpper(p) /\ p.layer + 1 \in GridLayers
      BY <1>9, <1>10, <1>14, <2>1
    <2>3. PICK d \in new : d.u = e.u /\ edges'[<<e.u, "DOWN">>].to = d.v
      BY <1>11
    <2>4. d.v = p
      BY <1>9, <2>1, <2>2, <2>3, UpperInjective
    <2>5. PICK f \in new : f.v = e.v /\ edges'[<<e.v, "UP">>].to = f.u
      BY <1>11
    <2>6. f.u = q
      BY <1>9, <2>1, <2>2, <2>5
    <2> QED BY <1>11, <2>1, <2>3, <2>4, <2>5, <2>6
  <1>15. ViasJoined'
    BY <1>4, <1>14 DEF ViasJoined, Above
  <1>16. DOMAIN vertexToPin' \subseteq Vertices'
    BY <1>1, <1>3, <1>4 DEF pinVars
  <1> QED BY <1>1, <1>12, <1>13, <1>15, <1>16 DEF Joins

\* wrong-way edges come into the graph beside those through vias
LEMMA WrongWayJoins ==
  ASSUME JoinsInv, phase = "done", status = "SUCC_NORMAL", UNCHANGED vars, addWrongWayConn
  PROVE  Joins'
  <1> HIDE DEF GridBoxes, Disjoint
  <1> DEFINE D == DOMAIN gridGuides
             adj == {w \in D \X D : w[1] < w[2] /\ w[2] \in guideAdj(gridGuides)[w[1]]}
             Reg == [g \in D |-> RegEdges(gridGuides[g])]
             Adj == [w \in adj |-> AdjEdges(gridGuides[w[1]], gridGuides[w[2]])]
             touching(p) == [ga \in pinConn[p] |->
               PinEdges(OnGuideLayer(access[p][ga[2]], gridGuides[ga[1]].layer), gridGuides[ga[1]])]
             Touching == [p \in Pins |-> UNION {touching(p)[ga] : ga \in pinConn[p]}]
             new == (UNION {Reg[g] : g \in D}) \cup (UNION {Touching[p] : p \in Pins}) \cup (UNION {Adj[w] : w \in adj})
  <1>1. stage = "wrongway" /\ stage' = "tracks" /\ UNCHANGED pinVars
    BY DEF addWrongWayConn
  <1>2. addEdges(new)
    <2>1. {Reg[g] : g \in D} = {RegEdges(gridGuides[g]) : g \in D}
      OBVIOUS
    <2>2. {Adj[w] : w \in adj} = {AdjEdges(gridGuides[w[1]], gridGuides[w[2]]) : w \in adj}
      OBVIOUS
    <2>3. \A p \in Pins : {touching(p)[ga] : ga \in pinConn[p]}
                          = {PinEdges(OnGuideLayer(access[p][ga[2]], gridGuides[ga[1]].layer), gridGuides[ga[1]]) : ga \in pinConn[p]}
      OBVIOUS
    <2> HIDE DEF Reg, Adj, touching
    <2> DEFINE around(p) == UNION {PinEdges(OnGuideLayer(access[p][ga[2]], gridGuides[ga[1]].layer), gridGuides[ga[1]]) : ga \in pinConn[p]}
    <2>4. \A p \in Pins : Touching[p] = around(p)
      BY <2>3
    <2>5. {Touching[p] : p \in Pins} = {around(p) : p \in Pins}
      <3> HIDE DEF Touching, around
      <3> QED BY <2>4
    <2> HIDE DEF Touching
    <2> QED BY <2>1, <2>2, <2>5 DEF addWrongWayConn
  <1>3. DOMAIN vertexToPin \subseteq Vertices /\ IsFiniteSet(DOMAIN edges) /\ EdgesIn({"UP", "DOWN"}) /\ ViasJoined
    BY <1>1 DEF JoinsInv, Joins
  <1>4. /\ \A g \in D : gridGuides[g] \in GridBoxes /\ InTables(gridGuides[g])
        /\ \A p \in Pins : \A a \in DOMAIN access[p] : access[p][a] \in GridBoxes /\ InTables(access[p][a])
        /\ access \in [Pins -> Seq(GridBoxes)]
        /\ pinConn = pinGuideConn(gridGuides, access) /\ Vertices' = Vertices /\ IsFiniteSet(D)
    BY BuiltFrom, BuiltOn
  <1>5. IsFiniteSet(UNION {Reg[g] : g \in D}) /\ \A g \in D : \A e \in Reg[g] : e.dir = "RIGHT"
    <2>1. ASSUME NEW g \in D PROVE IsFiniteSet(Reg[g]) /\ \A e \in Reg[g] : e.dir = "RIGHT"
      BY <1>4, RegEdgesFinite
    <2> HIDE DEF Reg
    <2> QED BY <1>4, <2>1, UnionFinite
  <1>6. IsFiniteSet(UNION {Adj[w] : w \in adj}) /\ \A w \in adj : \A e \in Adj[w] : e.dir = "RIGHT"
    <2>1. ASSUME NEW w \in adj PROVE IsFiniteSet(Adj[w]) /\ \A e \in Adj[w] : e.dir = "RIGHT"
      BY <1>4, AdjEdgesFinite
    <2>2. IsFiniteSet(D \X D) /\ adj \in SUBSET (D \X D)
      BY <1>4, FS_Product
    <2> HIDE DEF adj, Adj
    <2>3. IsFiniteSet(adj)
      BY <2>2, FS_Subset
    <2> QED BY <2>1, <2>3, UnionFinite
  <1>7. ASSUME NEW p \in Pins
        PROVE  IsFiniteSet(Touching[p]) /\ \A e \in Touching[p] : e.dir = "RIGHT"
    <2> DEFINE T == touching(p)
               C == pinConn[p]
    <2>1. C \in SUBSET (D \X DOMAIN access[p])
      BY <1>4 DEF pinGuideConn
    <2>2. IsFiniteSet(DOMAIN access[p])
      <3>1. access[p] \in Seq(GridBoxes)
        BY <1>4
      <3>2. DOMAIN access[p] = 1 .. Len(access[p]) /\ Len(access[p]) \in Nat
        BY <3>1
      <3> QED BY <3>2, FS_Interval
    <2>3. IsFiniteSet(C)
      <3>1. IsFiniteSet(D \X DOMAIN access[p])
        BY <1>4, <2>2, FS_Product
      <3> QED BY <2>1, <3>1, FS_Subset
    <2>4. ASSUME NEW ga \in C PROVE IsFiniteSet(T[ga]) /\ \A e \in T[ga] : e.dir = "RIGHT"
      <3>1. ga[1] \in D /\ ga[2] \in DOMAIN access[p]
        BY <2>1
      <3>2. T[ga] = PinEdges(OnGuideLayer(access[p][ga[2]], gridGuides[ga[1]].layer), gridGuides[ga[1]])
        OBVIOUS
      <3> HIDE DEF T, C
      <3> QED BY <1>4, <3>1, <3>2, PinEdgesFinite
    <2>5. Touching[p] = UNION {T[ga] : ga \in C}
      OBVIOUS
    <2> HIDE DEF T, C, Touching
    <2> QED BY <2>3, <2>4, <2>5, UnionFinite
  <1> HIDE DEF Reg, Adj, adj, Touching
  <1>8. IsFiniteSet(new)
    <2>1. IsFiniteSet(Pins)
      <3>1. Pins = 1 .. Len(dbNet.pins) /\ Len(dbNet.pins) \in Nat
        BY DEF JoinsInv, PinsInv, PinType, Pins
      <3> QED BY <3>1, FS_Interval
    <2>2. IsFiniteSet(UNION {Touching[p] : p \in Pins})
      BY <1>7, <2>1, UnionFinite
    <2> QED BY <1>5, <1>6, <2>2, FS_Union
  <1>9. \A e \in new : e.dir = "RIGHT"
    BY <1>5, <1>6, <1>7
  <1> HIDE DEF new
  <1>10. /\ DOMAIN edges' = DOMAIN edges \cup {<<e.u, "RIGHT">> : e \in new} \cup {<<e.v, "LEFT">> : e \in new}
         /\ \A k \in DOMAIN edges : edges'[k] = edges[k]
         /\ \A e \in new : /\ \E d \in new : d.u = e.u /\ edges'[<<e.u, "RIGHT">>].to = d.v
                           /\ \E d \in new : d.v = e.v /\ edges'[<<e.v, "LEFT">>].to = d.u
    <2>1. "LEFT" = oppDirections["RIGHT"] /\ "RIGHT" \in {"DOWN", "RIGHT", "FORWARD"}
      BY DEF oppDirections
    <2>2. \A k \in DOMAIN edges : k[2] \notin {"RIGHT", "LEFT"}
      BY <1>3 DEF EdgesIn
    <2> QED BY <1>2, <1>9, <2>1, <2>2, AddedEdges
  <1>11. IsFiniteSet(DOMAIN edges')
    <2>1. \A k \in DOMAIN edges' : k \in DOMAIN edges \/ \E e \in new, d \in DOMAIN oppDirections : k = <<e.u, d>> \/ k = <<e.v, d>>
      BY <1>10 DEF oppDirections
    <2> QED BY <1>3, <1>8, <2>1, AddedFinite
  <1>12. EdgesIn({"UP", "DOWN", "LEFT", "RIGHT"})'
    BY <1>3, <1>10 DEF EdgesIn
  <1>13. ViasJoined'
    BY <1>3, <1>4, <1>10 DEF ViasJoined, Above
  <1>14. DOMAIN vertexToPin' \subseteq Vertices'
    BY <1>1, <1>3, <1>4 DEF pinVars
  <1> QED BY <1>1, <1>11, <1>12, <1>13, <1>14 DEF Joins

-----------------------------------------------------------------------------
(* Edges along tracks                                                      *)

\* an element is followed by one, and follows one
LEMMA ConsecutiveOnce ==
  ASSUME NEW K \in SUBSET Int, NEW v \in Consecutive(K), NEW w \in Consecutive(K)
  PROVE  /\ v[1] = w[1] => v[2] = w[2]
         /\ v[2] = w[2] => v[1] = w[1]
  <1>1. /\ v[1] \in K /\ v[2] \in K /\ v[1] < v[2] /\ K \cap (v[1] + 1 .. v[2] - 1) = {}
        /\ w[1] \in K /\ w[2] \in K /\ w[1] < w[2] /\ K \cap (w[1] + 1 .. w[2] - 1) = {}
    BY DEF Consecutive
  <1>2. v[1] \in Int /\ v[2] \in Int /\ w[1] \in Int /\ w[2] \in Int
    BY <1>1
  <1>3. w[2] \notin v[1] + 1 .. v[2] - 1 /\ v[2] \notin w[1] + 1 .. w[2] - 1
        /\ w[1] \notin v[1] + 1 .. v[2] - 1 /\ v[1] \notin w[1] + 1 .. w[2] - 1
    BY <1>1
  <1> QED BY <1>1, <1>2, <1>3

\* finitely many edges on a track
LEMMA TrackEdgesFinite ==
  ASSUME NEW g, NEW t, NEW pairs, IsFiniteSet(pairs), NEW db
  PROVE  IsFiniteSet(TrackEdges(g, t, pairs, db))
  <1> DEFINE l == gridGuides[g].layer
             f == [w \in pairs |-> EdgeTo(Point(l, t, w[1]), Point(l, t, w[2]), "FORWARD", DirectCost(g, l, t, w[1], w[2], db))]
  <1>1. TrackEdges(g, t, pairs, db) = {f[w] : w \in pairs}
    BY DEF TrackEdges
  <1> HIDE DEF f
  <1> QED BY <1>1, ImageFinite

\* finitely many cross points are kept, and follow each other
LEMMA ConsecutiveFinite ==
  ASSUME NEW b \in GridBoxes, NEW t
  PROVE  /\ Kept(b, t) \in SUBSET Int /\ Kept(b, t) \in SUBSET In(b.cps)
         /\ IsFiniteSet(Kept(b, t)) /\ IsFiniteSet(Consecutive(Kept(b, t)))
  <1> DEFINE K == Kept(b, t)
  <1>1. K \in SUBSET In(b.cps)
    BY DEF Kept
  <1>2. b.cps \in Interval
    BY DEF GridBoxes
  <1>3. In(b.cps) \in SUBSET Int
    BY <1>2 DEF In, Interval
  <1> HIDE DEF K
  <1>4. IsFiniteSet(K)
    BY <1>1, <1>2, InFinite, FS_Subset
  <1>5. Consecutive(K) \in SUBSET (K \X K)
    BY DEF Consecutive
  <1>6. IsFiniteSet(Consecutive(K))
    BY <1>4, <1>5, FS_Product, FS_Subset
  <1> QED BY <1>1, <1>3, <1>4, <1>6 DEF K

\* the edges along tracks join the vertices that follow each other
LEMMA TracksJoins ==
  ASSUME JoinsInv, phase = "done", status = "SUCC_NORMAL", UNCHANGED vars, ConnectTracks
  PROVE  Joins'
  <1> HIDE DEF GridBoxes, Disjoint
  <1> DEFINE D == DOMAIN gridGuides
             pairs(g, t) == Consecutive(Kept(gridGuides[g], t))
             along(g) == [t \in In(gridGuides[g].tracks) |-> TrackEdges(g, t, pairs(g, t), DbGrid)]
             F == [g \in D |-> UNION {along(g)[t] : t \in In(gridGuides[g].tracks)}]
             new == UNION {F[g] : g \in D}
  <1>1. stage = "tracks" /\ stage' = "minarea" /\ UNCHANGED pinVars
    BY DEF ConnectTracks
  <1>2. \A g \in D : F[g] = UNION {TrackEdges(g, t, Consecutive(Kept(gridGuides[g], t)), DbGrid) : t \in In(gridGuides[g].tracks)}
    <2>1. ASSUME NEW g \in D
          PROVE  {along(g)[t] : t \in In(gridGuides[g].tracks)}
                 = {TrackEdges(g, t, Consecutive(Kept(gridGuides[g], t)), DbGrid) : t \in In(gridGuides[g].tracks)}
      OBVIOUS
    <2> HIDE DEF along
    <2> QED BY <2>1
  <1>3. addEdges(new)
    <2> DEFINE edgesOf(g) == UNION {TrackEdges(g, t, Consecutive(Kept(gridGuides[g], t)), DbGrid) : t \in In(gridGuides[g].tracks)}
    <2>1. {F[g] : g \in D} = {edgesOf(g) : g \in D}
      <3> HIDE DEF F
      <3>1. \A g \in D : F[g] = edgesOf(g)
        BY <1>2
      <3> HIDE DEF edgesOf
      <3> QED BY <3>1
    <2> HIDE DEF F
    <2> QED BY <2>1 DEF ConnectTracks
  <1>4. DOMAIN vertexToPin \subseteq Vertices /\ IsFiniteSet(DOMAIN edges)
        /\ EdgesIn({"UP", "DOWN", "LEFT", "RIGHT"}) /\ ViasJoined
    BY <1>1 DEF JoinsInv, Joins
  <1>5. /\ \A g \in D : gridGuides[g] \in GridBoxes /\ InTables(gridGuides[g])
        /\ gridGuides \in Seq(GridBoxes) /\ InPairs(gridGuides, Disjoint)
        /\ Vertices' = Vertices /\ IsFiniteSet(D) /\ gridGuides' = gridGuides
    BY BuiltFrom, BuiltOn
  <1>6. IsFiniteSet(new)
    <2>1. ASSUME NEW g \in D PROVE IsFiniteSet(F[g])
      <3> DEFINE T == In(gridGuides[g].tracks)
                 A == along(g)
      <3>1. IsFiniteSet(T)
        BY <1>5, InFinite DEF GridBoxes
      <3>2. ASSUME NEW t \in T PROVE IsFiniteSet(A[t])
        <4>1. IsFiniteSet(pairs(g, t))
          BY <1>5, ConsecutiveFinite
        <4>2. A[t] = TrackEdges(g, t, pairs(g, t), DbGrid)
          OBVIOUS
        <4> HIDE DEF A, pairs
        <4> QED BY <4>1, <4>2, TrackEdgesFinite
      <3>3. F[g] = UNION {A[t] : t \in T}
        OBVIOUS
      <3> HIDE DEF F, A, T
      <3> QED BY <3>1, <3>2, <3>3, UnionFinite
    <2> HIDE DEF F
    <2> QED BY <1>5, <2>1, UnionFinite
  <1> DEFINE at(g, t, i) == Point(gridGuides[g].layer, t, i)
  <1>7. ASSUME NEW e \in new
        PROVE  /\ e.dir = "FORWARD"
               /\ \E g \in D : \E t \in In(gridGuides[g].tracks) : \E w \in pairs(g, t) : e.u = at(g, t, w[1]) /\ e.v = at(g, t, w[2])
    <2>1. PICK g \in D : e \in F[g]
      OBVIOUS
    <2> HIDE DEF F
    <2>2. PICK t \in In(gridGuides[g].tracks) : e \in TrackEdges(g, t, pairs(g, t), DbGrid)
      BY <1>2, <2>1
    <2> HIDE DEF pairs
    <2>3. PICK w \in pairs(g, t) : e.dir = "FORWARD" /\ e.u = at(g, t, w[1]) /\ e.v = at(g, t, w[2])
      BY <2>2 DEF TrackEdges, EdgeTo
    <2> QED BY <2>3
  <1>8. ASSUME NEW g \in D, NEW t \in In(gridGuides[g].tracks), NEW w \in pairs(g, t)
        PROVE  \E e \in new : e.u = at(g, t, w[1]) /\ e.v = at(g, t, w[2])
    <2> DEFINE e == EdgeTo(at(g, t, w[1]), at(g, t, w[2]), "FORWARD",
                           DirectCost(g, gridGuides[g].layer, t, w[1], w[2], DbGrid))
    <2> HIDE DEF F, pairs
    <2>1. e \in TrackEdges(g, t, pairs(g, t), DbGrid)
      BY DEF TrackEdges
    <2>2. e.u = at(g, t, w[1]) /\ e.v = at(g, t, w[2])
      <3> HIDE DEF at
      <3> QED BY DEF EdgeTo
    <2> HIDE DEF e
    <2>3. e \in F[g]
      BY <1>2, <2>1 DEF pairs
    <2> QED BY <2>2, <2>3
  <1> HIDE DEF new, F
  <1>9. /\ DOMAIN edges' = DOMAIN edges \cup {<<e.u, "FORWARD">> : e \in new} \cup {<<e.v, "BACKWARD">> : e \in new}
        /\ \A k \in DOMAIN edges : edges'[k] = edges[k]
        /\ \A e \in new : /\ \E d \in new : d.u = e.u /\ edges'[<<e.u, "FORWARD">>].to = d.v
                          /\ \E d \in new : d.v = e.v /\ edges'[<<e.v, "BACKWARD">>].to = d.u
    <2>1. oppDirections["FORWARD"] = "BACKWARD"
      BY DEF oppDirections
    <2>4. "FORWARD" \in {"DOWN", "RIGHT", "FORWARD"}
      OBVIOUS
    <2>2. \A k \in DOMAIN edges : k[2] \notin {"FORWARD", "BACKWARD"}
      BY <1>4 DEF EdgesIn
    <2>3. \A e \in new : e.dir = "FORWARD"
      BY <1>7
    <2> HIDE DEF pairs, at, along, D
    <2> QED BY <1>3, <2>1, <2>2, <2>3, <2>4, AddedEdges
  <1>10. IsFiniteSet(DOMAIN edges')
    <2>1. \A k \in DOMAIN edges' : k \in DOMAIN edges \/ \E e \in new, d \in DOMAIN oppDirections : k = <<e.u, d>> \/ k = <<e.v, d>>
      BY <1>9 DEF oppDirections
    <2> QED BY <1>4, <1>6, <2>1, AddedFinite
  <1>11. ViasJoined'
    BY <1>4, <1>5, <1>9 DEF ViasJoined, Above
  <1>12. DOMAIN vertexToPin' \subseteq Vertices' /\ vertexToPin' = vertexToPin
    BY <1>1, <1>4, <1>5 DEF pinVars
  \* what is kept is what it was before these edges came
  <1>13. ASSUME NEW g \in D, NEW t
         PROVE  Kept(gridGuides[g], t)' = Kept(gridGuides[g], t)
    <2>1. \A v, dir : dir \in {"UP", "DOWN", "LEFT", "RIGHT"} => (<<v, dir>> \in DOMAIN edges' <=> <<v, dir>> \in DOMAIN edges)
      BY <1>9
    <2> QED BY <1>5, <1>12, <2>1 DEF Kept, canRemove, hasEdge
  \* a vertex that is one of two guides is one of one guide
  <1>14. ASSUME NEW g \in D, NEW t \in In(gridGuides[g].tracks), NEW i \in Kept(gridGuides[g], t),
                NEW h \in D, NEW s \in In(gridGuides[h].tracks), NEW j \in Kept(gridGuides[h], s),
                at(g, t, i) = at(h, s, j)
         PROVE  g = h /\ t = s /\ i = j
    <2>1. at(g, t, i).track = t /\ at(h, s, j).track = s /\ at(g, t, i).cp = i /\ at(h, s, j).cp = j
      BY DEF Point
    <2>2. i \in In(gridGuides[g].cps) /\ j \in In(gridGuides[h].cps)
      BY DEF Kept
    <2>3. at(g, t, i) \in PointsIn(gridGuides[g]) /\ at(h, s, j) \in PointsIn(gridGuides[h])
      BY <2>2 DEF Point, PointsIn
    <2>4. ASSUME g # h PROVE FALSE
      <3>1. <<gridGuides[g], gridGuides[h]>> \in Disjoint
        BY <1>5, <2>4 DEF InPairs
      <3>2. PointsIn(gridGuides[g]) \cap PointsIn(gridGuides[h]) = {}
        BY <3>1 DEF Disjoint
      <3> HIDE DEF at
      <3> QED BY <1>14, <2>3, <3>2
    <2> HIDE DEF at
    <2> QED BY <1>14, <2>1, <2>4
  <1>15. ASSUME NEW g \in D, NEW t \in In(gridGuides[g].tracks), NEW w \in pairs(g, t)
         PROVE  /\ <<at(g, t, w[1]), "FORWARD">> \in DOMAIN edges' /\ edges'[<<at(g, t, w[1]), "FORWARD">>].to = at(g, t, w[2])
                /\ <<at(g, t, w[2]), "BACKWARD">> \in DOMAIN edges' /\ edges'[<<at(g, t, w[2]), "BACKWARD">>].to = at(g, t, w[1])
    <2>1. \A h \in D : \A s, v : v \in pairs(h, s) => v[1] \in Kept(gridGuides[h], s) /\ v[2] \in Kept(gridGuides[h], s)
      BY DEF Consecutive
    <2>2. Kept(gridGuides[g], t) \in SUBSET Int
      BY <1>5, ConsecutiveFinite
    <2>3. \A v \in pairs(g, t) : (v[1] = w[1] => v[2] = w[2]) /\ (v[2] = w[2] => v[1] = w[1])
      BY <2>2, ConsecutiveOnce
    <2> HIDE DEF at, pairs
    <2>4. PICK e \in new : e.u = at(g, t, w[1]) /\ e.v = at(g, t, w[2])
      BY <1>8
    <2>5. PICK d \in new : d.u = e.u /\ edges'[<<e.u, "FORWARD">>].to = d.v
      BY <1>9
    <2>6. d.v = at(g, t, w[2])
      <3>1. PICK h \in D : \E s \in In(gridGuides[h].tracks) : \E v \in pairs(h, s) : d.u = at(h, s, v[1]) /\ d.v = at(h, s, v[2])
        BY <1>7
      <3>2. PICK s \in In(gridGuides[h].tracks) : \E v \in pairs(h, s) : d.u = at(h, s, v[1]) /\ d.v = at(h, s, v[2])
        BY <3>1
      <3>3. PICK v \in pairs(h, s) : d.u = at(h, s, v[1]) /\ d.v = at(h, s, v[2])
        BY <3>2
      <3>4. h = g /\ s = t /\ v[1] = w[1]
        <4>1. v[1] \in Kept(gridGuides[h], s) /\ w[1] \in Kept(gridGuides[g], t)
          BY <2>1
        <4>2. at(h, s, v[1]) = at(g, t, w[1])
          BY <2>4, <2>5, <3>3
        <4> QED BY <1>14, <4>1, <4>2
      <3> QED BY <2>3, <3>3, <3>4
    <2>7. PICK f \in new : f.v = e.v /\ edges'[<<e.v, "BACKWARD">>].to = f.u
      BY <1>9
    <2>8. f.u = at(g, t, w[1])
      <3>1. PICK h \in D : \E s \in In(gridGuides[h].tracks) : \E v \in pairs(h, s) : f.u = at(h, s, v[1]) /\ f.v = at(h, s, v[2])
        BY <1>7
      <3>2. PICK s \in In(gridGuides[h].tracks) : \E v \in pairs(h, s) : f.u = at(h, s, v[1]) /\ f.v = at(h, s, v[2])
        BY <3>1
      <3>3. PICK v \in pairs(h, s) : f.u = at(h, s, v[1]) /\ f.v = at(h, s, v[2])
        BY <3>2
      <3>4. h = g /\ s = t /\ v[2] = w[2]
        <4>1. v[2] \in Kept(gridGuides[h], s) /\ w[2] \in Kept(gridGuides[g], t)
          BY <2>1
        <4>2. at(h, s, v[2]) = at(g, t, w[2])
          BY <2>4, <2>7, <3>3
        <4> QED BY <1>14, <4>1, <4>2
      <3> QED BY <2>3, <3>3, <3>4
    <2> QED BY <1>9, <2>4, <2>5, <2>6, <2>7, <2>8
  <1>16. TracksJoined'
    <2>1. SUFFICES ASSUME NEW g \in D, NEW t \in In(gridGuides[g].tracks), NEW w \in Consecutive(Kept(gridGuides[g], t)')
          PROVE  LET u == Point(gridGuides[g].layer, t, w[1])
                     v == Point(gridGuides[g].layer, t, w[2])
                 IN  /\ <<u, "FORWARD">> \in DOMAIN edges' /\ edges'[<<u, "FORWARD">>].to = v
                     /\ <<v, "BACKWARD">> \in DOMAIN edges' /\ edges'[<<v, "BACKWARD">>].to = u
      BY <1>5 DEF TracksJoined
    <2>2. w \in pairs(g, t)
      BY <1>13
    <2> QED BY <1>15, <2>2
  <1> QED BY <1>1, <1>10, <1>11, <1>12, <1>16 DEF Joins

-----------------------------------------------------------------------------
(* The invariant holds                                                     *)

\* every step keeps it
LEMMA StepJoinsInv == JoinsInv /\ [GraphNext]_<<vars, graphVars>> => JoinsInv'
  <1> SUFFICES ASSUME JoinsInv, [GraphNext]_<<vars, graphVars>> PROVE JoinsInv'
    OBVIOUS
  <1>1. PinsInv'
    BY StepPinsInv DEF JoinsInv
  <1>2. CASE Next /\ UNCHANGED graphVars
    <2>1. IInv' /\ OnGrid'
      BY <1>2, NextIInv, OnGridKeeps DEF JoinsInv
    <2>2. phase # "done"
      BY <1>2 DEF Next, Expand, expandGuidesToCoverPins, initGridBoxes, Check, Retry, Finish
    <2>3. stage = "pins" /\ DOMAIN vertexToPin = {} /\ DOMAIN edges = {}
      BY <2>2 DEF JoinsInv, NotBefore
    <2>4. UNCHANGED <<stage, vertexToPin, edges>>
      BY <1>2 DEF graphVars, pinVars
    <2>5. NotBefore' /\ Joins'
      BY <2>3, <2>4, FS_EmptySet DEF NotBefore, Joins
    <2> QED BY <1>1, <2>1, <2>5 DEF JoinsInv
  <1>3. CASE phase = "done" /\ status = "SUCC_NORMAL" /\ Build /\ UNCHANGED vars
    <2>1. IInv' /\ OnGrid' /\ NotBefore'
      BY <1>3, BuiltOn DEF NotBefore
    <2>2. CASE UpdatePinVertices
      BY <1>1, <1>3, <2>1, <2>2, UpdateJoins DEF JoinsInv
    <2>3. CASE ConnectGuides
      BY <1>1, <1>3, <2>1, <2>3, ConnectGuidesJoins DEF JoinsInv
    <2>4. CASE addWrongWayConn
      BY <1>1, <1>3, <2>1, <2>4, WrongWayJoins DEF JoinsInv
    <2>5. CASE ConnectTracks
      BY <1>1, <1>3, <2>1, <2>5, TracksJoins DEF JoinsInv
    <2>6. CASE setMinAreaFlags \/ addOutofPinPenalty \/ fixDisconnectedPin \/ Built
      <3>1. stage' \in {"penalty", "fix", "built"}
        BY <2>6 DEF setMinAreaFlags, addOutofPinPenalty, fixDisconnectedPin, Built
      <3>2. Joins'
        BY <3>1 DEF Joins
      <3> QED BY <1>1, <2>1, <3>2 DEF JoinsInv
    <2> QED BY <1>3, <2>2, <2>3, <2>4, <2>5, <2>6 DEF Build
  <1>4. CASE UNCHANGED <<vars, graphVars>>
    <2>1. IInv' /\ OnGrid' /\ UNCHANGED <<phase, status, gridGuides, Vertices>>
      BY <1>4, BuiltOn
    <2>2. UNCHANGED <<stage, vertexToPin, edges>>
      BY <1>4 DEF graphVars, pinVars
    <2>3. NotBefore'
      BY <2>1, <2>2 DEF JoinsInv, NotBefore
    <2>4. ViasJoined' = ViasJoined /\ TracksJoined' = TracksJoined
      BY <2>1, <2>2 DEF ViasJoined, Above, TracksJoined, Kept, canRemove, hasEdge
    <2>5. Joins'
      BY <2>1, <2>2, <2>4 DEF JoinsInv, Joins, EdgesIn
    <2> QED BY <1>1, <2>1, <2>3, <2>5 DEF JoinsInv
  <1> QED BY <1>2, <1>3, <1>4 DEF GraphNext

\* Whatever nets, guides and pins: while GridGraphBuilder runs, all vertices above
\* each other are joined both ways, and all that follow each other on a track.
THEOREM SpecJoinsInv == GraphSpec => []JoinsInv
  BY InitJoinsInv, StepJoinsInv, PTL DEF GraphSpec

\* whoever follows each other being both in a set or neither, all are or none
LEMMA TrackAgrees ==
  ASSUME NEW K \in SUBSET Int, NEW X,
         \A w \in Consecutive(K) : w[1] \in X <=> w[2] \in X
  PROVE  \A c, d \in K : c \in X <=> d \in X
  <1> DEFINE Bad(c, d) == c < d /\ ~(c \in X <=> d \in X)
             S == {n \in Nat : \E c, d \in K : Bad(c, d) /\ n = d - c}
  <1>1. ASSUME S # {} PROVE FALSE
    <2>1. PICK m \in S : \A n \in S : m <= n
      <3>1. S \subseteq Nat
        OBVIOUS
      <3> HIDE DEF S
      <3> QED BY <1>1, <3>1, LeastNatural
    <2>2. PICK c \in K, d \in K : Bad(c, d) /\ m = d - c
      BY <2>1
    <2>3. PICK e \in K : c < e /\ e < d
      <3>1. <<c, d>> \notin Consecutive(K)
        BY <2>2
      <3>2. K \cap (c + 1 .. d - 1) # {}
        BY <2>2, <3>1 DEF Consecutive
      <3> QED BY <2>2, <3>2
    <2>4. ~Bad(c, e) /\ ~Bad(e, d)
      <3>1. c \in Int /\ d \in Int /\ e \in Int
        OBVIOUS
      <3>2. e - c \in Nat /\ d - e \in Nat /\ e - c < m /\ d - e < m
        BY <2>2, <2>3, <3>1
      <3>3. e - c \notin S /\ d - e \notin S
        <4> HIDE DEF S
        <4> QED BY <2>1, <2>2, <3>1, <3>2
      <3> HIDE DEF Bad
      <3> QED BY <3>2, <3>3
    <2> QED BY <2>2, <2>3, <2>4
  <1>2. ASSUME NEW c \in K, NEW d \in K, Bad(c, d) PROVE FALSE
    <2>1. c \in Int /\ d \in Int /\ d - c \in Nat
      BY <1>2
    <2> HIDE DEF Bad
    <2> QED BY <1>1, <1>2, <2>1
  <1>3. TAKE c, d \in K
  <1>4. c \in Int /\ d \in Int
    OBVIOUS
  <1>5. c < d \/ d < c \/ c = d
    BY <1>4
  <1> QED BY <1>2, <1>5

-----------------------------------------------------------------------------
(* Skipping vertices                                                       *)

\* a vertex that no guide can do without
Held(v) == v \in DOMAIN vertexToPin \/ hasEdge(v, "UP") \/ hasEdge(v, "DOWN")

\* such a vertex is kept in the guide it is in
LEMMA HeldKept ==
  ASSUME NEW g \in DOMAIN gridGuides, NEW v \in PointsIn(gridGuides[g]), Held(v)
  PROVE  /\ v.track \in In(gridGuides[g].tracks) /\ v.cp \in Kept(gridGuides[g], v.track)
         /\ v = Point(gridGuides[g].layer, v.track, v.cp)
  <1>1. PICK t \in In(gridGuides[g].tracks), c \in In(gridGuides[g].cps) : v = Point(gridGuides[g].layer, t, c)
    BY DEF PointsIn, Point
  <1>2. v.track = t /\ v.cp = c
    BY <1>1 DEF Point
  <1>3. ~canRemove(gridGuides[g], v)
    BY DEF canRemove, Held
  <1> QED BY <1>1, <1>2, <1>3 DEF Kept

\* What is reached point by point on the grid of the guides is reached in the
\* graph up to vertices that are skipped: a set of points that has the start, and
\* with each point all that a step on the grid leads to.
LEMMA JoinsKeepPaths == JoinsInv => SkippingKeepsPaths
  <1> SUFFICES ASSUME JoinsInv, stage = "minarea", JoinedOnGrid(LocalNetNow, pinToVertex)
               PROVE  LET steps == {<<k[1], edges[k].to>> : k \in DOMAIN edges}
                            \cup UNION {{<<v, w>> : w \in pinToVertex[vertexToPin[v]]} : v \in DOMAIN vertexToPin}
                          reached == ReachIn(steps, pinToVertex[1])
                      IN  \A p \in Pins : pinToVertex[p] \cap reached # {}
    BY DEF SkippingKeepsPaths
  <1> HIDE DEF GridBoxes, Disjoint
  <1> DEFINE D == DOMAIN gridGuides
             own == DOMAIN vertexToPin
             graph == {<<k[1], edges[k].to>> : k \in DOMAIN edges}
             pins == UNION {{<<v, w>> : w \in pinToVertex[vertexToPin[v]]} : v \in own}
             steps == graph \cup pins
             reached == ReachIn(steps, pinToVertex[1])
  <1>1. phase = "done" /\ status = "SUCC_NORMAL"
    BY DEF JoinsInv, NotBefore
  <1>2. /\ gridGuides \in Seq(GridBoxes) /\ InPairs(gridGuides, Disjoint)
        /\ \A g \in D : gridGuides[g] \in GridBoxes
        /\ IsFiniteSet(Vertices)
    BY <1>1, BuiltFrom
  <1>3. own \subseteq Vertices /\ IsFiniteSet(DOMAIN edges) /\ ViasJoined /\ TracksJoined
    BY DEF JoinsInv, Joins
  <1>4. /\ pinToVertex \in [Pins -> SUBSET own]
        /\ \A p \in Pins : \A v \in own : v \in pinToVertex[p] <=> vertexToPin[v] = p
        /\ vertexToPin \in [own -> Pins]
    <2>1. \A p \in Pins : Own(vertexToPin, p) = pinToVertex[p]
      BY DEF JoinsInv, PinsInv, Shared
    <2> QED BY <2>1 DEF JoinsInv, PinsInv, PinType, Own
  <1>5. SUFFICES ASSUME Pins # {} PROVE \A p \in Pins : pinToVertex[p] \cap reached # {}
    OBVIOUS
  <1>6. 1 \in Pins
    <2>1. Pins = 1 .. Len(dbNet.pins) /\ Len(dbNet.pins) \in Nat
      BY DEF JoinsInv, PinsInv, PinType, Pins
    <2> QED BY <1>5, <2>1
  <1>7. IsFiniteSet(own)
    BY <1>2, <1>3, FS_Subset
  <1>8. IsFiniteSet(steps)
    <2> DEFINE f == [k \in DOMAIN edges |-> <<k[1], edges[k].to>>]
    <2>1. graph = {f[k] : k \in DOMAIN edges}
      OBVIOUS
    <2> HIDE DEF f
    <2>2. IsFiniteSet(graph)
      <3> HIDE DEF graph
      <3> QED BY <1>3, <2>1, ImageFinite
    <2>3. pins \in SUBSET (own \X own)
      BY <1>4
    <2>4. IsFiniteSet(own \X own)
      BY <1>7, FS_Product
    <2> HIDE DEF graph, pins, own
    <2>5. IsFiniteSet(pins)
      BY <2>3, <2>4, FS_Subset
    <2> QED BY <2>2, <2>5, FS_Union
  <1>9. pinToVertex[1] \subseteq reached /\ \A e \in steps : e[1] \in reached => e[2] \in reached
    <2>1. pinToVertex[1] \in SUBSET own
      BY <1>4, <1>6
    <2>2. IsFiniteSet(pinToVertex[1])
      BY <1>7, <2>1, FS_Subset
    <2> HIDE DEF steps
    <2> QED BY <1>8, <2>2, ReachInClosed
  <1> HIDE DEF reached
  <1>10. \A k \in DOMAIN edges : k[1] \in reached => edges[k].to \in reached
    <2>1. ASSUME NEW k \in DOMAIN edges, k[1] \in reached PROVE edges[k].to \in reached
      <3> DEFINE e == <<k[1], edges[k].to>>
      <3>1. e \in steps /\ e[1] = k[1] /\ e[2] = edges[k].to
        OBVIOUS
      <3> HIDE DEF e, steps
      <3> QED BY <1>9, <2>1, <3>1
    <2> QED BY <2>1
  <1>11. \A p \in Pins : \A v, w \in pinToVertex[p] : v \in reached => w \in reached
    <2>1. ASSUME NEW p \in Pins, NEW v \in pinToVertex[p], NEW w \in pinToVertex[p], v \in reached PROVE w \in reached
      <3> DEFINE e == <<v, w>>
      <3>1. v \in own /\ vertexToPin[v] = p
        BY <1>4
      <3>2. e \in steps /\ e[1] = v /\ e[2] = w
        BY <3>1
      <3> HIDE DEF e, steps
      <3> QED BY <1>9, <2>1, <3>2
    <2> QED BY <2>1
  <1> HIDE DEF steps, graph, pins
  \* along a track of a guide all that is kept is reached, or nothing
  <1>12. ASSUME NEW g \in D, NEW t \in In(gridGuides[g].tracks),
                NEW c \in Kept(gridGuides[g], t), NEW d \in Kept(gridGuides[g], t),
                Point(gridGuides[g].layer, t, c) \in reached
         PROVE  Point(gridGuides[g].layer, t, d) \in reached
    <2> DEFINE K == Kept(gridGuides[g], t)
               at(i) == Point(gridGuides[g].layer, t, i)
               X == {i \in K : at(i) \in reached}
    <2>1. K \in SUBSET Int
      BY <1>2, ConsecutiveFinite
    <2>2. ASSUME NEW w \in Consecutive(K) PROVE w[1] \in X <=> w[2] \in X
      <3>1. w[1] \in K /\ w[2] \in K
        BY DEF Consecutive
      <3>2. /\ <<at(w[1]), "FORWARD">> \in DOMAIN edges /\ edges[<<at(w[1]), "FORWARD">>].to = at(w[2])
            /\ <<at(w[2]), "BACKWARD">> \in DOMAIN edges /\ edges[<<at(w[2]), "BACKWARD">>].to = at(w[1])
        BY <1>3 DEF TracksJoined
      <3> HIDE DEF at, K
      <3>3. at(w[1]) \in reached <=> at(w[2]) \in reached
        <4>1. <<at(w[1]), "FORWARD">>[1] = at(w[1]) /\ <<at(w[2]), "BACKWARD">>[1] = at(w[2])
          OBVIOUS
        <4> QED BY <1>10, <3>2, <4>1
      <3> QED BY <3>1, <3>3
    <2>3. c \in X <=> d \in X
      <3> HIDE DEF X, K
      <3> QED BY <2>1, <2>2, TrackAgrees DEF K
    <2> QED BY <1>12, <2>3
  <1> DEFINE Good == {p \in Vertices : \A g \in D : p \in PointsIn(gridGuides[g]) =>
                        \A c \in Kept(gridGuides[g], p.track) : Point(gridGuides[g].layer, p.track, c) \in reached}
  <1>13. ASSUME NEW v \in Vertices, Held(v) PROVE v \in reached <=> v \in Good
    <2>1. ASSUME v \in reached PROVE v \in Good
      <3>1. SUFFICES ASSUME NEW g \in D, v \in PointsIn(gridGuides[g]), NEW c \in Kept(gridGuides[g], v.track)
                     PROVE  Point(gridGuides[g].layer, v.track, c) \in reached
        OBVIOUS
      <3>2. v.track \in In(gridGuides[g].tracks) /\ v.cp \in Kept(gridGuides[g], v.track)
            /\ v = Point(gridGuides[g].layer, v.track, v.cp)
        BY <1>13, <3>1, HeldKept
      <3> QED BY <1>12, <2>1, <3>2
    <2>2. ASSUME v \in Good PROVE v \in reached
      <3>1. PICK g \in D : v \in PointsIn(gridGuides[g])
        BY DEF Vertices
      <3>2. v.cp \in Kept(gridGuides[g], v.track) /\ v = Point(gridGuides[g].layer, v.track, v.cp)
        BY <1>13, <3>1, HeldKept
      <3> QED BY <2>2, <3>1, <3>2
    <2> QED BY <2>1, <2>2
  <1> DEFINE guidePoints == [g \in D |-> PointsIn(gridGuides[g])]
  <1>14. ASSUME NEW g \in DOMAIN guidePoints, NEW p \in guidePoints[g], NEW q \in guidePoints[g], q \in Good, q.track = p.track
         PROVE  p \in Good
    <2>1. g \in D /\ p \in PointsIn(gridGuides[g]) /\ q \in PointsIn(gridGuides[g])
      OBVIOUS
    <2>2. p \in Vertices
      BY <2>1 DEF Vertices
    <2>3. ASSUME NEW h \in D, p \in PointsIn(gridGuides[h]) PROVE h = g
      <3>1. SUFFICES ASSUME h # g PROVE FALSE
        OBVIOUS
      <3>2. <<gridGuides[g], gridGuides[h]>> \in Disjoint
        BY <1>2, <2>1, <3>1 DEF InPairs
      <3>3. PointsIn(gridGuides[g]) \cap PointsIn(gridGuides[h]) = {}
        BY <3>2 DEF Disjoint
      <3> QED BY <2>1, <2>3, <3>3
    <2> QED BY <1>14, <2>1, <2>2, <2>3
  <1>15. ASSUME NEW p \in Pins, pinToVertex[p] \cap Good # {} PROVE pinToVertex[p] \subseteq Good
    <2>1. \A v \in pinToVertex[p] : v \in Vertices /\ Held(v)
      BY <1>3, <1>4 DEF Held
    <2> HIDE DEF Good
    <2> QED BY <1>11, <1>13, <1>15, <2>1
  <1>16. ASSUME NEW p \in Vertices, NEW q \in Good, Above(p, q) \/ Above(q, p) PROVE p \in Good
    <2>1. q \in Vertices
      OBVIOUS
    <2> HIDE DEF Good
    <2>2. \E dir \in {"UP", "DOWN"} :
            <<q, dir>> \in DOMAIN edges /\ edges[<<q, dir>>].to = p /\ Held(p) /\ Held(q)
      BY <1>3, <1>16, <2>1 DEF ViasJoined, Held, hasEdge
    <2>3. PICK k \in DOMAIN edges : k[1] = q /\ edges[k].to = p
      BY <2>2
    <2> QED BY <1>10, <1>13, <2>1, <2>2, <2>3
  <1>17. pinToVertex[1] \in SUBSET Good
    <2>1. \A v \in pinToVertex[1] : v \in Vertices /\ Held(v)
      BY <1>3, <1>4, <1>6 DEF Held
    <2> HIDE DEF Good
    <2> QED BY <1>9, <1>13, <2>1
  <1>18. Vertices = (UNION {guidePoints[g] : g \in DOMAIN guidePoints})
                    \cup (UNION {pinToVertex[p] : p \in DOMAIN pinToVertex})
    <2>1. Vertices = UNION {guidePoints[g] : g \in DOMAIN guidePoints}
      BY DEF Vertices
    <2>2. \A p \in DOMAIN pinToVertex : pinToVertex[p] \subseteq Vertices
      BY <1>3, <1>4
    <2> HIDE DEF guidePoints
    <2> QED BY <2>1, <2>2
  <1>19. Good \in SUBSET Vertices
    OBVIOUS
  <1>20. DOMAIN pinToVertex = Pins
    BY <1>4
  <1>21. JoinedOnGrid(LocalNetNow, pinToVertex) =>
           \A p \in Pins : pinToVertex[p] \cap ReachedOnGrid(guidePoints, pinToVertex, pinToVertex[1]) # {}
    BY <1>20 DEF JoinedOnGrid, LocalNetNow
  <1> HIDE DEF Good, guidePoints
  <1>22. ReachedOnGrid(guidePoints, pinToVertex, pinToVertex[1]) \subseteq Good
    <2>1. ClosedOnGrid(guidePoints, pinToVertex, Vertices, Good)
      BY <1>14, <1>15, <1>16, <1>20 DEF ClosedOnGrid
    <2>2. pinToVertex[1] \in SUBSET Vertices
      BY <1>17, <1>19
    <2> QED BY <1>2, <1>17, <1>18, <1>19, <2>1, <2>2, ReachedIsLeast
  <1>23. TAKE p \in Pins
  <1>24. PICK v \in pinToVertex[p] : v \in Good
    BY <1>21, <1>22
  <1>25. v \in Vertices /\ Held(v)
    BY <1>3, <1>4 DEF Held
  <1>26. v \in reached
    BY <1>13, <1>24, <1>25
  <1> QED BY <1>26

\* Pins whose vertices are joined on the grid of the guides, point by point, are
\* joined in the graph, in which connectGuide skips vertices.
THEOREM SpecSkippingKeepsPaths == GraphSpec => []SkippingKeepsPaths
  BY SpecJoinsInv, JoinsKeepPaths, PTL

-----------------------------------------------------------------------------
(* Flags of minimum lengths                                                *)

\* a set of numbers up to n has a greatest, one of numbers from 0 a least
LEMMA Extremes ==
  ASSUME NEW S \in SUBSET Nat, NEW n \in Nat, \A x \in S : x <= n, S # {}
  PROVE  /\ Max(S) \in S /\ \A x \in S : x <= Max(S)
         /\ Min(S) \in S /\ \A x \in S : Min(S) <= x
  <1>1. \E m \in S : \A x \in S : m >= x
    <2> DEFINE T == {n - x : x \in S}
    <2>1. T \subseteq Nat /\ T # {}
      <3>1. \A x \in S : x \in Nat /\ x <= n /\ n - x \in Nat
        OBVIOUS
      <3> QED BY <3>1
    <2>2. PICK k \in T : \A j \in T : k <= j
      <3> HIDE DEF T
      <3> QED BY <2>1, LeastNatural
    <2>3. PICK m \in S : k = n - m
      BY <2>2
    <2>4. ASSUME NEW x \in S PROVE m >= x
      <3>1. n - x \in T
        OBVIOUS
      <3>2. n - m <= n - x /\ m \in Nat /\ x \in Nat
        BY <2>2, <2>3, <3>1
      <3> QED BY <3>2
    <2> QED BY <2>4
  <1>2. \E m \in S : \A x \in S : m <= x
    BY LeastNatural
  <1>3. Max(S) \in S /\ \A x \in S : Max(S) >= x
    BY <1>1 DEF Max
  <1>4. Min(S) \in S /\ \A x \in S : Min(S) <= x
    BY <1>2 DEF Min
  <1>5. Max(S) \in Nat /\ \A x \in S : x \in Nat
    BY <1>3
  <1> QED BY <1>3, <1>4, <1>5

\* the window has the guide, and ends where the track does or where a wire of
\* minimum length to the guide fits
LEMMA WindowFacts ==
  ASSUME NEW b \in GridBoxes, InTables(b), IsValid(b.cps)
  PROVE  LET W == Window(b)
             N == NumCrossPoints[b.layer]
         IN  /\ W.low \in Nat /\ W.low <= b.cps.low
             /\ W.low = 0 \/ CpDist(b.layer, Intvl(W.low, b.cps.low)) >= MinLen[b.layer]
             /\ W.high \in Nat /\ b.cps.high <= W.high /\ W.high <= N - 1
             /\ W.high = N - 1 \/ CpDist(b.layer, Intvl(b.cps.high, W.high)) >= MinLen[b.layer]
  <1> DEFINE l == b.layer
             N == NumCrossPoints[l]
             below == {c \in 0 .. b.cps.low - 1 : CpDist(l, Intvl(c, b.cps.low)) >= MinLen[l]}
             above == {c \in b.cps.high + 1 .. N - 1 : CpDist(l, Intvl(b.cps.high, c)) >= MinLen[l]}
             A == {0} \cup below
             B == {N - 1} \cup above
  <1>1. Window(b) = Intvl(Max(A), Min(B))
    BY DEF Window
  <1>2. N \in Nat /\ b.cps.low \in 0 .. N - 1 /\ b.cps.high \in 0 .. N - 1
    BY GridAssumption DEF GridBoxes, InTables, Range0
  <1>3. A \in SUBSET Nat /\ \A x \in A : x <= b.cps.low
    BY <1>2
  <1>4. B \in SUBSET Nat /\ \A x \in B : b.cps.high <= x /\ x <= N - 1
    BY <1>2
  <1>5. Max(A) \in A
    <2> HIDE DEF below
    <2>1. A # {} /\ b.cps.low \in Nat
      BY <1>2
    <2> HIDE DEF A
    <2> QED BY <1>3, <2>1, Extremes
  <1>6. Min(B) \in B
    <2> HIDE DEF above
    <2>1. B # {} /\ N - 1 \in Nat
      BY <1>2
    <2> HIDE DEF B
    <2> QED BY <1>4, <2>1, Extremes
  <1>7. Window(b).low = Max(A) /\ Window(b).high = Min(B)
    BY <1>1 DEF Intvl
  <1>8. Max(A) = 0 \/ CpDist(l, Intvl(Max(A), b.cps.low)) >= MinLen[l]
    BY <1>5
  <1>9. Min(B) = N - 1 \/ CpDist(l, Intvl(b.cps.high, Min(B))) >= MinLen[l]
    BY <1>6
  <1> HIDE DEF A, B, below, above
  <1> QED BY <1>3, <1>4, <1>5, <1>6, <1>7, <1>8, <1>9

\* a longer range of cross points
LEMMA DistGrows ==
  ASSUME NEW l \in GridLayers, NEW a \in Range0(NumCrossPoints[l]), NEW b \in Range0(NumCrossPoints[l]),
         NEW c \in Range0(NumCrossPoints[l]), NEW d \in Range0(NumCrossPoints[l]), a <= b, c <= d
  PROVE  /\ CpDist(l, Intvl(b, c)) <= CpDist(l, Intvl(a, d))
         /\ CpDist(l, Intvl(a, d)) \in Int /\ CpDist(l, Intvl(b, c)) \in Int
         /\ CpDist(l, Intvl(a, d)) > 0 => a < d
  <1>1. /\ CrossPointLoc[l][a] <= CrossPointLoc[l][b] /\ CrossPointLoc[l][c] <= CrossPointLoc[l][d]
        /\ CrossPointLoc[l][a] \in Int /\ CrossPointLoc[l][b] \in Int
        /\ CrossPointLoc[l][c] \in Int /\ CrossPointLoc[l][d] \in Int
        /\ d <= a => CrossPointLoc[l][d] <= CrossPointLoc[l][a]
        /\ a \in Int /\ d \in Int
    BY CrossPointOrder
  <1>2. /\ CpDist(l, Intvl(a, d)) = CrossPointLoc[l][d] - CrossPointLoc[l][a]
        /\ CpDist(l, Intvl(b, c)) = CrossPointLoc[l][c] - CrossPointLoc[l][b]
    BY DEF CpDist, Intvl
  <1> QED BY <1>1, <1>2

\* the longest interval of elements of F around c, in a range
LEMMA LongestAround ==
  ASSUME NEW F, NEW low \in Nat, NEW high \in Nat, NEW c \in low .. high, c \in F
  PROVE  \E x, y \in low .. high :
           /\ x <= c /\ c <= y /\ \A i \in x .. y : i \in F
           /\ x = low \/ x - 1 \notin F
           /\ y = high \/ y + 1 \notin F
           /\ \A k \in low .. high : k <= c /\ (\A i \in k .. c : i \in F) => x <= k
           /\ \A k \in low .. high : c <= k /\ (\A i \in c .. k : i \in F) => k <= y
  <1> DEFINE A == {k \in low .. c : \A i \in k .. c : i \in F}
             B == {k \in c .. high : \A i \in c .. k : i \in F}
             x == Min(A)
             y == Max(B)
  <1>1. c \in Nat /\ low <= c /\ c <= high
    OBVIOUS
  <1>2. A \in SUBSET Nat /\ c \in A /\ \A k \in A : k <= c
    BY <1>1
  <1>3. B \in SUBSET Nat /\ c \in B /\ \A k \in B : k <= high
    BY <1>1
  <1>4. x \in A /\ \A k \in A : x <= k
    <2> HIDE DEF A
    <2> QED BY <1>1, <1>2, Extremes
  <1>5. y \in B /\ \A k \in B : k <= y
    <2> HIDE DEF B
    <2> QED BY <1>1, <1>3, Extremes
  <1> HIDE DEF x, y
  <1>6. x \in low .. c /\ y \in c .. high /\ (\A i \in x .. c : i \in F) /\ (\A i \in c .. y : i \in F)
    BY <1>4, <1>5
  <1>7. x \in Int /\ y \in Int /\ low <= x /\ x <= c /\ c <= y /\ y <= high
    BY <1>1, <1>6
  <1>8. \A i \in x .. y : i \in F
    <2>1. TAKE i \in x .. y
    <2>2. i \in x .. c \/ i \in c .. y
      BY <1>1, <1>7
    <2> QED BY <1>6, <2>2
  <1>9. x = low \/ x - 1 \notin F
    <2>1. SUFFICES ASSUME x # low, x - 1 \in F PROVE FALSE
      OBVIOUS
    <2>2. \A i \in x - 1 .. c : i = x - 1 \/ i \in x .. c
      BY <1>1, <1>7
    <2>3. x - 1 \in A
      BY <1>1, <1>6, <1>7, <2>1, <2>2
    <2> QED BY <1>4, <1>7, <2>3
  <1>10. y = high \/ y + 1 \notin F
    <2>1. SUFFICES ASSUME y # high, y + 1 \in F PROVE FALSE
      OBVIOUS
    <2>2. \A i \in c .. y + 1 : i = y + 1 \/ i \in c .. y
      BY <1>1, <1>7
    <2>3. y + 1 \in B
      BY <1>1, <1>6, <1>7, <2>1, <2>2
    <2> QED BY <1>5, <1>7, <2>3
  <1>11. \A k \in low .. high : k <= c /\ (\A i \in k .. c : i \in F) => x <= k
    BY <1>1, <1>4
  <1>12. \A k \in low .. high : c <= k /\ (\A i \in c .. k : i \in F) => k <= y
    BY <1>1, <1>5
  <1>13. x \in low .. high /\ y \in low .. high
    BY <1>1, <1>7
  <1> QED BY <1>7, <1>8, <1>9, <1>10, <1>11, <1>12, <1>13

\* a cross point of the guide is in an empty interval of the window that is long
\* enough just if it is in one of the whole track
LEMMA FlagsHold ==
  ASSUME NEW b \in GridBoxes, InTables(b), NEW t, NEW c \in In(b.cps), MinLen[b.layer] > 0
  PROVE  (\E e \in getEmptyIntvl(b.layer, t, Window(b)) : c \in In(e) /\ CpDist(b.layer, e) >= MinLen[b.layer])
         <=> \E lo, hi \in Range0(NumCrossPoints[b.layer]) :
               /\ c \in lo .. hi /\ CpDist(b.layer, Intvl(lo, hi)) >= MinLen[b.layer]
               /\ \A k \in lo .. hi : Point(b.layer, t, k) \in Free
  <1> DEFINE l == b.layer
             N == NumCrossPoints[l]
             W == Window(b)
             low == W.low
             high == W.high
             M == MinLen[l]
             F == {k \in Range0(N) : Point(l, t, k) \in Free}
             dist(i, j) == CpDist(l, Intvl(i, j))
             isFree(k) == Point(l, t, k) \in Free
             ends(w) == /\ w[1] <= w[2] /\ w[1] < high
                        /\ \A k \in w[1] .. w[2] : isFree(k)
                        /\ (w[1] = low \/ ~isFree(w[1] - 1)) /\ (w[2] = high \/ ~isFree(w[2] + 1))
  <1>1. /\ l \in GridLayers /\ N \in Nat /\ b.cps.low \in Range0(N) /\ b.cps.high \in Range0(N)
        /\ c \in Int /\ b.cps.low <= c /\ c <= b.cps.high /\ M \in Int /\ M > 0
    BY GridAssumption, GridGraphAssumption DEF GridBoxes, InTables, Range0, In
  <1>2. /\ low \in Nat /\ low <= b.cps.low
        /\ low = 0 \/ dist(low, b.cps.low) >= M
        /\ high \in Nat /\ b.cps.high <= high /\ high <= N - 1
        /\ high = N - 1 \/ dist(b.cps.high, high) >= M
    <2>1. IsValid(b.cps)
      BY <1>1 DEF IsValid, Range0
    <2> QED BY <2>1, WindowFacts
  <1>3. /\ c \in low .. high /\ low <= c /\ c <= high
        /\ \A k \in low .. high : k \in Range0(N)
    BY <1>1, <1>2 DEF Range0
  <1>4. getEmptyIntvl(l, t, W) = {Intvl(w[1], w[2]) : w \in {v \in (low .. high) \X (low .. high) : ends(v)}}
    BY DEF getEmptyIntvl, In
  <1>5. \A i, j : Intvl(i, j).low = i /\ Intvl(i, j).high = j /\ In(Intvl(i, j)) = i .. j
    BY DEF Intvl, In
  <1> HIDE DEF W, M, N, l, dist
  <1>6. ASSUME NEW e \in getEmptyIntvl(l, t, W), c \in In(e), CpDist(l, e) >= M
        PROVE  \E lo, hi \in Range0(N) : c \in lo .. hi /\ dist(lo, hi) >= M /\ \A k \in lo .. hi : isFree(k)
    <2>1. PICK w \in (low .. high) \X (low .. high) : ends(w) /\ e = Intvl(w[1], w[2])
      BY <1>4
    <2>2. w[1] \in Range0(N) /\ w[2] \in Range0(N)
      BY <1>3, <2>1
    <2>3. c \in w[1] .. w[2] /\ dist(w[1], w[2]) >= M
      BY <1>5, <1>6, <2>1 DEF dist
    <2> QED BY <2>1, <2>2, <2>3
  <1>7. ASSUME NEW lo \in Range0(N), NEW hi \in Range0(N), c \in lo .. hi, dist(lo, hi) >= M,
               \A k \in lo .. hi : isFree(k)
        PROVE  \E e \in getEmptyIntvl(l, t, W) : c \in In(e) /\ CpDist(l, e) >= M
    <2>1. /\ lo \in Int /\ hi \in Int /\ 0 <= lo /\ hi <= N - 1 /\ lo <= c /\ c <= hi /\ c \in Int
          /\ c \in Range0(N) /\ isFree(c)
      BY <1>1, <1>3, <1>7 DEF Range0
    <2>2. c \in F /\ \A k \in lo .. hi : k \in F
      BY <1>1, <1>7, <2>1 DEF Range0
    <2>3. \A k \in low .. high : k \in F <=> isFree(k)
      BY <1>3
    <2> HIDE DEF F
    <2>4. PICK x \in low .. high, y \in low .. high :
            /\ x <= c /\ c <= y /\ \A i \in x .. y : i \in F
            /\ x = low \/ x - 1 \notin F
            /\ y = high \/ y + 1 \notin F
            /\ \A k \in low .. high : k <= c /\ (\A i \in k .. c : i \in F) => x <= k
            /\ \A k \in low .. high : c <= k /\ (\A i \in c .. k : i \in F) => k <= y
      <3> HIDE DEF low, high
      <3> QED BY <1>2, <1>3, <2>2, LongestAround
    <2>5. x \in Int /\ y \in Int /\ low <= x /\ y <= high /\ x \in Range0(N) /\ y \in Range0(N)
      BY <1>2, <1>3
    \* the interval goes from lo to hi as far as they are in the window
    <2>6. lo < low => x = low
      <3>1. SUFFICES ASSUME lo < low PROVE x = low
        OBVIOUS
      <3>2. \A i \in low .. c : i \in lo .. hi
        BY <1>2, <2>1, <3>1
      <3>3. low \in low .. high /\ low <= c
        BY <1>2, <1>3
      <3>4. x <= low
        BY <2>2, <2>4, <3>2, <3>3
      <3> QED BY <1>2, <2>5, <3>4
    <2>7. lo >= low => x <= lo
      <3>1. SUFFICES ASSUME lo >= low PROVE x <= lo
        OBVIOUS
      <3>2. \A i \in lo .. c : i \in lo .. hi
        BY <2>1
      <3>3. lo \in low .. high
        BY <1>2, <1>3, <2>1, <3>1
      <3> QED BY <2>1, <2>2, <2>4, <3>2, <3>3
    <2>8. hi > high => y = high
      <3>1. SUFFICES ASSUME hi > high PROVE y = high
        OBVIOUS
      <3>2. \A i \in c .. high : i \in lo .. hi
        BY <1>2, <2>1, <3>1
      <3>3. high \in low .. high /\ c <= high
        BY <1>2, <1>3
      <3>4. high <= y
        BY <2>2, <2>4, <3>2, <3>3
      <3> QED BY <1>2, <2>5, <3>4
    <2>9. hi <= high => hi <= y
      <3>1. SUFFICES ASSUME hi <= high PROVE hi <= y
        OBVIOUS
      <3>2. \A i \in c .. hi : i \in lo .. hi
        BY <2>1
      <3>3. hi \in low .. high
        BY <1>2, <1>3, <2>1, <3>1
      <3> QED BY <2>1, <2>2, <2>4, <3>2, <3>3
    <2>10. dist(x, y) >= M /\ x < y
      <3>1. ASSUME NEW i \in Range0(N), NEW j \in Range0(N), x <= i, j <= y, dist(i, j) >= M
            PROVE  dist(x, y) >= M /\ x < y
        <4>1. /\ dist(i, j) <= dist(x, y) /\ dist(x, y) \in Int /\ dist(i, j) \in Int
              /\ dist(x, y) > 0 => x < y
          BY <1>1, <2>5, <3>1, DistGrows DEF dist, N
        <4> QED BY <1>1, <3>1, <4>1
      <3>2. CASE lo < low
        <4>1. dist(low, b.cps.low) >= M
          BY <1>2, <2>1, <3>2
        <4>2. low \in Range0(N) /\ low \in Int /\ x = low
          BY <1>2, <1>3, <2>6, <3>2
        <4>3. b.cps.low <= y /\ b.cps.low \in Int
          BY <1>1, <2>4, <2>5 DEF Range0
        <4> QED BY <1>1, <3>1, <4>1, <4>2, <4>3
      <3>3. CASE hi > high
        <4>1. dist(b.cps.high, high) >= M
          BY <1>2, <2>1, <3>3
        <4>2. high \in Range0(N) /\ high \in Int /\ y = high
          BY <1>2, <1>3, <2>8, <3>3
        <4>3. x <= b.cps.high /\ b.cps.high \in Int
          BY <1>1, <2>4, <2>5 DEF Range0
        <4> QED BY <1>1, <3>1, <4>1, <4>2, <4>3
      <3>4. CASE ~(lo < low) /\ ~(hi > high)
        <4>1. x <= lo /\ hi <= y
          BY <1>2, <2>1, <2>7, <2>9, <3>4
        <4> QED BY <1>7, <3>1, <4>1
      <3> QED BY <3>2, <3>3, <3>4
    <2> DEFINE w == <<x, y>>
    <2>11. ends(w)
      <3>1. x <= y /\ x < high
        BY <1>2, <2>5, <2>10
      <3>2. \A k \in x .. y : isFree(k)
        <4>1. \A k \in x .. y : k \in low .. high
          BY <1>2, <2>5
        <4> QED BY <2>3, <2>4, <4>1
      <3>3. x = low \/ ~isFree(x - 1)
        <4>1. x # low => x - 1 \in low .. high
          BY <1>2, <2>5
        <4> QED BY <2>3, <2>4, <4>1
      <3>4. y = high \/ ~isFree(y + 1)
        <4>1. y # high => y + 1 \in low .. high
          BY <1>2, <2>5
        <4> QED BY <2>3, <2>4, <4>1
      <3> HIDE DEF isFree
      <3> QED BY <3>1, <3>2, <3>3, <3>4
    <2>12. Intvl(x, y) \in getEmptyIntvl(l, t, W)
      <3>1. w \in (low .. high) \X (low .. high) /\ w[1] = x /\ w[2] = y
        OBVIOUS
      <3> HIDE DEF w, ends, low, high
      <3> QED BY <1>4, <2>11, <3>1
    <2>13. c \in In(Intvl(x, y))
      BY <1>1, <1>5, <2>4, <2>5
    <2> QED BY <2>10, <2>12, <2>13 DEF dist
  <1> QED BY <1>6, <1>7 DEF W, M, N, l, dist

\* what follows from it for the flags
FlagsInv == JoinsInv /\ MinAreaFlagsExact

\* flags say where a wire of minimum length fits
LEMMA FlagsExact ==
  ASSUME JoinsInv, phase = "done", status = "SUCC_NORMAL", UNCHANGED vars, setMinAreaFlags
  PROVE  MinAreaFlagsExact'
  <1> HIDE DEF GridBoxes, Disjoint
  <1> DEFINE D == DOMAIN gridGuides
             fixable(b, t) == {c \in In(b.cps) : \E e \in getEmptyIntvl(b.layer, t, Window(b)) :
                                 c \in In(e) /\ CpDist(b.layer, e) >= MinLen[b.layer]}
             flagged(b) == UNION {{Point(b.layer, t, c) : c \in fixable(b, t)} : t \in In(b.tracks)}
             fits(v) == \E lo, hi \in Range0(NumCrossPoints[v.layer]) :
                          /\ v.cp \in lo .. hi /\ CpDist(v.layer, Intvl(lo, hi)) >= MinLen[v.layer]
                          /\ \A c \in lo .. hi : Point(v.layer, v.track, c) \in Free
  <1>1. minAreaFixable' = UNION {flagged(gridGuides[g]) : g \in D} /\ Vertices' = Vertices
    BY BuiltOn DEF setMinAreaFlags
  <1>2. \A g \in D : gridGuides[g] \in GridBoxes /\ InTables(gridGuides[g])
    BY BuiltFrom
  <1>3. ASSUME NEW b \in GridBoxes, InTables(b), NEW v, MinLen[v.layer] > 0
        PROVE  v \in PointsIn(b) => (v \in flagged(b) <=> fits(v))
    <2>1. SUFFICES ASSUME v \in PointsIn(b) PROVE v \in flagged(b) <=> fits(v)
      OBVIOUS
    <2>2. PICK t \in In(b.tracks), c \in In(b.cps) : v = Point(b.layer, t, c)
      BY <2>1 DEF PointsIn, Point
    <2>3. v.layer = b.layer /\ v.track = t /\ v.cp = c
      BY <2>2 DEF Point
    <2>4. c \in fixable(b, t) <=> fits(v)
      BY <1>3, <2>2, <2>3, FlagsHold
    <2> HIDE DEF fixable, fits
    <2>5. c \in fixable(b, t) => v \in flagged(b)
      BY <2>2
    <2>6. v \in flagged(b) => c \in fixable(b, t)
      <3>1. SUFFICES ASSUME v \in flagged(b) PROVE c \in fixable(b, t)
        OBVIOUS
      <3>2. PICK s \in In(b.tracks) : v \in {Point(b.layer, s, d) : d \in fixable(b, s)}
        BY <3>1
      <3>3. PICK d \in fixable(b, s) : v = Point(b.layer, s, d)
        BY <3>2
      <3>4. s = t /\ d = c
        BY <2>2, <3>3 DEF Point
      <3> QED BY <3>4
    <2> QED BY <2>4, <2>5, <2>6
  <1>4. ASSUME NEW b, NEW v \in flagged(b) PROVE v \in PointsIn(b)
    <2>1. PICK t \in In(b.tracks) : v \in {Point(b.layer, t, c) : c \in fixable(b, t)}
      OBVIOUS
    <2>2. PICK c \in fixable(b, t) : v = Point(b.layer, t, c)
      BY <2>1
    <2>3. c \in In(b.cps)
      OBVIOUS
    <2> HIDE DEF fixable
    <2> QED BY <2>2, <2>3 DEF PointsIn, Point
  <1> HIDE DEF flagged, fits
  <1>5. ASSUME NEW v \in Vertices, MinLen[v.layer] > 0
        PROVE  v \in minAreaFixable' <=> fits(v)
    <2>1. PICK g \in D : v \in PointsIn(gridGuides[g])
      BY DEF Vertices
    <2>2. v \in minAreaFixable' <=> \E h \in D : v \in flagged(gridGuides[h])
      BY <1>1
    <2> QED BY <1>2, <1>3, <1>4, <1>5, <2>1, <2>2
  <1> QED BY <1>1, <1>5 DEF MinAreaFlagsExact, fits

\* On a layer that asks for a minimum length, setMinAreaFlags flags the vertices
\* where a wire of that length fits without violation on the whole track.
THEOREM SpecMinAreaFlagsExact == GraphSpec => []MinAreaFlagsExact
  <1>1. GraphInit => FlagsInv
    BY InitJoinsInv DEF FlagsInv, MinAreaFlagsExact, GraphInit
  <1>2. FlagsInv /\ [GraphNext]_<<vars, graphVars>> => FlagsInv'
    <2> SUFFICES ASSUME FlagsInv, [GraphNext]_<<vars, graphVars>> PROVE MinAreaFlagsExact'
      BY StepJoinsInv DEF FlagsInv
    <2>1. CASE setMinAreaFlags /\ phase = "done" /\ status = "SUCC_NORMAL" /\ UNCHANGED vars
      BY <2>1, FlagsExact DEF FlagsInv
    <2>2. CASE UNCHANGED <<vars, graphVars>>
      <3>1. UNCHANGED <<stage, minAreaFixable, Vertices>>
        BY <2>2 DEF graphVars, vars, netVars, Vertices
      <3> QED BY <3>1 DEF FlagsInv, MinAreaFlagsExact
    <2>3. CASE Next /\ UNCHANGED graphVars
      <3>1. stage' = "pins"
        <4>1. phase # "done"
          BY <2>3 DEF Next, Expand, expandGuidesToCoverPins, initGridBoxes, Check, Retry, Finish
        <4> QED BY <2>3, <4>1 DEF FlagsInv, JoinsInv, NotBefore, graphVars
      <3> QED BY <3>1 DEF MinAreaFlagsExact
    <2>4. CASE Build /\ ~setMinAreaFlags
      <3>1. stage' # "penalty"
        BY <2>4 DEF Build, UpdatePinVertices, ConnectGuides, addWrongWayConn, ConnectTracks,
                    addOutofPinPenalty, fixDisconnectedPin, Built
      <3> QED BY <3>1 DEF MinAreaFlagsExact
    <2> QED BY <2>1, <2>2, <2>3, <2>4 DEF GraphNext
  <1>3. FlagsInv => MinAreaFlagsExact
    BY DEF FlagsInv
  <1> QED BY <1>1, <1>2, <1>3, PTL DEF GraphSpec
=============================================================================
