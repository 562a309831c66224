-------------------------- MODULE RouteGridProofs ---------------------------
(***************************************************************************)
(* Proof that the mutexes make every update of a usage map atomic, and     *)
(* that between two phases the maps say just what the topologies of the    *)
(* routed nets do, for any number of threads and nets and any topologies.  *)
(***************************************************************************)
EXTENDS RouteGrid, TLAPS, FiniteSetTheorems

Worker == [net : Nets \cup {Idle}, k : Nat, j : Nat, inside : BOOLEAN]

Phases == {"idle", "commit", "mark", "rip", "clearExt", "commitExt"}

(***************************************************************************)
(* The inductive invariant. The parts:                                     *)
(*   Shape   as much of the types as the argument needs;                   *)
(*   Fresh   a thread inside a section holds the section's mutex, and what *)
(*           it read is still what the container holds;                    *)
(*   Solo    rip-up, where removeVia does not lock the mutex of the upper  *)
(*           map it updates, is done by one thread at a time;              *)
(*   Quiet   between two phases no thread has a net.                       *)
(***************************************************************************)
Shape ==
  /\ maps = [c \in Containers |-> maps[c]]
  /\ holder \in [Containers -> Threads \cup {NoThread}]
  /\ phase \in Phases
  /\ batch \subseteq Nets /\ pending \subseteq batch
  /\ worker \in [Threads -> Worker]
  /\ read = [t \in Threads |-> read[t]]
  /\ walk = [n \in Nets |-> walk[n]]
  /\ \A n \in Nets : walk[n] \in Walks[n] \cup {<< >>}

InSection(t) ==
  /\ worker[t].net \in Nets
  /\ worker[t].k \in 1 .. Len(walk[worker[t].net])
  /\ worker[t].j \in 1 .. Len(Sections(worker[t].net, worker[t].k))

Fresh ==
  \A t \in Threads : worker[t].inside =>
    /\ InSection(t)
    /\ holder[current(t).mutex] = t
    /\ read[t] = maps[current(t).of]

Solo ==
  phase = "rip" =>
    \A t, u \in Threads : worker[t] # AtRest /\ worker[u] # AtRest => t = u

Quiet == phase = "idle" => pending = {} /\ \A t \in Threads : worker[t] = AtRest

Positive == \A t \in Threads : worker[t].net # Idle => worker[t].k >= 1 /\ worker[t].j >= 1

IInv == Shape /\ Fresh /\ Solo /\ Quiet /\ Positive

-----------------------------------------------------------------------------
(* Sections.                                                               *)

LEMMA GridPointFields ==
  ASSUME NEW p \in GridPoint
  PROVE  /\ p.layer \in GridLayers /\ p.track \in Int /\ p.cp \in Int
         /\ p.track >= 0 /\ p.track < NumTracks[p.layer]
         /\ p \in [layer : {p.layer}, track : Range0(NumTracks[p.layer]),
                   cp : Range0(NumCrossPoints[p.layer])]
  <1>1. PICK l \in GridLayers :
          p \in [layer : {l}, track : Range0(NumTracks[l]),
                 cp : Range0(NumCrossPoints[l])]
    BY DEF GridPoint
  <1>2. NumTracks[l] \in Nat /\ NumCrossPoints[l] \in Nat
    BY GridAssumption
  <1> QED BY <1>1, <1>2 DEF Range0

LEMMA OnTrack ==
  ASSUME NEW p \in GridPoint, NEW q \in GridPoint, p.layer = q.layer,
         NEW x \in Int, p.track <= x, x <= q.track
  PROVE  [p EXCEPT !.track = x] \in GridPoint
  <1>1. x \in Range0(NumTracks[p.layer])
    BY GridPointFields, GridAssumption DEF Range0
  <1>2. [p EXCEPT !.track = x] \in
          [layer : {p.layer}, track : Range0(NumTracks[p.layer]),
           cp : Range0(NumCrossPoints[p.layer])]
    BY <1>1, GridPointFields
  <1> QED BY <1>2, GridPointFields DEF GridPoint

LEMMA TrackOfContainer ==
  ASSUME NEW p \in GridPoint, NEW kind \in {"wire", "via", "viaUpper"}
  PROVE  TrackOf(kind, p) \in Containers
  BY DEF Containers

(* The mutex of a section is that of some container, and its own but for   *)
(* the upper map in removeVia.                                             *)
GoodSection(s) == s.mutex \in Containers /\ s.of \in Containers

LEMMA WireSectionsGood ==
  ASSUME NEW e \in [u : GridPoint, v : GridPoint], NEW n, NEW op, isWire(e),
         NEW j \in 1 .. Len(WireSections(e, n, op))
  PROVE  /\ GoodSection(WireSections(e, n, op)[j])
         /\ WireSections(e, n, op)[j].mutex = WireSections(e, n, op)[j].of
  <1> DEFINE first == IF e.u.track <= e.v.track THEN e.u.track ELSE e.v.track
             last == IF e.u.track <= e.v.track THEN e.v.track ELSE e.u.track
             p == [e.u EXCEPT !.track = first + j - 1]
  <1>1. e.u \in GridPoint /\ e.v \in GridPoint /\ e.u.layer = e.v.layer
    BY DEF isWire, isTrackSegment, isWrongWaySegment
  <1>2. first \in Int /\ last \in Int /\ first <= last
    BY <1>1, GridPointFields
  <1>3. Len(WireSections(e, n, op)) = last - first + 1
    BY <1>2 DEF WireSections
  <1>4. j \in Int /\ j >= 1 /\ j <= last - first + 1
    BY <1>2, <1>3
  <1>5. WireSections(e, n, op)[j] = Section("wire", p, Cells(e, n), op)
    BY <1>2, <1>4 DEF WireSections
  <1>6. p \in GridPoint
    <2>1. CASE e.u.track <= e.v.track
      <3> DEFINE x == first + j - 1
      <3>1. x \in Int /\ e.u.track <= x /\ x <= e.v.track
        BY <1>1, <1>2, <1>4, <2>1, GridPointFields
      <3> QED BY <1>1, <3>1, OnTrack
    <2>2. CASE ~(e.u.track <= e.v.track)
      <3> DEFINE x == first + j - 1
      <3>1. x \in Int /\ e.v.track <= x /\ x <= e.u.track
        BY <1>2, <1>4, <2>2
      <3>2. [e.v EXCEPT !.track = x] \in GridPoint
        BY <1>1, <3>1, OnTrack
      <3>3. x \in Range0(NumTracks[e.u.layer])
        BY <1>1, <3>1, GridPointFields, GridAssumption DEF Range0
      <3>4. p \in [layer : {e.u.layer}, track : Range0(NumTracks[e.u.layer]),
                   cp : Range0(NumCrossPoints[e.u.layer])]
        BY <1>1, <3>3, GridPointFields
      <3> QED BY <1>1, <3>4, GridPointFields DEF GridPoint
    <2> QED BY <2>1, <2>2
  <1>7. TrackOf("wire", p) \in Containers
    BY <1>6, TrackOfContainer
  <1> QED BY <1>5, <1>7 DEF Section, GoodSection

LEMMA SegmentNoVia ==
  ASSUME NEW e \in [u : GridPoint, v : GridPoint], isTrackSegment(e)
  PROVE  ~isVia(e)
  <1>1. e.u.layer = e.v.layer /\ e.u.layer \in Int
    BY GridPointFields, GridAssumption DEF isTrackSegment, GridLayers
  <1>2. getUpper(e.u).layer = e.u.layer + 1
    BY DEF getUpper
  <1> QED BY <1>1, <1>2 DEF isVia, lower, upper

LEMMA ItemFacts ==
  ASSUME Shape, NEW n \in Nets, NEW k \in 1 .. Len(walk[n])
  PROVE  /\ walk[n][k] \in Item
         /\ walk[n][k].ext => ~isVia(walk[n][k].edge)
  <1>1. walk[n] \in Walks[n]
    <2>1. walk[n] # << >>
      OBVIOUS
    <2> QED BY <2>1 DEF Shape
  <1>2. /\ walk[n] \in Seq(Item)
        /\ walk[n][k].ext => isTrackSegment(walk[n][k].edge)
    BY <1>1, RouteGridAssumption
  <1>3. walk[n][k] \in Item
    BY <1>2
  <1> QED BY <1>2, <1>3, SegmentNoVia DEF Item

LEMMA ViaEnds ==
  ASSUME NEW e \in [u : GridPoint, v : GridPoint], isVia(e)
  PROVE  /\ lower(e) \in GridPoint /\ upper(e) \in GridPoint
         /\ getUpper(lower(e)) = upper(e)
  BY DEF isVia, lower, upper

LEMMA UseEdgeGood ==
  ASSUME NEW e \in [u : GridPoint, v : GridPoint], NEW n,
         NEW j \in 1 .. Len(useEdge(e, n))
  PROVE  /\ GoodSection(useEdge(e, n)[j])
         /\ useEdge(e, n)[j].mutex = useEdge(e, n)[j].of
  <1>1. CASE isVia(e)
    <2> DEFINE a == Section("via", lower(e), {<<lower(e).cp, n>>}, "emplace")
               b == Section("viaUpper", upper(e), {<<upper(e).cp, n>>}, "emplace")
    <2>1. useEdge(e, n) = <<a, b>>
      BY <1>1 DEF useEdge, isWire
    <2>2. /\ GoodSection(a) /\ a.mutex = a.of
          /\ GoodSection(b) /\ b.mutex = b.of
      BY <1>1, ViaEnds, TrackOfContainer DEF Section, GoodSection
    <2> HIDE DEF a, b
    <2> QED BY <2>1, <2>2
  <1>2. CASE ~isVia(e) /\ isWire(e)
    BY <1>2, WireSectionsGood DEF useEdge
  <1>3. CASE ~isVia(e) /\ ~isWire(e)
    BY <1>3 DEF useEdge
  <1> QED BY <1>1, <1>2, <1>3

LEMMA RemoveEdgeGood ==
  ASSUME NEW e \in [u : GridPoint, v : GridPoint], NEW n,
         NEW j \in 1 .. Len(removeEdge(e, n))
  PROVE  /\ GoodSection(removeEdge(e, n)[j])
         /\ ~isVia(e) => removeEdge(e, n)[j].mutex = removeEdge(e, n)[j].of
  <1>1. CASE isVia(e)
    <2> DEFINE p == lower(e)
               s == Section("viaUpper", getUpper(p), {<<getUpper(p).cp, n>>}, "erase")
               a == Section("via", p, {<<p.cp, n>>}, "erase")
               b == markViaType(p, DefaultType)[1]
               c == [s EXCEPT !.mutex = TrackOf("viaUpper", p)]
    <2>1. removeEdge(e, n) = <<a, b, c>>
      BY <1>1 DEF removeEdge, removeVia, isWire
    <2>3. p \in GridPoint /\ getUpper(p) \in GridPoint
      BY <1>1, ViaEnds
    <2>4. GoodSection(a)
      BY <2>3, TrackOfContainer DEF Section, GoodSection
    <2>5. GoodSection(b)
      BY DEF markViaType, GoodSection, Containers
    <2>6. GoodSection(c)
      BY <2>3, TrackOfContainer DEF Section, GoodSection
    <2> HIDE DEF a, b, c
    <2> QED BY <1>1, <2>1, <2>4, <2>5, <2>6
  <1>2. CASE ~isVia(e) /\ isWire(e)
    BY <1>2, WireSectionsGood DEF removeEdge
  <1>3. CASE ~isVia(e) /\ ~isWire(e)
    BY <1>3 DEF removeEdge
  <1> QED BY <1>1, <1>2, <1>3

(* A mutex that is not the container's own is only met in rip-up.          *)
LEMMA SectionsGood ==
  ASSUME Shape, NEW n \in Nets, NEW k \in 1 .. Len(walk[n]),
         NEW j \in 1 .. Len(Sections(n, k))
  PROVE  /\ GoodSection(Sections(n, k)[j])
         /\ phase # "rip" => Sections(n, k)[j].mutex = Sections(n, k)[j].of
  <1> DEFINE item == walk[n][k]
  <1>1. item \in Item /\ (item.ext => ~isVia(item.edge))
    BY ItemFacts
  <1>2. item.edge \in [u : GridPoint, v : GridPoint]
    BY <1>1 DEF Item
  <1> HIDE DEF item
  <1>3. \/ Sections(n, k) = useEdge(item.edge, n)
        \/ /\ Sections(n, k) = removeEdge(item.edge, n)
           /\ phase = "rip" \/ ~isVia(item.edge)
        \/ Sections(n, k) =
             markViaType(lower(item.edge), viaType[n][lower(item.edge)])
        \/ Sections(n, k) = << >>
    BY <1>1 DEF Sections, item
  <1>4. CASE Sections(n, k) = useEdge(item.edge, n)
    BY <1>2, <1>4, UseEdgeGood
  <1>5. CASE /\ Sections(n, k) = removeEdge(item.edge, n)
             /\ phase = "rip" \/ ~isVia(item.edge)
    BY <1>2, <1>5, RemoveEdgeGood
  <1>6. CASE Sections(n, k) =
               markViaType(lower(item.edge), viaType[n][lower(item.edge)])
    BY <1>6 DEF markViaType, GoodSection, Containers
  <1>7. CASE Sections(n, k) = << >>
    BY <1>7
  <1> QED BY <1>3, <1>4, <1>5, <1>6, <1>7

-----------------------------------------------------------------------------
(* The invariant is inductive.                                             *)

LEMMA InitIInv == Init => IInv
  <1> SUFFICES ASSUME Init PROVE IInv
    OBVIOUS
  <1>1. AtRest \in Worker
    BY DEF AtRest, Worker
  <1>2. Shape
    BY <1>1 DEF Init, Shape, Phases
  <1>3. Fresh /\ Solo /\ Quiet /\ Positive
    BY DEF Init, Fresh, Solo, Quiet, Positive, AtRest
  <1> QED BY <1>2, <1>3 DEF IInv

(* The steps of the main thread are taken while all threads are at rest.   *)
LEMMA MainIInv == IInv /\ Main => IInv'
  <1> SUFFICES ASSUME IInv, Main PROVE IInv'
    OBVIOUS
  <1>1. /\ \A t \in Threads : worker[t] = AtRest
        /\ UNCHANGED <<worker, maps, holder, read>>
    BY DEF IInv, Quiet, Main, Commit, Mark, Rip, ClearMinArea, CommitMinArea,
           Join, Begin
  <1>2. \A n \in Nets : walk'[n] \in Walks[n] \cup {<< >>}
    <2>1. CASE Commit
      <3>1. \E nets \in SUBSET At("out") :
              \E choice \in [nets -> UNION {Walks[n] : n \in nets}] :
              /\ \A n \in nets : choice[n] \in Walks[n]
              /\ walk' = [n \in Nets |-> IF n \in nets THEN choice[n] ELSE walk[n]]
        BY <2>1 DEF Commit
      <3> QED BY <3>1 DEF IInv, Shape
    <2>2. CASE CommitMinArea
      <3>1. PICK choice \in [batch -> UNION {Walks[n] : n \in batch}] :
              /\ \A n \in batch : choice[n] \in Walks[n]
              /\ walk' = [n \in Nets |-> IF n \in batch THEN choice[n] ELSE walk[n]]
        BY <2>2 DEF CommitMinArea
      <3> QED BY <3>1 DEF IInv, Shape
    <2>3. CASE Join
      BY <2>3 DEF IInv, Shape, Join
    <2>4. CASE Mark \/ Rip \/ ClearMinArea
      BY <2>4 DEF IInv, Shape, Mark, Rip, ClearMinArea
    <2> QED BY <2>1, <2>2, <2>3, <2>4 DEF Main
  <1>3. Shape'
    <2>1. /\ phase' \in Phases /\ batch' \subseteq Nets /\ pending' \subseteq batch'
      BY DEF IInv, Shape, Main, Commit, Mark, Rip, ClearMinArea, CommitMinArea,
             Join, Begin, At, Phases
    <2>2. walk' = [n \in Nets |-> walk'[n]]
      BY DEF IInv, Shape, Main, Commit, Mark, Rip, ClearMinArea, CommitMinArea, Join
    <2> QED BY <1>1, <1>2, <2>1, <2>2 DEF IInv, Shape
  <1>4. Fresh' /\ Solo' /\ Positive'
    <2>1. worker' = worker /\ \A t \in Threads : worker[t] = AtRest
      BY <1>1
    <2>2. ~AtRest.inside /\ AtRest.net = Idle
      BY DEF AtRest
    <2> QED BY <2>1, <2>2 DEF Fresh, Solo, Positive
  <1>5. Quiet'
    BY <1>1 DEF IInv, Quiet, Main, Commit, Mark, Rip, ClearMinArea,
                CommitMinArea, Join, Begin
  <1> QED BY <1>3, <1>4, <1>5 DEF IInv
(* A step of one thread leaves the section of every other where it was.    *)
LEMMA OthersStay ==
  ASSUME IInv, NEW t \in Threads, Thread(t)
  PROVE  /\ UNCHANGED <<phase, batch, walk, viaType>>
         /\ \A u \in Threads \ {t} :
              /\ UNCHANGED <<worker[u], read[u]>>
              /\ current(u)' = current(u)
              /\ InSection(u) => InSection(u)'
         /\ (/\ worker'[t].net = worker[t].net
             /\ worker'[t].k = worker[t].k /\ worker'[t].j = worker[t].j
             /\ InSection(t))
            => InSection(t)' /\ current(t)' = current(t)
  <1>1. UNCHANGED <<phase, batch, walk, viaType>>
    BY DEF Thread, Draw, Enter, Leave, NextEdge, EndNet, mainVars
  <1>2. \A u \in Threads \ {t} : UNCHANGED <<worker[u], read[u]>>
    BY DEF IInv, Shape, Thread, Draw, Enter, Leave, NextEdge, EndNet
  <1>3. \A u \in Threads \ {t} : current(u)' = current(u)
    BY <1>1, <1>2 DEF current, Sections
  <1>4. \A u \in Threads \ {t} : InSection(u) => InSection(u)'
    <2> SUFFICES ASSUME NEW u \in Threads \ {t}, InSection(u) PROVE InSection(u)'
      OBVIOUS
    <2>1. worker'[u] = worker[u] /\ walk' = walk
      BY <1>1, <1>2
    <2>2. Sections(worker[u].net, worker[u].k)' = Sections(worker[u].net, worker[u].k)
      BY <1>1, <2>1 DEF Sections
    <2> QED BY <2>1, <2>2 DEF InSection
  <1>5. ASSUME /\ worker'[t].net = worker[t].net
               /\ worker'[t].k = worker[t].k /\ worker'[t].j = worker[t].j,
               InSection(t)
        PROVE  InSection(t)' /\ current(t)' = current(t)
    <2>1. Sections(worker[t].net, worker[t].k)' = Sections(worker[t].net, worker[t].k)
      BY <1>1, <1>5 DEF Sections
    <2>2. current(t)' = current(t)
      BY <1>5, <2>1 DEF current
    <2> QED BY <1>1, <1>5, <2>1, <2>2 DEF InSection
  <1> QED BY <1>1, <1>2, <1>3, <1>4, <1>5

(* Only Enter takes a mutex and only Leave writes: a thread that is inside *)
(* a section is not disturbed by the others.                               *)
LEMMA FreshKept ==
  ASSUME IInv, NEW t \in Threads, Thread(t), NEW u \in Threads \ {t},
         worker[u].inside
  PROVE  /\ holder'[current(u).mutex] = u
         /\ maps'[current(u).of] = maps[current(u).of]
  <1>1. InSection(u) /\ holder[current(u).mutex] = u
    BY DEF IInv, Fresh
  <1>2. GoodSection(current(u))
    BY <1>1, SectionsGood DEF IInv, InSection, current
  <1>3. CASE Draw(t) \/ NextEdge(t) \/ EndNet(t)
    BY <1>1, <1>3 DEF Draw, NextEdge, EndNet
  <1>4. CASE Enter(t)
    <2>1. /\ holder[current(t).mutex] = NoThread
          /\ holder' = [holder EXCEPT ![current(t).mutex] = t]
          /\ maps' = maps
      BY <1>4 DEF Enter
    <2>2. current(u).mutex # current(t).mutex
      BY <1>1, <2>1, RouteGridAssumption DEF NoThread
    <2> QED BY <1>1, <1>2, <2>1, <2>2 DEF IInv, Shape, GoodSection
  <1>5. CASE Leave(t)
    <2>1. /\ worker[t].inside
          /\ holder' = [holder EXCEPT ![current(t).mutex] = NoThread]
          /\ maps' = [maps EXCEPT ![current(t).of] = Update(current(t), read[t])]
      BY <1>5 DEF Leave
    <2>2. InSection(t) /\ holder[current(t).mutex] = t
      BY <2>1 DEF IInv, Fresh
    <2>3. current(u).mutex # current(t).mutex
      BY <1>1, <2>2
    <2>4. phase # "rip"
      <3>1. worker[t] # AtRest /\ worker[u] # AtRest
        BY <2>1 DEF AtRest
      <3> QED BY <3>1 DEF IInv, Solo
    <2>5. current(u).of # current(t).of
      BY <1>1, <2>2, <2>3, <2>4, SectionsGood DEF IInv, InSection, current
    <2> QED BY <1>1, <1>2, <2>1, <2>3, <2>5 DEF IInv, Shape, GoodSection
  <1> QED BY <1>3, <1>4, <1>5 DEF Thread

(* What the steps of a thread do to its place.                             *)
Entered(w) == [w EXCEPT !.inside = TRUE]
Drawn(w, n) == [w EXCEPT !.net = n, !.k = 1, !.j = 1]
Left(w) == [w EXCEPT !.inside = FALSE, !.j = w.j + 1]
Moved(w) == [w EXCEPT !.k = w.k + 1, !.j = 1]

LEMMA DrawnWorker ==
  ASSUME NEW w \in Worker, NEW n \in Nets
  PROVE  /\ Drawn(w, n) \in Worker /\ (Drawn(w, n).inside <=> w.inside)
         /\ Drawn(w, n).k = 1 /\ Drawn(w, n).j = 1
  BY DEF Worker, Drawn

LEMMA WorkerSteps ==
  ASSUME NEW w \in Worker
  PROVE  /\ Entered(w) \in Worker
         /\ Entered(w).net = w.net /\ Entered(w).k = w.k /\ Entered(w).j = w.j
         /\ Left(w) \in Worker /\ ~Left(w).inside
         /\ Left(w).net = w.net /\ Left(w).k = w.k /\ Left(w).j = w.j + 1
         /\ Moved(w) \in Worker /\ (Moved(w).inside <=> w.inside)
         /\ Moved(w).net = w.net /\ Moved(w).k = w.k + 1 /\ Moved(w).j = 1
         /\ AtRest \in Worker /\ ~AtRest.inside /\ AtRest.net = Idle
         /\ w.k \in Nat /\ w.j \in Nat
  <1>1. w.k + 1 \in Nat /\ w.j + 1 \in Nat /\ w.k \in Nat /\ w.j \in Nat
    BY DEF Worker
  <1>2. Entered(w) \in Worker /\ Entered(w).net = w.net
        /\ Entered(w).k = w.k /\ Entered(w).j = w.j
    BY DEF Entered, Worker
  <1>3. Left(w) \in Worker /\ ~Left(w).inside
         /\ Left(w).net = w.net /\ Left(w).k = w.k /\ Left(w).j = w.j + 1
    BY <1>1 DEF Left, Worker
  <1>4. Moved(w) \in Worker /\ (Moved(w).inside <=> w.inside)
         /\ Moved(w).net = w.net /\ Moved(w).k = w.k + 1 /\ Moved(w).j = 1
    BY <1>1 DEF Moved, Worker
  <1>6. AtRest \in Worker /\ ~AtRest.inside /\ AtRest.net = Idle
    BY DEF AtRest, Worker
  <1> QED BY <1>1, <1>2, <1>3, <1>4, <1>6

LEMMA ThreadIInv ==
  ASSUME IInv, NEW t \in Threads, Thread(t)
  PROVE  IInv'
  <1>0. /\ worker[t] \in Worker /\ worker \in [Threads -> Worker]
        /\ read = [u \in Threads |-> read[u]]
    BY DEF IInv, Shape
  <1>w. LET w == worker[t] IN
        /\ Entered(w) \in Worker
        /\ Entered(w).net = w.net /\ Entered(w).k = w.k /\ Entered(w).j = w.j
        /\ Left(w) \in Worker /\ ~Left(w).inside
        /\ Left(w).net = w.net /\ Left(w).k = w.k /\ Left(w).j = w.j + 1
        /\ Moved(w) \in Worker /\ (Moved(w).inside <=> w.inside)
        /\ Moved(w).net = w.net /\ Moved(w).k = w.k + 1 /\ Moved(w).j = 1
        /\ AtRest \in Worker /\ ~AtRest.inside /\ AtRest.net = Idle
        /\ w.k \in Nat /\ w.j \in Nat
    <2>1. worker[t] \in Worker
      BY <1>0
    <2> QED BY <2>1, WorkerSteps
  <1>s. \/ Draw(t) /\ \E n \in Nets : worker' = [worker EXCEPT ![t] =
                         [worker[t] EXCEPT !.net = n, !.k = 1, !.j = 1]]
        \/ Enter(t) /\ worker' = [worker EXCEPT ![t] = Entered(worker[t])]
        \/ Leave(t) /\ worker' = [worker EXCEPT ![t] = Left(worker[t])]
        \/ NextEdge(t) /\ worker' = [worker EXCEPT ![t] = Moved(worker[t])]
        \/ EndNet(t) /\ worker' = [worker EXCEPT ![t] = AtRest]
    <2>1. pending \subseteq Nets
      BY DEF IInv, Shape
    <2>2. CASE Draw(t)
      BY <2>1, <2>2 DEF Draw
    <2>3. CASE Enter(t)
      BY <2>3 DEF Enter, Entered
    <2>4. CASE Leave(t)
      BY <2>4 DEF Leave, Left
    <2>5. CASE NextEdge(t)
      BY <2>5 DEF NextEdge, Moved
    <2>6. CASE EndNet(t)
      BY <2>6 DEF EndNet
    <2> QED BY <2>2, <2>3, <2>4, <2>5, <2>6 DEF Thread
  <1>1. /\ worker'[t] \in Worker /\ worker' = [worker EXCEPT ![t] = worker'[t]]
        /\ worker'[t].net # Idle => worker'[t].k >= 1 /\ worker'[t].j >= 1
        /\ worker'[t].inside => Enter(t)
    <2>1. worker[t].net # Idle => worker[t].k >= 1 /\ worker[t].j >= 1
      BY DEF IInv, Positive
    <2>2. worker[t] \in Worker
      BY <1>0
    <2>3. ASSUME NEW w \in Worker, worker' = [worker EXCEPT ![t] = w]
          PROVE  worker'[t] = w /\ worker' = [worker EXCEPT ![t] = worker'[t]]
      BY <1>0, <2>3
    <2>4. ASSUME Draw(t),
                 \E n \in Nets : worker' = [worker EXCEPT ![t] =
                              [worker[t] EXCEPT !.net = n, !.k = 1, !.j = 1]]
          PROVE  worker'[t] \in Worker /\ worker'[t].k = 1 /\ worker'[t].j = 1
                 /\ ~worker'[t].inside
                 /\ worker' = [worker EXCEPT ![t] = worker'[t]]
      <3>1. PICK n \in Nets : worker' = [worker EXCEPT ![t] = Drawn(worker[t], n)]
        BY <2>4 DEF Drawn
      <3>2. ~worker[t].inside
        BY <2>4, <1>w DEF Draw
      <3>3. /\ Drawn(worker[t], n) \in Worker
            /\ Drawn(worker[t], n).inside <=> worker[t].inside
            /\ Drawn(worker[t], n).k = 1 /\ Drawn(worker[t], n).j = 1
        BY <2>2, DrawnWorker
      <3>4. /\ worker'[t] = Drawn(worker[t], n)
            /\ worker' = [worker EXCEPT ![t] = worker'[t]]
        BY <2>3, <3>1, <3>3
      <3> QED BY <3>2, <3>3, <3>4
    <2>5. CASE Enter(t) /\ worker' = [worker EXCEPT ![t] = Entered(worker[t])]
      BY <2>1, <2>3, <2>5, <1>w
    <2>6. CASE Leave(t) /\ worker' = [worker EXCEPT ![t] = Left(worker[t])]
      <3>1. worker'[t] = Left(worker[t]) /\ worker' = [worker EXCEPT ![t] = worker'[t]]
        BY <2>3, <2>6, <1>w
      <3>2. Left(worker[t]).net # Idle => Left(worker[t]).k >= 1 /\ Left(worker[t]).j >= 1
        BY <2>1, <1>w
      <3> QED BY <1>w, <3>1, <3>2
    <2>7. CASE NextEdge(t) /\ worker' = [worker EXCEPT ![t] = Moved(worker[t])]
      <3>1. ~worker[t].inside
        BY <2>7 DEF NextEdge
      <3>2. worker'[t] = Moved(worker[t]) /\ worker' = [worker EXCEPT ![t] = worker'[t]]
        BY <2>3, <2>7, <1>w
      <3>3. Moved(worker[t]).k >= 1 /\ Moved(worker[t]).j >= 1
        BY <1>w
      <3> QED BY <1>w, <3>1, <3>2, <3>3
    <2>8. CASE EndNet(t) /\ worker' = [worker EXCEPT ![t] = AtRest]
      <3>1. worker'[t] = AtRest /\ worker' = [worker EXCEPT ![t] = worker'[t]]
        BY <2>3, <2>8, <1>w
      <3> QED BY <1>w, <3>1
    <2>9. CASE Draw(t) /\ \E n \in Nets : worker' = [worker EXCEPT ![t] =
                              [worker[t] EXCEPT !.net = n, !.k = 1, !.j = 1]]
      <3>1. 1 >= 1
        OBVIOUS
      <3> QED BY <2>4, <2>9, <3>1
    <2> QED BY <1>s, <2>9, <2>5, <2>6, <2>7, <2>8
  <1>2. worker' \in [Threads -> Worker]
    BY <1>0, <1>1
  <1>3. Shape'
    <2>1. pending' \subseteq batch'
      <3>1. pending' \subseteq pending
        BY DEF Thread, Draw, Enter, Leave, NextEdge, EndNet
      <3> QED BY <3>1, OthersStay DEF IInv, Shape
    <2>2. maps' = [c \in Containers |-> maps'[c]]
      BY DEF IInv, Shape, Thread, Draw, Enter, Leave, NextEdge, EndNet
    <2>3. holder' \in [Containers -> Threads \cup {NoThread}]
      <3>1. \/ holder' = holder
            \/ holder' = [holder EXCEPT ![current(t).mutex] = t]
            \/ holder' = [holder EXCEPT ![current(t).mutex] = NoThread]
        BY DEF Thread, Draw, Enter, Leave, NextEdge, EndNet
      <3> QED BY <3>1 DEF IInv, Shape
    <2>4. read' = [u \in Threads |-> read'[u]]
      BY <1>0 DEF Thread, Draw, Enter, Leave, NextEdge, EndNet
    <2> QED BY <1>2, <2>1, <2>2, <2>3, <2>4, OthersStay DEF IInv, Shape
  <1>4. Positive'
    BY <1>0, <1>1 DEF IInv, Positive
  <1>5. Quiet'
    <2>1. CASE Draw(t)
      BY <2>1, OthersStay DEF IInv, Quiet, Draw
    <2>2. CASE Enter(t) \/ Leave(t) \/ NextEdge(t) \/ EndNet(t)
      <3>1. worker[t] # AtRest
        BY <2>2 DEF Enter, Leave, NextEdge, EndNet, AtRest
      <3> QED BY <3>1, OthersStay DEF IInv, Quiet
    <2> QED BY <2>1, <2>2 DEF Thread
  <1>6. Solo'
    <2>1. CASE Draw(t)
      BY <1>0, <1>1, <2>1, OthersStay DEF IInv, Solo, Draw, MayRun
    <2>2. CASE Enter(t) \/ Leave(t) \/ NextEdge(t) \/ EndNet(t)
      <3>1. worker[t] # AtRest
        BY <2>2 DEF Enter, Leave, NextEdge, EndNet, AtRest
      <3> QED BY <1>0, <1>1, <3>1, OthersStay DEF IInv, Solo
    <2> QED BY <2>1, <2>2 DEF Thread
  <1>7. Fresh'
    <2> SUFFICES ASSUME NEW u \in Threads, worker'[u].inside
                 PROVE  /\ InSection(u)'
                        /\ holder'[current(u)'.mutex] = u
                        /\ read'[u] = maps'[current(u)'.of]
      BY DEF Fresh
    <2>1. CASE u # t
      <3>1. worker[u].inside /\ InSection(u) /\ read[u] = maps[current(u).of]
        <4>1. worker'[u] = worker[u]
          BY <2>1, OthersStay
        <4> QED BY <4>1 DEF IInv, Fresh
      <3>2. InSection(u)'
        BY <2>1, <3>1, OthersStay
      <3> QED BY <2>1, <3>1, <3>2, FreshKept, OthersStay
    <2>2. CASE u = t /\ Enter(t)
      <3>1. worker'[t] = Entered(worker[t])
        <4>1. worker' = [worker EXCEPT ![t] = Entered(worker[t])]
          BY <2>2 DEF Enter, Entered
        <4> QED BY <1>0, <4>1
      <3>2. /\ worker'[t].net = worker[t].net
            /\ worker'[t].k = worker[t].k /\ worker'[t].j = worker[t].j
        BY <1>w, <3>1
      <3>4. InSection(t)
        <4>1. /\ worker[t].net # Idle
              /\ worker[t].k <= Len(walk[worker[t].net])
              /\ worker[t].j <= Len(Sections(worker[t].net, worker[t].k))
          BY <2>2 DEF Enter
        <4>2. worker[t].net \in Nets /\ worker[t].k \in Nat /\ worker[t].j \in Nat
          BY <1>0, <4>1 DEF Worker
        <4>3. worker[t].k >= 1 /\ worker[t].j >= 1
          BY <4>1 DEF IInv, Positive
        <4> QED BY <4>1, <4>2, <4>3 DEF InSection
      <3>3. current(t)' = current(t)
        BY <3>2, <3>4, OthersStay
      <3>5. InSection(t)'
        BY <3>2, <3>4, OthersStay
      <3>6. GoodSection(current(t))
        BY <3>4, SectionsGood DEF IInv, InSection, current
      <3>7. /\ holder' = [holder EXCEPT ![current(t).mutex] = t]
            /\ read' = [read EXCEPT ![t] = maps[current(t).of]]
            /\ maps' = maps
        BY <2>2 DEF Enter
      <3> QED BY <1>0, <2>2, <3>3, <3>5, <3>6, <3>7 DEF IInv, Shape, GoodSection
    <2>3. CASE u = t /\ ~Enter(t)
      BY <1>1, <2>3
    <2> QED BY <2>1, <2>2, <2>3
  <1> QED BY <1>3, <1>4, <1>5, <1>6, <1>7 DEF IInv

LEMMA NextIInv == IInv /\ [Next]_vars => IInv'
  <1>1. ASSUME IInv, UNCHANGED vars PROVE IInv'
    <2>1. Shape' /\ Solo' /\ Quiet' /\ Positive'
      BY <1>1 DEF vars, IInv, Shape, Solo, Quiet, Positive
    <2>2. \A t \in Threads : current(t)' = current(t) /\ InSection(t)' = InSection(t)
      BY <1>1 DEF vars, current, Sections, InSection
    <2>3. Fresh'
      BY <1>1, <2>2 DEF vars, IInv, Fresh
    <2> QED BY <2>1, <2>3 DEF IInv
  <1> QED BY <1>1, MainIInv, ThreadIInv DEF Next

-----------------------------------------------------------------------------

(* The inductive invariant holds throughout.                               *)
THEOREM SpecIInv == Spec => []IInv
  BY InitIInv, NextIInv, PTL DEF Spec

(* No update of a usage map is ever lost: whatever threads commit, mark or *)
(* remove nets at the same time, each change of a map is one whole update  *)
(* of what the map holds at that moment.                                   *)
THEOREM SpecAtomicUpdates == Spec => AtomicUpdates
  <1> DEFINE A == \A c \in Containers : maps'[c] # maps[c] =>
                    \E t \in Threads : /\ worker[t].inside
                                       /\ current(t).of = c
                                       /\ maps'[c] = Update(current(t), maps[c])
  <1>1. IInv /\ [Next]_vars => [A]_vars
    <2>1. ASSUME IInv, NEW t \in Threads, Leave(t) PROVE A
      <3>1. /\ worker[t].inside
            /\ maps' = [maps EXCEPT ![current(t).of] = Update(current(t), read[t])]
        BY <2>1 DEF Leave
      <3>2. read[t] = maps[current(t).of]
        BY <2>1, <3>1 DEF IInv, Fresh
      <3>3. maps = [c \in Containers |-> maps[c]]
        BY <2>1 DEF IInv, Shape
      <3> QED BY <3>1, <3>2, <3>3
    <2>2. ASSUME NEW t \in Threads, Draw(t) \/ Enter(t) \/ NextEdge(t) \/ EndNet(t)
          PROVE  A
      BY <2>2 DEF Draw, Enter, NextEdge, EndNet
    <2>3. ASSUME Main PROVE A
      BY <2>3 DEF Main, Commit, Mark, Rip, ClearMinArea, CommitMinArea, Join, Begin
    <2> QED BY <2>1, <2>2, <2>3 DEF Next, Thread
  <1> QED BY <1>1, SpecIInv, PTL DEF Spec, AtomicUpdates

-----------------------------------------------------------------------------
(* What the maps hold between two phases: just what the routed nets'      *)
(* topologies do, whatever the threads' steps were.                        *)

(***************************************************************************)
(* How far a phase has come with a net: section j of item k of its walk is *)
(* done if the net has been drawn and its thread, if it still has one, is  *)
(* past the section.                                                       *)
(***************************************************************************)
Done(n, k, j) ==
  /\ n \in batch \ pending
  /\ \A t \in Threads : worker[t].net = n =>
       worker[t].k > k \/ (worker[t].k = k /\ worker[t].j > j)

\* the items of a walk with a wire or a via at a grid point
Crossing(n, p) ==
  {k \in DOMAIN walk[n] : isWire(walk[n][k].edge) /\ p \in SegmentPoints(walk[n][k].edge)}
ViaItems(n, p) ==
  {k \in DOMAIN walk[n] : isVia(walk[n][k].edge) /\ lower(walk[n][k].edge) = p}

\* the section for the track of a grid point
FirstTrack(e) == IF e.u.track <= e.v.track THEN e.u.track ELSE e.v.track
SectionOn(e, p) == p.track - FirstTrack(e) + 1

\* the section for the upper map of a via
UpperSection == IF phase = "rip" THEN 3 ELSE 2

\* the phase adds or removes the item's wire or via
Doing(n, k) ==
  /\ n \in batch
  /\ \/ phase \in {"commit", "rip"}
     \/ phase \in {"clearExt", "commitExt"} /\ walk[n][k].ext
Removing(n, k) == Doing(n, k) /\ phase \in {"rip", "clearExt"}

\* the maps hold the item when no phase is at it
Held(n, k) == Routed(n) /\ (walk[n][k].ext => stage[n] # "bare")

\* the maps hold what section j of the item is about
Has(n, k, j) ==
  IF Doing(n, k) THEN (Removing(n, k) <=> ~Done(n, k, j)) ELSE Held(n, k)

On(n, k, p) == Has(n, k, SectionOn(walk[n][k].edge, p))

(* Wires of one net may overlap, and removing one removes what the others  *)
(* have in common with it.                                                 *)
MayHold(n, p) ==
  /\ \E k \in Crossing(n, p) : On(n, k, p)
  /\ \A k \in Crossing(n, p) : Removing(n, k) => On(n, k, p)

ViasOn(n, p, j) == {k \in ViaItems(n, p) : Has(n, k, j)}

-----------------------------------------------------------------------------
(***************************************************************************)
(* The invariant, beside that of RouteGridProofs. The parts:               *)
(*   MapShape     the maps have an entry for each cross point and net, and *)
(*                each via has a type;                                     *)
(*   Staged       which nets a phase can be about;                         *)
(*   RippedApart  a net that is ripped up shares no via with one that      *)
(*                stays;                                                   *)
(*   Alone        no two threads have the same net, and one that a thread  *)
(*                has is not pending any more;                             *)
(*   WireInv, ViaInv, TypeInv  what the maps hold in the middle of phases. *)
(***************************************************************************)
Stages == {"out", "unmarked", "in", "bare"}

MapShape ==
  /\ \A c \in Containers : maps[c] = [e \in DOMAIN EmptyMap(c) |-> maps[c][e]]
  /\ viaType \in [Nets -> [GridPoint -> ViaTypes]]

Staged ==
  /\ stage \in [Nets -> Stages] /\ finishing \in BOOLEAN
  /\ finishing => At("unmarked") = {}
  /\ ~finishing => At("bare") = {}
  /\ phase = "idle" => \A s \in {"unmarked", "bare"} : At(s) # {} => At(s) = batch
  /\ phase = "commit" =>
       batch \subseteq At("out") /\ At("unmarked") = {} /\ ~finishing
  /\ phase = "mark" => /\ batch \subseteq At("unmarked") \cup At("in")
                       /\ At("unmarked") \subseteq batch /\ At("bare") = {}
  /\ phase = "rip" =>
       batch \subseteq At("in") /\ At("unmarked") = {} /\ At("bare") = {}
  /\ phase = "clearExt" => batch \subseteq At("in") /\ finishing /\ At("bare") = {}
  /\ phase = "commitExt" => batch = At("bare") /\ finishing

RippedApart ==
  phase = "rip" =>
    \A n \in batch, m \in Nets \ batch : Routed(m) => Vias(n) \cap Vias(m) = {}

Alone ==
  \A t \in Threads : worker[t].net # Idle =>
    /\ worker[t].net \in batch \ pending
    /\ \A u \in Threads : worker[u].net = worker[t].net => u = t

WireOK(p, n) ==
  /\ Wire(p, n) \in {0, 1}
  /\ Wire(p, n) = 1 => MayHold(n, p)
  /\ ~finishing /\ MayHold(n, p) => Wire(p, n) = 1

WireInv == \A p \in GridPoint, n \in Nets : WireOK(p, n)

ViaOK(p, n) ==
  /\ ViaEntries("via", p, n) = Cardinality(ViasOn(n, p, 1))
  /\ \A j \in {2, 3} : j = UpperSection =>
       ViaEntries("viaUpper", getUpper(p), n) = Cardinality(ViasOn(n, p, j))

LowerPoints == {q \in GridPoint : getUpper(q) \in GridPoint}

ViaInv == \A p \in LowerPoints, n \in Nets : ViaOK(p, n)

Users(p) == {n \in Nets : Routed(n) /\ p \in Vias(n)}

\* a via of the net at p has been marked or its mark erased
Handled(n, p, j) == \E k \in ViaItems(n, p) : Done(n, k, j)

Marked(n, p) ==
  IF phase = "mark" /\ n \in batch THEN Handled(n, p, 1)
  ELSE stage[n] # "unmarked" /\ ~(phase = "rip" /\ n \in batch)

TypeOK(p) ==
  /\ Users(p) = {} => ViaTypeAt(p) = DefaultType
  /\ \A n \in Nets : Users(p) = {n} /\ Marked(n, p) => ViaTypeAt(p) = viaType[n][p]
  /\ phase = "rip" => \A n \in batch : Handled(n, p, 2) => ViaTypeAt(p) = DefaultType

TypeInv == \A p \in GridPoint : TypeOK(p)

MInv ==
  MapShape /\ Staged /\ RippedApart /\ Alone /\ WireInv /\ ViaInv /\ TypeInv

-----------------------------------------------------------------------------
(* What a section touches.                                                 *)

LEMMA SamePoint ==
  ASSUME NEW p \in GridPoint, NEW q \in GridPoint,
         p.layer = q.layer, p.track = q.track, p.cp = q.cp
  PROVE  p = q
  <1>1. /\ p \in [layer : {p.layer}, track : Range0(NumTracks[p.layer]),
                  cp : Range0(NumCrossPoints[p.layer])]
        /\ q \in [layer : {q.layer}, track : Range0(NumTracks[q.layer]),
                  cp : Range0(NumCrossPoints[q.layer])]
    BY GridPointFields
  <1> QED BY <1>1

\* a section of a wire is about the grid points of the wire on one track
LEMMA WireSectionTouches ==
  ASSUME NEW e \in [u : GridPoint, v : GridPoint], isWire(e), NEW n, NEW op,
         NEW j \in 1 .. Len(WireSections(e, n, op)), NEW p \in GridPoint, NEW m
  PROVE  LET s == WireSections(e, n, op)[j]
         IN  /\ s.of = TrackOf("wire", p) /\ <<p.cp, m>> \in s.entries <=>
                  m = n /\ p \in SegmentPoints(e) /\ j = SectionOn(e, p)
             /\ s.of.kind = "wire" /\ s.op = op
  <1> DEFINE first == FirstTrack(e)
             last == IF e.u.track <= e.v.track THEN e.v.track ELSE e.u.track
             s == WireSections(e, n, op)[j]
  <1>1. e.u \in GridPoint /\ e.v \in GridPoint /\ e.u.layer = e.v.layer
    BY DEF isWire, isTrackSegment, isWrongWaySegment
  <1>2. /\ e.u.track \in Int /\ e.v.track \in Int /\ e.u.cp \in Int /\ e.v.cp \in Int
        /\ p.track \in Int /\ p.cp \in Int
    BY <1>1, GridPointFields
  <1>3. first \in Int /\ last \in Int /\ first <= last
    BY <1>2 DEF FirstTrack
  <1>4. Len(WireSections(e, n, op)) = last - first + 1
    BY <1>3 DEF WireSections, FirstTrack
  <1>5. j \in Int /\ j >= 1 /\ j <= last - first + 1
    BY <1>3, <1>4
  <1>6. s = Section("wire", [e.u EXCEPT !.track = first + j - 1], Cells(e, n), op)
    BY <1>3, <1>5 DEF WireSections, FirstTrack
  <1>7. /\ s.of = [kind |-> "wire", layer |-> e.u.layer, track |-> first + j - 1]
        /\ s.entries = Cells(e, n) /\ s.op = op
    <2>1. e.u \in [layer : {e.u.layer}, track : Range0(NumTracks[e.u.layer]),
                   cp : Range0(NumCrossPoints[e.u.layer])]
      BY <1>1, GridPointFields
    <2> QED BY <1>6, <2>1 DEF Section, TrackOf
  <1>8. s.of = TrackOf("wire", p) <=> p.layer = e.u.layer /\ p.track = first + j - 1
    BY <1>7 DEF TrackOf
  <1>9. Between(e.u.track, e.v.track) = first .. last
    BY <1>2 DEF Between, FirstTrack
  <1>10. <<p.cp, m>> \in Cells(e, n) <=>
            m = n /\ \E q \in SegmentPoints(e) : q.cp = p.cp
    BY DEF Cells
  <1>11. p \in SegmentPoints(e) <=> /\ p.layer = e.u.layer /\ p.track \in first .. last
                                    /\ p.cp \in Between(e.u.cp, e.v.cp)
    BY <1>9 DEF SegmentPoints
  <1>12. j = SectionOn(e, p) <=> p.track = first + j - 1
    BY <1>2, <1>3, <1>5, SMTT(30) DEF SectionOn
  <1>13. ASSUME s.of = TrackOf("wire", p), <<p.cp, m>> \in s.entries
         PROVE  m = n /\ p \in SegmentPoints(e) /\ j = SectionOn(e, p)
    <2>1. PICK q \in SegmentPoints(e) : q.cp = p.cp
      BY <1>7, <1>10, <1>13
    <2>2. p.cp \in Between(e.u.cp, e.v.cp)
      BY <2>1 DEF SegmentPoints
    <2>3. p.track \in first .. last
      BY <1>2, <1>3, <1>5, <1>8, <1>13
    <2> QED BY <1>7, <1>8, <1>10, <1>11, <1>12, <1>13, <2>2, <2>3
  <1>14. ASSUME m = n, p \in SegmentPoints(e), j = SectionOn(e, p)
         PROVE  s.of = TrackOf("wire", p) /\ <<p.cp, m>> \in s.entries
    BY <1>7, <1>8, <1>10, <1>11, <1>12, <1>14
  <1> QED BY <1>7, <1>13, <1>14

\* each grid point of a wire has a section
LEMMA SectionOnRange ==
  ASSUME NEW e \in [u : GridPoint, v : GridPoint], isWire(e), NEW n, NEW op,
         NEW p \in SegmentPoints(e)
  PROVE  SectionOn(e, p) \in 1 .. Len(WireSections(e, n, op))
  <1> DEFINE first == FirstTrack(e)
             last == IF e.u.track <= e.v.track THEN e.v.track ELSE e.u.track
  <1>1. e.u \in GridPoint /\ e.v \in GridPoint /\ p \in GridPoint
    BY DEF SegmentPoints
  <1>2. e.u.track \in Int /\ e.v.track \in Int /\ p.track \in Int
    BY <1>1, GridPointFields
  <1>3. p.track \in first .. last
    BY <1>2 DEF SegmentPoints, Between, FirstTrack
  <1>4. Len(WireSections(e, n, op)) = last - first + 1
    BY <1>2 DEF WireSections, FirstTrack
  <1> QED BY <1>2, <1>3, <1>4 DEF SectionOn, FirstTrack

\* a critical section about one net's via at a grid point, and what it touches
AboutVia(s, kind, q, n) == s.of = TrackOf(kind, q) /\ s.entries = {<<q.cp, n>>}
Touches(s, kind, p, m) == s.of = TrackOf(kind, p) /\ <<p.cp, m>> \in s.entries

LEMMA ViaTouches ==
  ASSUME NEW kind \in {"via", "viaUpper"}, NEW q \in GridPoint, NEW n, NEW s,
         AboutVia(s, kind, q, n),
         NEW type \in {"wire", "via", "viaUpper"}, NEW p \in GridPoint, NEW m
  PROVE  /\ Touches(s, type, p, m) <=> type = kind /\ m = n /\ p = q
         /\ s.of # routedNonDefViaMap
  <1>1. /\ s.of = [kind |-> kind, layer |-> q.layer, track |-> q.track]
        /\ s.entries = {<<q.cp, n>>}
    BY DEF AboutVia, TrackOf
  <1>2. s.of # routedNonDefViaMap
    BY <1>1 DEF routedNonDefViaMap
  <1>3. s.of = TrackOf(type, p) <=>
          type = kind /\ p.layer = q.layer /\ p.track = q.track
    BY <1>1 DEF TrackOf
  <1>4. <<p.cp, m>> \in s.entries <=> p.cp = q.cp /\ m = n
    BY <1>1
  <1> QED BY <1>2, <1>3, <1>4, SamePoint DEF Touches

\* what section j for an edge touches, if the last one is for the upper map
EdgeTouches(s, e, n, j, p, m, last) ==
  /\ Touches(s, "wire", p, m) <=>
       m = n /\ isWire(e) /\ p \in SegmentPoints(e) /\ j = SectionOn(e, p)
  /\ Touches(s, "via", p, m) <=> m = n /\ isVia(e) /\ lower(e) = p /\ j = 1
  /\ Touches(s, "viaUpper", p, m) <=> m = n /\ isVia(e) /\ upper(e) = p /\ j = last

UseSection(s, e) ==
  /\ s.of # routedNonDefViaMap
  /\ s.op = IF isVia(e) THEN "emplace" ELSE "add"

RemoveSection(s, e, j) ==
  /\ s.of = routedNonDefViaMap <=> isVia(e) /\ j = 2
  /\ IF s.of = routedNonDefViaMap
     THEN s.entries = {lower(e)} /\ s.op = DefaultType
     ELSE s.op = IF isVia(e) THEN "erase" ELSE "subtract"

LEMMA UseEdgeTouches ==
  ASSUME NEW e \in [u : GridPoint, v : GridPoint], NEW n,
         NEW j \in 1 .. Len(useEdge(e, n)), NEW p \in GridPoint, NEW m
  PROVE  /\ EdgeTouches(useEdge(e, n)[j], e, n, j, p, m, 2)
         /\ UseSection(useEdge(e, n)[j], e)
  <1> DEFINE s == useEdge(e, n)[j]
  <1>1. CASE isVia(e)
    <2> DEFINE a == Section("via", lower(e), {<<lower(e).cp, n>>}, "emplace")
               b == Section("viaUpper", upper(e), {<<upper(e).cp, n>>}, "emplace")
    <2>1. useEdge(e, n) = <<a, b>> /\ ~isWire(e)
      BY <1>1 DEF useEdge, isWire
    <2>2. lower(e) \in GridPoint /\ upper(e) \in GridPoint
      BY <1>1, ViaEnds
    <2>3. /\ \A type \in {"wire", "via", "viaUpper"} :
               Touches(a, type, p, m) <=>
                 type = "via" /\ m = n /\ p = lower(e)
          /\ a.of # routedNonDefViaMap /\ a.op = "emplace"
      <3>1. AboutVia(a, "via", lower(e), n) /\ a.op = "emplace"
        BY DEF Section, AboutVia
      <3> HIDE DEF a
      <3> QED BY <2>2, <3>1, ViaTouches
    <2>4. /\ \A type \in {"wire", "via", "viaUpper"} :
               Touches(b, type, p, m) <=>
                 type = "viaUpper" /\ m = n /\ p = upper(e)
          /\ b.of # routedNonDefViaMap /\ b.op = "emplace"
      <3>1. AboutVia(b, "viaUpper", upper(e), n) /\ b.op = "emplace"
        BY DEF Section, AboutVia
      <3> HIDE DEF b
      <3> QED BY <2>2, <3>1, ViaTouches
    <2> HIDE DEF a, b
    <2>5. (j = 1 /\ s = a) \/ (j = 2 /\ s = b)
      BY <2>1
    <2> QED BY <1>1, <2>1, <2>3, <2>4, <2>5 DEF EdgeTouches, UseSection
  <1>2. CASE ~isVia(e) /\ isWire(e)
    <2>1. useEdge(e, n) = WireSections(e, n, "add")
      BY <1>2 DEF useEdge
    <2>2. /\ Touches(s, "wire", p, m) <=>
               m = n /\ p \in SegmentPoints(e) /\ j = SectionOn(e, p)
          /\ s.of.kind = "wire" /\ s.op = "add"
      BY <1>2, <2>1, WireSectionTouches DEF Touches
    <2>3. \A type \in {"via", "viaUpper"} : ~Touches(s, type, p, m)
      BY <2>2 DEF TrackOf, Touches
    <2>4. s.of # routedNonDefViaMap
      BY <2>2 DEF routedNonDefViaMap
    <2> QED BY <1>2, <2>2, <2>3, <2>4 DEF EdgeTouches, UseSection
  <1>3. CASE ~isVia(e) /\ ~isWire(e)
    BY <1>3 DEF useEdge
  <1> QED BY <1>1, <1>2, <1>3

LEMMA RemoveEdgeTouches ==
  ASSUME NEW e \in [u : GridPoint, v : GridPoint], NEW n,
         NEW j \in 1 .. Len(removeEdge(e, n)), NEW p \in GridPoint, NEW m
  PROVE  /\ EdgeTouches(removeEdge(e, n)[j], e, n, j, p, m, 3)
         /\ RemoveSection(removeEdge(e, n)[j], e, j)
  <1> DEFINE s == removeEdge(e, n)[j]
  <1>1. CASE isVia(e)
    <2> DEFINE a == Section("via", lower(e), {<<lower(e).cp, n>>}, "erase")
               b == markViaType(lower(e), DefaultType)[1]
               c == Section("viaUpper", getUpper(lower(e)),
                            {<<getUpper(lower(e)).cp, n>>}, "erase")
               d == [c EXCEPT !.mutex = TrackOf("viaUpper", lower(e))]
    <2>1. removeEdge(e, n) = <<a, b, d>> /\ ~isWire(e)
      BY <1>1 DEF removeEdge, removeVia, isWire
    <2>2. /\ lower(e) \in GridPoint /\ getUpper(lower(e)) \in GridPoint
          /\ getUpper(lower(e)) = upper(e)
      BY <1>1, ViaEnds
    <2>3. /\ \A type \in {"wire", "via", "viaUpper"} :
               Touches(a, type, p, m) <=>
                 type = "via" /\ m = n /\ p = lower(e)
          /\ a.of # routedNonDefViaMap /\ a.op = "erase"
      <3>1. AboutVia(a, "via", lower(e), n) /\ a.op = "erase"
        BY DEF Section, AboutVia
      <3> HIDE DEF a
      <3> QED BY <2>2, <3>1, ViaTouches
    <2>4. /\ \A type \in {"wire", "via", "viaUpper"} :
               Touches(c, type, p, m) <=>
                 type = "viaUpper" /\ m = n /\ p = getUpper(lower(e))
          /\ c.of # routedNonDefViaMap /\ c.op = "erase"
      <3>1. AboutVia(c, "viaUpper", getUpper(lower(e)), n) /\ c.op = "erase"
        BY DEF Section, AboutVia
      <3> HIDE DEF c
      <3> QED BY <2>2, <3>1, ViaTouches
    <2>5. /\ \A type : Touches(d, type, p, m) <=> Touches(c, type, p, m)
          /\ d.of = c.of /\ d.op = c.op
      BY DEF Section, Touches
    <2>6. /\ b.of = routedNonDefViaMap /\ b.entries = {lower(e)} /\ b.op = DefaultType
          /\ \A type \in {"wire", "via", "viaUpper"} : ~Touches(b, type, p, m)
      BY DEF Touches, markViaType, routedNonDefViaMap, TrackOf
    <2> HIDE DEF a, b, c, d
    <2>7. (j = 1 /\ s = a) \/ (j = 2 /\ s = b) \/ (j = 3 /\ s = d)
      BY <2>1
    <2>8. CASE j = 1 /\ s = a
      BY <1>1, <2>1, <2>3, <2>8 DEF EdgeTouches, RemoveSection
    <2>9. CASE j = 2 /\ s = b
      BY <1>1, <2>1, <2>6, <2>9 DEF EdgeTouches, RemoveSection
    <2>10. CASE j = 3 /\ s = d
      BY <1>1, <2>1, <2>2, <2>4, <2>5, <2>10
            DEF EdgeTouches, RemoveSection
    <2> QED BY <2>7, <2>8, <2>9, <2>10
  <1>2. CASE ~isVia(e) /\ isWire(e)
    <2>1. removeEdge(e, n) = WireSections(e, n, "subtract")
      BY <1>2 DEF removeEdge
    <2>2. /\ Touches(s, "wire", p, m) <=>
               m = n /\ p \in SegmentPoints(e) /\ j = SectionOn(e, p)
          /\ s.of.kind = "wire" /\ s.op = "subtract"
      BY <1>2, <2>1, WireSectionTouches DEF Touches
    <2>3. \A type \in {"via", "viaUpper"} : ~Touches(s, type, p, m)
      BY <2>2 DEF TrackOf, Touches
    <2>4. s.of # routedNonDefViaMap
      BY <2>2 DEF routedNonDefViaMap
    <2> QED BY <1>2, <2>2, <2>3, <2>4 DEF EdgeTouches, RemoveSection
  <1>3. CASE ~isVia(e) /\ ~isWire(e)
    BY <1>3 DEF removeEdge
  <1> QED BY <1>1, <1>2, <1>3

\* no two grid points have the same grid point above them
LEMMA UpperInjective ==
  ASSUME NEW p \in LowerPoints, NEW q \in LowerPoints, getUpper(p) = getUpper(q)
  PROVE  p = q
  <1> DEFINE l == p.layer
  <1>1. p \in GridPoint /\ q \in GridPoint /\ getUpper(p) \in GridPoint
    BY DEF LowerPoints
  <1>2. \A r : /\ getUpper(r).layer = r.layer + 1
               /\ getUpper(r).track = UpperTrack[r.layer][r.cp]
               /\ getUpper(r).cp = UpperCrossPoint[r.layer][r.track]
    BY DEF getUpper
  <1>4. /\ p.layer \in GridLayers /\ q.layer \in GridLayers
        /\ p.layer \in Int /\ q.layer \in Int
    BY <1>1, GridPointFields, GridAssumption DEF GridLayers
  <1>5. q.layer = l /\ l + 1 \in GridLayers
    <2>1. p.layer + 1 = q.layer + 1
      BY <1>2
    <2>2. p.layer + 1 \in GridLayers
      BY <1>1, <1>2, GridPointFields
    <2> QED BY <1>4, <2>1, <2>2
  <1>6. /\ p.track \in Range0(NumTracks[l]) /\ p.cp \in Range0(NumCrossPoints[l])
        /\ q.track \in Range0(NumTracks[l]) /\ q.cp \in Range0(NumCrossPoints[l])
    BY <1>1, <1>5, GridPointFields
  <1>7. /\ UpperTrack[l][p.cp] = UpperTrack[l][q.cp]
        /\ UpperCrossPoint[l][p.track] = UpperCrossPoint[l][q.track]
    BY <1>2, <1>5
  <1>8. UpperTrack[l][p.cp] # -1 /\ UpperCrossPoint[l][p.track] # -1
    <2>1. /\ getUpper(p).track \in Range0(NumTracks[getUpper(p).layer])
          /\ getUpper(p).cp \in Range0(NumCrossPoints[getUpper(p).layer])
      BY <1>1, GridPointFields
    <2>2. \A n : \A x \in Range0(n) : x # -1
      BY DEF Range0
    <2> QED BY <1>2, <2>1, <2>2
  <1>9. p.cp = q.cp /\ p.track = q.track
    BY <1>4, <1>5, <1>6, <1>7, <1>8, UpperAssumption
  <1> QED BY <1>1, <1>5, <1>9, SamePoint

LEMMA WalkDomain ==
  ASSUME Shape, NEW n \in Nets
  PROVE  /\ walk[n] \in Seq(Item) /\ DOMAIN walk[n] = 1 .. Len(walk[n])
         /\ Len(walk[n]) \in Nat
  <1>1. walk[n] \in Seq(Item)
    <2>1. walk[n] \in Walks[n] \/ walk[n] = << >>
      BY DEF Shape
    <2>2. << >> \in Seq(Item)
      OBVIOUS
    <2> QED BY <2>1, <2>2, RouteGridAssumption
  <1> QED BY <1>1

LEMMA EdgeOf ==
  ASSUME Shape, NEW n \in Nets, NEW k \in 1 .. Len(walk[n])
  PROVE  /\ walk[n][k].edge \in [u : GridPoint, v : GridPoint]
         /\ walk[n][k].ext \in BOOLEAN
         /\ walk[n][k].ext => ~isVia(walk[n][k].edge)
         /\ k \in DOMAIN walk[n]
  BY ItemFacts, WalkDomain DEF Item

\* the section that is about an item's wire or via at a grid point
WireSection(n, k, j, p) ==
  k \in Crossing(n, p) /\ Doing(n, k) /\ j = SectionOn(walk[n][k].edge, p)
ViaSection(n, k, j, p, i) == k \in ViaItems(n, p) /\ Doing(n, k) /\ j = i

(* Which sections are about a net's wire and vias at a grid point, and what *)
(* they do.                                                                *)
SectionDoes(s, n, k, j, p, m) ==
  /\ Touches(s, "wire", p, m) <=> m = n /\ WireSection(n, k, j, p)
  /\ Touches(s, "wire", p, m) => s.op = IF Removing(n, k) THEN "subtract" ELSE "add"
  /\ Touches(s, "via", p, m) <=> m = n /\ ViaSection(n, k, j, p, 1)
  /\ Touches(s, "via", p, m) => s.op = IF Removing(n, k) THEN "erase" ELSE "emplace"
  /\ p \in LowerPoints =>
       /\ Touches(s, "viaUpper", getUpper(p), m) <=>
            m = n /\ ViaSection(n, k, j, p, UpperSection)
       /\ Touches(s, "viaUpper", getUpper(p), m) =>
            s.op = IF Removing(n, k) THEN "erase" ELSE "emplace"

LEMMA SectionTouches ==
  ASSUME Shape, NEW n \in Nets, n \in batch, NEW k \in 1 .. Len(walk[n]),
         NEW j \in 1 .. Len(Sections(n, k)), NEW p \in GridPoint, NEW m
  PROVE  SectionDoes(Sections(n, k)[j], n, k, j, p, m)
  <1> DEFINE e == walk[n][k].edge
             s == Sections(n, k)[j]
  <1>1. /\ e \in [u : GridPoint, v : GridPoint]
        /\ walk[n][k].ext \in BOOLEAN /\ (walk[n][k].ext => ~isVia(e))
        /\ k \in DOMAIN walk[n]
    BY EdgeOf
  <1>2. /\ k \in Crossing(n, p) <=> isWire(e) /\ p \in SegmentPoints(e)
        /\ k \in ViaItems(n, p) <=> isVia(e) /\ lower(e) = p
    BY <1>1 DEF Crossing, ViaItems
  <1>3. p \in LowerPoints /\ isVia(e) => (upper(e) = getUpper(p) <=> lower(e) = p)
    <2> SUFFICES ASSUME p \in LowerPoints, isVia(e), upper(e) = getUpper(p)
                 PROVE  lower(e) = p
      BY <1>1, ViaEnds
    <2>1. lower(e) \in LowerPoints /\ getUpper(lower(e)) = getUpper(p)
      BY <1>1, ViaEnds DEF LowerPoints
    <2> HIDE DEF e
    <2> QED BY <2>1, UpperInjective
  <1>4. p \in LowerPoints => getUpper(p) \in GridPoint
    BY DEF LowerPoints
  <1>5. CASE Sections(n, k) = useEdge(e, n) /\ Doing(n, k) /\ ~Removing(n, k)
    <2>1. UpperSection = 2
      BY <1>5 DEF UpperSection, Removing
    <2>2. j \in 1 .. Len(useEdge(e, n)) /\ s = useEdge(e, n)[j]
      BY <1>5
    <2> HIDE DEF e, s
    <2>3. /\ \A q \in GridPoint : EdgeTouches(s, e, n, j, q, m, 2)
          /\ UseSection(s, e)
      BY <1>1, <2>2, UseEdgeTouches
    <2>4. isVia(e) => ~isWire(e)
      BY DEF isWire
    <2> QED BY <1>2, <1>3, <1>4, <1>5, <2>1, <2>3, <2>4
            DEF SectionDoes, WireSection, ViaSection, EdgeTouches, UseSection, e, s
  <1>6. CASE /\ Sections(n, k) = removeEdge(e, n) /\ Removing(n, k)
             /\ phase = "rip" \/ ~isVia(e)
    <2>1. isVia(e) => UpperSection = 3
      BY <1>6 DEF UpperSection
    <2>2. j \in 1 .. Len(removeEdge(e, n)) /\ s = removeEdge(e, n)[j]
      BY <1>6
    <2> HIDE DEF e, s
    <2>3. /\ \A q \in GridPoint : EdgeTouches(s, e, n, j, q, m, 3)
          /\ RemoveSection(s, e, j)
      BY <1>1, <2>2, RemoveEdgeTouches
    <2>4. isVia(e) => ~isWire(e)
      BY DEF isWire
    <2>5. \A kind \in {"wire", "via", "viaUpper"}, q \in GridPoint :
            Touches(s, kind, q, m) => s.of # routedNonDefViaMap
      BY DEF Touches, TrackOf, routedNonDefViaMap
    <2>6. Doing(n, k)
      BY <1>6 DEF Removing
    <2> QED BY <1>2, <1>3, <1>4, <1>6, <2>1, <2>3, <2>4, <2>5, <2>6
            DEF SectionDoes, WireSection, ViaSection, EdgeTouches, RemoveSection, e, s
  <1>7. CASE /\ Sections(n, k) = markViaType(lower(e), viaType[n][lower(e)])
             /\ ~Doing(n, k)
    <2>1. s.of = routedNonDefViaMap
      BY <1>7 DEF markViaType
    <2>2. \A kind \in {"wire", "via", "viaUpper"}, q \in GridPoint :
            ~Touches(s, kind, q, m)
      BY <2>1 DEF Touches, TrackOf, routedNonDefViaMap
    <2> QED BY <1>4, <1>7, <2>2 DEF SectionDoes, WireSection, ViaSection
  <1>8. CASE Sections(n, k) = << >>
    BY <1>8
  <1>9. \/ Sections(n, k) = useEdge(e, n) /\ Doing(n, k) /\ ~Removing(n, k)
        \/ /\ Sections(n, k) = removeEdge(e, n) /\ Removing(n, k)
           /\ phase = "rip" \/ ~isVia(e)
        \/ /\ Sections(n, k) = markViaType(lower(e), viaType[n][lower(e)])
           /\ ~Doing(n, k)
        \/ Sections(n, k) = << >>
    BY <1>1 DEF Sections, Doing, Removing
  <1> QED BY <1>5, <1>6, <1>7, <1>8, <1>9

(* Which sections are about the type of a via.                             *)
LEMMA TypeSection ==
  ASSUME Shape, NEW n \in Nets, n \in batch, NEW k \in 1 .. Len(walk[n]),
         NEW j \in 1 .. Len(Sections(n, k)), Sections(n, k)[j].of = routedNonDefViaMap
  PROVE  LET s == Sections(n, k)[j]
             p == lower(walk[n][k].edge)
         IN  /\ s.entries = {p} /\ k \in ViaItems(n, p) /\ p \in GridPoint
             /\ \/ phase = "rip" /\ j = 2 /\ s.op = DefaultType
                \/ phase = "mark" /\ j = 1 /\ s.op = viaType[n][p]
  <1> DEFINE e == walk[n][k].edge
             p == lower(e)
             s == Sections(n, k)[j]
  <1>1. /\ e \in [u : GridPoint, v : GridPoint]
        /\ walk[n][k].ext \in BOOLEAN /\ (walk[n][k].ext => ~isVia(e))
        /\ k \in DOMAIN walk[n]
    BY EdgeOf
  <1>2. isVia(e) => k \in ViaItems(n, p) /\ p \in GridPoint
    BY <1>1, ViaEnds DEF ViaItems
  <1>3. CASE Sections(n, k) = useEdge(e, n)
    <2>1. j \in 1 .. Len(useEdge(e, n)) /\ s = useEdge(e, n)[j]
      BY <1>3
    <2>2. UseSection(s, e)
      BY <1>1, <2>1, UseEdgeTouches
    <2> QED BY <2>2 DEF UseSection
  <1>4. CASE Sections(n, k) = removeEdge(e, n) /\ (phase = "rip" \/ ~isVia(e))
    <2>1. j \in 1 .. Len(removeEdge(e, n)) /\ s = removeEdge(e, n)[j]
      BY <1>4
    <2>2. RemoveSection(s, e, j)
      BY <1>1, <2>1, RemoveEdgeTouches
    <2> QED BY <1>2, <1>4, <2>2 DEF RemoveSection
  <1>5. CASE /\ Sections(n, k) = markViaType(p, viaType[n][p])
             /\ phase = "mark" /\ isVia(e)
    <2>1. j = 1 /\ s.entries = {p} /\ s.op = viaType[n][p]
      BY <1>5 DEF markViaType
    <2> QED BY <1>2, <1>5, <2>1
  <1>6. CASE Sections(n, k) = << >>
    BY <1>6
  <1>7. \/ Sections(n, k) = useEdge(e, n)
        \/ Sections(n, k) = removeEdge(e, n) /\ (phase = "rip" \/ ~isVia(e))
        \/ /\ Sections(n, k) = markViaType(p, viaType[n][p])
           /\ phase = "mark" /\ isVia(e)
        \/ Sections(n, k) = << >>
    BY <1>1 DEF Sections
  <1> QED BY <1>3, <1>4, <1>5, <1>6, <1>7

(* Each wire and via a phase is about has the sections that are about it.  *)
LEMMA HasSections ==
  ASSUME Shape, NEW n \in Nets, n \in batch, NEW p \in GridPoint
  PROVE  /\ \A k \in Crossing(n, p) : Doing(n, k) =>
              /\ k \in 1 .. Len(walk[n])
              /\ SectionOn(walk[n][k].edge, p) \in 1 .. Len(Sections(n, k))
         /\ \A k \in ViaItems(n, p) :
              /\ k \in 1 .. Len(walk[n]) /\ ~walk[n][k].ext
              /\ Doing(n, k) => /\ 1 \in 1 .. Len(Sections(n, k))
                                /\ UpperSection \in 1 .. Len(Sections(n, k))
                                /\ phase \in {"commit", "rip"}
              /\ phase = "mark" => 1 \in 1 .. Len(Sections(n, k))
              /\ phase = "rip" => 2 \in 1 .. Len(Sections(n, k))
  <1>1. ASSUME NEW k \in Crossing(n, p), Doing(n, k)
        PROVE  /\ k \in 1 .. Len(walk[n])
               /\ SectionOn(walk[n][k].edge, p) \in 1 .. Len(Sections(n, k))
    <2> DEFINE e == walk[n][k].edge
    <2>1. k \in 1 .. Len(walk[n]) /\ isWire(e) /\ p \in SegmentPoints(e)
      BY WalkDomain DEF Crossing
    <2>2. e \in [u : GridPoint, v : GridPoint] /\ ~isVia(e)
      BY <2>1, EdgeOf DEF isWire
    <2>3. \A op : SectionOn(e, p) \in 1 .. Len(WireSections(e, n, op))
      BY <2>1, <2>2, SectionOnRange
    <2>4. \/ Sections(n, k) = WireSections(e, n, "add")
          \/ Sections(n, k) = WireSections(e, n, "subtract")
      BY <1>1, <2>1, <2>2 DEF Doing, Sections, useEdge, removeEdge
    <2> QED BY <2>1, <2>3, <2>4
  <1>2. ASSUME NEW k \in ViaItems(n, p)
        PROVE  /\ k \in 1 .. Len(walk[n]) /\ ~walk[n][k].ext
               /\ Doing(n, k) => /\ 1 \in 1 .. Len(Sections(n, k))
                                 /\ UpperSection \in 1 .. Len(Sections(n, k))
                                 /\ phase \in {"commit", "rip"}
               /\ phase = "mark" => 1 \in 1 .. Len(Sections(n, k))
               /\ phase = "rip" => 2 \in 1 .. Len(Sections(n, k))
    <2> DEFINE e == walk[n][k].edge
    <2>1. k \in 1 .. Len(walk[n]) /\ isVia(e)
      BY WalkDomain DEF ViaItems
    <2>2. walk[n][k].ext \in BOOLEAN /\ ~walk[n][k].ext
      BY <2>1, EdgeOf
    <2>3. ~isWire(e)
      BY <2>1 DEF isWire
    <2>4. /\ phase = "commit" => Len(Sections(n, k)) = 2
          /\ phase = "rip" => Len(Sections(n, k)) = 3
          /\ phase = "mark" => Len(Sections(n, k)) = 1
      BY <2>1, <2>2, <2>3
         DEF Sections, useEdge, removeEdge, removeVia, markViaType
    <2>5. Doing(n, k) => phase \in {"commit", "rip"}
      BY <2>2 DEF Doing
    <2>6. ASSUME phase \in {"commit", "rip"}
          PROVE  1 \in 1 .. Len(Sections(n, k)) /\ UpperSection \in 1 .. Len(Sections(n, k))
      <3>1. CASE phase = "commit"
        <4>1. UpperSection = 2
          BY <3>1 DEF UpperSection
        <4> QED BY <2>4, <3>1, <4>1, SMTT(30)
      <3>2. CASE phase = "rip"
        <4>1. UpperSection = 3
          BY <3>2 DEF UpperSection
        <4> QED BY <2>4, <3>2, <4>1, SMTT(30)
      <3> QED BY <2>6, <3>1, <3>2
    <2>7. /\ phase = "mark" => 1 \in 1 .. Len(Sections(n, k))
          /\ phase = "rip" => 2 \in 1 .. Len(Sections(n, k))
      BY <2>4
    <2> HIDE DEF e
    <2> QED BY <2>1, <2>2, <2>5, <2>6, <2>7
  <1> QED BY <1>1, <1>2

-----------------------------------------------------------------------------
(* How threads come along.                                                 *)

LEMMA DoneByOwner ==
  ASSUME NEW t \in Threads, worker[t].net \in batch \ pending, NEW h, NEW i,
         \A u \in Threads : worker[u].net = worker[t].net => u = t
  PROVE  Done(worker[t].net, h, i) <=>
           worker[t].k > h \/ (worker[t].k = h /\ worker[t].j > i)
  BY DEF Done

\* only the end of a critical section makes it done, and no other
LEMMA LeaveDone ==
  ASSUME IInv, Alone, NEW t \in Threads, Leave(t)
  PROVE  LET n == worker[t].net
             k == worker[t].k
             j == worker[t].j
         IN  /\ n \in Nets /\ n \in batch
             /\ k \in 1 .. Len(walk[n]) /\ j \in 1 .. Len(Sections(n, k))
             /\ ~Done(n, k, j)
             /\ \A m \in Nets, h \in Int, i \in Int :
                  Done(m, h, i)' <=> Done(m, h, i) \/ (m = n /\ h = k /\ i = j)
  <1> DEFINE n == worker[t].net
             k == worker[t].k
             j == worker[t].j
  <1>1. InSection(t) /\ worker[t] \in Worker
    BY DEF Leave, IInv, Fresh, Shape
  <1>2. /\ n \in Nets /\ n # Idle /\ k \in Nat /\ j \in Nat
        /\ k \in 1 .. Len(walk[n]) /\ j \in 1 .. Len(Sections(n, k))
    BY <1>1, RouteGridAssumption DEF InSection, Idle, Worker
  <1>3. n \in batch \ pending /\ \A u \in Threads : worker[u].net = n => u = t
    BY <1>2 DEF Alone
  <1>4. /\ worker' = [worker EXCEPT ![t] = Left(worker[t])]
        /\ batch' = batch /\ pending' = pending
    BY DEF Leave, Left, mainVars
  <1>5. /\ worker'[t] = Left(worker[t])
        /\ \A u \in Threads \ {t} : worker'[u] = worker[u]
    BY <1>4 DEF IInv, Shape
  <1>6. worker'[t].net = n /\ worker'[t].k = k /\ worker'[t].j = j + 1
    BY <1>1, <1>5, WorkerSteps
  <1>7. \A h, i : Done(n, h, i) <=> k > h \/ (k = h /\ j > i)
    BY <1>3, DoneByOwner
  <1>9. \A m \in Nets \ {n} : \A h, i : Done(m, h, i)' <=> Done(m, h, i)
    BY <1>4, <1>5, <1>6 DEF Done
  <1> HIDE DEF n, k, j
  <1>11. ~Done(n, k, j)
    BY <1>2, <1>7
  <1>12. ASSUME NEW m \in Nets, NEW h \in Int, NEW i \in Int
         PROVE  Done(m, h, i)' <=> Done(m, h, i) \/ (m = n /\ h = k /\ i = j)
    <2>1. CASE m = n
      <3>1. Done(m, h, i)' <=> k > h \/ (k = h /\ j + 1 > i)
        BY <1>3, <1>4, <1>5, <1>6, <2>1 DEF Done
      <3>2. Done(m, h, i) <=> k > h \/ (k = h /\ j > i)
        BY <1>3, <2>1 DEF Done, n, k, j
      <3> QED BY <1>2, <2>1, <3>1, <3>2
    <2>2. CASE m # n
      BY <1>9, <2>2
    <2> QED BY <2>1, <2>2
  <1> QED BY <1>2, <1>3, <1>11, <1>12 DEF n, k, j

LEMMA OtherDone ==
  ASSUME IInv, Alone, NEW t \in Threads, Draw(t) \/ Enter(t) \/ NextEdge(t) \/ EndNet(t),
         NEW n \in Nets, NEW k \in 1 .. Len(walk[n]), NEW j \in 1 .. Len(Sections(n, k))
  PROVE  Done(n, k, j)' <=> Done(n, k, j)
  <1>1. /\ worker \in [Threads -> Worker] /\ worker[t] \in Worker
        /\ pending \subseteq batch /\ batch \subseteq Nets
    BY DEF IInv, Shape
  <1>2. batch' = batch /\ \A u \in Threads \ {t} : worker'[u] = worker[u]
    BY <1>1 DEF Draw, Enter, NextEdge, EndNet, mainVars
  <1>3. j \in Int /\ j >= 1 /\ k \in Int /\ k >= 1 /\ k <= Len(walk[n])
        /\ j <= Len(Sections(n, k)) /\ n # Idle
    <2>1. n # Idle
      BY RouteGridAssumption DEF Idle
    <2>2. Len(walk[n]) \in Nat
      BY WalkDomain DEF IInv
    <2> QED BY <2>1, <2>2
  <1>4. CASE Draw(t)
    <2>1. worker[t].net = Idle
      BY <1>1, <1>4, WorkerSteps DEF Draw
    <2>2. \E m \in pending : /\ pending' = pending \ {m}
                             /\ worker' = [worker EXCEPT ![t] = Drawn(worker[t], m)]
      BY <1>4 DEF Draw, Drawn
    <2>3. PICK m \in pending : /\ pending' = pending \ {m}
                               /\ worker' = [worker EXCEPT ![t] = Drawn(worker[t], m)]
      BY <2>2
    <2>4. worker'[t].net = m /\ worker'[t].k = 1 /\ worker'[t].j = 1
      <3>1. worker'[t] = Drawn(worker[t], m)
        BY <1>1, <2>3
      <3> QED BY <1>1, <3>1 DEF Drawn, Worker
    <2>5. CASE n = m
      <3>1. ~Done(n, k, j)
        BY <2>3, <2>5 DEF Done
      <3>2. ~Done(n, k, j)'
        BY <1>3, <2>4, <2>5 DEF Done
      <3> QED BY <3>1, <3>2
    <2>6. CASE n # m
      BY <1>2, <1>3, <2>1, <2>3, <2>4, <2>6 DEF Done
    <2> QED BY <2>5, <2>6
  <1>5. CASE Enter(t)
    <2>1. worker' = [worker EXCEPT ![t] = Entered(worker[t])] /\ pending' = pending
      BY <1>5 DEF Enter, Entered
    <2>2. worker'[t] = Entered(worker[t])
      BY <1>1, <2>1
    <2>3. /\ worker'[t].net = worker[t].net
          /\ worker'[t].k = worker[t].k /\ worker'[t].j = worker[t].j
      BY <1>1, <2>2, WorkerSteps
    <2> QED BY <1>2, <2>1, <2>3 DEF Done
  <1>6. CASE NextEdge(t) \/ EndNet(t)
    <2> DEFINE m == worker[t].net
    <2>1. m \in Nets /\ worker[t].k \in Nat /\ worker[t].j \in Nat /\ pending' = pending
      BY <1>1, <1>6 DEF NextEdge, EndNet, Worker
    <2>2. m \in batch \ pending /\ \A u \in Threads : worker[u].net = m => u = t
      BY <1>6 DEF Alone, NextEdge, EndNet
    <2>3. CASE n # m
      <3>1. worker'[t].net # n
        <4>1. CASE NextEdge(t)
          <5>1. worker' = [worker EXCEPT ![t] = Moved(worker[t])]
            BY <4>1 DEF NextEdge, Moved
          <5>2. worker'[t] = Moved(worker[t])
            BY <1>1, <5>1
          <5> QED BY <1>1, <2>3, <5>2, WorkerSteps
        <4>2. CASE EndNet(t)
          <5>1. worker'[t] = AtRest
            BY <1>1, <4>2 DEF EndNet
          <5> QED BY <1>3, <5>1 DEF AtRest
        <4> QED BY <1>6, <4>1, <4>2
      <3> QED BY <1>2, <2>1, <2>3, <3>1 DEF Done
    <2>4. CASE n = m
      <3>1. Done(n, k, j) <=> worker[t].k > k \/ (worker[t].k = k /\ worker[t].j > j)
        BY <2>2, <2>4, DoneByOwner
      <3>2. CASE NextEdge(t)
        <4>1. worker' = [worker EXCEPT ![t] = Moved(worker[t])]
          BY <3>2 DEF NextEdge, Moved
        <4>2. worker'[t] = Moved(worker[t])
          BY <1>1, <4>1
        <4>3. worker'[t].net = n /\ worker'[t].k = worker[t].k + 1 /\ worker'[t].j = 1
          BY <1>1, <2>4, <4>2, WorkerSteps
        <4>4. Done(n, k, j)' <=>
                worker[t].k + 1 > k \/ (worker[t].k + 1 = k /\ 1 > j)
          BY <1>2, <2>1, <2>2, <2>4, <4>3 DEF Done
        <4>5. worker[t].k = k => worker[t].j > j
          <5>1. worker[t].j > Len(Sections(n, worker[t].k))
            BY <2>4, <3>2 DEF NextEdge
          <5>2. worker[t].k = k => Len(Sections(n, k)) = Len(Sections(n, worker[t].k))
            OBVIOUS
          <5> QED BY <1>3, <2>1, <5>1, <5>2
        <4> QED BY <1>3, <2>1, <3>1, <4>4, <4>5
      <3>3. CASE EndNet(t)
        <4>1. worker[t].k > Len(walk[n])
          BY <2>4, <3>3 DEF EndNet
        <4>2. Len(walk[n]) \in Nat
          BY WalkDomain DEF IInv
        <4>3. worker[t].k > k
          BY <1>3, <2>1, <4>1, <4>2
        <4>4. worker'[t].net = Idle
          BY <1>1, <3>3 DEF EndNet, AtRest
        <4>5. Done(n, k, j)'
          BY <1>2, <1>3, <2>1, <2>2, <2>4, <4>4 DEF Done
        <4> QED BY <3>1, <4>3, <4>5
      <3> QED BY <1>6, <3>2, <3>3
    <2> QED BY <2>3, <2>4
  <1> QED BY <1>4, <1>5, <1>6

-----------------------------------------------------------------------------
(* What the end of a critical section writes.                              *)

LEMMA ValueFacts ==
  ASSUME NEW x
  PROVE  /\ Value("add", x) = 1 /\ Value("subtract", x) = 0
         /\ Value("emplace", x) = x + 1
         /\ Value("erase", x) = IF x = 0 THEN 0 ELSE x - 1
         /\ \A type \in ViaTypes : Value(type, x) = type
  <1>1. /\ Value("add", x) = 1 /\ Value("subtract", x) = 0
        /\ Value("emplace", x) = x + 1
        /\ Value("erase", x) = IF x = 0 THEN 0 ELSE x - 1
    BY DEF Value
  <1>2. ASSUME NEW type \in ViaTypes PROVE Value(type, x) = type
    <2>1. type \notin {"add", "subtract", "emplace", "erase"}
      BY RouteGridAssumption
    <2> QED BY <2>1 DEF Value
  <1> QED BY <1>1, <1>2

Entry(kind, p, n) == maps[TrackOf(kind, p)][<<p.cp, n>>]

LEMMA LeaveWrites ==
  ASSUME IInv, MapShape, NEW t \in Threads, Leave(t)
  PROVE  LET s == current(t)
         IN  /\ \A kind \in {"wire", "via", "viaUpper"}, p \in GridPoint, n \in Nets :
                  Entry(kind, p, n)' = IF Touches(s, kind, p, n)
                                       THEN Value(s.op, Entry(kind, p, n))
                                       ELSE Entry(kind, p, n)
             /\ \A p \in GridPoint :
                  ViaTypeAt(p)' = IF s.of = routedNonDefViaMap /\ p \in s.entries
                                  THEN Value(s.op, ViaTypeAt(p)) ELSE ViaTypeAt(p)
             /\ MapShape'
  <1> DEFINE s == current(t)
  <1>1. /\ maps' = [maps EXCEPT ![s.of] = Update(s, read[t])]
        /\ read[t] = maps[s.of] /\ viaType' = viaType
    BY DEF Leave, IInv, Fresh, mainVars
  <1>2. s.of \in Containers
    BY SectionsGood DEF Leave, IInv, Fresh, InSection, current, GoodSection
  <1>3. maps = [c \in Containers |-> maps[c]]
    BY DEF IInv, Shape
  <1> HIDE DEF s
  <1>4. \A c \in Containers :
          maps'[c] = IF c = s.of THEN Update(s, maps[c]) ELSE maps[c]
    BY <1>1, <1>2, <1>3
  <1>5. ASSUME NEW c \in Containers
        PROVE  /\ DOMAIN maps[c] = DOMAIN EmptyMap(c)
               /\ maps'[c] = [e \in DOMAIN EmptyMap(c) |-> maps'[c][e]]
               /\ \A e \in DOMAIN EmptyMap(c) :
                    maps'[c][e] = IF c = s.of /\ e \in s.entries
                                  THEN Value(s.op, maps[c][e]) ELSE maps[c][e]
    <2>1. /\ maps[c] = [e \in DOMAIN EmptyMap(c) |-> maps[c][e]]
          /\ DOMAIN maps[c] = DOMAIN EmptyMap(c)
      BY DEF MapShape
    <2>2. CASE c = s.of
      <3>1. maps'[c] = [e \in DOMAIN EmptyMap(c) |->
                          IF e \in s.entries THEN Value(s.op, maps[c][e]) ELSE maps[c][e]]
        BY <1>4, <2>1, <2>2 DEF Update
      <3> QED BY <2>1, <2>2, <3>1
    <2>3. CASE c # s.of
      BY <1>4, <2>1, <2>3
    <2> QED BY <2>1, <2>2, <2>3
  <1>6. ASSUME NEW kind \in {"wire", "via", "viaUpper"}, NEW p \in GridPoint,
               NEW n \in Nets
        PROVE  Entry(kind, p, n)' = IF Touches(s, kind, p, n)
                                    THEN Value(s.op, Entry(kind, p, n))
                                    ELSE Entry(kind, p, n)
    <2> DEFINE c == TrackOf(kind, p)
    <2>1. c \in Containers /\ c # routedNonDefViaMap /\ c.layer = p.layer
      BY TrackOfContainer DEF TrackOf, routedNonDefViaMap
    <2>2. <<p.cp, n>> \in DOMAIN EmptyMap(c)
      <3>1. DOMAIN EmptyMap(c) = Entries(c)
        BY <2>1 DEF EmptyMap
      <3>2. p.cp \in {q.cp : q \in {r \in GridPoint : r.layer = c.layer}}
        BY <2>1
      <3> QED BY <3>1, <3>2 DEF Entries
    <2>3. maps'[c][<<p.cp, n>>] = IF c = s.of /\ <<p.cp, n>> \in s.entries
            THEN Value(s.op, maps[c][<<p.cp, n>>]) ELSE maps[c][<<p.cp, n>>]
      BY <1>5, <2>1, <2>2
    <2> QED BY <2>3 DEF Entry, Touches
  <1>7. ASSUME NEW p \in GridPoint
        PROVE  ViaTypeAt(p)' = IF s.of = routedNonDefViaMap /\ p \in s.entries
                               THEN Value(s.op, ViaTypeAt(p)) ELSE ViaTypeAt(p)
    <2>1. routedNonDefViaMap \in Containers /\ p \in DOMAIN EmptyMap(routedNonDefViaMap)
      BY DEF Containers, EmptyMap
    <2> QED BY <1>5, <2>1 DEF ViaTypeAt
  <1>8. MapShape'
    <2>1. \A c \in Containers : maps'[c] = [e \in DOMAIN EmptyMap(c) |-> maps'[c][e]]
      BY <1>5
    <2> QED BY <1>1, <2>1 DEF MapShape
  <1> QED BY <1>6, <1>7, <1>8 DEF s

-----------------------------------------------------------------------------
(* The steps of threads.                                                   *)

LEMMA ThreadAlone ==
  ASSUME IInv, Alone, NEW t \in Threads, Thread(t)
  PROVE  Alone'
  <1>1. /\ worker \in [Threads -> Worker] /\ worker[t] \in Worker
        /\ pending \subseteq batch /\ batch \subseteq Nets /\ batch' = batch
    BY OthersStay DEF IInv, Shape
  <1>2. CASE Draw(t)
    <2>1. PICK m \in pending : /\ pending' = pending \ {m}
                               /\ worker' = [worker EXCEPT ![t] = Drawn(worker[t], m)]
      BY <1>2 DEF Draw, Drawn
    <2>2. worker'[t].net = m /\ \A u \in Threads \ {t} : worker'[u] = worker[u]
      BY <1>1, <2>1 DEF Drawn, Worker
    <2>3. \A u \in Threads : worker[u].net # m
      BY <1>1, <2>1, RouteGridAssumption DEF Alone, Idle
    <2> QED BY <1>1, <2>1, <2>2, <2>3 DEF Alone
  <1>3. CASE Enter(t) \/ Leave(t) \/ NextEdge(t) \/ EndNet(t)
    <2>1. worker'[t].net = worker[t].net \/ worker'[t].net = Idle
      <3>1. \/ worker' = [worker EXCEPT ![t] = Entered(worker[t])]
            \/ worker' = [worker EXCEPT ![t] = Left(worker[t])]
            \/ worker' = [worker EXCEPT ![t] = Moved(worker[t])]
            \/ worker' = [worker EXCEPT ![t] = AtRest]
        BY <1>3 DEF Enter, Leave, NextEdge, EndNet, Entered, Left, Moved
      <3>2. worker'[t] \in {Entered(worker[t]), Left(worker[t]), Moved(worker[t]), AtRest}
        BY <1>1, <3>1
      <3> QED BY <1>1, <3>2, WorkerSteps
    <2>2. pending' = pending /\ \A u \in Threads \ {t} : worker'[u] = worker[u]
      BY <1>1, <1>3 DEF Enter, Leave, NextEdge, EndNet
    <2> QED BY <1>1, <2>1, <2>2 DEF Alone
  <1> QED BY <1>2, <1>3 DEF Thread

\* what is done of a phase that runs is not about other parts of the state
LEMMA ThreadKeeps ==
  ASSUME IInv, NEW t \in Threads, Thread(t)
  PROVE  /\ UNCHANGED <<phase, batch, walk, viaType, stage, finishing>>
         /\ \A n, k : (Doing(n, k)' <=> Doing(n, k)) /\ (Removing(n, k)' <=> Removing(n, k))
                      /\ (Held(n, k)' <=> Held(n, k))
         /\ \A n, p : Crossing(n, p)' = Crossing(n, p) /\ ViaItems(n, p)' = ViaItems(n, p)
         /\ \A p : Users(p)' = Users(p)
         /\ UpperSection' = UpperSection
  <1>1. UNCHANGED <<phase, batch, walk, viaType, stage, finishing>>
    BY DEF Thread, Draw, Enter, Leave, NextEdge, EndNet, mainVars
  <1>2. ASSUME NEW n, NEW k
        PROVE  (Doing(n, k)' <=> Doing(n, k)) /\ (Removing(n, k)' <=> Removing(n, k))
               /\ (Held(n, k)' <=> Held(n, k))
    BY <1>1 DEF Doing, Removing, Held, Routed
  <1>3. ASSUME NEW n, NEW p
        PROVE  Crossing(n, p)' = Crossing(n, p) /\ ViaItems(n, p)' = ViaItems(n, p)
    BY <1>1 DEF Crossing, ViaItems
  <1>4. ASSUME NEW p PROVE Users(p)' = Users(p)
    BY <1>1 DEF Users, Routed, Vias
  <1>5. UpperSection' = UpperSection
    BY <1>1 DEF UpperSection
  <1> QED BY <1>1, <1>2, <1>3, <1>4, <1>5

(* The end of a critical section turns what the maps have of its item.     *)
Ends(t, n, k, j) ==
  Leave(t) /\ n = worker[t].net /\ k = worker[t].k /\ j = worker[t].j

LEMMA EndsSection ==
  ASSUME IInv, Alone, NEW t \in Threads, NEW n, NEW k, NEW j, Ends(t, n, k, j)
  PROVE  /\ n \in Nets /\ n \in batch /\ k \in 1 .. Len(walk[n])
         /\ j \in 1 .. Len(Sections(n, k)) /\ current(t) = Sections(n, k)[j]
         /\ k \in Int /\ j \in Int /\ Shape
  BY LeaveDone DEF Ends, current, IInv

LEMMA EndsHas ==
  ASSUME IInv, Alone, NEW t \in Threads, NEW n, NEW k, NEW j, Ends(t, n, k, j)
  PROVE  /\ Doing(n, k) => (Has(n, k, j) <=> Removing(n, k))
         /\ \A m \in Nets, h \in Int, i \in Int :
              Has(m, h, i)' <=> IF m = n /\ h = k /\ i = j /\ Doing(m, h)
                                THEN ~Removing(m, h) ELSE Has(m, h, i)
  <1>1. Leave(t) /\ Thread(t)
    BY DEF Ends, Thread
  <1>2. ~Done(n, k, j)
    BY <1>1, LeaveDone DEF Ends
  <1>3. \A m \in Nets, h \in Int, i \in Int :
          Done(m, h, i)' <=> Done(m, h, i) \/ (m = n /\ h = k /\ i = j)
    BY <1>1, LeaveDone DEF Ends
  <1>4. Doing(n, k) => (Has(n, k, j) <=> Removing(n, k))
    BY <1>2 DEF Has
  <1>5. ASSUME NEW m \in Nets, NEW h \in Int, NEW i \in Int
        PROVE  Has(m, h, i)' <=> IF m = n /\ h = k /\ i = j /\ Doing(m, h)
                                 THEN ~Removing(m, h) ELSE Has(m, h, i)
    <2>1. /\ Doing(m, h)' <=> Doing(m, h)
          /\ Removing(m, h)' <=> Removing(m, h)
          /\ Held(m, h)' <=> Held(m, h)
      BY <1>1, ThreadKeeps
    <2>2. Done(m, h, i)' <=> Done(m, h, i) \/ (m = n /\ h = k /\ i = j)
      BY <1>3
    <2>3. Has(m, h, i)' <=> IF Doing(m, h)' THEN (Removing(m, h)' <=> ~Done(m, h, i)')
                                            ELSE Held(m, h)'
      BY DEF Has
    <2>4. CASE m = n /\ h = k /\ i = j
      BY <2>1, <2>2, <2>3, <2>4 DEF Has
    <2>5. CASE ~(m = n /\ h = k /\ i = j)
      BY <2>1, <2>2, <2>3, <2>5 DEF Has
    <2> QED BY <2>4, <2>5
  <1> QED BY <1>4, <1>5

LEMMA OtherHas ==
  ASSUME IInv, Alone, NEW t \in Threads, Draw(t) \/ Enter(t) \/ NextEdge(t) \/ EndNet(t),
         NEW n \in Nets, NEW k, NEW j,
         Doing(n, k) => k \in 1 .. Len(walk[n]) /\ j \in 1 .. Len(Sections(n, k))
  PROVE  Has(n, k, j)' <=> Has(n, k, j)
  <1>1. /\ Doing(n, k)' <=> Doing(n, k)
        /\ Removing(n, k)' <=> Removing(n, k)
        /\ Held(n, k)' <=> Held(n, k)
    BY ThreadKeeps DEF Thread
  <1>2. Doing(n, k) => (Done(n, k, j)' <=> Done(n, k, j))
    BY OtherDone
  <1>3. Has(n, k, j)' <=> IF Doing(n, k)' THEN (Removing(n, k)' <=> ~Done(n, k, j)')
                                          ELSE Held(n, k)'
    BY DEF Has
  <1> QED BY <1>1, <1>2, <1>3 DEF Has

(* Wires: adding one puts it down, and removing one leaves nothing of it.  *)
LEMMA LeaveWireOK ==
  ASSUME IInv, Alone, MapShape, NEW t \in Threads, NEW m, NEW h, NEW i,
         Ends(t, m, h, i), NEW p \in GridPoint, NEW n \in Nets, WireOK(p, n)
  PROVE  WireOK(p, n)'
  <1> DEFINE s == current(t)
  <1>1. Leave(t) /\ Thread(t)
    BY DEF Ends, Thread
  <1>2. /\ m \in Nets /\ m \in batch /\ h \in 1 .. Len(walk[m])
        /\ i \in 1 .. Len(Sections(m, h)) /\ s = Sections(m, h)[i] /\ Shape
    BY EndsSection
  <1>3. /\ Touches(s, "wire", p, n) <=> n = m /\ WireSection(m, h, i, p)
        /\ Touches(s, "wire", p, n) => s.op = IF Removing(m, h) THEN "subtract" ELSE "add"
    <2>1. SectionDoes(s, m, h, i, p, n)
      BY <1>2, SectionTouches
    <2> QED BY <2>1 DEF SectionDoes
  <1>4. Wire(p, n)' = IF Touches(s, "wire", p, n) THEN Value(s.op, Wire(p, n)) ELSE Wire(p, n)
    BY <1>1, LeaveWrites DEF Entry, Wire
  <1>5. /\ Crossing(n, p)' = Crossing(n, p) /\ finishing' = finishing
        /\ \A k : Removing(n, k)' <=> Removing(n, k)
        /\ \A k : SectionOn(walk[n][k].edge, p)' = SectionOn(walk[n][k].edge, p)
    BY <1>1, ThreadKeeps DEF SectionOn, FirstTrack
  <1>6. ASSUME NEW k \in Crossing(n, p)
        PROVE  On(n, k, p)' <=> IF Touches(s, "wire", p, n) /\ k = h
                                THEN ~Removing(n, k) ELSE On(n, k, p)
    <2> DEFINE j == SectionOn(walk[n][k].edge, p)
    <2>1. k \in Int
      BY <1>2, WalkDomain DEF Crossing
    <2>2. j \in Int
      <3>1. k \in 1 .. Len(walk[n])
        BY <1>2, WalkDomain DEF Crossing
      <3>2. walk[n][k].edge.u \in GridPoint /\ walk[n][k].edge.v \in GridPoint
        BY <1>2, <3>1, EdgeOf
      <3> QED BY <3>2, GridPointFields DEF SectionOn, FirstTrack
    <2>3. \A x : x = j => (Has(n, k, x)' <=> IF n = m /\ k = h /\ x = i /\ Doing(n, k)
                                  THEN ~Removing(n, k) ELSE Has(n, k, x))
      BY <2>1, <2>2, EndsHas
    <2>4. \A x : x = j => (On(n, k, p)' <=> Has(n, k, x)')
      BY <1>5 DEF On, SectionOn, FirstTrack
    <2>5. On(n, k, p)' <=> IF n = m /\ k = h /\ j = i /\ Doing(n, k)
                           THEN ~Removing(n, k) ELSE On(n, k, p)
      BY <2>3, <2>4 DEF On
    <2> QED BY <1>3, <2>5 DEF WireSection
  <1>7. CASE Touches(s, "wire", p, n)
    <2>1. h \in Crossing(n, p) /\ Doing(n, h) /\ n = m
      BY <1>3, <1>7 DEF WireSection
    <2>2. CASE Removing(n, h)
      <3>1. Wire(p, n)' = 0
        BY <1>3, <1>4, <1>7, <2>1, <2>2, ValueFacts
      <3>2. ~On(n, h, p)'
        BY <1>6, <1>7, <2>1, <2>2
      <3>3. ~MayHold(n, p)'
        BY <1>5, <2>1, <2>2, <3>2 DEF MayHold
      <3> QED BY <3>1, <3>3 DEF WireOK
    <2>3. CASE ~Removing(n, h)
      <3>1. Wire(p, n)' = 1
        BY <1>3, <1>4, <1>7, <2>1, <2>3, ValueFacts
      <3>2. On(n, h, p)'
        BY <1>6, <1>7, <2>1, <2>3
      <3>3. \A k : ~Removing(n, k)
        <4>1. phase \notin {"rip", "clearExt"}
          BY <2>1, <2>3 DEF Removing
        <4> QED BY <4>1 DEF Removing
      <3>4. MayHold(n, p)'
        BY <1>5, <2>1, <3>2, <3>3 DEF MayHold
      <3> QED BY <3>1, <3>4 DEF WireOK
    <2> QED BY <2>2, <2>3
  <1>8. CASE ~Touches(s, "wire", p, n)
    <2>1. MayHold(n, p)' <=> MayHold(n, p)
      BY <1>5, <1>6, <1>8 DEF MayHold
    <2> QED BY <1>4, <1>5, <1>8, <2>1 DEF WireOK
  <1> QED BY <1>7, <1>8

LEMMA ViasOnFinite ==
  ASSUME Shape, NEW n \in Nets, NEW p, NEW j
  PROVE  /\ IsFiniteSet(ViasOn(n, p, j)) /\ Cardinality(ViasOn(n, p, j)) \in Nat
         /\ \A k \in ViasOn(n, p, j) : Cardinality(ViasOn(n, p, j)) # 0
  <1>1. ViasOn(n, p, j) \in SUBSET (1 .. Len(walk[n])) /\ Len(walk[n]) \in Int
    BY WalkDomain DEF ViasOn, ViaItems
  <1>2. IsFiniteSet(1 .. Len(walk[n]))
    BY <1>1, FS_Interval
  <1>3. IsFiniteSet(ViasOn(n, p, j))
    BY <1>1, <1>2, FS_Subset
  <1> QED BY <1>3, FS_CardinalityType, FS_EmptySet

\* a via map and the vias it should have change alike
LEMMA LeaveViaCount ==
  ASSUME IInv, Alone, NEW t \in Threads, NEW m, NEW h, NEW i, Ends(t, m, h, i),
         NEW p \in GridPoint, NEW n \in Nets, NEW j \in {1, 2, 3}, NEW touched \in BOOLEAN,
         touched <=> n = m /\ ViaSection(m, h, i, p, j)
  PROVE  Cardinality(ViasOn(n, p, j)') =
           IF touched THEN Value(IF Removing(m, h) THEN "erase" ELSE "emplace",
                                 Cardinality(ViasOn(n, p, j)))
                      ELSE Cardinality(ViasOn(n, p, j))
  <1>1. Leave(t) /\ Thread(t)
    BY DEF Ends, Thread
  <1>2. /\ m \in Nets /\ m \in batch /\ h \in 1 .. Len(walk[m])
        /\ i \in 1 .. Len(Sections(m, h)) /\ Shape /\ j \in Int
    BY EndsSection
  <1>3. ViaItems(n, p)' = ViaItems(n, p) /\ ViaItems(n, p) \subseteq Int
    <2>1. ViaItems(n, p)' = ViaItems(n, p)
      BY <1>1, ThreadKeeps
    <2> QED BY <1>2, <2>1, WalkDomain DEF ViaItems
  <1>4. \A k \in ViaItems(n, p) :
          Has(n, k, j)' <=> IF n = m /\ k = h /\ j = i /\ Doing(n, k)
                            THEN ~Removing(n, k) ELSE Has(n, k, j)
    BY <1>2, <1>3, EndsHas
  <1>5. ViasOn(n, p, j)' = {k \in ViaItems(n, p) : Has(n, k, j)'}
    BY <1>3 DEF ViasOn
  <1>6. /\ IsFiniteSet(ViasOn(n, p, j)) /\ Cardinality(ViasOn(n, p, j)) \in Nat
        /\ \A k \in ViasOn(n, p, j) : Cardinality(ViasOn(n, p, j)) # 0
    BY <1>2, ViasOnFinite
  <1>7. CASE touched
    <2>1. n = m /\ h \in ViaItems(n, p) /\ Doing(n, h) /\ i = j
      BY <1>7 DEF ViaSection
    <2>2. Has(n, h, j) <=> Removing(n, h)
      BY <2>1, EndsHas
    <2>3. CASE Removing(n, h)
      <3>1. h \in ViasOn(n, p, j)
        BY <2>1, <2>2, <2>3 DEF ViasOn
      <3>2. ViasOn(n, p, j)' = ViasOn(n, p, j) \ {h}
        BY <1>4, <1>5, <2>1, <2>3 DEF ViasOn
      <3>3. Cardinality(ViasOn(n, p, j) \ {h}) = Cardinality(ViasOn(n, p, j)) - 1
        BY <1>6, <3>1, FS_RemoveElement
      <3> QED BY <1>6, <1>7, <2>1, <2>3, <3>1, <3>2, <3>3, ValueFacts
    <2>4. CASE ~Removing(n, h)
      <3>1. h \notin ViasOn(n, p, j)
        BY <2>2, <2>4 DEF ViasOn
      <3>2. ViasOn(n, p, j)' = ViasOn(n, p, j) \cup {h}
        BY <1>4, <1>5, <2>1, <2>4 DEF ViasOn
      <3>3. Cardinality(ViasOn(n, p, j) \cup {h}) = Cardinality(ViasOn(n, p, j)) + 1
        BY <1>6, <3>1, FS_AddElement
      <3> QED BY <1>7, <2>1, <2>4, <3>2, <3>3, ValueFacts
    <2> QED BY <2>3, <2>4
  <1>8. CASE ~touched
    <2>1. \A k \in ViaItems(n, p) : Has(n, k, j)' <=> Has(n, k, j)
      BY <1>4, <1>8 DEF ViaSection
    <2>2. ViasOn(n, p, j)' = ViasOn(n, p, j)
      BY <1>5, <2>1 DEF ViasOn
    <2> QED BY <1>8, <2>2
  <1> QED BY <1>7, <1>8

LEMMA LeaveViaOK ==
  ASSUME IInv, Alone, MapShape, NEW t \in Threads, NEW m, NEW h, NEW i,
         Ends(t, m, h, i), NEW p \in LowerPoints, NEW n \in Nets, ViaOK(p, n)
  PROVE  ViaOK(p, n)'
  <1> DEFINE s == current(t)
  <1>1. Leave(t) /\ Thread(t) /\ p \in GridPoint /\ getUpper(p) \in GridPoint
    BY DEF Ends, Thread, LowerPoints
  <1>2. /\ m \in Nets /\ m \in batch /\ h \in 1 .. Len(walk[m])
        /\ i \in 1 .. Len(Sections(m, h)) /\ s = Sections(m, h)[i] /\ Shape
    BY EndsSection
  <1>3. SectionDoes(s, m, h, i, p, n)
    BY <1>1, <1>2, SectionTouches
  <1>4. \A kind \in {"via", "viaUpper"}, q \in GridPoint :
          ViaEntries(kind, q, n)' = IF Touches(s, kind, q, n)
            THEN Value(s.op, ViaEntries(kind, q, n)) ELSE ViaEntries(kind, q, n)
    BY <1>1, LeaveWrites DEF Entry, ViaEntries
  <1>5. ViaEntries("via", p, n)' = Cardinality(ViasOn(n, p, 1)')
    <2> DEFINE touched == n = m /\ ViaSection(m, h, i, p, 1)
    <2>1. Cardinality(ViasOn(n, p, 1)') =
            IF touched THEN Value(IF Removing(m, h) THEN "erase" ELSE "emplace",
                                  Cardinality(ViasOn(n, p, 1)))
                       ELSE Cardinality(ViasOn(n, p, 1))
      BY <1>1, LeaveViaCount
    <2>2. Touches(s, "via", p, n) <=> touched
      BY <1>3 DEF SectionDoes
    <2>3. Touches(s, "via", p, n) => s.op = IF Removing(m, h) THEN "erase" ELSE "emplace"
      BY <1>3 DEF SectionDoes
    <2>4. ViaEntries("via", p, n) = Cardinality(ViasOn(n, p, 1))
      BY DEF ViaOK
    <2>5. ViaEntries("via", p, n)' = IF Touches(s, "via", p, n)
            THEN Value(s.op, ViaEntries("via", p, n)) ELSE ViaEntries("via", p, n)
      BY <1>1, <1>4
    <2> HIDE DEF touched, s
    <2> QED BY <2>1, <2>2, <2>3, <2>4, <2>5
  <1>6. ASSUME NEW j \in {2, 3}, j = UpperSection
        PROVE  ViaEntries("viaUpper", getUpper(p), n)' = Cardinality(ViasOn(n, p, j)')
    <2> DEFINE touched == n = m /\ ViaSection(m, h, i, p, j)
               q == getUpper(p)
    <2>1. Cardinality(ViasOn(n, p, j)') =
            IF touched THEN Value(IF Removing(m, h) THEN "erase" ELSE "emplace",
                                  Cardinality(ViasOn(n, p, j)))
                       ELSE Cardinality(ViasOn(n, p, j))
      <3>1. j \in {1, 2, 3} /\ touched \in BOOLEAN
        OBVIOUS
      <3>2. touched <=> n = m /\ ViaSection(m, h, i, p, j)
        OBVIOUS
      <3> HIDE DEF touched
      <3> QED BY <1>1, <3>1, <3>2, LeaveViaCount
    <2>2. Touches(s, "viaUpper", q, n) <=> touched
      BY <1>3, <1>6 DEF SectionDoes
    <2>3. Touches(s, "viaUpper", q, n) =>
            s.op = IF Removing(m, h) THEN "erase" ELSE "emplace"
      BY <1>3 DEF SectionDoes
    <2>4. ViaEntries("viaUpper", q, n) = Cardinality(ViasOn(n, p, j))
      BY <1>6 DEF ViaOK
    <2>5. ViaEntries("viaUpper", q, n)' = IF Touches(s, "viaUpper", q, n)
            THEN Value(s.op, ViaEntries("viaUpper", q, n)) ELSE ViaEntries("viaUpper", q, n)
      BY <1>1, <1>4
    <2>6. ViaEntries("viaUpper", getUpper(p), n)' = ViaEntries("viaUpper", q, n)'
      OBVIOUS
    <2> HIDE DEF touched, s, q
    <2> QED BY <2>1, <2>2, <2>3, <2>4, <2>5, <2>6
  <1>7. UpperSection' = UpperSection
    BY <1>1, ThreadKeeps
  <1> QED BY <1>5, <1>6, <1>7 DEF ViaOK

\* the other steps of threads change neither maps nor what they should have
LEMMA OtherOK ==
  ASSUME IInv, Alone, NEW t \in Threads, Draw(t) \/ Enter(t) \/ NextEdge(t) \/ EndNet(t)
  PROVE  /\ \A p \in GridPoint, n \in Nets : WireOK(p, n) => WireOK(p, n)'
         /\ \A p \in LowerPoints, n \in Nets : ViaOK(p, n) => ViaOK(p, n)'
  <1>1. Thread(t) /\ maps' = maps /\ Shape
    BY DEF Draw, Enter, NextEdge, EndNet, Thread, IInv
  <1>2. ASSUME NEW p \in GridPoint, NEW n \in Nets, WireOK(p, n) PROVE WireOK(p, n)'
    <2>1. /\ Crossing(n, p)' = Crossing(n, p) /\ finishing' = finishing
          /\ \A k : Removing(n, k)' <=> Removing(n, k)
          /\ walk' = walk
      BY <1>1, ThreadKeeps
    <2>2. ASSUME NEW k \in Crossing(n, p) PROVE On(n, k, p)' <=> On(n, k, p)
      <3>1. \A j : j = SectionOn(walk[n][k].edge, p) => (Has(n, k, j)' <=> Has(n, k, j))
        <4>1. Doing(n, k) => n \in batch
          BY DEF Doing
        <4> QED BY <1>1, <4>1, HasSections, OtherHas
      <3>2. \A j : j = SectionOn(walk[n][k].edge, p) => (On(n, k, p)' <=> Has(n, k, j)')
        BY <2>1 DEF On, SectionOn, FirstTrack
      <3> QED BY <3>1, <3>2 DEF On
    <2>3. MayHold(n, p)' <=> MayHold(n, p)
      BY <2>1, <2>2 DEF MayHold
    <2> QED BY <1>1, <1>2, <2>1, <2>3 DEF WireOK, Wire
  <1>3. ASSUME NEW p \in LowerPoints, NEW n \in Nets, ViaOK(p, n) PROVE ViaOK(p, n)'
    <2>1. ViaItems(n, p)' = ViaItems(n, p) /\ UpperSection' = UpperSection
      BY <1>1, ThreadKeeps
    <2>2. ASSUME NEW j \in {1, 2, 3}, j # 1 => j = UpperSection
          PROVE  ViasOn(n, p, j)' = ViasOn(n, p, j)
      <3>1. ASSUME NEW k \in ViaItems(n, p) PROVE Has(n, k, j)' <=> Has(n, k, j)
        <4>1. Doing(n, k) => k \in 1 .. Len(walk[n]) /\ j \in 1 .. Len(Sections(n, k))
          BY <1>1, <2>2, HasSections DEF Doing, LowerPoints
        <4> QED BY <4>1, OtherHas
      <3> QED BY <2>1, <3>1 DEF ViasOn
    <2> QED BY <1>1, <1>3, <2>1, <2>2 DEF ViaOK, ViaEntries
  <1> QED BY <1>2, <1>3

\* a net in hand that has a via at a grid point is one of its users
LEMMA UserInHand ==
  ASSUME Staged, NEW n \in Nets, n \in batch, phase \in {"mark", "rip"}, NEW p,
         ViaItems(n, p) # {}
  PROVE  n \in Users(p)
  <1>1. stage[n] # "out"
    BY DEF Staged, At
  <1>2. p \in Vias(n)
    BY DEF Vias, ViaItems
  <1> QED BY <1>1, <1>2 DEF Users, Routed

(* The type of a via is that of its only net, or none, and a net being     *)
(* ripped up leaves none behind.                                           *)
LEMMA LeaveTypeOK ==
  ASSUME IInv, Alone, MapShape, Staged, NEW t \in Threads, NEW m, NEW h, NEW i,
         Ends(t, m, h, i), NEW p \in GridPoint, TypeOK(p)
  PROVE  TypeOK(p)'
  <1> DEFINE s == current(t)
             touched == s.of = routedNonDefViaMap /\ p \in s.entries
  <1>1. Leave(t) /\ Thread(t)
    BY DEF Ends, Thread
  <1>2. /\ m \in Nets /\ m \in batch /\ h \in 1 .. Len(walk[m])
        /\ i \in 1 .. Len(Sections(m, h)) /\ s = Sections(m, h)[i] /\ Shape
    BY EndsSection
  <1>3. ViaTypeAt(p)' = IF touched THEN Value(s.op, ViaTypeAt(p)) ELSE ViaTypeAt(p)
    BY <1>1, LeaveWrites
  <1>4. /\ Users(p)' = Users(p) /\ UNCHANGED <<phase, batch, stage, viaType>>
        /\ \A n : ViaItems(n, p)' = ViaItems(n, p)
        /\ batch \subseteq Nets
    BY <1>1, <1>2, ThreadKeeps DEF Shape
  <1>5. \A n \in Nets, k \in Int, j \in Int :
          Done(n, k, j)' <=> Done(n, k, j) \/ (n = m /\ k = h /\ j = i)
    BY <1>1, LeaveDone DEF Ends
  <1>6. ASSUME NEW n \in Nets, NEW j \in {1, 2},
               Handled(n, p, j)', ~Handled(n, p, j), n \in batch,
               (phase = "mark" /\ j = 1) \/ (phase = "rip" /\ j = 2)
        PROVE  touched
    <2>1. PICK k \in ViaItems(n, p) : Done(n, k, j)'
      BY <1>4, <1>6 DEF Handled
    <2>2. ~Done(n, k, j)
      BY <1>6, <2>1 DEF Handled
    <2>3. k \in Int /\ j \in Int
      BY <1>2, WalkDomain DEF ViaItems
    <2>4. n = m /\ k = h /\ j = i
      BY <1>5, <2>1, <2>2, <2>3
    <2>5. isVia(walk[m][h].edge) /\ lower(walk[m][h].edge) = p
      BY <2>1, <2>4 DEF ViaItems
    <2>6. walk[m][h].ext \in BOOLEAN /\ ~walk[m][h].ext
      BY <1>2, <2>5, EdgeOf
    <2>7. CASE phase = "mark"
      <3>1. Sections(m, h) = markViaType(p, viaType[m][p])
        BY <2>5, <2>6, <2>7 DEF Sections
      <3>2. i = 1
        BY <1>6, <2>4, <2>7
      <3> QED BY <1>2, <3>1, <3>2 DEF markViaType
    <2>8. CASE phase = "rip"
      <3>1. Sections(m, h) = removeEdge(walk[m][h].edge, m)
        BY <2>8 DEF Sections
      <3>2. i = 2
        BY <1>6, <2>4, <2>8
      <3>3. RemoveSection(s, walk[m][h].edge, i)
        <4>1. walk[m][h].edge \in [u : GridPoint, v : GridPoint]
          BY <1>2, EdgeOf
        <4> QED BY <1>2, <3>1, <4>1, RemoveEdgeTouches
      <3> QED BY <2>5, <3>2, <3>3 DEF RemoveSection
    <2> QED BY <1>6, <2>7, <2>8
  <1>7. CASE ~touched
    <2>1. ViaTypeAt(p)' = ViaTypeAt(p)
      BY <1>3, <1>7
    <2>2. ASSUME NEW n \in Nets, Marked(n, p)' PROVE Marked(n, p)
      <3>1. phase = "mark" /\ n \in batch /\ Handled(n, p, 1)' => Handled(n, p, 1)
        BY <1>6, <1>7
      <3>2. Marked(n, p)' <=> IF phase' = "mark" /\ n \in batch' THEN Handled(n, p, 1)'
                              ELSE stage'[n] # "unmarked" /\ ~(phase' = "rip" /\ n \in batch')
        BY DEF Marked
      <3> QED BY <1>4, <2>2, <3>1, <3>2 DEF Marked
    <2>3. \A n \in Nets : phase = "rip" /\ n \in batch /\ Handled(n, p, 2)' => Handled(n, p, 2)
      BY <1>6, <1>7
    <2> HIDE DEF touched
    <2>4. Users(p)' = {} => ViaTypeAt(p)' = DefaultType
      BY <1>4, <2>1 DEF TypeOK
    <2>5. ASSUME NEW n \in Nets, Users(p)' = {n}, Marked(n, p)'
          PROVE  ViaTypeAt(p)' = viaType'[n][p]
      BY <1>4, <2>1, <2>2, <2>5 DEF TypeOK
    <2>6. ASSUME phase' = "rip", NEW n \in batch', Handled(n, p, 2)'
          PROVE  ViaTypeAt(p)' = DefaultType
      BY <1>4, <2>1, <2>3, <2>6 DEF TypeOK
    <2> QED BY <2>4, <2>5, <2>6 DEF TypeOK
  <1>8. CASE touched
    <2>1. /\ s.entries = {lower(walk[m][h].edge)}
          /\ h \in ViaItems(m, lower(walk[m][h].edge))
          /\ \/ phase = "rip" /\ s.op = DefaultType
             \/ phase = "mark" /\ s.op = viaType[m][lower(walk[m][h].edge)]
      BY <1>2, <1>8, TypeSection
    <2>2. p = lower(walk[m][h].edge) /\ h \in ViaItems(m, p)
      BY <1>8, <2>1
    <2>3. m \in Users(p)
      BY <1>2, <2>1, <2>2, UserInHand
    <2>4. CASE phase = "rip" /\ s.op = DefaultType
      <3>1. ViaTypeAt(p)' = DefaultType
        BY <1>3, <1>8, <2>4, ValueFacts, RouteGridAssumption
      <3>2. \A n \in Nets : Users(p)' = {n} => ~Marked(n, p)'
        BY <1>2, <1>4, <2>3, <2>4 DEF Marked
      <3> QED BY <3>1, <3>2 DEF TypeOK
    <2>5. CASE phase = "mark" /\ s.op = viaType[m][p]
      <3>1. ViaTypeAt(p)' = viaType[m][p]
        <4>1. viaType[m][p] \in ViaTypes
          BY <1>2 DEF MapShape
        <4> QED BY <1>3, <1>8, <2>5, <4>1, ValueFacts
      <3>2. phase' # "rip" /\ Users(p)' # {}
        BY <1>4, <2>3, <2>5
      <3>3. \A n \in Nets : Users(p)' = {n} => n = m
        BY <1>4, <2>3
      <3> QED BY <1>4, <3>1, <3>2, <3>3 DEF TypeOK
    <2> QED BY <2>1, <2>2, <2>4, <2>5
  <1> QED BY <1>7, <1>8

LEMMA OtherTypeOK ==
  ASSUME IInv, Alone, Staged, NEW t \in Threads,
         Draw(t) \/ Enter(t) \/ NextEdge(t) \/ EndNet(t), NEW p \in GridPoint, TypeOK(p)
  PROVE  TypeOK(p)'
  <1>1. Thread(t) /\ maps' = maps /\ Shape
    BY DEF Draw, Enter, NextEdge, EndNet, Thread, IInv
  <1>2. /\ Users(p)' = Users(p) /\ UNCHANGED <<phase, batch, stage, viaType>>
        /\ \A n : ViaItems(n, p)' = ViaItems(n, p)
        /\ batch \subseteq Nets
    BY <1>1, ThreadKeeps DEF Shape
  <1>3. ASSUME NEW n \in Nets, NEW j \in {1, 2}, n \in batch,
               (phase = "mark" /\ j = 1) \/ (phase = "rip" /\ j = 2)
        PROVE  Handled(n, p, j)' <=> Handled(n, p, j)
    <2>1. \A k \in ViaItems(n, p) : Done(n, k, j)' <=> Done(n, k, j)
      BY <1>1, <1>3, HasSections, OtherDone
    <2> QED BY <1>2, <2>1 DEF Handled
  <1>4. ASSUME NEW n \in Nets PROVE Marked(n, p)' <=> Marked(n, p)
    <2>1. phase = "mark" /\ n \in batch => (Handled(n, p, 1)' <=> Handled(n, p, 1))
      BY <1>3
    <2>2. Marked(n, p)' <=> IF phase' = "mark" /\ n \in batch' THEN Handled(n, p, 1)'
                            ELSE stage'[n] # "unmarked" /\ ~(phase' = "rip" /\ n \in batch')
      BY DEF Marked
    <2> QED BY <1>2, <2>1, <2>2 DEF Marked
  <1>5. \A n \in batch : phase = "rip" => (Handled(n, p, 2)' <=> Handled(n, p, 2))
    BY <1>2, <1>3
  <1>6. ViaTypeAt(p)' = ViaTypeAt(p)
    BY <1>1 DEF ViaTypeAt
  <1>7. ASSUME NEW n \in Nets, Users(p)' = {n}, Marked(n, p)'
        PROVE  ViaTypeAt(p)' = viaType'[n][p]
    BY <1>2, <1>4, <1>6, <1>7 DEF TypeOK
  <1>8. ASSUME phase' = "rip", NEW n \in batch', Handled(n, p, 2)'
        PROVE  ViaTypeAt(p)' = DefaultType
    BY <1>2, <1>5, <1>6, <1>8 DEF TypeOK
  <1>9. Users(p)' = {} => ViaTypeAt(p)' = DefaultType
    BY <1>2, <1>6 DEF TypeOK
  <1> QED BY <1>7, <1>8, <1>9 DEF TypeOK

LEMMA ThreadMInv ==
  ASSUME IInv, MInv, NEW t \in Threads, Thread(t)
  PROVE  MInv'
  <1>1. /\ MapShape /\ Staged /\ RippedApart /\ Alone
        /\ \A p \in GridPoint, n \in Nets : WireOK(p, n)
        /\ \A p \in LowerPoints, n \in Nets : ViaOK(p, n)
        /\ \A p \in GridPoint : TypeOK(p)
    BY DEF MInv, WireInv, ViaInv, TypeInv
  <1>2. UNCHANGED <<phase, batch, walk, viaType, stage, finishing>>
    BY ThreadKeeps
  <1>3. Alone'
    BY <1>1, ThreadAlone
  <1>4. Staged' /\ RippedApart'
    BY <1>1, <1>2 DEF Staged, RippedApart, At, Routed, Vias
  <1>5. CASE Leave(t)
    <2>1. PICK m, h, i : Ends(t, m, h, i)
      BY <1>5 DEF Ends
    <2>2. MapShape'
      BY <1>1, <1>5, LeaveWrites
    <2>3. \A p \in GridPoint, n \in Nets : WireOK(p, n)'
      BY <1>1, <2>1, LeaveWireOK
    <2>4. \A p \in LowerPoints, n \in Nets : ViaOK(p, n)'
      BY <1>1, <2>1, LeaveViaOK
    <2>5. \A p \in GridPoint : TypeOK(p)'
      BY <1>1, <2>1, LeaveTypeOK
    <2> QED BY <1>3, <1>4, <2>2, <2>3, <2>4, <2>5 DEF MInv, WireInv, ViaInv, TypeInv
  <1>6. CASE Draw(t) \/ Enter(t) \/ NextEdge(t) \/ EndNet(t)
    <2>1. MapShape'
      BY <1>1, <1>2, <1>6 DEF MapShape, Draw, Enter, NextEdge, EndNet
    <2>2. /\ \A p \in GridPoint, n \in Nets : WireOK(p, n)'
          /\ \A p \in LowerPoints, n \in Nets : ViaOK(p, n)'
      BY <1>1, <1>6, OtherOK
    <2>3. \A p \in GridPoint : TypeOK(p)'
      BY <1>1, <1>6, OtherTypeOK
    <2> QED BY <1>3, <1>4, <2>1, <2>2, <2>3 DEF MInv, WireInv, ViaInv, TypeInv
  <1> QED BY <1>5, <1>6 DEF Thread

-----------------------------------------------------------------------------
(* The steps of the main thread, taken while no thread is at work.         *)

Begins == Commit \/ Mark \/ Rip \/ ClearMinArea \/ CommitMinArea

LEMMA BeginHas ==
  ASSUME IInv, Begins
  PROVE  /\ phase = "idle" /\ maps' = maps
         /\ \A n, k, j : Has(n, k, j) <=> Held(n, k)
         /\ \A n, k, j : Has(n, k, j)' <=> IF Doing(n, k)' THEN Removing(n, k)'
                                                           ELSE Held(n, k)'
         /\ \A n, k, j : ~Done(n, k, j)'
         /\ \A n, k : ~Removing(n, k)
  <1>1. phase = "idle" /\ maps' = maps /\ pending' = batch'
    BY DEF Begins, Commit, Mark, Rip, ClearMinArea, CommitMinArea, Begin
  <1>2. \A n, k : ~Doing(n, k) /\ ~Removing(n, k)
    BY <1>1 DEF Doing, Removing
  <1>3. \A n, k, j : ~Done(n, k, j)'
    BY <1>1 DEF Done
  <1>4. \A n, k, j : Has(n, k, j)' <=> IF Doing(n, k)' THEN Removing(n, k)'
                                                       ELSE Held(n, k)'
    BY <1>3 DEF Has
  <1> QED BY <1>1, <1>2, <1>3, <1>4 DEF Has

LEMMA JoinHas ==
  ASSUME IInv, Join
  PROVE  /\ phase # "idle" /\ phase' = "idle" /\ maps' = maps /\ batch' = batch
         /\ batch \subseteq Nets
         /\ \A n \in batch : \A k, j : Done(n, k, j)
         /\ \A n, k, j : Has(n, k, j) <=> IF Doing(n, k) THEN ~Removing(n, k)
                                                         ELSE Held(n, k)
         /\ \A n, k, j : Has(n, k, j)' <=> Held(n, k)'
         /\ \A n, k : ~Removing(n, k)'
  <1>1. /\ phase # "idle" /\ phase' = "idle" /\ maps' = maps /\ batch' = batch
        /\ pending = {} /\ \A t \in Threads : worker[t] = AtRest
        /\ batch \subseteq Nets
    BY DEF Join, IInv, Shape
  <1>2. \A n \in batch : \A k, j : Done(n, k, j)
    <2>1. \A n \in Nets : n # Idle
      BY RouteGridAssumption DEF Idle
    <2>2. AtRest.net = Idle
      BY DEF AtRest
    <2> QED BY <1>1, <2>1, <2>2 DEF Done
  <1>3. \A n, k : ~Doing(n, k)' /\ ~Removing(n, k)'
    BY <1>1 DEF Doing, Removing
  <1>4. \A n, k, j : Has(n, k, j) <=> IF Doing(n, k) THEN ~Removing(n, k)
                                                     ELSE Held(n, k)
    BY <1>2 DEF Has, Doing
  <1>5. \A n, k, j : Has(n, k, j)' <=> Held(n, k)'
    BY <1>3 DEF Has
  <1> QED BY <1>1, <1>2, <1>3, <1>4, <1>5

(* A net of which the maps had no item and should have none.               *)
LEMMA NoneHeld ==
  ASSUME maps' = maps, NEW n \in Nets, UpperSection \in {2, 3}, UpperSection' \in {2, 3},
         \A k, j : ~Has(n, k, j), \A k, j : ~Has(n, k, j)'
  PROVE  /\ \A p \in GridPoint : WireOK(p, n) => WireOK(p, n)'
         /\ \A p \in LowerPoints : ViaOK(p, n) => ViaOK(p, n)'
  <1>1. ASSUME NEW p \in GridPoint, WireOK(p, n) PROVE WireOK(p, n)'
    <2>1. ~MayHold(n, p)
      BY DEF MayHold, On
    <2>2. ~MayHold(n, p)'
      <3>1. \A k : ~On(n, k, p)'
        BY DEF On
      <3> QED BY <3>1 DEF MayHold
    <2> QED BY <1>1, <2>1, <2>2 DEF WireOK, Wire
  <1>2. ASSUME NEW p \in LowerPoints, ViaOK(p, n) PROVE ViaOK(p, n)'
    <2>1. \A j : ViasOn(n, p, j) = {}
      BY DEF ViasOn
    <2>2. \A j : ViasOn(n, p, j)' = {}
      BY DEF ViasOn
    <2>3. /\ ViaEntries("via", p, n) = Cardinality({})
          /\ ViaEntries("viaUpper", getUpper(p), n) = Cardinality({})
      BY <1>2, <2>1 DEF ViaOK
    <2>4. \A kind, q : ViaEntries(kind, q, n)' = ViaEntries(kind, q, n)
      BY DEF ViaEntries
    <2> QED BY <2>2, <2>3, <2>4 DEF ViaOK
  <1> QED BY <1>1, <1>2

(* A net of which the maps have what they had.                             *)
LEMMA SameHeld ==
  ASSUME maps' = maps, NEW n \in Nets, UpperSection \in {2, 3}, UpperSection' \in {2, 3},
         walk'[n] = walk[n], finishing => finishing',
         \A k \in DOMAIN walk[n] : \A j :
           (Has(n, k, j)' <=> Has(n, k, j)) /\ (Has(n, k, j) <=> Has(n, k, 1)),
         \A k \in DOMAIN walk[n] : Removing(n, k)' => Has(n, k, 1),
         finishing \/ \A k \in DOMAIN walk[n] : Removing(n, k) => Has(n, k, 1)
  PROVE  /\ \A p \in GridPoint : WireOK(p, n) => WireOK(p, n)'
         /\ \A p \in LowerPoints : ViaOK(p, n) => ViaOK(p, n)'
  <1>1. ASSUME NEW p \in GridPoint, WireOK(p, n) PROVE WireOK(p, n)'
    <2>1. Crossing(n, p)' = Crossing(n, p) /\ Crossing(n, p) \subseteq DOMAIN walk[n]
      BY DEF Crossing
    <2>2. ASSUME NEW k \in Crossing(n, p)
          PROVE  (On(n, k, p)' <=> On(n, k, p)) /\ (On(n, k, p) <=> Has(n, k, 1))
      <3>1. \A j : j = SectionOn(walk[n][k].edge, p) => (On(n, k, p)' <=> Has(n, k, j)')
        BY DEF On, SectionOn, FirstTrack
      <3>2. (On(n, k, p)' <=> On(n, k, p))
        BY <2>1, <3>1 DEF On
      <3> QED BY <2>1, <3>2 DEF On
    <2>3. MayHold(n, p) => MayHold(n, p)'
      BY <2>1, <2>2 DEF MayHold
    <2>4. finishing \/ (MayHold(n, p)' => MayHold(n, p))
      BY <2>1, <2>2 DEF MayHold
    <2> QED BY <1>1, <2>3, <2>4 DEF WireOK, Wire
  <1>2. ASSUME NEW p \in LowerPoints, ViaOK(p, n) PROVE ViaOK(p, n)'
    <2>1. ViaItems(n, p)' = ViaItems(n, p) /\ ViaItems(n, p) \subseteq DOMAIN walk[n]
      BY DEF ViaItems
    <2>2. \A j : ViasOn(n, p, j)' = ViasOn(n, p, j) /\ ViasOn(n, p, j) = ViasOn(n, p, 1)
      BY <2>1 DEF ViasOn
    <2>3. /\ ViaEntries("via", p, n) = Cardinality(ViasOn(n, p, 1))
          /\ ViaEntries("viaUpper", getUpper(p), n) = Cardinality(ViasOn(n, p, 1))
      BY <1>2, <2>2 DEF ViaOK
    <2>4. \A kind, q : ViaEntries(kind, q, n)' = ViaEntries(kind, q, n)
      BY DEF ViaEntries
    <2> QED BY <2>2, <2>3, <2>4 DEF ViaOK
  <1> QED BY <1>1, <1>2

LEMMA UpperSectionType == UpperSection \in {2, 3} /\ UpperSection' \in {2, 3}
  BY DEF UpperSection

(* Choosing the extensions anew leaves as many vias at each grid point, and *)
(* every wire of the tree.                                                 *)
TreeVias(w, p) == {k \in TreeItems(w) : isVia(w[k].edge) /\ lower(w[k].edge) = p}

LEMMA SameTreeFacts ==
  ASSUME NEW w, NEW v, SameTree(w, v), IsFiniteSet(DOMAIN w), NEW p
  PROVE  /\ \A k \in TreeItems(w) : \E h \in TreeItems(v) : v[h] = w[k]
         /\ Cardinality(TreeVias(v, p)) = Cardinality(TreeVias(w, p))
         /\ TreeVias(w, p) = {} => TreeVias(v, p) = {}
         /\ TreeVias(v, p) = {} => TreeVias(w, p) = {}
  <1>1. PICK f \in Bijection(TreeItems(w), TreeItems(v)) :
          \A k \in TreeItems(w) : v[f[k]] = w[k]
    BY DEF SameTree
  <1>2. /\ f \in [TreeItems(w) -> TreeItems(v)]
        /\ \A a, b \in TreeItems(w) : f[a] = f[b] => a = b
        /\ \A h \in TreeItems(v) : \E k \in TreeItems(w) : f[k] = h
    BY <1>1 DEF Bijection, Injection, Surjection, IsInjective
  <1> DEFINE V == TreeVias(w, p)
             U == TreeVias(v, p)
             g == [k \in V |-> f[k]]
  <1>3. V \subseteq TreeItems(w) /\ U \subseteq TreeItems(v) /\ V \subseteq DOMAIN w
    BY DEF TreeVias, TreeItems
  <1>4. \A k \in V : f[k] \in U
    BY <1>1, <1>2 DEF TreeVias
  <1>5. \A h \in U : \E k \in V : f[k] = h
    BY <1>1, <1>2 DEF TreeVias
  <1> HIDE DEF V, U
  <1>6. g \in Bijection(V, U)
    <2>1. g \in [V -> U]
      BY <1>4
    <2>2. \A a, b \in V : g[a] = g[b] => a = b
      BY <1>2, <1>3
    <2>3. \A h \in U : \E k \in V : g[k] = h
      BY <1>5
    <2> QED BY <2>1, <2>2, <2>3 DEF Bijection, Injection, Surjection, IsInjective
  <1>7. ExistsBijection(V, U)
    BY <1>6 DEF ExistsBijection
  <1>8. IsFiniteSet(V)
    BY <1>3, FS_Subset
  <1>9. Cardinality(U) = Cardinality(V)
    BY <1>7, <1>8, FS_Bijection
  <1> QED BY <1>1, <1>2, <1>4, <1>5, <1>9 DEF V, U

LEMMA CommitMinAreaHeld ==
  ASSUME IInv, MInv, CommitMinArea, NEW n \in batch
  PROVE  /\ n \in Nets /\ walk'[n] \in Walks[n] /\ SameTree(walk[n], walk'[n])
         /\ finishing /\ finishing' /\ stage[n] = "bare" /\ stage' = stage
         /\ \A k, j : Has(n, k, j) <=> ~walk[n][k].ext
         /\ \A k, j : Has(n, k, j)' <=> ~walk'[n][k].ext
         /\ \A k : ~Removing(n, k)'
         /\ IsFiniteSet(DOMAIN walk[n])
  <1>1. n \in Nets
    BY DEF IInv, Shape
  <1>2. /\ phase = "idle" /\ phase' = "commitExt" /\ At("bare") # {} /\ batch' = batch
        /\ stage' = stage /\ finishing' = finishing
        /\ \E choice \in [batch -> UNION {Walks[m] : m \in batch}] :
             /\ \A m \in batch : choice[m] \in Walks[m] /\ SameTree(walk[m], choice[m])
             /\ walk' = [m \in Nets |-> IF m \in batch THEN choice[m] ELSE walk[m]]
    BY DEF CommitMinArea, Begin
  <1>3. walk'[n] \in Walks[n] /\ SameTree(walk[n], walk'[n])
    BY <1>1, <1>2
  <1>4. stage[n] = "bare" /\ finishing
    <2>1. At("bare") = batch
      BY <1>2 DEF MInv, Staged
    <2> QED BY <1>2, <2>1 DEF MInv, Staged, At
  <1>5. \A k, j : Has(n, k, j) <=> ~walk[n][k].ext
    <2>1. \A k, j : Has(n, k, j) <=> Held(n, k)
      BY BeginHas DEF Begins
    <2> QED BY <1>4, <2>1 DEF Held, Routed
  <1>6. \A k : ~Removing(n, k)' /\ (Doing(n, k)' <=> walk'[n][k].ext)
    BY <1>2 DEF Removing, Doing
  <1>7. \A k, j : Has(n, k, j)' <=> ~walk'[n][k].ext
    <2>1. \A k, j : Has(n, k, j)' <=> IF Doing(n, k)' THEN Removing(n, k)' ELSE Held(n, k)'
      BY BeginHas DEF Begins
    <2>2. \A k : Held(n, k)' <=> ~walk'[n][k].ext
      BY <1>2, <1>4 DEF Held, Routed
    <2> QED BY <1>6, <2>1, <2>2
  <1>8. IsFiniteSet(DOMAIN walk[n])
    BY <1>1, WalkDomain, FS_Interval DEF IInv
  <1> QED BY <1>1, <1>2, <1>3, <1>4, <1>5, <1>6, <1>7, <1>8

LEMMA CommitMinAreaOK ==
  ASSUME IInv, MInv, CommitMinArea, NEW n \in batch
  PROVE  /\ \A p \in GridPoint : WireOK(p, n) => WireOK(p, n)'
         /\ \A p \in LowerPoints : ViaOK(p, n) => ViaOK(p, n)'
  <1>1. /\ n \in Nets /\ SameTree(walk[n], walk'[n]) /\ finishing'
        /\ \A k, j : Has(n, k, j) <=> ~walk[n][k].ext
        /\ \A k, j : Has(n, k, j)' <=> ~walk'[n][k].ext
        /\ \A k : ~Removing(n, k)'
        /\ IsFiniteSet(DOMAIN walk[n])
    BY CommitMinAreaHeld
  <1>2. maps' = maps
    BY BeginHas DEF Begins
  <1>3. ASSUME NEW p \in GridPoint, WireOK(p, n) PROVE WireOK(p, n)'
    <2>1. MayHold(n, p) => MayHold(n, p)'
      <3> SUFFICES ASSUME MayHold(n, p) PROVE MayHold(n, p)'
        OBVIOUS
      <3>1. PICK k \in Crossing(n, p) : On(n, k, p)
        BY DEF MayHold
      <3>2. k \in TreeItems(walk[n])
        BY <1>1, <3>1 DEF TreeItems, Crossing, On
      <3>3. PICK h \in TreeItems(walk'[n]) : walk'[n][h] = walk[n][k]
        BY <1>1, <3>2, SameTreeFacts
      <3>4. h \in Crossing(n, p)'
        BY <3>1, <3>3 DEF TreeItems, Crossing
      <3>5. On(n, h, p)'
        BY <1>1, <3>3 DEF TreeItems, On
      <3> QED BY <1>1, <3>4, <3>5 DEF MayHold
    <2> QED BY <1>1, <1>2, <1>3, <2>1 DEF WireOK, Wire
  <1>4. ASSUME NEW p \in LowerPoints, ViaOK(p, n) PROVE ViaOK(p, n)'
    <2>1. \A j : ViasOn(n, p, j) = TreeVias(walk[n], p)
      BY <1>1 DEF ViasOn, ViaItems, TreeVias, TreeItems
    <2>2. \A j : ViasOn(n, p, j)' = TreeVias(walk'[n], p)
      BY <1>1 DEF ViasOn, ViaItems, TreeVias, TreeItems
    <2>3. Cardinality(TreeVias(walk'[n], p)) = Cardinality(TreeVias(walk[n], p))
      BY <1>1, SameTreeFacts
    <2>4. /\ ViaEntries("via", p, n) = Cardinality(TreeVias(walk[n], p))
          /\ ViaEntries("viaUpper", getUpper(p), n) = Cardinality(TreeVias(walk[n], p))
      BY <1>4, <2>1, UpperSectionType DEF ViaOK
    <2>5. \A kind, q : ViaEntries(kind, q, n)' = ViaEntries(kind, q, n)
      BY <1>2 DEF ViaEntries
    <2> QED BY <2>2, <2>3, <2>4, <2>5 DEF ViaOK
  <1> QED BY <1>3, <1>4

LEMMA BeginOK ==
  ASSUME IInv, MInv, Begins, NEW n \in Nets
  PROVE  /\ \A p \in GridPoint : WireOK(p, n) => WireOK(p, n)'
         /\ \A p \in LowerPoints : ViaOK(p, n) => ViaOK(p, n)'
  <1>1. /\ phase = "idle" /\ maps' = maps
        /\ \A k, j : Has(n, k, j) <=> Held(n, k)
        /\ \A k, j : Has(n, k, j)' <=> IF Doing(n, k)' THEN Removing(n, k)' ELSE Held(n, k)'
        /\ \A k : ~Removing(n, k)
    BY BeginHas
  <1>2. UpperSection \in {2, 3} /\ UpperSection' \in {2, 3}
    BY UpperSectionType
  <1>3. CASE Commit
    <2>1. /\ phase' = "commit" /\ stage' = stage /\ finishing' = finishing
          /\ batch' \subseteq At("out")
          /\ n \notin batch' => walk'[n] = walk[n]
      BY <1>3 DEF Commit, Begin
    <2>2. \A k : ~Removing(n, k)' /\ (Doing(n, k)' <=> n \in batch')
      BY <2>1 DEF Removing, Doing
    <2>3. CASE n \in batch'
      <3>1. stage[n] = "out"
        BY <2>1, <2>3 DEF At
      <3>2. \A k, j : ~Has(n, k, j)
        BY <1>1, <3>1 DEF Held, Routed
      <3>3. \A k, j : ~Has(n, k, j)'
        BY <1>1, <2>2, <2>3
      <3> QED BY <1>1, <1>2, <3>2, <3>3, NoneHeld
    <2>4. CASE n \notin batch'
      <3>1. \A k : Held(n, k)' <=> Held(n, k)
        BY <2>1, <2>4 DEF Held, Routed
      <3> QED BY <1>1, <1>2, <2>1, <2>2, <2>4, <3>1, SameHeld
    <2> QED BY <2>3, <2>4
  <1>4. CASE Mark
    <2>1. phase' = "mark" /\ stage' = stage /\ finishing' = finishing /\ walk' = walk
      BY <1>4 DEF Mark, Begin
    <2>2. \A k : ~Removing(n, k)' /\ ~Doing(n, k)' /\ (Held(n, k)' <=> Held(n, k))
      BY <2>1 DEF Removing, Doing, Held, Routed
    <2> QED BY <1>1, <1>2, <2>1, <2>2, SameHeld
  <1>5. CASE Rip
    <2>1. /\ phase' = "rip" /\ stage' = stage /\ finishing' = finishing /\ walk' = walk
          /\ batch' \subseteq At("in")
      BY <1>5 DEF Rip, Begin
    <2>2. \A k : /\ Removing(n, k)' <=> n \in batch'
                 /\ Doing(n, k)' <=> n \in batch'
                 /\ Held(n, k)' <=> Held(n, k)
      BY <2>1 DEF Removing, Doing, Held, Routed
    <2>3. n \in batch' => \A k : Held(n, k)
      BY <2>1 DEF At, Held, Routed
    <2> QED BY <1>1, <1>2, <2>1, <2>2, <2>3, SameHeld
  <1>6. CASE ClearMinArea
    <2>1. /\ phase' = "clearExt" /\ stage' = stage /\ finishing' /\ walk' = walk
          /\ batch' \subseteq At("in")
      BY <1>6 DEF ClearMinArea, Begin
    <2>2. \A k : /\ Removing(n, k)' <=> Doing(n, k)'
                 /\ Doing(n, k)' => n \in batch'
                 /\ Held(n, k)' <=> Held(n, k)
      BY <2>1 DEF Removing, Doing, Held, Routed
    <2>3. n \in batch' => \A k : Held(n, k)
      BY <2>1 DEF At, Held, Routed
    <2> QED BY <1>1, <1>2, <2>1, <2>2, <2>3, SameHeld
  <1>7. CASE CommitMinArea
    <2>1. CASE n \in batch
      BY <1>7, <2>1, CommitMinAreaOK
    <2>2. CASE n \notin batch
      <3>1. /\ stage' = stage /\ finishing' = finishing /\ batch' = batch
            /\ walk'[n] = walk[n]
        BY <1>7, <2>2 DEF CommitMinArea, Begin
      <3>2. \A k : ~Removing(n, k)' /\ ~Doing(n, k)' /\ (Held(n, k)' <=> Held(n, k))
        BY <2>2, <3>1 DEF Removing, Doing, Held, Routed
      <3> QED BY <1>1, <1>2, <3>1, <3>2, SameHeld
    <2> QED BY <2>1, <2>2
  <1> QED BY <1>3, <1>4, <1>5, <1>6, <1>7 DEF Begins

LEMMA JoinStage ==
  ASSUME IInv, MInv, Join, NEW n \in Nets
  PROVE  /\ n \notin batch => stage'[n] = stage[n] /\ walk'[n] = walk[n]
         /\ n \in batch =>
              \/ phase = "commit" /\ stage[n] = "out" /\ stage'[n] = "unmarked"
              \/ phase = "mark" /\ stage[n] \in {"unmarked", "in"} /\ stage'[n] = "in"
              \/ phase = "rip" /\ stage[n] = "in" /\ stage'[n] = "out"
              \/ phase = "clearExt" /\ stage[n] = "in" /\ stage'[n] = "bare" /\ finishing
              \/ phase = "commitExt" /\ stage[n] = "bare" /\ stage'[n] = "in" /\ finishing
         /\ walk'[n] = IF phase = "rip" /\ n \in batch THEN << >> ELSE walk[n]
         /\ finishing' = finishing /\ viaType' = viaType
  <1>1. phase \in {"commit", "mark", "rip", "clearExt", "commitExt"}
    BY DEF Join, IInv, Shape, Phases
  <1>2. /\ walk'[n] = IF phase = "rip" /\ n \in batch THEN << >> ELSE walk[n]
        /\ finishing' = finishing /\ viaType' = viaType
    BY DEF Join
  <1>3. n \notin batch => stage'[n] = stage[n] /\ walk'[n] = walk[n]
    BY DEF Join
  <1>4. /\ n \in batch /\ phase = "commit" => stage'[n] = "unmarked" /\ stage[n] = "out"
        /\ n \in batch /\ phase = "rip" => stage'[n] = "out" /\ stage[n] = "in"
        /\ n \in batch /\ phase = "clearExt" =>
             stage'[n] = "bare" /\ stage[n] = "in" /\ finishing
        /\ n \in batch /\ phase = "mark" =>
             stage'[n] = "in" /\ stage[n] \in {"unmarked", "in"}
        /\ n \in batch /\ phase = "commitExt" =>
             stage'[n] = "in" /\ stage[n] = "bare" /\ finishing
    <2>1. Staged
      BY DEF MInv
    <2>2. /\ n \in batch /\ phase = "commit" => stage'[n] = "unmarked"
          /\ n \in batch /\ phase = "rip" => stage'[n] = "out"
          /\ n \in batch /\ phase = "clearExt" => stage'[n] = "bare"
          /\ n \in batch /\ phase \in {"mark", "commitExt"} => stage'[n] = "in"
      BY DEF Join
    <2> QED BY <2>1, <2>2 DEF Staged, At
  <1> QED BY <1>1, <1>2, <1>3, <1>4

LEMMA JoinOK ==
  ASSUME IInv, MInv, Join, NEW n \in Nets
  PROVE  /\ \A p \in GridPoint : WireOK(p, n) => WireOK(p, n)'
         /\ \A p \in LowerPoints : ViaOK(p, n) => ViaOK(p, n)'
  <1>1. /\ maps' = maps /\ phase' = "idle" /\ batch' = batch
        /\ \A k, j : Has(n, k, j) <=> IF Doing(n, k) THEN ~Removing(n, k) ELSE Held(n, k)
        /\ \A k, j : Has(n, k, j)' <=> Held(n, k)'
        /\ \A k : ~Removing(n, k)'
    BY JoinHas
  <1>2. UpperSection \in {2, 3} /\ UpperSection' \in {2, 3}
    BY UpperSectionType
  <1>3. finishing' = finishing
    BY JoinStage
  <1>4. CASE n \notin batch
    <2>1. stage'[n] = stage[n] /\ walk'[n] = walk[n]
      BY <1>4, JoinStage
    <2>2. \A k : ~Doing(n, k) /\ ~Removing(n, k) /\ (Held(n, k)' <=> Held(n, k))
      BY <1>4, <2>1 DEF Doing, Removing, Held, Routed
    <2> QED BY <1>1, <1>2, <1>3, <2>1, <2>2, SameHeld
  <1>5. CASE n \in batch /\ phase = "rip"
    <2>1. stage'[n] = "out"
      BY <1>5, JoinStage
    <2>2. \A k : Doing(n, k) /\ Removing(n, k)
      BY <1>5 DEF Doing, Removing
    <2>3. \A k : ~Held(n, k)'
      BY <2>1 DEF Held, Routed
    <2> QED BY <1>1, <1>2, <2>2, <2>3, NoneHeld
  <1>6. CASE n \in batch /\ phase = "commit"
    <2>1. stage'[n] = "unmarked" /\ walk'[n] = walk[n]
      BY <1>6, JoinStage
    <2>2. \A k : Doing(n, k) /\ ~Removing(n, k) /\ Held(n, k)'
      BY <1>6, <2>1 DEF Doing, Removing, Held, Routed
    <2> QED BY <1>1, <1>2, <1>3, <2>1, <2>2, SameHeld
  <1>7. CASE n \in batch /\ phase = "mark"
    <2>1. stage'[n] = "in" /\ stage[n] \in {"unmarked", "in"} /\ walk'[n] = walk[n]
      BY <1>7, JoinStage
    <2>2. \A k : ~Doing(n, k) /\ ~Removing(n, k) /\ Held(n, k) /\ Held(n, k)'
      BY <1>7, <2>1 DEF Doing, Removing, Held, Routed
    <2> QED BY <1>1, <1>2, <1>3, <2>1, <2>2, SameHeld
  <1>8. CASE n \in batch /\ phase = "clearExt"
    <2>1. stage'[n] = "bare" /\ stage[n] = "in" /\ walk'[n] = walk[n] /\ finishing
      BY <1>8, JoinStage
    <2>2. \A k : /\ Doing(n, k) <=> walk[n][k].ext
                 /\ Removing(n, k) <=> walk[n][k].ext
                 /\ Held(n, k) /\ (Held(n, k)' <=> ~walk[n][k].ext)
      BY <1>8, <2>1 DEF Doing, Removing, Held, Routed
    <2> QED BY <1>1, <1>2, <1>3, <2>1, <2>2, SameHeld
  <1>9. CASE n \in batch /\ phase = "commitExt"
    <2>1. stage'[n] = "in" /\ stage[n] = "bare" /\ walk'[n] = walk[n]
      BY <1>9, JoinStage
    <2>2. \A k : /\ Doing(n, k) <=> walk[n][k].ext
                 /\ ~Removing(n, k)
                 /\ (Held(n, k) <=> ~walk[n][k].ext) /\ Held(n, k)'
      BY <1>9, <2>1 DEF Doing, Removing, Held, Routed
    <2> QED BY <1>1, <1>2, <1>3, <2>1, <2>2, SameHeld
  <1>10. phase \in {"commit", "mark", "rip", "clearExt", "commitExt"}
    BY DEF Join, IInv, Shape, Phases
  <1> QED BY <1>4, <1>5, <1>6, <1>7, <1>8, <1>9, <1>10

LEMMA MainStaged ==
  ASSUME IInv, MInv, Main
  PROVE  Staged'
  <1>0. Staged
    BY DEF MInv
  <1>1. CASE Begins
    <2>1. phase = "idle" /\ stage' = stage /\ \A s : At(s)' = At(s)
      BY <1>1 DEF Begins, Commit, Mark, Rip, ClearMinArea, CommitMinArea, Begin, At
    <2>2. CASE Commit
      <3>1. /\ phase' = "commit" /\ ~finishing /\ finishing' = finishing
            /\ At("unmarked") = {} /\ batch' \subseteq At("out")
        BY <2>2 DEF Commit, Begin
      <3> QED BY <1>0, <2>1, <3>1 DEF Staged
    <2>3. CASE Mark
      <3>1. /\ phase' = "mark" /\ finishing' = finishing
            /\ \/ At("unmarked") # {} /\ batch' = batch
               \/ /\ finishing /\ At("unmarked") = {} /\ At("bare") = {}
                  /\ batch' \subseteq At("in")
        BY <2>3 DEF Mark, Begin
      <3>2. At("unmarked") # {} => At("unmarked") = batch /\ At("bare") = {}
        <4> SUFFICES ASSUME At("unmarked") # {}
                     PROVE  At("unmarked") = batch /\ At("bare") = {}
          OBVIOUS
        <4>1. At("unmarked") = batch /\ (At("bare") # {} => At("bare") = batch)
          BY <1>0, <2>1 DEF Staged
        <4>2. At("unmarked") \cap At("bare") = {}
          BY DEF At
        <4> QED BY <4>1, <4>2
      <3> QED BY <1>0, <2>1, <3>1, <3>2 DEF Staged
    <2>4. CASE Rip
      <3>1. /\ phase' = "rip" /\ ~finishing /\ finishing' = finishing
            /\ At("unmarked") = {} /\ batch' \subseteq At("in")
        BY <2>4 DEF Rip, Begin
      <3> QED BY <1>0, <2>1, <3>1 DEF Staged
    <2>5. CASE ClearMinArea
      <3>1. /\ phase' = "clearExt" /\ finishing' = TRUE
            /\ At("unmarked") = {} /\ At("bare") = {} /\ batch' \subseteq At("in")
        BY <2>5 DEF ClearMinArea, Begin
      <3> QED BY <1>0, <2>1, <3>1 DEF Staged
    <2>6. CASE CommitMinArea
      <3>1. /\ phase' = "commitExt" /\ finishing' = finishing
            /\ At("bare") # {} /\ batch' = batch
        BY <2>6 DEF CommitMinArea, Begin
      <3> QED BY <1>0, <2>1, <3>1 DEF Staged
    <2> QED BY <1>1, <2>2, <2>3, <2>4, <2>5, <2>6 DEF Begins
  <1>2. CASE Join
    <2>1. phase # "idle" /\ phase' = "idle" /\ batch' = batch /\ batch \subseteq Nets
      BY <1>2, JoinHas
    <2>2. finishing' = finishing
      BY <1>2 DEF Join
    <2>3. \A n \in Nets :
            /\ n \notin batch => stage'[n] = stage[n]
            /\ n \in batch =>
                 \/ phase = "commit" /\ stage'[n] = "unmarked"
                 \/ phase = "mark" /\ stage'[n] = "in"
                 \/ phase = "rip" /\ stage'[n] = "out"
                 \/ phase = "clearExt" /\ stage'[n] = "bare"
                 \/ phase = "commitExt" /\ stage'[n] = "in"
      BY <1>2, JoinStage
    <2>4. stage' \in [Nets -> Stages]
      <3>1. stage' = [n \in Nets |-> stage'[n]]
        BY <1>2 DEF Join
      <3>2. \A n \in Nets : stage'[n] \in Stages
        BY <1>0, <2>3 DEF Staged, Stages
      <3> QED BY <3>1, <3>2
    <2>5. /\ \A s : At(s)' = {n \in Nets : stage'[n] = s}
          /\ \A s : \A n : n \in At(s) <=> n \in Nets /\ stage[n] = s
      BY DEF At
    <2>6. CASE phase = "commit"
      <3>1. At("unmarked")' = batch /\ At("bare")' = {} /\ ~finishing
        BY <1>0, <2>1, <2>3, <2>5, <2>6 DEF Staged
      <3> QED BY <1>0, <2>1, <2>2, <2>4, <3>1 DEF Staged
    <2>7. CASE phase = "mark"
      <3>1. At("unmarked")' = {} /\ At("bare")' = {}
        BY <1>0, <2>1, <2>3, <2>5, <2>7 DEF Staged
      <3> QED BY <1>0, <2>1, <2>2, <2>4, <3>1 DEF Staged
    <2>8. CASE phase = "rip"
      <3>1. At("unmarked")' = {} /\ At("bare")' = {}
        BY <1>0, <2>1, <2>3, <2>5, <2>8 DEF Staged
      <3> QED BY <1>0, <2>1, <2>2, <2>4, <3>1 DEF Staged
    <2>9. CASE phase = "clearExt"
      <3>1. At("unmarked")' = {} /\ At("bare")' = batch /\ finishing
        BY <1>0, <2>1, <2>3, <2>5, <2>9 DEF Staged
      <3> QED BY <1>0, <2>1, <2>2, <2>4, <3>1 DEF Staged
    <2>10. CASE phase = "commitExt"
      <3>1. At("unmarked")' = {} /\ At("bare")' = {} /\ finishing
        BY <1>0, <2>1, <2>3, <2>5, <2>10 DEF Staged
      <3> QED BY <1>0, <2>1, <2>2, <2>4, <3>1 DEF Staged
    <2>11. phase \in {"commit", "mark", "rip", "clearExt", "commitExt"}
      BY <2>1 DEF IInv, Shape, Phases
    <2> QED BY <2>6, <2>7, <2>8, <2>9, <2>10, <2>11
  <1> QED BY <1>1, <1>2 DEF Main, Begins

LEMMA MainRippedApart ==
  ASSUME IInv, MInv, Main
  PROVE  RippedApart'
  <1>1. CASE Rip
    <2>1. /\ phase = "idle" /\ ~finishing /\ stage' = stage /\ walk' = walk
          /\ At("unmarked") = {} /\ batch' \subseteq At("in")
          /\ \A n \in batch', m \in At("in") \ batch' : Vias(n) \cap Vias(m) = {}
      BY <1>1 DEF Rip, Begin
    <2>2. \A m \in Nets : Routed(m)' => m \in At("in")
      <3>1. At("bare") = {} /\ stage \in [Nets -> Stages]
        BY <2>1 DEF MInv, Staged
      <3> QED BY <2>1, <3>1 DEF Routed, At, Stages
    <2>3. \A n : Vias(n)' = Vias(n)
      BY <2>1 DEF Vias
    <2> QED BY <2>1, <2>2, <2>3 DEF RippedApart
  <1>2. CASE ~Rip
    <2>1. phase' # "rip"
      BY <1>2 DEF Main, Commit, Mark, ClearMinArea, CommitMinArea, Join, Begin
    <2> QED BY <2>1 DEF RippedApart
  <1> QED BY <1>1, <1>2

LEMMA MainAlone ==
  ASSUME IInv, Main
  PROVE  Alone'
  <1>1. /\ \A t \in Threads : worker[t] = AtRest
        /\ worker' = worker
    BY DEF IInv, Quiet, Main, Commit, Mark, Rip, ClearMinArea, CommitMinArea,
           Join, Begin
  <1>2. AtRest.net = Idle
    BY DEF AtRest
  <1> QED BY <1>1, <1>2 DEF Alone

LEMMA MainMapShape ==
  ASSUME IInv, MInv, Main
  PROVE  MapShape'
  <1>1. maps' = maps /\ MapShape
    BY DEF MInv, Main, Commit, Mark, Rip, ClearMinArea, CommitMinArea, Join, Begin
  <1>2. viaType' \in [Nets -> [GridPoint -> ViaTypes]]
    <2>1. CASE Mark
      <3>1. PICK type \in [UNION {{n} \X Vias(n) : n \in batch'} -> ViaTypes] :
              viaType' = [n \in Nets |-> [p \in GridPoint |->
                IF <<n, p>> \in DOMAIN type THEN type[<<n, p>>] ELSE viaType[n][p]]]
        BY <2>1 DEF Mark
      <3>2. \A n \in Nets, p \in GridPoint : viaType[n][p] \in ViaTypes
        BY <1>1 DEF MapShape
      <3> QED BY <3>1, <3>2
    <2>2. CASE ~Mark
      <3>1. viaType' = viaType
        BY <2>2 DEF Main, Commit, Rip, ClearMinArea, CommitMinArea, Join
      <3> QED BY <1>1, <3>1 DEF MapShape
    <2> QED BY <2>1, <2>2
  <1> QED BY <1>1, <1>2 DEF MapShape

\* extensions have no vias
LEMMA ViaInTree ==
  ASSUME NEW n \in Nets, NEW w \in Walks[n], NEW k \in DOMAIN w, isVia(w[k].edge)
  PROVE  ~w[k].ext
  <1>1. w \in Seq(Item) /\ k \in 1 .. Len(w)
    <2>1. w \in Seq(Item)
      BY RouteGridAssumption
    <2> QED BY <2>1
  <1>2. w[k].edge \in [u : GridPoint, v : GridPoint] /\ w[k].ext \in BOOLEAN
    <2>1. w[k] \in Item
      BY <1>1
    <2> QED BY <2>1 DEF Item
  <1>3. w[k].ext => isTrackSegment(w[k].edge)
    BY <1>1, RouteGridAssumption
  <1> QED BY <1>2, <1>3, SegmentNoVia

LEMMA BeginUsers ==
  ASSUME IInv, MInv, Begins, NEW p
  PROVE  Users(p)' = Users(p)
  <1>1. stage' = stage
    BY DEF Begins, Commit, Mark, Rip, ClearMinArea, CommitMinArea
  <1>2. CASE Mark \/ Rip \/ ClearMinArea
    <2>1. walk' = walk
      BY <1>2 DEF Mark, Rip, ClearMinArea
    <2> QED BY <1>1, <2>1 DEF Users, Routed, Vias
  <1>3. CASE Commit
    <2>1. \A n \in Nets : stage[n] # "out" => walk'[n] = walk[n]
      BY <1>3 DEF Commit, At
    <2> QED BY <1>1, <2>1 DEF Users, Routed, Vias
  <1>4. CASE CommitMinArea
    <2>1. ASSUME NEW n \in Nets PROVE p \in Vias(n)' <=> p \in Vias(n)
      <3>1. CASE n \in batch
        <4>1. /\ walk'[n] \in Walks[n] /\ SameTree(walk[n], walk'[n])
              /\ IsFiniteSet(DOMAIN walk[n])
          BY <1>4, <3>1, CommitMinAreaHeld
        <4>2. walk[n] \in Walks[n] \/ walk[n] = << >>
          BY DEF IInv, Shape
        <4>3. p \in Vias(n) <=> TreeVias(walk[n], p) # {}
          BY <4>2, ViaInTree DEF Vias, TreeVias, TreeItems
        <4>4. p \in Vias(n)' <=> TreeVias(walk'[n], p) # {}
          BY <4>1, ViaInTree DEF Vias, TreeVias, TreeItems
        <4> QED BY <4>1, <4>3, <4>4, SameTreeFacts
      <3>2. CASE n \notin batch
        <4>1. walk'[n] = walk[n]
          BY <1>4, <3>2 DEF CommitMinArea
        <4> QED BY <4>1 DEF Vias
      <3> QED BY <3>1, <3>2
    <2> QED BY <1>1, <2>1 DEF Users, Routed
  <1> QED BY <1>2, <1>3, <1>4 DEF Begins

LEMMA BeginTypeOK ==
  ASSUME IInv, MInv, Begins, NEW p \in GridPoint, TypeOK(p)
  PROVE  TypeOK(p)'
  <1>1. /\ phase = "idle" /\ maps' = maps /\ \A n, k, j : ~Done(n, k, j)'
        /\ stage' = stage /\ Users(p)' = Users(p)
    BY BeginHas, BeginUsers
       DEF Begins, Commit, Mark, Rip, ClearMinArea, CommitMinArea
  <1>2. ViaTypeAt(p)' = ViaTypeAt(p)
    BY <1>1 DEF ViaTypeAt
  <1>3. \A n, j : ~Handled(n, p, j)'
    BY <1>1 DEF Handled
  <1>4. ASSUME NEW n \in Nets, Marked(n, p)'
        PROVE  Marked(n, p) /\ viaType'[n][p] = viaType[n][p]
    <2>1. Marked(n, p)' <=> IF phase' = "mark" /\ n \in batch' THEN Handled(n, p, 1)'
                            ELSE stage'[n] # "unmarked" /\ ~(phase' = "rip" /\ n \in batch')
      BY DEF Marked
    <2>2. stage[n] # "unmarked" /\ ~(phase' = "mark" /\ n \in batch')
      BY <1>1, <1>3, <1>4, <2>1
    <2>3. Marked(n, p)
      BY <1>1, <2>2 DEF Marked
    <2>4. viaType'[n][p] = viaType[n][p]
      <3>1. CASE Mark
        <4>1. phase' = "mark" /\ n \notin batch'
          BY <2>2, <3>1 DEF Mark, Begin
        <4>2. PICK type \in [UNION {{m} \X Vias(m) : m \in batch'} -> ViaTypes] :
                viaType' = [m \in Nets |-> [q \in GridPoint |->
                  IF <<m, q>> \in DOMAIN type THEN type[<<m, q>>] ELSE viaType[m][q]]]
          BY <3>1 DEF Mark
        <4>3. <<n, p>> \notin DOMAIN type
          BY <4>1, <4>2
        <4> QED BY <4>2, <4>3
      <3>2. CASE ~Mark
        <4>1. viaType' = viaType
          BY <3>2 DEF Begins, Commit, Rip, ClearMinArea, CommitMinArea
        <4> QED BY <4>1
      <3> QED BY <3>1, <3>2
    <2> QED BY <2>3, <2>4
  <1>5. ASSUME NEW n \in Nets, Users(p)' = {n}, Marked(n, p)'
        PROVE  ViaTypeAt(p)' = viaType'[n][p]
    BY <1>1, <1>2, <1>4, <1>5 DEF TypeOK
  <1>6. Users(p)' = {} => ViaTypeAt(p)' = DefaultType
    BY <1>1, <1>2 DEF TypeOK
  <1>7. \A n \in batch' : ~Handled(n, p, 2)'
    BY <1>3
  <1> QED BY <1>5, <1>6, <1>7 DEF TypeOK

LEMMA JoinTypeOK ==
  ASSUME IInv, MInv, Join, NEW p \in GridPoint, TypeOK(p)
  PROVE  TypeOK(p)'
  <1>1. /\ maps' = maps /\ phase # "idle" /\ phase' = "idle"
        /\ \A n \in batch : \A k, j : Done(n, k, j)
        /\ batch \subseteq Nets /\ viaType' = viaType
    BY JoinHas DEF Join
  <1>2. ViaTypeAt(p)' = ViaTypeAt(p)
    BY <1>1 DEF ViaTypeAt
  <1>3. \A n \in batch : \A j : p \in Vias(n) => Handled(n, p, j)
    BY <1>1 DEF Handled, Vias, ViaItems
  <1>4. \A n : Marked(n, p)' <=> stage'[n] # "unmarked"
    BY <1>1 DEF Marked
  <1>5. \A n \in Nets : /\ n \in Users(p) <=> stage[n] # "out" /\ p \in Vias(n)
                        /\ n \in Users(p)' <=> stage'[n] # "out" /\ p \in Vias(n)'
    BY DEF Users, Routed
  <1>6. Users(p) \subseteq Nets /\ Users(p)' \subseteq Nets
    BY DEF Users
  <1>7. SUFFICES /\ Users(p)' = {} => ViaTypeAt(p) = DefaultType
                 /\ \A n \in Nets : Users(p)' = {n} /\ stage'[n] # "unmarked" =>
                      ViaTypeAt(p) = viaType[n][p]
    BY <1>1, <1>2, <1>4 DEF TypeOK
  <1>8. \A n \in Nets \ batch : /\ stage'[n] = stage[n]
                                /\ n \in Users(p)' <=> n \in Users(p)
    BY <1>5, JoinStage DEF Vias
  <1>9. \A n \in batch : phase # "rip" => (p \in Vias(n)' <=> p \in Vias(n))
    BY <1>1, JoinStage DEF Vias
  <1>10. CASE phase = "commit"
    <2>1. \A n \in batch : n \notin Users(p) /\ stage'[n] = "unmarked"
      BY <1>1, <1>5, <1>10, JoinStage
    <2>2. Users(p) \subseteq Users(p)'
      BY <1>6, <1>8, <2>1
    <2>3. ASSUME NEW n \in Nets, Users(p)' = {n}, stage'[n] # "unmarked"
          PROVE  ViaTypeAt(p) = viaType[n][p]
      <3>1. n \notin batch
        BY <2>1, <2>3
      <3>2. Users(p) = {n}
        BY <1>8, <2>2, <2>3, <3>1
      <3>3. Marked(n, p)
        BY <1>8, <1>10, <2>3, <3>1 DEF Marked
      <3> QED BY <3>2, <3>3 DEF TypeOK
    <2> QED BY <2>2, <2>3 DEF TypeOK
  <1>11. CASE phase \in {"mark", "clearExt", "commitExt"}
    <2>1. \A n \in batch : n \in Users(p)' <=> n \in Users(p)
      BY <1>1, <1>5, <1>9, <1>11, JoinStage
    <2>2. Users(p)' = Users(p)
      BY <1>6, <1>8, <2>1
    <2>3. ASSUME NEW n \in Nets, Users(p)' = {n}, stage'[n] # "unmarked"
          PROVE  ViaTypeAt(p) = viaType[n][p]
      <3>1. p \in Vias(n)
        BY <1>5, <2>2, <2>3
      <3>2. CASE phase = "mark" /\ n \in batch
        <4>1. Handled(n, p, 1)
          BY <1>3, <3>1, <3>2
        <4>2. Marked(n, p)
          BY <3>2, <4>1 DEF Marked
        <4> QED BY <2>2, <2>3, <4>2 DEF TypeOK
      <3>3. CASE ~(phase = "mark" /\ n \in batch)
        <4>1. stage[n] # "unmarked"
          BY <1>8, <1>11, <2>3, <3>3, JoinStage
        <4>2. Marked(n, p)
          BY <1>11, <3>3, <4>1 DEF Marked
        <4> QED BY <2>2, <2>3, <4>2 DEF TypeOK
      <3> QED BY <3>2, <3>3
    <2> QED BY <2>2, <2>3 DEF TypeOK
  <1>12. CASE phase = "rip"
    <2>1. \A n \in batch : n \notin Users(p)' /\ stage[n] = "in"
      BY <1>1, <1>5, <1>12, JoinStage
    <2>2. (\E n \in batch : n \in Users(p)) => ViaTypeAt(p) = DefaultType
      BY <1>1, <1>3, <1>5, <1>12 DEF TypeOK
    <2>3. Users(p)' = {} => ViaTypeAt(p) = DefaultType
      <3>1. Users(p)' = {} => Users(p) \subseteq batch
        BY <1>6, <1>8
      <3> QED BY <2>2, <3>1 DEF TypeOK
    <2>4. ASSUME NEW n \in Nets, Users(p)' = {n}, stage'[n] # "unmarked"
          PROVE  ViaTypeAt(p) = viaType[n][p]
      <3>1. n \notin batch /\ n \in Users(p)
        BY <1>8, <2>1, <2>4
      <3>2. \A m \in batch : m \notin Users(p)
        BY <1>1, <1>5, <1>12, <3>1 DEF MInv, RippedApart, Routed
      <3>3. Users(p) = {n}
        BY <1>6, <1>8, <2>4, <3>1, <3>2
      <3>4. Marked(n, p)
        BY <1>8, <1>12, <2>4, <3>1 DEF Marked
      <3> QED BY <3>3, <3>4 DEF TypeOK
    <2> QED BY <2>3, <2>4
  <1>13. phase \in {"commit", "mark", "rip", "clearExt", "commitExt"}
    BY <1>1 DEF IInv, Shape, Phases
  <1> QED BY <1>10, <1>11, <1>12, <1>13

LEMMA MainMInv ==
  ASSUME IInv, MInv, Main
  PROVE  MInv'
  <1>1. /\ \A p \in GridPoint, n \in Nets : WireOK(p, n)
        /\ \A p \in LowerPoints, n \in Nets : ViaOK(p, n)
        /\ \A p \in GridPoint : TypeOK(p)
    BY DEF MInv, WireInv, ViaInv, TypeInv
  <1>2. Begins \/ Join
    BY DEF Main, Begins
  <1>3. /\ \A p \in GridPoint, n \in Nets : WireOK(p, n)'
        /\ \A p \in LowerPoints, n \in Nets : ViaOK(p, n)'
    BY <1>1, <1>2, BeginOK, JoinOK
  <1>4. \A p \in GridPoint : TypeOK(p)'
    BY <1>1, <1>2, BeginTypeOK, JoinTypeOK
  <1>5. WireInv' /\ ViaInv' /\ TypeInv'
    BY <1>3, <1>4 DEF WireInv, ViaInv, TypeInv
  <1> QED BY <1>5, MainStaged, MainRippedApart, MainAlone, MainMapShape DEF MInv

LEMMA InitMInv == Init => MInv
  <1> SUFFICES ASSUME Init PROVE MInv
    OBVIOUS
  <1>1. \A n : ~Routed(n) \/ n \notin Nets
    BY DEF Init, Routed
  <1>2. \A n \in Nets : DOMAIN walk[n] = {}
    BY DEF Init
  <1>3. MapShape
    <2>1. \A c \in Containers : maps[c] = EmptyMap(c)
      BY DEF Init
    <2>2. \A c : EmptyMap(c) = [e \in DOMAIN EmptyMap(c) |-> EmptyMap(c)[e]]
      BY DEF EmptyMap
    <2>3. viaType \in [Nets -> [GridPoint -> ViaTypes]]
      BY RouteGridAssumption DEF Init
    <2> QED BY <2>1, <2>2, <2>3 DEF MapShape
  <1>4. Staged
    <2>1. \A s : s # "out" => At(s) = {}
      BY DEF Init, At
    <2> QED BY <2>1 DEF Init, Staged, Stages
  <1>5. RippedApart
    BY DEF Init, RippedApart
  <1>6. Alone
    BY DEF Init, Alone, AtRest
  <1>7. ASSUME NEW kind \in {"wire", "via", "viaUpper"}, NEW p \in GridPoint, NEW n \in Nets
        PROVE  ViaEntries(kind, p, n) = 0
    <2>1. /\ TrackOf(kind, p) \in Containers /\ TrackOf(kind, p) # routedNonDefViaMap
          /\ <<p.cp, n>> \in Entries(TrackOf(kind, p))
      <3>1. TrackOf(kind, p) \in Containers
        BY DEF Containers
      <3>2. TrackOf(kind, p) # routedNonDefViaMap
        BY DEF TrackOf, routedNonDefViaMap
      <3>3. TrackOf(kind, p).layer = p.layer
        BY DEF TrackOf
      <3>4. p.cp \in {q.cp : q \in {r \in GridPoint : r.layer = TrackOf(kind, p).layer}}
        BY <3>3
      <3> QED BY <3>1, <3>2, <3>4 DEF Entries
    <2>2. maps[TrackOf(kind, p)] = [e \in Entries(TrackOf(kind, p)) |-> 0]
      BY <2>1 DEF Init, EmptyMap
    <2> QED BY <2>1, <2>2 DEF ViaEntries
  <1>8. ASSUME NEW p \in GridPoint, NEW n \in Nets PROVE WireOK(p, n)
    <2>1. Wire(p, n) = 0
      BY <1>7 DEF Wire, ViaEntries
    <2>2. ~MayHold(n, p)
      BY <1>2 DEF MayHold, Crossing
    <2> QED BY <2>1, <2>2 DEF WireOK
  <1>9. ASSUME NEW p \in LowerPoints, NEW n \in Nets PROVE ViaOK(p, n)
    <2>1. p \in GridPoint /\ getUpper(p) \in GridPoint
      BY DEF LowerPoints
    <2>2. \A j : ViasOn(n, p, j) = {}
      BY <1>2 DEF ViasOn, ViaItems
    <2>3. Cardinality({}) = 0
      BY FS_EmptySet
    <2> QED BY <1>7, <2>1, <2>2, <2>3 DEF ViaOK
  <1>10. ASSUME NEW p \in GridPoint PROVE TypeOK(p)
    <2>1. Users(p) = {}
      BY <1>1 DEF Users
    <2>2. ViaTypeAt(p) = DefaultType
      <3>1. maps[routedNonDefViaMap] = [q \in GridPoint |-> DefaultType]
        BY DEF Init, EmptyMap, Containers
      <3> QED BY <3>1 DEF ViaTypeAt
    <2> QED BY <2>1, <2>2 DEF Init, TypeOK
  <1> QED BY <1>3, <1>4, <1>5, <1>6, <1>8, <1>9, <1>10 DEF MInv, WireInv, ViaInv, TypeInv

LEMMA StutterMInv ==
  ASSUME MInv, UNCHANGED vars
  PROVE  MInv'
  <1>1. /\ UNCHANGED <<maps, holder, phase, batch, pending, worker, read>>
        /\ UNCHANGED <<walk, viaType, stage, finishing>>
    BY DEF vars
  <1>2. MapShape' /\ Staged' /\ RippedApart' /\ Alone'
    <2>1. MapShape'
      BY <1>1 DEF MInv, MapShape, EmptyMap, Entries
    <2>2. Staged'
      BY <1>1 DEF MInv, Staged, At
    <2>3. RippedApart'
      BY <1>1 DEF MInv, RippedApart, Routed, Vias
    <2>4. Alone'
      BY <1>1 DEF MInv, Alone
    <2> QED BY <2>1, <2>2, <2>3, <2>4
  <1>3. /\ \A n, k, j : Done(n, k, j)' <=> Done(n, k, j)
        /\ \A n, k : (Doing(n, k)' <=> Doing(n, k)) /\ (Held(n, k)' <=> Held(n, k))
    BY <1>1 DEF Done, Doing, Held, Routed
  <1>4. \A n, k : Removing(n, k)' <=> Removing(n, k)
    BY <1>1, <1>3 DEF Removing
  <1>5. \A n, k, j : Has(n, k, j)' <=> Has(n, k, j)
    BY <1>3, <1>4 DEF Has
  <1>6. \A n, p : Crossing(n, p)' = Crossing(n, p) /\ ViaItems(n, p)' = ViaItems(n, p)
    BY <1>1 DEF Crossing, ViaItems
  <1>7. WireInv'
    <2>1. \A n, k, p : On(n, k, p)' <=> On(n, k, p)
      <3>1. ASSUME NEW n, NEW k, NEW p PROVE On(n, k, p)' <=> On(n, k, p)
        <4>1. \A j : j = SectionOn(walk[n][k].edge, p) => (On(n, k, p)' <=> Has(n, k, j)')
          BY <1>1 DEF On
        <4> QED BY <1>5, <4>1 DEF On
      <3> QED BY <3>1
    <2>2. \A n, p : MayHold(n, p)' <=> MayHold(n, p)
      BY <1>4, <1>6, <2>1 DEF MayHold
    <2> QED BY <1>1, <2>2 DEF MInv, WireInv, WireOK, Wire
  <1>8. ViaInv'
    <2>1. \A n, p, j : ViasOn(n, p, j)' = ViasOn(n, p, j)
      BY <1>5, <1>6 DEF ViasOn
    <2> QED BY <1>1, <2>1 DEF MInv, ViaInv, ViaOK, ViaEntries, UpperSection
  <1>9. TypeInv'
    <2>1. \A n, p, j : Handled(n, p, j)' <=> Handled(n, p, j)
      BY <1>3, <1>6 DEF Handled
    <2>2. \A p : Users(p)' = Users(p)
      BY <1>1 DEF Users, Routed, Vias
    <2>3. \A n, p : Marked(n, p)' <=> Marked(n, p)
      BY <1>1, <2>1 DEF Marked
    <2> QED BY <1>1, <2>1, <2>2, <2>3 DEF MInv, TypeInv, TypeOK, ViaTypeAt
  <1> QED BY <1>2, <1>7, <1>8, <1>9 DEF MInv

LEMMA NextMInv == IInv /\ MInv /\ [Next]_vars => MInv'
  BY MainMInv, ThreadMInv, StutterMInv DEF Next

(* What the maps hold in the middle of the phases holds throughout.        *)
THEOREM SpecMInv == Spec => []MInv
  <1>1. Spec => []IInv
    BY SpecIInv
  <1> QED BY <1>1, InitMInv, NextMInv, PTL DEF Spec

-----------------------------------------------------------------------------
(* Between two phases.                                                     *)

LEMMA IdleHas ==
  ASSUME phase = "idle"
  PROVE  /\ \A n, k, j : Has(n, k, j) <=> Held(n, k)
         /\ \A n, k : ~Removing(n, k)
  BY DEF Has, Removing, Doing

LEMMA IdleWires ==
  ASSUME MInv
  PROVE  WireMapExact
  <1> SUFFICES ASSUME phase = "idle", NEW p \in GridPoint, NEW n \in Nets
               PROVE  /\ Wire(p, n) = 1 => Routed(n) /\ p \in WirePoints(n)
                      /\ ~finishing =>
                           Wire(p, n) = IF Routed(n) /\ p \in WirePoints(n) THEN 1 ELSE 0
    BY DEF WireMapExact
  <1>1. WireOK(p, n)
    BY DEF MInv, WireInv
  <1>2. MayHold(n, p) <=> \E k \in Crossing(n, p) : Held(n, k)
    BY IdleHas DEF MayHold, On
  <1>3. p \in WirePoints(n) <=>
          \E k \in Crossing(n, p) : walk[n][k].ext => stage[n] # "bare"
    BY DEF WirePoints, Crossing
  <1>4. MayHold(n, p) <=> Routed(n) /\ p \in WirePoints(n)
    BY <1>2, <1>3 DEF Held
  <1> QED BY <1>1, <1>4 DEF WireOK

LEMMA IdleVias ==
  ASSUME IInv, MInv
  PROVE  ViaMapsExact
  <1> SUFFICES ASSUME phase = "idle", NEW p \in LowerPoints, NEW n \in Nets
               PROVE  LET count == IF Routed(n) THEN ViaCount(p, n) ELSE 0
                      IN  /\ ViaEntries("via", p, n) = count
                          /\ ViaEntries("viaUpper", getUpper(p), n) = count
    BY DEF ViaMapsExact, LowerPoints
  <1>1. ViaOK(p, n)
    BY DEF MInv, ViaInv
  <1>2. /\ ViaEntries("via", p, n) = Cardinality(ViasOn(n, p, 1))
        /\ ViaEntries("viaUpper", getUpper(p), n) = Cardinality(ViasOn(n, p, 2))
    BY <1>1 DEF ViaOK, UpperSection
  <1>3. walk[n] \in Walks[n] \/ walk[n] = << >>
    BY DEF IInv, Shape
  <1>4. \A k \in ViaItems(n, p) : ~walk[n][k].ext
    BY <1>3, ViaInTree DEF ViaItems
  <1>5. \A j : ViasOn(n, p, j) = IF Routed(n) THEN ViaItems(n, p) ELSE {}
    BY <1>4, IdleHas DEF ViasOn, Held
  <1>6. ViaCount(p, n) = Cardinality(ViaItems(n, p))
    BY DEF ViaCount, ViaItems
  <1>7. Cardinality({}) = 0
    BY FS_EmptySet
  <1> QED BY <1>2, <1>5, <1>6, <1>7

LEMMA IdleTypes ==
  ASSUME MInv
  PROVE  SoleViaMark
  <1> SUFFICES ASSUME phase = "idle", At("unmarked") = {}, NEW p \in GridPoint
               PROVE  /\ \A n \in Users(p) : Users(p) = {n} => ViaTypeAt(p) = viaType[n][p]
                      /\ Users(p) = {} => ViaTypeAt(p) = DefaultType
    BY DEF SoleViaMark, Users
  <1>1. TypeOK(p)
    BY DEF MInv, TypeInv
  <1>2. \A n \in Nets : Marked(n, p)
    BY DEF Marked, At
  <1>3. Users(p) \subseteq Nets
    BY DEF Users
  <1> QED BY <1>1, <1>2, <1>3 DEF TypeOK

(* Between phases routedWireMap has no wire of a net that is no longer     *)
(* there, and before finish() each cross point of each routed net exactly  *)
(* once: wires of one net may overlap, and threads add, subtract and lock  *)
(* track by track in any order.                                            *)
THEOREM SpecWireMapExact == Spec => []WireMapExact
  <1>1. MInv => WireMapExact
    BY IdleWires
  <1> QED BY <1>1, SpecMInv, PTL

(* Both via maps hold each via of each routed net once per edge, also when *)
(* removeVia updates the upper map under the mutex of the lower point.     *)
THEOREM SpecViaMapsExact == Spec => []ViaMapsExact
  <1>1. IInv /\ MInv => ViaMapsExact
    BY IdleVias
  <1> QED BY <1>1, SpecIInv, SpecMInv, PTL

(* A via that no other net shares has the type chosen for it and an empty  *)
(* location has none, although types are kept under the location alone:    *)
(* the nets that share a via are ripped up together.                       *)
THEOREM SpecSoleViaMark == Spec => []SoleViaMark
  <1>1. MInv => SoleViaMark
    BY IdleTypes
  <1> QED BY <1>1, SpecMInv, PTL
=============================================================================
