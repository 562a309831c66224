--------------------------- MODULE PreRouteProofs ---------------------------
(***************************************************************************)
(* Pre-route (single_net/PreRoute.cpp): whatever the layout of tracks and  *)
(* cross points, the guides of a net are put on the grid exactly, and no   *)
(* attempt loses what an earlier one covered.                              *)
(*                                                                         *)
(* The argument: searching a box finds its grid points because tracks are  *)
(* a pitch apart and cross points are where the tracks of the layers next  *)
(* to it cross; boxes are sliced between the ends of all of them, so two   *)
(* slices have the same tracks or none in common, and merging keeps their  *)
(* points, once each; and expanding guides and covering pins only ever     *)
(* makes boxes larger.                                                     *)
(***************************************************************************)
EXTENDS PreRoute, TLAPS, FiniteSetTheorems, SequenceTheorems

-----------------------------------------------------------------------------
(* Numbers and finite sets                                                 *)

\* a set of natural numbers has a least element
LEMMA LeastNatural ==
  ASSUME NEW S, S \subseteq Nat, S # {}
  PROVE  \E m \in S : \A n \in S : m <= n
  <1> DEFINE U == {0 .. n - 1 : n \in S}
             R == StrictSubsetOrdering(Nat)
  <1>1. U \subseteq FiniteSubsetsOf(Nat) /\ U # {}
    <2>1. \A n \in S : 0 .. n - 1 \in SUBSET Nat /\ IsFiniteSet(0 .. n - 1)
      BY FS_Interval
    <2> QED BY <2>1 DEF FiniteSubsetsOf
  <1>2. IsWellFoundedOn(R, FiniteSubsetsOf(Nat))
    BY FS_StrictSubsetOrderingWellFounded
  <1>3. PICK x \in U : \A y \in U : ~ (<<y, x>> \in R)
    <2> HIDE DEF U, R
    <2> QED BY <1>1, <1>2, WFMin
  <1>4. PICK m \in S : x = 0 .. m - 1
    OBVIOUS
  <1>5. ASSUME NEW n \in S, n < m PROVE FALSE
    <2>1. 0 .. n - 1 \in U /\ 0 .. n - 1 \subseteq 0 .. m - 1 /\ 0 .. n - 1 # 0 .. m - 1
      <3>1. n \in 0 .. m - 1 /\ n \notin 0 .. n - 1
        BY <1>5
      <3> QED BY <1>5, <3>1
    <2>2. <<0 .. n - 1, x>> \in R
      BY <1>4, <2>1 DEF StrictSubsetOrdering
    <2> QED BY <1>3, <2>1, <2>2
  <1> QED BY <1>5

\* induction up to a number, for what holds of the numbers in a set
LEMMA AllUpTo ==
  ASSUME NEW N \in Nat, NEW S, 0 \in S, \A n \in 0 .. N - 1 : n \in S => n + 1 \in S
  PROVE  \A n \in 0 .. N : n \in S
  <1> DEFINE Bad == {n \in 0 .. N : n \notin S}
  <1>1. ASSUME Bad # {} PROVE FALSE
    <2>1. PICK m \in Bad : \A n \in Bad : m <= n
      <3>1. Bad \subseteq Nat
        OBVIOUS
      <3> HIDE DEF Bad
      <3> QED BY <1>1, <3>1, LeastNatural
    <2>2. m \in 0 .. N /\ m # 0
      BY <2>1
    <2>3. m - 1 \in 0 .. N - 1 /\ m - 1 \in 0 .. N /\ ~(m <= m - 1) /\ m - 1 + 1 = m
      BY <2>2
    <2>4. m - 1 \in S
      BY <2>1, <2>3
    <2> QED BY <2>1, <2>3, <2>4
  <1> QED BY <1>1

\* a set of finite subsets of S to which an element may be added has them all
LEMMA AllSubsets ==
  ASSUME NEW S, IsFiniteSet(S), NEW G, {} \in G,
         \A T \in SUBSET S : T # {} /\ (\A U \in SUBSET T : U # T => U \in G) => T \in G
  PROVE  \A T \in SUBSET S : T \in G
  <1> DEFINE Bad == {T \in SUBSET S : T \notin G}
             Sizes == {Cardinality(T) : T \in Bad}
  <1>1. ASSUME Bad # {} PROVE FALSE
    <2>1. Sizes \subseteq Nat /\ Sizes # {}
      BY <1>1, FS_Subset, FS_CardinalityType
    <2>2. PICK m \in Sizes : \A n \in Sizes : m <= n
      <3> HIDE DEF Sizes
      <3> QED BY <2>1, LeastNatural
    <2>3. PICK T \in Bad : m = Cardinality(T)
      BY <2>2
    <2>4. IsFiniteSet(T)
      BY <2>3, FS_Subset
    <2>5. ASSUME NEW U \in SUBSET T, U # T PROVE U \in G
      <3>1. Cardinality(U) < Cardinality(T) /\ Cardinality(U) \in Nat /\ Cardinality(T) \in Nat
        BY <2>4, <2>5, FS_Subset, FS_CardinalityType
      <3>2. U \notin Bad
        BY <2>2, <2>3, <3>1
      <3> QED BY <2>3, <2>5, <3>2
    <2> QED BY <2>3, <2>5
  <1> QED BY <1>1

\* a finite set of pairs has a least one in lexicographic order
LEMMA LexLeast ==
  ASSUME NEW S, IsFiniteSet(S), NEW rank \in [S -> Int \X Int]
  PROVE  \A T \in SUBSET S : T # {} => \E e \in T : \A x \in T : Lex(rank[e], rank[x])
  <1> DEFINE Least(T) == \E e \in T : \A x \in T : Lex(rank[e], rank[x])
             G == {T \in SUBSET S : T # {} => Least(T)}
  <1>1. ASSUME NEW T \in SUBSET S, T # {}, \A U \in SUBSET T : U # T => U \in G
        PROVE  T \in G
    <2>1. PICK y \in T : TRUE
      BY <1>1
    <2>2. \A a, b \in Int \X Int : Lex(a, b) \/ Lex(b, a)
      BY DEF Lex
    <2>3. CASE T \ {y} = {}
      <3>1. \A x \in T : x = y
        BY <2>3
      <3> QED BY <2>1, <2>2, <3>1
    <2>4. CASE T \ {y} # {}
      <3>1. T \ {y} \in G
        BY <1>1, <2>1
      <3>2. PICK e \in T \ {y} : \A x \in T \ {y} : Lex(rank[e], rank[x])
        BY <2>4, <3>1
      <3>3. \A a, b, c \in Int \X Int : Lex(a, b) /\ Lex(b, c) => Lex(a, c)
        BY DEF Lex
      <3>4. CASE Lex(rank[e], rank[y])
        <4>1. \A x \in T : Lex(rank[e], rank[x])
          BY <3>2, <3>4
        <4> QED BY <4>1
      <3>5. CASE Lex(rank[y], rank[e])
        <4>1. \A x \in T : rank[x] \in Int \X Int
          OBVIOUS
        <4>2. \A x \in T \ {y} : Lex(rank[y], rank[x])
          BY <2>1, <3>2, <3>3, <3>5, <4>1
        <4>3. \A x \in T : Lex(rank[y], rank[x])
          BY <2>1, <2>2, <4>1, <4>2
        <4> QED BY <2>1, <4>3
      <3> QED BY <2>1, <2>2, <3>2, <3>4, <3>5
    <2> QED BY <2>3, <2>4
  <1> HIDE DEF Least
  <1>2. \A T \in SUBSET S : T \in G
    <2>1. {} \in G
      OBVIOUS
    <2> HIDE DEF G
    <2> QED BY <1>1, <2>1, AllSubsets
  <1> QED BY <1>2 DEF Least

-----------------------------------------------------------------------------
(* A set in the order of ranks (InOrder)                                   *)

\* the element of T with the least rank
First(T, rank) == CHOOSE e \in T : \A x \in T : Lex(rank[e], rank[x])

\* f orders each finite subset of S by rank, one element after the other
OrderOf(f, S, rank) ==
  f = [T \in SUBSET S |-> IF T = {} THEN <<>> ELSE <<First(T, rank)>> \o f[T \ {First(T, rank)}]]

\* the same for the subsets of up to n elements
OrderUpTo(f, S, rank, n) ==
  f = [T \in {U \in SUBSET S : Cardinality(U) <= n} |->
         IF T = {} THEN <<>> ELSE <<First(T, rank)>> \o f[T \ {First(T, rank)}]]

\* the first element of a finite set by rank is one of it
LEMMA FirstIn ==
  ASSUME NEW S, IsFiniteSet(S), NEW rank \in [S -> Int \X Int], NEW T \in SUBSET S, T # {}
  PROVE  /\ First(T, rank) \in T
         /\ \A x \in T : Lex(rank[First(T, rank)], rank[x])
         /\ Cardinality(T) \in Nat /\ Cardinality(T \ {First(T, rank)}) = Cardinality(T) - 1
  <1>1. First(T, rank) \in T /\ \A x \in T : Lex(rank[First(T, rank)], rank[x])
    <2>1. \E e \in T : \A x \in T : Lex(rank[e], rank[x])
      BY LexLeast
    <2> QED BY <2>1 DEF First
  <1> HIDE DEF First
  <1>2. IsFiniteSet(T)
    BY FS_Subset
  <1> QED BY <1>1, <1>2, FS_RemoveElement, FS_CardinalityType

\* the sets of up to n elements have an order, for each n
LEMMA OrderUpToExists ==
  ASSUME NEW S, IsFiniteSet(S), NEW rank \in [S -> Int \X Int]
  PROVE  \A n \in 0 .. Cardinality(S) :
           \E f \in [{U \in SUBSET S : Cardinality(U) <= n} -> Seq(S)] : OrderUpTo(f, S, rank, n)
  <1> DEFINE D(n) == {U \in SUBSET S : Cardinality(U) <= n}
             G == {n \in Nat : \E f \in [D(n) -> Seq(S)] : OrderUpTo(f, S, rank, n)}
  <1>0. Cardinality(S) \in Nat /\ \A T \in SUBSET S : IsFiniteSet(T) /\ Cardinality(T) \in Nat
    BY FS_CardinalityType, FS_Subset
  <1>1. 0 \in G
    <2>1. \A U \in D(0) : U = {}
      BY <1>0, FS_EmptySet
    <2> DEFINE f == [U \in D(0) |-> <<>>]
    <2>2. f \in [D(0) -> Seq(S)]
      OBVIOUS
    <2>3. OrderUpTo(f, S, rank, 0)
      BY <2>1 DEF OrderUpTo
    <2> QED BY <2>2, <2>3
  <1>2. ASSUME NEW n \in 0 .. Cardinality(S) - 1, n \in G PROVE n + 1 \in G
    <2>1. PICK f \in [D(n) -> Seq(S)] : OrderUpTo(f, S, rank, n)
      BY <1>2
    <2> DEFINE h == [T \in D(n + 1) |->
                       IF T = {} THEN <<>> ELSE <<First(T, rank)>> \o f[T \ {First(T, rank)}]]
    <2>2. ASSUME NEW T \in D(n + 1), T # {}
          PROVE  T \ {First(T, rank)} \in D(n) /\ First(T, rank) \in S
      <3>1. First(T, rank) \in T /\ Cardinality(T) \in Nat
            /\ Cardinality(T \ {First(T, rank)}) = Cardinality(T) - 1
        BY <2>2, FirstIn
      <3> QED BY <1>0, <2>2, <3>1
    <2>3. h \in [D(n + 1) -> Seq(S)]
      <3>1. ASSUME NEW T \in D(n + 1) PROVE h[T] \in Seq(S)
        <4>1. CASE T = {}
          BY <4>1
        <4>2. CASE T # {}
          <5>1. <<First(T, rank)>> \in Seq(S) /\ f[T \ {First(T, rank)}] \in Seq(S)
            BY <2>1, <2>2, <4>2
          <5>2. <<First(T, rank)>> \o f[T \ {First(T, rank)}] \in Seq(S)
            BY <5>1, ConcatProperties
          <5> QED BY <4>2, <5>2
        <4> QED BY <4>1, <4>2
      <3> QED BY <3>1
    <2>4. \A T \in D(n) : T \in D(n + 1) /\ h[T] = f[T]
      <3>1. \A T \in D(n) : T \in D(n + 1)
        BY <1>0
      <3>2. \A T \in D(n) :
              f[T] = IF T = {} THEN <<>> ELSE <<First(T, rank)>> \o f[T \ {First(T, rank)}]
        BY <2>1 DEF OrderUpTo
      <3> QED BY <3>1, <3>2
    <2>5. \A T \in D(n + 1) :
            h[T] = IF T = {} THEN <<>> ELSE <<First(T, rank)>> \o h[T \ {First(T, rank)}]
      <3> HIDE DEF D
      <3>1. \A T \in D(n + 1) : T # {} => h[T \ {First(T, rank)}] = f[T \ {First(T, rank)}]
        <4> HIDE DEF h
        <4> QED BY <2>2, <2>4
      <3> QED BY <3>1
    <2>6. OrderUpTo(h, S, rank, n + 1)
      <3> HIDE DEF First
      <3> QED BY <2>3, <2>5 DEF OrderUpTo
    <2> HIDE DEF h
    <2>7. n + 1 \in Nat
      OBVIOUS
    <2> QED BY <2>3, <2>6, <2>7
  <1> HIDE DEF G
  <1>3. \A n \in 0 .. Cardinality(S) : n \in G
    BY <1>0, <1>1, <1>2, AllUpTo
  <1> QED BY <1>3 DEF G

\* the recursive function that InOrder chooses exists
LEMMA OrderExists ==
  ASSUME NEW S, IsFiniteSet(S), NEW rank \in [S -> Int \X Int]
  PROVE  \E f : OrderOf(f, S, rank)
  <1> DEFINE n == Cardinality(S)
  <1>1. n \in 0 .. n
    BY FS_CardinalityType
  <1>2. PICK f \in [{U \in SUBSET S : Cardinality(U) <= n} -> Seq(S)] : OrderUpTo(f, S, rank, n)
    BY <1>1, OrderUpToExists
  <1>3. {U \in SUBSET S : Cardinality(U) <= n} = SUBSET S
    BY FS_Subset
  <1> QED BY <1>2, <1>3 DEF OrderUpTo, OrderOf

\* the elements of T, each once, in the order of their ranks
InOrderOf(s, T, rank) ==
  /\ s \in Seq(T)
  /\ \A e \in T : \E i \in DOMAIN s : s[i] = e
  /\ \A i, j \in DOMAIN s : i < j => Lex(rank[s[i]], rank[s[j]]) /\ s[i] # s[j]

\* a sequence with an element put before it
LEMMA ConsFacts ==
  ASSUME NEW T, NEW e \in T, NEW s \in Seq(T), NEW r, r = <<e>> \o s
  PROVE  /\ r \in Seq(T) /\ DOMAIN r = 1 .. Len(s) + 1 /\ DOMAIN s = 1 .. Len(s) /\ Len(s) \in Nat
         /\ r[1] = e
         /\ \A i \in 1 .. Len(s) : i + 1 \in 1 .. Len(s) + 1 /\ r[i + 1] = s[i]
         /\ \A i \in 1 .. Len(s) + 1 : i # 1 => i - 1 \in 1 .. Len(s) /\ r[i] = s[i - 1]
  <1>1. <<e>> \in Seq(T) /\ Len(<<e>>) = 1
    OBVIOUS
  <1>2. r \in Seq(T) /\ Len(r) = Len(s) + 1
    BY <1>1, ConcatProperties
  <1>3. \A i \in 1 .. Len(s) + 1 : r[i] = IF i = 1 THEN e ELSE s[i - 1]
    BY <1>1, ConcatProperties
  <1> QED BY <1>2, <1>3

\* what the orders of all finite subsets of S have in common
LEMMA OrderFacts ==
  ASSUME NEW S, IsFiniteSet(S), NEW rank \in [S -> Int \X Int], NEW f, OrderOf(f, S, rank)
  PROVE  \A T \in SUBSET S : InOrderOf(f[T], T, rank)
  <1> DEFINE G == {T \in SUBSET S : InOrderOf(f[T], T, rank)}
  <1>1. {} \in G
    <2>1. f[{}] = <<>> /\ <<>> \in Seq({}) /\ DOMAIN <<>> = {}
      BY DEF OrderOf
    <2>2. InOrderOf(<<>>, {}, rank)
      BY <2>1 DEF InOrderOf
    <2> QED BY <2>1, <2>2
  <1>2. ASSUME NEW T \in SUBSET S, T # {}, \A U \in SUBSET T : U # T => U \in G
        PROVE  T \in G
    <2> DEFINE e == First(T, rank)
               U == T \ {e}
               s == f[U]
               r == f[T]
    <2>1. e \in T /\ \A x \in T : Lex(rank[e], rank[x])
      BY <1>2, FirstIn
    <2>2. r = <<e>> \o s
      BY <1>2 DEF OrderOf
    <2>3. InOrderOf(s, U, rank)
      BY <1>2, <2>1
    <2>4. s \in Seq(U) /\ s \in Seq(T)
      BY <2>3 DEF InOrderOf
    <2> HIDE DEF e, s, r
    <2>5. /\ r \in Seq(T) /\ DOMAIN r = 1 .. Len(s) + 1 /\ DOMAIN s = 1 .. Len(s) /\ Len(s) \in Nat
          /\ r[1] = e
          /\ \A i \in 1 .. Len(s) : i + 1 \in 1 .. Len(s) + 1 /\ r[i + 1] = s[i]
          /\ \A i \in 1 .. Len(s) + 1 : i # 1 => i - 1 \in 1 .. Len(s) /\ r[i] = s[i - 1]
      BY <2>1, <2>2, <2>4, ConsFacts
    <2>6. \A i \in 1 .. Len(s) : s[i] \in U
      BY <2>4
    <2>8. ASSUME NEW x \in T PROVE \E i \in DOMAIN r : r[i] = x
      <3>1. CASE x = e
        BY <2>5, <3>1
      <3>2. CASE x # e
        <4>1. PICK i \in DOMAIN s : s[i] = x
          BY <2>3, <3>2 DEF InOrderOf
        <4> QED BY <2>5, <4>1
      <3> QED BY <3>1, <3>2
    <2>9. ASSUME NEW i \in DOMAIN r, NEW j \in DOMAIN r, i < j
          PROVE  Lex(rank[r[i]], rank[r[j]]) /\ r[i] # r[j]
      <3>1. j # 1 /\ j \in 1 .. Len(s) + 1 /\ i \in 1 .. Len(s) + 1
        BY <2>5, <2>9
      <3>2. CASE i = 1
        <4>1. r[j] \in U
          BY <2>5, <2>6, <3>1
        <4> QED BY <2>1, <2>5, <3>2, <4>1
      <3>3. CASE i # 1
        <4>1. i - 1 \in DOMAIN s /\ j - 1 \in DOMAIN s /\ i - 1 < j - 1
          <5>1. i - 1 \in 1 .. Len(s) /\ j - 1 \in 1 .. Len(s)
            BY <2>5, <3>1, <3>3
          <5>2. i \in Int /\ j \in Int
            BY <2>5, <3>1
          <5> QED BY <2>5, <2>9, <5>1, <5>2
        <4>2. r[i] = s[i - 1] /\ r[j] = s[j - 1]
          BY <2>5, <3>1, <3>3
        <4> QED BY <2>3, <4>1, <4>2 DEF InOrderOf
      <3> QED BY <3>2, <3>3
    <2>10. InOrderOf(r, T, rank)
      BY <2>5, <2>8, <2>9 DEF InOrderOf
    <2> QED BY <2>10 DEF r
  <1> HIDE DEF G
  <1>3. \A T \in SUBSET S : T \in G
    BY <1>1, <1>2, AllSubsets
  <1> QED BY <1>3 DEF G

\* InOrder lists a finite set in the order of the ranks of its elements
LEMMA InOrderFacts ==
  ASSUME NEW S, IsFiniteSet(S), NEW rank \in [S -> Int \X Int]
  PROVE  InOrderOf(InOrder(S, rank), S, rank)
  <1> DEFINE f == CHOOSE f : OrderOf(f, S, rank)
  <1>1. OrderOf(f, S, rank)
    <2>1. \E g : OrderOf(g, S, rank)
      BY OrderExists
    <2> QED BY <2>1
  <1>2. InOrder(S, rank) = f[S]
    BY DEF InOrder, OrderOf, First
  <1> HIDE DEF f
  <1> QED BY <1>1, <1>2, OrderFacts

-----------------------------------------------------------------------------
(* Functions by steps, and sequences of sequences (FlattenSeq)             *)

\* f[n] is what the first n of N steps make of a
Steps(f, N, a, g) == f = [n \in 0 .. N |-> IF n = 0 THEN a ELSE g[n][f[n - 1]]]

\* a function on 0 .. N defined by its predecessor exists
LEMMA StepsExist ==
  ASSUME NEW S, NEW a \in S, NEW N \in Nat, NEW g \in [1 .. N -> [S -> S]]
  PROVE  \E f \in [0 .. N -> S] : Steps(f, N, a, g)
  <1> DEFINE G == {n \in Nat : \E f \in [0 .. n -> S] : Steps(f, n, a, g)}
  <1>1. 0 \in G
    <2> DEFINE f == [n \in 0 .. 0 |-> a]
    <2>1. f \in [0 .. 0 -> S] /\ Steps(f, 0, a, g)
      BY DEF Steps
    <2> QED BY <2>1
  <1>2. ASSUME NEW n \in 0 .. N - 1, n \in G PROVE n + 1 \in G
    <2>1. PICK f \in [0 .. n -> S] : Steps(f, n, a, g)
      BY <1>2
    <2> DEFINE h == [m \in 0 .. n + 1 |-> IF m = n + 1 THEN g[n + 1][f[n]] ELSE f[m]]
    <2>2. g[n + 1] \in [S -> S] /\ f[n] \in S
      BY <2>1
    <2>3. h \in [0 .. n + 1 -> S]
      BY <2>1, <2>2
    <2>4. \A m \in 0 .. n + 1 : h[m] = IF m = 0 THEN a ELSE g[m][h[m - 1]]
      <3>1. \A m \in 0 .. n : f[m] = IF m = 0 THEN a ELSE g[m][f[m - 1]]
        BY <2>1 DEF Steps
      <3>2. \A m \in 0 .. n : h[m] = f[m]
        OBVIOUS
      <3>3. \A m \in 0 .. n : m # 0 => m - 1 \in 0 .. n
        OBVIOUS
      <3>4. h[n + 1] = g[n + 1][h[n]] /\ n + 1 # 0 /\ n + 1 - 1 = n
        BY <3>2
      <3>5. \A m \in 0 .. n + 1 : m = n + 1 \/ m \in 0 .. n
        OBVIOUS
      <3> HIDE DEF h
      <3> QED BY <3>1, <3>2, <3>3, <3>4, <3>5
    <2>5. Steps(h, n + 1, a, g)
      BY <2>3, <2>4 DEF Steps
    <2> HIDE DEF h
    <2>6. n + 1 \in Nat
      OBVIOUS
    <2> QED BY <2>3, <2>5, <2>6
  <1> HIDE DEF G
  <1>3. \A n \in 0 .. N : n \in G
    BY <1>1, <1>2, AllUpTo
  <1> QED BY <1>3 DEF G

\* what a sequence of sets of elements is, and that its elements are in R in pairs
Elements(s) == {s[i] : i \in DOMAIN s}
\* any two elements of a sequence are related by R
InPairs(s, R) == \A i, j \in DOMAIN s : i # j => <<s[i], s[j]>> \in R

\* the elements of two sequences one after the other
LEMMA ConcatElements ==
  ASSUME NEW T, NEW s \in Seq(T), NEW t \in Seq(T), NEW r, r = s \o t
  PROVE  /\ r \in Seq(T) /\ \A e : e \in Elements(r) <=> e \in Elements(s) \/ e \in Elements(t)
         /\ DOMAIN s = 1 .. Len(s) /\ DOMAIN t = 1 .. Len(t) /\ DOMAIN r = 1 .. Len(s) + Len(t)
         /\ Len(s) \in Nat /\ Len(t) \in Nat
         /\ \A i \in 1 .. Len(s) + Len(t) :
              \/ i \in DOMAIN s /\ r[i] = s[i]
              \/ i - Len(s) \in DOMAIN t /\ r[i] = t[i - Len(s)]
  <1>1. /\ DOMAIN s = 1 .. Len(s) /\ DOMAIN t = 1 .. Len(t) /\ DOMAIN r = 1 .. Len(s) + Len(t)
        /\ Len(s) \in Nat /\ Len(t) \in Nat
        /\ r \in Seq(T)
    BY ConcatProperties
  <1>2. \A i \in 1 .. Len(s) + Len(t) : r[i] = IF i <= Len(s) THEN s[i] ELSE t[i - Len(s)]
    BY ConcatProperties
  <1>3. ASSUME NEW i \in 1 .. Len(s) + Len(t)
        PROVE  \/ i \in DOMAIN s /\ r[i] = s[i]
               \/ i - Len(s) \in DOMAIN t /\ r[i] = t[i - Len(s)]
    BY <1>1, <1>2
  <1>4. ASSUME NEW i \in DOMAIN s PROVE i \in DOMAIN r /\ r[i] = s[i]
    BY <1>1, <1>2
  <1>5. ASSUME NEW i \in DOMAIN t PROVE i + Len(s) \in DOMAIN r /\ r[i + Len(s)] = t[i]
    <2>1. i + Len(s) \in 1 .. Len(s) + Len(t) /\ ~(i + Len(s) <= Len(s)) /\ i + Len(s) - Len(s) = i
      BY <1>1
    <2> QED BY <1>1, <1>2, <2>1
  <1>6. \A e : e \in Elements(r) <=> e \in Elements(s) \/ e \in Elements(t)
    <2>1. ASSUME NEW e \in Elements(r) PROVE e \in Elements(s) \cup Elements(t)
      <3>1. PICK i \in DOMAIN r : e = r[i]
        BY DEF Elements
      <3> QED BY <1>1, <1>3, <3>1 DEF Elements
    <2>2. ASSUME NEW e \in Elements(s) PROVE e \in Elements(r)
      BY <1>4 DEF Elements
    <2>3. ASSUME NEW e \in Elements(t) PROVE e \in Elements(r)
      BY <1>5 DEF Elements
    <2> QED BY <2>1, <2>2, <2>3
  <1> QED BY <1>1, <1>3, <1>6

\* elements of the two related one with the other are so in the whole
LEMMA ConcatInPairs ==
  ASSUME NEW T, NEW s \in Seq(T), NEW t \in Seq(T), NEW R, NEW r, r = s \o t,
         InPairs(s, R), InPairs(t, R),
         \A e \in Elements(s), f \in Elements(t) : <<e, f>> \in R /\ <<f, e>> \in R
  PROVE  InPairs(r, R)
  <1>1. /\ DOMAIN s = 1 .. Len(s) /\ DOMAIN t = 1 .. Len(t) /\ DOMAIN r = 1 .. Len(s) + Len(t)
        /\ Len(s) \in Nat /\ Len(t) \in Nat
        /\ \A i \in 1 .. Len(s) + Len(t) :
             \/ i \in DOMAIN s /\ r[i] = s[i]
             \/ i - Len(s) \in DOMAIN t /\ r[i] = t[i - Len(s)]
    BY ConcatElements
  <1>2. ASSUME NEW i \in DOMAIN r, NEW j \in DOMAIN r, i # j PROVE <<r[i], r[j]>> \in R
    <2>1. CASE i \in DOMAIN s /\ r[i] = s[i] /\ j \in DOMAIN s /\ r[j] = s[j]
      BY <1>2, <2>1 DEF InPairs
    <2>2. CASE i \in DOMAIN s /\ r[i] = s[i] /\ j - Len(s) \in DOMAIN t /\ r[j] = t[j - Len(s)]
      BY <2>2 DEF Elements
    <2>3. CASE j \in DOMAIN s /\ r[j] = s[j] /\ i - Len(s) \in DOMAIN t /\ r[i] = t[i - Len(s)]
      BY <2>3 DEF Elements
    <2>4. CASE /\ j - Len(s) \in DOMAIN t /\ r[j] = t[j - Len(s)]
               /\ i - Len(s) \in DOMAIN t /\ r[i] = t[i - Len(s)]
      <3>1. i - Len(s) # j - Len(s)
        BY <1>1, <1>2
      <3> QED BY <2>4, <3>1 DEF InPairs
    <2> QED BY <1>1, <1>2, <2>1, <2>2, <2>3, <2>4
  <1> QED BY <1>2 DEF InPairs

\* joining sequences end to end
LEMMA FlattenFacts ==
  ASSUME NEW T, NEW ss \in Seq(Seq(T)), NEW R,
         \A k \in DOMAIN ss : InPairs(ss[k], R),
         \A k, m \in DOMAIN ss : k # m =>
           \A e \in Elements(ss[k]), f \in Elements(ss[m]) : <<e, f>> \in R
  PROVE  /\ FlattenSeq(ss) \in Seq(T)
         /\ Elements(FlattenSeq(ss)) = UNION {Elements(ss[k]) : k \in DOMAIN ss}
         /\ InPairs(FlattenSeq(ss), R)
  <1> DEFINE N == Len(ss)
             IsFlat(f) == f = [i \in 1 .. N |-> IF i = 1 THEN ss[i] ELSE f[i - 1] \o ss[i]]
             flat == CHOOSE f : IsFlat(f)
  <1>0. N \in Nat /\ DOMAIN ss = 1 .. N /\ \A k \in 1 .. N : ss[k] \in Seq(T)
    BY ElementOfSeq
  <1>1. CASE N = 0
    <2>1. FlattenSeq(ss) = ss /\ ss = <<>>
      BY <1>1 DEF FlattenSeq
    <2> QED BY <1>0, <1>1, <2>1 DEF Elements, InPairs
  <1>2. CASE N # 0
    <2>1. \E f : IsFlat(f)
      <3> DEFINE g == [n \in 1 .. N |-> [s \in Seq(T) |-> s \o ss[n]]]
      <3>1. g \in [1 .. N -> [Seq(T) -> Seq(T)]]
        BY <1>0, ConcatProperties
      <3>2. <<>> \in Seq(T)
        OBVIOUS
      <3>3. PICK f \in [0 .. N -> Seq(T)] : Steps(f, N, <<>>, g)
        <4> HIDE DEF g
        <4> QED BY <1>0, <3>1, <3>2, StepsExist
      <3>4. \A n \in 1 .. N : f[n] = f[n - 1] \o ss[n]
        <4>1. \A n \in 1 .. N : n \in 0 .. N /\ n # 0 /\ n - 1 \in 0 .. N
          BY <1>0
        <4>2. \A n \in 1 .. N : f[n - 1] \in Seq(T)
          BY <4>1
        <4>3. \A n \in 1 .. N : f[n] = g[n][f[n - 1]]
          <5> HIDE DEF g
          <5> QED BY <3>3, <4>1 DEF Steps
        <4> QED BY <4>2, <4>3
      <3>5. f[0] = <<>>
        BY <1>0, <3>3 DEF Steps
      <3> DEFINE h == [n \in 1 .. N |-> f[n]]
      <3>6. ASSUME NEW n \in 1 .. N PROVE h[n] = IF n = 1 THEN ss[n] ELSE h[n - 1] \o ss[n]
        <4>1. CASE n = 1
          <5>1. f[n] = <<>> \o ss[n] /\ ss[n] \in Seq(T)
            <6> HIDE DEF g, h, IsFlat
            <6>1. f[n] = f[n - 1] \o ss[n]
              BY <3>4
            <6>2. n - 1 = 0
              BY <4>1
            <6> QED BY <1>0, <3>5, <6>1, <6>2
          <5>2. <<>> \o ss[n] = ss[n]
            BY <5>1, ConcatEmptySeq
          <5> QED BY <4>1, <5>1, <5>2
        <4>2. CASE n # 1
          <5>1. n - 1 \in 1 .. N
            BY <4>2
          <5> QED BY <3>4, <4>2, <5>1
        <4> QED BY <4>1, <4>2
      <3>7. IsFlat(h)
        BY <3>6
      <3> QED BY <3>7
    <2>2. IsFlat(flat)
      <3> HIDE DEF IsFlat
      <3> QED BY <2>1
    <2>a. \A n \in 1 .. N : flat[n] = IF n = 1 THEN ss[n] ELSE flat[n - 1] \o ss[n]
      <3> HIDE DEF flat, N
      <3> QED BY <2>2
    <2>3. FlattenSeq(ss) = flat[N]
      BY <1>2 DEF FlattenSeq
    <2> HIDE DEF flat
    <2> DEFINE Facts(n) == /\ flat[n] \in Seq(T)
                           /\ Elements(flat[n]) = UNION {Elements(ss[k]) : k \in 1 .. n}
                           /\ InPairs(flat[n], R)
               G == {n \in Nat : n # 0 => Facts(n)}
    <2>4. ASSUME NEW n \in 0 .. N - 1, n \in G PROVE n + 1 \in G
      <3>1. n + 1 \in 1 .. N /\ ss[n + 1] \in Seq(T)
        BY <1>0
      <3>2. CASE n = 0
        <4>1. flat[1] = ss[1] /\ 1 \in 1 .. N
          BY <1>2, <1>0, <2>a
        <4>2. Elements(flat[1]) = UNION {Elements(ss[k]) : k \in 1 .. 1}
          BY <4>1
        <4> QED BY <1>0, <3>1, <3>2, <4>1, <4>2
      <3>3. CASE n # 0
        <4> DEFINE p == flat[n]
                   q == ss[n + 1]
                   r == flat[n + 1]
        <4>1. r = p \o q
          <5>1. n + 1 # 1 /\ (n + 1) - 1 = n
            BY <3>3
          <5>2. \A m \in 1 .. N : m # 1 => flat[m] = flat[m - 1] \o ss[m]
            BY <2>a
          <5> HIDE DEF flat, N, G, Facts, IsFlat
          <5>3. flat[n + 1] = flat[(n + 1) - 1] \o ss[n + 1]
            BY <3>1, <5>1, <5>2, Zenon
          <5> QED BY <5>1, <5>3, Zenon DEF p, q, r
        <4>2. /\ p \in Seq(T)
              /\ Elements(p) = UNION {Elements(ss[k]) : k \in 1 .. n}
              /\ InPairs(p, R)
          BY <2>4, <3>3
        <4>3. q \in Seq(T) /\ InPairs(q, R)
          BY <1>0, <3>1
        <4>5. ASSUME NEW e \in Elements(p), NEW f \in Elements(q)
              PROVE  <<e, f>> \in R /\ <<f, e>> \in R
          <5>1. PICK k \in 1 .. n : e \in Elements(ss[k])
            BY <4>2, <4>5
          <5>2. k \in DOMAIN ss /\ n + 1 \in DOMAIN ss /\ k # n + 1
            BY <1>0, <3>1, <5>1
          <5> QED BY <4>5, <5>1, <5>2
        <4> HIDE DEF p, q, r
        <4>6. r \in Seq(T) /\ Elements(r) = Elements(p) \cup Elements(q)
          <5>1. r \in Seq(T) /\ \A e : e \in Elements(r) <=> e \in Elements(p) \/ e \in Elements(q)
            BY <4>1, <4>2, <4>3, ConcatElements
          <5> QED BY <5>1
        <4>7. InPairs(r, R)
          BY <4>1, <4>2, <4>3, <4>5, ConcatInPairs
        <4>8. Elements(r) = UNION {Elements(ss[k]) : k \in 1 .. n + 1}
          <5>1. 1 .. n + 1 = 1 .. n \cup {n + 1}
            BY <1>0
          <5> QED BY <4>2, <4>6, <5>1 DEF q
        <4>9. Facts(n + 1)
          BY <4>6, <4>7, <4>8 DEF r
        <4> QED BY <4>9
      <3> QED BY <3>2, <3>3
    <2>5. N \in G
      <3>1. 0 \in G
        OBVIOUS
      <3>2. \A n \in 0 .. N : n \in G
        <4> HIDE DEF G, N
        <4> QED BY <1>0, <2>4, <3>1, AllUpTo
      <3>3. N \in 0 .. N
        BY <1>0
      <3> HIDE DEF G, N
      <3> QED BY <3>2, <3>3
    <2> QED BY <1>0, <1>2, <2>3, <2>5
  <1> QED BY <1>1, <1>2

-----------------------------------------------------------------------------
(* Tracks in a range of locations (rangeSearchTrack)                       *)

\* multiplying by a pitch keeps the order
LEMMA ProductOrder ==
  ASSUME NEW p \in Nat \ {0}, NEW s \in Int, NEW t \in Int
  PROVE  s <= t <=> s * p <= t * p
  OBVIOUS

\* rounding down is exact
LEMMA FloorFacts ==
  ASSUME NEW a \in Int, NEW b \in Nat \ {0}
  PROVE  a \div b \in Int /\ \A t \in Int : t <= a \div b <=> t * b <= a
  OBVIOUS

\* rounding up (CeilDiv) is exact
LEMMA CeilFacts ==
  ASSUME NEW a \in Int, NEW b \in Nat \ {0}
  PROVE  CeilDiv(a, b) \in Int /\ \A t \in Int : CeilDiv(a, b) <= t <=> a <= t * b
  <1>1. CeilDiv(a, b) \in Int
    BY FloorFacts DEF CeilDiv
  <1>2. ASSUME NEW t \in Int PROVE CeilDiv(a, b) <= t <=> a <= t * b
    <2>1. -a \in Int /\ -t \in Int
      OBVIOUS
    <2>2. -t <= (-a) \div b <=> (-t) * b <= -a
      BY <2>1, FloorFacts
    <2>3. (-t) * b = -(t * b) /\ t * b \in Int
      OBVIOUS
    <2>4. (-a) \div b \in Int
      BY <2>1, FloorFacts
    <2> QED BY <2>2, <2>3, <2>4 DEF CeilDiv
  <1> QED BY <1>1, <1>2

\* intervals, valid or not
Interval == [low : Int, high : Int]

\* exactly the tracks in a range of locations are found
LEMMA TrackSearch ==
  ASSUME NEW l \in GridLayers, NEW r \in Interval
  PROVE  /\ rangeSearchTrack(l, r) \in Interval
         /\ \A t \in Int :
              t \in In(rangeSearchTrack(l, r)) <=>
                t \in Range0(NumTracks[l]) /\ TrackLoc[l][t] \in In(r)
  <1> DEFINE n == NumTracks[l]
             p == Pitch[l]
             F == FirstTrackLoc(l)
             L == LastTrackLoc(l)
             lo == Greater(r.low, F) - F
             hi == Lesser(r.high, L) - F
  <1>1. n \in Nat /\ n > 0 /\ p \in Nat \ {0}
    BY GridAssumption, LayerListAssumption
  <1>2. F \in Int /\ L \in Int /\ \A t \in Range0(n) : TrackLoc[l][t] = F + t * p /\ TrackLoc[l][t] \in Int
    BY <1>1, GridAssumption, PitchAssumption DEF FirstTrackLoc, LastTrackLoc, Range0
  <1>3. L = F + (n - 1) * p
    BY <1>1, <1>2 DEF LastTrackLoc, Range0
  <1>4. r.low \in Int /\ r.high \in Int
    BY DEF Interval
  <1> HIDE DEF n, p, F, L
  <1>5. lo \in Int /\ hi \in Int /\ 0 <= lo /\ r.low - F <= lo
        /\ hi <= r.high - F /\ hi <= L - F
        /\ (lo = 0 \/ lo = r.low - F) /\ (hi = r.high - F \/ hi = L - F)
    BY <1>2, <1>4 DEF Greater, Lesser
  <1> HIDE DEF lo, hi
  <1>6. rangeSearchTrack(l, r) = Intvl(CeilDiv(lo, p), hi \div p)
    BY DEF rangeSearchTrack, lo, hi, F, L, p
  <1>7. CeilDiv(lo, p) \in Int /\ hi \div p \in Int
    BY <1>1, <1>5, CeilFacts, FloorFacts
  <1>8. rangeSearchTrack(l, r) \in Interval
    BY <1>6, <1>7 DEF Interval, Intvl
  <1>9. ASSUME NEW t \in Int
        PROVE  t \in In(rangeSearchTrack(l, r)) <=>
                 t \in Range0(n) /\ TrackLoc[l][t] \in In(r)
    <2>1. t \in In(rangeSearchTrack(l, r)) <=> lo <= t * p /\ t * p <= hi
      <3>1. CeilDiv(lo, p) <= t <=> lo <= t * p
        BY <1>1, <1>5, CeilFacts
      <3>2. t <= hi \div p <=> t * p <= hi
        BY <1>1, <1>5, FloorFacts
      <3> QED BY <1>6, <1>7, <3>1, <3>2 DEF In, Intvl
    <2>2. 0 <= t <=> 0 <= t * p
      BY <1>1, ProductOrder
    <2>3. t <= n - 1 <=> t * p <= (n - 1) * p
      BY <1>1, ProductOrder
    <2>4. t * p \in Int /\ (n - 1) * p \in Int
      BY <1>1
    <2> DEFINE d == t * p
               e == (n - 1) * p
    <2>5. t \in Range0(n) <=> 0 <= d /\ d <= e
      BY <1>1, <2>2, <2>3, <2>4 DEF Range0
    <2>6. t \in Range0(n) => TrackLoc[l][t] = F + d
      BY <1>2
    <2>7. L - F = e
      BY <1>2, <1>3, <2>4
    <2> HIDE DEF d, e
    <2>8. t \in In(rangeSearchTrack(l, r)) <=> lo <= d /\ d <= hi
      BY <2>1 DEF d
    <2>9. d \in Int /\ e \in Int
      BY <2>4 DEF d, e
    <2> QED BY <1>2, <1>4, <1>5, <2>5, <2>6, <2>7, <2>8, <2>9 DEF In
  <1> QED BY <1>8, <1>9 DEF n

\* tracks in range form an interval of tracks that is not empty, or there is none
LEMMA TrackRange ==
  ASSUME NEW l \in GridLayers, NEW r \in Interval
  PROVE  LET R == rangeSearchTrack(l, r)
         IN  /\ isTrackRangeValid(l, R) <=> IsValid(R)
             /\ IsValid(R) => R.low \in Range0(NumTracks[l]) /\ R.high \in Range0(NumTracks[l])
  <1> DEFINE R == rangeSearchTrack(l, r)
  <1>1. R \in Interval /\ \A t \in Int : t \in In(R) => t \in Range0(NumTracks[l])
    BY TrackSearch
  <1> HIDE DEF R
  <1>2. R.low \in Int /\ R.high \in Int /\ NumTracks[l] \in Nat
    BY <1>1, GridAssumption DEF Interval
  <1>3. IsValid(R) => R.low \in Range0(NumTracks[l]) /\ R.high \in Range0(NumTracks[l])
    BY <1>1, <1>2 DEF IsValid, In
  <1>4. isTrackRangeValid(l, R) <=> IsValid(R)
    BY <1>2, <1>3 DEF isTrackRangeValid, IsValid, Range0
  <1> QED BY <1>3, <1>4 DEF R

-----------------------------------------------------------------------------
(* Cross points of a range of tracks on a layer next to it                 *)

\* cross points are ordered by location (initCrossPoints)
LEMMA CrossPointOrder ==
  ASSUME NEW l \in GridLayers,
         NEW c \in Range0(NumCrossPoints[l]), NEW d \in Range0(NumCrossPoints[l])
  PROVE  /\ c \in Int /\ d \in Int /\ CrossPointLoc[l][c] \in Int /\ CrossPointLoc[l][d] \in Int
         /\ c <= d <=> CrossPointLoc[l][c] <= CrossPointLoc[l][d]
  <1>1. c \in Int /\ d \in Int /\ CrossPointLoc[l][c] \in Int /\ CrossPointLoc[l][d] \in Int
    BY GridAssumption DEF Range0
  <1>2. c < d => CrossPointLoc[l][c] < CrossPointLoc[l][d]
    BY CrossPointAssumption
  <1>3. d < c => CrossPointLoc[l][d] < CrossPointLoc[l][c]
    BY CrossPointAssumption
  <1> QED BY <1>1, <1>2, <1>3

\* tracks are ordered by location
LEMMA TrackOrder ==
  ASSUME NEW l \in GridLayers, NEW s \in Range0(NumTracks[l]), NEW t \in Range0(NumTracks[l])
  PROVE  /\ s \in Int /\ t \in Int /\ TrackLoc[l][s] \in Int /\ TrackLoc[l][t] \in Int
         /\ s <= t <=> TrackLoc[l][s] <= TrackLoc[l][t]
  <1> DEFINE p == Pitch[l]
             F == TrackLoc[l][0]
  <1>1. s \in Int /\ t \in Int /\ TrackLoc[l][s] \in Int /\ TrackLoc[l][t] \in Int /\ p \in Nat \ {0}
        /\ F \in Int
    BY GridAssumption, LayerListAssumption DEF Range0
  <1>2. TrackLoc[l][s] = F + s * p /\ TrackLoc[l][t] = F + t * p
    BY PitchAssumption
  <1> HIDE DEF p, F
  <1>3. s <= t <=> s * p <= t * p
    BY <1>1, ProductOrder
  <1>4. s * p \in Int /\ t * p \in Int
    BY <1>1
  <1> QED BY <1>1, <1>2, <1>3, <1>4

\* what a range of tracks of the layer above or below makes of cross points:
\* from(t) is the cross point of track t, and of(c) tells that c has a track
Crosses(l, k, from, with) ==
  /\ k \in GridLayers
  /\ \A t \in Range0(NumTracks[k]) :
       from[t] \in Range0(NumCrossPoints[l]) /\ CrossPointLoc[l][from[t]] = TrackLoc[k][t]
  /\ \A c \in with : \E t \in Range0(NumTracks[k]) : from[t] = c

\* the tracks above that cross a layer do so at one cross point each, in order
LEMMA CrossesAbove ==
  ASSUME NEW l \in GridLayers, l + 1 \in GridLayers
  PROVE  Crosses(l, l + 1, [t \in Range0(NumTracks[l + 1]) |-> LowerCrossPoint(l + 1, t)],
                 {c \in Range0(NumCrossPoints[l]) : UpperTrack[l][c] # -1})
  <1> DEFINE from == [t \in Range0(NumTracks[l + 1]) |-> LowerCrossPoint(l + 1, t)]
  <1>0. (l + 1) - 1 = l /\ \A t \in Range0(NumTracks[l + 1]) : t # -1
    BY DEF GridLayers, Range0
  <1>1. ASSUME NEW t \in Range0(NumTracks[l + 1])
        PROVE  /\ LowerCrossPoint(l + 1, t) \in Range0(NumCrossPoints[l])
               /\ UpperTrack[l][LowerCrossPoint(l + 1, t)] = t
    <2>1. \E c \in Range0(NumCrossPoints[l]) : UpperTrack[l][c] = t
      BY CrossPointAssumption
    <2> QED BY <1>0, <2>1 DEF LowerCrossPoint
  <1>2. ASSUME NEW t \in Range0(NumTracks[l + 1])
        PROVE  CrossPointLoc[l][from[t]] = TrackLoc[l + 1][t]
    BY <1>0, <1>1, CrossPointAssumption
  <1>3. ASSUME NEW c \in Range0(NumCrossPoints[l]), UpperTrack[l][c] # -1
        PROVE  \E t \in Range0(NumTracks[l + 1]) : from[t] = c
    <2> DEFINE t == UpperTrack[l][c]
    <2>1. t \in Range0(NumTracks[l + 1])
      BY <1>3, CrossPointAssumption
    <2>2. UpperTrack[l][from[t]] = t
      BY <1>1, <2>1
    <2>3. from[t] \in Range0(NumCrossPoints[l])
      BY <1>1, <2>1
    <2>4. from[t] = c
      BY <1>3, <2>2, <2>3, UpperAssumption
    <2> QED BY <2>1, <2>4
  <1> QED BY <1>1, <1>2, <1>3 DEF Crosses

\* and so do those below
LEMMA CrossesBelow ==
  ASSUME NEW l \in GridLayers, l - 1 \in GridLayers
  PROVE  Crosses(l, l - 1, [t \in Range0(NumTracks[l - 1]) |-> UpperCrossPoint[l - 1][t]],
                 {c \in Range0(NumCrossPoints[l]) :
                    \E t \in Range0(NumTracks[l - 1]) : UpperCrossPoint[l - 1][t] = c})
  <1>0. (l - 1) + 1 = l
    BY DEF GridLayers
  <1>1. \A t \in Range0(NumTracks[l - 1]) :
          /\ UpperCrossPoint[l - 1][t] \in Range0(NumCrossPoints[l])
          /\ CrossPointLoc[l][UpperCrossPoint[l - 1][t]] = TrackLoc[l - 1][t]
    BY <1>0, CrossPointAssumption
  <1> QED BY <1>1 DEF Crosses

\* a range of tracks next to a layer gives the hull of their cross points
LEMMA CrossesRange ==
  ASSUME NEW l \in GridLayers, NEW k, NEW from, NEW with, Crosses(l, k, from, with), NEW r \in Interval,
         with \subseteq Range0(NumCrossPoints[l])
  PROVE  LET R == rangeSearchTrack(k, r)
             f == Intvl(from[R.low], from[R.high])
         IN  /\ IsValid(R) =>
                  /\ IsValid(f)
                  /\ \A c \in {f.low, f.high} :
                       c \in Range0(NumCrossPoints[l]) /\ CrossPointLoc[l][c] \in In(r)
             /\ \A c \in with : CrossPointLoc[l][c] \in In(r) => IsValid(R) /\ c \in In(f)
             /\ ~IsValid(R) /\ isTrackRangeWeaklyValid(k, R) => f \in Interval /\ ~IsValid(f)
  <1> DEFINE R == rangeSearchTrack(k, r)
             f == Intvl(from[R.low], from[R.high])
  <1>0. k \in GridLayers
    BY DEF Crosses
  <1>1. /\ R \in Interval
        /\ \A t \in Int : t \in In(R) <=> t \in Range0(NumTracks[k]) /\ TrackLoc[k][t] \in In(r)
    BY <1>0, TrackSearch
  <1>2. IsValid(R) => R.low \in Range0(NumTracks[k]) /\ R.high \in Range0(NumTracks[k])
    BY <1>0, TrackRange
  <1> HIDE DEF R
  <1>3. R.low \in Int /\ R.high \in Int /\ f.low = from[R.low] /\ f.high = from[R.high]
    BY <1>1 DEF Interval, Intvl
  <1>4. ASSUME NEW s \in Range0(NumTracks[k]), NEW t \in Range0(NumTracks[k])
        PROVE  /\ s \in Int /\ t \in Int /\ from[s] \in Int /\ from[t] \in Int
               /\ s <= t <=> from[s] <= from[t]
    <2>1. /\ from[s] \in Range0(NumCrossPoints[l]) /\ CrossPointLoc[l][from[s]] = TrackLoc[k][s]
          /\ from[t] \in Range0(NumCrossPoints[l]) /\ CrossPointLoc[l][from[t]] = TrackLoc[k][t]
      BY DEF Crosses
    <2>2. s \in Int /\ t \in Int /\ (s <= t <=> TrackLoc[k][s] <= TrackLoc[k][t])
      BY <1>0, TrackOrder
    <2>3. /\ from[s] \in Int /\ from[t] \in Int
          /\ from[s] <= from[t] <=> CrossPointLoc[l][from[s]] <= CrossPointLoc[l][from[t]]
      BY <2>1, CrossPointOrder
    <2> QED BY <2>1, <2>2, <2>3
  <1> HIDE DEF f
  <1>5. ASSUME IsValid(R)
        PROVE  /\ IsValid(f)
               /\ \A c \in {f.low, f.high} :
                    c \in Range0(NumCrossPoints[l]) /\ CrossPointLoc[l][c] \in In(r)
    <2>1. R.low \in In(R) /\ R.high \in In(R) /\ R.low <= R.high
      BY <1>3, <1>5 DEF In, IsValid
    <2>2. TrackLoc[k][R.low] \in In(r) /\ TrackLoc[k][R.high] \in In(r)
      BY <1>1, <1>3, <2>1
    <2>3. /\ from[R.low] \in Range0(NumCrossPoints[l]) /\ CrossPointLoc[l][from[R.low]] = TrackLoc[k][R.low]
          /\ from[R.high] \in Range0(NumCrossPoints[l]) /\ CrossPointLoc[l][from[R.high]] = TrackLoc[k][R.high]
      BY <1>2, <1>5 DEF Crosses
    <2>4. from[R.low] <= from[R.high]
      BY <1>2, <1>4, <1>5, <2>1
    <2> QED BY <1>3, <2>2, <2>3, <2>4 DEF IsValid
  <1>6. ASSUME NEW c \in with, CrossPointLoc[l][c] \in In(r)
        PROVE  IsValid(R) /\ c \in In(f)
    <2>1. PICK t \in Range0(NumTracks[k]) : from[t] = c
      BY DEF Crosses
    <2>2. t \in Int /\ TrackLoc[k][t] = CrossPointLoc[l][c]
      BY <2>1 DEF Crosses, Range0
    <2>3. t \in In(R)
      BY <1>1, <1>6, <2>2
    <2>4. IsValid(R) /\ R.low <= t /\ t <= R.high
      BY <1>3, <2>2, <2>3 DEF In, IsValid
    <2>5. R.low \in Range0(NumTracks[k]) /\ R.high \in Range0(NumTracks[k])
      BY <1>2, <2>4
    <2>6. /\ from[R.low] <= from[t] /\ from[t] <= from[R.high]
          /\ from[R.low] \in Int /\ from[t] \in Int /\ from[R.high] \in Int
      BY <1>4, <2>4, <2>5
    <2> QED BY <1>3, <2>1, <2>4, <2>6 DEF In
  <1>7. ASSUME ~IsValid(R), isTrackRangeWeaklyValid(k, R)
        PROVE  f \in Interval /\ ~IsValid(f)
    <2>1. R.low \in Range0(NumTracks[k]) /\ R.high \in Range0(NumTracks[k])
      BY <1>7 DEF isTrackRangeWeaklyValid
    <2>2. /\ R.low <= R.high <=> from[R.low] <= from[R.high]
          /\ from[R.low] \in Int /\ from[R.high] \in Int
      BY <1>4, <2>1
    <2>3. f \in Interval
      BY <2>2 DEF f, Interval, Intvl
    <2> QED BY <1>3, <1>7, <2>2, <2>3 DEF IsValid
  <1> QED BY <1>5, <1>6, <1>7 DEF R, f

-----------------------------------------------------------------------------
(* Cross points in a range of locations, and the search of a box           *)

\* exactly the cross points in a range of locations are found
FindsCrossPoints(l, r, f) ==
  /\ f \in Interval
  /\ \A c \in Int : c \in In(f) <=> c \in Range0(NumCrossPoints[l]) /\ CrossPointLoc[l][c] \in In(r)

\* the hull of two intervals
LEMMA UnionFacts ==
  ASSUME NEW i \in Interval, NEW j \in Interval
  PROVE  /\ UnionWith(i, j) \in Interval
         /\ In(i) \subseteq In(UnionWith(i, j)) /\ In(j) \subseteq In(UnionWith(i, j))
         /\ IsValid(i) /\ IsValid(j) =>
              /\ UnionWith(i, j).low \in {i.low, j.low} /\ UnionWith(i, j).high \in {i.high, j.high}
              /\ UnionWith(i, j).low <= i.low /\ i.high <= UnionWith(i, j).high
  <1>1. i.low \in Int /\ i.high \in Int /\ j.low \in Int /\ j.high \in Int
    BY DEF Interval
  <1>2. CASE ~IsValid(i)
    BY <1>1, <1>2 DEF IsValid, UnionWith, In
  <1>3. CASE IsValid(i) /\ ~IsValid(j)
    BY <1>1, <1>3 DEF IsValid, UnionWith, In
  <1>4. CASE IsValid(i) /\ IsValid(j)
    <2>1. UnionWith(i, j) = Intvl(Lesser(i.low, j.low), Greater(i.high, j.high))
      BY <1>4 DEF UnionWith
    <2>2. /\ UnionWith(i, j).low = Lesser(i.low, j.low) /\ UnionWith(i, j).high = Greater(i.high, j.high)
          /\ UnionWith(i, j) \in Interval
      BY <1>1, <2>1 DEF Intvl, Interval, Lesser, Greater
    <2> QED BY <1>1, <2>2 DEF In, Lesser, Greater
  <1> QED BY <1>2, <1>3, <1>4

\* the hull of the cross points in a range finds what is in the range
LEMMA HullFinds ==
  ASSUME NEW l \in GridLayers, NEW r \in Interval, NEW f \in Interval, IsValid(f),
         \A c \in {f.low, f.high} :
           c \in Range0(NumCrossPoints[l]) /\ CrossPointLoc[l][c] \in In(r),
         \A c \in Range0(NumCrossPoints[l]) : CrossPointLoc[l][c] \in In(r) => c \in In(f)
  PROVE  FindsCrossPoints(l, r, f)
  <1>1. f.low \in Int /\ f.high \in Int /\ r.low \in Int /\ r.high \in Int
    BY DEF Interval
  <1>2. NumCrossPoints[l] \in Nat
    BY GridAssumption
  <1>3. ASSUME NEW c \in Int, c \in In(f)
        PROVE  c \in Range0(NumCrossPoints[l]) /\ CrossPointLoc[l][c] \in In(r)
    <2>1. f.low <= c /\ c <= f.high
      BY <1>1, <1>3 DEF In
    <2>2. c \in Range0(NumCrossPoints[l])
      BY <1>1, <1>2, <2>1 DEF Range0
    <2>3. CrossPointLoc[l][f.low] <= CrossPointLoc[l][c] /\ CrossPointLoc[l][c] <= CrossPointLoc[l][f.high]
          /\ CrossPointLoc[l][c] \in Int /\ CrossPointLoc[l][f.low] \in Int /\ CrossPointLoc[l][f.high] \in Int
      BY <2>1, <2>2, CrossPointOrder
    <2>4. CrossPointLoc[l][f.low] \in In(r) /\ CrossPointLoc[l][f.high] \in In(r)
      OBVIOUS
    <2> QED BY <1>1, <2>2, <2>3, <2>4 DEF In
  <1> QED BY <1>3 DEF FindsCrossPoints

\* where there is none, an invalid range is right
LEMMA NothingFinds ==
  ASSUME NEW l \in GridLayers, NEW r \in Interval, NEW f \in Interval, ~IsValid(f),
         \A c \in Range0(NumCrossPoints[l]) : CrossPointLoc[l][c] \notin In(r)
  PROVE  FindsCrossPoints(l, r, f)
  <1>1. In(f) = {}
    BY DEF Interval, In, IsValid
  <1> QED BY <1>1 DEF FindsCrossPoints

\* the search on a layer between two others (CrossPointsBetween)
LEMMA CrossPointSearchBetween ==
  ASSUME NEW l \in GridLayers, NEW r \in Interval, l # 0, l # LayerNum - 1
  PROVE  FindsCrossPoints(l, r, rangeSearchCrossPoint(l, r))
  <1> DEFINE U == rangeSearchTrack(l + 1, r)
             D == rangeSearchTrack(l - 1, r)
             above == {c \in Range0(NumCrossPoints[l]) : UpperTrack[l][c] # -1}
             below == {c \in Range0(NumCrossPoints[l]) :
                         \E t \in Range0(NumTracks[l - 1]) : UpperCrossPoint[l - 1][t] = c}
             fromUp == getLowerCrossPointRange(l + 1, U)
             fromDown == getUpperCrossPointRange(l - 1, D)
             up == [t \in Range0(NumTracks[l + 1]) |-> LowerCrossPoint(l + 1, t)]
             down == [t \in Range0(NumTracks[l - 1]) |-> UpperCrossPoint[l - 1][t]]
             f == Intvl(up[U.low], up[U.high])
             g == Intvl(down[D.low], down[D.high])
  <1>1. l + 1 \in GridLayers /\ l - 1 \in GridLayers /\ l \in Int
    BY GridAssumption, LayerListAssumption DEF GridLayers
  <1>2. above \subseteq Range0(NumCrossPoints[l]) /\ below \subseteq Range0(NumCrossPoints[l])
        /\ \A c \in Range0(NumCrossPoints[l]) : c \in above \/ c \in below
    BY <1>1, CrossPointAssumption
  <1>3. Crosses(l, l + 1, up, above) /\ Crosses(l, l - 1, down, below)
    BY <1>1, CrossesAbove, CrossesBelow
  <1>4. rangeSearchCrossPoint(l, r) = CrossPointsBetween(l, U, D)
    BY DEF rangeSearchCrossPoint
  <1> HIDE DEF above, below, up, down
  <1>5. /\ IsValid(U) =>
             /\ IsValid(f)
             /\ \A c \in {f.low, f.high} :
                  c \in Range0(NumCrossPoints[l]) /\ CrossPointLoc[l][c] \in In(r)
        /\ \A c \in above : CrossPointLoc[l][c] \in In(r) => IsValid(U) /\ c \in In(f)
        /\ ~IsValid(U) /\ isTrackRangeWeaklyValid(l + 1, U) => f \in Interval /\ ~IsValid(f)
    BY <1>1, <1>2, <1>3, CrossesRange
  <1>6. /\ IsValid(D) =>
             /\ IsValid(g)
             /\ \A c \in {g.low, g.high} :
                  c \in Range0(NumCrossPoints[l]) /\ CrossPointLoc[l][c] \in In(r)
        /\ \A c \in below : CrossPointLoc[l][c] \in In(r) => IsValid(D) /\ c \in In(g)
        /\ ~IsValid(D) /\ isTrackRangeWeaklyValid(l - 1, D) => g \in Interval /\ ~IsValid(g)
    BY <1>1, <1>2, <1>3, CrossesRange
  <1>7. /\ isTrackRangeValid(l + 1, U) <=> IsValid(U)
        /\ IsValid(U) => U.low \in Range0(NumTracks[l + 1]) /\ U.high \in Range0(NumTracks[l + 1])
    BY <1>1, TrackRange
  <1>8. /\ isTrackRangeValid(l - 1, D) <=> IsValid(D)
        /\ IsValid(D) => D.low \in Range0(NumTracks[l - 1]) /\ D.high \in Range0(NumTracks[l - 1])
    BY <1>1, TrackRange
  <1> HIDE DEF U, D
  <1>9. U.low \in Range0(NumTracks[l + 1]) /\ U.high \in Range0(NumTracks[l + 1]) => fromUp = f
    BY DEF getLowerCrossPointRange, up
  <1>10. D.low \in Range0(NumTracks[l - 1]) /\ D.high \in Range0(NumTracks[l - 1]) => fromDown = g
    BY DEF getUpperCrossPointRange, down
  <1>11. isTrackRangeWeaklyValid(l + 1, U) => fromUp = f
    BY <1>9 DEF isTrackRangeWeaklyValid
  <1>12. isTrackRangeWeaklyValid(l - 1, D) => fromDown = g
    BY <1>10 DEF isTrackRangeWeaklyValid
  <1>13. (IsValid(U) => f \in Interval) /\ (IsValid(D) => g \in Interval)
    <2>1. \A c \in Range0(NumCrossPoints[l]) : c \in Int
      BY DEF Range0
    <2>2. f.low = up[U.low] /\ f.high = up[U.high] /\ g.low = down[D.low] /\ g.high = down[D.high]
      BY DEF Intvl
    <2>3. up[U.low] \in Int /\ up[U.high] \in Int => f \in Interval
      BY DEF Intvl, Interval
    <2>4. down[D.low] \in Int /\ down[D.high] \in Int => g \in Interval
      BY DEF Intvl, Interval
    <2> HIDE DEF f, g
    <2> QED BY <1>5, <1>6, <2>1, <2>2, <2>3, <2>4
  <1> HIDE DEF f, g, fromUp, fromDown
  <1>14. CASE IsValid(U) /\ IsValid(D)
    <2>1. rangeSearchCrossPoint(l, r) = UnionWith(f, g)
      BY <1>4, <1>7, <1>8, <1>9, <1>10, <1>14 DEF CrossPointsBetween, fromUp, fromDown
    <2> DEFINE u == UnionWith(f, g)
    <2>2. /\ u \in Interval /\ In(f) \subseteq In(u) /\ In(g) \subseteq In(u)
          /\ u.low \in {f.low, g.low} /\ u.high \in {f.high, g.high}
          /\ u.low <= f.low /\ f.high <= u.high
      BY <1>5, <1>6, <1>13, <1>14, UnionFacts
    <2> HIDE DEF u
    <2>3. IsValid(u)
      BY <1>5, <1>13, <1>14, <2>2 DEF IsValid, Interval
    <2>4. \A c \in {u.low, u.high} :
            c \in Range0(NumCrossPoints[l]) /\ CrossPointLoc[l][c] \in In(r)
      BY <1>5, <1>6, <1>14, <2>2
    <2>5. \A c \in Range0(NumCrossPoints[l]) : CrossPointLoc[l][c] \in In(r) => c \in In(u)
      BY <1>2, <1>5, <1>6, <2>2
    <2>6. FindsCrossPoints(l, r, u)
      BY <2>2, <2>3, <2>4, <2>5, HullFinds
    <2> QED BY <2>1, <2>6 DEF u
  <1>15. CASE IsValid(U) /\ ~IsValid(D)
    <2>1. rangeSearchCrossPoint(l, r) = f
      BY <1>4, <1>7, <1>8, <1>9, <1>15 DEF CrossPointsBetween, fromUp, fromDown
    <2>2. \A c \in Range0(NumCrossPoints[l]) : CrossPointLoc[l][c] \in In(r) => c \in In(f)
      BY <1>2, <1>5, <1>6, <1>15
    <2>3. FindsCrossPoints(l, r, f)
      BY <1>5, <1>13, <1>15, <2>2, HullFinds
    <2> QED BY <2>1, <2>3
  <1>16. CASE ~IsValid(U) /\ IsValid(D)
    <2>1. rangeSearchCrossPoint(l, r) = g
      BY <1>4, <1>7, <1>8, <1>10, <1>16 DEF CrossPointsBetween, fromUp, fromDown
    <2>2. \A c \in Range0(NumCrossPoints[l]) : CrossPointLoc[l][c] \in In(r) => c \in In(g)
      BY <1>2, <1>5, <1>6, <1>16
    <2>3. FindsCrossPoints(l, r, g)
      BY <1>6, <1>13, <1>16, <2>2, HullFinds
    <2> QED BY <2>1, <2>3
  <1>17. CASE ~IsValid(U) /\ ~IsValid(D)
    <2>1. \A c \in Range0(NumCrossPoints[l]) : CrossPointLoc[l][c] \notin In(r)
      BY <1>2, <1>5, <1>6, <1>17
    <2>2. Intvl(0, -1) \in Interval /\ ~IsValid(Intvl(0, -1))
      BY DEF Intvl, Interval, IsValid
    <2>3. rangeSearchCrossPoint(l, r) =
            IF isTrackRangeWeaklyValid(l + 1, U) THEN fromUp
            ELSE IF isTrackRangeWeaklyValid(l - 1, D) THEN fromDown
            ELSE Intvl(0, -1)
      BY <1>4, <1>7, <1>8, <1>17 DEF CrossPointsBetween, fromUp, fromDown
    <2>4. rangeSearchCrossPoint(l, r) \in Interval /\ ~IsValid(rangeSearchCrossPoint(l, r))
      BY <1>5, <1>6, <1>11, <1>12, <1>17, <2>2, <2>3
    <2> QED BY <2>1, <2>4, NothingFinds
  <1> QED BY <1>14, <1>15, <1>16, <1>17

\* the search on any layer finds exactly the cross points in range
LEMMA CrossPointSearch ==
  ASSUME NEW l \in GridLayers, NEW r \in Interval
  PROVE  FindsCrossPoints(l, r, rangeSearchCrossPoint(l, r))
  <1>1. LayerNum \in Nat /\ LayerNum > 1 /\ 0 \in GridLayers /\ 1 \in GridLayers
        /\ LayerNum - 1 \in GridLayers /\ LayerNum - 2 \in GridLayers /\ l \in Int
        /\ (LayerNum - 2) + 1 = LayerNum - 1
    BY GridAssumption, LayerListAssumption DEF GridLayers
  <1>2. CASE l = 0
    <2>1. rangeSearchCrossPoint(l, r) = rangeSearchTrack(1, r)
      BY <1>2 DEF rangeSearchCrossPoint
    <2>2. ASSUME NEW c \in Range0(NumCrossPoints[0]) PROVE CrossPointLoc[0][c] = TrackLoc[1][c]
      <3>1. UpperTrack[0][c] = c /\ c # -1
        BY EndLayersAssumption DEF Range0
      <3>2. 0 + 1 \in GridLayers /\ 0 + 1 = 1
        BY <1>1
      <3> QED BY <1>1, <3>1, <3>2, CrossPointAssumption
    <2>3. NumCrossPoints[0] = NumTracks[1]
      BY EndLayersAssumption
    <2> QED BY <1>1, <1>2, <2>1, <2>2, <2>3, TrackSearch DEF FindsCrossPoints
  <1>3. CASE l = LayerNum - 1 /\ l # 0
    <2>1. rangeSearchCrossPoint(l, r) = rangeSearchTrack(LayerNum - 2, r)
      <3>1. l - 1 = LayerNum - 2
        BY <1>1, <1>3
      <3> QED BY <1>3, <3>1 DEF rangeSearchCrossPoint
    <2>2. ASSUME NEW c \in Range0(NumTracks[LayerNum - 2])
          PROVE  CrossPointLoc[l][c] = TrackLoc[LayerNum - 2][c]
      <3>1. UpperCrossPoint[LayerNum - 2][c] = c
        BY EndLayersAssumption
      <3> QED BY <1>1, <1>3, <3>1, CrossPointAssumption
    <2>3. NumCrossPoints[l] = NumTracks[LayerNum - 2]
      BY <1>3, EndLayersAssumption
    <2> QED BY <1>1, <2>1, <2>2, <2>3, TrackSearch DEF FindsCrossPoints
  <1>4. CASE l # 0 /\ l # LayerNum - 1
    BY <1>4, CrossPointSearchBetween
  <1> QED BY <1>2, <1>3, <1>4

\* a grid point lies in a box of locations
LocBoxOn(b, p) ==
  b.layer = p.layer /\ getLoc(p).x \in In(b.x) /\ getLoc(p).y \in In(b.y)

\* boxes of the grid, valid or not
GridBoxes == [layer : GridLayers, tracks : Interval, cps : Interval]

\* rangeSearch finds exactly the grid points in a box of locations
LEMMA RangeSearchExact ==
  ASSUME NEW b \in LocBox
  PROVE  /\ rangeSearch(b) \in GridBoxes /\ rangeSearch(b).layer = b.layer
         /\ PointsIn(rangeSearch(b)) = {p \in GridPoint : LocBoxOn(b, p)}
         /\ \A t \in In(rangeSearch(b).tracks) : t \in Range0(NumTracks[b.layer])
         /\ \A c \in In(rangeSearch(b).cps) : c \in Range0(NumCrossPoints[b.layer])
  <1> DEFINE l == b.layer
             R == rangeSearchTrack(l, Across(l, b))
             C == rangeSearchCrossPoint(l, Along(l, b))
             g == rangeSearch(b)
  <1>1. l \in GridLayers /\ b.x \in Interval /\ b.y \in Interval
        /\ Across(l, b) \in Interval /\ Along(l, b) \in Interval
    BY DEF LocBox, Interval, Across, Along
  <1>2. R \in Interval /\ \A t \in Int :
          t \in In(R) <=> t \in Range0(NumTracks[l]) /\ TrackLoc[l][t] \in In(Across(l, b))
    BY <1>1, TrackSearch
  <1>3. C \in Interval /\ \A c \in Int :
          c \in In(C) <=> c \in Range0(NumCrossPoints[l]) /\ CrossPointLoc[l][c] \in In(Along(l, b))
    BY <1>1, CrossPointSearch DEF FindsCrossPoints
  <1>4. g = GridBox(l, R, C)
    BY DEF rangeSearch
  <1>5. g.layer = l /\ g.tracks = R /\ g.cps = C /\ g \in GridBoxes
    BY <1>1, <1>2, <1>3, <1>4 DEF GridBox, GridBoxes
  <1>6. (\A t \in In(R) : t \in Int) /\ (\A c \in In(C) : c \in Int)
    BY <1>2, <1>3 DEF In, Interval
  <1> HIDE DEF R, C, g, l
  <1>7. ASSUME NEW p \in PointsIn(g) PROVE p \in GridPoint /\ LocBoxOn(b, p)
    <2>1. PICK t \in In(R), c \in In(C) : p = [layer |-> l, track |-> t, cp |-> c]
      BY <1>5 DEF PointsIn
    <2>2. t \in Range0(NumTracks[l]) /\ c \in Range0(NumCrossPoints[l])
      BY <1>2, <1>3, <1>6
    <2>3. p \in GridPoint
      BY <1>1, <2>1, <2>2 DEF GridPoint, l
    <2>4. TrackLoc[l][t] \in In(Across(l, b)) /\ CrossPointLoc[l][c] \in In(Along(l, b))
      BY <1>2, <1>3, <1>6
    <2>5. getLoc(p).x \in In(b.x) /\ getLoc(p).y \in In(b.y)
      BY <2>1, <2>4 DEF getLoc, Across, Along
    <2> QED BY <2>1, <2>3, <2>5 DEF LocBoxOn, l
  <1>8. ASSUME NEW p \in GridPoint, LocBoxOn(b, p) PROVE p \in PointsIn(g)
    <2>1. /\ p.layer = l /\ p.track \in Range0(NumTracks[l]) /\ p.cp \in Range0(NumCrossPoints[l])
          /\ p = [layer |-> l, track |-> p.track, cp |-> p.cp]
      BY <1>8 DEF GridPoint, LocBoxOn, l
    <2>2. TrackLoc[l][p.track] \in In(Across(l, b)) /\ CrossPointLoc[l][p.cp] \in In(Along(l, b))
      BY <1>8, <2>1 DEF getLoc, Across, Along, LocBoxOn
    <2>3. p.track \in Int /\ p.cp \in Int
      BY <2>1 DEF Range0
    <2>4. p.track \in In(R) /\ p.cp \in In(C)
      BY <1>2, <1>3, <2>1, <2>2, <2>3
    <2> QED BY <1>5, <2>1, <2>4 DEF PointsIn
  <1>9. PointsIn(g) = {p \in GridPoint : LocBoxOn(b, p)}
    BY <1>7, <1>8
  <1> QED BY <1>2, <1>3, <1>5, <1>6, <1>9 DEF g, l

-----------------------------------------------------------------------------
(* Merging boxes (MergeRects)                                              *)

\* the last element of a sequence
LEMMA LastFacts ==
  ASSUME NEW S, NEW m \in Seq(S), m # <<>>
  PROVE  Len(m) \in Nat \ {0} /\ DOMAIN m = 1 .. Len(m) /\ Last(m) = m[Len(m)] /\ Last(m) \in S
  <1>1. Len(m) \in Nat \ {0} /\ DOMAIN m = 1 .. Len(m)
    BY EmptySeq, LenProperties
  <1>2. Last(m) = m[Len(m)] /\ Last(m) \in S
    BY <1>1 DEF Last
  <1> QED BY <1>1, <1>2

\* a sequence whose last element is replaced
LEMMA WithLast ==
  ASSUME NEW S, NEW m \in Seq(S), m # <<>>, NEW x \in S
  PROVE  /\ Append(Front(m), x) \in Seq(S)
         /\ Len(Append(Front(m), x)) = Len(m)
         /\ DOMAIN Append(Front(m), x) = 1 .. Len(m)
         /\ \A i \in 1 .. Len(m) : Append(Front(m), x)[i] = IF i = Len(m) THEN x ELSE m[i]
  <1>1. Len(m) \in Nat \ {0}
    BY LastFacts
  <1> DEFINE f == Front(m)
  <1>2. f \in Seq(S) /\ Len(f) = Len(m) - 1 /\ \A i \in 1 .. Len(m) - 1 : f[i] = m[i]
    <2>1. \A i \in 1 .. Len(m) - 1 : m[i] \in S /\ i \in Nat
      BY <1>1
    <2>2. /\ f \in Seq(S) /\ Len(f) = Len(m) - 1
          /\ \A i \in 1 .. (Len(m) - 1) - 1 + 1 : f[i] = m[1 + i - 1]
      <3> DEFINE n == Len(m) - 1
      <3>1. n \in Nat /\ 1 \in Int
        BY <1>1
      <3> HIDE DEF n
      <3>2. /\ SubSeq(m, 1, n) \in Seq(S) /\ Len(SubSeq(m, 1, n)) = IF 1 <= n THEN n - 1 + 1 ELSE 0
            /\ \A i \in 1 .. n - 1 + 1 : SubSeq(m, 1, n)[i] = m[1 + i - 1]
        <4>1. \A i \in 1 .. n : m[i] \in S
          BY <2>1 DEF n
        <4>2. n \in Int
          BY <3>1
        <4> QED BY <4>1, <4>2, SubSeqProperties
      <3>3. Len(SubSeq(m, 1, n)) = n
        BY <3>1, <3>2
      <3> QED BY <3>2, <3>3 DEF n, Front
    <2>3. (Len(m) - 1) - 1 + 1 = Len(m) - 1 /\ \A i \in 1 .. Len(m) - 1 : 1 + i - 1 = i
      BY <1>1
    <2> HIDE DEF f
    <2> QED BY <2>2, <2>3
  <1> DEFINE r == Append(f, x)
  <1> HIDE DEF f
  <1>3. r \in Seq(S) /\ Len(r) = Len(f) + 1 /\ r[Len(f) + 1] = x /\ \A i \in 1 .. Len(f) : r[i] = f[i]
    BY <1>2, AppendProperties
  <1>4. Len(f) + 1 = Len(m)
    BY <1>1, <1>2
  <1>5. \A n \in Nat : \A i \in 1 .. n : i = n \/ i \in 1 .. n - 1
    OBVIOUS
  <1> HIDE DEF r
  <1>6. DOMAIN r = 1 .. Len(r)
    BY <1>3, LenProperties
  <1>7. \A i \in 1 .. Len(m) : r[i] = IF i = Len(m) THEN x ELSE m[i]
    BY <1>1, <1>2, <1>3, <1>4, <1>5
  <1> QED BY <1>3, <1>4, <1>6, <1>7 DEF r, f

\* a sequence with one element more
LEMMA AddLast ==
  ASSUME NEW S, NEW m \in Seq(S), NEW x \in S, NEW r, r = Append(m, x)
  PROVE  /\ r \in Seq(S) /\ Len(m) \in Nat /\ Len(r) = Len(m) + 1
         /\ DOMAIN m = 1 .. Len(m) /\ DOMAIN r = 1 .. Len(m) + 1
         /\ r[Len(m) + 1] = x /\ \A i \in 1 .. Len(m) : r[i] = m[i]
  BY AppendProperties, LenProperties

\* f is the sequence of boxes after each step of a merge
MergedBy(f, s, aligned, along) ==
  f = [i \in 0 .. Len(s) |-> IF i = 0 THEN <<>> ELSE WithBox(f[i - 1], s[i], aligned, along)]

\* MergeRects goes through the boxes in order, and what it has merged after
\* each of them is f
MergesInOrder(S, boxes, aligned, along) ==
  \E s \in Seq(S) : \E f \in [0 .. Len(s) -> Seq(S)] :
    /\ InOrderOf(s, boxes, [b \in boxes |-> <<b[aligned].low, b[along].low>>])
    /\ MergeRects(boxes, aligned, along) = f[Len(s)]
    /\ f[0] = <<>>
    /\ \A i \in 1 .. Len(s) : f[i] = WithBox(f[i - 1], s[i], aligned, along)

\* MergeRects adds the boxes one by one, in the order of their ranks
LEMMA MergeRectsSteps ==
  ASSUME NEW S, NEW boxes \in SUBSET S, IsFiniteSet(boxes), NEW aligned, NEW along,
         \A b \in S : b[aligned].low \in Int /\ b[along].low \in Int,
         \A m \in Seq(S), b \in S : WithBox(m, b, aligned, along) \in Seq(S)
  PROVE  MergesInOrder(S, boxes, aligned, along)
  <1> DEFINE rank == [b \in boxes |-> <<b[aligned].low, b[along].low>>]
             s == InOrder(boxes, rank)
             f == CHOOSE f : MergedBy(f, s, aligned, along)
  <1>1. rank \in [boxes -> Int \X Int]
    OBVIOUS
  <1>2. InOrderOf(s, boxes, rank)
    BY <1>1, InOrderFacts
  <1>3. s \in Seq(boxes) /\ s \in Seq(S)
    BY <1>2 DEF InOrderOf
  <1>4. MergeRects(boxes, aligned, along) = f[Len(s)]
    BY DEF MergeRects, MergedBy
  <1> HIDE DEF s, rank
  <1>5. Len(s) \in Nat /\ \A i \in 1 .. Len(s) : s[i] \in S
    BY <1>3
  <1>6. \E h : MergedBy(h, s, aligned, along)
    <2> DEFINE N == Len(s)
               g == [n \in 1 .. N |-> [m \in Seq(S) |-> WithBox(m, s[n], aligned, along)]]
    <2>1. g \in [1 .. N -> [Seq(S) -> Seq(S)]]
      BY <1>5
    <2>2. <<>> \in Seq(S)
      OBVIOUS
    <2>3. PICK h \in [0 .. N -> Seq(S)] : Steps(h, N, <<>>, g)
      <3> HIDE DEF g
      <3> QED BY <1>5, <2>1, <2>2, StepsExist
    <2>4. h = [n \in 0 .. N |-> IF n = 0 THEN <<>> ELSE g[n][h[n - 1]]]
      BY <2>3 DEF Steps
    <2>5. ASSUME NEW n \in 0 .. N
          PROVE  h[n] = IF n = 0 THEN <<>> ELSE WithBox(h[n - 1], s[n], aligned, along)
      <3>1. CASE n = 0
        BY <2>4, <3>1
      <3>2. CASE n # 0
        <4>1. n \in 1 .. N /\ n - 1 \in 0 .. N
          BY <3>2
        <4>2. h[n - 1] \in Seq(S)
          BY <2>3, <4>1
        <4>3. h[n] = g[n][h[n - 1]]
          <5> HIDE DEF g
          <5> QED BY <2>4, <3>2
        <4> QED BY <3>2, <4>1, <4>2, <4>3
      <3> QED BY <3>1, <3>2
    <2>6. h = [n \in 0 .. N |-> h[n]]
      BY <2>3
    <2>7. MergedBy(h, s, aligned, along)
      <3> HIDE DEF g
      <3> QED BY <2>5, <2>6 DEF MergedBy
    <2> QED BY <2>7
  <1>7. MergedBy(f, s, aligned, along)
    BY <1>6
  <1> HIDE DEF f
  <1>8. /\ f = [i \in 0 .. Len(s) |-> f[i]]
        /\ f[0] = <<>>
        /\ \A i \in 1 .. Len(s) : f[i] = WithBox(f[i - 1], s[i], aligned, along)
    BY <1>5, <1>7 DEF MergedBy
  <1>9. f \in [0 .. Len(s) -> Seq(S)]
    <2> DEFINE G == {i \in Nat : f[i] \in Seq(S)}
    <2>1. 0 \in G
      BY <1>8
    <2>2. ASSUME NEW n \in 0 .. Len(s) - 1, n \in G PROVE n + 1 \in G
      <3>1. n + 1 \in 1 .. Len(s) /\ (n + 1) - 1 = n /\ n + 1 \in Nat
        BY <1>5
      <3>2. f[n + 1] = WithBox(f[n], s[n + 1], aligned, along)
        BY <1>8, <3>1
      <3>3. f[n] \in Seq(S) /\ s[n + 1] \in S
        BY <1>5, <2>2, <3>1
      <3> QED BY <3>1, <3>2, <3>3
    <2> HIDE DEF G
    <2>3. \A n \in 0 .. Len(s) : n \in G
      BY <1>5, <2>1, <2>2, AllUpTo
    <2>4. \A n \in 0 .. Len(s) : f[n] \in Seq(S)
      BY <2>3 DEF G
    <2> QED BY <1>8, <2>4
  <1>10. /\ InOrderOf(s, boxes, [b \in boxes |-> <<b[aligned].low, b[along].low>>])
         /\ MergeRects(boxes, aligned, along) = f[Len(s)]
    BY <1>2, <1>4 DEF rank
  <1> QED BY <1>3, <1>8, <1>9, <1>10 DEF MergesInOrder

-----------------------------------------------------------------------------
(* One step of a merge of grid boxes                                       *)

\* WithBox where boxes have the same tracks and where they have the same cross points
LEMMA WithBoxOnTracks ==
  ASSUME NEW m, NEW b \in GridBoxes
  PROVE  WithBox(m, b, "tracks", "cps") =
           IF m # <<>> /\ Last(m).tracks = b.tracks /\ b.cps.low <= Last(m).cps.high
           THEN Append(Front(m), GridBox(b.layer, b.tracks, UnionWith(Last(m).cps, b.cps)))
           ELSE Append(m, b)
  <1> DEFINE o == Last(m)
  <1> HIDE DEF o
  <1>0. b \in [layer : GridLayers, tracks : Interval, cps : Interval]
    BY DEF GridBoxes
  <1> DEFINE u == UnionWith(o.cps, b.cps)
  <1>1. [b EXCEPT !["cps"] = UnionWith(o["cps"], @)] = GridBox(b.layer, b.tracks, u)
    <2>1. [b EXCEPT !["cps"] = UnionWith(o["cps"], @)] = [b EXCEPT !["cps"] = u]
      OBVIOUS
    <2> HIDE DEF u
    <2>2. [b EXCEPT !["cps"] = u] = [b EXCEPT !.cps = u]
      BY <1>0
    <2>3. [b EXCEPT !.cps = u] = GridBox(b.layer, b.tracks, u)
      BY <1>0 DEF GridBox
    <2> QED BY <2>1, <2>2, <2>3
  <1> QED BY <1>1 DEF WithBox, o

\* a box added to those on the same cross points: on the tracks that follow, or behind them
LEMMA WithBoxOnCps ==
  ASSUME NEW m, NEW b \in GridBoxes
  PROVE  WithBox(m, b, "cps", "tracks") =
           IF m # <<>> /\ Last(m).cps = b.cps /\ b.tracks.low <= Last(m).tracks.high
           THEN Append(Front(m), GridBox(b.layer, UnionWith(Last(m).tracks, b.tracks), b.cps))
           ELSE Append(m, b)
  <1> DEFINE o == Last(m)
  <1> HIDE DEF o
  <1>0. b \in [layer : GridLayers, tracks : Interval, cps : Interval]
    BY DEF GridBoxes
  <1> DEFINE u == UnionWith(o.tracks, b.tracks)
  <1>1. [b EXCEPT !["tracks"] = UnionWith(o["tracks"], @)] = GridBox(b.layer, u, b.cps)
    <2>1. [b EXCEPT !["tracks"] = UnionWith(o["tracks"], @)] = [b EXCEPT !["tracks"] = u]
      OBVIOUS
    <2> HIDE DEF u
    <2>2. [b EXCEPT !["tracks"] = u] = [b EXCEPT !.tracks = u]
      BY <1>0
    <2>3. [b EXCEPT !.tracks = u] = GridBox(b.layer, u, b.cps)
      BY <1>0 DEF GridBox
    <2> QED BY <2>1, <2>2, <2>3
  <1> QED BY <1>1 DEF WithBox, o

\* a grid box added to grid boxes
LEMMA WithBoxType ==
  ASSUME NEW m \in Seq(GridBoxes), NEW b \in GridBoxes
  PROVE  /\ WithBox(m, b, "tracks", "cps") \in Seq(GridBoxes)
         /\ WithBox(m, b, "cps", "tracks") \in Seq(GridBoxes)
  <1>1. Append(m, b) \in Seq(GridBoxes)
    BY AppendProperties
  <1>2. ASSUME m # <<>>
        PROVE  /\ Append(Front(m), GridBox(b.layer, b.tracks, UnionWith(Last(m).cps, b.cps))) \in Seq(GridBoxes)
               /\ Append(Front(m), GridBox(b.layer, UnionWith(Last(m).tracks, b.tracks), b.cps)) \in Seq(GridBoxes)
    <2>1. Last(m) \in GridBoxes
      BY <1>2, LastFacts
    <2>2. UnionWith(Last(m).cps, b.cps) \in Interval /\ UnionWith(Last(m).tracks, b.tracks) \in Interval
      <3>1. Last(m).cps \in Interval /\ Last(m).tracks \in Interval /\ b.cps \in Interval /\ b.tracks \in Interval
        BY <2>1 DEF GridBoxes
      <3> QED BY <3>1, UnionFacts
    <2>3. /\ GridBox(b.layer, b.tracks, UnionWith(Last(m).cps, b.cps)) \in GridBoxes
          /\ GridBox(b.layer, UnionWith(Last(m).tracks, b.tracks), b.cps) \in GridBoxes
      BY <2>2 DEF GridBoxes, GridBox
    <2> HIDE DEF GridBoxes
    <2> QED BY <1>2, <2>3, WithLast
  <1> QED BY <1>1, <1>2, WithBoxOnTracks, WithBoxOnCps

\* a is before b in the order of merged boxes, and shares no point with it
Before(a, b) ==
  \/ a.tracks.low < b.tracks.low
  \/ a.tracks = b.tracks /\ (a.cps.high < b.cps.low \/ ~IsValid(a.cps))

\* Merging boxes of a layer whose ranges of tracks are the same or apart, up to
\* box a: what has been merged covers the same points, and is in order.
Merging(m, l, ranges, points, a) ==
  /\ m \in Seq(GridBoxes) /\ m # <<>>
  /\ \A k \in DOMAIN m : m[k].layer = l /\ m[k].tracks \in ranges
  /\ \A p : (\E k \in DOMAIN m : p \in PointsIn(m[k])) <=> p \in points
  /\ Last(m).tracks = a.tracks /\ Last(m).cps.low <= a.cps.low
  /\ \A j, k \in DOMAIN m : j < k => Before(m[j], m[k])

\* ranges, each valid, of which any two have no number in common
Apart(ranges) ==
  /\ ranges \subseteq Interval
  /\ \A i \in ranges : IsValid(i)
  /\ \A i, j \in ranges : i = j \/ i.high < j.low \/ j.high < i.low

\* a box that touches none before it is added as it is
LEMMA MergingAdds ==
  ASSUME NEW m, NEW l, NEW ranges, NEW points, NEW a \in GridBoxes, NEW b \in GridBoxes,
         Merging(m, l, ranges, points, a), Apart(ranges),
         b.layer = l, a.tracks \in ranges, b.tracks \in ranges,
         Lex(<<a.tracks.low, a.cps.low>>, <<b.tracks.low, b.cps.low>>),
         ~(Last(m).tracks = b.tracks /\ b.cps.low <= Last(m).cps.high)
  PROVE  Merging(Append(m, b), l, ranges, points \cup PointsIn(b), b)
  <1> DEFINE r == Append(m, b)
             n == Len(m)
             e == m[n]
  <1>1. /\ m \in Seq(GridBoxes) /\ m # <<>>
        /\ \A k \in DOMAIN m : m[k].layer = l /\ m[k].tracks \in ranges
        /\ \A p : (\E k \in DOMAIN m : p \in PointsIn(m[k])) <=> p \in points
        /\ Last(m).tracks = a.tracks /\ Last(m).cps.low <= a.cps.low
        /\ \A j, k \in DOMAIN m : j < k => Before(m[j], m[k])
    BY DEF Merging
  <1>2. /\ r \in Seq(GridBoxes) /\ n \in Nat /\ Len(r) = n + 1
        /\ DOMAIN m = 1 .. n /\ DOMAIN r = 1 .. n + 1
        /\ r[n + 1] = b /\ \A i \in 1 .. n : r[i] = m[i]
    BY <1>1, AddLast
  <1>3. n # 0 /\ Last(m) = e /\ n \in DOMAIN m
    BY <1>1, <1>2, EmptySeq DEF Last
  <1>4. r # <<>> /\ Last(r) = b
    <2>1. Last(r) = r[Len(r)] /\ r # <<>>
      BY <1>2, EmptySeq DEF Last
    <2> QED BY <1>2, <2>1
  <1> HIDE DEF r, n, e
  <1>5. \A i \in 1 .. n + 1 : i = n + 1 \/ i \in 1 .. n
    BY <1>2
  <1>6. \A k \in DOMAIN r : r[k].layer = l /\ r[k].tracks \in ranges
    BY <1>1, <1>2, <1>5
  <1>7. \A p : (\E k \in DOMAIN r : p \in PointsIn(r[k])) <=> p \in points \cup PointsIn(b)
    <2>1. ASSUME NEW p, NEW k \in DOMAIN r, p \in PointsIn(r[k]) PROVE p \in points \cup PointsIn(b)
      BY <1>1, <1>2, <1>5, <2>1
    <2>2. ASSUME NEW p \in points PROVE \E k \in DOMAIN r : p \in PointsIn(r[k])
      <3>1. PICK k \in DOMAIN m : p \in PointsIn(m[k])
        BY <1>1
      <3>2. k \in DOMAIN r /\ r[k] = m[k]
        BY <1>2, <3>1
      <3> QED BY <3>1, <3>2
    <2>3. ASSUME NEW p \in PointsIn(b) PROVE \E k \in DOMAIN r : p \in PointsIn(r[k])
      <3>1. n + 1 \in DOMAIN r
        BY <1>2
      <3> QED BY <1>2, <3>1
    <2> QED BY <2>1, <2>2, <2>3
  <1>8. /\ e \in GridBoxes /\ a.tracks.low \in Int /\ a.cps.low \in Int /\ b.tracks.low \in Int
        /\ b.cps.low \in Int /\ b.tracks.high \in Int /\ a.tracks.high \in Int
        /\ e.tracks.low \in Int /\ e.cps.low \in Int /\ e.cps.high \in Int
    <2>1. e \in GridBoxes
      BY <1>1, <1>2, <1>3 DEF e
    <2> QED BY <2>1 DEF GridBoxes, Interval
  <1>9. a.tracks.low < b.tracks.low \/ (a.tracks.low = b.tracks.low /\ a.cps.low <= b.cps.low)
    BY DEF Lex
  <1>10. a.tracks.low = b.tracks.low => a.tracks = b.tracks
    BY <1>8 DEF Apart, IsValid
  <1>11. Before(e, b)
    <2>1. CASE a.tracks = b.tracks
      BY <1>1, <1>3, <1>8, <2>1 DEF Before
    <2>2. CASE a.tracks # b.tracks
      BY <1>1, <1>3, <1>9, <1>10, <2>2 DEF Before
    <2> QED BY <2>1, <2>2
  <1>12. ASSUME NEW j \in DOMAIN m PROVE Before(m[j], b)
    <2>1. CASE j = n
      BY <1>11, <2>1 DEF e
    <2>2. CASE j # n
      <3>1. j < n
        BY <1>2, <2>2
      <3>2. Before(m[j], e)
        BY <1>1, <1>3, <3>1 DEF e
      <3>3. m[j] \in GridBoxes
        BY <1>1
      <3>4. m[j].tracks.low \in Int /\ m[j].cps.high \in Int
        BY <3>3 DEF GridBoxes, Interval
      <3>5. CASE m[j].tracks.low < e.tracks.low
        <4>1. e.tracks.low <= b.tracks.low
          BY <1>1, <1>3, <1>8, <1>9
        <4> QED BY <1>8, <3>4, <3>5, <4>1 DEF Before
      <3>6. CASE m[j].tracks = e.tracks /\ (m[j].cps.high < e.cps.low \/ ~IsValid(m[j].cps))
        <4>1. CASE a.tracks.low < b.tracks.low
          BY <1>1, <1>3, <3>6, <4>1 DEF Before
        <4>2. CASE a.tracks.low = b.tracks.low /\ a.cps.low <= b.cps.low
          BY <1>1, <1>3, <1>8, <1>10, <3>4, <3>6, <4>2, SMTT(30) DEF Before
        <4> QED BY <1>9, <4>1, <4>2
      <3> QED BY <3>2, <3>5, <3>6 DEF Before
    <2> QED BY <2>1, <2>2
  <1>13. ASSUME NEW j \in DOMAIN r, NEW k \in DOMAIN r, j < k PROVE Before(r[j], r[k])
    <2>1. j \in 1 .. n
      BY <1>2, <1>5, <1>13
    <2>2. CASE k = n + 1
      BY <1>2, <1>12, <2>1, <2>2
    <2>3. CASE k \in 1 .. n
      BY <1>1, <1>2, <1>13, <2>1, <2>3
    <2> QED BY <1>2, <1>5, <2>2, <2>3
  <1>14. b.cps.low <= b.cps.low
    BY <1>8
  <1> QED BY <1>2, <1>4, <1>6, <1>7, <1>13, <1>14 DEF Merging, r

\* a box that continues the last one extends it
LEMMA MergingExtends ==
  ASSUME NEW m, NEW l, NEW ranges, NEW points, NEW a \in GridBoxes, NEW b \in GridBoxes,
         Merging(m, l, ranges, points, a), Apart(ranges),
         b.layer = l, a.tracks \in ranges, b.tracks \in ranges,
         Lex(<<a.tracks.low, a.cps.low>>, <<b.tracks.low, b.cps.low>>),
         Last(m).tracks = b.tracks, b.cps.low <= Last(m).cps.high
  PROVE  Merging(Append(Front(m), GridBox(b.layer, b.tracks, UnionWith(Last(m).cps, b.cps))),
                 l, ranges, points \cup PointsIn(b), b)
  <1> DEFINE e == Last(m)
             u == UnionWith(e.cps, b.cps)
             x == GridBox(b.layer, b.tracks, u)
             r == Append(Front(m), x)
             n == Len(m)
  <1>1. /\ m \in Seq(GridBoxes) /\ m # <<>>
        /\ \A k \in DOMAIN m : m[k].layer = l /\ m[k].tracks \in ranges
        /\ \A p : (\E k \in DOMAIN m : p \in PointsIn(m[k])) <=> p \in points
        /\ e.tracks = a.tracks /\ e.cps.low <= a.cps.low
        /\ \A j, k \in DOMAIN m : j < k => Before(m[j], m[k])
    BY DEF Merging
  <1>2. n \in Nat \ {0} /\ DOMAIN m = 1 .. n /\ e = m[n] /\ e \in GridBoxes
    BY <1>1, LastFacts
  <1>3. e.cps \in Interval /\ b.cps \in Interval /\ a.cps \in Interval /\ b.tracks \in Interval
        /\ e.tracks \in Interval /\ a.tracks \in Interval
    BY <1>2 DEF GridBoxes
  <1>4. u \in Interval /\ x \in GridBoxes
    <2>1. u \in Interval
      BY <1>3, UnionFacts
    <2> QED BY <2>1, <1>3 DEF x, GridBox, GridBoxes
  <1>5. /\ r \in Seq(GridBoxes) /\ Len(r) = n /\ DOMAIN r = 1 .. n
        /\ \A i \in 1 .. n : r[i] = IF i = n THEN x ELSE m[i]
    <2> HIDE DEF x, n
    <2> QED BY <1>1, <1>4, WithLast DEF r, n
  <1>6. n \in 1 .. n
    BY <1>2
  <1>7. Last(r) = x /\ r # <<>>
    <2>1. Last(r) = r[Len(r)] /\ r # <<>>
      BY <1>2, <1>5, EmptySeq DEF Last
    <2> QED BY <1>5, <1>6, <2>1
  <1>8. x.layer = l /\ x.tracks = b.tracks /\ x.cps = u
    BY DEF GridBox
  <1>9. e.cps.low <= b.cps.low /\ e.cps.low <= e.cps.high
    BY <1>1, <1>3 DEF Lex, Interval
  <1>10. u.low = e.cps.low /\ \A c \in Int : c \in In(u) <=> c \in In(e.cps) \/ c \in In(b.cps)
    <2>1. IsValid(e.cps)
      BY <1>9 DEF IsValid
    <2>2. CASE ~IsValid(b.cps)
      <3>1. u = e.cps
        BY <2>1, <2>2 DEF UnionWith
      <3> QED BY <1>3, <2>2, <3>1 DEF In, IsValid, Interval
    <2>3. CASE IsValid(b.cps)
      <3>1. u = Intvl(Lesser(e.cps.low, b.cps.low), Greater(e.cps.high, b.cps.high))
        BY <2>1, <2>3 DEF UnionWith
      <3>2. u.low = e.cps.low /\ u.high = Greater(e.cps.high, b.cps.high)
        BY <1>3, <1>9, <3>1 DEF Intvl, Lesser, Interval
      <3> HIDE DEF u
      <3> QED BY <1>3, <1>9, <2>3, <3>2 DEF In, IsValid, Interval, Greater
    <2> QED BY <2>2, <2>3
  <1> HIDE DEF r, n, e, u, x
  <1>11. \A k \in DOMAIN r : r[k].layer = l /\ r[k].tracks \in ranges
    BY <1>1, <1>2, <1>5, <1>8
  <1>12. \A p : p \in PointsIn(x) <=> p \in PointsIn(e) \/ p \in PointsIn(b)
    <2>1. e.layer = l /\ e.tracks = b.tracks /\ x.tracks = b.tracks
      BY <1>1, <1>2, <1>6, <1>8 DEF e
    <2>2. /\ \A c : c \in In(x.cps) => c \in Int
          /\ \A c : c \in In(e.cps) => c \in Int
          /\ \A c : c \in In(b.cps) => c \in Int
      BY <1>3, <1>4, <1>8 DEF In, Interval
    <2>3. \A c : c \in In(x.cps) <=> c \in In(e.cps) \/ c \in In(b.cps)
      BY <1>8, <1>10, <2>2
    <2> QED BY <1>8, <2>1, <2>3 DEF PointsIn
  <1>13. \A p : (\E k \in DOMAIN r : p \in PointsIn(r[k])) <=> p \in points \cup PointsIn(b)
    <2>1. ASSUME NEW p, NEW k \in DOMAIN r, p \in PointsIn(r[k]) PROVE p \in points \cup PointsIn(b)
      <3>1. CASE k = n
        <4>1. p \in PointsIn(e) \/ p \in PointsIn(b)
          BY <1>5, <1>6, <1>12, <2>1, <3>1
        <4> QED BY <1>1, <1>2, <1>6, <4>1
      <3>2. CASE k # n
        BY <1>1, <1>2, <1>5, <2>1, <3>2
      <3> QED BY <3>1, <3>2
    <2>2. ASSUME NEW p \in points PROVE \E k \in DOMAIN r : p \in PointsIn(r[k])
      <3>1. PICK k \in DOMAIN m : p \in PointsIn(m[k])
        BY <1>1
      <3>2. CASE k = n
        BY <1>2, <1>5, <1>6, <1>12, <3>1, <3>2
      <3>3. CASE k # n
        BY <1>2, <1>5, <3>1, <3>3
      <3> QED BY <3>2, <3>3
    <2>3. ASSUME NEW p \in PointsIn(b) PROVE \E k \in DOMAIN r : p \in PointsIn(r[k])
      BY <1>5, <1>6, <1>12
    <2> QED BY <2>1, <2>2, <2>3
  <1>14. ASSUME NEW j \in DOMAIN r, NEW k \in DOMAIN r, j < k PROVE Before(r[j], r[k])
    <2>1. j # n /\ r[j] = m[j] /\ j \in DOMAIN m /\ k \in DOMAIN m
      BY <1>2, <1>5, <1>14
    <2>2. Before(m[j], m[k])
      BY <1>1, <1>14, <2>1
    <2>3. CASE k = n
      <3>1. r[k] = x /\ m[k] = e
        BY <1>2, <1>5, <2>3
      <3>2. x.tracks = e.tracks /\ x.cps.low = e.cps.low
        BY <1>8, <1>10 DEF e
      <3> QED BY <2>1, <2>2, <3>1, <3>2 DEF Before
    <2>4. CASE k # n
      BY <1>5, <2>1, <2>2, <2>4
    <2> QED BY <2>3, <2>4
  <1>15. Last(r).tracks = b.tracks /\ Last(r).cps.low <= b.cps.low
    BY <1>7, <1>8, <1>9, <1>10
  <1> QED BY <1>5, <1>7, <1>11, <1>13, <1>14, <1>15 DEF Merging, r, x, u, e

-----------------------------------------------------------------------------
(* Merging along the tracks                                                *)

\* the points of the first n boxes of a sequence
PointsUpTo(s, n) == UNION {PointsIn(s[k]) : k \in 1 .. n}

\* merging begins with nothing
LEMMA MergingFirst ==
  ASSUME NEW l, NEW ranges, NEW b \in GridBoxes, b.layer = l, b.tracks \in ranges
  PROVE  Merging(Append(<<>>, b), l, ranges, PointsIn(b), b)
  <1> DEFINE m == Append(<<>>, b)
  <1>1. m \in Seq(GridBoxes) /\ Len(m) = 1 /\ DOMAIN m = 1 .. 1 /\ m[1] = b /\ m # <<>>
    OBVIOUS
  <1>2. Last(m) = b
    BY <1>1 DEF Last
  <1> HIDE DEF m
  <1>3. \A k \in 1 .. 1 : k = 1
    OBVIOUS
  <1>4. \A j, k \in 1 .. 1 : ~(j < k)
    OBVIOUS
  <1>5. b.cps.low <= b.cps.low
    BY DEF GridBoxes, Interval
  <1>6. \A p : (\E k \in DOMAIN m : p \in PointsIn(m[k])) <=> p \in PointsIn(b)
    BY <1>1, <1>3
  <1>7. \A k \in DOMAIN m : m[k].layer = l /\ m[k].tracks \in ranges
    BY <1>1, <1>3
  <1>8. \A j, k \in DOMAIN m : j < k => Before(m[j], m[k])
    BY <1>1, <1>4
  <1> QED BY <1>1, <1>2, <1>5, <1>6, <1>7, <1>8 DEF Merging, m

\* Boxes of a layer whose ranges of tracks are the same or apart: merging those
\* with the same tracks that meet leaves each point in one box.
LEMMA MergeAlongTracks ==
  ASSUME NEW l, NEW boxes \in SUBSET GridBoxes, IsFiniteSet(boxes), NEW ranges, Apart(ranges),
         \A b \in boxes : b.layer = l /\ b.tracks \in ranges
  PROVE  LET m == MergeRects(boxes, "tracks", "cps")
         IN  /\ m \in Seq(GridBoxes)
             /\ \A k \in DOMAIN m : m[k].layer = l /\ m[k].tracks \in ranges
             /\ \A p : (\E k \in DOMAIN m : p \in PointsIn(m[k])) <=> \E b \in boxes : p \in PointsIn(b)
             /\ \A j, k \in DOMAIN m : j < k => Before(m[j], m[k])
  <1> DEFINE rank == [b \in boxes |-> <<b["tracks"].low, b["cps"].low>>]
             M == MergeRects(boxes, "tracks", "cps")
  <1>1. \A b \in GridBoxes : b["tracks"].low \in Int /\ b["cps"].low \in Int
    BY DEF GridBoxes, Interval
  <1>2. \A m \in Seq(GridBoxes), b \in GridBoxes : WithBox(m, b, "tracks", "cps") \in Seq(GridBoxes)
    BY WithBoxType
  <1> HIDE DEF M
  <1>3. PICK s \in Seq(GridBoxes) : \E f \in [0 .. Len(s) -> Seq(GridBoxes)] :
           /\ InOrderOf(s, boxes, rank)
           /\ M = f[Len(s)]
           /\ f[0] = <<>>
           /\ \A i \in 1 .. Len(s) : f[i] = WithBox(f[i - 1], s[i], "tracks", "cps")
    <2>1. MergesInOrder(GridBoxes, boxes, "tracks", "cps")
      <3> HIDE DEF GridBoxes
      <3> QED BY <1>1, <1>2, MergeRectsSteps
    <2> QED BY <2>1 DEF M, MergesInOrder
  <1>4. PICK f \in [0 .. Len(s) -> Seq(GridBoxes)] :
           /\ InOrderOf(s, boxes, rank)
           /\ M = f[Len(s)]
           /\ f[0] = <<>>
           /\ \A i \in 1 .. Len(s) : f[i] = WithBox(f[i - 1], s[i], "tracks", "cps")
    BY <1>3
  <1> DEFINE N == Len(s)
  <1>5. /\ s \in Seq(boxes) /\ N \in Nat /\ DOMAIN s = 1 .. N
        /\ \A i \in 1 .. N : s[i] \in boxes
        /\ \A e \in boxes : \E i \in 1 .. N : s[i] = e
        /\ \A i, j \in 1 .. N : i < j => Lex(rank[s[i]], rank[s[j]])
    BY <1>4, LenProperties, ZenonT(30) DEF InOrderOf
  <1>6. \A i, j \in 1 .. N : i < j => Lex(<<s[i].tracks.low, s[i].cps.low>>, <<s[j].tracks.low, s[j].cps.low>>)
    <2>1. \A b \in boxes : rank[b] = <<b.tracks.low, b.cps.low>>
      OBVIOUS
    <2> HIDE DEF rank
    <2> QED BY <1>5, <2>1
  <1> HIDE DEF rank, N
  <1> DEFINE Up(n) == n = 0 \/ Merging(f[n], l, ranges, PointsUpTo(s, n), s[n])
             G == {n \in Nat : Up(n)}
  <1>7. 0 \in G
    OBVIOUS
  <1>8. ASSUME NEW n \in 0 .. N - 1, n \in G PROVE n + 1 \in G
    <2>1. n \in Nat /\ n + 1 \in 1 .. N /\ n + 1 \in Nat /\ (n + 1) - 1 = n
      BY <1>5
    <2> DEFINE b == s[n + 1]
    <2>2. b \in boxes /\ b \in GridBoxes /\ b.layer = l /\ b.tracks \in ranges
      BY <1>5, <2>1
    <2>3. f[n + 1] = WithBox(f[n], b, "tracks", "cps")
      BY <1>4, <2>1 DEF N
    <2> HIDE DEF GridBoxes
    <2>4. f[n + 1] = IF f[n] # <<>> /\ Last(f[n]).tracks = b.tracks /\ b.cps.low <= Last(f[n]).cps.high
                     THEN Append(Front(f[n]), GridBox(b.layer, b.tracks, UnionWith(Last(f[n]).cps, b.cps)))
                     ELSE Append(f[n], b)
      BY <2>2, <2>3, WithBoxOnTracks
    <2>5. PointsUpTo(s, n + 1) = PointsUpTo(s, n) \cup PointsIn(b)
      <3>1. \A k \in 1 .. n + 1 : k = n + 1 \/ k \in 1 .. n
        BY <2>1
      <3>2. \A k \in 1 .. n : k \in 1 .. n + 1
        BY <2>1
      <3>3. n + 1 \in 1 .. n + 1
        BY <2>1
      <3> QED BY <3>1, <3>2, <3>3 DEF PointsUpTo
    <2>6. CASE n = 0
      <3>1. f[n + 1] = Append(<<>>, b)
        BY <1>4, <2>4, <2>6
      <3>2. PointsUpTo(s, n + 1) = PointsIn(b)
        BY <2>5, <2>6 DEF PointsUpTo
      <3>3. Merging(f[n + 1], l, ranges, PointsUpTo(s, n + 1), b)
        BY <2>2, <3>1, <3>2, MergingFirst
      <3> QED BY <2>1, <3>3
    <2>7. CASE n # 0
      <3>1. Merging(f[n], l, ranges, PointsUpTo(s, n), s[n])
        BY <1>8, <2>7
      <3>2. n \in 1 .. N /\ n < n + 1
        BY <2>1, <2>7, <1>5
      <3>3. s[n] \in GridBoxes /\ s[n].tracks \in ranges
        BY <1>5, <3>2
      <3>4. Lex(<<s[n].tracks.low, s[n].cps.low>>, <<b.tracks.low, b.cps.low>>)
        BY <1>6, <2>1, <3>2
      <3> HIDE DEF b, Up
      <3>5. Merging(f[n + 1], l, ranges, PointsUpTo(s, n) \cup PointsIn(b), b)
        <4>1. f[n] # <<>>
          BY <3>1 DEF Merging
        <4>2. CASE Last(f[n]).tracks = b.tracks /\ b.cps.low <= Last(f[n]).cps.high
          <5>1. f[n + 1] = Append(Front(f[n]), GridBox(b.layer, b.tracks, UnionWith(Last(f[n]).cps, b.cps)))
            BY <2>4, <4>1, <4>2
          <5>2. Merging(Append(Front(f[n]), GridBox(b.layer, b.tracks, UnionWith(Last(f[n]).cps, b.cps))),
                        l, ranges, PointsUpTo(s, n) \cup PointsIn(b), b)
            BY <2>2, <3>1, <3>3, <3>4, <4>2, MergingExtends
          <5> QED BY <5>1, <5>2
        <4>3. CASE ~(Last(f[n]).tracks = b.tracks /\ b.cps.low <= Last(f[n]).cps.high)
          <5>1. f[n + 1] = Append(f[n], b)
            BY <2>4, <4>1, <4>3
          <5>2. Merging(Append(f[n], b), l, ranges, PointsUpTo(s, n) \cup PointsIn(b), b)
            BY <2>2, <3>1, <3>3, <3>4, <4>3, MergingAdds
          <5> QED BY <5>1, <5>2
        <4> QED BY <4>2, <4>3
      <3> QED BY <2>1, <2>5, <3>5 DEF Up, b
    <2> QED BY <2>6, <2>7
  <1> HIDE DEF G
  <1>9. N \in G
    <2>1. \A n \in 0 .. N : n \in G
      BY <1>5, <1>7, <1>8, AllUpTo
    <2> QED BY <1>5, <2>1
  <1>10. CASE N = 0
    <2>1. M = <<>> /\ boxes = {}
      BY <1>4, <1>5, <1>10 DEF N
    <2> QED BY <2>1 DEF M
  <1>11. CASE N # 0
    <2>1. Merging(M, l, ranges, PointsUpTo(s, N), s[N])
      BY <1>4, <1>9, <1>11 DEF G, N
    <2>2. \A p : p \in PointsUpTo(s, N) <=> \E b \in boxes : p \in PointsIn(b)
      BY <1>5 DEF PointsUpTo
    <2>3. \A p : (\E k \in DOMAIN M : p \in PointsIn(M[k])) <=> \E b \in boxes : p \in PointsIn(b)
      BY <2>1, <2>2 DEF Merging
    <2> QED BY <2>1, <2>3 DEF Merging, M
  <1> QED BY <1>10, <1>11

-----------------------------------------------------------------------------
(* Merging along the cross points                                          *)

\* boxes of a layer, none of them twice, on ranges of tracks that are the same or apart
Sorted(S, l, ranges) ==
  S \subseteq GridBoxes /\ IsFiniteSet(S) /\ \A b \in S : b.layer = l /\ b.tracks \in ranges

\* grid boxes are the same if their layer, tracks and cross points are
LEMMA SameGridBox ==
  ASSUME NEW x \in GridBoxes, NEW y \in GridBoxes, x # y, x.layer = y.layer, x.cps = y.cps
  PROVE  x.tracks # y.tracks
  <1>1. /\ x = [layer |-> x.layer, tracks |-> x.tracks, cps |-> x.cps]
        /\ y = [layer |-> y.layer, tracks |-> y.tracks, cps |-> y.cps]
    BY DEF GridBoxes
  <1> QED BY <1>1

\* Merging boxes with the same cross points merges nothing if their tracks are
\* the same or apart: it only brings them into another order.
LEMMA MergeAlongCps ==
  ASSUME NEW l, NEW S, NEW ranges, Apart(ranges), Sorted(S, l, ranges)
  PROVE  LET m == MergeRects(S, "cps", "tracks")
         IN  /\ m \in Seq(S)
             /\ \A e \in S : \E i \in DOMAIN m : m[i] = e
             /\ \A i, j \in DOMAIN m : i < j => m[i] # m[j]
  <1> DEFINE rank == [b \in S |-> <<b["cps"].low, b["tracks"].low>>]
             M == MergeRects(S, "cps", "tracks")
  <1>0. S \in SUBSET GridBoxes /\ IsFiniteSet(S) /\ \A b \in S : b.layer = l /\ b.tracks \in ranges
    BY DEF Sorted
  <1>1. \A b \in GridBoxes : b["cps"].low \in Int /\ b["tracks"].low \in Int
    BY DEF GridBoxes, Interval
  <1>2. \A m \in Seq(GridBoxes), b \in GridBoxes : WithBox(m, b, "cps", "tracks") \in Seq(GridBoxes)
    BY WithBoxType
  <1> HIDE DEF M
  <1>3. MergesInOrder(GridBoxes, S, "cps", "tracks")
    <2> HIDE DEF GridBoxes
    <2> QED BY <1>0, <1>1, <1>2, MergeRectsSteps
  <1>4. PICK s \in Seq(GridBoxes) : \E f \in [0 .. Len(s) -> Seq(GridBoxes)] :
           /\ InOrderOf(s, S, rank)
           /\ M = f[Len(s)]
           /\ f[0] = <<>>
           /\ \A i \in 1 .. Len(s) : f[i] = WithBox(f[i - 1], s[i], "cps", "tracks")
    BY <1>3 DEF M, MergesInOrder
  <1>5. PICK f \in [0 .. Len(s) -> Seq(GridBoxes)] :
           /\ InOrderOf(s, S, rank)
           /\ M = f[Len(s)]
           /\ f[0] = <<>>
           /\ \A i \in 1 .. Len(s) : f[i] = WithBox(f[i - 1], s[i], "cps", "tracks")
    BY <1>4
  <1> DEFINE N == Len(s)
  <1>6. /\ s \in Seq(S) /\ N \in Nat /\ DOMAIN s = 1 .. N
        /\ \A i \in 1 .. N : s[i] \in S /\ s[i] \in GridBoxes
        /\ \A e \in S : \E i \in 1 .. N : s[i] = e
        /\ \A i, j \in 1 .. N : i < j => Lex(rank[s[i]], rank[s[j]]) /\ s[i] # s[j]
    <2>1. /\ s \in Seq(S) /\ \A e \in S : \E i \in DOMAIN s : s[i] = e
          /\ \A i, j \in DOMAIN s : i < j => Lex(rank[s[i]], rank[s[j]]) /\ s[i] # s[j]
      BY <1>5 DEF InOrderOf
    <2>2. N \in Nat /\ DOMAIN s = 1 .. N
      BY LenProperties
    <2>3. \A i \in 1 .. N : s[i] \in S
      BY <2>1, <2>2
    <2> HIDE DEF rank, N
    <2> QED BY <1>0, <2>1, <2>2, <2>3
  <1>7. \A i, j \in 1 .. N : i < j => Lex(<<s[i].cps.low, s[i].tracks.low>>, <<s[j].cps.low, s[j].tracks.low>>)
    <2>1. \A b \in S : rank[b] = <<b.cps.low, b.tracks.low>>
      OBVIOUS
    <2> HIDE DEF rank
    <2> QED BY <1>6, <2>1
  <1> HIDE DEF rank, N
  <1>8. ASSUME NEW i \in 1 .. N, NEW j \in 1 .. N, i < j, s[i].cps = s[j].cps,
               s[j].tracks.low <= s[i].tracks.high
        PROVE  FALSE
    <2>1. /\ s[i] \in GridBoxes /\ s[j] \in GridBoxes
          /\ s[i].layer = l /\ s[j].layer = l
          /\ s[i].tracks \in ranges /\ s[j].tracks \in ranges
          /\ s[i] # s[j]
      BY <1>0, <1>6, <1>8
    <2>2. s[i].tracks # s[j].tracks
      BY <1>8, <2>1, SameGridBox
    <2>3. /\ s[i].tracks.low \in Int /\ s[i].tracks.high \in Int
          /\ s[j].tracks.low \in Int /\ s[j].tracks.high \in Int /\ s[i].cps.low \in Int
      BY <2>1 DEF GridBoxes, Interval
    <2>4. s[i].tracks.low <= s[j].tracks.low
      BY <1>7, <1>8, <2>3 DEF Lex
    <2>5. s[i].tracks.high < s[j].tracks.low \/ s[j].tracks.high < s[i].tracks.low
      BY <2>1, <2>2 DEF Apart
    <2>6. s[j].tracks.low <= s[j].tracks.high
      BY <2>1 DEF Apart, IsValid
    <2> QED BY <1>8, <2>3, <2>4, <2>5, <2>6
  <1> DEFINE Same(n) == Len(f[n]) = n /\ \A k \in 1 .. n : f[n][k] = s[k]
             G == {n \in Nat : Same(n)}
  <1>9. 0 \in G
    BY <1>5
  <1>10. ASSUME NEW n \in 0 .. N - 1, n \in G PROVE n + 1 \in G
    <2>1. n \in Nat /\ n + 1 \in 1 .. N /\ n + 1 \in Nat /\ (n + 1) - 1 = n /\ n \in 0 .. N
      BY <1>6
    <2> DEFINE b == s[n + 1]
               m == f[n]
    <2>2. b \in GridBoxes
      BY <1>6, <2>1
    <2>3. m \in Seq(GridBoxes) /\ Len(m) = n /\ \A k \in 1 .. n : m[k] = s[k]
      BY <1>10, <2>1 DEF N
    <2>4. f[n + 1] = WithBox(m, b, "cps", "tracks")
      BY <1>5, <2>1 DEF N
    <2> HIDE DEF GridBoxes
    <2>5. f[n + 1] = IF m # <<>> /\ Last(m).cps = b.cps /\ b.tracks.low <= Last(m).tracks.high
                     THEN Append(Front(m), GridBox(b.layer, UnionWith(Last(m).tracks, b.tracks), b.cps))
                     ELSE Append(m, b)
      BY <2>2, <2>4, WithBoxOnCps
    <2>6. m # <<>> => ~(Last(m).cps = b.cps /\ b.tracks.low <= Last(m).tracks.high)
      <3>1. SUFFICES ASSUME m # <<>> PROVE ~(Last(m).cps = b.cps /\ b.tracks.low <= Last(m).tracks.high)
        OBVIOUS
      <3> HIDE DEF m
      <3>2. n # 0 /\ Last(m) = m[n]
        BY <2>3, <3>1, LastFacts
      <3>3. n \in 1 .. n /\ n \in 1 .. N /\ n < n + 1
        BY <1>6, <2>1, <3>2
      <3>4. Last(m) = s[n]
        BY <2>3, <3>2, <3>3
      <3> QED BY <1>8, <2>1, <3>3, <3>4
    <2>7. f[n + 1] = Append(m, b)
      BY <2>5, <2>6
    <2> HIDE DEF m
    <2>8. Len(Append(m, b)) = n + 1 /\ Append(m, b)[n + 1] = b /\ \A k \in 1 .. n : Append(m, b)[k] = m[k]
      BY <2>2, <2>3, AppendProperties
    <2>9. \A k \in 1 .. n + 1 : k = n + 1 \/ k \in 1 .. n
      BY <2>1
    <2>10. \A k \in 1 .. n + 1 : f[n + 1][k] = s[k]
      BY <2>3, <2>7, <2>8, <2>9
    <2> QED BY <2>1, <2>7, <2>8, <2>10
  <1> HIDE DEF G
  <1>11. N \in G
    <2>1. \A n \in 0 .. N : n \in G
      BY <1>6, <1>9, <1>10, AllUpTo
    <2> QED BY <1>6, <2>1
  <1>12. M \in Seq(GridBoxes) /\ Len(M) = N /\ \A k \in 1 .. N : M[k] = s[k]
    BY <1>5, <1>6, <1>11 DEF G, N
  <1>13. DOMAIN M = 1 .. N
    BY <1>12, LenProperties
  <1>14. M = s
    BY <1>6, <1>12, SeqEqual DEF N
  <1>15. /\ M \in Seq(S)
         /\ \A e \in S : \E i \in DOMAIN M : M[i] = e
         /\ \A i, j \in DOMAIN M : i < j => M[i] # M[j]
    BY <1>6, <1>14
  <1> QED BY <1>15 DEF M

-----------------------------------------------------------------------------
(* Both merges, one after the other                                        *)

\* two values are a finite set
LEMMA PairFinite ==
  ASSUME NEW x, NEW y
  PROVE  IsFiniteSet({x, y})
  <1>1. {x, y} = {x} \cup {y}
    OBVIOUS
  <1>2. IsFiniteSet({x} \cup {y})
    BY FS_Singleton, FS_AddElement
  <1> QED BY <1>1, <1>2

\* an image of a finite set is finite
LEMMA ImageFinite ==
  ASSUME NEW S, IsFiniteSet(S), NEW f
  PROVE  IsFiniteSet({f[x] : x \in S})
  <1> DEFINE T == {f[x] : x \in S}
             g == [x \in S |-> f[x]]
  <1>1. g \in Surjection(S, T)
    BY DEF Surjection
  <1> HIDE DEF g, T
  <1>2. IsFiniteSet(T)
    BY <1>1, FS_Surjection
  <1> QED BY <1>2 DEF T

\* the elements of a sequence are finitely many
LEMMA ToSetFinite ==
  ASSUME NEW S, NEW s \in Seq(S)
  PROVE  ToSet(s) \in SUBSET S /\ IsFiniteSet(ToSet(s))
  <1>1. DOMAIN s = 1 .. Len(s) /\ Len(s) \in Nat
    OBVIOUS
  <1>2. IsFiniteSet(DOMAIN s)
    BY <1>1, FS_Interval
  <1>3. IsFiniteSet({s[i] : i \in DOMAIN s})
    BY <1>2, ImageFinite
  <1> QED BY <1>3 DEF ToSet

\* boxes in order have no grid point in common
LEMMA BeforeApart ==
  ASSUME NEW x \in GridBoxes, NEW y \in GridBoxes, NEW ranges, Apart(ranges),
         x.tracks \in ranges, y.tracks \in ranges, Before(x, y)
  PROVE  PointsIn(x) \cap PointsIn(y) = {}
  <1>1. /\ x.tracks.low \in Int /\ x.tracks.high \in Int /\ x.cps.low \in Int /\ x.cps.high \in Int
        /\ y.tracks.low \in Int /\ y.tracks.high \in Int /\ y.cps.low \in Int /\ y.cps.high \in Int
    BY DEF GridBoxes, Interval
  <1>2. CASE x.tracks.low < y.tracks.low
    <2>1. x.tracks.high < y.tracks.low \/ y.tracks.high < x.tracks.low
      BY <1>1, <1>2 DEF Apart
    <2>2. In(x.tracks) \cap In(y.tracks) = {}
      BY <1>1, <2>1 DEF In
    <2> QED BY <2>2 DEF PointsIn
  <1>3. CASE x.tracks = y.tracks /\ (x.cps.high < y.cps.low \/ ~IsValid(x.cps))
    <2>1. In(x.cps) \cap In(y.cps) = {}
      BY <1>1, <1>3 DEF In, IsValid
    <2> QED BY <2>1 DEF PointsIn
  <1> QED BY <1>2, <1>3 DEF Before

\* a sequence of boxes of a layer that covers the points in others, each once
CoversOnce(r, l, boxes) ==
  /\ r \in Seq(GridBoxes)
  /\ \A i \in DOMAIN r : r[i].layer = l
  /\ \A p : (\E i \in DOMAIN r : p \in PointsIn(r[i])) <=> \E b \in boxes : p \in PointsIn(b)
  /\ \A i, j \in DOMAIN r : i # j => PointsIn(r[i]) \cap PointsIn(r[j]) = {}

\* merged along the cross points and then along the tracks, boxes keep their grid points
LEMMA MergedTwice ==
  ASSUME NEW l, NEW boxes, NEW ranges, Apart(ranges), Sorted(boxes, l, ranges)
  PROVE  CoversOnce(MergeRects(ToSet(MergeRects(boxes, "tracks", "cps")), "cps", "tracks"), l, boxes)
  <1> DEFINE m == MergeRects(boxes, "tracks", "cps")
             S == ToSet(m)
             r == MergeRects(S, "cps", "tracks")
  <1>1. /\ m \in Seq(GridBoxes)
        /\ \A k \in DOMAIN m : m[k].layer = l /\ m[k].tracks \in ranges
        /\ \A p : (\E k \in DOMAIN m : p \in PointsIn(m[k])) <=> \E b \in boxes : p \in PointsIn(b)
        /\ \A j, k \in DOMAIN m : j < k => Before(m[j], m[k])
    <2>1. boxes \in SUBSET GridBoxes /\ IsFiniteSet(boxes) /\ \A b \in boxes : b.layer = l /\ b.tracks \in ranges
      BY DEF Sorted
    <2> QED BY <2>1, MergeAlongTracks
  <1> HIDE DEF m
  <1>2. S \in SUBSET GridBoxes /\ IsFiniteSet(S)
    <2> HIDE DEF GridBoxes
    <2> QED BY <1>1, ToSetFinite
  <1>3. \A e : e \in S <=> \E k \in DOMAIN m : m[k] = e
    BY DEF ToSet
  <1> HIDE DEF S
  <1>4. Sorted(S, l, ranges)
    BY <1>1, <1>2, <1>3 DEF Sorted
  <1>5. /\ r \in Seq(S)
        /\ \A e \in S : \E i \in DOMAIN r : r[i] = e
        /\ \A i, j \in DOMAIN r : i < j => r[i] # r[j]
    BY <1>4, MergeAlongCps
  <1> HIDE DEF r
  <1>6. r \in Seq(GridBoxes) /\ DOMAIN r = 1 .. Len(r) /\ Len(r) \in Nat
    BY <1>2, <1>5
  <1>7. \A i \in DOMAIN r : r[i] \in S
    BY <1>5, <1>6
  <1>8. \A i \in DOMAIN r : r[i].layer = l
    BY <1>1, <1>3, <1>7
  <1>9. \A p : (\E i \in DOMAIN r : p \in PointsIn(r[i])) <=> \E b \in boxes : p \in PointsIn(b)
    <2>1. \A p : (\E i \in DOMAIN r : p \in PointsIn(r[i])) <=> \E e \in S : p \in PointsIn(e)
      BY <1>5, <1>7
    <2>2. \A p : (\E k \in DOMAIN m : p \in PointsIn(m[k])) <=> \E e \in S : p \in PointsIn(e)
      BY <1>3
    <2> QED BY <1>1, <2>1, <2>2
  <1>10. ASSUME NEW i \in DOMAIN r, NEW j \in DOMAIN r, i # j
         PROVE  PointsIn(r[i]) \cap PointsIn(r[j]) = {}
    <2>1. r[i] # r[j]
      BY <1>5, <1>6, <1>10
    <2>2. PICK k \in DOMAIN m : m[k] = r[i]
      BY <1>3, <1>7
    <2>3. PICK n \in DOMAIN m : m[n] = r[j]
      BY <1>3, <1>7
    <2>4. k < n \/ n < k
      <3>1. k \in Int /\ n \in Int
        BY <1>1
      <3> QED BY <2>1, <2>2, <2>3, <3>1
    <2>5. Before(r[i], r[j]) \/ Before(r[j], r[i])
      BY <1>1, <2>2, <2>3, <2>4
    <2>6. /\ r[i] \in GridBoxes /\ r[j] \in GridBoxes
          /\ r[i].tracks \in ranges /\ r[j].tracks \in ranges
      BY <1>1, <1>2, <1>7, <2>2, <2>3
    <2>7. PointsIn(r[i]) \cap PointsIn(r[j]) = {} \/ PointsIn(r[j]) \cap PointsIn(r[i]) = {}
      BY <2>5, <2>6, BeforeApart
    <2> QED BY <2>7
  <1> QED BY <1>6, <1>8, <1>9, <1>10 DEF CoversOnce, r, S, m

-----------------------------------------------------------------------------
(* Slicing between the ends of boxes                                       *)

\* two of the locations with none between them
NextTo(locs, v, w) == v + 1 < w /\ locs \cap (v + 1 .. w - 1) = {}

\* the ranges of tracks that ends of boxes make: the ends, and what is between
SliceRanges(locs) ==
  {i \in Interval : \/ \E t \in locs : i = Intvl(t, t)
                    \/ \E v, w \in locs : NextTo(locs, v, w) /\ i = Intvl(v + 1, w - 1)}

\* the ranges of slices do not overlap
LEMMA SliceRangesApart ==
  ASSUME NEW locs \in SUBSET Int
  PROVE  Apart(SliceRanges(locs))
  <1> DEFINE R == SliceRanges(locs)
  <1>1. ASSUME NEW i \in R
        PROVE  /\ i.low \in Int /\ i.high \in Int /\ i.low <= i.high
               /\ \/ i.low = i.high /\ i.low \in locs
                  \/ /\ i.low - 1 \in locs /\ i.high + 1 \in locs
                     /\ \A t \in locs : ~(i.low <= t /\ t <= i.high)
    <2>1. CASE \E t \in locs : i = Intvl(t, t)
      BY <2>1 DEF Intvl
    <2>2. CASE \E v, w \in locs : NextTo(locs, v, w) /\ i = Intvl(v + 1, w - 1)
      <3>1. PICK v \in locs, w \in locs : NextTo(locs, v, w) /\ i = Intvl(v + 1, w - 1)
        BY <2>2
      <3>2. i.low = v + 1 /\ i.high = w - 1 /\ v \in Int /\ w \in Int
        BY <3>1 DEF Intvl
      <3>3. v + 1 < w /\ \A t \in locs : t \notin v + 1 .. w - 1
        BY <3>1 DEF NextTo
      <3> QED BY <3>2, <3>3
    <2> QED BY <2>1, <2>2 DEF SliceRanges
  <1>2. ASSUME NEW i \in R, NEW j \in R
        PROVE  i = j \/ i.high < j.low \/ j.high < i.low
    <2>1. SUFFICES ASSUME ~(i.high < j.low), ~(j.high < i.low) PROVE i = j
      OBVIOUS
    <2>2. i \in Interval /\ j \in Interval
      BY DEF SliceRanges
    <2> HIDE DEF R
    <2>3. i.low = j.low /\ i.high = j.high
      <3>1. /\ i.low \in Int /\ i.high \in Int /\ i.low <= i.high
            /\ \/ i.low = i.high /\ i.low \in locs
               \/ /\ i.low - 1 \in locs /\ i.high + 1 \in locs
                  /\ \A t \in locs : ~(i.low <= t /\ t <= i.high)
        BY <1>1
      <3>2. /\ j.low \in Int /\ j.high \in Int /\ j.low <= j.high
            /\ \/ j.low = j.high /\ j.low \in locs
               \/ /\ j.low - 1 \in locs /\ j.high + 1 \in locs
                  /\ \A t \in locs : ~(j.low <= t /\ t <= j.high)
        BY <1>1
      <3> DEFINE a == i.low
                 b == i.high
                 c == j.low
                 d == j.high
      <3>3. ~(b < c) /\ ~(d < a)
        BY <2>1
      <3> HIDE DEF a, b, c, d
      <3>4. a \in Int /\ b \in Int /\ c \in Int /\ d \in Int /\ a <= b /\ c <= d
        BY <3>1, <3>2 DEF a, b, c, d
      <3>5. \/ a = b /\ a \in locs
            \/ a - 1 \in locs /\ b + 1 \in locs /\ \A t \in locs : ~(a <= t /\ t <= b)
        BY <3>1 DEF a, b
      <3>6. \/ c = d /\ c \in locs
            \/ c - 1 \in locs /\ d + 1 \in locs /\ \A t \in locs : ~(c <= t /\ t <= d)
        BY <3>2 DEF c, d
      <3>7. a = c /\ b = d
        <4>1. CASE a = b /\ a \in locs /\ c = d
          BY <3>3, <3>4, <4>1
        <4>2. CASE a = b /\ a \in locs /\ \A t \in locs : ~(c <= t /\ t <= d)
          BY <3>3, <3>4, <4>2
        <4>3. CASE (\A t \in locs : ~(a <= t /\ t <= b)) /\ c = d /\ c \in locs
          BY <3>3, <3>4, <4>3
        <4>4. CASE /\ a - 1 \in locs /\ b + 1 \in locs /\ \A t \in locs : ~(a <= t /\ t <= b)
                   /\ c - 1 \in locs /\ d + 1 \in locs /\ \A t \in locs : ~(c <= t /\ t <= d)
          <5>1. ~(a <= c - 1 /\ c - 1 <= b) /\ ~(a <= d + 1 /\ d + 1 <= b)
            BY <4>4
          <5>2. ~(c <= a - 1 /\ a - 1 <= d) /\ ~(c <= b + 1 /\ b + 1 <= d)
            BY <4>4
          <5> QED BY <3>3, <3>4, <5>1, <5>2
        <4> QED BY <3>5, <3>6, <4>1, <4>2, <4>3, <4>4
      <3> QED BY <3>7 DEF a, b, c, d
    <2> QED BY <2>2, <2>3 DEF Interval
  <1>3. R \subseteq Interval
    BY DEF SliceRanges
  <1>4. \A i \in R : IsValid(i)
    BY <1>1 DEF IsValid
  <1> HIDE DEF R
  <1> QED BY <1>2, <1>3, <1>4 DEF Apart, R

\* the slices of a box, one by one
SliceOf(b, locs, s) ==
  \/ \E t \in locs \cap In(b.tracks) : s = [b EXCEPT !.tracks = Intvl(t, t)]
  \/ \E v, w \in locs \cap In(b.tracks) :
       NextTo(locs, v, w) /\ s = [b EXCEPT !.tracks = Intvl(v + 1, w - 1)]

\* the slices of a box: one at each end in it, one between consecutive ends
LEMMA SlicesOneByOne ==
  ASSUME NEW b, NEW locs
  PROVE  \A s : s \in SlicesOf(b, locs) <=> SliceOf(b, locs, s)
  <1> DEFINE L == locs \cap In(b.tracks)
  <1>1. ASSUME NEW s \in SlicesOf(b, locs) PROVE SliceOf(b, locs, s)
    <2>1. CASE \E t \in L : s = [b EXCEPT !.tracks = Intvl(t, t)]
      BY <2>1 DEF SliceOf
    <2>2. CASE \E w \in {v \in L \X L : v[1] + 1 < v[2] /\ locs \cap (v[1] + 1 .. v[2] - 1) = {}} :
                 s = [b EXCEPT !.tracks = Intvl(w[1] + 1, w[2] - 1)]
      <3>1. PICK w \in L \X L : /\ w[1] + 1 < w[2] /\ locs \cap (w[1] + 1 .. w[2] - 1) = {}
                                /\ s = [b EXCEPT !.tracks = Intvl(w[1] + 1, w[2] - 1)]
        BY <2>2
      <3>2. w[1] \in L /\ w[2] \in L
        OBVIOUS
      <3> QED BY <3>1, <3>2 DEF SliceOf, NextTo
    <2> QED BY <2>1, <2>2 DEF SlicesOf
  <1>2. ASSUME NEW s, SliceOf(b, locs, s) PROVE s \in SlicesOf(b, locs)
    <2>1. CASE \E t \in L : s = [b EXCEPT !.tracks = Intvl(t, t)]
      BY <2>1 DEF SlicesOf
    <2>2. CASE \E v, w \in L : NextTo(locs, v, w) /\ s = [b EXCEPT !.tracks = Intvl(v + 1, w - 1)]
      <3>1. PICK v \in L, w \in L : NextTo(locs, v, w) /\ s = [b EXCEPT !.tracks = Intvl(v + 1, w - 1)]
        BY <2>2
      <3> DEFINE u == <<v, w>>
      <3>2. u \in L \X L /\ u[1] = v /\ u[2] = w
        OBVIOUS
      <3> HIDE DEF u
      <3>3. u[1] + 1 < u[2] /\ locs \cap (u[1] + 1 .. u[2] - 1) = {}
            /\ s = [b EXCEPT !.tracks = Intvl(u[1] + 1, u[2] - 1)]
        BY <3>1, <3>2 DEF NextTo
      <3> QED BY <3>2, <3>3 DEF SlicesOf
    <2> QED BY <1>2, <2>1, <2>2 DEF SliceOf
  <1> QED BY <1>1, <1>2

-----------------------------------------------------------------------------
(* The slices of a box are the box                                         *)

\* between the ends of a range that are locations, every number is a location
\* or lies between consecutive ones
LEMMA NumbersBetween ==
  ASSUME NEW locs \in SUBSET Int, NEW a \in locs, NEW b \in locs, NEW t \in Int, a <= t, t <= b,
         t \notin locs
  PROVE  \E v, w \in locs : a <= v /\ v < t /\ t < w /\ w <= b /\ NextTo(locs, v, w)
  <1> DEFINE below == {n \in Nat : t - n \in locs}
             above == {n \in Nat : t + n \in locs}
  <1>1. t - a \in below /\ b - t \in above
    OBVIOUS
  <1>2. PICK m \in below : \A n \in below : m <= n
    <2>1. below \subseteq Nat /\ below # {}
      BY <1>1
    <2> HIDE DEF below
    <2> QED BY <2>1, LeastNatural
  <1>3. PICK k \in above : \A n \in above : k <= n
    <2>1. above \subseteq Nat /\ above # {}
      BY <1>1
    <2> HIDE DEF above
    <2> QED BY <2>1, LeastNatural
  <1> DEFINE v == t - m
             w == t + k
  <1>4. v \in locs /\ w \in locs /\ m \in Nat /\ k \in Nat
    OBVIOUS
  <1>5. m # 0 /\ k # 0
    BY <1>4
  <1>6. m <= t - a /\ k <= b - t
    BY <1>1, <1>2, <1>3
  <1>7. ASSUME NEW x \in locs, v < x, x < w PROVE FALSE
    <2>1. CASE x < t
      <3>1. t - x \in below /\ t - x < m
        BY <1>4, <1>7, <2>1
      <3> QED BY <1>2, <1>4, <3>1
    <2>2. CASE t < x
      <3>1. x - t \in above /\ x - t < k
        BY <1>4, <1>7, <2>2
      <3> QED BY <1>3, <1>4, <3>1
    <2> QED BY <2>1, <2>2
  <1>8. NextTo(locs, v, w)
    <2>1. v + 1 < w
      BY <1>4, <1>5
    <2>2. \A x \in locs : x \notin v + 1 .. w - 1
      BY <1>4, <1>7
    <2> QED BY <2>1, <2>2 DEF NextTo
  <1>9. a <= v /\ v < t /\ t < w /\ w <= b
    BY <1>4, <1>5, <1>6
  <1> HIDE DEF v, w
  <1> QED BY <1>4, <1>8, <1>9

\* the slices of a box are the box
LEMMA SlicesCover ==
  ASSUME NEW b \in GridBoxes, IsValid(b.tracks), NEW locs \in SUBSET Int,
         b.tracks.low \in locs, b.tracks.high \in locs
  PROVE  /\ \A s \in SlicesOf(b, locs) :
              s \in GridBoxes /\ s.layer = b.layer /\ s.tracks \in SliceRanges(locs)
         /\ \A p : p \in PointsIn(b) <=> \E s \in SlicesOf(b, locs) : p \in PointsIn(s)
  <1>1. /\ b.tracks.low \in Int /\ b.tracks.high \in Int
        /\ b = [layer |-> b.layer, tracks |-> b.tracks, cps |-> b.cps]
    BY DEF GridBoxes, Interval
  <1>2. \A i : [b EXCEPT !.tracks = i] = GridBox(b.layer, i, b.cps)
    BY <1>1 DEF GridBox
  <1>3. \A i, j \in Int : Intvl(i, j) \in Interval /\ \A t : t \in In(Intvl(i, j)) <=> t \in i .. j
    BY DEF Intvl, Interval, In
  <1>4. \A t : t \in In(b.tracks) <=> t \in Int /\ b.tracks.low <= t /\ t <= b.tracks.high
    BY <1>1 DEF In
  <1>5. \A i \in Interval : GridBox(b.layer, i, b.cps) \in GridBoxes
    BY DEF GridBoxes, GridBox
  <1>6. ASSUME NEW s \in SlicesOf(b, locs)
        PROVE  /\ s.tracks \in SliceRanges(locs) /\ s = GridBox(b.layer, s.tracks, b.cps)
               /\ In(s.tracks) \subseteq In(b.tracks)
    <2>1. SliceOf(b, locs, s)
      BY SlicesOneByOne
    <2>2. CASE \E t \in locs \cap In(b.tracks) : s = [b EXCEPT !.tracks = Intvl(t, t)]
      <3>1. PICK t \in locs \cap In(b.tracks) : s = [b EXCEPT !.tracks = Intvl(t, t)]
        BY <2>2
      <3>2. s = GridBox(b.layer, Intvl(t, t), b.cps) /\ t \in Int
        BY <1>2, <3>1
      <3>3. s.tracks = Intvl(t, t)
        BY <3>2 DEF GridBox
      <3>4. Intvl(t, t) \in SliceRanges(locs)
        BY <1>3, <3>2 DEF SliceRanges
      <3>5. In(Intvl(t, t)) \subseteq In(b.tracks)
        BY <1>3, <3>2
      <3> QED BY <3>2, <3>3, <3>4, <3>5
    <2>3. CASE \E v, w \in locs \cap In(b.tracks) :
                 NextTo(locs, v, w) /\ s = [b EXCEPT !.tracks = Intvl(v + 1, w - 1)]
      <3>1. PICK v \in locs \cap In(b.tracks), w \in locs \cap In(b.tracks) :
                 NextTo(locs, v, w) /\ s = [b EXCEPT !.tracks = Intvl(v + 1, w - 1)]
        BY <2>3
      <3>2. v \in Int /\ w \in Int /\ v + 1 \in Int /\ w - 1 \in Int
        BY <3>1
      <3> DEFINE i == Intvl(v + 1, w - 1)
      <3>3. i \in Interval /\ \A t : t \in In(i) <=> t \in v + 1 .. w - 1
        BY <1>3, <3>2
      <3>4. i \in SliceRanges(locs)
        BY <3>1, <3>3 DEF SliceRanges
      <3>5. In(i) \subseteq In(b.tracks)
        <4>1. b.tracks.low <= v /\ w <= b.tracks.high
          BY <1>4
        <4>2. \A t \in v + 1 .. w - 1 : b.tracks.low <= t /\ t <= b.tracks.high /\ t \in Int
          BY <1>1, <3>2, <4>1
        <4> HIDE DEF i
        <4> QED BY <1>4, <3>3, <4>2
      <3> HIDE DEF i
      <3>6. s = GridBox(b.layer, i, b.cps)
        BY <1>2, <3>1 DEF i
      <3>7. s.tracks = i
        BY <3>6 DEF GridBox
      <3> QED BY <3>4, <3>5, <3>6, <3>7
    <2> QED BY <2>1, <2>2, <2>3 DEF SliceOf
  <1>7. \A s \in SlicesOf(b, locs) :
              s \in GridBoxes /\ s.layer = b.layer /\ s.tracks \in SliceRanges(locs)
    <2>1. \A i \in SliceRanges(locs) : i \in Interval
      BY DEF SliceRanges
    <2>2. \A i : GridBox(b.layer, i, b.cps).layer = b.layer
      BY DEF GridBox
    <2> QED BY <1>5, <1>6, <2>1, <2>2
  <1>8. \A i, p : p \in PointsIn(GridBox(b.layer, i, b.cps)) <=>
                    \E t \in In(i), c \in In(b.cps) : p = [layer |-> b.layer, track |-> t, cp |-> c]
    BY DEF PointsIn, GridBox
  <1>9. \A p : p \in PointsIn(b) <=>
                    \E t \in In(b.tracks), c \in In(b.cps) : p = [layer |-> b.layer, track |-> t, cp |-> c]
    BY DEF PointsIn
  <1>10. ASSUME NEW p, NEW s \in SlicesOf(b, locs), p \in PointsIn(s) PROVE p \in PointsIn(b)
    <2>1. p \in PointsIn(GridBox(b.layer, s.tracks, b.cps)) /\ In(s.tracks) \subseteq In(b.tracks)
      BY <1>6, <1>10
    <2>2. PICK t \in In(s.tracks), c \in In(b.cps) : p = [layer |-> b.layer, track |-> t, cp |-> c]
      BY <1>8, <2>1
    <2> QED BY <1>9, <2>1, <2>2
  <1>11. ASSUME NEW p \in PointsIn(b) PROVE \E s \in SlicesOf(b, locs) : p \in PointsIn(s)
    <2>1. PICK t \in In(b.tracks), c \in In(b.cps) : p = [layer |-> b.layer, track |-> t, cp |-> c]
      BY <1>9
    <2>2. t \in Int /\ b.tracks.low <= t /\ t <= b.tracks.high
      BY <1>4
    <2>3. SUFFICES \E i : t \in In(i) /\ SliceOf(b, locs, GridBox(b.layer, i, b.cps))
      <3>1. PICK i : t \in In(i) /\ SliceOf(b, locs, GridBox(b.layer, i, b.cps))
        BY <2>3
      <3>2. GridBox(b.layer, i, b.cps) \in SlicesOf(b, locs)
        BY <3>1, SlicesOneByOne
      <3>3. p \in PointsIn(GridBox(b.layer, i, b.cps))
        BY <1>8, <2>1, <3>1
      <3> QED BY <3>2, <3>3
    <2>4. CASE t \in locs
      <3>1. t \in In(Intvl(t, t))
        BY <1>3, <2>2
      <3>2. SliceOf(b, locs, GridBox(b.layer, Intvl(t, t), b.cps))
        BY <1>2, <2>1, <2>4 DEF SliceOf
      <3> QED BY <3>1, <3>2
    <2>5. CASE t \notin locs
      <3>1. PICK v \in locs, w \in locs :
              b.tracks.low <= v /\ v < t /\ t < w /\ w <= b.tracks.high /\ NextTo(locs, v, w)
        BY <1>1, <2>2, <2>5, NumbersBetween
      <3>2. v \in Int /\ w \in Int
        OBVIOUS
      <3>3. v \in In(b.tracks) /\ w \in In(b.tracks)
        BY <1>1, <1>4, <2>2, <3>1, <3>2
      <3>4. t \in In(Intvl(v + 1, w - 1))
        BY <1>3, <2>2, <3>1, <3>2
      <3>5. SliceOf(b, locs, GridBox(b.layer, Intvl(v + 1, w - 1), b.cps))
        BY <1>2, <3>1, <3>3 DEF SliceOf
      <3> QED BY <3>4, <3>5
    <2> QED BY <2>4, <2>5
  <1> QED BY <1>7, <1>10, <1>11

\* a box has finitely many slices
LEMMA SlicesFinite ==
  ASSUME NEW b, NEW locs, IsFiniteSet(locs)
  PROVE  IsFiniteSet(SlicesOf(b, locs))
  <1> DEFINE one == [t \in locs |-> [b EXCEPT !.tracks = Intvl(t, t)]]
             two == [u \in locs \X locs |-> [b EXCEPT !.tracks = Intvl(u[1] + 1, u[2] - 1)]]
             A == {one[t] : t \in locs}
             B == {two[u] : u \in locs \X locs}
  <1>1. IsFiniteSet(locs \X locs)
    BY FS_Product
  <1>2. IsFiniteSet(A) /\ IsFiniteSet(B)
    <2> HIDE DEF one, two
    <2> QED BY <1>1, ImageFinite, ZenonT(30)
  <1>3. \A s \in SlicesOf(b, locs) : s \in A \/ s \in B
    <2>1. TAKE s \in SlicesOf(b, locs)
    <2>2. SliceOf(b, locs, s)
      BY SlicesOneByOne
    <2>3. CASE \E t \in locs \cap In(b.tracks) : s = [b EXCEPT !.tracks = Intvl(t, t)]
      BY <2>3
    <2>4. CASE \E v, w \in locs \cap In(b.tracks) :
                 NextTo(locs, v, w) /\ s = [b EXCEPT !.tracks = Intvl(v + 1, w - 1)]
      <3>1. PICK v \in locs, w \in locs : s = [b EXCEPT !.tracks = Intvl(v + 1, w - 1)]
        BY <2>4
      <3>2. <<v, w>> \in locs \X locs /\ two[<<v, w>>] = s
        BY <3>1
      <3> HIDE DEF two
      <3> QED BY <3>2
    <2> QED BY <2>2, <2>3, <2>4 DEF SliceOf
  <1> HIDE DEF A, B
  <1>4. SlicesOf(b, locs) \in SUBSET (A \cup B)
    BY <1>3
  <1>5. IsFiniteSet(A \cup B)
    BY <1>2, FS_Union
  <1> HIDE DEF SlicesOf
  <1> QED BY <1>4, <1>5, FS_Subset

-----------------------------------------------------------------------------
(* sliceGridPolygons is exact                                              *)

\* the ends of finitely many boxes are finitely many
LEMMA EndsFinite ==
  ASSUME NEW S, IsFiniteSet(S)
  PROVE  IsFiniteSet(UNION {{b.tracks.low, b.tracks.high} : b \in S})
  <1> DEFINE ends == [b \in S |-> {b.tracks.low, b.tracks.high}]
             E == {ends[b] : b \in S}
  <1>1. IsFiniteSet(E)
    <2> HIDE DEF ends
    <2> QED BY ImageFinite
  <1>2. \A e \in E : IsFiniteSet(e)
    <2>1. \A x, y : IsFiniteSet({x, y})
      BY PairFinite
    <2>2. \A b \in S : IsFiniteSet(ends[b])
      BY <2>1
    <2> HIDE DEF ends
    <2> QED BY <2>2
  <1>3. IsFiniteSet(UNION E)
    <2> HIDE DEF E
    <2> QED BY <1>1, <1>2, FS_UNION
  <1>4. E = {{b.tracks.low, b.tracks.high} : b \in S}
    OBVIOUS
  <1> HIDE DEF E
  <1> QED BY <1>3, <1>4

\* so are the slices at finitely many ends of finitely many boxes
LEMMA AllSlicesFinite ==
  ASSUME NEW S, IsFiniteSet(S), NEW locs, IsFiniteSet(locs)
  PROVE  IsFiniteSet(UNION {SlicesOf(b, locs) : b \in S})
  <1> DEFINE slices == [b \in S |-> SlicesOf(b, locs)]
             E == {slices[b] : b \in S}
  <1>1. IsFiniteSet(E)
    <2> HIDE DEF slices
    <2> QED BY ImageFinite
  <1>2. \A e \in E : IsFiniteSet(e)
    <2>1. \A b \in S : IsFiniteSet(slices[b])
      BY SlicesFinite
    <2> HIDE DEF slices
    <2> QED BY <2>1
  <1>3. IsFiniteSet(UNION E)
    <2> HIDE DEF E
    <2> QED BY <1>1, <1>2, FS_UNION
  <1>4. E = {SlicesOf(b, locs) : b \in S}
    OBVIOUS
  <1> HIDE DEF E
  <1> QED BY <1>3, <1>4

\* sliceGridPolygons keeps the grid points of boxes on a layer, each in one box
LEMMA SliceGridExact ==
  ASSUME NEW l, NEW boxes \in Seq(GridBoxes),
         \A i \in DOMAIN boxes : boxes[i].layer = l /\ IsValid(boxes[i].tracks)
  PROVE  CoversOnce(sliceGridPolygons(boxes), l, ToSet(boxes))
  <1> DEFINE S == ToSet(boxes)
             locs == UNION {{b.tracks.low, b.tracks.high} : b \in S}
             slices == UNION {SlicesOf(b, locs) : b \in S}
  <1>1. S \in SUBSET GridBoxes /\ IsFiniteSet(S)
    <2> HIDE DEF GridBoxes
    <2> QED BY ToSetFinite
  <1>2. \A e : e \in S <=> \E k \in DOMAIN boxes : boxes[k] = e
    BY DEF ToSet
  <1>3. DOMAIN boxes = 1 .. Len(boxes) /\ Len(boxes) \in Nat
    OBVIOUS
  <1>4. CASE Len(boxes) <= 1
    <2>1. sliceGridPolygons(boxes) = boxes
      BY <1>4 DEF sliceGridPolygons
    <2>2. \A i, j \in DOMAIN boxes : i = j
      BY <1>3, <1>4
    <2>3. \A p : (\E i \in DOMAIN boxes : p \in PointsIn(boxes[i])) <=> \E b \in S : p \in PointsIn(b)
      BY <1>2
    <2> HIDE DEF S
    <2> QED BY <2>1, <2>2, <2>3 DEF CoversOnce, S
  <1>5. CASE ~(Len(boxes) <= 1)
    <2> HIDE DEF S
    <2>1. locs \in SUBSET Int
      BY <1>1 DEF GridBoxes, Interval
    <2>2. \A b \in S : b.tracks.low \in locs /\ b.tracks.high \in locs
      OBVIOUS
    <2>3. IsFiniteSet(locs)
      BY <1>1, EndsFinite
    <2> HIDE DEF locs
    <2>4. \A b \in S : b \in GridBoxes /\ IsValid(b.tracks) /\ b.layer = l
      BY <1>1, <1>2
    <2>5. \A b \in S :
            /\ \A s \in SlicesOf(b, locs) :
                 s \in GridBoxes /\ s.layer = b.layer /\ s.tracks \in SliceRanges(locs)
            /\ \A p : p \in PointsIn(b) <=> \E s \in SlicesOf(b, locs) : p \in PointsIn(s)
      <3> HIDE DEF GridBoxes
      <3> QED BY <2>1, <2>2, <2>4, SlicesCover
    <2>6. \A s : s \in slices <=> \E b \in S : s \in SlicesOf(b, locs)
      OBVIOUS
    <2>7. IsFiniteSet(slices)
      BY <1>1, <2>3, AllSlicesFinite
    <2> HIDE DEF slices
    <2>8. Sorted(slices, l, SliceRanges(locs))
      BY <2>4, <2>5, <2>6, <2>7 DEF Sorted
    <2>9. Apart(SliceRanges(locs))
      BY <2>1, SliceRangesApart
    <2> DEFINE r == MergeRects(ToSet(MergeRects(slices, "tracks", "cps")), "cps", "tracks")
    <2>10. CoversOnce(r, l, slices)
      BY <2>8, <2>9, MergedTwice
    <2>11. sliceGridPolygons(boxes) = r
      BY <1>5 DEF sliceGridPolygons, slices, locs, S
    <2> HIDE DEF r
    <2>12. \A p : (\E s \in slices : p \in PointsIn(s)) <=> \E b \in S : p \in PointsIn(b)
      BY <2>5, <2>6
    <2>13. CoversOnce(r, l, S)
      BY <2>10, <2>12 DEF CoversOnce
    <2> QED BY <2>11, <2>13 DEF S
  <1> QED BY <1>3, <1>4, <1>5

-----------------------------------------------------------------------------
(* Boxes layer by layer                                                    *)

\* the elements of a sequence that are in a set
LEMMA OnlyFacts ==
  ASSUME NEW T, NEW s \in Seq(T), NEW S
  PROVE  /\ Only(s, S) \in Seq(T)
         /\ \A e : e \in Elements(Only(s, S)) <=> e \in Elements(s) /\ e \in S
         /\ \A R : InPairs(s, R) => InPairs(Only(s, S), R)
  <1> DEFINE D == {i \in DOMAIN s : s[i] \in S}
             rank == [i \in D |-> <<i, i>>]
             at == InOrder(D, rank)
             r == [k \in DOMAIN at |-> s[at[k]]]
  <1>1. Only(s, S) = r
    BY DEF Only, Ascending
  <1>2. DOMAIN s = 1 .. Len(s) /\ Len(s) \in Nat /\ \A i \in DOMAIN s : s[i] \in T
    OBVIOUS
  <1>3. IsFiniteSet(D)
    <2>1. IsFiniteSet(1 .. Len(s))
      BY <1>2, FS_Interval
    <2> QED BY <1>2, <2>1, FS_Subset
  <1>4. rank \in [D -> Int \X Int]
    BY <1>2
  <1> HIDE DEF rank
  <1>5. InOrderOf(at, D, rank)
    <2> HIDE DEF D
    <2> QED BY <1>3, <1>4, InOrderFacts
  <1>6. /\ at \in Seq(D)
        /\ \A e \in D : \E i \in DOMAIN at : at[i] = e
        /\ \A i, j \in DOMAIN at : i < j => at[i] # at[j]
    BY <1>5 DEF InOrderOf
  <1> HIDE DEF at
  <1>7. DOMAIN at = 1 .. Len(at) /\ Len(at) \in Nat /\ \A k \in DOMAIN at : at[k] \in D
    BY <1>6
  <1>8. DOMAIN r = DOMAIN at /\ \A k \in DOMAIN at : r[k] = s[at[k]] /\ r[k] \in T
    BY <1>2, <1>7
  <1>9. r \in Seq(T)
    <2>1. r \in [1 .. Len(at) -> T]
      BY <1>7, <1>8
    <2> QED BY <1>7, <2>1, SeqDef
  <1> HIDE DEF r
  <1>10. \A e : e \in Elements(r) <=> e \in Elements(s) /\ e \in S
    <2>1. ASSUME NEW e \in Elements(r) PROVE e \in Elements(s) /\ e \in S
      <3>1. PICK k \in DOMAIN at : e = s[at[k]]
        BY <1>8 DEF Elements
      <3>2. at[k] \in DOMAIN s /\ s[at[k]] \in S
        BY <1>7
      <3> QED BY <3>1, <3>2 DEF Elements
    <2>2. ASSUME NEW e \in Elements(s), e \in S PROVE e \in Elements(r)
      <3>1. PICK i \in DOMAIN s : e = s[i]
        BY DEF Elements
      <3>2. i \in D
        BY <2>2, <3>1
      <3>3. PICK k \in DOMAIN at : at[k] = i
        BY <1>6, <3>2
      <3> QED BY <1>8, <3>1, <3>3 DEF Elements
    <2> QED BY <2>1, <2>2
  <1>11. ASSUME NEW R, InPairs(s, R) PROVE InPairs(r, R)
    <2>1. SUFFICES ASSUME NEW i \in DOMAIN at, NEW j \in DOMAIN at, i # j
                   PROVE  <<r[i], r[j]>> \in R
      BY <1>8 DEF InPairs
    <2>2. at[i] # at[j]
      BY <1>6, <1>7, <2>1
    <2>3. at[i] \in DOMAIN s /\ at[j] \in DOMAIN s
      BY <1>7
    <2> QED BY <1>8, <1>11, <2>2, <2>3 DEF InPairs
  <1> QED BY <1>1, <1>9, <1>10, <1>11

\* the elements of a sequence, as the library has them
LEMMA ElementsToSet ==
  ASSUME NEW s
  PROVE  \A e : e \in ToSet(s) <=> e \in Elements(s)
  BY DEF ToSet, Elements

\* the boxes on a layer
LEMMA OnLayerFacts ==
  ASSUME NEW T, NEW s \in Seq(T), NEW l
  PROVE  /\ OnLayer(s, l) \in Seq(T)
         /\ \A e : e \in Elements(OnLayer(s, l)) <=> e \in Elements(s) /\ e.layer = l
         /\ \A R : InPairs(s, R) => InPairs(OnLayer(s, l), R)
  <1> DEFINE S == {b \in ToSet(s) : b.layer = l}
  <1>1. OnLayer(s, l) = Only(s, S)
    BY DEF OnLayer
  <1>2. \A e : e \in S <=> e \in Elements(s) /\ e.layer = l
    BY ElementsToSet
  <1> HIDE DEF S
  <1> QED BY <1>1, <1>2, OnlyFacts

\* the pairs of grid boxes that have no point in common
Disjoint == {w \in GridBoxes \X GridBoxes : PointsIn(w[1]) \cap PointsIn(w[2]) = {}}

\* sequences of boxes of each layer, put together
LEMMA PerLayerFacts ==
  ASSUME NEW ss \in Seq(Seq(GridBoxes)), Len(ss) = LayerNum,
         \A l \in GridLayers : \A i \in DOMAIN ss[l + 1] : ss[l + 1][i].layer = l,
         \A l \in GridLayers : InPairs(ss[l + 1], Disjoint)
  PROVE  /\ FlattenSeq(ss) \in Seq(GridBoxes)
         /\ \A e : e \in Elements(FlattenSeq(ss)) <=> \E l \in GridLayers : e \in Elements(ss[l + 1])
         /\ InPairs(FlattenSeq(ss), Disjoint)
  <1>1. DOMAIN ss = 1 .. LayerNum /\ LayerNum \in Nat
    BY GridAssumption
  <1>2. \A k \in DOMAIN ss : k - 1 \in GridLayers /\ (k - 1) + 1 = k
    BY <1>1 DEF GridLayers
  <1>3. \A l \in GridLayers : l + 1 \in DOMAIN ss
    BY <1>1 DEF GridLayers
  <1>4. \A k \in DOMAIN ss : InPairs(ss[k], Disjoint)
    BY <1>2
  <1>5. ASSUME NEW k \in DOMAIN ss, NEW m \in DOMAIN ss, k # m,
               NEW e \in Elements(ss[k]), NEW f \in Elements(ss[m])
        PROVE  <<e, f>> \in Disjoint
    <2>1. ss[k] \in Seq(GridBoxes) /\ ss[m] \in Seq(GridBoxes)
      OBVIOUS
    <2>2. e \in GridBoxes /\ f \in GridBoxes
      <3> HIDE DEF GridBoxes
      <3> QED BY <2>1 DEF Elements
    <2>3. e.layer = k - 1 /\ f.layer = m - 1
      BY <1>2 DEF Elements
    <2>4. e.layer # f.layer
      BY <1>1, <1>5, <2>3
    <2>5. PointsIn(e) \cap PointsIn(f) = {}
      BY <2>4 DEF PointsIn
    <2> HIDE DEF GridBoxes
    <2> QED BY <2>2, <2>5 DEF Disjoint
  <1> HIDE DEF GridBoxes, Disjoint
  <1>6. /\ FlattenSeq(ss) \in Seq(GridBoxes)
        /\ Elements(FlattenSeq(ss)) = UNION {Elements(ss[k]) : k \in DOMAIN ss}
        /\ InPairs(FlattenSeq(ss), Disjoint)
    BY <1>4, <1>5, FlattenFacts
  <1>7. \A e : e \in Elements(FlattenSeq(ss)) <=> \E k \in DOMAIN ss : e \in Elements(ss[k])
    BY <1>6
  <1> QED BY <1>2, <1>3, <1>6, <1>7

-----------------------------------------------------------------------------
(* gridRouteGuides is exact                                                *)

\* each box has a track in it, or is the only one on its layer
Sliceable(s) ==
  \A i \in DOMAIN s : IsValid(s[i].tracks) \/ \A j \in DOMAIN s : s[j].layer = s[i].layer => j = i

\* a box alone is not sliced, whether or not it has a track
LEMMA SliceGridAlone ==
  ASSUME NEW l, NEW boxes \in Seq(GridBoxes), \A i \in DOMAIN boxes : boxes[i].layer = l, Len(boxes) <= 1
  PROVE  CoversOnce(sliceGridPolygons(boxes), l, ToSet(boxes))
  <1> HIDE DEF GridBoxes
  <1>1. sliceGridPolygons(boxes) = boxes
    BY DEF sliceGridPolygons
  <1>2. \A i, j \in DOMAIN boxes : i = j
    <2>1. DOMAIN boxes = 1 .. Len(boxes) /\ Len(boxes) \in Nat
      OBVIOUS
    <2> QED BY <2>1
  <1>3. \A p : (\E i \in DOMAIN boxes : p \in PointsIn(boxes[i])) <=> \E b \in ToSet(boxes) : p \in PointsIn(b)
    BY ElementsToSet DEF Elements
  <1> QED BY <1>1, <1>2, <1>3 DEF CoversOnce

\* where a layer has several boxes each of them has a track in it
LEMMA SeveralValid ==
  ASSUME NEW s \in Seq(GridBoxes), Sliceable(s), NEW l, Len(OnLayer(s, l)) > 1
  PROVE  \A i \in DOMAIN OnLayer(s, l) : IsValid(OnLayer(s, l)[i].tracks)
  <1> DEFINE o == OnLayer(s, l)
             R == {w \in GridBoxes \X GridBoxes :
                     w[1].layer = w[2].layer => IsValid(w[1].tracks) /\ IsValid(w[2].tracks)}
  <1> HIDE DEF GridBoxes
  <1>1. InPairs(s, R)
    <2>1. SUFFICES ASSUME NEW i \in DOMAIN s, NEW j \in DOMAIN s, i # j PROVE <<s[i], s[j]>> \in R
      BY DEF InPairs
    <2>2. s[i] \in GridBoxes /\ s[j] \in GridBoxes
      OBVIOUS
    <2>3. s[i].layer = s[j].layer => IsValid(s[i].tracks) /\ IsValid(s[j].tracks)
      BY <2>1 DEF Sliceable
    <2> QED BY <2>2, <2>3
  <1>2. /\ o \in Seq(GridBoxes)
        /\ \A e : e \in Elements(o) <=> e \in Elements(s) /\ e.layer = l
        /\ InPairs(o, R)
    <2> HIDE DEF R
    <2> QED BY <1>1, OnLayerFacts
  <1>3. \A a, b : <<a, b>> \in R /\ a.layer = b.layer => IsValid(a.tracks)
    OBVIOUS
  <1>4. \A i \in DOMAIN o : o[i].layer = l
    BY <1>2 DEF Elements
  <1>5. \A i \in DOMAIN o : \E j \in DOMAIN o : i # j
    <2>1. DOMAIN o = 1 .. Len(o) /\ Len(o) \in Nat /\ Len(o) > 1
      BY <1>2
    <2>2. 1 \in DOMAIN o /\ 2 \in DOMAIN o
      BY <2>1
    <2> QED BY <2>2
  <1> HIDE DEF o, R
  <1>6. \A i \in DOMAIN o : IsValid(o[i].tracks)
    <2>1. TAKE i \in DOMAIN o
    <2>2. PICK j \in DOMAIN o : i # j
      BY <1>5
    <2>3. <<o[i], o[j]>> \in R
      BY <1>2, <2>2 DEF InPairs
    <2> QED BY <1>3, <1>4, <2>3
  <1> QED BY <1>6 DEF o

\* slicing the boxes of a layer among others
LEMMA SliceLayer ==
  ASSUME NEW s \in Seq(GridBoxes), Sliceable(s), NEW l \in GridLayers
  PROVE  LET r == sliceGridPolygons(OnLayer(s, l))
         IN  /\ r \in Seq(GridBoxes)
             /\ \A i \in DOMAIN r : r[i].layer = l
             /\ \A p : (\E e \in Elements(r) : p \in PointsIn(e))
                         <=> \E e \in Elements(s) : e.layer = l /\ p \in PointsIn(e)
             /\ InPairs(r, Disjoint)
  <1> DEFINE o == OnLayer(s, l)
             r == sliceGridPolygons(o)
  <1>1. o \in Seq(GridBoxes) /\ \A e : e \in Elements(o) <=> e \in Elements(s) /\ e.layer = l
    <2> HIDE DEF GridBoxes
    <2> QED BY OnLayerFacts
  <1> HIDE DEF o
  <1>2. \A i \in DOMAIN o : o[i].layer = l
    BY <1>1 DEF Elements
  <1>3. CoversOnce(r, l, ToSet(o))
    <2> HIDE DEF GridBoxes
    <2>1. CASE Len(o) <= 1
      BY <1>1, <1>2, <2>1, SliceGridAlone
    <2>2. CASE ~(Len(o) <= 1)
      <3>1. Len(o) > 1
        BY <1>1, <2>2
      <3>2. \A i \in DOMAIN o : IsValid(o[i].tracks)
        BY <3>1, SeveralValid DEF o
      <3> QED BY <1>1, <1>2, <3>2, SliceGridExact
    <2> QED BY <2>1, <2>2
  <1> HIDE DEF r
  <1>4. \A p : (\E e \in Elements(r) : p \in PointsIn(e)) <=> \E b \in ToSet(o) : p \in PointsIn(b)
    BY <1>3 DEF CoversOnce, Elements
  <1>5. \A e : e \in ToSet(o) <=> e \in Elements(s) /\ e.layer = l
    BY <1>1, ElementsToSet
  <1>6. InPairs(r, Disjoint)
    <2>1. SUFFICES ASSUME NEW i \in DOMAIN r, NEW j \in DOMAIN r, i # j
                   PROVE  <<r[i], r[j]>> \in Disjoint
      BY DEF InPairs
    <2>2. r[i] \in GridBoxes /\ r[j] \in GridBoxes /\ PointsIn(r[i]) \cap PointsIn(r[j]) = {}
      <3> HIDE DEF GridBoxes
      <3> QED BY <1>3, <2>1 DEF CoversOnce
    <2> HIDE DEF GridBoxes
    <2> QED BY <2>2 DEF Disjoint
  <1>7. r \in Seq(GridBoxes) /\ \A i \in DOMAIN r : r[i].layer = l
    BY <1>3 DEF CoversOnce
  <1>8. \A p : (\E e \in Elements(r) : p \in PointsIn(e))
                         <=> \E e \in Elements(s) : e.layer = l /\ p \in PointsIn(e)
    BY <1>4, <1>5
  <1> QED BY <1>6, <1>7, <1>8 DEF r, o

\* slicing layer by layer keeps the grid points of the boxes, each in one box
LEMMA SliceLayers ==
  ASSUME NEW s \in Seq(GridBoxes), Sliceable(s)
  PROVE  LET r == FlattenSeq([i \in 1 .. LayerNum |-> sliceGridPolygons(OnLayer(s, i - 1))])
         IN  /\ r \in Seq(GridBoxes)
             /\ \A p : (\E e \in Elements(r) : p \in PointsIn(e)) <=> \E e \in Elements(s) : p \in PointsIn(e)
             /\ InPairs(r, Disjoint)
  <1> DEFINE ss == [i \in 1 .. LayerNum |-> sliceGridPolygons(OnLayer(s, i - 1))]
             r == FlattenSeq(ss)
  <1>1. LayerNum \in Nat
    BY GridAssumption
  <1>2. \A i \in 1 .. LayerNum : i - 1 \in GridLayers
    BY <1>1 DEF GridLayers
  <1>3. \A l \in GridLayers : l + 1 \in 1 .. LayerNum /\ ss[l + 1] = sliceGridPolygons(OnLayer(s, l))
    <2>1. \A l \in GridLayers : l + 1 \in 1 .. LayerNum /\ (l + 1) - 1 = l
      BY <1>1 DEF GridLayers
    <2> QED BY <2>1
  <1>4. \A l \in GridLayers :
          /\ ss[l + 1] \in Seq(GridBoxes)
          /\ \A i \in DOMAIN ss[l + 1] : ss[l + 1][i].layer = l
          /\ \A p : (\E e \in Elements(ss[l + 1]) : p \in PointsIn(e))
                      <=> \E e \in Elements(s) : e.layer = l /\ p \in PointsIn(e)
          /\ InPairs(ss[l + 1], Disjoint)
    <2>1. TAKE l \in GridLayers
    <2>2. ss[l + 1] = sliceGridPolygons(OnLayer(s, l))
      BY <1>3
    <2> HIDE DEF ss, GridBoxes
    <2>3. /\ sliceGridPolygons(OnLayer(s, l)) \in Seq(GridBoxes)
          /\ \A i \in DOMAIN sliceGridPolygons(OnLayer(s, l)) : sliceGridPolygons(OnLayer(s, l))[i].layer = l
          /\ \A p : (\E e \in Elements(sliceGridPolygons(OnLayer(s, l))) : p \in PointsIn(e))
                         <=> \E e \in Elements(s) : e.layer = l /\ p \in PointsIn(e)
          /\ InPairs(sliceGridPolygons(OnLayer(s, l)), Disjoint)
      BY SliceLayer
    <2> QED BY <2>2, <2>3
  <1>5. \A i \in 1 .. LayerNum : ss[i] \in Seq(GridBoxes)
    <2>1. TAKE i \in 1 .. LayerNum
    <2>2. (i - 1) + 1 = i /\ i - 1 \in GridLayers
      BY <1>2
    <2> HIDE DEF ss, GridBoxes
    <2>3. ss[(i - 1) + 1] \in Seq(GridBoxes)
      BY <1>4, <2>2
    <2> QED BY <2>2, <2>3
  <1>6. ss \in Seq(Seq(GridBoxes)) /\ Len(ss) = LayerNum
    <2>1. DOMAIN ss = 1 .. LayerNum
      OBVIOUS
    <2>2. ss = [i \in 1 .. LayerNum |-> ss[i]]
      OBVIOUS
    <2> HIDE DEF ss, GridBoxes
    <2>3. ss \in [1 .. LayerNum -> Seq(GridBoxes)]
      BY <1>5, <2>2
    <2> QED BY <1>1, <2>3, SeqDef
  <1> HIDE DEF ss, GridBoxes, Disjoint
  <1>7. /\ r \in Seq(GridBoxes)
        /\ \A e : e \in Elements(r) <=> \E l \in GridLayers : e \in Elements(ss[l + 1])
        /\ InPairs(r, Disjoint)
    BY <1>4, <1>6, PerLayerFacts
  <1> HIDE DEF r
  <1>8. \A e \in Elements(s) : e.layer \in GridLayers
    <2>1. \A e \in Elements(s) : e \in GridBoxes
      BY DEF Elements
    <2> QED BY <2>1 DEF GridBoxes
  <1>9. ASSUME NEW p PROVE (\E e \in Elements(r) : p \in PointsIn(e)) <=> \E e \in Elements(s) : p \in PointsIn(e)
    <2>1. (\E e \in Elements(r) : p \in PointsIn(e))
            <=> \E l \in GridLayers : \E e \in Elements(ss[l + 1]) : p \in PointsIn(e)
      BY <1>7
    <2>2. (\E l \in GridLayers : \E e \in Elements(ss[l + 1]) : p \in PointsIn(e))
            <=> \E l \in GridLayers : \E e \in Elements(s) : e.layer = l /\ p \in PointsIn(e)
      BY <1>4
    <2> QED BY <1>8, <2>1, <2>2
  <1> QED BY <1>7, <1>9 DEF r, ss

\* The guides on the grid cover exactly the grid points in the guides, each in
\* one guide, if each guide has a track in it or is alone on its layer.
LEMMA GuidesOnGrid ==
  ASSUME NEW boxes \in Seq(LocBox),
         \A i \in DOMAIN boxes : \/ IsValid(rangeSearch(boxes[i]).tracks)
                                \/ \A j \in DOMAIN boxes : boxes[j].layer = boxes[i].layer => j = i
  PROVE  /\ gridRouteGuides(boxes) \in Seq(GridBoxes)
         /\ \A p : (\E e \in Elements(gridRouteGuides(boxes)) : p \in PointsIn(e))
                     <=> p \in GridPoint /\ \E i \in DOMAIN boxes : LocBoxOn(boxes[i], p)
         /\ InPairs(gridRouteGuides(boxes), Disjoint)
  <1> DEFINE s == [i \in DOMAIN boxes |-> rangeSearch(boxes[i])]
             r == FlattenSeq([i \in 1 .. LayerNum |-> sliceGridPolygons(OnLayer(s, i - 1))])
  <1>1. DOMAIN boxes = 1 .. Len(boxes) /\ Len(boxes) \in Nat /\ \A i \in DOMAIN boxes : boxes[i] \in LocBox
    <2> HIDE DEF LocBox
    <2> QED OBVIOUS
  <1> HIDE DEF LocBox
  <1>2. \A i \in DOMAIN boxes :
          /\ rangeSearch(boxes[i]) \in GridBoxes /\ rangeSearch(boxes[i]).layer = boxes[i].layer
          /\ PointsIn(rangeSearch(boxes[i])) = {p \in GridPoint : LocBoxOn(boxes[i], p)}
    BY <1>1, RangeSearchExact
  <1> HIDE DEF GridBoxes
  <1>3. DOMAIN s = DOMAIN boxes /\ \A i \in DOMAIN boxes : s[i] = rangeSearch(boxes[i])
    OBVIOUS
  <1> HIDE DEF s
  <1>4. s \in Seq(GridBoxes)
    <2>1. s \in [1 .. Len(boxes) -> GridBoxes]
      <3>1. s = [i \in DOMAIN boxes |-> rangeSearch(boxes[i])]
        BY DEF s
      <3> QED BY <1>1, <1>2, <3>1
    <2> QED BY <1>1, <2>1, SeqDef
  <1>5. Sliceable(s)
    BY <1>2, <1>3 DEF Sliceable
  <1>6. /\ r \in Seq(GridBoxes)
        /\ \A p : (\E e \in Elements(r) : p \in PointsIn(e)) <=> \E e \in Elements(s) : p \in PointsIn(e)
        /\ InPairs(r, Disjoint)
    <2> HIDE DEF Disjoint
    <2> QED BY <1>4, <1>5, SliceLayers
  <1>7. gridRouteGuides(boxes) = r
    BY DEF gridRouteGuides, PerLayer, Concat, s
  <1> HIDE DEF r
  <1>8. \A p : (\E e \in Elements(s) : p \in PointsIn(e))
                     <=> p \in GridPoint /\ \E i \in DOMAIN boxes : LocBoxOn(boxes[i], p)
    <2>1. \A p : (\E e \in Elements(s) : p \in PointsIn(e)) <=> \E i \in DOMAIN boxes : p \in PointsIn(s[i])
      BY <1>3 DEF Elements
    <2>2. \A i \in DOMAIN boxes : PointsIn(s[i]) = {p \in GridPoint : LocBoxOn(boxes[i], p)}
      BY <1>2, <1>3
    <2>3. \A i \in DOMAIN boxes : \A p : p \in PointsIn(s[i]) <=> p \in GridPoint /\ LocBoxOn(boxes[i], p)
      BY <2>2
    <2> QED BY <2>1, <2>3
  <1> QED BY <1>6, <1>7, <1>8

-----------------------------------------------------------------------------
(* Guides only grow                                                        *)

\* a box is at least as large as another on the same layer, and so are the boxes
\* of a sequence, to which others may have been added
Wider(a, b) == a.layer = b.layer /\ In(a.x) \subseteq In(b.x) /\ In(a.y) \subseteq In(b.y)

Grown(bs, cs) ==
  /\ cs \in Seq(LocBox)
  /\ \A i \in DOMAIN bs : i \in DOMAIN cs /\ Wider(bs[i], cs[i])

\* to be wider is reflexive and transitive, and so is to be grown
LEMMA WiderFacts ==
  /\ \A b : Wider(b, b)
  /\ \A a, b, c : Wider(a, b) /\ Wider(b, c) => Wider(a, c)
  /\ \A bs \in Seq(LocBox) : Grown(bs, bs)
  /\ \A as, bs, cs : Grown(as, bs) /\ Grown(bs, cs) => Grown(as, cs)
  <1>1. \A b : Wider(b, b)
    BY DEF Wider
  <1>2. \A a, b, c : Wider(a, b) /\ Wider(b, c) => Wider(a, c)
    BY DEF Wider
  <1> QED BY <1>1, <1>2 DEF Grown

\* boxes of locations and their parts
LEMMA LocBoxFacts ==
  /\ \A b : b \in LocBox <=> b \in [layer : GridLayers, x : Interval, y : Interval]
  /\ \A b \in LocBox : b.layer \in GridLayers /\ b.x \in Interval /\ b.y \in Interval
  /\ \A b \in LocBox, i \in Interval : [b EXCEPT !.x = i] \in LocBox /\ [b EXCEPT !.y = i] \in LocBox
  /\ \A b \in LocBox, l \in GridLayers : [b EXCEPT !.layer = l] \in LocBox
  BY DEF LocBox, Interval

\* one box replaced by a wider one
LEMMA GrownAt ==
  ASSUME NEW bs \in Seq(LocBox), NEW i \in DOMAIN bs, NEW c \in LocBox, Wider(bs[i], c)
  PROVE  Grown(bs, [bs EXCEPT ![i] = c])
  <1> DEFINE cs == [bs EXCEPT ![i] = c]
  <1>1. /\ cs \in Seq(LocBox) /\ DOMAIN cs = DOMAIN bs
        /\ \A j \in DOMAIN bs : cs[j] = IF j = i THEN c ELSE bs[j]
    <2> HIDE DEF LocBox
    <2>1. DOMAIN cs = DOMAIN bs /\ \A j \in DOMAIN bs : cs[j] = IF j = i THEN c ELSE bs[j]
      OBVIOUS
    <2>2. DOMAIN bs = 1 .. Len(bs) /\ Len(bs) \in Nat /\ \A j \in DOMAIN bs : bs[j] \in LocBox
      OBVIOUS
    <2>3. cs \in [1 .. Len(bs) -> LocBox]
      BY <2>1, <2>2
    <2> HIDE DEF cs
    <2> QED BY <2>1, <2>2, <2>3, SeqDef
  <1> HIDE DEF cs
  <1>2. \A j \in DOMAIN bs : Wider(bs[j], cs[j])
    BY <1>1, WiderFacts
  <1> QED BY <1>1, <1>2 DEF Grown, cs

\* extended across the tracks of a layer (Reach)
LEMMA ReachGrows ==
  ASSUME NEW bs \in Seq(LocBox), NEW i \in DOMAIN bs, NEW l, NEW range \in Interval
  PROVE  Grown(bs, Reach(bs, i, l, range))
  <1> DEFINE b == bs[i]
             cx == [b EXCEPT !.x = UnionWith(b.x, range)]
             cy == [b EXCEPT !.y = UnionWith(b.y, range)]
  <1>1. b \in LocBox
    <2> HIDE DEF LocBox
    <2> QED OBVIOUS
  <1>2. /\ UnionWith(b.x, range) \in Interval /\ In(b.x) \subseteq In(UnionWith(b.x, range))
        /\ UnionWith(b.y, range) \in Interval /\ In(b.y) \subseteq In(UnionWith(b.y, range))
    BY <1>1, LocBoxFacts, UnionFacts
  <1>3. cx \in LocBox /\ cy \in LocBox
    BY <1>1, <1>2, LocBoxFacts
  <1>4. /\ cx.layer = b.layer /\ cx.x = UnionWith(b.x, range) /\ cx.y = b.y
        /\ cy.layer = b.layer /\ cy.y = UnionWith(b.y, range) /\ cy.x = b.x
    BY <1>1 DEF LocBox
  <1>5. Reach(bs, i, l, range) = [bs EXCEPT ![i] = cx] \/ Reach(bs, i, l, range) = [bs EXCEPT ![i] = cy]
    BY DEF Reach
  <1> HIDE DEF cx, cy
  <1>6. Wider(b, cx) /\ Wider(b, cy)
    BY <1>2, <1>4 DEF Wider
  <1> HIDE DEF LocBox
  <1>7. Grown(bs, [bs EXCEPT ![i] = cx]) /\ Grown(bs, [bs EXCEPT ![i] = cy])
    BY <1>3, <1>6, GrownAt
  <1> QED BY <1>5, <1>7

\* the extent of a box across the tracks is an interval
LEMMA AcrossType ==
  ASSUME NEW b \in LocBox, NEW l
  PROVE  Across(l, b) \in Interval
  BY LocBoxFacts DEF Across

\* the boxes of two guides, each extended by the other
MarginStep(bs, w) ==
  LET first == Reach(bs, w[1], bs[w[2]].layer, Across(bs[w[2]].layer, bs[w[2]]))
  IN  Reach(first, w[2], bs[w[1]].layer, Across(bs[w[1]].layer, first[w[1]]))

\* two guides that extend each other grow
LEMMA MarginStepGrows ==
  ASSUME NEW bs \in Seq(LocBox), NEW w \in (DOMAIN bs) \X (DOMAIN bs)
  PROVE  Grown(bs, MarginStep(bs, w))
  <1> DEFINE i == w[1]
             j == w[2]
             first == Reach(bs, i, bs[j].layer, Across(bs[j].layer, bs[j]))
  <1> HIDE DEF LocBox
  <1>1. i \in DOMAIN bs /\ j \in DOMAIN bs /\ bs[i] \in LocBox /\ bs[j] \in LocBox
    <2>1. w[1] \in DOMAIN bs /\ w[2] \in DOMAIN bs
      OBVIOUS
    <2>2. \A k \in DOMAIN bs : bs[k] \in LocBox
      OBVIOUS
    <2> QED BY <2>1, <2>2
  <1>2. Grown(bs, first)
    BY <1>1, AcrossType, ReachGrows
  <1> HIDE DEF first, i, j
  <1>3. first \in Seq(LocBox) /\ i \in DOMAIN first /\ j \in DOMAIN first /\ first[i] \in LocBox
    BY <1>1, <1>2 DEF Grown
  <1>4. Grown(first, Reach(first, j, bs[i].layer, Across(bs[i].layer, first[i])))
    BY <1>3, AcrossType, ReachGrows
  <1>5. Grown(bs, Reach(first, j, bs[i].layer, Across(bs[i].layer, first[i])))
    BY <1>2, <1>4, WiderFacts
  <1> QED BY <1>5 DEF MarginStep, first, i, j

-----------------------------------------------------------------------------
(* Guides that extend each other (expandGuidesToMargin)                    *)

\* expandGuidesToMargin goes through the pairs of crossing guides in order
CrossingGuides(boxes) ==
  {w \in (DOMAIN boxes) \X (DOMAIN boxes) :
     /\ w[1] < w[2] /\ BoxesMeet(boxes[w[1]], boxes[w[2]])
     /\ boxes[w[1]].layer - boxes[w[2]].layer \in {-1, 1}}

\* f is the guides after each pair that extends each other
MarginSteps(f, boxes, s) ==
  f = [i \in 0 .. Len(s) |-> IF i = 0 THEN boxes ELSE MarginStep(f[i - 1], s[i])]

\* expandGuidesToMargin makes no guide smaller
LEMMA MarginGrows ==
  ASSUME NEW boxes \in Seq(LocBox)
  PROVE  Grown(boxes, expandGuidesToMargin(boxes))
  <1> DEFINE D == DOMAIN boxes
             cr == CrossingGuides(boxes)
             s == InOrder(cr, [w \in cr |-> w])
             N == Len(s)
             f == CHOOSE f : MarginSteps(f, boxes, s)
             Good == {bs \in Seq(LocBox) : Grown(boxes, bs)}
  <1>1. expandGuidesToMargin(boxes) = f[N]
    BY DEF expandGuidesToMargin, CrossingGuides, MarginSteps, MarginStep
  <1> HIDE DEF LocBox
  <1>2. D = 1 .. Len(boxes) /\ Len(boxes) \in Nat
    OBVIOUS
  <1>3. cr \in SUBSET (D \X D) /\ IsFiniteSet(cr)
    <2>1. IsFiniteSet(D \X D)
      <3>1. IsFiniteSet(D)
        BY <1>2, FS_Interval
      <3> HIDE DEF D
      <3> QED BY <3>1, FS_Product
    <2>2. cr \in SUBSET (D \X D)
      BY DEF CrossingGuides
    <2> HIDE DEF cr
    <2> QED BY <2>1, <2>2, FS_Subset
  <1> HIDE DEF cr
  <1>4. [w \in cr |-> w] \in [cr -> Int \X Int]
    BY <1>2, <1>3
  <1>5. InOrderOf(s, cr, [w \in cr |-> w])
    BY <1>3, <1>4, InOrderFacts
  <1>6. N \in Nat /\ \A i \in 1 .. N : s[i] \in D \X D
    BY <1>3, <1>5 DEF InOrderOf
  <1> HIDE DEF s, N
  <1>7. \A bs \in Good : \A w \in D \X D : MarginStep(bs, w) \in Good
    <2>1. SUFFICES ASSUME NEW bs \in Good, NEW w \in D \X D PROVE MarginStep(bs, w) \in Good
      OBVIOUS
    <2>2. bs \in Seq(LocBox) /\ Grown(boxes, bs)
      OBVIOUS
    <2>3. w \in (DOMAIN bs) \X (DOMAIN bs)
      BY <2>2 DEF Grown
    <2>4. Grown(bs, MarginStep(bs, w))
      BY <2>2, <2>3, MarginStepGrows
    <2>5. Grown(boxes, MarginStep(bs, w))
      BY <2>2, <2>4, WiderFacts
    <2> QED BY <2>5 DEF Grown
  <1>8. boxes \in Good
    BY WiderFacts
  <1> HIDE DEF Good, D
  <1>9. PICK h \in [0 .. N -> Good] : MarginSteps(h, boxes, s)
    <2> DEFINE g == [n \in 1 .. N |-> [bs \in Good |-> MarginStep(bs, s[n])]]
    <2>1. g \in [1 .. N -> [Good -> Good]]
      BY <1>6, <1>7
    <2>2. PICK h \in [0 .. N -> Good] : Steps(h, N, boxes, g)
      <3> HIDE DEF g
      <3> QED BY <1>6, <1>8, <2>1, StepsExist
    <2>3. h = [n \in 0 .. N |-> IF n = 0 THEN boxes ELSE g[n][h[n - 1]]]
      BY <2>2 DEF Steps
    <2>4. ASSUME NEW n \in 0 .. N
          PROVE  h[n] = IF n = 0 THEN boxes ELSE MarginStep(h[n - 1], s[n])
      <3>1. CASE n = 0
        BY <2>3, <3>1
      <3>2. CASE n # 0
        <4>1. n \in 1 .. N /\ n - 1 \in 0 .. N
          BY <1>6, <3>2
        <4>2. h[n - 1] \in Good
          BY <2>2, <4>1
        <4>3. h[n] = g[n][h[n - 1]]
          <5> HIDE DEF g
          <5> QED BY <2>3, <3>2
        <4> QED BY <3>2, <4>1, <4>2, <4>3
      <3> QED BY <3>1, <3>2
    <2>5. h = [n \in 0 .. N |-> h[n]]
      BY <2>2
    <2>6. MarginSteps(h, boxes, s)
      <3> HIDE DEF g
      <3> QED BY <2>4, <2>5 DEF MarginSteps, N
    <2> QED BY <2>6
  <1>10. MarginSteps(f, boxes, s)
    BY <1>9
  <1> HIDE DEF f
  <1> DEFINE G == {n \in Nat : f[n] \in Good}
  <1>11. 0 \in G
    BY <1>6, <1>8, <1>10 DEF MarginSteps, N
  <1>12. ASSUME NEW n \in 0 .. N - 1, n \in G PROVE n + 1 \in G
    <2>1. n + 1 \in 1 .. N /\ n + 1 \in Nat /\ (n + 1) - 1 = n /\ n + 1 # 0 /\ n + 1 \in 0 .. N
      BY <1>6
    <2>2. f[n + 1] = MarginStep(f[n], s[n + 1])
      BY <1>10, <2>1 DEF MarginSteps, N
    <2> QED BY <1>6, <1>7, <1>12, <2>1, <2>2
  <1> HIDE DEF G
  <1>13. N \in G
    <2>1. \A n \in 0 .. N : n \in G
      BY <1>6, <1>11, <1>12, AllUpTo
    <2> QED BY <1>6, <2>1
  <1> QED BY <1>1, <1>13 DEF G, Good

-----------------------------------------------------------------------------
(* Expansion                                                               *)

\* an interval with a margin
LEMMA WidenFacts ==
  ASSUME NEW i \in Interval, NEW d \in Nat
  PROVE  Widen(i, d) \in Interval /\ In(i) \subseteq In(Widen(i, d))
  BY DEF Widen, Intvl, Interval, In

\* a box expanded by some pitches is wider
LEMMA ExpandBoxWider ==
  ASSUME NEW b \in LocBox, NEW n \in Nat
  PROVE  expandBox(b, n) \in LocBox /\ Wider(b, expandBox(b, n))
  <1> DEFINE d == n * Pitch[b.layer]
             x == Widen(b.x, d)
             y == Widen(b.y, d)
  <1>1. b.layer \in GridLayers /\ b.x \in Interval /\ b.y \in Interval
    BY LocBoxFacts
  <1>2. d \in Nat
    <2>1. Pitch[b.layer] \in Nat
      BY <1>1, LayerListAssumption
    <2> DEFINE p == Pitch[b.layer]
    <2>2. p \in Nat
      BY <2>1
    <2> HIDE DEF p
    <2>3. n * p \in Nat
      BY <2>2
    <2> QED BY <2>3 DEF p
  <1> HIDE DEF d
  <1>3. /\ x \in Interval /\ In(b.x) \subseteq In(x)
        /\ y \in Interval /\ In(b.y) \subseteq In(y)
    BY <1>1, <1>2, WidenFacts
  <1> DEFINE c == [b EXCEPT !.x = x, !.y = y]
  <1>4. expandBox(b, n) = c
    BY DEF expandBox, d
  <1> HIDE DEF x, y
  <1>5. c.layer = b.layer /\ c.x = x /\ c.y = y /\ c \in LocBox
    BY <1>3 DEF LocBox, Interval
  <1> HIDE DEF c
  <1> QED BY <1>3, <1>4, <1>5 DEF Wider

\* guides added on other layers are boxes of the layers of the grid
LEMMA DiffLayerGuidesType ==
  ASSUME NEW g \in LocBox, NEW vio
  PROVE  DiffLayerGuides(g, vio) \in Seq(LocBox)
  <1> DEFINE l == g.layer
             down(far) == IF l - far > 1 THEN <<[g EXCEPT !.layer = l - far]>> ELSE <<>>
             up(far) == IF l + far < LayerNum THEN <<[g EXCEPT !.layer = l + far]>> ELSE <<>>
             to(far) == down(far) \o up(far)
  <1>1. l \in GridLayers
    BY LocBoxFacts
  <1>2. \A far \in {1, 2} : /\ l - far > 1 => l - far \in GridLayers
                            /\ l + far < LayerNum => l + far \in GridLayers
    <2> HIDE DEF l
    <2>1. l \in Int /\ 0 <= l /\ l <= LayerNum - 1 /\ LayerNum \in Nat
      BY <1>1, GridAssumption DEF GridLayers
    <2> DEFINE n == LayerNum
    <2> HIDE DEF n
    <2>2. l \in Int /\ 0 <= l /\ l <= n - 1 /\ n \in Nat
      BY <2>1 DEF n
    <2>3. \A far \in {1, 2} : /\ l - far > 1 => l - far \in 0 .. n - 1
                              /\ l + far < n => l + far \in 0 .. n - 1
      BY <2>2
    <2> QED BY <2>3 DEF n, GridLayers
  <1>3. \A far \in {1, 2} : /\ l - far > 1 => [g EXCEPT !.layer = l - far] \in LocBox
                            /\ l + far < LayerNum => [g EXCEPT !.layer = l + far] \in LocBox
    BY <1>2, LocBoxFacts
  <1> HIDE DEF LocBox, l
  <1>4. \A e \in LocBox : <<e>> \in Seq(LocBox)
    OBVIOUS
  <1>5. <<>> \in Seq(LocBox)
    OBVIOUS
  <1>6. \A s, t \in Seq(LocBox) : s \o t \in Seq(LocBox)
    BY ConcatProperties
  <1>7. \A far \in {1, 2} : down(far) \in Seq(LocBox) /\ up(far) \in Seq(LocBox)
    BY <1>3, <1>4, <1>5
  <1>8. to(1) \in Seq(LocBox) /\ to(2) \in Seq(LocBox)
    <2> HIDE DEF down, up
    <2> QED BY <1>6, <1>7
  <1>9. DiffLayerGuides(g, vio) = (IF vio >= diffLayerGuideVioThres THEN to(1) ELSE <<>>)
                                  \o (IF vio >= 2 * diffLayerGuideVioThres THEN to(2) ELSE <<>>)
    BY DEF DiffLayerGuides, l
  <1> HIDE DEF to
  <1> QED BY <1>5, <1>6, <1>8, <1>9

\* sequences of sequences flattened
LEMMA FlattenType ==
  ASSUME NEW T, NEW ss \in Seq(Seq(T))
  PROVE  FlattenSeq(ss) \in Seq(T)
  <1> DEFINE R == T \X T
  <1>1. \A k \in DOMAIN ss : \A e \in Elements(ss[k]) : e \in T
    <2>1. \A k \in DOMAIN ss : ss[k] \in Seq(T)
      OBVIOUS
    <2> QED BY <2>1 DEF Elements
  <1>2. \A k \in DOMAIN ss : InPairs(ss[k], R)
    <2>1. \A k \in DOMAIN ss : \A i \in DOMAIN ss[k] : ss[k][i] \in T
      BY <1>1 DEF Elements
    <2> QED BY <2>1 DEF InPairs
  <1>3. \A k, m \in DOMAIN ss : k # m => \A e \in Elements(ss[k]), f \in Elements(ss[m]) : <<e, f>> \in R
    BY <1>1
  <1> HIDE DEF R
  <1> QED BY <1>2, <1>3, FlattenFacts

\* the image of a sequence, element by element
LEMMA MapType ==
  ASSUME NEW S, NEW s \in Seq(S), NEW T, NEW r, DOMAIN r = DOMAIN s, r = [i \in DOMAIN s |-> r[i]],
         \A i \in DOMAIN s : r[i] \in T
  PROVE  r \in Seq(T)
  <1>1. DOMAIN s = 1 .. Len(s) /\ Len(s) \in Nat
    OBVIOUS
  <1>2. r \in [1 .. Len(s) -> T]
    BY <1>1
  <1> QED BY <1>1, <1>2, SeqDef

\* expanding each guide makes none smaller
LEMMA WideGrown ==
  ASSUME NEW bs \in Seq(LocBox), NEW n \in Nat
  PROVE  Grown(bs, [i \in DOMAIN bs |-> expandBox(bs[i], n)])
  <1> DEFINE wide == [i \in DOMAIN bs |-> expandBox(bs[i], n)]
  <1> HIDE DEF LocBox
  <1>1. \A i \in DOMAIN bs : bs[i] \in LocBox
    OBVIOUS
  <1>2. \A i \in DOMAIN bs : expandBox(bs[i], n) \in LocBox /\ Wider(bs[i], expandBox(bs[i], n))
    BY <1>1, ExpandBoxWider
  <1>3. DOMAIN wide = DOMAIN bs /\ wide = [i \in DOMAIN bs |-> wide[i]]
        /\ \A i \in DOMAIN bs : wide[i] = expandBox(bs[i], n)
    OBVIOUS
  <1> HIDE DEF wide
  <1>4. \A i \in DOMAIN bs : wide[i] \in LocBox /\ Wider(bs[i], wide[i])
    BY <1>2, <1>3
  <1>5. wide \in Seq(LocBox)
    BY <1>3, <1>4, MapType
  <1> QED BY <1>3, <1>4, <1>5 DEF Grown, wide

\* what is expanded covers what was there, with or without guides on other layers
LEMMA ExpandGrows ==
  ASSUME NEW bs \in Seq(LocBox), NEW n \in Nat, NEW vios
  PROVE  LET wide == [i \in DOMAIN bs |-> expandBox(bs[i], n)]
             extra(i) == DiffLayerGuides(wide[i], vios[i])
         IN  /\ Grown(bs, expandGuidesToMargin(wide))
             /\ Grown(bs, expandGuidesToMargin(wide \o Concat([i \in DOMAIN wide |-> extra(i)])))
  <1> DEFINE wide == [i \in DOMAIN bs |-> expandBox(bs[i], n)]
             more == [i \in DOMAIN wide |-> DiffLayerGuides(wide[i], vios[i])]
             added == FlattenSeq(more)
  <1>1. Grown(bs, wide)
    BY WideGrown
  <1> HIDE DEF LocBox, wide
  <1>2. wide \in Seq(LocBox) /\ \A i \in DOMAIN wide : wide[i] \in LocBox
    <2>1. wide \in Seq(LocBox)
      BY <1>1 DEF Grown
    <2> QED BY <2>1
  <1>3. Grown(bs, expandGuidesToMargin(wide))
    BY <1>1, <1>2, MarginGrows, WiderFacts
  <1>4. \A i \in DOMAIN wide : DiffLayerGuides(wide[i], vios[i]) \in Seq(LocBox)
    BY <1>2, DiffLayerGuidesType
  <1>5. DOMAIN more = DOMAIN wide /\ more = [i \in DOMAIN wide |-> more[i]]
        /\ \A i \in DOMAIN wide : more[i] = DiffLayerGuides(wide[i], vios[i])
    OBVIOUS
  <1> HIDE DEF more
  <1>6. more \in Seq(Seq(LocBox))
    <2>1. \A i \in DOMAIN wide : more[i] \in Seq(LocBox)
      BY <1>4, <1>5
    <2> QED BY <1>2, <1>5, <2>1, MapType
  <1>7. added \in Seq(LocBox)
    BY <1>6, FlattenType
  <1> HIDE DEF added
  <1> DEFINE all == wide \o added
  <1>8. /\ all \in Seq(LocBox) /\ Len(wide) \in Nat /\ Len(added) \in Nat
        /\ \A i \in 1 .. Len(wide) : all[i] = wide[i]
        /\ Len(all) = Len(wide) + Len(added)
    BY <1>2, <1>7, ConcatProperties
  <1>9. DOMAIN wide = 1 .. Len(wide) /\ DOMAIN all = 1 .. Len(all)
    BY <1>2, <1>8
  <1> HIDE DEF all
  <1>10. Grown(wide, all)
    <2>1. \A i \in DOMAIN wide : i \in DOMAIN all
      BY <1>8, <1>9
    <2>2. \A i \in DOMAIN wide : Wider(wide[i], all[i])
      BY <1>8, <1>9, WiderFacts
    <2> QED BY <1>8, <2>1, <2>2 DEF Grown
  <1>11. Grown(bs, expandGuidesToMargin(all))
    BY <1>1, <1>8, <1>10, MarginGrows, WiderFacts
  <1> QED BY <1>3, <1>11 DEF wide, all, added, more, Concat

-----------------------------------------------------------------------------
(* The guide closest to a pin                                              *)

\* the gap of two intervals is a number
LEMMA GapType ==
  ASSUME NEW i \in Interval, NEW j \in Interval
  PROVE  Gap(i, j) \in Int
  BY DEF Gap, Greater, Interval

\* and so is the distance of two boxes
LEMMA BoxDistType ==
  ASSUME NEW a \in LocBox, NEW b \in LocBox
  PROVE  BoxDist(a, b) \in Int
  <1>1. a.x \in Interval /\ a.y \in Interval /\ b.x \in Interval /\ b.y \in Interval
    BY LocBoxFacts
  <1>2. Gap(a.x, b.x) \in Int /\ Gap(a.y, b.y) \in Int
    BY <1>1, GapType
  <1> QED BY <1>2 DEF BoxDist

\* of finitely many pairs of numbers there is a first one among those with the
\* least value
LEMMA ClosestOf ==
  ASSUME NEW P, IsFiniteSet(P), P \subseteq Int \X Int, P # {}, NEW d, \A w \in P : d[w] \in Int
  PROVE  \E w \in P : \A v \in P : d[w] < d[v] \/ (d[w] = d[v] /\ Lex(w, v))
  <1> DEFINE r == [w \in P |-> <<d[w], 0>>]
  <1>1. r \in [P -> Int \X Int]
    OBVIOUS
  <1>2. PICK u \in P : \A v \in P : Lex(r[u], r[v])
    <2> HIDE DEF r
    <2> QED BY <1>1, LexLeast
  <1>3. \A v \in P : d[u] <= d[v]
    <2>1. TAKE v \in P
    <2>2. Lex(<<d[u], 0>>, <<d[v], 0>>)
      BY <1>2
    <2>3. d[u] < d[v] \/ d[u] = d[v]
      BY <2>2 DEF Lex
    <2> QED BY <2>3
  <1> DEFINE Q == {w \in P : d[w] = d[u]}
             q == [w \in Q |-> w]
  <1>4. Q # {} /\ Q \in SUBSET Q /\ q \in [Q -> Int \X Int]
    OBVIOUS
  <1>5. IsFiniteSet(Q)
    BY FS_Subset
  <1>6. PICK w \in Q : \A v \in Q : Lex(q[w], q[v])
    <2> HIDE DEF q, Q
    <2> QED BY <1>4, <1>5, LexLeast
  <1>7. \A v \in Q : Lex(w, v)
    BY <1>6
  <1>8. w \in P /\ d[w] = d[u]
    OBVIOUS
  <1> QED BY <1>3, <1>7, <1>8

\* the pairs of an access box and a guide near it
LEMMA ClosestPairNear ==
  ASSUME NEW bs \in Seq(LocBox), NEW p, pinBoxes[p] \in Seq(LocBox), NearPairs(bs, p) # {}
  PROVE  ClosestPair(bs, p) \in NearPairs(bs, p)
  <1> DEFINE P == NearPairs(bs, p)
             A == DOMAIN pinBoxes[p]
             B == DOMAIN bs
             d == [w \in P |-> BoxDist(pinBoxes[p][w[1]], bs[w[2]])]
  <1> HIDE DEF LocBox
  <1>1. A = 1 .. Len(pinBoxes[p]) /\ Len(pinBoxes[p]) \in Nat /\ B = 1 .. Len(bs) /\ Len(bs) \in Nat
    OBVIOUS
  <1>2. IsFiniteSet(A \X B)
    <2>1. IsFiniteSet(A) /\ IsFiniteSet(B)
      BY <1>1, FS_Interval
    <2> HIDE DEF A, B
    <2> QED BY <2>1, FS_Product
  <1>3. P \in SUBSET (A \X B)
    BY DEF NearPairs
  <1>4. \A i \in A : pinBoxes[p][i] \in LocBox
    OBVIOUS
  <1>5. \A j \in B : bs[j] \in LocBox
    OBVIOUS
  <1> HIDE DEF P, A, B
  <1>6. IsFiniteSet(P)
    BY <1>2, <1>3, FS_Subset
  <1>7. P \subseteq Int \X Int
    BY <1>1, <1>3
  <1>8. \A w \in P : pinBoxes[p][w[1]] \in LocBox /\ bs[w[2]] \in LocBox
    <2>1. TAKE w \in P
    <2>2. w[1] \in A /\ w[2] \in B
      BY <1>3
    <2> QED BY <1>4, <1>5, <2>2
  <1>9. \A w \in P : d[w] = BoxDist(pinBoxes[p][w[1]], bs[w[2]]) /\ d[w] \in Int
    <2>1. \A w \in P : BoxDist(pinBoxes[p][w[1]], bs[w[2]]) \in Int
      BY <1>8, BoxDistType
    <2> QED BY <2>1
  <1> HIDE DEF d
  <1>10. P # {}
    BY DEF P
  <1>11. \E w \in P : \A v \in P : d[w] < d[v] \/ (d[w] = d[v] /\ Lex(w, v))
    BY <1>6, <1>7, <1>9, <1>10, ClosestOf
  <1>12. \E w \in P : \A v \in P :
            \/ BoxDist(pinBoxes[p][w[1]], bs[w[2]]) < BoxDist(pinBoxes[p][v[1]], bs[v[2]])
            \/ BoxDist(pinBoxes[p][w[1]], bs[w[2]]) = BoxDist(pinBoxes[p][v[1]], bs[v[2]]) /\ Lex(w, v)
    BY <1>9, <1>11
  <1>13. ClosestPair(bs, p) \in P
    BY <1>12 DEF ClosestPair, P
  <1> QED BY <1>13 DEF P

\* what was near a pin is near when guides have grown
LEMMA GrownNear ==
  ASSUME NEW bs \in Seq(LocBox), NEW cs, Grown(bs, cs), NEW p, NearPairs(bs, p) # {}
  PROVE  NearPairs(cs, p) # {}
  <1> HIDE DEF LocBox
  <1>1. PICK w \in NearPairs(bs, p) : TRUE
    OBVIOUS
  <1>2. /\ w \in (DOMAIN pinBoxes[p]) \X (DOMAIN bs)
        /\ bs[w[2]].layer - pinBoxes[p][w[1]].layer \in -1 .. 1
        /\ IsValid(bs[w[2]].x) /\ IsValid(bs[w[2]].y)
    BY DEF NearPairs
  <1>3. w[2] \in DOMAIN bs /\ w[1] \in DOMAIN pinBoxes[p] /\ w = <<w[1], w[2]>>
    BY <1>2
  <1>4. w[2] \in DOMAIN cs /\ Wider(bs[w[2]], cs[w[2]]) /\ cs \in Seq(LocBox)
    BY <1>3 DEF Grown
  <1>5. bs[w[2]] \in LocBox /\ cs[w[2]] \in LocBox
    BY <1>3, <1>4
  <1>6. \A i, j \in Interval : IsValid(i) /\ In(i) \subseteq In(j) => IsValid(j)
    BY DEF Interval, IsValid, In
  <1>7. IsValid(cs[w[2]].x) /\ IsValid(cs[w[2]].y) /\ cs[w[2]].layer = bs[w[2]].layer
    BY <1>2, <1>4, <1>5, <1>6, LocBoxFacts DEF Wider
  <1>8. w \in (DOMAIN pinBoxes[p]) \X (DOMAIN cs)
    BY <1>3, <1>4
  <1>9. w \in NearPairs(cs, p)
    BY <1>2, <1>7, <1>8 DEF NearPairs
  <1> QED BY <1>9

\* covering a pin that has a guide near it makes no guide smaller (CoverPin)
LEMMA CoverPinGrows ==
  ASSUME NEW bs \in Seq(LocBox), NEW p, pinBoxes[p] \in Seq(LocBox), NearPairs(bs, p) # {}
  PROVE  Grown(bs, CoverPin(bs, p))
  <1> DEFINE w == ClosestPair(bs, p)
             i == w[2]
             box == pinBoxes[p][w[1]]
             b == bs[i]
             x == UnionWith(b.x, box.x)
             y == UnionWith(b.y, box.y)
             c == [b EXCEPT !.x = x, !.y = y]
  <1> HIDE DEF LocBox
  <1>1. w \in NearPairs(bs, p)
    BY ClosestPairNear
  <1> HIDE DEF w
  <1>2. w[1] \in DOMAIN pinBoxes[p] /\ i \in DOMAIN bs
    BY <1>1 DEF NearPairs
  <1>3. box \in LocBox /\ b \in LocBox
    BY <1>2
  <1>4. CoverPin(bs, p) = IF BoxDist(box, b) = 0 THEN bs ELSE [bs EXCEPT ![i] = c]
    <2>1. [bs EXCEPT ![i].x = UnionWith(@, box.x), ![i].y = UnionWith(@, box.y)] = [bs EXCEPT ![i] = c]
      <3>1. \A j \in DOMAIN bs : j = i \/ j # i
        OBVIOUS
      <3> QED BY <1>2, <1>3 DEF LocBox
    <2> QED BY <2>1 DEF CoverPin, w
  <1> HIDE DEF i, b, box
  <1>5. x \in Interval /\ y \in Interval /\ In(b.x) \subseteq In(x) /\ In(b.y) \subseteq In(y)
    BY <1>3, LocBoxFacts, UnionFacts
  <1> HIDE DEF x, y
  <1>6. c \in LocBox /\ c.x = x /\ c.y = y /\ c.layer = b.layer
    BY <1>3, <1>5 DEF LocBox, Interval
  <1> HIDE DEF c
  <1>7. Wider(bs[i], c)
    BY <1>5, <1>6 DEF Wider, b
  <1>8. Grown(bs, [bs EXCEPT ![i] = c])
    BY <1>2, <1>6, <1>7, GrownAt DEF i
  <1> QED BY <1>4, <1>8, WiderFacts

-----------------------------------------------------------------------------
(* Covering the pins, and boxes of the grid as locations                   *)

\* expandGuidesToCoverPins goes through the pins
CoverSteps(f, bs, N, near) ==
  f = [p \in 0 .. N |-> IF p = 0 THEN bs ELSE IF p \in near THEN CoverPin(f[p - 1], p) ELSE f[p - 1]]

\* nor does covering all of them, up to the first that is too far away
LEMMA CoverGrows ==
  ASSUME NEW bs \in Seq(LocBox), NEW N \in Nat, NEW near,
         \A p \in 1 .. N : pinBoxes[p] \in Seq(LocBox) /\ (p \in near => NearPairs(bs, p) # {})
  PROVE  Grown(bs, (CHOOSE f : CoverSteps(f, bs, N, near))[N])
  <1> DEFINE f == CHOOSE f : CoverSteps(f, bs, N, near)
             Good == {cs \in Seq(LocBox) : Grown(bs, cs)}
             Next1(cs, p) == IF p \in near THEN CoverPin(cs, p) ELSE cs
  <1> HIDE DEF LocBox
  <1>1. ASSUME NEW cs \in Good, NEW p \in 1 .. N PROVE Next1(cs, p) \in Good
    <2>1. cs \in Seq(LocBox) /\ Grown(bs, cs) /\ pinBoxes[p] \in Seq(LocBox)
      OBVIOUS
    <2>2. CASE p \in near
      <3>1. NearPairs(cs, p) # {}
        BY <2>1, <2>2, GrownNear
      <3>2. Grown(cs, CoverPin(cs, p))
        BY <2>1, <3>1, CoverPinGrows
      <3>3. Grown(bs, CoverPin(cs, p))
        BY <2>1, <3>2, WiderFacts
      <3> QED BY <2>2, <3>3 DEF Grown
    <2>3. CASE p \notin near
      BY <2>3
    <2> QED BY <2>2, <2>3
  <1>2. bs \in Good
    BY WiderFacts
  <1> HIDE DEF Good
  <1>3. \E h : CoverSteps(h, bs, N, near)
    <2> DEFINE g == [p \in 1 .. N |-> [cs \in Good |-> Next1(cs, p)]]
    <2>1. g \in [1 .. N -> [Good -> Good]]
      <3> HIDE DEF Next1
      <3> QED BY <1>1
    <2>2. PICK h \in [0 .. N -> Good] : Steps(h, N, bs, g)
      <3> HIDE DEF g
      <3> QED BY <1>2, <2>1, StepsExist
    <2>3. h = [n \in 0 .. N |-> IF n = 0 THEN bs ELSE g[n][h[n - 1]]]
      BY <2>2 DEF Steps
    <2>4. ASSUME NEW p \in 0 .. N
          PROVE  h[p] = IF p = 0 THEN bs ELSE IF p \in near THEN CoverPin(h[p - 1], p) ELSE h[p - 1]
      <3>1. CASE p = 0
        BY <2>3, <3>1
      <3>2. CASE p # 0
        <4>1. p \in 1 .. N /\ p - 1 \in 0 .. N
          BY <3>2
        <4>2. h[p - 1] \in Good
          BY <2>2, <4>1
        <4>3. h[p] = g[p][h[p - 1]]
          <5> HIDE DEF g
          <5> QED BY <2>3, <3>2
        <4>4. h[p] = Next1(h[p - 1], p)
          <5> HIDE DEF Next1
          <5> QED BY <4>1, <4>2, <4>3
        <4> QED BY <3>2, <4>4
      <3> QED BY <3>1, <3>2
    <2>5. h = [p \in 0 .. N |-> h[p]]
      BY <2>2
    <2>6. CoverSteps(h, bs, N, near)
      <3> HIDE DEF g
      <3> QED BY <2>4, <2>5 DEF CoverSteps
    <2> QED BY <2>6
  <1>4. CoverSteps(f, bs, N, near)
    BY <1>3
  <1> HIDE DEF f
  <1> DEFINE G == {n \in Nat : f[n] \in Good}
  <1>5. 0 \in G
    BY <1>2, <1>4 DEF CoverSteps
  <1>6. ASSUME NEW n \in 0 .. N - 1, n \in G PROVE n + 1 \in G
    <2>1. n + 1 \in 1 .. N /\ n + 1 \in Nat /\ (n + 1) - 1 = n /\ n + 1 # 0 /\ n + 1 \in 0 .. N
      OBVIOUS
    <2>2. f[n + 1] = Next1(f[n], n + 1)
      BY <1>4, <2>1 DEF CoverSteps
    <2> HIDE DEF Next1
    <2> QED BY <1>1, <1>6, <2>1, <2>2
  <1> HIDE DEF G
  <1>7. \A n \in 0 .. N : n \in G
    BY <1>5, <1>6, AllUpTo
  <1>8. f[N] \in Good
    BY <1>7 DEF G
  <1> QED BY <1>8 DEF f, Good

\* points of grid boxes, and of the boxes of locations they stand for
LEMMA LocBoxOfGridBox ==
  ASSUME NEW b \in GridBoxes, InTables(b)
  PROVE  /\ getLocBox(b) \in LocBox
         /\ \A p \in PointsIn(b) : p \in GridPoint /\ LocBoxOn(getLocBox(b), p)
  <1> DEFINE l == b.layer
             tl == b.tracks.low
             th == b.tracks.high
             cl == b.cps.low
             ch == b.cps.high
             tr == Intvl(TrackLoc[l][tl], TrackLoc[l][th])
             cr == Intvl(CrossPointLoc[l][cl], CrossPointLoc[l][ch])
  <1>1. l \in GridLayers /\ tl \in Int /\ th \in Int /\ cl \in Int /\ ch \in Int
    BY DEF GridBoxes, Interval
  <1>2. /\ tl \in Range0(NumTracks[l]) /\ th \in Range0(NumTracks[l])
        /\ cl \in Range0(NumCrossPoints[l]) /\ ch \in Range0(NumCrossPoints[l])
    BY DEF InTables
  <1>3. getLocBox(b) = BoxAt(l, tr, cr)
    BY DEF getLocBox
  <1>4. /\ PointsIn(b) = {[layer |-> l, track |-> t, cp |-> c] : t \in tl .. th, c \in cl .. ch}
    BY DEF PointsIn, In
  <1> HIDE DEF l, tl, th, cl, ch
  <1>5. tr \in Interval /\ cr \in Interval
    BY <1>1, <1>2, TrackOrder, CrossPointOrder DEF Intvl, Interval
  <1>6. \A t \in tl .. th : t \in Range0(NumTracks[l]) /\ TrackLoc[l][t] \in In(tr)
    <2>1. TAKE t \in tl .. th
    <2>2. t \in Range0(NumTracks[l]) /\ tl <= t /\ t <= th
      <3>1. NumTracks[l] \in Nat
        BY <1>1, GridAssumption
      <3> QED BY <1>1, <1>2, <3>1 DEF Range0
    <2>3. TrackLoc[l][t] \in Int /\ TrackLoc[l][tl] <= TrackLoc[l][t] /\ TrackLoc[l][t] <= TrackLoc[l][th]
          /\ TrackLoc[l][tl] \in Int /\ TrackLoc[l][th] \in Int
      BY <1>1, <1>2, <2>2, TrackOrder
    <2> QED BY <2>2, <2>3 DEF In, Intvl
  <1>7. \A c \in cl .. ch : c \in Range0(NumCrossPoints[l]) /\ CrossPointLoc[l][c] \in In(cr)
    <2>1. TAKE c \in cl .. ch
    <2>2. c \in Range0(NumCrossPoints[l]) /\ cl <= c /\ c <= ch
      <3>1. NumCrossPoints[l] \in Nat
        BY <1>1, GridAssumption
      <3> QED BY <1>1, <1>2, <3>1 DEF Range0
    <2>3. /\ CrossPointLoc[l][c] \in Int /\ CrossPointLoc[l][cl] <= CrossPointLoc[l][c]
          /\ CrossPointLoc[l][c] <= CrossPointLoc[l][ch]
          /\ CrossPointLoc[l][cl] \in Int /\ CrossPointLoc[l][ch] \in Int
      BY <1>1, <1>2, <2>2, CrossPointOrder
    <2> QED BY <2>2, <2>3 DEF In, Intvl
  <1> HIDE DEF tr, cr
  <1>8. BoxAt(l, tr, cr) \in LocBox
    BY <1>1, <1>5 DEF BoxAt, Box, LocBox, Interval
  <1>9. ASSUME NEW p \in PointsIn(b) PROVE p \in GridPoint /\ LocBoxOn(BoxAt(l, tr, cr), p)
    <2>1. PICK t \in tl .. th, c \in cl .. ch : p = [layer |-> l, track |-> t, cp |-> c]
      BY <1>4
    <2>2. /\ t \in Range0(NumTracks[l]) /\ TrackLoc[l][t] \in In(tr)
          /\ c \in Range0(NumCrossPoints[l]) /\ CrossPointLoc[l][c] \in In(cr)
      BY <1>6, <1>7
    <2>3. p \in GridPoint
      BY <1>1, <2>1, <2>2 DEF GridPoint
    <2>4. p.layer = l /\ p.track = t /\ p.cp = c
      BY <2>1
    <2>5. LocBoxOn(BoxAt(l, tr, cr), p)
      <3>1. CASE l \in TrackIsX
        BY <2>2, <2>4, <3>1 DEF LocBoxOn, BoxAt, Box, getLoc
      <3>2. CASE l \notin TrackIsX
        BY <2>2, <2>4, <3>2 DEF LocBoxOn, BoxAt, Box, getLoc
      <3> QED BY <3>1, <3>2
    <2> QED BY <2>3, <2>5
  <1> QED BY <1>3, <1>8, <1>9

-----------------------------------------------------------------------------
(* Access boxes near a box of a pin                                        *)

\* boxes with a track
TrackBoxes == {b \in GridBoxes : IsValid(b.tracks)}

\* a grid box has finitely many grid points
LEMMA PointsFinite ==
  ASSUME NEW b \in GridBoxes
  PROVE  IsFiniteSet(PointsIn(b)) /\ \A p \in PointsIn(b) : PointBox(p) \in TrackBoxes
  <1> DEFINE A == In(b.tracks)
             B == In(b.cps)
             pts == [u \in A \X B |-> [layer |-> b.layer, track |-> u[1], cp |-> u[2]]]
             P == {pts[u] : u \in A \X B}
  <1>1. /\ b.layer \in GridLayers /\ b.tracks.low \in Int /\ b.tracks.high \in Int
        /\ b.cps.low \in Int /\ b.cps.high \in Int
    BY DEF GridBoxes, Interval
  <1>2. A \subseteq Int /\ B \subseteq Int
    BY <1>1 DEF In
  <1>3. IsFiniteSet(A) /\ IsFiniteSet(B)
    BY <1>1, FS_Interval DEF In
  <1> HIDE DEF A, B
  <1>4. IsFiniteSet(A \X B)
    BY <1>3, FS_Product
  <1>5. IsFiniteSet(P)
    <2> HIDE DEF pts
    <2> QED BY <1>4, ImageFinite
  <1>6. \A p \in PointsIn(b) : \E t \in A, c \in B : p = [layer |-> b.layer, track |-> t, cp |-> c]
    BY DEF PointsIn, A, B
  <1>7. PointsIn(b) \in SUBSET P
    <2>1. SUFFICES ASSUME NEW p \in PointsIn(b) PROVE p \in P
      OBVIOUS
    <2>2. PICK t \in A, c \in B : p = [layer |-> b.layer, track |-> t, cp |-> c]
      BY <1>6
    <2>3. <<t, c>> \in A \X B /\ pts[<<t, c>>] = p
      BY <2>2
    <2> HIDE DEF pts
    <2> QED BY <2>3
  <1> HIDE DEF P
  <1>8. IsFiniteSet(PointsIn(b))
    BY <1>5, <1>7, FS_Subset
  <1>9. ASSUME NEW p \in PointsIn(b) PROVE PointBox(p) \in TrackBoxes
    <2>1. PICK t \in A, c \in B : p = [layer |-> b.layer, track |-> t, cp |-> c]
      BY <1>6
    <2>2. p.layer = b.layer /\ p.track \in Int /\ p.cp \in Int
      BY <1>2, <2>1
    <2>3. Intvl(p.track, p.track) \in Interval /\ Intvl(p.cp, p.cp) \in Interval
          /\ IsValid(Intvl(p.track, p.track))
      BY <2>2 DEF Intvl, Interval, IsValid
    <2> QED BY <1>1, <2>2, <2>3 DEF PointBox, GridBox, TrackBoxes, GridBoxes
  <1> QED BY <1>8, <1>9

\* the access boxes near a box are grid boxes with tracks
LEMMA AccessOutsideType ==
  ASSUME NEW box, NEW forbidden \in GridBoxes, NEW extension \in GridBoxes
  PROVE  AccessOutside(box, forbidden, extension) \in Seq(TrackBoxes)
  <1> DEFINE Q == {q \in PointsIn(extension) :
                     /\ ~includePoint(forbidden, q)
                     /\ BoxDist(box, getLocBox(PointBox(q))) <= Pitch[box.layer]}
             near == {PointBox(p) : p \in Q}
             rank == [b \in near |-> <<b.tracks.low, b.cps.low>>]
             first == IF isValid(forbidden) THEN <<forbidden>> ELSE <<>>
             rest == InOrder(near, rank)
  <1>1. AccessOutside(box, forbidden, extension) = first \o rest
    BY DEF AccessOutside
  <1>2. IsFiniteSet(PointsIn(extension)) /\ \A p \in PointsIn(extension) : PointBox(p) \in TrackBoxes
    BY PointsFinite
  <1>3. Q \in SUBSET PointsIn(extension)
    OBVIOUS
  <1> HIDE DEF Q
  <1>4. IsFiniteSet(Q)
    BY <1>2, <1>3, FS_Subset
  <1>5. IsFiniteSet(near)
    <2> DEFINE pb == [p \in Q |-> PointBox(p)]
    <2>1. near = {pb[p] : p \in Q}
      OBVIOUS
    <2> HIDE DEF pb, near
    <2> QED BY <1>4, <2>1, ImageFinite
  <1>6. near \in SUBSET TrackBoxes
    BY <1>2, <1>3
  <1> HIDE DEF near
  <1>7. rank \in [near -> Int \X Int]
    <2>1. \A b \in near : b.tracks.low \in Int /\ b.cps.low \in Int
      BY <1>6 DEF TrackBoxes, GridBoxes, Interval
    <2> QED BY <2>1
  <1> HIDE DEF rank
  <1>8. rest \in Seq(near)
    <2>1. InOrderOf(rest, near, rank)
      BY <1>5, <1>7, InOrderFacts
    <2> QED BY <2>1 DEF InOrderOf
  <1> HIDE DEF rest
  <1>9. rest \in Seq(TrackBoxes)
    <2> HIDE DEF TrackBoxes
    <2> QED BY <1>6, <1>8, SeqMonotonic
  <1>10. first \in Seq(TrackBoxes)
    <2>1. CASE isValid(forbidden)
      <3>1. forbidden \in TrackBoxes
        BY <2>1 DEF isValid, isTrackRangeValid, TrackBoxes
      <3> HIDE DEF TrackBoxes
      <3> QED BY <2>1, <3>1
    <2>2. CASE ~isValid(forbidden)
      BY <2>2
    <2> QED BY <2>1, <2>2
  <1> HIDE DEF first, TrackBoxes
  <1> QED BY <1>1, <1>9, <1>10, ConcatProperties

\* with the margins of the layer
LEMMA AccessNearType ==
  ASSUME NEW box \in LocBox
  PROVE  AccessNear(box) \in Seq(TrackBoxes)
  <1> DEFINE l == box.layer
             x == Widen(box.x, ForbidMargin[l])
             y == Widen(box.y, ForbidMargin[l])
             wide == [box EXCEPT !.x = x, !.y = y]
  <1>1. l \in GridLayers /\ box.x \in Interval /\ box.y \in Interval
    BY LocBoxFacts
  <1>2. ForbidMargin[l] \in Nat
    BY <1>1, LocalNetAssumption
  <1>3. x \in Interval /\ y \in Interval
    BY <1>1, <1>2, WidenFacts
  <1>4. AccessNear(box) = AccessOutside(box, rangeSearch(wide), rangeSearch(expandBox(box, 1)))
    BY DEF AccessNear
  <1> HIDE DEF x, y
  <1>5. wide \in LocBox
    BY <1>3 DEF LocBox, Interval
  <1>6. expandBox(box, 1) \in LocBox
    BY ExpandBoxWider
  <1> HIDE DEF wide, LocBox
  <1>7. rangeSearch(wide) \in GridBoxes /\ rangeSearch(expandBox(box, 1)) \in GridBoxes
    BY <1>5, <1>6, RangeSearchExact
  <1> QED BY <1>4, <1>7, AccessOutsideType

-----------------------------------------------------------------------------
(* Access boxes of a pin                                                   *)

\* a box moved to the nearest track and cross point is a grid box with tracks
LEMMA SnappedType ==
  ASSUME NEW b \in GridBoxes
  PROVE  Snapped(b) \in TrackBoxes
  <1>1. b.layer \in GridLayers /\ b.tracks \in Interval /\ b.cps \in Interval
    BY DEF GridBoxes
  <1>2. \A i \in Interval : Snap(i) \in Interval /\ IsValid(Snap(i))
    BY DEF Snap, Intvl, Interval, IsValid
  <1>3. Snap(b.tracks) \in Interval /\ Snap(b.cps) \in Interval /\ IsValid(Snap(b.tracks))
    BY <1>1, <1>2
  <1> DEFINE t == Snap(b.tracks)
             c == Snap(b.cps)
  <1> HIDE DEF t, c
  <1>4. [layer |-> b.layer, tracks |-> t, cps |-> c] \in GridBoxes
    BY <1>1, <1>3 DEF GridBoxes, t, c
  <1>5. [layer |-> b.layer, tracks |-> t, cps |-> c].tracks = t
    OBVIOUS
  <1>6. Snapped(b) = [layer |-> b.layer, tracks |-> t, cps |-> c]
    BY DEF Snapped, GridBox, t, c
  <1> QED BY <1>3, <1>4, <1>5, <1>6 DEF TrackBoxes, t

\* the access boxes of a pin, sliced
LEMMA TapBoxesType ==
  ASSUME NEW pin \in Seq(LocBox)
  PROVE  TapBoxes(pin) \in Seq(GridBoxes)
  <1> DEFINE found == [i \in DOMAIN pin |-> AccessNear(pin[i])]
             near == FlattenSeq(found)
             far == [i \in DOMAIN pin |-> Snapped(rangeSearch(pin[i]))]
             taps == IF near # <<>> THEN near ELSE far
             slices == FlattenSeq([i \in 1 .. LayerNum |-> sliceGridPolygons(OnLayer(taps, i - 1))])
  <1> HIDE DEF LocBox, GridBoxes, TrackBoxes
  <1>1. \A i \in DOMAIN pin : pin[i] \in LocBox
    OBVIOUS
  <1>2. near \in Seq(TrackBoxes)
    <2>1. DOMAIN found = DOMAIN pin /\ found = [i \in DOMAIN pin |-> found[i]]
          /\ \A i \in DOMAIN pin : found[i] = AccessNear(pin[i])
      OBVIOUS
    <2> HIDE DEF found
    <2>2. \A i \in DOMAIN pin : found[i] \in Seq(TrackBoxes)
      BY <1>1, <2>1, AccessNearType
    <2>3. found \in Seq(Seq(TrackBoxes))
      BY <2>1, <2>2, MapType
    <2> QED BY <2>3, FlattenType
  <1>3. far \in Seq(TrackBoxes)
    <2>1. DOMAIN far = DOMAIN pin /\ far = [i \in DOMAIN pin |-> far[i]]
          /\ \A i \in DOMAIN pin : far[i] = Snapped(rangeSearch(pin[i]))
      OBVIOUS
    <2> HIDE DEF far
    <2>2. \A i \in DOMAIN pin : far[i] \in TrackBoxes
      BY <1>1, <2>1, RangeSearchExact, SnappedType
    <2> QED BY <2>1, <2>2, MapType
  <1> HIDE DEF near, far
  <1>4. taps \in Seq(TrackBoxes)
    BY <1>2, <1>3
  <1>5. OrFar(pin, near) = taps
    BY DEF OrFar, far
  <1> HIDE DEF taps
  <1>6. taps \in Seq(GridBoxes) /\ \A i \in DOMAIN taps : IsValid(taps[i].tracks)
    <2>1. TrackBoxes \subseteq GridBoxes
      BY DEF TrackBoxes
    <2>2. \A i \in DOMAIN taps : taps[i] \in TrackBoxes
      BY <1>4
    <2>3. \A i \in DOMAIN taps : IsValid(taps[i].tracks)
      BY <2>2 DEF TrackBoxes
    <2> QED BY <1>4, <2>1, <2>3, SeqMonotonic
  <1>7. slices \in Seq(GridBoxes)
    <2>1. Sliceable(taps)
      BY <1>6 DEF Sliceable
    <2> QED BY <1>6, <2>1, SliceLayers
  <1> DEFINE valid == {b \in ToSet(slices) : isValid(b)}
  <1>8. TapBoxes(pin) = Only(slices, valid)
    <2>1. TapBoxes(pin) = Sliced(taps)
      BY <1>5 DEF TapBoxes, Concat, near
    <2> QED BY <2>1 DEF Sliced, PerLayer, Concat
  <1> HIDE DEF slices, valid
  <1> QED BY <1>7, <1>8, OnlyFacts

\* the tracks around a location are an interval
LEMMA SurroundingTrack ==
  ASSUME NEW l \in GridLayers, NEW loc \in Int
  PROVE  /\ getSurroundingTrack(l, loc) \in Interval
         /\ getSurroundingTrack(l, loc).low \in Range0(NumTracks[l])
         /\ getSurroundingTrack(l, loc).high \in Range0(NumTracks[l])
  <1> DEFINE N == NumTracks[l]
             p == Pitch[l]
             F == FirstTrackLoc(l)
             L == LastTrackLoc(l)
             o == Lesser(Greater(F, loc), L) - F
  <1>1. N \in Nat \ {0} /\ p \in Nat \ {0} /\ 0 \in Range0(N) /\ N - 1 \in Range0(N)
    BY GridAssumption, LayerListAssumption DEF Range0
  <1>2. F \in Int
    BY <1>1, GridAssumption DEF FirstTrackLoc
  <1>3. L = F + (N - 1) * p
    BY <1>1, PitchAssumption DEF FirstTrackLoc, LastTrackLoc
  <1>4. getSurroundingTrack(l, loc) = Intvl(o \div p, CeilDiv(o, p))
    BY DEF getSurroundingTrack
  <1> HIDE DEF N, p, F, L
  <1> DEFINE q == (N - 1) * p
  <1>5. q \in Int /\ 0 * p <= q
    <2>1. 0 <= N - 1 /\ N - 1 \in Int /\ 0 \in Int
      BY <1>1
    <2>2. 0 * p <= (N - 1) * p
      BY <1>1, <2>1, ProductOrder
    <2>3. (N - 1) * p \in Int
      BY <1>1
    <2> QED BY <2>2, <2>3
  <1>6. 0 * p = 0
    BY <1>1
  <1>7. L = F + q
    BY <1>3
  <1> HIDE DEF q
  <1>8. o \in Int /\ 0 <= o /\ o <= q
    BY <1>2, <1>5, <1>6, <1>7 DEF Lesser, Greater
  <1> HIDE DEF o
  <1>9. o \div p \in Int /\ \A t \in Int : t <= o \div p <=> t * p <= o
    BY <1>1, <1>8, FloorFacts
  <1>10. CeilDiv(o, p) \in Int /\ \A t \in Int : CeilDiv(o, p) <= t <=> o <= t * p
    BY <1>1, <1>8, CeilFacts
  <1> DEFINE a == o \div p
             b == CeilDiv(o, p)
  <1>11. a \in Int /\ b \in Int
    BY <1>9, <1>10
  <1>12. 0 <= a
    BY <1>6, <1>8, <1>9
  <1>13. b <= N - 1
    <2>1. N - 1 \in Int /\ o <= (N - 1) * p
      BY <1>1, <1>8 DEF q
    <2> QED BY <1>10, <2>1
  <1>14. a * p <= o /\ o <= b * p
    <2>1. a <= a /\ b <= b
      BY <1>11
    <2> HIDE DEF a, b
    <2> QED BY <1>9, <1>10, <1>11, <2>1 DEF a, b
  <1> HIDE DEF a, b
  <1>15. a <= b
    <2>1. a * p <= b * p
      <3>1. a * p \in Int /\ b * p \in Int
        BY <1>1, <1>11
      <3> QED BY <1>8, <1>14, <3>1
    <2> QED BY <1>1, <1>11, <2>1, ProductOrder
  <1>16. a \in Range0(N) /\ b \in Range0(N)
    BY <1>1, <1>11, <1>12, <1>13, <1>15 DEF Range0
  <1>17. getSurroundingTrack(l, loc) = Intvl(a, b)
    BY <1>4 DEF a, b
  <1> QED BY <1>11, <1>16, <1>17 DEF Intvl, Interval, N

-----------------------------------------------------------------------------
(* Access from other layers                                                *)

\* and so are the cross points
LEMMA SurroundingCrossPoint ==
  ASSUME NEW l \in GridLayers, NEW loc \in Int
  PROVE  getSurroundingCrossPoint(l, loc) \in Interval
  <1>1. /\ LayerNum \in Nat /\ LayerNum > 1 /\ 1 \in GridLayers
        /\ (l = LayerNum - 1 => l - 1 \in GridLayers)
        /\ (l # 0 /\ l # LayerNum - 1 => l - 1 \in GridLayers /\ l + 1 \in GridLayers)
    BY GridAssumption, LayerListAssumption DEF GridLayers
  <1>2. CASE l = 0
    BY <1>1, <1>2, SurroundingTrack DEF getSurroundingCrossPoint
  <1>3. CASE l # 0 /\ l = LayerNum - 1
    BY <1>1, <1>3, SurroundingTrack DEF getSurroundingCrossPoint
  <1>4. CASE l # 0 /\ l # LayerNum - 1
    <2> DEFINE U == getSurroundingTrack(l + 1, loc)
               D == getSurroundingTrack(l - 1, loc)
               from == [t \in Range0(NumTracks[l + 1]) |-> LowerCrossPoint(l + 1, t)]
    <2>1. l + 1 \in GridLayers /\ l - 1 \in GridLayers
      BY <1>1, <1>4
    <2>2. /\ U.low \in Range0(NumTracks[l + 1]) /\ U.high \in Range0(NumTracks[l + 1])
          /\ D.low \in Range0(NumTracks[l - 1]) /\ D.high \in Range0(NumTracks[l - 1])
      BY <2>1, SurroundingTrack
    <2> HIDE DEF U, D
    <2>3. \A t \in Range0(NumTracks[l + 1]) : LowerCrossPoint(l + 1, t) \in Range0(NumCrossPoints[l])
      <3>1. Crosses(l, l + 1, from, {c \in Range0(NumCrossPoints[l]) : UpperTrack[l][c] # -1})
        BY <2>1, CrossesAbove
      <3>2. \A t \in Range0(NumTracks[l + 1]) : from[t] \in Range0(NumCrossPoints[l])
        <4> HIDE DEF from
        <4> QED BY <3>1 DEF Crosses
      <3> QED BY <3>2
    <2>4. \A t \in Range0(NumTracks[l - 1]) : UpperCrossPoint[l - 1][t] \in Range0(NumCrossPoints[l])
      <3>1. Crosses(l, l - 1, [t \in Range0(NumTracks[l - 1]) |-> UpperCrossPoint[l - 1][t]],
                    {c \in Range0(NumCrossPoints[l]) :
                       \E t \in Range0(NumTracks[l - 1]) : UpperCrossPoint[l - 1][t] = c})
        BY <2>1, CrossesBelow
      <3> DEFINE down == [t \in Range0(NumTracks[l - 1]) |-> UpperCrossPoint[l - 1][t]]
      <3>2. \A t \in Range0(NumTracks[l - 1]) : down[t] \in Range0(NumCrossPoints[l])
        <4> HIDE DEF down
        <4>1. Crosses(l, l - 1, down, {c \in Range0(NumCrossPoints[l]) :
                       \E t \in Range0(NumTracks[l - 1]) : UpperCrossPoint[l - 1][t] = c})
          BY <3>1 DEF down
        <4> QED BY <4>1 DEF Crosses
      <3> QED BY <3>2
    <2>5. \A c \in Range0(NumCrossPoints[l]) : c \in Int
      BY GridAssumption DEF Range0
    <2>6. \A a, b, c, d \in Int : IntersectWith(Intvl(a, b), Intvl(c, d)) \in Interval
      BY DEF IntersectWith, Intvl, Interval, Greater, Lesser
    <2>7. getSurroundingCrossPoint(l, loc) =
            IntersectWith(getLowerCrossPointRange(l + 1, U), getUpperCrossPointRange(l - 1, D))
      BY <1>4 DEF getSurroundingCrossPoint, U, D
    <2>8. (l + 1) - 1 = l
      BY DEF GridLayers
    <2> HIDE DEF Interval, IntersectWith, Intvl
    <2> QED BY <2>2, <2>3, <2>4, <2>5, <2>6, <2>7 DEF getLowerCrossPointRange, getUpperCrossPointRange
  <1> QED BY <1>2, <1>3, <1>4

\* the surrounding grid points are a grid box
LEMMA SurroundingGridType ==
  ASSUME NEW l \in GridLayers, NEW x \in Int, NEW y \in Int
  PROVE  getSurroundingGrid(l, x, y) \in GridBoxes
  <1> DEFINE at == Box(l, x, y)
  <1>1. Across(l, at) \in Int /\ Along(l, at) \in Int
    BY DEF Across, Along, Box
  <1> HIDE DEF at
  <1>2. getSurroundingTrack(l, Across(l, at)) \in Interval /\ getSurroundingCrossPoint(l, Along(l, at)) \in Interval
    BY <1>1, SurroundingTrack, SurroundingCrossPoint
  <1>3. getSurroundingGrid(l, x, y) =
          GridBox(l, getSurroundingTrack(l, Across(l, at)), getSurroundingCrossPoint(l, Along(l, at)))
    BY DEF getSurroundingGrid, at
  <1> QED BY <1>2, <1>3 DEF GridBox, GridBoxes

\* access from the layers next to the best box of a pin
LEMMA DiffLayerBoxesType ==
  ASSUME NEW best \in LocBox
  PROVE  DiffLayerBoxes(best) \in Seq(GridBoxes)
  <1> DEFINE x == (best.x.low + best.x.high) \div 2
             y == (best.y.low + best.y.high) \div 2
             two == <<best.layer - 1, best.layer + 1>>
             layers == Only(two, GridLayers)
             r == [i \in DOMAIN layers |-> getSurroundingGrid(layers[i], x, y)]
  <1>1. best.layer \in Int
    BY LocBoxFacts DEF GridLayers
  <1>2. x \in Int /\ y \in Int
    <2>1. best.x \in Interval /\ best.y \in Interval
      BY LocBoxFacts
    <2> QED BY <2>1 DEF Interval
  <1>3. two \in Seq(Int)
    BY <1>1
  <1>4. DiffLayerBoxes(best) = r
    BY DEF DiffLayerBoxes
  <1> HIDE DEF two, x, y
  <1>5. layers \in Seq(Int) /\ \A e : e \in Elements(layers) <=> e \in Elements(two) /\ e \in GridLayers
    BY <1>3, OnlyFacts
  <1> HIDE DEF layers
  <1>6. \A i \in DOMAIN layers : layers[i] \in GridLayers
    BY <1>5 DEF Elements
  <1>7. DOMAIN r = DOMAIN layers /\ r = [i \in DOMAIN layers |-> r[i]]
        /\ \A i \in DOMAIN layers : r[i] = getSurroundingGrid(layers[i], x, y)
    OBVIOUS
  <1> HIDE DEF r, GridBoxes
  <1>8. \A i \in DOMAIN layers : r[i] \in GridBoxes
    BY <1>2, <1>6, <1>7, SurroundingGridType
  <1>9. r \in Seq(GridBoxes)
    BY <1>5, <1>7, <1>8, MapType
  <1> QED BY <1>4, <1>9

\* the largest box of a pin is one of its boxes (getMaxAccessBox)
LEMMA MaxAccessBoxType ==
  ASSUME NEW pin \in Seq(LocBox), pin # <<>>
  PROVE  getMaxAccessBox(pin) \in LocBox
  <1> DEFINE D == DOMAIN pin
             r == [i \in D |-> <<-Area(pin[i]), i>>]
  <1> HIDE DEF LocBox
  <1>1. D = 1 .. Len(pin) /\ Len(pin) \in Nat \ {0}
    BY EmptySeq
  <1>2. \A i \in D : pin[i] \in LocBox
    OBVIOUS
  <1>3. \A b \in LocBox : Area(b) \in Int
    <2>1. \A b \in LocBox : b.x.low \in Int /\ b.x.high \in Int /\ b.y.low \in Int /\ b.y.high \in Int
      BY LocBoxFacts DEF Interval
    <2>2. \A m, n, k, j \in Int : (m - n) * (k - j) \in Int
      OBVIOUS
    <2> QED BY <2>1, <2>2 DEF Area
  <1>4. \A i \in D : Area(pin[i]) \in Int
    BY <1>2, <1>3
  <1>5. IsFiniteSet(D) /\ D # {} /\ D \in SUBSET D
    <2>1. IsFiniteSet(1 .. Len(pin)) /\ 1 \in 1 .. Len(pin)
      BY <1>1, FS_Interval
    <2> HIDE DEF D
    <2> QED BY <1>1, <2>1
  <1>6. r \in [D -> Int \X Int]
    BY <1>1, <1>4
  <1>7. PICK i \in D : \A j \in D : Lex(r[i], r[j])
    <2> HIDE DEF D, r
    <2> QED BY <1>5, <1>6, LexLeast
  <1>8. \A j \in D : Area(pin[j]) < Area(pin[i]) \/ (Area(pin[j]) = Area(pin[i]) /\ i <= j)
    <2>1. TAKE j \in D
    <2>2. Lex(<<-Area(pin[i]), i>>, <<-Area(pin[j]), j>>)
      BY <1>7
    <2>3. -Area(pin[i]) < -Area(pin[j]) \/ (-Area(pin[i]) = -Area(pin[j]) /\ i <= j)
      BY <2>2 DEF Lex
    <2>4. Area(pin[i]) \in Int /\ Area(pin[j]) \in Int
      BY <1>4
    <2> QED BY <2>3, <2>4
  <1>9. (CHOOSE k \in DOMAIN pin :
           \A j \in DOMAIN pin : \/ Area(pin[j]) < Area(pin[k])
                                 \/ Area(pin[j]) = Area(pin[k]) /\ k <= j) \in D
    BY <1>8
  <1> QED BY <1>2, <1>9 DEF getMaxAccessBox

\* the access boxes of a pin are grid boxes
LEMMA AccessBoxesType ==
  ASSUME NEW pin \in Seq(LocBox), pin # <<>>
  PROVE  getGridPinAccessBoxes(pin) \in Seq(GridBoxes)
  <1> DEFINE taps == TapBoxes(pin)
             diff == DiffLayerBoxes(getMaxAccessBox(pin))
  <1> HIDE DEF GridBoxes, LocBox
  <1>1. taps \in Seq(GridBoxes)
    BY TapBoxesType
  <1>2. diff \in Seq(GridBoxes)
    BY MaxAccessBoxType, DiffLayerBoxesType
  <1>3. getGridPinAccessBoxes(pin) = IF AllTapsPoor(taps) THEN taps \o diff ELSE taps
    BY DEF getGridPinAccessBoxes, WithDiffLayer
  <1> HIDE DEF taps, diff
  <1> QED BY <1>1, <1>2, <1>3, ConcatProperties

-----------------------------------------------------------------------------
(* Guides as the database slices them (sliceRouteGuides)                   *)

\* boxes of locations in either direction
LEMMA Extent ==
  ASSUME NEW f \in {"x", "y"}
  PROVE  \A b \in LocBox : b[f] \in Interval /\ \A i \in Interval : [b EXCEPT ![f] = i] \in LocBox
  <1>1. ASSUME NEW b \in LocBox, NEW i \in Interval
        PROVE  /\ b["x"] \in Interval /\ b["y"] \in Interval
               /\ [b EXCEPT !["x"] = i] \in LocBox /\ [b EXCEPT !["y"] = i] \in LocBox
    <2>1. b \in [layer : GridLayers, x : Interval, y : Interval]
      BY LocBoxFacts
    <2>2. b["x"] \in Interval /\ b["y"] \in Interval
      BY <2>1
    <2>3. [b EXCEPT !["x"] = i] = [b EXCEPT !.x = i] /\ [b EXCEPT !["y"] = i] = [b EXCEPT !.y = i]
      BY <2>1
    <2>4. [b EXCEPT !.x = i] \in LocBox /\ [b EXCEPT !.y = i] \in LocBox
      BY LocBoxFacts
    <2> QED BY <2>2, <2>3, <2>4
  <1>2. Interval # {}
    <2>1. [low |-> 0, high |-> 0] \in Interval
      BY DEF Interval
    <2> QED BY <2>1
  <1> HIDE DEF LocBox, Interval
  <1>3. CASE f = "x"
    BY <1>1, <1>2, <1>3
  <1>4. CASE f = "y"
    BY <1>1, <1>2, <1>4
  <1> QED BY <1>3, <1>4

\* a box of locations added to others
LEMMA WithLocBoxType ==
  ASSUME NEW f, NEW g \in {"x", "y"}, NEW m \in Seq(LocBox), NEW b \in LocBox
  PROVE  WithBox(m, b, f, g) \in Seq(LocBox)
  <1> DEFINE c == [b EXCEPT ![g] = UnionWith(Last(m)[g], b[g])]
  <1> HIDE DEF LocBox
  <1>1. WithBox(m, b, f, g) = IF m # <<>> /\ Last(m)[f] = b[f] /\ b[g].low <= Last(m)[g].high
                              THEN Append(Front(m), c) ELSE Append(m, b)
    BY DEF WithBox
  <1>2. ASSUME m # <<>> PROVE Append(Front(m), c) \in Seq(LocBox)
    <2>1. Last(m) \in LocBox
      BY <1>2, LastFacts
    <2>2. Last(m)[g] \in Interval /\ b[g] \in Interval
      BY <2>1, Extent
    <2>3. UnionWith(Last(m)[g], b[g]) \in Interval
      BY <2>2, UnionFacts
    <2>4. c \in LocBox
      BY <2>3, Extent
    <2> HIDE DEF c
    <2> QED BY <1>2, <2>4, WithLast
  <1>3. Append(m, b) \in Seq(LocBox)
    BY AppendProperties
  <1> HIDE DEF c
  <1> QED BY <1>1, <1>2, <1>3

\* boxes of locations merged
LEMMA MergeRectsType ==
  ASSUME NEW boxes \in SUBSET LocBox, IsFiniteSet(boxes), NEW f \in {"x", "y"}, NEW g \in {"x", "y"}
  PROVE  MergeRects(boxes, f, g) \in Seq(LocBox)
  <1>1. \A b \in LocBox : b[f].low \in Int /\ b[g].low \in Int
    <2>1. \A b \in LocBox : b[f] \in Interval /\ b[g] \in Interval
      BY Extent
    <2> QED BY <2>1 DEF Interval
  <1> HIDE DEF LocBox
  <1>2. \A m \in Seq(LocBox), b \in LocBox : WithBox(m, b, f, g) \in Seq(LocBox)
    BY WithLocBoxType
  <1>3. MergesInOrder(LocBox, boxes, f, g)
    BY <1>1, <1>2, MergeRectsSteps
  <1>4. PICK s \in Seq(LocBox) : \E h \in [0 .. Len(s) -> Seq(LocBox)] : MergeRects(boxes, f, g) = h[Len(s)]
    BY <1>3 DEF MergesInOrder
  <1>5. PICK h \in [0 .. Len(s) -> Seq(LocBox)] : MergeRects(boxes, f, g) = h[Len(s)]
    BY <1>4
  <1>6. Len(s) \in 0 .. Len(s)
    <2>1. Len(s) \in Nat
      OBVIOUS
    <2> QED BY <2>1
  <1> QED BY <1>5, <1>6

\* boxes of locations sliced are boxes of locations (SlicePolygons)
LEMMA SlicePolygonsType ==
  ASSUME NEW l, NEW boxes \in Seq(LocBox)
  PROVE  SlicePolygons(l, boxes) \in Seq(LocBox)
  <1> DEFINE sweep == IF l \in TrackIsX THEN "x" ELSE "y"
             slice == IF l \in TrackIsX THEN "y" ELSE "x"
             S == ToSet(boxes)
             locs == UNION {{b[sweep].low, b[sweep].high} : b \in S}
             pairs(b) == {v \in locs \X locs :
                            /\ b[sweep].low <= v[1] /\ v[1] < v[2] /\ v[2] <= b[sweep].high
                            /\ locs \cap (v[1] + 1 .. v[2] - 1) = {}}
             slabs(b) == {[b EXCEPT ![sweep] = Intvl(w[1], w[2])] : w \in pairs(b)}
             sliced == UNION {slabs(b) : b \in S}
  <1>1. SlicePolygons(l, boxes) = IF Len(boxes) <= 1 THEN boxes
                                  ELSE MergeRects(ToSet(MergeRects(sliced, sweep, slice)), slice, sweep)
    BY DEF SlicePolygons
  <1>2. sweep \in {"x", "y"} /\ slice \in {"x", "y"}
    OBVIOUS
  <1> HIDE DEF sweep, slice, LocBox
  <1>3. S \in SUBSET LocBox /\ IsFiniteSet(S)
    BY ToSetFinite
  <1> HIDE DEF S
  <1>4. locs \in SUBSET Int
    <2>1. \A b \in S : b[sweep] \in Interval
      BY <1>2, <1>3, Extent
    <2>2. \A b \in S : b[sweep].low \in Int /\ b[sweep].high \in Int
      BY <2>1 DEF Interval
    <2> QED BY <2>2
  <1>5. IsFiniteSet(locs)
    <2> DEFINE ends == [b \in S |-> {b[sweep].low, b[sweep].high}]
               E == {ends[b] : b \in S}
    <2>1. IsFiniteSet(E)
      <3> HIDE DEF ends
      <3> QED BY <1>3, ImageFinite
    <2>2. \A e \in E : IsFiniteSet(e)
      <3>1. \A x, y : IsFiniteSet({x, y})
        BY PairFinite
      <3>2. ASSUME NEW b \in S PROVE IsFiniteSet(ends[b])
        <4>1. ends[b] = {b[sweep].low, b[sweep].high}
          OBVIOUS
        <4> HIDE DEF ends
        <4> QED BY <3>1, <4>1, ZenonT(30)
      <3> HIDE DEF ends
      <3> QED BY <3>2
    <2>3. IsFiniteSet(UNION E)
      <3> HIDE DEF E
      <3> QED BY <2>1, <2>2, FS_UNION
    <2>4. E = {{b[sweep].low, b[sweep].high} : b \in S}
      OBVIOUS
    <2> HIDE DEF E
    <2> QED BY <2>3, <2>4
  <1> HIDE DEF locs
  <1>6. IsFiniteSet(locs \X locs)
    BY <1>5, FS_Product
  <1>7. ASSUME NEW b \in S PROVE slabs(b) \in SUBSET LocBox /\ IsFiniteSet(slabs(b))
    <2> DEFINE Q == pairs(b)
               cut == [w \in Q |-> [b EXCEPT ![sweep] = Intvl(w[1], w[2])]]
    <2>1. Q \in SUBSET (locs \X locs)
      OBVIOUS
    <2> HIDE DEF Q
    <2>2. IsFiniteSet(Q)
      BY <1>6, <2>1, FS_Subset
    <2>3. \A w \in Q : Intvl(w[1], w[2]) \in Interval
      <3>1. \A w \in Q : w[1] \in Int /\ w[2] \in Int
        BY <1>4, <2>1
      <3> QED BY <3>1 DEF Intvl, Interval
    <2>4. \A w \in Q : [b EXCEPT ![sweep] = Intvl(w[1], w[2])] \in LocBox
      BY <1>2, <1>3, <2>3, Extent
    <2>5. slabs(b) = {cut[w] : w \in Q}
      BY DEF Q
    <2>6. IsFiniteSet({cut[w] : w \in Q})
      <3> HIDE DEF cut
      <3> QED BY <2>2, ImageFinite
    <2>7. {cut[w] : w \in Q} \in SUBSET LocBox
      BY <2>4
    <2> HIDE DEF cut
    <2> QED BY <2>5, <2>6, <2>7
  <1>8. sliced \in SUBSET LocBox /\ IsFiniteSet(sliced)
    <2> DEFINE cuts == [b \in S |-> slabs(b)]
               E == {cuts[b] : b \in S}
    <2> HIDE DEF slabs
    <2>1. \A b \in S : cuts[b] \in SUBSET LocBox /\ IsFiniteSet(cuts[b])
      BY <1>7
    <2>2. IsFiniteSet(E)
      <3> HIDE DEF cuts
      <3> QED BY <1>3, ImageFinite
    <2>3. E = {slabs(b) : b \in S}
      OBVIOUS
    <2>4. \A e \in E : e \in SUBSET LocBox /\ IsFiniteSet(e)
      <3> HIDE DEF cuts
      <3> QED BY <2>1
    <2> HIDE DEF E
    <2>5. IsFiniteSet(UNION E) /\ UNION E \in SUBSET LocBox
      BY <2>2, <2>4, FS_UNION
    <2> QED BY <2>3, <2>5
  <1> HIDE DEF sliced
  <1>9. MergeRects(sliced, sweep, slice) \in Seq(LocBox)
    BY <1>2, <1>8, MergeRectsType
  <1> DEFINE T == ToSet(MergeRects(sliced, sweep, slice))
  <1>10. T \in SUBSET LocBox /\ IsFiniteSet(T)
    BY <1>9, ToSetFinite
  <1> HIDE DEF T
  <1>11. MergeRects(T, slice, sweep) \in Seq(LocBox)
    BY <1>2, <1>10, MergeRectsType
  <1> QED BY <1>1, <1>11 DEF T

\* and so are the guides of a net as the database slices them
LEMMA SliceRouteGuidesType ==
  ASSUME NEW boxes \in Seq(LocBox)
  PROVE  sliceRouteGuides(boxes) \in Seq(LocBox)
  <1> DEFINE ss == [i \in 1 .. LayerNum |-> SlicePolygons(i - 1, OnLayer(boxes, i - 1))]
  <1> HIDE DEF LocBox
  <1>1. \A l : SlicePolygons(l, OnLayer(boxes, l)) \in Seq(LocBox)
    <2>1. \A l : OnLayer(boxes, l) \in Seq(LocBox)
      BY OnLayerFacts
    <2> QED BY <2>1, SlicePolygonsType
  <1>2. ss \in [1 .. LayerNum -> Seq(LocBox)]
    BY <1>1
  <1>3. sliceRouteGuides(boxes) = FlattenSeq(ss)
    BY DEF sliceRouteGuides, PerLayer, Concat
  <1> HIDE DEF ss
  <1>4. ss \in Seq(Seq(LocBox))
    BY <1>2, GridAssumption, SeqDef
  <1> QED BY <1>3, <1>4, FlattenType

-----------------------------------------------------------------------------
(* The inductive invariant: the guides are boxes of the grid's layers,     *)
(* each pin has access boxes, and of the guides put on the grid (by the    *)
(* last attempt) no grid point has been lost from the guides since.        *)

StillCovered ==
  \A p \in Covered(gridGuides) : p \in GridPoint /\ \E i \in DOMAIN guides : LocBoxOn(guides[i], p)

PinInv ==
  /\ dbNet.pins \in Seq(Seq(LocBox) \ {<<>>})
  /\ \A p \in Pins : pinBoxes[p] \in Seq(LocBox)

IInv ==
  /\ guides \in Seq(LocBox)
  /\ iter \in Nat /\ numPitch \in Nat
  /\ PinInv
  /\ StillCovered

\* what boxes cover, by their elements
LEMMA CoveredFacts ==
  ASSUME NEW boxes
  PROVE  \A p : p \in Covered(boxes) <=> \E e \in Elements(boxes) : p \in PointsIn(e)
  BY DEF Covered, Elements

\* it holds of the guides and pins of any net
LEMMA InitIInv == Init => IInv
  <1> SUFFICES ASSUME Init PROVE IInv
    OBVIOUS
  <1>1. PICK net \in NetChoices : dbNet = [guides |-> sliceRouteGuides(net.guides),
                                           vios |-> net.vios, pins |-> net.pins]
    BY DEF Init
  <1>2. net.guides \in Seq(LocBox) /\ net.pins \in Seq(Seq(LocBox) \ {<<>>})
    BY <1>1, NetAssumption
  <1>3. guides \in Seq(LocBox)
    <2>1. guides = sliceRouteGuides(net.guides)
      BY <1>1 DEF Init
    <2> QED BY <1>2, <2>1, SliceRouteGuidesType
  <1>4. iter \in Nat /\ numPitch \in Nat
    BY ExpandAssumption DEF Init
  <1>5. PinInv
    <2> HIDE DEF LocBox
    <2>1. dbNet.pins = net.pins /\ pinBoxes = net.pins
      BY <1>1 DEF Init
    <2>2. \A p \in DOMAIN net.pins : net.pins[p] \in Seq(LocBox)
      BY <1>2
    <2> QED BY <1>2, <2>1, <2>2 DEF PinInv, Pins
  <1>6. StillCovered
    <2>1. gridGuides = <<>>
      BY DEF Init
    <2>2. Covered(gridGuides) = {}
      BY <2>1 DEF Covered
    <2> QED BY <2>2 DEF StillCovered
  <1> QED BY <1>3, <1>4, <1>5, <1>6 DEF IInv

\* a wider box has the grid points of the smaller
LEMMA WiderKeeps ==
  ASSUME NEW a, NEW b, Wider(a, b), NEW p, LocBoxOn(a, p)
  PROVE  LocBoxOn(b, p)
  BY DEF Wider, LocBoxOn

\* growing guides lose no grid point
LEMMA GrownKeeps ==
  ASSUME StillCovered, Grown(guides, guides'), UNCHANGED gridGuides
  PROVE  StillCovered'
  <1>1. Covered(gridGuides)' = Covered(gridGuides)
    BY DEF Covered
  <1>2. ASSUME NEW p \in Covered(gridGuides)
        PROVE  p \in GridPoint /\ \E i \in DOMAIN guides' : LocBoxOn(guides'[i], p)
    <2>1. PICK i \in DOMAIN guides : LocBoxOn(guides[i], p)
      BY <1>2 DEF StillCovered
    <2>2. i \in DOMAIN guides' /\ Wider(guides[i], guides'[i])
      BY <2>1 DEF Grown
    <2>3. LocBoxOn(guides'[i], p)
      BY <2>1, <2>2, WiderKeeps
    <2> QED BY <1>2, <2>2, <2>3 DEF StillCovered
  <1> QED BY <1>1, <1>2 DEF StillCovered

\* it is kept by expanding the guides, with guides on other layers or without
LEMMA ExpandKeeps ==
  ASSUME IInv, Expand
  PROVE  IInv'
  <1> USE DEF IInv
  <1>1. Grown(guides, guides')
    <2>1. PICK vios : LET wide == [i \in DOMAIN guides |-> expandBox(guides[i], numPitch)]
                          extra(i) == DiffLayerGuides(wide[i], vios[i])
                      IN  guides' = expandGuidesToMargin(
                            IF addDiffLayerGuides THEN wide \o Concat([i \in DOMAIN wide |-> extra(i)])
                            ELSE wide)
      BY DEF Expand
    <2> QED BY <2>1, ExpandGrows
  <1>2. guides' \in Seq(LocBox)
    BY <1>1 DEF Grown
  <1>3. UNCHANGED <<dbNet, gridGuides, pinBoxes, iter, numPitch>>
    BY DEF Expand
  <1>4. PinInv'
    BY <1>3 DEF PinInv, Pins
  <1> QED BY <1>1, <1>2, <1>3, <1>4, GrownKeeps

\* by extending them to the pins
LEMMA CoverKeeps ==
  ASSUME IInv, expandGuidesToCoverPins
  PROVE  IInv'
  <1> USE DEF IInv
  <1> HIDE DEF LocBox
  <1> DEFINE far == {p \in Pins : NearPairs(guides, p) = {}}
             near == {p \in Pins : \A q \in far : p < q}
             N == Len(dbNet.pins)
  <1>1. guides' = (CHOOSE f : CoverSteps(f, guides, N, near))[N]
    BY DEF expandGuidesToCoverPins, CoverSteps
  <1>2. N \in Nat /\ Pins = 1 .. N
    BY DEF PinInv, Pins
  <1> HIDE DEF N
  <1>3. ASSUME NEW p \in 1 .. N
        PROVE  pinBoxes[p] \in Seq(LocBox) /\ (p \in near => NearPairs(guides, p) # {})
    <2>1. pinBoxes[p] \in Seq(LocBox)
      BY <1>2 DEF PinInv
    <2>2. ASSUME p \in near, NearPairs(guides, p) = {} PROVE FALSE
      <3>1. p \in far
        BY <1>2, <2>2
      <3>2. p < p
        BY <2>2, <3>1
      <3> QED BY <1>2, <3>2
    <2> QED BY <2>1, <2>2
  <1> HIDE DEF near
  <1>4. Grown(guides, guides')
    BY <1>1, <1>2, <1>3, CoverGrows
  <1>5. guides' \in Seq(LocBox)
    BY <1>4 DEF Grown
  <1>6. UNCHANGED <<dbNet, gridGuides, pinBoxes, iter, numPitch>>
    BY DEF expandGuidesToCoverPins
  <1>7. PinInv'
    BY <1>6 DEF PinInv, Pins
  <1> QED BY <1>4, <1>5, <1>6, <1>7, GrownKeeps

\* the guides put on the grid, while they are on the grid
LEMMA GridGuides ==
  ASSUME IInv, initGridBoxes
  PROVE  /\ gridGuides' \in Seq(GridBoxes)
         /\ \A p : p \in Covered(gridGuides') <=> p \in GridPoint /\ \E i \in DOMAIN guides : LocBoxOn(guides[i], p)
         /\ InPairs(gridGuides', Disjoint)
         /\ \A i \in DOMAIN gridGuides' : InTables(gridGuides'[i])
         /\ guides' = [i \in DOMAIN gridGuides' |-> getLocBox(gridGuides'[i])]
  <1> HIDE DEF LocBox, GridBoxes, Disjoint
  <1>1. /\ gridGuides' = gridRouteGuides(guides)
        /\ \A i \in DOMAIN guides : \/ IsValid(rangeSearch(guides[i]).tracks)
                                   \/ \A j \in DOMAIN guides : guides[j].layer = guides[i].layer => j = i
        /\ \A i \in DOMAIN gridRouteGuides(guides) : InTables(gridRouteGuides(guides)[i])
        /\ guides' = [i \in DOMAIN gridRouteGuides(guides) |-> getLocBox(gridRouteGuides(guides)[i])]
    BY DEF initGridBoxes, Defined
  <1>2. guides \in Seq(LocBox)
    BY DEF IInv
  <1>3. /\ gridRouteGuides(guides) \in Seq(GridBoxes)
        /\ \A p : (\E e \in Elements(gridRouteGuides(guides)) : p \in PointsIn(e))
                    <=> p \in GridPoint /\ \E i \in DOMAIN guides : LocBoxOn(guides[i], p)
        /\ InPairs(gridRouteGuides(guides), Disjoint)
    BY <1>1, <1>2, GuidesOnGrid
  <1> QED BY <1>1, <1>3, CoveredFacts

\* and by putting them on the grid: the locations of their ends have all of the grid points
LEMMA GridKeeps ==
  ASSUME IInv, initGridBoxes
  PROVE  IInv'
  <1> HIDE DEF LocBox, GridBoxes, Disjoint
  <1>1. /\ gridGuides' \in Seq(GridBoxes)
        /\ \A i \in DOMAIN gridGuides' : InTables(gridGuides'[i])
        /\ guides' = [i \in DOMAIN gridGuides' |-> getLocBox(gridGuides'[i])]
    BY GridGuides
  <1>2. \A i \in DOMAIN gridGuides' : gridGuides'[i] \in GridBoxes
    BY <1>1
  <1>3. \A i \in DOMAIN gridGuides' :
          /\ guides'[i] \in LocBox
          /\ \A p \in PointsIn(gridGuides'[i]) : p \in GridPoint /\ LocBoxOn(guides'[i], p)
    BY <1>1, <1>2, LocBoxOfGridBox
  <1>4. guides' \in Seq(LocBox)
    <2>1. DOMAIN guides' = DOMAIN gridGuides' /\ guides' = [i \in DOMAIN gridGuides' |-> guides'[i]]
      BY <1>1
    <2> QED BY <1>1, <1>3, <2>1, MapType
  <1>5. StillCovered'
    <2>1. ASSUME NEW p \in Covered(gridGuides')
          PROVE  p \in GridPoint /\ \E i \in DOMAIN guides' : LocBoxOn(guides'[i], p)
      <3>1. PICK i \in DOMAIN gridGuides' : p \in PointsIn(gridGuides'[i])
        BY <2>1 DEF Covered
      <3>2. i \in DOMAIN guides'
        BY <1>1
      <3> QED BY <1>3, <3>1, <3>2
    <2>2. Covered(gridGuides)' = Covered(gridGuides')
      BY DEF Covered
    <2> QED BY <2>1, <2>2 DEF StillCovered
  <1>6. PinInv'
    <2> DEFINE gridPins == [p \in Pins |-> getGridPinAccessBoxes(dbNet.pins[p])]
    <2>1. dbNet' = dbNet /\ dbNet.pins \in Seq(Seq(LocBox) \ {<<>>})
      BY DEF initGridBoxes, IInv, PinInv
    <2>2. ASSUME NEW p \in Pins PROVE pinBoxes'[p] \in Seq(LocBox)
      <3> DEFINE s == getGridPinAccessBoxes(dbNet.pins[p])
                 r == [i \in DOMAIN s |-> getLocBox(s[i])]
      <3>1. pinBoxes' = [q \in Pins |-> [i \in DOMAIN gridPins[q] |-> getLocBox(gridPins[q][i])]]
        BY DEF initGridBoxes
      <3>2. pinBoxes'[p] = r
        BY <3>1
      <3>3. dbNet.pins[p] \in Seq(LocBox) /\ dbNet.pins[p] # <<>>
        BY <2>1 DEF Pins
      <3>4. s \in Seq(GridBoxes)
        BY <3>3, AccessBoxesType
      <3>5. \A i \in DOMAIN s : InTables(s[i])
        BY DEF initGridBoxes, Defined
      <3> HIDE DEF s
      <3>6. \A i \in DOMAIN s : s[i] \in GridBoxes
        BY <3>4
      <3>7. \A i \in DOMAIN s : r[i] \in LocBox
        BY <3>5, <3>6, LocBoxOfGridBox
      <3>8. DOMAIN r = DOMAIN s /\ r = [i \in DOMAIN s |-> r[i]]
        OBVIOUS
      <3> HIDE DEF r
      <3>9. r \in Seq(LocBox)
        BY <3>4, <3>7, <3>8, MapType
      <3> QED BY <3>2, <3>9
    <2> QED BY <2>1, <2>2 DEF PinInv, Pins
  <1>7. iter' \in Nat /\ numPitch' \in Nat
    BY DEF IInv, initGridBoxes
  <1> QED BY <1>4, <1>5, <1>6, <1>7 DEF IInv

\* it is inductive: checking, trying again and ending change neither guides nor pins
LEMMA NextIInv == IInv /\ [Next]_vars => IInv'
  <1> SUFFICES ASSUME IInv, [Next]_vars PROVE IInv'
    OBVIOUS
  <1>1. ASSUME UNCHANGED <<guides, gridGuides, pinBoxes, dbNet>>, iter' \in Nat, numPitch' \in Nat
        PROVE  IInv'
    <2>1. PinInv'
      BY <1>1 DEF IInv, PinInv, Pins
    <2>2. StillCovered'
      BY <1>1 DEF IInv, StillCovered, Covered
    <2> QED BY <1>1, <2>1, <2>2 DEF IInv
  <1>2. CASE Expand
    BY <1>2, ExpandKeeps
  <1>3. CASE expandGuidesToCoverPins
    BY <1>3, CoverKeeps
  <1>4. CASE initGridBoxes
    BY <1>4, GridKeeps
  <1>5. CASE Check
    BY <1>1, <1>5 DEF Check, netVars, IInv
  <1>6. CASE Retry
    <2>1. iter \in Nat /\ numPitch \in Nat /\ iter' = iter + 1 /\ numPitch' = numPitch + iter'
      BY <1>6 DEF Retry, IInv
    <2> QED BY <1>1, <1>6, <2>1 DEF Retry, netVars
  <1>7. CASE Finish
    BY <1>1, <1>7 DEF Finish, netVars, IInv
  <1>8. CASE UNCHANGED vars
    BY <1>1, <1>8 DEF vars, netVars, IInv
  <1> QED BY <1>2, <1>3, <1>4, <1>5, <1>6, <1>7, <1>8 DEF Next

\* The guides of a net are boxes of the grid's layers in each attempt, and what
\* an attempt has put on the grid stays in them until the next one.
THEOREM SpecIInv == Spec => []IInv
  <1> QED BY InitIInv, NextIInv, PTL DEF Spec

\* only initGridBoxes leaves the phase in which guides are put on the grid
LEMMA GridStep ==
  ASSUME [Next]_vars, phase = "grid"
  PROVE  initGridBoxes \/ UNCHANGED vars
  BY DEF Next, Expand, expandGuidesToCoverPins, Check, Retry, Finish

\* The guides put on the grid (initGridBoxes) are exactly the grid points that
\* lie in the guides, each point in one guide only: for every layout of tracks
\* and cross points, whatever the guides, the pins and the attempts before.
THEOREM SpecSlicesExact == Spec => SlicesExact
  <1>1. ASSUME IInv, [Next]_vars, phase = "grid", ~UNCHANGED vars
        PROVE  /\ Covered(gridGuides') =
                    {p \in GridPoint : \E i \in DOMAIN guides :
                       /\ guides[i].layer = p.layer
                       /\ getLoc(p).x \in In(guides[i].x) /\ getLoc(p).y \in In(guides[i].y)}
               /\ \A i, j \in DOMAIN gridGuides' :
                    i # j => PointsIn(gridGuides'[i]) \cap PointsIn(gridGuides'[j]) = {}
    <2>1. initGridBoxes
      BY <1>1, GridStep
    <2>2. \A p : p \in Covered(gridGuides') <=> p \in GridPoint /\ \E i \in DOMAIN guides : LocBoxOn(guides[i], p)
      BY <1>1, <2>1, GridGuides
    <2>3. InPairs(gridGuides', Disjoint)
      BY <1>1, <2>1, GridGuides
    <2>4. \A i, j \in DOMAIN gridGuides' :
            i # j => PointsIn(gridGuides'[i]) \cap PointsIn(gridGuides'[j]) = {}
      <3>1. \A i, j \in DOMAIN gridGuides' : i # j => <<gridGuides'[i], gridGuides'[j]>> \in Disjoint
        BY <2>3 DEF InPairs
      <3>2. \A a, b : <<a, b>> \in Disjoint => PointsIn(a) \cap PointsIn(b) = {}
        BY DEF Disjoint
      <3> HIDE DEF Disjoint
      <3> QED BY <3>1, <3>2
    <2>5. Covered(gridGuides') = {p \in GridPoint : \E i \in DOMAIN guides : LocBoxOn(guides[i], p)}
      BY <2>2
    <2> QED BY <2>4, <2>5 DEF LocBoxOn
  <1>2. IInv /\ [Next]_vars =>
          [phase = "grid" =>
             /\ Covered(gridGuides') =
                  {p \in GridPoint : \E i \in DOMAIN guides :
                     /\ guides[i].layer = p.layer
                     /\ getLoc(p).x \in In(guides[i].x) /\ getLoc(p).y \in In(guides[i].y)}
             /\ \A i, j \in DOMAIN gridGuides' :
                  i # j => PointsIn(gridGuides'[i]) \cap PointsIn(gridGuides'[j]) = {}]_vars
    BY <1>1
  <1> QED BY SpecIInv, <1>2, PTL DEF Spec, SlicesExact

\* Whatever guides a retry expands, slices and covers the pins with again, no
\* grid point that an attempt had is lost in a later one (runIterative).
THEOREM SpecCoverageGrows == Spec => CoverageGrows
  <1>1. ASSUME IInv, [Next]_vars, phase = "grid", ~UNCHANGED vars
        PROVE  Covered(gridGuides) \subseteq Covered(gridGuides')
    <2>1. initGridBoxes
      BY <1>1, GridStep
    <2>2. \A p : p \in Covered(gridGuides') <=> p \in GridPoint /\ \E i \in DOMAIN guides : LocBoxOn(guides[i], p)
      BY <1>1, <2>1, GridGuides
    <2>3. StillCovered
      BY <1>1 DEF IInv
    <2> QED BY <2>2, <2>3 DEF StillCovered
  <1>2. IInv /\ [Next]_vars => [phase = "grid" => Covered(gridGuides) \subseteq Covered(gridGuides')]_vars
    BY <1>1
  <1> QED BY SpecIInv, <1>2, PTL DEF Spec, CoverageGrows
=============================================================================
