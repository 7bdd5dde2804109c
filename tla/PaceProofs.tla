------------------------------ MODULE PaceProofs ------------------------------
(***************************************************************************)
(* Proofs about Pace for all corpora, folds, commands, budgets and numbers *)
(* of builds and replacements: types; what check_fresh may conclude from   *)
(* size and mtime; that a lookup in the files of one build is exact; and   *)
(* that a call on coherent files answers what the command prints.          *)
(*                                                                         *)
(* In order: induction, sorting, the suffix array and its search, words in *)
(* the text, the posting lists, builds, plan, pipelines on candidates,     *)
(* native verification, and the invariants with the theorems.              *)
(***************************************************************************)
EXTENDS Pace, FiniteSetTheorems, SequenceTheorems, TLAPS

-----------------------------------------------------------------------------
(***************************************************************************)
(* Induction.  Every set of numbers has a least element, because the sets  *)
(* of the numbers below them are finite and ordered by inclusion.  (These  *)
(* facts, up to FlattenTyped, are in RlLoopProofs and ShardedSearchProofs  *)
(* too, which are modules about other variables.)                          *)
(***************************************************************************)
LEMMA LeastElement ==
  ASSUME NEW S \in SUBSET Nat, S # {}
  PROVE  \E n \in S : \A m \in S : n <= m
<1> PICK k \in S : TRUE
  OBVIOUS
<1> DEFINE U == 0 .. k
           Below(n) == {i \in U : i < n}
           T == {Below(n) : n \in S \cap U}
           R == StrictSubsetOrdering(U)
<1>1. IsFiniteSet(U) /\ k \in S \cap U
  BY FS_Interval
<1>2. \A n \in S \cap U : Below(n) \in FiniteSubsetsOf(U)
  <2>1. \A n \in S \cap U : Below(n) \subseteq U
    OBVIOUS
  <2>2. \A n \in S \cap U : IsFiniteSet(Below(n))
    BY <1>1, <2>1, FS_Subset
  <2> QED
    BY <2>1, <2>2 DEF FiniteSubsetsOf
<1>3. T \subseteq FiniteSubsetsOf(U) /\ T # {}
  BY <1>1, <1>2
<1>4. IsWellFoundedOn(R, FiniteSubsetsOf(U))
  BY FS_StrictSubsetOrderingWellFounded
<1>5. PICK B \in T : \A C \in T : ~(<<C, B>> \in R)
  <2> HIDE DEF T, R, U
  <2> QED
    BY <1>3, <1>4, WFMin
<1>6. PICK n \in S \cap U : B = Below(n)
  BY <1>5
<1>7. ASSUME NEW m \in S, m < n
      PROVE  FALSE
  <2>1. m \in S \cap U /\ Below(m) \in T
    BY <1>7
  <2>2. Below(m) \subseteq Below(n) /\ m \in Below(n) /\ m \notin Below(m)
    BY <2>1, <1>7
  <2>3. <<Below(m), Below(n)>> \in R
    BY <2>2 DEF StrictSubsetOrdering
  <2> QED
    BY <2>1, <2>3, <1>5, <1>6
<1>8. n \in S /\ \A m \in S : n <= m
  BY <1>7, <1>6
<1> QED
  BY <1>8

LEMMA Climb ==
  ASSUME NEW P, 0 \in P, \A n \in Nat : n \in P => n + 1 \in P
  PROVE  Nat \subseteq P
<1>1. SUFFICES ASSUME Nat \ P # {} PROVE FALSE
  OBVIOUS
<1>2. PICK n \in Nat \ P : \A m \in Nat \ P : n <= m
  BY <1>1, LeastElement
<1>3. n # 0 /\ n - 1 \in Nat /\ n - 1 \notin Nat \ P
  BY <1>2
<1> QED
  BY <1>2, <1>3

LEMMA FirstOnes ==
  ASSUME NEW S, NEW s \in Seq(S), NEW n \in 0 .. Len(s)
  PROVE  /\ SubSeq(s, 1, n) \in Seq(S) /\ Len(SubSeq(s, 1, n)) = n
         /\ \A i \in 1 .. n : SubSeq(s, 1, n)[i] = s[i]
<1>1. \A i \in 1 .. n : s[i] \in S
  OBVIOUS
<1> QED
  BY <1>1, SubSeqProperties

LEMMA EndToEnd ==
  ASSUME NEW S, NEW s \in Seq(S), NEW t \in Seq(S), NEW e, e = s \o t
  PROVE  /\ e \in Seq(S) /\ Len(e) = Len(s) + Len(t)
         /\ Len(s) \in Nat /\ Len(t) \in Nat
         /\ \A i \in 1 .. Len(s) : e[i] = s[i]
         /\ \A i \in 1 .. Len(t) : e[Len(s) + i] = t[i]
<1>1. /\ e \in Seq(S) /\ Len(e) = Len(s) + Len(t)
      /\ \A i \in 1 .. Len(s) + Len(t) : e[i] = IF i <= Len(s) THEN s[i] ELSE t[i - Len(s)]
  BY ConcatProperties, Zenon
<1>2. Len(s) \in Nat /\ Len(t) \in Nat
  OBVIOUS
<1>3. \A i \in 1 .. Len(s) : e[i] = s[i]
  BY <1>1, <1>2
<1>4. ASSUME NEW i \in 1 .. Len(t)
      PROVE  e[Len(s) + i] = t[i]
  <2>1. /\ Len(s) + i \in 1 .. Len(s) + Len(t)
        /\ ~(Len(s) + i <= Len(s))
        /\ (Len(s) + i) - Len(s) = i
    BY <1>2
  <2> QED
    BY <1>1, <2>1
<1> QED
  BY <1>1, <1>2, <1>3, <1>4

LEMMA FrontAndLast ==
  ASSUME NEW S, NEW s \in Seq(S), s # <<>>
  PROVE  /\ Front(s) \in Seq(S) /\ Len(Front(s)) = Len(s) - 1
         /\ Last(s) \in S
         /\ s = Append(Front(s), Last(s))
         /\ \A i \in 1 .. Len(s) - 1 : Front(s)[i] = s[i]
<1> DEFINE f == Front(s)
           n == Len(s) - 1
<1>1. n \in 0 .. Len(s) /\ Len(s) \in Nat \ {0} /\ \A i \in 1 .. Len(s) : s[i] \in S
  OBVIOUS
<1>2. /\ f \in Seq(S) /\ Len(f) = n
      /\ \A i \in 1 .. n : f[i] = s[i]
  <2> HIDE DEF n
  <2>1. /\ SubSeq(s, 1, n) \in Seq(S) /\ Len(SubSeq(s, 1, n)) = n
        /\ \A i \in 1 .. n : SubSeq(s, 1, n)[i] = s[i]
    BY <1>1, FirstOnes
  <2>2. f = SubSeq(s, 1, n)
    BY DEF n, Front
  <2> QED
    BY <2>1, <2>2
<1>3. Last(s) = s[Len(s)] /\ Last(s) \in S
  BY <1>1 DEF Last
<1> HIDE DEF f
<1>4. s = Append(f, Last(s))
  BY <1>1, <1>2, <1>3
<1> QED
  BY <1>2, <1>3, <1>4 DEF f

LEMMA GrowSequence ==
  ASSUME NEW S, NEW P, <<>> \in P,
         \A s \in Seq(S) : \A x \in S : s \in P => Append(s, x) \in P
  PROVE  Seq(S) \subseteq P
<1> DEFINE N == {n \in Nat : \A s \in Seq(S) : Len(s) = n => s \in P}
<1>1. 0 \in N
  OBVIOUS
<1>2. ASSUME NEW n \in Nat, n \in N
      PROVE  n + 1 \in N
  <2> SUFFICES ASSUME NEW s \in Seq(S), Len(s) = n + 1
               PROVE  s \in P
    OBVIOUS
  <2>1. s # <<>>
    OBVIOUS
  <2>2. /\ Front(s) \in Seq(S) /\ Len(Front(s)) = n /\ Last(s) \in S
        /\ s = Append(Front(s), Last(s))
    BY <2>1, FrontAndLast
  <2>3. Front(s) \in P
    BY <1>2, <2>2
  <2> QED
    BY <2>2, <2>3
<1>3. Nat \subseteq N
  <2> HIDE DEF N
  <2> QED
    BY <1>1, <1>2, Climb
<1> QED
  BY <1>3

(***************************************************************************)
(* Recursion.  A function on the numbers up to n that is given by its      *)
(* value at 0 and a step exists.                                           *)
(***************************************************************************)
Recurs(f, n, a, h) == f[0] = a /\ \A i \in 1 .. n : f[i] = h[i][f[i - 1]]

LEMMA RecursionExists ==
  ASSUME NEW S, NEW a \in S, NEW n \in Nat, NEW h \in [1 .. n -> [S -> S]]
  PROVE  \E f \in [0 .. n -> S] : Recurs(f, n, a, h)
<1> DEFINE P == {m \in Nat : m <= n => \E f \in [0 .. m -> S] : Recurs(f, m, a, h)}
<1>1. 0 \in P
  <2> DEFINE f == [i \in 0 .. 0 |-> a]
  <2>1. f \in [0 .. 0 -> S] /\ Recurs(f, 0, a, h)
    BY DEF Recurs
  <2> QED
    BY <2>1
<1>2. ASSUME NEW m \in Nat, m \in P
      PROVE  m + 1 \in P
  <2> SUFFICES ASSUME m + 1 <= n
               PROVE  \E f \in [0 .. m + 1 -> S] : Recurs(f, m + 1, a, h)
    OBVIOUS
  <2>1. PICK g \in [0 .. m -> S] : Recurs(g, m, a, h)
    BY <1>2
  <2> DEFINE f == [i \in 0 .. m + 1 |-> IF i = m + 1 THEN h[m + 1][g[m]] ELSE g[i]]
  <2>2. m + 1 \in 1 .. n /\ h[m + 1] \in [S -> S] /\ g[m] \in S
    OBVIOUS
  <2>3. h[m + 1][g[m]] \in S
    BY <2>2
  <2>4. f \in [0 .. m + 1 -> S]
    BY <2>3
  <2>5. ASSUME NEW i \in 1 .. m + 1
        PROVE  f[i] = h[i][f[i - 1]]
    <3>1. CASE i = m + 1
      BY <3>1
    <3>2. CASE i # m + 1
      <4>1. i \in 1 .. m /\ f[i] = g[i] /\ f[i - 1] = g[i - 1]
        BY <3>2
      <4> QED
        BY <2>1, <4>1 DEF Recurs
    <3> QED
      BY <3>1, <3>2
  <2>6. f[0] = a
    BY <2>1 DEF Recurs
  <2>7. Recurs(f, m + 1, a, h)
    <3> HIDE DEF f
    <3> QED
      BY <2>5, <2>6 DEF Recurs
  <2> QED
    BY <2>4, <2>7
<1>3. Nat \subseteq P
  <2> HIDE DEF P
  <2> QED
    BY <1>1, <1>2, Climb
<1> QED
  BY <1>3

-----------------------------------------------------------------------------
(***************************************************************************)
(* Sequences end to end.                                                   *)
(***************************************************************************)
Flattening(ss, f) ==
  f = [i \in 1 .. Len(ss) |-> IF i = 1 THEN ss[i] ELSE f[i - 1] \o ss[i]]

LEMMA FlattenPartial ==
  ASSUME NEW S, NEW ss \in Seq(Seq(S))
  PROVE  \E g \in [0 .. Len(ss) -> Seq(S)] :
           /\ g[0] = <<>>
           /\ \A i \in 1 .. Len(ss) : g[i] = g[i - 1] \o ss[i]
           /\ FlattenSeq(ss) = g[Len(ss)]
<1> DEFINE n == Len(ss)
           h == [i \in 1 .. n |-> [x \in Seq(S) |-> x \o ss[i]]]
<1>1. n \in Nat /\ Len(ss) = n /\ \A i \in 1 .. n : ss[i] \in Seq(S)
  OBVIOUS
<1> HIDE DEF n
<1>2. h \in [1 .. n -> [Seq(S) -> Seq(S)]]
  BY <1>1
<1>3. <<>> \in Seq(S)
  OBVIOUS
<1>4. PICK g \in [0 .. n -> Seq(S)] : Recurs(g, n, <<>>, h)
  <2> HIDE DEF h
  <2> QED
    BY <1>1, <1>2, <1>3, RecursionExists
<1>5. g[0] = <<>> /\ \A i \in 1 .. n : g[i] = g[i - 1] \o ss[i]
  <2>1. g[0] = <<>> /\ \A i \in 1 .. n : g[i] = h[i][g[i - 1]]
    BY <1>4 DEF Recurs
  <2>2. \A i \in 1 .. n : g[i - 1] \in Seq(S)
    BY <1>1
  <2> QED
    BY <2>1, <2>2
<1> HIDE DEF h
<1>6. CASE n = 0
  BY <1>1, <1>4, <1>5, <1>6 DEF FlattenSeq
<1>7. CASE n # 0
  <2> DEFINE f == [i \in 1 .. n |-> g[i]]
             c == CHOOSE x : Flattening(ss, x)
             d == [i \in 0 .. n |-> IF i = 0 THEN <<>> ELSE c[i]]
  <2>1. Flattening(ss, f)
    <3>1. 1 \in 1 .. n
      BY <1>1, <1>7
    <3>2. g[1] = ss[1]
      <4>1. g[1] = g[1 - 1] \o ss[1] /\ ss[1] \in Seq(S)
        BY <1>1, <1>5, <3>1
      <4>2. g[1 - 1] = <<>>
        BY <1>5
      <4> HIDE DEF c, d, f
      <4>3. g[1] = <<>> \o ss[1]
        BY <4>1, <4>2
      <4> QED
        BY <4>1, <4>3, ConcatEmptySeq
    <3>3. ASSUME NEW i \in 1 .. n
          PROVE  f[i] = IF i = 1 THEN ss[i] ELSE f[i - 1] \o ss[i]
      <4>1. CASE i = 1
        BY <3>2, <4>1
      <4>2. CASE i # 1
        <5>1. i - 1 \in 1 .. n
          BY <1>1, <4>2
        <5>2. f[i] = g[i] /\ f[i - 1] = g[i - 1]
          BY <5>1
        <5> QED
          BY <1>5, <4>2, <5>2
      <4> QED
        BY <4>1, <4>2
    <3>4. f = [i \in 1 .. n |-> f[i]]
      OBVIOUS
    <3> QED
      <4> HIDE DEF f
      <4> QED
        BY <1>1, <3>3, <3>4 DEF Flattening
  <2>2. Flattening(ss, c)
    <3> HIDE DEF f
    <3> QED
      BY <2>1
  <2>3. FlattenSeq(ss) = c[n]
    BY <1>1, <1>7 DEF FlattenSeq, Flattening
  <2>4. \A i \in 1 .. n : c[i] = IF i = 1 THEN ss[i] ELSE c[i - 1] \o ss[i]
    <3> HIDE DEF c
    <3> QED
      BY <1>1, <2>2 DEF Flattening
  <2> HIDE DEF c
  <2>5. ASSUME NEW i \in Nat, i < n, d[i] = g[i]
        PROVE  d[i + 1] = g[i + 1]
    <3>1. i + 1 \in 1 .. n /\ (i + 1) - 1 = i /\ ss[i + 1] \in Seq(S)
      BY <1>1, <2>5
    <3>2. g[i + 1] = g[i] \o ss[i + 1]
      BY <1>5, <3>1
    <3>3. d[i + 1] = c[i + 1]
      BY <3>1
    <3>4. CASE i = 0
      <4>1. c[i + 1] = ss[i + 1] /\ g[i] = <<>>
        BY <2>4, <3>1, <3>4, <1>5
      <4> QED
        BY <3>1, <3>2, <3>3, <4>1
    <3>5. CASE i # 0
      <4>1. d[i] = c[i]
        <5>1. i \in 0 .. n
          BY <1>1, <3>1
        <5> QED
          BY <3>5, <5>1
      <4>2. i + 1 # 1
        BY <3>5
      <4>3. c[i + 1] = c[(i + 1) - 1] \o ss[i + 1]
        BY <2>4, <3>1, <4>2
      <4> QED
        BY <2>5, <3>1, <3>2, <3>3, <4>1, <4>3
    <3> QED
      BY <3>4, <3>5
  <2> DEFINE P == {i \in Nat : i <= n => d[i] = g[i]}
  <2>6. 0 \in P
    BY <1>1, <1>5
  <2>7. \A i \in Nat : i \in P => i + 1 \in P
    <3> SUFFICES ASSUME NEW i \in Nat, i <= n => d[i] = g[i], i + 1 <= n
                 PROVE  d[i + 1] = g[i + 1]
      OBVIOUS
    <3>1. i < n /\ d[i] = g[i]
      BY <1>1
    <3> HIDE DEF d
    <3> QED
      BY <2>5, <3>1
  <2>8. n \in P
    <3> HIDE DEF P
    <3> QED
      BY <1>1, <2>6, <2>7, Climb
  <2>9. c[n] = g[n]
    BY <2>8, <1>1, <1>7
  <2> QED
    BY <1>1, <1>5, <2>3, <2>9
<1> QED
  BY <1>1, <1>6, <1>7

LEMMA FlattenAppend ==
  ASSUME NEW S, NEW ss \in Seq(Seq(S)), NEW t \in Seq(S)
  PROVE  /\ FlattenSeq(ss) \in Seq(S)
         /\ FlattenSeq(Append(ss, t)) = FlattenSeq(ss) \o t
<1> DEFINE n == Len(ss)
           tt == Append(ss, t)
<1>1. /\ n \in Nat /\ Len(ss) = n
      /\ tt \in Seq(Seq(S)) /\ Len(tt) = n + 1 /\ tt[n + 1] = t
      /\ \A i \in 1 .. n : tt[i] = ss[i]
  OBVIOUS
<1> HIDE DEF n, tt
<1>2. PICK g \in [0 .. n -> Seq(S)] :
        /\ g[0] = <<>> /\ \A i \in 1 .. n : g[i] = g[i - 1] \o ss[i]
        /\ FlattenSeq(ss) = g[n]
  BY <1>1, FlattenPartial
<1>3. PICK k \in [0 .. n + 1 -> Seq(S)] :
        /\ k[0] = <<>> /\ \A i \in 1 .. n + 1 : k[i] = k[i - 1] \o tt[i]
        /\ FlattenSeq(tt) = k[n + 1]
  <2>1. \E k \in [0 .. Len(tt) -> Seq(S)] :
          /\ k[0] = <<>> /\ \A i \in 1 .. Len(tt) : k[i] = k[i - 1] \o tt[i]
          /\ FlattenSeq(tt) = k[Len(tt)]
    BY <1>1, FlattenPartial
  <2> QED
    BY <1>1, <2>1
<1> DEFINE P == {i \in Nat : i <= n => k[i] = g[i]}
<1>4. 0 \in P
  BY <1>2, <1>3
<1>5. ASSUME NEW i \in Nat, i \in P
      PROVE  i + 1 \in P
  <2> SUFFICES ASSUME i + 1 <= n
               PROVE  k[i + 1] = g[i + 1]
    OBVIOUS
  <2>1. i + 1 \in 1 .. n /\ i + 1 \in 1 .. n + 1 /\ (i + 1) - 1 = i
    BY <1>1
  <2>a. k[i] = g[i]
    BY <1>1, <1>5
  <2>2. k[i + 1] = k[i] \o tt[i + 1] /\ g[i + 1] = g[i] \o ss[i + 1]
    BY <1>2, <1>3, <2>1
  <2> QED
    BY <1>1, <2>1, <2>a, <2>2
<1>6. n \in P
  <2> HIDE DEF P
  <2> QED
    BY <1>1, <1>4, <1>5, Climb
<1>7. k[n] = g[n] /\ n + 1 \in 1 .. n + 1 /\ (n + 1) - 1 = n /\ g[n] \in Seq(S)
  BY <1>1, <1>6
<1>8. k[n + 1] = k[n] \o t
  BY <1>1, <1>3, <1>7
<1> QED
  BY <1>2, <1>3, <1>7, <1>8 DEF tt

LEMMA FlattenNothing == FlattenSeq(<<>>) = <<>>
BY DEF FlattenSeq

\* A sequence of sequences given place by place.
LEMMA FlattenMore ==
  ASSUME NEW S, NEW m \in Nat, NEW f \in [1 .. m + 1 -> Seq(S)]
  PROVE  /\ FlattenSeq(f) \in Seq(S)
         /\ FlattenSeq(f) = FlattenSeq([i \in 1 .. m |-> f[i]]) \o f[m + 1]
<1> DEFINE g == [i \in 1 .. m |-> f[i]]
<1>1. g \in Seq(Seq(S)) /\ f \in Seq(Seq(S)) /\ f[m + 1] \in Seq(S) /\ Len(g) = m /\ Len(f) = m + 1
  OBVIOUS
<1>2. f = Append(g, f[m + 1])
  BY <1>1
<1> HIDE DEF g
<1>3. FlattenSeq(f) = FlattenSeq(g) \o f[m + 1] /\ FlattenSeq(f) \in Seq(S)
  BY <1>1, <1>2, FlattenAppend
<1> QED
  BY <1>3 DEF g

LEMMA FlattenTyped ==
  ASSUME NEW S, NEW m \in Nat, NEW f \in [1 .. m -> Seq(S)]
  PROVE  FlattenSeq(f) \in Seq(S)
<1>1. f \in Seq(Seq(S)) /\ <<>> \in Seq(S)
  OBVIOUS
<1> QED
  BY <1>1, FlattenAppend

-----------------------------------------------------------------------------
(***************************************************************************)
(* Sorting.  A strict total order on a finite set puts each member in a    *)
(* place of its own: that of the number of members before it.              *)
(***************************************************************************)
TotallyOrders(R, S) ==
  /\ \A x \in S : <<x, x>> \notin R
  /\ \A x, y \in S : x # y => <<x, y>> \in R \/ <<y, x>> \in R
  /\ \A x, y, z \in S : <<x, y>> \in R /\ <<y, z>> \in R => <<x, z>> \in R

Preceding(R, S, x) == {y \in S : <<y, x>> \in R}

LEMMA PrecedingGrows ==
  ASSUME NEW R, NEW S, IsFiniteSet(S), TotallyOrders(R, S), NEW x \in S, NEW y \in S,
         <<x, y>> \in R
  PROVE  Cardinality(Preceding(R, S, x)) < Cardinality(Preceding(R, S, y))
<1> DEFINE A == Preceding(R, S, x)
           B == Preceding(R, S, y)
<1>1. A \subseteq B /\ x \in B /\ x \notin A /\ B \subseteq S
  BY DEF TotallyOrders, Preceding
<1> HIDE DEF A, B
<1>2. IsFiniteSet(B)
  BY <1>1, FS_Subset
<1>3. /\ Cardinality(A) <= Cardinality(B) /\ Cardinality(A) # Cardinality(B)
      /\ IsFiniteSet(A)
  BY <1>1, <1>2, FS_Subset
<1>4. Cardinality(A) \in Nat /\ Cardinality(B) \in Nat
  BY <1>2, <1>3, FS_CardinalityType
<1> QED
  BY <1>3, <1>4 DEF A, B

LEMMA PrecedingBounded ==
  ASSUME NEW R, NEW S, IsFiniteSet(S), TotallyOrders(R, S), NEW x \in S
  PROVE  Cardinality(Preceding(R, S, x)) \in 0 .. Cardinality(S) - 1
<1> DEFINE A == Preceding(R, S, x)
<1>1. A \subseteq S /\ x \notin A
  BY DEF TotallyOrders, Preceding
<1> HIDE DEF A
<1>2. /\ Cardinality(A) <= Cardinality(S) /\ Cardinality(A) # Cardinality(S)
      /\ IsFiniteSet(A)
  BY <1>1, FS_Subset
<1>3. Cardinality(A) \in Nat /\ Cardinality(S) \in Nat
  BY <1>2, FS_CardinalityType
<1> QED
  BY <1>2, <1>3 DEF A

LEMMA SamePlace ==
  ASSUME NEW R, NEW S, IsFiniteSet(S), TotallyOrders(R, S), NEW x \in S, NEW y \in S,
         Cardinality(Preceding(R, S, x)) = Cardinality(Preceding(R, S, y))
  PROVE  x = y
<1>1. Cardinality(Preceding(R, S, x)) \in Int /\ Cardinality(Preceding(R, S, y)) \in Int
  BY PrecedingBounded
<1>2. <<x, y>> \notin R /\ <<y, x>> \notin R
  BY <1>1, PrecedingGrows
<1> QED
  BY <1>2 DEF TotallyOrders

LEMMA PlacesTaken ==
  ASSUME NEW R, NEW S, IsFiniteSet(S), TotallyOrders(R, S)
  PROVE  \A k \in 1 .. Cardinality(S) :
           \E x \in S : Cardinality(Preceding(R, S, x)) = k - 1
<1> DEFINE n == Cardinality(S)
           place == [x \in S |-> Cardinality(Preceding(R, S, x))]
<1>1. n \in Nat
  BY FS_CardinalityType
<1>2. \A x \in S : place[x] \in 0 .. n - 1
  BY PrecedingBounded
<1>3. \A x, y \in S : place[x] = place[y] => x = y
  BY SamePlace
<1>4. place \in [S -> 0 .. n - 1]
  BY <1>2
<1> HIDE DEF n, place
<1>5. place \in Injection(S, 0 .. n - 1)
  BY <1>3, <1>4 DEF Injection, IsInjective
<1>6. IsFiniteSet(0 .. n - 1) /\ Cardinality(0 .. n - 1) = n
  BY <1>1, FS_Interval
<1>7. place \in Surjection(S, 0 .. n - 1)
  BY <1>5, <1>6, FS_Injection DEF n
<1>8. \A i \in 0 .. n - 1 : \E x \in S : place[x] = i
  BY <1>7 DEF Surjection
<1>9. \A k \in 1 .. n : k - 1 \in 0 .. n - 1
  BY <1>1
<1> QED
  BY <1>8, <1>9 DEF n, place

\* f puts the members of S in their places.
Ranks(f, R, S) ==
  /\ f \in [1 .. Cardinality(S) -> S]
  /\ \A k \in 1 .. Cardinality(S) : Cardinality(Preceding(R, S, f[k])) = k - 1

InOrder(f, R, S) ==
  /\ f \in Seq(S) /\ Len(f) = Cardinality(S) /\ Cardinality(S) \in Nat
  /\ \A i, j \in 1 .. Cardinality(S) : i < j => <<f[i], f[j]>> \in R
  /\ \A x \in S : \E k \in 1 .. Cardinality(S) : f[k] = x

LEMMA RankedSequence ==
  ASSUME NEW R, NEW S, IsFiniteSet(S), TotallyOrders(R, S), NEW f, Ranks(f, R, S)
  PROVE  InOrder(f, R, S)
<1> DEFINE n == Cardinality(S)
<1>1. n \in Nat
  BY FS_CardinalityType
<1>2. /\ f \in [1 .. n -> S]
      /\ \A k \in 1 .. n : Cardinality(Preceding(R, S, f[k])) = k - 1
  BY DEF Ranks
<1> HIDE DEF n
<1>3. f \in Seq(S) /\ Len(f) = n
  BY <1>1, <1>2
<1>4. ASSUME NEW i \in 1 .. n, NEW j \in 1 .. n, i < j
      PROVE  <<f[i], f[j]>> \in R
  <2>1. /\ f[i] \in S /\ Cardinality(Preceding(R, S, f[i])) = i - 1
        /\ f[j] \in S /\ Cardinality(Preceding(R, S, f[j])) = j - 1
    BY <1>2
  <2>2. <<f[j], f[i]>> \notin R
    <3>1. ~(j - 1 < i - 1)
      BY <1>1, <1>4
    <3> QED
      BY <2>1, <3>1, PrecedingGrows
  <2>3. f[i] # f[j]
    BY <1>1, <1>4, <2>1
  <2> QED
    BY <2>1, <2>2, <2>3 DEF TotallyOrders
<1>5. ASSUME NEW x \in S
      PROVE  \E k \in 1 .. n : f[k] = x
  <2> DEFINE k == Cardinality(Preceding(R, S, x)) + 1
  <2>1. k \in 1 .. n
    BY <1>1, PrecedingBounded DEF n
  <2>2. f[k] \in S /\ Cardinality(Preceding(R, S, f[k])) = Cardinality(Preceding(R, S, x))
    <3>1. Cardinality(Preceding(R, S, x)) \in Int
      BY PrecedingBounded
    <3> QED
      BY <1>2, <2>1, <3>1
  <2> QED
    BY <2>1, <2>2, SamePlace
<1> QED
  BY <1>1, <1>3, <1>4, <1>5 DEF n, InOrder

LEMMA SortedNumbers ==
  ASSUME NEW S \in SUBSET Int, IsFiniteSet(S)
  PROVE  /\ Sorted(S, <) \in Seq(S) /\ Len(Sorted(S, <)) = Cardinality(S)
         /\ \A i, j \in 1 .. Cardinality(S) : i < j => Sorted(S, <)[i] < Sorted(S, <)[j]
         /\ \A x \in S : \E k \in 1 .. Cardinality(S) : Sorted(S, <)[k] = x
<1> DEFINE R == {w \in S \X S : w[1] < w[2]}
           f == Sorted(S, <)
           n == Cardinality(S)
<1>1. TotallyOrders(R, S)
  BY DEF TotallyOrders
<1>2. \A x \in S : Preceding(R, S, x) = {y \in S : y < x}
  BY DEF Preceding
<1> HIDE DEF R
<1>a. \A k \in 1 .. n : \E x \in S : Cardinality(Preceding(R, S, x)) = k - 1
  BY <1>1, PlacesTaken
<1>3. \A k \in 1 .. n : \E x \in S : Cardinality({y \in S : y < x}) = k - 1
  BY <1>2, <1>a
<1>4. f = [k \in 1 .. n |-> CHOOSE x \in S : Cardinality({y \in S : y < x}) = k - 1]
  BY DEF Sorted
<1>5. \A k \in 1 .. n : f[k] \in S /\ Cardinality({y \in S : y < f[k]}) = k - 1
  BY <1>3, <1>4
<1>6. f \in [1 .. n -> S]
  BY <1>4, <1>5
<1>7. \A k \in 1 .. n : Cardinality(Preceding(R, S, f[k])) = k - 1
  BY <1>2, <1>5
<1>8. Ranks(f, R, S)
  BY <1>6, <1>7 DEF Ranks
<1> HIDE DEF f
<1>9. InOrder(f, R, S)
  BY <1>1, <1>8, RankedSequence
<1> QED
  BY <1>9 DEF f, R, InOrder

-----------------------------------------------------------------------------
(***************************************************************************)
(* The order of words and suffixes.                                        *)
(***************************************************************************)
LEMMA BeforeIrreflexive == ASSUME NEW s \in Seq(Nat) PROVE ~Before(s, s)
<1> SUFFICES ASSUME NEW k \in 1 .. Len(s), k <= Len(s) => s[k] < s[k]
             PROVE  FALSE
  BY DEF Before
<1> QED
  OBVIOUS

LEMMA BeforeTotal ==
  ASSUME NEW s \in Seq(Nat), NEW t \in Seq(Nat), s # t
  PROVE  Before(s, t) \/ Before(t, s)
<1> DEFINE D == {k \in Nat : k >= 1 /\ (k > Len(s) \/ k > Len(t) \/ s[k] # t[k])}
<1>1. Len(s) \in Nat /\ Len(t) \in Nat
  OBVIOUS
<1>2. Len(s) + 1 \in D
  BY <1>1
<1>3. PICK d \in D : \A k \in D : d <= k
  <2>1. D \in SUBSET Nat /\ D # {}
    BY <1>2
  <2> QED
    BY <2>1, LeastElement
<1>4. \A j \in 1 .. d - 1 : j <= Len(s) /\ j <= Len(t) /\ s[j] = t[j]
  <2> SUFFICES ASSUME NEW j \in 1 .. d - 1 PROVE j <= Len(s) /\ j <= Len(t) /\ s[j] = t[j]
    OBVIOUS
  <2>1. j \in Nat /\ j >= 1 /\ j \notin D
    BY <1>3
  <2> QED
    BY <1>1, <2>1
<1>5. d <= Len(s) + 1 /\ d <= Len(t) + 1 /\ d \in Nat /\ d >= 1
  <2>1. Len(t) + 1 \in D
    BY <1>1
  <2> QED
    BY <1>2, <1>3, <2>1
<1>6. CASE d > Len(s) /\ d > Len(t)
  <2>1. Len(s) = Len(t) /\ d - 1 = Len(s)
    BY <1>1, <1>5, <1>6
  <2>2. s = t
    BY <1>4, <2>1, SeqEqual
  <2> QED
    BY <2>2
<1>7. CASE d > Len(s) /\ d <= Len(t)
  <2>1. Before(s, t)
    BY <1>1, <1>4, <1>5, <1>7 DEF Before
  <2> QED
    BY <2>1
<1>8. CASE d <= Len(s) /\ d > Len(t)
  <2>1. d \in 1 .. Len(s) /\ \A j \in 1 .. d - 1 : t[j] = s[j]
    BY <1>4, <1>5, <1>8
  <2>2. d <= Len(t) + 1 /\ ~(d <= Len(t))
    BY <1>1, <1>5, <1>8
  <2> QED
    BY <2>1, <2>2 DEF Before
<1>9. CASE d <= Len(s) /\ d <= Len(t)
  <2>1. d \in 1 .. Len(s) /\ d \in 1 .. Len(t) /\ s[d] # t[d] /\ s[d] \in Nat /\ t[d] \in Nat
    BY <1>1, <1>3, <1>5, <1>9
  <2>2. CASE s[d] < t[d]
    BY <1>1, <1>4, <1>5, <1>9, <2>2 DEF Before
  <2>3. CASE t[d] < s[d]
    BY <1>1, <1>4, <1>5, <1>9, <2>3 DEF Before
  <2> QED
    BY <2>1, <2>2, <2>3
<1> QED
  BY <1>1, <1>5, <1>6, <1>7, <1>8, <1>9

LEMMA BeforeTransitive ==
  ASSUME NEW s \in Seq(Nat), NEW t \in Seq(Nat), NEW u \in Seq(Nat),
         Before(s, t), Before(t, u)
  PROVE  Before(s, u)
<1>1. PICK a \in 1 .. Len(t) : /\ a <= Len(s) + 1
                               /\ \A j \in 1 .. a - 1 : s[j] = t[j]
                               /\ a <= Len(s) => s[a] < t[a]
  BY DEF Before
<1>2. PICK b \in 1 .. Len(u) : /\ b <= Len(t) + 1
                               /\ \A j \in 1 .. b - 1 : t[j] = u[j]
                               /\ b <= Len(t) => t[b] < u[b]
  BY DEF Before
<1>3. Len(s) \in Nat /\ Len(t) \in Nat /\ Len(u) \in Nat
  OBVIOUS
<1>4. /\ \A i \in 1 .. Len(s) : s[i] \in Nat
      /\ \A i \in 1 .. Len(t) : t[i] \in Nat
      /\ \A i \in 1 .. Len(u) : u[i] \in Nat
  OBVIOUS
<1>5. CASE a <= b
  <2>1. a \in 1 .. Len(u) /\ a <= Len(s) + 1
    BY <1>1, <1>2, <1>3, <1>5
  <2>2. \A j \in 1 .. a - 1 : s[j] = u[j]
    <3> SUFFICES ASSUME NEW j \in 1 .. a - 1 PROVE s[j] = u[j]
      OBVIOUS
    <3>1. j \in 1 .. b - 1
      BY <1>5
    <3> QED
      BY <1>1, <1>2, <3>1
  <2>3. ASSUME a <= Len(s)
        PROVE  s[a] < u[a]
    <3>1. s[a] < t[a] /\ s[a] \in Nat /\ t[a] \in Nat /\ u[a] \in Nat
      BY <1>1, <1>3, <1>4, <2>1, <2>3
    <3>2. t[a] = u[a] \/ t[a] < u[a]
      <4>1. CASE a = b
        BY <1>1, <1>2, <4>1
      <4>2. CASE a # b
        <5>1. a \in 1 .. b - 1
          BY <1>5, <4>2
        <5> QED
          BY <1>2, <5>1
      <4> QED
        BY <4>1, <4>2
    <3> QED
      BY <3>1, <3>2
  <2> QED
    BY <2>1, <2>2, <2>3 DEF Before
<1>6. CASE b < a
  <2>1. b \in 1 .. Len(u) /\ b <= Len(s) + 1 /\ b <= Len(t)
    BY <1>1, <1>2, <1>3, <1>6, SMTT(40)
  <2>2. \A j \in 1 .. b - 1 : s[j] = u[j]
    <3> SUFFICES ASSUME NEW j \in 1 .. b - 1 PROVE s[j] = u[j]
      OBVIOUS
    <3>1. j \in 1 .. a - 1
      BY <1>6
    <3> QED
      BY <1>1, <1>2, <3>1
  <2>3. s[b] = t[b] /\ t[b] < u[b]
    <3>1. b \in 1 .. a - 1
      BY <1>6
    <3> QED
      BY <1>1, <1>2, <2>1, <3>1
  <2> QED
    BY <2>1, <2>2, <2>3 DEF Before
<1> QED
  BY <1>5, <1>6

\* Pairs of words: the one before the other, in one order or the other.
Ordered(S) == {w \in S \X S : Before(w[1], w[2])}
Turned(S) == {w \in S \X S : Before(w[2], w[1])}

LEMMA WordsOrdered ==
  ASSUME NEW S, S \subseteq Seq(Nat)
  PROVE  TotallyOrders(Ordered(S), S) /\ TotallyOrders(Turned(S), S)
<1>1. \A x \in S : x \in Seq(Nat)
  OBVIOUS
<1>2. \A x \in S : ~Before(x, x)
  BY <1>1, BeforeIrreflexive
<1>3. \A x, y \in S : x # y => Before(x, y) \/ Before(y, x)
  BY <1>1, BeforeTotal
<1>4. \A x, y, z \in S : Before(x, y) /\ Before(y, z) => Before(x, z)
  BY <1>1, BeforeTransitive
<1>5. \A x, y \in S : /\ <<x, y>> \in Ordered(S) <=> Before(x, y)
                      /\ <<x, y>> \in Turned(S) <=> Before(y, x)
  BY DEF Ordered, Turned
<1> QED
  BY <1>2, <1>3, <1>4, <1>5 DEF TotallyOrders

LEMMA SortedWords ==
  ASSUME NEW S, S \subseteq Seq(Nat), IsFiniteSet(S)
  PROVE  /\ InOrder(Sorted(S, Before), Ordered(S), S)
         /\ InOrder(Sorted(S, LAMBDA a, b : Before(b, a)), Turned(S), S)
<1>1. TotallyOrders(Ordered(S), S) /\ TotallyOrders(Turned(S), S)
  BY WordsOrdered
<1>2. \A x \in S : /\ Preceding(Ordered(S), S, x) = {y \in S : Before(y, x)}
                   /\ Preceding(Turned(S), S, x) = {y \in S : Before(x, y)}
  BY DEF Preceding, Ordered, Turned
<1> DEFINE f == Sorted(S, Before)
           g == Sorted(S, LAMBDA a, b : Before(b, a))
           n == Cardinality(S)
<1>3. /\ \A k \in 1 .. n : \E x \in S : Cardinality({y \in S : Before(y, x)}) = k - 1
      /\ \A k \in 1 .. n : \E x \in S : Cardinality({y \in S : Before(x, y)}) = k - 1
  <2>1. /\ \A k \in 1 .. n : \E x \in S : Cardinality(Preceding(Ordered(S), S, x)) = k - 1
        /\ \A k \in 1 .. n : \E x \in S : Cardinality(Preceding(Turned(S), S, x)) = k - 1
    BY <1>1, PlacesTaken
  <2> QED
    BY <1>2, <2>1
<1>4. /\ f = [k \in 1 .. n |-> CHOOSE x \in S : Cardinality({y \in S : Before(y, x)}) = k - 1]
      /\ g = [k \in 1 .. n |-> CHOOSE x \in S : Cardinality({y \in S : Before(x, y)}) = k - 1]
  BY DEF Sorted
<1>5. /\ \A k \in 1 .. n : f[k] \in S /\ Cardinality({y \in S : Before(y, f[k])}) = k - 1
      /\ \A k \in 1 .. n : g[k] \in S /\ Cardinality({y \in S : Before(g[k], y)}) = k - 1
  BY <1>3, <1>4
<1>6. f \in [1 .. n -> S] /\ g \in [1 .. n -> S]
  BY <1>4, <1>5
<1>7. Ranks(f, Ordered(S), S) /\ Ranks(g, Turned(S), S)
  BY <1>2, <1>5, <1>6 DEF Ranks
<1> HIDE DEF f, g
<1>8. InOrder(f, Ordered(S), S) /\ InOrder(g, Turned(S), S)
  BY <1>1, <1>7, RankedSequence
<1> QED
  BY <1>8 DEF f, g

LEMMA InOrderMembers ==
  ASSUME NEW f, NEW R, NEW S, InOrder(f, R, S)
  PROVE  f \in Seq(S) /\ ToSet(f) = S
BY DEF InOrder, ToSet

-----------------------------------------------------------------------------
(***************************************************************************)
(* The suffixes of a text, and the suffix array.                           *)
(***************************************************************************)
LEMMA SuffixTyped ==
  ASSUME NEW text \in Seq(Nat), NEW p \in 0 .. Len(text)
  PROVE  /\ Suffix(text, p) \in Seq(Nat) /\ Len(Suffix(text, p)) = Len(text) - p
         /\ \A i \in 1 .. Len(text) - p : Suffix(text, p)[i] = text[p + i]
<1>1. p + 1 \in Int /\ Len(text) \in Int /\ \A i \in p + 1 .. Len(text) : text[i] \in Nat
  OBVIOUS
<1> DEFINE e == SubSeq(text, p + 1, Len(text))
<1>2. /\ e \in Seq(Nat)
      /\ Len(e) = IF p + 1 <= Len(text) THEN Len(text) - (p + 1) + 1 ELSE 0
      /\ \A i \in 1 .. Len(text) - (p + 1) + 1 : e[i] = text[(p + 1) + i - 1]
  BY <1>1, SubSeqProperties
<1> HIDE DEF e
<1>3. Len(e) = Len(text) - p
  BY <1>1, <1>2
<1>4. \A i \in 1 .. Len(text) - p : e[i] = text[p + i]
  BY <1>1, <1>2
<1> QED
  BY <1>2, <1>3, <1>4 DEF e, Suffix

SuffixesOrdered(text, S) == {w \in S \X S : Before(Suffix(text, w[1]), Suffix(text, w[2]))}

LEMMA SuffixArrayInOrder ==
  ASSUME NEW text \in Seq(Nat)
  PROVE  InOrder(SuffixArray(text), SuffixesOrdered(text, Indexed(text)), Indexed(text))
<1> DEFINE S == Indexed(text)
           R == SuffixesOrdered(text, S)
           f == SuffixArray(text)
           n == Cardinality(S)
<1>1. S \subseteq 0 .. Len(text) - 1 /\ \A p \in S : p \in 0 .. Len(text)
  BY DEF Indexed
<1>2. IsFiniteSet(S)
  <2>1. IsFiniteSet(0 .. Len(text) - 1)
    BY FS_Interval
  <2> QED
    BY <1>1, <2>1, FS_Subset
<1> HIDE DEF S
<1>3. \A p \in S : /\ Suffix(text, p) \in Seq(Nat)
                   /\ Len(Suffix(text, p)) = Len(text) - p
  BY <1>1, SuffixTyped
<1>4. \A p, q \in S : p # q => Suffix(text, p) # Suffix(text, q)
  BY <1>1, <1>3, SMTT(40)
<1>5. \A p, q \in S : <<p, q>> \in R <=> Before(Suffix(text, p), Suffix(text, q))
  BY DEF SuffixesOrdered
<1>6. TotallyOrders(R, S)
  <2> HIDE DEF R
  <2>1. \A x \in S : <<x, x>> \notin R
    BY <1>3, <1>5, BeforeIrreflexive
  <2>2. \A x, y \in S : x # y => <<x, y>> \in R \/ <<y, x>> \in R
    BY <1>3, <1>4, <1>5, BeforeTotal
  <2>3. \A x, y, z \in S : <<x, y>> \in R /\ <<y, z>> \in R => <<x, z>> \in R
    BY <1>3, <1>5, BeforeTransitive
  <2> QED
    BY <2>1, <2>2, <2>3 DEF TotallyOrders
<1>7. \A x \in S : Preceding(R, S, x) = {y \in S : Before(Suffix(text, y), Suffix(text, x))}
  BY <1>5 DEF Preceding
<1> HIDE DEF R
<1>8. \A k \in 1 .. n :
        \E x \in S : Cardinality({y \in S : Before(Suffix(text, y), Suffix(text, x))}) = k - 1
  <2>1. \A k \in 1 .. n : \E x \in S : Cardinality(Preceding(R, S, x)) = k - 1
    BY <1>2, <1>6, PlacesTaken
  <2> QED
    BY <1>7, <2>1
<1>9. f = [k \in 1 .. n |->
             CHOOSE x \in S :
               Cardinality({y \in S : Before(Suffix(text, y), Suffix(text, x))}) = k - 1]
  BY DEF SuffixArray, Sorted, S
<1>10. \A k \in 1 .. n :
         /\ f[k] \in S
         /\ Cardinality({y \in S : Before(Suffix(text, y), Suffix(text, f[k]))}) = k - 1
  BY <1>8, <1>9
<1>11. f \in [1 .. n -> S]
  BY <1>9, <1>10
<1>12. Ranks(f, R, S)
  BY <1>7, <1>10, <1>11 DEF Ranks
<1> HIDE DEF f
<1>13. InOrder(f, R, S)
  BY <1>2, <1>6, <1>12, RankedSequence
<1> QED
  BY <1>13 DEF f, R, S

-----------------------------------------------------------------------------
(***************************************************************************)
(* vocab_search.c: what it compares, and where its bounds lie.             *)
(***************************************************************************)
LEMMA TakeTyped ==
  ASSUME NEW S, NEW s \in Seq(S), NEW n \in Nat
  PROVE  /\ Take(s, n) \in Seq(S)
         /\ Len(Take(s, n)) = IF n < Len(s) THEN n ELSE Len(s)
         /\ \A i \in 1 .. Len(s) : i <= n => Take(s, n)[i] = s[i]
<1> DEFINE m == IF n < Len(s) THEN n ELSE Len(s)
<1>1. m \in 0 .. Len(s) /\ \A i \in 1 .. Len(s) : i <= n => i \in 1 .. m
  OBVIOUS
<1> HIDE DEF m
<1>2. /\ SubSeq(s, 1, m) \in Seq(S) /\ Len(SubSeq(s, 1, m)) = m
      /\ \A i \in 1 .. m : SubSeq(s, 1, m)[i] = s[i]
  BY <1>1, FirstOnes
<1> QED
  BY <1>1, <1>2 DEF m, Take

LEMMA TakeKeepsOrder ==
  ASSUME NEW s \in Seq(Nat), NEW t \in Seq(Nat), NEW n \in Nat, Before(s, t)
  PROVE  Take(s, n) = Take(t, n) \/ Before(Take(s, n), Take(t, n))
<1> DEFINE a == Take(s, n)
           b == Take(t, n)
<1>1. /\ a \in Seq(Nat) /\ Len(a) = (IF n < Len(s) THEN n ELSE Len(s))
      /\ \A i \in 1 .. Len(s) : i <= n => a[i] = s[i]
  BY TakeTyped
<1>2. /\ b \in Seq(Nat) /\ Len(b) = (IF n < Len(t) THEN n ELSE Len(t))
      /\ \A i \in 1 .. Len(t) : i <= n => b[i] = t[i]
  BY TakeTyped
<1> HIDE DEF a, b
<1>3. PICK k \in 1 .. Len(t) : /\ k <= Len(s) + 1
                               /\ \A j \in 1 .. k - 1 : s[j] = t[j]
                               /\ k <= Len(s) => s[k] < t[k]
  BY DEF Before
<1>4. Len(s) \in Nat /\ Len(t) \in Nat
  OBVIOUS
<1>5. CASE n < k
  <2>1. Len(a) = n /\ Len(b) = n
    BY <1>1, <1>2, <1>3, <1>4, <1>5
  <2>2. \A i \in 1 .. n : a[i] = b[i]
    <3> SUFFICES ASSUME NEW i \in 1 .. n PROVE a[i] = b[i]
      OBVIOUS
    <3>1. i \in 1 .. Len(s) /\ i \in 1 .. Len(t) /\ i \in 1 .. k - 1 /\ i <= n
      BY <1>3, <1>4, <1>5
    <3> QED
      BY <1>1, <1>2, <1>3, <3>1
  <2>3. a = b
    BY <1>1, <1>2, <2>1, <2>2, SeqEqual
  <2> QED
    BY <2>3 DEF a, b
<1>6. CASE k <= n
  <2>1. k \in 1 .. Len(b) /\ k <= Len(a) + 1
    BY <1>1, <1>2, <1>3, <1>4, <1>6
  <2>2. \A j \in 1 .. k - 1 : a[j] = b[j]
    <3> SUFFICES ASSUME NEW j \in 1 .. k - 1 PROVE a[j] = b[j]
      OBVIOUS
    <3>1. j \in 1 .. Len(s) /\ j \in 1 .. Len(t) /\ j <= n
      BY <1>3, <1>4, <1>6
    <3> QED
      BY <1>1, <1>2, <1>3, <3>1
  <2>3. ASSUME k <= Len(a)
        PROVE  a[k] < b[k]
    <3>1. k \in 1 .. Len(s)
      BY <1>1, <1>3, <1>4, <2>3
    <3> QED
      BY <1>1, <1>2, <1>3, <1>6, <3>1
  <2>4. Before(a, b)
    BY <2>1, <2>2, <2>3 DEF Before
  <2> QED
    BY <2>4 DEF a, b
<1> QED
  BY <1>3, <1>5, <1>6

\* The part of the suffix that compare_prefix looks at.
Compared(text, p, word) == Take(Suffix(text, p), Len(word))

LEMMA ComparedIs ==
  ASSUME NEW text \in Seq(Nat), NEW p \in 0 .. Len(text), NEW word \in Seq(Nat)
  PROVE  /\ Compared(text, p, word) \in Seq(Nat)
         /\ Compare(text, p, word) =
              IF Compared(text, p, word) = word THEN 0
              ELSE IF Before(Compared(text, p, word), word) THEN -1 ELSE 1
<1> DEFINE m == IF p + Len(word) <= Len(text) THEN p + Len(word) ELSE Len(text)
           e == SubSeq(text, p + 1, m)
           c == Compared(text, p, word)
<1>1. Len(text) \in Nat /\ Len(word) \in Nat /\ \A i \in 1 .. Len(text) : text[i] \in Nat
  OBVIOUS
<1>2. m \in p .. Len(text) /\ m - p = IF Len(word) < Len(text) - p THEN Len(word) ELSE Len(text) - p
  <2> DEFINE a == Len(text)
             b == Len(word)
  <2>1. a \in Nat /\ b \in Nat /\ p \in 0 .. a /\ m = IF p + b <= a THEN p + b ELSE a
    OBVIOUS
  <2> HIDE DEF m, e, c, a, b
  <2>2. m \in p .. a /\ m - p = IF b < a - p THEN b ELSE a - p
    BY <2>1
  <2> QED
    BY <2>2 DEF a, b
<1> HIDE DEF m
<1>3. \A i \in p + 1 .. m : text[i] \in Nat
  BY <1>1, <1>2
<1>4. /\ e \in Seq(Nat)
      /\ Len(e) = IF p + 1 <= m THEN m - (p + 1) + 1 ELSE 0
      /\ \A i \in 1 .. m - (p + 1) + 1 : e[i] = text[(p + 1) + i - 1]
  <2>1. p + 1 \in Int /\ m \in Int
    BY <1>1, <1>2
  <2> QED
    BY <1>3, <2>1, SubSeqProperties
<1>5. /\ Suffix(text, p) \in Seq(Nat) /\ Len(Suffix(text, p)) = Len(text) - p
      /\ \A i \in 1 .. Len(text) - p : Suffix(text, p)[i] = text[p + i]
  BY SuffixTyped
<1>6. /\ c \in Seq(Nat)
      /\ Len(c) = IF Len(word) < Len(text) - p THEN Len(word) ELSE Len(text) - p
      /\ \A i \in 1 .. Len(text) - p : i <= Len(word) => c[i] = Suffix(text, p)[i]
  BY <1>1, <1>5, TakeTyped, SMTT(40) DEF Compared
<1> HIDE DEF e, c
<1>7. Len(e) = m - p /\ Len(c) = m - p
  BY <1>1, <1>2, <1>4, <1>6, SMTT(40)
<1>8. \A i \in 1 .. m - p : e[i] = c[i]
  <2> SUFFICES ASSUME NEW i \in 1 .. m - p PROVE e[i] = c[i]
    OBVIOUS
  <2>1. i \in 1 .. m - (p + 1) + 1 /\ (p + 1) + i - 1 = p + i
        /\ i \in 1 .. Len(text) - p /\ i <= Len(word)
    BY <1>1, <1>2
  <2> QED
    BY <1>4, <1>5, <1>6, <2>1
<1>9. e = c
  BY <1>4, <1>6, <1>7, <1>8, SeqEqual
<1>10. Compare(text, p, word) = IF e = word THEN 0 ELSE IF Before(e, word) THEN -1 ELSE 1
  BY DEF Compare, e, m
<1> QED
  BY <1>6, <1>9, <1>10 DEF c

LEMMA CompareGrows ==
  ASSUME NEW text \in Seq(Nat), NEW word \in Seq(Nat),
         NEW p \in 0 .. Len(text), NEW q \in 0 .. Len(text),
         Before(Suffix(text, p), Suffix(text, q))
  PROVE  /\ Compare(text, p, word) \in {-1, 0, 1} /\ Compare(text, q, word) \in {-1, 0, 1}
         /\ Compare(text, p, word) <= Compare(text, q, word)
<1> DEFINE a == Compared(text, p, word)
           b == Compared(text, q, word)
<1>1. a \in Seq(Nat) /\ b \in Seq(Nat)
  BY ComparedIs
<1>2. /\ Compare(text, p, word) = IF a = word THEN 0 ELSE IF Before(a, word) THEN -1 ELSE 1
      /\ Compare(text, q, word) = IF b = word THEN 0 ELSE IF Before(b, word) THEN -1 ELSE 1
  BY ComparedIs
<1>3. a = b \/ Before(a, b)
  <2>1. Suffix(text, p) \in Seq(Nat) /\ Suffix(text, q) \in Seq(Nat) /\ Len(word) \in Nat
    BY SuffixTyped
  <2> QED
    BY <2>1, TakeKeepsOrder DEF Compared
<1> HIDE DEF a, b
<1>4. CASE a = b
  BY <1>2, <1>4
<1>5. CASE Before(a, b) /\ b = word
  <2>1. a # word
    BY <1>1, <1>5, BeforeIrreflexive
  <2> QED
    BY <1>2, <1>5, <2>1
<1>6. CASE Before(a, b) /\ Before(b, word)
  <2>1. Before(a, word)
    BY <1>1, <1>6, BeforeTransitive
  <2>2. a # word
    BY <1>1, <2>1, BeforeIrreflexive
  <2> QED
    BY <1>2, <2>1, <2>2
<1>7. CASE b # word /\ ~Before(b, word)
  BY <1>2, <1>7
<1> QED
  BY <1>3, <1>4, <1>5, <1>6, <1>7

(***************************************************************************)
(* Halving.  If what is compared grows along the array, the bound is the   *)
(* number of places that compare less.                                     *)
(***************************************************************************)
Mid(range) == range[1] + (range[2] - range[1]) \div 2

Halved(f, text, sa, word, c, range) ==
  IF range[1] >= range[2] THEN range[1]
  ELSE IF Compare(text, sa[Mid(range) + 1], word) < c THEN f[<<Mid(range) + 1, range[2]>>]
  ELSE f[<<range[1], Mid(range)>>]

Halves(f, text, sa, word, c) ==
  f = [range \in (0 .. Len(sa)) \X (0 .. Len(sa)) |-> Halved(f, text, sa, word, c, range)]

\* The first k places compare less, and no others.
Splits(k, text, sa, word, c) ==
  \A i \in 1 .. Len(sa) : Compare(text, sa[i], word) < c <=> i <= k

LEMMA MidBetween ==
  ASSUME NEW lo \in Nat, NEW hi \in Nat, lo < hi
  PROVE  /\ Mid(<<lo, hi>>) \in lo .. hi - 1
         /\ Mid(<<lo, hi>>) \in Nat
<1>1. (hi - lo) \div 2 \in 0 .. hi - lo - 1
  OBVIOUS
<1> QED
  BY <1>1 DEF Mid

LEMMA HalvingExists ==
  ASSUME NEW text, NEW word, NEW c, NEW S, NEW sa \in Seq(S),
         NEW k \in 0 .. Len(sa), Splits(k, text, sa, word, c)
  PROVE  \E f : Halves(f, text, sa, word, c)
<1> DEFINE n == Len(sa)
           f == [range \in (0 .. n) \X (0 .. n) |->
                   IF range[1] >= range[2] \/ k < range[1] THEN range[1]
                   ELSE IF k > range[2] THEN range[2] ELSE k]
<1>1. n \in Nat
  OBVIOUS
<1>2. \A lo, hi \in 0 .. n :
        f[<<lo, hi>>] = IF lo >= hi \/ k < lo THEN lo ELSE IF k > hi THEN hi ELSE k
  OBVIOUS
<1> HIDE DEF n
<1>3. ASSUME NEW lo \in 0 .. n, NEW hi \in 0 .. n
      PROVE  f[<<lo, hi>>] = Halved(f, text, sa, word, c, <<lo, hi>>)
  <2> DEFINE m == Mid(<<lo, hi>>)
  <2> HIDE DEF f
  <2>1. CASE lo >= hi
    BY <1>2, <2>1 DEF Halved
  <2>2. CASE lo < hi
    <3>1. m \in lo .. hi - 1 /\ m \in Nat
      BY <2>2, MidBetween
    <3> HIDE DEF m
    <3>2. m + 1 \in 1 .. n /\ m + 1 \in 0 .. n /\ m \in 0 .. n
      BY <1>1, <3>1
    <3>3. Halved(f, text, sa, word, c, <<lo, hi>>) =
            IF Compare(text, sa[m + 1], word) < c THEN f[<<m + 1, hi>>] ELSE f[<<lo, m>>]
      BY <2>2 DEF Halved, m
    <3>4. Compare(text, sa[m + 1], word) < c <=> m + 1 <= k
      BY <3>2 DEF Splits, n
    <3>5. k \in Nat
      BY <1>1 DEF n
    <3>6. CASE m + 1 <= k
      <4>1. f[<<m + 1, hi>>] = IF k > hi THEN hi ELSE k
        BY <1>2, <3>1, <3>2, <3>5, <3>6
      <4>2. f[<<lo, hi>>] = IF k > hi THEN hi ELSE k
        BY <1>2, <2>2, <3>1, <3>5, <3>6
      <4> QED
        BY <3>3, <3>4, <3>6, <4>1, <4>2
    <3>7. CASE ~(m + 1 <= k)
      <4>1. f[<<lo, m>>] = IF k < lo THEN lo ELSE k
        BY <1>2, <3>1, <3>2, <3>5, <3>7
      <4>2. f[<<lo, hi>>] = IF k < lo THEN lo ELSE k
        BY <1>2, <2>2, <3>1, <3>5, <3>7
      <4> QED
        BY <3>3, <3>4, <3>7, <4>1, <4>2
    <3> QED
      BY <3>6, <3>7
  <2> QED
    BY <2>1, <2>2
<1>4. f = [range \in (0 .. n) \X (0 .. n) |-> f[range]]
  OBVIOUS
<1>5. \A range \in (0 .. n) \X (0 .. n) : f[range] = Halved(f, text, sa, word, c, range)
  <2> SUFFICES ASSUME NEW range \in (0 .. n) \X (0 .. n)
               PROVE  f[range] = Halved(f, text, sa, word, c, range)
    OBVIOUS
  <2>1. range = <<range[1], range[2]>> /\ range[1] \in 0 .. n /\ range[2] \in 0 .. n
    OBVIOUS
  <2> HIDE DEF f
  <2> QED
    BY <1>3, <2>1
<1> HIDE DEF f
<1>6. Halves(f, text, sa, word, c)
  BY <1>4, <1>5 DEF Halves, n
<1> QED
  BY <1>6

LEMMA HalvingFinds ==
  ASSUME NEW text, NEW word, NEW c, NEW S, NEW sa \in Seq(S),
         NEW k \in 0 .. Len(sa), Splits(k, text, sa, word, c),
         NEW f, Halves(f, text, sa, word, c)
  PROVE  f[<<0, Len(sa)>>] = k
<1> DEFINE n == Len(sa)
           P == {w \in Nat : \A lo, hi \in 0 .. n :
                               hi - lo <= w /\ lo <= k /\ k <= hi => f[<<lo, hi>>] = k}
<1>1. n \in Nat /\ k \in Nat /\ k <= n
  OBVIOUS
<1> HIDE DEF n
<1>2. \A lo, hi \in 0 .. n : f[<<lo, hi>>] = Halved(f, text, sa, word, c, <<lo, hi>>)
  <2> SUFFICES ASSUME NEW lo \in 0 .. n, NEW hi \in 0 .. n
               PROVE  f[<<lo, hi>>] = Halved(f, text, sa, word, c, <<lo, hi>>)
    OBVIOUS
  <2>1. <<lo, hi>> \in (0 .. n) \X (0 .. n)
    OBVIOUS
  <2>2. f = [range \in (0 .. n) \X (0 .. n) |-> Halved(f, text, sa, word, c, range)]
    BY DEF Halves, n
  <2> QED
    BY <2>1, <2>2
<1>3. 0 \in P
  <2> SUFFICES ASSUME NEW lo \in 0 .. n, NEW hi \in 0 .. n, hi - lo <= 0, lo <= k, k <= hi
               PROVE  f[<<lo, hi>>] = k
    OBVIOUS
  <2>1. lo = k /\ lo >= hi
    BY <1>1
  <2> QED
    BY <1>2, <2>1 DEF Halved
<1>4. ASSUME NEW w \in Nat, w \in P
      PROVE  w + 1 \in P
  <2> SUFFICES ASSUME NEW lo \in 0 .. n, NEW hi \in 0 .. n, hi - lo <= w + 1, lo <= k, k <= hi
               PROVE  f[<<lo, hi>>] = k
    OBVIOUS
  <2>1. CASE lo >= hi
    <3>1. lo = k
      BY <1>1, <2>1
    <3> QED
      BY <1>2, <2>1, <3>1 DEF Halved
  <2>2. CASE lo < hi
    <3> DEFINE m == Mid(<<lo, hi>>)
    <3>1. m \in lo .. hi - 1 /\ m \in Nat
      BY <1>1, <2>2, MidBetween
    <3> HIDE DEF m
    <3>2. m + 1 \in 1 .. n /\ m + 1 \in 0 .. n /\ m \in 0 .. n
      BY <1>1, <3>1
    <3>3. f[<<lo, hi>>] =
            IF Compare(text, sa[m + 1], word) < c THEN f[<<m + 1, hi>>] ELSE f[<<lo, m>>]
      BY <1>2, <2>2 DEF Halved, m
    <3>4. Compare(text, sa[m + 1], word) < c <=> m + 1 <= k
      BY <3>2 DEF Splits, n
    <3>5. CASE m + 1 <= k
      <4>1. f[<<m + 1, hi>>] = k
        BY <1>1, <1>4, <3>1, <3>2, <3>5
      <4> QED
        BY <3>3, <3>4, <3>5, <4>1
    <3>6. CASE ~(m + 1 <= k)
      <4>1. f[<<lo, m>>] = k
        BY <1>1, <1>4, <3>1, <3>2, <3>6
      <4> QED
        BY <3>3, <3>4, <3>6, <4>1
    <3> QED
      BY <3>5, <3>6
  <2> QED
    BY <1>1, <2>1, <2>2
<1>5. n \in P
  <2> HIDE DEF P
  <2> QED
    BY <1>1, <1>3, <1>4, Climb
<1>6. f[<<0, n>>] = k
  BY <1>1, <1>5
<1> QED
  BY <1>6 DEF n

LEMMA BoundFinds ==
  ASSUME NEW text, NEW word, NEW c, NEW S, NEW sa \in Seq(S),
         NEW k \in 0 .. Len(sa), Splits(k, text, sa, word, c)
  PROVE  Bound(text, sa, word, c) = k
<1> DEFINE f == CHOOSE g : Halves(g, text, sa, word, c)
<1>1. Halves(f, text, sa, word, c)
  BY HalvingExists
<1>2. Bound(text, sa, word, c) = f[<<0, Len(sa)>>]
  BY DEF Bound, Halves, Halved, Mid
<1> HIDE DEF f
<1>3. f[<<0, Len(sa)>>] = k
  BY <1>1, HalvingFinds
<1> QED
  BY <1>2, <1>3

LEMMA SplitExists ==
  ASSUME NEW text, NEW word, NEW c \in Int, NEW S, NEW sa \in Seq(S),
         \A i \in 1 .. Len(sa) : Compare(text, sa[i], word) \in Int,
         \A i, j \in 1 .. Len(sa) :
           i < j => Compare(text, sa[i], word) <= Compare(text, sa[j], word)
  PROVE  \E k \in 0 .. Len(sa) : Splits(k, text, sa, word, c)
<1> DEFINE n == Len(sa)
           D == {m \in 0 .. n : m = n \/ ~(Compare(text, sa[m + 1], word) < c)}
<1>1. n \in Nat
  OBVIOUS
<1> HIDE DEF n
<1>2. D \in SUBSET Nat /\ n \in D
  BY <1>1
<1>3. PICK k \in D : \A m \in D : k <= m
  <2> HIDE DEF D
  <2> QED
    BY <1>2, LeastElement
<1>4. k \in 0 .. n
  OBVIOUS
<1>5. ASSUME NEW i \in 1 .. n
      PROVE  Compare(text, sa[i], word) < c <=> i <= k
  <2>1. CASE i <= k
    <3>1. i - 1 \in 0 .. n /\ i - 1 # n /\ i - 1 < k /\ (i - 1) + 1 = i
      BY <1>1, <1>4, <2>1
    <3>2. i - 1 \notin D
      BY <1>3, <1>4, <3>1
    <3> QED
      BY <2>1, <3>1, <3>2
  <2>2. CASE k < i
    <3>1. k # n /\ k + 1 \in 1 .. n /\ k + 1 <= i
      BY <1>1, <1>4, <2>2
    <3>2. ~(Compare(text, sa[k + 1], word) < c)
      BY <1>3, <3>1
    <3>3. Compare(text, sa[k + 1], word) <= Compare(text, sa[i], word)
      <4>1. CASE k + 1 = i
        BY <4>1, <3>1 DEF n
      <4>2. CASE k + 1 < i
        BY <4>2, <3>1 DEF n
      <4> QED
        BY <1>4, <3>1, <4>1, <4>2
    <3>4. Compare(text, sa[k + 1], word) \in Int /\ Compare(text, sa[i], word) \in Int
      BY <3>1 DEF n
    <3> QED
      BY <1>4, <2>2, <3>2, <3>3, <3>4
  <2> QED
    BY <1>4, <2>1, <2>2
<1> QED
  BY <1>4, <1>5 DEF n, Splits

\* The positions found are those whose suffix begins with the word.
LEMMA SearchFinds ==
  ASSUME NEW text \in Seq(Nat), NEW word \in Seq(Nat)
  PROVE  {SuffixArray(text)[i + 1] : i \in SearchRange(text, SuffixArray(text), word)} =
           {p \in Indexed(text) : Compare(text, p, word) = 0}
<1> DEFINE S == Indexed(text)
           sa == SuffixArray(text)
           n == Cardinality(S)
<1>1. InOrder(sa, SuffixesOrdered(text, S), S)
  BY SuffixArrayInOrder
<1>2. S \subseteq 0 .. Len(text)
  BY DEF Indexed
<1> HIDE DEF sa, S
<1>3. /\ sa \in Seq(S) /\ Len(sa) = n /\ n \in Nat
      /\ \A i, j \in 1 .. n : i < j => Before(Suffix(text, sa[i]), Suffix(text, sa[j]))
      /\ \A p \in S : \E i \in 1 .. n : sa[i] = p
      /\ \A i \in 1 .. n : sa[i] \in S
  <2>1. /\ sa \in Seq(S) /\ Len(sa) = n /\ n \in Nat
        /\ \A p \in S : \E i \in 1 .. n : sa[i] = p
        /\ \A i, j \in 1 .. n : i < j => <<sa[i], sa[j]>> \in SuffixesOrdered(text, S)
    BY <1>1 DEF InOrder
  <2>2. \A i, j \in 1 .. n : i < j => Before(Suffix(text, sa[i]), Suffix(text, sa[j]))
    BY <2>1 DEF SuffixesOrdered
  <2>3. \A i \in 1 .. n : sa[i] \in S
    BY <2>1
  <2> QED
    BY <2>1, <2>2, <2>3
<1> HIDE DEF n
<1>4. \A i \in 1 .. n : sa[i] \in 0 .. Len(text)
  BY <1>2, <1>3
<1>5. ASSUME NEW p \in S
      PROVE  Compare(text, p, word) \in {-1, 0, 1}
  <2>1. Compare(text, p, word) = IF Compared(text, p, word) = word THEN 0
              ELSE IF Before(Compared(text, p, word), word) THEN -1 ELSE 1
    BY <1>2, ComparedIs
  <2> QED
    BY <2>1
<1>6. \A i, j \in 1 .. n : i < j => Compare(text, sa[i], word) <= Compare(text, sa[j], word)
  BY <1>3, <1>4, CompareGrows
<1>7. ASSUME NEW c \in Int
      PROVE  Bound(text, sa, word, c) \in 0 .. n
             /\ Splits(Bound(text, sa, word, c), text, sa, word, c)
  <2>1. ASSUME NEW i \in 1 .. n PROVE Compare(text, sa[i], word) \in Int
    <3>1. sa[i] \in S
      BY <1>3
    <3>2. Compare(text, sa[i], word) \in {-1, 0, 1}
      BY <1>5, <3>1
    <3> QED
      BY <3>2
  <2>2. PICK k \in 0 .. Len(sa) : Splits(k, text, sa, word, c)
    BY <1>3, <1>6, <2>1, SplitExists
  <2>3. Bound(text, sa, word, c) = k
    BY <1>3, <2>2, BoundFinds
  <2> QED
    BY <1>3, <2>2, <2>3
<1> DEFINE a == Bound(text, sa, word, 0)
           b == Bound(text, sa, word, 1)
<1>8. /\ a \in 0 .. n /\ b \in 0 .. n
      /\ \A i \in 1 .. n : Compare(text, sa[i], word) < 0 <=> i <= a
      /\ \A i \in 1 .. n : Compare(text, sa[i], word) < 1 <=> i <= b
  <2>0. 0 \in Int /\ 1 \in Int
    OBVIOUS
  <2>1. a \in 0 .. n /\ Splits(a, text, sa, word, 0)
    BY <1>7, <2>0, Zenon
  <2>2. b \in 0 .. n /\ Splits(b, text, sa, word, 1)
    BY <1>7, <2>0, Zenon
  <2> HIDE DEF a, b
  <2> QED
    BY <1>3, <2>1, <2>2 DEF Splits
<1>9. SearchRange(text, sa, word) = a .. b - 1
  BY DEF SearchRange
<1> HIDE DEF a, b
<1>10. ASSUME NEW i \in a .. b - 1
       PROVE  sa[i + 1] \in S /\ Compare(text, sa[i + 1], word) = 0
  <2>1. i + 1 \in 1 .. n /\ ~(i + 1 <= a) /\ i + 1 <= b
    BY <1>3, <1>8
  <2>2. ~(Compare(text, sa[i + 1], word) < 0) /\ Compare(text, sa[i + 1], word) < 1
    BY <1>8, <2>1
  <2>3. sa[i + 1] \in S /\ Compare(text, sa[i + 1], word) \in {-1, 0, 1}
    BY <1>3, <1>5, <2>1
  <2> QED
    BY <2>2, <2>3
<1>11. ASSUME NEW p \in S, Compare(text, p, word) = 0
       PROVE  \E i \in a .. b - 1 : sa[i + 1] = p
  <2>1. PICK j \in 1 .. n : sa[j] = p
    BY <1>3
  <2>2. ~(j <= a) /\ j <= b
    BY <1>8, <1>11, <2>1
  <2>3. j - 1 \in a .. b - 1 /\ (j - 1) + 1 = j
    BY <1>3, <1>8, <2>2
  <2> QED
    BY <2>1, <2>3
<1>12. {sa[i + 1] : i \in a .. b - 1} = {p \in S : Compare(text, p, word) = 0}
  BY <1>10, <1>11
<1> QED
  BY <1>9, <1>12 DEF sa, S

-----------------------------------------------------------------------------
(***************************************************************************)
(* The text of the terms.  A position at a letter lies in one term, at one *)
(* of its letters; the separators before it number the terms before that.  *)
(***************************************************************************)
Separators(text, p) == {j \in 0 .. p - 1 : j < Len(text) /\ text[j + 1] = 0}

LEMMA SeparatorsFinite ==
  ASSUME NEW text, NEW p \in Int
  PROVE  IsFiniteSet(Separators(text, p)) /\ Cardinality(Separators(text, p)) \in Nat
<1>1. IsFiniteSet(0 .. p - 1) /\ Separators(text, p) \subseteq 0 .. p - 1
  BY FS_Interval DEF Separators
<1> QED
  BY <1>1, FS_Subset, FS_CardinalityType

LEMMA TextAppend ==
  ASSUME NEW terms \in Seq(Words), NEW t \in Words
  PROVE  /\ TextOf(terms) \in Seq(Nat)
         /\ TextOf(Append(terms, t)) = TextOf(terms) \o Append(t, 0)
<1> DEFINE n == Len(terms)
           tt == Append(terms, t)
           f == [i \in 1 .. n + 1 |-> Append(tt[i], 0)]
<1>1. /\ n \in Nat /\ tt \in Seq(Words) /\ Len(tt) = n + 1 /\ tt[n + 1] = t
      /\ \A i \in 1 .. n : tt[i] = terms[i] /\ terms[i] \in Words
      /\ DOMAIN tt = 1 .. n + 1 /\ DOMAIN terms = 1 .. n
  OBVIOUS
<1> HIDE DEF n, tt
<1>2. \A w \in Words : Append(w, 0) \in Seq(Nat)
  BY DEF Words
<1>3. f \in [1 .. n + 1 -> Seq(Nat)] /\ f[n + 1] = Append(t, 0)
  <2>1. \A i \in 1 .. n + 1 : tt[i] \in Words
    BY <1>1
  <2>2. n + 1 \in 1 .. n + 1
    BY <1>1
  <2> QED
    BY <1>1, <1>2, <2>1, <2>2
<1>4. [i \in 1 .. n |-> f[i]] = [i \in DOMAIN terms |-> Append(terms[i], 0)]
  BY <1>1
<1>5. f = [i \in DOMAIN tt |-> Append(tt[i], 0)]
  BY <1>1
<1> HIDE DEF f
<1>6. FlattenSeq(f) = FlattenSeq([i \in 1 .. n |-> f[i]]) \o f[n + 1]
  BY <1>1, <1>3, FlattenMore
<1>7. [i \in 1 .. n |-> f[i]] \in [1 .. n -> Seq(Nat)]
  BY <1>1, <1>3
<1>8. FlattenSeq([i \in 1 .. n |-> f[i]]) \in Seq(Nat)
  BY <1>1, <1>7, FlattenTyped
<1> QED
  BY <1>3, <1>4, <1>5, <1>6, <1>8 DEF TextOf, tt

LEMMA TextNothing == TextOf(<<>>) = <<>>
<1>1. [i \in DOMAIN <<>> |-> Append(<<>>[i], 0)] = <<>>
  OBVIOUS
<1> QED
  BY <1>1, FlattenNothing DEF TextOf

\* Position p is at letter o of term i.
Located(text, terms, p, i, o) ==
  /\ p \in Nat /\ p + (Len(terms[i]) - o) + 1 < Len(text)
  /\ \A k \in 0 .. Len(terms[i]) - o : text[p + 1 + k] = terms[i][o + k]
  /\ text[p + (Len(terms[i]) - o) + 2] = 0
  /\ Cardinality(Separators(text, p)) = i - 1

WellLaid(text, terms) ==
  /\ Cardinality(Separators(text, Len(text))) = Len(terms)
  /\ \A p \in 0 .. Len(text) - 1 : text[p + 1] # 0 =>
       \E i \in 1 .. Len(terms) : \E o \in 1 .. Len(terms[i]) : Located(text, terms, p, i, o)
  /\ \A i \in 1 .. Len(terms) : \A o \in 1 .. Len(terms[i]) :
       \E p \in 0 .. Len(text) - 1 : Located(text, terms, p, i, o)

JoinedAs(e, s, t) ==
  /\ e \in Seq(Nat) /\ Len(e) = Len(s) + Len(t)
  /\ \A i \in 1 .. Len(s) : e[i] = s[i]
  /\ \A i \in 1 .. Len(t) : e[Len(s) + i] = t[i]

LEMMA JoinedNumbers ==
  ASSUME NEW s \in Seq(Nat), NEW t \in Seq(Nat)
  PROVE  JoinedAs(s \o t, s, t)
<1> DEFINE e == s \o t
<1>1. e = s \o t
  OBVIOUS
<1> HIDE DEF e
<1>2. JoinedAs(e, s, t)
  BY <1>1, EndToEnd DEF JoinedAs
<1> QED
  BY <1>2 DEF e

\* e is the text with the term t behind it.
Laid(e, text, t) ==
  /\ e \in Seq(Nat) /\ Len(e) = Len(text) + Len(t) + 1
  /\ \A i \in 1 .. Len(text) : e[i] = text[i]
  /\ \A i \in 1 .. Len(t) : e[Len(text) + i] = t[i] /\ t[i] # 0 /\ t[i] \in Nat
  /\ e[Len(text) + Len(t) + 1] = 0
  /\ \A p \in 0 .. Len(text) : Separators(e, p) = Separators(text, p)
  /\ \A q \in 0 .. Len(t) : Separators(e, Len(text) + q) = Separators(text, Len(text))
  /\ Separators(e, Len(e)) = Separators(text, Len(text)) \cup {Len(text) + Len(t)}

LEMMA SeparatorsGrow ==
  ASSUME NEW text \in Seq(Nat), NEW t \in Words, NEW e, e = text \o Append(t, 0)
  PROVE  Laid(e, text, t)
<1> DEFINE n == Len(text)
           m == Len(t)
           u == Append(t, 0)
<1>1. /\ n \in Nat /\ m \in Nat /\ u \in Seq(Nat) /\ Len(u) = m + 1
      /\ \A i \in 1 .. m : u[i] = t[i] /\ t[i] # 0 /\ t[i] \in Nat
      /\ u[m + 1] = 0
  BY DEF Words
<1> HIDE DEF u
<1>2. /\ e \in Seq(Nat) /\ Len(e) = n + (m + 1)
      /\ \A i \in 1 .. n : e[i] = text[i]
      /\ \A i \in 1 .. m + 1 : e[n + i] = u[i]
  <2>1. e = text \o u
    BY DEF u
  <2>2. /\ e \in Seq(Nat) /\ Len(e) = Len(text) + Len(u)
        /\ \A i \in 1 .. Len(text) : e[i] = text[i]
        /\ \A i \in 1 .. Len(u) : e[Len(text) + i] = u[i]
    <3>1. text \in Seq(Nat) /\ u \in Seq(Nat)
      BY <1>1
    <3>2. JoinedAs(text \o u, text, u)
      BY <3>1, JoinedNumbers
    <3> QED
      BY <2>1, <3>2 DEF JoinedAs
  <2> QED
    BY <1>1, <2>2 DEF n
<1> HIDE DEF n, m
<1>3. \A i \in 1 .. m : e[n + i] = t[i] /\ t[i] # 0 /\ t[i] \in Nat
  <2>1. \A i \in 1 .. m : i \in 1 .. m + 1
    BY <1>1
  <2> QED
    BY <1>1, <1>2, <2>1
<1>4. e[n + m + 1] = 0
  <2>1. m + 1 \in 1 .. m + 1 /\ n + (m + 1) = n + m + 1
    BY <1>1
  <2> QED
    BY <1>1, <1>2, <2>1
<1>5. ASSUME NEW p \in 0 .. n
      PROVE  Separators(e, p) = Separators(text, p)
  <2>1. \A j \in 0 .. p - 1 : j + 1 \in 1 .. n /\ j < n /\ j < Len(e)
    BY <1>1, <1>2
  <2>2. \A j \in 0 .. p - 1 : e[j + 1] = text[j + 1]
    BY <1>2, <2>1
  <2> QED
    BY <2>1, <2>2 DEF Separators, n
<1>6. ASSUME NEW q \in 0 .. m
      PROVE  Separators(e, n + q) = Separators(text, n)
  <2>1. \A j \in 0 .. (n + q) - 1 : j < n \/ e[j + 1] # 0
    <3> SUFFICES ASSUME NEW j \in 0 .. (n + q) - 1, ~(j < n) PROVE e[j + 1] # 0
      OBVIOUS
    <3>1. (j + 1) - n \in 1 .. m /\ n + ((j + 1) - n) = j + 1
      BY <1>1
    <3>2. e[n + ((j + 1) - n)] # 0
      BY <1>3, <3>1
    <3> QED
      BY <3>1, <3>2
  <2>2. \A j : j \in Separators(e, n + q) <=> j \in Separators(e, n)
    BY <1>1, <2>1, SMTT(40) DEF Separators
  <2>3. Separators(e, n) = Separators(text, n)
    BY <1>1, <1>5
  <2> QED
    BY <2>2, <2>3
<1>7. Separators(e, Len(e)) = Separators(text, n) \cup {n + m}
  <2>1. Separators(e, n + m) = Separators(text, n)
    BY <1>1, <1>6
  <2>2. Len(e) = n + m + 1 /\ n + m \in Nat
    BY <1>1, <1>2
  <2>3. \A j : j \in Separators(e, Len(e)) <=> j \in Separators(e, n + m) \/ j = n + m
    BY <1>4, <2>2 DEF Separators
  <2> QED
    BY <2>1, <2>3
<1>8. Len(e) = n + m + 1
  BY <1>1, <1>2
<1> QED
  BY <1>2, <1>3, <1>4, <1>5, <1>6, <1>7, <1>8 DEF n, m, Laid

LEMMA LaidAppend ==
  ASSUME NEW terms \in Seq(Words), NEW t \in Words, WellLaid(TextOf(terms), terms)
  PROVE  WellLaid(TextOf(Append(terms, t)), Append(terms, t))
<1> DEFINE text == TextOf(terms)
           n == Len(terms)
           tt == Append(terms, t)
           e == TextOf(tt)
           l == Len(text)
           m == Len(t)
<1>1. /\ n \in Nat /\ tt \in Seq(Words) /\ Len(tt) = n + 1 /\ tt[n + 1] = t
      /\ \A i \in 1 .. n : tt[i] = terms[i] /\ terms[i] \in Words
  OBVIOUS
<1>2. text \in Seq(Nat) /\ e = text \o Append(t, 0)
  BY TextAppend
<1>3. l \in Nat /\ m \in Nat
  BY <1>2 DEF Words
<1> HIDE DEF text, n, tt, e
<1>4. /\ e \in Seq(Nat) /\ Len(e) = l + m + 1
      /\ \A i \in 1 .. l : e[i] = text[i]
      /\ \A i \in 1 .. m : e[l + i] = t[i] /\ t[i] # 0 /\ t[i] \in Nat
      /\ e[l + m + 1] = 0
      /\ \A p \in 0 .. l : Separators(e, p) = Separators(text, p)
      /\ \A q \in 0 .. m : Separators(e, l + q) = Separators(text, l)
      /\ Separators(e, Len(e)) = Separators(text, l) \cup {l + m}
  <2>1. Laid(e, text, t)
    BY <1>2, SeparatorsGrow
  <2> QED
    BY <2>1 DEF Laid
<1>5. Cardinality(Separators(text, l)) = n
  BY DEF WellLaid, n, text
<1>6. Cardinality(Separators(e, Len(e))) = Len(tt)
  <2>1. l + m \notin Separators(text, l)
    BY <1>3 DEF Separators
  <2>2. IsFiniteSet(Separators(text, l))
    BY <1>3, SeparatorsFinite
  <2>3. Cardinality(Separators(text, l) \cup {l + m}) = n + 1
    BY <1>5, <2>1, <2>2, FS_AddElement
  <2> QED
    BY <1>1, <1>4, <2>3
<1> HIDE DEF l, m
<1>7. ASSUME NEW p, NEW i \in 1 .. n, NEW o \in 1 .. Len(terms[i]), Located(text, terms, p, i, o)
      PROVE  /\ i \in 1 .. Len(tt) /\ o \in 1 .. Len(tt[i])
             /\ Located(e, tt, p, i, o) /\ p \in 0 .. Len(e) - 1
  <2> DEFINE r == Len(terms[i]) - o
  <2>1. tt[i] = terms[i] /\ Len(terms[i]) \in Nat /\ i \in 1 .. Len(tt)
    BY <1>1 DEF Words
  <2>2. /\ p \in Nat /\ p + r + 1 < l
        /\ \A k \in 0 .. r : text[p + 1 + k] = terms[i][o + k]
        /\ text[p + r + 2] = 0
        /\ Cardinality(Separators(text, p)) = i - 1
    BY <1>7 DEF Located, l
  <2>3. r \in Nat /\ Len(tt[i]) - o = r
    BY <2>1
  <2> HIDE DEF r
  <2>4. p \in 0 .. l /\ p + r + 2 \in 1 .. l /\ \A k \in 0 .. r : p + 1 + k \in 1 .. l
    BY <1>3, <2>2, <2>3
  <2>5. \A k \in 0 .. r : e[p + 1 + k] = tt[i][o + k]
    BY <1>4, <2>1, <2>2, <2>4
  <2>6. e[p + r + 2] = 0 /\ Cardinality(Separators(e, p)) = i - 1
    BY <1>4, <2>2, <2>4
  <2>7. p + r + 1 < Len(e) /\ p \in 0 .. Len(e) - 1
    <3>1. Len(e) = l + m + 1
      BY <1>4
    <3>2. p \in Nat /\ p + r + 1 < l /\ r \in Nat
      BY <2>2, <2>3
    <3> HIDE DEF e
    <3> QED
      BY <1>3, <3>1, <3>2
  <2> QED
    BY <2>1, <2>2, <2>3, <2>5, <2>6, <2>7 DEF Located
<1>8. ASSUME NEW o \in 1 .. m
      PROVE  /\ Located(e, tt, l + o - 1, n + 1, o)
             /\ l + o - 1 \in 0 .. Len(e) - 1 /\ n + 1 \in 1 .. Len(tt) /\ o \in 1 .. Len(tt[n + 1])
  <2>1. tt[n + 1] = t /\ n + 1 \in 1 .. Len(tt)
    BY <1>1
  <2>2. \A k \in 0 .. m - o : e[(l + o - 1) + 1 + k] = t[o + k]
    <3> SUFFICES ASSUME NEW k \in 0 .. m - o PROVE e[(l + o - 1) + 1 + k] = t[o + k]
      OBVIOUS
    <3>1. o + k \in 1 .. m /\ (l + o - 1) + 1 + k = l + (o + k)
      BY <1>3
    <3> QED
      BY <1>4, <3>1
  <2>3. e[(l + o - 1) + (m - o) + 2] = 0
    <3>1. (l + o - 1) + (m - o) + 2 = l + m + 1
      BY <1>3
    <3> QED
      BY <1>4, <3>1
  <2>4. Cardinality(Separators(e, l + o - 1)) = (n + 1) - 1
    <3>1. o - 1 \in 0 .. m /\ l + (o - 1) = l + o - 1 /\ (n + 1) - 1 = n
      BY <1>1, <1>3
    <3> QED
      BY <1>4, <1>5, <3>1
  <2>5. /\ l + o - 1 \in Nat /\ (l + o - 1) + (m - o) + 1 < Len(e)
        /\ l + o - 1 \in 0 .. Len(e) - 1
    BY <1>3, <1>4
  <2> QED
    BY <2>1, <2>2, <2>3, <2>4, <2>5 DEF Located, m
<1>9. ASSUME NEW p \in 0 .. Len(e) - 1, e[p + 1] # 0
      PROVE  \E i \in 1 .. Len(tt) : \E o \in 1 .. Len(tt[i]) : Located(e, tt, p, i, o)
  <2>1. CASE p < l
    <3>1. p \in 0 .. l - 1 /\ p + 1 \in 1 .. l
      BY <1>3, <2>1
    <3>2. text[p + 1] # 0
      BY <1>4, <1>9, <3>1
    <3>3. PICK i \in 1 .. n : \E o \in 1 .. Len(terms[i]) : Located(text, terms, p, i, o)
      BY <3>1, <3>2 DEF WellLaid, text, n, l
    <3> QED
      BY <1>7, <3>3
  <2>2. CASE ~(p < l)
    <3> DEFINE o == (p - l) + 1
    <3>1. o \in 1 .. m + 1 /\ l + o - 1 = p /\ l + o = p + 1
      BY <1>3, <1>4, <2>2
    <3>2. o # m + 1
      <4>1. CASE o = m + 1
        <5>1. p + 1 = l + m + 1
          BY <1>3, <3>1, <4>1
        <5> QED
          BY <1>4, <1>9, <5>1
      <4> QED
        BY <4>1
    <3>3. o \in 1 .. m
      BY <1>3, <3>1, <3>2
    <3> HIDE DEF o
    <3>4. Located(e, tt, p, n + 1, o) /\ n + 1 \in 1 .. Len(tt) /\ o \in 1 .. Len(tt[n + 1])
      BY <1>8, <3>1, <3>3
    <3> QED
      BY <3>4
  <2> QED
    BY <2>1, <2>2
<1>10. ASSUME NEW i \in 1 .. Len(tt), NEW o \in 1 .. Len(tt[i])
       PROVE  \E p \in 0 .. Len(e) - 1 : Located(e, tt, p, i, o)
  <2>1. CASE i \in 1 .. n
    <3>1. o \in 1 .. Len(terms[i])
      BY <1>1, <2>1
    <3>2. PICK p \in 0 .. l - 1 : Located(text, terms, p, i, o)
      BY <2>1, <3>1 DEF WellLaid, text, n, l
    <3> QED
      BY <1>7, <2>1, <3>1, <3>2
  <2>2. CASE i = n + 1
    <3>1. o \in 1 .. m
      BY <1>1, <2>2 DEF m
    <3> QED
      BY <1>8, <2>2, <3>1
  <2> QED
    BY <1>1, <2>1, <2>2
<1>11. WellLaid(e, tt)
  BY <1>6, <1>9, <1>10 DEF WellLaid
<1> QED
  BY <1>11 DEF e, tt

LEMMA TextLaid ==
  ASSUME NEW terms \in Seq(Words)
  PROVE  TextOf(terms) \in Seq(Nat) /\ WellLaid(TextOf(terms), terms)
<1> DEFINE P == {ts \in Seq(Words) : WellLaid(TextOf(ts), ts)}
<1>1. <<>> \in P
  <2>1. Separators(<<>>, 0) = {}
    BY DEF Separators
  <2>2. Len(<<>>) = 0 /\ <<>> \in Seq(Words)
    OBVIOUS
  <2>3. WellLaid(<<>>, <<>>)
    <3>1. Cardinality({}) = 0
      BY FS_EmptySet
    <3>2. 0 .. Len(<<>>) - 1 = {} /\ 1 .. Len(<<>>) = {}
      BY <2>2
    <3>3. Cardinality(Separators(<<>>, Len(<<>>))) = Len(<<>>)
      BY <2>1, <2>2, <3>1
    <3> QED
      BY <3>2, <3>3 DEF WellLaid
  <2> QED
    BY <2>2, <2>3, TextNothing
<1>2. \A ts \in Seq(Words) : \A t \in Words : ts \in P => Append(ts, t) \in P
  BY LaidAppend
<1>3. Seq(Words) \subseteq P
  <2> HIDE DEF P
  <2> QED
    BY <1>1, <1>2, GrowSequence
<1>4. <<>> \in Words
  BY DEF Words
<1> QED
  BY <1>3, <1>4, TextAppend

-----------------------------------------------------------------------------
(***************************************************************************)
(* What a look-up finds.                                                   *)
(***************************************************************************)
LEMMA PrefixMeans ==
  ASSUME NEW S, NEW w \in Seq(S), NEW e \in Seq(S)
  PROVE  IsPrefix(w, e) <=> Len(w) <= Len(e) /\ \A k \in 1 .. Len(w) : e[k] = w[k]
<1> DEFINE n == Len(w)
           a == SubSeq(w, 1, n)
           b == SubSeq(e, 1, n)
<1>1. n \in Nat /\ Len(e) \in Nat /\ 1 \in Int /\ w \in Seq(S)
      /\ \A i \in 1 .. n : w[i] \in S
  OBVIOUS
<1>2. SUFFICES ASSUME n <= Len(e)
               PROVE  a = b <=> \A k \in 1 .. n : e[k] = w[k]
  BY DEF IsPrefix
<1>3. \A i \in 1 .. n : e[i] \in S
  BY <1>1, <1>2
<1> HIDE DEF n
<1>4. a \in Seq(S) /\ Len(a) = n /\ \A i \in 1 .. n : a[i] = w[i]
  <2>1. a \in Seq(S) /\ Len(a) = (IF 1 <= n THEN n - 1 + 1 ELSE 0)
        /\ \A i \in 1 .. n - 1 + 1 : a[i] = w[1 + i - 1]
    BY <1>1, SubSeqProperties
  <2> HIDE DEF a
  <2> QED
    BY <1>1, <2>1
<1>5. b \in Seq(S) /\ Len(b) = n /\ \A i \in 1 .. n : b[i] = e[i]
  <2>1. b \in Seq(S) /\ Len(b) = (IF 1 <= n THEN n - 1 + 1 ELSE 0)
        /\ \A i \in 1 .. n - 1 + 1 : b[i] = e[1 + i - 1]
    BY <1>1, <1>3, SubSeqProperties
  <2> HIDE DEF b
  <2> QED
    BY <1>1, <2>1
<1> HIDE DEF a, b
<1>6. (\A i \in 1 .. n : a[i] = b[i]) => a = b
  BY <1>4, <1>5, SeqEqual
<1> QED
  BY <1>4, <1>5, <1>6

\* The word w begins at letter o of t.
Holds(t, o, w) == o + Len(w) - 1 <= Len(t) /\ \A k \in 1 .. Len(w) : t[o + k - 1] = w[k]

LEMMA PrefixAt ==
  ASSUME NEW S, NEW w \in Seq(S), NEW t \in Seq(S), NEW o \in 1 .. Len(t) + 1
  PROVE  IsPrefix(w, SubSeq(t, o, Len(t))) <=> Holds(t, o, w)
<1> DEFINE n == Len(w)
           l == Len(t)
           e == SubSeq(t, o, l)
<1>1. n \in Nat /\ l \in Nat /\ o \in 1 .. l + 1 /\ \A i \in 1 .. l : t[i] \in S
  OBVIOUS
<1> HIDE DEF n, l
<1>2. o \in Int /\ l \in Int /\ \A i \in o .. l : t[i] \in S
  BY <1>1
<1>3. e \in Seq(S) /\ Len(e) = l - o + 1 /\ \A i \in 1 .. l - o + 1 : e[i] = t[o + i - 1]
  <2>1. e \in Seq(S) /\ Len(e) = (IF o <= l THEN l - o + 1 ELSE 0)
        /\ \A i \in 1 .. l - o + 1 : e[i] = t[o + i - 1]
    BY <1>2, SubSeqProperties
  <2> HIDE DEF e
  <2> QED
    BY <1>1, <2>1
<1> HIDE DEF e
<1>4. IsPrefix(w, e) <=> n <= Len(e) /\ \A k \in 1 .. n : e[k] = w[k]
  BY <1>3, PrefixMeans DEF n
<1>5. n <= Len(e) <=> o + n - 1 <= l
  BY <1>1, <1>3
<1>6. ASSUME n <= Len(e), NEW k \in 1 .. n
      PROVE  e[k] = t[o + k - 1]
  <2>1. k \in 1 .. l - o + 1
    BY <1>1, <1>3, <1>6
  <2> QED
    BY <1>3, <2>1
<1>7. IsPrefix(w, e) <=> o + n - 1 <= l /\ \A k \in 1 .. n : t[o + k - 1] = w[k]
  BY <1>4, <1>5, <1>6
<1> QED
  BY <1>7 DEF Holds, e, l, n

LEMMA InsideMeans ==
  ASSUME NEW S, NEW w \in Seq(S), NEW t \in Seq(S)
  PROVE  Inside(w, t) <=> \E o \in 1 .. Len(t) + 1 : Holds(t, o, w)
<1>1. \A o \in 1 .. Len(t) + 1 : IsPrefix(w, SubSeq(t, o, Len(t))) <=> Holds(t, o, w)
  BY PrefixAt
<1> QED
  BY <1>1 DEF Inside

LEMMA ComparesEqual ==
  ASSUME NEW text \in Seq(Nat), NEW p \in 0 .. Len(text), NEW word \in Seq(Nat)
  PROVE  Compare(text, p, word) = 0 <=> Holds(text, p + 1, word)
<1> DEFINE l == Len(text)
           n == Len(word)
           s == Suffix(text, p)
           c == Compared(text, p, word)
<1>1. l \in Nat /\ n \in Nat /\ p \in 0 .. l
  OBVIOUS
<1>2. Compare(text, p, word) = 0 <=> c = word
  BY ComparedIs
<1>3. s \in Seq(Nat) /\ Len(s) = l - p /\ \A i \in 1 .. l - p : s[i] = text[p + i]
  BY SuffixTyped
<1>4. /\ c \in Seq(Nat) /\ Len(c) = IF n < Len(s) THEN n ELSE Len(s)
      /\ \A i \in 1 .. Len(s) : i <= n => c[i] = s[i]
  BY <1>1, <1>3, TakeTyped DEF Compared
<1>5. c = word <=> Len(c) = n /\ \A i \in 1 .. n : c[i] = word[i]
  BY <1>4, SeqEqual
<1> HIDE DEF s, c, l, n
<1>6. Len(c) = n <=> (p + 1) + n - 1 <= l
  BY <1>1, <1>3, <1>4
<1>7. ASSUME Len(c) = n, NEW i \in 1 .. n
      PROVE  c[i] = text[(p + 1) + i - 1]
  <2>1. i \in 1 .. Len(s) /\ i <= n /\ i \in 1 .. l - p /\ (p + 1) + i - 1 = p + i
    BY <1>1, <1>3, <1>4, <1>7
  <2> QED
    BY <1>3, <1>4, <2>1
<1>8. c = word <=> (p + 1) + n - 1 <= l /\ \A i \in 1 .. n : text[(p + 1) + i - 1] = word[i]
  BY <1>5, <1>6, <1>7
<1> QED
  BY <1>2, <1>8 DEF Holds, c, l, n

LEMMA WordInTerm ==
  ASSUME NEW text \in Seq(Nat), NEW terms \in Seq(Words), NEW word \in Words,
         NEW i \in 1 .. Len(terms), NEW o \in 1 .. Len(terms[i]), NEW p,
         Located(text, terms, p, i, o)
  PROVE  Holds(text, p + 1, word) <=> Holds(terms[i], o, word)
<1> DEFINE t == terms[i]
           m == Len(t)
           r == m - o
           n == Len(word)
           l == Len(text)
<1>1. /\ n \in Nat /\ l \in Nat /\ \A k \in 1 .. n : word[k] # 0
  BY DEF Words
<1>2. m \in Nat /\ o \in 1 .. m
  BY DEF Words
<1>3. /\ p \in Nat /\ p + r + 1 < l /\ \A k \in 0 .. r : text[p + 1 + k] = t[o + k]
      /\ text[p + r + 2] = 0
  BY DEF Located
<1> HIDE DEF t, m, n, l
<1>4. r \in 0 .. m /\ o + r = m
  BY <1>2
<1> HIDE DEF r
<1>5. ASSUME NEW k \in 1 .. n, k <= r + 1
      PROVE  text[(p + 1) + k - 1] = t[o + k - 1]
  <2>1. k - 1 \in 0 .. r /\ p + 1 + (k - 1) = (p + 1) + k - 1 /\ o + (k - 1) = o + k - 1
    BY <1>1, <1>2, <1>3, <1>4, <1>5
  <2>2. text[p + 1 + (k - 1)] = t[o + (k - 1)]
    BY <1>3, <2>1
  <2> QED
    BY <2>1, <2>2
<1>6. ASSUME (p + 1) + n - 1 <= l, \A k \in 1 .. n : text[(p + 1) + k - 1] = word[k]
      PROVE  o + n - 1 <= m /\ \A k \in 1 .. n : t[o + k - 1] = word[k]
  <2>1. n <= r + 1
    <3>1. CASE n > r + 1
      <4>1. r + 2 \in 1 .. n /\ (p + 1) + (r + 2) - 1 = p + r + 2
        BY <1>1, <1>3, <1>4, <3>1
      <4>2. text[(p + 1) + (r + 2) - 1] = word[r + 2] /\ word[r + 2] # 0
        BY <1>1, <1>6, <4>1
      <4> QED
        BY <1>3, <4>1, <4>2
    <3> QED
      BY <1>1, <1>4, <3>1
  <2>2. o + n - 1 <= m
    BY <1>1, <1>2, <1>4, <2>1
  <2>3. ASSUME NEW k \in 1 .. n PROVE t[o + k - 1] = word[k]
    <3>1. k <= r + 1
      BY <1>1, <1>4, <2>1
    <3> QED
      BY <1>5, <1>6, <3>1
  <2> QED
    BY <2>2, <2>3
<1>7. ASSUME o + n - 1 <= m, \A k \in 1 .. n : t[o + k - 1] = word[k]
      PROVE  (p + 1) + n - 1 <= l /\ \A k \in 1 .. n : text[(p + 1) + k - 1] = word[k]
  <2>1. n <= r + 1
    BY <1>1, <1>2, <1>4, <1>7
  <2>2. (p + 1) + n - 1 <= l
    BY <1>1, <1>3, <1>4, <2>1
  <2>3. ASSUME NEW k \in 1 .. n PROVE text[(p + 1) + k - 1] = word[k]
    <3>1. k <= r + 1
      BY <1>1, <1>4, <2>1
    <3> QED
      BY <1>5, <1>7, <3>1
  <2> QED
    BY <2>2, <2>3
<1>8. Holds(text, p + 1, word) <=>
        (p + 1) + n - 1 <= l /\ \A k \in 1 .. n : text[(p + 1) + k - 1] = word[k]
  BY DEF Holds, n, l
<1>9. Holds(t, o, word) <=> o + n - 1 <= m /\ \A k \in 1 .. n : t[o + k - 1] = word[k]
  BY DEF Holds, n, m
<1>10. Holds(text, p + 1, word) <=> Holds(t, o, word)
  BY <1>6, <1>7, <1>8, <1>9
<1> QED
  BY <1>10 DEF t

LEMMA HeldIndexed ==
  ASSUME NEW text \in Seq(Nat), NEW word \in Words, Len(word) >= 2, NEW p \in Nat,
         Holds(text, p + 1, word)
  PROVE  p \in Indexed(text) /\ p \in 0 .. Len(text) - 1 /\ text[p + 1] # 0
<1> DEFINE l == Len(text)
           n == Len(word)
<1>1. n \in Nat /\ l \in Nat /\ \A k \in 1 .. n : word[k] # 0
  BY DEF Words
<1>2. (p + 1) + n - 1 <= l /\ \A k \in 1 .. n : text[(p + 1) + k - 1] = word[k]
  BY DEF Holds
<1>3. n >= 2
  OBVIOUS
<1> HIDE DEF l, n
<1>4. /\ 1 \in 1 .. n /\ 2 \in 1 .. n /\ (p + 1) + 1 - 1 = p + 1 /\ (p + 1) + 2 - 1 = p + 2
      /\ p \in 0 .. l - 1 /\ p + 2 <= l
  BY <1>1, <1>2, <1>3
<1>5. text[p + 1] # 0 /\ text[p + 2] # 0
  <2>1. text[(p + 1) + 1 - 1] = word[1] /\ text[(p + 1) + 2 - 1] = word[2]
    BY <1>2, <1>4
  <2>2. word[1] # 0 /\ word[2] # 0
    BY <1>1, <1>4
  <2> QED
    BY <1>4, <2>1, <2>2
<1> QED
  BY <1>4, <1>5 DEF Indexed, l

\* The terms found are those that hold the word.
Holding(terms, word) == {i \in 1 .. Len(terms) : Inside(word, terms[i])}

RanksFound(text, word) ==
  {Cardinality(Separators(text, p)) :
     p \in {q \in Indexed(text) : Compare(text, q, word) = 0}}

LEMMA TermsFound ==
  ASSUME NEW terms \in Seq(Words), NEW word \in Words, Len(word) >= 2, NEW text,
         text = TextOf(terms)
  PROVE  RanksFound(text, word) = {i - 1 : i \in Holding(terms, word)}
<1> DEFINE P == {p \in Indexed(text) : Compare(text, p, word) = 0}
<1>1. text \in Seq(Nat) /\ WellLaid(text, terms)
  BY TextLaid
<1>2. word \in Seq(Nat) /\ \A i \in 1 .. Len(terms) : terms[i] \in Seq(Nat) /\ terms[i] \in Words
  BY DEF Words
<1>3. Len(text) \in Nat /\ Len(terms) \in Nat
  BY <1>1
<1>4. ASSUME NEW p \in 0 .. Len(text)
      PROVE  Compare(text, p, word) = 0 <=> Holds(text, p + 1, word)
  BY <1>1, <1>2, ComparesEqual
<1>5. ASSUME NEW p \in P
      PROVE  \E i \in Holding(terms, word) : Cardinality(Separators(text, p)) = i - 1
  <2>1. p \in 0 .. Len(text) - 1 /\ p \in 0 .. Len(text) /\ p \in Nat
    BY <1>3 DEF Indexed
  <2>2. text[p + 1] # 0
    BY DEF Indexed
  <2>3. Holds(text, p + 1, word)
    BY <1>4, <2>1
  <2>4. PICK i \in 1 .. Len(terms) : \E o \in 1 .. Len(terms[i]) : Located(text, terms, p, i, o)
    BY <1>1, <2>1, <2>2 DEF WellLaid
  <2>5. PICK o \in 1 .. Len(terms[i]) : Located(text, terms, p, i, o)
    BY <2>4
  <2>6. Holds(terms[i], o, word)
    BY <1>1, <2>3, <2>5, WordInTerm
  <2>7. Inside(word, terms[i])
    <3>1. o \in 1 .. Len(terms[i]) + 1
      BY <1>2
    <3> QED
      BY <1>2, <2>6, <3>1, InsideMeans
  <2>8. Cardinality(Separators(text, p)) = i - 1
    BY <2>5 DEF Located
  <2> QED
    BY <2>7, <2>8 DEF Holding
<1>6. ASSUME NEW i \in Holding(terms, word)
      PROVE  \E p \in P : Cardinality(Separators(text, p)) = i - 1
  <2>1. i \in 1 .. Len(terms) /\ Inside(word, terms[i])
    BY DEF Holding
  <2>2. PICK o \in 1 .. Len(terms[i]) + 1 : Holds(terms[i], o, word)
    BY <1>2, <2>1, InsideMeans
  <2>3. o \in 1 .. Len(terms[i])
    <3>1. Len(terms[i]) \in Nat /\ Len(word) \in Nat /\ Len(word) >= 2
      BY <1>2, <2>1
    <3>2. o + Len(word) - 1 <= Len(terms[i])
      BY <2>2 DEF Holds
    <3> QED
      BY <3>1, <3>2
  <2>4. PICK p \in 0 .. Len(text) - 1 : Located(text, terms, p, i, o)
    BY <1>1, <2>1, <2>3 DEF WellLaid
  <2>5. Holds(text, p + 1, word)
    BY <1>1, <2>1, <2>2, <2>3, <2>4, WordInTerm
  <2>6. p \in Nat /\ p \in 0 .. Len(text)
    BY <1>3
  <2>7. p \in P
    BY <1>1, <1>4, <2>5, <2>6, HeldIndexed
  <2> QED
    BY <2>4, <2>7 DEF Located
<1> HIDE DEF P
<1>7. {Cardinality(Separators(text, p)) : p \in P} = {i - 1 : i \in Holding(terms, word)}
  BY <1>5, <1>6
<1> QED
  BY <1>7 DEF P, RanksFound

-----------------------------------------------------------------------------
(***************************************************************************)
(* elias_fano.c: what is decoded is what was encoded.                      *)
(***************************************************************************)
Doubles(f, n) == f[0] = 1 /\ \A i \in 1 .. n : f[i] = 2 * f[i - 1]

LEMMA DoublingUpTo ==
  ASSUME NEW n \in Nat
  PROVE  \E f \in [0 .. n -> Nat] : Doubles(f, n)
<1> DEFINE h == [i \in 1 .. n |-> [x \in Nat |-> 2 * x]]
<1>1. h \in [1 .. n -> [Nat -> Nat]] /\ 1 \in Nat
  OBVIOUS
<1>2. \A i \in 1 .. n : \A x \in Nat : h[i][x] = 2 * x
  OBVIOUS
<1> HIDE DEF h
<1>3. PICK f \in [0 .. n -> Nat] : Recurs(f, n, 1, h)
  BY <1>1, RecursionExists
<1>4. Doubles(f, n)
  <2> SUFFICES ASSUME NEW i \in 1 .. n PROVE f[i] = 2 * f[i - 1]
    BY <1>3 DEF Recurs, Doubles
  <2>1. f[i] = h[i][f[i - 1]]
    BY <1>3 DEF Recurs
  <2>2. f[i - 1] \in Nat
    <3>1. i - 1 \in 0 .. n
      OBVIOUS
    <3> QED
      BY <1>3, <3>1
  <2> QED
    BY <1>2, <2>1, <2>2
<1> QED
  BY <1>4

LEMMA DoublingSame ==
  ASSUME NEW m \in Nat, NEW n \in Nat, NEW f \in [0 .. m -> Nat], NEW g \in [0 .. n -> Nat],
         Doubles(f, m), Doubles(g, n)
  PROVE  \A i \in Nat : i <= m /\ i <= n => f[i] = g[i]
<1> DEFINE P == {i \in Nat : i <= m /\ i <= n => f[i] = g[i]}
<1>1. 0 \in P
  BY DEF Doubles
<1>2. \A i \in Nat : i \in P => i + 1 \in P
  <2> SUFFICES ASSUME NEW i \in Nat, i \in P, i + 1 <= m, i + 1 <= n
               PROVE  f[i + 1] = g[i + 1]
    OBVIOUS
  <2>1. i + 1 \in 1 .. m /\ i + 1 \in 1 .. n /\ (i + 1) - 1 = i /\ i <= m /\ i <= n
    OBVIOUS
  <2>2. f[i] = g[i]
    BY <2>1
  <2>3. f[i + 1] = 2 * f[i] /\ g[i + 1] = 2 * g[i]
    BY <2>1 DEF Doubles
  <2> QED
    BY <2>2, <2>3
<1>3. Nat \subseteq P
  <2> HIDE DEF P
  <2> QED
    BY <1>1, <1>2, Climb
<1> QED
  BY <1>3

\* The powers of two.
DoublesOn(g) == g = [l \in Nat |-> IF l = 0 THEN 1 ELSE 2 * g[l - 1]]

LEMMA DoublesOnExists == \E g : DoublesOn(g)
<1> DEFINE F(n) == CHOOSE f \in [0 .. n -> Nat] : Doubles(f, n)
           g == [l \in Nat |-> F(l)[l]]
<1>1. \A n \in Nat : F(n) \in [0 .. n -> Nat] /\ Doubles(F(n), n)
  <2> SUFFICES ASSUME NEW n \in Nat PROVE F(n) \in [0 .. n -> Nat] /\ Doubles(F(n), n)
    OBVIOUS
  <2>1. \E f \in [0 .. n -> Nat] : Doubles(f, n)
    BY DoublingUpTo
  <2> QED
    BY <2>1
<1> HIDE DEF F
<1>2. \A l \in Nat : g[l] = F(l)[l]
  OBVIOUS
<1>3. ASSUME NEW l \in Nat
      PROVE  g[l] = IF l = 0 THEN 1 ELSE 2 * g[l - 1]
  <2>1. CASE l = 0
    BY <1>1, <1>2, <2>1 DEF Doubles
  <2>2. CASE l # 0
    <3>1. l - 1 \in Nat /\ l \in 1 .. l /\ l - 1 <= l
      BY <2>2
    <3>2. F(l)[l] = 2 * F(l)[l - 1]
      BY <1>1, <3>1 DEF Doubles
    <3>3. F(l) \in [0 .. l -> Nat] /\ Doubles(F(l), l)
      BY <1>1
    <3>4. F(l - 1) \in [0 .. l - 1 -> Nat] /\ Doubles(F(l - 1), l - 1)
      BY <1>1, <3>1
    <3>5. F(l)[l - 1] = F(l - 1)[l - 1]
      <4>1. \A i \in Nat : i <= l /\ i <= l - 1 => F(l)[i] = F(l - 1)[i]
        BY <3>1, <3>3, <3>4, DoublingSame, Zenon
      <4>2. l - 1 <= l - 1
        BY <3>1
      <4> QED
        BY <3>1, <4>1, <4>2, Zenon
    <3>6. g[l - 1] = F(l - 1)[l - 1]
      BY <1>2, <3>1
    <3>7. g[l] = F(l)[l]
      BY <1>2
    <3> HIDE DEF g
    <3> QED
      BY <2>2, <3>2, <3>5, <3>6, <3>7
  <2> QED
    BY <2>1, <2>2
<1>4. g = [l \in Nat |-> g[l]]
  OBVIOUS
<1> HIDE DEF g
<1>5. g = [l \in Nat |-> IF l = 0 THEN 1 ELSE 2 * g[l - 1]]
  BY <1>3, <1>4
<1> QED
  BY <1>5 DEF DoublesOn

LEMMA PowersOfTwo ==
  /\ TwoTo[0] = 1
  /\ \A l \in Nat : TwoTo[l + 1] = 2 * TwoTo[l]
  /\ \A l \in Nat : TwoTo[l] \in Nat /\ TwoTo[l] > l
<1>1. TwoTo = CHOOSE g : DoublesOn(g)
  BY DEF TwoTo, DoublesOn
<1>2. DoublesOn(TwoTo)
  BY <1>1, DoublesOnExists
<1>3. \A l \in Nat : TwoTo[l] = IF l = 0 THEN 1 ELSE 2 * TwoTo[l - 1]
  BY <1>2, Zenon DEF DoublesOn
<1>4. TwoTo[0] = 1
  BY <1>3
<1>5. \A l \in Nat : TwoTo[l + 1] = 2 * TwoTo[l]
  <2> SUFFICES ASSUME NEW l \in Nat PROVE TwoTo[l + 1] = 2 * TwoTo[l]
    OBVIOUS
  <2>1. l + 1 \in Nat /\ l + 1 # 0 /\ (l + 1) - 1 = l
    OBVIOUS
  <2> QED
    BY <1>3, <2>1
<1> DEFINE P == {l \in Nat : TwoTo[l] \in Nat /\ TwoTo[l] > l}
<1>6. 0 \in P
  BY <1>4
<1>7. \A l \in Nat : l \in P => l + 1 \in P
  BY <1>5
<1>8. Nat \subseteq P
  <2> HIDE DEF P
  <2> QED
    BY <1>6, <1>7, Climb
<1> QED
  BY <1>4, <1>5, <1>8

LEMMA LowBitsTyped ==
  ASSUME NEW u \in Nat, NEW n \in 1 .. u
  PROVE  LowBits(n, u) \in Nat
<1> DEFINE q == u \div n
           D == {l \in Nat : q < TwoTo[l + 1]}
<1>1. q \in 0 .. u
  BY SMT
<1> HIDE DEF q
<1>2. TwoTo[u + 1] \in Nat /\ TwoTo[u + 1] > u + 1
  BY PowersOfTwo
<1>3. u \in D
  BY <1>1, <1>2
<1>4. PICK l \in D : \A m \in D : l <= m
  <2>1. D \in SUBSET Nat
    OBVIOUS
  <2> HIDE DEF D
  <2> QED
    BY <1>3, <2>1, LeastElement
<1>5. l \in 0 .. u
  BY <1>3, <1>4
<1>6. ASSUME NEW k \in 0 .. l - 1
      PROVE  TwoTo[k + 1] <= q
  <2>1. k \in Nat /\ ~(l <= k)
    BY <1>5
  <2>2. ~(q < TwoTo[k + 1])
    BY <1>4, <2>1
  <2>3. TwoTo[k + 1] \in Nat
    BY <2>1, PowersOfTwo
  <2> QED
    BY <1>1, <2>2, <2>3
<1>7. \E m \in 0 .. u : q < TwoTo[m + 1] /\ \A k \in 0 .. m - 1 : TwoTo[k + 1] <= q
  BY <1>4, <1>5, <1>6
<1>8. LowBits(n, u) \in 0 .. u
  BY <1>7 DEF LowBits, q
<1> QED
  BY <1>8

\* A rising sequence is the order of its members.
LEMMA RisingSorted ==
  ASSUME NEW n \in Nat, NEW b \in [1 .. n -> Int],
         \A i, j \in 1 .. n : i < j => b[i] < b[j],
         NEW S, S = {b[i] : i \in 1 .. n}
  PROVE  /\ Sorted(S, <) = b /\ IsFiniteSet(S) /\ Cardinality(S) = n
<1> DEFINE Less(x) == {y \in S : y < x}
           I(k) == 1 .. k
<1>1. \A k \in 0 .. n : IsFiniteSet(I(k)) /\ Cardinality(I(k)) = k
  <2> SUFFICES ASSUME NEW k \in 0 .. n PROVE IsFiniteSet(I(k)) /\ Cardinality(I(k)) = k
    OBVIOUS
  <2>1. IsFiniteSet(1 .. k) /\ Cardinality(1 .. k) = IF 1 > k THEN 0 ELSE k - 1 + 1
    BY FS_Interval
  <2> QED
    BY <2>1
<1>2. ASSUME NEW k \in 0 .. n
      PROVE  /\ IsFiniteSet({b[i] : i \in I(k)})
             /\ Cardinality({b[i] : i \in I(k)}) = k
  <2> DEFINE T == {b[i] : i \in I(k)}
             f == [i \in I(k) |-> b[i]]
  <2>1. f \in Bijection(I(k), T)
    <3>1. \A i, j \in I(k) : b[i] = b[j] => i = j
      <4> SUFFICES ASSUME NEW i \in I(k), NEW j \in I(k), b[i] = b[j] PROVE i = j
        OBVIOUS
      <4>1. i \in 1 .. n /\ j \in 1 .. n /\ b[i] \in Int /\ b[j] \in Int
        OBVIOUS
      <4>2. ~(i < j) /\ ~(j < i)
        BY <4>1
      <4> QED
        BY <4>1, <4>2
    <3> QED
      BY <3>1 DEF Bijection, Injection, Surjection, IsInjective
  <2>2. ExistsBijection(I(k), T)
    BY <2>1 DEF ExistsBijection
  <2> HIDE DEF T, f, I
  <2>3. IsFiniteSet(T) /\ Cardinality(T) = Cardinality(I(k))
    BY <1>1, <2>2, FS_Bijection
  <2> QED
    BY <1>1, <2>3 DEF T
<1>3. ASSUME NEW k \in 1 .. n
      PROVE  Cardinality(Less(b[k])) = k - 1
  <2>1. Less(b[k]) = {b[i] : i \in I(k - 1)}
    <3>1. ASSUME NEW i \in 1 .. n PROVE b[i] < b[k] <=> i \in I(k - 1)
      <4>1. CASE i < k
        BY <4>1
      <4>2. CASE i = k
        BY <4>2
      <4>3. CASE k < i
        <5>1. b[k] < b[i] /\ b[k] \in Int /\ b[i] \in Int
          BY <4>3
        <5>2. ~(b[i] < b[k])
          BY <5>1
        <5> QED
          BY <4>3, <5>2
      <4> QED
        BY <4>1, <4>2, <4>3
    <3>2. I(k - 1) \subseteq 1 .. n
      OBVIOUS
    <3> HIDE DEF I
    <3> QED
      BY <3>1, <3>2
  <2>2. k - 1 \in 0 .. n
    OBVIOUS
  <2> HIDE DEF Less, I
  <2> QED
    BY <1>2, <2>1, <2>2
<1>4. IsFiniteSet(S) /\ Cardinality(S) = n
  <2>1. n \in 0 .. n /\ S = {b[i] : i \in I(n)}
    OBVIOUS
  <2> HIDE DEF I
  <2> QED
    BY <1>2, <2>1
<1>5. ASSUME NEW k \in 1 .. n
      PROVE  (CHOOSE x \in S : Cardinality(Less(x)) = k - 1) = b[k]
  <2>1. b[k] \in S /\ Cardinality(Less(b[k])) = k - 1
    BY <1>3
  <2>2. ASSUME NEW x \in S, Cardinality(Less(x)) = k - 1 PROVE x = b[k]
    <3>1. PICK j \in 1 .. n : x = b[j]
      OBVIOUS
    <3>2. Cardinality(Less(b[j])) = j - 1
      BY <1>3
    <3> HIDE DEF Less
    <3>3. j = k
      BY <2>2, <3>1, <3>2
    <3> QED
      BY <3>1, <3>3
  <2> HIDE DEF Less
  <2> QED
    BY <2>1, <2>2
<1>6. Sorted(S, <) = [k \in 1 .. n |-> CHOOSE x \in S : Cardinality(Less(x)) = k - 1]
  BY <1>4 DEF Sorted
<1> HIDE DEF Less
<1>7. Sorted(S, <) = [k \in 1 .. n |-> b[k]]
  BY <1>5, <1>6
<1> QED
  BY <1>4, <1>7

LEMMA Splitting ==
  ASSUME NEW w \in Nat \ {0}, NEW x \in Nat, NEW y \in Nat, x < y
  PROVE  /\ x \div w \in Nat /\ x % w \in Nat /\ (x \div w) * w + (x % w) = x
         /\ x \div w <= y \div w
  BY SMTT(40)

LEMMA DecodesEncoded ==
  ASSUME NEW u \in Nat, NEW values, values # {}, values \subseteq 0 .. u - 1
  PROVE  Decode(Encode(values, u)) = values
<1> DEFINE n == Cardinality(values)
           l == LowBits(n, u)
           w == TwoTo[l]
           v == Sorted(values, <)
           b == [i \in 1 .. n |-> v[i] \div w + (i - 1)]
           high == {b[i] : i \in 1 .. n}
           code == Encode(values, u)
<1>1. IsFiniteSet(values) /\ n \in 1 .. u
  <2>1. IsFiniteSet(0 .. u - 1) /\ Cardinality(0 .. u - 1) = u
    <3>1. IsFiniteSet(0 .. u - 1)
          /\ Cardinality(0 .. u - 1) = IF 0 > u - 1 THEN 0 ELSE (u - 1) - 0 + 1
      BY FS_Interval
    <3> QED
      BY <3>1
  <2>2. IsFiniteSet(values) /\ Cardinality(values) <= Cardinality(0 .. u - 1)
    BY <2>1, FS_Subset, ZenonT(40)
  <2>3. n <= u
    BY <2>1, <2>2
  <2>4. n \in Nat /\ n # 0
    BY <2>2, FS_CardinalityType, FS_EmptySet
  <2> HIDE DEF n
  <2> QED
    BY <2>2, <2>3, <2>4
<1>2. values \in SUBSET Int /\ values \subseteq Nat
  OBVIOUS
<1>3. /\ v \in [1 .. n -> values]
      /\ \A i, j \in 1 .. n : i < j => v[i] < v[j]
      /\ \A x \in values : \E k \in 1 .. n : v[k] = x
  <2>1. /\ v \in Seq(values) /\ Len(v) = n
        /\ \A i, j \in 1 .. n : i < j => v[i] < v[j]
        /\ \A x \in values : \E k \in 1 .. n : v[k] = x
    BY <1>1, <1>2, SortedNumbers
  <2> HIDE DEF v, n
  <2> QED
    BY <2>1
<1>4. w \in Nat \ {0}
  <2>1. l \in Nat
    BY <1>1, LowBitsTyped
  <2> HIDE DEF l
  <2> QED
    BY <2>1, PowersOfTwo
<1>5. code = [l |-> l, low |-> [i \in DOMAIN v |-> v[i] % w],
              high |-> {(v[i] \div w) + (i - 1) : i \in DOMAIN v}]
  BY DEF Encode
<1>6. \A i \in 1 .. n : v[i] \in Nat /\ (v[i] \div w) \in Nat /\ (v[i] \div w) * w + (v[i] % w) = v[i]
  <2> SUFFICES ASSUME NEW i \in 1 .. n
               PROVE  v[i] \in Nat /\ (v[i] \div w) \in Nat /\ (v[i] \div w) * w + (v[i] % w) = v[i]
    OBVIOUS
  <2>1. v[i] \in Nat
    BY <1>2, <1>3
  <2> HIDE DEF v, w
  <2>2. v[i] + 1 \in Nat /\ v[i] < v[i] + 1
    BY <2>1
  <2> QED
    BY <1>4, <2>1, <2>2, Splitting
<1> HIDE DEF v, w, l, n
<1>7. b \in [1 .. n -> Int] /\ \A i, j \in 1 .. n : i < j => b[i] < b[j]
  <2>1. ASSUME NEW i \in 1 .. n, NEW j \in 1 .. n, i < j PROVE b[i] < b[j]
    <3>1. v[i] < v[j] /\ v[i] \in Nat /\ v[j] \in Nat
      BY <1>3, <1>6, <2>1
    <3>2. v[i] \div w <= v[j] \div w
      BY <1>4, <3>1, Splitting
    <3>3. v[i] \div w \in Nat /\ v[j] \div w \in Nat
      BY <1>6
    <3>4. b[i] = (v[i] \div w) + (i - 1) /\ b[j] = (v[j] \div w) + (j - 1)
      OBVIOUS
    <3>5. ASSUME NEW p \in Nat, NEW q \in Nat, p <= q PROVE p + (i - 1) < q + (j - 1)
      BY <1>1, <2>1, <3>5
    <3> QED
      BY <3>2, <3>3, <3>4, <3>5
  <2>2. \A i \in 1 .. n : b[i] \in Int
    <3> SUFFICES ASSUME NEW i \in 1 .. n PROVE b[i] \in Int
      OBVIOUS
    <3>1. v[i] \div w \in Nat /\ i \in Int
      BY <1>1, <1>6
    <3> QED
      BY <3>1
  <2> QED
    BY <2>1, <2>2
<1>8. DOMAIN v = 1 .. n /\ n \in Nat
  BY <1>1, <1>3
<1>9. code.high = high /\ code.l = l /\ \A i \in 1 .. n : code.low[i] = v[i] % w
  BY <1>5, <1>8
<1>10. \A i \in 1 .. n : b[i] - (i - 1) = v[i] \div w
  <2> SUFFICES ASSUME NEW i \in 1 .. n PROVE b[i] - (i - 1) = v[i] \div w
    OBVIOUS
  <2>1. v[i] \div w \in Nat /\ i \in Int
    BY <1>1, <1>6
  <2> QED
    BY <2>1
<1> DEFINE bits == Sorted(code.high, <)
<1>11. bits = b
  <2> HIDE DEF b, code
  <2> QED
    BY <1>7, <1>8, <1>9, RisingSorted
<1>12. Decode(code) = {(bits[i] - (i - 1)) * w + code.low[i] : i \in 1 .. n}
  <2>1. DOMAIN bits = 1 .. n
    BY <1>11
  <2> HIDE DEF code
  <2> QED
    BY <1>9, <2>1 DEF Decode, w
<1>13. \A i \in 1 .. n : (bits[i] - (i - 1)) * w + code.low[i] = v[i]
  <2> SUFFICES ASSUME NEW i \in 1 .. n
               PROVE  (bits[i] - (i - 1)) * w + code.low[i] = v[i]
    OBVIOUS
  <2> HIDE DEF code, b, bits
  <2>1. bits[i] - (i - 1) = v[i] \div w /\ code.low[i] = v[i] % w
    BY <1>9, <1>10, <1>11
  <2>2. (v[i] \div w) * w + (v[i] % w) = v[i]
    BY <1>6
  <2> QED
    BY <2>1, <2>2
<1> HIDE DEF code, b, bits
<1>14. Decode(code) = {v[i] : i \in 1 .. n}
  BY <1>12, <1>13
<1>15. {v[i] : i \in 1 .. n} = values
  BY <1>3
<1> QED
  BY <1>14, <1>15 DEF code

-----------------------------------------------------------------------------
(***************************************************************************)
(* The vocabulary, its order, and the look-up in the files of one build.   *)
(***************************************************************************)
Texts == Seq(Seq(Words))

LEMMA CorporaTyped ==
  /\ Corpora \subseteq Texts
  /\ \A lines \in Corpora : lines # <<>>
BY PaceAssumption DEF Texts

LEMMA FoldedTyped ==
  ASSUME NEW c \in Nat \ {0}
  PROVE  Folded(c) \in Nat \ {0}
BY FoldAssumption DEF Folded

LEMMA FoldWordTyped ==
  ASSUME NEW w \in Words
  PROVE  FoldWord(w) \in Words /\ Len(FoldWord(w)) = Len(w)
         /\ \A i \in 1 .. Len(w) : FoldWord(w)[i] = Folded(w[i])
<1>1. w \in Seq(Nat \ {0})
  BY DEF Words
<1>2. DOMAIN w = 1 .. Len(w) /\ Len(w) \in Nat /\ \A i \in 1 .. Len(w) : w[i] \in Nat \ {0}
  BY <1>1
<1>3. \A i \in 1 .. Len(w) : Folded(w[i]) \in Nat \ {0}
  BY <1>2, FoldedTyped
<1>4. FoldWord(w) = [i \in 1 .. Len(w) |-> Folded(w[i])]
  BY <1>2 DEF FoldWord
<1>5. FoldWord(w) \in Seq(Nat \ {0}) /\ Len(FoldWord(w)) = Len(w)
  BY <1>2, <1>3, <1>4
<1> QED
  BY <1>4, <1>5 DEF Words

LEMMA FoldLineTyped ==
  ASSUME NEW line \in Seq(Words)
  PROVE  FoldLine(line) \in Seq(Words) /\ Len(FoldLine(line)) = Len(line)
         /\ \A i \in 1 .. Len(line) : FoldLine(line)[i] = FoldWord(line[i])
<1>1. DOMAIN line = 1 .. Len(line) /\ Len(line) \in Nat /\ \A i \in 1 .. Len(line) : line[i] \in Words
  OBVIOUS
<1>2. \A i \in 1 .. Len(line) : FoldWord(line[i]) \in Words
  BY <1>1, FoldWordTyped
<1>3. FoldLine(line) = [i \in 1 .. Len(line) |-> FoldWord(line[i])]
  BY <1>1 DEF FoldLine
<1>4. FoldLine(line) \in Seq(Words) /\ Len(FoldLine(line)) = Len(line)
  BY <1>1, <1>2, <1>3
<1> QED
  BY <1>3, <1>4

LEMMA MembersFinite ==
  ASSUME NEW S, NEW s \in Seq(S)
  PROVE  IsFiniteSet(ToSet(s)) /\ ToSet(s) \subseteq S
<1>1. DOMAIN s = 1 .. Len(s) /\ Len(s) \in Nat
  OBVIOUS
<1>2. IsFiniteSet(1 .. Len(s))
  BY <1>1, FS_Interval
<1>3. s \in Surjection(1 .. Len(s), ToSet(s))
  <2>1. s \in [1 .. Len(s) -> ToSet(s)]
    BY <1>1 DEF ToSet
  <2>2. \A t \in ToSet(s) : \E i \in 1 .. Len(s) : s[i] = t
    BY <1>1 DEF ToSet
  <2> QED
    BY <2>1, <2>2 DEF Surjection
<1>4. IsFiniteSet(ToSet(s))
  BY <1>2, <1>3, FS_Surjection
<1> QED
  BY <1>1, <1>4 DEF ToSet

LEMMA VocabularyTyped ==
  ASSUME NEW lines \in Texts, NEW minLen
  PROVE  IsFiniteSet(Vocabulary(lines, minLen)) /\ Vocabulary(lines, minLen) \subseteq Words
<1> DEFINE F == [i \in 1 .. Len(lines) |-> ToSet(FoldLine(lines[i]))]
           U == {F[i] : i \in 1 .. Len(lines)}
<1>1. /\ DOMAIN lines = 1 .. Len(lines) /\ Len(lines) \in Nat
      /\ \A i \in 1 .. Len(lines) : lines[i] \in Seq(Words)
  BY DEF Texts
<1>2. ASSUME NEW i \in 1 .. Len(lines)
      PROVE  IsFiniteSet(F[i]) /\ F[i] \subseteq Words
  BY <1>1, FoldLineTyped, MembersFinite
<1>3. IsFiniteSet(U)
  <2>1. F \in Seq(U)
    BY <1>1
  <2>2. ToSet(F) = U
    BY DEF ToSet
  <2> HIDE DEF U, F
  <2> QED
    BY <2>1, <2>2, MembersFinite
<1>4. IsFiniteSet(UNION U) /\ UNION U \subseteq Words
  <2>1. \A T \in U : IsFiniteSet(T) /\ T \subseteq Words
    BY <1>2
  <2> HIDE DEF U
  <2> QED
    BY <1>3, <2>1, FS_UNION
<1>5. Vocabulary(lines, minLen) \subseteq UNION U
  BY <1>1 DEF Vocabulary
<1> HIDE DEF U
<1> QED
  BY <1>4, <1>5, FS_Subset

LEMMA OrderMembers ==
  ASSUME NEW lines \in Texts, NEW minLen, NEW order \in Orders(lines, minLen)
  PROVE  order \in Seq(Words) /\ ToSet(order) = Vocabulary(lines, minLen)
<1> DEFINE terms == Vocabulary(lines, minLen)
           singles == Singles(lines, terms)
           rest == terms \ singles
           up(ts)   == Sorted(ts, Before)
           down(ts) == Sorted(ts, LAMBDA a, b : Before(b, a))
<1>1. IsFiniteSet(terms) /\ terms \subseteq Words /\ singles \subseteq terms
  BY VocabularyTyped DEF Singles
<1>2. order = up(singles) \o up(rest) \/ order = down(singles) \o down(rest)
  BY DEF Orders
<1> HIDE DEF terms, singles
<1>3. ASSUME NEW S, S \subseteq terms
      PROVE  /\ up(S) \in Seq(S) /\ ToSet(up(S)) = S
             /\ down(S) \in Seq(S) /\ ToSet(down(S)) = S
  <2>1. IsFiniteSet(S) /\ S \subseteq Seq(Nat)
    BY <1>1, <1>3, FS_Subset DEF Words
  <2>2. InOrder(up(S), Ordered(S), S) /\ InOrder(down(S), Turned(S), S)
    BY <2>1, SortedWords
  <2> HIDE DEF up, down
  <2> QED
    BY <2>2, InOrderMembers
<1> HIDE DEF up, down
<1>4. ASSUME NEW s \in Seq(singles), NEW r \in Seq(rest), ToSet(s) = singles, ToSet(r) = rest,
             order = s \o r
      PROVE  order \in Seq(Words) /\ ToSet(order) = terms
  <2>1. s \in Seq(terms) /\ r \in Seq(terms)
    BY <1>1
  <2>2. /\ order \in Seq(terms) /\ Len(order) = Len(s) + Len(r)
        /\ Len(s) \in Nat /\ Len(r) \in Nat
        /\ \A i \in 1 .. Len(s) : order[i] = s[i]
        /\ \A i \in 1 .. Len(r) : order[Len(s) + i] = r[i]
    <3>1. order = s \o r
      BY <1>4
    <3> QED
      BY <2>1, <3>1, EndToEnd
  <2>3. ToSet(order) \subseteq terms /\ order \in Seq(Words)
    BY <1>1, <2>2 DEF ToSet
  <2>4. ASSUME NEW t \in terms PROVE t \in ToSet(order)
    <3>1. CASE t \in singles
      <4>1. PICK i \in 1 .. Len(s) : s[i] = t
        BY <1>4, <3>1 DEF ToSet
      <4>2. i \in DOMAIN order /\ order[i] = t
        BY <2>2, <4>1
      <4> QED
        BY <4>2 DEF ToSet
    <3>2. CASE t \in rest
      <4>1. PICK i \in 1 .. Len(r) : r[i] = t
        BY <1>4, <3>2 DEF ToSet
      <4>2. Len(s) + i \in DOMAIN order /\ order[Len(s) + i] = t
        BY <2>2, <4>1
      <4> QED
        BY <4>2 DEF ToSet
    <3> QED
      BY <3>1, <3>2
  <2> QED
    BY <2>3, <2>4
<1>5. rest \subseteq terms
  OBVIOUS
<1> HIDE DEF rest
<1> QED
  BY <1>1, <1>2, <1>3, <1>4, <1>5 DEF terms

LEMMA InsideLength ==
  ASSUME NEW w \in Words, NEW t \in Words, Inside(w, t)
  PROVE  Len(w) <= Len(t)
<1>1. w \in Seq(Nat \ {0}) /\ t \in Seq(Nat \ {0}) /\ Len(w) \in Nat /\ Len(t) \in Nat
  BY DEF Words
<1>2. PICK o \in 1 .. Len(t) + 1 : Holds(t, o, w)
  BY <1>1, InsideMeans
<1>3. o + Len(w) - 1 <= Len(t)
  BY <1>2 DEF Holds
<1> QED
  BY <1>1, <1>3

\* b is a build of lines that are in the corpus file at some time.
Made(b) ==
  \E stamp \in 0 .. MaxReplaced, lines \in Corpora, minLen \in MinTermLens :
    \E order \in Orders(lines, minLen) : b = Build(stamp, lines, minLen, order)

LEMMA MadeFields ==
  ASSUME NEW b, Made(b)
  PROVE  /\ b.stamp \in 0 .. MaxReplaced /\ b.lines \in Corpora /\ b.lines \in Texts
         /\ b.minLen \in MinTermLens /\ b.minLen \in Nat \ {0}
         /\ b.terms \in Orders(b.lines, b.minLen)
         /\ b.text = TextOf(b.terms) /\ b.suffixes = SuffixArray(b.text)
<1>1. PICK stamp \in 0 .. MaxReplaced, lines \in Corpora, minLen \in MinTermLens :
        \E order \in Orders(lines, minLen) : b = Build(stamp, lines, minLen, order)
  BY DEF Made
<1>2. PICK order \in Orders(lines, minLen) : b = Build(stamp, lines, minLen, order)
  BY <1>1
<1>3. /\ b.stamp = stamp /\ b.lines = lines /\ b.minLen = minLen /\ b.terms = order
      /\ b.text = TextOf(order) /\ b.suffixes = SuffixArray(TextOf(order))
  BY <1>2 DEF Build
<1>4. lines \in Texts /\ minLen \in Nat \ {0}
  BY CorporaTyped, PaceAssumption
<1> QED
  BY <1>2, <1>3, <1>4

\* Every file is of the build b.
FilesOf(files, b) == \A f \in ToSet(Files) : files[f] = b

LEMMA FileNames ==
  ToSet(Files) = {"vocab", "postings", "suffixes", "separators", "offsets", "meta"}
<1> DEFINE F == Files
<1>1. /\ F[1] = "vocab" /\ F[2] = "postings" /\ F[3] = "suffixes" /\ F[4] = "separators"
      /\ F[5] = "offsets" /\ F[6] = "meta"
  BY DEF Files
<1>2. DOMAIN F = 1 .. 6
  BY DEF Files
<1>3. ToSet(F) = {F[i] : i \in DOMAIN F}
  BY DEF ToSet
<1> HIDE DEF F
<1>4. 1 .. 6 = {1, 2, 3, 4, 5, 6}
  OBVIOUS
<1>5. ToSet(F) = {F[1], F[2], F[3], F[4], F[5], F[6]}
  BY <1>2, <1>3, <1>4
<1>6. ToSet(F) = {"vocab", "postings", "suffixes", "separators", "offsets", "meta"}
  BY <1>1, <1>5
<1> QED
  BY <1>6 DEF F

LEMMA IdsFound ==
  ASSUME NEW b, Made(b), NEW files, FilesOf(files, b), NEW word \in Words, Len(word) >= 2
  PROVE  TermIds(files, word) = {i - 1 : i \in Holding(b.terms, word)}
<1> DEFINE text == b.text
           P == {p \in Indexed(text) : Compare(text, p, word) = 0}
<1>1. files["suffixes"] = b /\ files["vocab"] = b /\ files["separators"] = b
  BY FileNames DEF FilesOf
<1>2. b.terms \in Seq(Words) /\ text = TextOf(b.terms) /\ b.suffixes = SuffixArray(text)
  <2>1. b.terms \in Orders(b.lines, b.minLen) /\ b.lines \in Texts
    BY MadeFields
  <2>2. b.terms \in Seq(Words)
    BY <2>1, OrderMembers
  <2> QED
    BY <2>2, MadeFields
<1>3. text \in Seq(Nat) /\ word \in Seq(Nat)
  BY <1>2, TextLaid DEF Words
<1>4. Matched(files, word) = {SuffixArray(text)[i + 1] : i \in SearchRange(text, SuffixArray(text), word)}
  BY <1>1, <1>2 DEF Matched
<1>5. Matched(files, word) = P
  <2> HIDE DEF text
  <2> QED
    BY <1>3, <1>4, SearchFinds
<1>6. \A p : Rank(files["separators"], p) = Cardinality(Separators(text, p))
  BY <1>1 DEF Rank, Separators
<1>7. TermIds(files, word) = {Cardinality(Separators(text, p)) : p \in P}
  BY <1>5, <1>6 DEF TermIds
<1>8. RanksFound(text, word) = {i - 1 : i \in Holding(b.terms, word)}
  <2> HIDE DEF text
  <2> QED
    BY <1>2, TermsFound
<1> QED
  BY <1>7, <1>8 DEF RanksFound

LEMMA PostingsTyped ==
  ASSUME NEW lines \in Texts, NEW minLen, NEW term \in Vocabulary(lines, minLen)
  PROVE  /\ Postings(lines, term) # {} /\ Postings(lines, term) \subseteq 0 .. Len(lines) - 1
         /\ Len(lines) \in Nat
<1>1. DOMAIN lines = 1 .. Len(lines) /\ Len(lines) \in Nat
  BY DEF Texts
<1>2. PICK i \in 1 .. Len(lines) : term \in ToSet(FoldLine(lines[i]))
  BY <1>1 DEF Vocabulary
<1>3. i - 1 \in 0 .. Len(lines) - 1 /\ (i - 1) + 1 = i
  BY <1>1
<1>4. i - 1 \in Postings(lines, term)
  BY <1>2, <1>3 DEF Postings
<1> QED
  BY <1>1, <1>4 DEF Postings

LEMMA LinesListed ==
  ASSUME NEW b, Made(b), NEW files, FilesOf(files, b), NEW i \in 1 .. Len(b.terms)
  PROVE  LinesOf(files, b, i - 1) = Postings(b.lines, b.terms[i])
<1>1. files["postings"] = b
  BY FileNames DEF FilesOf
<1>2. b.lines \in Texts /\ b.terms \in Orders(b.lines, b.minLen)
  BY MadeFields
<1>3. b.terms \in Seq(Words) /\ b.terms[i] \in Vocabulary(b.lines, b.minLen)
  <2>1. b.terms \in Seq(Words) /\ ToSet(b.terms) = Vocabulary(b.lines, b.minLen)
    BY <1>2, OrderMembers
  <2> QED
    BY <2>1 DEF ToSet
<1> DEFINE listed == Postings(b.lines, b.terms[i])
<1>4. listed # {} /\ listed \subseteq 0 .. Len(b.lines) - 1 /\ Len(b.lines) \in Nat
  BY <1>2, <1>3, PostingsTyped
<1>5. (i - 1) + 1 = i
  BY <1>3
<1>6. LinesOf(files, b, i - 1) = IF i - 1 < NumSingles(b) THEN listed
                                 ELSE Decode(Encode(listed, NumLines(b)))
  BY <1>1, <1>5 DEF LinesOf
<1> HIDE DEF listed
<1>7. Decode(Encode(listed, NumLines(b))) = listed
  BY <1>4, DecodesEncoded DEF NumLines
<1>8. LinesOf(files, b, i - 1) = listed
  BY <1>6, <1>7
<1> QED
  BY <1>8 DEF listed

\* The lines of the build that hold the word inside a token.
HeldBy(b, word) ==
  {i \in 0 .. NumLines(b) - 1 :
     \E t \in ToSet(FoldLine(b.lines[i + 1])) : Inside(word, t)}

LEMMA GathersHeld ==
  ASSUME NEW b, Made(b), NEW files, FilesOf(files, b), NEW word \in Words,
         Len(word) >= 2, Len(word) >= b.minLen
  PROVE  Gather(files, b, word) = HeldBy(b, word)
<1> DEFINE lines == b.lines
           terms == b.terms
           voc == Vocabulary(lines, b.minLen)
<1>1. lines \in Texts /\ terms \in Orders(lines, b.minLen) /\ b.minLen \in Nat
  BY MadeFields
<1>2. terms \in Seq(Words) /\ ToSet(terms) = voc /\ voc \subseteq Words
  BY <1>1, OrderMembers, VocabularyTyped
<1>3. TermIds(files, word) = {i - 1 : i \in Holding(terms, word)}
  BY IdsFound
<1>4. \A i \in Holding(terms, word) : LinesOf(files, b, i - 1) = Postings(lines, terms[i])
  <2> SUFFICES ASSUME NEW i \in Holding(terms, word)
               PROVE  LinesOf(files, b, i - 1) = Postings(lines, terms[i])
    OBVIOUS
  <2>1. i \in 1 .. Len(terms)
    BY DEF Holding
  <2> QED
    BY <2>1, LinesListed
<1>5. Gather(files, b, word) = UNION {Postings(lines, terms[i]) : i \in Holding(terms, word)}
  BY <1>3, <1>4 DEF Gather
<1>6. DOMAIN lines = 1 .. Len(lines) /\ Len(lines) \in Nat /\ \A i \in 1 .. Len(lines) : lines[i] \in Seq(Words)
  BY <1>1 DEF Texts
<1>7. ASSUME NEW j \in 0 .. Len(lines) - 1, NEW t \in ToSet(FoldLine(lines[j + 1])), Inside(word, t)
      PROVE  \E i \in Holding(terms, word) : j \in Postings(lines, terms[i])
  <2>1. j + 1 \in DOMAIN lines
    BY <1>6
  <2>2. t \in Words
    <3>1. FoldLine(lines[j + 1]) \in Seq(Words)
      BY <1>6, <2>1, FoldLineTyped
    <3> QED
      BY <3>1, MembersFinite
  <2>3. Len(t) >= b.minLen
    <3>1. Len(word) <= Len(t)
      BY <1>7, <2>2, InsideLength
    <3>2. Len(word) \in Nat /\ Len(t) \in Nat
      BY <2>2 DEF Words
    <3> QED
      BY <1>1, <3>1, <3>2
  <2>4. t \in voc
    BY <2>1, <2>3 DEF Vocabulary
  <2>5. PICK i \in 1 .. Len(terms) : terms[i] = t
    BY <1>2, <2>4 DEF ToSet
  <2>6. i \in Holding(terms, word)
    BY <1>7, <2>5 DEF Holding
  <2>7. j \in Postings(lines, terms[i])
    BY <2>5 DEF Postings
  <2> QED
    BY <2>6, <2>7
<1>8. ASSUME NEW i \in Holding(terms, word), NEW j \in Postings(lines, terms[i])
      PROVE  j \in HeldBy(b, word)
  <2>1. Inside(word, terms[i])
    BY DEF Holding
  <2>2. j \in 0 .. Len(lines) - 1 /\ terms[i] \in ToSet(FoldLine(lines[j + 1]))
    BY DEF Postings
  <2> QED
    BY <2>1, <2>2 DEF HeldBy, NumLines
<1>9. \A j \in HeldBy(b, word) : \E i \in Holding(terms, word) : j \in Postings(lines, terms[i])
  BY <1>7 DEF HeldBy, NumLines
<1> QED
  BY <1>5, <1>8, <1>9

-----------------------------------------------------------------------------
(***************************************************************************)
(* plan(): candidates that keep every line with the words of the pipeline. *)
(***************************************************************************)
StageLists == Seq(Stages) \ {<<>>}

LEMMA StageFields ==
  ASSUME NEW stages \in StageLists, NEW i \in 1 .. Len(stages)
  PROVE  stages[i] \in Stages /\ stages[i].patterns \in Seq(Seq(Words)) /\ stages[i].n \in Nat
<1>1. stages[i] \in Stages
  BY DEF StageLists
<1> QED
  BY <1>1 DEF Stages

Through(stages, i) ==
  /\ \A j \in 2 .. i : Parses(stages[j]) /\ stages[j].file = ""
  /\ \A j \in 1 .. i - 1 : ~Transforms(stages[j])

LEMMA WalkedIs ==
  ASSUME NEW stages \in StageLists
  PROVE  /\ Len(stages) \in Nat \ {0} /\ Walked(stages) \in 1 .. Len(stages)
         /\ Through(stages, Walked(stages))
         /\ Walked(stages) < Len(stages) => ~Through(stages, Walked(stages) + 1)
<1> DEFINE l == Len(stages)
           T(i) == Through(stages, i)
           D == {n \in 1 .. l : n = l \/ ~T(n + 1)}
<1>1. l \in Nat \ {0}
  BY DEF StageLists
<1>2. T(1)
  BY DEF Through
<1> HIDE DEF l, T
<1>3. D \in SUBSET Nat /\ l \in D
  BY <1>1
<1>4. PICK n \in D : \A m \in D : n <= m
  <2> HIDE DEF D
  <2> QED
    BY <1>3, LeastElement
<1>5. T(n)
  <2>1. CASE n = 1
    BY <1>2, <2>1
  <2>2. CASE n # 1
    <3>1. n - 1 \in 1 .. l /\ n - 1 # l /\ (n - 1) + 1 = n /\ ~(n <= n - 1)
      BY <1>1, <1>3, <1>4, <2>2
    <3>2. n - 1 \notin D
      BY <1>4, <3>1
    <3> QED
      BY <3>1, <3>2
  <2> QED
    BY <2>1, <2>2
<1>6. n \in 1 .. l /\ T(n) /\ (n < l => ~T(n + 1))
  BY <1>4, <1>5
<1>7. Walked(stages) = CHOOSE m \in 1 .. l : T(m) /\ (m < l => ~T(m + 1))
  BY DEF Walked, T, Through, l
<1>8. /\ Walked(stages) \in 1 .. l /\ T(Walked(stages))
      /\ Walked(stages) < l => ~T(Walked(stages) + 1)
  BY <1>6, <1>7
<1> QED
  BY <1>1, <1>8 DEF l, T

LEMMA StagesParse ==
  ASSUME NEW stages \in StageLists, Classified(stages), NEW i \in 1 .. Walked(stages)
  PROVE  /\ i \in 1 .. Len(stages) /\ stages[i] \in Stages
         /\ stages[i].prog = "rg" /\ Len(stages[i].patterns) = 1
         /\ stages[i].patterns[1] \in Seq(Words) /\ DOMAIN stages[i].patterns = {1}
<1>1. /\ Walked(stages) \in 1 .. Len(stages) /\ Through(stages, Walked(stages))
      /\ Len(stages) \in Nat
  BY WalkedIs
<1>2. i \in 1 .. Len(stages)
  BY <1>1
<1>3. Parses(stages[i])
  <2>1. i = 1 \/ i \in 2 .. Walked(stages)
    BY <1>1
  <2> QED
    BY <1>1, <2>1 DEF Through, Classified
<1>4. stages[i] \in Stages /\ stages[i].patterns \in Seq(Seq(Words))
  BY <1>2, StageFields
<1>5. stages[i].prog = "rg" /\ Len(stages[i].patterns) = 1
  BY <1>3 DEF Parses
<1>6. DOMAIN stages[i].patterns = {1} /\ stages[i].patterns[1] \in Seq(Words)
  BY <1>4, <1>5
<1> QED
  BY <1>2, <1>4, <1>5, <1>6

LEMMA QueryWordsTyped ==
  ASSUME NEW stages \in StageLists, Classified(stages), NEW minLen
  PROVE  \A w \in QueryWords(stages, minLen) : w \in Words /\ w # <<>> /\ Len(w) >= minLen
<1>1. Patterns(stages) \subseteq Seq(Words)
  BY StagesParse DEF Patterns
<1>2. \A p \in Patterns(stages) : ToSet(FoldLine(p)) \subseteq Words
  <2> SUFFICES ASSUME NEW p \in Patterns(stages) PROVE ToSet(FoldLine(p)) \subseteq Words
    OBVIOUS
  <2>1. FoldLine(p) \in Seq(Words)
    BY <1>1, FoldLineTyped
  <2> QED
    BY <2>1, MembersFinite
<1> QED
  BY <1>2 DEF QueryWords

\* The lines that hold all of the words.
AllHeld(b, words) == {i \in 0 .. NumLines(b) - 1 : \A w \in words : i \in HeldBy(b, w)}

LEMMA PlanTyped ==
  ASSUME NEW files, NEW meta, NEW words, NEW budget, NEW d \in Plan(files, meta, words, budget)
  PROVE  /\ d.served \in BOOLEAN
         /\ d.candidates \subseteq 0 .. NumLines(meta) - 1
         /\ ~d.served => d.candidates = {}
<1> DEFINE lines(used) ==
             {i \in 0 .. NumLines(meta) - 1 : \A w \in used : i \in Gather(files, meta, w)}
<1>1. d = Served({}) \/ d = NotServed \/ \E used : d = Served(lines(used))
  BY DEF Plan
<1>2. \A used : lines(used) \subseteq 0 .. NumLines(meta) - 1
  OBVIOUS
<1> HIDE DEF lines
<1>3. d = NotServed \/ \E s \in SUBSET (0 .. NumLines(meta) - 1) : d = Served(s)
  BY <1>1, <1>2
<1>4. CASE d = NotServed
  BY <1>4 DEF NotServed
<1>5. CASE \E s \in SUBSET (0 .. NumLines(meta) - 1) : d = Served(s)
  <2>1. PICK s \in SUBSET (0 .. NumLines(meta) - 1) : d = Served(s)
    BY <1>5
  <2>2. d.served = TRUE /\ d.candidates = s
    BY <2>1 DEF Served
  <2> QED
    BY <2>2
<1> QED
  BY <1>3, <1>4, <1>5

LEMMA PlanKeeps ==
  ASSUME NEW b, Made(b), NEW files, FilesOf(files, b), NEW budget, NEW words,
         \A w \in words : w \in Words /\ Len(w) >= 2 /\ Len(w) >= b.minLen,
         NEW d \in Plan(files, b, words, budget), d.served
  PROVE  AllHeld(b, words) \subseteq d.candidates
<1> DEFINE lines(used) ==
             {i \in 0 .. NumLines(b) - 1 : \A w \in used : i \in Gather(files, b, w)}
<1>1. \A w \in words : Gather(files, b, w) = HeldBy(b, w)
  BY GathersHeld
<1>2. \/ d = Served({}) /\ \E w \in words : TermIds(files, w) = {}
      \/ d = NotServed
      \/ \E used \in SUBSET words : d = Served(lines(used))
  BY DEF Plan
<1>3. CASE d = Served({}) /\ \E w \in words : TermIds(files, w) = {}
  <2>1. PICK w \in words : TermIds(files, w) = {}
    BY <1>3
  <2>2. HeldBy(b, w) = {}
    BY <1>1, <2>1 DEF Gather
  <2> QED
    BY <2>2 DEF AllHeld
<1>4. CASE d = NotServed
  BY <1>4 DEF NotServed
<1>5. CASE \E used \in SUBSET words : d = Served(lines(used))
  <2>1. PICK used \in SUBSET words : d = Served(lines(used))
    BY <1>5
  <2>2. AllHeld(b, words) \subseteq lines(used)
    BY <1>1 DEF AllHeld
  <2> HIDE DEF lines
  <2> QED
    BY <2>1, <2>2 DEF Served
<1> QED
  BY <1>2, <1>3, <1>4, <1>5

-----------------------------------------------------------------------------
(***************************************************************************)
(* Members picked from a sequence: picking twice, picking a beginning.     *)
(***************************************************************************)
Rises(at, n, I) ==
  /\ n \in Nat /\ at \in [1 .. n -> I]
  /\ \A i, j \in 1 .. n : i < j => at[i] < at[j]
  /\ \A x \in I : \E k \in 1 .. n : at[k] = x

PickedBy(s, I, at, n) ==
  /\ Picked(s, I) = [k \in 1 .. n |-> s[at[k]]]
  /\ Cardinality(I) = n

LEMMA RisesOnce ==
  ASSUME NEW I, NEW n, NEW at, Rises(at, n, I), I \subseteq Nat, NEW s
  PROVE  PickedBy(s, I, at, n)
<1>1. /\ n \in Nat /\ at \in [1 .. n -> I]
      /\ \A i, j \in 1 .. n : i < j => at[i] < at[j]
      /\ \A x \in I : \E k \in 1 .. n : at[k] = x
  BY DEF Rises
<1>2. at \in [1 .. n -> Int] /\ DOMAIN at = 1 .. n
  <2>1. I \subseteq Int
    OBVIOUS
  <2>2. \A k \in 1 .. n : at[k] \in Int
    BY <1>1, <2>1
  <2>3. at = [k \in 1 .. n |-> at[k]]
    BY <1>1
  <2> QED
    BY <2>2, <2>3
<1>3. I = {at[i] : i \in 1 .. n}
  BY <1>1
<1>4. Sorted(I, <) = at /\ Cardinality(I) = n
  BY <1>1, <1>2, <1>3, RisingSorted
<1> QED
  BY <1>2, <1>4 DEF Picked, PickedBy

LEMMA RisingExists ==
  ASSUME NEW n \in Nat, NEW I \in SUBSET (1 .. n)
  PROVE  Rises(Sorted(I, <), Cardinality(I), I)
<1> DEFINE f == Sorted(I, <)
           m == Cardinality(I)
<1>1. I \in SUBSET Int /\ IsFiniteSet(I)
  <2>1. IsFiniteSet(1 .. n)
    BY FS_Interval
  <2>2. IsFiniteSet(I)
    BY <2>1, FS_Subset
  <2> QED
    BY <2>2
<1>2. m \in Nat
  BY <1>1, FS_CardinalityType
<1>3. /\ f \in Seq(I) /\ Len(f) = m
      /\ \A i, j \in 1 .. m : i < j => f[i] < f[j]
      /\ \A x \in I : \E k \in 1 .. m : f[k] = x
  BY <1>1, SortedNumbers
<1> HIDE DEF f, m
<1>4. f \in [1 .. m -> I]
  BY <1>3
<1>5. Rises(f, m, I)
  BY <1>2, <1>3, <1>4 DEF Rises
<1> QED
  BY <1>5 DEF f, m

\* How a subsequence is picked.
LEMMA Picking ==
  ASSUME NEW S, NEW s \in Seq(S), NEW I \in SUBSET (1 .. Len(s))
  PROVE  \E at, n : Rises(at, n, I) /\ PickedBy(s, I, at, n)
<1>1. Rises(Sorted(I, <), Cardinality(I), I)
  <2>1. Len(s) \in Nat
    OBVIOUS
  <2> QED
    BY <2>1, RisingExists
<1>2. I \subseteq Nat
  OBVIOUS
<1>3. \A at, n : Rises(at, n, I) => PickedBy(s, I, at, n)
  BY <1>2, RisesOnce
<1> QED
  BY <1>1, <1>3

LEMMA PickedTyped ==
  ASSUME NEW S, NEW s \in Seq(S), NEW I \in SUBSET (1 .. Len(s))
  PROVE  Picked(s, I) \in Seq(S) /\ Len(Picked(s, I)) = Cardinality(I) /\ Cardinality(I) \in Nat
<1>1. PICK at, m : Rises(at, m, I) /\ PickedBy(s, I, at, m)
  BY Picking
<1>2. Picked(s, I) = [k \in 1 .. m |-> s[at[k]]] /\ Cardinality(I) = m
  BY <1>1 DEF PickedBy
<1>3. m \in Nat /\ \A k \in 1 .. m : s[at[k]] \in S
  <2>1. m \in Nat /\ at \in [1 .. m -> I]
    BY <1>1 DEF Rises
  <2>2. \A k \in 1 .. m : at[k] \in I
    BY <2>1
  <2>3. \A k \in I : s[k] \in S
    OBVIOUS
  <2> QED
    BY <2>1, <2>2, <2>3
<1> QED
  BY <1>2, <1>3

Those(s, K) == {i \in DOMAIN s : s[i] \in K}
Among(s, I, K) == {i \in I : s[i] \in K}

\* Picking what is in K from what was picked.
LEMMA PickedTwice ==
  ASSUME NEW S, NEW s \in Seq(S), NEW I \in SUBSET (1 .. Len(s)), NEW K, NEW t, t = Picked(s, I)
  PROVE  Picked(t, Those(t, K)) = Picked(s, Among(s, I, K))
<1>1. PICK at, n : Rises(at, n, I) /\ PickedBy(s, I, at, n)
  BY Picking
<1>2. t = [k \in 1 .. n |-> s[at[k]]]
  BY <1>1 DEF PickedBy
<1> DEFINE J == {j \in 1 .. n : s[at[j]] \in K}
           L == {i \in I : s[i] \in K}
<1>3. n \in Nat /\ J \in SUBSET (1 .. n) /\ J \subseteq Nat /\ L \subseteq Nat
  <2>1. n \in Nat
    BY <1>1 DEF Rises
  <2>2. J \subseteq 1 .. n /\ 1 .. n \subseteq Nat
    BY <2>1
  <2>3. L \subseteq I /\ I \subseteq Nat
    OBVIOUS
  <2> HIDE DEF J, L
  <2> QED
    BY <2>1, <2>2, <2>3
<1>4. {j \in DOMAIN t : t[j] \in K} = J
  BY <1>2
<1>5. \E bt, m : Rises(bt, m, J)
  <2> HIDE DEF J
  <2> QED
    BY <1>3, RisingExists
<1> PICK bt, m : Rises(bt, m, J)
  BY <1>5
<1> DEFINE c == [k \in 1 .. m |-> at[bt[k]]]
<1>6. m \in Nat /\ \A k \in 1 .. m : bt[k] \in J /\ bt[k] \in 1 .. n /\ c[k] = at[bt[k]]
  BY DEF Rises
<1>7. Rises(c, m, L)
  <2>1. c \in [1 .. m -> L]
    BY <1>1, <1>6 DEF Rises
  <2>2. \A i, j \in 1 .. m : i < j => c[i] < c[j]
    <3> SUFFICES ASSUME NEW i \in 1 .. m, NEW j \in 1 .. m, i < j PROVE c[i] < c[j]
      OBVIOUS
    <3>1. bt[i] < bt[j]
      BY DEF Rises
    <3> QED
      BY <1>1, <1>6, <3>1 DEF Rises
  <2>3. ASSUME NEW x \in L PROVE \E k \in 1 .. m : c[k] = x
    <3>1. PICK j \in 1 .. n : at[j] = x
      BY <1>1 DEF Rises
    <3>2. j \in J
      BY <3>1
    <3>3. PICK k \in 1 .. m : bt[k] = j
      BY <3>2 DEF Rises
    <3> QED
      BY <3>1, <3>3
  <2> HIDE DEF c, L
  <2> QED
    BY <1>6, <2>1, <2>2, <2>3 DEF Rises
<1>8. Picked(s, L) = [k \in 1 .. m |-> s[c[k]]]
  <2> HIDE DEF c, L
  <2>1. PickedBy(s, L, c, m)
    BY <1>3, <1>7, RisesOnce
  <2> QED
    BY <2>1 DEF PickedBy
<1>9. Picked(t, J) = [k \in 1 .. m |-> t[bt[k]]]
  <2> HIDE DEF J
  <2>1. PickedBy(t, J, bt, m)
    BY <1>3, RisesOnce
  <2> QED
    BY <2>1 DEF PickedBy
<1>10. \A k \in 1 .. m : t[bt[k]] = s[c[k]]
  BY <1>2, <1>6
<1> HIDE DEF c, J, L
<1>11. Picked(t, J) = Picked(s, L)
  BY <1>8, <1>9, <1>10
<1> QED
  BY <1>4, <1>11 DEF L, Those, Among

LEMMA PickedAll ==
  ASSUME NEW S, NEW s \in Seq(S)
  PROVE  Picked(s, 1 .. Len(s)) = s
<1> DEFINE n == Len(s)
           at == [k \in 1 .. n |-> k]
<1>1. n \in Nat /\ s = [k \in 1 .. n |-> s[k]] /\ 1 .. n \in SUBSET Nat
  OBVIOUS
<1> HIDE DEF n
<1>2. Rises(at, n, 1 .. n)
  BY <1>1 DEF Rises
<1>3. Picked(s, 1 .. n) = [k \in 1 .. n |-> s[at[k]]]
  <2> HIDE DEF at
  <2>1. 1 .. n \subseteq Nat
    OBVIOUS
  <2>2. PickedBy(s, 1 .. n, at, n)
    BY <1>2, <2>1, RisesOnce
  <2> QED
    BY <2>2 DEF PickedBy
<1>4. \A k \in 1 .. n : s[at[k]] = s[k]
  OBVIOUS
<1> HIDE DEF at
<1> QED
  BY <1>1, <1>3, <1>4 DEF n

\* The first of the picked are those up to some place.
LEMMA PickedBeginning ==
  ASSUME NEW S, NEW s \in Seq(S), NEW I \in SUBSET (1 .. Len(s)), NEW r \in Nat
  PROVE  /\ Take(Picked(s, I), Cardinality(I \cap (1 .. r))) = Picked(s, I \cap (1 .. r))
         /\ Cardinality(I \cap (1 .. r)) \in Nat
         /\ Cardinality(I \cap (1 .. r)) <= Cardinality(I)
<1>1. PICK at, n : Rises(at, n, I) /\ PickedBy(s, I, at, n)
  BY Picking
<1> DEFINE N == I \cap (1 .. r)
           D == {k \in 0 .. n : k = n \/ ~(at[k + 1] <= r)}
<1>2. n \in Nat /\ at \in [1 .. n -> I] /\ \A k \in 1 .. n : at[k] \in Nat /\ at[k] \in I
  <2>1. n \in Nat /\ at \in [1 .. n -> I]
    BY <1>1 DEF Rises
  <2>2. I \subseteq Nat
    OBVIOUS
  <2>3. \A k \in 1 .. n : at[k] \in I
    BY <2>1
  <2> QED
    BY <2>1, <2>2, <2>3
<1>3. D \in SUBSET Nat /\ n \in D
  BY <1>2
<1>4. PICK d \in D : \A m \in D : d <= m
  <2> HIDE DEF D
  <2> QED
    BY <1>3, LeastElement
<1>5. d \in 0 .. n
  OBVIOUS
<1>6. ASSUME NEW k \in 1 .. n
      PROVE  at[k] <= r <=> k <= d
  <2>1. CASE k <= d
    <3>1. k - 1 \in 0 .. n /\ k - 1 # n /\ ~(d <= k - 1) /\ (k - 1) + 1 = k
      BY <1>2, <1>5, <2>1
    <3>2. k - 1 \notin D
      BY <1>4, <3>1
    <3> QED
      BY <2>1, <3>1, <3>2
  <2>2. CASE d < k
    <3>1. d # n /\ d + 1 \in 1 .. n /\ d + 1 <= k
      BY <1>2, <1>5, <2>2
    <3>2. ~(at[d + 1] <= r)
      BY <3>1
    <3>3. at[d + 1] <= at[k]
      <4>1. CASE d + 1 = k
        BY <1>2, <4>1
      <4>2. CASE d + 1 < k
        BY <1>1, <1>2, <3>1, <4>2 DEF Rises
      <4> QED
        BY <1>5, <3>1, <4>1, <4>2
    <3> QED
      BY <1>2, <1>5, <2>2, <3>1, <3>2, <3>3
  <2> QED
    BY <1>5, <2>1, <2>2
<1> HIDE DEF D
<1> DEFINE c == [k \in 1 .. d |-> at[k]]
<1>7. Rises(c, d, N)
  <2>0. \A k \in 1 .. d : k \in 1 .. n /\ k <= d
    BY <1>2, <1>5
  <2>1. c \in [1 .. d -> N]
    <3> SUFFICES ASSUME NEW k \in 1 .. d PROVE at[k] \in N
      OBVIOUS
    <3>1. at[k] \in I /\ at[k] <= r /\ at[k] \in 1 .. Len(s)
      BY <1>2, <1>6, <2>0
    <3> QED
      BY <3>1
  <2>2. \A i, j \in 1 .. d : i < j => c[i] < c[j]
    BY <1>1, <2>0 DEF Rises
  <2>3. ASSUME NEW x \in N PROVE \E k \in 1 .. d : c[k] = x
    <3>1. PICK k \in 1 .. n : at[k] = x
      BY <1>1 DEF Rises
    <3>2. k \in 1 .. d
      BY <1>5, <1>6, <3>1
    <3> QED
      BY <3>1, <3>2
  <2> HIDE DEF c, N
  <2> QED
    BY <1>5, <2>1, <2>2, <2>3 DEF Rises
<1>8. Picked(s, N) = [k \in 1 .. d |-> s[c[k]]] /\ Cardinality(N) = d
  <2>1. N \subseteq Nat
    OBVIOUS
  <2> HIDE DEF c, N
  <2>2. PickedBy(s, N, c, d)
    BY <1>7, <2>1, RisesOnce
  <2> QED
    BY <2>2 DEF PickedBy
<1>9. Picked(s, I) = [k \in 1 .. n |-> s[at[k]]] /\ Cardinality(I) = n
  BY <1>1 DEF PickedBy
<1> DEFINE p == Picked(s, I)
           q == Picked(s, N)
<1>10. p \in Seq(S) /\ q \in Seq(S) /\ Len(p) = n /\ Len(q) = d
  <2>1. N \subseteq 1 .. Len(s)
    OBVIOUS
  <2> HIDE DEF N
  <2> QED
    BY <1>8, <1>9, <2>1, PickedTyped
<1>11. \A k \in 1 .. d : q[k] = p[k] /\ k \in 1 .. n /\ k <= d
  BY <1>2, <1>5, <1>8, <1>9
<1> HIDE DEF p, q, N, c
<1> DEFINE t == Take(p, d)
<1>12. t \in Seq(S) /\ Len(t) = (IF d < n THEN d ELSE n) /\ \A k \in 1 .. n : k <= d => t[k] = p[k]
  <2>1. d \in Nat
    BY <1>5
  <2> QED
    BY <1>10, <2>1, TakeTyped
<1> HIDE DEF t
<1>13. t = q
  <2>1. Len(t) = Len(q)
    BY <1>2, <1>5, <1>10, <1>12
  <2>2. \A k \in 1 .. Len(t) : t[k] = q[k]
    BY <1>10, <1>11, <1>12, <2>1
  <2> QED
    BY <1>10, <1>12, <2>1, <2>2, SeqEqual
<1>14. Take(p, Cardinality(N)) = q
  BY <1>8, <1>13 DEF t
<1> QED
  BY <1>2, <1>5, <1>8, <1>9, <1>14 DEF p, q, N

CountTo(I, r) == Cardinality(I \cap (1 .. r))

\* Any number of the picked are those up to some place.
LEMMA PickedReached ==
  ASSUME NEW n \in Nat, NEW I \in SUBSET (1 .. n), NEW m \in Nat, m <= Cardinality(I)
  PROVE  \E r \in 0 .. n : CountTo(I, r) = m
<1> DEFINE at == Sorted(I, <)
           l == Cardinality(I)
<1>1. Rises(at, l, I)
  BY RisingExists
<1>3. Cardinality(I) = l
  OBVIOUS
<1> HIDE DEF at, l
<1>4. l \in Nat /\ m <= l /\ \A k \in 1 .. l : at[k] \in 1 .. n /\ at[k] \in I
  <2>1. l \in Nat /\ at \in [1 .. l -> I]
    BY <1>1 DEF Rises
  <2> QED
    BY <1>3, <2>1
<1> DEFINE r == IF m = 0 THEN 0 ELSE at[m]
           N == I \cap (1 .. r)
           c == [k \in 1 .. m |-> at[k]]
<1>5. r \in 0 .. n
  BY <1>4
<1>6. Rises(c, m, N)
  <2>1. CASE m = 0
    <3>1. N = {} /\ 1 .. m = {}
      BY <2>1
    <3> HIDE DEF N
    <3> QED
      BY <2>1, <3>1 DEF Rises
  <2>2. CASE m # 0
    <3>1. m \in 1 .. l /\ r = at[m]
      BY <1>4, <2>2
    <3>2. ASSUME NEW k \in 1 .. m PROVE at[k] \in N /\ k \in 1 .. l
      <4>1. k \in 1 .. l /\ (k < m \/ k = m)
        BY <1>4
      <4>2. at[k] \in 1 .. n /\ at[m] \in 1 .. n /\ at[k] \in I
        BY <1>4, <3>1, <4>1
      <4>3. at[k] <= at[m]
        BY <1>1, <3>1, <4>1, <4>2 DEF Rises
      <4> QED
        BY <3>1, <4>1, <4>2, <4>3
    <3>3. \A i, j \in 1 .. m : i < j => c[i] < c[j]
      BY <1>1, <3>2 DEF Rises
    <3>4. ASSUME NEW x \in N PROVE \E k \in 1 .. m : c[k] = x
      <4>1. PICK k \in 1 .. l : at[k] = x
        BY <1>1 DEF Rises
      <4>2. at[k] <= at[m] /\ at[k] \in Nat /\ at[m] \in Nat
        BY <1>4, <3>1, <4>1
      <4>3. ~(m < k)
        <5>1. m < k => at[m] < at[k]
          BY <1>1, <3>1 DEF Rises
        <5> QED
          BY <4>2, <5>1
      <4>4. k \in 1 .. m
        BY <1>4, <4>3
      <4> QED
        BY <4>1, <4>4
    <3>5. c \in [1 .. m -> N]
      BY <3>2
    <3> HIDE DEF c, N
    <3> QED
      BY <3>3, <3>4, <3>5 DEF Rises
  <2> QED
    BY <2>1, <2>2
<1>7. Cardinality(N) = m
  <2>1. N \subseteq Nat
    OBVIOUS
  <2> HIDE DEF N, c
  <2>2. PickedBy(<<>>, N, c, m)
    BY <1>6, <2>1, RisesOnce
  <2> QED
    BY <2>2 DEF PickedBy
<1>8. CountTo(I, r) = m
  BY <1>7 DEF CountTo
<1> HIDE DEF r
<1> QED
  BY <1>5, <1>8

-----------------------------------------------------------------------------
(***************************************************************************)
(* Where a word lies in another; what a stage lets through holds the words *)
(* of its pattern.                                                         *)
(***************************************************************************)
LEMMA Reversed ==
  ASSUME NEW S, NEW w \in Seq(S)
  PROVE  /\ Reverse(w) \in Seq(S) /\ Len(Reverse(w)) = Len(w)
         /\ \A k \in 1 .. Len(w) : Reverse(w)[k] = w[Len(w) - k + 1]
<1> DEFINE n == Len(w)
           f == [k \in 1 .. n |-> w[(n - k) + 1]]
<1>1. n \in Nat /\ \A i \in 1 .. n : w[i] \in S
  OBVIOUS
<1>2. \A k \in 1 .. n : w[(n - k) + 1] \in S /\ (n - k) + 1 = n - k + 1
  <2>1. \A k \in 1 .. n : (n - k) + 1 \in 1 .. n /\ (n - k) + 1 = n - k + 1
    BY <1>1
  <2> QED
    BY <1>1, <2>1
<1> HIDE DEF n
<1>3. f \in Seq(S) /\ Len(f) = n /\ \A k \in 1 .. n : f[k] = w[n - k + 1]
  BY <1>1, <1>2
<1>4. Reverse(w) = f
  BY DEF Reverse, f, n
<1> HIDE DEF f
<1> QED
  BY <1>3, <1>4 DEF n

LEMMA SuffixMeans ==
  ASSUME NEW S, NEW w \in Seq(S), NEW t \in Seq(S)
  PROVE  IsSuffix(w, t) <=> Len(w) <= Len(t) /\ Holds(t, Len(t) - Len(w) + 1, w)
<1> DEFINE n == Len(w)
           l == Len(t)
           r == Reverse(w)
           e == Reverse(t)
<1>1. n \in Nat /\ l \in Nat
  OBVIOUS
<1>2. r \in Seq(S) /\ Len(r) = n /\ \A k \in 1 .. n : r[k] = w[n - k + 1]
  BY Reversed
<1>3. e \in Seq(S) /\ Len(e) = l /\ \A k \in 1 .. l : e[k] = t[l - k + 1]
  BY Reversed
<1>4. IsPrefix(r, e) <=> Len(r) <= Len(e) /\ \A k \in 1 .. Len(r) : e[k] = r[k]
  BY <1>2, <1>3, PrefixMeans
<1> HIDE DEF n, l, r, e
<1>5. ASSUME n <= l, NEW k \in 1 .. n
      PROVE  /\ n - k + 1 \in 1 .. n /\ n - (n - k + 1) + 1 = k
             /\ l - (n - k + 1) + 1 = (l - n + 1) + k - 1
             /\ l - k + 1 = (l - n + 1) + (n - k + 1) - 1
             /\ k \in 1 .. l /\ n - k + 1 \in 1 .. l
  BY <1>1, <1>5
<1>6. ASSUME n <= l
      PROVE  (\A k \in 1 .. n : e[k] = r[k]) <=> \A k \in 1 .. n : t[(l - n + 1) + k - 1] = w[k]
  <2>1. ASSUME \A k \in 1 .. n : e[k] = r[k], NEW k \in 1 .. n
        PROVE  t[(l - n + 1) + k - 1] = w[k]
    <3>1. PICK j \in 1 .. n : j \in 1 .. l /\ n - j + 1 = k /\ l - j + 1 = (l - n + 1) + k - 1
      BY <1>5, <1>6
    <3>2. e[j] = r[j]
      BY <2>1
    <3>3. r[j] = w[n - j + 1]
      BY <1>2
    <3>4. e[j] = t[l - j + 1]
      BY <1>3, <3>1
    <3> QED
      BY <3>1, <3>2, <3>3, <3>4
  <2>2. ASSUME \A k \in 1 .. n : t[(l - n + 1) + k - 1] = w[k], NEW k \in 1 .. n
        PROVE  e[k] = r[k]
    <3>1. PICK j \in 1 .. n : j = n - k + 1 /\ l - k + 1 = (l - n + 1) + j - 1
      BY <1>5, <1>6
    <3>2. t[(l - n + 1) + j - 1] = w[j]
      BY <2>2
    <3>3. r[k] = w[j]
      BY <1>2, <3>1
    <3>4. e[k] = t[(l - n + 1) + j - 1]
      <4>1. k \in 1 .. l
        BY <1>5, <1>6
      <4> QED
        BY <1>3, <3>1, <4>1
    <3> QED
      BY <3>2, <3>3, <3>4
  <2> QED
    BY <2>1, <2>2
<1>7. n <= l => (l - n + 1) + n - 1 <= l
  BY <1>1
<1>8. IsSuffix(w, t) <=> IsPrefix(r, e)
  BY DEF IsSuffix, r, e
<1>9. IsPrefix(r, e) <=> n <= l /\ \A k \in 1 .. n : e[k] = r[k]
  BY <1>2, <1>3, <1>4
<1>10. Holds(t, l - n + 1, w) <=> (l - n + 1) + n - 1 <= l /\ \A k \in 1 .. n : t[(l - n + 1) + k - 1] = w[k]
  BY DEF Holds, n, l
<1>11. IsSuffix(w, t) <=> n <= l /\ Holds(t, l - n + 1, w)
  BY <1>6, <1>7, <1>8, <1>9, <1>10
<1> QED
  BY <1>11 DEF n, l

LEMMA BeginsAt ==
  ASSUME NEW S, NEW w \in Seq(S), NEW t \in Seq(S)
  PROVE  /\ IsPrefix(w, t) <=> Holds(t, 1, w)
         /\ t = w <=> Len(t) = Len(w) /\ Holds(t, 1, w)
<1>1. IsPrefix(w, t) <=> Len(w) <= Len(t) /\ \A k \in 1 .. Len(w) : t[k] = w[k]
  BY PrefixMeans
<1>2. Len(w) \in Nat /\ Len(t) \in Nat /\ 1 + Len(w) - 1 = Len(w)
  OBVIOUS
<1>3. \A k \in 1 .. Len(w) : 1 + k - 1 = k
  OBVIOUS
<1>4. Holds(t, 1, w) <=> Len(w) <= Len(t) /\ \A k \in 1 .. Len(w) : t[k] = w[k]
  BY <1>2, <1>3 DEF Holds
<1>5. t = w <=> Len(t) = Len(w) /\ \A k \in 1 .. Len(t) : t[k] = w[k]
  BY SeqEqual
<1> QED
  BY <1>1, <1>2, <1>4, <1>5

\* A word that lies somewhere in another is inside it.
LEMMA HeldInside ==
  ASSUME NEW S, NEW w \in Seq(S), NEW t \in Seq(S),
         t = w \/ IsPrefix(w, t) \/ IsSuffix(w, t)
  PROVE  Inside(w, t)
<1>1. Len(w) \in Nat /\ Len(t) \in Nat /\ 1 \in 1 .. Len(t) + 1
  OBVIOUS
<1>2. CASE Holds(t, 1, w)
  BY <1>1, <1>2, InsideMeans
<1>3. CASE Len(w) <= Len(t) /\ Holds(t, Len(t) - Len(w) + 1, w)
  <2>1. Len(t) - Len(w) + 1 \in 1 .. Len(t) + 1
    BY <1>1, <1>3
  <2> QED
    BY <1>3, <2>1, InsideMeans
<1>4. Holds(t, 1, w) \/ (Len(w) <= Len(t) /\ Holds(t, Len(t) - Len(w) + 1, w))
  BY BeginsAt, SuffixMeans
<1> QED
  BY <1>2, <1>3, <1>4

LEMMA OccursHolds ==
  ASSUME NEW p \in Seq(Words), NEW line \in Seq(Words), Occurs(p, line),
         NEW a \in 1 .. Len(p), p[a] # <<>>
  PROVE  \E i \in 1 .. Len(line) : Inside(p[a], line[i])
<1> DEFINE n == Len(p)
           l == Len(line)
<1>1. n \in Nat /\ l \in Nat /\ DOMAIN line = 1 .. l
  OBVIOUS
<1>2. \A i \in 1 .. n : p[i] \in Words
  OBVIOUS
<1>3. \A i \in 1 .. l : line[i] \in Words
  OBVIOUS
<1>4. CASE n = 1
  <2>1. a = 1
    BY <1>4
  <2>2. Occurs(p, line) <=> p[1] = <<>> \/ \E i \in DOMAIN line : Inside(p[1], line[i])
    BY <1>4 DEF Occurs
  <2> QED
    BY <1>1, <2>1, <2>2
<1>5. CASE n # 1
  <2>1. n # 0
    BY <1>1
  <2>2. PICK k \in 0 .. l - n :
          /\ IsSuffix(p[1], line[k + 1])
          /\ \A j \in 2 .. n - 1 : line[k + j] = p[j]
          /\ IsPrefix(p[n], line[k + n])
    BY <1>5, <2>1 DEF Occurs
  <2>3. k + a \in 1 .. l /\ (a = 1 \/ a \in 2 .. n - 1 \/ a = n)
    BY <1>1
  <2>4. line[k + a] = p[a] \/ IsPrefix(p[a], line[k + a]) \/ IsSuffix(p[a], line[k + a])
    BY <2>2, <2>3
  <2>5. line[k + a] \in Words /\ p[a] \in Words
    BY <1>2, <1>3, <2>3
  <2>6. Inside(p[a], line[k + a])
    BY <2>4, <2>5, HeldInside DEF Words
  <2> QED
    BY <2>3, <2>6
<1> QED
  BY <1>4, <1>5

LEMMA OccursAsWordsHolds ==
  ASSUME NEW p \in Seq(Words), NEW line \in Seq(Words), OccursAsWords(p, line),
         NEW a \in 1 .. Len(p)
  PROVE  \E i \in 1 .. Len(line) : Inside(p[a], line[i])
<1> DEFINE n == Len(p)
           l == Len(line)
<1>1. n \in Nat /\ l \in Nat /\ a \in 1 .. n
  OBVIOUS
<1>2. PICK k \in 0 .. l - n : SubSeq(line, k + 1, k + n) = p
  BY DEF OccursAsWords
<1>3. p[a] \in Words /\ \A i \in 1 .. l : line[i] \in Words
  OBVIOUS
<1> DEFINE e == SubSeq(line, k + 1, k + n)
<1>4. k + 1 \in Int /\ k + n \in Int /\ \A i \in k + 1 .. k + n : line[i] \in Words
  <2>1. \A i \in k + 1 .. k + n : i \in 1 .. l
    BY <1>1
  <2> QED
    BY <1>1, <1>3, <2>1
<1>5. \A i \in 1 .. (k + n) - (k + 1) + 1 : e[i] = line[(k + 1) + i - 1]
  BY <1>4, SubSeqProperties
<1>6. a \in 1 .. (k + n) - (k + 1) + 1 /\ (k + 1) + a - 1 = k + a /\ k + a \in 1 .. l
  BY <1>1
<1>7. line[k + a] = p[a]
  BY <1>2, <1>5, <1>6
<1>8. Inside(p[a], line[k + a])
  BY <1>3, <1>7, HeldInside DEF Words
<1> QED
  BY <1>6, <1>8

\* What is inside stays inside when both are folded.
LEMMA InsideFolded ==
  ASSUME NEW w \in Words, NEW t \in Words, Inside(w, t)
  PROVE  Inside(FoldWord(w), FoldWord(t))
<1>1. /\ FoldWord(w) \in Words /\ Len(FoldWord(w)) = Len(w)
      /\ \A i \in 1 .. Len(w) : FoldWord(w)[i] = Folded(w[i])
  BY FoldWordTyped
<1>2. /\ FoldWord(t) \in Words /\ Len(FoldWord(t)) = Len(t)
      /\ \A i \in 1 .. Len(t) : FoldWord(t)[i] = Folded(t[i])
  BY FoldWordTyped
<1>3. PICK o \in 1 .. Len(t) + 1 : Holds(t, o, w)
  BY InsideMeans DEF Words
<1>4. o + Len(w) - 1 <= Len(t) /\ Len(w) \in Nat /\ Len(t) \in Nat
  BY <1>3 DEF Holds, Words
<1>5. ASSUME NEW k \in 1 .. Len(w) PROVE FoldWord(t)[o + k - 1] = FoldWord(w)[k]
  <2>1. o + k - 1 \in 1 .. Len(t)
    BY <1>4
  <2>2. t[o + k - 1] = w[k]
    BY <1>3 DEF Holds
  <2> QED
    BY <1>1, <1>2, <2>1, <2>2
<1>6. Holds(FoldWord(t), o, FoldWord(w))
  BY <1>1, <1>2, <1>4, <1>5 DEF Holds
<1> QED
  BY <1>1, <1>2, <1>6, InsideMeans DEF Words

\* The words of the stage's pattern, folded, are in tokens of the folded line.
LEMMA MatchedHolds ==
  ASSUME NEW stages \in StageLists, Classified(stages), NEW i \in 1 .. Walked(stages),
         NEW line \in Seq(Words), Matches(stages[i], line),
         NEW w \in ToSet(FoldLine(stages[i].patterns[1])), w # <<>>
  PROVE  \E t \in ToSet(FoldLine(line)) : Inside(w, t)
<1> DEFINE p == stages[i].patterns[1]
           P == FoldLine(p)
           F == FoldLine(line)
<1>1. p \in Seq(Words) /\ DOMAIN stages[i].patterns = {1}
  BY StagesParse
<1>2. P \in Seq(Words) /\ Len(P) = Len(p) /\ \A k \in 1 .. Len(p) : P[k] = FoldWord(p[k])
  BY <1>1, FoldLineTyped
<1>3. F \in Seq(Words) /\ Len(F) = Len(line) /\ \A k \in 1 .. Len(line) : F[k] = FoldWord(line[k])
  BY FoldLineTyped
<1>4. PICK a \in 1 .. Len(p) : w = P[a]
  BY <1>2 DEF ToSet
<1>5. w \in Words /\ p[a] \in Words
  BY <1>1, <1>2, <1>4
<1>6. IF "i" \in stages[i].flags
        THEN (OccursAsWords(P, F) \/ Occurs(P, F))
        ELSE (OccursAsWords(p, line) \/ Occurs(p, line))
  BY <1>1 DEF Matches
<1>7. p[a] # <<>>
  <2>1. Len(w) # 0
    BY <1>5 DEF Words
  <2>2. Len(w) = Len(p[a])
    BY <1>2, <1>4, <1>5, FoldWordTyped
  <2> QED
    BY <2>1, <2>2
<1> HIDE DEF p, P, F
<1>8. CASE "i" \in stages[i].flags
  <2>1. a \in 1 .. Len(P) /\ P[a] # <<>>
    BY <1>2, <1>4
  <2>2. \E k \in 1 .. Len(F) : Inside(P[a], F[k])
    <3>1. CASE OccursAsWords(P, F)
      BY <1>2, <1>3, <2>1, <3>1, OccursAsWordsHolds
    <3>2. CASE Occurs(P, F)
      BY <1>2, <1>3, <2>1, <3>2, OccursHolds
    <3> QED
      BY <1>6, <1>8, <3>1, <3>2
  <2>3. PICK k \in 1 .. Len(F) : Inside(P[a], F[k])
    BY <2>2
  <2>4. F[k] \in ToSet(F)
    BY <1>3 DEF ToSet
  <2> QED
    BY <1>4, <2>3, <2>4 DEF F
<1>9. CASE "i" \notin stages[i].flags
  <2>1. \E k \in 1 .. Len(line) : Inside(p[a], line[k])
    <3>1. CASE OccursAsWords(p, line)
      BY <1>1, <3>1, OccursAsWordsHolds
    <3>2. CASE Occurs(p, line)
      BY <1>1, <1>7, <3>2, OccursHolds
    <3> QED
      BY <1>6, <1>9, <3>1, <3>2
  <2>2. PICK k \in 1 .. Len(line) : Inside(p[a], line[k])
    BY <2>1
  <2>3. line[k] \in Words
    OBVIOUS
  <2>4. Inside(FoldWord(p[a]), FoldWord(line[k]))
    BY <1>5, <2>2, <2>3, InsideFolded
  <2>5. F[k] = FoldWord(line[k]) /\ k \in 1 .. Len(F) /\ w = FoldWord(p[a])
    BY <1>2, <1>3, <1>4
  <2>6. F[k] \in ToSet(F)
    BY <1>3, <2>5 DEF ToSet
  <2> QED
    BY <2>4, <2>5, <2>6 DEF F
<1> QED
  BY <1>8, <1>9

-----------------------------------------------------------------------------
(***************************************************************************)
(* A pipeline on the candidates prints what it prints on all the lines.    *)
(***************************************************************************)
RunsAs(out, stages, lines) ==
  out = [k \in 0 .. Len(stages) |->
           IF k = 0 THEN lines ELSE RunStage(stages[k], out[k - 1])]

RunsUpTo(m, stages, lines) ==
  \E f : f = [k \in 0 .. m |-> IF k = 0 THEN lines ELSE RunStage(stages[k], f[k - 1])]

LEMMA RunReaches ==
  ASSUME NEW stages, NEW lines, NEW m \in Nat
  PROVE  RunsUpTo(m, stages, lines)
<1> DEFINE P == {n \in Nat : RunsUpTo(n, stages, lines)}
<1>1. 0 \in P
  <2> DEFINE f == [k \in 0 .. 0 |-> lines]
  <2>1. f = [k \in 0 .. 0 |-> IF k = 0 THEN lines ELSE RunStage(stages[k], f[k - 1])]
    BY SMT
  <2> QED
    BY <2>1 DEF RunsUpTo
<1>2. ASSUME NEW n \in Nat, n \in P PROVE n + 1 \in P
  <2>1. PICK f : f = [k \in 0 .. n |-> IF k = 0 THEN lines ELSE RunStage(stages[k], f[k - 1])]
    BY <1>2 DEF RunsUpTo
  <2> DEFINE g == [k \in 0 .. n + 1 |->
                     IF k = 0 THEN lines
                     ELSE IF k <= n THEN RunStage(stages[k], f[k - 1])
                     ELSE RunStage(stages[k], f[n])]
  <2>2. \A k \in 0 .. n : g[k] = f[k]
    <3> SUFFICES ASSUME NEW k \in 0 .. n PROVE g[k] = f[k]
      OBVIOUS
    <3>1. k \in 0 .. n + 1 /\ k <= n
      OBVIOUS
    <3>2. g[k] = IF k = 0 THEN lines ELSE RunStage(stages[k], f[k - 1])
      BY <3>1
    <3>3. f[k] = IF k = 0 THEN lines ELSE RunStage(stages[k], f[k - 1])
      BY <2>1
    <3> QED
      BY <3>2, <3>3
  <2>3. ASSUME NEW k \in 0 .. n + 1
        PROVE  (IF k = 0 THEN lines
                ELSE IF k <= n THEN RunStage(stages[k], f[k - 1])
                ELSE RunStage(stages[k], f[n]))
               = IF k = 0 THEN lines ELSE RunStage(stages[k], g[k - 1])
    <3>1. CASE k = 0
      BY <3>1
    <3>2. CASE k # 0
      <4>1. k - 1 \in 0 .. n /\ (~(k <= n) => k - 1 = n)
        BY <3>2
      <4>2. g[k - 1] = f[k - 1]
        BY <2>2, <4>1
      <4> HIDE DEF g
      <4>3. CASE k <= n
        BY <3>2, <4>2, <4>3
      <4>4. CASE ~(k <= n)
        BY <3>2, <4>1, <4>2, <4>4
      <4> QED
        BY <4>3, <4>4
    <3> QED
      BY <3>1, <3>2
  <2>4. g = [k \in 0 .. n + 1 |-> IF k = 0 THEN lines ELSE RunStage(stages[k], g[k - 1])]
    BY <2>3
  <2>5. RunsUpTo(n + 1, stages, lines)
    <3> HIDE DEF g
    <3> QED
      BY <2>4 DEF RunsUpTo
  <2> QED
    BY <2>5
<1> HIDE DEF P
<1>3. Nat \subseteq P
  BY <1>1, <1>2, Climb
<1> QED
  BY <1>3 DEF P

LEMMA RunIs ==
  ASSUME NEW stages, Len(stages) \in Nat, NEW lines
  PROVE  \E out : RunsAs(out, stages, lines) /\ Run(stages, lines) = Printed(stages, out[Len(stages)])
<1> DEFINE out == CHOOSE f : f = [k \in 0 .. Len(stages) |->
                                    IF k = 0 THEN lines ELSE RunStage(stages[k], f[k - 1])]
<1>1. \E f : f = [k \in 0 .. Len(stages) |->
                    IF k = 0 THEN lines ELSE RunStage(stages[k], f[k - 1])]
  <2>1. RunsUpTo(Len(stages), stages, lines)
    BY RunReaches
  <2> QED
    BY <2>1 DEF RunsUpTo
<1>2. out = [k \in 0 .. Len(stages) |->
               IF k = 0 THEN lines ELSE RunStage(stages[k], out[k - 1])]
  BY <1>1
<1>3. Run(stages, lines) = Printed(stages, out[Len(stages)])
  BY DEF Run
<1> HIDE DEF out
<1>4. RunsAs(out, stages, lines)
  BY <1>2 DEF RunsAs
<1> QED
  BY <1>3, <1>4

LEMMA RunSteps ==
  ASSUME NEW stages, Len(stages) \in Nat, NEW lines, NEW out, RunsAs(out, stages, lines)
  PROVE  /\ out[0] = lines
         /\ \A k \in 1 .. Len(stages) : out[k] = RunStage(stages[k], out[k - 1])
<1>1. out = [k \in 0 .. Len(stages) |->
               IF k = 0 THEN lines ELSE RunStage(stages[k], out[k - 1])]
  BY DEF RunsAs
<1>2. 0 \in 0 .. Len(stages) /\ \A k \in 1 .. Len(stages) : k \in 0 .. Len(stages) /\ k # 0
  OBVIOUS
<1> QED
  BY <1>1, <1>2

\* The lines that a stage prints, and those that the first k stages do.
Hits(stage, lines) ==
  Picked(lines, {i \in DOMAIN lines : Matches(stage, lines[i]) # ("v" \in stage.flags)})

Lets(stages, k) ==
  {x \in Seq(Words) : \A j \in 1 .. k : Matches(stages[j], x) # ("v" \in stages[j].flags)}

LetThrough(lines, stages, k) == {i \in 1 .. Len(lines) : lines[i] \in Lets(stages, k)}

\* It prints the lines it lets through and nothing else.
Filters(stage) == stage.prog = "rg" /\ "m" \notin stage.flags /\ "c" \notin stage.flags

LEMMA HitsLetThrough ==
  ASSUME NEW stages, NEW lines \in Texts, NEW k \in Nat
  PROVE  Hits(stages[k + 1], Picked(lines, LetThrough(lines, stages, k)))
           = Picked(lines, LetThrough(lines, stages, k + 1))
<1> DEFINE S == Seq(Words)
           I == LetThrough(lines, stages, k)
           t == Picked(lines, I)
           st == stages[k + 1]
           K == {x \in S : Matches(st, x) # ("v" \in st.flags)}
<1>1. lines \in Seq(S) /\ I \in SUBSET (1 .. Len(lines))
  BY DEF Texts, LetThrough
<1>2. t \in Seq(S)
  BY <1>1, PickedTyped
<1>3. Picked(t, Those(t, K)) = Picked(lines, Among(lines, I, K))
  <2> HIDE DEF S, I, K
  <2>1. t = Picked(lines, I)
    OBVIOUS
  <2> HIDE DEF t
  <2> QED
    BY <1>1, <2>1, PickedTwice
<1>4. Those(t, K) = {j \in DOMAIN t : Matches(st, t[j]) # ("v" \in st.flags)}
  <2>1. \A j \in DOMAIN t : t[j] \in S
    <3> HIDE DEF t, S
    <3> QED
      BY <1>2
  <2> HIDE DEF t, S, st
  <2> QED
    BY <2>1 DEF Those
<1>5. Among(lines, I, K) = LetThrough(lines, stages, k + 1)
  <2>1. \A j : j \in 1 .. k + 1 <=> j \in 1 .. k \/ j = k + 1
    OBVIOUS
  <2>2. \A x : x \in Lets(stages, k + 1) <=> x \in Lets(stages, k) /\ x \in K
    BY <2>1 DEF Lets
  <2> HIDE DEF K
  <2> QED
    BY <2>2 DEF LetThrough, Among
<1> QED
  BY <1>3, <1>4, <1>5 DEF Hits

LEMMA NothingLetThrough ==
  ASSUME NEW stages, NEW lines \in Texts
  PROVE  Picked(lines, LetThrough(lines, stages, 0)) = lines
<1>1. lines \in Seq(Seq(Words))
  BY DEF Texts
<1>2. LetThrough(lines, stages, 0) = 1 .. Len(lines)
  BY <1>1 DEF LetThrough, Lets
<1> QED
  BY <1>1, <1>2, PickedAll

LEMMA FilterHits ==
  ASSUME NEW stage, stage.prog = "rg", NEW lines
  PROVE  /\ RunStage(stage, lines) = RunFilter(stage, lines)
         /\ Filters(stage) => RunStage(stage, lines) = Hits(stage, lines)
         /\ \A other : Hits(stage, other) = Hits(stage, lines)
                         => RunFilter(stage, other) = RunFilter(stage, lines)
<1>1. RunStage(stage, lines) = RunFilter(stage, lines)
  BY DEF RunStage
<1>2. Filters(stage) => RunFilter(stage, lines) = Hits(stage, lines)
  BY DEF RunFilter, Hits, Filters
<1>3. \A other : Hits(stage, other) = Hits(stage, lines)
                   => RunFilter(stage, other) = RunFilter(stage, lines)
  BY DEF RunFilter, Hits
<1> QED
  BY <1>1, <1>2, <1>3

\* What the first stages print, if they are filters.
LEMMA FiltersRun ==
  ASSUME NEW stages, Len(stages) \in Nat, NEW lines \in Texts, NEW out, RunsAs(out, stages, lines),
         NEW k \in 0 .. Len(stages), \A j \in 1 .. k : Filters(stages[j])
  PROVE  out[k] = Picked(lines, LetThrough(lines, stages, k))
<1> DEFINE P == {m \in Nat : m <= k => out[m] = Picked(lines, LetThrough(lines, stages, m))}
<1>1. /\ out[0] = lines
      /\ \A m \in 1 .. Len(stages) : out[m] = RunStage(stages[m], out[m - 1])
  BY RunSteps
<1>2. 0 \in P
  BY <1>1, NothingLetThrough
<1>3. ASSUME NEW m \in Nat, m \in P PROVE m + 1 \in P
  <2>1. CASE m + 1 <= k
    <3>1. m + 1 \in 1 .. k /\ m + 1 \in 1 .. Len(stages) /\ (m + 1) - 1 = m /\ m <= k
      BY <2>1
    <3>2. out[m] = Picked(lines, LetThrough(lines, stages, m))
      BY <1>3, <3>1
    <3>3. out[m + 1] = RunStage(stages[m + 1], out[m])
      BY <1>1, <3>1
    <3>4. Filters(stages[m + 1]) /\ stages[m + 1].prog = "rg"
      BY <3>1 DEF Filters
    <3>5. out[m + 1] = Hits(stages[m + 1], out[m])
      BY <3>3, <3>4, FilterHits
    <3>6. out[m + 1] = Picked(lines, LetThrough(lines, stages, m + 1))
      BY <3>2, <3>5, HitsLetThrough
    <3> QED
      BY <3>6
  <2>2. CASE ~(m + 1 <= k)
    BY <2>2
  <2> QED
    BY <2>1, <2>2
<1> HIDE DEF P
<1>4. Nat \subseteq P
  BY <1>2, <1>3, Climb
<1> QED
  BY <1>4 DEF P

\* Words of the patterns of the first stages are in what these let through.
LEMMA LetThroughHeld ==
  ASSUME NEW stages \in StageLists, Classified(stages), NEW p \in 1 .. Walked(stages),
         \A j \in 1 .. Walked(stages) : j > p => Inverts(stages[j]),
         NEW b, Made(b), NEW i \in LetThrough(b.lines, stages, p)
  PROVE  i - 1 \in AllHeld(b, QueryWords(stages, b.minLen))
<1> DEFINE line == b.lines[i]
<1>1. b.lines \in Texts
  BY MadeFields
<1>2. Len(b.lines) \in Nat /\ i \in 1 .. Len(b.lines) /\ line \in Lets(stages, p)
  BY <1>1 DEF LetThrough, Texts
<1>3. line \in Seq(Words) /\ \A j \in 1 .. p : Matches(stages[j], line) # ("v" \in stages[j].flags)
  BY <1>2 DEF Lets
<1>4. i - 1 \in 0 .. NumLines(b) - 1 /\ b.lines[(i - 1) + 1] = line
  BY <1>2 DEF NumLines
<1>5. ASSUME NEW w \in QueryWords(stages, b.minLen)
      PROVE  \E t \in ToSet(FoldLine(line)) : Inside(w, t)
  <2>1. w # <<>> /\ w \in UNION {ToSet(FoldLine(q)) : q \in Patterns(stages)}
    BY DEF QueryWords
  <2>2. PICK q \in Patterns(stages) : w \in ToSet(FoldLine(q))
    BY <2>1
  <2>3. PICK j \in 1 .. Walked(stages) : ~Inverts(stages[j]) /\ q = stages[j].patterns[1]
    BY <2>2 DEF Patterns
  <2>4. j \in 1 .. p
    <3>1. Walked(stages) \in Nat
      BY WalkedIs
    <3>2. ~(j > p)
      BY <2>3
    <3> QED
      BY <3>1, <3>2
  <2>5. Matches(stages[j], line)
    <3>1. Matches(stages[j], line) \in BOOLEAN
      BY DEF Matches
    <3>2. Matches(stages[j], line) # ("v" \in stages[j].flags)
      BY <1>3, <2>4
    <3>3. "v" \notin stages[j].flags
      BY <2>3 DEF Inverts
    <3> HIDE DEF line
    <3>4. ("v" \in stages[j].flags) = FALSE
      BY <3>3
    <3> QED
      BY <3>1, <3>2, <3>4
  <2> HIDE DEF line
  <2> QED
    BY <1>3, <2>1, <2>2, <2>3, <2>5, MatchedHolds
<1>6. \A w \in QueryWords(stages, b.minLen) : i - 1 \in HeldBy(b, w)
  BY <1>4, <1>5 DEF HeldBy
<1> QED
  BY <1>4, <1>6 DEF AllHeld

\* The last stage that is not inverted, and those before it.
LEMMA LastPattern ==
  ASSUME NEW stages \in StageLists, Classified(stages), ~BoundedBeforeFilter(stages)
  PROVE  \E p \in 1 .. Walked(stages) :
           /\ \A j \in 1 .. Walked(stages) : j > p => Inverts(stages[j])
           /\ stages[p].prog = "rg"
           /\ \A j \in 1 .. p - 1 : Filters(stages[j])
<1> DEFINE n == Walked(stages)
           D == {m \in 0 .. n : \A j \in 1 .. n : j > m => Inverts(stages[j])}
<1>1. Len(stages) \in Nat /\ n \in 1 .. Len(stages) /\ Through(stages, n)
  BY WalkedIs
<1>2. D \in SUBSET Nat /\ n \in D
  <2> HIDE DEF n
  <2> QED
    BY <1>1
<1>3. PICK p \in D : \A m \in D : p <= m
  <2> HIDE DEF D
  <2> QED
    BY <1>2, LeastElement
<1>4. p \in 0 .. n /\ \A j \in 1 .. n : j > p => Inverts(stages[j])
  OBVIOUS
<1>5. p # 0
  <2>1. ~Inverts(stages[1])
    BY DEF Classified
  <2>2. 1 \in 1 .. n /\ 1 > 0
    BY <1>1
  <2> QED
    BY <1>4, <2>1, <2>2
<1>6. p \in 1 .. n /\ p - 1 \in 0 .. n /\ ~(p <= p - 1)
  BY <1>1, <1>4, <1>5
<1>7. ~Inverts(stages[p])
  <2> SUFFICES ASSUME Inverts(stages[p]) PROVE FALSE
    OBVIOUS
  <2>1. ASSUME NEW j \in 1 .. n, j > p - 1 PROVE Inverts(stages[j])
    <3>1. j = p \/ j > p
      BY <1>6, <2>1
    <3> QED
      BY <1>4, <3>1
  <2>2. p - 1 \in D
    BY <1>6, <2>1
  <2> QED
    BY <1>3, <1>6, <2>2
<1>8. ASSUME NEW j \in 1 .. p - 1 PROVE Filters(stages[j])
  <2>1. j \in 1 .. n /\ j < p /\ j \in 1 .. n - 1
    <3>1. n \in Nat
      BY <1>1
    <3> HIDE DEF n, D
    <3> QED
      BY <1>6, <3>1
  <2>2. stages[j].prog = "rg"
    BY <2>1, StagesParse
  <2>3. "c" \notin stages[j].flags
    BY <1>1, <2>1 DEF Through, Transforms
  <2>4. "m" \notin stages[j].flags
    BY <1>6, <1>7, <2>1 DEF BoundedBeforeFilter
  <2> QED
    BY <2>2, <2>3, <2>4 DEF Filters
<1>9. stages[p].prog = "rg"
  BY <1>6, StagesParse
<1> QED
  BY <1>4, <1>6, <1>8, <1>9

\* The lines at some places that the filters let through.
LEMMA LetThroughAmong ==
  ASSUME NEW stages, NEW lines \in Texts, NEW C \in SUBSET (1 .. Len(lines)), NEW k \in Nat,
         LetThrough(lines, stages, k) \subseteq C
  PROVE  /\ Picked(lines, C) \in Texts
         /\ Picked(Picked(lines, C), LetThrough(Picked(lines, C), stages, k))
              = Picked(lines, LetThrough(lines, stages, k))
<1> DEFINE S == Seq(Words)
           t == Picked(lines, C)
           K == Lets(stages, k)
<1>1. lines \in Seq(S)
  BY DEF Texts
<1>2. t \in Seq(S)
  BY <1>1, PickedTyped
<1>3. LetThrough(t, stages, k) = Those(t, K)
  <2> HIDE DEF t, K, S
  <2>1. DOMAIN t = 1 .. Len(t)
    BY <1>2
  <2> QED
    BY <2>1 DEF LetThrough, Those, K
<1>4. LetThrough(lines, stages, k) = Among(lines, C, K)
  BY DEF LetThrough, Among
<1>5. Picked(t, Those(t, K)) = Picked(lines, Among(lines, C, K))
  <2> HIDE DEF S, K
  <2>1. t = Picked(lines, C)
    OBVIOUS
  <2> HIDE DEF t
  <2> QED
    BY <1>1, <2>1, PickedTwice
<1> HIDE DEF K
<1> QED
  BY <1>2, <1>3, <1>4, <1>5 DEF Texts

\* If the first stages are filters, the rest sees no more of the lines than they let through.
LEMMA RunAmong ==
  ASSUME NEW stages \in StageLists, NEW lines \in Texts, NEW C \in SUBSET (1 .. Len(lines)),
         NEW p \in 1 .. Len(stages), stages[p].prog = "rg", \A j \in 1 .. p - 1 : Filters(stages[j]),
         LetThrough(lines, stages, p) \subseteq C
  PROVE  Run(stages, Picked(lines, C)) = Run(stages, lines)
<1> DEFINE t == Picked(lines, C)
           n == Len(stages)
<1>1. n \in Nat
  BY DEF StageLists
<1>2. p \in Nat /\ p - 1 \in Nat /\ p - 1 \in 0 .. n /\ (p - 1) + 1 = p
  BY <1>1
<1>3. t \in Texts /\ Picked(t, LetThrough(t, stages, p)) = Picked(lines, LetThrough(lines, stages, p))
  BY <1>2, LetThroughAmong
<1> HIDE DEF t
<1>4. PICK out : RunsAs(out, stages, lines) /\ Run(stages, lines) = Printed(stages, out[n])
  BY <1>1, RunIs
<1>5. PICK top : RunsAs(top, stages, t) /\ Run(stages, t) = Printed(stages, top[n])
  BY <1>1, RunIs
<1>6. \A k \in 1 .. n : out[k] = RunStage(stages[k], out[k - 1])
  BY <1>1, <1>4, RunSteps
<1>7. \A k \in 1 .. n : top[k] = RunStage(stages[k], top[k - 1])
  BY <1>1, <1>5, RunSteps
<1>8. Hits(stages[p], out[p - 1]) = Picked(lines, LetThrough(lines, stages, p))
  <2>1. out[p - 1] = Picked(lines, LetThrough(lines, stages, p - 1))
    BY <1>1, <1>2, <1>4, FiltersRun
  <2>2. Hits(stages[(p - 1) + 1], Picked(lines, LetThrough(lines, stages, p - 1)))
          = Picked(lines, LetThrough(lines, stages, (p - 1) + 1))
    BY <1>2, HitsLetThrough
  <2> QED
    BY <1>2, <2>1, <2>2
<1>9. Hits(stages[p], top[p - 1]) = Picked(t, LetThrough(t, stages, p))
  <2>1. top[p - 1] = Picked(t, LetThrough(t, stages, p - 1))
    BY <1>1, <1>2, <1>3, <1>5, FiltersRun
  <2>2. Hits(stages[(p - 1) + 1], Picked(t, LetThrough(t, stages, p - 1)))
          = Picked(t, LetThrough(t, stages, (p - 1) + 1))
    BY <1>2, <1>3, HitsLetThrough
  <2> QED
    BY <1>2, <2>1, <2>2
<1>10. top[p] = out[p]
  <2>1. Hits(stages[p], top[p - 1]) = Hits(stages[p], out[p - 1])
    BY <1>3, <1>8, <1>9
  <2>2. RunFilter(stages[p], top[p - 1]) = RunFilter(stages[p], out[p - 1])
    BY <2>1, FilterHits
  <2> QED
    BY <1>6, <1>7, <2>2, FilterHits
<1> DEFINE P == {m \in Nat : p + m <= n => top[p + m] = out[p + m]}
<1>11. 0 \in P
  BY <1>2, <1>10
<1>12. ASSUME NEW m \in Nat, m \in P PROVE m + 1 \in P
  <2>1. CASE p + (m + 1) <= n
    <3>1. p + m <= n /\ p + (m + 1) \in 1 .. n /\ (p + (m + 1)) - 1 = p + m
      BY <1>1, <1>2, <2>1
    <3>2. top[p + m] = out[p + m]
      BY <1>12, <3>1
    <3>3. top[p + (m + 1)] = RunStage(stages[p + (m + 1)], top[p + m])
      BY <1>7, <3>1
    <3>4. out[p + (m + 1)] = RunStage(stages[p + (m + 1)], out[p + m])
      BY <1>6, <3>1
    <3> QED
      BY <3>2, <3>3, <3>4
  <2>2. CASE ~(p + (m + 1) <= n)
    BY <2>2
  <2> QED
    BY <2>1, <2>2
<1> HIDE DEF P
<1>13. Nat \subseteq P
  BY <1>11, <1>12, Climb
<1>14. top[n] = out[n]
  <2>1. n - p \in Nat /\ p + (n - p) = n /\ p + (n - p) <= n
    BY <1>1, <1>2
  <2>2. n - p \in P
    BY <1>13, <2>1
  <2>3. p + (n - p) <= n => top[p + (n - p)] = out[p + (n - p)]
    BY <2>2 DEF P
  <2> QED
    BY <2>1, <2>3
<1> QED
  BY <1>4, <1>5, <1>14 DEF t

\* The pipeline on candidates that keep every line with its words.
LEMMA CandidatesSuffice ==
  ASSUME NEW stages \in StageLists, Classified(stages), ~BoundedBeforeFilter(stages),
         NEW b, Made(b), NEW C \in SUBSET (1 .. Len(b.lines)),
         \A i \in 1 .. Len(b.lines) :
           i - 1 \in AllHeld(b, QueryWords(stages, b.minLen)) => i \in C
  PROVE  Run(stages, Picked(b.lines, C)) = Run(stages, b.lines)
<1>1. PICK p \in 1 .. Walked(stages) :
        /\ \A j \in 1 .. Walked(stages) : j > p => Inverts(stages[j])
        /\ stages[p].prog = "rg"
        /\ \A j \in 1 .. p - 1 : Filters(stages[j])
  BY LastPattern
<1>2. p \in 1 .. Len(stages)
  BY WalkedIs
<1>3. b.lines \in Texts
  BY MadeFields
<1>4. LetThrough(b.lines, stages, p) \subseteq C
  <2> SUFFICES ASSUME NEW i \in LetThrough(b.lines, stages, p) PROVE i \in C
    OBVIOUS
  <2>1. i - 1 \in AllHeld(b, QueryWords(stages, b.minLen))
    BY <1>1, LetThroughHeld
  <2>2. i \in 1 .. Len(b.lines)
    BY DEF LetThrough
  <2> QED
    BY <2>1, <2>2
<1> QED
  BY <1>1, <1>2, <1>3, <1>4, RunAmong

-----------------------------------------------------------------------------
(***************************************************************************)
(* Lines in which the same places hold a letter of L; C's folding makes    *)
(* such a line as casefold does, if no other letter folds into ASCII.      *)
(***************************************************************************)
WordsAlike(s, t, L) ==
  /\ s \in Words /\ t \in Words /\ Len(t) = Len(s)
  /\ \A j \in 1 .. Len(s) : \A c \in L : s[j] = c <=> t[j] = c

LinesAlike(a, b, L) ==
  /\ a \in Seq(Words) /\ b \in Seq(Words) /\ Len(b) = Len(a)
  /\ \A i \in 1 .. Len(a) : WordsAlike(a[i], b[i], L)

Spelled(w, L) == w \in Words /\ \A k \in 1 .. Len(w) : w[k] \in L

LEMMA HoldsAlike ==
  ASSUME NEW L, NEW s, NEW t, WordsAlike(s, t, L), NEW w, Spelled(w, L), NEW o \in Nat \ {0}
  PROVE  Holds(s, o, w) <=> Holds(t, o, w)
<1>1. /\ Len(s) \in Nat /\ Len(t) = Len(s) /\ Len(w) \in Nat
      /\ \A j \in 1 .. Len(s) : \A c \in L : s[j] = c <=> t[j] = c
  BY DEF WordsAlike, Spelled, Words
<1>2. \A k \in 1 .. Len(w) : w[k] \in L
  BY DEF Spelled
<1>3. ASSUME o + Len(w) - 1 <= Len(s), NEW k \in 1 .. Len(w)
      PROVE  s[o + k - 1] = w[k] <=> t[o + k - 1] = w[k]
  <2>1. o + k - 1 \in 1 .. Len(s)
    BY <1>1, <1>3
  <2> QED
    BY <1>1, <1>2, <2>1
<1> QED
  BY <1>1, <1>3 DEF Holds

LEMMA WaysAlike ==
  ASSUME NEW L, NEW s, NEW t, WordsAlike(s, t, L), NEW w, Spelled(w, L)
  PROVE  /\ Inside(w, s) <=> Inside(w, t)
         /\ IsPrefix(w, s) <=> IsPrefix(w, t)
         /\ IsSuffix(w, s) <=> IsSuffix(w, t)
         /\ s = w <=> t = w
<1> DEFINE S == Nat \ {0}
<1>1. s \in Seq(S) /\ t \in Seq(S) /\ w \in Seq(S) /\ Len(t) = Len(s)
  BY DEF WordsAlike, Spelled, Words
<1>2. Len(s) \in Nat /\ Len(w) \in Nat
  BY <1>1
<1> HIDE DEF S
<1>3. \A o \in Nat \ {0} : Holds(s, o, w) <=> Holds(t, o, w)
  BY HoldsAlike
<1>4. Inside(w, s) <=> Inside(w, t)
  <2>1. Inside(w, s) <=> \E o \in 1 .. Len(s) + 1 : Holds(s, o, w)
    BY <1>1, InsideMeans
  <2>2. Inside(w, t) <=> \E o \in 1 .. Len(t) + 1 : Holds(t, o, w)
    BY <1>1, InsideMeans
  <2>3. \A o \in 1 .. Len(s) + 1 : o \in Nat \ {0}
    BY <1>2
  <2> QED
    BY <1>1, <1>3, <2>1, <2>2, <2>3
<1>5. Holds(s, 1, w) <=> Holds(t, 1, w)
  BY <1>3
<1>6. (IsPrefix(w, s) <=> IsPrefix(w, t)) /\ (s = w <=> t = w)
  <2>1. (IsPrefix(w, s) <=> Holds(s, 1, w)) /\ (s = w <=> Len(s) = Len(w) /\ Holds(s, 1, w))
    BY <1>1, BeginsAt
  <2>2. (IsPrefix(w, t) <=> Holds(t, 1, w)) /\ (t = w <=> Len(t) = Len(w) /\ Holds(t, 1, w))
    BY <1>1, BeginsAt
  <2> QED
    BY <1>1, <1>5, <2>1, <2>2
<1>7. IsSuffix(w, s) <=> IsSuffix(w, t)
  <2>1. IsSuffix(w, s) <=> Len(w) <= Len(s) /\ Holds(s, Len(s) - Len(w) + 1, w)
    BY <1>1, SuffixMeans
  <2>2. IsSuffix(w, t) <=> Len(w) <= Len(t) /\ Holds(t, Len(t) - Len(w) + 1, w)
    BY <1>1, SuffixMeans
  <2>3. Len(w) <= Len(s) => Len(s) - Len(w) + 1 \in Nat \ {0}
    BY <1>2
  <2> QED
    BY <1>1, <1>3, <2>1, <2>2, <2>3
<1> QED
  BY <1>4, <1>6, <1>7

LEMMA OccursAlike ==
  ASSUME NEW L, NEW a, NEW b, LinesAlike(a, b, L),
         NEW p \in Seq(Words), \A i \in 1 .. Len(p) : Spelled(p[i], L)
  PROVE  Occurs(p, a) <=> Occurs(p, b)
<1> DEFINE n == Len(p)
           l == Len(a)
<1>1. /\ n \in Nat /\ l \in Nat /\ DOMAIN a = 1 .. l /\ DOMAIN b = 1 .. l /\ Len(b) = l
      /\ \A i \in 1 .. l : WordsAlike(a[i], b[i], L)
  BY DEF LinesAlike
<1>2. \A i \in 1 .. n : Spelled(p[i], L)
  OBVIOUS
<1>3. ASSUME NEW i \in 1 .. n, NEW j \in 1 .. l
      PROVE  /\ Inside(p[i], a[j]) <=> Inside(p[i], b[j])
             /\ IsPrefix(p[i], a[j]) <=> IsPrefix(p[i], b[j])
             /\ IsSuffix(p[i], a[j]) <=> IsSuffix(p[i], b[j])
             /\ a[j] = p[i] <=> b[j] = p[i]
  <2>1. Spelled(p[i], L) /\ WordsAlike(a[j], b[j], L)
    BY <1>1, <1>2
  <2> QED
    BY <2>1, WaysAlike
<1>4. CASE n = 0
  BY <1>4 DEF Occurs
<1>5. CASE n = 1
  <2>1. \A x : Occurs(p, x) <=> p[1] = <<>> \/ \E i \in DOMAIN x : Inside(p[1], x[i])
    BY <1>5 DEF Occurs
  <2>2. 1 \in 1 .. n
    BY <1>5
  <2> HIDE DEF n, l
  <2>3. \A j \in 1 .. l : Inside(p[1], a[j]) <=> Inside(p[1], b[j])
    BY <1>3, <2>2
  <2> QED
    BY <1>1, <2>1, <2>3
<1>6. CASE n # 0 /\ n # 1
  <2> DEFINE At(x, k) == /\ IsSuffix(p[1], x[k + 1])
                         /\ \A j \in 2 .. n - 1 : x[k + j] = p[j]
                         /\ IsPrefix(p[n], x[k + n])
  <2>1. \A x : Occurs(p, x) <=> \E k \in 0 .. Len(x) - n : At(x, k)
    BY <1>6 DEF Occurs
  <2>2. ASSUME NEW k \in 0 .. l - n PROVE At(a, k) <=> At(b, k)
    <3>1. 1 \in 1 .. n /\ n \in 1 .. n /\ k + 1 \in 1 .. l /\ k + n \in 1 .. l
      BY <1>1, <1>6
    <3>2. \A j \in 2 .. n - 1 : j \in 1 .. n /\ k + j \in 1 .. l
      BY <1>1
    <3> HIDE DEF n, l
    <3>3. IsSuffix(p[1], a[k + 1]) <=> IsSuffix(p[1], b[k + 1])
      BY <1>3, <3>1
    <3>4. IsPrefix(p[n], a[k + n]) <=> IsPrefix(p[n], b[k + n])
      BY <1>3, <3>1
    <3>5. \A j \in 2 .. n - 1 : a[k + j] = p[j] <=> b[k + j] = p[j]
      BY <1>3, <3>2
    <3> QED
      BY <3>3, <3>4, <3>5
  <2> HIDE DEF At
  <2> QED
    BY <1>1, <2>1, <2>2
<1> QED
  BY <1>4, <1>5, <1>6

AsciiFolded(c) == IF c \in Ascii THEN Folded(c) ELSE c

LEMMA AsciiFoldTyped ==
  ASSUME NEW line \in Seq(Words)
  PROVE  /\ AsciiFoldLine(line) \in Seq(Words) /\ Len(AsciiFoldLine(line)) = Len(line)
         /\ \A i \in 1 .. Len(line) :
              /\ Len(AsciiFoldLine(line)[i]) = Len(line[i])
              /\ \A j \in 1 .. Len(line[i]) : AsciiFoldLine(line)[i][j] = AsciiFolded(line[i][j])
<1> DEFINE n == Len(line)
           w(i) == [j \in DOMAIN line[i] |-> AsciiFolded(line[i][j])]
           f == [i \in 1 .. n |-> w(i)]
<1>1. n \in Nat /\ DOMAIN line = 1 .. n /\ \A i \in 1 .. n : line[i] \in Words
  OBVIOUS
<1>2. ASSUME NEW i \in 1 .. n
      PROVE  /\ w(i) \in Words /\ Len(w(i)) = Len(line[i])
             /\ \A j \in 1 .. Len(line[i]) : w(i)[j] = AsciiFolded(line[i][j])
  <2>1. /\ Len(line[i]) \in Nat /\ DOMAIN line[i] = 1 .. Len(line[i])
        /\ \A j \in 1 .. Len(line[i]) : line[i][j] \in Nat \ {0}
    BY <1>1 DEF Words
  <2>2. \A j \in 1 .. Len(line[i]) : AsciiFolded(line[i][j]) \in Nat \ {0}
    BY <2>1, FoldedTyped DEF AsciiFolded
  <2> QED
    BY <2>1, <2>2 DEF Words
<1>3. AsciiFoldLine(line) = f
  BY <1>1 DEF AsciiFoldLine, AsciiFolded
<1> HIDE DEF w, n
<1>4. f \in Seq(Words) /\ Len(f) = n /\ \A i \in 1 .. n : f[i] = w(i)
  BY <1>1, <1>2
<1> HIDE DEF f
<1> QED
  BY <1>2, <1>3, <1>4 DEF n

LEMMA LettersAre ==
  ASSUME NEW line \in Seq(Words), NEW i \in 1 .. Len(line), NEW j \in 1 .. Len(line[i])
  PROVE  line[i][j] \in LettersOf(line)
<1>1. i \in DOMAIN line /\ line[i] \in Words
  OBVIOUS
<1>2. j \in DOMAIN line[i]
  BY <1>1 DEF Words
<1>3. line[i][j] \in ToSet(line[i])
  BY <1>2 DEF ToSet
<1> QED
  BY <1>1, <1>3 DEF LettersOf

LEMMA FoldsAlike ==
  ASSUME NEW line \in Seq(Words), \A c \in LettersOf(line) \ Ascii : Folded(c) \notin Ascii
  PROVE  LinesAlike(FoldLine(line), AsciiFoldLine(line), Ascii)
<1> DEFINE a == FoldLine(line)
           b == AsciiFoldLine(line)
<1>1. a \in Seq(Words) /\ Len(a) = Len(line) /\ \A i \in 1 .. Len(line) : a[i] = FoldWord(line[i])
  BY FoldLineTyped
<1>2. /\ b \in Seq(Words) /\ Len(b) = Len(line)
      /\ \A i \in 1 .. Len(line) :
           /\ Len(b[i]) = Len(line[i])
           /\ \A j \in 1 .. Len(line[i]) : b[i][j] = AsciiFolded(line[i][j])
  BY AsciiFoldTyped
<1> HIDE DEF a, b
<1>3. ASSUME NEW i \in 1 .. Len(line) PROVE WordsAlike(a[i], b[i], Ascii)
  <2>1. line[i] \in Words
    OBVIOUS
  <2>2. /\ a[i] \in Words /\ Len(a[i]) = Len(line[i])
        /\ \A j \in 1 .. Len(line[i]) : a[i][j] = Folded(line[i][j])
    BY <1>1, <2>1, FoldWordTyped
  <2>3. b[i] \in Words /\ Len(b[i]) = Len(line[i])
    BY <1>2
  <2>4. ASSUME NEW j \in 1 .. Len(line[i]), NEW c \in Ascii PROVE a[i][j] = c <=> b[i][j] = c
    <3>1. a[i][j] = Folded(line[i][j]) /\ b[i][j] = AsciiFolded(line[i][j])
      BY <1>2, <2>2
    <3>2. line[i][j] \in LettersOf(line)
      BY LettersAre
    <3> QED
      BY <3>1, <3>2 DEF AsciiFolded
  <2> QED
    BY <2>2, <2>3, <2>4 DEF WordsAlike
<1>4. LinesAlike(a, b, Ascii)
  BY <1>1, <1>2, <1>3 DEF LinesAlike
<1> QED
  BY <1>4 DEF a, b

LEMMA PatternFolds ==
  ASSUME NEW p \in Seq(Words), LettersOf(p) \subseteq Ascii
  PROVE  /\ AsciiFoldLine(p) = FoldLine(p)
         /\ FoldLine(p) \in Seq(Words)
         /\ \A i \in 1 .. Len(FoldLine(p)) : Spelled(FoldLine(p)[i], Ascii)
<1> DEFINE a == FoldLine(p)
           b == AsciiFoldLine(p)
<1>1. a \in Seq(Words) /\ Len(a) = Len(p) /\ \A i \in 1 .. Len(p) : a[i] = FoldWord(p[i])
  BY FoldLineTyped
<1>2. /\ b \in Seq(Words) /\ Len(b) = Len(p)
      /\ \A i \in 1 .. Len(p) :
           /\ Len(b[i]) = Len(p[i])
           /\ \A j \in 1 .. Len(p[i]) : b[i][j] = AsciiFolded(p[i][j])
  BY AsciiFoldTyped
<1>3. \A c \in Ascii : Folded(c) \in Ascii
  BY FoldAssumption DEF Folded
<1> HIDE DEF a, b
<1>4. ASSUME NEW i \in 1 .. Len(p)
      PROVE  a[i] = b[i] /\ Spelled(a[i], Ascii)
  <2>1. p[i] \in Words
    OBVIOUS
  <2>2. /\ a[i] \in Words /\ Len(a[i]) = Len(p[i])
        /\ \A j \in 1 .. Len(p[i]) : a[i][j] = Folded(p[i][j])
    BY <1>1, <2>1, FoldWordTyped
  <2>3. b[i] \in Words /\ Len(b[i]) = Len(p[i])
    BY <1>2
  <2>4. ASSUME NEW j \in 1 .. Len(p[i]) PROVE a[i][j] = b[i][j] /\ a[i][j] \in Ascii
    <3>1. a[i][j] = Folded(p[i][j]) /\ b[i][j] = AsciiFolded(p[i][j])
      BY <1>2, <2>2
    <3>2. p[i][j] \in Ascii
      BY LettersAre
    <3> QED
      BY <1>3, <3>1, <3>2 DEF AsciiFolded
  <2>5. a[i] = b[i]
    BY <2>2, <2>3, <2>4, SeqEqual DEF Words
  <2> QED
    BY <2>2, <2>4, <2>5 DEF Spelled
<1>5. a = b
  BY <1>1, <1>2, <1>4, SeqEqual
<1> QED
  BY <1>1, <1>4, <1>5 DEF a, b

-----------------------------------------------------------------------------
(***************************************************************************)
(* Verified natively, the candidates give what the pipeline gives on them. *)
(***************************************************************************)
LEMMA NativeStage ==
  ASSUME NEW stages \in StageLists, Classified(stages), HasNativeShape(stages),
         NEW j \in 1 .. Walked(stages)
  PROVE  /\ Filters(stages[j])
         /\ stages[j].flags \subseteq {"i"}
         /\ stages[j].patterns[1] \in Seq(Words) /\ DOMAIN stages[j].patterns = {1}
         /\ "i" \in stages[j].flags => LettersOf(stages[j].patterns[1]) \subseteq Ascii
<1>1. /\ stages[j].prog = "rg"
      /\ stages[j].patterns[1] \in Seq(Words) /\ DOMAIN stages[j].patterns = {1}
  BY StagesParse
<1>2. Plain(stages[j])
  BY DEF HasNativeShape
<1>3. stages[j].flags \subseteq {"i"}
  BY <1>2 DEF Plain
<1>4. Filters(stages[j])
  BY <1>1, <1>3 DEF Filters
<1> QED
  BY <1>1, <1>2, <1>3, <1>4 DEF Plain

\* C's loop selects the lines the filters let through, where both fold alike.
LEMMA SelectedIs ==
  ASSUME NEW stages \in StageLists, Classified(stages), HasNativeShape(stages),
         NEW line \in Seq(Words), ~Unsafe(stages, line)
  PROVE  SelectedNatively(stages, line) <=> line \in Lets(stages, Walked(stages))
<1> DEFINE p(j) == stages[j].patterns[1]
           C(j) == IF "i" \in stages[j].flags
                     THEN Occurs(AsciiFoldLine(p(j)), AsciiFoldLine(line))
                     ELSE Occurs(p(j), line)
           R(j) == IF "i" \in stages[j].flags
                     THEN Occurs(FoldLine(p(j)), FoldLine(line))
                     ELSE Occurs(p(j), line)
<1>1. SelectedNatively(stages, line) <=> \A j \in 1 .. Walked(stages) : C(j)
  BY DEF SelectedNatively
<1>2. ASSUME NEW j \in 1 .. Walked(stages) PROVE Matches(stages[j], line) <=> R(j)
  <2>1. "w" \notin stages[j].flags /\ DOMAIN stages[j].patterns = {1}
    BY NativeStage
  <2> QED
    BY <2>1 DEF Matches
<1>3. ASSUME NEW j \in 1 .. Walked(stages) PROVE C(j) <=> R(j)
  <2>1. CASE "i" \in stages[j].flags
    <3>1. \A c \in LettersOf(line) \ Ascii : Folded(c) \notin Ascii
      BY <2>1 DEF Unsafe
    <3>2. LinesAlike(FoldLine(line), AsciiFoldLine(line), Ascii)
      BY <3>1, FoldsAlike
    <3>3. p(j) \in Seq(Words) /\ LettersOf(p(j)) \subseteq Ascii
      BY <2>1, NativeStage
    <3> HIDE DEF p
    <3>4. /\ AsciiFoldLine(p(j)) = FoldLine(p(j))
          /\ FoldLine(p(j)) \in Seq(Words)
          /\ \A i \in 1 .. Len(FoldLine(p(j))) : Spelled(FoldLine(p(j))[i], Ascii)
      BY <3>3, PatternFolds
    <3>5. Occurs(FoldLine(p(j)), FoldLine(line)) <=> Occurs(FoldLine(p(j)), AsciiFoldLine(line))
      BY <3>2, <3>4, OccursAlike
    <3> QED
      BY <2>1, <3>4, <3>5
  <2>2. CASE "i" \notin stages[j].flags
    BY <2>2
  <2> QED
    BY <2>1, <2>2
<1>4. ASSUME NEW j \in 1 .. Walked(stages)
      PROVE  (Matches(stages[j], line) # ("v" \in stages[j].flags)) <=> Matches(stages[j], line)
  <2>1. "v" \notin stages[j].flags
    BY NativeStage
  <2>2. Matches(stages[j], line) \in BOOLEAN
    BY DEF Matches
  <2>3. ("v" \in stages[j].flags) = FALSE
    BY <2>1
  <2> QED
    BY <2>2, <2>3
<1>5. line \in Lets(stages, Walked(stages)) <=> \A j \in 1 .. Walked(stages) : Matches(stages[j], line)
  BY <1>4 DEF Lets
<1> HIDE DEF C, R
<1> QED
  BY <1>1, <1>2, <1>3, <1>5

TailOf(stages) == IF Len(stages) > Walked(stages) THEN Last(stages) ELSE stages[1]

FoundIn(stages, lines, k) == Picked(lines, {i \in 1 .. k : SelectedNatively(stages, lines[i])})

EndsAt(stages, lines) ==
  {k \in 0 .. Len(lines) :
     TailOf(stages).prog = "head" /\ Len(FoundIn(stages, lines, k)) = TailOf(stages).n}

ReadTo(stages, lines) ==
  IF EndsAt(stages, lines) = {} THEN Len(lines)
  ELSE CHOOSE k \in EndsAt(stages, lines) : \A m \in EndsAt(stages, lines) : k <= m

NativelyFound(stages, lines, r) ==
  IF TailOf(stages).prog = "wc" THEN <<NumberLine(Len(FoundIn(stages, lines, r)))>>
  ELSE FoundIn(stages, lines, r)

LEMMA VerifiedAs ==
  ASSUME NEW stages, NEW lines
  PROVE  VerifyNatively(stages, lines) =
           IF \E k \in 1 .. ReadTo(stages, lines) : Unsafe(stages, lines[k])
             THEN GuardTripped
             ELSE Printed(stages, NativelyFound(stages, lines, ReadTo(stages, lines)))
BY DEF VerifyNatively, TailOf, FoundIn, EndsAt, ReadTo, NativelyFound

\* As far as it reads the candidates, it finds what the filters let through.
LEMMA FoundFirst ==
  ASSUME NEW stages \in StageLists, Classified(stages), HasNativeShape(stages),
         NEW lines \in Texts, NEW r \in 0 .. Len(lines),
         \A k \in 1 .. r : ~Unsafe(stages, lines[k])
  PROVE  FoundIn(stages, lines, r) =
           Picked(lines, LetThrough(lines, stages, Walked(stages)) \cap (1 .. r))
<1> DEFINE I == LetThrough(lines, stages, Walked(stages))
<1>1. Len(lines) \in Nat /\ \A k \in 1 .. Len(lines) : lines[k] \in Seq(Words)
  BY DEF Texts
<1>2. ASSUME NEW i \in 1 .. r PROVE SelectedNatively(stages, lines[i]) <=> i \in I
  <2>1. i \in 1 .. Len(lines) /\ lines[i] \in Seq(Words) /\ ~Unsafe(stages, lines[i])
    BY <1>1
  <2> QED
    BY <2>1, SelectedIs DEF LetThrough
<1>3. {i \in 1 .. r : SelectedNatively(stages, lines[i])} = I \cap (1 .. r)
  <2> HIDE DEF I
  <2> QED
    BY <1>2
<1> QED
  BY <1>3 DEF FoundIn

LEMMA ReadIs ==
  ASSUME NEW stages \in StageLists, NEW lines \in Texts
  PROVE  /\ ReadTo(stages, lines) \in 0 .. Len(lines)
         /\ EndsAt(stages, lines) # {} => ReadTo(stages, lines) \in EndsAt(stages, lines)
         /\ EndsAt(stages, lines) = {} => ReadTo(stages, lines) = Len(lines)
<1> DEFINE D == EndsAt(stages, lines)
<1>1. Len(lines) \in Nat /\ D \subseteq 0 .. Len(lines)
  BY DEF Texts, EndsAt
<1> HIDE DEF D
<1>2. ASSUME D # {} PROVE (CHOOSE k \in D : \A m \in D : k <= m) \in D
  <2>1. D \in SUBSET Nat
    BY <1>1
  <2>2. \E k \in D : \A m \in D : k <= m
    BY <1>2, <2>1, LeastElement
  <2> QED
    BY <2>2
<1>3. ReadTo(stages, lines) = IF D = {} THEN Len(lines) ELSE CHOOSE k \in D : \A m \in D : k <= m
  BY DEF ReadTo, D
<1>4. D # {} => ReadTo(stages, lines) \in D
  BY <1>2, <1>3
<1>5. D = {} => ReadTo(stages, lines) = Len(lines)
  BY <1>3
<1> QED
  BY <1>1, <1>4, <1>5 DEF D

LEMMA WholeTaken ==
  ASSUME NEW S, NEW s \in Seq(S), NEW n \in Nat, ~(n < Len(s))
  PROVE  Take(s, n) = s
<1>1. Take(s, n) \in Seq(S) /\ Len(Take(s, n)) = Len(s)
      /\ \A i \in 1 .. Len(s) : i <= n => Take(s, n)[i] = s[i]
  BY TakeTyped
<1>2. \A i \in 1 .. Len(s) : i <= n
  BY Len(s) \in Nat
<1>3. \A i \in 1 .. Len(Take(s, n)) : Take(s, n)[i] = s[i]
  BY <1>1, <1>2
<1> QED
  BY <1>1, <1>3, SeqEqual

LEMMA FoundBeforeHead ==
  ASSUME NEW stages \in StageLists, Classified(stages), HasNativeShape(stages),
         NEW lines \in Texts, TailOf(stages).prog = "head", TailOf(stages).n \in Nat,
         \A k \in 1 .. ReadTo(stages, lines) : ~Unsafe(stages, lines[k])
  PROVE  FoundIn(stages, lines, ReadTo(stages, lines)) =
           Take(Picked(lines, LetThrough(lines, stages, Walked(stages))), TailOf(stages).n)
<1> DEFINE I == LetThrough(lines, stages, Walked(stages))
           r == ReadTo(stages, lines)
           n == TailOf(stages).n
           l == Len(lines)
           S == Seq(Words)
<1>1. lines \in Seq(S) /\ l \in Nat /\ I \in SUBSET (1 .. l)
  BY DEF Texts, LetThrough
<1>2. r \in 0 .. l
  BY ReadIs
<1>3. FoundIn(stages, lines, r) = Picked(lines, I \cap (1 .. r))
  BY <1>2, FoundFirst
<1>4. Picked(lines, I) \in Seq(S) /\ Len(Picked(lines, I)) = Cardinality(I) /\ Cardinality(I) \in Nat
  BY <1>1, PickedTyped
<1>5. ASSUME NEW m \in 0 .. l
      PROVE  Len(Picked(lines, I \cap (1 .. m))) = Cardinality(I \cap (1 .. m))
  <2>1. I \cap (1 .. m) \in SUBSET (1 .. l)
    BY <1>1
  <2> HIDE DEF I, l
  <2> QED
    BY <1>1, <2>1, PickedTyped DEF l
<1>6. CASE EndsAt(stages, lines) # {}
  <2>1. Len(FoundIn(stages, lines, r)) = n
    BY <1>6, ReadIs DEF EndsAt
  <2>2. Cardinality(I \cap (1 .. r)) = n
    BY <1>2, <1>3, <1>5, <2>1
  <2>3. Take(Picked(lines, I), Cardinality(I \cap (1 .. r))) = Picked(lines, I \cap (1 .. r))
    <3> HIDE DEF I, r, S
    <3>1. r \in Nat
      BY <1>1, <1>2
    <3> QED
      BY <1>1, <3>1, PickedBeginning DEF l
  <2> QED
    BY <1>3, <2>2, <2>3
<1>7. CASE EndsAt(stages, lines) = {}
  <2>1. r = l
    BY <1>7, ReadIs
  <2>2. I \cap (1 .. r) = I
    BY <1>1, <2>1
  <2>3. ~(n < Cardinality(I))
    <3> SUFFICES ASSUME n < Cardinality(I) PROVE FALSE
      OBVIOUS
    <3>1. n \in Nat /\ n <= Cardinality(I)
      BY <1>4
    <3>2. PICK m \in 0 .. l : CountTo(I, m) = n
      <4> HIDE DEF I, n, l
      <4> QED
        BY <1>1, <3>1, PickedReached, ZenonT(40)
    <3>3. \A k \in 1 .. m : ~Unsafe(stages, lines[k])
      <4>1. \A k \in 1 .. m : k \in 1 .. r
        BY <1>1, <2>1
      <4> QED
        BY <4>1
    <3>4. FoundIn(stages, lines, m) = Picked(lines, I \cap (1 .. m))
      BY <3>3, FoundFirst
    <3>5. Len(FoundIn(stages, lines, m)) = n
      BY <1>5, <3>2, <3>4 DEF CountTo
    <3> QED
      BY <1>7, <3>5 DEF EndsAt
  <2>4. Take(Picked(lines, I), n) = Picked(lines, I)
    <3> HIDE DEF I, S
    <3>1. n \in Nat
      OBVIOUS
    <3> HIDE DEF n
    <3> QED
      BY <1>4, <2>3, <3>1, WholeTaken
  <2> QED
    BY <1>3, <2>2, <2>4
<1> QED
  BY <1>6, <1>7

LEMMA NativelyAsPiped ==
  ASSUME NEW stages \in StageLists, Classified(stages), HasNativeShape(stages),
         NEW lines \in Texts, VerifyNatively(stages, lines) # GuardTripped
  PROVE  VerifyNatively(stages, lines) = Run(stages, lines)
<1> DEFINE W == Walked(stages)
           I == LetThrough(lines, stages, W)
           r == ReadTo(stages, lines)
           found == FoundIn(stages, lines, r)
           tail == TailOf(stages)
<1>1. Len(stages) \in Nat \ {0} /\ W \in 1 .. Len(stages)
  BY WalkedIs
<1>2. ~\E k \in 1 .. r : Unsafe(stages, lines[k])
  BY VerifiedAs
<1>3. VerifyNatively(stages, lines) = Printed(stages, NativelyFound(stages, lines, r))
  BY <1>2, VerifiedAs
<1>4. \A j \in 1 .. W : Filters(stages[j])
  BY NativeStage
<1>5. PICK out : RunsAs(out, stages, lines) /\ Run(stages, lines) = Printed(stages, out[Len(stages)])
  BY <1>1, RunIs
<1>6. out[W] = Picked(lines, I)
  <2>1. W \in 0 .. Len(stages) /\ Len(stages) \in Nat
    BY <1>1
  <2> HIDE DEF W
  <2> QED
    BY <1>4, <1>5, <2>1, FiltersRun
<1>7. ASSUME tail.prog # "head" PROVE found = Picked(lines, I)
  <2>1. EndsAt(stages, lines) = {}
    BY <1>7 DEF EndsAt
  <2>2. r = Len(lines)
    BY <2>1, ReadIs
  <2>3. r \in 0 .. Len(lines)
    BY ReadIs
  <2>4. found = Picked(lines, I \cap (1 .. r))
    BY <1>2, <2>3, FoundFirst
  <2>5. I \cap (1 .. r) = I
    BY <2>2 DEF LetThrough
  <2> QED
    BY <2>4, <2>5
<1>8. CASE Len(stages) = W
  <2>1. tail = stages[1] /\ stages[1].prog = "rg"
    BY <1>1, <1>8 DEF TailOf, Classified, Parses
  <2>2. NativelyFound(stages, lines, r) = found
    BY <2>1 DEF NativelyFound
  <2>3. found = out[Len(stages)]
    BY <1>6, <1>7, <1>8, <2>1
  <2> QED
    BY <1>3, <1>5, <2>2, <2>3
<1>9. CASE Len(stages) # W
  <2>1. Len(stages) = W + 1 /\ Last(stages).prog \in {"head", "wc"}
    BY <1>9 DEF HasNativeShape
  <2>2. tail = stages[W + 1] /\ W + 1 \in 1 .. Len(stages) /\ (W + 1) - 1 = W /\ tail.prog \in {"head", "wc"}
    BY <1>1, <2>1 DEF TailOf, Last
  <2>3. out[W + 1] = RunStage(tail, out[W])
    BY <1>1, <1>5, <2>2, RunSteps
  <2>4. CASE tail.prog = "wc"
    <3>1. NativelyFound(stages, lines, r) = <<NumberLine(Len(found))>>
      BY <2>4 DEF NativelyFound
    <3>2. out[W + 1] = <<NumberLine(Len(out[W]))>>
      BY <2>3, <2>4 DEF RunStage
    <3>3. found = out[W]
      BY <1>6, <1>7, <2>4
    <3> QED
      BY <1>3, <1>5, <2>1, <3>1, <3>2, <3>3
  <2>5. CASE tail.prog = "head"
    <3>1. NativelyFound(stages, lines, r) = found
      BY <2>5 DEF NativelyFound
    <3>2. out[W + 1] = Take(out[W], tail.n)
      BY <2>3, <2>5 DEF RunStage
    <3>3. tail.n \in Nat
      BY <2>2, StageFields
    <3>4. found = Take(Picked(lines, I), tail.n)
      BY <1>2, <2>5, <3>3, FoundBeforeHead
    <3> QED
      BY <1>3, <1>5, <1>6, <2>1, <3>1, <3>2, <3>4
  <2> QED
    BY <2>2, <2>4, <2>5
<1> QED
  BY <1>8, <1>9

-----------------------------------------------------------------------------

\* Lines under a stamp: no stamp is ahead of the corpus, and one that is the
\* corpus's is on the lines of the corpus.
Describes(stamp, lines, c) ==
  /\ stamp \in Nat /\ stamp <= c.stamp
  /\ stamp = c.stamp => lines = c.lines

Recorded(b, c) == b = None \/ Describes(b.stamp, b.lines, c)

\* What a builder that is past its stat has in hand.
InHand(b, c) ==
  /\ b.pc \in {"idle", "open", "read", "write"}
  /\ b.pc = "open" => b.stamp \in Nat /\ b.stamp <= c.stamp
  /\ b.pc = "read" => Describes(b.stamp, b.lines, c)
  /\ b.pc = "write" => Recorded(b.build, c)

IInv ==
  /\ corpus \in [stamp : Nat, lines : Corpora]
  /\ dir = [f \in ToSet(Files) |-> dir[f]]
  /\ \A f \in ToSet(Files) : Recorded(dir[f], corpus)
  /\ builder = [pc |-> builder.pc, stamp |-> builder.stamp, lines |-> builder.lines,
                build |-> builder.build, next |-> builder.next]
  /\ InHand(builder, corpus)

-----------------------------------------------------------------------------
LEMMA InitHolds == Init => IInv
<1> SUFFICES ASSUME Init PROVE IInv
  OBVIOUS
<1>1. corpus \in [stamp : Nat, lines : Corpora]
  BY DEF Init
<1>2. dir = [f \in ToSet(Files) |-> None] /\ builder = Idle
  BY DEF Init
<1>3. \A f \in ToSet(Files) : Recorded(dir[f], corpus)
  BY <1>2 DEF Recorded
<1>4. InHand(builder, corpus)
  BY <1>2 DEF InHand, Idle
<1> QED
  BY <1>1, <1>2, <1>3, <1>4 DEF IInv, Idle

\* The builder's steps up to its first file.
LEMMA ReadingKeeps ==
  IInv /\ (StatCorpus \/ OpenCorpus \/ ReadCorpus \/ KillBuild) => IInv'
<1> SUFFICES ASSUME IInv, StatCorpus \/ OpenCorpus \/ ReadCorpus \/ KillBuild PROVE IInv'
  OBVIOUS
<1> DEFINE record(b) == [pc |-> b.pc, stamp |-> b.stamp, lines |-> b.lines,
                         build |-> b.build, next |-> b.next]
<1>1. corpus' = corpus /\ dir' = dir
  BY DEF StatCorpus, OpenCorpus, ReadCorpus, KillBuild
<1>2. builder = record(builder) /\ InHand(builder, corpus) /\ corpus.stamp \in Nat
  BY DEF IInv
<1>3. builder' = record(builder') /\ InHand(builder', corpus)
  <2>1. CASE StatCorpus
    <3>1. builder' = [pc |-> "open", stamp |-> corpus.stamp, lines |-> <<>>,
                      build |-> None, next |-> 1]
      BY <2>1 DEF StatCorpus, Idle
    <3> QED
      BY <3>1, <1>2 DEF InHand
  <2>2. CASE OpenCorpus
    <3>1. builder.stamp \in Nat /\ builder.stamp <= corpus.stamp
      BY <2>2, <1>2 DEF OpenCorpus, InHand
    <3>2. builder' = [builder EXCEPT !.pc = "read", !.lines = corpus.lines]
      BY <2>2 DEF OpenCorpus
    <3>3. builder' = [pc |-> "read", stamp |-> builder.stamp, lines |-> corpus.lines,
                      build |-> builder.build, next |-> builder.next]
      BY <3>2, <1>2
    <3> QED
      BY <3>1, <3>3 DEF InHand, Describes
  <2>3. CASE ReadCorpus
    <3>1. Describes(builder.stamp, builder.lines, corpus)
      BY <2>3, <1>2 DEF ReadCorpus, InHand
    <3>2. PICK minLen, order :
            builder' = [builder EXCEPT
              !.pc = "write", !.build = Build(StampBefore, builder.lines, minLen, order)]
      BY <2>3 DEF ReadCorpus
    <3> DEFINE b == Build(StampBefore, builder.lines, minLen, order)
    <3>3. b.stamp = builder.stamp /\ b.lines = builder.lines
      BY DEF Build, StampBefore
    <3> HIDE DEF b
    <3>4. builder' = [pc |-> "write", stamp |-> builder.stamp, lines |-> builder.lines,
                      build |-> b, next |-> builder.next]
      BY <3>2, <1>2 DEF b
    <3> QED
      BY <3>1, <3>3, <3>4 DEF InHand, Recorded
  <2>4. CASE KillBuild
    BY <2>4 DEF KillBuild, Idle, InHand
  <2> QED
    BY <2>1, <2>2, <2>3, <2>4
<1> QED
  BY <1>1, <1>3 DEF IInv

LEMMA WriteFileKeeps == IInv /\ WriteFile => IInv'
<1> SUFFICES ASSUME IInv, WriteFile PROVE IInv'
  OBVIOUS
<1>1. corpus' = corpus /\ builder.pc = "write" /\ Recorded(builder.build, corpus)
  BY DEF WriteFile, IInv, InHand
<1>2. dir' = [dir EXCEPT ![Files[builder.next]] = builder.build]
  BY DEF WriteFile
<1>3. /\ dir' = [f \in ToSet(Files) |-> dir'[f]]
      /\ \A f \in ToSet(Files) : Recorded(dir'[f], corpus)
  BY <1>1, <1>2 DEF IInv
<1>4. CASE builder' = Idle
  BY <1>1, <1>3, <1>4 DEF IInv, InHand, Idle
<1>5. CASE builder' = [builder EXCEPT !.next = @ + 1]
  <2>1. builder' = [pc |-> builder.pc, stamp |-> builder.stamp, lines |-> builder.lines,
                    build |-> builder.build, next |-> builder.next + 1]
    BY <1>5 DEF IInv
  <2> QED
    BY <1>1, <1>3, <2>1 DEF IInv, InHand
<1> QED
  BY <1>4, <1>5 DEF WriteFile

\* The stamp of a newer corpus is on no record.
LEMMA ReplaceCorpusKeeps == IInv /\ ReplaceCorpus => IInv'
<1> SUFFICES ASSUME IInv, ReplaceCorpus PROVE IInv'
  OBVIOUS
<1>1. /\ dir' = dir /\ builder' = builder
      /\ corpus' \in [stamp : Nat, lines : Corpora]
      /\ corpus.stamp \in Nat /\ corpus'.stamp = corpus.stamp + 1
  BY DEF ReplaceCorpus, IInv
<1>2. ASSUME NEW stamp, NEW lines, Describes(stamp, lines, corpus)
      PROVE  Describes(stamp, lines, corpus')
  BY <1>1, <1>2 DEF Describes
<1>3. \A f \in ToSet(Files) : Recorded(dir[f], corpus')
  BY <1>2 DEF IInv, Recorded
<1>4. InHand(builder, corpus')
  BY <1>1, <1>2 DEF IInv, InHand, Recorded
<1> QED
  BY <1>1, <1>3, <1>4 DEF IInv

LEMMA NextKeeps == IInv /\ [Next]_vars => IInv'
<1> SUFFICES ASSUME IInv, [Next]_vars PROVE IInv'
  OBVIOUS
<1>1. CASE StatCorpus \/ OpenCorpus \/ ReadCorpus \/ KillBuild
  BY <1>1, ReadingKeeps
<1>2. CASE WriteFile
  BY <1>2, WriteFileKeeps
<1>3. CASE ReplaceCorpus
  BY <1>3, ReplaceCorpusKeeps
<1>4. CASE \/ \E cmd \in DOMAIN Commands : Decide(cmd)
           \/ AnswerUnserved \/ AnswerNatively \/ AnswerPiped \/ Return
           \/ RestartAgent \/ UNCHANGED vars
  <2>1. UNCHANGED <<corpus, dir, builder>>
    BY <1>4 DEF Decide, AnswerUnserved, AnswerNatively, AnswerPiped, Return,
                RestartAgent, vars
  <2> QED
    BY <2>1 DEF IInv
<1> QED
  BY <1>1, <1>2, <1>3, <1>4 DEF Next

THEOREM StampsDescribe == Spec => []IInv
<1>1. IInv /\ [Next]_vars => IInv'
  BY NextKeeps
<1> QED
  BY <1>1, InitHolds, PTL DEF Spec

-----------------------------------------------------------------------------
\* A structure is opened only if it was built from what the corpus holds, however
\* builds, kills and replacements interleave: build_pace takes the stamp before it
\* opens the corpus, and check_fresh compares it with that of the file that is there.
THEOREM OpenedAlwaysDescribesCorpus == Spec => OpenedDescribesCorpus
<1> DEFINE Opening == agent.state = "cold" /\ agent'.state = "open"
                        => agent'.meta.lines = corpus.lines
<1>1. IInv /\ [Next]_vars => [Opening]_vars
  <2> SUFFICES ASSUME IInv, Next, agent.state = "cold", agent'.state = "open"
               PROVE  agent'.meta.lines = corpus.lines
    OBVIOUS
  <2>1. agent' # agent /\ agent' # Cold
    BY DEF Cold
  <2>2. \E cmd \in DOMAIN Commands : Decide(cmd)
    BY <2>1 DEF Next, StatCorpus, OpenCorpus, ReadCorpus, WriteFile, KillBuild,
                ReplaceCorpus, AnswerUnserved, AnswerNatively, AnswerPiped, Return,
                RestartAgent
  <2>3. agent' = Loaded
    BY <2>2 DEF Decide
  <2>4. Opens /\ agent'.meta = dir["meta"]
    BY <2>3 DEF Loaded
  <2>5. "meta" \in ToSet(Files)
    BY DEF ToSet, Files
  <2>6. Describes(dir["meta"].stamp, dir["meta"].lines, corpus)
    BY <2>4, <2>5 DEF Opens, Complete, IInv, Recorded
  <2> QED
    BY <2>4, <2>6 DEF Opens, Describes
<1> QED
  BY <1>1, StampsDescribe, PTL DEF Spec, OpenedDescribesCorpus

-----------------------------------------------------------------------------
(***************************************************************************)
(* The invariant: what lies in the files, in the builder's hands and open  *)
(* in the agent is a build of some corpus; a structure that is open and    *)
(* has the stamp of the corpus has its lines, and the agent has no other   *)
(* lines mapped; candidates keep what holds the words.                     *)
(***************************************************************************)
MadeOrNone(b) == b = None \/ Made(b)

Building(b) ==
  /\ b.pc \in {"idle", "open", "read", "write"} /\ b.next \in 1 .. 6
  /\ b.pc # "idle" => b.stamp \in 0 .. MaxReplaced
  /\ b.pc = "read" => b.lines \in Corpora
  /\ b.pc = "write" => Made(b.build)
  /\ MadeOrNone(b.build)

Opened(a, c) ==
  /\ a.state \in {"cold", "off", "open"} /\ MadeOrNone(a.meta)
  /\ a.state = "open" <=> a.meta # None
  /\ Recorded(a.meta, c)

Mapping(m, a, c) ==
  /\ m \in Corpora \cup {None}
  /\ m # None => a.state = "open" /\ (a.meta.stamp = c.stamp => m = c.lines)

Deciding(k, a) ==
  /\ k.pc \in {"idle", "run", "answered"}
  /\ k.cmd \in 0 .. Len(Commands)
  /\ k.pc # "idle" => k.cmd \in DOMAIN Commands
  /\ k.decision.candidates # {} =>
       a.state = "open" /\ k.decision.candidates \subseteq 0 .. NumLines(a.meta) - 1
  /\ k.decision.served =>
       /\ k.pc # "idle" /\ a.state = "open" /\ Classified(Commands[k.cmd])
       /\ k.coherent /\ a.meta.minLen >= 2 =>
            AllHeld(a.meta, QueryWords(Commands[k.cmd], a.meta.minLen))
              \subseteq k.decision.candidates

TInv ==
  /\ corpus.stamp \in 0 .. MaxReplaced
  /\ \A f \in ToSet(Files) : MadeOrNone(dir[f])
  /\ Building(builder)
  /\ builds \in 0 .. MaxBuilds
  /\ Opened(agent, corpus)
  /\ Mapping(mapped, agent, corpus)
  /\ call = [pc |-> call.pc, cmd |-> call.cmd, decision |-> call.decision,
             coherent |-> call.coherent, answer |-> call.answer, expected |-> call.expected]
  /\ Deciding(call, agent)

LEMMA TInitHolds == Init => TInv
<1> SUFFICES ASSUME Init PROVE TInv
  OBVIOUS
<1>1. /\ corpus \in [stamp : {0}, lines : Corpora] /\ dir = [f \in ToSet(Files) |-> None]
      /\ builder = Idle /\ builds = 0 /\ agent = Cold /\ mapped = None /\ call = NoCall
  BY DEF Init
<1>2. corpus.stamp = 0 /\ MaxReplaced \in Nat /\ MaxBuilds \in Nat
  BY <1>1, PaceAssumption
<1>3. Building(builder)
  BY <1>1 DEF Building, Idle, MadeOrNone
<1>4. Opened(agent, corpus) /\ Mapping(mapped, agent, corpus)
  BY <1>1 DEF Opened, Cold, MadeOrNone, Recorded, Mapping
<1>5. Deciding(call, agent)
  <2>1. call.pc = "idle" /\ call.cmd = 0 /\ call.decision.candidates = {} /\ call.decision.served = FALSE
    BY <1>1 DEF NoCall, NotServed
  <2>2. 0 \in 0 .. Len(Commands)
    BY PaceAssumption
  <2> QED
    BY <2>1, <2>2 DEF Deciding
<1>6. \A f \in ToSet(Files) : MadeOrNone(dir[f])
  BY <1>1 DEF MadeOrNone
<1>7. call = [pc |-> call.pc, cmd |-> call.cmd, decision |-> call.decision,
              coherent |-> call.coherent, answer |-> call.answer, expected |-> call.expected]
  BY <1>1 DEF NoCall
<1> QED
  BY <1>1, <1>2, <1>3, <1>4, <1>5, <1>6, <1>7 DEF TInv

\* The builder's steps.
LEMMA BuildingKeeps ==
  IInv /\ TInv /\ (StatCorpus \/ OpenCorpus \/ ReadCorpus \/ WriteFile \/ KillBuild) => TInv'
<1> SUFFICES ASSUME IInv, TInv, StatCorpus \/ OpenCorpus \/ ReadCorpus \/ WriteFile \/ KillBuild
             PROVE  TInv'
  OBVIOUS
<1> DEFINE record(b) == [pc |-> b.pc, stamp |-> b.stamp, lines |-> b.lines,
                         build |-> b.build, next |-> b.next]
<1>1. UNCHANGED <<corpus, agent, mapped, call>>
  BY DEF StatCorpus, OpenCorpus, ReadCorpus, WriteFile, KillBuild
<1>2. /\ builder = record(builder) /\ Building(builder) /\ corpus.stamp \in 0 .. MaxReplaced
      /\ corpus.lines \in Corpora /\ dir = [f \in ToSet(Files) |-> dir[f]]
      /\ \A f \in ToSet(Files) : MadeOrNone(dir[f])
      /\ builds \in 0 .. MaxBuilds
  BY DEF IInv, TInv
<1>3. /\ \A f \in ToSet(Files) : MadeOrNone(dir'[f])
      /\ Building(builder') /\ builds' \in 0 .. MaxBuilds
  <2>1. CASE StatCorpus
    <3>1. builder' = [pc |-> "open", stamp |-> corpus.stamp, lines |-> <<>>,
                      build |-> None, next |-> 1]
          /\ dir' = dir /\ builds' = builds + 1 /\ builds < MaxBuilds
      BY <2>1 DEF StatCorpus, Idle
    <3>2. builds' \in 0 .. MaxBuilds
      BY <1>2, <3>1, PaceAssumption
    <3>3. Building(builder')
      BY <1>2, <3>1 DEF Building, MadeOrNone
    <3> QED
      BY <1>2, <3>1, <3>2, <3>3
  <2>2. CASE OpenCorpus
    <3>1. builder' = [builder EXCEPT !.pc = "read", !.lines = corpus.lines]
          /\ dir' = dir /\ builds' = builds /\ builder.pc = "open"
      BY <2>2 DEF OpenCorpus
    <3>2. builder' = [pc |-> "read", stamp |-> builder.stamp, lines |-> corpus.lines,
                      build |-> builder.build, next |-> builder.next]
      BY <3>1, <1>2
    <3>3. Building(builder')
      BY <1>2, <3>1, <3>2 DEF Building
    <3> QED
      BY <1>2, <3>1, <3>3
  <2>3. CASE ReadCorpus
    <3>1. builder.pc = "read" /\ dir' = dir /\ builds' = builds
      BY <2>3 DEF ReadCorpus
    <3>2. builder.stamp \in 0 .. MaxReplaced /\ builder.lines \in Corpora
      BY <1>2, <3>1 DEF Building
    <3>3. PICK minLen \in MinTermLens : \E order \in Orders(builder.lines, minLen) :
            builder' = [builder EXCEPT
              !.pc = "write", !.build = Build(StampBefore, builder.lines, minLen, order)]
      BY <2>3 DEF ReadCorpus
    <3>4. PICK order \in Orders(builder.lines, minLen) :
            builder' = [builder EXCEPT
              !.pc = "write", !.build = Build(StampBefore, builder.lines, minLen, order)]
      BY <3>3
    <3> DEFINE b == Build(builder.stamp, builder.lines, minLen, order)
    <3>5. Made(b)
      BY <3>2 DEF Made
    <3> HIDE DEF b
    <3>6. builder' = [pc |-> "write", stamp |-> builder.stamp, lines |-> builder.lines,
                      build |-> b, next |-> builder.next]
      BY <3>4, <1>2 DEF b, StampBefore
    <3>7. Building(builder')
      BY <1>2, <3>2, <3>5, <3>6 DEF Building, MadeOrNone
    <3> QED
      BY <1>2, <3>1, <3>7
  <2>4. CASE WriteFile
    <3>1. /\ builder.pc = "write" /\ builds' = builds
          /\ dir' = [dir EXCEPT ![Files[builder.next]] = builder.build]
          /\ builder' = IF builder.next = Len(Files) THEN Idle
                        ELSE [builder EXCEPT !.next = @ + 1]
      BY <2>4 DEF WriteFile
    <3>2. Made(builder.build) /\ builder.next \in 1 .. 6 /\ builder.stamp \in 0 .. MaxReplaced
      BY <1>2, <3>1 DEF Building
    <3>3. \A f \in ToSet(Files) : MadeOrNone(dir'[f])
      BY <1>2, <3>1, <3>2 DEF MadeOrNone
    <3>4. Len(Files) = 6
      BY DEF Files
    <3>5. CASE builder.next = 6
      <4>1. builder' = Idle
        BY <3>1, <3>4, <3>5
      <4>2. Building(builder')
        BY <4>1 DEF Building, Idle, MadeOrNone
      <4> QED
        BY <1>2, <3>1, <3>3, <4>2
    <3>6. CASE builder.next # 6
      <4>1. builder' = [pc |-> builder.pc, stamp |-> builder.stamp, lines |-> builder.lines,
                        build |-> builder.build, next |-> builder.next + 1]
        BY <1>2, <3>1, <3>4, <3>6
      <4>2. builder.next + 1 \in 1 .. 6
        BY <3>2, <3>6
      <4>3. Building(builder')
        BY <1>2, <3>1, <3>2, <4>1, <4>2 DEF Building
      <4> QED
        BY <1>2, <3>1, <3>3, <4>3
    <3> QED
      BY <3>5, <3>6
  <2>5. CASE KillBuild
    <3>1. builder' = Idle /\ dir' = dir /\ builds' = builds
      BY <2>5 DEF KillBuild
    <3>2. Building(builder')
      BY <3>1 DEF Building, Idle, MadeOrNone
    <3> QED
      BY <1>2, <3>1, <3>2
  <2> QED
    BY <2>1, <2>2, <2>3, <2>4, <2>5
<1> QED
  BY <1>1, <1>3 DEF TInv

LEMMA ReplacingKeeps == IInv /\ TInv /\ ReplaceCorpus => TInv'
<1> SUFFICES ASSUME IInv, TInv, ReplaceCorpus PROVE TInv'
  OBVIOUS
<1>1. UNCHANGED <<dir, builder, builds, agent, mapped, call>>
  BY DEF ReplaceCorpus
<1>2. /\ corpus.stamp \in 0 .. MaxReplaced /\ corpus.stamp < MaxReplaced
      /\ corpus'.stamp = corpus.stamp + 1 /\ MaxReplaced \in Nat
  BY PaceAssumption DEF ReplaceCorpus, TInv
<1>3. corpus'.stamp \in 0 .. MaxReplaced
  BY <1>2
<1>4. Opened(agent, corpus) /\ Mapping(mapped, agent, corpus)
  BY DEF TInv
<1>5. ASSUME agent.meta # None
      PROVE  agent.meta.stamp \in Nat /\ agent.meta.stamp <= corpus.stamp
  BY <1>4, <1>5 DEF Opened, Recorded, Describes
<1>6. ASSUME agent.meta # None
      PROVE  Describes(agent.meta.stamp, agent.meta.lines, corpus')
             /\ agent.meta.stamp # corpus'.stamp
  BY <1>2, <1>5, <1>6 DEF Describes
<1>7. Opened(agent, corpus')
  BY <1>4, <1>6 DEF Opened, Recorded
<1>8. Mapping(mapped, agent, corpus')
  BY <1>4, <1>6 DEF Mapping, Opened
<1> QED
  BY <1>1, <1>3, <1>7, <1>8 DEF TInv

LEMMA LoadedOpened ==
  IInv /\ TInv => Opened(Loaded, corpus) /\ Mapping(mapped, Loaded, corpus)
<1> SUFFICES ASSUME IInv, TInv
             PROVE  Opened(Loaded, corpus) /\ Mapping(mapped, Loaded, corpus)
  OBVIOUS
<1>1. Opened(agent, corpus) /\ Mapping(mapped, agent, corpus)
  BY DEF TInv
<1>2. CASE agent.state # "cold"
  BY <1>1, <1>2 DEF Loaded
<1>3. CASE agent.state = "cold"
  <2>1. mapped = None
    BY <1>1, <1>3 DEF Mapping
  <2>2. CASE Opens
    <3>1. Loaded = [state |-> "open", meta |-> dir["meta"]]
      BY <1>3, <2>2 DEF Loaded
    <3>2. "meta" \in ToSet(Files)
      BY FileNames
    <3>3. dir["meta"] # None /\ MadeOrNone(dir["meta"]) /\ Recorded(dir["meta"], corpus)
      BY <2>2, <3>2 DEF Opens, Complete, TInv, IInv
    <3> QED
      BY <2>1, <3>1, <3>3 DEF Opened, Mapping
  <2>3. CASE ~Opens
    <3>1. Loaded = [state |-> "off", meta |-> None]
      BY <1>3, <2>3 DEF Loaded
    <3> QED
      BY <2>1, <3>1 DEF Opened, Mapping, MadeOrNone, Recorded
  <2> QED
    BY <2>2, <2>3
<1> QED
  BY <1>2, <1>3

LEMMA CommandTyped ==
  ASSUME NEW cmd \in DOMAIN Commands
  PROVE  Commands[cmd] \in StageLists /\ cmd \in 0 .. Len(Commands)
BY PaceAssumption DEF StageLists

\* What a decision is worth: its candidates are lines of the structure, and all that
\* hold the words of the pipeline when the files are those of one build.
LEMMA DecisionKeeps ==
  ASSUME NEW cmd \in DOMAIN Commands, NEW a, Opened(a, corpus),
         NEW d \in Decisions(Commands[cmd], a)
  PROVE  /\ d.candidates # {} => a.state = "open" /\ d.candidates \subseteq 0 .. NumLines(a.meta) - 1
         /\ d.served => a.state = "open" /\ Classified(Commands[cmd])
         /\ d.served /\ Coherent(a) /\ a.meta.minLen >= 2 =>
              AllHeld(a.meta, QueryWords(Commands[cmd], a.meta.minLen)) \subseteq d.candidates
<1> DEFINE q == Commands[cmd]
           words == QueryWords(q, a.meta.minLen)
<1>1. q \in StageLists
  BY CommandTyped
<1>2. CASE a.state # "open" \/ ~Classified(q)
  <2>1. d = NotServed
    BY <1>2 DEF Decisions
  <2> QED
    BY <2>1 DEF NotServed
<1>3. CASE a.state = "open" /\ Classified(q) /\ SameSizes(a)
  <2>1. PICK budget \in Budgets : d \in Plan(dir, a.meta, words, budget)
    BY <1>3 DEF Decisions
  <2>2. d.candidates \subseteq 0 .. NumLines(a.meta) - 1
    BY <2>1, PlanTyped
  <2>3. ASSUME d.served, Coherent(a), a.meta.minLen >= 2
        PROVE  AllHeld(a.meta, words) \subseteq d.candidates
    <3>1. Made(a.meta)
      BY <1>3 DEF Opened, MadeOrNone
    <3>2. FilesOf(dir, a.meta)
      BY <1>3, <2>3 DEF Coherent, FilesOf
    <3>3. a.meta.minLen \in Nat
      BY <3>1, MadeFields
    <3>4. ASSUME NEW w \in words
          PROVE  w \in Words /\ Len(w) >= 2 /\ Len(w) >= a.meta.minLen
      <4>1. w \in Words /\ Len(w) >= a.meta.minLen
        BY <1>1, <1>3, QueryWordsTyped
      <4>2. Len(w) \in Nat
        BY <4>1 DEF Words
      <4> QED
        BY <2>3, <3>3, <4>1, <4>2
    <3> HIDE DEF words
    <3> QED
      BY <2>1, <2>3, <3>1, <3>2, <3>4, PlanKeeps
  <2> QED
    BY <1>3, <2>2, <2>3
<1>4. CASE a.state = "open" /\ Classified(q) /\ ~SameSizes(a)
  <2>1. d = NotServed \/ d = Served({}) \/ \E i \in 0 .. NumLines(a.meta) - 1 : d = Served({i})
    BY <1>4 DEF Decisions
  <2>2. d.candidates = {} \/ \E i \in 0 .. NumLines(a.meta) - 1 : d.candidates = {i}
    BY <2>1 DEF Served, NotServed
  <2>3. ~Coherent(a)
    BY <1>4 DEF Coherent, SameSizes
  <2> QED
    BY <1>4, <2>2, <2>3
<1> QED
  BY <1>2, <1>3, <1>4

LEMMA DecidingKeeps ==
  ASSUME NEW cmd \in DOMAIN Commands
  PROVE  IInv /\ TInv /\ Decide(cmd) => TInv'
<1> SUFFICES ASSUME IInv, TInv, Decide(cmd) PROVE TInv'
  OBVIOUS
<1>1. UNCHANGED <<corpus, dir, builder, builds, mapped>> /\ agent' = Loaded
  BY DEF Decide
<1>2. PICK decision \in Decisions(Commands[cmd], agent') :
        call' = [NoCall EXCEPT !.pc = "run", !.cmd = cmd, !.decision = decision,
                               !.coherent = Coherent(agent')]
  BY DEF Decide
<1>3. Opened(agent', corpus) /\ Mapping(mapped, agent', corpus)
  BY <1>1, LoadedOpened
<1>4. call' = [pc |-> "run", cmd |-> cmd, decision |-> decision, coherent |-> Coherent(agent'),
               answer |-> NoAnswer, expected |-> NoAnswer]
  BY <1>2 DEF NoCall
<1> DEFINE a == agent'
<1>5. Opened(a, corpus) /\ decision \in Decisions(Commands[cmd], a)
  BY <1>3
<1> HIDE DEF a
<1>6. /\ decision.candidates # {} =>
           a.state = "open" /\ decision.candidates \subseteq 0 .. NumLines(a.meta) - 1
      /\ decision.served => a.state = "open" /\ Classified(Commands[cmd])
      /\ decision.served /\ Coherent(a) /\ a.meta.minLen >= 2 =>
           AllHeld(a.meta, QueryWords(Commands[cmd], a.meta.minLen)) \subseteq decision.candidates
  BY <1>5, DecisionKeeps
<1>7. Deciding(call', a)
  <2>1. /\ call'.pc = "run" /\ call'.cmd = cmd /\ call'.decision = decision
        /\ call'.coherent = Coherent(a)
    BY <1>4 DEF a
  <2>2. cmd \in 0 .. Len(Commands)
    BY CommandTyped
  <2> QED
    BY <1>6, <2>1, <2>2 DEF Deciding
<1>8. call' = [pc |-> call'.pc, cmd |-> call'.cmd, decision |-> call'.decision,
               coherent |-> call'.coherent, answer |-> call'.answer, expected |-> call'.expected]
  BY <1>4
<1> QED
  BY <1>1, <1>3, <1>7, <1>8 DEF TInv, a

LEMMA AnsweringKeeps ==
  IInv /\ TInv /\ (AnswerUnserved \/ AnswerNatively \/ AnswerPiped) => TInv'
<1> SUFFICES ASSUME IInv, TInv, AnswerUnserved \/ AnswerNatively \/ AnswerPiped PROVE TInv'
  OBVIOUS
<1>1. UNCHANGED <<corpus, dir, builder, builds, agent>> /\ call.pc = "run"
      /\ (mapped' = mapped \/ mapped' = Mapped) /\ \E answer : Answer(answer)
  BY DEF AnswerUnserved, AnswerNatively, AnswerPiped
<1>2. PICK answer : call' = [call EXCEPT !.pc = "answered", !.answer = answer,
                       !.expected = Run(Sent, corpus.lines),
                       !.coherent = @ /\ Coherent(agent)]
  BY <1>1 DEF Answer
<1> DEFINE e == Run(Sent, corpus.lines)
           k == Coherent(agent)
<1> HIDE DEF e, k
<1>3. call' = [pc |-> "answered", cmd |-> call.cmd, decision |-> call.decision,
               coherent |-> (call.coherent /\ k), answer |-> answer, expected |-> e]
  BY <1>2 DEF TInv, e, k
<1>4. Deciding(call, agent) /\ Mapping(mapped, agent, corpus) /\ corpus.lines \in Corpora
  BY DEF TInv, IInv
<1>5. Mapping(mapped', agent, corpus)
  <2>1. CASE mapped' = mapped
    BY <1>4, <2>1
  <2>2. CASE mapped' # mapped
    <3>1. mapped' = corpus.lines /\ call.decision.candidates # {}
      BY <1>1, <2>2 DEF Mapped
    <3>2. agent.state = "open"
      BY <1>4, <3>1 DEF Deciding
    <3> QED
      BY <1>4, <3>1, <3>2 DEF Mapping
  <2> QED
    BY <2>1, <2>2
<1>6. Deciding(call', agent)
  <2>1. /\ call'.pc = "answered" /\ call'.cmd = call.cmd /\ call'.decision = call.decision
        /\ call'.coherent => call.coherent
    BY <1>3
  <2> QED
    BY <1>1, <1>4, <2>1 DEF Deciding
<1>7. call' = [pc |-> call'.pc, cmd |-> call'.cmd, decision |-> call'.decision,
               coherent |-> call'.coherent, answer |-> call'.answer, expected |-> call'.expected]
  BY <1>3
<1> QED
  BY <1>1, <1>5, <1>6, <1>7 DEF TInv

LEMMA ReturningKeeps == IInv /\ TInv /\ (Return \/ RestartAgent) => TInv'
<1> SUFFICES ASSUME IInv, TInv, Return \/ RestartAgent PROVE TInv'
  OBVIOUS
<1>1. UNCHANGED <<corpus, dir, builder, builds>> /\ call' = NoCall
      /\ (UNCHANGED <<agent, mapped>> \/ (agent' = Cold /\ mapped' = None))
  BY DEF Return, RestartAgent
<1>2. /\ call'.pc = "idle" /\ call'.cmd = 0
      /\ call'.decision.candidates = {} /\ call'.decision.served = FALSE
      /\ call' = [pc |-> call'.pc, cmd |-> call'.cmd, decision |-> call'.decision,
               coherent |-> call'.coherent, answer |-> call'.answer, expected |-> call'.expected]
  BY <1>1 DEF NoCall, NotServed
<1>3. 0 \in 0 .. Len(Commands)
  BY PaceAssumption
<1>4. Opened(agent', corpus) /\ Mapping(mapped', agent', corpus)
  BY <1>1 DEF TInv, Opened, Mapping, Cold, MadeOrNone, Recorded
<1>5. Deciding(call', agent')
  BY <1>2, <1>3 DEF Deciding
<1> QED
  BY <1>1, <1>2, <1>4, <1>5 DEF TInv

LEMMA TypedNext == IInv /\ TInv /\ [Next]_vars => TInv'
<1> SUFFICES ASSUME IInv, TInv, [Next]_vars PROVE TInv'
  OBVIOUS
<1>1. CASE StatCorpus \/ OpenCorpus \/ ReadCorpus \/ WriteFile \/ KillBuild
  BY <1>1, BuildingKeeps
<1>2. CASE ReplaceCorpus
  BY <1>2, ReplacingKeeps
<1>3. CASE \E cmd \in DOMAIN Commands : Decide(cmd)
  BY <1>3, DecidingKeeps
<1>4. CASE AnswerUnserved \/ AnswerNatively \/ AnswerPiped
  BY <1>4, AnsweringKeeps
<1>5. CASE Return \/ RestartAgent
  BY <1>5, ReturningKeeps
<1>6. CASE UNCHANGED vars
  BY <1>6 DEF vars, TInv
<1> QED
  BY <1>1, <1>2, <1>3, <1>4, <1>5, <1>6 DEF Next

THEOREM BuildsAreMade == Spec => [](IInv /\ TInv)
<1>1. Init => IInv /\ TInv
  BY InitHolds, TInitHolds
<1>2. IInv /\ TInv /\ [Next]_vars => (IInv /\ TInv)'
  BY NextKeeps, TypedNext
<1> QED
  BY <1>1, <1>2, PTL DEF Spec

-----------------------------------------------------------------------------
\* Whatever is written, in hand or open is a build of a corpus, in one of the orders
\* build_pace may give its vocabulary; candidates are lines of the structure that is
\* open; and the writer stops at its last file.
THEOREM TypeCorrect == Spec => []TypeOK
<1>1. IInv /\ TInv => TypeOK
  <2> SUFFICES ASSUME IInv, TInv PROVE TypeOK
    OBVIOUS
  <2>1. corpus.stamp \in 0 .. MaxReplaced /\ corpus.lines \in Corpora
    BY DEF IInv, TInv
  <2>2. ASSUME NEW b \in BuildRecords \ {None}
        PROVE  /\ b.stamp \in 0 .. MaxReplaced /\ b.lines \in Corpora
               /\ b.minLen \in MinTermLens /\ b.terms \in Orders(b.lines, b.minLen)
    <3>1. b = builder.build \/ \E f \in ToSet(Files) : b = dir[f]
      BY <2>2 DEF BuildRecords
    <3>2. Made(b)
      BY <2>2, <3>1 DEF TInv, Building, MadeOrNone
    <3> QED
      BY <3>2, MadeFields
  <2>3. /\ builder.pc \in {"idle", "open", "read", "write"} /\ builder.next \in DOMAIN Files
        /\ builds \in 0 .. MaxBuilds
    <3>1. DOMAIN Files = 1 .. 6
      BY DEF Files
    <3> QED
      BY <3>1 DEF TInv, Building
  <2>4. /\ agent.state \in {"cold", "off", "open"}
        /\ agent.state = "open" <=> agent.meta # None
        /\ mapped \in Corpora \cup {None}
    BY DEF TInv, Opened, Mapping
  <2>5. /\ call.pc \in {"idle", "run", "answered"}
        /\ call.cmd \in 0 .. Len(Commands)
        /\ call.decision.candidates # {} =>
             /\ agent.state = "open"
             /\ call.decision.candidates \subseteq 0 .. NumLines(agent.meta) - 1
    BY DEF TInv, Deciding
  <2> QED
    BY <2>1, <2>2, <2>3, <2>4, <2>5 DEF TypeOK
<1> QED
  BY <1>1, BuildsAreMade, PTL

LEMMA LettersTyped ==
  ASSUME NEW lines \in Texts
  PROVE  UNION {LettersOf(FoldLine(lines[i])) : i \in DOMAIN lines} \subseteq Nat \ {0}
<1>1. ASSUME NEW i \in DOMAIN lines
      PROVE  LettersOf(FoldLine(lines[i])) \subseteq Nat \ {0}
  <2> DEFINE line == FoldLine(lines[i])
  <2>1. lines[i] \in Seq(Words)
    BY DEF Texts
  <2>2. line \in Seq(Words)
    BY <2>1, FoldLineTyped
  <2> HIDE DEF line
  <2>3. ASSUME NEW j \in DOMAIN line PROVE ToSet(line[j]) \subseteq Nat \ {0}
    <3>1. line[j] \in Seq(Nat \ {0})
      BY <2>2 DEF Words
    <3> QED
      BY <3>1, MembersFinite
  <2>4. LettersOf(line) \subseteq Nat \ {0}
    BY <2>3 DEF LettersOf
  <2> QED
    BY <2>4 DEF line
<1> QED
  BY <1>1

\* In the files of one build a word of two letters is found in exactly the lines that
\* have it inside a token, for every corpus, every order of the vocabulary and every
\* number of lines: through the suffix array, its binary search, the separator ranks
\* and the posting lists, Elias-Fano code included.
THEOREM LookupAlwaysExact == Spec => []LookupExact
<1>1. IInv /\ TInv => LookupExact
  <2> DEFINE meta == dir["meta"]
  <2> SUFFICES ASSUME IInv, TInv, Complete, \A f \in ToSet(Files) : dir[f] = meta,
                      NEW word \in [1 .. 2 -> LettersUsed], meta.minLen <= 2
               PROVE  Gather(dir, meta, word) =
                        {i \in 0 .. NumLines(meta) - 1 :
                           \E t \in ToSet(FoldLine(meta.lines[i + 1])) : Inside(word, t)}
    BY DEF LookupExact
  <2>1. Made(meta)
    <3>1. "meta" \in ToSet(Files)
      BY FileNames
    <3> QED
      BY <3>1 DEF TInv, MadeOrNone, Complete
  <2>2. FilesOf(dir, meta)
    BY DEF FilesOf
  <2>3. LettersUsed \subseteq Nat \ {0}
    <3>1. corpus.lines \in Texts
      BY CorporaTyped DEF IInv
    <3> QED
      BY <3>1, LettersTyped DEF LettersUsed
  <2>4. word \in Words /\ Len(word) = 2
    <3>1. word \in [1 .. 2 -> Nat \ {0}] /\ 2 \in Nat
      BY <2>3
    <3> QED
      BY <3>1 DEF Words
  <2>5. meta.minLen \in Nat
    BY <2>1, MadeFields
  <2> HIDE DEF meta
  <2>6. Len(word) >= 2 /\ Len(word) >= meta.minLen
    BY <2>4, <2>5
  <2>7. Gather(dir, meta, word) = HeldBy(meta, word)
    BY <2>1, <2>2, <2>4, <2>6, GathersHeld
  <2> QED
    BY <2>7 DEF HeldBy
<1> QED
  BY <1>1, BuildsAreMade, PTL

-----------------------------------------------------------------------------
\* A call that was served while the files were those of one build, of the corpus that
\* is there: its candidates, piped, give what the command gives on the whole corpus.
LEMMA CoherentCall ==
  ASSUME IInv, TInv, call.pc = "run", call.decision.served, call.coherent, Coherent(agent),
         ~BoundedBeforeFilter(Sent), agent.meta.minLen >= 2
  PROVE  /\ Run(Sent, Fed(Source)) = Run(Sent, corpus.lines)
         /\ Sent \in StageLists /\ Classified(Sent) /\ Fed(Source) \in Texts
<1> DEFINE b == agent.meta
           lines == corpus.lines
           C == {i \in DOMAIN lines : i - 1 \in call.decision.candidates}
<1>1. /\ agent.state = "open" /\ call.cmd \in DOMAIN Commands /\ Classified(Sent)
      /\ AllHeld(b, QueryWords(Sent, b.minLen)) \subseteq call.decision.candidates
  BY DEF TInv, Deciding, Sent
<1>2. Made(b) /\ Recorded(b, corpus) /\ b # None
  BY <1>1 DEF TInv, Opened, MadeOrNone
<1>3. b.stamp = corpus.stamp
  BY <1>1 DEF Coherent
<1>4. b.lines = lines
  BY <1>2, <1>3 DEF Recorded, Describes
<1>5. Source = lines
  BY <1>1, <1>3 DEF TInv, Mapping, Source
<1>6. Fed(Source) = Picked(lines, C)
  BY <1>5 DEF Fed
<1>7. Sent \in StageLists
  BY <1>1, CommandTyped DEF Sent
<1>8. lines \in Texts
  BY <1>2, <1>4, MadeFields
<1>9. DOMAIN lines = 1 .. Len(lines) /\ C \in SUBSET (1 .. Len(lines))
  BY <1>8 DEF Texts
<1>10. \A i \in 1 .. Len(lines) : i - 1 \in AllHeld(b, QueryWords(Sent, b.minLen)) => i \in C
  <2> HIDE DEF b, lines
  <2> QED
    BY <1>1, <1>9
<1> HIDE DEF C, b, lines
<1>11. Run(Sent, Picked(lines, C)) = Run(Sent, lines)
  BY <1>1, <1>2, <1>4, <1>7, <1>9, <1>10, CandidatesSuffice
<1>12. Picked(lines, C) \in Texts
  <2>1. lines \in Seq(Seq(Words))
    BY <1>8 DEF Texts
  <2>2. Picked(lines, C) \in Seq(Seq(Words))
    BY <1>9, <2>1, PickedTyped
  <2> QED
    BY <2>2 DEF Texts
<1> QED
  BY <1>1, <1>6, <1>7, <1>11, <1>12 DEF lines

LEMMA AnswersExactly ==
  IInv /\ TInv /\ (AnswerUnserved \/ AnswerNatively \/ AnswerPiped) => ExactWhenCoherent'
<1> SUFFICES ASSUME IInv, TInv, AnswerUnserved \/ AnswerNatively \/ AnswerPiped
             PROVE  ExactWhenCoherent'
  OBVIOUS
<1>1. call.pc = "run" /\ UNCHANGED agent
  BY DEF AnswerUnserved, AnswerNatively, AnswerPiped
<1>2. PICK answer :
        /\ Answer(answer)
        /\ \/ ~call.decision.served /\ answer = Run(Sent, corpus.lines)
           \/ call.decision.served /\ answer = Run(Sent, Fed(Source))
           \/ /\ call.decision.served /\ HasNativeShape(Sent)
              /\ answer = VerifyNatively(Sent, Fed(Source)) /\ answer # GuardTripped
  BY DEF AnswerUnserved, AnswerNatively, AnswerPiped
<1> DEFINE e == Run(Sent, corpus.lines)
           k == Coherent(agent)
<1> HIDE DEF e, k
<1>3. call' = [call EXCEPT !.pc = "answered", !.answer = answer, !.expected = e,
                           !.coherent = @ /\ k]
  BY <1>2 DEF Answer, e, k
<1>4. call' = [pc |-> "answered", cmd |-> call.cmd, decision |-> call.decision,
               coherent |-> (call.coherent /\ k), answer |-> answer, expected |-> e]
  BY <1>3 DEF TInv
<1>5. /\ call'.answer = answer /\ call'.expected = e /\ call'.decision = call.decision
      /\ Sent' = Sent /\ agent'.meta = agent.meta
      /\ call'.coherent => call.coherent /\ k
  BY <1>1, <1>4 DEF Sent
<1>6. CASE answer = e
  BY <1>5, <1>6 DEF ExactWhenCoherent
<1>7. CASE answer # e
  <2>1. call.decision.served
    BY <1>2, <1>7 DEF e
  <2>2. CASE call.coherent /\ k /\ ~BoundedBeforeFilter(Sent) /\ agent.meta.minLen >= 2
    <3>1. /\ Run(Sent, Fed(Source)) = e
          /\ Sent \in StageLists /\ Classified(Sent) /\ Fed(Source) \in Texts
      BY <1>1, <2>1, <2>2, CoherentCall DEF e, k
    <3>2. answer = Run(Sent, Fed(Source))
      <4>1. CASE answer = Run(Sent, Fed(Source))
        BY <4>1
      <4>2. CASE /\ HasNativeShape(Sent)
                 /\ answer = VerifyNatively(Sent, Fed(Source)) /\ answer # GuardTripped
        BY <3>1, <4>2, NativelyAsPiped
      <4> QED
        BY <1>2, <2>1, <4>1, <4>2
    <3> QED
      BY <1>7, <3>1, <3>2
  <2>3. CASE ~(call.coherent /\ k) \/ BoundedBeforeFilter(Sent)
    BY <1>5, <2>1, <2>3 DEF ExactWhenCoherent
  <2>4. CASE ~(agent.meta.minLen >= 2)
    <3>1. agent.state = "open"
      BY <2>1 DEF TInv, Deciding
    <3>2. Made(agent.meta)
      BY <3>1 DEF TInv, Opened, MadeOrNone
    <3>3. agent.meta.minLen \in Nat
      BY <3>2, MadeFields
    <3>4. agent.meta.minLen < 2
      BY <2>4, <3>3
    <3> QED
      BY <1>5, <2>1, <3>4 DEF ExactWhenCoherent
  <2> QED
    BY <2>2, <2>3, <2>4
<1> QED
  BY <1>6, <1>7

\* A tool call gives what the command gives on the whole corpus, for every corpus, every
\* pipeline, every budget, every fold and whoever verifies, if the files it found were
\* those of one build of the corpus that is there; -m before a later filter and
\* structures with single letters excepted.
THEOREM AlwaysExactWhenCoherent == Spec => []ExactWhenCoherent
<1>1. Init => ExactWhenCoherent
  BY DEF Init, NoCall, ExactWhenCoherent
<1>2. ASSUME IInv, TInv, ExactWhenCoherent, [Next]_vars
      PROVE  ExactWhenCoherent'
  <2>1. CASE AnswerUnserved \/ AnswerNatively \/ AnswerPiped
    BY <1>2, <2>1, AnswersExactly
  <2>2. CASE UNCHANGED <<agent, call>>
    BY <1>2, <2>2 DEF ExactWhenCoherent, Sent
  <2>3. CASE Return \/ RestartAgent \/ \E cmd \in DOMAIN Commands : Decide(cmd)
    <3>1. CASE Return \/ RestartAgent
      <4>1. call'.pc = "idle"
        BY <3>1 DEF Return, RestartAgent, NoCall
      <4> QED
        BY <4>1 DEF ExactWhenCoherent
    <3>2. CASE \E cmd \in DOMAIN Commands : Decide(cmd)
      <4>1. PICK cmd, decision :
              call' = [NoCall EXCEPT !.pc = "run", !.cmd = cmd, !.decision = decision,
                                     !.coherent = Coherent(agent')]
        BY <3>2 DEF Decide
      <4>2. call' = [pc |-> "run", cmd |-> cmd, decision |-> decision,
                     coherent |-> Coherent(agent'), answer |-> NoAnswer, expected |-> NoAnswer]
        BY <4>1 DEF NoCall
      <4>3. call'.pc = "run"
        BY <4>2
      <4> QED
        BY <4>3 DEF ExactWhenCoherent
    <3> QED
      BY <2>3, <3>1, <3>2
  <2>4. \/ AnswerUnserved \/ AnswerNatively \/ AnswerPiped
        \/ UNCHANGED <<agent, call>>
        \/ Return \/ RestartAgent \/ \E cmd \in DOMAIN Commands : Decide(cmd)
    BY <1>2 DEF Next, vars, StatCorpus, OpenCorpus, ReadCorpus, WriteFile, KillBuild, ReplaceCorpus
  <2> QED
    BY <2>1, <2>2, <2>3, <2>4
<1>3. IInv /\ TInv /\ ExactWhenCoherent /\ [Next]_vars => ExactWhenCoherent'
  BY <1>2
<1> QED
  BY <1>1, <1>3, BuildsAreMade, PTL DEF Spec
=============================================================================
