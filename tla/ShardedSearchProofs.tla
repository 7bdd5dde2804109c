------------------------- MODULE ShardedSearchProofs -------------------------
(***************************************************************************)
(* Proofs about ShardedSearch for every corpus, cut of it into any number  *)
(* of shards, and set of pipelines.  Pipelines and what shards print are   *)
(* data of any length: the facts about them are by induction, written with *)
(* sets in the place of predicates.                                        *)
(***************************************************************************)
EXTENDS ShardedSearch, FiniteSetTheorems, SequenceTheorems, TLAPS

-----------------------------------------------------------------------------
(***************************************************************************)
(* Induction.  Every set of numbers has a least element, because the sets  *)
(* of the numbers below them are finite and ordered by inclusion.          *)
(***************************************************************************)
LEMMA LeastElement ==
  ASSUME NEW S \in SUBSET Nat, S # {}
  PROVE  \E n \in S : \A m \in S : n <= m
<1> PICK k \in S : TRUE
  OBVIOUS
<1> DEFINE U == 0 .. k
           Below(n) == {i \in U : i < n}
           T == {Below(n) : n \in S \cap U}
           R == StrictSubsetOrdering(U)
<1>1. IsFiniteSet(U) /\ k \in S \cap U
  BY FS_Interval
<1>2. \A n \in S \cap U : Below(n) \in FiniteSubsetsOf(U)
  <2>1. \A n \in S \cap U : Below(n) \subseteq U
    OBVIOUS
  <2>2. \A n \in S \cap U : IsFiniteSet(Below(n))
    BY <1>1, <2>1, FS_Subset
  <2> QED
    BY <2>1, <2>2 DEF FiniteSubsetsOf
<1>3. T \subseteq FiniteSubsetsOf(U) /\ T # {}
  BY <1>1, <1>2
<1>4. IsWellFoundedOn(R, FiniteSubsetsOf(U))
  BY FS_StrictSubsetOrderingWellFounded
<1>5. PICK B \in T : \A C \in T : ~(<<C, B>> \in R)
  <2> HIDE DEF T, R, U
  <2> QED
    BY <1>3, <1>4, WFMin
<1>6. PICK n \in S \cap U : B = Below(n)
  BY <1>5
<1>7. ASSUME NEW m \in S, m < n
      PROVE  FALSE
  <2>1. m \in S \cap U /\ Below(m) \in T
    BY <1>7
  <2>2. Below(m) \subseteq Below(n) /\ m \in Below(n) /\ m \notin Below(m)
    BY <2>1, <1>7
  <2>3. <<Below(m), Below(n)>> \in R
    BY <2>2 DEF StrictSubsetOrdering
  <2> QED
    BY <2>1, <2>3, <1>5, <1>6
<1>8. n \in S /\ \A m \in S : n <= m
  BY <1>7, <1>6
<1> QED
  BY <1>8

LEMMA Climb ==
  ASSUME NEW P, 0 \in P, \A n \in Nat : n \in P => n + 1 \in P
  PROVE  Nat \subseteq P
<1>1. SUFFICES ASSUME Nat \ P # {} PROVE FALSE
  OBVIOUS
<1>2. PICK n \in Nat \ P : \A m \in Nat \ P : n <= m
  BY <1>1, LeastElement
<1>3. n # 0 /\ n - 1 \in Nat /\ n - 1 \notin Nat \ P
  BY <1>2
<1> QED
  BY <1>2, <1>3

LEMMA FirstOnes ==
  ASSUME NEW S, NEW s \in Seq(S), NEW n \in 0 .. Len(s)
  PROVE  /\ SubSeq(s, 1, n) \in Seq(S) /\ Len(SubSeq(s, 1, n)) = n
         /\ \A i \in 1 .. n : SubSeq(s, 1, n)[i] = s[i]
<1>1. \A i \in 1 .. n : s[i] \in S
  OBVIOUS
<1> QED
  BY <1>1, SubSeqProperties

LEMMA FrontAndLast ==
  ASSUME NEW S, NEW s \in Seq(S), s # <<>>
  PROVE  /\ Front(s) \in Seq(S) /\ Len(Front(s)) = Len(s) - 1
         /\ Last(s) \in S
         /\ s = Append(Front(s), Last(s))
         /\ \A i \in 1 .. Len(s) - 1 : Front(s)[i] = s[i]
<1> DEFINE f == Front(s)
           n == Len(s) - 1
<1>1. n \in 0 .. Len(s) /\ Len(s) \in Nat \ {0} /\ \A i \in 1 .. Len(s) : s[i] \in S
  OBVIOUS
<1>2. /\ f \in Seq(S) /\ Len(f) = n
      /\ \A i \in 1 .. n : f[i] = s[i]
  <2> HIDE DEF n
  <2>1. /\ SubSeq(s, 1, n) \in Seq(S) /\ Len(SubSeq(s, 1, n)) = n
        /\ \A i \in 1 .. n : SubSeq(s, 1, n)[i] = s[i]
    BY <1>1, FirstOnes
  <2>2. f = SubSeq(s, 1, n)
    BY DEF n, Front
  <2> QED
    BY <2>1, <2>2
<1>3. Last(s) = s[Len(s)] /\ Last(s) \in S
  BY <1>1 DEF Last
<1> HIDE DEF f
<1>4. s = Append(f, Last(s))
  BY <1>1, <1>2, <1>3
<1> QED
  BY <1>2, <1>3, <1>4 DEF f

LEMMA GrowSequence ==
  ASSUME NEW S, NEW P, <<>> \in P,
         \A s \in Seq(S) : \A x \in S : s \in P => Append(s, x) \in P
  PROVE  Seq(S) \subseteq P
<1> DEFINE N == {n \in Nat : \A s \in Seq(S) : Len(s) = n => s \in P}
<1>1. 0 \in N
  OBVIOUS
<1>2. ASSUME NEW n \in Nat, n \in N
      PROVE  n + 1 \in N
  <2> SUFFICES ASSUME NEW s \in Seq(S), Len(s) = n + 1
               PROVE  s \in P
    OBVIOUS
  <2>1. s # <<>>
    OBVIOUS
  <2>2. /\ Front(s) \in Seq(S) /\ Len(Front(s)) = n /\ Last(s) \in S
        /\ s = Append(Front(s), Last(s))
    BY <2>1, FrontAndLast
  <2>3. Front(s) \in P
    BY <1>2, <2>2
  <2> QED
    BY <2>2, <2>3
<1>3. Nat \subseteq N
  <2> HIDE DEF N
  <2> QED
    BY <1>1, <1>2, Climb
<1> QED
  BY <1>3

(***************************************************************************)
(* Recursion.  A function on the numbers up to n that is given by its      *)
(* value at 0 and a step exists.                                           *)
(***************************************************************************)
Recurs(f, n, a, h) == f[0] = a /\ \A i \in 1 .. n : f[i] = h[i][f[i - 1]]

LEMMA RecursionExists ==
  ASSUME NEW S, NEW a \in S, NEW n \in Nat, NEW h \in [1 .. n -> [S -> S]]
  PROVE  \E f \in [0 .. n -> S] : Recurs(f, n, a, h)
<1> DEFINE P == {m \in Nat : m <= n => \E f \in [0 .. m -> S] : Recurs(f, m, a, h)}
<1>1. 0 \in P
  <2> DEFINE f == [i \in 0 .. 0 |-> a]
  <2>1. f \in [0 .. 0 -> S] /\ Recurs(f, 0, a, h)
    BY DEF Recurs
  <2> QED
    BY <2>1
<1>2. ASSUME NEW m \in Nat, m \in P
      PROVE  m + 1 \in P
  <2> SUFFICES ASSUME m + 1 <= n
               PROVE  \E f \in [0 .. m + 1 -> S] : Recurs(f, m + 1, a, h)
    OBVIOUS
  <2>1. PICK g \in [0 .. m -> S] : Recurs(g, m, a, h)
    BY <1>2
  <2> DEFINE f == [i \in 0 .. m + 1 |-> IF i = m + 1 THEN h[m + 1][g[m]] ELSE g[i]]
  <2>2. m + 1 \in 1 .. n /\ h[m + 1] \in [S -> S] /\ g[m] \in S
    OBVIOUS
  <2>3. h[m + 1][g[m]] \in S
    BY <2>2
  <2>4. f \in [0 .. m + 1 -> S]
    BY <2>3
  <2>5. ASSUME NEW i \in 1 .. m + 1
        PROVE  f[i] = h[i][f[i - 1]]
    <3>1. CASE i = m + 1
      BY <3>1
    <3>2. CASE i # m + 1
      <4>1. i \in 1 .. m /\ f[i] = g[i] /\ f[i - 1] = g[i - 1]
        BY <3>2
      <4> QED
        BY <2>1, <4>1 DEF Recurs
    <3> QED
      BY <3>1, <3>2
  <2>6. f[0] = a
    BY <2>1 DEF Recurs
  <2>7. Recurs(f, m + 1, a, h)
    <3> HIDE DEF f
    <3> QED
      BY <2>5, <2>6 DEF Recurs
  <2> QED
    BY <2>4, <2>7
<1>3. Nat \subseteq P
  <2> HIDE DEF P
  <2> QED
    BY <1>1, <1>2, Climb
<1> QED
  BY <1>3

-----------------------------------------------------------------------------
(***************************************************************************)
(* Sequences end to end.                                                   *)
(***************************************************************************)
Flattening(ss, f) ==
  f = [i \in 1 .. Len(ss) |-> IF i = 1 THEN ss[i] ELSE f[i - 1] \o ss[i]]

LEMMA FlattenPartial ==
  ASSUME NEW S, NEW ss \in Seq(Seq(S))
  PROVE  \E g \in [0 .. Len(ss) -> Seq(S)] :
           /\ g[0] = <<>>
           /\ \A i \in 1 .. Len(ss) : g[i] = g[i - 1] \o ss[i]
           /\ FlattenSeq(ss) = g[Len(ss)]
<1> DEFINE n == Len(ss)
           h == [i \in 1 .. n |-> [x \in Seq(S) |-> x \o ss[i]]]
<1>1. n \in Nat /\ Len(ss) = n /\ \A i \in 1 .. n : ss[i] \in Seq(S)
  OBVIOUS
<1> HIDE DEF n
<1>2. h \in [1 .. n -> [Seq(S) -> Seq(S)]]
  BY <1>1
<1>3. <<>> \in Seq(S)
  OBVIOUS
<1>4. PICK g \in [0 .. n -> Seq(S)] : Recurs(g, n, <<>>, h)
  <2> HIDE DEF h
  <2> QED
    BY <1>1, <1>2, <1>3, RecursionExists
<1>5. g[0] = <<>> /\ \A i \in 1 .. n : g[i] = g[i - 1] \o ss[i]
  <2>1. g[0] = <<>> /\ \A i \in 1 .. n : g[i] = h[i][g[i - 1]]
    BY <1>4 DEF Recurs
  <2>2. \A i \in 1 .. n : g[i - 1] \in Seq(S)
    BY <1>1
  <2> QED
    BY <2>1, <2>2
<1> HIDE DEF h
<1>6. CASE n = 0
  BY <1>1, <1>4, <1>5, <1>6 DEF FlattenSeq
<1>7. CASE n # 0
  <2> DEFINE f == [i \in 1 .. n |-> g[i]]
             c == CHOOSE x : Flattening(ss, x)
             d == [i \in 0 .. n |-> IF i = 0 THEN <<>> ELSE c[i]]
  <2>1. Flattening(ss, f)
    <3>1. 1 \in 1 .. n
      BY <1>1, <1>7
    <3>2. g[1] = ss[1]
      <4>1. g[1] = g[1 - 1] \o ss[1] /\ ss[1] \in Seq(S)
        BY <1>1, <1>5, <3>1
      <4>2. g[1 - 1] = <<>>
        BY <1>5
      <4> HIDE DEF c, d, f
      <4>3. g[1] = <<>> \o ss[1]
        BY <4>1, <4>2
      <4> QED
        BY <4>1, <4>3, ConcatEmptySeq
    <3>3. ASSUME NEW i \in 1 .. n
          PROVE  f[i] = IF i = 1 THEN ss[i] ELSE f[i - 1] \o ss[i]
      <4>1. CASE i = 1
        BY <3>2, <4>1
      <4>2. CASE i # 1
        <5>1. i - 1 \in 1 .. n
          BY <1>1, <4>2
        <5>2. f[i] = g[i] /\ f[i - 1] = g[i - 1]
          BY <5>1
        <5> QED
          BY <1>5, <4>2, <5>2
      <4> QED
        BY <4>1, <4>2
    <3>4. f = [i \in 1 .. n |-> f[i]]
      OBVIOUS
    <3> QED
      <4> HIDE DEF f
      <4> QED
        BY <1>1, <3>3, <3>4 DEF Flattening
  <2>2. Flattening(ss, c)
    <3> HIDE DEF f
    <3> QED
      BY <2>1
  <2>3. FlattenSeq(ss) = c[n]
    BY <1>1, <1>7 DEF FlattenSeq, Flattening
  <2>4. \A i \in 1 .. n : c[i] = IF i = 1 THEN ss[i] ELSE c[i - 1] \o ss[i]
    <3> HIDE DEF c
    <3> QED
      BY <1>1, <2>2 DEF Flattening
  <2> HIDE DEF c
  <2>5. ASSUME NEW i \in Nat, i < n, d[i] = g[i]
        PROVE  d[i + 1] = g[i + 1]
    <3>1. i + 1 \in 1 .. n /\ (i + 1) - 1 = i /\ ss[i + 1] \in Seq(S)
      BY <1>1, <2>5
    <3>2. g[i + 1] = g[i] \o ss[i + 1]
      BY <1>5, <3>1
    <3>3. d[i + 1] = c[i + 1]
      BY <3>1
    <3>4. CASE i = 0
      <4>1. c[i + 1] = ss[i + 1] /\ g[i] = <<>>
        BY <2>4, <3>1, <3>4, <1>5
      <4> QED
        BY <3>1, <3>2, <3>3, <4>1
    <3>5. CASE i # 0
      <4>1. d[i] = c[i]
        <5>1. i \in 0 .. n
          BY <1>1, <3>1
        <5> QED
          BY <3>5, <5>1
      <4>2. i + 1 # 1
        BY <3>5
      <4>3. c[i + 1] = c[(i + 1) - 1] \o ss[i + 1]
        BY <2>4, <3>1, <4>2
      <4> QED
        BY <2>5, <3>1, <3>2, <3>3, <4>1, <4>3
    <3> QED
      BY <3>4, <3>5
  <2> DEFINE P == {i \in Nat : i <= n => d[i] = g[i]}
  <2>6. 0 \in P
    BY <1>1, <1>5
  <2>7. \A i \in Nat : i \in P => i + 1 \in P
    <3> SUFFICES ASSUME NEW i \in Nat, i <= n => d[i] = g[i], i + 1 <= n
                 PROVE  d[i + 1] = g[i + 1]
      OBVIOUS
    <3>1. i < n /\ d[i] = g[i]
      BY <1>1
    <3> HIDE DEF d
    <3> QED
      BY <2>5, <3>1
  <2>8. n \in P
    <3> HIDE DEF P
    <3> QED
      BY <1>1, <2>6, <2>7, Climb
  <2>9. c[n] = g[n]
    BY <2>8, <1>1, <1>7
  <2> QED
    BY <1>1, <1>5, <2>3, <2>9
<1> QED
  BY <1>1, <1>6, <1>7

LEMMA FlattenAppend ==
  ASSUME NEW S, NEW ss \in Seq(Seq(S)), NEW t \in Seq(S)
  PROVE  /\ FlattenSeq(ss) \in Seq(S)
         /\ FlattenSeq(Append(ss, t)) = FlattenSeq(ss) \o t
<1> DEFINE n == Len(ss)
           tt == Append(ss, t)
<1>1. /\ n \in Nat /\ Len(ss) = n
      /\ tt \in Seq(Seq(S)) /\ Len(tt) = n + 1 /\ tt[n + 1] = t
      /\ \A i \in 1 .. n : tt[i] = ss[i]
  OBVIOUS
<1> HIDE DEF n, tt
<1>2. PICK g \in [0 .. n -> Seq(S)] :
        /\ g[0] = <<>> /\ \A i \in 1 .. n : g[i] = g[i - 1] \o ss[i]
        /\ FlattenSeq(ss) = g[n]
  BY <1>1, FlattenPartial
<1>3. PICK k \in [0 .. n + 1 -> Seq(S)] :
        /\ k[0] = <<>> /\ \A i \in 1 .. n + 1 : k[i] = k[i - 1] \o tt[i]
        /\ FlattenSeq(tt) = k[n + 1]
  <2>1. \E k \in [0 .. Len(tt) -> Seq(S)] :
          /\ k[0] = <<>> /\ \A i \in 1 .. Len(tt) : k[i] = k[i - 1] \o tt[i]
          /\ FlattenSeq(tt) = k[Len(tt)]
    BY <1>1, FlattenPartial
  <2> QED
    BY <1>1, <2>1
<1> DEFINE P == {i \in Nat : i <= n => k[i] = g[i]}
<1>4. 0 \in P
  BY <1>2, <1>3
<1>5. ASSUME NEW i \in Nat, i \in P
      PROVE  i + 1 \in P
  <2> SUFFICES ASSUME i + 1 <= n
               PROVE  k[i + 1] = g[i + 1]
    OBVIOUS
  <2>1. i + 1 \in 1 .. n /\ i + 1 \in 1 .. n + 1 /\ (i + 1) - 1 = i
    BY <1>1
  <2>a. k[i] = g[i]
    BY <1>1, <1>5
  <2>2. k[i + 1] = k[i] \o tt[i + 1] /\ g[i + 1] = g[i] \o ss[i + 1]
    BY <1>2, <1>3, <2>1
  <2> QED
    BY <1>1, <2>1, <2>a, <2>2
<1>6. n \in P
  <2> HIDE DEF P
  <2> QED
    BY <1>1, <1>4, <1>5, Climb
<1>7. k[n] = g[n] /\ n + 1 \in 1 .. n + 1 /\ (n + 1) - 1 = n /\ g[n] \in Seq(S)
  BY <1>1, <1>6
<1>8. k[n + 1] = k[n] \o t
  BY <1>1, <1>3, <1>7
<1> QED
  BY <1>2, <1>3, <1>7, <1>8 DEF tt

LEMMA FlattenNothing == FlattenSeq(<<>>) = <<>>
BY DEF FlattenSeq

\* A sequence of sequences given place by place.
LEMMA FlattenMore ==
  ASSUME NEW S, NEW m \in Nat, NEW f \in [1 .. m + 1 -> Seq(S)]
  PROVE  /\ FlattenSeq(f) \in Seq(S)
         /\ FlattenSeq(f) = FlattenSeq([i \in 1 .. m |-> f[i]]) \o f[m + 1]
<1> DEFINE g == [i \in 1 .. m |-> f[i]]
<1>1. g \in Seq(Seq(S)) /\ f \in Seq(Seq(S)) /\ f[m + 1] \in Seq(S) /\ Len(g) = m /\ Len(f) = m + 1
  OBVIOUS
<1>2. f = Append(g, f[m + 1])
  BY <1>1
<1> HIDE DEF g
<1>3. FlattenSeq(f) = FlattenSeq(g) \o f[m + 1] /\ FlattenSeq(f) \in Seq(S)
  BY <1>1, <1>2, FlattenAppend
<1> QED
  BY <1>3 DEF g

LEMMA FlattenTyped ==
  ASSUME NEW S, NEW m \in Nat, NEW f \in [1 .. m -> Seq(S)]
  PROVE  FlattenSeq(f) \in Seq(S)
<1>1. f \in Seq(Seq(S)) /\ <<>> \in Seq(S)
  OBVIOUS
<1> QED
  BY <1>1, FlattenAppend

-----------------------------------------------------------------------------
(***************************************************************************)
(* Texts are sequences of lines.                                           *)
(***************************************************************************)
Texts == Seq(Nat)

LEMMA TextConcat ==
  ASSUME NEW s \in Texts, NEW t \in Texts
  PROVE  /\ s \o t \in Texts /\ Len(s) \in Nat
         /\ Len(s \o t) = Len(s) + Len(t)
         /\ s \o <<>> = s /\ <<>> \o s = s
         /\ s \o t = <<>> <=> s = <<>> /\ t = <<>>
BY DEF Texts

LEMMA TextAppend ==
  ASSUME NEW s \in Texts, NEW x \in Nat
  PROVE  /\ <<>> \in Texts /\ <<x>> \in Texts /\ Append(s, x) \in Texts
         /\ Len(Append(s, x)) = Len(s) + 1
         /\ Append(s, x) = s \o <<x>>
BY DEF Texts

LEMMA Regroup ==
  ASSUME NEW s \in Texts, NEW t \in Texts, NEW u \in Texts
  PROVE  (s \o t) \o u = s \o (t \o u)
<1> DEFINE N == Nat
<1>1. s \in Seq(N) /\ t \in Seq(N) /\ u \in Seq(N)
  BY DEF Texts
<1> HIDE DEF N
<1> QED
  BY <1>1, ConcatAssociative

LEMMA GrowText ==
  ASSUME NEW P, <<>> \in P,
         \A s \in Texts : \A x \in Nat : s \in P => s \o <<x>> \in P
  PROVE  Texts \subseteq P
<1>1. \A s \in Seq(Nat) : \A x \in Nat : s \in P => Append(s, x) \in P
  BY TextAppend DEF Texts
<1> QED
  BY <1>1, GrowSequence DEF Texts

(***************************************************************************)
(* What stages that look at one line at a time print for input that is put *)
(* together of parts.                                                      *)
(***************************************************************************)
Piece(each, line) == IF line \in DOMAIN each THEN each[line] ELSE <<line>>

Each(each) == \A line \in DOMAIN each : each[line] \in Texts

LEMMA EachLineAppend ==
  ASSUME NEW each, Each(each), NEW s \in Texts, NEW x \in Nat
  PROVE  /\ EachLine(each, s) \in Texts
         /\ Piece(each, x) \in Texts
         /\ EachLine(each, <<>>) = <<>>
         /\ EachLine(each, s \o <<x>>) = EachLine(each, s) \o Piece(each, x)
<1> DEFINE n == Len(s)
           more == Append(s, x)
           pieces(t) == [i \in 1 .. Len(t) |-> Piece(each, t[i])]
           f == pieces(more)
<1>1. n \in Nat /\ Len(s) = n /\ Len(more) = n + 1 /\ more[n + 1] = x
      /\ \A i \in 1 .. n : s[i] \in Nat /\ more[i] = s[i]
  BY DEF Texts
<1>2. \A i \in 1 .. n + 1 : more[i] \in Nat
  <2> HIDE DEF n, more
  <2> QED
    BY <1>1
<1> HIDE DEF n, more
<1>3. \A y \in Nat : Piece(each, y) \in Texts
  BY DEF Piece, Each, Texts
<1>4. \A t : EachLine(each, t) = FlattenSeq(pieces(t))
  BY DEF EachLine, Piece
<1>5. pieces(s) \in [1 .. n -> Texts]
  BY <1>1, <1>3
<1>6. f \in [1 .. n + 1 -> Texts] /\ f[n + 1] = Piece(each, x)
  BY <1>1, <1>2, <1>3
<1>7. pieces(s) = [i \in 1 .. n |-> f[i]]
  BY <1>1
<1> HIDE DEF f, pieces
<1>8. EachLine(each, s) \in Texts
  BY <1>1, <1>4, <1>5, FlattenTyped, ZenonT(40) DEF Texts
<1>9. EachLine(each, more) = EachLine(each, s) \o Piece(each, x)
  <2>1. FlattenSeq(f) = FlattenSeq([i \in 1 .. n |-> f[i]]) \o f[n + 1]
    BY <1>1, <1>6, FlattenMore DEF Texts
  <2> QED
    BY <1>4, <1>6, <1>7, <2>1 DEF f
<1>10. EachLine(each, <<>>) = <<>>
  <2>1. pieces(<<>>) = <<>>
    BY DEF pieces
  <2> QED
    BY <1>4, <2>1, FlattenNothing
<1>11. more = s \o <<x>>
  BY TextAppend DEF more
<1> QED
  BY <1>3, <1>8, <1>9, <1>10, <1>11

LEMMA EachLineConcat ==
  ASSUME NEW each, Each(each), NEW s \in Texts, NEW t \in Texts
  PROVE  EachLine(each, s \o t) = EachLine(each, s) \o EachLine(each, t)
<1> DEFINE P == {u \in Texts : EachLine(each, s \o u) = EachLine(each, s) \o EachLine(each, u)}
<1>1. <<>> \in P
  <2>1. EachLine(each, s) \in Texts /\ EachLine(each, <<>>) = <<>> /\ <<>> \in Texts /\ 0 \in Nat
    BY EachLineAppend, TextAppend
  <2> QED
    BY <2>1, TextConcat
<1>2. ASSUME NEW u \in Texts, NEW x \in Nat, u \in P
      PROVE  u \o <<x>> \in P
  <2> DEFINE a == EachLine(each, s)
             b == EachLine(each, u)
             p == Piece(each, x)
  <2>1. /\ a \in Texts /\ b \in Texts /\ p \in Texts
        /\ EachLine(each, u \o <<x>>) = b \o p
    BY EachLineAppend
  <2>2. /\ s \o (u \o <<x>>) = (s \o u) \o <<x>> /\ s \o u \in Texts
        /\ u \o <<x>> \in Texts
    <3> DEFINE one == <<x>>
    <3>1. one \in Texts
      BY TextAppend
    <3> HIDE DEF one
    <3>2. /\ s \o (u \o one) = (s \o u) \o one /\ s \o u \in Texts
          /\ u \o one \in Texts
      BY <3>1, TextConcat, Regroup, SMTT(40)
    <3> QED
      BY <3>2 DEF one
  <2>3. EachLine(each, (s \o u) \o <<x>>) = EachLine(each, s \o u) \o p
    BY <2>2, EachLineAppend
  <2>4. EachLine(each, s \o u) = a \o b
    BY <1>2
  <2> HIDE DEF a, b, p
  <2>5. (a \o b) \o p = a \o (b \o p)
    BY <2>1, Regroup, SMTT(40)
  <2>6. EachLine(each, s \o (u \o <<x>>)) = a \o EachLine(each, u \o <<x>>)
    BY <2>1, <2>2, <2>3, <2>4, <2>5
  <2> QED
    BY <2>2, <2>6 DEF a
<1>3. Texts \subseteq P
  <2> HIDE DEF P
  <2> QED
    BY <1>1, <1>2, GrowText
<1> QED
  BY <1>3

-----------------------------------------------------------------------------
(***************************************************************************)
(* Sorting.  A sorted text and what it is sorted from have the same        *)
(* numbers of lines up to any line, and these numbers say what it is.      *)
(***************************************************************************)
LEMMA UpToFinite ==
  ASSUME NEW n \in Nat
  PROVE  IsFiniteSet(1 .. n) /\ Cardinality(1 .. n) = n
<1>1. 1 \in Int /\ n \in Int /\ (IF 1 > n THEN 0 ELSE n - 1 + 1) = n
  OBVIOUS
<1> QED
  BY <1>1, FS_Interval

Smaller(a, b) == IF a <= b THEN a ELSE b

LEMMA TakeTyped ==
  ASSUME NEW s \in Texts, NEW n \in Nat
  PROVE  /\ Take(s, n) \in Texts
         /\ Len(s) \in Nat /\ Len(Take(s, n)) = Smaller(n, Len(s))
         /\ \A i \in 1 .. Smaller(n, Len(s)) : Take(s, n)[i] = s[i]
         /\ Len(s) <= n => Take(s, n) = s
<1> DEFINE m == Smaller(n, Len(s))
<1>1. Len(s) \in Nat /\ m \in 0 .. Len(s) /\ s \in Seq(Nat)
  BY DEF Texts, Smaller
<1>2. Take(s, n) = SubSeq(s, 1, m)
  BY <1>1 DEF Take, Smaller
<1>3. Len(s) <= n => m = Len(s)
  BY <1>1 DEF Smaller
<1> HIDE DEF m
<1>4. /\ SubSeq(s, 1, m) \in Seq(Nat) /\ Len(SubSeq(s, 1, m)) = m
      /\ \A i \in 1 .. m : SubSeq(s, 1, m)[i] = s[i]
  BY <1>1, FirstOnes
<1>5. SubSeq(s, 1, Len(s)) = s
  BY <1>1
<1> QED
  BY <1>1, <1>2, <1>3, <1>4, <1>5 DEF Texts, m

Upto(s, line) == {i \in 1 .. Len(s) : s[i] <= line}

LEMMA UptoFinite ==
  ASSUME NEW s \in Texts, NEW v
  PROVE  /\ IsFiniteSet(Upto(s, v))
         /\ AtMost(s, v) = Cardinality(Upto(s, v)) /\ AtMost(s, v) \in Nat
         /\ AtMost(s, v) <= Len(s)
<1>1. Len(s) \in Nat
  BY DEF Texts
<1>2. IsFiniteSet(1 .. Len(s)) /\ Cardinality(1 .. Len(s)) = Len(s)
  BY <1>1, UpToFinite
<1>3. Upto(s, v) \subseteq 1 .. Len(s)
  BY DEF Upto
<1>4. AtMost(s, v) = Cardinality(Upto(s, v))
  BY DEF AtMost, Upto
<1> QED
  BY <1>2, <1>3, <1>4, FS_Subset, FS_CardinalityType

LEMMA AtMostOne ==
  ASSUME NEW s \in Texts, NEW x \in Nat, NEW v \in Nat
  PROVE  /\ AtMost(<<>>, v) = 0
         /\ AtMost(s \o <<x>>, v) = AtMost(s, v) + (IF x <= v THEN 1 ELSE 0)
<1> DEFINE t == Append(s, x)
           n == Len(s)
<1>1. /\ t \in Texts /\ n \in Nat /\ Len(s) = n /\ Len(t) = n + 1 /\ t[n + 1] = x
      /\ \A i \in 1 .. n : t[i] = s[i]
  BY DEF Texts
<1>2. t = s \o <<x>>
  BY TextAppend
<1> HIDE DEF t, n
<1>3. Upto(t, v) = IF x <= v THEN Upto(s, v) \cup {n + 1} ELSE Upto(s, v)
  <2>1. 1 .. n + 1 = (1 .. n) \cup {n + 1}
    BY <1>1
  <2> QED
    BY <1>1, <2>1 DEF Upto
<1>4. n + 1 \notin Upto(s, v)
  BY <1>1 DEF Upto
<1>5. Cardinality(Upto(s, v) \cup {n + 1}) = Cardinality(Upto(s, v)) + 1
  BY <1>4, UptoFinite, FS_AddElement
<1>6. AtMost(t, v) = AtMost(s, v) + (IF x <= v THEN 1 ELSE 0)
  <2>1. AtMost(t, v) = Cardinality(Upto(t, v)) /\ AtMost(s, v) = Cardinality(Upto(s, v))
        /\ AtMost(s, v) \in Nat
    BY <1>1, UptoFinite
  <2> QED
    BY <1>3, <1>5, <2>1
<1>7. AtMost(<<>>, v) = 0
  <2>1. <<>> \in Texts /\ Upto(<<>>, v) = {}
    <3>1. <<>> \in Texts
      BY TextAppend
    <3>2. Upto(<<>>, v) = {}
      BY DEF Upto
    <3> QED
      BY <3>1, <3>2
  <2>2. AtMost(<<>>, v) = Cardinality(Upto(<<>>, v))
    BY <2>1, UptoFinite
  <2> QED
    BY <2>1, <2>2, FS_EmptySet
<1> QED
  BY <1>2, <1>6, <1>7

LEMMA AtMostConcat ==
  ASSUME NEW s \in Texts, NEW t \in Texts, NEW v \in Nat
  PROVE  AtMost(s \o t, v) = AtMost(s, v) + AtMost(t, v)
<1> DEFINE P == {u \in Texts : AtMost(s \o u, v) = AtMost(s, v) + AtMost(u, v)}
<1>0. \A u \in Texts : AtMost(u, v) \in Nat
  BY UptoFinite
<1>1. <<>> \in P
  <2>1. AtMost(<<>>, v) = 0 /\ <<>> \in Texts /\ s \o <<>> = s
    BY AtMostOne, TextAppend, TextConcat
  <2> QED
    BY <1>0, <2>1
<1>2. ASSUME NEW u \in Texts, NEW x \in Nat, u \in P
      PROVE  u \o <<x>> \in P
  <2> DEFINE one == <<x>>
             k == IF x <= v THEN 1 ELSE 0
  <2>1. one \in Texts /\ k \in Nat
    BY TextAppend
  <2>2. \A w \in Texts : AtMost(w \o one, v) = AtMost(w, v) + k
    BY AtMostOne
  <2> HIDE DEF one, k
  <2>3. /\ s \o (u \o one) = (s \o u) \o one /\ s \o u \in Texts
        /\ u \o one \in Texts
    BY <2>1, TextConcat, Regroup, SMTT(40)
  <2>4. AtMost(s \o u, v) = AtMost(s, v) + AtMost(u, v)
    BY <1>2
  <2>5. /\ AtMost((s \o u) \o one, v) = AtMost(s \o u, v) + k
        /\ AtMost(u \o one, v) = AtMost(u, v) + k
    BY <2>2, <2>3
  <2>6. AtMost(s \o (u \o one), v) = AtMost(s, v) + AtMost(u \o one, v)
    BY <1>0, <2>1, <2>3, <2>4, <2>5
  <2> QED
    BY <2>3, <2>6 DEF one
<1>3. Texts \subseteq P
  <2> HIDE DEF P
  <2> QED
    BY <1>1, <1>2, GrowText
<1> QED
  BY <1>3

LEMMA AtMostGrows ==
  ASSUME NEW s \in Texts, NEW v \in Nat, NEW w \in Nat, v <= w
  PROVE  AtMost(s, v) <= AtMost(s, w)
<1>1. Upto(s, v) \subseteq Upto(s, w)
  BY DEF Upto, Texts
<1> QED
  BY <1>1, UptoFinite, FS_Subset

LEMMA EveryLineBounded ==
  ASSUME NEW s \in Texts
  PROVE  \E v \in Nat : AtMost(s, v) = Len(s)
<1> DEFINE P == {u \in Texts : \E v \in Nat : AtMost(u, v) = Len(u)}
<1>1. <<>> \in P
  <2>1. <<>> \in Texts /\ Len(<<>>) = 0 /\ AtMost(<<>>, 0) = 0
    BY AtMostOne, TextAppend
  <2> QED
    BY <2>1
<1>2. ASSUME NEW u \in Texts, NEW x \in Nat, u \in P
      PROVE  u \o <<x>> \in P
  <2>1. PICK v \in Nat : AtMost(u, v) = Len(u)
    BY <1>2
  <2> DEFINE w == IF x <= v THEN v ELSE x
  <2>2. w \in Nat /\ v <= w /\ x <= w
    OBVIOUS
  <2>3. AtMost(u, v) <= AtMost(u, w) /\ AtMost(u, w) <= Len(u) /\ Len(u) \in Nat
        /\ AtMost(u, w) \in Nat
    BY <2>2, AtMostGrows, UptoFinite, TextConcat
  <2>4. AtMost(u \o <<x>>, w) = AtMost(u, w) + 1
    BY <2>2, AtMostOne
  <2>5. u \o <<x>> \in Texts /\ Len(u \o <<x>>) = Len(u) + 1
    BY TextAppend
  <2> HIDE DEF w
  <2> QED
    BY <2>1, <2>2, <2>3, <2>4, <2>5
<1>3. Texts \subseteq P
  <2> HIDE DEF P
  <2> QED
    BY <1>1, <1>2, GrowText
<1> QED
  BY <1>3

\* A line that a text has not adds nothing to the number of lines up to it.
LEMMA AbsentLine ==
  ASSUME NEW s \in Texts, NEW v \in Nat, v \notin ToSet(s), AtMost(s, v) > 0
  PROVE  v > 0 /\ AtMost(s, v - 1) = AtMost(s, v)
<1>1. \A i \in 1 .. Len(s) : s[i] \in Nat /\ s[i] # v
  BY DEF ToSet, Texts
<1>2. Upto(s, v) = Upto(s, v - 1)
  BY <1>1 DEF Upto
<1>3. AtMost(s, v) = AtMost(s, v - 1)
  BY <1>2, UptoFinite
<1>4. CASE v = 0
  <2>1. Upto(s, v) = {}
    BY <1>1, <1>4 DEF Upto
  <2>2. AtMost(s, v) = 0
    BY <2>1, UptoFinite, FS_EmptySet
  <2> QED
    BY <2>2
<1> QED
  BY <1>3, <1>4

LEMMA SortedPlace ==
  ASSUME NEW s \in Texts, NEW k \in 1 .. Len(s)
  PROVE  /\ Sorted(s)[k] \in ToSet(s) /\ Sorted(s)[k] \in Nat
         /\ \A u \in Nat : Sorted(s)[k] <= u <=> k <= AtMost(s, u)
<1> DEFINE A == {v \in Nat : AtMost(s, v) >= k}
           Fits(line) == /\ AtMost(s, line) >= k
                         /\ \A other \in ToSet(s) : AtMost(s, other) >= k => line <= other
           c == CHOOSE line \in ToSet(s) : Fits(line)
<1>0. Len(s) \in Nat /\ k \in Nat \ {0} /\ ToSet(s) \subseteq Nat
  BY DEF Texts, ToSet
<1>1. \A v \in Nat : AtMost(s, v) \in Nat
  BY UptoFinite
<1>2. A # {}
  BY <1>0, EveryLineBounded
<1>3. PICK least \in A : \A m \in A : least <= m
  BY <1>2, LeastElement
<1>4. least \in ToSet(s)
  <2> SUFFICES ASSUME least \notin ToSet(s)
               PROVE  FALSE
    OBVIOUS
  <2>1. AtMost(s, least) > 0
    BY <1>0, <1>1, <1>3
  <2>2. least > 0 /\ AtMost(s, least - 1) = AtMost(s, least)
    BY <2>1, AbsentLine
  <2>3. least - 1 \in A
    BY <2>2
  <2> QED
    BY <1>3, <2>3
<1>5. Fits(least)
  BY <1>0, <1>3
<1>6. c \in ToSet(s) /\ Fits(c)
  <2> HIDE DEF Fits
  <2> QED
    BY <1>4, <1>5
<1>7. c = least
  <2>1. c \in A
    BY <1>0, <1>6
  <2>2. c <= least
    BY <1>4, <1>5, <1>6
  <2> HIDE DEF c
  <2> QED
    BY <1>0, <1>3, <2>1, <2>2
<1>8. Sorted(s)[k] = c
  BY DEF Sorted
<1>9. ASSUME NEW u \in Nat
      PROVE  least <= u <=> k <= AtMost(s, u)
  <2>1. ASSUME least <= u PROVE k <= AtMost(s, u)
    <3>1. AtMost(s, least) <= AtMost(s, u)
      BY <2>1, AtMostGrows
    <3> QED
      BY <1>0, <1>1, <3>1
  <2>2. ASSUME k <= AtMost(s, u) PROVE least <= u
    BY <1>0, <1>1, <1>3, <2>2
  <2> QED
    BY <2>1, <2>2
<1> HIDE DEF c
<1> QED
  BY <1>0, <1>4, <1>7, <1>8, <1>9

LEMMA SortedTyped ==
  ASSUME NEW s \in Texts
  PROVE  Sorted(s) \in Texts /\ Len(Sorted(s)) = Len(s)
<1>1. Len(s) \in Nat /\ \A k \in 1 .. Len(s) : Sorted(s)[k] \in Nat
  BY SortedPlace DEF Texts
<1>2. Sorted(s) = [k \in 1 .. Len(s) |-> Sorted(s)[k]]
  BY DEF Sorted
<1>3. Sorted(s) \in [1 .. Len(s) -> Nat]
  BY <1>1, <1>2
<1> QED
  BY <1>1, <1>3 DEF Texts

LEMMA TakeSorted ==
  ASSUME NEW s \in Texts, NEW n \in Nat
  PROVE  /\ Take(Sorted(s), n) \in Texts
         /\ Len(Take(Sorted(s), n)) = Smaller(n, Len(s))
         /\ \A i \in 1 .. Smaller(n, Len(s)) : Take(Sorted(s), n)[i] = Sorted(s)[i]
<1> DEFINE z == Sorted(s)
<1>1. z \in Texts /\ Len(z) = Len(s)
  BY SortedTyped
<1> HIDE DEF z
<1>2. /\ Take(z, n) \in Texts
      /\ Len(Take(z, n)) = Smaller(n, Len(z))
      /\ \A i \in 1 .. Smaller(n, Len(z)) : Take(z, n)[i] = z[i]
  BY <1>1, TakeTyped
<1> QED
  BY <1>1, <1>2 DEF z

LEMMA SameText ==
  ASSUME NEW s \in Texts, NEW t \in Texts, Len(s) = Len(t),
         \A i \in 1 .. Len(s) : s[i] = t[i]
  PROVE  s = t
BY DEF Texts

\* The first n lines of a sorted text have the numbers of the whole up to n.
LEMMA AtMostOfFirst ==
  ASSUME NEW s \in Texts, NEW n \in Nat, NEW v \in Nat
  PROVE  AtMost(Take(Sorted(s), n), v) = Smaller(n, AtMost(s, v))
<1> DEFINE t == Take(Sorted(s), n)
           a == AtMost(s, v)
           l == Len(s)
           m == Smaller(n, l)
           k == Smaller(n, a)
<1>1. a \in Nat /\ a <= l /\ l \in Nat
  BY UptoFinite DEF Texts
<1>2. m \in 0 .. l /\ k \in Nat /\ k <= m /\ \A i \in 1 .. m : i <= k <=> i <= a
  BY <1>1 DEF Smaller
<1>3. /\ t \in Texts /\ Len(t) = m
      /\ \A i \in 1 .. m : t[i] = Sorted(s)[i]
  BY TakeSorted
<1>4. \A i \in 1 .. m : t[i] <= v <=> i <= a
  BY <1>2, <1>3, SortedPlace
<1> HIDE DEF t, m, k, a
<1>5. Upto(t, v) = 1 .. k
  <2>1. Upto(t, v) = {i \in 1 .. m : i <= k}
    BY <1>2, <1>3, <1>4 DEF Upto
  <2> QED
    BY <1>1, <1>2, <2>1
<1>6. AtMost(t, v) = Cardinality(1 .. k)
  BY <1>3, <1>5, UptoFinite
<1> QED
  BY <1>2, <1>6, UpToFinite DEF t, k, a

LEMMA FirstOfSorted ==
  ASSUME NEW s \in Texts, NEW t \in Texts, NEW n \in Nat,
         Smaller(n, Len(s)) = Smaller(n, Len(t)),
         \A v \in Nat : Smaller(n, AtMost(s, v)) = Smaller(n, AtMost(t, v))
  PROVE  Take(Sorted(s), n) = Take(Sorted(t), n)
<1> DEFINE m == Smaller(n, Len(s))
<1>1. m \in Nat /\ m <= n /\ 1 .. m \subseteq 1 .. Len(s) /\ 1 .. m \subseteq 1 .. Len(t)
  BY DEF Texts, Smaller
<1>2. ASSUME NEW i \in 1 .. m
      PROVE  Sorted(s)[i] = Sorted(t)[i]
  <2>1. ASSUME NEW v \in Nat
        PROVE  i <= AtMost(s, v) <=> i <= AtMost(t, v)
    <3> DEFINE a == AtMost(s, v)
               b == AtMost(t, v)
    <3>0. i \in Nat /\ i <= n
      <4> HIDE DEF m
      <4> QED
        BY <1>1
    <3>1. a \in Nat /\ b \in Nat
      BY UptoFinite
    <3>2. Smaller(n, a) = Smaller(n, b)
      OBVIOUS
    <3> HIDE DEF a, b
    <3>3. i <= a <=> i <= b
      BY <3>0, <3>1, <3>2 DEF Smaller
    <3> QED
      BY <3>3 DEF a, b
  <2>2. /\ Sorted(s)[i] \in Nat /\ Sorted(t)[i] \in Nat
        /\ \A v \in Nat : Sorted(s)[i] <= v <=> Sorted(t)[i] <= v
    BY <1>1, <2>1, SortedPlace
  <2> QED
    BY <2>2
<1> DEFINE x == Take(Sorted(s), n)
           y == Take(Sorted(t), n)
<1>3. /\ x \in Texts /\ Len(x) = m /\ \A i \in 1 .. m : x[i] = Sorted(s)[i]
      /\ y \in Texts /\ Len(y) = m /\ \A i \in 1 .. m : y[i] = Sorted(t)[i]
  BY TakeSorted
<1> HIDE DEF m, x, y
<1>4. x = y
  BY <1>2, <1>3, SameText
<1> QED
  BY <1>4 DEF x, y

-----------------------------------------------------------------------------
(***************************************************************************)
(* Stages and pipelines.                                                   *)
(***************************************************************************)
LEMMA UniqTyped ==
  ASSUME NEW s \in Texts
  PROVE  Uniq(s) \in Texts
<1> DEFINE f == [i \in 1 .. Len(s) |-> IF i = 1 \/ s[i - 1] # s[i] THEN <<s[i]>> ELSE <<>>]
<1>1. Len(s) \in Nat /\ \A i \in 1 .. Len(s) : s[i] \in Nat
  BY DEF Texts
<1>2. \A i \in 1 .. Len(s) : <<s[i]>> \in Texts /\ <<>> \in Texts
  BY <1>1, TextAppend
<1>3. f \in [1 .. Len(s) -> Texts]
  BY <1>2
<1>4. Uniq(s) = FlattenSeq(f)
  BY DEF Uniq
<1> HIDE DEF f
<1> QED
  BY <1>1, <1>3, <1>4, FlattenTyped DEF Texts

LEMMA ReverseTyped ==
  ASSUME NEW s \in Texts
  PROVE  Reverse(s) \in Texts /\ Len(Reverse(s)) = Len(s)
BY DEF Reverse, Texts

LEMMA StageTyped ==
  ASSUME NEW stage, IsStage(stage), NEW s \in Texts
  PROVE  /\ RunStage(stage, s) \in Texts
         /\ Each(stage.each) /\ stage.n \in Nat
<1>1. Each(stage.each) /\ stage.n \in Nat
  BY DEF IsStage, Each, Texts
<1>2. \A t \in Texts : EachLine(stage.each, t) \in Texts
  <2>1. 0 \in Nat
    OBVIOUS
  <2> QED
    BY <1>1, <2>1, EachLineAppend
<1>3. \A t \in Texts : Take(t, stage.n) \in Texts /\ Len(t) \in Nat /\ <<Len(t)>> \in Texts
  BY <1>1, TakeTyped, TextAppend
<1>4. RunGrep(stage, s) \in Texts
  <2> DEFINE hits == EachLine(stage.each, s)
             kept == IF "max" \in stage.flags THEN Take(hits, stage.n) ELSE hits
  <2>1. hits \in Texts
    BY <1>2
  <2>2. kept \in Texts
    BY <2>1, <1>3
  <2>3. RunGrep(stage, s) = IF "count" \in stage.flags /\ kept # <<>> THEN <<Len(kept)>> ELSE kept
    BY DEF RunGrep
  <2> HIDE DEF hits, kept
  <2> QED
    BY <1>3, <2>2, <2>3
<1>5. RunSed(stage, s) \in Texts
  <2>1. s # <<>> => Tail(s) \in Texts
    BY DEF Texts
  <2> QED
    BY <1>2, <2>1 DEF RunSed
<1>6. RunSort(stage, s) \in Texts
  BY SortedTyped, ReverseTyped, UniqTyped DEF RunSort
<1>7. RunStage(stage, s) \in Texts
  BY <1>2, <1>3, <1>4, <1>5, <1>6, UniqTyped DEF RunStage
<1> QED
  BY <1>1, <1>7

Passing(pipe, s, f) ==
  f = [i \in 0 .. Len(pipe) |-> IF i = 0 THEN s ELSE RunStage(pipe[i], f[i - 1])]

LEMMA OutputPartial ==
  ASSUME NEW S, \A stage \in S : IsStage(stage), NEW pipe \in Seq(S), NEW s \in Texts
  PROVE  \E g \in [0 .. Len(pipe) -> Texts] :
           /\ g[0] = s
           /\ \A i \in 1 .. Len(pipe) : g[i] = RunStage(pipe[i], g[i - 1])
           /\ Output(pipe, s) = g[Len(pipe)]
<1> DEFINE n == Len(pipe)
           h == [i \in 1 .. n |-> [x \in Texts |-> RunStage(pipe[i], x)]]
           c == CHOOSE x : Passing(pipe, s, x)
<1>1. n \in Nat /\ Len(pipe) = n /\ \A i \in 1 .. n : pipe[i] \in S
  OBVIOUS
<1>2. h \in [1 .. n -> [Texts -> Texts]]
  BY <1>1, StageTyped
<1> HIDE DEF n
<1>3. PICK g \in [0 .. n -> Texts] : Recurs(g, n, s, h)
  <2> HIDE DEF h
  <2> QED
    BY <1>1, <1>2, RecursionExists
<1>4. g[0] = s /\ \A i \in 1 .. n : g[i] = RunStage(pipe[i], g[i - 1])
  <2>1. g[0] = s /\ \A i \in 1 .. n : g[i] = h[i][g[i - 1]]
    BY <1>3 DEF Recurs
  <2>2. \A i \in 1 .. n : g[i - 1] \in Texts
    BY <1>1
  <2> QED
    BY <2>1, <2>2
<1>5. Passing(pipe, s, g)
  <2>1. \A i \in 0 .. n : g[i] = IF i = 0 THEN s ELSE RunStage(pipe[i], g[i - 1])
    BY <1>1, <1>4
  <2>2. g = [i \in 0 .. n |-> g[i]]
    OBVIOUS
  <2> QED
    BY <1>1, <2>1, <2>2 DEF Passing
<1>6. Passing(pipe, s, c)
  BY <1>5
<1>7. Output(pipe, s) = c[n]
  BY <1>1 DEF Output, Passing
<1>8. c[0] = s /\ \A i \in 1 .. n : c[i] = RunStage(pipe[i], c[i - 1])
  <2> HIDE DEF c
  <2>1. \A i \in 0 .. n : c[i] = IF i = 0 THEN s ELSE RunStage(pipe[i], c[i - 1])
    BY <1>1, <1>6 DEF Passing
  <2> QED
    BY <1>1, <2>1
<1> HIDE DEF c, h
<1> DEFINE P == {i \in Nat : i <= n => c[i] = g[i]}
<1>9. 0 \in P
  BY <1>4, <1>8
<1>10. ASSUME NEW i \in Nat, i \in P
       PROVE  i + 1 \in P
  <2> SUFFICES ASSUME i + 1 <= n
               PROVE  c[i + 1] = g[i + 1]
    OBVIOUS
  <2>1. i + 1 \in 1 .. n /\ (i + 1) - 1 = i /\ c[i] = g[i]
    BY <1>1, <1>10
  <2> QED
    BY <1>4, <1>8, <2>1
<1>11. n \in P
  <2> HIDE DEF P
  <2> QED
    BY <1>1, <1>9, <1>10, Climb
<1>12. c[n] = g[n]
  BY <1>1, <1>11
<1> QED
  BY <1>1, <1>4, <1>7, <1>12

LEMMA OutputGrows ==
  ASSUME NEW S, \A stage \in S : IsStage(stage), NEW pipe \in Seq(S), NEW last \in S,
         NEW s \in Texts
  PROVE  /\ Output(pipe, s) \in Texts
         /\ Output(<<>>, s) = s
         /\ Output(Append(pipe, last), s) = RunStage(last, Output(pipe, s))
<1> DEFINE n == Len(pipe)
           more == Append(pipe, last)
<1>1. /\ n \in Nat /\ Len(pipe) = n
      /\ more \in Seq(S) /\ Len(more) = n + 1 /\ more[n + 1] = last
      /\ \A i \in 1 .. n : more[i] = pipe[i]
  OBVIOUS
<1> HIDE DEF n, more
<1>2. PICK g \in [0 .. n -> Texts] :
        /\ g[0] = s /\ \A i \in 1 .. n : g[i] = RunStage(pipe[i], g[i - 1])
        /\ Output(pipe, s) = g[n]
  BY <1>1, OutputPartial
<1>3. PICK k \in [0 .. n + 1 -> Texts] :
        /\ k[0] = s /\ \A i \in 1 .. n + 1 : k[i] = RunStage(more[i], k[i - 1])
        /\ Output(more, s) = k[n + 1]
  <2>1. \E k \in [0 .. Len(more) -> Texts] :
          /\ k[0] = s /\ \A i \in 1 .. Len(more) : k[i] = RunStage(more[i], k[i - 1])
          /\ Output(more, s) = k[Len(more)]
    BY <1>1, OutputPartial
  <2> QED
    BY <1>1, <2>1
<1> DEFINE P == {i \in Nat : i <= n => k[i] = g[i]}
<1>4. 0 \in P
  BY <1>2, <1>3
<1>5. ASSUME NEW i \in Nat, i \in P
      PROVE  i + 1 \in P
  <2> SUFFICES ASSUME i + 1 <= n
               PROVE  k[i + 1] = g[i + 1]
    OBVIOUS
  <2>1. i + 1 \in 1 .. n /\ i + 1 \in 1 .. n + 1 /\ (i + 1) - 1 = i
    BY <1>1
  <2>2. k[i] = g[i]
    BY <1>1, <1>5
  <2>3. k[i + 1] = RunStage(more[i + 1], k[i]) /\ g[i + 1] = RunStage(pipe[i + 1], g[i])
    BY <1>2, <1>3, <2>1
  <2> QED
    BY <1>1, <2>1, <2>2, <2>3
<1>6. n \in P
  <2> HIDE DEF P
  <2> QED
    BY <1>1, <1>4, <1>5, Climb
<1>7. k[n] = g[n] /\ n + 1 \in 1 .. n + 1 /\ (n + 1) - 1 = n /\ g[n] \in Texts
  BY <1>1, <1>6
<1>8. k[n + 1] = RunStage(last, k[n])
  BY <1>1, <1>3, <1>7
<1>9. Output(<<>>, s) = s
  <2> DEFINE none == <<>>
  <2>1. none \in Seq(S) /\ Len(none) = 0
    OBVIOUS
  <2> HIDE DEF none
  <2>2. PICK f \in [0 .. Len(none) -> Texts] :
          /\ f[0] = s
          /\ \A i \in 1 .. Len(none) : f[i] = RunStage(none[i], f[i - 1])
          /\ Output(none, s) = f[Len(none)]
    BY <2>1, OutputPartial, ZenonT(40)
  <2>3. Output(none, s) = s
    BY <2>1, <2>2
  <2> QED
    BY <2>3 DEF none
<1> QED
  BY <1>2, <1>3, <1>7, <1>8, <1>9 DEF more

(***************************************************************************)
(* Pipelines that go line by line: what they print of two texts end to end *)
(* is what they print of each, end to end.                                 *)
(***************************************************************************)
LineByLine(stage) == Stateless(stage) /\ stage.flags \cap {"max", "address"} = {}

LEMMA LineByLineStage ==
  ASSUME NEW stage, LineByLine(stage), NEW s
  PROVE  RunStage(stage, s) = EachLine(stage.each, s)
BY DEF LineByLine, Stateless, UnsafeFlags, RunStage, RunGrep, RunSed

LineByLineStages(S) == \A stage \in S : IsStage(stage) /\ LineByLine(stage)

LEMMA OutputConcat ==
  ASSUME NEW S, LineByLineStages(S), NEW pipe \in Seq(S), NEW s \in Texts, NEW t \in Texts
  PROVE  Output(pipe, s \o t) = Output(pipe, s) \o Output(pipe, t)
<1>1. \A stage \in S : IsStage(stage) /\ LineByLine(stage)
  BY DEF LineByLineStages
<1>2. s \o t \in Texts
  BY TextConcat
<1> DEFINE P == {p \in Seq(S) : Output(p, s \o t) = Output(p, s) \o Output(p, t)}
<1>3. CASE S = {}
  <2>1. pipe = <<>>
    BY <1>3
  <2>2. \A u \in Texts : Output(pipe, u) = u
    <3>1. \A u \in Texts : \E f \in [0 .. Len(pipe) -> Texts] : f[0] = u /\ Output(pipe, u) = f[Len(pipe)]
      BY <1>1, OutputPartial
    <3>2. Len(pipe) = 0
      BY <2>1
    <3> QED
      BY <3>1, <3>2
  <2> QED
    BY <1>2, <2>2
<1>4. CASE S # {}
  <2>1. <<>> \in P
    <3>1. <<>> \in Seq(S)
      OBVIOUS
    <3>2. \A u \in Texts : Output(<<>>, u) = u
      BY <1>1, <1>4, <3>1, OutputGrows
    <3> QED
      BY <1>2, <3>1, <3>2
  <2>2. ASSUME NEW p \in Seq(S), NEW stage \in S, p \in P
        PROVE  Append(p, stage) \in P
    <3> DEFINE a == Output(p, s)
               b == Output(p, t)
    <3>1. \A u \in Texts : /\ Output(p, u) \in Texts
                           /\ Output(Append(p, stage), u) = EachLine(stage.each, Output(p, u))
      BY <1>1, OutputGrows, LineByLineStage
    <3>2. Output(p, s \o t) = a \o b /\ a \in Texts /\ b \in Texts
      BY <2>2, <3>1
    <3>3. Each(stage.each)
      BY <1>1, <1>2, StageTyped
    <3> HIDE DEF a, b
    <3>4. EachLine(stage.each, a \o b) = EachLine(stage.each, a) \o EachLine(stage.each, b)
      BY <3>2, <3>3, EachLineConcat
    <3>5. Append(p, stage) \in Seq(S)
      OBVIOUS
    <3>6. Output(Append(p, stage), s \o t)
            = Output(Append(p, stage), s) \o Output(Append(p, stage), t)
      BY <1>2, <3>1, <3>2, <3>4 DEF a, b
    <3> QED
      BY <3>5, <3>6
  <2>3. Seq(S) \subseteq P
    <3> HIDE DEF P
    <3> QED
      BY <2>1, <2>2, GrowSequence
  <2> QED
    BY <2>3
<1> QED
  BY <1>3, <1>4

(***************************************************************************)
(* Texts given as parts, one after the other.                              *)
(***************************************************************************)
FirstParts(f, m) == FlattenSeq([i \in 1 .. m |-> f[i]])

LEMMA PartByPart ==
  ASSUME NEW n \in Nat, NEW f \in [1 .. n -> Texts]
  PROVE  /\ FirstParts(f, 0) = <<>>
         /\ \A m \in 0 .. n : FirstParts(f, m) \in Texts
         /\ \A m \in Nat : m + 1 <= n =>
              f[m + 1] \in Texts /\ FirstParts(f, m + 1) = FirstParts(f, m) \o f[m + 1]
         /\ FirstParts(f, n) = FlattenSeq(f)
<1>1. FirstParts(f, 0) = <<>>
  <2>1. [i \in 1 .. 0 |-> f[i]] = <<>>
    OBVIOUS
  <2> QED
    BY <2>1, FlattenNothing DEF FirstParts
<1>2. ASSUME NEW m \in 0 .. n
      PROVE  FirstParts(f, m) \in Texts
  <2> DEFINE g == [i \in 1 .. m |-> f[i]]
  <2>1. g \in [1 .. m -> Texts] /\ m \in Nat
    OBVIOUS
  <2> HIDE DEF g
  <2>2. FlattenSeq(g) \in Texts
    BY <2>1, FlattenTyped DEF Texts
  <2> QED
    BY <2>2 DEF g, FirstParts
<1>3. ASSUME NEW m \in Nat, m + 1 <= n
      PROVE  f[m + 1] \in Texts /\ FirstParts(f, m + 1) = FirstParts(f, m) \o f[m + 1]
  <2> DEFINE g == [i \in 1 .. m + 1 |-> f[i]]
             k == [i \in 1 .. m |-> f[i]]
  <2>1. /\ g \in [1 .. m + 1 -> Texts]
        /\ k = [i \in 1 .. m |-> g[i]] /\ g[m + 1] = f[m + 1] /\ f[m + 1] \in Texts
    BY <1>3
  <2> HIDE DEF g, k
  <2>2. FlattenSeq(g) = FlattenSeq(k) \o g[m + 1]
    BY <2>1, FlattenMore DEF Texts
  <2> QED
    BY <2>1, <2>2 DEF g, k, FirstParts
<1>4. FirstParts(f, n) = FlattenSeq(f)
  <2>1. f = [i \in 1 .. n |-> f[i]]
    OBVIOUS
  <2> QED
    BY <2>1 DEF FirstParts
<1> QED
  BY <1>1, <1>2, <1>3, <1>4

\* What relates the parts of two texts and is kept by adding parts relates
\* the texts.
LEMMA RelatedParts ==
  ASSUME NEW n \in Nat, NEW f \in [1 .. n -> Texts], NEW g \in [1 .. n -> Texts],
         NEW R, <<<<>>, <<>>>> \in R,
         \A i \in 1 .. n : \A s \in Texts : \A t \in Texts :
           <<s, t>> \in R => <<s \o f[i], t \o g[i]>> \in R
  PROVE  <<FlattenSeq(f), FlattenSeq(g)>> \in R
<1> DEFINE P == {m \in Nat : m <= n => <<FirstParts(f, m), FirstParts(g, m)>> \in R}
<1>1. 0 \in P
  BY PartByPart
<1>2. ASSUME NEW m \in Nat, m \in P
      PROVE  m + 1 \in P
  <2> SUFFICES ASSUME m + 1 <= n
               PROVE  <<FirstParts(f, m + 1), FirstParts(g, m + 1)>> \in R
    OBVIOUS
  <2>1. m \in 0 .. n /\ m + 1 \in 1 .. n
    OBVIOUS
  <2>2. FirstParts(f, m) \in Texts /\ FirstParts(g, m) \in Texts
    BY <2>1, PartByPart
  <2>3. <<FirstParts(f, m), FirstParts(g, m)>> \in R
    BY <1>2
  <2>4. /\ FirstParts(f, m + 1) = FirstParts(f, m) \o f[m + 1]
        /\ FirstParts(g, m + 1) = FirstParts(g, m) \o g[m + 1]
    BY PartByPart
  <2>5. <<FirstParts(f, m) \o f[m + 1], FirstParts(g, m) \o g[m + 1]>> \in R
    BY <2>1, <2>2, <2>3
  <2> QED
    BY <2>4, <2>5
<1>3. n \in P
  <2> HIDE DEF P
  <2> QED
    BY <1>1, <1>2, Climb
<1>4. FirstParts(f, n) = FlattenSeq(f) /\ FirstParts(g, n) = FlattenSeq(g)
  BY PartByPart
<1>5. <<FirstParts(f, n), FirstParts(g, n)>> \in R
  BY <1>3
<1> QED
  BY <1>4, <1>5

LEMMA NoParts ==
  ASSUME NEW n \in Nat, NEW f \in [1 .. n -> Texts]
  PROVE  FlattenSeq(f) = <<>> <=> \A i \in 1 .. n : f[i] = <<>>
<1> DEFINE P == {m \in Nat : m <= n => (FirstParts(f, m) = <<>> <=> \A i \in 1 .. m : f[i] = <<>>)}
<1>1. 0 \in P
  BY PartByPart
<1>2. ASSUME NEW m \in Nat, m \in P
      PROVE  m + 1 \in P
  <2> SUFFICES ASSUME m + 1 <= n
               PROVE  FirstParts(f, m + 1) = <<>> <=> \A i \in 1 .. m + 1 : f[i] = <<>>
    OBVIOUS
  <2>1. m \in 0 .. n /\ 1 .. m + 1 = (1 .. m) \cup {m + 1}
    OBVIOUS
  <2>2. FirstParts(f, m) \in Texts /\ f[m + 1] \in Texts
        /\ FirstParts(f, m + 1) = FirstParts(f, m) \o f[m + 1]
    BY <2>1, PartByPart
  <2>3. FirstParts(f, m + 1) = <<>> <=> FirstParts(f, m) = <<>> /\ f[m + 1] = <<>>
    BY <2>2, TextConcat
  <2>4. FirstParts(f, m) = <<>> <=> \A i \in 1 .. m : f[i] = <<>>
    BY <1>2
  <2> QED
    BY <2>1, <2>3, <2>4
<1>3. n \in P
  <2> HIDE DEF P
  <2> QED
    BY <1>1, <1>2, Climb
<1> QED
  BY <1>3, PartByPart

\* The outputs of the parts of a text, end to end, are its output.
LEMMA OutputOfParts ==
  ASSUME NEW S, LineByLineStages(S), NEW pipe \in Seq(S), NEW n \in Nat,
         NEW texts \in [1 .. n -> Texts]
  PROVE  /\ [i \in 1 .. n |-> Output(pipe, texts[i])] \in [1 .. n -> Texts]
         /\ Output(pipe, FlattenSeq(texts)) = FlattenSeq([i \in 1 .. n |-> Output(pipe, texts[i])])
<1> DEFINE out == [i \in 1 .. n |-> Output(pipe, texts[i])]
           e == Output(pipe, <<>>)
           R == {p \in Texts \X Texts : Output(pipe, p[1]) = p[2]}
<1>1. \A u \in Texts : Output(pipe, u) \in Texts
  BY OutputPartial DEF LineByLineStages
<1>2. out \in [1 .. n -> Texts]
  BY <1>1
<1>3. <<>> \in Texts /\ <<>> \o <<>> = <<>>
  BY DEF Texts
<1>4. e = <<>>
  <2>1. e \in Texts /\ e = e \o e
    BY <1>1, <1>3, OutputConcat
  <2> HIDE DEF e
  <2> QED
    BY <2>1 DEF Texts
<1>5. ASSUME NEW i \in 1 .. n, NEW s \in Texts, NEW t \in Texts, <<s, t>> \in R
      PROVE  <<s \o texts[i], t \o out[i]>> \in R
  <2>1. texts[i] \in Texts /\ out[i] \in Texts /\ out[i] = Output(pipe, texts[i]) /\ Output(pipe, s) = t
    BY <1>2, <1>5
  <2> DEFINE x == texts[i]
             y == out[i]
  <2> HIDE DEF out, x, y
  <2>2. Output(pipe, s \o x) = Output(pipe, s) \o Output(pipe, x)
    BY <2>1, OutputConcat DEF x
  <2>3. s \o x \in Texts /\ t \o y \in Texts
    BY <2>1, TextConcat DEF x, y
  <2>4. Output(pipe, s \o x) = t \o y
    BY <2>1, <2>2 DEF x, y
  <2> QED
    BY <2>3, <2>4 DEF x, y
<1>6. <<<<>>, <<>>>> \in R
  BY <1>3, <1>4
<1> HIDE DEF out, R
<1>7. <<FlattenSeq(texts), FlattenSeq(out)>> \in R
  BY <1>2, <1>5, <1>6, RelatedParts
<1>8. Output(pipe, FlattenSeq(texts)) = FlattenSeq(out)
  BY <1>7 DEF R
<1> QED
  BY <1>2, <1>8 DEF out

LEMMA PlaceInConcat ==
  ASSUME NEW s \in Texts, NEW t \in Texts, NEW i \in Nat \ {0}, i <= Len(s) + Len(t)
  PROVE  (s \o t)[i] = IF i <= Len(s) THEN s[i] ELSE t[i - Len(s)]
BY DEF Texts

\* The first lines of texts end to end are those of their first lines.
LEMMA TakeConcat ==
  ASSUME NEW s \in Texts, NEW t \in Texts, NEW u \in Texts, NEW n \in Nat,
         Take(s, n) = Take(t, n)
  PROVE  Take(s \o Take(u, n), n) = Take(t \o u, n)
<1> DEFINE w == Take(u, n)
           x == Take(s \o w, n)
           y == Take(t \o u, n)
           m == Smaller(n, Len(t))
<1>1. /\ w \in Texts /\ Len(w) = Smaller(n, Len(u)) /\ \A i \in 1 .. Smaller(n, Len(u)) : w[i] = u[i]
      /\ Len(s) \in Nat /\ Len(t) \in Nat /\ Len(u) \in Nat
  BY TakeTyped
<1>2. Smaller(n, Len(s)) = m /\ \A i \in 1 .. m : s[i] = t[i]
  <2>1. /\ Len(Take(s, n)) = Smaller(n, Len(s)) /\ Len(Take(t, n)) = m
        /\ \A i \in 1 .. Smaller(n, Len(s)) : Take(s, n)[i] = s[i]
        /\ \A i \in 1 .. m : Take(t, n)[i] = t[i]
    BY TakeTyped
  <2> QED
    BY <2>1
<1> HIDE DEF w, m
<1>3. s \o w \in Texts /\ t \o u \in Texts /\ Len(s \o w) = Len(s) + Len(w) /\ Len(t \o u) = Len(t) + Len(u)
  BY <1>1, TextConcat
<1>4. /\ x \in Texts /\ Len(x) = Smaller(n, Len(s) + Len(w))
      /\ \A i \in 1 .. Smaller(n, Len(s) + Len(w)) : x[i] = (s \o w)[i]
      /\ y \in Texts /\ Len(y) = Smaller(n, Len(t) + Len(u))
      /\ \A i \in 1 .. Smaller(n, Len(t) + Len(u)) : y[i] = (t \o u)[i]
  BY <1>3, TakeTyped, ZenonT(40)
<1>5. Len(x) = Len(y)
  <2>1. \A a, b, c \in Nat : Smaller(n, a) = Smaller(n, b) =>
          Smaller(n, a + Smaller(n, c)) = Smaller(n, b + c)
    BY DEF Smaller
  <2>2. Smaller(n, Len(s)) = Smaller(n, Len(t))
    BY <1>2 DEF m
  <2> QED
    BY <1>1, <1>4, <2>1, <2>2
<1>6. ASSUME NEW i \in 1 .. Len(x)
      PROVE  x[i] = y[i]
  <2>1. /\ i \in Nat /\ i <= n /\ i <= Len(s) + Len(w) /\ i <= Len(t) + Len(u)
        /\ x[i] = (s \o w)[i] /\ y[i] = (t \o u)[i]
    BY <1>1, <1>4, <1>5 DEF Smaller
  <2>2. CASE i <= Len(t)
    <3>1. i <= Len(s) /\ i \in 1 .. m
      BY <1>1, <1>2, <2>1, <2>2 DEF Smaller, m
    <3>2. (s \o w)[i] = s[i] /\ (t \o u)[i] = t[i]
      BY <1>1, <2>1, <2>2, <3>1, PlaceInConcat
    <3> QED
      BY <1>2, <2>1, <3>1, <3>2
  <2>3. CASE i > Len(t)
    <3>1. Len(s) = Len(t)
      BY <1>1, <1>2, <2>1, <2>3 DEF Smaller, m
    <3>2. (s \o w)[i] = w[i - Len(t)] /\ (t \o u)[i] = u[i - Len(t)]
      <4>1. i \in Nat \ {0} /\ ~(i <= Len(s)) /\ ~(i <= Len(t))
        BY <1>1, <2>1, <2>3, <3>1
      <4>2. (s \o w)[i] = w[i - Len(s)]
        BY <1>1, <2>1, <4>1, PlaceInConcat
      <4>3. (t \o u)[i] = u[i - Len(t)]
        BY <1>1, <2>1, <4>1, PlaceInConcat
      <4> QED
        BY <3>1, <4>2, <4>3
    <3>3. i - Len(t) \in 1 .. Smaller(n, Len(u))
      BY <1>1, <2>1, <2>3 DEF Smaller
    <3> QED
      BY <1>1, <2>1, <3>2, <3>3
  <2> QED
    BY <1>1, <2>1, <2>2, <2>3, SMTT(40)
<1> HIDE DEF x, y
<1>7. x = y
  BY <1>4, <1>5, <1>6, SameText
<1> QED
  BY <1>7 DEF w, x, y

LEMMA TakeOfParts ==
  ASSUME NEW m \in Nat, NEW texts \in [1 .. m -> Texts], NEW n \in Nat
  PROVE  /\ [i \in 1 .. m |-> Take(texts[i], n)] \in [1 .. m -> Texts]
         /\ Take(FlattenSeq([i \in 1 .. m |-> Take(texts[i], n)]), n) = Take(FlattenSeq(texts), n)
<1> DEFINE first == [i \in 1 .. m |-> Take(texts[i], n)]
           R == {p \in Texts \X Texts : Take(p[1], n) = Take(p[2], n)}
<1>1. first \in [1 .. m -> Texts]
  BY TakeTyped
<1>2. <<<<>>, <<>>>> \in R
  <2> DEFINE none == <<>>
  <2>1. none \in Texts
    BY DEF Texts
  <2> HIDE DEF none
  <2>2. <<none, none>> \in R
    BY <2>1
  <2> QED
    BY <2>2 DEF none
<1>3. ASSUME NEW i \in 1 .. m, NEW s \in Texts, NEW t \in Texts, <<s, t>> \in R
      PROVE  <<s \o first[i], t \o texts[i]>> \in R
  <2>1. first[i] \in Texts /\ texts[i] \in Texts /\ first[i] = Take(texts[i], n)
        /\ Take(s, n) = Take(t, n)
    BY <1>1, <1>3
  <2> HIDE DEF first
  <2>2. Take(s \o first[i], n) = Take(t \o texts[i], n)
    BY <2>1, TakeConcat
  <2>3. s \o first[i] \in Texts /\ t \o texts[i] \in Texts
    BY <2>1, TextConcat
  <2> QED
    BY <2>2, <2>3
<1> HIDE DEF first, R
<1>4. <<FlattenSeq(first), FlattenSeq(texts)>> \in R
  BY <1>1, <1>2, <1>3, RelatedParts
<1>5. Take(FlattenSeq(first), n) = Take(FlattenSeq(texts), n)
  BY <1>4 DEF R
<1> QED
  BY <1>1, <1>5 DEF first

\* Sorted first lines merged give the first lines of the whole sorted.
LEMMA MergeOfParts ==
  ASSUME NEW m \in Nat, NEW texts \in [1 .. m -> Texts], NEW n \in Nat
  PROVE  /\ [i \in 1 .. m |-> Take(Sorted(texts[i]), n)] \in [1 .. m -> Texts]
         /\ Take(Sorted(FlattenSeq([i \in 1 .. m |-> Take(Sorted(texts[i]), n)])), n)
              = Take(Sorted(FlattenSeq(texts)), n)
<1> DEFINE first == [i \in 1 .. m |-> Take(Sorted(texts[i]), n)]
           Alike(a, b) == Smaller(n, a) = Smaller(n, b)
           R == {p \in Texts \X Texts :
                   /\ Alike(Len(p[1]), Len(p[2]))
                   /\ \A v \in Nat : Alike(AtMost(p[1], v), AtMost(p[2], v))}
<1>1. first \in [1 .. m -> Texts]
  BY TakeSorted
<1>2. <<<<>>, <<>>>> \in R
  <2> DEFINE none == <<>>
  <2>1. none \in Texts
    BY DEF Texts
  <2> HIDE DEF none
  <2>2. <<none, none>> \in R
    BY <2>1
  <2> QED
    BY <2>2 DEF none
<1>3. \A a, b, c \in Nat : Alike(a, b) => Alike(a + Smaller(n, c), b + c)
  BY DEF Smaller
<1>4. ASSUME NEW i \in 1 .. m, NEW s \in Texts, NEW t \in Texts, <<s, t>> \in R
      PROVE  <<s \o first[i], t \o texts[i]>> \in R
  <2> DEFINE x == first[i]
             y == texts[i]
  <2>1. x \in Texts /\ y \in Texts /\ Len(x) = Smaller(n, Len(y))
        /\ \A v \in Nat : AtMost(x, v) = Smaller(n, AtMost(y, v))
    BY <1>1, TakeSorted, AtMostOfFirst
  <2>2. Alike(Len(s), Len(t)) /\ \A v \in Nat : Alike(AtMost(s, v), AtMost(t, v))
    BY <1>4
  <2> HIDE DEF x, y, Alike
  <2>3. /\ s \o x \in Texts /\ t \o y \in Texts
        /\ Len(s \o x) = Len(s) + Smaller(n, Len(y)) /\ Len(t \o y) = Len(t) + Len(y)
        /\ Len(s) \in Nat /\ Len(t) \in Nat /\ Len(y) \in Nat
    BY <2>1, TextConcat
  <2>4. Alike(Len(s \o x), Len(t \o y))
    BY <1>3, <2>2, <2>3
  <2>5. ASSUME NEW v \in Nat
        PROVE  Alike(AtMost(s \o x, v), AtMost(t \o y, v))
    <3>1. /\ AtMost(s \o x, v) = AtMost(s, v) + Smaller(n, AtMost(y, v))
          /\ AtMost(t \o y, v) = AtMost(t, v) + AtMost(y, v)
      BY <2>1, AtMostConcat
    <3>2. AtMost(s, v) \in Nat /\ AtMost(t, v) \in Nat /\ AtMost(y, v) \in Nat
      BY <2>1, UptoFinite
    <3> QED
      BY <1>3, <2>2, <3>1, <3>2
  <2>6. <<s \o x, t \o y>> \in R
    BY <2>3, <2>4, <2>5
  <2> QED
    BY <2>6 DEF x, y
<1>5. \A s \in Texts, t \in Texts :
        <<s, t>> \in R => Take(Sorted(s), n) = Take(Sorted(t), n)
  BY FirstOfSorted
<1> HIDE DEF first, R
<1>6. <<FlattenSeq(first), FlattenSeq(texts)>> \in R
  BY <1>1, <1>2, <1>4, RelatedParts
<1>7. FlattenSeq(first) \in Texts /\ FlattenSeq(texts) \in Texts
  BY <1>6 DEF R
<1>8. Take(Sorted(FlattenSeq(first)), n) = Take(Sorted(FlattenSeq(texts)), n)
  BY <1>5, <1>6, <1>7
<1> QED
  BY <1>1, <1>8 DEF first

(***************************************************************************)
(* Counts added up.                                                        *)
(***************************************************************************)
Adding(counts, f) == f = [i \in 0 .. Len(counts) |-> IF i = 0 THEN 0 ELSE f[i - 1] + counts[i]]

LEMMA TotalPartial ==
  ASSUME NEW counts \in Texts
  PROVE  \E g \in [0 .. Len(counts) -> Nat] :
           /\ g[0] = 0
           /\ \A i \in 1 .. Len(counts) : g[i] = g[i - 1] + counts[i]
           /\ Total(counts) = g[Len(counts)]
<1> DEFINE n == Len(counts)
           h == [i \in 1 .. n |-> [x \in Nat |-> x + counts[i]]]
           c == CHOOSE x : Adding(counts, x)
<1>1. n \in Nat /\ Len(counts) = n /\ \A i \in 1 .. n : counts[i] \in Nat
  BY DEF Texts
<1>2. h \in [1 .. n -> [Nat -> Nat]] /\ 0 \in Nat
  BY <1>1
<1> HIDE DEF n
<1>3. PICK g \in [0 .. n -> Nat] : Recurs(g, n, 0, h)
  <2> HIDE DEF h
  <2> QED
    BY <1>1, <1>2, RecursionExists
<1>4. g[0] = 0 /\ \A i \in 1 .. n : g[i] = g[i - 1] + counts[i]
  <2>1. g[0] = 0 /\ \A i \in 1 .. n : g[i] = h[i][g[i - 1]]
    BY <1>3 DEF Recurs
  <2>2. \A i \in 1 .. n : g[i - 1] \in Nat
    BY <1>1
  <2> QED
    BY <2>1, <2>2
<1>5. Adding(counts, g)
  <2>1. \A i \in 0 .. n : g[i] = IF i = 0 THEN 0 ELSE g[i - 1] + counts[i]
    BY <1>1, <1>4
  <2>2. g = [i \in 0 .. n |-> g[i]]
    OBVIOUS
  <2> QED
    BY <1>1, <2>1, <2>2 DEF Adding
<1>6. Adding(counts, c)
  BY <1>5
<1>7. Total(counts) = c[n]
  BY <1>1 DEF Total, Adding
<1>8. c[0] = 0 /\ \A i \in 1 .. n : c[i] = c[i - 1] + counts[i]
  <2> HIDE DEF c
  <2>1. \A i \in 0 .. n : c[i] = IF i = 0 THEN 0 ELSE c[i - 1] + counts[i]
    BY <1>1, <1>6 DEF Adding
  <2> QED
    BY <1>1, <2>1
<1> HIDE DEF c, h
<1> DEFINE P == {i \in Nat : i <= n => c[i] = g[i]}
<1>9. 0 \in P
  BY <1>4, <1>8
<1>10. ASSUME NEW i \in Nat, i \in P
       PROVE  i + 1 \in P
  <2> SUFFICES ASSUME i + 1 <= n
               PROVE  c[i + 1] = g[i + 1]
    OBVIOUS
  <2>1. i + 1 \in 1 .. n /\ (i + 1) - 1 = i /\ c[i] = g[i]
    BY <1>1, <1>10
  <2>2. c[i + 1] = c[i] + counts[i + 1] /\ g[i + 1] = g[i] + counts[i + 1]
    BY <1>4, <1>8, <2>1
  <2> QED
    BY <2>1, <2>2
<1>11. n \in P
  <2> HIDE DEF P
  <2> QED
    BY <1>1, <1>9, <1>10, Climb
<1>12. c[n] = g[n]
  BY <1>1, <1>11
<1> QED
  BY <1>1, <1>4, <1>7, <1>12

LEMMA TotalGrows ==
  ASSUME NEW counts \in Texts, NEW k \in Nat
  PROVE  /\ Total(counts) \in Nat
         /\ Total(<<>>) = 0
         /\ Total(counts \o <<k>>) = Total(counts) + k
<1> DEFINE n == Len(counts)
           more == Append(counts, k)
<1>1. /\ n \in Nat /\ Len(counts) = n
      /\ more \in Texts /\ Len(more) = n + 1 /\ more[n + 1] = k
      /\ \A i \in 1 .. n : more[i] = counts[i] /\ counts[i] \in Nat
  BY DEF Texts
<1>0. more = counts \o <<k>>
  BY TextAppend
<1> HIDE DEF n, more
<1>2. PICK g \in [0 .. n -> Nat] :
        /\ g[0] = 0 /\ \A i \in 1 .. n : g[i] = g[i - 1] + counts[i]
        /\ Total(counts) = g[n]
  BY <1>1, TotalPartial
<1>3. PICK f \in [0 .. n + 1 -> Nat] :
        /\ f[0] = 0 /\ \A i \in 1 .. n + 1 : f[i] = f[i - 1] + more[i]
        /\ Total(more) = f[n + 1]
  <2>1. \E f \in [0 .. Len(more) -> Nat] :
          /\ f[0] = 0 /\ \A i \in 1 .. Len(more) : f[i] = f[i - 1] + more[i]
          /\ Total(more) = f[Len(more)]
    BY <1>1, TotalPartial
  <2> QED
    BY <1>1, <2>1
<1> DEFINE P == {i \in Nat : i <= n => f[i] = g[i]}
<1>4. 0 \in P
  BY <1>2, <1>3
<1>5. ASSUME NEW i \in Nat, i \in P
      PROVE  i + 1 \in P
  <2> SUFFICES ASSUME i + 1 <= n
               PROVE  f[i + 1] = g[i + 1]
    OBVIOUS
  <2>1. i + 1 \in 1 .. n /\ i + 1 \in 1 .. n + 1 /\ (i + 1) - 1 = i
    BY <1>1
  <2>2. f[i] = g[i]
    BY <1>1, <1>5
  <2>3. f[i + 1] = f[i] + more[i + 1] /\ g[i + 1] = g[i] + counts[i + 1]
    BY <1>2, <1>3, <2>1
  <2> QED
    BY <1>1, <2>1, <2>2, <2>3
<1>6. n \in P
  <2> HIDE DEF P
  <2> QED
    BY <1>1, <1>4, <1>5, Climb
<1>7. f[n] = g[n] /\ n + 1 \in 1 .. n + 1 /\ (n + 1) - 1 = n /\ g[n] \in Nat
  BY <1>1, <1>6
<1>8. f[n + 1] = f[n] + k
  BY <1>1, <1>3, <1>7
<1>9. Total(<<>>) = 0
  <2> DEFINE none == <<>>
  <2>1. none \in Texts /\ Len(none) = 0
    BY DEF Texts
  <2> HIDE DEF none
  <2>2. \E h \in [0 .. Len(none) -> Nat] : h[0] = 0 /\ Total(none) = h[Len(none)]
    BY <2>1, TotalPartial
  <2>3. Total(none) = 0
    BY <2>1, <2>2
  <2> QED
    BY <2>3 DEF none
<1> QED
  BY <1>0, <1>2, <1>3, <1>7, <1>8, <1>9

\* Counts of the parts of a text, some of them missing, add up to no more
\* than its length; to its length when none is missing.
LEMMA CountOfParts ==
  ASSUME NEW m \in Nat, NEW texts \in [1 .. m -> Texts], NEW counts \in [1 .. m -> Texts],
         \A i \in 1 .. m : counts[i] \in {<<>>, <<Len(texts[i])>>}
  PROVE  /\ Total(FlattenSeq(counts)) \in Nat /\ FlattenSeq(counts) \in Texts
         /\ Total(FlattenSeq(counts)) <= Len(FlattenSeq(texts))
         /\ (\A i \in 1 .. m : counts[i] # <<>>) =>
              Total(FlattenSeq(counts)) = Len(FlattenSeq(texts))
<1> DEFINE all == \A i \in 1 .. m : counts[i] # <<>>
           R == {p \in Texts \X Texts : /\ Total(p[1]) <= Len(p[2])
                                        /\ all => Total(p[1]) = Len(p[2])}
<1>1. <<<<>>, <<>>>> \in R
  <2> DEFINE none == <<>>
  <2>1. none \in Texts /\ Len(none) = 0 /\ Total(none) = 0
    <3>1. none \in Texts /\ Len(none) = 0
      BY DEF Texts
    <3>2. 0 \in Nat
      OBVIOUS
    <3> QED
      BY <3>1, <3>2, TotalGrows
  <2> HIDE DEF none, all
  <2>2. <<none, none>> \in R
    BY <2>1
  <2> QED
    BY <2>2 DEF none
<1>2. ASSUME NEW i \in 1 .. m, NEW s \in Texts, NEW t \in Texts, <<s, t>> \in R
      PROVE  <<s \o counts[i], t \o texts[i]>> \in R
  <2> DEFINE x == counts[i]
             y == texts[i]
  <2>1. x \in Texts /\ y \in Texts /\ x \in {<<>>, <<Len(y)>>} /\ (all => x # <<>>)
    OBVIOUS
  <2>2. Total(s) <= Len(t) /\ (all => Total(s) = Len(t))
    BY <1>2
  <2> HIDE DEF x, y, all
  <2>3. /\ s \o x \in Texts /\ t \o y \in Texts /\ Len(t \o y) = Len(t) + Len(y)
        /\ Len(t) \in Nat /\ Len(y) \in Nat /\ Total(s) \in Nat
    <3>1. 0 \in Nat
      OBVIOUS
    <3> QED
      BY <2>1, <3>1, TextConcat, TotalGrows
  <2>4. CASE x = <<>>
    <3>1. s \o x = s
      BY <2>4, TextConcat
    <3>2. Total(s \o x) <= Len(t \o y) /\ ~all
      BY <2>1, <2>2, <2>3, <2>4, <3>1
    <3> QED
      BY <2>3, <3>2 DEF x, y
  <2>5. CASE x = <<Len(y)>>
    <3>1. Total(s \o x) = Total(s) + Len(y)
      BY <2>3, <2>5, TotalGrows
    <3>2. Total(s \o x) <= Len(t \o y) /\ (all => Total(s \o x) = Len(t \o y))
      BY <2>2, <2>3, <3>1
    <3> QED
      BY <2>3, <3>2 DEF x, y
  <2> QED
    BY <2>1, <2>4, <2>5
<1> HIDE DEF R
<1>3. <<FlattenSeq(counts), FlattenSeq(texts)>> \in R
  BY <1>1, <1>2, RelatedParts
<1>4. /\ FlattenSeq(counts) \in Texts
      /\ Total(FlattenSeq(counts)) <= Len(FlattenSeq(texts))
      /\ all => Total(FlattenSeq(counts)) = Len(FlattenSeq(texts))
  BY <1>3 DEF R
<1>5. Total(FlattenSeq(counts)) \in Nat
  <2>1. 0 \in Nat
    OBVIOUS
  <2> QED
    BY <1>4, <2>1, TotalGrows
<1> QED
  BY <1>4, <1>5

-----------------------------------------------------------------------------
(***************************************************************************)
(* The corpus and its shards.                                              *)
(***************************************************************************)
LEMMA SplitText ==
  ASSUME NEW s \in Texts, NEW a \in 0 .. Len(s), NEW b \in 0 .. Len(s), a <= b
  PROVE  /\ SubSeq(s, a + 1, b) \in Texts
         /\ SubSeq(s, 1, a) \o SubSeq(s, a + 1, b) = SubSeq(s, 1, b)
         /\ SubSeq(s, 1, 0) = <<>> /\ SubSeq(s, 1, Len(s)) = s
<1>1. s \in Seq(Nat) /\ Len(s) \in Nat /\ \A i \in 1 .. Len(s) : s[i] \in Nat
  BY DEF Texts
<1>2. SubSeq(s, a + 1, b) \in Texts /\ Len(SubSeq(s, a + 1, b)) = b - a
      /\ \A i \in 1 .. b - a : SubSeq(s, a + 1, b)[i] = s[a + i]
  BY <1>1 DEF Texts
<1>3. \A n \in 0 .. Len(s) :
        /\ SubSeq(s, 1, n) \in Texts /\ Len(SubSeq(s, 1, n)) = n
        /\ \A i \in 1 .. n : SubSeq(s, 1, n)[i] = s[i]
  BY <1>1, FirstOnes DEF Texts
<1> DEFINE x == SubSeq(s, 1, a)
           y == SubSeq(s, a + 1, b)
           z == SubSeq(s, 1, b)
<1>4. x \in Texts /\ y \in Texts /\ z \in Texts /\ Len(x) = a /\ Len(y) = b - a /\ Len(z) = b
  BY <1>2, <1>3
<1>5. \A i \in 1 .. a : x[i] = s[i]
  BY <1>3
<1>6. \A i \in 1 .. b - a : y[i] = s[a + i]
  BY <1>2
<1>7. \A i \in 1 .. b : z[i] = s[i]
  BY <1>3
<1> HIDE DEF x, y, z
<1>8. x \o y \in Texts /\ Len(x \o y) = b
  BY <1>4, TextConcat
<1>9. ASSUME NEW i \in 1 .. b
      PROVE  (x \o y)[i] = z[i]
  <2>1. i \in Nat \ {0} /\ i <= Len(x) + Len(y)
    BY <1>4
  <2>2. (x \o y)[i] = IF i <= a THEN x[i] ELSE y[i - a]
    BY <1>4, <2>1, PlaceInConcat
  <2>3. CASE i <= a
    BY <1>5, <1>7, <2>2, <2>3
  <2>4. CASE ~(i <= a)
    <3>1. i - a \in 1 .. b - a /\ a + (i - a) = i
      BY <2>4
    <3> QED
      BY <1>6, <1>7, <2>2, <2>4, <3>1
  <2> QED
    BY <2>3, <2>4
<1>10. x \o y = z
  BY <1>4, <1>8, <1>9, SameText
<1>11. SubSeq(s, 1, 0) = <<>> /\ SubSeq(s, 1, Len(s)) = s
  BY <1>1
<1> QED
  BY <1>2, <1>10, <1>11 DEF x, y, z

LEMMA CorpusInShards ==
  ASSUME corpus \in Texts, cuts \in Cuts(Len(corpus))
  PROVE  /\ [i \in 1 .. Shards |-> Shard(i)] \in [1 .. Shards -> Texts]
         /\ FlattenSeq([i \in 1 .. Shards |-> Shard(i)]) = corpus
<1> DEFINE f == [i \in 1 .. Shards |-> Shard(i)]
           P == {m \in Nat : m <= Shards => FirstParts(f, m) = SubSeq(corpus, 1, cuts[m])}
<1>1. /\ Shards \in Nat \ {0} /\ Len(corpus) \in Nat
      /\ cuts[0] = 0 /\ cuts[Shards] = Len(corpus)
      /\ \A i \in 0 .. Shards : cuts[i] \in 0 .. Len(corpus)
      /\ \A i \in 1 .. Shards : cuts[i - 1] <= cuts[i]
  BY ConstantsAssumption DEF Cuts, Texts
<1>2. ASSUME NEW i \in 1 .. Shards
      PROVE  /\ Shard(i) \in Texts
             /\ SubSeq(corpus, 1, cuts[i - 1]) \o Shard(i) = SubSeq(corpus, 1, cuts[i])
  <2>1. /\ cuts[i - 1] \in 0 .. Len(corpus) /\ cuts[i] \in 0 .. Len(corpus)
        /\ cuts[i - 1] <= cuts[i]
    BY <1>1
  <2> QED
    BY <2>1, SplitText DEF Shard
<1>3. f \in [1 .. Shards -> Texts]
  BY <1>2
<1>0. SubSeq(corpus, 1, 0) = <<>> /\ SubSeq(corpus, 1, Len(corpus)) = corpus
  BY <1>1, SplitText
<1>4. 0 \in P
  BY <1>0, <1>1, <1>3, PartByPart
<1>5. ASSUME NEW m \in Nat, m \in P
      PROVE  m + 1 \in P
  <2> SUFFICES ASSUME m + 1 <= Shards
               PROVE  FirstParts(f, m + 1) = SubSeq(corpus, 1, cuts[m + 1])
    OBVIOUS
  <2>1. m + 1 \in 1 .. Shards /\ (m + 1) - 1 = m /\ f[m + 1] = Shard(m + 1)
    BY <1>1
  <2>2. FirstParts(f, m) = SubSeq(corpus, 1, cuts[m])
    BY <1>1, <1>5
  <2> HIDE DEF f
  <2>3. FirstParts(f, m + 1) = FirstParts(f, m) \o f[m + 1]
    BY <1>1, <1>3, PartByPart
  <2> QED
    BY <1>2, <2>1, <2>2, <2>3
<1>6. Shards \in P
  <2> HIDE DEF P
  <2> QED
    BY <1>1, <1>4, <1>5, Climb
<1> HIDE DEF f
<1>7. FirstParts(f, Shards) = FlattenSeq(f)
  BY <1>1, <1>3, PartByPart
<1>8. FirstParts(f, Shards) = SubSeq(corpus, 1, cuts[Shards])
  BY <1>1, <1>6
<1> QED
  BY <1>0, <1>1, <1>3, <1>7, <1>8 DEF f

-----------------------------------------------------------------------------
(***************************************************************************)
(* Commands and what the shards run of them.                               *)
(***************************************************************************)
Stages == ToSet(stages)

LEMMA CommandTyped ==
  ASSUME stages \in Commands
  PROVE  /\ stages \in Seq(Stages) /\ stages # <<>>
         /\ \A stage \in Stages : IsStage(stage)
         /\ Front(stages) \in Seq(Stages) /\ Last(stages) \in Stages
         /\ Len(Front(stages)) = Len(stages) - 1
         /\ \A i \in 1 .. Len(stages) - 1 : Front(stages)[i] = stages[i]
         /\ stages = Append(Front(stages), Last(stages))
<1>1. /\ stages \in Seq(Stages) /\ stages # <<>>
      /\ \A i \in 1 .. Len(stages) : IsStage(stages[i])
  BY ConstantsAssumption DEF Stages
<1>2. \A stage \in Stages : IsStage(stage)
  BY <1>1 DEF Stages, ToSet
<1> QED
  BY <1>1, <1>2, FrontAndLast

LEMMA PipelineTyped ==
  ASSUME NEW S, \A stage \in S : IsStage(stage), NEW pipe \in Seq(S), pipe # <<>>,
         NEW s \in Texts
  PROVE  /\ Output(pipe, s) \in Texts
         /\ RunPipeline(pipe, s) \in [out : Texts, rc : {0, 1}]
         /\ RunWithoutFile(pipe) \in [out : Texts, rc : {0, 1, 2}]
<1>1. ASSUME NEW p \in Seq(S), NEW t \in Texts
      PROVE  Output(p, t) \in Texts
  <2>1. \E g \in [0 .. Len(p) -> Texts] : Output(p, t) = g[Len(p)]
    BY OutputPartial
  <2> QED
    BY <2>1
<1>2. \A p \in Seq(S) : \A t \in Texts : RunPipeline(p, t) \in [out : Texts, rc : {0, 1}]
  BY <1>1 DEF RunPipeline
<1>3. Tail(pipe) \in Seq(S) /\ <<>> \in Texts
  BY DEF Texts
<1>4. RunWithoutFile(pipe) \in [out : Texts, rc : {0, 1, 2}]
  BY <1>2, <1>3 DEF RunWithoutFile
<1> QED
  BY <1>1, <1>2, <1>4

\* What classify() found out about a command.
LEMMA Classified ==
  /\ strategy \in {"concat", "head", "count", "sort_head", "fallback"}
  /\ strategy = "concat" => AllStateless(stages)
  /\ strategy = "head" => Last(stages).prog = "head" /\ AllStateless(Front(stages))
  /\ strategy = "count" => Last(stages).prog = "wc" /\ AllStateless(Front(stages))
  /\ strategy = "sort_head" =>
       /\ Last(stages).prog = "head"
       /\ Front(stages) # <<>>
       /\ IF hasUniq
            THEN AllStateless(Front(Front(Front(stages)))) /\ EndsInSortUniq(Front(stages))
            ELSE AllStateless(Front(Front(stages))) /\ EndsInSort(Front(stages))
<1> DEFINE last == Last(stages)
           body == Front(stages)
<1>1. EndsInSortUniq(body) => ~EndsInSort(body) /\ body # <<>>
  BY DEF EndsInSortUniq, EndsInSort, UniqPlain, SortPlain
<1>2. EndsInSort(body) => body # <<>>
  BY DEF EndsInSort
<1>3. strategy =
        IF stages[1].prog \notin {"rg", "grep"} THEN "fallback"
        ELSE IF last.prog = "head"
          THEN IF last.n = 0 THEN "fallback"
               ELSE IF EndsInSort(body)
                 THEN IF AllStateless(Front(body)) THEN "sort_head" ELSE "fallback"
               ELSE IF EndsInSortUniq(body)
                 THEN IF AllStateless(Front(Front(body))) THEN "sort_head" ELSE "fallback"
               ELSE IF AllStateless(body) THEN "head" ELSE "fallback"
        ELSE IF last.prog = "wc" /\ last.flags = {"lines"}
          THEN IF AllStateless(body) THEN "count" ELSE "fallback"
        ELSE IF AllStateless(stages) THEN "concat" ELSE "fallback"
  BY DEF strategy, Strategy
<1> HIDE DEF last, body
<1>5. hasUniq <=> EndsInSortUniq(body)
  BY DEF hasUniq, body
<1> QED
  BY <1>1, <1>2, <1>3, <1>5 DEF last, body

\* The stages before the sort of a sort_head command, and the sort that the
\* shards run.
Before == IF hasUniq THEN Front(Front(Front(stages))) ELSE Front(Front(stages))
ShardSort == [Last(Front(stages)) EXCEPT !.prog = "sort", !.flags = {}]

LEMMA BeforeTyped ==
  ASSUME stages \in Commands, strategy = "sort_head"
  PROVE  /\ Before \in Seq(Stages) /\ Len(Before) <= Len(stages)
         /\ \A i \in 1 .. Len(Before) : Before[i] = stages[i]
         /\ AllStateless(Before)
         /\ IsStage(ShardSort) /\ ShardSort.prog = "sort" /\ ShardSort.flags = {}
         /\ ShardPipeline = Append(Append(Before, ShardSort), Last(stages))
         /\ IF hasUniq
              THEN \E sort, uniq \in Stages :
                     /\ Front(stages) = Append(Append(Before, sort), uniq)
                     /\ SortPlain(sort) /\ UniqPlain(uniq)
              ELSE /\ Front(stages) = Append(Before, Last(Front(stages)))
                   /\ SortPlain(Last(Front(stages)))
<1> DEFINE body == Front(stages)
           top == Last(stages)
<1>1. /\ stages \in Seq(Stages) /\ stages # <<>>
      /\ \A stage \in Stages : IsStage(stage)
      /\ body \in Seq(Stages) /\ top \in Stages /\ Len(body) = Len(stages) - 1
      /\ \A i \in 1 .. Len(stages) - 1 : body[i] = stages[i]
  BY CommandTyped
<1>2. /\ body # <<>>
      /\ IF hasUniq THEN AllStateless(Front(Front(body))) /\ EndsInSortUniq(body)
                    ELSE AllStateless(Front(body)) /\ EndsInSort(body)
  BY Classified
<1> HIDE DEF body, top
<1>3. /\ Front(body) \in Seq(Stages) /\ Last(body) \in Stages
      /\ Len(Front(body)) = Len(body) - 1
      /\ body = Append(Front(body), Last(body))
      /\ \A i \in 1 .. Len(body) - 1 : Front(body)[i] = body[i]
  BY <1>1, <1>2, FrontAndLast
<1>4. Before = IF hasUniq THEN Front(Front(body)) ELSE Front(body)
  BY DEF Before, body
<1>5. IsStage(ShardSort) /\ ShardSort.prog = "sort" /\ ShardSort.flags = {}
  <2>1. ShardSort = [Last(body) EXCEPT !.prog = "sort", !.flags = {}]
    BY DEF ShardSort, body
  <2> DEFINE x == Last(body)
  <2>2. /\ x \in [prog : {x.prog}, flags : SUBSET STRING, n : Nat, each : {x.each}]
        /\ \A line \in DOMAIN x.each : x.each[line] \in Seq(Nat)
    BY <1>1, <1>3 DEF IsStage
  <2> HIDE DEF x
  <2>3. /\ ShardSort \in [prog : {ShardSort.prog}, flags : SUBSET STRING, n : Nat,
                          each : {ShardSort.each}]
        /\ ShardSort.prog = "sort" /\ ShardSort.flags = {} /\ ShardSort.each = x.each
    <3>1. ShardSort = [x EXCEPT !.prog = "sort", !.flags = {}]
      BY <2>1 DEF x
    <3>2. ShardSort = [prog |-> "sort", flags |-> {}, n |-> x.n, each |-> x.each]
      BY <2>2, <3>1
    <3>3. x.n \in Nat /\ {} \in SUBSET STRING
      BY <2>2
    <3> QED
      BY <3>2, <3>3
  <2> QED
    BY <2>2, <2>3 DEF IsStage
<1>6. ShardPipeline = Before \o <<ShardSort, top>>
  BY DEF ShardPipeline, Before, ShardSort, top
<1>7. CASE ~hasUniq
  <2>1. Before = Front(body) /\ AllStateless(Before) /\ SortPlain(Last(body))
    BY <1>2, <1>4, <1>7 DEF EndsInSort
  <2>2. Before \in Seq(Stages) /\ Len(Before) <= Len(stages)
        /\ \A i \in 1 .. Len(Before) : Before[i] = stages[i]
    BY <1>1, <1>3, <2>1
  <2>3. body = Append(Before, Last(body))
    BY <1>3, <2>1
  <2>4. Before \o <<ShardSort, top>> = Append(Append(Before, ShardSort), top)
    BY <2>2
  <2> QED
    BY <1>5, <1>6, <1>7, <2>1, <2>2, <2>3, <2>4 DEF body, top
<1>8. CASE hasUniq
  <2> DEFINE rest == Front(body)
  <2>1. /\ Before = Front(rest) /\ AllStateless(Before) /\ UniqPlain(Last(body))
        /\ Len(body) >= 2 /\ SortPlain(body[Len(body) - 1])
    BY <1>2, <1>4, <1>8 DEF EndsInSortUniq
  <2>2. rest \in Seq(Stages) /\ rest # <<>> /\ Len(rest) = Len(body) - 1
        /\ Len(body) \in Nat
    BY <1>1, <1>3, <2>1
  <2>3. \A i \in 1 .. Len(rest) : rest[i] = body[i] /\ body[i] = stages[i]
    BY <1>1, <1>3, <2>2
  <2>4. Last(rest) = body[Len(body) - 1]
    BY <2>2, <2>3 DEF Last
  <2>5. body = Append(rest, Last(body))
    BY <1>3
  <2> HIDE DEF rest
  <2>6. /\ Before \in Seq(Stages) /\ Last(rest) \in Stages
        /\ Len(Before) = Len(rest) - 1
        /\ rest = Append(Before, Last(rest))
        /\ \A i \in 1 .. Len(rest) - 1 : Before[i] = rest[i]
    BY <2>1, <2>2, FrontAndLast
  <2>7. Len(Before) <= Len(stages) /\ \A i \in 1 .. Len(Before) : Before[i] = stages[i]
    BY <1>1, <2>2, <2>3, <2>6
  <2>8. Before \o <<ShardSort, top>> = Append(Append(Before, ShardSort), top)
    BY <2>6
  <2>9. body = Append(Append(Before, Last(rest)), Last(body)) /\ SortPlain(Last(rest))
    BY <2>1, <2>4, <2>5, <2>6
  <2>10. \E sort, uniq \in Stages :
           /\ body = Append(Append(Before, sort), uniq)
           /\ SortPlain(sort) /\ UniqPlain(uniq)
    BY <1>3, <2>1, <2>6, <2>9
  <2> QED
    BY <1>5, <1>6, <1>8, <2>1, <2>6, <2>7, <2>8, <2>10 DEF body, top
<1> QED
  BY <1>7, <1>8

LEMMA ShardPipelineTyped ==
  ASSUME stages \in Commands
  PROVE  \E S : /\ \A stage \in S : IsStage(stage)
                /\ ShardPipeline \in Seq(S) /\ ShardPipeline # <<>>
<1>1. CASE strategy # "sort_head"
  <2>1. ShardPipeline = stages
    BY <1>1 DEF ShardPipeline
  <2> QED
    BY <2>1, CommandTyped
<1>2. CASE strategy = "sort_head"
  <2> DEFINE S == Stages \cup {ShardSort}
  <2>1. /\ \A stage \in S : IsStage(stage)
        /\ Before \in Seq(Stages) /\ ShardSort \in S /\ Last(stages) \in S
        /\ ShardPipeline = Append(Append(Before, ShardSort), Last(stages))
    BY <1>2, BeforeTyped, CommandTyped
  <2>2. Before \in Seq(S)
    BY <2>1
  <2> HIDE DEF S
  <2>3. ShardPipeline \in Seq(S) /\ ShardPipeline # <<>>
    BY <2>1, <2>2
  <2> QED
    BY <2>1, <2>3
<1> QED
  BY <1>1, <1>2

-----------------------------------------------------------------------------
(***************************************************************************)
(* The inductive invariant: the file a call names at each of its points,   *)
(* where a fallback may be under way, what a shard's part can be, and what *)
(* an answer of the engine was merged from.                                *)
(***************************************************************************)
Given(out, rc) == [out |-> IF rc = -1 THEN <<>> ELSE out, rc |-> rc, timedOut |-> rc = -1]

Underway ==
  /\ pc = "tool" => file = Logical
  /\ pc \in {"shards", "fallback"} => file = Actual
  /\ pc = "shards" => strategy # "fallback"
  /\ pc = "fallback" => strategy = "fallback"

PartsRun ==
  \A i \in 1 .. Shards : parts[i] \in {Running, TimedOut, RunPipeline(ShardPipeline, Shard(i))}

Merged ==
  pc = "answered" /\ strategy # "fallback" =>
    /\ Finished
    /\ \/ strategy = "concat" /\ answer = Given(Printed, OverallRc)
       \/ strategy = "head" /\ answer = Given(Take(Printed, limit), OverallRc)
       \/ strategy = "count" /\ answer = Given(<<Total(Printed)>>, 0)
       \/ strategy = "sort_head" /\
            \/ answer = Given(Take(IF hasUniq THEN Uniq(Sorted(Printed)) ELSE Sorted(Printed), limit), 0)
            \/ answer = Given(<<>>, -1)

IInv == TypeOK /\ Underway /\ PartsRun /\ Merged

LEMMA PrintedTyped ==
  ASSUME TypeOK
  PROVE  /\ corpus \in Texts /\ cuts \in Cuts(Len(corpus))
         /\ [i \in 1 .. Shards |-> parts[i].out] \in [1 .. Shards -> Texts]
         /\ Printed \in Texts /\ limit \in Nat
<1>1. corpus \in Texts /\ cuts \in Cuts(Len(corpus)) /\ Shards \in Nat
  BY ConstantsAssumption DEF TypeOK, Texts
<1>2. [i \in 1 .. Shards |-> parts[i].out] \in [1 .. Shards -> Texts]
  BY DEF TypeOK, Texts
<1>3. limit \in Nat
  <2>1. IsStage(Last(stages))
    BY CommandTyped DEF TypeOK
  <2> QED
    BY <2>1 DEF limit, IsStage
<1> QED
  BY <1>1, <1>2, <1>3, FlattenTyped DEF Printed, Texts

LEMMA Codes ==
  ASSUME IInv, Finished
  PROVE  OverallRc \in {-1, 0, 1}
<1>1. Shards \in Nat \ {0}
  BY ConstantsAssumption
<1>2. ASSUME NEW i \in 1 .. Shards
      PROVE  parts[i].rc \in {-1, 0, 1}
  <2>1. PICK S : /\ \A stage \in S : IsStage(stage)
                 /\ ShardPipeline \in Seq(S) /\ ShardPipeline # <<>>
    BY ShardPipelineTyped DEF IInv, TypeOK
  <2>2. Shard(i) \in Texts
    BY PrintedTyped, CorpusInShards DEF IInv
  <2>3. RunPipeline(ShardPipeline, Shard(i)) \in [out : Texts, rc : {0, 1}]
    BY <2>1, <2>2, PipelineTyped
  <2>4. parts[i] \in {TimedOut, RunPipeline(ShardPipeline, Shard(i))}
    BY DEF IInv, PartsRun, Finished
  <2> QED
    BY <2>3, <2>4 DEF TimedOut
<1> QED
  BY <1>1, <1>2 DEF OverallRc

LEMMA AnswerIs ==
  ASSUME NEW out, NEW rc, Answer(out, rc)
  PROVE  answer' = Given(out, rc)
BY DEF Answer, Given

LEMMA GivenTyped ==
  ASSUME NEW out \in Texts, NEW rc \in -1 .. 2
  PROVE  Given(out, rc) \in [out : Seq(Nat), rc : -1 .. 2, timedOut : BOOLEAN]
BY DEF Given, Texts

\* A merge that leaves a call answered keeps the invariant.
LEMMA MergeKeeps ==
  ASSUME IInv, pc = "shards", Finished, pc' = "answered",
         UNCHANGED <<stages, file, corpus, cuts, parts>>,
         NEW out \in Texts, NEW rc \in -1 .. 2, answer' = Given(out, rc),
         \/ strategy = "concat" /\ answer' = Given(Printed, OverallRc)
         \/ strategy = "head" /\ answer' = Given(Take(Printed, limit), OverallRc)
         \/ strategy = "count" /\ answer' = Given(<<Total(Printed)>>, 0)
         \/ strategy = "sort_head" /\
              \/ answer' = Given(Take(IF hasUniq THEN Uniq(Sorted(Printed)) ELSE Sorted(Printed), limit), 0)
              \/ answer' = Given(<<>>, -1)
  PROVE  IInv'
<1>1. answer' \in [out : Seq(Nat), rc : -1 .. 2, timedOut : BOOLEAN]
  BY GivenTyped
<1>2. TypeOK'
  BY <1>1 DEF IInv, TypeOK, Cuts
<1>3. Underway'
  BY DEF Underway
<1>4. PartsRun'
  <2>1. ShardPipeline' = ShardPipeline /\ \A i : Shard(i)' = Shard(i)
    BY DEF ShardPipeline, strategy, hasUniq, Shard
  <2> QED
    BY <2>1 DEF IInv, PartsRun
<1>5. Merged'
  <2>1. /\ Finished' = Finished /\ Printed' = Printed /\ OverallRc' = OverallRc
        /\ strategy' = strategy /\ limit' = limit /\ hasUniq' = hasUniq
    BY DEF Finished, Printed, OverallRc, strategy, limit, hasUniq
  <2> QED
    BY <2>1 DEF Merged
<1> QED
  BY <1>2, <1>3, <1>4, <1>5 DEF IInv

LEMMA InitInv == Init => IInv
<1> SUFFICES ASSUME Init
             PROVE  IInv
  OBVIOUS
<1>1. TypeOK
  BY ConstantsAssumption DEF Init, TypeOK, Running, NoAnswer, Logical, Cuts
<1> QED
  BY <1>1 DEF Init, IInv, Underway, PartsRun, Merged

LEMMA NextInv ==
  ASSUME IInv, [Next]_vars
  PROVE  IInv'
<1>0. TypeOK /\ Underway /\ PartsRun /\ Merged
  BY DEF IInv
<1>1. CASE UNCHANGED vars
  <2>1. /\ Finished' = Finished /\ Printed' = Printed /\ OverallRc' = OverallRc
        /\ strategy' = strategy /\ limit' = limit /\ hasUniq' = hasUniq
        /\ ShardPipeline' = ShardPipeline /\ \A i : Shard(i)' = Shard(i)
    BY <1>1 DEF vars, Finished, Printed, OverallRc, strategy, limit, hasUniq, ShardPipeline, Shard
  <2>2. TypeOK'
    BY <1>0, <1>1 DEF vars, TypeOK, Cuts
  <2> QED
    BY <1>0, <1>1, <2>1, <2>2 DEF IInv, vars, Underway, PartsRun, Merged
<1>2. CASE Dispatch
  <2>1. /\ strategy' = strategy /\ hasUniq' = hasUniq
        /\ ShardPipeline' = ShardPipeline /\ \A i : Shard(i)' = Shard(i)
    BY <1>2 DEF Dispatch, strategy, hasUniq, ShardPipeline, Shard
  <2>2. file' = Actual /\ file' \in Logical .. 2 /\ pc' \in {"shards", "fallback"}
    BY <1>0, <1>2 DEF Dispatch, Underway, Rewritten, Logical, Actual
  <2>3. TypeOK'
    BY <1>0, <1>2, <2>2 DEF Dispatch, TypeOK, Cuts
  <2>4. Underway'
    BY <1>2, <2>1, <2>2 DEF Dispatch, Underway
  <2>5. PartsRun'
    BY <1>0, <1>2, <2>1 DEF Dispatch, PartsRun
  <2>6. Merged'
    BY <2>2 DEF Merged
  <2> QED
    BY <2>3, <2>4, <2>5, <2>6 DEF IInv
<1>3. ASSUME NEW i \in 1 .. Shards, ShardEnds(i) \/ ShardTimesOut(i)
      PROVE  IInv'
  <2> DEFINE run == RunPipeline(ShardPipeline, Shard(i))
  <2>0. PICK new \in {TimedOut, run} :
          /\ pc = "shards" /\ parts' = [parts EXCEPT ![i] = new]
          /\ UNCHANGED <<pc, stages, file, corpus, cuts, answer>>
    BY <1>3 DEF ShardEnds, ShardTimesOut
  <2>1. /\ pc = "shards" /\ parts'[i] = new
        /\ \A k \in 1 .. Shards : k # i => parts'[k] = parts[k]
        /\ parts' = [parts EXCEPT ![i] = new]
        /\ UNCHANGED <<pc, stages, file, corpus, cuts, answer>>
    BY <1>0, <2>0 DEF TypeOK
  <2>2. /\ strategy' = strategy /\ ShardPipeline' = ShardPipeline
        /\ \A k : Shard(k)' = Shard(k)
    BY <2>1 DEF strategy, hasUniq, ShardPipeline, Shard
  <2>3. new \in [out : Seq(Nat), rc : {-1, 0, 1, 999}]
    <3>1. PICK S : /\ \A stage \in S : IsStage(stage)
                   /\ ShardPipeline \in Seq(S) /\ ShardPipeline # <<>>
      BY <1>0, ShardPipelineTyped DEF TypeOK
    <3>2. Shard(i) \in Texts
      BY <1>0, PrintedTyped, CorpusInShards
    <3>3. RunPipeline(ShardPipeline, Shard(i)) \in [out : Texts, rc : {0, 1}]
      BY <3>1, <3>2, PipelineTyped
    <3>4. TimedOut \in [out : Seq(Nat), rc : {-1, 0, 1, 999}]
      BY DEF TimedOut
    <3>5. RunPipeline(ShardPipeline, Shard(i)) \in [out : Seq(Nat), rc : {-1, 0, 1, 999}]
      BY <3>3 DEF Texts
    <3> QED
      BY <2>0, <3>4, <3>5
  <2>4. parts' \in [1 .. Shards -> [out : Seq(Nat), rc : {-1, 0, 1, 999}]]
    BY <1>0, <2>1, <2>3 DEF TypeOK
  <2>5. TypeOK'
    BY <1>0, <2>1, <2>4 DEF TypeOK, Cuts
  <2>6. Underway'
    BY <1>0, <2>1, <2>2 DEF Underway
  <2>7. PartsRun'
    <3> SUFFICES ASSUME NEW k \in 1 .. Shards
                 PROVE  parts'[k] \in {Running, TimedOut, RunPipeline(ShardPipeline, Shard(k))}
      BY <2>2 DEF PartsRun
    <3>1. CASE k = i
      BY <2>0, <2>1, <3>1
    <3>2. CASE k # i
      <4>1. parts'[k] = parts[k]
        BY <2>1, <3>2
      <4> QED
        BY <1>0, <4>1 DEF PartsRun
    <3> QED
      BY <3>1, <3>2
  <2>8. Merged'
    BY <2>1 DEF Merged
  <2> QED
    BY <2>5, <2>6, <2>7, <2>8 DEF IInv
<1>4. Printed \in Texts /\ limit \in Nat /\ Take(Printed, limit) \in Texts
      /\ (Finished => OverallRc \in -1 .. 2)
  <2>1. Printed \in Texts /\ limit \in Nat
    BY <1>0, PrintedTyped
  <2>2. Finished => OverallRc \in {-1, 0, 1}
    BY Codes
  <2> QED
    BY <2>1, <2>2, TakeTyped
<1>5. CASE RunConcat
  <2>1. /\ answer' = Given(Printed, OverallRc) /\ pc = "shards" /\ Finished
        /\ strategy = "concat" /\ pc' = "answered"
        /\ UNCHANGED <<stages, file, corpus, cuts, parts>>
    BY <1>5, AnswerIs DEF RunConcat
  <2> QED
    BY <1>4, <2>1, MergeKeeps
<1>6. CASE RunHead
  <2>1. /\ answer' = Given(Take(Printed, limit), OverallRc) /\ pc = "shards" /\ Finished
        /\ strategy = "head" /\ pc' = "answered"
        /\ UNCHANGED <<stages, file, corpus, cuts, parts>>
    BY <1>6, AnswerIs DEF RunHead
  <2> QED
    BY <1>4, <2>1, MergeKeeps
<1>7. CASE RunCount
  <2>1. /\ answer' = Given(<<Total(Printed)>>, 0) /\ pc = "shards" /\ Finished
        /\ strategy = "count" /\ pc' = "answered"
        /\ UNCHANGED <<stages, file, corpus, cuts, parts>>
    BY <1>7, AnswerIs DEF RunCount
  <2>2. <<Total(Printed)>> \in Texts
    <3>1. 0 \in Nat
      OBVIOUS
    <3>2. Total(Printed) \in Nat
      BY <1>4, <3>1, TotalGrows
    <3> QED
      BY <1>4, <3>2, TextAppend
  <2> QED
    BY <2>1, <2>2, MergeKeeps
<1>8. CASE RunSortHead
  <2> DEFINE all == IF hasUniq THEN Uniq(Sorted(Printed)) ELSE Sorted(Printed)
  <2>1. /\ answer' = Given(Take(all, limit), 0) /\ pc = "shards" /\ Finished
        /\ strategy = "sort_head" /\ pc' = "answered"
        /\ UNCHANGED <<stages, file, corpus, cuts, parts>>
    BY <1>8, AnswerIs DEF RunSortHead
  <2>2. all \in Texts
    BY <1>4, SortedTyped, UniqTyped
  <2>3. Take(all, limit) \in Texts
    <3> HIDE DEF all
    <3> QED
      BY <1>4, <2>2, TakeTyped
  <2> QED
    BY <2>1, <2>3, MergeKeeps
<1>9. CASE MergeTimesOut
  <2>1. /\ answer' = Given(<<>>, -1) /\ pc = "shards" /\ Finished
        /\ strategy = "sort_head" /\ pc' = "answered"
        /\ UNCHANGED <<stages, file, corpus, cuts, parts>>
    BY <1>9, AnswerIs DEF MergeTimesOut
  <2>2. <<>> \in Texts
    BY DEF Texts
  <2> QED
    BY <2>1, <2>2, MergeKeeps
<1>10. CASE RunFallback \/ FallbackTimesOut
  <2>1. /\ pc = "fallback" /\ pc' = "answered" /\ strategy = "fallback"
        /\ file' = Rewritten(file)
        /\ UNCHANGED <<stages, corpus, cuts, parts>>
    BY <1>0, <1>10 DEF RunFallback, FallbackTimesOut, Underway
  <2>2. /\ strategy' = strategy /\ ShardPipeline' = ShardPipeline
        /\ \A k : Shard(k)' = Shard(k)
    BY <2>1 DEF strategy, hasUniq, ShardPipeline, Shard
  <2>3. file' \in Logical .. 2
    BY <1>0, <2>1 DEF Underway, Rewritten, Logical, Actual
  <2>4. \E out \in Texts, rc \in -1 .. 2 : answer' = Given(out, rc)
    <3>1. CASE FallbackTimesOut
      <4>1. <<>> \in Texts
        BY DEF Texts
      <4> QED
        BY <3>1, <4>1, AnswerIs DEF FallbackTimesOut
    <3>2. CASE RunFallback
      <4> DEFINE run == IF file' = Actual THEN RunPipeline(stages, corpus)
                                          ELSE RunWithoutFile(stages)
      <4>1. corpus \in Texts
        BY <1>0, PrintedTyped
      <4>2. /\ stages \in Seq(Stages) /\ stages # <<>>
            /\ \A stage \in Stages : IsStage(stage)
        BY <1>0, CommandTyped DEF TypeOK
      <4>3. /\ RunPipeline(stages, corpus) \in [out : Texts, rc : {0, 1}]
            /\ RunWithoutFile(stages) \in [out : Texts, rc : {0, 1, 2}]
        BY <4>1, <4>2, PipelineTyped
      <4>4. run.out \in Texts /\ run.rc \in -1 .. 2
        BY <4>3
      <4>5. Answer(run.out, run.rc)
        BY <3>2 DEF RunFallback
      <4>6. answer' = Given(run.out, run.rc)
        <5> HIDE DEF run
        <5> QED
          BY <4>5, AnswerIs
      <4> HIDE DEF run
      <4> QED
        BY <4>4, <4>6
    <3> QED
      BY <1>10, <3>1, <3>2
  <2>5. answer' \in [out : Seq(Nat), rc : -1 .. 2, timedOut : BOOLEAN]
    BY <2>4, GivenTyped
  <2>6. TypeOK'
    BY <1>0, <2>1, <2>3, <2>5 DEF TypeOK, Cuts
  <2>7. Underway' /\ Merged'
    BY <2>1, <2>2 DEF Underway, Merged
  <2>8. PartsRun'
    BY <1>0, <2>1, <2>2 DEF PartsRun
  <2> QED
    BY <2>6, <2>7, <2>8 DEF IInv
<1> QED
  BY <1>1, <1>2, <1>3, <1>5, <1>6, <1>7, <1>8, <1>9, <1>10 DEF Next, Done

\* A tool call stays inside its types: the engine's codes are -1, 0 and 1, a
\* shard that runs is never merged, and the name is rewritten twice at most.
THEOREM TypeCorrect == Spec => []TypeOK
<1>1. IInv => TypeOK
  BY DEF IInv
<1> QED
  BY <1>1, InitInv, NextInv, PTL DEF Spec

-----------------------------------------------------------------------------
(***************************************************************************)
(* Exactness: what the stages before the tail of a command print of the    *)
(* shards, end to end, is what they print of the corpus, and each merge    *)
(* makes of it what the tail makes of the whole.                           *)
(***************************************************************************)
Body(p) ==
  /\ p \in Seq(Stages) /\ Len(p) <= Len(stages)
  /\ \A i \in 1 .. Len(p) : p[i] = stages[i]
  /\ AllStateless(p)

LEMMA BodyOutput ==
  ASSUME TypeOK, PositionFree, NEW p, Body(p)
  PROVE  /\ \A s \in Texts : Output(p, s) \in Texts
         /\ [i \in 1 .. Shards |-> Output(p, Shard(i))] \in [1 .. Shards -> Texts]
         /\ Output(p, corpus) = FlattenSeq([i \in 1 .. Shards |-> Output(p, Shard(i))])
<1> DEFINE L == {stage \in Stages : LineByLine(stage)}
           f == [i \in 1 .. Shards |-> Shard(i)]
<1>1. \A stage \in Stages : IsStage(stage)
  BY CommandTyped DEF TypeOK
<1>2. LineByLineStages(L)
  BY <1>1 DEF LineByLineStages
<1>3. \A i \in 1 .. Len(p) : p[i] \in L
  <2>1. /\ stages \in Seq(Stages) /\ p \in Seq(Stages) /\ Len(p) <= Len(stages)
        /\ \A i \in 1 .. Len(p) : p[i] = stages[i] /\ Stateless(p[i])
    BY CommandTyped DEF TypeOK, Body, AllStateless
  <2>2. \A i \in 1 .. Len(p) : i \in 1 .. Len(stages) /\ p[i] \in Stages
    BY <2>1
  <2>3. \A i \in 1 .. Len(p) : p[i].flags \cap {"max", "address"} = {}
    BY <2>1, <2>2 DEF PositionFree
  <2> QED
    BY <2>1, <2>2, <2>3 DEF LineByLine
<1> HIDE DEF L
<1>4. p \in Seq(L)
  BY <1>3 DEF Body
<1>5. Shards \in Nat /\ f \in [1 .. Shards -> Texts] /\ FlattenSeq(f) = corpus
  BY PrintedTyped, CorpusInShards, ConstantsAssumption
<1>6. [i \in 1 .. Shards |-> Output(p, f[i])] = [i \in 1 .. Shards |-> Output(p, Shard(i))]
  OBVIOUS
<1> HIDE DEF f
<1>7. /\ [i \in 1 .. Shards |-> Output(p, f[i])] \in [1 .. Shards -> Texts]
      /\ Output(p, FlattenSeq(f)) = FlattenSeq([i \in 1 .. Shards |-> Output(p, f[i])])
  BY <1>2, <1>4, <1>5, OutputOfParts
<1>8. ASSUME NEW s \in Texts
      PROVE  Output(p, s) \in Texts
  <2>1. \A stage \in L : IsStage(stage)
    BY <1>2 DEF LineByLineStages
  <2>2. \E g \in [0 .. Len(p) -> Texts] : Output(p, s) = g[Len(p)]
    BY <1>4, <2>1, OutputPartial
  <2>3. Len(p) \in 0 .. Len(p)
    BY <1>4
  <2> QED
    BY <2>2, <2>3
<1> QED
  BY <1>5, <1>6, <1>7, <1>8

\* A part of a finished call is missing or what the pipeline printed.
LEMMA PartIs ==
  ASSUME IInv, Finished, NEW i \in 1 .. Shards
  PROVE  \/ parts[i] = TimedOut /\ parts[i].out = <<>>
         \/ /\ parts[i].out = Output(ShardPipeline, Shard(i))
            /\ parts[i].rc = IF Last(ShardPipeline).prog \in {"rg", "grep"} /\ parts[i].out = <<>>
                               THEN 1 ELSE 0
<1>1. parts[i] = TimedOut \/ parts[i] = RunPipeline(ShardPipeline, Shard(i))
  BY DEF IInv, PartsRun, Finished
<1> QED
  BY <1>1 DEF TimedOut, RunPipeline

\* The bodies of the strategies, and what the tails make of their output.
LEMMA Tails ==
  ASSUME TypeOK, NEW s \in Texts
  PROVE  /\ strategy = "concat" => Body(stages) /\ ShardPipeline = stages
         /\ strategy = "head" =>
              /\ Body(Front(stages)) /\ ShardPipeline = stages
              /\ Last(stages).prog = "head"
              /\ Output(stages, s) = Take(Output(Front(stages), s), limit)
         /\ strategy = "count" =>
              /\ Body(Front(stages)) /\ ShardPipeline = stages
              /\ Last(stages).prog = "wc"
              /\ Output(stages, s) = <<Len(Output(Front(stages), s))>>
         /\ strategy = "sort_head" =>
              /\ Body(Before)
              /\ Last(stages).prog = "head" /\ Last(ShardPipeline) = Last(stages)
              /\ Output(ShardPipeline, s) = Take(Sorted(Output(Before, s)), limit)
              /\ Output(stages, s) = Take(Output(Front(stages), s), limit)
              /\ ~hasUniq => \E sort \in Stages :
                   /\ SortPlain(sort) /\ sort = Last(Front(stages))
                   /\ Output(Front(stages), s) = RunSort(sort, Output(Before, s))
              /\ hasUniq => \E sort \in Stages :
                   /\ SortPlain(sort)
                   /\ Output(Front(stages), s) = Uniq(RunSort(sort, Output(Before, s)))
<1> DEFINE front == Front(stages)
           top == Last(stages)
<1>1. /\ stages \in Seq(Stages) /\ stages # <<>>
      /\ \A stage \in Stages : IsStage(stage)
      /\ front \in Seq(Stages) /\ top \in Stages
      /\ Len(front) = Len(stages) - 1
      /\ \A i \in 1 .. Len(stages) - 1 : front[i] = stages[i]
      /\ stages = Append(front, top)
  BY CommandTyped DEF TypeOK
<1>2. limit = top.n
  BY DEF limit
<1> HIDE DEF front, top
<1>3. Output(stages, s) = RunStage(top, Output(front, s))
  BY <1>1, OutputGrows
<1>4. strategy # "sort_head" => ShardPipeline = stages
  BY DEF ShardPipeline
<1>5. strategy = "concat" => Body(stages)
  BY <1>1, Classified DEF Body
<1>6. strategy \in {"head", "count"} => Body(front)
  <2>1. strategy \in {"head", "count"} => AllStateless(front)
    BY Classified DEF front
  <2>2. /\ Len(front) <= Len(stages)
        /\ \A i \in 1 .. Len(front) : front[i] = stages[i]
    BY <1>1
  <2> QED
    BY <1>1, <2>1, <2>2 DEF Body
<1>7. strategy \in {"head", "sort_head"} =>
        top.prog = "head" /\ Output(stages, s) = Take(Output(front, s), limit)
  <2>1. strategy \in {"head", "sort_head"} => top.prog = "head"
    BY Classified DEF top
  <2> QED
    BY <1>2, <1>3, <2>1 DEF RunStage
<1>8. strategy = "count" => top.prog = "wc" /\ Output(stages, s) = <<Len(Output(front, s))>>
  <2>1. strategy = "count" => top.prog = "wc"
    BY Classified DEF top
  <2> QED
    BY <1>3, <2>1 DEF RunStage
<1>9. ASSUME strategy = "sort_head"
      PROVE  /\ Body(Before)
             /\ Last(ShardPipeline) = top
             /\ Output(ShardPipeline, s) = Take(Sorted(Output(Before, s)), limit)
             /\ ~hasUniq => \E sort \in Stages :
                   /\ SortPlain(sort) /\ sort = Last(front)
                   /\ Output(front, s) = RunSort(sort, Output(Before, s))
             /\ hasUniq => \E sort \in Stages :
                   /\ SortPlain(sort)
                   /\ Output(front, s) = Uniq(RunSort(sort, Output(Before, s)))
  <2>1. /\ Before \in Seq(Stages) /\ Len(Before) <= Len(stages)
        /\ \A i \in 1 .. Len(Before) : Before[i] = stages[i]
        /\ AllStateless(Before)
        /\ IsStage(ShardSort) /\ ShardSort.prog = "sort" /\ ShardSort.flags = {}
        /\ ShardPipeline = Append(Append(Before, ShardSort), top)
        /\ IF hasUniq
             THEN \E sort, uniq \in Stages :
                    /\ front = Append(Append(Before, sort), uniq)
                    /\ SortPlain(sort) /\ UniqPlain(uniq)
             ELSE /\ front = Append(Before, Last(front))
                  /\ SortPlain(Last(front))
    BY <1>9, BeforeTyped DEF TypeOK, front, top
  <2>2. Body(Before)
    BY <2>1 DEF Body
  <2>3. Output(ShardPipeline, s) = Take(Sorted(Output(Before, s)), limit)
        /\ Last(ShardPipeline) = top
    <3> DEFINE S == Stages \cup {ShardSort}
               q == Append(Before, ShardSort)
    <3>1. /\ \A stage \in S : IsStage(stage)
          /\ ShardSort \in S /\ top \in S
      BY <1>1, <2>1
    <3>2. Before \in Seq(S)
      BY <2>1
    <3> HIDE DEF S
    <3>3. q \in Seq(S)
      BY <3>1, <3>2
    <3>4. Output(q, s) = RunStage(ShardSort, Output(Before, s))
      BY <3>1, <3>2, OutputGrows
    <3>5. ShardPipeline = Append(q, top)
      BY <2>1
    <3> HIDE DEF q
    <3>6. Output(ShardPipeline, s) = RunStage(top, Output(q, s))
      BY <3>1, <3>3, <3>5, OutputGrows
    <3>7. Output(q, s) = Sorted(Output(Before, s))
      BY <2>1, <3>4 DEF RunStage, RunSort
    <3>8. Last(ShardPipeline) = top
      BY <3>1, <3>3, <3>5 DEF Last
    <3> QED
      BY <1>2, <1>7, <1>9, <3>6, <3>7, <3>8 DEF RunStage
  <2>4. ASSUME ~hasUniq
        PROVE  \E sort \in Stages :
                 /\ SortPlain(sort) /\ sort = Last(front)
                 /\ Output(front, s) = RunSort(sort, Output(Before, s))
    <3> DEFINE sort == Last(front)
    <3>1. front = Append(Before, sort) /\ SortPlain(sort)
      BY <2>1, <2>4
    <3>2. sort \in Stages
      <4>1. Append(Before, sort) \in Seq(Stages) /\ Len(Append(Before, sort)) = Len(Before) + 1
            /\ Append(Before, sort)[Len(Before) + 1] = sort /\ Len(Before) \in Nat
        <5> HIDE DEF sort
        <5> QED
          BY <1>1, <2>1, <3>1
      <4> HIDE DEF sort
      <4> QED
        BY <4>1
    <3> HIDE DEF sort
    <3>3. Output(Append(Before, sort), s) = RunStage(sort, Output(Before, s))
      BY <1>1, <2>1, <3>2, OutputGrows
    <3>4. RunStage(sort, Output(Before, s)) = RunSort(sort, Output(Before, s))
      BY <3>1 DEF SortPlain, RunStage
    <3> QED
      BY <3>1, <3>2, <3>3, <3>4 DEF sort
  <2>5. ASSUME hasUniq
        PROVE  \E sort \in Stages :
                 /\ SortPlain(sort)
                 /\ Output(front, s) = Uniq(RunSort(sort, Output(Before, s)))
    <3>1. PICK sort \in Stages, uniq \in Stages :
                /\ front = Append(Append(Before, sort), uniq)
                /\ SortPlain(sort) /\ UniqPlain(uniq)
      BY <2>1, <2>5
    <3> DEFINE q == Append(Before, sort)
    <3>2. q \in Seq(Stages)
      BY <2>1
    <3>3. Output(q, s) = RunStage(sort, Output(Before, s))
      BY <1>1, <2>1, OutputGrows, SMTT(40)
    <3> HIDE DEF q
    <3>4. Output(Append(q, uniq), s) = RunStage(uniq, Output(q, s))
      BY <1>1, <3>2, OutputGrows
    <3>5. RunStage(sort, Output(Before, s)) = RunSort(sort, Output(Before, s))
          /\ RunStage(uniq, Output(q, s)) = Uniq(Output(q, s))
      BY <3>1 DEF SortPlain, UniqPlain, RunStage
    <3> QED
      BY <3>1, <3>3, <3>4, <3>5 DEF q
  <2> QED
    BY <2>1, <2>2, <2>3, <2>4, <2>5
<1> QED
  BY <1>1, <1>4, <1>5, <1>6, <1>7, <1>8, <1>9 DEF front, top

LEMMA Exact == IInv => ExactWhereSafe
<1> DEFINE f == [i \in 1 .. Shards |-> parts[i].out]
<1>1. SUFFICES ASSUME IInv, strategy # "fallback", PositionFree,
                      strategy = "sort_head" => ~hasUniq /\ Last(Front(stages)).flags = {},
                      pc = "answered", ~SomeTimedOut
               PROVE  answer.out = SingleFile.out /\ answer.rc = SingleFile.rc
  BY DEF ExactWhereSafe, ByteIdentical
<1>2. /\ TypeOK /\ Finished
      /\ \A i \in 1 .. Shards : parts[i] # TimedOut
      /\ ~answer.timedOut
  BY <1>1 DEF IInv, Merged, SomeTimedOut
<1>3. /\ Shards \in Nat \ {0} /\ corpus \in Texts /\ limit \in Nat
      /\ f \in [1 .. Shards -> Texts] /\ Printed = FlattenSeq(f)
      /\ \A i \in 1 .. Shards : Shard(i) \in Texts
  BY <1>2, PrintedTyped, CorpusInShards, ConstantsAssumption DEF Printed
<1>4. ASSUME NEW i \in 1 .. Shards
      PROVE  /\ parts[i].out = Output(ShardPipeline, Shard(i))
             /\ parts[i].rc = IF Last(ShardPipeline).prog \in {"rg", "grep"} /\ parts[i].out = <<>>
                                THEN 1 ELSE 0
  BY <1>1, <1>2, PartIs
<1>5. /\ SingleFile.out = Output(stages, corpus)
      /\ SingleFile.rc = IF Last(stages).prog \in {"rg", "grep"} /\ Output(stages, corpus) = <<>>
                           THEN 1 ELSE 0
  BY DEF SingleFile, RunPipeline
<1>6. ASSUME NEW out, NEW rc, answer = Given(out, rc)
      PROVE  rc # -1 /\ answer.out = out /\ answer.rc = rc
  <2>1. answer.timedOut = (rc = -1)
    BY <1>6 DEF Given
  <2>2. rc # -1
    BY <1>2, <2>1, Zenon
  <2> QED
    BY <1>6, <2>2 DEF Given
<1>7. CASE strategy = "concat"
  <2>1. Body(stages) /\ ShardPipeline = stages
    BY <1>2, <1>3, <1>7, Tails
  <2>2. answer.out = Printed /\ answer.rc = OverallRc
    <3>1. answer = Given(Printed, OverallRc)
      BY <1>1, <1>7 DEF IInv, Merged
    <3> QED
      BY <1>6, <3>1
  <2>3. Printed = Output(stages, corpus)
    <3>1. f = [i \in 1 .. Shards |-> Output(stages, Shard(i))]
      BY <1>4, <2>1
    <3> HIDE DEF f
    <3>2. Output(stages, corpus) = FlattenSeq([i \in 1 .. Shards |-> Output(stages, Shard(i))])
      BY <1>1, <1>2, <2>1, BodyOutput
    <3> QED
      BY <1>3, <3>1, <3>2
  <2>4. OverallRc = SingleFile.rc
    <3> DEFINE greps == Last(stages).prog \in {"rg", "grep"}
    <3>1. \A i \in 1 .. Shards : parts[i].rc = IF greps /\ f[i] = <<>> THEN 1 ELSE 0
      BY <1>4, <2>1
    <3>2. SingleFile.rc = IF greps /\ Printed = <<>> THEN 1 ELSE 0
      BY <1>5, <2>3
    <3>3. Printed = <<>> <=> \A i \in 1 .. Shards : f[i] = <<>>
      <4> HIDE DEF f
      <4> QED
        BY <1>3, NoParts
    <3> HIDE DEF greps, f
    <3>4. OverallRc = IF \E i \in 1 .. Shards : parts[i].rc = 0 THEN 0 ELSE parts[1].rc
      BY DEF OverallRc
    <3>5. 1 \in 1 .. Shards
      BY <1>3
    <3> QED
      BY <3>1, <3>2, <3>3, <3>4, <3>5
  <2> QED
    BY <1>5, <2>2, <2>3, <2>4
<1>8. CASE strategy = "head"
  <2> DEFINE p == Front(stages)
             x == [i \in 1 .. Shards |-> Output(p, Shard(i))]
  <2>1. /\ Body(p) /\ ShardPipeline = stages /\ Last(stages).prog = "head"
        /\ \A s \in Texts : Output(stages, s) = Take(Output(p, s), limit)
    BY <1>2, <1>3, <1>8, Tails
  <2>2. x \in [1 .. Shards -> Texts] /\ Output(p, corpus) = FlattenSeq(x)
    BY <1>1, <1>2, <2>1, BodyOutput
  <2>3. f = [i \in 1 .. Shards |-> Take(x[i], limit)]
    BY <1>3, <1>4, <2>1
  <2>4. answer.out = Take(Printed, limit) /\ answer.rc = OverallRc
    <3>1. answer = Given(Take(Printed, limit), OverallRc)
      BY <1>1, <1>8 DEF IInv, Merged
    <3> QED
      BY <1>6, <3>1
  <2>5. OverallRc = 0 /\ SingleFile.rc = 0
    <3>1. 1 \in 1 .. Shards
      BY <1>3
    <3>2. parts[1].rc = 0
      BY <1>4, <2>1, <3>1
    <3> QED
      BY <1>5, <2>1, <3>1, <3>2 DEF OverallRc
  <2> HIDE DEF x, f, p
  <2>6. Take(FlattenSeq(f), limit) = Take(FlattenSeq(x), limit)
    BY <1>3, <2>2, <2>3, TakeOfParts
  <2> QED
    BY <1>3, <1>5, <2>1, <2>2, <2>4, <2>5, <2>6
<1>9. CASE strategy = "count"
  <2> DEFINE p == Front(stages)
             x == [i \in 1 .. Shards |-> Output(p, Shard(i))]
  <2>1. /\ Body(p) /\ ShardPipeline = stages /\ Last(stages).prog = "wc"
        /\ \A s \in Texts : Output(stages, s) = <<Len(Output(p, s))>>
    BY <1>2, <1>3, <1>9, Tails
  <2>2. x \in [1 .. Shards -> Texts] /\ Output(p, corpus) = FlattenSeq(x)
    BY <1>1, <1>2, <2>1, BodyOutput
  <2>3. \A i \in 1 .. Shards : f[i] = <<Len(x[i])>> /\ f[i] # <<>>
    <3>1. \A i \in 1 .. Shards : f[i] = <<Len(x[i])>>
      BY <1>3, <1>4, <2>1
    <3>2. \A k : <<k>> # <<>>
      OBVIOUS
    <3> QED
      BY <3>1, <3>2
  <2>4. answer.out = <<Total(Printed)>> /\ answer.rc = 0
    <3>1. answer = Given(<<Total(Printed)>>, 0)
      BY <1>1, <1>9 DEF IInv, Merged
    <3> QED
      BY <1>6, <3>1
  <2> HIDE DEF x, f, p
  <2>5. Total(FlattenSeq(f)) = Len(FlattenSeq(x))
    BY <1>3, <2>2, <2>3, CountOfParts
  <2> QED
    BY <1>3, <1>5, <2>1, <2>2, <2>4, <2>5
<1>10. CASE strategy = "sort_head"
  <2> DEFINE p == Before
             x == [i \in 1 .. Shards |-> Output(p, Shard(i))]
  <2>1. /\ Body(p) /\ Last(stages).prog = "head" /\ ~hasUniq
        /\ \A s \in Texts :
             /\ Output(ShardPipeline, s) = Take(Sorted(Output(p, s)), limit)
             /\ Output(stages, s) = Take(Sorted(Output(p, s)), limit)
    <3>1. ~hasUniq /\ Last(Front(stages)).flags = {}
      BY <1>1, <1>10
    <3>2. /\ Body(Before) /\ Last(stages).prog = "head"
      BY <1>2, <1>3, <1>10, Tails
    <3>3. ASSUME NEW s \in Texts
          PROVE  /\ Output(ShardPipeline, s) = Take(Sorted(Output(Before, s)), limit)
                 /\ Output(stages, s) = Take(Sorted(Output(Before, s)), limit)
      <4>1. /\ Output(ShardPipeline, s) = Take(Sorted(Output(Before, s)), limit)
            /\ Output(stages, s) = Take(Output(Front(stages), s), limit)
            /\ \E sort \in Stages :
                 /\ SortPlain(sort) /\ sort = Last(Front(stages))
                 /\ Output(Front(stages), s) = RunSort(sort, Output(Before, s))
        BY <1>2, <1>10, <3>1, Tails
      <4>2. Output(Front(stages), s) = Sorted(Output(Before, s))
        BY <3>1, <4>1 DEF RunSort
      <4> QED
        BY <4>1, <4>2
    <3> QED
      BY <3>1, <3>2, <3>3
  <2>2. x \in [1 .. Shards -> Texts] /\ Output(p, corpus) = FlattenSeq(x)
    BY <1>1, <1>2, <2>1, BodyOutput
  <2>3. f = [i \in 1 .. Shards |-> Take(Sorted(x[i]), limit)]
    BY <1>3, <1>4, <2>1
  <2>4. answer.out = Take(Sorted(Printed), limit) /\ answer.rc = 0
    <3>1. \/ answer = Given(Take(Sorted(Printed), limit), 0)
          \/ answer = Given(<<>>, -1)
      BY <1>1, <1>10, <2>1 DEF IInv, Merged
    <3>2. 0 # -1
      OBVIOUS
    <3> QED
      BY <1>6, <3>1
  <2>5. SingleFile.rc = 0
    BY <1>5, <2>1
  <2> HIDE DEF x, f, p
  <2>6. Take(Sorted(FlattenSeq(f)), limit) = Take(Sorted(FlattenSeq(x)), limit)
    BY <1>3, <2>2, <2>3, MergeOfParts
  <2> QED
    BY <1>3, <1>5, <2>1, <2>2, <2>4, <2>5, <2>6
<1> QED
  BY <1>1, <1>7, <1>8, <1>9, <1>10, Classified

\* Wherever the line-by-line argument applies, the sharded engine answers what
\* the single file would, byte for byte and with its exit code, for any corpus
\* and any cut of it into shards.
THEOREM ExactOverShards == Spec => []ExactWhereSafe
BY Exact, InitInv, NextInv, PTL DEF Spec

-----------------------------------------------------------------------------
(***************************************************************************)
(* Copies of a line in a text.                                             *)
(***************************************************************************)
At(s, v) == {i \in 1 .. Len(s) : s[i] = v}
Copies(s, v) == Cardinality(At(s, v))
Fewer(s, t) == \A v \in Nat : Copies(s, v) <= Copies(t, v)

LEMMA CopiesFinite ==
  ASSUME NEW s \in Texts, NEW v
  PROVE  /\ IsFiniteSet(At(s, v)) /\ Copies(s, v) \in Nat
         /\ Copies(s, v) > 0 <=> At(s, v) # {}
<1>1. Len(s) \in Nat
  BY DEF Texts
<1>2. IsFiniteSet(1 .. Len(s))
  BY <1>1, UpToFinite
<1>3. At(s, v) \subseteq 1 .. Len(s)
  BY DEF At
<1>4. IsFiniteSet(At(s, v))
  BY <1>2, <1>3, FS_Subset
<1>5. Copies(s, v) \in Nat /\ (Copies(s, v) = 0 <=> At(s, v) = {})
  BY <1>4, FS_CardinalityType, FS_EmptySet DEF Copies
<1> QED
  BY <1>4, <1>5

Below(s, v) == IF v = 0 THEN 0 ELSE AtMost(s, v - 1)

LEMMA CopiesBetween ==
  ASSUME NEW s \in Texts, NEW v \in Nat
  PROVE  /\ Copies(s, v) = AtMost(s, v) - Below(s, v)
         /\ AtMost(s, v) \in Nat /\ Below(s, v) \in Nat
<1> DEFINE less == {i \in 1 .. Len(s) : s[i] < v}
<1>1. \A i \in 1 .. Len(s) : s[i] \in Nat
  BY DEF Texts
<1>2. Upto(s, v) = less \cup At(s, v) /\ less \cap At(s, v) = {}
  BY <1>1 DEF Upto, At
<1>3. less \subseteq Upto(s, v)
  BY <1>2
<1>4. IsFiniteSet(less) /\ Cardinality(less) \in Nat
  BY <1>3, UptoFinite, FS_Subset, FS_CardinalityType
<1>5. Cardinality(less) = Below(s, v)
  <2>1. CASE v = 0
    <3>1. less = {}
      BY <1>1, <2>1
    <3> QED
      BY <2>1, <3>1, FS_EmptySet DEF Below
  <2>2. CASE v # 0
    <3>1. v - 1 \in Nat /\ less = Upto(s, v - 1)
      BY <1>1, <2>2 DEF Upto
    <3>2. AtMost(s, v - 1) = Cardinality(Upto(s, v - 1))
      BY UptoFinite
    <3> QED
      BY <2>2, <3>1, <3>2 DEF Below
  <2> QED
    BY <2>1, <2>2
<1>6. /\ IsFiniteSet(At(s, v)) /\ Copies(s, v) = Cardinality(At(s, v)) /\ Copies(s, v) \in Nat
      /\ AtMost(s, v) = Cardinality(Upto(s, v))
  BY CopiesFinite, UptoFinite DEF Copies
<1> HIDE DEF less
<1>7. Cardinality(less \cup At(s, v))
        = Cardinality(less) + Cardinality(At(s, v)) - Cardinality(less \cap At(s, v))
  BY <1>4, <1>6, FS_Union
<1>8. Cardinality(less \cap At(s, v)) = 0
  BY <1>2, FS_EmptySet
<1> QED
  BY <1>2, <1>4, <1>5, <1>6, <1>7, <1>8

LEMMA CopiesConcat ==
  ASSUME NEW s \in Texts, NEW t \in Texts, NEW v \in Nat
  PROVE  Copies(s \o t, v) = Copies(s, v) + Copies(t, v)
<1>1. s \o t \in Texts
  BY TextConcat
<1>2. AtMost(s \o t, v) = AtMost(s, v) + AtMost(t, v)
  BY AtMostConcat
<1>3. Below(s \o t, v) = Below(s, v) + Below(t, v)
  <2>1. v # 0 => AtMost(s \o t, v - 1) = AtMost(s, v - 1) + AtMost(t, v - 1)
    BY AtMostConcat
  <2> QED
    BY <2>1 DEF Below
<1>4. /\ AtMost(s, v) \in Nat /\ Below(s, v) \in Nat
      /\ AtMost(t, v) \in Nat /\ Below(t, v) \in Nat
      /\ Copies(s, v) = AtMost(s, v) - Below(s, v)
      /\ Copies(t, v) = AtMost(t, v) - Below(t, v)
      /\ Copies(s \o t, v) = AtMost(s \o t, v) - Below(s \o t, v)
  BY <1>1, CopiesBetween
<1> QED
  BY <1>2, <1>3, <1>4

LEMMA CopiesOfOne ==
  ASSUME NEW x \in Nat, NEW v \in Nat
  PROVE  /\ Copies(<<>>, v) = 0
         /\ Copies(<<x>>, v) = IF x = v THEN 1 ELSE 0
<1>1. At(<<>>, v) = {}
  BY DEF At
<1>2. At(<<x>>, v) = IF x = v THEN {1} ELSE {}
  BY DEF At
<1> QED
  BY <1>1, <1>2, FS_EmptySet, FS_Singleton DEF Copies

LEMMA FewerThan ==
  ASSUME NEW s \in Texts, NEW n \in Nat
  PROVE  /\ Fewer(<<>>, s)
         /\ Fewer(Take(s, n), s)
<1>1. Fewer(<<>>, s)
  <2>1. \A v \in Nat : Copies(<<>>, v) = 0 /\ Copies(s, v) \in Nat
    BY CopiesOfOne, CopiesFinite
  <2> QED
    BY <2>1 DEF Fewer
<1>2. ASSUME NEW v \in Nat
      PROVE  Copies(Take(s, n), v) <= Copies(s, v)
  <2>1. /\ Len(s) \in Nat /\ Len(Take(s, n)) = Smaller(n, Len(s))
        /\ \A i \in 1 .. Smaller(n, Len(s)) : Take(s, n)[i] = s[i]
    BY TakeTyped
  <2>2. 1 .. Smaller(n, Len(s)) \subseteq 1 .. Len(s)
    BY <2>1 DEF Smaller
  <2>3. At(Take(s, n), v) \subseteq At(s, v)
    BY <2>1, <2>2 DEF At
  <2> QED
    BY <2>3, CopiesFinite, FS_Subset DEF Copies
<1> QED
  BY <1>1, <1>2 DEF Fewer

LEMMA FewerChain ==
  ASSUME NEW s \in Texts, NEW t \in Texts, NEW u \in Texts, Fewer(s, t), Fewer(t, u)
  PROVE  Fewer(s, u)
<1>1. \A v \in Nat : Copies(s, v) \in Nat /\ Copies(t, v) \in Nat /\ Copies(u, v) \in Nat
  BY CopiesFinite
<1> QED
  BY <1>1 DEF Fewer

LEMMA FewerBag ==
  ASSUME NEW s \in Texts, NEW t \in Texts, Fewer(s, t)
  PROVE  ToBag(s) \sqsubseteq ToBag(t)
<1>1. DOMAIN s = 1 .. Len(s) /\ DOMAIN t = 1 .. Len(t) /\ Range(s) \subseteq Nat
  BY DEF Texts, Range
<1>2. /\ ToBag(s) = [x \in Range(s) |-> Copies(s, x)]
      /\ ToBag(t) = [x \in Range(t) |-> Copies(t, x)]
  BY <1>1 DEF ToBag, Copies, At
<1>3. ASSUME NEW x \in Range(s)
      PROVE  x \in Range(t) /\ Copies(s, x) <= Copies(t, x)
  <2>1. x \in Nat /\ Copies(s, x) <= Copies(t, x)
    BY <1>1 DEF Fewer
  <2>2. At(s, x) # {}
    BY <1>1 DEF Range, At
  <2>3. At(t, x) # {}
    BY <2>1, <2>2, CopiesFinite
  <2> QED
    BY <1>1, <2>1, <2>3 DEF Range, At
<1> QED
  BY <1>2, <1>3 DEF \sqsubseteq

LEMMA FewerOfParts ==
  ASSUME NEW n \in Nat, NEW f \in [1 .. n -> Texts], NEW g \in [1 .. n -> Texts],
         \A i \in 1 .. n : Fewer(f[i], g[i])
  PROVE  Fewer(FlattenSeq(f), FlattenSeq(g))
<1> DEFINE R == {p \in Texts \X Texts : Fewer(p[1], p[2])}
<1>1. <<<<>>, <<>>>> \in R
  <2> DEFINE none == <<>>
  <2>1. none \in Texts
    BY DEF Texts
  <2>2. \A v \in Nat : Copies(none, v) <= Copies(none, v)
    BY <2>1, CopiesFinite
  <2> HIDE DEF none
  <2>3. <<none, none>> \in R
    BY <2>1, <2>2 DEF Fewer
  <2> QED
    BY <2>3 DEF none
<1>2. ASSUME NEW i \in 1 .. n, NEW s \in Texts, NEW t \in Texts, <<s, t>> \in R
      PROVE  <<s \o f[i], t \o g[i]>> \in R
  <2> DEFINE x == f[i]
             y == g[i]
  <2>1. x \in Texts /\ y \in Texts /\ Fewer(x, y) /\ Fewer(s, t)
    BY <1>2
  <2> HIDE DEF x, y
  <2>2. s \o x \in Texts /\ t \o y \in Texts
    BY <2>1, TextConcat
  <2>3. ASSUME NEW v \in Nat
        PROVE  Copies(s \o x, v) <= Copies(t \o y, v)
    <3>1. /\ Copies(s \o x, v) = Copies(s, v) + Copies(x, v)
          /\ Copies(t \o y, v) = Copies(t, v) + Copies(y, v)
      BY <2>1, CopiesConcat
    <3>2. /\ Copies(s, v) \in Nat /\ Copies(x, v) \in Nat
          /\ Copies(t, v) \in Nat /\ Copies(y, v) \in Nat
      BY <2>1, CopiesFinite
    <3>3. Copies(s, v) <= Copies(t, v) /\ Copies(x, v) <= Copies(y, v)
      BY <2>1 DEF Fewer
    <3> QED
      BY <3>1, <3>2, <3>3
  <2>4. <<s \o x, t \o y>> \in R
    BY <2>2, <2>3 DEF Fewer
  <2> QED
    BY <2>4 DEF x, y
<1> HIDE DEF R
<1>3. <<FlattenSeq(f), FlattenSeq(g)>> \in R
  BY <1>1, <1>2, RelatedParts
<1> QED
  BY <1>3 DEF R

LEMMA CopiesSorted ==
  ASSUME NEW s \in Texts, NEW v \in Nat
  PROVE  Copies(Sorted(s), v) = Copies(s, v)
<1> DEFINE z == Sorted(s)
           l == Len(s)
<1>1. z \in Texts /\ Len(z) = l /\ l \in Nat
  BY SortedTyped, TextConcat
<1>2. Take(Sorted(s), l) = z
  <2> HIDE DEF z
  <2>1. Take(z, l) = z
    BY <1>1, TakeTyped
  <2> QED
    BY <2>1 DEF z
<1> HIDE DEF z, l
<1>3. ASSUME NEW w \in Nat
      PROVE  AtMost(z, w) = AtMost(s, w)
  <2>1. AtMost(z, w) = Smaller(l, AtMost(s, w))
    BY <1>1, <1>2, AtMostOfFirst
  <2>2. AtMost(s, w) \in Nat /\ AtMost(s, w) <= l
    BY UptoFinite DEF l
  <2> QED
    BY <1>1, <2>1, <2>2 DEF Smaller
<1>4. Below(z, v) = Below(s, v)
  BY <1>3 DEF Below
<1>5. Copies(z, v) = AtMost(z, v) - Below(z, v) /\ Copies(s, v) = AtMost(s, v) - Below(s, v)
  BY <1>1, CopiesBetween
<1> QED
  BY <1>3, <1>4, <1>5 DEF z

LEMMA CopiesReversed ==
  ASSUME NEW s \in Texts, NEW v \in Nat
  PROVE  Copies(s, v) <= Copies(Reverse(s), v)
<1> DEFINE r == Reverse(s)
           f == [i \in At(s, v) |-> Len(s) + 1 - i]
<1>1. r \in Texts /\ Len(r) = Len(s) /\ Len(s) \in Nat
  BY ReverseTyped, TextConcat
<1>2. \A i \in 1 .. Len(s) : r[i] = s[(Len(s) - i) + 1]
  BY DEF Reverse
<1> HIDE DEF r
<1>3. ASSUME NEW i \in At(s, v)
      PROVE  Len(s) + 1 - i \in At(r, v)
  <2>1. i \in 1 .. Len(s) /\ s[i] = v
    BY DEF At
  <2>2. Len(s) + 1 - i \in 1 .. Len(s) /\ (Len(s) - (Len(s) + 1 - i)) + 1 = i
    BY <1>1, <2>1
  <2>3. r[Len(s) + 1 - i] = v
    BY <1>2, <2>1, <2>2
  <2> QED
    BY <1>1, <2>2, <2>3 DEF At
<1>4. \A i, j \in At(s, v) : Len(s) + 1 - i = Len(s) + 1 - j => i = j
  BY <1>1 DEF At
<1>5. f \in Injection(At(s, v), At(r, v))
  BY <1>3, <1>4 DEF Injection, IsInjective
<1>6. IsFiniteSet(At(r, v))
  BY <1>1, CopiesFinite
<1> HIDE DEF f
<1>7. Cardinality(At(s, v)) <= Cardinality(At(r, v))
  BY <1>5, <1>6, FS_Injection
<1> QED
  BY <1>7 DEF Copies, r

\* A plain sort keeps every line.
LEMMA SortKeeps ==
  ASSUME NEW stage, SortPlain(stage), NEW s \in Texts
  PROVE  RunSort(stage, s) \in Texts /\ Fewer(s, RunSort(stage, s))
<1> DEFINE z == Sorted(s)
<1>1. z \in Texts /\ \A v \in Nat : Copies(z, v) = Copies(s, v)
  BY SortedTyped, CopiesSorted
<1>2. RunSort(stage, s) = IF "reverse" \in stage.flags THEN Reverse(z) ELSE z
  BY DEF SortPlain, RunSort
<1> HIDE DEF z
<1>3. Reverse(z) \in Texts /\ \A v \in Nat : Copies(z, v) <= Copies(Reverse(z), v)
  BY <1>1, ReverseTyped, CopiesReversed
<1>4. \A v \in Nat : Copies(z, v) <= Copies(z, v)
  BY <1>1, CopiesFinite
<1> QED
  BY <1>1, <1>2, <1>3, <1>4 DEF Fewer

(***************************************************************************)
(* uniq leaves a copy of every line, and only one when the lines rise.     *)
(***************************************************************************)
Rising(s) == \A i, j \in 1 .. Len(s) : i <= j => s[i] <= s[j]

LEMMA UniqGrows ==
  ASSUME NEW s \in Texts, NEW x \in Nat
  PROVE  /\ Uniq(<<>>) = <<>>
         /\ Uniq(s \o <<x>>) =
              IF s # <<>> /\ s[Len(s)] = x THEN Uniq(s) ELSE Uniq(s) \o <<x>>
<1> DEFINE n == Len(s)
           more == Append(s, x)
           Kept(t, i) == IF i = 1 \/ t[i - 1] # t[i] THEN <<t[i]>> ELSE <<>>
           f == [i \in 1 .. n + 1 |-> Kept(more, i)]
           g == [i \in 1 .. n |-> Kept(s, i)]
<1>1. /\ n \in Nat /\ Len(s) = n /\ Len(more) = n + 1 /\ more[n + 1] = x
      /\ \A i \in 1 .. n : s[i] \in Nat /\ more[i] = s[i]
      /\ s = <<>> <=> n = 0
  BY DEF Texts
<1>2. more = s \o <<x>> /\ more \in Texts
  BY TextAppend
<1> HIDE DEF n, more
<1>3. \A i \in 1 .. n + 1 : more[i] \in Nat
  BY <1>1
<1>4. \A y \in Nat : <<y>> \in Texts /\ <<>> \in Texts
  BY DEF Texts
<1>5. f \in [1 .. n + 1 -> Texts]
  BY <1>3, <1>4
<1>6. \A i \in 1 .. n : Kept(more, i) = Kept(s, i)
  <2>1. \A i \in 1 .. n : i # 1 => more[i - 1] = s[i - 1]
    BY <1>1
  <2> QED
    BY <1>1, <2>1
<1>7. [i \in 1 .. n |-> f[i]] = g
  BY <1>1, <1>6
<1>8. Uniq(more) = FlattenSeq(f) /\ Uniq(s) = FlattenSeq(g)
  BY <1>1 DEF Uniq
<1>9. f[n + 1] = IF s # <<>> /\ s[n] = x THEN <<>> ELSE <<x>>
  <2>1. f[n + 1] = Kept(more, n + 1)
    BY <1>1
  <2>2. n # 0 => more[(n + 1) - 1] = s[n]
    BY <1>1
  <2> QED
    BY <1>1, <2>1, <2>2
<1> HIDE DEF f, g
<1>10. FlattenSeq(f) = FlattenSeq(g) \o f[n + 1]
  <2>1. FlattenSeq(f) = FlattenSeq([i \in 1 .. n |-> f[i]]) \o f[n + 1]
    <3>1. n \in Nat /\ f \in [1 .. n + 1 -> Seq(Nat)]
      BY <1>1, <1>5 DEF Texts
    <3> QED
      BY <3>1, FlattenMore
  <2> QED
    BY <1>7, <2>1
<1>11. Uniq(s) \o <<>> = Uniq(s)
  BY UniqTyped, TextConcat
<1>12. Uniq(<<>>) = <<>>
  <2>1. Uniq(<<>>) = FlattenSeq(<<>>)
    BY DEF Uniq
  <2> QED
    BY <2>1, FlattenNothing
<1> QED
  BY <1>1, <1>2, <1>8, <1>9, <1>10, <1>11, <1>12

LEMMA UniqLeavesOne ==
  ASSUME NEW s \in Texts, NEW v \in Nat, Copies(s, v) > 0
  PROVE  Copies(Uniq(s), v) > 0
<1> DEFINE P == {t \in Texts : Copies(t, v) > 0 => Copies(Uniq(t), v) > 0}
<1>1. <<>> \in P
  <2>1. <<>> \in Texts /\ Copies(<<>>, v) = 0
    <3>1. 0 \in Nat /\ <<>> \in Texts
      BY DEF Texts
    <3> QED
      BY <3>1, CopiesOfOne
  <2> QED
    BY <2>1
<1>2. ASSUME NEW t \in Texts, NEW x \in Nat, t \in P
      PROVE  t \o <<x>> \in P
  <2> DEFINE one == <<x>>
             last == t # <<>> /\ t[Len(t)] = x
  <2>1. one \in Texts /\ Copies(one, v) = (IF x = v THEN 1 ELSE 0)
    BY CopiesOfOne DEF Texts
  <2>2. Uniq(t \o one) = IF last THEN Uniq(t) ELSE Uniq(t) \o one
    BY UniqGrows
  <2>3. last => Copies(t, x) > 0
    <3>1. last => Len(t) \in At(t, x)
      BY DEF At, Texts
    <3> QED
      BY <3>1, CopiesFinite
  <2> HIDE DEF one, last
  <2>4. /\ Copies(t \o one, v) = Copies(t, v) + Copies(one, v)
        /\ Copies(Uniq(t) \o one, v) = Copies(Uniq(t), v) + Copies(one, v)
        /\ Copies(t, v) \in Nat /\ Copies(Uniq(t), v) \in Nat /\ t \o one \in Texts
    <3>1. Uniq(t) \in Texts /\ t \o one \in Texts
      BY <2>1, UniqTyped, TextConcat
    <3>2. Copies(t \o one, v) = Copies(t, v) + Copies(one, v)
      BY <2>1, CopiesConcat
    <3>3. Copies(Uniq(t) \o one, v) = Copies(Uniq(t), v) + Copies(one, v)
      BY <2>1, <3>1, CopiesConcat
    <3> QED
      BY <3>1, <3>2, <3>3, CopiesFinite
  <2>5. Copies(t, v) > 0 => Copies(Uniq(t), v) > 0
    BY <1>2
  <2>6. Copies(t \o one, v) > 0 => Copies(Uniq(t \o one), v) > 0
    BY <2>1, <2>2, <2>3, <2>4, <2>5
  <2> QED
    BY <2>4, <2>6 DEF one
<1>3. Texts \subseteq P
  <2> HIDE DEF P
  <2> QED
    BY <1>1, <1>2, GrowText
<1> QED
  BY <1>3

LEMMA UniqOfRising ==
  ASSUME NEW s \in Texts, Rising(s), NEW v \in Nat
  PROVE  Copies(Uniq(s), v) <= IF Copies(s, v) > 0 THEN 1 ELSE 0
<1> DEFINE Once(t, w) == Copies(Uniq(t), w) <= IF Copies(t, w) > 0 THEN 1 ELSE 0
           P == {t \in Texts : Rising(t) => Once(t, v)}
<1>1. <<>> \in P
  <2>1. <<>> \in Texts /\ Copies(<<>>, v) = 0
    <3>1. 0 \in Nat /\ <<>> \in Texts
      BY DEF Texts
    <3> QED
      BY <3>1, CopiesOfOne
  <2>2. Uniq(<<>>) = <<>>
    <3>1. 0 \in Nat
      OBVIOUS
    <3> QED
      BY <2>1, <3>1, UniqGrows
  <2> QED
    BY <2>1, <2>2
<1>2. ASSUME NEW t \in Texts, NEW x \in Nat, t \in P
      PROVE  t \o <<x>> \in P
  <2> DEFINE one == <<x>>
             more == t \o one
             last == t # <<>> /\ t[Len(t)] = x
  <2>1. one \in Texts /\ Copies(one, v) = (IF x = v THEN 1 ELSE 0)
    BY CopiesOfOne DEF Texts
  <2>2. Uniq(t \o one) = IF last THEN Uniq(t) ELSE Uniq(t) \o one
    BY UniqGrows
  <2>3. /\ more \in Texts /\ Len(t) \in Nat /\ Len(more) = Len(t) + 1 /\ more[Len(t) + 1] = x
        /\ \A i \in 1 .. Len(t) : more[i] = t[i] /\ t[i] \in Nat
    BY DEF Texts
  <2> HIDE DEF one
  <2>4. /\ Copies(more, v) = Copies(t, v) + Copies(one, v)
        /\ Copies(Uniq(t) \o one, v) = Copies(Uniq(t), v) + Copies(one, v)
        /\ Copies(t, v) \in Nat /\ Copies(Uniq(t), v) \in Nat
    BY <2>1, UniqTyped, CopiesConcat, CopiesFinite
  <2> HIDE DEF more
  <2>5. ASSUME Rising(more)
        PROVE  Once(more, v)
    <3>1. Rising(t)
      BY <2>3, <2>5 DEF Rising
    <3>2. Once(t, v)
      BY <1>2, <3>1
    <3>3. CASE last
      BY <2>1, <2>2, <2>4, <3>2, <3>3 DEF more
    <3>4. CASE ~last
      <4>1. Copies(t, x) = 0
        <5>1. ASSUME NEW i \in 1 .. Len(t), t[i] = x
              PROVE  FALSE
          <6>1. Len(t) \in 1 .. Len(t) /\ t # <<>>
            BY <2>3, <5>1
          <6>2. t[i] <= t[Len(t)] /\ t[Len(t)] \in Nat
            BY <2>3, <3>1, <6>1 DEF Rising
          <6>3. more[Len(t)] <= more[Len(t) + 1]
            <7>1. Len(t) \in 1 .. Len(more) /\ Len(t) + 1 \in 1 .. Len(more)
              BY <2>3, <6>1
            <7> QED
              BY <2>3, <2>5, <7>1 DEF Rising
          <6>4. t[Len(t)] <= x
            BY <2>3, <6>1, <6>3
          <6>5. t[Len(t)] = x
            BY <5>1, <6>2, <6>4
          <6> QED
            BY <3>4, <6>1, <6>5
        <5>2. At(t, x) = {}
          BY <5>1 DEF At
        <5> QED
          BY <5>2, CopiesFinite
      <4> QED
        BY <2>1, <2>2, <2>4, <3>2, <3>4, <4>1 DEF more
    <3> QED
      BY <3>3, <3>4
  <2> QED
    BY <2>3, <2>5 DEF more, one
<1>3. Texts \subseteq P
  <2> HIDE DEF P
  <2> QED
    BY <1>1, <1>2, GrowText
<1> QED
  BY <1>3

LEMMA SortedRises ==
  ASSUME NEW s \in Texts
  PROVE  Rising(Sorted(s))
<1> DEFINE z == Sorted(s)
<1>1. Len(z) = Len(s) /\ Len(s) \in Nat
  BY SortedTyped, TextConcat
<1>2. ASSUME NEW i \in 1 .. Len(s), NEW j \in 1 .. Len(s), i <= j
      PROVE  z[i] <= z[j]
  <2>1. z[j] \in Nat /\ z[j] <= z[j]
    BY SortedPlace
  <2> DEFINE u == z[j]
  <2>2. j <= AtMost(s, u)
    BY <2>1, SortedPlace
  <2>3. AtMost(s, u) \in Nat
    BY UptoFinite
  <2> HIDE DEF u
  <2>4. i <= AtMost(s, u)
    BY <1>1, <1>2, <2>2, <2>3
  <2>5. z[i] <= u
    BY <2>1, <2>4, SortedPlace DEF u
  <2> QED
    BY <2>5 DEF u
<1> QED
  BY <1>1, <1>2 DEF Rising

\* Sorted and made unique, fewer lines print no line more often than more
\* lines do that are sorted either way and made unique.
LEMMA UniqKeepsOrder ==
  ASSUME NEW s \in Texts, NEW t \in Texts, Fewer(s, t), NEW stage, SortPlain(stage)
  PROVE  Fewer(Uniq(Sorted(s)), Uniq(RunSort(stage, t)))
<1> DEFINE z == Sorted(s)
           r == RunSort(stage, t)
<1>1. z \in Texts /\ Rising(z) /\ \A v \in Nat : Copies(z, v) = Copies(s, v)
  BY SortedTyped, SortedRises, CopiesSorted
<1>2. r \in Texts /\ Fewer(t, r)
  BY SortKeeps
<1> HIDE DEF z, r
<1>3. ASSUME NEW v \in Nat
      PROVE  Copies(Uniq(z), v) <= Copies(Uniq(r), v)
  <2>1. Copies(Uniq(z), v) <= IF Copies(z, v) > 0 THEN 1 ELSE 0
    BY <1>1, UniqOfRising
  <2>2. Copies(r, v) > 0 => Copies(Uniq(r), v) > 0
    BY <1>2, UniqLeavesOne
  <2>3. /\ Copies(z, v) = Copies(s, v) /\ Copies(s, v) <= Copies(t, v)
        /\ Copies(t, v) <= Copies(r, v)
    BY <1>1, <1>2 DEF Fewer
  <2>4. /\ Copies(z, v) \in Nat /\ Copies(t, v) \in Nat /\ Copies(r, v) \in Nat
        /\ Copies(Uniq(z), v) \in Nat /\ Copies(Uniq(r), v) \in Nat
    BY <1>1, <1>2, UniqTyped, CopiesFinite
  <2> QED
    BY <2>1, <2>2, <2>3, <2>4
<1> QED
  BY <1>3 DEF Fewer, z, r

-----------------------------------------------------------------------------
(***************************************************************************)
(* Missing lines: whatever shards timed out, what is merged has no line    *)
(* more often than what the stages before the tail print of the corpus.    *)
(***************************************************************************)
LEMMA PrintedFewer ==
  ASSUME IInv, PositionFree, Finished, NEW p, Body(p),
         \A i \in 1 .. Shards :
           parts[i] # TimedOut => Fewer(parts[i].out, Output(p, Shard(i)))
  PROVE  Fewer(Printed, Output(p, corpus)) /\ Output(p, corpus) \in Texts
<1> DEFINE f == [i \in 1 .. Shards |-> parts[i].out]
           x == [i \in 1 .. Shards |-> Output(p, Shard(i))]
<1>1. /\ Shards \in Nat /\ corpus \in Texts
      /\ f \in [1 .. Shards -> Texts] /\ Printed = FlattenSeq(f)
  BY PrintedTyped, ConstantsAssumption DEF Printed, IInv
<1>2. /\ x \in [1 .. Shards -> Texts] /\ Output(p, corpus) = FlattenSeq(x)
      /\ Output(p, corpus) \in Texts
  BY <1>1, BodyOutput DEF IInv
<1>3. ASSUME NEW i \in 1 .. Shards
      PROVE  Fewer(f[i], x[i])
  <2>1. x[i] \in Texts /\ f[i] = parts[i].out /\ x[i] = Output(p, Shard(i))
    BY <1>2
  <2> HIDE DEF x, f
  <2>2. CASE parts[i] = TimedOut
    <3>1. f[i] = <<>>
      BY <2>1, <2>2 DEF TimedOut
    <3>2. 0 \in Nat
      OBVIOUS
    <3> QED
      BY <2>1, <3>1, <3>2, FewerThan
  <2> QED
    BY <2>1, <2>2
<1> HIDE DEF x, f
<1>4. Fewer(FlattenSeq(f), FlattenSeq(x))
  BY <1>1, <1>2, <1>3, FewerOfParts
<1> QED
  BY <1>1, <1>2, <1>4

LEMMA NothingInvented == IInv => NeverInvents
<1>1. SUFFICES ASSUME IInv, pc = "answered", PositionFree
               PROVE  CASE strategy = "count" ->
                             answer.timedOut \/ answer.out[1] <= SingleFile.out[1]
                        [] strategy = "concat" ->
                             ToBag(answer.out) \sqsubseteq ToBag(SingleFile.out)
                        [] strategy \in {"head", "sort_head"} ->
                             ToBag(answer.out) \sqsubseteq ToBag(RunPipeline(Front(stages), corpus).out)
                        [] OTHER -> TRUE
  BY DEF NeverInvents
<1>2. /\ TypeOK /\ Shards \in Nat \ {0} /\ corpus \in Texts /\ limit \in Nat /\ Printed \in Texts
      /\ \A i \in 1 .. Shards : Shard(i) \in Texts /\ parts[i].out \in Texts
  <2>1. TypeOK /\ Shards \in Nat \ {0}
    BY <1>1, ConstantsAssumption DEF IInv
  <2>2. [i \in 1 .. Shards |-> parts[i].out] \in [1 .. Shards -> Texts]
    BY <2>1, PrintedTyped
  <2> QED
    BY <2>1, <2>2, PrintedTyped, CorpusInShards
<1>3. /\ SingleFile.out = Output(stages, corpus)
      /\ RunPipeline(Front(stages), corpus).out = Output(Front(stages), corpus)
  BY DEF SingleFile, RunPipeline
<1>4. strategy # "fallback" => Finished
  BY <1>1 DEF IInv, Merged
<1>5. ASSUME NEW i \in 1 .. Shards, Finished
      PROVE  \/ parts[i] = TimedOut /\ parts[i].out = <<>>
             \/ parts[i].out = Output(ShardPipeline, Shard(i))
  BY <1>1, <1>5, PartIs
<1>6. \A out \in Texts : \A rc : answer = Given(out, rc) =>
        answer.out \in {<<>>, out}
  BY DEF Given
<1>7. <<>> \in Texts
  BY DEF Texts
\* An answer with no more lines than a text, or none, is within its bag.
<1>8. ASSUME NEW out \in Texts, NEW t \in Texts, Fewer(out, t), answer.out \in {<<>>, out}
      PROVE  ToBag(answer.out) \sqsubseteq ToBag(t)
  <2>1. answer.out \in Texts
    BY <1>7, <1>8
  <2>2. 0 \in Nat
    OBVIOUS
  <2>3. Fewer(answer.out, t)
    BY <1>8, <2>2, FewerThan
  <2> QED
    BY <2>1, <2>3, FewerBag
<1>9. ASSUME strategy = "concat"
      PROVE  ToBag(answer.out) \sqsubseteq ToBag(SingleFile.out)
  <2>1. Body(stages) /\ ShardPipeline = stages /\ Finished
    BY <1>2, <1>4, <1>9, Tails
  <2>2. ASSUME NEW i \in 1 .. Shards, parts[i] # TimedOut
        PROVE  Fewer(parts[i].out, Output(stages, Shard(i)))
    <3>1. parts[i].out = Output(stages, Shard(i))
      BY <1>5, <2>1, <2>2
    <3>2. \A v \in Nat : Copies(parts[i].out, v) <= Copies(parts[i].out, v)
      BY <1>2, CopiesFinite
    <3> QED
      BY <3>1, <3>2 DEF Fewer
  <2>3. Fewer(Printed, Output(stages, corpus)) /\ Output(stages, corpus) \in Texts
    BY <1>1, <2>1, <2>2, PrintedFewer
  <2>4. answer = Given(Printed, OverallRc)
    BY <1>1, <1>9 DEF IInv, Merged
  <2> QED
    BY <1>2, <1>3, <1>6, <1>8, <2>3, <2>4
<1>10. ASSUME strategy = "head"
       PROVE  ToBag(answer.out) \sqsubseteq ToBag(RunPipeline(Front(stages), corpus).out)
  <2> DEFINE p == Front(stages)
  <2>1. /\ Body(p) /\ ShardPipeline = stages /\ Finished
        /\ \A s \in Texts : Output(stages, s) = Take(Output(p, s), limit)
    BY <1>2, <1>4, <1>10, Tails
  <2> HIDE DEF p
  <2>2. ASSUME NEW i \in 1 .. Shards, parts[i] # TimedOut
        PROVE  Fewer(parts[i].out, Output(p, Shard(i)))
    <3>1. parts[i].out = Take(Output(p, Shard(i)), limit)
      BY <1>2, <1>5, <2>1, <2>2
    <3>2. Output(p, Shard(i)) \in Texts
      BY <1>1, <1>2, <2>1, BodyOutput
    <3> QED
      BY <1>2, <3>1, <3>2, FewerThan
  <2>3. Fewer(Printed, Output(p, corpus)) /\ Output(p, corpus) \in Texts
    BY <1>1, <2>1, <2>2, PrintedFewer
  <2>4. answer = Given(Take(Printed, limit), OverallRc)
    BY <1>1, <1>10 DEF IInv, Merged
  <2>5. Take(Printed, limit) \in Texts /\ Fewer(Take(Printed, limit), Printed)
    BY <1>2, TakeTyped, FewerThan
  <2>6. Fewer(Take(Printed, limit), Output(p, corpus))
    BY <1>2, <2>3, <2>5, FewerChain
  <2> QED
    BY <1>3, <1>6, <1>8, <2>3, <2>4, <2>5, <2>6 DEF p
<1>11. ASSUME strategy = "count"
       PROVE  answer.timedOut \/ answer.out[1] <= SingleFile.out[1]
  <2> DEFINE p == Front(stages)
             f == [i \in 1 .. Shards |-> parts[i].out]
             x == [i \in 1 .. Shards |-> Output(p, Shard(i))]
  <2>1. /\ Body(p) /\ ShardPipeline = stages /\ Finished
        /\ \A s \in Texts : Output(stages, s) = <<Len(Output(p, s))>>
    BY <1>2, <1>4, <1>11, Tails
  <2>2. x \in [1 .. Shards -> Texts] /\ Output(p, corpus) = FlattenSeq(x)
    BY <1>1, <1>2, <2>1, BodyOutput
  <2>3. f \in [1 .. Shards -> Texts] /\ Printed = FlattenSeq(f)
    BY <1>2 DEF Printed
  <2>4. \A i \in 1 .. Shards : f[i] \in {<<>>, <<Len(x[i])>>}
    BY <1>2, <1>5, <2>1
  <2>5. answer = Given(<<Total(Printed)>>, 0)
    BY <1>1, <1>11 DEF IInv, Merged
  <2>6. answer.out = <<Total(Printed)>>
    BY <2>5 DEF Given
  <2> HIDE DEF x, f, p
  <2>7. Total(FlattenSeq(f)) <= Len(FlattenSeq(x))
    BY <1>2, <2>2, <2>3, <2>4, CountOfParts
  <2>8. SingleFile.out = <<Len(FlattenSeq(x))>>
    BY <1>2, <1>3, <2>1, <2>2
  <2> QED
    BY <2>3, <2>6, <2>7, <2>8
<1>12. ASSUME strategy = "sort_head"
       PROVE  ToBag(answer.out) \sqsubseteq ToBag(RunPipeline(Front(stages), corpus).out)
  <2> DEFINE all == IF hasUniq THEN Uniq(Sorted(Printed)) ELSE Sorted(Printed)
             whole == Output(Front(stages), corpus)
             before == Output(Before, corpus)
  <2>1. /\ Body(Before) /\ Finished
        /\ \A s \in Texts : Output(ShardPipeline, s) = Take(Sorted(Output(Before, s)), limit)
    BY <1>2, <1>4, <1>12, Tails
  <2>2. ASSUME NEW i \in 1 .. Shards, parts[i] # TimedOut
        PROVE  Fewer(parts[i].out, Output(Before, Shard(i)))
    <3> DEFINE o == Output(Before, Shard(i))
    <3>1. parts[i].out = Take(Sorted(o), limit)
      BY <1>2, <1>5, <2>1, <2>2
    <3>2. o \in Texts
      BY <1>1, <1>2, <2>1, BodyOutput
    <3> HIDE DEF o
    <3>3. Sorted(o) \in Texts /\ Fewer(Sorted(o), o)
      <4>1. \A v \in Nat : Copies(o, v) \in Nat /\ Copies(Sorted(o), v) = Copies(o, v)
        BY <3>2, CopiesFinite, CopiesSorted
      <4> QED
        BY <3>2, <4>1, SortedTyped DEF Fewer
    <3>4. /\ Take(Sorted(o), limit) \in Texts
          /\ Fewer(Take(Sorted(o), limit), Sorted(o))
      BY <1>2, <3>3, TakeTyped, FewerThan
    <3>5. Fewer(Take(Sorted(o), limit), o)
      BY <3>2, <3>3, <3>4, FewerChain
    <3> QED
      BY <3>1, <3>5 DEF o
  <2>3. Fewer(Printed, before) /\ before \in Texts
    BY <1>1, <2>1, <2>2, PrintedFewer
  <2> HIDE DEF before
  <2>4. Fewer(all, whole) /\ all \in Texts /\ whole \in Texts
    <3>1. CASE ~hasUniq
      <4>1. PICK sort \in Stages : SortPlain(sort) /\ whole = RunSort(sort, before)
        BY <1>2, <1>12, <3>1, Tails DEF before
      <4>2. whole \in Texts /\ Fewer(before, whole)
        BY <2>3, <4>1, SortKeeps
      <4>3. all = Sorted(Printed) /\ Sorted(Printed) \in Texts
        BY <1>2, <3>1, SortedTyped
      <4>4. Fewer(Sorted(Printed), Printed)
        <5>1. \A v \in Nat : /\ Copies(Printed, v) \in Nat
                             /\ Copies(Sorted(Printed), v) = Copies(Printed, v)
          BY <1>2, CopiesFinite, CopiesSorted
        <5> QED
          BY <5>1 DEF Fewer
      <4> HIDE DEF all, whole
      <4>5. Fewer(Sorted(Printed), before)
        BY <1>2, <2>3, <4>3, <4>4, FewerChain
      <4>6. Fewer(Sorted(Printed), whole)
        BY <2>3, <4>2, <4>3, <4>5, FewerChain
      <4> QED
        BY <4>2, <4>3, <4>6
    <3>2. CASE hasUniq
      <4>1. PICK sort \in Stages : SortPlain(sort) /\ whole = Uniq(RunSort(sort, before))
        BY <1>2, <1>12, <3>2, Tails DEF before
      <4>2. Fewer(Uniq(Sorted(Printed)), Uniq(RunSort(sort, before)))
        BY <1>2, <2>3, <4>1, UniqKeepsOrder
      <4>3. Uniq(Sorted(Printed)) \in Texts /\ Uniq(RunSort(sort, before)) \in Texts
        BY <1>2, <2>3, <4>1, SortedTyped, SortKeeps, UniqTyped
      <4> QED
        BY <3>2, <4>1, <4>2, <4>3
    <3> QED
      BY <3>1, <3>2
  <2>5. \/ answer = Given(Take(all, limit), 0)
        \/ answer = Given(<<>>, -1)
    BY <1>1, <1>12 DEF IInv, Merged
  <2> HIDE DEF all, whole
  <2>6. Take(all, limit) \in Texts /\ Fewer(Take(all, limit), all)
    BY <1>2, <2>4, TakeTyped, FewerThan
  <2>7. Fewer(Take(all, limit), whole)
    BY <2>4, <2>6, FewerChain
  <2>8. answer.out \in {<<>>, Take(all, limit)}
    BY <1>6, <1>7, <2>5, <2>6
  <2>9. ToBag(answer.out) \sqsubseteq ToBag(whole)
    BY <1>8, <2>4, <2>6, <2>7, <2>8
  <2> QED
    BY <1>3, <2>9 DEF whole
<1> QED
  BY <1>9, <1>10, <1>11, <1>12

\* However many shards time out, the sharded engine prints no line more often
\* than the stages before the tail do on the whole corpus, and counts no more.
THEOREM InventsNothing == Spec => []NeverInvents
BY NothingInvented, InitInv, NextInv, PTL DEF Spec
==============================================================================
