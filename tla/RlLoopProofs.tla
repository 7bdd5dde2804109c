----------------------------- MODULE RlLoopProofs -----------------------------
(***************************************************************************)
(* Proofs about RlLoop for every set of prompts, turns and tool answers,   *)
(* every budget and every cap.                                             *)
(***************************************************************************)
EXTENDS RlLoop, FiniteSetTheorems, SequenceTheorems, TLAPS

-----------------------------------------------------------------------------
(***************************************************************************)
(* Induction.  Every set of numbers has a least element, because the sets  *)
(* of the numbers below them are finite and ordered by inclusion.  (These  *)
(* facts, up to FlattenTyped, open ShardedSearchProofs as well, which is a *)
(* module about other variables.)                                          *)
(***************************************************************************)
LEMMA LeastElement ==
  ASSUME NEW S \in SUBSET Nat, S # {}
  PROVE  \E n \in S : \A m \in S : n <= m
<1> PICK k \in S : TRUE
  OBVIOUS
<1> DEFINE U == 0 .. k
           Below(n) == {i \in U : i < n}
           T == {Below(n) : n \in S \cap U}
           R == StrictSubsetOrdering(U)
<1>1. IsFiniteSet(U) /\ k \in S \cap U
  BY FS_Interval
<1>2. \A n \in S \cap U : Below(n) \in FiniteSubsetsOf(U)
  <2>1. \A n \in S \cap U : Below(n) \subseteq U
    OBVIOUS
  <2>2. \A n \in S \cap U : IsFiniteSet(Below(n))
    BY <1>1, <2>1, FS_Subset
  <2> QED
    BY <2>1, <2>2 DEF FiniteSubsetsOf
<1>3. T \subseteq FiniteSubsetsOf(U) /\ T # {}
  BY <1>1, <1>2
<1>4. IsWellFoundedOn(R, FiniteSubsetsOf(U))
  BY FS_StrictSubsetOrderingWellFounded
<1>5. PICK B \in T : \A C \in T : ~(<<C, B>> \in R)
  <2> HIDE DEF T, R, U
  <2> QED
    BY <1>3, <1>4, WFMin
<1>6. PICK n \in S \cap U : B = Below(n)
  BY <1>5
<1>7. ASSUME NEW m \in S, m < n
      PROVE  FALSE
  <2>1. m \in S \cap U /\ Below(m) \in T
    BY <1>7
  <2>2. Below(m) \subseteq Below(n) /\ m \in Below(n) /\ m \notin Below(m)
    BY <2>1, <1>7
  <2>3. <<Below(m), Below(n)>> \in R
    BY <2>2 DEF StrictSubsetOrdering
  <2> QED
    BY <2>1, <2>3, <1>5, <1>6
<1>8. n \in S /\ \A m \in S : n <= m
  BY <1>7, <1>6
<1> QED
  BY <1>8

LEMMA Climb ==
  ASSUME NEW P, 0 \in P, \A n \in Nat : n \in P => n + 1 \in P
  PROVE  Nat \subseteq P
<1>1. SUFFICES ASSUME Nat \ P # {} PROVE FALSE
  OBVIOUS
<1>2. PICK n \in Nat \ P : \A m \in Nat \ P : n <= m
  BY <1>1, LeastElement
<1>3. n # 0 /\ n - 1 \in Nat /\ n - 1 \notin Nat \ P
  BY <1>2
<1> QED
  BY <1>2, <1>3

LEMMA FirstOnes ==
  ASSUME NEW S, NEW s \in Seq(S), NEW n \in 0 .. Len(s)
  PROVE  /\ SubSeq(s, 1, n) \in Seq(S) /\ Len(SubSeq(s, 1, n)) = n
         /\ \A i \in 1 .. n : SubSeq(s, 1, n)[i] = s[i]
<1>1. \A i \in 1 .. n : s[i] \in S
  OBVIOUS
<1> QED
  BY <1>1, SubSeqProperties

LEMMA EndToEnd ==
  ASSUME NEW S, NEW s \in Seq(S), NEW t \in Seq(S), NEW e, e = s \o t
  PROVE  /\ e \in Seq(S) /\ Len(e) = Len(s) + Len(t)
         /\ Len(s) \in Nat /\ Len(t) \in Nat
         /\ \A i \in 1 .. Len(s) : e[i] = s[i]
         /\ \A i \in 1 .. Len(t) : e[Len(s) + i] = t[i]
<1>1. /\ e \in Seq(S) /\ Len(e) = Len(s) + Len(t)
      /\ \A i \in 1 .. Len(s) + Len(t) : e[i] = IF i <= Len(s) THEN s[i] ELSE t[i - Len(s)]
  BY ConcatProperties, Zenon
<1>2. Len(s) \in Nat /\ Len(t) \in Nat
  OBVIOUS
<1>3. \A i \in 1 .. Len(s) : e[i] = s[i]
  BY <1>1, <1>2
<1>4. ASSUME NEW i \in 1 .. Len(t)
      PROVE  e[Len(s) + i] = t[i]
  <2>1. /\ Len(s) + i \in 1 .. Len(s) + Len(t)
        /\ ~(Len(s) + i <= Len(s))
        /\ (Len(s) + i) - Len(s) = i
    BY <1>2
  <2> QED
    BY <1>1, <2>1
<1> QED
  BY <1>1, <1>2, <1>3, <1>4

LEMMA FrontAndLast ==
  ASSUME NEW S, NEW s \in Seq(S), s # <<>>
  PROVE  /\ Front(s) \in Seq(S) /\ Len(Front(s)) = Len(s) - 1
         /\ Last(s) \in S
         /\ s = Append(Front(s), Last(s))
         /\ \A i \in 1 .. Len(s) - 1 : Front(s)[i] = s[i]
<1> DEFINE f == Front(s)
           n == Len(s) - 1
<1>1. n \in 0 .. Len(s) /\ Len(s) \in Nat \ {0} /\ \A i \in 1 .. Len(s) : s[i] \in S
  OBVIOUS
<1>2. /\ f \in Seq(S) /\ Len(f) = n
      /\ \A i \in 1 .. n : f[i] = s[i]
  <2> HIDE DEF n
  <2>1. /\ SubSeq(s, 1, n) \in Seq(S) /\ Len(SubSeq(s, 1, n)) = n
        /\ \A i \in 1 .. n : SubSeq(s, 1, n)[i] = s[i]
    BY <1>1, FirstOnes
  <2>2. f = SubSeq(s, 1, n)
    BY DEF n, Front
  <2> QED
    BY <2>1, <2>2
<1>3. Last(s) = s[Len(s)] /\ Last(s) \in S
  BY <1>1 DEF Last
<1> HIDE DEF f
<1>4. s = Append(f, Last(s))
  BY <1>1, <1>2, <1>3
<1> QED
  BY <1>2, <1>3, <1>4 DEF f

LEMMA GrowSequence ==
  ASSUME NEW S, NEW P, <<>> \in P,
         \A s \in Seq(S) : \A x \in S : s \in P => Append(s, x) \in P
  PROVE  Seq(S) \subseteq P
<1> DEFINE N == {n \in Nat : \A s \in Seq(S) : Len(s) = n => s \in P}
<1>1. 0 \in N
  OBVIOUS
<1>2. ASSUME NEW n \in Nat, n \in N
      PROVE  n + 1 \in N
  <2> SUFFICES ASSUME NEW s \in Seq(S), Len(s) = n + 1
               PROVE  s \in P
    OBVIOUS
  <2>1. s # <<>>
    OBVIOUS
  <2>2. /\ Front(s) \in Seq(S) /\ Len(Front(s)) = n /\ Last(s) \in S
        /\ s = Append(Front(s), Last(s))
    BY <2>1, FrontAndLast
  <2>3. Front(s) \in P
    BY <1>2, <2>2
  <2> QED
    BY <2>2, <2>3
<1>3. Nat \subseteq N
  <2> HIDE DEF N
  <2> QED
    BY <1>1, <1>2, Climb
<1> QED
  BY <1>3

(***************************************************************************)
(* Recursion.  A function on the numbers up to n that is given by its      *)
(* value at 0 and a step exists.                                           *)
(***************************************************************************)
Recurs(f, n, a, h) == f[0] = a /\ \A i \in 1 .. n : f[i] = h[i][f[i - 1]]

LEMMA RecursionExists ==
  ASSUME NEW S, NEW a \in S, NEW n \in Nat, NEW h \in [1 .. n -> [S -> S]]
  PROVE  \E f \in [0 .. n -> S] : Recurs(f, n, a, h)
<1> DEFINE P == {m \in Nat : m <= n => \E f \in [0 .. m -> S] : Recurs(f, m, a, h)}
<1>1. 0 \in P
  <2> DEFINE f == [i \in 0 .. 0 |-> a]
  <2>1. f \in [0 .. 0 -> S] /\ Recurs(f, 0, a, h)
    BY DEF Recurs
  <2> QED
    BY <2>1
<1>2. ASSUME NEW m \in Nat, m \in P
      PROVE  m + 1 \in P
  <2> SUFFICES ASSUME m + 1 <= n
               PROVE  \E f \in [0 .. m + 1 -> S] : Recurs(f, m + 1, a, h)
    OBVIOUS
  <2>1. PICK g \in [0 .. m -> S] : Recurs(g, m, a, h)
    BY <1>2
  <2> DEFINE f == [i \in 0 .. m + 1 |-> IF i = m + 1 THEN h[m + 1][g[m]] ELSE g[i]]
  <2>2. m + 1 \in 1 .. n /\ h[m + 1] \in [S -> S] /\ g[m] \in S
    OBVIOUS
  <2>3. h[m + 1][g[m]] \in S
    BY <2>2
  <2>4. f \in [0 .. m + 1 -> S]
    BY <2>3
  <2>5. ASSUME NEW i \in 1 .. m + 1
        PROVE  f[i] = h[i][f[i - 1]]
    <3>1. CASE i = m + 1
      BY <3>1
    <3>2. CASE i # m + 1
      <4>1. i \in 1 .. m /\ f[i] = g[i] /\ f[i - 1] = g[i - 1]
        BY <3>2
      <4> QED
        BY <2>1, <4>1 DEF Recurs
    <3> QED
      BY <3>1, <3>2
  <2>6. f[0] = a
    BY <2>1 DEF Recurs
  <2>7. Recurs(f, m + 1, a, h)
    <3> HIDE DEF f
    <3> QED
      BY <2>5, <2>6 DEF Recurs
  <2> QED
    BY <2>4, <2>7
<1>3. Nat \subseteq P
  <2> HIDE DEF P
  <2> QED
    BY <1>1, <1>2, Climb
<1> QED
  BY <1>3

-----------------------------------------------------------------------------
(***************************************************************************)
(* Sequences end to end.                                                   *)
(***************************************************************************)
Flattening(ss, f) ==
  f = [i \in 1 .. Len(ss) |-> IF i = 1 THEN ss[i] ELSE f[i - 1] \o ss[i]]

LEMMA FlattenPartial ==
  ASSUME NEW S, NEW ss \in Seq(Seq(S))
  PROVE  \E g \in [0 .. Len(ss) -> Seq(S)] :
           /\ g[0] = <<>>
           /\ \A i \in 1 .. Len(ss) : g[i] = g[i - 1] \o ss[i]
           /\ FlattenSeq(ss) = g[Len(ss)]
<1> DEFINE n == Len(ss)
           h == [i \in 1 .. n |-> [x \in Seq(S) |-> x \o ss[i]]]
<1>1. n \in Nat /\ Len(ss) = n /\ \A i \in 1 .. n : ss[i] \in Seq(S)
  OBVIOUS
<1> HIDE DEF n
<1>2. h \in [1 .. n -> [Seq(S) -> Seq(S)]]
  BY <1>1
<1>3. <<>> \in Seq(S)
  OBVIOUS
<1>4. PICK g \in [0 .. n -> Seq(S)] : Recurs(g, n, <<>>, h)
  <2> HIDE DEF h
  <2> QED
    BY <1>1, <1>2, <1>3, RecursionExists
<1>5. g[0] = <<>> /\ \A i \in 1 .. n : g[i] = g[i - 1] \o ss[i]
  <2>1. g[0] = <<>> /\ \A i \in 1 .. n : g[i] = h[i][g[i - 1]]
    BY <1>4 DEF Recurs
  <2>2. \A i \in 1 .. n : g[i - 1] \in Seq(S)
    BY <1>1
  <2> QED
    BY <2>1, <2>2
<1> HIDE DEF h
<1>6. CASE n = 0
  BY <1>1, <1>4, <1>5, <1>6 DEF FlattenSeq
<1>7. CASE n # 0
  <2> DEFINE f == [i \in 1 .. n |-> g[i]]
             c == CHOOSE x : Flattening(ss, x)
             d == [i \in 0 .. n |-> IF i = 0 THEN <<>> ELSE c[i]]
  <2>1. Flattening(ss, f)
    <3>1. 1 \in 1 .. n
      BY <1>1, <1>7
    <3>2. g[1] = ss[1]
      <4>1. g[1] = g[1 - 1] \o ss[1] /\ ss[1] \in Seq(S)
        BY <1>1, <1>5, <3>1
      <4>2. g[1 - 1] = <<>>
        BY <1>5
      <4> HIDE DEF c, d, f
      <4>3. g[1] = <<>> \o ss[1]
        BY <4>1, <4>2
      <4> QED
        BY <4>1, <4>3, ConcatEmptySeq
    <3>3. ASSUME NEW i \in 1 .. n
          PROVE  f[i] = IF i = 1 THEN ss[i] ELSE f[i - 1] \o ss[i]
      <4>1. CASE i = 1
        BY <3>2, <4>1
      <4>2. CASE i # 1
        <5>1. i - 1 \in 1 .. n
          BY <1>1, <4>2
        <5>2. f[i] = g[i] /\ f[i - 1] = g[i - 1]
          BY <5>1
        <5> QED
          BY <1>5, <4>2, <5>2
      <4> QED
        BY <4>1, <4>2
    <3>4. f = [i \in 1 .. n |-> f[i]]
      OBVIOUS
    <3> QED
      <4> HIDE DEF f
      <4> QED
        BY <1>1, <3>3, <3>4 DEF Flattening
  <2>2. Flattening(ss, c)
    <3> HIDE DEF f
    <3> QED
      BY <2>1
  <2>3. FlattenSeq(ss) = c[n]
    BY <1>1, <1>7 DEF FlattenSeq, Flattening
  <2>4. \A i \in 1 .. n : c[i] = IF i = 1 THEN ss[i] ELSE c[i - 1] \o ss[i]
    <3> HIDE DEF c
    <3> QED
      BY <1>1, <2>2 DEF Flattening
  <2> HIDE DEF c
  <2>5. ASSUME NEW i \in Nat, i < n, d[i] = g[i]
        PROVE  d[i + 1] = g[i + 1]
    <3>1. i + 1 \in 1 .. n /\ (i + 1) - 1 = i /\ ss[i + 1] \in Seq(S)
      BY <1>1, <2>5
    <3>2. g[i + 1] = g[i] \o ss[i + 1]
      BY <1>5, <3>1
    <3>3. d[i + 1] = c[i + 1]
      BY <3>1
    <3>4. CASE i = 0
      <4>1. c[i + 1] = ss[i + 1] /\ g[i] = <<>>
        BY <2>4, <3>1, <3>4, <1>5
      <4> QED
        BY <3>1, <3>2, <3>3, <4>1
    <3>5. CASE i # 0
      <4>1. d[i] = c[i]
        <5>1. i \in 0 .. n
          BY <1>1, <3>1
        <5> QED
          BY <3>5, <5>1
      <4>2. i + 1 # 1
        BY <3>5
      <4>3. c[i + 1] = c[(i + 1) - 1] \o ss[i + 1]
        BY <2>4, <3>1, <4>2
      <4> QED
        BY <2>5, <3>1, <3>2, <3>3, <4>1, <4>3
    <3> QED
      BY <3>4, <3>5
  <2> DEFINE P == {i \in Nat : i <= n => d[i] = g[i]}
  <2>6. 0 \in P
    BY <1>1, <1>5
  <2>7. \A i \in Nat : i \in P => i + 1 \in P
    <3> SUFFICES ASSUME NEW i \in Nat, i <= n => d[i] = g[i], i + 1 <= n
                 PROVE  d[i + 1] = g[i + 1]
      OBVIOUS
    <3>1. i < n /\ d[i] = g[i]
      BY <1>1
    <3> HIDE DEF d
    <3> QED
      BY <2>5, <3>1
  <2>8. n \in P
    <3> HIDE DEF P
    <3> QED
      BY <1>1, <2>6, <2>7, Climb
  <2>9. c[n] = g[n]
    BY <2>8, <1>1, <1>7
  <2> QED
    BY <1>1, <1>5, <2>3, <2>9
<1> QED
  BY <1>1, <1>6, <1>7

LEMMA FlattenAppend ==
  ASSUME NEW S, NEW ss \in Seq(Seq(S)), NEW t \in Seq(S)
  PROVE  /\ FlattenSeq(ss) \in Seq(S)
         /\ FlattenSeq(Append(ss, t)) = FlattenSeq(ss) \o t
<1> DEFINE n == Len(ss)
           tt == Append(ss, t)
<1>1. /\ n \in Nat /\ Len(ss) = n
      /\ tt \in Seq(Seq(S)) /\ Len(tt) = n + 1 /\ tt[n + 1] = t
      /\ \A i \in 1 .. n : tt[i] = ss[i]
  OBVIOUS
<1> HIDE DEF n, tt
<1>2. PICK g \in [0 .. n -> Seq(S)] :
        /\ g[0] = <<>> /\ \A i \in 1 .. n : g[i] = g[i - 1] \o ss[i]
        /\ FlattenSeq(ss) = g[n]
  BY <1>1, FlattenPartial
<1>3. PICK k \in [0 .. n + 1 -> Seq(S)] :
        /\ k[0] = <<>> /\ \A i \in 1 .. n + 1 : k[i] = k[i - 1] \o tt[i]
        /\ FlattenSeq(tt) = k[n + 1]
  <2>1. \E k \in [0 .. Len(tt) -> Seq(S)] :
          /\ k[0] = <<>> /\ \A i \in 1 .. Len(tt) : k[i] = k[i - 1] \o tt[i]
          /\ FlattenSeq(tt) = k[Len(tt)]
    BY <1>1, FlattenPartial
  <2> QED
    BY <1>1, <2>1
<1> DEFINE P == {i \in Nat : i <= n => k[i] = g[i]}
<1>4. 0 \in P
  BY <1>2, <1>3
<1>5. ASSUME NEW i \in Nat, i \in P
      PROVE  i + 1 \in P
  <2> SUFFICES ASSUME i + 1 <= n
               PROVE  k[i + 1] = g[i + 1]
    OBVIOUS
  <2>1. i + 1 \in 1 .. n /\ i + 1 \in 1 .. n + 1 /\ (i + 1) - 1 = i
    BY <1>1
  <2>a. k[i] = g[i]
    BY <1>1, <1>5
  <2>2. k[i + 1] = k[i] \o tt[i + 1] /\ g[i + 1] = g[i] \o ss[i + 1]
    BY <1>2, <1>3, <2>1
  <2> QED
    BY <1>1, <2>1, <2>a, <2>2
<1>6. n \in P
  <2> HIDE DEF P
  <2> QED
    BY <1>1, <1>4, <1>5, Climb
<1>7. k[n] = g[n] /\ n + 1 \in 1 .. n + 1 /\ (n + 1) - 1 = n /\ g[n] \in Seq(S)
  BY <1>1, <1>6
<1>8. k[n + 1] = k[n] \o t
  BY <1>1, <1>3, <1>7
<1> QED
  BY <1>2, <1>3, <1>7, <1>8 DEF tt

LEMMA FlattenNothing == FlattenSeq(<<>>) = <<>>
BY DEF FlattenSeq

\* A sequence of sequences given place by place.
LEMMA FlattenMore ==
  ASSUME NEW S, NEW m \in Nat, NEW f \in [1 .. m + 1 -> Seq(S)]
  PROVE  /\ FlattenSeq(f) \in Seq(S)
         /\ FlattenSeq(f) = FlattenSeq([i \in 1 .. m |-> f[i]]) \o f[m + 1]
<1> DEFINE g == [i \in 1 .. m |-> f[i]]
<1>1. g \in Seq(Seq(S)) /\ f \in Seq(Seq(S)) /\ f[m + 1] \in Seq(S) /\ Len(g) = m /\ Len(f) = m + 1
  OBVIOUS
<1>2. f = Append(g, f[m + 1])
  BY <1>1
<1> HIDE DEF g
<1>3. FlattenSeq(f) = FlattenSeq(g) \o f[m + 1] /\ FlattenSeq(f) \in Seq(S)
  BY <1>1, <1>2, FlattenAppend
<1> QED
  BY <1>3 DEF g

LEMMA FlattenTyped ==
  ASSUME NEW S, NEW m \in Nat, NEW f \in [1 .. m -> Seq(S)]
  PROVE  FlattenSeq(f) \in Seq(S)
<1>1. f \in Seq(Seq(S)) /\ <<>> \in Seq(S)
  OBVIOUS
<1> QED
  BY <1>1, FlattenAppend

-----------------------------------------------------------------------------
Entry == [token : Tokens, by : Authors]

(***************************************************************************)
(* The mask is for the end of the tokens; before it lies the prompt and    *)
(* nothing else, and under it a bit is set exactly where the model wrote.  *)
(* A refused turn leaves the loop below its own budget.                    *)
(***************************************************************************)
Aligned(entries, bits) ==
  LET p == Len(entries) - Len(bits) IN
  /\ \A i \in 1 .. p : entries[i].by = "prompt"
  /\ \A i \in 1 .. Len(bits) : bits[i] = 1 <=> entries[p + i].by = "model"

Consistent(entries, bits) ==
  /\ entries \in Seq(Entry) /\ bits \in Seq({0, 1})
  /\ Len(bits) <= Len(entries)
  /\ Aligned(entries, bits)

BeginsWith(prompt, entries, bits) ==
  /\ Len(entries) = Len(prompt) + Len(bits)
  /\ \A i \in 1 .. Len(prompt) : entries[i] = [token |-> prompt[i], by |-> "prompt"]

Begun(entries, bits) == \E prompt \in Prompts : BeginsWith(prompt, entries, bits)

IInv ==
  /\ Consistent(ids, mask)
  /\ state = "pending" => ids = <<>> /\ mask = <<>>
  /\ state # "pending" => Begun(ids, mask)
  /\ state \in {"generating", "raised"} => Len(mask) < ResponseLength
  /\ state = "raised" => MaxTokens = 0

Bits(author, n) == IF author = "model" THEN Ones(n) ELSE Zeros(n)

-----------------------------------------------------------------------------
LEMMA ByTyped ==
  ASSUME NEW tokens \in Seq(Tokens), NEW author \in Authors
  PROVE  /\ By(author, tokens) \in Seq(Entry)
         /\ Len(By(author, tokens)) = Len(tokens)
         /\ \A i \in 1 .. Len(tokens) : By(author, tokens)[i].by = author
<1>1. /\ DOMAIN tokens = 1 .. Len(tokens) /\ Len(tokens) \in Nat
      /\ \A i \in 1 .. Len(tokens) : tokens[i] \in Tokens
  OBVIOUS
<1>2. By(author, tokens) = [i \in 1 .. Len(tokens) |-> [token |-> tokens[i], by |-> author]]
  BY <1>1 DEF By
<1>3. By(author, tokens) \in [1 .. Len(tokens) -> Entry]
  BY <1>1, <1>2 DEF Entry
<1>4. By(author, tokens) \in Seq(Entry) /\ Len(By(author, tokens)) = Len(tokens)
  BY <1>1, <1>3
<1> QED
  BY <1>2, <1>4

LEMMA BitsTyped ==
  ASSUME NEW n \in Nat, NEW author
  PROVE  /\ Bits(author, n) \in Seq({0, 1})
         /\ Len(Bits(author, n)) = n
         /\ \A i \in 1 .. n : Bits(author, n)[i] = 1 <=> author = "model"
BY DEF Bits, Ones, Zeros

LEMMA PrefixTyped ==
  ASSUME NEW S, NEW s \in Seq(S), NEW n \in Nat
  PROVE  /\ Prefix(s, n) \in Seq(S)
         /\ Len(Prefix(s, n)) = Least(n, Len(s))
         /\ \A i \in 1 .. Least(n, Len(s)) : Prefix(s, n)[i] = s[i]
BY DEF Prefix, Least

\* Whoever appends tokens with the bits for them keeps the two in step.
LEMMA Extension ==
  ASSUME NEW entries, NEW bits, Consistent(entries, bits),
         NEW tokens \in Seq(Tokens), NEW author \in {"model", "tool"}
  PROVE  /\ Consistent(entries \o By(author, tokens), bits \o Bits(author, Len(tokens)))
         /\ Begun(entries, bits) =>
              Begun(entries \o By(author, tokens), bits \o Bits(author, Len(tokens)))
         /\ Len(bits \o Bits(author, Len(tokens))) = Len(bits) + Len(tokens)
<1> DEFINE more == By(author, tokens)
           ones == Bits(author, Len(tokens))
           e == entries \o more
           b == bits \o ones
           p == Len(entries) - Len(bits)
<1>0. /\ entries \in Seq(Entry) /\ bits \in Seq({0, 1})
      /\ Len(bits) <= Len(entries)
      /\ Len(tokens) \in Nat /\ Len(bits) \in Nat /\ Len(entries) \in Nat
  BY DEF Consistent
<1>1. /\ more \in Seq(Entry) /\ Len(more) = Len(tokens)
      /\ \A i \in 1 .. Len(tokens) : more[i].by = author
  BY ByTyped DEF Authors
<1>2. /\ ones \in Seq({0, 1}) /\ Len(ones) = Len(tokens)
      /\ \A i \in 1 .. Len(tokens) : ones[i] = 1 <=> author = "model"
  BY <1>0, BitsTyped
<1> HIDE DEF more, ones
<1>3. /\ e \in Seq(Entry) /\ Len(e) = Len(entries) + Len(tokens)
      /\ \A i \in 1 .. Len(entries) : e[i] = entries[i]
      /\ \A i \in 1 .. Len(tokens) : e[Len(entries) + i] = more[i]
  <2>1. entries \in Seq(Entry) /\ more \in Seq(Entry) /\ e = entries \o more
    BY <1>0, <1>1
  <2> HIDE DEF e
  <2>2. /\ e \in Seq(Entry) /\ Len(e) = Len(entries) + Len(more)
        /\ \A i \in 1 .. Len(entries) : e[i] = entries[i]
        /\ \A i \in 1 .. Len(more) : e[Len(entries) + i] = more[i]
    BY <2>1, EndToEnd
  <2>3. Len(more) = Len(tokens)
    BY <1>1
  <2> QED
    BY <2>2, <2>3
<1>4. /\ b \in Seq({0, 1}) /\ Len(b) = Len(bits) + Len(tokens)
      /\ \A i \in 1 .. Len(bits) : b[i] = bits[i]
      /\ \A i \in 1 .. Len(tokens) : b[Len(bits) + i] = ones[i]
  <2>1. bits \in Seq({0, 1}) /\ ones \in Seq({0, 1}) /\ b = bits \o ones
    BY <1>0, <1>2
  <2> HIDE DEF b
  <2>2. /\ b \in Seq({0, 1}) /\ Len(b) = Len(bits) + Len(ones)
        /\ \A i \in 1 .. Len(bits) : b[i] = bits[i]
        /\ \A i \in 1 .. Len(ones) : b[Len(bits) + i] = ones[i]
    BY <2>1, EndToEnd
  <2>3. Len(ones) = Len(tokens)
    BY <1>2
  <2> QED
    BY <2>2, <2>3
<1> HIDE DEF e, b
<1>5. Aligned(e, b)
  <2>0. Aligned(entries, bits)
    BY DEF Consistent
  <2>1. Len(e) - Len(b) = p
    BY <1>0, <1>3, <1>4
  <2>2. ASSUME NEW i \in 1 .. p
        PROVE  e[i].by = "prompt"
    <3>1. i \in 1 .. Len(entries) /\ entries[i].by = "prompt"
      BY <2>0, <1>0 DEF Aligned
    <3> QED
      BY <3>1, <1>3
  <2>3. ASSUME NEW i \in 1 .. Len(b)
        PROVE  b[i] = 1 <=> e[p + i].by = "model"
    <3>1. CASE i \in 1 .. Len(bits)
      <4>1. p + i \in 1 .. Len(entries)
        BY <3>1, <1>0
      <4>2. bits[i] = 1 <=> entries[p + i].by = "model"
        BY <2>0, <3>1 DEF Aligned
      <4> QED
        BY <4>1, <4>2, <3>1, <1>3, <1>4
    <3>2. CASE i \notin 1 .. Len(bits)
      <4> DEFINE k == i - Len(bits)
      <4>1. k \in 1 .. Len(tokens) /\ Len(bits) + k = i /\ Len(entries) + k = p + i
        BY <3>2, <1>0, <1>4
      <4>2. b[i] = ones[k] /\ e[p + i] = more[k]
        BY <4>1, <1>3, <1>4
      <4> QED
        BY <4>1, <4>2, <1>1, <1>2
    <3> QED
      BY <3>1, <3>2
  <2> QED
    BY <2>1, <2>2, <2>3 DEF Aligned
<1>6. Consistent(e, b)
  BY <1>0, <1>3, <1>4, <1>5 DEF Consistent
<1>7. ASSUME Begun(entries, bits)
      PROVE  Begun(e, b)
  <2>1. PICK prompt \in Prompts : BeginsWith(prompt, entries, bits)
    BY <1>7 DEF Begun
  <2>2. prompt \in Seq(Tokens) /\ Len(prompt) \in Nat
    BY LoopAssumption
  <2>3. Len(entries) = Len(prompt) + Len(bits) /\ 1 .. Len(prompt) \subseteq 1 .. Len(entries)
    BY <1>0, <2>1, <2>2 DEF BeginsWith
  <2>4. Len(e) = Len(prompt) + Len(b)
    BY <1>0, <1>3, <1>4, <2>2, <2>3
  <2>5. \A i \in 1 .. Len(prompt) : e[i] = [token |-> prompt[i], by |-> "prompt"]
    BY <1>3, <2>1, <2>3 DEF BeginsWith
  <2> QED
    BY <2>4, <2>5 DEF Begun, BeginsWith
<1> QED
  BY <1>4, <1>6, <1>7 DEF e, b, more, ones

LEMMA MessageTyped ==
  ASSUME NEW n \in Nat, NEW answers \in [1 .. n -> Outputs]
  PROVE  ToolMessage(answers) \in Seq(Tokens)
<1> DEFINE block(i) == <<"<tool_response>">> \o answers[i] \o <<"</tool_response>">>
           blocks == [i \in DOMAIN answers |-> block(i)]
<1>1. \A i \in 1 .. n : answers[i] \in Seq(Tokens)
  BY LoopAssumption
<1>2. {"<tool_response>", "</tool_response>", "user", "assistant", "<think>"} \subseteq Tokens
  BY DEF Tokens, Tags, Words
<1>3. \A i \in 1 .. n : block(i) \in Seq(Tokens)
  BY <1>1, <1>2
<1> HIDE DEF block
<1>4. blocks \in [1 .. n -> Seq(Tokens)]
  BY <1>3
<1> HIDE DEF blocks
<1>5. FlattenSeq(blocks) \in Seq(Tokens)
  BY <1>4, FlattenTyped
<1>6. ToolMessage(answers) = <<"user">> \o FlattenSeq(blocks) \o <<"assistant", "<think>">>
  BY DEF ToolMessage, blocks, block
<1> QED
  BY <1>2, <1>5, <1>6

LEMMA InvalidResponseTyped ==
  ASSUME NEW used \in Nat, used < ResponseLength
  PROVE  InvalidResponse(used) \in Seq(Tokens)
<1>1. <<<<"words">>>> \in [1 .. 1 -> Outputs]
  BY LoopAssumption
<1>2. ToolMessage(<<<<"words">>>>) \in Seq(Tokens)
  BY <1>1, MessageTyped
<1>3. ResponseLength - used \in Nat
  BY LoopAssumption
<1> QED
  BY <1>2, <1>3, PrefixTyped DEF InvalidResponse

LEMMA GenerationsTyped ==
  ASSUME Consistent(ids, mask), NEW turn \in Generations
  PROVE  turn \in Seq(Tokens)
<1>1. MaxTokens \in Nat
  BY LoopAssumption, SMTT(30) DEF MaxTokens, Least, Consistent
<1>2. CASE turn = <<>>
  BY <1>2
<1>3. CASE \E t \in Turns : turn = Prefix(t, MaxTokens)
  <2>1. PICK t \in Turns : turn = Prefix(t, MaxTokens)
    BY <1>3
  <2>2. t \in Seq(Tokens)
    BY LoopAssumption
  <2> QED
    BY <1>1, <2>1, <2>2, PrefixTyped
<1> QED
  BY <1>2, <1>3 DEF Generations

-----------------------------------------------------------------------------
LEMMA InitConsistent == Init => IInv
<1> SUFFICES ASSUME Init PROVE IInv
  OBVIOUS
<1>1. ids = <<>> /\ mask = <<>> /\ state = "pending"
  BY DEF Init
<1> QED
  BY <1>1, LoopAssumption DEF IInv, Consistent, Aligned

LEMMA PrepareKeeps == IInv /\ Prepare => IInv'
<1> SUFFICES ASSUME IInv, Prepare PROVE IInv'
  OBVIOUS
<1>1. mask = <<>> /\ mask' = <<>> /\ state' = "generating"
  BY DEF IInv, Prepare
<1>2. PICK prompt \in Prompts : ids' = By("prompt", prompt)
  BY DEF Prepare
<1>3. prompt \in Seq(Tokens) /\ Len(prompt) \in Nat /\ ResponseLength \in Nat \ {0}
  BY LoopAssumption
<1>4. /\ ids' \in Seq(Entry) /\ Len(ids') = Len(prompt)
      /\ \A i \in 1 .. Len(prompt) : ids'[i].by = "prompt"
  BY <1>2, <1>3, ByTyped DEF Authors
<1>5. Aligned(ids', mask')
  BY <1>1, <1>3, <1>4 DEF Aligned
<1>6. Begun(ids', mask')
  <2>1. DOMAIN prompt = 1 .. Len(prompt)
    BY <1>3
  <2>2. \A i \in 1 .. Len(prompt) : ids'[i] = [token |-> prompt[i], by |-> "prompt"]
    BY <1>2, <2>1 DEF By
  <2>3. Len(ids') = Len(prompt) + Len(mask')
    BY <1>1, <1>3, <1>4
  <2> QED
    BY <2>2, <2>3 DEF Begun, BeginsWith
<1> QED
  BY <1>1, <1>3, <1>4, <1>5, <1>6 DEF IInv, Consistent

LEMMA GenerateKeeps ==
  ASSUME IInv, NEW turn \in Generations, Generate(turn)
  PROVE  IInv'
<1> DEFINE used == Len(mask) + Len(turn)
           appended == IF Invalid(Decoded(turn), ToolCalls(turn)) /\ used < ResponseLength
                       THEN InvalidResponse(used) ELSE <<>>
<1>1. turn \in Seq(Tokens)
  BY GenerationsTyped DEF IInv
<1>2. used \in Nat
  BY <1>1 DEF IInv, Consistent
<1>3. appended \in Seq(Tokens)
  BY <1>2, InvalidResponseTyped
<1>4. /\ ids' = (ids \o By("model", turn)) \o By("tool", appended)
      /\ mask' = (mask \o Bits("model", Len(turn))) \o Bits("tool", Len(appended))
      /\ state' \in {"terminated", "processing_tools"}
  BY DEF Generate, Bits
<1> HIDE DEF appended
<1>5. /\ Consistent(ids \o By("model", turn), mask \o Bits("model", Len(turn)))
      /\ Begun(ids \o By("model", turn), mask \o Bits("model", Len(turn)))
  <2>1. Begun(ids, mask)
    BY DEF IInv, Generate
  <2> QED
    BY <1>1, <2>1, Extension DEF IInv
<1>6. Consistent(ids', mask') /\ Begun(ids', mask')
  BY <1>3, <1>4, <1>5, Extension
<1> QED
  BY <1>4, <1>6 DEF IInv

LEMMA RaiseKeeps == IInv /\ Raise => IInv'
<1> SUFFICES ASSUME IInv, Raise PROVE IInv'
  OBVIOUS
<1>1. /\ state = "generating" /\ state' = "raised" /\ MaxTokens = 0
      /\ ids' = ids /\ mask' = mask
  BY DEF Raise
<1>2. MaxTokens' = MaxTokens
  BY <1>1 DEF MaxTokens
<1> QED
  BY <1>1, <1>2 DEF IInv

LEMMA ProcessToolsKeeps ==
  ASSUME IInv,
         NEW n \in 1 .. MaxParallelCalls,
         NEW answers \in [1 .. n -> Outputs],
         ProcessTools(answers)
  PROVE  IInv'
<1> DEFINE response == ToolMessage(answers)
<1>1. response \in Seq(Tokens)
  BY MessageTyped
<1>2. CASE Fits(answers)
  <2>1. /\ ids' = ids \o By("tool", response)
        /\ mask' = mask \o Bits("tool", Len(response))
        /\ state' = "generating"
        /\ Len(mask) + Len(response) < ResponseLength
        /\ Begun(ids, mask)
    BY <1>2 DEF ProcessTools, Fits, Bits, IInv
  <2> HIDE DEF response
  <2>2. /\ Consistent(ids', mask') /\ Begun(ids', mask')
        /\ Len(mask') = Len(mask) + Len(response)
    BY <1>1, <2>1, Extension DEF IInv
  <2> QED
    BY <2>1, <2>2 DEF IInv
<1>3. CASE ~Fits(answers)
  <2>1. ids' = ids /\ mask' = mask /\ state' = "terminated" /\ Begun(ids, mask)
    BY <1>3 DEF ProcessTools, IInv
  <2> QED
    BY <2>1 DEF IInv
<1> QED
  BY <1>2, <1>3

LEMMA NextKeeps == IInv /\ [Next]_vars => IInv'
<1> SUFFICES ASSUME IInv, [Next]_vars PROVE IInv'
  OBVIOUS
<1>1. CASE Prepare
  BY <1>1, PrepareKeeps
<1>2. CASE \E turn \in Generations : Generate(turn)
  BY <1>2, GenerateKeeps
<1>3. CASE \E n \in 1 .. MaxParallelCalls :
             \E answers \in [1 .. n -> Outputs] : ProcessTools(answers)
  BY <1>3, ProcessToolsKeeps
<1>4. CASE Score
  BY <1>4 DEF Score, IInv
<1>5. CASE Ended \/ UNCHANGED vars
  <2>1. UNCHANGED vars
    BY <1>5 DEF Ended
  <2>2. MaxTokens' = MaxTokens
    BY <2>1 DEF vars, MaxTokens
  <2> QED
    BY <2>1, <2>2 DEF vars, IInv
<1>6. CASE Raise
  BY <1>6, RaiseKeeps
<1> QED
  BY <1>1, <1>2, <1>3, <1>4, <1>5, <1>6 DEF Next

THEOREM AlwaysConsistent == Spec => []IInv
<1>1. Init => IInv
  BY InitConsistent
<1>2. IInv /\ [Next]_vars => IInv'
  BY NextKeeps
<1> QED
  BY <1>1, <1>2, PTL DEF Spec

-----------------------------------------------------------------------------
\* The server refuses no turn of a rollout whose prompt fits its budget, whatever
\* the budgets, the caps, the turns and the answers of the tool: an answer is taken
\* only if a token of the response is left, and the prompt has a budget of its own.
THEOREM RefusedForPrompt == Spec => []RefusesOnlyPrompts
<1>1. ASSUME IInv PROVE RefusesOnlyPrompts
  <2> SUFFICES ASSUME state = "raised"
               PROVE  \E prompt \in Prompts :
                        Len(prompt) > PromptLength /\ BeginsWith(prompt, ids, mask)
    BY DEF RefusesOnlyPrompts, BeginsWith
  <2>1. /\ MaxTokens = 0 /\ Len(mask) < ResponseLength
        /\ Len(ids) \in Nat /\ Len(mask) \in Nat
    BY <1>1 DEF IInv, Consistent
  <2>2. PICK prompt \in Prompts : BeginsWith(prompt, ids, mask)
    BY <1>1 DEF IInv, Begun
  <2>3. Len(prompt) \in Nat /\ Len(ids) = Len(prompt) + Len(mask)
    BY <2>2, LoopAssumption DEF BeginsWith
  <2>4. Len(ids) >= PromptLength + ResponseLength
    BY <2>1, LoopAssumption, SMTT(30) DEF MaxTokens, Least
  <2>5. Len(prompt) > PromptLength
    BY <2>1, <2>3, <2>4, LoopAssumption
  <2> QED
    BY <2>2, <2>5
<1> QED
  BY <1>1, AlwaysConsistent, PTL

\* Of every token the trainer is given the mask says whether the model wrote it.
THEOREM MaskTellsAlways == Spec => []MaskTellsWhoWrote
<1>1. ASSUME IInv PROVE MaskTellsWhoWrote
  <2> DEFINE n == Len(mask)
             p == Len(ids) - n
             end == LastOf(ids, n)
  <2>0. /\ ids \in Seq(Entry) /\ mask \in Seq({0, 1}) /\ Aligned(ids, mask)
        /\ n \in Nat /\ p \in Nat /\ Len(ids) = p + n /\ ResponseLength \in Nat
    BY <1>1, LoopAssumption DEF IInv, Consistent
  <2>1. CASE mask = <<>>
    <3>1. Response = Prefix(ids, ResponseLength)
      BY <2>1 DEF Response, LastOf
    <3>2. \A i \in DOMAIN Response : i \in 1 .. Len(ids) /\ Response[i] = ids[i]
      BY <3>1, <2>0, PrefixTyped DEF Least
    <3>3. \A i \in 1 .. Len(ids) : ids[i].by = "prompt"
      BY <2>0, <2>1 DEF Aligned
    <3> QED
      BY <2>1, <3>2, <3>3 DEF MaskTellsWhoWrote
  <2>2. CASE mask # <<>>
    <3>1. n # 0
      BY <2>0, <2>2
    <3>2. /\ end \in Seq(Entry) /\ Len(end) = n
          /\ \A i \in 1 .. n : end[i] = ids[p + i]
      BY <2>0, <3>1 DEF LastOf
    <3> HIDE DEF end
    <3> DEFINE m == Least(ResponseLength, n)
    <3>3. m \in Nat /\ 1 .. m \subseteq 1 .. n
      BY <2>0 DEF Least
    <3>4. /\ Response \in Seq(Entry) /\ Len(Response) = m
          /\ \A i \in 1 .. m : Response[i] = end[i]
      BY <2>0, <3>2, PrefixTyped, ZenonT(40) DEF Response, end
    <3>5. /\ ResponseMask \in Seq({0, 1}) /\ Len(ResponseMask) = m
          /\ \A i \in 1 .. m : ResponseMask[i] = mask[i]
      BY <2>0, PrefixTyped DEF ResponseMask
    <3>6. \A i \in 1 .. n : mask[i] = 1 <=> ids[p + i].by = "model"
      BY <2>0 DEF Aligned
    <3>7. ASSUME NEW i \in 1 .. m
          PROVE  ResponseMask[i] = 1 <=> Response[i].by = "model"
      <4>1. i \in 1 .. n
        BY <3>3
      <4>2. ResponseMask[i] = mask[i] /\ Response[i] = ids[p + i]
        BY <3>2, <3>4, <3>5, <4>1
      <4> QED
        BY <3>6, <4>1, <4>2, Zenon
    <3>8. DOMAIN Response = 1 .. m
      BY <3>4
    <3> QED
      BY <2>2, <3>4, <3>5, <3>7, <3>8 DEF MaskTellsWhoWrote
  <2> QED
    BY <2>1, <2>2
<1> QED
  BY <1>1, AlwaysConsistent, PTL

-----------------------------------------------------------------------------
(***************************************************************************)
(* What is left of a sequence without the members outside a set.           *)
(***************************************************************************)
Kept(x, S) == IF x \in S THEN <<x>> ELSE <<>>

LEMMA KeptTyped ==
  ASSUME NEW T, NEW S, NEW x \in T
  PROVE  /\ Kept(x, S) \in Seq(T) /\ Kept(x, S) \in Seq(T \cap S)
<1>1. CASE x \in S
  <2>1. Kept(x, S) = <<x>> /\ x \in T \cap S
    BY <1>1 DEF Kept
  <2> QED
    BY <2>1
<1>2. CASE x \notin S
  <2>1. Kept(x, S) = <<>>
    BY <1>2 DEF Kept
  <2> QED
    BY <2>1
<1> QED
  BY <1>1, <1>2

LEMMA OnlyNothing == ASSUME NEW S PROVE Only(<<>>, S) = <<>>
BY FlattenNothing DEF Only

LEMMA OnlyTyped ==
  ASSUME NEW T, NEW S, NEW s \in Seq(T)
  PROVE  Only(s, S) \in Seq(T \cap S)
<1> DEFINE n == Len(s)
           f == [i \in 1 .. n |-> Kept(s[i], S)]
<1>1. n \in Nat /\ DOMAIN s = 1 .. n /\ \A i \in 1 .. n : s[i] \in T
  OBVIOUS
<1> HIDE DEF n
<1>2. f \in [1 .. n -> Seq(T \cap S)]
  BY <1>1, KeptTyped
<1>3. Only(s, S) = FlattenSeq(f)
  BY <1>1 DEF Only, Kept
<1> HIDE DEF f
<1> QED
  BY <1>1, <1>2, <1>3, FlattenTyped

LEMMA OnlyAppend ==
  ASSUME NEW T, NEW S, NEW s \in Seq(T), NEW x \in T
  PROVE  Only(Append(s, x), S) = Only(s, S) \o Kept(x, S)
<1> DEFINE n == Len(s)
           r == Append(s, x)
           f == [i \in 1 .. n + 1 |-> Kept(r[i], S)]
           g == [i \in 1 .. n |-> Kept(s[i], S)]
<1>1. /\ n \in Nat /\ DOMAIN s = 1 .. n /\ DOMAIN r = 1 .. n + 1
      /\ \A i \in 1 .. n : s[i] = r[i]
      /\ r[n + 1] = x
      /\ \A i \in 1 .. n + 1 : r[i] \in T
  OBVIOUS
<1> HIDE DEF n, r
<1>2. f \in [1 .. n + 1 -> Seq(T)]
  BY <1>1, KeptTyped
<1>3. Only(s, S) = FlattenSeq(g) /\ Only(r, S) = FlattenSeq(f)
  BY <1>1 DEF Only, Kept
<1>4. g = [i \in 1 .. n |-> f[i]] /\ f[n + 1] = Kept(x, S)
  BY <1>1
<1> HIDE DEF f, g
<1>5. FlattenSeq(f) = FlattenSeq([i \in 1 .. n |-> f[i]]) \o f[n + 1]
  BY <1>1, <1>2, FlattenMore
<1> QED
  BY <1>3, <1>4, <1>5 DEF r

LEMMA OnlyConcat ==
  ASSUME NEW T, NEW S, NEW s \in Seq(T), NEW t \in Seq(T)
  PROVE  Only(s \o t, S) = Only(s, S) \o Only(t, S)
<1> DEFINE P == {u \in Seq(T) : Only(s \o u, S) = Only(s, S) \o Only(u, S)}
<1>0. \A u \in Seq(T) : Only(u, S) \in Seq(T \cap S)
  BY OnlyTyped
<1>1. <<>> \in P
  <2>1. s \o <<>> = s /\ <<>> \in Seq(T) /\ Only(s, S) \o <<>> = Only(s, S)
    BY <1>0
  <2> QED
    BY <2>1, OnlyNothing
<1>2. ASSUME NEW u \in Seq(T), NEW x \in T, u \in P
      PROVE  Append(u, x) \in P
  <2>1. /\ s \o Append(u, x) = Append(s \o u, x)
        /\ s \o u \in Seq(T) /\ Append(u, x) \in Seq(T)
    OBVIOUS
  <2>2. Only(Append(s \o u, x), S) = Only(s \o u, S) \o Kept(x, S)
    BY <2>1, OnlyAppend
  <2>3. Only(Append(u, x), S) = Only(u, S) \o Kept(x, S)
    BY OnlyAppend
  <2>4. (Only(s, S) \o Only(u, S)) \o Kept(x, S) = Only(s, S) \o (Only(u, S) \o Kept(x, S))
    <3>1. Only(s, S) \in Seq(T \cap S) /\ Only(u, S) \in Seq(T \cap S) /\ Kept(x, S) \in Seq(T \cap S)
      BY <1>0, KeptTyped
    <3> QED
      BY <3>1, ConcatAssociative, SMTT(40)
  <2>5. Only(s \o u, S) = Only(s, S) \o Only(u, S)
    BY <1>2
  <2> QED
    BY <2>1, <2>2, <2>3, <2>4, <2>5
<1>3. Seq(T) \subseteq P
  <2> HIDE DEF P
  <2> QED
    BY <1>1, <1>2, GrowSequence
<1> QED
  BY <1>3

LEMMA ReadTyped ==
  ASSUME NEW s \in Seq(Entry)
  PROVE  /\ Read(s) \in Seq(Tokens) /\ Len(Read(s)) = Len(s)
         /\ \A i \in 1 .. Len(s) : Read(s)[i] = s[i].token
<1>1. /\ DOMAIN s = 1 .. Len(s) /\ Len(s) \in Nat
      /\ \A i \in 1 .. Len(s) : s[i].token \in Tokens
  <2>1. \A i \in 1 .. Len(s) : s[i] \in Entry
    OBVIOUS
  <2>2. \A e \in Entry : e.token \in Tokens
    BY DEF Entry
  <2>3. DOMAIN s = 1 .. Len(s) /\ Len(s) \in Nat
    OBVIOUS
  <2> QED
    BY <2>1, <2>2, <2>3
<1>2. Read(s) = [i \in 1 .. Len(s) |-> s[i].token]
  BY <1>1 DEF Read
<1>3. Read(s) \in [1 .. Len(s) -> Tokens]
  BY <1>1, <1>2
<1> QED
  BY <1>1, <1>2, <1>3

\* To read the entries that are kept is to keep what is read of them.
LEMMA ReadOnly ==
  ASSUME NEW K \in SUBSET Tokens, NEW s \in Seq(Entry)
  PROVE  Only(Read(s), K) = Read(Only(s, [token : K, by : Authors]))
<1> DEFINE E == [token : K, by : Authors]
           P == {u \in Seq(Entry) : Only(Read(u), K) = Read(Only(u, E))}
<1>0. \A u \in Seq(Entry) : /\ Read(u) \in Seq(Tokens) /\ Len(Read(u)) = Len(u)
                            /\ \A i \in 1 .. Len(u) : Read(u)[i] = u[i].token
  BY ReadTyped
<1>1. <<>> \in P
  <2>1. Read(<<>>) = <<>>
    BY DEF Read
  <2>2. Only(<<>>, K) = <<>> /\ Only(<<>>, E) = <<>>
    BY OnlyNothing
  <2> QED
    BY <2>1, <2>2
<1>2. ASSUME NEW u \in Seq(Entry), NEW x \in Entry, u \in P
      PROVE  Append(u, x) \in P
  <2> DEFINE o == Only(u, E)
  <2>1. /\ x.token \in Tokens /\ Append(u, x) \in Seq(Entry)
        /\ x \in E <=> x.token \in K
    BY DEF Entry
  <2>2. Read(Append(u, x)) = Append(Read(u), x.token)
    BY DEF Read, Entry
  <2>3. Only(Read(Append(u, x)), K) = Only(Read(u), K) \o Kept(x.token, K)
    BY <1>0, <2>1, <2>2, OnlyAppend
  <2>4. Only(Append(u, x), E) = o \o Kept(x, E)
    BY OnlyAppend
  <2>5. Only(Read(u), K) = Read(o)
    BY <1>2
  <2>6. o \in Seq(Entry)
    <3>1. o \in Seq(Entry \cap E)
      BY OnlyTyped
    <3> QED
      BY <3>1
  <2> HIDE DEF o, E
  <2>7. Read(o \o Kept(x, E)) = Read(o) \o Kept(x.token, K)
    <3>1. CASE x \in E
      <4>1. o \o Kept(x, E) = Append(o, x) /\ Kept(x.token, K) = <<x.token>>
        BY <2>1, <2>6, <3>1 DEF Kept
      <4>2. Read(Append(o, x)) = Append(Read(o), x.token)
        BY <2>6 DEF Read, Entry
      <4>3. Append(Read(o), x.token) = Read(o) \o <<x.token>>
        BY <1>0, <2>1, <2>6
      <4> QED
        BY <4>1, <4>2, <4>3
    <3>2. CASE x \notin E
      <4>1. Kept(x, E) = <<>> /\ Kept(x.token, K) = <<>>
        BY <2>1, <3>2 DEF Kept
      <4>2. o \o <<>> = o /\ Read(o) \o <<>> = Read(o)
        BY <1>0, <2>6
      <4> QED
        BY <4>1, <4>2
    <3> QED
      BY <3>1, <3>2
  <2> QED
    BY <2>1, <2>3, <2>4, <2>5, <2>7
<1>3. Seq(Entry) \subseteq P
  <2> HIDE DEF P
  <2> QED
    BY <1>1, <1>2, GrowSequence
<1> QED
  BY <1>3

-----------------------------------------------------------------------------
(***************************************************************************)
(* How a text is read from left to right: the blocks between two tags, and *)
(* the states of the format check.                                         *)
(***************************************************************************)
Scans == [open : BOOLEAN, body : Seq(Tokens), found : Seq(Seq(Tokens)), rest : Seq(Tokens)]

Unread == [open |-> FALSE, body |-> <<>>, found |-> <<>>, rest |-> <<>>]

ScanStep(s, t, start, stop) ==
  IF s.open
  THEN IF t = stop THEN [s EXCEPT !.open = FALSE, !.found = Append(@, s.body)]
                   ELSE [s EXCEPT !.body = Append(@, t)]
  ELSE IF t = start THEN [s EXCEPT !.open = TRUE, !.body = <<>>]
                    ELSE [s EXCEPT !.rest = Append(@, t)]

Scanning(text, start, stop, f) ==
  f = [i \in 0 .. Len(text) |->
         IF i = 0 THEN Unread ELSE ScanStep(f[i - 1], text[i], start, stop)]

LEMMA ScanTyped ==
  ASSUME NEW s \in Scans, NEW t \in Tokens, NEW start, NEW stop
  PROVE  ScanStep(s, t, start, stop) \in Scans
<1>1. /\ s.open \in BOOLEAN /\ s.body \in Seq(Tokens)
      /\ s.found \in Seq(Seq(Tokens)) /\ s.rest \in Seq(Tokens)
  BY DEF Scans
<1>2. /\ Append(s.found, s.body) \in Seq(Seq(Tokens))
      /\ Append(s.body, t) \in Seq(Tokens) /\ Append(s.rest, t) \in Seq(Tokens)
      /\ <<>> \in Seq(Tokens)
  BY <1>1
<1> QED
  BY <1>1, <1>2 DEF ScanStep, Scans

LEMMA MatchesRun ==
  ASSUME NEW text \in Seq(Tokens), NEW start, NEW stop
  PROVE  \E g \in [0 .. Len(text) -> Scans] :
           /\ g[0] = Unread
           /\ \A i \in 1 .. Len(text) : g[i] = ScanStep(g[i - 1], text[i], start, stop)
           /\ Matches(text, start, stop).found = g[Len(text)].found
<1> DEFINE n == Len(text)
           h == [i \in 1 .. n |-> [x \in Scans |-> ScanStep(x, text[i], start, stop)]]
           c == CHOOSE x : Scanning(text, start, stop, x)
<1>1. n \in Nat /\ Len(text) = n /\ \A i \in 1 .. n : text[i] \in Tokens
  OBVIOUS
<1>2. h \in [1 .. n -> [Scans -> Scans]]
  BY <1>1, ScanTyped
<1> HIDE DEF n
<1>3. Unread \in Scans
  BY DEF Unread, Scans
<1>4. PICK g \in [0 .. n -> Scans] : Recurs(g, n, Unread, h)
  <2> HIDE DEF h
  <2> QED
    BY <1>1, <1>2, <1>3, RecursionExists
<1>5. g[0] = Unread /\ \A i \in 1 .. n : g[i] = ScanStep(g[i - 1], text[i], start, stop)
  <2>1. g[0] = Unread /\ \A i \in 1 .. n : g[i] = h[i][g[i - 1]]
    BY <1>4 DEF Recurs
  <2>2. \A i \in 1 .. n : g[i - 1] \in Scans
    BY <1>1
  <2> QED
    BY <2>1, <2>2
<1>6. Scanning(text, start, stop, g)
  <2>1. \A i \in 0 .. n : g[i] = IF i = 0 THEN Unread ELSE ScanStep(g[i - 1], text[i], start, stop)
    BY <1>1, <1>5
  <2>2. g = [i \in 0 .. n |-> g[i]]
    OBVIOUS
  <2> QED
    BY <1>1, <2>1, <2>2 DEF Scanning
<1>7. Scanning(text, start, stop, c)
  BY <1>6
<1>8. Matches(text, start, stop).found = c[n].found
  BY <1>1 DEF Matches, Scanning, ScanStep, Unread
<1>9. c[0] = Unread /\ \A i \in 1 .. n : c[i] = ScanStep(c[i - 1], text[i], start, stop)
  <2> HIDE DEF c
  <2>1. \A i \in 0 .. n : c[i] = IF i = 0 THEN Unread ELSE ScanStep(c[i - 1], text[i], start, stop)
    BY <1>1, <1>7 DEF Scanning
  <2> QED
    BY <1>1, <2>1
<1> HIDE DEF c, h
<1> DEFINE P == {i \in Nat : i <= n => c[i] = g[i]}
<1>10. 0 \in P
  BY <1>5, <1>9
<1>11. ASSUME NEW i \in Nat, i \in P
       PROVE  i + 1 \in P
  <2> SUFFICES ASSUME i + 1 <= n
               PROVE  c[i + 1] = g[i + 1]
    OBVIOUS
  <2>1. i + 1 \in 1 .. n /\ (i + 1) - 1 = i /\ c[i] = g[i]
    BY <1>1, <1>11
  <2> QED
    BY <1>5, <1>9, <2>1
<1>12. n \in P
  <2> HIDE DEF P
  <2> QED
    BY <1>1, <1>10, <1>11, Climb
<1>13. c[n] = g[n]
  BY <1>1, <1>12
<1> QED
  BY <1>1, <1>5, <1>8, <1>13

FormatStates ==
  {"start", "in_reason", "after_reason", "in_tool_call", "after_tool_call",
   "in_tool_response", "after_tool_response", "in_answer", "end", "refused"}

Checking(text, f) ==
  f = [i \in 0 .. Len(text) |-> IF i = 0 THEN "start" ELSE FormatStep(f[i - 1], text[i])]

LEMMA FormatTyped ==
  ASSUME NEW q \in FormatStates, NEW t
  PROVE  FormatStep(q, t) \in FormatStates
BY DEF FormatStep, FormatStates

\* The text the check looks at: the tag the prompt opened is put back.
Whole(text) == IF text # <<>> /\ text[1] = "<think>" THEN text ELSE <<"<think>">> \o text

LEMMA WholeIs ==
  ASSUME NEW text \in Seq(Tokens)
  PROVE  /\ Whole(text) \in Seq(Tokens)
         /\ \E d \in {0, 1} :
              /\ Len(Whole(text)) = d + Len(text)
              /\ d = 1 => Whole(text)[1] = "<think>"
              /\ \A i \in 1 .. Len(text) : Whole(text)[d + i] = text[i]
<1>1. CASE Whole(text) = text
  BY <1>1
<1>2. CASE Whole(text) = <<"<think>">> \o text
  <2> DEFINE w == <<"<think>">> \o text
  <2>0. "<think>" \in Tokens
    BY DEF Tokens, Tags
  <2>1. w \in Seq(Tokens) /\ Len(w) = 1 + Len(text) /\ w[1] = "<think>"
    BY <2>0
  <2>2. \A i \in 1 .. Len(text) : w[1 + i] = text[i]
    BY <2>0
  <2> QED
    BY <1>2, <2>1, <2>2
<1> QED
  BY <1>1, <1>2 DEF Whole

LEMMA FormatRun ==
  ASSUME NEW text \in Seq(Tokens), WellFormed(text)
  PROVE  \E g \in [0 .. Len(Whole(text)) -> FormatStates] :
           /\ g[0] = "start"
           /\ \A i \in 1 .. Len(Whole(text)) : g[i] = FormatStep(g[i - 1], Whole(text)[i])
           /\ g[Len(Whole(text))] = "end"
<1> DEFINE w == Whole(text)
           n == Len(w)
           h == [i \in 1 .. n |-> [x \in FormatStates |-> FormatStep(x, w[i])]]
           c == CHOOSE x : Checking(w, x)
<1>0. w \in Seq(Tokens)
  BY WholeIs
<1>7. c[n] = "end"
  BY DEF WellFormed, Checking, Whole
<1> HIDE DEF w
<1>1. n \in Nat /\ Len(w) = n
  BY <1>0
<1>2. h \in [1 .. n -> [FormatStates -> FormatStates]]
  BY FormatTyped
<1> HIDE DEF n
<1>3. "start" \in FormatStates
  BY DEF FormatStates
<1>4. PICK g \in [0 .. n -> FormatStates] : Recurs(g, n, "start", h)
  <2> HIDE DEF h
  <2> QED
    BY <1>1, <1>2, <1>3, RecursionExists
<1>5. g[0] = "start" /\ \A i \in 1 .. n : g[i] = FormatStep(g[i - 1], w[i])
  <2>1. g[0] = "start" /\ \A i \in 1 .. n : g[i] = h[i][g[i - 1]]
    BY <1>4 DEF Recurs
  <2>2. \A i \in 1 .. n : g[i - 1] \in FormatStates
    BY <1>1
  <2> QED
    BY <2>1, <2>2
<1>6. Checking(w, g)
  <2>1. \A i \in 0 .. n : g[i] = IF i = 0 THEN "start" ELSE FormatStep(g[i - 1], w[i])
    BY <1>1, <1>5
  <2>2. g = [i \in 0 .. n |-> g[i]]
    OBVIOUS
  <2> QED
    BY <1>1, <2>1, <2>2 DEF Checking
<1>8. Checking(w, c)
  BY <1>6
<1>9. c[0] = "start" /\ \A i \in 1 .. n : c[i] = FormatStep(c[i - 1], w[i])
  <2> HIDE DEF c
  <2>1. \A i \in 0 .. n : c[i] = IF i = 0 THEN "start" ELSE FormatStep(c[i - 1], w[i])
    BY <1>1, <1>8 DEF Checking
  <2> QED
    BY <1>1, <2>1
<1> HIDE DEF c, h
<1> DEFINE P == {i \in Nat : i <= n => c[i] = g[i]}
<1>10. 0 \in P
  BY <1>5, <1>9
<1>11. ASSUME NEW i \in Nat, i \in P
       PROVE  i + 1 \in P
  <2> SUFFICES ASSUME i + 1 <= n
               PROVE  c[i + 1] = g[i + 1]
    OBVIOUS
  <2>1. i + 1 \in 1 .. n /\ (i + 1) - 1 = i /\ c[i] = g[i]
    BY <1>1, <1>11
  <2> QED
    BY <1>5, <1>9, <2>1
<1>12. n \in P
  <2> HIDE DEF P
  <2> QED
    BY <1>1, <1>10, <1>11, Climb
<1>13. c[n] = g[n]
  BY <1>1, <1>12
<1> QED
  BY <1>1, <1>5, <1>7, <1>13 DEF w

\* A well-formed text whose answer is right ends in the block with that answer, and
\* a thought was closed in it.
LEMMA FinalAnswer ==
  ASSUME NEW text \in Seq(Tokens), WellFormed(text)
  PROVE  /\ \E i \in 1 .. Len(text) : text[i] = "</think>"
         /\ Prediction(text) = <<"right">> =>
              /\ Len(text) > 2
              /\ text[Len(text) - 2] = "<answer>"
              /\ text[Len(text) - 1] = "right"
              /\ text[Len(text)] = "</answer>"
<1> DEFINE n == Len(text)
           w == Whole(text)
           m == Len(w)
<1>1. n \in Nat /\ m \in Nat /\ w \in Seq(Tokens) /\ \A i \in 1 .. n : text[i] \in Tokens
  BY WholeIs
<1>2. PICK d \in {0, 1} : /\ m = d + n
                          /\ d = 1 => w[1] = "<think>"
                          /\ \A i \in 1 .. n : w[d + i] = text[i]
  BY WholeIs
<1>3. PICK g \in [0 .. m -> FormatStates] :
        /\ g[0] = "start"
        /\ \A i \in 1 .. m : g[i] = FormatStep(g[i - 1], w[i])
        /\ g[m] = "end"
  BY FormatRun
<1>4. PICK s \in [0 .. n -> Scans] :
        /\ s[0] = Unread
        /\ \A i \in 1 .. n : s[i] = ScanStep(s[i - 1], text[i], "<answer>", "</answer>")
        /\ Matches(text, "<answer>", "</answer>").found = s[n].found
  BY MatchesRun
<1> HIDE DEF n, w, m
<1> DEFINE F(i) == g[d + i]
           InAnswer(i) == F(i) = "in_answer" => s[i].open
           AtEnd(i) == i # 0 /\ F(i) = "end" => text[i] = "</answer>" /\ s[i - 1].open
           Body(i) == s[i].open =>
                        LET b == s[i].body IN
                        /\ Len(b) + 1 <= i
                        /\ text[i - Len(b)] = "<answer>"
                        /\ \A j \in 1 .. Len(b) : b[j] = text[i - Len(b) + j]
           Closed(i) == F(i) \notin {"start", "in_reason", "refused"} =>
                          \E j \in 1 .. i : text[j] = "</think>"
           P == {i \in Nat : i <= n => InAnswer(i) /\ AtEnd(i) /\ Body(i) /\ Closed(i)}
<1>5. F(0) \in {"start", "in_reason"}
  <2>1. CASE d = 0
    BY <1>3, <2>1
  <2>2. CASE d = 1
    <3>1. 1 \in 1 .. m /\ w[1] = "<think>"
      BY <1>1, <1>2, <2>2
    <3>2. g[1] = FormatStep(g[1 - 1], w[1])
      BY <1>3, <3>1
    <3>3. g[1] = FormatStep("start", "<think>")
      BY <1>3, <3>1, <3>2
    <3>4. FormatStep("start", "<think>") = "in_reason"
      BY DEF FormatStep
    <3> QED
      BY <2>2, <3>3, <3>4
  <2> QED
    BY <2>1, <2>2
<1>6. 0 \in P
  BY <1>4, <1>5 DEF Unread
<1>7. ASSUME NEW i \in Nat, i \in P, i + 1 <= n
      PROVE  /\ F(i + 1) = FormatStep(F(i), text[i + 1])
             /\ s[i + 1] = ScanStep(s[i], text[i + 1], "<answer>", "</answer>")
             /\ s[i] \in Scans /\ s[i + 1] \in Scans /\ F(i) \in FormatStates
             /\ InAnswer(i) /\ AtEnd(i) /\ Body(i) /\ Closed(i)
  <2>1. /\ i + 1 \in 1 .. n /\ (i + 1) - 1 = i /\ i \in 0 .. n /\ i + 1 \in 0 .. n
        /\ d + (i + 1) \in 1 .. m /\ (d + (i + 1)) - 1 = d + i /\ d + i \in 0 .. m
    <3> HIDE DEF F, InAnswer, AtEnd, Body, Closed, P
    <3> QED
      BY <1>1, <1>2, <1>7
  <2>2. w[d + (i + 1)] = text[i + 1]
    BY <1>2, <2>1
  <2>3. g[d + (i + 1)] = FormatStep(g[d + i], w[d + (i + 1)])
    BY <1>3, <2>1
  <2>4. s[i + 1] = ScanStep(s[i], text[i + 1], "<answer>", "</answer>")
    BY <1>4, <2>1
  <2>5. InAnswer(i) /\ AtEnd(i) /\ Body(i) /\ Closed(i)
    <3> HIDE DEF InAnswer, AtEnd, Body, Closed
    <3>1. i <= n
      BY <1>1, <1>7
    <3> QED
      BY <1>7, <3>1
  <2> QED
    BY <2>1, <2>2, <2>3, <2>4, <2>5
<1>8. ASSUME NEW i \in Nat, i \in P
      PROVE  i + 1 \in P
  <2>0. ASSUME i + 1 <= n => InAnswer(i + 1) /\ AtEnd(i + 1) /\ Body(i + 1) /\ Closed(i + 1)
        PROVE  i + 1 \in P
    <3> HIDE DEF F, InAnswer, AtEnd, Body, Closed
    <3> QED
      BY <2>0
  <2> SUFFICES ASSUME i + 1 <= n
               PROVE  InAnswer(i + 1) /\ AtEnd(i + 1) /\ Body(i + 1) /\ Closed(i + 1)
    <3> HIDE DEF F, InAnswer, AtEnd, Body, Closed, P
    <3> QED
      BY <2>0
  <2> DEFINE t == text[i + 1]
  <2>1. /\ F(i + 1) = FormatStep(F(i), t)
        /\ s[i + 1] = ScanStep(s[i], t, "<answer>", "</answer>")
        /\ s[i] \in Scans /\ F(i) \in FormatStates
        /\ InAnswer(i) /\ AtEnd(i) /\ Body(i) /\ Closed(i)
    <3> HIDE DEF F, InAnswer, AtEnd, Body, Closed, P
    <3> QED
      BY <1>7, <1>8
  <2>2. InAnswer(i + 1)
    <3> SUFFICES ASSUME F(i + 1) = "in_answer" PROVE s[i + 1].open
      OBVIOUS
    <3>1. \/ F(i) = "in_answer" /\ t # "</answer>"
          \/ t = "<answer>"
      BY <2>1 DEF FormatStep, FormatStates
    <3>2. t # "</answer>" /\ (s[i].open \/ t = "<answer>")
      BY <2>1, <3>1
    <3> HIDE DEF F, t
    <3> QED
      BY <2>1, <3>2 DEF ScanStep, Scans
  <2>3. AtEnd(i + 1)
    <3> SUFFICES ASSUME F(i + 1) = "end" PROVE t = "</answer>" /\ s[i].open
      OBVIOUS
    <3>1. F(i) = "in_answer" /\ t = "</answer>"
      BY <2>1 DEF FormatStep, FormatStates
    <3> QED
      BY <2>1, <3>1
  <2>4. Body(i + 1)
    <3> SUFFICES ASSUME s[i + 1].open PROVE Body(i + 1)
      OBVIOUS
    <3> DEFINE b == s[i].body
               c == s[i + 1].body
    <3>0. b \in Seq(Tokens) /\ s[i].open \in BOOLEAN
      BY <2>1 DEF Scans
    <3>a. t \in Tokens
      BY <1>1, <1>8
    <3>1. CASE s[i].open
      <4>1. t # "</answer>" /\ c = Append(b, t)
        BY <2>1, <3>1 DEF ScanStep, Scans
      <4>2. /\ Len(b) + 1 <= i
            /\ text[i - Len(b)] = "<answer>"
            /\ \A j \in 1 .. Len(b) : b[j] = text[i - Len(b) + j]
        BY <2>1, <3>1
      <4> HIDE DEF b, c, t, F
      <4>3. /\ Len(c) = Len(b) + 1 /\ Len(b) \in Nat
            /\ \A j \in 1 .. Len(b) : c[j] = b[j]
            /\ c[Len(b) + 1] = t
        BY <3>0, <3>a, <4>1
      <4>4. (i + 1) - Len(c) = i - Len(b) /\ Len(c) + 1 <= i + 1
        BY <4>2, <4>3
      <4>5. ASSUME NEW j \in 1 .. Len(c)
            PROVE  c[j] = text[(i + 1) - Len(c) + j]
        <5>1. CASE j \in 1 .. Len(b)
          BY <4>2, <4>3, <4>4, <5>1
        <5>2. CASE j \notin 1 .. Len(b)
          <6>1. j = Len(b) + 1
            BY <4>3, <5>2
          <6>2. (i - Len(b)) + j = i + 1
            BY <4>3, <6>1
          <6> QED
            BY <4>3, <4>4, <6>1, <6>2 DEF t
        <5> QED
          BY <5>1, <5>2
      <4> QED
        BY <4>2, <4>4, <4>5 DEF c
    <3>2. CASE ~s[i].open
      <4>1. t = "<answer>" /\ c = <<>>
        BY <2>1, <3>2 DEF ScanStep, Scans
      <4>2. Len(c) = 0 /\ (i + 1) - 0 = i + 1 /\ 0 + 1 <= i + 1
        BY <4>1
      <4> QED
        BY <4>1, <4>2
    <3> QED
      BY <3>0, <3>1, <3>2
  <2>5. Closed(i + 1)
    <3> SUFFICES ASSUME F(i + 1) \notin {"start", "in_reason", "refused"}
                 PROVE  \E j \in 1 .. i + 1 : text[j] = "</think>"
      OBVIOUS
    <3>1. F(i) \notin {"start", "in_reason", "refused"} \/ t = "</think>"
      BY <2>1 DEF FormatStep, FormatStates
    <3>2. i + 1 \in 1 .. i + 1 /\ 1 .. i \subseteq 1 .. i + 1
      OBVIOUS
    <3> QED
      BY <2>1, <3>1, <3>2
  <2> QED
    BY <2>2, <2>3, <2>4, <2>5
<1>9. Nat \subseteq P
  <2> HIDE DEF P
  <2> QED
    BY <1>6, <1>8, Climb
<1>10. F(n) = "end" /\ n # 0
  BY <1>1, <1>2, <1>3, <1>5
<1>11. /\ InAnswer(n) /\ AtEnd(n) /\ Body(n) /\ Closed(n)
       /\ n - 1 \in Nat /\ Body(n - 1) /\ (n - 1) + 1 = n
  <2> HIDE DEF InAnswer, AtEnd, Body, Closed, F
  <2>1. n - 1 \in Nat /\ n - 1 <= n /\ (n - 1) + 1 = n /\ n <= n
    BY <1>1, <1>10
  <2>2. n \in P /\ n - 1 \in P
    <3> HIDE DEF P
    <3> QED
      BY <1>1, <1>9, <2>1
  <2> QED
    BY <2>1, <2>2
<1>12. \E i \in 1 .. n : text[i] = "</think>"
  BY <1>10, <1>11
<1>13. text[n] = "</answer>" /\ s[n - 1].open
  BY <1>10, <1>11
<1>14. ASSUME Prediction(text) = <<"right">>
       PROVE  n > 2 /\ text[n - 2] = "<answer>" /\ text[n - 1] = "right"
  <2> DEFINE b == s[n - 1].body
             f == s[n - 1].found
  <2>1. s[n] = ScanStep(s[n - 1], text[n], "<answer>", "</answer>") /\ s[n - 1] \in Scans
    <3>1. n \in 1 .. n /\ n - 1 \in 0 .. n
      BY <1>1, <1>10
    <3> QED
      BY <1>4, <3>1
  <2>2. s[n].found = Append(f, b) /\ f \in Seq(Seq(Tokens)) /\ b \in Seq(Tokens)
    BY <1>13, <2>1 DEF ScanStep, Scans
  <2>3. Prediction(text) = b
    <3> DEFINE a == Matches(text, "<answer>", "</answer>").found
    <3>1. a = Append(f, b)
      BY <1>4, <2>2
    <3> HIDE DEF b, f, a
    <3>2. a # <<>> /\ a[Len(a)] = b
      <4>1. Len(a) = Len(f) + 1 /\ Append(f, b)[Len(f) + 1] = b /\ Len(f) \in Nat
        BY <2>2, <3>1
      <4> QED
        BY <3>1, <4>1
    <3>3. Prediction(text) = a[Len(a)]
      BY <3>2 DEF Prediction, a
    <3> QED
      BY <3>2, <3>3
  <2>4. /\ Len(b) + 1 <= n - 1
        /\ text[(n - 1) - Len(b)] = "<answer>"
        /\ \A j \in 1 .. Len(b) : b[j] = text[(n - 1) - Len(b) + j]
    BY <1>11, <1>13
  <2> HIDE DEF b
  <2>5. Len(b) = 1 /\ b[1] = "right"
    BY <1>14, <2>3
  <2>6. (n - 1) - 1 = n - 2 /\ ((n - 1) - 1) + 1 = n - 1
    BY <1>1
  <2>7. b[1] = text[(n - 1) - 1 + 1]
    BY <2>4, <2>5
  <2> QED
    BY <1>1, <2>4, <2>5, <2>6, <2>7
<1> QED
  BY <1>12, <1>13, <1>14 DEF n

-----------------------------------------------------------------------------
(***************************************************************************)
(* The model's last turn begins behind the tag that opens its thought, in  *)
(* the prompt or at the end of a message of the tool, and within the       *)
(* budget; no thought is closed before the first turn.                     *)
(***************************************************************************)
Opened(entries, bits, k) ==
  LET p == Len(entries) - Len(bits) IN
  /\ k \in 1 .. Len(entries)
  /\ k >= p /\ k - p < ResponseLength
  /\ entries[k].token = "<think>"
  /\ \A i \in k + 1 .. Len(entries) : entries[i].by = "model"

Unclosed(entries, bits) ==
  \A i \in 1 .. Len(entries) - Len(bits) : entries[i].token # "</think>"

\* What the caps have to leave: the turn of the answer behind the last one of the
\* tool, as 5 and 6 do; and a response as long as any prompt.
CapsLeaveRoom ==
  /\ MaxAssistantTurns # 0 => MaxUserTurns \in 1 .. MaxAssistantTurns - 1
  /\ \A prompt \in Prompts : Len(prompt) <= ResponseLength

NoRoom == \E n \in 1 .. MaxParallelCalls : \E answers \in [1 .. n -> Outputs] : ~Fits(answers)

\* No call ends the last turn.
CallsNothing(entries, bits) ==
  /\ Len(bits) < ResponseLength
  /\ \E k \in 1 .. Len(entries) :
       /\ Opened(entries, bits, k)
       /\ \A i \in k + 1 .. Len(entries) : entries[i].token # "</tool_call>"

TurnsCounted ==
  /\ userTurns \in Nat /\ assistantTurns \in Nat /\ userTurns <= assistantTurns
  /\ state \in {"pending", "generating"} => userTurns = assistantTurns
  /\ state = "processing_tools" => userTurns + 1 = assistantTurns

Phases == {"pending", "generating", "processing_tools", "terminated", "scored", "raised"}

Parses == {<<"usable">>, <<"unusable">>}

Whose ==
  /\ state \in Phases /\ flagged \in BOOLEAN
  /\ calls \in Seq(Parses)
  /\ Len(mask) <= PromptLength + ResponseLength
  /\ TurnsCounted
  /\ state = "processing_tools" => ~flagged
  /\ Unclosed(ids, mask)
  /\ state = "generating" => Opened(ids, mask, Len(ids))
  /\ state \in {"processing_tools", "terminated", "scored"} /\ ~flagged =>
       \E k \in 1 .. Len(ids) : Opened(ids, mask, k)
  /\ state \in {"terminated", "scored"} /\ ~flagged /\ CapsLeaveRoom =>
       MaxUserTurns \in 1 .. userTurns \/ NoRoom \/ CallsNothing(ids, mask)
  /\ outcome = IF state = "scored"
               THEN Reward(ResponseText, Len(Response), ResponseLength, flagged)
               ELSE NoOutcome

LEMMA AppendedAre ==
  ASSUME NEW entries \in Seq(Entry), NEW tokens \in Seq(Tokens), NEW author \in Authors
  PROVE  LET e == entries \o By(author, tokens) IN
         /\ e \in Seq(Entry) /\ Len(e) = Len(entries) + Len(tokens)
         /\ \A i \in 1 .. Len(entries) : e[i] = entries[i]
         /\ \A i \in 1 .. Len(tokens) : /\ e[Len(entries) + i].token = tokens[i]
                                        /\ e[Len(entries) + i].by = author
<1> DEFINE more == By(author, tokens)
           e == entries \o more
<1>1. /\ more \in Seq(Entry) /\ Len(more) = Len(tokens)
      /\ \A i \in 1 .. Len(tokens) : more[i].by = author
  BY ByTyped
<1>2. \A i \in 1 .. Len(tokens) : more[i].token = tokens[i]
  <2>1. DOMAIN tokens = 1 .. Len(tokens)
    OBVIOUS
  <2> QED
    BY <2>1 DEF By
<1> HIDE DEF more
<1>3. /\ e \in Seq(Entry) /\ Len(e) = Len(entries) + Len(more)
      /\ \A i \in 1 .. Len(entries) : e[i] = entries[i]
      /\ \A i \in 1 .. Len(more) : e[Len(entries) + i] = more[i]
  <2>1. entries \in Seq(Entry) /\ more \in Seq(Entry) /\ e = entries \o more
    BY <1>1
  <2> HIDE DEF e
  <2> QED
    BY <2>1, EndToEnd
<1> QED
  BY <1>1, <1>2, <1>3 DEF more

LEMMA BitsAppended ==
  ASSUME NEW bits \in Seq({0, 1}), NEW n \in Nat, NEW author
  PROVE  /\ bits \o Bits(author, n) \in Seq({0, 1})
         /\ Len(bits \o Bits(author, n)) = Len(bits) + n
BY BitsTyped

\* The turn goes on behind its opening tag.
LEMMA MoreOfTheTurn ==
  ASSUME NEW entries, NEW bits, Consistent(entries, bits), NEW k, Opened(entries, bits, k),
         NEW tokens \in Seq(Tokens)
  PROVE  Opened(entries \o By("model", tokens), bits \o Bits("model", Len(tokens)), k)
<1> DEFINE e == entries \o By("model", tokens)
           b == bits \o Bits("model", Len(tokens))
           p == Len(entries) - Len(bits)
<1>1. /\ entries \in Seq(Entry) /\ bits \in Seq({0, 1})
      /\ Len(entries) \in Nat /\ Len(bits) \in Nat /\ Len(tokens) \in Nat
  BY DEF Consistent
<1>2. /\ e \in Seq(Entry) /\ Len(e) = Len(entries) + Len(tokens)
      /\ \A i \in 1 .. Len(entries) : e[i] = entries[i]
      /\ \A i \in 1 .. Len(tokens) : e[Len(entries) + i].by = "model"
  BY <1>1, AppendedAre, SMTT(30) DEF Authors
<1>3. Len(b) = Len(bits) + Len(tokens)
  BY <1>1, BitsAppended
<1> HIDE DEF e, b
<1>4. Len(e) - Len(b) = p
  BY <1>1, <1>2, <1>3
<1>5. ASSUME NEW i \in k + 1 .. Len(e)
      PROVE  e[i].by = "model"
  <2>1. k \in 1 .. Len(entries)
    BY DEF Opened
  <2>2. CASE i \in 1 .. Len(entries)
    <3>1. i \in k + 1 .. Len(entries)
      BY <1>1, <2>1, <2>2
    <3> QED
      BY <1>2, <2>2, <3>1 DEF Opened
  <2>3. CASE i \notin 1 .. Len(entries)
    <3> DEFINE j == i - Len(entries)
    <3>1. j \in 1 .. Len(tokens) /\ Len(entries) + j = i
      BY <1>1, <1>2, <2>1, <2>3
    <3> QED
      BY <1>2, <3>1
  <2> QED
    BY <2>2, <2>3
<1>6. /\ k \in 1 .. Len(entries) /\ k >= p /\ k - p < ResponseLength
      /\ entries[k].token = "<think>"
  BY DEF Opened
<1>7. k \in 1 .. Len(e) /\ e[k].token = "<think>"
  BY <1>1, <1>2, <1>6
<1>8. Opened(e, b, k)
  BY <1>4, <1>5, <1>6, <1>7 DEF Opened
<1> QED
  BY <1>8 DEF e, b

LEMMA StillUnclosed ==
  ASSUME NEW entries, NEW bits, Consistent(entries, bits), Unclosed(entries, bits),
         NEW tokens \in Seq(Tokens), NEW author \in {"model", "tool"}
  PROVE  Unclosed(entries \o By(author, tokens), bits \o Bits(author, Len(tokens)))
<1> DEFINE e == entries \o By(author, tokens)
           b == bits \o Bits(author, Len(tokens))
<1>1. /\ entries \in Seq(Entry) /\ bits \in Seq({0, 1})
      /\ Len(entries) \in Nat /\ Len(bits) \in Nat /\ Len(tokens) \in Nat
  BY DEF Consistent
<1>0. author \in Authors
  BY DEF Authors
<1>2. /\ Len(e) = Len(entries) + Len(tokens)
      /\ \A i \in 1 .. Len(entries) : e[i] = entries[i]
  BY <1>0, <1>1, AppendedAre
<1>3. Len(b) = Len(bits) + Len(tokens)
  BY <1>1, BitsAppended
<1> HIDE DEF e, b
<1>4. Len(e) - Len(b) = Len(entries) - Len(bits)
  BY <1>1, <1>2, <1>3
<1>5. 1 .. Len(entries) - Len(bits) \subseteq 1 .. Len(entries)
  BY <1>1
<1> QED
  BY <1>2, <1>4, <1>5 DEF Unclosed, e, b

\* A member of the set stays.
LEMMA OnlyKeeps ==
  ASSUME NEW T, NEW S, NEW s \in Seq(T), NEW i \in 1 .. Len(s), s[i] \in S
  PROVE  \E j \in 1 .. Len(Only(s, S)) : Only(s, S)[j] = s[i]
<1> DEFINE Found(u, x) == \E j \in 1 .. Len(Only(u, S)) : Only(u, S)[j] = x
           P == {u \in Seq(T) : \A k \in 1 .. Len(u) : u[k] \in S => Found(u, u[k])}
<1>1. <<>> \in P
  OBVIOUS
<1>2. ASSUME NEW u \in Seq(T), NEW x \in T, u \in P
      PROVE  Append(u, x) \in P
  <2> DEFINE v == Append(u, x)
             o == Only(u, S)
             q == Only(v, S)
  <2>1. /\ v \in Seq(T) /\ Len(v) = Len(u) + 1 /\ v[Len(u) + 1] = x /\ Len(u) \in Nat
        /\ \A k \in 1 .. Len(u) : v[k] = u[k]
    OBVIOUS
  <2>2. o \in Seq(T \cap S) /\ q = o \o Kept(x, S) /\ Kept(x, S) \in Seq(T \cap S)
    BY OnlyTyped, OnlyAppend, KeptTyped
  <2> HIDE DEF v, o, q
  <2>3. /\ Len(q) = Len(o) + Len(Kept(x, S)) /\ Len(o) \in Nat /\ Len(Kept(x, S)) \in Nat
        /\ \A j \in 1 .. Len(o) : q[j] = o[j]
        /\ \A j \in 1 .. Len(Kept(x, S)) : q[Len(o) + j] = Kept(x, S)[j]
    <3> DEFINE y == Kept(x, S)
    <3> HIDE DEF y
    <3>1. o \in Seq(T \cap S) /\ y \in Seq(T \cap S) /\ q = o \o y
      BY <2>2 DEF y
    <3> QED
      BY <3>1, EndToEnd DEF y
  <2>4. ASSUME NEW k \in 1 .. Len(v), v[k] \in S
        PROVE  \E j \in 1 .. Len(q) : q[j] = v[k]
    <3>1. CASE k = Len(u) + 1
      <4>1. Kept(x, S) = <<x>>
        BY <2>1, <2>4, <3>1 DEF Kept
      <4>2. Len(o) + 1 \in 1 .. Len(q) /\ q[Len(o) + 1] = x
        BY <2>3, <4>1
      <4> QED
        BY <2>1, <3>1, <4>2
    <3>2. CASE k # Len(u) + 1
      <4>1. k \in 1 .. Len(u) /\ u[k] = v[k]
        BY <2>1, <3>2
      <4>2. PICK j \in 1 .. Len(o) : o[j] = u[k]
        BY <1>2, <2>4, <4>1 DEF o
      <4>3. j \in 1 .. Len(q)
        BY <2>3
      <4> QED
        BY <2>3, <4>1, <4>2, <4>3
    <3> QED
      BY <3>1, <3>2
  <2> QED
    BY <2>1, <2>4 DEF v, q
<1>3. Seq(T) \subseteq P
  <2> HIDE DEF P
  <2> QED
    BY <1>1, <1>2, GrowSequence
<1> QED
  BY <1>3

-----------------------------------------------------------------------------
LEMMA CallsTyped ==
  ASSUME NEW turn \in Seq(Tokens)
  PROVE  ToolCalls(turn) \in Seq(Parses)
<1> DEFINE found == Matches(turn, "<tool_call>", "</tool_call>").found
<1>1. found \in Seq(Seq(Tokens))
  <2>1. PICK g \in [0 .. Len(turn) -> Scans] : found = g[Len(turn)].found
    BY MatchesRun
  <2>2. g[Len(turn)] \in Scans
    OBVIOUS
  <2> HIDE DEF found
  <2> QED
    BY <2>1, <2>2 DEF Scans
<1> HIDE DEF found
<1>2. Only(found, Parses) \in Seq(Seq(Tokens) \cap Parses)
  BY <1>1, OnlyTyped
<1>3. Only(found, Parses) \in Seq(Parses)
  BY <1>2
<1> QED
  BY <1>3 DEF ToolCalls, Parses, found

LEMMA GenerationsFit ==
  ASSUME Consistent(ids, mask), MaxTokens > 0, NEW turn \in Generations
  PROVE  turn \in Seq(Tokens) /\ Len(ids) + Len(turn) <= PromptLength + ResponseLength
<1>1. /\ MaxTokens \in Nat /\ Len(ids) + MaxTokens <= PromptLength + ResponseLength
      /\ Len(ids) \in Nat
  BY LoopAssumption, SMTT(30) DEF MaxTokens, Least, Consistent
<1>2. turn \in Seq(Tokens)
  BY GenerationsTyped
<1>3. Len(turn) <= MaxTokens
  <2>1. CASE turn = <<>>
    BY <1>1, <2>1
  <2>2. CASE \E t \in Turns : turn = Prefix(t, MaxTokens)
    <3>1. PICK t \in Turns : turn = Prefix(t, MaxTokens)
      BY <2>2
    <3>2. t \in Seq(Tokens) /\ Len(t) \in Nat
      BY LoopAssumption
    <3>3. Len(turn) = Least(MaxTokens, Len(t))
      BY <1>1, <3>1, <3>2, PrefixTyped
    <3> QED
      BY <1>1, <3>2, <3>3 DEF Least
  <2> QED
    BY <2>1, <2>2 DEF Generations
<1>4. Len(turn) \in Nat /\ PromptLength + ResponseLength \in Nat
  BY <1>2, LoopAssumption
<1> QED
  BY <1>1, <1>2, <1>3, <1>4

LEMMA InvalidResponseFits ==
  ASSUME NEW used \in Nat, used < ResponseLength
  PROVE  /\ InvalidResponse(used) \in Seq(Tokens)
         /\ Len(InvalidResponse(used)) <= ResponseLength - used
<1>1. <<<<"words">>>> \in [1 .. 1 -> Outputs]
  BY LoopAssumption
<1>2. ToolMessage(<<<<"words">>>>) \in Seq(Tokens)
  BY <1>1, MessageTyped
<1>3. ResponseLength - used \in Nat
  BY LoopAssumption
<1> DEFINE m == ToolMessage(<<<<"words">>>>)
<1> HIDE DEF m
<1>4. Prefix(m, ResponseLength - used) \in Seq(Tokens)
      /\ Len(Prefix(m, ResponseLength - used)) <= ResponseLength - used
  BY <1>2, <1>3, PrefixTyped DEF Least, m
<1> QED
  BY <1>4 DEF InvalidResponse, m

LEMMA ErrorFollows ==
  /\ 1 \in 1 .. MaxParallelCalls
  /\ <<<<"words">>>> \in [1 .. 1 -> Outputs]
  /\ Len(ToolMessage(<<<<"words">>>>)) \in Nat
<1>1. 1 \in 1 .. MaxParallelCalls /\ <<<<"words">>>> \in [1 .. 1 -> Outputs]
  BY LoopAssumption
<1>2. ToolMessage(<<<<"words">>>>) \in Seq(Tokens)
  BY <1>1, MessageTyped
<1> QED
  BY <1>1, <1>2

LEMMA Writers == "model" \in Authors /\ "tool" \in Authors /\ "prompt" \in Authors
BY DEF Authors

LEMMA GenerateOwns ==
  ASSUME IInv, Whose, NEW turn \in Generations, Generate(turn)
  PROVE  Whose'
<1> DEFINE used == Len(mask) + Len(turn)
           found == ToolCalls(turn)
           invalid == Invalid(Decoded(turn), found)
           stop == \/ used >= ResponseLength
                   \/ AtCap(MaxAssistantTurns, assistantTurns + 1)
                   \/ AtCap(MaxUserTurns, userTurns)
           appended == IF invalid /\ used < ResponseLength THEN InvalidResponse(used) ELSE <<>>
           ids1 == ids \o By("model", turn)
           mask1 == mask \o Bits("model", Len(turn))
<1>0. /\ state = "generating" /\ Consistent(ids, mask) /\ Len(mask) < ResponseLength
      /\ Opened(ids, mask, Len(ids)) /\ Unclosed(ids, mask)
      /\ MaxTokens > 0
      /\ userTurns \in Nat /\ assistantTurns = userTurns
      /\ outcome = NoOutcome /\ calls \in Seq(Parses)
  BY DEF Generate, IInv, Whose, TurnsCounted
<1>1. /\ turn \in Seq(Tokens) /\ Len(turn) \in Nat
      /\ Len(ids) + Len(turn) <= PromptLength + ResponseLength
  BY <1>0, GenerationsFit
<1>2. /\ ids \in Seq(Entry) /\ mask \in Seq({0, 1}) /\ Len(ids) \in Nat /\ Len(mask) \in Nat
      /\ used \in Nat /\ used <= PromptLength + ResponseLength
  <2>1. /\ ids \in Seq(Entry) /\ mask \in Seq({0, 1}) /\ Len(ids) \in Nat /\ Len(mask) \in Nat
        /\ Len(mask) <= Len(ids) /\ PromptLength + ResponseLength \in Nat
    BY <1>0, LoopAssumption DEF Consistent
  <2> QED
    BY <1>1, <2>1
<1>3. found \in Seq(Parses) /\ invalid \in BOOLEAN
  BY <1>1, CallsTyped DEF Invalid, LooksAttempted
<1>4. /\ appended \in Seq(Tokens) /\ Len(appended) \in Nat
      /\ Len(appended) = 0 \/ Len(appended) <= ResponseLength - used
      /\ ~invalid => appended = <<>>
  BY <1>2, InvalidResponseFits
<1>5. /\ ids' = ids1 \o By("tool", appended)
      /\ mask' = mask1 \o Bits("tool", Len(appended))
      /\ flagged' = invalid
      /\ calls' \in {<<>>, calls, found}
      /\ userTurns' = IF appended # <<>> THEN userTurns + 1 ELSE userTurns
      /\ assistantTurns' = assistantTurns + 1
      /\ state' = IF invalid \/ stop \/ found = <<>> THEN "terminated" ELSE "processing_tools"
      /\ outcome' = outcome
  BY DEF Generate, Bits
<1> HIDE DEF appended, found, invalid
<1>6. Consistent(ids1, mask1) /\ Len(mask1) = used /\ Len(ids1) = Len(ids) + Len(turn)
  <2>1. Consistent(ids1, mask1) /\ Len(mask1) = used
    BY <1>0, <1>1, <1>2, Extension
  <2>2. "model" \in Authors
    BY DEF Authors
  <2>3. Len(ids1) = Len(ids) + Len(turn)
    BY <1>1, <1>2, <2>2, AppendedAre
  <2> QED
    BY <2>1, <2>3
<1>7. Unclosed(ids1, mask1)
  BY <1>0, <1>1, StillUnclosed
<1>8. Opened(ids1, mask1, Len(ids))
  BY <1>0, <1>1, MoreOfTheTurn
<1>b. \A j \in 1 .. Len(turn) : ids1[Len(ids) + j].token = turn[j]
  <2>1. ids \in Seq(Entry) /\ turn \in Seq(Tokens) /\ "model" \in Authors
    BY <1>1, <1>2, Writers
  <2>2. \A j \in 1 .. Len(turn) :
          /\ ids1[Len(ids) + j].token = turn[j]
          /\ ids1[Len(ids) + j].by = "model"
    <3> HIDE DEF Entry
    <3> QED
      BY <2>1, AppendedAre, Zenon
  <2> QED
    BY <2>2
<1> HIDE DEF ids1, mask1, used
<1>9. Unclosed(ids', mask')
  BY <1>4, <1>5, <1>6, <1>7, StillUnclosed
<1>10. Len(mask') <= PromptLength + ResponseLength
  <2>1. Len(mask') = used + Len(appended)
    <3>1. mask1 \in Seq({0, 1})
      BY <1>6 DEF Consistent
    <3>2. Len(mask1 \o Bits("tool", Len(appended))) = Len(mask1) + Len(appended)
      BY <1>4, <3>1, BitsAppended
    <3> QED
      BY <1>5, <1>6, <3>2
  <2>2. PromptLength \in Nat /\ ResponseLength \in Nat
    BY LoopAssumption
  <2> QED
    BY <1>2, <1>4, <2>1, <2>2
<1>11. state' \in Phases /\ flagged' \in BOOLEAN /\ calls' \in Seq(Parses)
  <2>1. state' \in Phases
    BY <1>5 DEF Phases
  <2>2. <<>> \in Seq(Parses)
    OBVIOUS
  <2> QED
    BY <1>0, <1>3, <1>5, <2>1, <2>2
<1>12. TurnsCounted'
  BY <1>0, <1>3, <1>4, <1>5 DEF TurnsCounted
<1>13. outcome' = NoOutcome /\ state' \in {"terminated", "processing_tools"}
       /\ (state' = "processing_tools" => ~flagged')
  BY <1>0, <1>5
<1>14. ASSUME ~invalid
       PROVE  /\ ids' = ids1 /\ mask' = mask1 /\ userTurns' = userTurns
              /\ Len(ids) \in 1 .. Len(ids')
              /\ Opened(ids', mask', Len(ids))
  <2>1. appended = <<>> /\ Len(appended) = 0 /\ ids1 \in Seq(Entry) /\ mask1 \in Seq({0, 1})
    BY <1>4, <1>6, <1>14 DEF Consistent
  <2>2. By("tool", <<>>) = <<>> /\ Bits("tool", 0) = <<>>
    BY DEF By, Bits, Zeros
  <2>3. ids' = ids1 /\ mask' = mask1
    BY <1>5, <2>1, <2>2
  <2>4. Len(ids) \in 1 .. Len(ids1)
    BY <1>8 DEF Opened
  <2> QED
    BY <1>5, <1>8, <2>1, <2>3, <2>4
<1>15. ASSUME ~flagged', state' = "terminated", CapsLeaveRoom
       PROVE  MaxUserTurns \in 1 .. userTurns' \/ NoRoom' \/ CallsNothing(ids', mask')
  <2>0. ~invalid /\ (stop \/ found = <<>>)
    BY <1>5, <1>15
  <2>a. MaxUserTurns \in Nat /\ MaxAssistantTurns \in Nat
    BY LoopAssumption
  <2>1. CASE used >= ResponseLength
    <3>1. mask' \in Seq({0, 1}) /\ Len(mask') >= ResponseLength
      BY <1>6, <1>14, <2>0, <2>1 DEF Consistent
    <3>2. ~Fits(<<<<"words">>>>)'
      BY <3>1, ErrorFollows, LoopAssumption DEF Fits
    <3> QED
      BY <3>2, ErrorFollows DEF NoRoom
  <2>2. CASE AtCap(MaxAssistantTurns, assistantTurns + 1)
    <3>1. MaxUserTurns \in 1 .. userTurns
      BY <1>0, <1>15, <2>2, <2>a DEF AtCap, CapsLeaveRoom
    <3> QED
      BY <1>14, <2>0, <3>1
  <2>3. CASE AtCap(MaxUserTurns, userTurns)
    <3>1. MaxUserTurns \in 1 .. userTurns
      BY <1>0, <2>3, <2>a DEF AtCap
    <3> QED
      BY <1>14, <2>0, <3>1
  <2>4. CASE ~stop /\ found = <<>>
    <3>1. "</tool_call>" \notin ToSet(Decoded(turn))
      BY <2>0, <2>4 DEF invalid, Invalid, LooksAttempted
    <3>2. ASSUME NEW i \in 1 .. Len(turn), turn[i] = "</tool_call>"
          PROVE  FALSE
      <4>1. turn[i] \in Tokens \ {"eos"}
        BY <1>1, <3>2
      <4>2. PICK j \in 1 .. Len(Decoded(turn)) : Decoded(turn)[j] = turn[i]
        BY <1>1, <4>1, OnlyKeeps DEF Decoded
      <4>3. Decoded(turn) \in Seq(Tokens \cap (Tokens \ {"eos"}))
        BY <1>1, OnlyTyped DEF Decoded
      <4>4. j \in DOMAIN Decoded(turn)
        BY <4>2, <4>3
      <4> QED
        BY <3>1, <3>2, <4>2, <4>4 DEF ToSet
    <3>3. ASSUME NEW i \in Len(ids) + 1 .. Len(ids1)
          PROVE  ids1[i].token # "</tool_call>"
      <4> DEFINE j == i - Len(ids)
      <4>1. j \in 1 .. Len(turn) /\ Len(ids) + j = i
        BY <1>1, <1>2, <1>6
      <4>2. ids1[Len(ids) + j].token = turn[j]
        BY <1>b, <4>1
      <4> QED
        BY <3>2, <4>1, <4>2
    <3>4. Len(mask1) < ResponseLength
      BY <1>2, <1>6, <2>4, LoopAssumption
    <3> QED
      BY <1>14, <2>0, <3>3, <3>4 DEF CallsNothing
  <2> QED
    BY <2>0, <2>1, <2>2, <2>3, <2>4
<1>16. ~flagged' => \E k \in 1 .. Len(ids') : Opened(ids', mask', k)
  BY <1>5, <1>14
<1> QED
  BY <1>9, <1>10, <1>11, <1>12, <1>13, <1>15, <1>16 DEF Whose

LEMMA PrepareOwns ==
  ASSUME IInv, Whose, Prepare
  PROVE  Whose'
<1>1. /\ mask = <<>> /\ mask' = <<>> /\ state' = "generating" /\ state = "pending"
      /\ UNCHANGED <<calls, userTurns, assistantTurns, flagged, outcome>>
  BY DEF IInv, Prepare
<1>2. PICK prompt \in Prompts : ids' = By("prompt", prompt)
  BY DEF Prepare
<1>3. /\ prompt \in Seq(Tokens) /\ Len(prompt) \in Nat \ {0}
      /\ prompt[Len(prompt)] = "<think>"
      /\ \A i \in 1 .. Len(prompt) : prompt[i] # "</think>"
      /\ PromptLength \in Nat /\ ResponseLength \in Nat \ {0}
  BY LoopAssumption
<1>4. /\ Len(ids') = Len(prompt) /\ Len(mask') = 0
      /\ \A i \in 1 .. Len(prompt) : ids'[i].token = prompt[i]
  <2>1. Len(By("prompt", prompt)) = Len(prompt) /\ DOMAIN prompt = 1 .. Len(prompt)
    BY <1>3, Writers, ByTyped
  <2>2. \A i \in 1 .. Len(prompt) : By("prompt", prompt)[i].token = prompt[i]
    BY <2>1 DEF By
  <2> QED
    BY <1>1, <1>2, <2>1, <2>2
<1>5. Opened(ids', mask', Len(ids'))
  BY <1>3, <1>4 DEF Opened
<1>6. Unclosed(ids', mask')
  BY <1>3, <1>4 DEF Unclosed
<1>7. TurnsCounted'
  BY <1>1 DEF Whose, TurnsCounted
<1>8. Len(mask') <= PromptLength + ResponseLength
  BY <1>3, <1>4
<1>9. /\ state' \in Phases /\ flagged' \in BOOLEAN /\ calls' \in Seq(Parses)
      /\ outcome' = NoOutcome
  BY <1>1 DEF Whose, Phases
<1> QED
  BY <1>1, <1>5, <1>6, <1>7, <1>8, <1>9 DEF Whose

\* A message of the tool ends where the model's next thought begins.
LEMMA MessageEnds ==
  ASSUME NEW n \in Nat, NEW answers \in [1 .. n -> Outputs]
  PROVE  /\ Len(ToolMessage(answers)) \in Nat \ {0}
         /\ ToolMessage(answers)[Len(ToolMessage(answers))] = "<think>"
<1> DEFINE m == ToolMessage(answers)
           block(i) == <<"<tool_response>">> \o answers[i] \o <<"</tool_response>">>
           head == <<"user">> \o FlattenSeq([i \in DOMAIN answers |-> block(i)])
           tail == <<"assistant", "<think>">>
<1>1. m = head \o tail
  BY DEF ToolMessage
<1>2. head \in Seq(Tokens)
  <2>1. \A i \in 1 .. n : answers[i] \in Seq(Tokens)
    BY LoopAssumption
  <2>2. {"<tool_response>", "</tool_response>", "user"} \subseteq Tokens
    BY DEF Tokens, Tags, Words
  <2>3. \A i \in 1 .. n : block(i) \in Seq(Tokens)
    BY <2>1, <2>2
  <2> DEFINE blocks == [i \in DOMAIN answers |-> block(i)]
  <2> HIDE DEF block
  <2>4. blocks \in [1 .. n -> Seq(Tokens)]
    BY <2>3
  <2> HIDE DEF blocks
  <2>5. FlattenSeq(blocks) \in Seq(Tokens)
    BY <2>4, FlattenTyped
  <2>6. <<"user">> \o FlattenSeq(blocks) \in Seq(Tokens)
    BY <2>2, <2>5
  <2> QED
    BY <2>6 DEF blocks, block
<1>3. tail \in Seq(Tokens) /\ Len(tail) = 2 /\ tail[2] = "<think>"
  BY DEF Tokens, Tags, Words
<1> HIDE DEF head, tail, m
<1>4. /\ Len(m) = Len(head) + 2 /\ Len(head) \in Nat
      /\ m[Len(head) + 2] = tail[2]
  <2>1. /\ Len(m) = Len(head) + Len(tail)
        /\ \A i \in 1 .. Len(head) + Len(tail) :
             m[i] = IF i <= Len(head) THEN head[i] ELSE tail[i - Len(head)]
    BY <1>1, <1>2, <1>3, ConcatProperties
  <2>2. Len(head) \in Nat
    BY <1>2
  <2>3. Len(head) + 2 \in 1 .. Len(head) + Len(tail) /\ ~(Len(head) + 2 <= Len(head))
        /\ (Len(head) + 2) - Len(head) = 2
    BY <1>3, <2>2
  <2>4. m[Len(head) + 2] = tail[(Len(head) + 2) - Len(head)]
    BY <2>1, <2>3
  <2> QED
    BY <1>3, <2>1, <2>2, <2>3, <2>4
<1>5. Len(m) \in Nat \ {0} /\ m[Len(m)] = "<think>"
  BY <1>3, <1>4
<1> QED
  BY <1>5 DEF m

LEMMA ProcessToolsOwns ==
  ASSUME IInv, Whose,
         NEW n \in 1 .. MaxParallelCalls, NEW answers \in [1 .. n -> Outputs],
         ProcessTools(answers)
  PROVE  Whose'
<1> DEFINE response == ToolMessage(answers)
<1>0. /\ state = "processing_tools" /\ ~flagged /\ outcome = NoOutcome
      /\ Consistent(ids, mask) /\ Unclosed(ids, mask)
      /\ Len(mask) <= PromptLength + ResponseLength
      /\ userTurns \in Nat /\ assistantTurns = userTurns + 1
      /\ calls \in Seq(Parses)
      /\ UNCHANGED <<calls, assistantTurns, flagged, outcome>>
  BY DEF ProcessTools, IInv, Whose, TurnsCounted
<1>a. /\ flagged' \in BOOLEAN /\ calls' \in Seq(Parses) /\ outcome' = NoOutcome
  BY <1>0 DEF Whose
<1>1. /\ n \in Nat
      /\ PromptLength \in Nat /\ ResponseLength \in Nat
      /\ ids \in Seq(Entry) /\ mask \in Seq({0, 1}) /\ Len(ids) \in Nat /\ Len(mask) \in Nat
      /\ Len(mask) <= Len(ids)
  BY <1>0, LoopAssumption DEF Consistent
<1>2. /\ response \in Seq(Tokens) /\ Len(response) \in Nat \ {0}
      /\ response[Len(response)] = "<think>"
  BY <1>1, MessageTyped, MessageEnds
<1>3. CASE Fits(answers)
  <2>1. /\ ids' = ids \o By("tool", response)
        /\ mask' = mask \o Bits("tool", Len(response))
        /\ userTurns' = userTurns + 1
        /\ state' = "generating"
        /\ Len(mask) + Len(response) < ResponseLength
    BY <1>3 DEF ProcessTools, Fits, Bits
  <2> HIDE DEF response
  <2>2. Unclosed(ids', mask')
    BY <1>0, <1>2, <2>1, StillUnclosed
  <2>3. /\ Len(ids') = Len(ids) + Len(response)
        /\ \A j \in 1 .. Len(response) : ids'[Len(ids) + j].token = response[j]
    <3> DEFINE e == ids \o By("tool", response)
    <3>1. /\ Len(e) = Len(ids) + Len(response)
          /\ \A j \in 1 .. Len(response) : e[Len(ids) + j].token = response[j]
      <4>1. ids \in Seq(Entry) /\ response \in Seq(Tokens) /\ "tool" \in Authors
        BY <1>1, <1>2, Writers
      <4> QED
        BY <4>1, AppendedAre
    <3> HIDE DEF e
    <3>2. ids' = e
      BY <2>1 DEF e
    <3> QED
      BY <3>1, <3>2
  <2>4. Len(mask') = Len(mask) + Len(response)
    BY <1>1, <1>2, <2>1, BitsAppended
  <2>5. ids'[Len(ids')].token = "<think>"
    <3>1. Len(response) \in 1 .. Len(response)
      BY <1>2
    <3> QED
      BY <1>2, <2>3, <3>1
  <2>6. Opened(ids', mask', Len(ids'))
    <3>1. /\ Len(ids') \in 1 .. Len(ids') /\ Len(ids') \in Nat
          /\ Len(ids') >= Len(ids') - Len(mask')
          /\ Len(ids') - (Len(ids') - Len(mask')) < ResponseLength
      BY <1>1, <1>2, <2>1, <2>3, <2>4
    <3>2. Len(ids') + 1 .. Len(ids') = {}
      BY <3>1
    <3> QED
      BY <2>5, <3>1, <3>2 DEF Opened
  <2>7. Len(mask') <= PromptLength + ResponseLength
    BY <1>1, <1>2, <2>1, <2>4
  <2>8. TurnsCounted'
    BY <1>0, <2>1 DEF TurnsCounted
  <2>9. state' \in Phases
    BY <2>1 DEF Phases
  <2> QED
    BY <1>a, <2>1, <2>2, <2>6, <2>7, <2>8, <2>9 DEF Whose
<1>4. CASE ~Fits(answers)
  <2>1. state' = "terminated" /\ UNCHANGED <<ids, mask, userTurns>>
    BY <1>4 DEF ProcessTools
  <2>2. ~Fits(answers)'
    BY <1>4, <2>1 DEF Fits
  <2>3. NoRoom'
    BY <2>2 DEF NoRoom
  <2>4. TurnsCounted'
    BY <1>0, <2>1 DEF TurnsCounted
  <2>5. \E k \in 1 .. Len(ids) : Opened(ids, mask, k)
    BY <1>0 DEF Whose
  <2>6. state' \in Phases
    BY <2>1 DEF Phases
  <2> QED
    BY <1>0, <1>a, <2>1, <2>3, <2>4, <2>5, <2>6 DEF Whose
<1> QED
  BY <1>3, <1>4

LEMMA RaiseOwns ==
  ASSUME Whose, Raise
  PROVE  Whose'
<1>1. /\ state = "generating" /\ state' = "raised"
      /\ UNCHANGED <<ids, mask, calls, userTurns, assistantTurns, flagged, outcome>>
  BY DEF Raise
<1>2. TurnsCounted' /\ state' \in Phases
  BY <1>1 DEF Whose, TurnsCounted, Phases
<1>3. outcome' = NoOutcome
  BY <1>1 DEF Whose
<1> QED
  BY <1>1, <1>2, <1>3 DEF Whose

LEMMA ScoreOwns ==
  ASSUME Whose, Score
  PROVE  Whose'
<1>1. /\ state = "terminated" /\ state' = "scored"
      /\ UNCHANGED <<ids, mask, calls, userTurns, assistantTurns, flagged>>
      /\ outcome' = Reward(ResponseText, Len(Response), ResponseLength, flagged)
  BY DEF Score
<1>2. ResponseText' = ResponseText /\ Response' = Response /\ NoRoom' = NoRoom
  BY <1>1 DEF ResponseText, Response, NoRoom, Fits
<1>3. TurnsCounted'
  BY <1>1 DEF Whose, TurnsCounted
<1>4. state' \in Phases
  BY <1>1 DEF Phases
<1> QED
  BY <1>1, <1>2, <1>3, <1>4 DEF Whose

LEMMA NextOwns == IInv /\ Whose /\ [Next]_vars => Whose'
<1> SUFFICES ASSUME IInv, Whose, [Next]_vars PROVE Whose'
  OBVIOUS
<1>1. CASE Prepare
  BY <1>1, PrepareOwns
<1>2. CASE \E turn \in Generations : Generate(turn)
  BY <1>2, GenerateOwns
<1>3. CASE \E n \in 1 .. MaxParallelCalls :
             \E answers \in [1 .. n -> Outputs] : ProcessTools(answers)
  BY <1>3, ProcessToolsOwns
<1>4. CASE Score
  BY <1>4, ScoreOwns
<1>5. CASE Ended \/ UNCHANGED vars
  <2>1. UNCHANGED vars
    BY <1>5 DEF Ended
  <2>2. ResponseText' = ResponseText /\ Response' = Response /\ NoRoom' = NoRoom
    BY <2>1 DEF vars, ResponseText, Response, NoRoom, Fits
  <2> QED
    BY <2>1, <2>2 DEF vars, Whose, TurnsCounted
<1>6. CASE Raise
  BY <1>6, RaiseOwns
<1> QED
  BY <1>1, <1>2, <1>3, <1>4, <1>5, <1>6 DEF Next

LEMMA InitOwns == Init => Whose
<1> SUFFICES ASSUME Init PROVE Whose
  OBVIOUS
<1>1. /\ state = "pending" /\ ids = <<>> /\ mask = <<>> /\ calls = <<>>
      /\ userTurns = 0 /\ assistantTurns = 0 /\ flagged = FALSE /\ outcome = NoOutcome
  BY DEF Init
<1>2. Len(ids) = 0 /\ Len(mask) = 0 /\ PromptLength \in Nat /\ ResponseLength \in Nat
  BY <1>1, LoopAssumption
<1>3. Unclosed(ids, mask)
  BY <1>2 DEF Unclosed
<1>4. TurnsCounted
  BY <1>1 DEF TurnsCounted
<1>5. calls \in Seq(Parses) /\ state \in Phases /\ flagged \in BOOLEAN
  <2>1. <<>> \in Seq(Parses)
    OBVIOUS
  <2> QED
    BY <1>1, <2>1 DEF Phases
<1> QED
  BY <1>1, <1>2, <1>3, <1>4, <1>5 DEF Whose

LEMMA AlwaysOwned == Spec => [](IInv /\ Whose)
<1>1. Init => IInv /\ Whose
  BY InitConsistent, InitOwns
<1>2. IInv /\ Whose /\ [Next]_vars => (IInv /\ Whose)'
  BY NextKeeps, NextOwns
<1> QED
  BY <1>1, <1>2, PTL DEF Spec

-----------------------------------------------------------------------------
(***************************************************************************)
(* What the reward reads, cut where the model's last turn begins.          *)
(***************************************************************************)
Heard == [token : Tokens \ {"eos"}, by : Authors]

EndsOpening(entries) == entries # <<>> => entries[Len(entries)].token = "<think>"

LEMMA CutSequence ==
  ASSUME NEW S, NEW s \in Seq(S), NEW q \in 0 .. Len(s)
  PROVE  LET u == SubSeq(s, 1, q)
             v == SubSeq(s, q + 1, Len(s))
         IN /\ u \in Seq(S) /\ v \in Seq(S) /\ s = u \o v
            /\ Len(u) = q /\ Len(v) = Len(s) - q
            /\ \A i \in 1 .. q : u[i] = s[i]
            /\ \A i \in 1 .. Len(s) - q : v[i] = s[q + i]
<1> DEFINE u == SubSeq(s, 1, q)
           v == SubSeq(s, q + 1, Len(s))
<1>1. q \in Nat /\ Len(s) \in Nat /\ q <= Len(s) /\ \A i \in 1 .. Len(s) : s[i] \in S
  OBVIOUS
<1>2. u \in Seq(S) /\ Len(u) = q /\ \A i \in 1 .. q : u[i] = s[i]
  BY FirstOnes
<1>3. v \in Seq(S) /\ Len(v) = Len(s) - q /\ \A i \in 1 .. Len(s) - q : v[i] = s[q + i]
  BY <1>1
<1> HIDE DEF u, v
<1>4. s = u \o v
  <2> DEFINE w == u \o v
  <2>1. /\ w \in Seq(S) /\ Len(w) = Len(u) + Len(v)
        /\ \A i \in 1 .. Len(u) + Len(v) : w[i] = IF i <= Len(u) THEN u[i] ELSE v[i - Len(u)]
    BY <1>2, <1>3, ConcatProperties
  <2>2. Len(w) = Len(s)
    BY <1>1, <1>2, <1>3, <2>1
  <2>3. ASSUME NEW i \in 1 .. Len(s)
        PROVE  w[i] = s[i]
    <3>1. CASE i <= q
      <4>1. i \in 1 .. q /\ i \in 1 .. Len(u) + Len(v)
        BY <1>1, <1>2, <1>3, <3>1
      <4> QED
        BY <1>2, <2>1, <3>1, <4>1
    <3>2. CASE ~(i <= q)
      <4>1. i - q \in 1 .. Len(s) - q /\ q + (i - q) = i /\ i \in 1 .. Len(u) + Len(v)
        BY <1>1, <1>2, <1>3, <3>2
      <4>2. w[i] = v[i - q] /\ v[i - q] = s[q + (i - q)]
        BY <1>2, <1>3, <2>1, <3>2, <4>1
      <4> QED
        BY <4>1, <4>2
    <3> QED
      BY <3>1, <3>2
  <2> HIDE DEF w
  <2>4. w = s
    BY <1>1, <2>1, <2>2, <2>3
  <2> QED
    BY <2>4 DEF w
<1> QED
  BY <1>2, <1>3, <1>4 DEF u, v

\* The response from the first token the mask is for, or whole.
LEMMA ResponseIs ==
  ASSUME IInv
  PROVE  LET p == IF mask = <<>> THEN 0 ELSE Len(ids) - Len(mask)
             m == Least(ResponseLength, Len(ids) - p)
         IN /\ Response \in Seq(Entry) /\ Len(Response) = m
            /\ \A i \in 1 .. m : Response[i] = ids[p + i]
<1>0. /\ ids \in Seq(Entry) /\ mask \in Seq({0, 1})
      /\ Len(ids) \in Nat /\ Len(mask) \in Nat /\ Len(mask) <= Len(ids)
      /\ ResponseLength \in Nat
  BY LoopAssumption DEF IInv, Consistent
<1>1. CASE mask = <<>>
  <2>1. Response = Prefix(ids, ResponseLength) /\ Len(ids) - 0 = Len(ids)
    BY <1>0, <1>1 DEF Response, LastOf
  <2> DEFINE m == Least(ResponseLength, Len(ids))
  <2>2. /\ Response \in Seq(Entry) /\ Len(Response) = m
        /\ \A i \in 1 .. m : Response[i] = ids[i]
    BY <1>0, <2>1, PrefixTyped
  <2>3. \A i \in 1 .. m : 0 + i = i
    BY <1>0 DEF Least
  <2> HIDE DEF m
  <2>4. \A i \in 1 .. m : Response[i] = ids[0 + i]
    BY <2>2, <2>3
  <2> QED
    BY <1>1, <2>1, <2>2, <2>4 DEF m
<1>2. CASE mask # <<>>
  <2> DEFINE n == Len(mask)
             p == Len(ids) - n
             end == LastOf(ids, n)
  <2>1. n # 0 /\ n \in Nat /\ p \in Nat /\ p + n = Len(ids) /\ Len(ids) - p = n
    BY <1>0, <1>2
  <2>2. /\ end \in Seq(Entry) /\ Len(end) = n
        /\ \A i \in 1 .. n : end[i] = ids[p + i]
    BY <1>0, <2>1 DEF LastOf
  <2>3. Response = Prefix(end, ResponseLength)
    BY DEF Response
  <2> HIDE DEF end, n, p
  <2> DEFINE m == Least(ResponseLength, n)
  <2>4. 1 .. m \subseteq 1 .. n
    BY <1>0, <2>1 DEF Least
  <2>5. /\ Response \in Seq(Entry) /\ Len(Response) = m
        /\ \A i \in 1 .. m : Response[i] = end[i]
    BY <1>0, <2>2, <2>3, PrefixTyped
  <2>6. \A i \in 1 .. m : Response[i] = ids[p + i]
    BY <2>2, <2>4, <2>5
  <2> QED
    BY <1>2, <2>1, <2>5, <2>6 DEF n, p
<1> QED
  BY <1>1, <1>2

LEMMA ResponseSplit ==
  ASSUME IInv, NEW k, Opened(ids, mask, k), mask # <<>> \/ Len(ids) <= ResponseLength
  PROVE  \E u \in Seq(Entry), v \in Seq(Entry) :
           /\ Response = u \o v
           /\ EndsOpening(u)
           /\ \A i \in 1 .. Len(v) : \E j \in k + 1 .. Len(ids) : v[i] = ids[j]
<1> DEFINE p == IF mask = <<>> THEN 0 ELSE Len(ids) - Len(mask)
           m == Least(ResponseLength, Len(ids) - p)
           q == k - p
<1>0. /\ Len(ids) \in Nat /\ Len(mask) \in Nat /\ Len(mask) <= Len(ids)
      /\ ResponseLength \in Nat /\ mask \in Seq({0, 1})
  BY LoopAssumption DEF IInv, Consistent
<1>1. /\ k \in 1 .. Len(ids) /\ ids[k].token = "<think>"
      /\ k >= Len(ids) - Len(mask) /\ k - (Len(ids) - Len(mask)) < ResponseLength
  BY DEF Opened
<1>2. /\ Response \in Seq(Entry) /\ Len(Response) = m
      /\ \A i \in 1 .. m : Response[i] = ids[p + i]
  BY ResponseIs
<1>3. p \in Nat /\ q \in 0 .. m /\ p + q = k /\ m \in Nat /\ p + m <= Len(ids)
  <2>1. CASE mask = <<>>
    <3>1. Len(mask) = 0 /\ p = 0
      BY <2>1
    <3>2. Len(ids) <= ResponseLength
      BY <2>1
    <3> HIDE DEF p
    <3> QED
      BY <1>0, <1>1, <3>1, <3>2 DEF Least
  <2>2. CASE mask # <<>>
    <3>1. p = Len(ids) - Len(mask)
      BY <2>2
    <3> HIDE DEF p
    <3> QED
      BY <1>0, <1>1, <3>1 DEF Least
  <2> QED
    BY <2>1, <2>2
<1> HIDE DEF p, m, q
<1> DEFINE u == SubSeq(Response, 1, q)
           v == SubSeq(Response, q + 1, Len(Response))
<1>4. /\ u \in Seq(Entry) /\ v \in Seq(Entry) /\ Response = u \o v
      /\ Len(u) = q /\ Len(v) = m - q
      /\ \A i \in 1 .. q : u[i] = Response[i]
      /\ \A i \in 1 .. m - q : v[i] = Response[q + i]
  <2>1. q \in 0 .. Len(Response)
    BY <1>2, <1>3
  <2> QED
    BY <1>2, <2>1, CutSequence, ZenonT(40)
<1> HIDE DEF u, v
<1>5. EndsOpening(u)
  <2> SUFFICES ASSUME u # <<>> PROVE u[Len(u)].token = "<think>"
    BY DEF EndsOpening
  <2>1. q # 0
    BY <1>4
  <2>2. q \in 1 .. q /\ q \in 1 .. m
    BY <1>3, <2>1
  <2> QED
    BY <1>1, <1>2, <1>3, <1>4, <2>2
<1>6. ASSUME NEW i \in 1 .. Len(v)
      PROVE  \E j \in k + 1 .. Len(ids) : v[i] = ids[j]
  <2>1. i \in 1 .. m - q /\ q + i \in 1 .. m /\ p + (q + i) \in k + 1 .. Len(ids)
    BY <1>0, <1>1, <1>3, <1>4
  <2> QED
    BY <1>2, <1>4, <2>1
<1> QED
  BY <1>4, <1>5, <1>6

\* What is heard of the two parts, one behind the other.
LEMMA HeardSplit ==
  ASSUME NEW u \in Seq(Entry), NEW T \in SUBSET Entry, NEW v \in Seq(T), EndsOpening(u)
  PROVE  \E x \in Seq(Heard), y \in Seq(T) :
           /\ Only(u \o v, Heard) = x \o y
           /\ EndsOpening(x)
           /\ Decoded(Read(u \o v)) = Read(x \o y)
<1> DEFINE x == Only(u, Heard)
           y == Only(v, Heard)
<1>1. v \in Seq(Entry) /\ u \o v \in Seq(Entry)
  OBVIOUS
<1>2. x \in Seq(Entry \cap Heard) /\ y \in Seq(T \cap Heard)
  BY OnlyTyped
<1>3. Only(u \o v, Heard) = x \o y
  BY <1>1, OnlyConcat
<1>4. Decoded(Read(u \o v)) = Read(x \o y)
  BY <1>1, <1>3, ReadOnly DEF Decoded, Heard
<1>5. EndsOpening(x)
  <2>1. CASE u = <<>>
    BY <2>1, OnlyNothing DEF EndsOpening
  <2>2. CASE u # <<>>
    <3>1. /\ Front(u) \in Seq(Entry) /\ Last(u) \in Entry /\ u = Append(Front(u), Last(u))
      BY <2>2, FrontAndLast
    <3>2. Last(u).token = "<think>"
      BY <2>2 DEF EndsOpening, Last
    <3>3. Last(u) \in Heard
      BY <3>1, <3>2 DEF Entry, Heard
    <3>4. x = Only(Front(u), Heard) \o <<Last(u)>>
      <4>1. Only(Append(Front(u), Last(u)), Heard) = Only(Front(u), Heard) \o Kept(Last(u), Heard)
        BY <3>1, OnlyAppend
      <4>2. Kept(Last(u), Heard) = <<Last(u)>>
        BY <3>3 DEF Kept
      <4> QED
        BY <3>1, <4>1, <4>2
    <3>5. Only(Front(u), Heard) \in Seq(Entry \cap Heard)
      BY <3>1, OnlyTyped
    <3> DEFINE f == Only(Front(u), Heard)
               l == Last(u)
    <3> HIDE DEF f, l, x
    <3>6. x[Len(x)] = l
      <4>1. f \in Seq(Entry \cap Heard) /\ l \in Entry \cap Heard /\ x = f \o <<l>>
        BY <3>1, <3>3, <3>4, <3>5 DEF f, l
      <4> QED
        BY <4>1
    <3> QED
      BY <3>2, <3>6 DEF EndsOpening, l
  <2> QED
    BY <2>1, <2>2
<1>6. x \in Seq(Heard) /\ y \in Seq(T)
  <2> HIDE DEF x, y
  <2> QED
    BY <1>2
<1> QED
  BY <1>3, <1>4, <1>5, <1>6

LEMMA RewardTyped ==
  ASSUME NEW text, NEW length \in Nat, NEW late \in BOOLEAN
  PROVE  LET r == Reward(text, length, ResponseLength, late) IN
         /\ r.kind \in {"none", "invalid", "failed", "malformed", "graded"}
         /\ r.base \in 0 .. 2 /\ r.score \in 0 .. 2 * ResponseLength
         /\ r.kind = "graded" /\ r.base = 2 =>
              ~late /\ WellFormed(text) /\ Prediction(text) = <<"right">>
<1> DEFINE prediction == Prediction(text)
           base == Base(prediction)
           graded == base * ResponseLength - Penalty(length, ResponseLength)
           r == Reward(text, length, ResponseLength, late)
<1>1. ResponseLength \in Nat
  BY LoopAssumption
<1>2. base \in 0 .. 2 /\ (base = 2 => prediction = <<"right">>)
  BY DEF Base
<1>3. Penalty(length, ResponseLength) \in Nat
  BY <1>1 DEF Penalty
<1>4. graded \in Int /\ graded <= 2 * ResponseLength
  <2> HIDE DEF base
  <2>1. base \in {0, 1, 2}
    BY <1>2
  <2>2. base * ResponseLength \in Nat /\ base * ResponseLength <= 2 * ResponseLength
    BY <1>1, <2>1
  <2> DEFINE b == base * ResponseLength
             d == 2 * ResponseLength
  <2>3. b \in Nat /\ b <= d /\ d \in Nat /\ graded = b - Penalty(length, ResponseLength)
    BY <1>1, <2>2
  <2> HIDE DEF b, d, graded
  <2>4. graded \in Int /\ graded <= d
    BY <1>3, <2>3
  <2> QED
    BY <2>4 DEF d
<1>5. 0 \in 0 .. 2 * ResponseLength /\ 0 \in 0 .. 2
  BY <1>1
<1>6. CASE late
  <2>1. r = Ungraded("invalid")
    BY <1>6 DEF Reward
  <2> QED
    BY <1>5, <2>1 DEF Ungraded
<1>7. CASE ~late /\ prediction = <<>>
  <2>1. r = Ungraded("failed")
    BY <1>7 DEF Reward
  <2> QED
    BY <1>5, <2>1 DEF Ungraded
<1>8. CASE ~late /\ prediction # <<>>
  <2>1. r = [kind |-> IF WellFormed(text) THEN "graded" ELSE "malformed",
             base |-> base,
             score |-> IF WellFormed(text) /\ graded > 0 THEN graded ELSE 0]
    BY <1>8 DEF Reward
  <2> HIDE DEF base, graded, prediction, r
  <2>2. (IF WellFormed(text) /\ graded > 0 THEN graded ELSE 0) \in 0 .. 2 * ResponseLength
    <3> DEFINE d == 2 * ResponseLength
    <3>1. d \in Nat
      BY <1>1
    <3> HIDE DEF d
    <3>2. graded \in Int /\ graded <= d
      BY <1>4 DEF d
    <3>3. (IF WellFormed(text) /\ graded > 0 THEN graded ELSE 0) \in 0 .. d
      BY <3>1, <3>2
    <3> QED
      BY <3>3 DEF d
  <2>3. r.kind \in {"malformed", "graded"} /\ (r.kind = "graded" => WellFormed(text))
    BY <2>1
  <2>4. r.base \in 0 .. 2 /\ (r.base = 2 => prediction = <<"right">>)
    BY <1>2, <2>1
  <2>5. r.score \in 0 .. 2 * ResponseLength
    BY <2>1, <2>2
  <2> QED
    BY <1>8, <2>3, <2>4, <2>5 DEF prediction, r
<1> QED
  BY <1>6, <1>7, <1>8

-----------------------------------------------------------------------------
\* Transcript, mask, calls, turns and reward keep their types, and what follows the
\* prompt the model's context, for any prompts, turns, tool answers, budgets and caps.
THEOREM TypeCorrect == Spec => []TypeOK
<1>1. ASSUME IInv, Whose PROVE TypeOK
  <2>1. /\ ids \in Seq([token : Tokens, by : Authors]) /\ mask \in Seq({0, 1})
        /\ Len(mask) <= PromptLength + ResponseLength
        /\ Len(mask) \in Nat
    BY <1>1 DEF IInv, Consistent, Whose, Entry
  <2>2. Len(mask) <= MaxModelLen
    BY <2>1, LoopAssumption
  <2>3. /\ state \in {"pending", "generating", "processing_tools", "terminated", "scored", "raised"}
        /\ calls \in Seq({<<"usable">>, <<"unusable">>})
        /\ flagged \in BOOLEAN
    BY <1>1 DEF Whose, Phases, Parses
  <2>4. userTurns \in 0 .. assistantTurns /\ assistantTurns \in Nat
    BY <1>1 DEF Whose, TurnsCounted
  <2>5. Len(Response) \in Nat
    <3>1. Response \in Seq(Entry)
      BY <1>1, ResponseIs
    <3> QED
      BY <3>1
  <2>6. /\ outcome.kind \in {"none", "invalid", "failed", "malformed", "graded"}
        /\ outcome.base \in 0 .. 2 /\ outcome.score \in 0 .. 2 * ResponseLength
    <3>1. CASE state = "scored"
      <4>1. outcome = Reward(ResponseText, Len(Response), ResponseLength, flagged)
        BY <1>1, <3>1 DEF Whose
      <4> QED
        BY <2>3, <2>5, <4>1, RewardTyped
    <3>2. CASE state # "scored"
      <4>1. outcome = Ungraded("none") /\ ResponseLength \in Nat
        BY <1>1, <3>2, LoopAssumption DEF Whose, NoOutcome
      <4> QED
        BY <4>1 DEF Ungraded
    <3> QED
      BY <3>1, <3>2
  <2> QED
    BY <2>1, <2>2, <2>3, <2>4, <2>6 DEF TypeOK
<1> QED
  BY <1>1, AlwaysOwned, PTL

\* No output of the tool and no prompt earns full marks: whatever lines the corpus
\* has, the answer block they are given for is the model's, from its first token to
\* its last.
THEOREM FullMarksAreEarned == Spec => []FullMarksForOwnAnswer
<1>1. ASSUME IInv, Whose PROVE FullMarksForOwnAnswer
  <2> DEFINE w == Only(Response, Heard)
             n == Len(w)
  <2> SUFFICES ASSUME Scored, outcome.kind = "graded", outcome.base = 2
               PROVE  \A i \in n - 2 .. n : w[i].by = "model"
    BY DEF FullMarksForOwnAnswer, Heard
  <2> HIDE DEF w, n
  <2>1. /\ outcome = Reward(ResponseText, Len(Response), ResponseLength, flagged)
        /\ flagged \in BOOLEAN /\ state = "scored"
    BY <1>1 DEF Whose, Scored
  <2>2. Response \in Seq(Entry) /\ Len(Response) \in Nat
    <3>1. Response \in Seq(Entry)
      BY <1>1, ResponseIs
    <3> QED
      BY <3>1
  <2>3. ~flagged /\ WellFormed(ResponseText) /\ Prediction(ResponseText) = <<"right">>
    BY <2>1, <2>2, RewardTyped
  <2>4. PICK k \in 1 .. Len(ids) : Opened(ids, mask, k)
    BY <1>1, <2>1, <2>3 DEF Whose
  <2>5. ResponseText = Read(w)
    BY <2>2, ReadOnly DEF ResponseText, Decoded, w, Heard
  <2>6. w \in Seq(Entry \cap Heard) /\ w \in Seq(Entry)
    <3>1. w \in Seq(Entry \cap Heard)
      BY <2>2, OnlyTyped DEF w
    <3> QED
      BY <3>1
  <2>7. /\ ResponseText \in Seq(Tokens) /\ Len(ResponseText) = n /\ n \in Nat
        /\ \A i \in 1 .. n : ResponseText[i] = w[i].token
    BY <2>5, <2>6, ReadTyped DEF n
  <2>8. /\ \E i \in 1 .. n : w[i].token = "</think>"
        /\ n > 2 /\ w[n - 2].token = "<answer>" /\ w[n - 1].token = "right"
        /\ w[n].token = "</answer>"
    <3>1. /\ \E i \in 1 .. n : ResponseText[i] = "</think>"
          /\ n > 2 /\ ResponseText[n - 2] = "<answer>" /\ ResponseText[n - 1] = "right"
          /\ ResponseText[n] = "</answer>"
      BY <2>3, <2>7, FinalAnswer
    <3>2. n - 2 \in 1 .. n /\ n - 1 \in 1 .. n /\ n \in 1 .. n
      BY <2>7, <3>1
    <3> QED
      BY <2>7, <3>1, <3>2
  <2>9. CASE mask = <<>>
    <3> DEFINE T == {e \in Entry : e.token # "</think>"}
    <3>1. \A i \in 1 .. Len(Response) : Response[i] \in T
      <4>1. \A i \in 1 .. Len(ids) : ids[i].token # "</think>"
        BY <1>1, <2>9 DEF Whose, Unclosed, IInv, Consistent
      <4>2. /\ Len(Response) = Least(ResponseLength, Len(ids) - 0)
            /\ \A i \in 1 .. Len(Response) : Response[i] = ids[0 + i]
        BY <1>1, <2>9, ResponseIs
      <4>3. Len(ids) \in Nat /\ ResponseLength \in Nat
        BY <1>1, LoopAssumption DEF IInv, Consistent
      <4>4. \A i \in 1 .. Len(Response) : i \in 1 .. Len(ids) /\ 0 + i = i
        BY <4>2, <4>3 DEF Least
      <4>5. \A i \in 1 .. Len(Response) : Response[i] \in Entry
        BY <2>2
      <4> QED
        BY <4>1, <4>2, <4>4, <4>5
    <3>2. Response \in Seq(T)
      <4> HIDE DEF T
      <4> QED
        BY <2>2, <3>1
    <3>3. w \in Seq(T \cap Heard)
      BY <3>2, OnlyTyped DEF w
    <3>4. \A i \in 1 .. n : w[i] \in T
      <4> HIDE DEF T
      <4> QED
        BY <3>3 DEF n
    <3> QED
      BY <2>8, <3>4
  <2>10. CASE mask # <<>>
    <3> DEFINE T == {e \in Entry : e.by = "model"}
    <3>1. PICK u \in Seq(Entry), v \in Seq(Entry) :
            /\ Response = u \o v
            /\ EndsOpening(u)
            /\ \A i \in 1 .. Len(v) : \E j \in k + 1 .. Len(ids) : v[i] = ids[j]
      BY <1>1, <2>4, <2>10, ResponseSplit
    <3>2. v \in Seq(T)
      <4>3. \A j \in k + 1 .. Len(ids) : ids[j].by = "model"
        BY <2>4 DEF Opened
      <4>4. \A i \in 1 .. Len(v) : v[i] \in Entry
        BY <3>1
      <4>1. \A i \in 1 .. Len(v) : v[i].by = "model" /\ v[i] \in Entry
        BY <3>1, <4>3, <4>4
      <4>2. \A i \in 1 .. Len(v) : v[i] \in T
        BY <4>1
      <4> HIDE DEF T
      <4> QED
        BY <4>2
    <3>3. PICK x \in Seq(Heard), y \in Seq(T) : w = x \o y /\ EndsOpening(x)
      <4>1. T \in SUBSET Entry
        OBVIOUS
      <4> HIDE DEF T
      <4> QED
        BY <3>1, <3>2, <4>1, HeardSplit DEF w
    <3>4. /\ n = Len(x) + Len(y) /\ Len(x) \in Nat /\ Len(y) \in Nat
          /\ \A i \in 1 .. n : w[i] = IF i <= Len(x) THEN x[i] ELSE y[i - Len(x)]
          /\ \A i \in 1 .. Len(y) : y[i] \in T
      <4> HIDE DEF T
      <4>1. x \in Seq(Heard \cup T) /\ y \in Seq(Heard \cup T)
        BY <3>3
      <4>2. /\ Len(w) = Len(x) + Len(y)
            /\ \A i \in 1 .. Len(x) + Len(y) : w[i] = IF i <= Len(x) THEN x[i] ELSE y[i - Len(x)]
        BY <3>3, <4>1, ConcatProperties
      <4>3. Len(x) \in Nat /\ Len(y) \in Nat /\ \A i \in 1 .. Len(y) : y[i] \in T
        BY <3>3
      <4> QED
        BY <4>2, <4>3 DEF n
    <3>5. Len(x) < n - 2
      <4> SUFFICES ASSUME Len(x) >= n - 2 PROVE FALSE
        BY <2>7, <3>4
      <4>1. Len(x) \in {n - 2, n - 1, n} /\ Len(x) \in 1 .. n
        BY <2>7, <2>8, <3>4
      <4>2. w[Len(x)] = x[Len(x)]
        BY <3>4, <4>1
      <4>3. x # <<>>
        BY <4>1
      <4>4. w[Len(x)].token = "<think>"
        BY <3>3, <4>2, <4>3 DEF EndsOpening
      <4> QED
        BY <2>8, <4>1, <4>4
    <3>6. ASSUME NEW i \in n - 2 .. n
          PROVE  w[i].by = "model"
      <4>1. i \in 1 .. n /\ ~(i <= Len(x)) /\ i - Len(x) \in 1 .. Len(y)
        BY <2>7, <2>8, <3>4, <3>5
      <4>2. w[i] = y[i - Len(x)] /\ y[i - Len(x)] \in T
        BY <3>4, <4>1
      <4> QED
        BY <4>2
    <3> QED
      BY <3>6
  <2> QED
    BY <2>9, <2>10
<1> QED
  BY <1>1, AlwaysOwned, PTL

\* With caps that leave a turn for the answer behind the last turn of the tool, as
\* the configuration's do, a rollout ends in a search only when the tool's turns or
\* the budget are used up.
THEOREM NoneIsCutShort == CapsLeaveRoom /\ Spec => []NotCutShort
<1> SUFFICES ASSUME CapsLeaveRoom
             PROVE  Spec => []NotCutShort
  OBVIOUS
<1>1. ASSUME IInv, Whose PROVE NotCutShort
  <2> SUFFICES ASSUME Scored, ~flagged, EndsInCall
               PROVE  MaxUserTurns \in 1 .. userTurns \/ NoRoom
    BY DEF NotCutShort, NoRoom
  <2>1. MaxUserTurns \in 1 .. userTurns \/ NoRoom \/ CallsNothing(ids, mask)
    BY <1>1 DEF Whose, Scored
  <2>2. ASSUME CallsNothing(ids, mask)
        PROVE  FALSE
    <3>1. PICK k \in 1 .. Len(ids) :
            /\ Opened(ids, mask, k)
            /\ \A i \in k + 1 .. Len(ids) : ids[i].token # "</tool_call>"
      BY <2>2 DEF CallsNothing
    <3>2. mask # <<>> \/ Len(ids) <= ResponseLength
      <4>1. CASE mask = <<>>
        <5>1. PICK prompt \in Prompts : BeginsWith(prompt, ids, mask)
          BY <1>1 DEF IInv, Begun, Scored
        <5>2. Len(mask) = 0 /\ Len(prompt) \in Nat /\ Len(prompt) <= ResponseLength
          BY <4>1, LoopAssumption DEF CapsLeaveRoom
        <5> QED
          BY <5>1, <5>2 DEF BeginsWith
      <4> QED
        BY <4>1
    <3> DEFINE T == {e \in Entry : e.token # "</tool_call>"}
    <3>3. PICK u \in Seq(Entry), v \in Seq(Entry) :
            /\ Response = u \o v
            /\ EndsOpening(u)
            /\ \A i \in 1 .. Len(v) : \E j \in k + 1 .. Len(ids) : v[i] = ids[j]
      BY <1>1, <3>1, <3>2, ResponseSplit
    <3>4. v \in Seq(T)
      <4>3. \A i \in 1 .. Len(v) : v[i] \in Entry
        BY <3>3
      <4>4. \A i \in 1 .. Len(v) : v[i].token # "</tool_call>"
        <5> TAKE i \in 1 .. Len(v)
        <5>1. PICK j \in k + 1 .. Len(ids) : v[i] = ids[j]
          BY <3>3
        <5> QED
          BY <3>1, <5>1
      <4>1. \A i \in 1 .. Len(v) : v[i].token # "</tool_call>" /\ v[i] \in Entry
        BY <4>3, <4>4
      <4>2. \A i \in 1 .. Len(v) : v[i] \in T
        BY <4>1
      <4> HIDE DEF T
      <4> QED
        BY <4>2
    <3>5. PICK x \in Seq(Heard), y \in Seq(T) :
            /\ EndsOpening(x)
            /\ ResponseText = Read(x \o y)
      <4>1. T \in SUBSET Entry
        OBVIOUS
      <4> HIDE DEF T
      <4> QED
        BY <3>3, <3>4, <4>1, HeardSplit DEF ResponseText
    <3> DEFINE w == x \o y
               n == Len(w)
    <3>6. /\ w \in Seq(Entry) /\ n = Len(x) + Len(y) /\ Len(x) \in Nat /\ Len(y) \in Nat
          /\ \A i \in 1 .. n : w[i] = IF i <= Len(x) THEN x[i] ELSE y[i - Len(x)]
          /\ \A i \in 1 .. Len(y) : y[i] \in T
      <4>1. Heard \subseteq Entry /\ T \subseteq Entry
        BY DEF Heard, Entry
      <4> HIDE DEF T
      <4>2. x \in Seq(Entry) /\ y \in Seq(Entry)
        BY <3>5, <4>1
      <4>3. /\ w \in Seq(Entry) /\ Len(w) = Len(x) + Len(y)
            /\ \A i \in 1 .. Len(x) + Len(y) : w[i] = IF i <= Len(x) THEN x[i] ELSE y[i - Len(x)]
        BY <4>2, ConcatProperties
      <4>4. Len(x) \in Nat /\ Len(y) \in Nat /\ \A i \in 1 .. Len(y) : y[i] \in T
        BY <3>5
      <4> QED
        BY <4>3, <4>4
    <3> HIDE DEF w
    <3>7. /\ ResponseText \in Seq(Tokens) /\ Len(ResponseText) = n /\ n \in Nat
          /\ \A i \in 1 .. n : ResponseText[i] = w[i].token
      <4>1. w \in Seq(Entry) /\ ResponseText = Read(w)
        BY <3>5, <3>6 DEF w
      <4> HIDE DEF ResponseText
      <4> QED
        BY <4>1, ReadTyped
    <3>8. n > 1 /\ w[n].token = "</tool_call>"
      <4> DEFINE t == ResponseText
      <4>1. Len(t) > 1 /\ SubSeq(t, Len(t) - 1, Len(t)) = <<"usable", "</tool_call>">>
        BY DEF EndsInCall
      <4> HIDE DEF t
      <4>2. t \in Seq(Tokens) /\ Len(t) = n /\ n \in Nat
        BY <3>7 DEF t
      <4>3. SubSeq(t, n - 1, n)[2] = t[n]
        BY <4>1, <4>2
      <4>5. <<"usable", "</tool_call>">>[2] = "</tool_call>"
        OBVIOUS
      <4>6. SubSeq(t, n - 1, n) = <<"usable", "</tool_call>">> /\ n > 1
        BY <4>1, <4>2
      <4>7. SubSeq(t, n - 1, n)[2] = "</tool_call>"
        <5>1. ASSUME NEW q, q = <<"usable", "</tool_call>">>
              PROVE  q[2] = "</tool_call>"
          BY <5>1
        <5> QED
          BY <4>6, <5>1
      <4>8. n \in 1 .. n
        BY <4>2, <4>6
      <4>4. t[n] = "</tool_call>" /\ n \in 1 .. n
        BY <4>3, <4>7, <4>8, Zenon
      <4> QED
        BY <3>7, <4>1, <4>2, <4>4 DEF t
    <3>9. CASE Len(y) = 0
      <4>1. n = Len(x) /\ n \in 1 .. n /\ w[n] = x[n] /\ x # <<>>
        BY <3>6, <3>7, <3>8, <3>9
      <4>2. w[n].token = "<think>"
        BY <3>5, <4>1 DEF EndsOpening
      <4> QED
        BY <3>8, <4>2
    <3>10. CASE Len(y) # 0
      <4>1. n \in 1 .. n /\ ~(n <= Len(x)) /\ n - Len(x) = Len(y) /\ Len(y) \in 1 .. Len(y)
        BY <3>6, <3>7, <3>8, <3>10
      <4>2. w[n] = y[Len(y)] /\ y[Len(y)] \in T
        BY <3>6, <4>1
      <4> QED
        BY <3>8, <4>2
    <3> QED
      BY <3>9, <3>10
  <2> QED
    BY <2>1, <2>2
<1> QED
  BY <1>1, AlwaysOwned, PTL
=============================================================================
