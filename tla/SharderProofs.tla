--------------------------- MODULE SharderProofs ----------------------------
(* Proofs about Sharder, for any corpora and any numbers of shards.         *)
EXTENDS Sharder, TLAPS

Cut(c, n, i) == [of |-> c, n |-> n, place |-> i, whole |-> TRUE]

Half(c, n, i) == [of |-> c, n |-> n, place |-> i, whole |-> FALSE]

(* Places before next hold their shard, next may hold half of it, and the   *)
(* places after it nothing.                                                 *)
UpTo(next, n, f, c) ==
  \A i \in Places :
    /\ i < next => f[i] = Cut(c, n, i)
    /\ i = next => f[i] = None \/ (next < n /\ f[i] = Half(c, n, i))
    /\ next < i => f[i] = None

(* How far the build that runs has got with the directory.                  *)
SplitSoFar ==
  builder.at = "split" =>
    /\ builder.cut \in Corpora
    /\ builder.next <= builder.n
    /\ UpTo(builder.next, builder.n, files, builder.cut)

NotYetSplit == builder.at \in {"manifest", "hash", "count", "unlink"} => builder.next = 0

SplitWhole ==
  builder.at \in {"verify", "write", "dump", "built"} =>
    builder.cut \in Corpora /\ Holds(builder.cut, builder.n)

Counted == builder.at \in {"write", "dump", "built"} => Lines[builder.cut] = builder.lines

Taken == {"count", "unlink", "split", "verify", "write", "dump", "built"}

Opened == {"split", "verify", "write", "dump", "built"}

(* The hash is the corpus's, and so is the cut, unless it was replaced.     *)
HashTaken ==
  /\ builder.at \in Taken => builder.sha \in Corpora
  /\ ~builder.moved =>
       /\ builder.at \in Taken => builder.sha = src
       /\ builder.at \in Opened => builder.cut = src

ManifestLast ==
  builder.at = "built" =>
    manifest = [src |-> builder.sha, n |-> builder.n, lines |-> builder.lines]

(* Until a build removes the first stale shard, and after one has written   *)
(* its manifest, the directory holds what the manifest says.                *)
LeftTrue ==
  Written(manifest) =>
    /\ left # "unfinished" => \E c \in Corpora : Lines[c] = manifest.lines /\ Holds(c, manifest.n)
    /\ left = "whole" => Holds(manifest.src, manifest.n)

Builders ==
  [at : {"idle", "manifest", "hash", "count", "unlink", "split", "verify",
         "write", "dump", "built", "reused", "raised"},
   n : Nat, force : BOOLEAN, sha : Corpora \cup {None}, lines : Nat,
   cut : Corpora \cup {None}, next : Nat, moved : BOOLEAN]

IInv ==
  /\ TypeOK
  /\ builder.at # "idle" => builder.n \in Counts
  /\ NotYetSplit
  /\ SplitSoFar
  /\ SplitWhole
  /\ Counted
  /\ HashTaken
  /\ ManifestLast
  /\ LeftTrue
  /\ ShardsOfOneCut
-----------------------------------------------------------------------------
LEMMA PlacesNat ==
  /\ Places \subseteq Nat
  /\ \A n \in Counts, i \in Nat : i < n => i \in Places
BY ConstantsAssumption DEF Places

LEMMA IdleTyped == Idle \in Builders
BY DEF Idle, Builders

LEMMA InitIInv == Init => IInv
<1> SUFFICES ASSUME Init PROVE IInv
  OBVIOUS
<1>1. TypeOK
  <2>1. files \in [Places -> ShardType \cup {None}]
    BY DEF Init
  <2>2. QED
    BY <2>1, IdleTyped DEF Init, TypeOK, Builders
<1>2. builder.at = "idle" /\ manifest = None
  BY DEF Init, Idle
<1>3. ShardsOfOneCut
  BY ConstantsAssumption DEF Init, ShardsOfOneCut
<1>4. QED
  BY <1>1, <1>2, <1>3 DEF IInv, NotYetSplit, SplitSoFar, SplitWhole, Counted, HashTaken, Taken,
                          Opened, ManifestLast, LeftTrue, Written

(* A step that only moves the build on, before it splits or out of its way. *)
LEMMA Elsewhere ==
  ASSUME IInv, UNCHANGED <<files, manifest, left>>, src' \in Corpora,
         builder' \in Builders,
         builder'.at # "idle" => builder'.n \in Counts,
         builder'.at \in {"idle", "manifest", "hash", "count", "unlink", "reused", "raised"},
         builder'.at \in {"manifest", "hash", "count", "unlink"} => builder'.next = 0,
         builder'.at \in {"count", "unlink"} =>
           builder'.sha \in Corpora /\ (~builder'.moved => builder'.sha = src')
  PROVE  IInv'
<1>1. TypeOK'
  BY DEF IInv, TypeOK, Builders
<1>2. LeftTrue' /\ ShardsOfOneCut'
  BY DEF IInv, LeftTrue, Written, Holds, ShardsOfOneCut
<1>3. NotYetSplit' /\ SplitSoFar' /\ SplitWhole' /\ Counted' /\ ManifestLast'
  BY DEF NotYetSplit, SplitSoFar, SplitWhole, Counted, ManifestLast
<1>4. HashTaken'
  BY DEF HashTaken, Taken, Opened
<1>5. QED
  BY <1>1, <1>2, <1>3, <1>4 DEF IInv

LEMMA StartBuildStep ==
  ASSUME IInv, NEW n \in Counts, NEW force \in BOOLEAN, StartBuild(n, force)
  PROVE  IInv'
<1>1. builder' = [Idle EXCEPT !.at = "manifest", !.n = n, !.force = force]
      /\ UNCHANGED <<src, files, manifest, left>> /\ src \in Corpora /\ n \in Nat
  BY ConstantsAssumption DEF StartBuild, IInv, TypeOK
<1>2. builder' \in Builders /\ builder'.at = "manifest" /\ builder'.n = n /\ builder'.next = 0
  BY <1>1, IdleTyped DEF Builders, Idle
<1>3. QED
  BY <1>1, <1>2, Elsewhere

LEMMA ReadManifestStep ==
  ASSUME IInv, ReadManifest
  PROVE  IInv'
<1>1. PICK at \in {"hash", "raised", "reused"} : builder' = [builder EXCEPT !.at = at]
  BY DEF ReadManifest
<1>2. /\ builder.at = "manifest" /\ UNCHANGED <<src, files, manifest, left>>
      /\ src \in Corpora /\ builder \in Builders /\ builder.n \in Counts /\ builder.next = 0
  BY DEF ReadManifest, IInv, TypeOK, Builders, NotYetSplit
<1>3. /\ builder' \in Builders /\ builder'.at = at
      /\ builder'.n = builder.n /\ builder'.next = builder.next
  BY <1>1, <1>2 DEF Builders
<1>4. QED
  BY <1>1, <1>2, <1>3, Elsewhere

LEMMA HashStep ==
  ASSUME IInv, Hash
  PROVE  IInv'
<1>1. /\ builder.at = "hash" /\ builder' = [builder EXCEPT !.at = "count", !.sha = src]
      /\ UNCHANGED <<src, files, manifest, left>>
      /\ src \in Corpora /\ builder \in Builders /\ builder.n \in Counts /\ builder.next = 0
  BY DEF Hash, IInv, TypeOK, Builders, NotYetSplit
<1>2. /\ builder' \in Builders /\ builder'.at = "count" /\ builder'.sha = src
      /\ builder'.n = builder.n /\ builder'.next = builder.next
  BY <1>1 DEF Builders
<1>3. QED
  BY <1>1, <1>2, Elsewhere

LEMMA CountStep ==
  ASSUME IInv, Count
  PROVE  IInv'
<1>1. /\ builder.at = "count" /\ builder' = [builder EXCEPT !.at = "unlink", !.lines = Lines[src]]
      /\ UNCHANGED <<src, files, manifest, left>>
      /\ src \in Corpora /\ builder \in Builders /\ builder.n \in Counts /\ builder.next = 0
      /\ builder.sha \in Corpora /\ (~builder.moved => builder.sha = src)
      /\ Lines[src] \in Nat
  BY ConstantsAssumption DEF Count, IInv, TypeOK, Builders, NotYetSplit, HashTaken, Taken
<1>2. /\ builder' \in Builders /\ builder'.at = "unlink"
      /\ builder'.sha = builder.sha /\ builder'.moved = builder.moved
      /\ builder'.n = builder.n /\ builder'.next = builder.next
  BY <1>1 DEF Builders
<1>3. QED
  BY <1>1, <1>2, Elsewhere

LEMMA CrashStep ==
  ASSUME IInv, Crash
  PROVE  IInv'
<1>1. builder' = Idle /\ UNCHANGED <<src, files, manifest, left>> /\ src \in Corpora
  BY DEF Crash, IInv, TypeOK
<1>2. builder' \in Builders /\ builder'.at = "idle"
  BY <1>1, IdleTyped DEF Idle
<1>3. QED
  BY <1>1, <1>2, Elsewhere

LEMMA FailStep ==
  ASSUME IInv, Fail
  PROVE  IInv'
<1>1. /\ builder' = [builder EXCEPT !.at = "raised"] /\ UNCHANGED <<src, files, manifest, left>>
      /\ src \in Corpora /\ builder \in Builders /\ builder.n \in Counts
  BY DEF Fail, Building, IInv, TypeOK, Builders
<1>2. builder' \in Builders /\ builder'.at = "raised" /\ builder'.n = builder.n
  BY <1>1 DEF Builders
<1>3. QED
  BY <1>1, <1>2, Elsewhere

LEMMA ReplaceCorpusStep ==
  ASSUME IInv, ReplaceCorpus
  PROVE  IInv'
<1>1. UNCHANGED <<files, manifest, left>> /\ src' \in Corpora /\ builder \in Builders
  BY DEF ReplaceCorpus, IInv, TypeOK, Builders
<1>2. CASE ~Building
  <2>1. builder' = Idle
    BY <1>2 DEF ReplaceCorpus
  <2>2. builder' \in Builders /\ builder'.at = "idle"
    BY <2>1, IdleTyped DEF Idle
  <2>3. QED
    BY <1>1, <2>2, Elsewhere
<1>3. CASE Building
  <2>1. builder' = [builder EXCEPT !.moved = builder.at \notin {"manifest", "hash"}]
    BY <1>3 DEF ReplaceCorpus
  <2>2. /\ builder' \in Builders
        /\ builder'.at = builder.at /\ builder'.n = builder.n /\ builder'.next = builder.next
        /\ builder'.cut = builder.cut /\ builder'.lines = builder.lines
        /\ builder'.sha = builder.sha
        /\ builder'.moved \/ builder.at \in {"manifest", "hash"}
    BY <1>1, <2>1 DEF Builders
  <2>3. TypeOK'
    BY <1>1, <2>2 DEF IInv, TypeOK, Builders
  <2>4. NotYetSplit' /\ SplitSoFar' /\ SplitWhole' /\ Counted'
    BY <1>1, <2>2 DEF IInv, NotYetSplit, SplitSoFar, SplitWhole, Counted, UpTo, Holds
  <2>5. HashTaken'
    BY <2>2 DEF IInv, HashTaken, Taken, Opened
  <2>6. ManifestLast' /\ (builder'.at # "idle" => builder'.n \in Counts)
    BY <1>3, <2>2 DEF ManifestLast, Building, IInv
  <2>7. LeftTrue' /\ ShardsOfOneCut'
    BY <1>1 DEF IInv, LeftTrue, Written, Holds, ShardsOfOneCut
  <2>8. QED
    BY <2>3, <2>4, <2>5, <2>6, <2>7 DEF IInv
<1>4. QED
  BY <1>2, <1>3

(* Whatever splitting has come to, it is one cut with at most its end torn. *)
LEMMA UpToOneCut ==
  ASSUME NEW next \in Nat, NEW n \in Counts, NEW c \in Corpora, UpTo(next, n, files', c)
  PROVE  ShardsOfOneCut'
<1>1. ASSUME NEW i \in Places, files'[i] # None
      PROVE  /\ files'[i].of = c /\ files'[i].n = n /\ files'[i].place = i
             /\ files'[i].whole \/ \A j \in Places : i < j => files'[j] = None
  <2>1. i \in Nat
    BY PlacesNat
  <2>2. CASE i < next
    <3>1. files'[i] = Cut(c, n, i)
      BY <2>2 DEF UpTo
    <3>2. QED
      BY <3>1 DEF Cut
  <2>3. CASE i = next
    <3>1. files'[i] = Half(c, n, i)
      BY <1>1, <2>3 DEF UpTo
    <3>2. \A j \in Places : i < j => files'[j] = None
      BY <2>3 DEF UpTo
    <3>3. QED
      BY <3>1, <3>2 DEF Half
  <2>4. CASE next < i
    BY <1>1, <2>4 DEF UpTo
  <2>5. QED
    BY <2>1, <2>2, <2>3, <2>4
<1>2. QED
  BY <1>1 DEF ShardsOfOneCut

LEMMA UnlinkStep ==
  ASSUME IInv, Unlink
  PROVE  IInv'
<1>1. /\ builder.at = "unlink" /\ UNCHANGED <<src, manifest>>
      /\ src \in Corpora /\ builder \in Builders /\ builder.n \in Counts
      /\ builder.next = 0 /\ builder.sha \in Corpora /\ (~builder.moved => builder.sha = src)
  BY DEF Unlink, IInv, TypeOK, Builders, NotYetSplit, HashTaken, Taken
<1>2. CASE /\ \E i \in Places : files' = [files EXCEPT ![i] = None]
           /\ left' = "unfinished" /\ UNCHANGED builder
  <2>0. PICK k \in Places : files' = [files EXCEPT ![k] = None]
    BY <1>2
  <2>1. files \in [Places -> ShardType \cup {None}]
    BY DEF IInv, TypeOK
  <2>2. \A i \in Places : files'[i] = None \/ files'[i] = files[i]
    BY <2>0, <2>1
  <2>3. ShardsOfOneCut'
    <3>1. PICK c \in Corpora, n \in Counts : \A i \in Places :
            files[i] # None =>
              /\ files[i].of = c /\ files[i].n = n /\ files[i].place = i
              /\ files[i].whole \/ \A j \in Places : i < j => files[j] = None
      BY DEF IInv, ShardsOfOneCut
    <3>2. ASSUME NEW i \in Places, files'[i] # None
          PROVE  /\ files'[i].of = c /\ files'[i].n = n /\ files'[i].place = i
                 /\ files'[i].whole \/ \A j \in Places : i < j => files'[j] = None
      <4>1. files'[i] = files[i] /\ files[i] # None
        BY <2>2, <3>2
      <4>2. QED
        BY <2>2, <3>1, <4>1
    <3>3. QED
      BY <3>2 DEF ShardsOfOneCut
  <2>4. TypeOK'
    BY <1>1, <1>2, <2>0, <2>1 DEF IInv, TypeOK
  <2>5. LeftTrue'
    BY <1>2 DEF LeftTrue
  <2>6. NotYetSplit' /\ SplitSoFar' /\ SplitWhole' /\ Counted' /\ HashTaken' /\ ManifestLast'
    BY <1>1, <1>2
      DEF NotYetSplit, SplitSoFar, SplitWhole, Counted, HashTaken, Taken, Opened, ManifestLast
  <2>7. QED
    BY <1>1, <1>2, <2>3, <2>4, <2>5, <2>6 DEF IInv
<1>3. CASE /\ \A i \in Places : files[i] = None
           /\ builder' = [builder EXCEPT !.at = "split", !.cut = src]
           /\ UNCHANGED <<files, left>>
  <2>1. /\ builder' \in Builders /\ builder'.at = "split" /\ builder'.cut = src
        /\ builder'.next = 0 /\ builder'.n = builder.n
        /\ builder'.sha = builder.sha /\ builder'.moved = builder.moved
    BY <1>1, <1>3 DEF Builders
  <2>2. TypeOK'
    BY <1>1, <1>3, <2>1 DEF IInv, TypeOK, Builders
  <2>3. ASSUME NEW i \in Places
        PROVE  files'[i] = None /\ ~(i < 0)
    BY <1>3, PlacesNat
  <2>4. UpTo(0, builder'.n, files', src')
    BY <2>3 DEF UpTo
  <2>5. SplitSoFar'
    <3>1. builder.n \in Nat
      BY <1>1, ConstantsAssumption
    <3>2. QED
      BY <1>1, <2>1, <2>4, <3>1 DEF SplitSoFar
  <2>6. HashTaken'
    BY <1>1, <2>1 DEF HashTaken, Taken, Opened
  <2>7. NotYetSplit' /\ SplitWhole' /\ Counted' /\ ManifestLast'
    BY <2>1 DEF NotYetSplit, SplitWhole, Counted, ManifestLast
  <2>8. LeftTrue' /\ ShardsOfOneCut'
    BY <1>1, <1>3 DEF IInv, LeftTrue, Written, Holds, ShardsOfOneCut
  <2>9. QED
    BY <1>1, <2>1, <2>2, <2>5, <2>6, <2>7, <2>8 DEF IInv
<1>4. QED
  BY <1>1, <1>2, <1>3 DEF Unlink

LEMMA SplitStep ==
  ASSUME IInv, Split
  PROVE  IInv'
<1> DEFINE i0 == builder.next
           n0 == builder.n
           c0 == builder.cut
<1>1. /\ builder.at = "split" /\ UNCHANGED <<src, manifest>>
      /\ n0 \in Counts /\ i0 \in Nat /\ n0 \in Nat /\ i0 <= n0
      /\ c0 \in Corpora /\ UpTo(i0, n0, files, c0)
      /\ builder \in Builders /\ src \in Corpora
      /\ files \in [Places -> ShardType \cup {None}]
      /\ builder.sha \in Corpora /\ (~builder.moved => builder.sha = src /\ c0 = src)
  BY ConstantsAssumption DEF Split, IInv, TypeOK, Builders, SplitSoFar, HashTaken, Taken, Opened
<1>2. ASSUME i0 < n0, NEW whole \in BOOLEAN
      PROVE  /\ i0 \in Places
             /\ Piece(whole) \in ShardType
  <2>1. i0 \in Places
    BY <1>1, <1>2, PlacesNat
  <2>2. QED
    BY <1>1, <2>1 DEF Piece, ShardType
<1>3. Piece(TRUE) = Cut(c0, n0, i0) /\ Piece(FALSE) = Half(c0, n0, i0)
  BY DEF Piece, Cut, Half
<1>a. ASSUME builder' \in Builders, builder'.at = "split", builder'.n = n0, builder'.cut = c0,
             builder'.sha = builder.sha, builder'.moved = builder.moved,
             files' \in [Places -> ShardType \cup {None}], left' = "unfinished",
             builder'.next <= n0, UpTo(builder'.next, n0, files', c0)
      PROVE  IInv'
  <2>1. TypeOK'
    BY <1>1, <1>a DEF IInv, TypeOK, Builders
  <2>2. SplitSoFar'
    BY <1>1, <1>a DEF SplitSoFar
  <2>3. ShardsOfOneCut'
    <3>1. builder'.next \in Nat
      BY <1>a DEF Builders
    <3>2. QED
      BY <1>1, <1>a, <3>1, UpToOneCut
  <2>4. HashTaken'
    BY <1>1, <1>a DEF HashTaken, Taken, Opened
  <2>5. NotYetSplit' /\ SplitWhole' /\ Counted' /\ ManifestLast' /\ LeftTrue'
    BY <1>a DEF NotYetSplit, SplitWhole, Counted, ManifestLast, LeftTrue
  <2>6. QED
    BY <1>1, <1>a, <2>1, <2>2, <2>3, <2>4, <2>5 DEF IInv
<1>4. CASE /\ i0 < n0 /\ left' = "unfinished"
           /\ files' = [files EXCEPT ![i0] = Piece(FALSE)] /\ UNCHANGED builder
  <2>1. ASSUME NEW i \in Places
        PROVE  files'[i] = IF i = i0 THEN Half(c0, n0, i0) ELSE files[i]
    BY <1>1, <1>3, <1>4
  <2>2. UpTo(i0, n0, files', c0)
    <3>1. SUFFICES ASSUME NEW i \in Places
                   PROVE  /\ i < i0 => files'[i] = Cut(c0, n0, i)
                          /\ i = i0 => i0 < n0 /\ files'[i] = Half(c0, n0, i)
                          /\ i0 < i => files'[i] = None
      BY DEF UpTo
    <3>2. i \in Nat
      BY PlacesNat
    <3>3. CASE i = i0
      <4>1. files'[i] = Half(c0, n0, i)
        BY <2>1, <3>3
      <4>2. i0 \in Nat /\ i0 < n0
        BY <1>1, <1>4
      <4>3. QED
        BY <3>3, <4>1, <4>2
    <3>4. CASE i # i0
      BY <1>1, <2>1, <3>2, <3>4 DEF UpTo
    <3>5. QED
      BY <3>3, <3>4
  <2>3. files' \in [Places -> ShardType \cup {None}]
    BY <1>1, <1>2, <1>4
  <2>4. QED
    BY <1>1, <1>4, <1>a, <2>2, <2>3
<1>5. CASE /\ i0 < n0 /\ left' = "unfinished"
           /\ files' = [files EXCEPT ![i0] = Piece(TRUE)]
           /\ builder' = [builder EXCEPT !.next = @ + 1]
  <2>1. /\ builder' \in Builders
        /\ builder'.at = "split" /\ builder'.n = n0 /\ builder'.next = i0 + 1
        /\ builder'.sha = builder.sha /\ builder'.cut = c0 /\ builder'.moved = builder.moved
    BY <1>1, <1>5 DEF Builders
  <2>2. files' \in [Places -> ShardType \cup {None}]
    BY <1>1, <1>2, <1>5
  <2>3. ASSUME NEW i \in Places
        PROVE  files'[i] = IF i = i0 THEN Cut(c0, n0, i0) ELSE files[i]
    BY <1>1, <1>3, <1>5
  <2>4. UpTo(i0 + 1, n0, files', c0)
    <3>1. SUFFICES ASSUME NEW i \in Places
                   PROVE  /\ i < i0 + 1 => files'[i] = Cut(c0, n0, i)
                          /\ i = i0 + 1 => files'[i] = None
                          /\ i0 + 1 < i => files'[i] = None
      BY DEF UpTo
    <3>2. i \in Nat
      BY PlacesNat
    <3>3. CASE i < i0
      BY <1>1, <2>3, <3>2, <3>3 DEF UpTo
    <3>4. CASE i = i0
      BY <1>1, <2>3, <3>2, <3>4
    <3>5. CASE i0 < i
      BY <1>1, <2>3, <3>2, <3>5 DEF UpTo
    <3>6. QED
      BY <1>1, <3>2, <3>3, <3>4, <3>5
  <2>5. i0 + 1 <= n0
    BY <1>1, <1>5
  <2>6. QED
    BY <1>5, <1>a, <2>1, <2>2, <2>4, <2>5
<1>6. CASE /\ ~(i0 < n0) /\ builder' = [builder EXCEPT !.at = "verify"]
           /\ UNCHANGED <<files, left>>
  <2>1. /\ builder' \in Builders /\ builder'.at = "verify" /\ builder'.n = n0
        /\ builder'.cut = c0 /\ builder'.sha = builder.sha /\ builder'.moved = builder.moved
    BY <1>1, <1>6 DEF Builders
  <2>2. i0 = n0
    BY <1>1, <1>6
  <2>3. UpTo(n0, n0, files, c0)
    BY <1>1, <2>2
  <2>4. ASSUME NEW i \in Places
        PROVE  files[i] = IF i < n0 THEN Cut(c0, n0, i) ELSE None
    <3>1. i \in Nat
      BY PlacesNat
    <3>2. CASE i < n0
      BY <2>3, <3>2 DEF UpTo
    <3>3. CASE i = n0
      BY <1>1, <2>3, <3>3 DEF UpTo
    <3>4. CASE n0 < i
      BY <1>1, <2>3, <3>1, <3>4 DEF UpTo
    <3>5. QED
      BY <1>1, <3>1, <3>2, <3>3, <3>4
  <2>5. SplitWhole'
    BY <1>1, <1>6, <2>1, <2>4 DEF SplitWhole, Holds, Cut
  <2>6. TypeOK'
    BY <1>1, <1>6, <2>1 DEF IInv, TypeOK, Builders
  <2>7. HashTaken'
    BY <1>1, <2>1 DEF HashTaken, Taken, Opened
  <2>8. NotYetSplit' /\ SplitSoFar' /\ Counted' /\ ManifestLast'
    BY <2>1 DEF NotYetSplit, SplitSoFar, Counted, ManifestLast
  <2>9. LeftTrue' /\ ShardsOfOneCut'
    BY <1>1, <1>6 DEF IInv, LeftTrue, Written, Holds, ShardsOfOneCut
  <2>10. QED
    BY <1>1, <2>1, <2>5, <2>6, <2>7, <2>8, <2>9 DEF IInv
<1>7. CASE i0 < n0
  BY <1>4, <1>5, <1>7 DEF Split
<1>8. CASE ~(i0 < n0)
  BY <1>1, <1>6, <1>8 DEF Split
<1>9. QED
  BY <1>7, <1>8

LEMMA VerifyStep ==
  ASSUME IInv, Verify
  PROVE  IInv'
<1>1. /\ builder.at = "verify" /\ UNCHANGED <<src, files, manifest, left>>
      /\ builder \in Builders /\ src \in Corpora /\ builder.n \in Counts
      /\ builder.cut \in Corpora /\ Holds(builder.cut, builder.n)
      /\ builder.sha \in Corpora
      /\ (~builder.moved => builder.sha = src /\ builder.cut = src)
  BY DEF Verify, IInv, TypeOK, Builders, SplitWhole, HashTaken, Taken, Opened
<1>2. CASE builder' = [builder EXCEPT !.at = "raised"]
  <2>1. builder' \in Builders /\ builder'.at = "raised" /\ builder'.n = builder.n
    BY <1>1, <1>2 DEF Builders
  <2>2. QED
    BY <1>1, <2>1, Elsewhere
<1>3. CASE builder' = [builder EXCEPT !.at = "write"] /\ AsManyLines
  <2>1. /\ builder' \in Builders /\ builder'.at = "write" /\ builder'.n = builder.n
        /\ builder'.cut = builder.cut /\ builder'.sha = builder.sha
        /\ builder'.moved = builder.moved /\ builder'.lines = builder.lines
        /\ Lines[builder.cut] = builder.lines
    BY <1>1, <1>3 DEF Builders, AsManyLines
  <2>2. TypeOK' /\ SplitWhole' /\ Counted'
    BY <1>1, <2>1 DEF IInv, TypeOK, Builders, SplitWhole, Holds, Counted
  <2>3. HashTaken'
    BY <1>1, <2>1 DEF HashTaken, Taken, Opened
  <2>4. NotYetSplit' /\ SplitSoFar' /\ ManifestLast'
    BY <2>1 DEF NotYetSplit, SplitSoFar, ManifestLast
  <2>5. LeftTrue' /\ ShardsOfOneCut'
    BY <1>1 DEF IInv, LeftTrue, Written, Holds, ShardsOfOneCut
  <2>6. QED
    BY <1>1, <2>1, <2>2, <2>3, <2>4, <2>5 DEF IInv
<1>4. QED
  BY <1>2, <1>3 DEF Verify

LEMMA OpenManifestStep ==
  ASSUME IInv, OpenManifest
  PROVE  IInv'
<1>1. /\ builder.at = "write" /\ UNCHANGED <<src, files, left>> /\ manifest' = Torn
      /\ builder' = [builder EXCEPT !.at = "dump"]
      /\ builder \in Builders /\ src \in Corpora /\ builder.n \in Counts
  BY DEF OpenManifest, IInv, TypeOK, Builders
<1>2. /\ builder' \in Builders /\ builder'.at = "dump" /\ builder'.n = builder.n
      /\ builder'.cut = builder.cut /\ builder'.sha = builder.sha
      /\ builder'.moved = builder.moved /\ builder'.lines = builder.lines
  BY <1>1 DEF Builders
<1>3. TypeOK' /\ SplitWhole' /\ Counted'
  BY <1>1, <1>2 DEF IInv, TypeOK, Builders, SplitWhole, Holds, Counted
<1>4. HashTaken'
  BY <1>1, <1>2 DEF IInv, HashTaken, Taken, Opened
<1>5. NotYetSplit' /\ SplitSoFar' /\ ManifestLast' /\ LeftTrue'
  BY <1>1, <1>2 DEF NotYetSplit, SplitSoFar, ManifestLast, LeftTrue, Written
<1>6. ShardsOfOneCut'
  BY <1>1 DEF IInv, ShardsOfOneCut
<1>7. QED
  BY <1>1, <1>2, <1>3, <1>4, <1>5, <1>6 DEF IInv

LEMMA DumpManifestStep ==
  ASSUME IInv, DumpManifest
  PROVE  IInv'
<1>1. /\ builder.at = "dump" /\ UNCHANGED <<src, files>>
      /\ builder' = [builder EXCEPT !.at = "built"]
      /\ left' = IF builder.moved THEN "moved" ELSE "whole"
      /\ manifest' = [src |-> builder.sha, n |-> builder.n, lines |-> builder.lines]
      /\ builder \in Builders /\ src \in Corpora /\ builder.n \in Counts
      /\ builder.cut \in Corpora /\ Holds(builder.cut, builder.n)
      /\ Lines[builder.cut] = builder.lines
      /\ builder.sha \in Corpora
      /\ (~builder.moved => builder.sha = src /\ builder.cut = src)
  BY DEF DumpManifest, IInv, TypeOK, Builders, SplitWhole, Counted, HashTaken, Taken, Opened
<1>2. /\ builder' \in Builders /\ builder'.at = "built" /\ builder'.n = builder.n
      /\ builder'.cut = builder.cut /\ builder'.sha = builder.sha
      /\ builder'.moved = builder.moved /\ builder'.lines = builder.lines
  BY <1>1 DEF Builders
<1>4. TypeOK'
  BY <1>1, <1>2 DEF IInv, TypeOK, Builders, ManifestType
<1>5. SplitWhole' /\ Counted' /\ ManifestLast'
  BY <1>1, <1>2 DEF SplitWhole, Holds, Counted, ManifestLast
<1>6. HashTaken'
  BY <1>1, <1>2 DEF HashTaken, Taken, Opened
<1>7. LeftTrue'
  <2>1. /\ manifest'.src = builder.sha /\ manifest'.n = builder.n
        /\ manifest'.lines = builder.lines
    BY <1>1
  <2>2. Holds(builder.cut, builder.n)'
    BY <1>1, <1>2 DEF Holds
  <2>3. left' = "whole" => builder.sha = builder.cut
    BY <1>1
  <2>4. QED
    BY <1>1, <1>2, <2>1, <2>2, <2>3 DEF LeftTrue
<1>8. NotYetSplit' /\ SplitSoFar' /\ ShardsOfOneCut'
  BY <1>1, <1>2 DEF IInv, NotYetSplit, SplitSoFar, ShardsOfOneCut
<1>9. QED
  BY <1>1, <1>2, <1>4, <1>5, <1>6, <1>7, <1>8 DEF IInv
-----------------------------------------------------------------------------
LEMMA Inductive == Spec => []IInv
<1>1. IInv /\ [Next]_vars => IInv'
  <2> SUFFICES ASSUME IInv, [Next]_vars PROVE IInv'
    OBVIOUS
  <2>1. CASE \E n \in Counts, force \in BOOLEAN : StartBuild(n, force)
    BY <2>1, StartBuildStep
  <2>2. CASE UNCHANGED vars
    BY <2>2 DEF vars, IInv, TypeOK, NotYetSplit, SplitSoFar, SplitWhole, Counted, HashTaken,
                Taken, Opened, ManifestLast, LeftTrue, Written, Holds, UpTo, ShardsOfOneCut
  <2>3. QED
    BY <2>1, <2>2, ReadManifestStep, HashStep, CountStep, UnlinkStep, SplitStep, VerifyStep,
       OpenManifestStep, DumpManifestStep, CrashStep, FailStep, ReplaceCorpusStep DEF Next
<1>2. QED
  BY <1>1, InitIInv, PTL DEF Spec

(* A build that runs to its end over one corpus leaves exactly its shards   *)
(* and a manifest that names them, whatever was killed or failed before it. *)
THEOREM BuildsAreTrue == Spec => []BuiltIsTrue
<1>1. IInv => BuiltIsTrue
  <2> SUFFICES ASSUME IInv, builder.at = "built", ~builder.moved
               PROVE  manifest.src = src /\ Holds(src, manifest.n)
    BY DEF BuiltIsTrue
  <2>1. manifest = [src |-> builder.sha, n |-> builder.n, lines |-> builder.lines]
    BY DEF IInv, ManifestLast
  <2>2. builder.sha = src /\ builder.cut = src /\ Holds(builder.cut, builder.n)
    BY DEF IInv, HashTaken, Taken, Opened, SplitWhole
  <2>3. QED
    BY <2>1, <2>2
<1>2. QED
  BY <1>1, Inductive, PTL

(* In every state, whatever builds were killed, failed or had their corpus  *)
(* replaced, the shard files are pieces of one cut (build_shards).          *)
THEOREM NeverTwoCuts == Spec => []ShardsOfOneCut
<1>1. IInv => ShardsOfOneCut
  BY DEF IInv
<1>2. QED
  BY <1>1, Inductive, PTL

(* As long as no build that touched the shards was left unfinished, an      *)
(* engine that starts serves one corpus, whole, of as many lines as the     *)
(* manifest says (ShardedSearchEngine.__init__, build_shards' line count).  *)
THEOREM EnginesServeWhole == Spec => []EngineServesWhole
<1>1. IInv => EngineServesWhole
  BY DEF IInv, LeftTrue, EngineServesWhole, EngineStarts
<1>2. QED
  BY <1>1, Inductive, PTL

(* The directory, its manifest and the build are well typed in every state, *)
(* whatever befell the builds (sharder.py).                                 *)
THEOREM TypeCorrect == Spec => []TypeOK
<1>1. IInv => TypeOK
  BY DEF IInv
<1>2. QED
  BY <1>1, Inductive, PTL
-----------------------------------------------------------------------------
(* A build that ends early has compared the manifest with what it was asked *)
(* for, and nothing but another build or another corpus changes either.     *)
ReusedMatches ==
  builder.at = "reused" =>
    Written(manifest) /\ manifest.src = src /\ manifest.n = builder.n

LEMMA ReusedMatchesStep ==
  ASSUME IInv, ReusedMatches, [Next]_vars
  PROVE  ReusedMatches'
<1>1. builder \in Builders
  BY DEF IInv, TypeOK, Builders
<1>2. CASE ReadManifest
  <2>1. UNCHANGED <<src, manifest>> /\ builder'.n = builder.n
    BY <1>1, <1>2 DEF ReadManifest, Builders
  <2>2. builder'.at = "reused" => manifest # None /\ manifest # Torn /\ Matches(builder)
    BY <1>1, <1>2 DEF ReadManifest, Builders
  <2> QED
    BY <2>1, <2>2 DEF ReusedMatches, Matches, Written
<1>3. CASE \E n \in Counts, force \in BOOLEAN : StartBuild(n, force)
  BY <1>3 DEF StartBuild, Idle, ReusedMatches
<1>4. CASE Hash \/ Count \/ Verify \/ OpenManifest \/ DumpManifest \/ Fail
  BY <1>1, <1>4
    DEF Builders, Hash, Count, Verify, OpenManifest, DumpManifest, Fail, ReusedMatches
<1>5. CASE Unlink
  <2>1. /\ builder.at = "unlink"
        /\ builder' = builder \/ builder' = [builder EXCEPT !.at = "split", !.cut = src]
    BY <1>5 DEF Unlink
  <2> QED
    BY <1>1, <2>1 DEF Builders, ReusedMatches
<1>6. CASE Split
  <2>1. /\ builder.at = "split"
        /\ \/ builder' = builder
           \/ builder' = [builder EXCEPT !.next = @ + 1]
           \/ builder' = [builder EXCEPT !.at = "verify"]
    BY <1>6 DEF Split
  <2> QED
    BY <1>1, <2>1 DEF Builders, ReusedMatches
<1>7. CASE Crash \/ ReplaceCorpus
  <2>1. \/ builder' = Idle
        \/ /\ Building
           /\ builder' = [builder EXCEPT !.moved = builder.at \notin {"manifest", "hash"}]
    BY <1>7 DEF Crash, ReplaceCorpus
  <2> QED
    BY <1>1, <2>1 DEF Builders, Building, Idle, ReusedMatches
<1>8. CASE UNCHANGED vars
  BY <1>8 DEF vars, ReusedMatches, Written
<1> QED
  BY <1>2, <1>3, <1>4, <1>5, <1>6, <1>7, <1>8 DEF Next

(* The shards a build reuses are those of this corpus and this n, each of   *)
(* them whole, as long as every build that touched them has run to its end  *)
(* over one corpus (build_shards' early return).                            *)
THEOREM ReuseIsSound == Spec => []ReusedIsTrueOfWhole
<1>1. Init => ReusedMatches
  BY DEF Init, Idle, ReusedMatches
<1>2. IInv /\ ReusedMatches /\ [Next]_vars => ReusedMatches'
  BY ReusedMatchesStep
<1>3. IInv /\ ReusedMatches => ReusedIsTrueOfWhole
  BY DEF IInv, LeftTrue, ReusedMatches, ReusedIsTrueOfWhole, ReusedIsTrue
<1> QED
  BY <1>1, <1>2, <1>3, Inductive, PTL DEF Spec
=============================================================================
