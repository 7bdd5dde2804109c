------------------------------ MODULE Sharder -------------------------------
(***************************************************************************)
(* The shard builder (inference/parallel_search/sharder.py): build_shards  *)
(* run again and again over one directory.  A build may be killed between  *)
(* any two of its steps, or one of them may fail, as split does on a full  *)
(* disk; the corpus may be replaced, by a file renamed over it, between    *)
(* builds or under one.  Engines start from whatever the directory holds   *)
(* (engine.py, ShardedSearchEngine.__init__).                              *)
(*                                                                         *)
(* A shard file is known by the corpus it was cut from, the number of      *)
(* shards it was cut into and its place; its name is its place alone.      *)
(***************************************************************************)
EXTENDS Naturals

CONSTANTS
  Corpora,  \* contents the source file may have
  Lines,    \* of each, the number of its lines
  Counts,   \* numbers of shards builds are asked for
  Faults,   \* what may befall a build: "kill", "fail", "replace" (the corpus)
  None,     \* no file
  Torn      \* a manifest that is not JSON: truncated, not yet written

Places == UNION {0..(n - 1) : n \in Counts}

ShardType == [of : Corpora, n : Counts, place : Places, whole : BOOLEAN]

ManifestType == [src : Corpora, n : Counts, lines : Nat]

ASSUME ConstantsAssumption ==
  /\ Counts \subseteq Nat \ {0} /\ Counts # {}
  /\ Lines \in [Corpora -> Nat]
  /\ Faults \subseteq {"kill", "fail", "replace"}
  /\ None # Torn
  /\ None \notin ShardType

VARIABLES
  src,      \* contents of the source corpus
  files,    \* the shard files by place, None when there is no file
  manifest, \* manifest.json: None, Torn, or what it says
  builder,  \* the build that runs: where it is, its n and force, the hash and lines
            \* it took, the corpus split cuts, split's next place, and whether the
            \* corpus was replaced since the hash
  left      \* history: what the last build to touch a shard file left behind:
            \* "whole", "moved" if the corpus was replaced under it, "unfinished"

vars == <<src, files, manifest, builder, left>>

Idle == [at |-> "idle", n |-> 1, force |-> FALSE, sha |-> None, lines |-> 0,
         cut |-> None, next |-> 0, moved |-> FALSE]

Written(m) == m \notin {None, Torn}

Present(n) == \A i \in 0..(n - 1) : files[i] # None
-----------------------------------------------------------------------------
StartBuild(n, force) ==
  /\ builder.at \in {"idle", "built", "reused", "raised"}
  /\ builder' = [Idle EXCEPT !.at = "manifest", !.n = n, !.force = force]
  /\ UNCHANGED <<src, files, manifest, left>>

(* Mutant: the number of shards is not compared.                           *)
MatchesSource(b) == manifest.src = src /\ Present(manifest.n)

(* The manifest's hash and n are those asked for, and its files are there. *)
Matches(b) == manifest.src = src /\ manifest.n = b.n /\ Present(manifest.n)

ReadManifest ==
  /\ builder.at = "manifest"
  /\ builder' =
       [builder EXCEPT !.at = IF manifest = None \/ builder.force THEN "hash"
                              ELSE IF manifest = Torn THEN "raised"
                              ELSE IF Matches(builder) THEN "reused" ELSE "hash"]
  /\ UNCHANGED <<src, files, manifest, left>>

(* Mutant: the hash is left to the check of the old manifest.              *)
HashNothing ==
  /\ builder.at = "hash"
  /\ builder' = [builder EXCEPT !.at = "count"]
  /\ UNCHANGED <<src, files, manifest, left>>

(* Mutant: the hash is that of the old manifest, if there is one.          *)
HashKept ==
  /\ builder.at = "hash"
  /\ builder' = [builder EXCEPT !.at = "count",
                                !.sha = IF Written(manifest) THEN manifest.src ELSE src]
  /\ UNCHANGED <<src, files, manifest, left>>

Hash ==
  /\ builder.at = "hash"
  /\ builder' = [builder EXCEPT !.at = "count", !.sha = src]
  /\ UNCHANGED <<src, files, manifest, left>>

Count ==
  /\ builder.at = "count"
  /\ builder' = [builder EXCEPT !.at = "unlink", !.lines = Lines[src]]
  /\ UNCHANGED <<src, files, manifest, left>>

(* Mutant: stale shards stay, to be written over.                          *)
UnlinkNothing ==
  /\ builder.at = "unlink"
  /\ builder' = [builder EXCEPT !.at = "split", !.cut = src]
  /\ UNCHANGED <<src, files, manifest, left>>

(* Stale shards are removed one by one; the old manifest stays.  Then      *)
(* split opens the corpus.                                                 *)
Unlink ==
  /\ builder.at = "unlink"
  /\ \/ /\ \E i \in Places : files[i] # None /\ files' = [files EXCEPT ![i] = None]
        /\ left' = "unfinished"
        /\ UNCHANGED builder
     \/ /\ \A i \in Places : files[i] = None
        /\ builder' = [builder EXCEPT !.at = "split", !.cut = src]
        /\ UNCHANGED <<files, left>>
  /\ UNCHANGED <<src, manifest>>

Piece(whole) ==
  [of |-> builder.cut, n |-> builder.n, place |-> builder.next, whole |-> whole]

(* split writes one file after the other.                                  *)
Split ==
  /\ builder.at = "split"
  /\ IF builder.next < builder.n
       THEN /\ left' = "unfinished"
            /\ IF files[builder.next] # Piece(FALSE)
                 THEN files' = [files EXCEPT ![builder.next] = Piece(FALSE)] /\ UNCHANGED builder
                 ELSE /\ files' = [files EXCEPT ![builder.next] = Piece(TRUE)]
                      /\ builder' = [builder EXCEPT !.next = @ + 1]
       ELSE builder' = [builder EXCEPT !.at = "verify"] /\ UNCHANGED <<files, left>>
  /\ UNCHANGED <<src, manifest>>

AsManyFiles == \A i \in Places : files[i] # None <=> i < builder.n

(* Mutant: the lines are not compared.                                     *)
VerifyFiles ==
  /\ builder.at = "verify"
  /\ builder' = [builder EXCEPT !.at = IF AsManyFiles THEN "write" ELSE "raised"]
  /\ UNCHANGED <<src, files, manifest, left>>

(* As many files as shards, and as many lines in them as were counted; a   *)
(* piece that is not whole lacks some.                                     *)
AsManyLines ==
  Lines[builder.cut] = builder.lines /\ \A i \in 0..(builder.n - 1) : files[i].whole

Verify ==
  /\ builder.at = "verify"
  /\ builder' =
       [builder EXCEPT !.at = IF AsManyFiles /\ AsManyLines THEN "write" ELSE "raised"]
  /\ UNCHANGED <<src, files, manifest, left>>

OpenManifest ==
  /\ builder.at = "write"
  /\ manifest' = Torn
  /\ builder' = [builder EXCEPT !.at = "dump"]
  /\ UNCHANGED <<src, files, left>>

DumpManifest ==
  /\ builder.at = "dump"
  /\ manifest' = [src |-> builder.sha, n |-> builder.n, lines |-> builder.lines]
  /\ builder' = [builder EXCEPT !.at = "built"]
  /\ left' = IF builder.moved THEN "moved" ELSE "whole"
  /\ UNCHANGED <<src, files>>

Building == builder.at \notin {"idle", "built", "reused", "raised"}

Crash ==
  /\ "kill" \in Faults /\ Building
  /\ builder' = Idle
  /\ UNCHANGED <<src, files, manifest, left>>

(* A step fails, split for one (check_call), and the build raises: nothing *)
(* is undone.                                                              *)
Fail ==
  /\ "fail" \in Faults /\ Building
  /\ builder' = [builder EXCEPT !.at = "raised"]
  /\ UNCHANGED <<src, files, manifest, left>>

(* split goes on with the file it has opened; what is read later is new.   *)
ReplaceCorpus ==
  /\ Building => "replace" \in Faults
  /\ \E c \in Corpora \ {src} : src' = c
  /\ builder' = IF Building
                  THEN [builder EXCEPT !.moved = builder.at \notin {"manifest", "hash"}]
                  ELSE Idle
  /\ UNCHANGED <<files, manifest, left>>

(* An engine that starts reads the manifest and looks for its files; else  *)
(* it raises.                                                              *)
EngineStarts == Written(manifest) /\ Present(manifest.n)
-----------------------------------------------------------------------------
Init ==
  /\ src \in Corpora
  /\ files = [i \in Places |-> None]
  /\ manifest = None
  /\ builder = Idle
  /\ left = "whole"

Next ==
  \/ \E n \in Counts, force \in BOOLEAN : StartBuild(n, force)
  \/ ReadManifest \/ Hash \/ Count \/ Unlink \/ Split \/ Verify
  \/ OpenManifest \/ DumpManifest
  \/ Crash \/ Fail \/ ReplaceCorpus

Spec == Init /\ [][Next]_vars
-----------------------------------------------------------------------------
(* Properties.                                                             *)

(* The type invariant of the directory and the build.                      *)
TypeOK ==
  /\ src \in Corpora
  /\ files \in [Places -> ShardType \cup {None}]
  /\ manifest \in ManifestType \cup {None, Torn}
  /\ builder \in [at : {"idle", "manifest", "hash", "count", "unlink", "split", "verify",
                        "write", "dump", "built", "reused", "raised"},
                  n : Nat, force : BOOLEAN, sha : Corpora \cup {None}, lines : Nat,
                  cut : Corpora \cup {None}, next : Nat, moved : BOOLEAN]
  /\ left \in {"whole", "moved", "unfinished"}

(* The directory holds corpus c, whole, in n shards and nothing else.      *)
Holds(c, n) ==
  \A i \in Places :
    files[i] = IF i < n THEN [of |-> c, n |-> n, place |-> i, whole |-> TRUE] ELSE None

(* "cat shards_16/shard_* | diff - wiki_corpus.jsonl  # should be empty":  *)
(* a build that has run to its end, whatever was killed or failed before   *)
(* it, leaves the corpus in exactly the shards its manifest names, unless  *)
(* the corpus was replaced under the build.                                *)
BuiltIsTrue ==
  builder.at = "built" /\ ~builder.moved =>
    manifest.src = src /\ Holds(src, manifest.n)

(* The shard files are, at any time, pieces of one cut of one corpus, each *)
(* in its place and all but the last of them whole: builds that are        *)
(* killed, fail and are run again with another n or corpus never leave two *)
(* cuts side by side, so an engine, whenever it starts, serves no line     *)
(* twice and nothing of two corpora.                                       *)
ShardsOfOneCut ==
  \E c \in Corpora, n \in Counts : \A i \in Places :
    files[i] # None =>
      /\ files[i].of = c /\ files[i].n = n /\ files[i].place = i
      /\ files[i].whole \/ \A j \in Places : i < j => files[j] = None

(* Unless a build that touched the shards has not run to its end, an       *)
(* engine that starts, during a build or not, serves one corpus, whole, of *)
(* as many lines as the manifest says, even when the corpus was replaced   *)
(* between the steps of the build: the count of the shards' lines is what  *)
(* stands between a cut of another corpus and the manifest.                *)
EngineServesWhole ==
  EngineStarts /\ left # "unfinished" =>
    \E c \in Corpora : Lines[c] = manifest.lines /\ Holds(c, manifest.n)

(* "manifest at ... matches (src_sha + n_shards); reusing existing shards",*)
(* for which re-running the command is said to be a no-op: the shards that *)
(* are reused are those of this corpus and this n.                         *)
ReusedIsTrue ==
  builder.at = "reused" => manifest.n = builder.n /\ Holds(src, builder.n)

(* The same as long as every build that touched the shards has run to its  *)
(* end over one corpus.                                                    *)
ReusedIsTrueOfWhole == left = "whole" => ReusedIsTrue
=============================================================================
