--------------------------- MODULE ShardedSearch ----------------------------
(***************************************************************************)
(* One tool call served by the sharded engine: run_tool (inference/        *)
(* tools.py) hands the command to ShardedSearchEngine.execute, which runs  *)
(* the pipeline on every shard in parallel and merges what they print      *)
(* (inference/parallel_search/engine.py, runners.py), or falls back to the *)
(* whole corpus file.                                                      *)
(*                                                                         *)
(* A file name is the number of "wiki_" prefixes before "corpus.jsonl":    *)
(* replacing "corpus.jsonl" by "wiki_corpus.jsonl" adds one.               *)
(***************************************************************************)
EXTENDS Integers, Pipelines, Bags

CONSTANTS
  Corpora,   \* contents the corpus may have: sequences of lines
  Commands,  \* pipelines the agent may send: sequences of stages
  Shards,    \* number of shards
  Slow       \* TRUE iff a subprocess may run into its timeout

ASSUME ConstantsAssumption ==
  /\ Corpora \subseteq Seq(Nat)
  /\ Shards \in Nat \ {0}
  /\ Slow \in BOOLEAN
  /\ \A stages \in Commands :
       /\ stages \in Seq(ToSet(stages)) /\ stages # <<>>
       /\ \A i \in 1..Len(stages) : IsStage(stages[i])

VARIABLES
  pc,      \* "tool", then "shards" or "fallback", then "answered"
  stages,  \* the command
  file,    \* the file it names
  corpus,  \* the lines of wiki_corpus.jsonl
  cuts,    \* last line of each shard: split cuts the file between lines
  parts,   \* what each shard's subprocess gave, Running while it runs
  answer   \* what run_tool returns

vars == <<pc, stages, file, corpus, cuts, parts, answer>>

Running == [out |-> <<>>, rc |-> 999]
TimedOut == [out |-> <<>>, rc |-> -1]

Cuts(len) ==
  {c \in [0..Shards -> 0..len] :
     c[0] = 0 /\ c[Shards] = len /\ \A i \in 1..Shards : c[i - 1] <= c[i]}

(* Mutant: a shard begins with the last line of the one before.            *)
OverlappingShard(i) ==
  SubSeq(corpus, IF cuts[i - 1] = 0 THEN 1 ELSE cuts[i - 1], cuts[i])

Shard(i) == SubSeq(corpus, cuts[i - 1] + 1, cuts[i])

Logical == 0   \* corpus.jsonl
Actual == 1    \* wiki_corpus.jsonl, the file that exists

(* Mutant: the name is replaced twice.                                     *)
RewrittenTwice(name) == name + 2

Rewritten(name) == name + 1

strategy == Strategy(stages)
limit == Last(stages).n
hasUniq == EndsInSortUniq(Front(stages))

(* What run_tool makes of (stdout, rc): rc = -1 is a timeout.              *)
Answer(out, rc) ==
  answer' = [out |-> IF rc = -1 THEN <<>> ELSE out, rc |-> rc, timedOut |-> rc = -1]
-----------------------------------------------------------------------------
(* run_tool rewrites the file name, then execute() classifies.             *)
Dispatch ==
  /\ pc = "tool"
  /\ file' = Rewritten(file)
  /\ pc' = IF strategy = "fallback" THEN "fallback" ELSE "shards"
  /\ UNCHANGED <<stages, corpus, cuts, parts, answer>>

(* The pipeline a shard runs: the command, or <body> | sort | head -n N.   *)
ShardPipeline ==
  IF strategy = "sort_head"
    THEN LET body == Front(stages)
             pre  == IF hasUniq THEN Front(Front(body)) ELSE Front(body)
             sort == [Last(body) EXCEPT !.prog = "sort", !.flags = {}]
         IN  pre \o <<sort, Last(stages)>>
    ELSE stages

ShardEnds(i) ==
  /\ pc = "shards" /\ parts[i] = Running
  /\ parts' = [parts EXCEPT ![i] = RunPipeline(ShardPipeline, Shard(i))]
  /\ UNCHANGED <<pc, stages, file, corpus, cuts, answer>>

ShardTimesOut(i) ==
  /\ Slow
  /\ pc = "shards" /\ parts[i] = Running
  /\ parts' = [parts EXCEPT ![i] = TimedOut]
  /\ UNCHANGED <<pc, stages, file, corpus, cuts, answer>>

Finished == \A i \in 1..Shards : parts[i] # Running

Printed == FlattenSeq([i \in 1..Shards |-> parts[i].out])

(* 0 when any shard succeeded, else the first shard's code.                *)
OverallRc ==
  IF \E i \in 1..Shards : parts[i].rc = 0 THEN 0 ELSE parts[1].rc

RunConcat ==
  /\ pc = "shards" /\ Finished /\ strategy = "concat"
  /\ Answer(Printed, OverallRc)
  /\ pc' = "answered"
  /\ UNCHANGED <<stages, file, corpus, cuts, parts>>

RunHead ==
  /\ pc = "shards" /\ Finished /\ strategy = "head"
  /\ Answer(Take(Printed, limit), OverallRc)
  /\ pc' = "answered"
  /\ UNCHANGED <<stages, file, corpus, cuts, parts>>

(* The counts the shards printed, added up.                                *)
Total(counts) ==
  LET upTo[i \in 0..Len(counts)] == IF i = 0 THEN 0 ELSE upTo[i - 1] + counts[i]
  IN  upTo[Len(counts)]

(* A shard that failed and printed nothing counts as 0.                    *)
RunCount ==
  /\ pc = "shards" /\ Finished /\ strategy = "count"
  /\ Answer(<<Total(Printed)>>, 0)
  /\ pc' = "answered"
  /\ UNCHANGED <<stages, file, corpus, cuts, parts>>

(* sort -m [| uniq] | head -n N over what the shards printed.              *)
RunSortHead ==
  /\ pc = "shards" /\ Finished /\ strategy = "sort_head"
  /\ LET merged == Sorted(Printed)
     IN  Answer(Take(IF hasUniq THEN Uniq(merged) ELSE merged, limit), 0)
  /\ pc' = "answered"
  /\ UNCHANGED <<stages, file, corpus, cuts, parts>>

MergeTimesOut ==
  /\ Slow
  /\ pc = "shards" /\ Finished /\ strategy = "sort_head"
  /\ Answer(<<>>, -1)
  /\ pc' = "answered"
  /\ UNCHANGED <<stages, file, corpus, cuts, parts>>

(* _run_fallback rewrites the name once more before it runs the command.   *)
RunFallback ==
  /\ pc = "fallback"
  /\ file' = Rewritten(file)
  /\ LET run == IF file' = Actual THEN RunPipeline(stages, corpus)
                                  ELSE RunWithoutFile(stages)
     IN  Answer(run.out, run.rc)
  /\ pc' = "answered"
  /\ UNCHANGED <<stages, corpus, cuts, parts>>

FallbackTimesOut ==
  /\ Slow
  /\ pc = "fallback"
  /\ file' = Rewritten(file)
  /\ Answer(<<>>, -1)
  /\ pc' = "answered"
  /\ UNCHANGED <<stages, corpus, cuts, parts>>

Done == pc = "answered" /\ UNCHANGED vars
-----------------------------------------------------------------------------
NoAnswer == [out |-> <<>>, rc |-> 0, timedOut |-> FALSE]

Init ==
  /\ pc = "tool"
  /\ stages \in Commands
  /\ file = Logical
  /\ corpus \in Corpora
  /\ cuts \in Cuts(Len(corpus))
  /\ parts = [i \in 1..Shards |-> Running]
  /\ answer = NoAnswer

Next ==
  \/ Dispatch
  \/ \E i \in 1..Shards : ShardEnds(i) \/ ShardTimesOut(i)
  \/ RunConcat \/ RunHead \/ RunCount \/ RunSortHead \/ MergeTimesOut
  \/ RunFallback \/ FallbackTimesOut
  \/ Done

Spec == Init /\ [][Next]_vars
-----------------------------------------------------------------------------
(* Properties.                                                             *)

(* The type invariant of a tool call.                                      *)
TypeOK ==
  /\ pc \in {"tool", "shards", "fallback", "answered"}
  /\ stages \in Commands /\ corpus \in Corpora
  /\ file \in Logical..2
  /\ cuts \in Cuts(Len(corpus))
  /\ parts \in [1..Shards -> [out : Seq(Nat), rc : {-1, 0, 1, 999}]]
  /\ answer \in [out : Seq(Nat), rc : -1..2, timedOut : BOOLEAN]

(* The same call without the engine, on the whole file.                    *)
SingleFile == RunPipeline(stages, corpus)

SomeTimedOut == answer.timedOut \/ \E i \in 1..Shards : parts[i] = TimedOut

(* No stage looks at the position of a line in its input.                  *)
PositionFree ==
  \A i \in 1..Len(stages) : stages[i].flags \cap {"max", "address"} = {}

(* The engine "guarantees byte-equivalent output vs the single-file path". *)
ByteIdentical ==
  pc = "answered" /\ ~SomeTimedOut =>
    answer.out = SingleFile.out /\ answer.rc = SingleFile.rc

(* It does so wherever the line-by-line argument applies: the shards       *)
(* served the call, no stage depends on positions, and a merge sorts       *)
(* ascending and removes no duplicates.  Output and exit code agree        *)
(* however the lines fall into shards, empty ones included.                *)
ExactWhereSafe ==
  /\ strategy # "fallback"
  /\ PositionFree
  /\ strategy = "sort_head" => ~hasUniq /\ Last(Front(stages)).flags = {}
  => ByteIdentical

(* Even when shards time out and their lines are missing, the engine       *)
(* invents nothing: it prints no line more often than the stages before    *)
(* the tail do on the whole corpus, and counts no more than there is.      *)
NeverInvents ==
  pc = "answered" /\ PositionFree =>
    CASE strategy = "count" -> answer.timedOut \/ answer.out[1] <= SingleFile.out[1]
      [] strategy = "concat" ->
           ToBag(answer.out) \sqsubseteq ToBag(SingleFile.out)
      [] strategy \in {"head", "sort_head"} ->
           ToBag(answer.out) \sqsubseteq ToBag(RunPipeline(Front(stages), corpus).out)
      [] OTHER -> TRUE
=============================================================================
