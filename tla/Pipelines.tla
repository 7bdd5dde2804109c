----------------------------- MODULE Pipelines ------------------------------
(***************************************************************************)
(* Shell pipelines over a line-oriented corpus, as far as the sharded      *)
(* search engine tells them apart: what a stage does to its input, and how *)
(* inference/parallel_search/pipeline.py classifies a pipeline.            *)
(*                                                                         *)
(* A line is a natural number, in the order sort gives lines.  A stage has *)
(* a program, flags, a count n, and what it makes of each line: none or    *)
(* one (a filter such as rg, or a rewriting such as cut, tr or sed).       *)
(***************************************************************************)
EXTENDS Naturals, FiniteSets, SequencesExt

(* Flags stand for: "count" -c, "max" -m N, "address" a sed address such   *)
(* as 1d, "reverse" -r, "unique" -u, "lines" -l.                           *)

IsStage(stage) ==
  /\ stage \in [prog : {stage.prog}, flags : SUBSET STRING, n : Nat, each : {stage.each}]
  /\ \A line \in DOMAIN stage.each : stage.each[line] \in Seq(Nat)

Take(s, n) == SubSeq(s, 1, IF n < Len(s) THEN n ELSE Len(s))

(* A line printed by an earlier stage that is no line of the corpus, such  *)
(* as a count, passes unchanged.                                           *)
EachLine(each, s) ==
  FlattenSeq([i \in 1..Len(s) |-> IF s[i] \in DOMAIN each THEN each[s[i]] ELSE <<s[i]>>])

(* The k-th line of a sorted file is the least with k lines not above it.  *)
AtMost(s, line) == Cardinality({i \in 1..Len(s) : s[i] <= line})

Sorted(s) ==
  [k \in 1..Len(s) |-> CHOOSE line \in ToSet(s) :
     /\ AtMost(s, line) >= k
     /\ \A other \in ToSet(s) : AtMost(s, other) >= k => line <= other]

Uniq(s) ==
  FlattenSeq([i \in 1..Len(s) |-> IF i = 1 \/ s[i - 1] # s[i] THEN <<s[i]>> ELSE <<>>])

RunGrep(stage, s) ==
  LET hits == EachLine(stage.each, s)
      kept == IF "max" \in stage.flags THEN Take(hits, stage.n) ELSE hits
  IN  IF "count" \in stage.flags /\ kept # <<>> THEN <<Len(kept)>> ELSE kept

RunSed(stage, s) ==
  EachLine(stage.each, IF "address" \in stage.flags /\ s # <<>> THEN Tail(s) ELSE s)

RunSort(stage, s) ==
  LET ordered == IF "reverse" \in stage.flags THEN Reverse(Sorted(s)) ELSE Sorted(s)
  IN  IF "unique" \in stage.flags THEN Uniq(ordered) ELSE ordered

(* What a stage prints.                                                    *)
RunStage(stage, s) ==
  CASE stage.prog \in {"rg", "grep"} -> RunGrep(stage, s)
    [] stage.prog = "sed"            -> RunSed(stage, s)
    [] stage.prog = "sort"           -> RunSort(stage, s)
    [] stage.prog = "uniq"           -> Uniq(s)
    [] stage.prog = "head"           -> Take(s, stage.n)
    [] stage.prog = "wc"             -> <<Len(s)>>
    [] OTHER                         -> EachLine(stage.each, s)

(* What a pipeline prints: each stage reads what the one before printed.   *)
Output(stages, s) ==
  LET after[i \in 0..Len(stages)] ==
        IF i = 0 THEN s ELSE RunStage(stages[i], after[i - 1])
  IN  after[Len(stages)]

(* bash without pipefail: the exit code is that of the last stage.         *)
RunPipeline(stages, s) ==
  LET out == Output(stages, s)
  IN  [out |-> out,
       rc  |-> IF Last(stages).prog \in {"rg", "grep"} /\ out = <<>> THEN 1 ELSE 0]

(* The file the first stage names does not exist: it prints nothing.       *)
RunWithoutFile(stages) ==
  IF Len(stages) = 1 THEN [out |-> <<>>, rc |-> 2] ELSE RunPipeline(Tail(stages), <<>>)
-----------------------------------------------------------------------------
(* classify().                                                             *)

UnsafeFlags == {"count"}

(* Mutant: flags are not looked at.                                        *)
AnyStateless(stage) == stage.prog \in {"rg", "grep", "cut", "tr", "sed"}

Stateless(stage) ==
  /\ stage.prog \in {"rg", "grep", "cut", "tr", "sed"}
  /\ stage.prog \in {"rg", "grep"} => stage.flags \cap UnsafeFlags = {}

AllStateless(stages) == \A i \in 1..Len(stages) : Stateless(stages[i])

SortPlain(stage) == stage.prog = "sort" /\ stage.flags \subseteq {"reverse"}

UniqPlain(stage) == stage.prog = "uniq" /\ stage.flags = {}

(* The stages before a trailing sort, or sort | uniq; the whole of stages  *)
(* when there is none.                                                     *)
EndsInSort(stages) == stages # <<>> /\ SortPlain(Last(stages))

EndsInSortUniq(stages) ==
  Len(stages) >= 2 /\ UniqPlain(Last(stages)) /\ SortPlain(stages[Len(stages) - 1])

Strategy(stages) ==
  LET last == Last(stages)
      body == Front(stages)
      If(ok, strategy) == IF ok THEN strategy ELSE "fallback"
      headed ==
        IF last.n = 0 THEN "fallback"
        ELSE IF EndsInSort(body) THEN If(AllStateless(Front(body)), "sort_head")
        ELSE IF EndsInSortUniq(body) THEN If(AllStateless(Front(Front(body))), "sort_head")
        ELSE If(AllStateless(body), "head")
  IN  IF stages[1].prog \notin {"rg", "grep"} THEN "fallback"
      ELSE IF last.prog = "head" THEN headed
      ELSE IF last.prog = "wc" /\ last.flags = {"lines"} THEN If(AllStateless(body), "count")
      ELSE If(AllStateless(stages), "concat")
=============================================================================
