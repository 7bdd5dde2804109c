----------------------------- MODULE Trajectory -----------------------------
(***************************************************************************)
(* generate_trajectory of src/sft/data_generation/utils/pipeline.py: how   *)
(* the trajectory of one example comes about, for each of Examples.  A     *)
(* question is decomposed into sub-questions; from the last to the first,  *)
(* a command is looked for whose output confirms the expected answer, and  *)
(* the answer expected of the sub-question before is read in that output;  *)
(* then the steps are put together forwards, answered and judged.          *)
(*                                                                         *)
(* The i-th sub-question's answer goes by the names <<i, "main">> and      *)
(* <<i, "alias">>.  An output is whether there is one (not empty, refused  *)
(* or timed out) and the names in it; the exit code of the command is not  *)
(* looked at, so a command that failed and printed something has one.      *)
(* What the models say is open; a tutor or planner asked again until its   *)
(* answer parses is one exchange.                                          *)
(***************************************************************************)
EXTENDS Naturals, SequencesExt

CONSTANTS
  Examples,
  Generic,         \* their names that are too short, or a word such as "yes" or "two"
  MaxToolCalls,    \* --max_tool_calls: longest chain of sub-questions
  MaxIterations,   \* --backward_max_iterations
  QualityFilter    \* not --no_quality_filter

ASSUME TrajectoryAssumption ==
  /\ DOMAIN Generic = Examples
  /\ MaxToolCalls \in Nat \ {0} /\ MaxIterations \in Nat \ {0}
  /\ QualityFilter \in BOOLEAN

VARIABLES
  phase,    \* "out": nobody works on it; "queued"; what its thread waits for;
            \* "ended": the record is there
  work,     \* the locals of generate_trajectory, run_backward and discover
  result    \* the record returned, as far as the export looks at it

trajectoryVars == <<phase, work, result>>

Working == {"decompose", "command", "judge", "bridge", "edit", "answer", "quality"}

Main(i) == <<i, "main">>
Alias(i) == <<i, "alias">>
NoOutput == [output |-> FALSE, names |-> {}]

\* What a command for sub-question i may give: a name of its answer, or only
\* one of the answer behind it.
Outputs(i) ==
  {NoOutput} \cup
  [output : {TRUE}, names : {{Main(i)}, {Alias(i)}, {Alias(i + 1)}}]

NoWork == [chain |-> 0, i |-> 0, tries |-> 0, forms |-> {}, found |-> NoOutput,
           steps |-> <<>>, edited |-> 0]
NoResult == [steps |-> <<>>, success |-> FALSE, pass |-> FALSE]

TrajectoryTypeOK ==
  /\ phase \in [Examples -> {"out", "queued", "ended"} \cup Working]
  /\ \A e \in Examples :
       /\ work[e].chain \in 0 .. MaxToolCalls /\ work[e].i \in 0 .. work[e].chain
       /\ work[e].tries \in 0 .. MaxIterations - 1
       /\ work[e].edited \in 0 .. work[e].chain
       /\ Len(work[e].steps) <= work[e].chain /\ Len(result[e].steps) <= MaxToolCalls
       /\ result[e].pass => QualityFilter \/ result[e].success

-----------------------------------------------------------------------------
Go(e, ph, locals) ==
  /\ phase' = [phase EXCEPT ![e] = ph]
  /\ work' = [work EXCEPT ![e] = locals]
  /\ UNCHANGED result

\* The thread's locals are gone, the record stays.
Return(e, record) ==
  /\ phase' = [phase EXCEPT ![e] = "ended"]
  /\ work' = [work EXCEPT ![e] = NoWork]
  /\ result' = [result EXCEPT ![e] = record]

Abort(e) == Return(e, NoResult)

Begin(e) == Go(e, "decompose", NoWork)

\* Aborts if nothing parses, or the chain is longer than max_tool_calls.
Decompose(e) ==
  /\ phase[e] = "decompose"
  /\ \/ Abort(e)
     \/ \E n \in 1 .. MaxToolCalls :
          Go(e, "command", [NoWork EXCEPT !.chain = n, !.i = n])

-----------------------------------------------------------------------------
(* discover_backward_command and llm_judge.                                *)

TryAgain(e) ==
  \/ /\ work[e].tries + 1 < MaxIterations
     /\ Go(e, "command", [work[e] EXCEPT !.tries = @ + 1, !.found = NoOutput])
  \/ /\ work[e].tries + 1 >= MaxIterations
     /\ Abort(e)

IsGeneric(e, name) == name \in Generic[e]

Acceptable(e) == {Main(work[e].i)} \cup work[e].forms

\* NO without asking the judge.
Refused(e, found) ==
  LET concrete == {name \in Acceptable(e) : ~IsGeneric(e, name)}
  IN  ~found.output \/ (concrete # {} /\ found.names \cap concrete = {})

\* No <command> in the answer is no output too.
Command(e) ==
  /\ phase[e] = "command"
  /\ \E found \in Outputs(work[e].i) :
       \/ Refused(e, found) /\ TryAgain(e)
       \/ ~Refused(e, found) /\ Go(e, "judge", [work[e] EXCEPT !.found = found])

(***************************************************************************)
(* YES: the step is kept, and the bridge to the sub-question before it is  *)
(* next; behind the first sub-question the steps, found from the last to   *)
(* the first, are turned round.  NO, or a judge that cannot be parsed.     *)
(***************************************************************************)
Found(e) ==
  Append(work[e].steps,
         [i |-> work[e].i, forms |-> work[e].forms, found |-> work[e].found])

Judge(e) ==
  /\ phase[e] = "judge"
  /\ \/ TryAgain(e)
     \/ work[e].i > 1 /\ Go(e, "bridge", [work[e] EXCEPT !.steps = Found(e)])
     \/ work[e].i = 1 /\ Go(e, "edit", [work[e] EXCEPT !.steps = Reverse(Found(e))])

\* Bug for a mutant: names of a later answer are still accepted.
FormsKept(e, aliases) == work[e].forms \cup aliases

FormsFor(e, aliases) == aliases

\* extract_bridge_entity: the answer expected of the sub-question before, or none.
Bridge(e) ==
  /\ phase[e] = "bridge"
  /\ \/ Abort(e)
     \/ \E aliases \in SUBSET {Alias(work[e].i - 1)} :
          Go(e, "command", [work[e] EXCEPT
            !.i = @ - 1, !.tries = 0, !.forms = FormsFor(e, aliases), !.found = NoOutput])

-----------------------------------------------------------------------------
\* planner_draft and tutor_edit_think, one step forward.
Edit(e) ==
  /\ phase[e] = "edit"
  /\ \/ Abort(e)
     \/ LET n == work[e].edited + 1 IN
        Go(e, IF n = work[e].chain THEN "answer" ELSE "edit", [work[e] EXCEPT !.edited = n])

Answered(e, success, pass) ==
  Return(e, [steps |-> work[e].steps, success |-> success, pass |-> pass])

\* The answer does not parse, or scores nothing against the gold, or something.
FinalAnswer(e) ==
  /\ phase[e] = "answer"
  /\ \/ Abort(e)
     \/ Answered(e, FALSE, FALSE)
     \/ QualityFilter /\ Go(e, "quality", work[e])
     \/ ~QualityFilter /\ Answered(e, TRUE, TRUE)

\* PASS; or FAIL, or no verdict that parses.
Quality(e) ==
  /\ phase[e] = "quality"
  /\ \E pass \in BOOLEAN : Answered(e, TRUE, pass)

\* A chat() that raises: process_one makes a record of it.
Raises(e) == phase[e] \in Working /\ Abort(e)

TrajectoryStep(e) ==
  \/ Decompose(e) \/ Command(e) \/ Judge(e) \/ Bridge(e)
  \/ Edit(e) \/ FinalAnswer(e) \/ Quality(e) \/ Raises(e)

-----------------------------------------------------------------------------
\* main() and trajectory_to_chatml: whether a chatml row is written for it.
Exported(record) == record.success /\ record.pass /\ record.steps # <<>>

(***************************************************************************)
(* A trajectory is trained on only if its steps answer the sub-questions   *)
(* in their order, each by a command that gave some output, naming its own *)
(* answer or one of the names read for that answer, none of another's; the *)
(* output may leave them out only if every one of these names is generic,  *)
(* of a middle step's bridge as of the gold answer.  The chatml row says   *)
(* of every step that it exited with 0 and in time (pipeline.py:1297).     *)
(***************************************************************************)
TrainsOnConfirmedSteps ==
  \A e \in Examples : Exported(result[e]) =>
    LET steps == result[e].steps IN
    \A k \in DOMAIN steps :
      LET expected == {Main(k)} \cup steps[k].forms IN
      /\ steps[k].i = k
      /\ steps[k].found.output
      /\ steps[k].forms \subseteq {Alias(k)}
      /\ expected \subseteq Generic[e] \/ steps[k].found.names \cap (expected \ Generic[e]) # {}
=============================================================================
