-------------------------------- MODULE RlLoop --------------------------------
(***************************************************************************)
(* One rollout of reinforcement learning: GrepSeekAgentLoop of             *)
(* src/rl/grepseek/trainer/verl_integration/agent_loop.py over the         *)
(* ToolAgentLoop of verl it extends, from the prompt to the score.  Turns  *)
(* of the model and answers of the tool fill one budget of tokens; a mask  *)
(* tells the trainer which of them the model wrote.                        *)
(***************************************************************************)
EXTENDS RlText

CONSTANTS
  Prompts,            \* tokenised prompts
  Turns,              \* what the model may say in a turn, if nothing cuts it
  Outputs,            \* what the tool may answer, an error's text included
  Aborts,             \* whether the server may abort a request
  PromptLength,       \* rollout.prompt_length
  ResponseLength,     \* rollout.response_length
  MaxModelLen,        \* rollout.max_model_len
  MaxUserTurns,       \* multi_turn.max_user_turns, 0 for no cap
  MaxAssistantTurns,  \* multi_turn.max_assistant_turns, 0 for no cap
  MaxParallelCalls    \* multi_turn.max_parallel_calls

\* A prompt is a system prompt and a question; the chat template ends it with the
\* tag that opens a thought, and nothing in it closes one.  It may be longer than
\* PromptLength: GrepSeekDataset filters no prompt and the loop cuts none.
ASSUME LoopAssumption ==
  /\ Prompts \cup Turns \cup Outputs \subseteq Seq(Tokens)
  /\ <<"words">> \in Outputs
  /\ \A turn \in Turns : turn # <<>>
  /\ Aborts \in BOOLEAN
  /\ {PromptLength, ResponseLength, MaxModelLen, MaxParallelCalls} \subseteq Nat \ {0}
  /\ {MaxUserTurns, MaxAssistantTurns} \subseteq Nat
  /\ \A prompt \in Prompts :
       /\ prompt # <<>>
       /\ prompt[Len(prompt)] = "<think>"
       /\ \A i \in 1 .. Len(prompt) : prompt[i] # "</think>"
  /\ PromptLength + ResponseLength <= MaxModelLen

Authors == {"prompt", "model", "tool"}

VARIABLES
  state,          \* AgentState, then "scored"; "raised" if the server refused a turn
  ids,            \* prompt_ids: every token so far with who wrote it
  mask,           \* response_mask
  calls,          \* tool_calls
  userTurns, assistantTurns,
  flagged,        \* extra_fields["invalid_tool_request"]
  outcome         \* what the reward made of the rollout

vars == <<state, ids, mask, calls, userTurns, assistantTurns, flagged, outcome>>

NoOutcome == Ungraded("none")

\* Bound: no rollout is longer than the budget and one answer that overruns it.
TypeOK ==
  /\ state \in {"pending", "generating", "processing_tools", "terminated", "scored", "raised"}
  /\ ids \in Seq([token : Tokens, by : Authors])
  /\ mask \in Seq({0, 1})
  /\ Len(mask) <= MaxModelLen
  /\ calls \in Seq({<<"usable">>, <<"unusable">>})
  /\ userTurns \in 0 .. assistantTurns
  /\ assistantTurns \in Nat
  /\ flagged \in BOOLEAN
  /\ outcome.kind \in {"none", "invalid", "failed", "malformed", "graded"}
  /\ outcome.base \in 0 .. 2 /\ outcome.score \in 0 .. 2 * ResponseLength

By(author, tokens) == [i \in DOMAIN tokens |-> [token |-> tokens[i], by |-> author]]

Read(entries) == [i \in DOMAIN entries |-> entries[i].token]

Zeros(n) == [i \in 1 .. n |-> 0]
Ones(n) == [i \in 1 .. n |-> 1]

Init ==
  /\ state = "pending"
  /\ ids = <<>> /\ mask = <<>>
  /\ calls = <<>>
  /\ userTurns = 0 /\ assistantTurns = 0
  /\ flagged = FALSE
  /\ outcome = NoOutcome

Prepare ==
  /\ state = "pending"
  /\ \E prompt \in Prompts : ids' = By("prompt", prompt)
  /\ state' = "generating"
  /\ UNCHANGED <<mask, calls, userTurns, assistantTurns, flagged, outcome>>

(***************************************************************************)
(* A turn of the model, _handle_generating_state of both classes.          *)
(***************************************************************************)
Least(a, b) == IF a <= b THEN a ELSE b
Prefix(s, n) == SubSeq(s, 1, Least(n, Len(s)))

\* What the server allows the turn, from the budgets it knows of.
MaxTokens ==
  LET left == Least(Least(ResponseLength, PromptLength + ResponseLength - Len(ids)),
                    MaxModelLen - Len(ids))
  IN IF left > 0 THEN left ELSE 0

Generations ==
  {Prefix(turn, MaxTokens) : turn \in Turns} \cup (IF Aborts THEN {<<>>} ELSE {})

\* The tokens of a chat message of the tool, up to where the model goes on.
ToolMessage(texts) ==
  <<"user">>
  \o FlattenSeq([i \in DOMAIN texts |-> <<"<tool_response>">> \o texts[i] \o <<"</tool_response>">>])
  \o <<"assistant", "<think>">>

\* Bug for a mutant: the error is appended whatever is left.
InvalidResponseWhole(used) == ToolMessage(<<<<"words">>>>)

\* append_terminal_invalid_tool_response: as much of the error as fits.
InvalidResponse(used) == Prefix(ToolMessage(<<<<"words">>>>), ResponseLength - used)

\* Bug for a mutant: the cap is one turn early.
AtCapEarly(cap, turns) == cap # 0 /\ turns + 1 >= cap

AtCap(cap, turns) == cap # 0 /\ turns >= cap

Generate(turn) ==
  LET used == Len(mask) + Len(turn)
      stop == \/ used >= ResponseLength
              \/ AtCap(MaxAssistantTurns, assistantTurns + 1)
              \/ AtCap(MaxUserTurns, userTurns)
      found == ToolCalls(turn)
      invalid == Invalid(Decoded(turn), found)
      appended == IF invalid /\ used < ResponseLength THEN InvalidResponse(used) ELSE <<>>
  IN /\ state = "generating" /\ MaxTokens > 0
     /\ assistantTurns' = assistantTurns + 1
     /\ ids' = ids \o By("model", turn) \o By("tool", appended)
     /\ mask' = mask \o Ones(Len(turn)) \o Zeros(Len(appended))
     /\ userTurns' = IF appended # <<>> THEN userTurns + 1 ELSE userTurns
     /\ flagged' = invalid
     /\ calls' = IF invalid THEN <<>> ELSE IF stop THEN calls ELSE found
     /\ state' = IF invalid \/ stop \/ found = <<>> THEN "terminated" ELSE "processing_tools"
     /\ UNCHANGED outcome

\* Beyond the context the server raises a ValueError; for no tokens at all vLLM's
\* SamplingParams raises one.  Nobody catches it: gather loses the batch.
Raise ==
  /\ state = "generating" /\ MaxTokens = 0
  /\ state' = "raised"
  /\ UNCHANGED <<ids, mask, calls, userTurns, assistantTurns, flagged, outcome>>

(***************************************************************************)
(* _handle_processing_tools_state: the calls run side by side and their    *)
(* answers are appended in the calls' order, if they leave room.           *)
(***************************************************************************)
\* Bug for a mutant: an answer may fill the budget.
FitsExactly(answers) == Len(mask) + Len(ToolMessage(answers)) <= ResponseLength

Fits(answers) == Len(mask) + Len(ToolMessage(answers)) < ResponseLength

\* Only the first call was looked at: another may name no tool or no command,
\* which is answered by an error.
ProcessTools(answers) ==
  LET response == ToolMessage(answers)
  IN /\ state = "processing_tools"
     /\ Len(answers) = Least(Len(calls), MaxParallelCalls)
     /\ \A i \in DOMAIN answers :
          answers[i] \in IF calls[i] = <<"usable">> THEN Outputs ELSE {<<"words">>}
     /\ IF Fits(answers)
        THEN /\ ids' = ids \o By("tool", response)
             /\ mask' = mask \o Zeros(Len(response))
             /\ userTurns' = userTurns + 1
             /\ state' = "generating"
        ELSE /\ state' = "terminated"
             /\ UNCHANGED <<ids, mask, userTurns>>
     /\ UNCHANGED <<calls, assistantTurns, flagged, outcome>>

(***************************************************************************)
(* run(): the response is the end of prompt_ids the mask is for, cut to    *)
(* the budget.  Without a mask the slice [-0:] is everything.              *)
(***************************************************************************)
LastOf(s, n) == IF n = 0 THEN s ELSE SubSeq(s, Len(s) - n + 1, Len(s))

\* Bug for a mutant: the end of the budget's length is taken.
ResponseAtEnd == LastOf(ids, Least(Len(mask), ResponseLength))

Response == Prefix(LastOf(ids, Len(mask)), ResponseLength)
ResponseMask == Prefix(mask, ResponseLength)

ResponseText == Decoded(Read(Response))

Score ==
  /\ state = "terminated"
  /\ state' = "scored"
  /\ outcome' = Reward(ResponseText, Len(Response), ResponseLength, flagged)
  /\ UNCHANGED <<ids, mask, calls, userTurns, assistantTurns, flagged>>

Ended == state \in {"scored", "raised"} /\ UNCHANGED vars

Next ==
  \/ Prepare
  \/ \E turn \in Generations : Generate(turn)
  \/ Raise
  \/ \E n \in 1 .. MaxParallelCalls :
       \E answers \in [1 .. n -> Outputs] : ProcessTools(answers)
  \/ Score
  \/ Ended

Spec == Init /\ [][Next]_vars

(***************************************************************************)
(* Properties.                                                             *)
(***************************************************************************)
Scored == state = "scored"

\* The server refuses a turn only when the prompt the rollout began with is longer
\* than its budget: however the turns and the tool's answers fill the rest, one
\* token of the next turn always fits (vllm_async_server.py raises, and, since the
\* rollouts of a batch are gathered, the batch is lost; the guards that keep away
\* from it are spread over both classes of the loop and the server).
RefusesOnlyPrompts ==
  state = "raised" =>
    \E prompt \in Prompts :
      /\ Len(prompt) > PromptLength
      /\ Len(ids) = Len(prompt) + Len(mask)
      /\ \A i \in 1 .. Len(prompt) : ids[i] = [token |-> prompt[i], by |-> "prompt"]

\* What the trainer is given says of every token whether the model wrote it,
\* whatever was cut off and appended (agent_loop.py, tool_agent_loop.py run());
\* only of a rollout in which not one token was generated is the prompt taken
\* for the response.
MaskTellsWhoWrote ==
  Scored =>
    IF mask = <<>> THEN \A i \in DOMAIN Response : Response[i].by = "prompt"
    ELSE /\ Len(Response) = Len(ResponseMask)
         /\ \A i \in DOMAIN Response : ResponseMask[i] = 1 <=> Response[i].by = "model"

\* Full marks are for an answer the model wrote: the answer block they are
\* given for is the model's to the last token, even when the corpus has lines
\* with answer tags in them (_extract_prediction searches the tool's output
\* too; only the format check keeps such a line from being the answer).
FullMarksForOwnAnswer ==
  LET written == Only(Response, [token : Tokens \ {"eos"}, by : Authors])
      last == Len(written)
  IN Scored /\ outcome.kind = "graded" /\ outcome.base = 2 =>
       \A i \in last - 2 .. last : written[i].by = "model"

\* The rollout was over with a search the model still asked for.
EndsInCall ==
  LET text == ResponseText
  IN Len(text) > 1 /\ SubSeq(text, Len(text) - 1, Len(text)) = <<"usable", "</tool_call>">>

\* A search is left undone only after as many answers as the cap on the tool's
\* turns allows, or when the answer could fill the budget: "up to 5 tool calls
\* + 1 final-answer turn [...] so an SFT-trained model isn't cut off
\* mid-trajectory" (grpo_trainer.yaml); two caps, a check before and one after
\* the tool decide on it.
NotCutShort ==
  Scored /\ ~flagged /\ EndsInCall =>
    \/ MaxUserTurns \in 1 .. userTurns
    \/ \E n \in 1 .. MaxParallelCalls : \E answers \in [1 .. n -> Outputs] : ~Fits(answers)

\* A rollout that ends in a search and has no answer is a failed one: "a
\* turn-budget exhaustion flows through as TERMINATED with no <answer>, which
\* the reward fn correctly classifies as failed_rollout" (agent_loop.py).
CutOffIsFailed ==
  Scored /\ ~flagged /\ EndsInCall /\ "<answer>" \notin ToSet(ResponseText) =>
    outcome.kind = "failed"
==============================================================================
