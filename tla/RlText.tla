-------------------------------- MODULE RlText --------------------------------
(***************************************************************************)
(* How the reinforcement-learning side reads a transcript: the tool calls  *)
(* of a turn, what makes a request invalid, the answer and the structure   *)
(* the reward looks for.  A transcript is a sequence of tokens: a tag is   *)
(* one token, as in the model's vocabulary, and a token of text stands for *)
(* a line of it.                                                           *)
(***************************************************************************)
EXTENDS Integers, SequencesExt

Tags == {"<think>", "</think>", "<tool_call>", "</tool_call>",
         "<tool_response>", "</tool_response>", "<answer>", "</answer>"}

\* "usable" is a call of the tool with a command, "unusable" one that parses
\* and has another name or no command, "right" is a gold answer, "prompt" and
\* "words" any other text.  "eos" ends a turn and is skipped when decoded.
Words == {"user", "assistant", "prompt", "words", "usable", "unusable", "right"}

Tokens == Tags \cup Words \cup {"eos"}

\* What is left of a sequence without the members outside a set.  (SelectSeq, in
\* a form the proofs can open.)
Only(s, S) == FlattenSeq([i \in DOMAIN s |-> IF s[i] \in S THEN <<s[i]>> ELSE <<>>])

Decoded(tokens) == Only(tokens, Tokens \ {"eos"})

\* The non-greedy regular expression start(.*?)stop, from left to right: the
\* texts between, and the text left when every match is taken out.
Matches(text, start, stop) ==
  LET Read(s, t) ==
        IF s.open
        THEN IF t = stop THEN [s EXCEPT !.open = FALSE, !.found = Append(@, s.body)]
                         ELSE [s EXCEPT !.body = Append(@, t)]
        ELSE IF t = start THEN [s EXCEPT !.open = TRUE, !.body = <<>>]
                          ELSE [s EXCEPT !.rest = Append(@, t)]
      scan[i \in 0 .. Len(text)] ==
        IF i = 0 THEN [open |-> FALSE, body |-> <<>>, found |-> <<>>, rest |-> <<>>]
        ELSE Read(scan[i - 1], text[i])
      end == scan[Len(text)]
  IN [found |-> end.found,
      rest |-> end.rest \o IF end.open THEN <<start>> \o end.body ELSE <<>>]

Without(text, start, stop) == Matches(text, start, stop).rest

(***************************************************************************)
(* The tool request of a turn.                                             *)
(***************************************************************************)
\* A block that is no JSON object with a name and arguments is dropped.
ToolCalls(turn) ==
  Only(Matches(turn, "<tool_call>", "</tool_call>").found, {<<"usable">>, <<"unusable">>})

LooksAttempted(turn) == {"<tool_call>", "</tool_call>"} \cap ToSet(turn) # {}

\* Only the first call that parses is looked at.
Invalid(turn, calls) ==
  IF calls = <<>> THEN LooksAttempted(turn) ELSE calls[1] # <<"usable">>

(***************************************************************************)
(* What the reward reads.                                                  *)
(***************************************************************************)
\* The last answer block or, without one, the last line outside every block.
Prediction(text) ==
  LET answers == Matches(text, "<answer>", "</answer>").found
      plain == Without(Without(Without(text,
                 "<tool_call>", "</tool_call>"),
                 "<tool_response>", "</tool_response>"),
                 "<think>", "</think>")
  IN IF answers # <<>> THEN answers[Len(answers)]
     ELSE IF plain # <<>> THEN <<plain[Len(plain)]>>
     ELSE <<>>

\* The states of the format check: a tag moves it on only from the state the
\* tag belongs to, a thought may begin nowhere else, and nothing may follow the
\* end.
FormatStep(state, token) ==
  LET From(before, after) == IF state = before THEN after ELSE state
  IN IF state \in {"end", "refused"} THEN "refused" ELSE
     CASE token = "<think>" ->
            IF state \in {"start", "after_tool_response"} THEN "in_reason" ELSE "refused"
       [] token = "</think>" -> From("in_reason", "after_reason")
       [] token = "<tool_call>" -> From("after_reason", "in_tool_call")
       [] token = "</tool_call>" -> From("in_tool_call", "after_tool_call")
       [] token = "<tool_response>" -> From("after_tool_call", "in_tool_response")
       [] token = "</tool_response>" -> From("in_tool_response", "after_tool_response")
       [] token = "<answer>" -> From("after_reason", "in_answer")
       [] token = "</answer>" -> From("in_answer", "end")
       [] OTHER ->
            IF \/ state \in {"in_reason", "in_tool_call", "in_tool_response", "in_answer"}
               \/ token \in {"user", "assistant"}
            THEN state ELSE "refused"

Balanced(text) ==
  LET Count(tag) == Len(SelectSeq(text, LAMBDA t : t = tag))
  IN /\ Count("<think>") = Count("</think>")
     /\ Count("<tool_call>") = Count("</tool_call>")
     /\ Count("<tool_response>") = Count("</tool_response>")
     /\ Count("<answer>") = Count("</answer>")

\* Bug for a mutant: balanced tags are enough.
WellFormedByCount(text) == Balanced(<<"<think>">> \o text)

\* The first thought is opened by the prompt, so its tag is put back.
WellFormed(text) ==
  LET whole == IF text # <<>> /\ text[1] = "<think>" THEN text ELSE <<"<think>">> \o text
      format[i \in 0 .. Len(whole)] ==
        IF i = 0 THEN "start" ELSE FormatStep(format[i - 1], whole[i])
  IN Balanced(whole) /\ format[Len(whole)] = "end"

(***************************************************************************)
(* grepseek_reward in the penalty mode the configuration chooses, clamped  *)
(* at 0, in units of 1 / (2 * limit): a full penalty of a half, decaying   *)
(* linearly.                                                               *)
(***************************************************************************)
CONSTANTS
  Metric,       \* reward_metric: "em" or "f1"
  LengthDecay   \* enable_length_decay

ASSUME RewardAssumption == Metric \in {"em", "f1"} /\ LengthDecay \in BOOLEAN

\* In halves: a text that has the gold answer among other words is worth
\* something under F1 only.
Base(prediction) ==
  CASE prediction = <<"right">> -> 2
    [] Metric = "f1" /\ "right" \in ToSet(prediction) /\ prediction # <<"right">> -> 1
    [] OTHER -> 0

Penalty(length, limit) ==
  IF ~LengthDecay THEN 0 ELSE IF length < limit THEN length ELSE limit

Ungraded(kind) == [kind |-> kind, base |-> 0, score |-> 0]

Reward(text, length, limit, flagged) ==
  LET prediction == Prediction(text)
      graded == Base(prediction) * limit - Penalty(length, limit)
  IN CASE flagged -> Ungraded("invalid")
       [] ~flagged /\ prediction = <<>> -> Ungraded("failed")
       [] ~flagged /\ prediction # <<>> ->
            [kind |-> IF WellFormed(text) THEN "graded" ELSE "malformed",
             base |-> Base(prediction),
             score |-> IF WellFormed(text) /\ graded > 0 THEN graded ELSE 0]
==============================================================================
