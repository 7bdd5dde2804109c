------------------------------ MODULE AgentLoop ------------------------------
(***************************************************************************)
(* run_agent_on_example of src/inference/agent.py: one example's           *)
(* conversation with the model and the search tool, for each of Examples.  *)
(*                                                                         *)
(* A message is its kind.  The assistant's: "answer" (the first block is   *)
(* <answer>), "call" (a well-formed shell call), "bad" (parse_assistant    *)
(* found neither).  The tool's: "result" (run_tool's payload) and          *)
(* "rejected" (the synthetic format error fed back to the model).  The     *)
(* system and user messages every conversation starts with are left out.   *)
(* What the model says and what the tool gives are open choices.           *)
(***************************************************************************)
EXTENDS Naturals, FiniteSets, Sequences, SequencesExt

CONSTANTS
  Examples,   \* the examples of one data set
  MaxTurns    \* max_assistant_turns

ASSUME MaxTurnsAssumption == MaxTurns \in Nat

VARIABLES
  phase,        \* "out": nobody works on it; "queued": submitted, no thread yet;
                \* "llm", "tool": what its thread waits for; "ended": result ready
  messages,     \* the list the model is shown
  parseErrors,  \* consecutive_parse_errors
  record        \* the row the thread returns: finish_reason and messages

agentVars == <<phase, messages, parseErrors, record>>

Assistant == {"answer", "call", "bad"}
Tool      == {"result", "rejected"}
Reasons   == {"answer", "parse_error", "max_turns", "api_error", "exception"}
NoRecord  == [finish |-> "", messages |-> <<>>]

Turns(msgs) == Cardinality({i \in DOMAIN msgs : msgs[i] \in Assistant})

AgentTypeOK ==
  /\ phase \in [Examples -> {"out", "queued", "llm", "tool", "ended"}]
  /\ \A e \in Examples : /\ messages[e] \in Seq(Assistant \cup Tool)
                         /\ record[e].finish \in Reasons \cup {""}
                         /\ record[e].messages \in Seq(Assistant \cup Tool)
  /\ parseErrors \in [Examples -> 0 .. 1]

(***************************************************************************)
(* The thread returns: its locals are gone, the record stays.              *)
(***************************************************************************)
Return(e, reason, kept) ==
  /\ phase' = [phase EXCEPT ![e] = "ended"]
  /\ record' = [record EXCEPT ![e] = [finish |-> reason, messages |-> kept]]
  /\ messages' = [messages EXCEPT ![e] = <<>>]
  /\ parseErrors' = [parseErrors EXCEPT ![e] = 0]

\* Bug for a mutant: one turn more than the cap.
ContinueOnceMore(e, msgs, errors) ==
  \/ /\ Turns(msgs) <= MaxTurns
     /\ phase' = [phase EXCEPT ![e] = "llm"]
     /\ messages' = [messages EXCEPT ![e] = msgs]
     /\ parseErrors' = [parseErrors EXCEPT ![e] = errors]
     /\ UNCHANGED record
  \/ /\ Turns(msgs) > MaxTurns
     /\ Return(e, "max_turns", msgs)

\* The head of the loop: another turn, or the turn cap.
Continue(e, msgs, errors) ==
  \/ /\ Turns(msgs) < MaxTurns
     /\ phase' = [phase EXCEPT ![e] = "llm"]
     /\ messages' = [messages EXCEPT ![e] = msgs]
     /\ parseErrors' = [parseErrors EXCEPT ![e] = errors]
     /\ UNCHANGED record
  \/ /\ Turns(msgs) >= MaxTurns
     /\ Return(e, "max_turns", msgs)

(***************************************************************************)
(* The model's turn.  _chat_completion asks again once, with the room that *)
(* is left, when the context overflows; that is one call here.  On an      *)
(* error the record returned holds no messages.                            *)
(***************************************************************************)
ApiError(e) ==
  /\ phase[e] = "llm"
  /\ Return(e, "api_error", <<>>)

AnswerTurn(e) ==
  /\ phase[e] = "llm"
  /\ Return(e, "answer", Append(messages[e], "answer"))

\* Bug for a mutant: the count is not reset by a well-formed call.
CallTurnKeepingCount(e) ==
  /\ phase[e] = "llm"
  /\ phase' = [phase EXCEPT ![e] = "tool"]
  /\ messages' = [messages EXCEPT ![e] = Append(@, "call")]
  /\ UNCHANGED <<parseErrors, record>>

CallTurn(e) ==
  /\ phase[e] = "llm"
  /\ phase' = [phase EXCEPT ![e] = "tool"]
  /\ messages' = [messages EXCEPT ![e] = Append(@, "call")]
  /\ parseErrors' = [parseErrors EXCEPT ![e] = 0]
  /\ UNCHANGED record

BadTurn(e) ==
  /\ phase[e] = "llm"
  /\ LET bad == Append(messages[e], "bad") IN
     \/ /\ parseErrors[e] + 1 >= 2
        /\ Return(e, "parse_error", bad)
     \/ /\ parseErrors[e] + 1 < 2
        /\ Continue(e, Append(bad, "rejected"), parseErrors[e] + 1)

(***************************************************************************)
(* The tool's turn: a payload whatever the command did, a failed or timed  *)
(* out one included; or run_tool raises (a daemon that is gone), which     *)
(* _run_example_safe turns into a row.                                     *)
(***************************************************************************)
\* Bug for a mutant: a call that failed is taken back and asked for again.
ToolReturnsUncounted(e) ==
  /\ phase[e] = "tool"
  /\ \/ Continue(e, Append(messages[e], "result"), parseErrors[e])
     \/ Continue(e, Front(messages[e]), parseErrors[e])

ToolReturns(e) ==
  /\ phase[e] = "tool"
  /\ Continue(e, Append(messages[e], "result"), parseErrors[e])

ToolRaises(e) ==
  /\ phase[e] = "tool"
  /\ Return(e, "exception", <<>>)

AgentStep(e) ==
  \/ ApiError(e) \/ AnswerTurn(e) \/ CallTurn(e) \/ BadTurn(e)
  \/ ToolReturns(e) \/ ToolRaises(e)

-----------------------------------------------------------------------------
TwoBad == <<"bad", "rejected", "bad">>

\* msgs holds TwoBad: two malformed turns with nothing but the error between.
HasTwoBad(msgs) ==
  \E i \in 1 .. Len(msgs) : i + 2 <= Len(msgs) /\ SubSeq(msgs, i, i + 2) = TwoBad

(***************************************************************************)
(* "If it fails twice in a row we stop with finish_reason=parse_error"     *)
(* (agent.py:299), and no sooner: a conversation ends in parse_error       *)
(* exactly when its last two turns were malformed, and at no time are      *)
(* there two such turns in a conversation that went on; an error, a good   *)
(* call and another error is not two in a row.                             *)
(***************************************************************************)
ParseErrorIsTwoInARow ==
  \A e \in Examples :
    /\ ~HasTwoBad(messages[e])
    /\ phase[e] = "ended" =>
         (record[e].finish = "parse_error" <=> HasTwoBad(record[e].messages))

(***************************************************************************)
(* What a row says of how its example ended agrees with the messages kept  *)
(* in it: assistant and tool take turns, an answer ends the conversation   *)
(* and only an answer does so by finish "answer", a conversation that hit  *)
(* the cap used every turn and ends with the tool's word, and none is      *)
(* longer than the cap.                                                    *)
(***************************************************************************)
RowsTellHowTheyEnded ==
  \A e \in Examples : phase[e] = "ended" =>
    LET row == record[e]
        msgs == row.messages IN
    /\ \A i \in 1 .. Len(msgs) : msgs[i] \in Assistant <=> i % 2 = 1
    /\ \A i \in 1 .. Len(msgs) : msgs[i] = "answer" => i = Len(msgs)
    /\ row.finish = "answer" <=> (msgs # <<>> /\ Last(msgs) = "answer")
    /\ row.finish = "max_turns" => Turns(msgs) = MaxTurns /\ Len(msgs) = 2 * MaxTurns
    /\ Turns(msgs) <= MaxTurns
    /\ row.finish \in {"api_error", "exception"} => msgs = <<>>
=============================================================================
