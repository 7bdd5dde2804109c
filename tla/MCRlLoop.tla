------------------------------ MODULE MCRlLoop ------------------------------
(* A prompt shorter than its budget, one that fills it with the tags the   *)
(* system prompt explains, one that overruns it and one no server takes;   *)
(* the turns that the parser and the reward tell apart, and tool output    *)
(* with tags in it.                                                        *)
EXTENDS RlLoop

Told(n) == [i \in 1 .. n |-> "prompt"] \o <<"<think>">>

FittingPrompts == {Told(1), <<"<answer>", "words", "</answer>", "<think>">>}

AllPrompts == FittingPrompts \cup {Told(15), Told(PromptLength + ResponseLength)}

Call(body) == <<"<tool_call>", body, "</tool_call>">>

Thought(rest) == <<"words", "</think>">> \o rest \o <<"eos">>

AllTurns ==
  {Thought(Call("usable")), Thought(Call("unusable")), Thought(Call("words")),
   Thought(Call("words") \o Call("usable")), Thought(Call("usable") \o Call("unusable")),
   Thought(<<"<answer>", "right", "</answer>">>), Thought(<<"<answer>", "words", "</answer>">>),
   Thought(<<"<answer>", "</answer>">>), Thought(<<"right">>),
   Thought(<<"<answer>", "right", "</answer>">> \o Call("usable")),
   <<"words", "</tool_call>", "eos">>, <<"eos">>}

AllOutputs ==
  {<<"words">>, <<"<answer>", "right", "</answer>">>, <<"</answer>", "right", "<answer>">>}

OneOutput == {<<"words">>}
==============================================================================
