---------------------------- MODULE TaskRunProofs ----------------------------
(***************************************************************************)
(* Proofs about TaskRun for every data set, number of threads, turn cap    *)
(* and number of restarts.                                                 *)
(***************************************************************************)
EXTENDS TaskRun, FiniteSetTheorems, TLAPS

-----------------------------------------------------------------------------
(***************************************************************************)
(* The conversations of AgentLoop: what each step of an example's thread   *)
(* keeps.                                                                  *)
(***************************************************************************)
MessageSeqs == Seq(Assistant \cup Tool)

Records == [finish : Reasons \cup {""}, messages : MessageSeqs]

(***************************************************************************)
(* A conversation so far: assistant and tool take turns, nobody answered,  *)
(* and no two malformed turns stand in a row.                              *)
(***************************************************************************)
Alternates(msgs) == \A i \in 1 .. Len(msgs) : msgs[i] \in Assistant <=> i % 2 = 1

GoesOn(msgs, n) ==
  /\ msgs \in MessageSeqs /\ Len(msgs) = n
  /\ Alternates(msgs)
  /\ \A i \in 1 .. n : msgs[i] # "answer"
  /\ ~HasTwoBad(msgs)

\* The last turn was malformed and was answered by the format error.
JustRejected(msgs) ==
  Len(msgs) >= 2 /\ msgs[Len(msgs) - 1] = "bad" /\ msgs[Len(msgs)] = "rejected"

(***************************************************************************)
(* What is true of a thread that waits for the model with t turns made, of *)
(* one that waits for the tool, and of the row of one that returned.       *)
(***************************************************************************)
AtModel(msgs, errors, t) ==
  /\ GoesOn(msgs, 2 * t)
  /\ errors \in 0 .. 1
  /\ errors = 1 <=> JustRejected(msgs)
  /\ errors = 0 => ~(t > 0 /\ msgs[2 * t - 1] = "bad")

AtTool(msgs, errors, t) ==
  /\ GoesOn(msgs, 2 * t + 1)
  /\ errors = 0
  /\ msgs[2 * t + 1] = "call"

TellsHowItEnded(row) ==
  LET msgs == row.messages IN
  /\ \A i \in 1 .. Len(msgs) : msgs[i] \in Assistant <=> i % 2 = 1
  /\ \A i \in 1 .. Len(msgs) : msgs[i] = "answer" => i = Len(msgs)
  /\ row.finish = "answer" <=> (msgs # <<>> /\ Last(msgs) = "answer")
  /\ row.finish = "max_turns" => Turns(msgs) = MaxTurns /\ Len(msgs) = 2 * MaxTurns
  /\ Turns(msgs) <= MaxTurns
  /\ row.finish \in {"api_error", "exception"} => msgs = <<>>

TrueRow(row) ==
  /\ row \in Records
  /\ row.finish = "parse_error" <=> HasTwoBad(row.messages)
  /\ TellsHowItEnded(row)

\* Where the thread is, what it holds and what it returned fit together.
Coherent(ph, msgs, errors, row) ==
  /\ ph \in {"out", "queued", "llm", "tool", "ended"}
  /\ ph = "llm" => \E t \in Nat : t < MaxTurns /\ AtModel(msgs, errors, t)
  /\ ph = "tool" => \E t \in Nat : t < MaxTurns /\ AtTool(msgs, errors, t)
  /\ ph \notin {"llm", "tool"} => msgs = <<>> /\ errors = 0
  /\ row \in Records
  /\ ph = "ended" => TrueRow(row)

OfExamples(f) == f = [e \in Examples |-> f[e]]

Conversations ==
  /\ OfExamples(phase) /\ OfExamples(messages)
  /\ OfExamples(parseErrors) /\ OfExamples(record)
  /\ \A e \in Examples : Coherent(phase[e], messages[e], parseErrors[e], record[e])
-----------------------------------------------------------------------------
\* Three messages in a row, spelled out.
LEMMA TwoBadSpelled ==
  ASSUME NEW msgs \in MessageSeqs, NEW i \in 1 .. Len(msgs), i + 2 <= Len(msgs)
  PROVE  SubSeq(msgs, i, i + 2) = TwoBad
           <=> msgs[i] = "bad" /\ msgs[i + 1] = "rejected" /\ msgs[i + 2] = "bad"
<1> DEFINE s == SubSeq(msgs, i, i + 2)
<1>1. /\ s = [k \in 1 .. 3 |-> msgs[i + k - 1]]
      /\ TwoBad = [k \in 1 .. 3 |-> TwoBad[k]]
      /\ TwoBad[1] = "bad" /\ TwoBad[2] = "rejected" /\ TwoBad[3] = "bad"
  <2>1. i + 2 - i + 1 = 3
    OBVIOUS
  <2> QED
    BY <2>1 DEF TwoBad, MessageSeqs
<1>2. s[1] = msgs[i] /\ s[2] = msgs[i + 1] /\ s[3] = msgs[i + 2]
  BY <1>1, SMTT(40)
<1>3. s = TwoBad <=> \A k \in 1 .. 3 : s[k] = TwoBad[k]
  <2> HIDE DEF s
  <2> QED
    BY <1>1
<1>4. (\A k \in 1 .. 3 : s[k] = TwoBad[k]) <=> s[1] = TwoBad[1] /\ s[2] = TwoBad[2] /\ s[3] = TwoBad[3]
  <2> HIDE DEF s
  <2>1. \A k \in 1 .. 3 : k = 1 \/ k = 2 \/ k = 3
    OBVIOUS
  <2> QED
    BY <2>1
<1> QED
  BY <1>1, <1>2, <1>3, <1>4

LEMMA TwoBadInWords ==
  ASSUME NEW msgs \in MessageSeqs
  PROVE  HasTwoBad(msgs) <=>
           \E i \in 1 .. Len(msgs) : /\ i + 2 <= Len(msgs)
                                     /\ msgs[i] = "bad"
                                     /\ msgs[i + 1] = "rejected"
                                     /\ msgs[i + 2] = "bad"
BY TwoBadSpelled DEF HasTwoBad

\* In a conversation of alternating messages every second one is a turn.
LEMMA TurnsOfAlternating ==
  ASSUME NEW msgs \in MessageSeqs, Alternates(msgs), NEW t \in Nat,
         Len(msgs) = 2 * t \/ (t > 0 /\ Len(msgs) = 2 * t - 1)
  PROVE  Turns(msgs) = t
<1> DEFINE said == {i \in DOMAIN msgs : msgs[i] \in Assistant}
           f == [j \in 1 .. t |-> 2 * j - 1]
<1>1. \A i : i \in said <=> i \in 1 .. Len(msgs) /\ i % 2 = 1
  BY DEF Alternates, MessageSeqs
<1>2. \A j \in 1 .. t : 2 * j - 1 \in said
  <2> TAKE j \in 1 .. t
  <2>1. 2 * j - 1 \in 1 .. Len(msgs) /\ (2 * j - 1) % 2 = 1
    OBVIOUS
  <2> QED
    BY <1>1, <2>1
<1>3. \A i \in said : \E j \in 1 .. t : 2 * j - 1 = i
  <2> SUFFICES ASSUME NEW i \in 1 .. Len(msgs), i % 2 = 1
               PROVE  \E j \in 1 .. t : 2 * j - 1 = i
    BY <1>1
  <2>1. PICK q \in Int : i = 2 * q + 1
    <3>1. i = 2 * (i \div 2) + (i % 2) /\ i \div 2 \in Int
      OBVIOUS
    <3> QED
      BY <3>1
  <2>2. q + 1 \in 1 .. t /\ 2 * (q + 1) - 1 = i
    BY <2>1
  <2> QED
    BY <2>2
<1> HIDE DEF said
<1>4. f \in Bijection(1 .. t, said)
  BY <1>2, <1>3 DEF Bijection, Injection, Surjection, IsInjective
<1>5. Cardinality(said) = t
  BY <1>4, FS_CountingElements DEF ExistsBijection
<1> QED
  BY <1>5 DEF Turns, said
-----------------------------------------------------------------------------
\* One message more, that is no answer and makes no second malformed turn.
LEMMA GoesOnLonger ==
  ASSUME NEW n \in Nat, NEW msgs, GoesOn(msgs, n), NEW m \in Assistant \cup Tool,
         m # "answer", m \in Assistant <=> n % 2 = 0,
         m = "bad" => ~JustRejected(msgs)
  PROVE  GoesOn(Append(msgs, m), n + 1)
<1> DEFINE more == Append(msgs, m)
<1>1. /\ msgs \in MessageSeqs /\ more \in MessageSeqs /\ Len(msgs) = n /\ Len(more) = n + 1
      /\ more[n + 1] = m
      /\ \A i \in 1 .. n : more[i] = msgs[i]
  BY DEF GoesOn, MessageSeqs
<1>2. \A i \in 1 .. n + 1 : i \in 1 .. n \/ i = n + 1
  OBVIOUS
<1>3. (n + 1) % 2 = 1 <=> n % 2 = 0
  OBVIOUS
<1> HIDE DEF more
<1>4. Alternates(more)
  BY <1>1, <1>2, <1>3 DEF GoesOn, Alternates
<1>5. \A i \in 1 .. n + 1 : more[i] # "answer"
  BY <1>1, <1>2 DEF GoesOn
<1>6. ~HasTwoBad(more)
  <2> SUFFICES ASSUME NEW i \in 1 .. n + 1, i + 2 <= n + 1, more[i] = "bad",
                      more[i + 1] = "rejected", more[i + 2] = "bad"
               PROVE  FALSE
    BY <1>1, TwoBadInWords
  <2>1. CASE i + 2 <= n
    <3>1. /\ i \in 1 .. Len(msgs) /\ i + 2 <= Len(msgs)
          /\ msgs[i] = "bad" /\ msgs[i + 1] = "rejected" /\ msgs[i + 2] = "bad"
      BY <1>1, <2>1
    <3> QED
      BY <1>1, <3>1, TwoBadInWords DEF GoesOn
  <2>2. CASE i + 2 = n + 1
    <3>1. m = "bad" /\ n >= 2 /\ msgs[n - 1] = "bad" /\ msgs[n] = "rejected"
      <4>1. i = n - 1 /\ i + 1 = n /\ i \in 1 .. n /\ i + 1 \in 1 .. n
        BY <2>2
      <4>2. more[i] = msgs[i] /\ more[i + 1] = msgs[i + 1] /\ more[i + 2] = m
        BY <1>1, <2>2, <4>1
      <4> QED
        BY <4>1, <4>2
    <3> QED
      BY <1>1, <3>1 DEF JustRejected
  <2> QED
    BY <2>1, <2>2
<1> QED
  BY <1>1, <1>4, <1>5, <1>6 DEF GoesOn, more

\* What an answer, or a second malformed turn, makes of a conversation.
LEMMA LastWord ==
  ASSUME NEW t \in Nat, NEW msgs, GoesOn(msgs, 2 * t), NEW m \in {"answer", "bad"}
  PROVE  LET more == Append(msgs, m) IN
         /\ more \in MessageSeqs /\ Len(more) = 2 * t + 1 /\ more # <<>> /\ Last(more) = m
         /\ Alternates(more)
         /\ \A i \in 1 .. Len(more) : more[i] = "answer" => i = Len(more)
         /\ Turns(more) = t + 1
         /\ HasTwoBad(more) <=> m = "bad" /\ JustRejected(msgs)
<1> DEFINE more == Append(msgs, m)
           n == 2 * t
<1>1. /\ msgs \in MessageSeqs /\ more \in MessageSeqs /\ Len(msgs) = n /\ Len(more) = n + 1
      /\ more[n + 1] = m
      /\ \A i \in 1 .. n : more[i] = msgs[i]
  BY DEF GoesOn, MessageSeqs, Assistant
<1>2. n \in Nat /\ \A i \in 1 .. n + 1 : i \in 1 .. n \/ i = n + 1
  OBVIOUS
<1>3. (n + 1) % 2 = 1
  OBVIOUS
<1> HIDE DEF more
<1>4. Alternates(more)
  BY <1>1, <1>2, <1>3 DEF GoesOn, Alternates, Assistant
<1>5. \A i \in 1 .. n + 1 : more[i] = "answer" => i = n + 1
  BY <1>1, <1>2 DEF GoesOn
<1>6. Turns(more) = t + 1
  <2>1. t + 1 \in Nat /\ t + 1 > 0 /\ n + 1 = 2 * (t + 1) - 1
    OBVIOUS
  <2> HIDE DEF n
  <2> QED
    BY <1>1, <1>4, <2>1, TurnsOfAlternating
<1>7. HasTwoBad(more) => m = "bad" /\ JustRejected(msgs)
  <2> SUFFICES ASSUME NEW i \in 1 .. n + 1, i + 2 <= n + 1, more[i] = "bad",
                      more[i + 1] = "rejected", more[i + 2] = "bad"
               PROVE  m = "bad" /\ JustRejected(msgs)
    BY <1>1, TwoBadInWords
  <2>1. CASE i + 2 <= n
    <3>1. /\ i \in 1 .. Len(msgs) /\ i + 2 <= Len(msgs)
          /\ msgs[i] = "bad" /\ msgs[i + 1] = "rejected" /\ msgs[i + 2] = "bad"
      BY <1>1, <2>1
    <3> QED
      BY <1>1, <3>1, TwoBadInWords DEF GoesOn
  <2>2. CASE i + 2 = n + 1
    <3>1. i = n - 1 /\ i + 1 = n /\ i \in 1 .. n /\ i + 1 \in 1 .. n
      BY <2>2
    <3>2. more[i] = msgs[i] /\ more[i + 1] = msgs[i + 1] /\ more[i + 2] = m
      BY <1>1, <2>2, <3>1
    <3> QED
      BY <1>1, <3>1, <3>2 DEF JustRejected
  <2> QED
    BY <2>1, <2>2
<1>8. m = "bad" /\ JustRejected(msgs) => HasTwoBad(more)
  <2> SUFFICES ASSUME m = "bad", JustRejected(msgs) PROVE HasTwoBad(more)
    OBVIOUS
  <2>1. n >= 2 /\ msgs[n - 1] = "bad" /\ msgs[n] = "rejected"
    BY <1>1 DEF JustRejected
  <2>2. /\ n - 1 \in 1 .. Len(more) /\ (n - 1) + 2 <= Len(more)
        /\ more[n - 1] = "bad" /\ more[(n - 1) + 1] = "rejected" /\ more[(n - 1) + 2] = "bad"
    <3>1. n - 1 \in 1 .. n /\ n \in 1 .. n /\ (n - 1) + 1 = n /\ (n - 1) + 2 = n + 1
      BY <2>1, <1>2
    <3> QED
      BY <1>1, <2>1, <3>1
  <2> QED
    BY <1>1, <2>2, TwoBadInWords
<1>9. more # <<>> /\ Last(more) = m
  BY <1>1 DEF Last
<1> QED
  BY <1>1, <1>4, <1>5, <1>6, <1>7, <1>8, <1>9 DEF more

\* An answer's row, and that of a second malformed turn.
LEMMA LastWordRow ==
  ASSUME NEW t \in Nat, t < MaxTurns, NEW msgs, GoesOn(msgs, 2 * t),
         NEW m \in {"answer", "bad"}, m = "bad" => JustRejected(msgs),
         NEW reason, reason = IF m = "answer" THEN "answer" ELSE "parse_error"
  PROVE  TrueRow([finish |-> reason, messages |-> Append(msgs, m)])
<1> DEFINE row == [finish |-> reason, messages |-> Append(msgs, m)]
           more == Append(msgs, m)
<1>1. /\ more \in MessageSeqs /\ more # <<>> /\ Last(more) = m
      /\ \A i \in 1 .. Len(more) : more[i] \in Assistant <=> i % 2 = 1
      /\ \A i \in 1 .. Len(more) : more[i] = "answer" => i = Len(more)
      /\ Turns(more) = t + 1
      /\ HasTwoBad(more) <=> m = "bad"
  BY LastWord DEF Alternates
<1>2. Turns(more) <= MaxTurns
  BY <1>1, MaxTurnsAssumption
<1> HIDE DEF more
<1>3. row.finish = reason /\ row.messages = more /\ row \in Records
  BY <1>1 DEF Records, Reasons, more
<1> HIDE DEF row
<1>4. TellsHowItEnded(row)
  BY <1>1, <1>2, <1>3 DEF TellsHowItEnded
<1> QED
  BY <1>1, <1>3, <1>4 DEF TrueRow, row

\* The row of a conversation that used up its turns.
LEMMA CapRow ==
  ASSUME NEW msgs, GoesOn(msgs, 2 * MaxTurns)
  PROVE  TrueRow([finish |-> "max_turns", messages |-> msgs])
<1> DEFINE row == [finish |-> "max_turns", messages |-> msgs]
<1>1. /\ msgs \in MessageSeqs /\ Len(msgs) = 2 * MaxTurns /\ MaxTurns \in Nat
      /\ Alternates(msgs) /\ ~HasTwoBad(msgs)
      /\ \A i \in 1 .. Len(msgs) : msgs[i] # "answer"
  BY MaxTurnsAssumption DEF GoesOn
<1>2. Turns(msgs) = MaxTurns
  BY <1>1, TurnsOfAlternating
<1>3. msgs # <<>> => Last(msgs) # "answer"
  BY <1>1 DEF Last, MessageSeqs
<1>4. row.finish = "max_turns" /\ row.messages = msgs /\ row \in Records
  BY <1>1 DEF Records, Reasons
<1> HIDE DEF row
<1>5. TellsHowItEnded(row)
  BY <1>1, <1>2, <1>3, <1>4 DEF TellsHowItEnded, Alternates
<1> QED
  BY <1>1, <1>4, <1>5 DEF TrueRow, row

LEMMA EmptyGoesOn == GoesOn(<<>>, 0) /\ ~HasTwoBad(<<>>) /\ Turns(<<>>) = 0
<1>1. <<>> \in MessageSeqs /\ Len(<<>>) = 0 /\ Alternates(<<>>)
  BY DEF MessageSeqs, Alternates
<1>2. ~HasTwoBad(<<>>)
  BY <1>1, TwoBadInWords
<1>3. Turns(<<>>) = 0
  BY <1>1, TurnsOfAlternating
<1> QED
  BY <1>1, <1>2, <1>3 DEF GoesOn

\* The row of an example whose model or tool failed keeps no messages.
LEMMA FailureRow ==
  ASSUME NEW reason \in {"api_error", "exception"}
  PROVE  TrueRow([finish |-> reason, messages |-> <<>>])
<1> DEFINE row == [finish |-> reason, messages |-> <<>>]
<1>1. <<>> \in MessageSeqs /\ Len(<<>>) = 0
  BY DEF MessageSeqs
<1>2. row.finish = reason /\ row.messages = <<>> /\ row \in Records
  BY <1>1 DEF Records, Reasons
<1> HIDE DEF row
<1>3. TellsHowItEnded(row)
  BY <1>1, <1>2, EmptyGoesOn, MaxTurnsAssumption DEF TellsHowItEnded
<1> QED
  BY <1>2, <1>3, EmptyGoesOn DEF TrueRow, row
-----------------------------------------------------------------------------
(***************************************************************************)
(* The steps of a thread.  All of them change the state of one example.    *)
(***************************************************************************)
OnlyOf(e) ==
  /\ OfExamples(phase') /\ OfExamples(messages')
  /\ OfExamples(parseErrors') /\ OfExamples(record')
  /\ \A x \in Examples \ {e} : /\ phase'[x] = phase[x] /\ messages'[x] = messages[x]
                               /\ parseErrors'[x] = parseErrors[x]
                               /\ record'[x] = record[x]

LEMMA OneStep ==
  ASSUME Conversations, NEW e \in Examples, OnlyOf(e),
         Coherent(phase'[e], messages'[e], parseErrors'[e], record'[e])
  PROVE  Conversations'
<1>1. ASSUME NEW x \in Examples
      PROVE  Coherent(phase'[x], messages'[x], parseErrors'[x], record'[x])
  <2>1. CASE x = e
    BY <2>1
  <2>2. CASE x # e
    BY <2>2 DEF OnlyOf, Conversations
  <2> QED
    BY <2>1, <2>2
<1> QED
  BY <1>1 DEF Conversations, OnlyOf

LEMMA ReturnStep ==
  ASSUME Conversations, NEW e \in Examples, NEW reason, NEW kept,
         TrueRow([finish |-> reason, messages |-> kept]), Return(e, reason, kept)
  PROVE  Conversations' /\ phase' = [phase EXCEPT ![e] = "ended"]
<1>1. /\ OnlyOf(e)
      /\ phase'[e] = "ended" /\ messages'[e] = <<>> /\ parseErrors'[e] = 0
      /\ record'[e] = [finish |-> reason, messages |-> kept]
  BY DEF Return, OnlyOf, OfExamples, Conversations
<1>2. Coherent(phase'[e], messages'[e], parseErrors'[e], record'[e])
  BY <1>1 DEF Coherent, TrueRow
<1> QED
  BY <1>1, <1>2, OneStep DEF Return

LEMMA ContinueStep ==
  ASSUME Conversations, NEW e \in Examples, NEW t \in Nat, t <= MaxTurns,
         NEW msgs, NEW errors, AtModel(msgs, errors, t), Continue(e, msgs, errors)
  PROVE  /\ Conversations'
         /\ phase' \in {[phase EXCEPT ![e] = "llm"], [phase EXCEPT ![e] = "ended"]}
<1>1. GoesOn(msgs, 2 * t) /\ Turns(msgs) = t
  BY TurnsOfAlternating DEF AtModel, GoesOn
<1>2. CASE t < MaxTurns
  <2>1. /\ phase' = [phase EXCEPT ![e] = "llm"]
        /\ messages' = [messages EXCEPT ![e] = msgs]
        /\ parseErrors' = [parseErrors EXCEPT ![e] = errors]
        /\ record' = record
    BY <1>1, <1>2, MaxTurnsAssumption DEF Continue
  <2>2. /\ OnlyOf(e)
        /\ phase'[e] = "llm" /\ messages'[e] = msgs /\ parseErrors'[e] = errors
        /\ record'[e] = record[e]
    BY <2>1 DEF OnlyOf, OfExamples, Conversations
  <2>3. record[e] \in Records
    BY DEF Conversations, Coherent
  <2>4. Coherent(phase'[e], messages'[e], parseErrors'[e], record'[e])
    BY <1>2, <2>2, <2>3 DEF Coherent
  <2> QED
    BY <2>1, <2>2, <2>4, OneStep
<1>3. CASE ~(t < MaxTurns)
  <2>1. t = MaxTurns
    BY <1>3, MaxTurnsAssumption
  <2>2. Return(e, "max_turns", msgs)
    BY <1>1, <1>3, MaxTurnsAssumption DEF Continue
  <2> QED
    BY <1>1, <2>1, <2>2, CapRow, ReturnStep
<1> QED
  BY <1>2, <1>3

LEMMA BadTurnStep ==
  ASSUME Conversations, NEW e \in Examples, BadTurn(e)
  PROVE  /\ Conversations'
         /\ phase' \in {[phase EXCEPT ![e] = "llm"], [phase EXCEPT ![e] = "ended"]}
<1> DEFINE msgs == messages[e]
           bad == Append(msgs, "bad")
<1>1. PICK t \in Nat : t < MaxTurns /\ AtModel(msgs, parseErrors[e], t)
  BY DEF BadTurn, Conversations, Coherent
<1>2. /\ GoesOn(msgs, 2 * t) /\ parseErrors[e] \in 0 .. 1
      /\ parseErrors[e] = 1 <=> JustRejected(msgs)
  BY <1>1 DEF AtModel
<1> HIDE DEF msgs
<1>3. CASE parseErrors[e] = 1
  <2>1. Return(e, "parse_error", bad)
    BY <1>3 DEF BadTurn, msgs
  <2>2. TrueRow([finish |-> "parse_error", messages |-> bad])
    BY <1>1, <1>2, <1>3, LastWordRow
  <2> QED
    BY <2>1, <2>2, ReturnStep
<1>4. CASE parseErrors[e] = 0
  <2> DEFINE told == Append(bad, "rejected")
  <2>1. Continue(e, told, 1)
    BY <1>4 DEF BadTurn, msgs
  <2>2. 2 * t \in Nat /\ (2 * t) % 2 = 0 /\ (2 * t + 1) % 2 = 1 /\ 2 * t + 1 \in Nat
    OBVIOUS
  <2>3. GoesOn(bad, 2 * t + 1)
    BY <1>2, <1>4, <2>2, GoesOnLonger DEF Assistant
  <2>4. GoesOn(told, 2 * t + 1 + 1)
    BY <2>2, <2>3, GoesOnLonger DEF Assistant, Tool
  <2>5. 2 * t + 1 + 1 = 2 * (t + 1) /\ t + 1 \in Nat /\ t + 1 <= MaxTurns
    BY <1>1, MaxTurnsAssumption
  <2>6. told[2 * t + 1] = "bad" /\ told[2 * t + 2] = "rejected" /\ Len(told) = 2 * t + 2
    BY <1>2, <2>2 DEF GoesOn, MessageSeqs, Assistant
  <2> HIDE DEF bad, told
  <2>7. JustRejected(told)
    BY <2>2, <2>6 DEF JustRejected
  <2>8. AtModel(told, 1, t + 1)
    BY <2>4, <2>5, <2>7 DEF AtModel
  <2> QED
    BY <2>1, <2>5, <2>8, ContinueStep
<1> QED
  BY <1>2, <1>3, <1>4

LEMMA CallTurnStep ==
  ASSUME Conversations, NEW e \in Examples, CallTurn(e)
  PROVE  Conversations' /\ phase' = [phase EXCEPT ![e] = "tool"]
<1> DEFINE msgs == messages[e]
           more == Append(msgs, "call")
<1>1. PICK t \in Nat : t < MaxTurns /\ AtModel(msgs, parseErrors[e], t)
  BY DEF CallTurn, Conversations, Coherent
<1>2. GoesOn(msgs, 2 * t) /\ 2 * t \in Nat /\ (2 * t) % 2 = 0
  BY <1>1 DEF AtModel
<1>3. /\ OnlyOf(e) /\ record'[e] = record[e] /\ record[e] \in Records
      /\ phase'[e] = "tool" /\ messages'[e] = more /\ parseErrors'[e] = 0
  BY DEF CallTurn, OnlyOf, OfExamples, Conversations, Coherent
<1> HIDE DEF msgs
<1>4. GoesOn(more, 2 * t + 1)
  BY <1>2, GoesOnLonger DEF Assistant
<1>5. more[2 * t + 1] = "call"
  BY <1>2 DEF GoesOn, MessageSeqs, Assistant
<1> HIDE DEF more
<1>6. Coherent(phase'[e], messages'[e], parseErrors'[e], record'[e])
  BY <1>1, <1>3, <1>4, <1>5 DEF Coherent, AtTool
<1> QED
  BY <1>3, <1>6, OneStep DEF CallTurn

LEMMA ToolReturnsStep ==
  ASSUME Conversations, NEW e \in Examples, ToolReturns(e)
  PROVE  /\ Conversations'
         /\ phase' \in {[phase EXCEPT ![e] = "llm"], [phase EXCEPT ![e] = "ended"]}
<1> DEFINE msgs == messages[e]
           more == Append(msgs, "result")
<1>1. PICK t \in Nat : t < MaxTurns /\ AtTool(msgs, parseErrors[e], t)
  BY DEF ToolReturns, Conversations, Coherent
<1>2. /\ GoesOn(msgs, 2 * t + 1) /\ msgs[2 * t + 1] = "call" /\ parseErrors[e] = 0
      /\ 2 * t + 1 \in Nat /\ (2 * t + 1) % 2 = 1
  BY <1>1 DEF AtTool
<1>3. Continue(e, more, 0)
  BY <1>2 DEF ToolReturns
<1> HIDE DEF msgs
<1>4. GoesOn(more, 2 * t + 1 + 1)
  BY <1>2, GoesOnLonger DEF Assistant, Tool
<1>5. 2 * t + 1 + 1 = 2 * (t + 1) /\ t + 1 \in Nat /\ t + 1 <= MaxTurns
  BY <1>1, MaxTurnsAssumption
<1>6. Len(more) = 2 * t + 2 /\ more[2 * t + 2] = "result" /\ more[2 * t + 1] = "call"
  BY <1>2 DEF GoesOn, MessageSeqs, Tool
<1> HIDE DEF more
<1>7. ~JustRejected(more) /\ 2 * (t + 1) - 1 = 2 * t + 1
  BY <1>6 DEF JustRejected
<1>8. AtModel(more, 0, t + 1)
  BY <1>4, <1>5, <1>6, <1>7 DEF AtModel
<1> QED
  BY <1>3, <1>5, <1>8, ContinueStep

(***************************************************************************)
(* Every step of a thread keeps all conversations coherent, and takes no   *)
(* example from its thread but by the thread's own return.                 *)
(***************************************************************************)
LEMMA AgentStepKeeps ==
  ASSUME Conversations, NEW e \in Examples, AgentStep(e)
  PROVE  Conversations'
<1>1. CASE ApiError(e) \/ ToolRaises(e)
  BY <1>1, FailureRow, ReturnStep DEF ApiError, ToolRaises
<1>2. CASE AnswerTurn(e)
  <2>1. PICK t \in Nat : t < MaxTurns /\ GoesOn(messages[e], 2 * t)
    BY <1>2 DEF AnswerTurn, Conversations, Coherent, AtModel
  <2>2. TrueRow([finish |-> "answer", messages |-> Append(messages[e], "answer")])
    BY <2>1, LastWordRow
  <2> QED
    BY <1>2, <2>2, ReturnStep DEF AnswerTurn
<1> QED
  BY <1>1, <1>2, CallTurnStep, BadTurnStep, ToolReturnsStep DEF AgentStep

\* A thread that takes an example up starts a conversation, or has no turn.
LEMMA TakenUp ==
  ASSUME Conversations, NEW e \in Examples, Continue(e, <<>>, 0)
  PROVE  Conversations'
<1>1. 0 \in Nat /\ 0 <= MaxTurns /\ AtModel(<<>>, 0, 0)
  BY EmptyGoesOn, MaxTurnsAssumption DEF AtModel, JustRejected
<1> QED
  BY <1>1, ContinueStep

\* What the rows and conversations of all examples add up to.
LEMMA ConversationsTell ==
  ASSUME Conversations
  PROVE  AgentTypeOK /\ ParseErrorIsTwoInARow /\ RowsTellHowTheyEnded
<1>1. ASSUME NEW e \in Examples
      PROVE  /\ messages[e] \in MessageSeqs /\ ~HasTwoBad(messages[e])
             /\ parseErrors[e] \in 0 .. 1
             /\ record[e] \in Records
             /\ phase[e] \in {"out", "queued", "llm", "tool", "ended"}
             /\ phase[e] = "ended" => TrueRow(record[e])
  <2>1. Coherent(phase[e], messages[e], parseErrors[e], record[e])
    BY DEF Conversations
  <2>2. messages[e] = <<>> => messages[e] \in MessageSeqs /\ ~HasTwoBad(messages[e])
    BY EmptyGoesOn DEF GoesOn
  <2> QED
    BY <2>1, <2>2 DEF Coherent, AtModel, AtTool, GoesOn
<1>2. AgentTypeOK
  <2>1. phase = [e \in Examples |-> phase[e]] /\ parseErrors = [e \in Examples |-> parseErrors[e]]
    BY DEF Conversations, OfExamples
  <2> QED
    BY <1>1, <2>1 DEF AgentTypeOK, Records, MessageSeqs
<1>3. ParseErrorIsTwoInARow
  BY <1>1 DEF ParseErrorIsTwoInARow, TrueRow
<1>4. RowsTellHowTheyEnded
  BY <1>1 DEF RowsTellHowTheyEnded, TrueRow, TellsHowItEnded
<1> QED
  BY <1>2, <1>3, <1>4

-----------------------------------------------------------------------------
(***************************************************************************)
(* The file of rows.                                                       *)
(***************************************************************************)

(***************************************************************************)
(* What a write, finished or cut short, does to the file: nothing; or the  *)
(* open last line turns into one that reads back as nothing; or a line is  *)
(* added, whose text is the example's at best.                             *)
(***************************************************************************)
SamePrefix(f, g) == \A i \in DOMAIN g : i < Len(g) => i \in DOMAIN f /\ g[i] = f[i]

Grows(f, g, id) ==
  /\ g \in Seq(Lines)
  /\ \/ g = f
     \/ /\ Open(f)
        /\ Len(g) = Len(f) /\ SamePrefix(f, g)
        /\ g[Len(g)].text \in {Torn, Garbled}
     \/ /\ ~Open(f)
        /\ Len(g) = Len(f) + 1 /\ SamePrefix(f, g)
        /\ g[Len(g)].text \in {id, Torn, Garbled}

Unique(f) ==
  \A i, j \in DOMAIN f : f[i].text = f[j].text /\ f[i].text \in Examples => i = j

\* g is f with line l in the place of its last one, or after it.
ReplacedIn(f, g, l) ==
  g \in Seq(Lines) /\ Len(g) = Len(f) /\ SamePrefix(f, g) /\ g[Len(g)] = l

AddedTo(f, g, l) ==
  g \in Seq(Lines) /\ Len(g) = Len(f) + 1 /\ SamePrefix(f, g) /\ g[Len(g)] = l

\* What EXCEPT at the last place and Append make.
LEMMA ReplacedLast ==
  ASSUME NEW f \in Seq(Lines), NEW l \in Lines, f # <<>>
  PROVE  ReplacedIn(f, [f EXCEPT ![Len(f)] = l], l)
BY DEF ReplacedIn, SamePrefix

LEMMA AddedLast ==
  ASSUME NEW f \in Seq(Lines), NEW l \in Lines
  PROVE  AddedTo(f, Append(f, l), l)
BY DEF AddedTo, SamePrefix

\* What is glued to a line without newline is no row.
LEMMA GluedIsNoRow ==
  ASSUME NEW t
  PROVE  Glued(t) \in {Torn, Garbled}
BY DEF Glued

\* A finished write and one cut short are both growth.
LEMMA WithRowGrows ==
  ASSUME NEW f \in Seq(Lines), NEW id \in Examples
  PROVE  Grows(f, WithRow(f, id), id)
<1>1. CASE Open(f)
  <2> DEFINE l == [text |-> Glued(Last(f).text), ended |-> TRUE]
  <2>1. l \in Lines /\ l.text \in {Torn, Garbled}
    BY GluedIsNoRow DEF Lines
  <2>2. f # <<>> /\ WithRow(f, id) = [f EXCEPT ![Len(f)] = l]
    BY <1>1 DEF Open, WithRow, Last
  <2> HIDE DEF l
  <2>3. ReplacedIn(f, WithRow(f, id), l)
    BY <2>1, <2>2, ReplacedLast
  <2> QED
    BY <1>1, <2>1, <2>2, <2>3 DEF Grows, ReplacedIn
<1>2. CASE ~Open(f)
  <2> DEFINE l == [text |-> id, ended |-> TRUE]
  <2>1. l \in Lines /\ l.text = id
    BY DEF Lines
  <2>2. WithRow(f, id) = Append(f, l)
    BY <1>2 DEF WithRow
  <2> HIDE DEF l
  <2>3. AddedTo(f, WithRow(f, id), l)
    BY <2>1, <2>2, AddedLast
  <2> QED
    BY <1>2, <2>1, <2>3 DEF Grows, AddedTo
<1> QED
  BY <1>1, <1>2

LEMMA CutShortGrows ==
  ASSUME NEW f \in Seq(Lines), NEW id \in Examples, NEW g \in CutShort(f, id)
  PROVE  Grows(f, g, id)
<1>1. CASE g = f
  BY <1>1 DEF Grows
<1>2. CASE Open(f) /\ g # f
  <2>1. PICK t \in {Glued(Last(f).text), Garbled} :
          g = [f EXCEPT ![Len(f)] = [text |-> t, ended |-> FALSE]]
    BY <1>2 DEF CutShort
  <2> DEFINE l == [text |-> t, ended |-> FALSE]
  <2>2. l \in Lines /\ l.text \in {Torn, Garbled}
    BY GluedIsNoRow DEF Lines
  <2>3. f # <<>> /\ g = [f EXCEPT ![Len(f)] = l]
    BY <1>2, <2>1 DEF Open
  <2> HIDE DEF l
  <2>4. ReplacedIn(f, g, l)
    BY <2>2, <2>3, ReplacedLast
  <2> QED
    BY <1>2, <2>2, <2>4 DEF Grows, ReplacedIn
<1>3. CASE ~Open(f) /\ g # f
  <2>1. PICK t \in {id, Torn, Garbled} : g = Append(f, [text |-> t, ended |-> FALSE])
    BY <1>3 DEF CutShort
  <2> DEFINE l == [text |-> t, ended |-> FALSE]
  <2>2. l \in Lines /\ l.text \in {id, Torn, Garbled}
    BY DEF Lines
  <2>3. g = Append(f, l)
    BY <2>1
  <2> HIDE DEF l
  <2>4. AddedTo(f, g, l)
    BY <2>2, <2>3, AddedLast
  <2> QED
    BY <1>3, <2>2, <2>4 DEF Grows, AddedTo
<1> QED
  BY <1>1, <1>2, <1>3

\* Growth by the row of an example that has none keeps rows unique.
LEMMA GrowthKeepsUnique ==
  ASSUME NEW f \in Seq(Lines), NEW g, NEW id \in Examples, Grows(f, g, id),
         Unique(f), id \notin ReadBack(f)
  PROVE  Unique(g) /\ ReadBack(g) \subseteq ReadBack(f) \cup {id}
<1>1. CASE g = f
  BY <1>1
<1>2. CASE g # f
  <2>1. g \in Seq(Lines) /\ SamePrefix(f, g)
    BY <1>2 DEF Grows
  <2>2. g[Len(g)].text \in {id, Torn, Garbled}
    BY <1>2 DEF Grows
  <2>3. \A i \in DOMAIN g : i = Len(g) \/ (i < Len(g) /\ i \in DOMAIN f /\ g[i] = f[i])
    BY <2>1 DEF SamePrefix
  <2>4. \A i \in DOMAIN f : f[i].text # id
    BY DEF ReadBack
  <2>5. \A i \in DOMAIN g : g[i].text \in Examples /\ i # Len(g) => g[i].text # id
    BY <2>3, <2>4
  <2>6. Unique(g)
    <3> SUFFICES ASSUME NEW i \in DOMAIN g, NEW j \in DOMAIN g,
                        g[i].text = g[j].text, g[i].text \in Examples
                 PROVE  i = j
      BY DEF Unique
    <3>1. CASE i = Len(g) \/ j = Len(g)
      <4>1. g[i].text = id /\ g[j].text = id
        BY <3>1, <2>2, TextsAssumption
      <4> QED
        BY <4>1, <2>5
    <3>2. CASE i # Len(g) /\ j # Len(g)
      BY <3>2, <2>3 DEF Unique
    <3> QED
      BY <3>1, <3>2
  <2>7. ReadBack(g) \subseteq ReadBack(f) \cup {id}
    BY <2>2, <2>3, TextsAssumption DEF ReadBack
  <2> QED
    BY <2>6, <2>7
<1> QED
  BY <1>1, <1>2

\* Growth loses no row but that of an open last line.
LEMMA GrowthKeepsRows ==
  ASSUME NEW f \in Seq(Lines), NEW g, NEW id \in Examples, Grows(f, g, id)
  PROVE  ReadBack(f) \ ReadBack(g) \subseteq (IF Open(f) THEN {Last(f).text} ELSE {})
<1>1. CASE g = f
  BY <1>1
<1>2. CASE g # f
  <2>1. g \in Seq(Lines) /\ SamePrefix(f, g) /\ Len(f) \in Nat
    BY <1>2 DEF Grows
  <2>2. CASE Open(f)
    <3>1. Len(g) = Len(f) /\ Last(f) = f[Len(f)]
      BY <1>2, <2>2 DEF Grows, Last
    <3>2. \A i \in DOMAIN f : i # Len(f) => i \in DOMAIN g /\ g[i] = f[i]
      BY <2>1, <3>1 DEF SamePrefix
    <3> QED
      BY <2>2, <3>1, <3>2 DEF ReadBack
  <2>3. CASE ~Open(f)
    <3>1. Len(g) = Len(f) + 1
      BY <1>2, <2>3 DEF Grows
    <3>2. \A i \in DOMAIN f : i \in DOMAIN g /\ g[i] = f[i]
      BY <2>1, <3>1 DEF SamePrefix
    <3> QED
      BY <2>3, <3>2 DEF ReadBack
  <2> QED
    BY <2>2, <2>3
<1> QED
  BY <1>1, <1>2

-----------------------------------------------------------------------------
(***************************************************************************)
(* The strengthening: while a run is on, no example somebody still works   *)
(* on, or whose result waits to be written, has a row already.             *)
(***************************************************************************)
Unwritten ==
  process = "running" =>
    \A e \in Examples : phase[e] # "out" => e \notin ReadBack(file)

Shape ==
  /\ file \in Seq(Lines)
  /\ phase \in [Examples -> {"out", "queued", "llm", "tool", "ended"}]

IInv == Shape /\ NoExampleTwice /\ Unwritten

\* Once an example is out of its thread's hands it stays there until a start:
\* the agent's steps and a thread that takes it up leave "out" as it is.
LEMMA AgentKeepsOut ==
  ASSUME Shape, NEW e \in Examples, phase[e] # "out",
         \/ AgentStep(e)
         \/ Continue(e, <<>>, 0)
  PROVE  /\ phase' \in [Examples -> {"out", "queued", "llm", "tool", "ended"}]
         /\ \A x \in Examples : phase[x] = "out" => phase'[x] = "out"
<1>1. \/ phase' = [phase EXCEPT ![e] = "llm"]
      \/ phase' = [phase EXCEPT ![e] = "tool"]
      \/ phase' = [phase EXCEPT ![e] = "ended"]
  BY DEF AgentStep, ApiError, AnswerTurn, CallTurn, BadTurn, ToolReturns,
         ToolRaises, Continue, Return
<1> QED
  BY <1>1 DEF Shape

LEMMA InitIInv == Init => IInv
BY DEF Init, IInv, Shape, NoExampleTwice, Unwritten

LEMMA NextIInv == IInv /\ [Next]_vars => IInv'
<1> SUFFICES ASSUME IInv, [Next]_vars PROVE IInv'
  OBVIOUS
<1> USE DEF IInv
<1>1. ASSUME NEW resume \in BOOLEAN, Start(resume) PROVE IInv'
  <2>1. file' = FileOpened(resume) /\ process' = "running"
    BY <1>1 DEF Start
  <2>2. phase' = [e \in Examples |-> IF e \in Seen(resume) THEN "out" ELSE "queued"]
    BY <1>1 DEF Start, NobodyWorks
  <2>3. ReadBack(file') \subseteq Seen(resume)
    BY <2>1 DEF FileOpened, Seen, ReadBack
  <2>4. Shape' /\ NoExampleTwice'
    BY <2>1, <2>2 DEF FileOpened, Shape, NoExampleTwice
  <2>5. Unwritten'
    BY <2>2, <2>3 DEF Unwritten
  <2> QED
    BY <2>4, <2>5
<1>2. CASE StartFails
  BY <1>2 DEF StartFails, agentVars, Shape, NoExampleTwice, Unwritten
<1>3. CASE TakeUp
  <2>1. PICK i \in DOMAIN Dataset : phase[Dataset[i]] = "queued" /\ Continue(Dataset[i], <<>>, 0)
    BY <1>3 DEF TakeUp
  <2>2. Dataset[i] \in Examples
    BY DatasetAssumption
  <2>3. /\ phase' \in [Examples -> {"out", "queued", "llm", "tool", "ended"}]
        /\ \A x \in Examples : phase[x] = "out" => phase'[x] = "out"
    BY <2>1, <2>2, AgentKeepsOut
  <2>4. UNCHANGED <<file, process>>
    BY <1>3 DEF TakeUp
  <2> QED
    BY <2>3, <2>4 DEF Shape, NoExampleTwice, Unwritten
<1>4. ASSUME NEW e \in Examples, Agent(e) PROVE IInv'
  <2>1. phase[e] # "out"
    BY <1>4 DEF Agent, AgentStep, ApiError, AnswerTurn, CallTurn, BadTurn,
                ToolReturns, ToolRaises
  <2>2. /\ phase' \in [Examples -> {"out", "queued", "llm", "tool", "ended"}]
        /\ \A x \in Examples : phase[x] = "out" => phase'[x] = "out"
    BY <1>4, <2>1, AgentKeepsOut DEF Agent
  <2>3. UNCHANGED <<file, process>>
    BY <1>4 DEF Agent, runVars
  <2> QED
    BY <2>2, <2>3 DEF Shape, NoExampleTwice, Unwritten
<1>5. ASSUME NEW e \in Examples, WriteRow(e) PROVE IInv'
  <2>1. /\ process = "running" /\ phase[e] = "ended" /\ file' = WithRow(file, e)
        /\ phase' = [phase EXCEPT ![e] = "out"] /\ process' = process
    BY <1>5 DEF WriteRow, Collected
  <2>2. Grows(file, file', e) /\ e \notin ReadBack(file) /\ Unique(file)
    BY <2>1, WithRowGrows DEF Shape, Unwritten, NoExampleTwice, Unique
  <2>3. Unique(file') /\ ReadBack(file') \subseteq ReadBack(file) \cup {e}
    BY <2>2, GrowthKeepsUnique DEF Shape
  <2>4. Shape' /\ NoExampleTwice'
    BY <2>1, <2>2, <2>3 DEF Shape, Grows, NoExampleTwice, Unique
  <2>5. Unwritten'
    BY <2>1, <2>3 DEF Unwritten, Shape
  <2> QED
    BY <2>4, <2>5
<1>6. CASE Summarise
  BY <1>6 DEF Summarise, agentVars, Shape, NoExampleTwice, Unwritten
<1>7. CASE Killed
  <2>1. process = "running" /\ process' = "down" /\ phase' = [e \in Examples |-> "out"]
    BY <1>7 DEF Killed, NobodyWorks
  <2>2. file' \in Seq(Lines) /\ Unique(file')
    <3>1. CASE UNCHANGED file
      BY <3>1 DEF Shape, NoExampleTwice, Unique
    <3>2. ASSUME NEW e \in Examples, phase[e] = "ended", file' \in CutShort(file, e)
          PROVE  file' \in Seq(Lines) /\ Unique(file')
      <4>1. Grows(file, file', e) /\ e \notin ReadBack(file) /\ Unique(file)
        BY <2>1, <3>2, CutShortGrows DEF Shape, Unwritten, NoExampleTwice, Unique
      <4> QED
        BY <4>1, GrowthKeepsUnique DEF Shape, Grows
    <3> QED
      BY <1>7, <3>1, <3>2 DEF Killed
  <2> QED
    BY <2>1, <2>2 DEF Shape, NoExampleTwice, Unique, Unwritten
<1>8. CASE UNCHANGED vars
  BY <1>8 DEF vars, agentVars, runVars, Shape, NoExampleTwice, Unwritten
<1> QED
  BY <1>1, <1>2, <1>3, <1>4, <1>5, <1>6, <1>7, <1>8 DEF Next

LEMMA SpecIInv == Spec => []IInv
BY InitIInv, NextIInv, PTL DEF Spec

(***************************************************************************)
(* However often the program is killed, in the middle of a row too, and    *)
(* resumed, no example has two rows that read back (run.py:253, :283).     *)
(***************************************************************************)
THEOREM NoExampleTwiceAlways == Spec => []NoExampleTwice
<1>1. IInv => NoExampleTwice
  BY DEF IInv
<1> QED
  BY <1>1, SpecIInv, PTL

(***************************************************************************)
(* A step keeps every row that reads back but for that of a last line      *)
(* without newline, unless it starts the program without --resume          *)
(* (run.py:258, :283).                                                     *)
(***************************************************************************)
THEOREM RowsSurviveAlways == Spec => RowsSurvive
<1> DEFINE Kept == ReadBack(file) \ ReadBack(file')
                     \subseteq (IF Open(file) THEN {Last(file).text} ELSE {})
<1>1. IInv /\ [Next]_vars => [Start(FALSE) \/ Kept]_vars
  <2> SUFFICES ASSUME IInv, Next PROVE Start(FALSE) \/ Kept
    OBVIOUS
  <2>1. CASE UNCHANGED file
    BY <2>1
  <2>2. CASE Start(TRUE)
    BY <2>2 DEF Start, FileOpened, Seen
  <2>3. ASSUME NEW e \in Examples, WriteRow(e) PROVE Kept
    <3>1. Grows(file, file', e)
      BY <2>3, WithRowGrows DEF WriteRow, IInv, Shape
    <3> QED
      BY <3>1, GrowthKeepsRows DEF IInv, Shape
  <2>4. ASSUME NEW e \in Examples, file' \in CutShort(file, e) PROVE Kept
    <3>1. Grows(file, file', e)
      BY <2>4, CutShortGrows DEF IInv, Shape
    <3> QED
      BY <3>1, GrowthKeepsRows DEF IInv, Shape
  <2>5. Killed => UNCHANGED file \/ \E e \in Examples : file' \in CutShort(file, e)
    BY DEF Killed
  <2>6. StartFails \/ TakeUp \/ Summarise \/ (\E e \in Examples : Agent(e)) => UNCHANGED file
    BY DEF StartFails, TakeUp, Summarise, Agent, runVars
  <2> QED
    BY <2>1, <2>2, <2>3, <2>4, <2>5, <2>6 DEF Next
<1> QED
  BY <1>1, SpecIInv, PTL DEF Spec, RowsSurvive
-----------------------------------------------------------------------------
(***************************************************************************)
(* What is lost.  While a run is on, an example that nobody works on any   *)
(* more has a row, but for those that a last line without newline costs:   *)
(* none until the first row is glued to it, then at most two.              *)
(***************************************************************************)
Lost == {e \in Examples : phase[e] = "out" /\ e \notin ReadBack(file)}

LostAtOpenTail ==
  process = "running" =>
    /\ Open(file) => openTail
    /\ Open(file) \/ ~openTail => Lost = {}
    /\ openTail => \E a, b \in Examples : Lost \subseteq {a, b}

LinesEnded(f) == \A i \in DOMAIN f : i < Len(f) => f[i].ended

TInv ==
  /\ Conversations
  /\ process \in {"down", "running", "done", "failed"}
  /\ LinesEnded(file)
  /\ summary \in 0 .. Cardinality(Examples)
  /\ starts \in 0 .. MaxStarts
  /\ openTail \in BOOLEAN
  /\ LostAtOpenTail
  /\ LosesOnlyAtOpenTail

LEMMA ExamplesFinite == IsFiniteSet(Examples) /\ Cardinality(Examples) \in Nat
<1>1. IsFiniteSet(DOMAIN Dataset)
  <2>1. DOMAIN Dataset = 1 .. Len(Dataset) /\ Len(Dataset) \in Int
    BY DatasetAssumption
  <2> QED
    BY <2>1, FS_Interval
<1>2. Dataset \in Surjection(DOMAIN Dataset, Examples)
  BY DatasetAssumption DEF Surjection
<1> QED
  BY <1>1, <1>2, FS_Surjection, FS_CardinalityType

\* Rows that are all different are as many as the examples they are of.
LEMMA RowsCounted ==
  ASSUME Shape, NoExampleTwice
  PROVE  /\ RowCount = Cardinality(ReadBack(file))
         /\ RowCount \in 0 .. Cardinality(Examples)
<1> DEFINE rows == {i \in DOMAIN file : file[i].text \in Examples}
           f == [i \in rows |-> file[i].text]
<1>1. f \in [rows -> ReadBack(file)]
  BY DEF ReadBack
<1>2. \A i, j \in rows : f[i] = f[j] => i = j
  BY DEF NoExampleTwice
<1>3. \A e \in ReadBack(file) : \E i \in rows : f[i] = e
  BY DEF ReadBack
<1>4. ReadBack(file) \subseteq Examples
  BY DEF ReadBack
<1>5. rows \subseteq 1 .. Len(file) /\ 1 \in Int /\ Len(file) \in Int
  BY DEF Shape
<1> HIDE DEF rows, f
<1>6. IsFiniteSet(rows)
  BY <1>5, FS_Interval, FS_Subset
<1>7. f \in Bijection(rows, ReadBack(file))
  BY <1>1, <1>2, <1>3 DEF Bijection, Injection, Surjection, IsInjective
<1>8. Cardinality(ReadBack(file)) = Cardinality(rows)
  BY <1>6, <1>7, FS_Bijection DEF ExistsBijection
<1>9. Cardinality(ReadBack(file)) \in Nat /\ Cardinality(ReadBack(file)) <= Cardinality(Examples)
  BY <1>4, ExamplesFinite, FS_Subset, FS_CardinalityType
<1> QED
  BY <1>8, <1>9, ExamplesFinite DEF RowCount, rows

\* All lines but the last have their newline, whatever is written.
LEMMA GrowthKeepsEnded ==
  ASSUME NEW f \in Seq(Lines), NEW g, NEW id \in Examples, Grows(f, g, id), LinesEnded(f)
  PROVE  LinesEnded(g)
<1>1. CASE g = f
  BY <1>1
<1>2. CASE g # f
  <2>1. g \in Seq(Lines) /\ \A i \in DOMAIN g : i < Len(g) => i \in DOMAIN f /\ g[i] = f[i]
    BY <1>2 DEF Grows, SamePrefix
  <2>2. CASE Len(g) = Len(f)
    BY <2>1, <2>2 DEF LinesEnded
  <2>3. CASE Len(g) = Len(f) + 1 /\ ~Open(f)
    <3>1. f # <<>> => f[Len(f)].ended
      BY <2>3 DEF Open, Last
    <3> QED
      BY <2>1, <2>3, <3>1 DEF LinesEnded
  <2> QED
    BY <1>2, <2>2, <2>3 DEF Grows
<1> QED
  BY <1>1, <1>2

\* A finished write ends its line; it adds a row unless the line was open.
LEMMA WithRowEnds ==
  ASSUME NEW f \in Seq(Lines), NEW id \in Examples
  PROVE  /\ ~Open(WithRow(f, id))
         /\ ~Open(f) => ReadBack(WithRow(f, id)) = ReadBack(f) \cup {id}
<1>1. CASE Open(f)
  <2> DEFINE l == [text |-> Glued(f[Len(f)].text), ended |-> TRUE]
  <2>1. l \in Lines /\ l.ended
    BY GluedIsNoRow DEF Lines
  <2>2. f # <<>> /\ WithRow(f, id) = [f EXCEPT ![Len(f)] = l]
    BY <1>1 DEF Open, WithRow
  <2> HIDE DEF l
  <2>3. ReplacedIn(f, WithRow(f, id), l)
    BY <2>1, <2>2, ReplacedLast
  <2> QED
    BY <1>1, <2>1, <2>3 DEF ReplacedIn, Open, Last
<1>2. CASE ~Open(f)
  <2> DEFINE l == [text |-> id, ended |-> TRUE]
             g == Append(f, l)
  <2>1. l \in Lines /\ l.ended /\ l.text = id
    BY DEF Lines
  <2>2. WithRow(f, id) = g
    BY <1>2 DEF WithRow
  <2> HIDE DEF l
  <2>3. /\ Len(g) = Len(f) + 1 /\ g[Len(f) + 1] = l /\ g \in Seq(Lines)
        /\ \A i \in 1 .. Len(f) : g[i] = f[i]
    BY <2>1
  <2> HIDE DEF g
  <2>4. DOMAIN g = DOMAIN f \cup {Len(f) + 1} /\ Len(f) + 1 \notin DOMAIN f
    BY <2>3
  <2>5. ReadBack(g) = ReadBack(f) \cup {id}
    BY <2>1, <2>3, <2>4 DEF ReadBack
  <2> QED
    BY <2>1, <2>2, <2>3, <2>5 DEF Open, Last
<1> QED
  BY <1>1, <1>2
-----------------------------------------------------------------------------
LEMMA NobodyTalks ==
  ASSUME NEW ph \in [Examples -> {"out", "queued"}], NobodyWorks(ph)
  PROVE  Conversations'
<1>1. /\ OfExamples(phase') /\ OfExamples(messages')
      /\ OfExamples(parseErrors') /\ OfExamples(record')
  BY DEF NobodyWorks, OfExamples
<1>2. NoRecord \in Records
  BY DEF NoRecord, Records, MessageSeqs
<1>3. ASSUME NEW e \in Examples
      PROVE  Coherent(phase'[e], messages'[e], parseErrors'[e], record'[e])
  BY <1>2 DEF NobodyWorks, Coherent
<1> QED
  BY <1>1, <1>3 DEF Conversations

LEMMA InitTInv == Init => TInv
<1> SUFFICES ASSUME Init PROVE TInv
  OBVIOUS
<1>1. Conversations
  <2>1. NoRecord \in Records
    BY DEF NoRecord, Records, MessageSeqs
  <2>2. ASSUME NEW e \in Examples
        PROVE  Coherent(phase[e], messages[e], parseErrors[e], record[e])
    BY <2>1 DEF Init, Coherent
  <2> QED
    BY <2>2 DEF Init, Conversations, OfExamples
<1>2. summary \in 0 .. Cardinality(Examples) /\ starts \in 0 .. MaxStarts
  BY ExamplesFinite, ParallelAssumption DEF Init
<1>3. process = "down" /\ openTail = FALSE /\ LinesEnded(file)
  BY DEF Init, LinesEnded
<1> QED
  BY <1>1, <1>2, <1>3 DEF TInv, LostAtOpenTail, LosesOnlyAtOpenTail

\* The steps of the threads move examples about, none in or out of "out".
LEMMA ThreadsKeepOut ==
  ASSUME Conversations, NEW e \in Examples, phase[e] # "out",
         AgentStep(e) \/ Continue(e, <<>>, 0)
  PROVE  \A x \in Examples : phase'[x] = "out" <=> phase[x] = "out"
<1>1. \/ phase' = [phase EXCEPT ![e] = "llm"]
      \/ phase' = [phase EXCEPT ![e] = "tool"]
      \/ phase' = [phase EXCEPT ![e] = "ended"]
  BY DEF AgentStep, ApiError, AnswerTurn, CallTurn, BadTurn, ToolReturns,
         ToolRaises, Continue, Return
<1>2. phase = [x \in Examples |-> phase[x]]
  BY DEF Conversations, OfExamples
<1> QED
  BY <1>1, <1>2

LEMMA StartTInv ==
  ASSUME IInv, TInv, NEW resume \in BOOLEAN, Start(resume)
  PROVE  TInv'
<1> DEFINE ph == [e \in Examples |-> IF e \in Seen(resume) THEN "out" ELSE "queued"]
<1>1. /\ NobodyWorks(ph) /\ ph \in [Examples -> {"out", "queued"}]
      /\ file' = FileOpened(resume) /\ openTail' = Open(file')
      /\ process' = "running" /\ summary' = summary /\ starts' = starts + 1
      /\ starts < MaxStarts
  BY DEF Start
<1>2. Conversations'
  BY <1>1, NobodyTalks
<1>3. starts' \in 0 .. MaxStarts
  BY <1>1, ParallelAssumption DEF TInv
<1>4. ReadBack(file') = Seen(resume) /\ LinesEnded(file')
  <2>1. CASE resume /\ Seen(resume) # {}
    BY <1>1, <2>1 DEF FileOpened, Seen, TInv
  <2>2. CASE ~(resume /\ Seen(resume) # {})
    <3>1. file' = <<>> /\ Seen(resume) = {}
      BY <1>1, <2>2 DEF FileOpened, Seen
    <3> QED
      BY <3>1 DEF ReadBack, LinesEnded
  <2> QED
    BY <2>1, <2>2
<1>5. Lost' = {}
  BY <1>1, <1>4 DEF Lost, NobodyWorks
<1>6. openTail' \in BOOLEAN
  BY <1>1 DEF Open
<1>7. openTail' => \E a, b \in Examples : Lost' \subseteq {a, b}
  <2> SUFFICES ASSUME openTail' PROVE \E a, b \in Examples : Lost' \subseteq {a, b}
    OBVIOUS
  <2>1. file' # <<>> /\ Seen(resume) # {}
    BY <1>1 DEF Open, FileOpened
  <2>2. PICK a \in Examples : TRUE
    BY <2>1 DEF Seen, ReadBack
  <2> QED
    BY <1>5, <2>2
<1>8. LostAtOpenTail'
  BY <1>1, <1>5, <1>7 DEF LostAtOpenTail
<1> QED
  BY <1>1, <1>2, <1>3, <1>4, <1>6, <1>8 DEF TInv, LosesOnlyAtOpenTail

\* Steps of the threads: the file and the examples that are out stay.
LEMMA ThreadTInv ==
  ASSUME IInv, TInv, process = "running", NEW e \in Examples, phase[e] # "out",
         AgentStep(e) \/ Continue(e, <<>>, 0), UNCHANGED runVars
  PROVE  TInv'
<1>1. Conversations'
  BY AgentStepKeeps, TakenUp DEF TInv
<1>2. Lost' = Lost
  BY ThreadsKeepOut DEF TInv, Lost, runVars
<1>3. LostAtOpenTail' /\ LosesOnlyAtOpenTail'
  BY <1>2 DEF TInv, LostAtOpenTail, LosesOnlyAtOpenTail, runVars
<1> QED
  BY <1>1, <1>3 DEF TInv, LinesEnded, runVars

LEMMA WriteRowTInv ==
  ASSUME IInv, TInv, NEW e \in Examples, WriteRow(e)
  PROVE  TInv'
<1>1. /\ process = "running" /\ phase[e] = "ended" /\ file' = WithRow(file, e)
      /\ phase' = [phase EXCEPT ![e] = "out"] /\ record' = [record EXCEPT ![e] = NoRecord]
      /\ UNCHANGED <<messages, parseErrors, process, summary, starts, openTail>>
  BY DEF WriteRow, Collected
<1>2. Conversations'
  <2>1. /\ OnlyOf(e) /\ phase'[e] = "out" /\ record'[e] = NoRecord
        /\ messages'[e] = <<>> /\ parseErrors'[e] = 0
    BY <1>1 DEF TInv, Conversations, Coherent, OnlyOf, OfExamples
  <2>2. NoRecord \in Records
    BY DEF NoRecord, Records, MessageSeqs
  <2>3. Coherent(phase'[e], messages'[e], parseErrors'[e], record'[e])
    BY <2>1, <2>2 DEF Coherent
  <2> QED
    BY <2>1, <2>3, OneStep DEF TInv
<1>3. /\ Grows(file, file', e) /\ ~Open(file')
      /\ ~Open(file) => ReadBack(file') = ReadBack(file) \cup {e}
  BY <1>1, WithRowGrows, WithRowEnds DEF IInv, Shape
<1>4. LinesEnded(file')
  BY <1>3, GrowthKeepsEnded DEF IInv, Shape, TInv
<1>5. Lost' \subseteq {e} \cup Lost \cup (ReadBack(file) \ ReadBack(file'))
  BY <1>1 DEF Lost, IInv, Shape
<1>6. CASE Open(file)
  <2>1. openTail /\ Lost = {}
    BY <1>1, <1>6 DEF TInv, LostAtOpenTail
  <2>2. Lost' \subseteq {e, Last(file).text}
    BY <1>3, <1>5, <1>6, <2>1, GrowthKeepsRows DEF IInv, Shape
  <2>3. Lost' \subseteq Examples
    BY DEF Lost
  <2>4. \E b \in Examples : Lost' \subseteq {e, b}
    <3>1. CASE Last(file).text \in Examples
      BY <2>2, <3>1
    <3>2. CASE Last(file).text \notin Examples
      BY <2>2, <2>3, <3>2
    <3> QED
      BY <3>1, <3>2
  <2> QED
    BY <1>1, <1>2, <1>3, <1>4, <2>1, <2>4 DEF TInv, LostAtOpenTail, LosesOnlyAtOpenTail
<1>7. CASE ~Open(file)
  <2>1. Lost' \subseteq Lost
    BY <1>1, <1>3, <1>7 DEF Lost, IInv, Shape
  <2>2. LostAtOpenTail'
    BY <1>1, <1>3, <1>7, <2>1 DEF TInv, LostAtOpenTail
  <2> QED
    BY <1>1, <1>2, <1>4, <2>2 DEF TInv, LosesOnlyAtOpenTail
<1> QED
  BY <1>6, <1>7

LEMMA PairSmall ==
  ASSUME NEW a, NEW b, NEW S, S \subseteq {a, b}
  PROVE  Cardinality(S) <= 2
<1>1. IsFiniteSet({a}) /\ IsFiniteSet({b}) /\ Cardinality({a}) = 1 /\ Cardinality({b}) = 1
  BY FS_Singleton
<1>2. /\ IsFiniteSet({a} \cup {b})
      /\ Cardinality({a} \cup {b}) = 1 + 1 - Cardinality({a} \cap {b})
  BY <1>1, FS_Union
<1>3. Cardinality({a} \cap {b}) \in Nat
  BY <1>1, FS_Intersection, FS_CardinalityType
<1>4. S \in SUBSET ({a} \cup {b})
  OBVIOUS
<1>5. Cardinality(S) \in Nat /\ Cardinality(S) <= Cardinality({a} \cup {b})
  BY <1>2, <1>4, FS_Subset, FS_CardinalityType
<1>6. Cardinality({a} \cup {b}) \in Nat
  BY <1>2, FS_CardinalityType
<1>7. \A s, u, i \in Nat : s <= u /\ u = 1 + 1 - i => s <= 2
  OBVIOUS
<1> QED
  BY <1>2, <1>3, <1>5, <1>6, <1>7

LEMMA SummariseTInv ==
  ASSUME IInv, TInv, Summarise
  PROVE  TInv'
<1>1. /\ process = "running" /\ process' = "done" /\ summary' = RowCount
      /\ \A e \in Examples : phase[e] = "out"
      /\ UNCHANGED <<phase, messages, parseErrors, record, file, starts, openTail>>
  BY DEF Summarise, agentVars
<1>2. summary' = Cardinality(ReadBack(file)) /\ summary' \in 0 .. Cardinality(Examples)
  BY <1>1, RowsCounted DEF IInv
<1>3. Missing = Lost
  BY <1>1 DEF Missing, Lost
<1>4. Missing # {} => openTail /\ Cardinality(Missing) <= 2
  BY <1>1, <1>3, PairSmall DEF TInv, LostAtOpenTail
<1>5. LosesOnlyAtOpenTail'
  <2>1. Missing' = Missing
    BY <1>1 DEF Missing
  <2> QED
    BY <1>1, <1>2, <1>4, <2>1 DEF LosesOnlyAtOpenTail
<1> QED
  BY <1>1, <1>2, <1>5 DEF TInv, Conversations, OfExamples, LinesEnded, LostAtOpenTail

LEMMA KilledTInv ==
  ASSUME IInv, TInv, Killed
  PROVE  TInv'
<1>1. /\ NobodyWorks([e \in Examples |-> "out"])
      /\ process' = "down" /\ UNCHANGED <<summary, starts, openTail>>
  BY DEF Killed
<1>2. Conversations'
  BY <1>1, NobodyTalks
<1>3. LinesEnded(file')
  <2>1. CASE UNCHANGED file
    BY <2>1 DEF TInv
  <2>2. ASSUME NEW e \in Examples, file' \in CutShort(file, e)
        PROVE  LinesEnded(file')
    BY <2>2, CutShortGrows, GrowthKeepsEnded DEF TInv, IInv, Shape
  <2> QED
    BY <2>1, <2>2 DEF Killed
<1> QED
  BY <1>1, <1>2, <1>3 DEF TInv, LostAtOpenTail, LosesOnlyAtOpenTail

LEMMA SpecTInv == Spec => []TInv
<1>1. IInv /\ TInv /\ [Next]_vars => TInv'
  <2> SUFFICES ASSUME IInv, TInv, [Next]_vars PROVE TInv'
    OBVIOUS
  <2>1. CASE StartFails
    <3>1. /\ UNCHANGED <<phase, messages, parseErrors, record, file, summary, openTail>>
          /\ process' = "failed" /\ starts' = starts + 1 /\ starts < MaxStarts
      BY <2>1 DEF StartFails, agentVars
    <3>2. starts' \in 0 .. MaxStarts
      BY <3>1, ParallelAssumption DEF TInv
    <3> QED
      BY <3>1, <3>2 DEF TInv, Conversations, OfExamples, LinesEnded, LostAtOpenTail,
                        LosesOnlyAtOpenTail
  <2>2. CASE TakeUp
    <3>1. PICK i \in DOMAIN Dataset :
            phase[Dataset[i]] = "queued" /\ Continue(Dataset[i], <<>>, 0)
      BY <2>2 DEF TakeUp
    <3>2. Dataset[i] \in Examples /\ phase[Dataset[i]] # "out"
      BY <3>1, DatasetAssumption
    <3>3. process = "running" /\ UNCHANGED runVars
      BY <2>2 DEF TakeUp, runVars
    <3> QED
      BY <3>1, <3>2, <3>3, ThreadTInv
  <2>3. ASSUME NEW e \in Examples, Agent(e) PROVE TInv'
    <3>1. phase[e] # "out"
      BY <2>3 DEF Agent, AgentStep, ApiError, AnswerTurn, CallTurn, BadTurn,
                  ToolReturns, ToolRaises
    <3> QED
      BY <2>3, <3>1, ThreadTInv DEF Agent
  <2>4. CASE UNCHANGED vars
    BY <2>4 DEF vars, agentVars, runVars, TInv, Conversations, OfExamples, LinesEnded,
                LostAtOpenTail, Lost, LosesOnlyAtOpenTail, Missing
  <2> QED
    BY <2>1, <2>2, <2>3, <2>4, StartTInv, WriteRowTInv, SummariseTInv, KilledTInv DEF Next
<1> QED
  BY <1>1, InitTInv, SpecIInv, PTL DEF Spec

(***************************************************************************)
(* The threads, the file and the summary are well typed through every kill *)
(* and restart; the summary never counts more rows than there are examples *)
(* (run.py, agent.py).                                                     *)
(***************************************************************************)
THEOREM TypeCorrect == Spec => []TypeOK
<1>1. IInv /\ TInv => TypeOK
  BY ConversationsTell DEF IInv, Shape, TInv, LinesEnded, TypeOK
<1> QED
  BY <1>1, SpecIInv, SpecTInv, PTL

(***************************************************************************)
(* A conversation ends in parse_error exactly when its last two turns were *)
(* malformed, whatever the number of turns and of examples (agent.py:299). *)
(***************************************************************************)
THEOREM ParseErrorTwoInARow == Spec => []ParseErrorIsTwoInARow
<1>1. TInv => ParseErrorIsTwoInARow
  BY ConversationsTell DEF TInv
<1> QED
  BY <1>1, SpecTInv, PTL

(***************************************************************************)
(* What a row says of how its example ended agrees with the conversation   *)
(* in it, and none is longer than the cap (run_agent_on_example).          *)
(***************************************************************************)
THEOREM RowsTell == Spec => []RowsTellHowTheyEnded
<1>1. TInv => RowsTellHowTheyEnded
  BY ConversationsTell DEF TInv
<1> QED
  BY <1>1, SpecTInv, PTL

(***************************************************************************)
(* A run that ends by itself has and counts a row for every example but,   *)
(* where the file it resumed lacked its last newline, two of them at most  *)
(* (run_task).                                                             *)
(***************************************************************************)
THEOREM LosesTwoAtMost == Spec => []LosesOnlyAtOpenTail
<1>1. TInv => LosesOnlyAtOpenTail
  BY DEF TInv
<1> QED
  BY <1>1, SpecTInv, PTL
=============================================================================
