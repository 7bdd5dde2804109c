-------------------------------- MODULE Pace --------------------------------
(***************************************************************************)
(* A tool call with the PACE prefilter: run_tool of inference/tools.py     *)
(* with GREPSEEK_PACE_DIR set and no sharded engine.  Beside it, whoever   *)
(* builds the structure (build_pace, which may be killed) and whoever      *)
(* replaces the corpus file.  The agent opens the structure at its first   *)
(* call and keeps it for the life of its process.                          *)
(*                                                                         *)
(* The files are rewritten in place and mapped by the reader, so that an   *)
(* open structure is its metadata and whatever the files hold now.  The    *)
(* corpus is replaced by a new file: a mapping of the old one stays.       *)
(***************************************************************************)
EXTENDS PaceFiles

CONSTANTS
  Corpora,       \* what the corpus file may hold: sequences of lines
  Commands,      \* the pipelines the agent sends: a sequence of sequences of stages
  MinTermLens,   \* --min-term-len
  Budgets,       \* what a PaceBudget may be: saMatches, termPostings, candidateLines
  MaxReplaced,   \* bound: replacements of the corpus
  MaxBuilds,     \* bound: builds started
  None

Words == Seq(Nat \ {0})
Stages == [prog : {"rg", "head", "wc", "tr"}, patterns : Seq(Seq(Words)),
           flags : SUBSET {"i", "v", "c", "m", "w"}, n : Nat, file : {"", "corpus"}]

ASSUME PaceAssumption ==
  /\ Corpora \subseteq Seq(Seq(Words)) \ {<<>>}
  /\ Commands \in Seq(Seq(Stages) \ {<<>>})
  /\ MinTermLens \subseteq Nat \ {0}
  /\ MaxReplaced \in Nat /\ MaxBuilds \in Nat

VARIABLES
  corpus,    \* the file: its stamp (size and mtime) and its lines
  dir,       \* each file of the structure: the build that wrote it, or None
  builder,   \* build_pace: pc, the stamp it took, the lines of the file it opened,
             \* its build, the next file
  builds,    \* bound: builds started
  agent,     \* _PACE_CACHE: "cold", "off" (None is cached), or "open" with meta
  mapped,    \* the lines of the corpus file the agent has mapped, or None
  call       \* the tool call: pc, which command, decision, answer; expected
             \* and coherent are history

vars == <<corpus, dir, builder, builds, agent, mapped, call>>

Idle == [pc |-> "idle", stamp |-> 0, lines |-> <<>>, build |-> None, next |-> 1]
Cold == [state |-> "cold", meta |-> None]
NoAnswer == [out |-> <<>>, rc |-> 0]
NoCall == [pc |-> "idle", cmd |-> 0, decision |-> NotServed, coherent |-> TRUE,
           answer |-> NoAnswer, expected |-> NoAnswer]

Init ==
  /\ corpus \in [stamp : {0}, lines : Corpora]
  /\ dir = [f \in ToSet(Files) |-> None]
  /\ builder = Idle
  /\ builds = 0
  /\ agent = Cold
  /\ mapped = None
  /\ call = NoCall

-----------------------------------------------------------------------------
(* build_pace.                                                             *)

\* Bug for a mutant: the stamp is taken when the corpus has been read.
StampAfterwards == corpus.stamp

StampBefore == builder.stamp

StatCorpus ==
  /\ builder.pc = "idle"
  /\ builds < MaxBuilds
  /\ builder' = [Idle EXCEPT !.pc = "open", !.stamp = corpus.stamp]
  /\ builds' = builds + 1
  /\ UNCHANGED <<corpus, dir, agent, mapped, call>>

OpenCorpus ==
  /\ builder.pc = "open"
  /\ builder' = [builder EXCEPT !.pc = "read", !.lines = corpus.lines]
  /\ UNCHANGED <<corpus, dir, builds, agent, mapped, call>>

\* The file it opened is read to its end, even if another has taken its place.
ReadCorpus ==
  /\ builder.pc = "read"
  /\ \E minLen \in MinTermLens :
       \E order \in Orders(builder.lines, minLen) :
         builder' = [builder EXCEPT
           !.pc = "write", !.build = Build(StampBefore, builder.lines, minLen, order)]
  /\ UNCHANGED <<corpus, dir, builds, agent, mapped, call>>

\* Bug for a mutant: the writer does not stop after the last file.
WriteFileOn ==
  /\ builder.pc = "write"
  /\ dir' = [dir EXCEPT ![Files[builder.next]] = builder.build]
  /\ builder' = [builder EXCEPT !.next = @ + 1]
  /\ UNCHANGED <<corpus, builds, agent, mapped, call>>

WriteFile ==
  /\ builder.pc = "write"
  /\ dir' = [dir EXCEPT ![Files[builder.next]] = builder.build]
  /\ builder' = IF builder.next = Len(Files) THEN Idle
                ELSE [builder EXCEPT !.next = @ + 1]
  /\ UNCHANGED <<corpus, builds, agent, mapped, call>>

KillBuild ==
  /\ builder.pc # "idle"
  /\ builder' = Idle
  /\ UNCHANGED <<corpus, dir, builds, agent, mapped, call>>

ReplaceCorpus ==
  /\ corpus.stamp < MaxReplaced
  /\ \E lines \in Corpora : corpus' = [stamp |-> corpus.stamp + 1, lines |-> lines]
  /\ UNCHANGED <<dir, builder, builds, agent, mapped, call>>

-----------------------------------------------------------------------------
(* load_pace_from_env, PaceStructure.open, check_fresh: what is opened at  *)
(* the first call, or why not, is cached.                                  *)
Complete == \A f \in ToSet(Files) : dir[f] # None

Opens == Complete /\ dir["meta"].stamp = corpus.stamp

Loaded ==
  IF agent.state # "cold" THEN agent
  ELSE IF Opens THEN [state |-> "open", meta |-> dir["meta"]]
  ELSE [state |-> "off", meta |-> None]

\* The files are those of one build of the corpus that is there.
Coherent(a) ==
  a.state = "open" =>
    a.meta.stamp = corpus.stamp /\ \A f \in ToSet(Files) : dir[f] = a.meta

\* The mapped files have the lengths they had when they were opened.
SameSizes(a) ==
  \A f \in ToSet(Files) : dir[f].lines = a.meta.lines /\ dir[f].minLen = a.meta.minLen

(***************************************************************************)
(* _plan_pace_rewrite: classify and plan.  Looking into files another      *)
(* corpus was written to finds anything (bound: at most one line) or       *)
(* raises (then the call is not served).                                   *)
(***************************************************************************)
Decisions(cmd, a) ==
  IF a.state # "open" \/ ~Classified(cmd) THEN {NotServed}
  ELSE IF SameSizes(a)
    THEN UNION {Plan(dir, a.meta, QueryWords(cmd, a.meta.minLen), budget) : budget \in Budgets}
    ELSE {NotServed} \cup {Served(s) : s \in {{}} \cup {{i} : i \in 0 .. NumLines(a.meta) - 1}}

Decide(cmd) ==
  /\ call.pc = "idle"
  /\ agent' = Loaded
  /\ \E decision \in Decisions(Commands[cmd], agent') :
       call' = [NoCall EXCEPT !.pc = "run", !.cmd = cmd, !.decision = decision,
                              !.coherent = Coherent(agent')]
  /\ UNCHANGED <<corpus, dir, builder, builds, mapped>>

Sent == Commands[call.cmd]

Answer(answer) ==
  call' = [call EXCEPT !.pc = "answered", !.answer = answer,
                       !.expected = Run(Sent, corpus.lines),
                       !.coherent = @ /\ Coherent(agent)]

\* The command as it is, on the corpus file.
AnswerUnserved ==
  /\ call.pc = "run"
  /\ ~call.decision.served
  /\ Answer(Run(Sent, corpus.lines))
  /\ UNCHANGED <<corpus, dir, builder, builds, agent, mapped>>

\* iter_materialized_chunks: the candidate lines in file order.
Fed(lines) == Picked(lines, {i \in DOMAIN lines : i - 1 \in call.decision.candidates})

\* The corpus is mapped when the first lines of it are asked for.
Mapped == IF mapped = None /\ call.decision.candidates # {} THEN corpus.lines ELSE mapped

Source == IF mapped = None THEN corpus.lines ELSE mapped

AnswerNatively ==
  /\ call.pc = "run"
  /\ call.decision.served
  /\ HasNativeShape(Sent)
  /\ VerifyNatively(Sent, Fed(Source)) # GuardTripped
  /\ Answer(VerifyNatively(Sent, Fed(Source)))
  /\ mapped' = Mapped
  /\ UNCHANGED <<corpus, dir, builder, builds, agent>>

\* The real pipeline on the candidates: no native shape, a letter it does not
\* fold, too many bytes for it, or turned off.
AnswerPiped ==
  /\ call.pc = "run"
  /\ call.decision.served
  /\ Answer(Run(Sent, Fed(Source)))
  /\ mapped' = Mapped
  /\ UNCHANGED <<corpus, dir, builder, builds, agent>>

Return ==
  /\ call.pc = "answered"
  /\ call' = NoCall
  /\ UNCHANGED <<corpus, dir, builder, builds, agent, mapped>>

RestartAgent ==
  /\ agent.state # "cold"
  /\ agent' = Cold
  /\ mapped' = None
  /\ call' = NoCall
  /\ UNCHANGED <<corpus, dir, builder, builds>>

Next ==
  \/ StatCorpus \/ OpenCorpus \/ ReadCorpus \/ WriteFile \/ KillBuild \/ ReplaceCorpus
  \/ \E cmd \in DOMAIN Commands : Decide(cmd)
  \/ AnswerUnserved \/ AnswerNatively \/ AnswerPiped \/ Return
  \/ RestartAgent

Spec == Init /\ [][Next]_vars

-----------------------------------------------------------------------------
BuildRecords ==
  {None} \cup {dir[f] : f \in ToSet(Files)} \cup {builder.build}

(***************************************************************************)
(* Types; a build never indexes anything but some corpus in some order of  *)
(* its vocabulary; and candidates are lines of the structure in use.       *)
(***************************************************************************)
TypeOK ==
  /\ corpus.stamp \in 0 .. MaxReplaced /\ corpus.lines \in Corpora
  /\ \A b \in BuildRecords \ {None} :
       /\ b.stamp \in 0 .. MaxReplaced /\ b.lines \in Corpora
       /\ b.minLen \in MinTermLens /\ b.terms \in Orders(b.lines, b.minLen)
  /\ builder.pc \in {"idle", "open", "read", "write"} /\ builder.next \in DOMAIN Files
  /\ builds \in 0 .. MaxBuilds
  /\ agent.state \in {"cold", "off", "open"}
  /\ agent.state = "open" <=> agent.meta # None
  /\ mapped \in Corpora \cup {None}
  /\ call.pc \in {"idle", "run", "answered"}
  /\ call.cmd \in 0 .. Len(Commands)
  /\ call.decision.candidates # {} =>
       /\ agent.state = "open"
       /\ call.decision.candidates \subseteq 0 .. NumLines(agent.meta) - 1

(***************************************************************************)
(* "For that to be output-preserving the candidate set must be a superset  *)
(* of every line the real command would print" (core.py:12): a tool call   *)
(* gives what the command gives on the whole corpus.                       *)
(***************************************************************************)
OutputPreserving == call.pc = "answered" => call.answer = call.expected

\* A stage that stops after some matches, before another whose pattern narrows.
BoundedBeforeFilter(cmd) ==
  \E i, j \in 1 .. Walked(cmd) :
    i < j /\ "m" \in cmd[i].flags /\ ~Inverts(cmd[j])

(***************************************************************************)
(* It does, whatever words the budget skips, whoever verifies the lines    *)
(* and however builds, kills, replacements and restarts interleave, if the *)
(* call found the files of one build, of the corpus that is there, was not *)
(* bounded by -m before a later filter, and single letters were not        *)
(* indexed (their suffixes are not in the suffix array).                   *)
(***************************************************************************)
ExactWhenCoherent ==
  call.pc = "answered" =>
    \/ call.answer = call.expected
    \/ call.decision.served
       /\ \/ ~call.coherent
          \/ BoundedBeforeFilter(Sent)
          \/ agent.meta.minLen < 2

(***************************************************************************)
(* A structure is opened only if the corpus at its path holds what the     *)
(* structure was built from: check_fresh sees only size and mtime, which   *)
(* build_pace takes before it reads (core.py:306), so that a corpus        *)
(* replaced in between makes the structure stale and not wrong.            *)
(***************************************************************************)
OpenedDescribesCorpus ==
  [][agent.state = "cold" /\ agent'.state = "open"
       => agent'.meta.lines = corpus.lines]_vars

(***************************************************************************)
(* In the files of one build a word of two letters is found in exactly the *)
(* lines that have it inside a token: suffix array, binary search,         *)
(* separator ranks, and posting lists through their code.                  *)
(***************************************************************************)
LettersUsed == UNION {LettersOf(FoldLine(corpus.lines[i])) : i \in DOMAIN corpus.lines}

LookupExact ==
  LET meta == dir["meta"] IN
  Complete /\ (\A f \in ToSet(Files) : dir[f] = meta) =>
    \A word \in [1 .. 2 -> LettersUsed] :
      meta.minLen <= 2 =>
        Gather(dir, meta, word) =
          {i \in 0 .. NumLines(meta) - 1 :
             \E t \in ToSet(FoldLine(meta.lines[i + 1])) : Inside(word, t)}
=============================================================================
