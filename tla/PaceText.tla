------------------------------ MODULE PaceText ------------------------------
(***************************************************************************)
(* Lines, patterns and shell pipelines as far as the PACE prefilter of     *)
(* inference/pace/core.py tells them apart, and its classifier.            *)
(*                                                                         *)
(* A letter is a positive number, a word a sequence of letters, a line the *)
(* sequence of its maximal alphanumeric runs.  A pattern is the sequence   *)
(* of its words too: all but the first begin at the start of a run of the  *)
(* line, all but the last end at its end; the first and last may be empty  *)
(* (the pattern begins or ends with a separator).                          *)
(*                                                                         *)
(* A stage has a program ("rg" stands for rg and grep, "head", "wc" for    *)
(* wc -l, "tr", which makes letter n into letter n + 1), patterns, flags   *)
(* ("i", "v", "c", "m" with n, "w"), a number n, and the file it names.    *)
(***************************************************************************)
EXTENDS Naturals, SequencesExt, FiniteSets

\* The members of S in the order of precedes, which is strict and total on S: in
\* place k the one that has k - 1 before it.
Sorted(S, precedes(_, _)) ==
  [k \in 1 .. Cardinality(S) |->
     CHOOSE x \in S : Cardinality({y \in S : precedes(y, x)}) = k - 1]

\* The members of s at some of its places, in the order of s.
Picked(s, places) ==
  LET at == Sorted(places, <) IN [k \in DOMAIN at |-> s[at[k]]]

CONSTANTS
  Fold,    \* casefold, on the letters it changes
  Ascii    \* letters of ASCII: their fold is the lower case of C code

ASSUME FoldAssumption ==
  /\ \A c \in DOMAIN Fold : Fold[c] \in Nat \ {0} /\ Fold[c] \notin DOMAIN Fold
  /\ \A c \in Ascii \cap DOMAIN Fold : Fold[c] \in Ascii

Folded(c) == IF c \in DOMAIN Fold THEN Fold[c] ELSE c
FoldWord(w) == [i \in DOMAIN w |-> Folded(w[i])]
FoldLine(line) == [i \in DOMAIN line |-> FoldWord(line[i])]

AsciiFoldLine(line) ==
  [i \in DOMAIN line |->
     [j \in DOMAIN line[i] |->
        IF line[i][j] \in Ascii THEN Folded(line[i][j]) ELSE line[i][j]]]

\* The letters of a line, or of a pattern.
LettersOf(line) == UNION {ToSet(line[i]) : i \in DOMAIN line}

-----------------------------------------------------------------------------
(* What the programs do.                                                   *)

Inside(w, t) == \E i \in 1 .. Len(t) + 1 : IsPrefix(w, SubSeq(t, i, Len(t)))

Occurs(pattern, line) ==
  LET n == Len(pattern) IN
  CASE n = 0 -> TRUE
    [] n = 1 -> pattern[1] = <<>> \/ \E i \in DOMAIN line : Inside(pattern[1], line[i])
    [] OTHER -> \E k \in 0 .. Len(line) - n :
                  /\ IsSuffix(pattern[1], line[k + 1])
                  /\ \A j \in 2 .. n - 1 : line[k + j] = pattern[j]
                  /\ IsPrefix(pattern[n], line[k + n])

\* -w: not inside a longer word.
OccursAsWords(pattern, line) ==
  \E k \in 0 .. Len(line) - Len(pattern) :
    SubSeq(line, k + 1, k + Len(pattern)) = pattern

Matches(stage, line) ==
  \E i \in DOMAIN stage.patterns :
    LET fold(x) == IF "i" \in stage.flags THEN FoldLine(x) ELSE x
        p       == fold(stage.patterns[i])
    IN  IF "w" \in stage.flags THEN OccursAsWords(p, fold(line))
                               ELSE Occurs(p, fold(line))

Take(lines, n) == SubSeq(lines, 1, IF n < Len(lines) THEN n ELSE Len(lines))

\* Numbers are printed in base two, so that small corpora have counts of more
\* than one digit.
Digit(n) == 100 + n
Numeral[n \in Nat] ==
  IF n < 2 THEN <<Digit(n)>> ELSE Append(Numeral[n \div 2], Digit(n % 2))
NumberLine(n) == <<Numeral[n]>>

RunFilter(stage, lines) ==
  LET hits == Picked(lines,
                {i \in DOMAIN lines : Matches(stage, lines[i]) # ("v" \in stage.flags)})
      kept == IF "m" \in stage.flags THEN Take(hits, stage.n) ELSE hits
  IN  IF "c" \in stage.flags /\ kept # <<>> THEN <<NumberLine(Len(kept))>> ELSE kept

Translate(stage, line) ==
  [i \in DOMAIN line |-> [j \in DOMAIN line[i] |->
     IF line[i][j] = stage.n THEN stage.n + 1 ELSE line[i][j]]]

RunStage(stage, lines) ==
  CASE stage.prog = "rg"   -> RunFilter(stage, lines)
    [] stage.prog = "head" -> Take(lines, stage.n)
    [] stage.prog = "wc"   -> <<NumberLine(Len(lines))>>
    [] OTHER               -> [i \in DOMAIN lines |-> Translate(stage, lines[i])]

\* bash without pipefail; rg's exit code says whether it printed anything.
Printed(stages, out) ==
  [out |-> out, rc |-> IF Last(stages).prog = "rg" /\ out = <<>> THEN 1 ELSE 0]

Run(stages, lines) ==
  LET out[k \in 0 .. Len(stages)] ==
        IF k = 0 THEN lines ELSE RunStage(stages[k], out[k - 1])
  IN  Printed(stages, out[Len(stages)])

-----------------------------------------------------------------------------
(* parse_filter_stage, classify_for_pace, _native_shape.                   *)

Transforms(stage) == "c" \in stage.flags

Inverts(stage) == "v" \in stage.flags

\* A literal filter with one pattern; -m is among the flags let through.
Parses(stage) == stage.prog = "rg" /\ Len(stage.patterns) = 1

Classified(stages) ==
  /\ Parses(stages[1])
  /\ ~Inverts(stages[1])
  /\ stages[1].file = "corpus"

\* The walk over the stages behind the first: how many are per-line filters.
Walked(stages) ==
  LET through(i) == /\ \A j \in 2 .. i : Parses(stages[j]) /\ stages[j].file = ""
                    /\ \A j \in 1 .. i - 1 : ~Transforms(stages[j])
  IN  CHOOSE n \in 1 .. Len(stages) :
        through(n) /\ (n < Len(stages) => ~through(n + 1))

Patterns(stages) ==
  {stages[i].patterns[1] : i \in {j \in 1 .. Walked(stages) : ~Inverts(stages[j])}}

\* Word runs of the folded patterns that are long enough to have been indexed.
QueryWords(stages, minLen) ==
  {w \in UNION {ToSet(FoldLine(p)) : p \in Patterns(stages)} :
     w # <<>> /\ Len(w) >= minLen}

Plain(stage) ==
  /\ stage.flags \subseteq {"i"}
  /\ stage.patterns[1] # <<>>
  /\ "i" \in stage.flags => LettersOf(stage.patterns[1]) \subseteq Ascii

HasNativeShape(stages) ==
  LET n == Walked(stages) IN
  /\ \A i \in 1 .. n : Plain(stages[i])
  /\ \/ Len(stages) = n
     \/ Len(stages) = n + 1 /\ Last(stages).prog \in {"head", "wc"}

-----------------------------------------------------------------------------
(* verify_natively_streaming over the candidate lines, a line to a chunk:  *)
(* the lines its C loop selects until head has enough of them, or          *)
(* GuardTripped when a chunk it went through has a letter for which rg's   *)
(* folding differs from C's.                                               *)

GuardTripped == [out |-> <<>>, rc |-> 2]

SelectedNatively(stages, line) ==
  \A i \in 1 .. Walked(stages) :
    LET fold(x) == IF "i" \in stages[i].flags THEN AsciiFoldLine(x) ELSE x
    IN  Occurs(fold(stages[i].patterns[1]), fold(line))

\* Bug for a mutant: such letters are not looked for.
UnsafeNever(stages, line) == FALSE

Unsafe(stages, line) ==
  /\ \E i \in 1 .. Walked(stages) : "i" \in stages[i].flags
  /\ \E c \in LettersOf(line) \ Ascii : Folded(c) \in Ascii

VerifyNatively(stages, lines) ==
  LET tail     == IF Len(stages) > Walked(stages) THEN Last(stages) ELSE stages[1]
      found(k) == Picked(lines, {i \in 1 .. k : SelectedNatively(stages, lines[i])})
      ends     == {k \in 0 .. Len(lines) : tail.prog = "head" /\ Len(found(k)) = tail.n}
      read     == IF ends = {} THEN Len(lines) ELSE CHOOSE k \in ends : \A m \in ends : k <= m
  IN  IF \E k \in 1 .. read : Unsafe(stages, lines[k])
        THEN GuardTripped
        ELSE Printed(stages, IF tail.prog = "wc" THEN <<NumberLine(Len(found(read)))>>
                                                 ELSE found(read))
=============================================================================
