------------------------------- MODULE MCPace -------------------------------
(***************************************************************************)
(* Small instances of Pace for TLC.  Letters: 1 is s, 2 is S, 3 the long s *)
(* that casefold and rg -i, but no C code, take for s; 4 and 5 are two     *)
(* more letters, and Digit(n) what counts are printed with.                *)
(***************************************************************************)
EXTENDS Pace, TLC

FoldS == (2 :> 1) @@ (3 :> 1)
AsciiLetters == {1, 2, 4, 5, Digit(0), Digit(1)}

s == 1
S == 2
Long == 3
t == 4
u == 5

Rg(file, patterns, flags, n) ==
  [prog |-> "rg", patterns |-> patterns, flags |-> flags, n |-> n, file |-> file]
OnCorpus(pattern, flags, n) == Rg("corpus", <<pattern>>, flags, n)
Filter(pattern, flags, n) == Rg("", <<pattern>>, flags, n)
Either(p, q) == Rg("", <<p, q>>, {}, 0)
Tool(prog, n) == [prog |-> prog, patterns |-> <<>>, flags |-> {}, n |-> n, file |-> ""]

st == << <<s, t>> >>
tu == << <<t, u>> >>

\* "tu", "St tu", "stu", (long s)"t u": every way a line can hold st or tu.
Variants == << << <<t, u>> >>, << <<S, t>>, <<t, u>> >>, << <<s, t, u>> >>,
               << <<Long, t>>, <<u>> >> >>
\* "tu st", "tt", "st": what may take its place.
Other == << << <<t, u>>, <<s, t>> >>, << <<t, t>> >>, << <<s, t>> >> >>

BothCorpora == {Variants, Other}

Plainly == <<
  <<OnCorpus(st, {"i"}, 0), Tool("wc", 0)>>,
  <<OnCorpus(tu, {}, 0), Filter(st, {"i"}, 0), Tool("head", 1)>>,
  <<OnCorpus(tu, {}, 0), Filter(st, {"v"}, 0)>>,
  <<OnCorpus(tu \o st, {}, 0)>> >>

Oddly == <<
  <<OnCorpus(tu, {"c"}, 0), Filter(<<Numeral[3]>>, {}, 0)>>,
  <<OnCorpus(tu, {"w"}, 0), Tool("tr", t), Filter(<< <<u, u>> >>, {}, 0)>>,
  <<OnCorpus(<< <<t>>, <<>> >>, {}, 0), Either(st, tu), Filter(<< <<u, u>> >>, {}, 0)>>,
  <<OnCorpus(st, {"m"}, 1), Filter(tu, {"v"}, 0)>>,
  <<OnCorpus(st, {"v"}, 0), Filter(tu, {}, 0)>> >>

Bounded == << <<OnCorpus(tu, {"m"}, 1), Filter(st, {"i"}, 0)>> >>

SomeCommands == Plainly \o Oddly \o Bounded
ExactCommands == << <<OnCorpus(<< <<u>> >>, {}, 0)>> >> \o Bounded

\* A budget large enough for all words, and one that skips words and gives up.
SomeBudgets == {[saMatches |-> 2, termPostings |-> 5, candidateLines |-> 4],
                [saMatches |-> 1, termPostings |-> 1, candidateLines |-> 1]}
=============================================================================
