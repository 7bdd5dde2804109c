----------------------------- MODULE PaceFiles ------------------------------
(***************************************************************************)
(* The files of a PACE structure and how a word is looked up in them:      *)
(* _write_pace_files and PaceStructure of inference/pace/core.py, and the  *)
(* C functions under _native/.                                             *)
(*                                                                         *)
(* A build is what build_pace knew when it wrote: the stamp (size and      *)
(* mtime) and the lines of the corpus, min_term_len, and the vocabulary in *)
(* the order it chose.  A directory maps each file to the build that wrote *)
(* it, so that files of two builds can lie side by side.  Positions and    *)
(* line numbers start at 0, as on disk.                                    *)
(***************************************************************************)
EXTENDS PaceText, Integers

Files == <<"vocab", "postings", "suffixes", "separators", "offsets", "meta">>

Vocabulary(lines, minLen) ==
  {w \in UNION {ToSet(FoldLine(lines[i])) : i \in DOMAIN lines} : Len(w) >= minLen}

Postings(lines, term) ==
  {i \in 0 .. Len(lines) - 1 : term \in ToSet(FoldLine(lines[i + 1]))}

Singles(lines, terms) == {t \in terms : Cardinality(Postings(lines, t)) = 1}

\* Shorter or smaller at the first difference.
Before(s, t) ==
  \E k \in 1 .. Len(t) :
    /\ k <= Len(s) + 1
    /\ \A j \in 1 .. k - 1 : s[j] = t[j]
    /\ k <= Len(s) => s[k] < t[k]

\* Terms with one posting first; within either part, the order of a hash table:
\* bound, two of those it may have.
Orders(lines, minLen) ==
  LET terms   == Vocabulary(lines, minLen)
      singles == Singles(lines, terms)
      up(ts)   == Sorted(ts, Before)
      down(ts) == Sorted(ts, LAMBDA a, b : Before(b, a))
  IN  {up(singles) \o up(terms \ singles), down(singles) \o down(terms \ singles)}

NumLines(build) == Len(build.lines)
NumSingles(build) == Cardinality(Singles(build.lines, ToSet(build.terms)))

-----------------------------------------------------------------------------
(* elias_fano.c: low bits, and a bit at (value \div 2^l) + i for the high. *)

TwoTo[l \in Nat] == IF l = 0 THEN 1 ELSE 2 * TwoTo[l - 1]

\* The first l at which the loop ends.
LowBits(n, u) ==
  CHOOSE l \in 0 .. u : /\ u \div n < TwoTo[l + 1]
                        /\ \A k \in 0 .. l - 1 : TwoTo[k + 1] <= u \div n

Encode(values, u) ==
  LET l    == LowBits(Cardinality(values), u)
      vals == Sorted(values, <)
  IN  [l    |-> l,
       low  |-> [i \in DOMAIN vals |-> vals[i] % TwoTo[l]],
       high |-> {(vals[i] \div TwoTo[l]) + (i - 1) : i \in DOMAIN vals}]

Decode(list) ==
  LET bits == Sorted(list.high, <)
  IN  {(bits[i] - (i - 1)) * TwoTo[list.l] + list.low[i] : i \in DOMAIN bits}

-----------------------------------------------------------------------------
(* vocab.bin: terms, each ended by 0; vocab_sa.bin: where the suffixes of  *)
(* more than one letter begin, in the order of the suffixes.               *)

TextOf(terms) == FlattenSeq([i \in DOMAIN terms |-> Append(terms[i], 0)])

Suffix(text, p) == SubSeq(text, p + 1, Len(text))

Indexed(text) ==
  {p \in 0 .. Len(text) - 1 :
     /\ text[p + 1] # 0
     /\ text[(IF p + 2 <= Len(text) THEN p + 2 ELSE Len(text))] # 0}

SuffixArray(text) ==
  Sorted(Indexed(text), LAMBDA p, q : Before(Suffix(text, p), Suffix(text, q)))

Build(stamp, lines, minLen, order) ==
  [stamp |-> stamp, lines |-> lines, minLen |-> minLen, terms |-> order,
   text |-> TextOf(order), suffixes |-> SuffixArray(TextOf(order))]

\* compare_prefix of vocab_search.c.
Compare(text, p, word) ==
  LET s == SubSeq(text, p + 1, IF p + Len(word) <= Len(text) THEN p + Len(word)
                                                            ELSE Len(text))
  IN  IF s = word THEN 0 ELSE IF Before(s, word) THEN -1 ELSE 1

\* The first index of the array whose suffix does not compare less than c, by
\* halving.
Bound(text, sa, word, c) ==
  LET search[range \in (0 .. Len(sa)) \X (0 .. Len(sa))] ==
        LET lo  == range[1]
            hi  == range[2]
            mid == lo + (hi - lo) \div 2
        IN  IF lo >= hi THEN lo
            ELSE IF Compare(text, sa[mid + 1], word) < c THEN search[<<mid + 1, hi>>]
            ELSE search[<<lo, mid>>]
  IN  search[<<0, Len(sa)>>]

\* Bug for a mutant: the upper bound stops at the first match.
RangeOfOne(text, sa, word) == Bound(text, sa, word, 0) .. Bound(text, sa, word, 0)

\* vocab_search_range.
SearchRange(text, sa, word) == Bound(text, sa, word, 0) .. Bound(text, sa, word, 1) - 1

\* postings_codec.c: how many separators lie before the position.
Rank(build, p) ==
  Cardinality({j \in 0 .. p - 1 : j < Len(build.text) /\ build.text[j + 1] = 0})

\* sa_range and term_ids: ids of every term that holds the word.
Matched(dir, word) ==
  LET sa == dir["suffixes"].suffixes
  IN  {sa[i + 1] : i \in SearchRange(dir["vocab"].text, sa, word)}

TermIds(dir, word) == {Rank(dir["separators"], p) : p \in Matched(dir, word)}

-----------------------------------------------------------------------------
(* Counts and postings of an id; meta is the metadata of the structure.    *)

CountOf(dir, meta, id) ==
  IF id < NumSingles(meta) THEN 1
  ELSE LET b == dir["postings"] IN Cardinality(Postings(b.lines, b.terms[id + 1]))

LinesOf(dir, meta, id) ==
  LET b == dir["postings"]
      listed == Postings(b.lines, b.terms[id + 1])
  IN  IF id < NumSingles(meta) THEN listed ELSE Decode(Encode(listed, NumLines(meta)))

Estimate(dir, meta, word) ==
  FoldSet(LAMBDA id, sum : CountOf(dir, meta, id) + sum, 0, TermIds(dir, word))

\* lookup: lines that hold the word inside one of their tokens.
Gather(dir, meta, word) == UNION {LinesOf(dir, meta, id) : id \in TermIds(dir, word)}

-----------------------------------------------------------------------------
(* plan(): the decisions that may be taken for the words of a pipeline.    *)
(* How many words are intersected is left open where the cost model        *)
(* decides it; a decision is the candidate lines, or NotServed.            *)

NotServed == [served |-> FALSE, candidates |-> {}]
Served(lines) == [served |-> TRUE, candidates |-> lines]

Plan(dir, meta, words, budget) ==
  LET resolved == {w \in words : Cardinality(Matched(dir, w)) <= budget.saMatches}
      est(w)   == Estimate(dir, meta, w)
      cheap    == {w \in resolved : est(w) <= budget.termPostings}
      lines(used) == {i \in 0 .. NumLines(meta) - 1 : \A w \in used : i \in Gather(dir, meta, w)}
      \* the cheapest first, in any order among equals
      prefixes == {used \in SUBSET cheap :
                     used # {} /\ \A w \in used, x \in resolved \ used : est(w) <= est(x)}
  IN  IF \E w \in resolved : TermIds(dir, w) = {} THEN {Served({})}
      ELSE IF cheap = {} THEN {NotServed}
      ELSE {IF Cardinality(lines(used)) > budget.candidateLines THEN NotServed
            ELSE Served(lines(used)) : used \in prefixes}
=============================================================================
