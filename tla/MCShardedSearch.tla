-------------------------- MODULE MCShardedSearch ---------------------------
(* Instances of ShardedSearch for TLC: three lines, short corpora, and the  *)
(* pipelines the agent is taught to write, one set for each question.       *)
EXTENDS ShardedSearch

Lines == 1..3

Stage(prog, flags, each, n) == [prog |-> prog, flags |-> flags, each |-> each, n |-> n]

Same == [l \in Lines |-> <<l>>]
Keep(S) == [l \in Lines |-> IF l \in S THEN <<l>> ELSE <<>>]

Rg(S) == Stage("rg", {}, Keep(S), 0)
RgMax == Stage("rg", {"max"}, Same, 1)
RgCount == Stage("rg", {"count"}, Same, 0)
Cut == Stage("cut", {}, [l \in Lines |-> <<(l + 1) \div 2>>], 0)
Sed1d == Stage("sed", {"address"}, Same, 0)
Sort(flags) == Stage("sort", flags, Same, 0)
UniqStage == Stage("uniq", {}, Same, 0)
HeadN(n) == Stage("head", {}, Same, n)
WcL == Stage("wc", {"lines"}, Same, 0)

Firsts == {Rg({1, 3}), Rg({2}), RgMax, RgCount, Sort({})}
Middles == {<<>>, <<Rg({1, 2})>>, <<Cut>>, <<Sed1d>>}
Tails == {<<>>, <<HeadN(0)>>, <<HeadN(2)>>, <<WcL>>} \cup
  {<<s>> \o u \o <<HeadN(2)>> :
     s \in {Sort({}), Sort({"reverse"}), Sort({"unique"})}, u \in {<<>>, <<UniqStage>>}}

AllCommands == {<<f>> \o m \o t : f \in Firsts, m \in Middles, t \in Tails}

(* Pipelines the engine shards although shards do not add up for them: uniq *)
(* behind a per-shard head, a descending merge, a bound on matches, a line  *)
(* address.                                                                 *)
NotAdditive ==
  {<<Rg(Lines), Sort({}), UniqStage, HeadN(2)>>,
   <<Rg(Lines), Sort({"reverse"}), HeadN(1)>>,
   <<RgMax>>,
   <<Rg(Lines), Sed1d>>}

NotSharded == {<<Rg(Lines), Sort({"unique"}), HeadN(2)>>}

(* Every kind of pipeline whose answer is not the single file's.           *)
Divergent == NotAdditive \cup NotSharded

ShortCorpora == BoundedSeq(Lines, 3)
=============================================================================
