# GrepSeek: TLA+ models, checks and proofs

GrepSeek trains and runs an agent that answers questions by searching a 14 GB
text corpus (`wiki_corpus.jsonl`) with shell pipelines such as
`rg -F 'x' corpus.jsonl | head -n 3`.  This directory holds TLA+ modules for the
parts of it that are hard to get right: threads that share a pool of model
servers, the generation of training data by a program that is killed and resumed,
a search engine that splits a pipeline over shards, a daemon in front of that
engine, the builder of the shards, an index that narrows a pipeline to the lines it
could print, the runner of the agent, and a rollout of reinforcement learning from
its prompt to its score.

Paths below are relative to the repository (`sft/...`, `inference/...`,
`rl/...`).

## 1. Inventory

| component | state it keeps | operations | hard because of |
|---|---|---|---|
| LLM server pool, `sft/data_generation/utils/server_pool.py` | entries with `in_flight`, cap, cooldown, streak, draining; LRU affinity; `_last_mtime` | `chat`, `forget`, reloader thread, `close` | worker threads and a reloader around one condition variable; requests run without the lock; hot reload of caps and servers; deadlines and retries |
| SFT data driver, `create_data.py` | three output files, set of done ids | `process_one`, resume, export | crash between two files, torn last line, parallel examples |
| trajectory generation, `utils/pipeline.py`, `utils/llm.py` | the record of one example | decompose, backward discovery, tutor, judge | many early aborts, steps feeding each other |
| agent loop, `inference/agent.py` | messages, count of consecutive parse errors | `run_agent_on_example` | protocol of turns, retry after overflow, turn cap |
| task runner, `inference/run.py` | `predictions.jsonl`, summary | `run_task` with resume | crash and resume, torn line, parallel examples |
| tool runner, `inference/tools.py` | none | validate, rewrite, execute (file, engine or PACE), truncate | which rewriting applies when, time-outs |
| sharded engine, `inference/parallel_search/{pipeline,engine,runners}.py` | shard list, `last_stats` | `classify`, `execute`, four runners, fallback | equivalence with the single file, shards that fail or time out |
| search daemon and client, `daemon.py`, `client.py` | socket file, one engine, handler threads | `serve`, `handle`, `DaemonClient.execute` | shared engine, late replies, stale sockets, crashes |
| shard builder, `sharder.py` | shard files, `manifest.json` | `build_shards` | crash between steps, reuse, stale files |
| PACE prefilter, `inference/pace/core.py` and `_native/*.c` | postings, vocabulary, offsets, metadata, process-wide caches of the structure and the corpus mapping | `build_pace`, `check_fresh`, `plan`, `classify_for_pace`, native verification | equivalence with a full scan, rebuild in place, stale caches, bit-level codecs |
| RL agent loop and tool, `rl/grepseek/trainer/verl_integration/`, over `verl/.../tool_agent_loop.py` | token ids, mask, turn counts, pending calls | pending, generating, processing tools, terminal error | one token budget filled by two classes, several caps, invalid requests that end a rollout |
| RL reward, `reward_function.py` | none | which answer is read, failed and invalid rollouts, format gate, penalty | tags in tool output, cut-off rollouts |
| scoring, prompts, loading, export, containers, notebooks | none | pure text and file conversion | - |
| the rest of `verl/`, `inference/pace/_native/libsais` | - | vendored | - |

How they interact: `create_data.py` runs many `process_one` threads, each makes a
trajectory by many calls of the pool's `chat()` through `ServerLLM`; `run.py` runs
many agent loops, each calls `run_tool`, which goes to a PACE structure, a
`ShardedSearchEngine` in process, or a `DaemonClient` that speaks to a daemon
holding one engine; the engine reads the shards and the manifest that `sharder.py`
wrote, the prefilter the files `build_pace` wrote.  In training, verl's reward
manager gives the transcript of a rollout of `GrepSeekAgentLoop` to
`grepseek_reward`.

What makes each correct:

* **pool** - a server never has more requests than its cap allows at the moment
  one starts; no slot leaks; a reload never disturbs a request in flight; every
  call returns; the last edit of the file takes effect.
* **engine** - the same output and exit code as the single-file run, however the
  lines fall into shards; partial failures neither invent lines nor hide.
* **daemon** - a reply reaches the call it answers and no other;
  no traces of a clean stop.
* **shard builder** - a finished build is the corpus, cut, whatever was killed or
  failed before; shards of two cuts never lie side by side; reuse happens only for
  what is really there, unless a build broke off.
* **agent loop, runners, driver** - one row per example, across crashes and
  resumes; the protocol of turns and its counters; a step that is trained on was
  confirmed by the output of its own command.
* **PACE** - narrowing never loses a line the pipeline would print.
* **RL** - there is room for a token whenever one is asked for, unless the prompt
  took it; the mask says who wrote what; full marks are for the model's own answer.

`PROJECT.json` lists every component with its status and every hazard with the
properties that watch it.

## 2. Plan

Done: `ServerPool` and its abstraction `ServerSlots`; `Pipelines` +
`ShardedSearch`; `SearchDaemon`; `Sharder`; `AgentLoop` + `RowFile` composed in
`TaskRun`; `Trajectory` + `RowFile` composed in `DataRun`; `PaceText` +
`PaceFiles` + `Pace`; `RlText` + `RlLoop`; and the proofs of section 5.

Left: a time-out of the single-file path in `Pace`, and the PACE path and the engine
in one module with the daemon's client.

## 3. Modules

### ServerPool, ServerSlots (`server_pool.py`, `process_one`)

A pool entry is a Python object with an identity: a worker holds a reference to it
while its request is out, without the lock, and meanwhile the map `_servers` may
have dropped or replaced it.  So `servers` maps keys to *objects* of `heap`, and
`held[c]` is the object worker `c` refers to.  An object nobody refers to becomes
`Unused` (`Reclaimed`).  One step is one critical section (or one action outside
the lock):

| action | code |
|---|---|
| `InitRead`, `InitStat` | `__init__`: read and seed, then `getmtime` |
| `StartChat`, `CheckDeadline` | the deadline is set; the outer `while` looks at it |
| `Pick` | one turn of the inner loop: sweep, `_pick_locked`, deadline, wait |
| `Succeed`, `FailRetryable`, `FailForGood` | the request ends and the lock is taken again, whole block (`Settle` is the shared part) |
| `Forget` | `process_one`'s `finally` |
| `ReloadStat`, `ReloadRead`, `ReloadApply` | the reloader: mtime, read outside the lock, apply under it |
| `Edit`, `Tick` | the operator's editor; one unit of time for all timers |

`cv.wait(timeout=min(remaining, 1.0))` leaves the worker at `pick`: whether it was
notified or timed out, its next turn may come at any time.  Timers are kept as
what is left of them.  The example id is the worker (an example runs on one
thread), so affinity is a function of workers with an LRU order.

`ServerSlots` is what the pool promises without threads, entries or files: a load
grows only below the limit, limits may change at any time without touching what
runs, and some server can be used after each change.  `ImplementsSlots` is the
refinement: the load of a server counts requests sent to it through *whatever*
object, so a replaced entry that lost count of its requests would break it.

### Pipelines, ShardedSearch (`parallel_search/{pipeline,engine,runners}.py`, `run_tool`)

A line is a number in sort order.  A stage has a program, flags, a count and a
function from a line to the lines it makes of it (rg, cut, tr, sed).  `RunPipeline` is
what bash does with it; `Strategy` is `classify`.  A sorted text is defined by
counting: its k-th line is the least one with k lines not above it, whoever sorted.
`ShardedSearch` is one tool call: `Dispatch` (rewrite of the file name,
classification), a step per shard (`ShardEnds`, `ShardTimesOut`) in any order, and the
merge of the strategy.  How the lines fall into shards (`cuts`) is arbitrary: `split
-n l/N` cuts by bytes.

### SearchDaemon (`daemon.py`, `client.py`, `engine.last_stats`)

Daemons (new, between the removal of a stale socket and `bind`, serving, failed,
stopped, crashed) around one path; a handler per connection in two steps
(`Executed` writes `last_stats`, `SendReply` reads it back); clients with a fresh
connection per call.  A connection is the pair of client and call number, which
is how a reply can be told from another call's.

### Sharder (`sharder.py`, `engine.__init__`)

One build in its steps: read the manifest and perhaps reuse, hash, count the lines,
unlink stale files one at a time, split writes one file after the other (each first
partly), verify the number of files and of lines, truncate the manifest, write it.
At every step a build may be killed (`Crash`) or raise (`Fail`: `check_call` when
split finds the disk full, `wc`, an `OSError`), and nothing is undone.  The corpus may
be replaced, by a file renamed over it, between builds or between the steps of one:
hash, count and split then read different corpora, but each reads one of them, since
an open file stays what it was.  `left` is a history variable: what the last build to
touch a shard left behind.  A file's *name* is its place; that it was cut from another
corpus, for another n, or is cut off shows only in the model's record of it - which is
the point.  `EngineStarts` is when an engine accepts the directory.  One build runs
over a directory at a time, and a corpus is not edited in place.

### AgentLoop, RowFile, TaskRun (`inference/agent.py`, `inference/run.py`)

`AgentLoop` is `run_agent_on_example` for each example: one action per way a turn
of the model can go (`ApiError`, `AnswerTurn`, `CallTurn`, `BadTurn`) or of the
tool (`ToolReturns`, `ToolRaises`), with the loop's head in `Continue`.  A message
is its kind; when the thread returns only its record is kept.  `RowFile` is a file
of JSON lines: what a write makes of it (`WithRow`), what a kill in the middle of
one leaves (`CutShort`: nothing, a part, a part ending inside a character, or all
but the newline) and what is read back.  The next row after a line without newline
is glued to it, and neither reads back.

`TaskRun` extends both with `run_task`: `Start` (ids read back, append or
overwrite, futures submitted), `TakeUp` (a pool thread takes the next future),
`WriteRow` (the main thread takes a completed one), `Summarise`, `Killed`, and
`StartFails` where the file does not decode.  Ids of a data set are distinct
(`DatasetAssumption`): the loaders make them strings, and every start is over the
same data set.

### PaceText, PaceFiles, Pace (`inference/pace`, `inference/tools.py`)

`PaceText` has lines (sequences of maximal alphanumeric runs), patterns, what the
programs of a pipeline do with them, and the classifier: which stages are literal
filters, how far the walk over them goes, which words a pipeline yields, when C
code may verify lines instead of rg and when its guard against letters outside
ASCII stops it.  `PaceFiles` has the files and the lookup: Elias-Fano lists with
their low and high parts, the vocabulary in one text with separators, the suffix
array without suffixes of one character, the two binary searches, ranks of
separators, estimates, and the decisions `plan` may come to.  Its arithmetic of
costs is left open: any prefix of the words in the order of their estimates may be
intersected.  `Bound` and the codecs are pure operators, checked against the
definition of a lookup by `LookupExact`.  What is sorted is defined by counting
(`Sorted`: in place k the one with k - 1 before it), a subsequence by its places
(`Picked`), whoever computes them.

`Pace` is a tool call beside a builder and whoever replaces the corpus:

| action | code |
|---|---|
| `StatCorpus`, `OpenCorpus`, `ReadCorpus`, `WriteFile` | `build_pace`: size and mtime, open, one pass, the files one after the other and `meta.json` last |
| `KillBuild`, `ReplaceCorpus` | a kill; a new corpus file under the name |
| `Decide` | `load_pace_from_env` (open and `check_fresh` at the first call, cached), `classify_for_pace`, `plan` |
| `AnswerUnserved`, `AnswerNatively`, `AnswerPiped` | the three ways `run_tool` answers |
| `RestartAgent` | a new process, without caches |

The files are mapped by the reader and rewritten in place, so an open structure is
its metadata and whatever the files hold now; the corpus is replaced as a file, so
a mapping of the old one stays.  Simplifications: a hash table has one of two
orders; numbers are printed in base two, so that small counts have several digits;
looking into files written for another corpus finds at most one line or raises;
which budget a call has is open; a time-out of the pipeline and the cut of the
output to a number of tokens are left out.

### Trajectory, DataRun (`pipeline.py`, `create_data.py`)

`Trajectory` is `generate_trajectory` for each example, one action per exchange with
a model: `Decompose`, then from the last sub-question to the first `Command` (with
the checks that spare the judge), `Judge`, `Bridge`, then `Edit` forwards,
`FinalAnswer`, `Quality`; `TryAgain` is the next iteration or the abort, `Raises` a
`chat()` that fails.  Names stand for answers: `Main(i)` for the one expected of
sub-question i, `Alias(i)` for another form read in the output behind it.  `Generic`
says which of an example's names `_is_generic_answer` calls so, a yes, a number or a
word too short, at any step: such a name is not looked for in the output (Check 2 of
`llm_judge`).  Outputs have no exit code, because no check looks at it: an output with
text on stdout is judged by its text.

`DataRun` extends it with `main()`: `Start` (ids of its own rich file and of a peer's
file read back, files opened), `TakeUp`, `WriteRich` and `WriteChatml` (two steps,
a kill may fall between), `Finish`, `Killed`, `StartFails`, and `PeerWrites`.  It
shares `RowFile` with `TaskRun`: both programs append JSON lines and read ids back
in the same way.

### RlText, RlLoop (`verl_integration`, verl's `ToolAgentLoop`)

`RlText` is how a transcript is read: tool calls of a turn, invalid requests, the
answer, the format gate and the reward; a token of text stands for a line.
Regular expressions and the format gate are scans, recursive functions over the
places of a text.
`RlLoop` is one rollout, one action per state handler with both classes' part in
it: `Prepare`, `Generate` (the parent's checks, then the second look of
`GrepSeekAgentLoop` and its terminal error), `ProcessTools`, `Score`.  Every token
carries who wrote it, which is what the mask has to agree with.  `MaxTokens` is
what the server allows a turn; where it allows nothing the rollout ends in `Raise`
(`generate` raises `ValueError` beyond the context, vLLM's sampling parameters reject
`max_tokens` of 0), and nothing catches it before the `gather` of the batch.
Simplifications: `<reason>` is `<think>`; the check
of the density of Chinese characters and broken tags are left out; the decay is
linear, the mode clamped at 0, an answer in part is worth one half under F1;
the warm-up is left out; rollouts are independent, so there is one; there is no
interaction configured; an abort of a request by the server is a turn of no tokens.
`LoopAssumption` says what prompts are: the chat template leaves them open at
`<think>`, and nothing in the system prompt or the question closes a thought.  Their
length is not bounded: `GrepSeekDataset` takes the place of verl's `RLHFDataset` and
filters nothing, `_handle_pending_state` does not cut, and the configuration only
notes the longest prompt observed.  What the padding of a batch does with a prompt
wider than the others (it fails to concatenate) is not modelled.

## 4. Runs

| run | result | shows |
|---|---|---|
| `ServerPool` | pass, 189 k states | types, `InFlightExact`, `HeldIsListed`, `NoIdleDraining`, `CooldownWithinSchedule`, `OneLateRequest`, refinement of `ServerSlots` |
| `ServerPoolLive` | pass, 194 k states | every `chat()` returns; the last edit is applied, also behind a file of invalid entries |
| `ShardedSearch` | pass, 260 k states | exactness where stages do not depend on positions; nothing invented under time-outs |
| `ShardedExact` | violation | `sort \| uniq \| head`, `sort -r \| head`, `rg -m`, `sed 1d`: sharded, with another result; a fallback command is run on `wiki_wiki_corpus.jsonl` |
| `SearchDaemon` | pass, 262 k states | a reply only to its own call, no stale file after a stop |
| `Sharder` | pass, 300 k states | a finished build is true; shards are of one cut at any time; engines serve one whole corpus and reuse is sound unless a build broke off |
| `TaskRun` | pass, 164 k states | no example twice, rows lost only at a last line without newline, rows survive kills and resumes; parse errors and ends of conversations; every run that is not killed ends |
| `Pace` | pass, 204 k states | a call on coherent files answers what the command prints on the whole corpus; a word is found in exactly its lines; a structure that is opened describes the corpus that is there |
| `PaceExact` | violation | words of one letter with `--min-term-len 1`, `-m` before a later filter, a killed rebuild over the same corpus: each changes what a command prints |
| `DataRun` | pass, 1.7 M states | only confirmed steps are trained on; what kills can double or lose of the training rows |
| `RlLoop` | pass, 22 k states | no turn refused but for a prompt beyond its budget, the mask, full marks, no rollout cut short of its caps |
| `RlFailed` | violation | a rollout cut off in a search goes to the format gate and is not a failed one |

`ShardedExact` and `PaceExact` stop at the first of their counterexamples; narrowed
to any one of the commands, or to builds with `MinTermLens = {2}` and commands
without `-m`, the property is violated as well.

Divergences between code and documentation that the models have and no run is
spent on any more; each was found as a counterexample of the module named:

* `ServerPool` with `EditsDuringStart = TRUE` (`LastEditApplied`): an edit between `__init__`'s read of
  the servers file and its `getmtime` (`server_pool.py:118-123`) is never applied.
* `ShardedSearch`: a shard that times out leaves an incomplete answer with return
  code 0, although `runners.py:14` says that partial failures are surfaced via stderr.
* `SearchDaemon`: `last_stats` in a reply may be of another handler's command
  (`daemon.py:115`), although `engine.py:4` calls the engine thread-safe.
* `Sharder` (`ReusedIsTrue`; `Faults = {"fail"}` is enough): a forced rebuild whose
  split fails, or that is killed, leaves the old manifest over missing or torn shards;
  the next build compares hash, n and names (`sharder.py:61-64`), says that it is
  "reusing existing shards", and engines serve them.  `ReusedIsTrueOfWhole` and
  `EngineServesWhole` except builds that broke off after their first shard, and only
  those.
* `RlLoop` with `AllPrompts`: `grpo_trainer.yaml:100` sets `max_prompt_length: 1024`,
  but nothing in the program holds a prompt to it; a longer one takes its tokens from
  the turns, and one that leaves none has the request refused.
* `DataRun` and `TaskRun` (`StartFails`): `_load_processed_ids` says it "tolerates a
  truncated last line", but a line cut inside a character raises.
* `RlLoop`: a rollout in which not one token was generated (an abort) has the prompt
  as its response, because the slice `[-0:]` is everything (`tool_agent_loop.py:192`),
  so the reward's "zero tokens generated" (`reward_function.py:369`) never sees it.
* `RlText`: `_extract_prediction` accepts a plain last line as an answer, for older
  models, but the format gate behind it gives such a rollout 0.
* `RlText`: a turn cut inside a call of the tool counts as an invalid request, not as
  a rollout that reached its budget; `hit_max_context` is only logged.

Bounds.  *Pool*: two workers contend for two servers of caps 1 and 2 (so that a cap can
shrink under load), three objects (both servers listed and one more that can be
held after it was replaced), two edits (remove and bring back), one time unit of
deadline and a schedule of two cooldowns, an affinity map of one (so that eviction
happens).  *Search*: three distinct lines are enough to tell order, duplicates and
position apart; corpora of up to three lines in two shards include empty shards,
duplicates across a cut and answers longer than `head`'s N.  *Daemon*: two clients
and two calls are what a late reply needs, two daemons what a takeover needs.
*Sharder*: three corpora, two of them with the same number of lines (which the count
cannot tell apart), two or three shards.  Symmetry is used for the identity of
pool objects, in safety runs only.

*TaskRun*, *DataRun*: three examples, because two rows can be lost at once and a third
must not be; two threads; three turns, the fewest in which an error, a good call and
an error again differ from two errors in a row; three starts, so that a run resumes
what a resumed run left.  In `DataRun` the names of the first's second step are all
generic (its last step in chains of two, its middle one in chains of three), the
second's first step has a concrete name only if an alias is read; one example may be
written by the peer, one is skipped for its yes-no answer, chains have up to three
sub-questions (a middle step has both neighbours) and two attempts each; one thread,
since trajectories share nothing but the pool.

*Pace*: two corpora of four and three lines over three letters and the long s,
which rg folds and C does not; ten pipelines, each kind of stage among them; one
replacement and two builds, the fewest that leave files of two builds side by side;
a budget that admits everything and one that skips words and gives up.

*RlLoop*: four prompts, one that fits its budget, one that fills it, one beyond it that
leaves less than a response, and one that leaves nothing (`RlFailed` has the first
two); twelve turns that the parser and the reward tell apart; up to two calls side by side; three answers of the tool,
with answer tags in either order; 46 tokens, so that a rollout can end at the caps
(three answers, four turns) and at the budget, inside a turn and inside a terminal
error.

Deadlock is checked in every passing run but `TaskRun`'s and `DataRun`'s, where
nobody has to start the program once more and the model stops after the last start.
That a rollout of `RlLoop` ends follows from it: every step but the last one changes
its phase or adds a turn, and the graph TLC explores is finite.

Fairness.  `ServerPool!Fairness`: worker and reloader threads get to run, a request
ends (the HTTP client has a time-out), time passes; nothing is assumed of when
examples begin or files are edited, nor of a worker winning a contended slot.
`TaskRun!FairSpec`: a pool thread and the main thread get to run, and the model's
server and the tool answer, fail or time out; nothing of starts and kills.
That a client's call to a daemon returns is not stated: it rests on the client's
socket time-out and on nothing a daemon does.

## 5. Proofs

Every invariant and step property a passing run checks is also proved for all values
of the constants; liveness is not (see the end).  The proofs
rest on the named assumptions on the constants of their modules, which TLC evaluates
in the runs, and on nothing else.  Each inductive invariant below was first checked
by TLC on the component's run.

| module | theorem | states |
|---|---|---|
| `ServerPoolProofs` | `TypeCorrect`, `InFlightAccounting`, `HeldStaysListed`, `DrainedLeaves`, `CooldownsOnSchedule`, `AtMostOneLate` | `TypeOK`, `InFlightExact`, `HeldIsListed`, `NoIdleDraining`, `CooldownWithinSchedule`, `OneLateRequest` |
| | `SlotsImplemented` | `ImplementsSlots`, the refinement |
| `ShardedSearchProofs` | `TypeCorrect`, `ExactOverShards`, `InventsNothing` | `TypeOK`, `ExactWhereSafe`, `NeverInvents` |
| `SearchDaemonProofs` | `TypeCorrect`, `RepliesAreOwn`, `StaleMeansCrash` | `TypeOK`, `OwnReply`, `StaleOnlyAfterCrash` |
| `SharderProofs` | `TypeCorrect`, `BuildsAreTrue`, `NeverTwoCuts`, `EnginesServeWhole`, `ReuseIsSound` | `TypeOK`, `BuiltIsTrue`, `ShardsOfOneCut`, `EngineServesWhole`, `ReusedIsTrueOfWhole` |
| `TaskRunProofs` | `TypeCorrect`, `ParseErrorTwoInARow`, `RowsTell`, `NoExampleTwiceAlways`, `LosesTwoAtMost`, `RowsSurviveAlways` | `TypeOK`, `ParseErrorIsTwoInARow`, `RowsTellHowTheyEnded`, `NoExampleTwice`, `LosesOnlyAtOpenTail`, `RowsSurvive` |
| `DataRunProofs` | `TypeCorrect`, `ConfirmedStepsOnly`, `TrainedOnce`, `KillsCostTwoRows` | `TypeOK`, `TrainsOnConfirmedSteps`, `TrainedTwiceOnlyBehindOpenLine`, `TrainingRowsLostToKills` |
| `RlLoopProofs` | `TypeCorrect`, `RefusedForPrompt`, `MaskTellsAlways`, `FullMarksAreEarned`, `NoneIsCutShort` | `TypeOK`, `RefusesOnlyPrompts`, `MaskTellsWhoWrote`, `FullMarksForOwnAnswer`, `NotCutShort` |
| `PaceProofs` | `TypeCorrect`, `LookupAlwaysExact`, `AlwaysExactWhenCoherent`, `OpenedAlwaysDescribesCorpus` | `TypeOK`, `LookupExact`, `ExactWhenCoherent`, `OpenedDescribesCorpus` |

**ServerPool.**  `InFlightExact` and `HeldIsListed` are not inductive alone.  `IInv`
adds: an entry is listed only under its own key, a worker holds an entry exactly while
its call is out, and the reloader has read a parsed configuration before it applies
one.  The two need each other: an entry with requests out is not drained (so it stays
listed) *because* its `in_flight` is exact, and the count survives a reload *because*
held entries are the listed ones and only unreferenced objects become new entries.
The counting argument is about `Cardinality(CallersOf(e))` under a change of one
worker.  On top of it `HInv` follows what each step does to the listed entries: no
entry drains idle, so a sweep finds nothing to drop; caps are those of the file; a
cooldown stands for its streak.  `AtMostOneLate` needs `LateEnds`: a worker that sent
a late request is not back at its pick, because the loop's next look at the deadline
ends the call.  For the refinement the load `ServerSlots` sees, requests sent to a
server through whatever object, is that of the listed entry (`LoadsListed`); then each
action is an `Acquire`, a `Release` or a `Resize`, or changes neither loads nor
limits.

**Sharder.**  The invariant records how far a build has come: before the split place
0 is next (`NotYetSplit`); during it the places before `next` hold their shard, `next`
perhaps half of it, the rest nothing (`SplitSoFar`); after it exactly n shards
(`SplitWhole`), of as many lines as were counted (`Counted`); hash and cut are the
source's unless it was replaced (`HashTaken`).  `LeftTrue` is about the directory:
until a build removes the first stale shard, and after one has written its manifest,
the directory holds what the manifest says.  `ShardsOfOneCut` is inductive with these,
because a build writes its first shard only where no shard is left.  `ReuseIsSound`
adds that a build that ends early has compared the manifest with what it was asked
for.

**SearchDaemon.**  A reply travels on the connection of the command it answers
(`RepliesOnOwnWire`), a handler at work has a daemon, a client that waits has called.

**AgentLoop, TaskRun.**  `TInv` ties what a thread holds to where it is
(`Conversations`): turns alternate, no two malformed ones in a row so far, and the
counter of consecutive errors is 1 exactly when the last turn was rejected.  Without
the last clause neither the parse error nor the ends of conversations are inductive.
For rows, `Unwritten` says that while a run is on, no example somebody works on or
whose result waits has one: a start establishes it by reading the file back, and
collecting a result and writing its row are one step.  A write, finished or cut
short, only *grows* the file (`Grows`): it leaves all but the last line alone.  What a
run may lose is counted by cases of the open line (`LostAtOpenTail`): nothing until
the first row is glued to it, then at most two.

**DataRun.**  `Sound` says of every trajectory that each step it keeps was confirmed
by its own output, step by step through the backward and the forward pass.  Training
rows are paid for by kills: `Cardinality(Untrained) + Debt(chatml) <= 2 * kills`, where
an open last line is a debt of two if it reads back and of one if not, because the
next row glued to it costs itself and that line.  A kill buys two; no other step
raises the sum.

**Pipelines, ShardedSearch.**  Induction over data goes through sets in place of
predicates: every non-empty set of naturals has a least element (`LeastElement`, from
the library's well-founded order of finite sets), so a set with 0 that is closed
under successor is everything (`Climb`), and likewise for sequences
(`GrowSequence`); a recursion has a function (`RecursionExists`), which opens the
recursive functions of the model and `FlattenSeq`.  With these:

* a stage that looks at each line alone, and so every row of such stages, distributes
  over concatenation (`OutputConcat`, `OutputOfParts`), and the shards end to end are
  the corpus (`CorpusInShards`), for every cut;
* sorting is a matter of counts (`SortedPlace`, `FirstOfSorted`), and the first N lines
  of each sorted part, merged, begin as the sorted whole (`MergeOfParts`); taking and
  counting have `TakeOfParts` and `CountOfParts`;
* under time-outs a merge has at most the copies of each line the whole has
  (`Fewer`, `FewerOfParts`), `uniq` after a sort leaves one (`UniqLeavesOne`,
  `UniqOfRising`).

`IInv` itself is short: what a part can be (`PartsRun`) and what an answer was merged
from (`Merged`).  Two operators with overlapping `CASE` arms, `Strategy` and
`FormatStep`, could not be reasoned about, since `CASE` then chooses any arm that
applies; both are now ordered as the code's `if`s are.

**RlText, RlLoop.**  For room and mask, `IInv` (`Consistent`) says that the tokens
before the masked ones are the prompt's (`Begun`), and that the mask is right under
every token still to be cut.  While a turn is to be generated the mask is shorter than
the response, so that with a prompt within its budget a token fits; a refused rollout
began with a longer one (`RefusedForPrompt`); one lemma, `Extension`, shows that appending tokens
with the bits for them keeps it, whoever appends.  `Whose` is about who wrote the end:
a valid rollout has an opening `<think>` behind which the model wrote everything
(`Opened`), and no closing tag in the prompt (`Unclosed`).  Full marks need a
well-formed text, and `FinalAnswer` shows by induction along the two scans that such a
text, when the answer read from it is right, ends in the block with that answer. These
last three tokens cannot reach over the `<think>` in front of what the model wrote
last, and `HeardSplit` shows that decoding does not move this border.
`NoneIsCutShort` has a hypothesis on the constants, `CapsLeaveRoom`: a turn of the
model is left behind the last one of the tool, and a response is as long as any
prompt.  The repository's configuration has 5 user turns under 6 assistant turns, and
1024 under 15360 tokens; with two turns of each TLC finds the property violated, and
the second part is for a rollout of no tokens, whose response is the prompt.

**PaceText, PaceFiles.**  `LookupExact` is a theorem about pure operators
(`GathersHeld`), along the path a lookup takes:

* the order of words is total (`WordsOrdered`), so a sorted set has each member in the
  place it counts to (`RankedSequence`), and the suffix array lists the indexed places
  in the order of their suffixes;
* comparing with a word respects that order (`CompareGrows`), so the array splits where
  the comparison changes, and a binary search that halves ends at the split
  (`HalvingFinds`); between the two bounds are the places that begin with the word
  (`SearchFinds`).  A word of two letters is found although suffixes of one are
  not in the array (`HeldIndexed`);
* the text is the terms, each with a separator behind it, and as many separators as
  terms lie before a place (`TextLaid`), so ranks are the terms with the word inside
  (`TermsFound`);
* a posting list survives its code (`DecodesEncoded`): the high parts, each raised by
  its index, are distinct and rise, and the number of low bits does not matter.

**Pace.**  `IInv`: every stamp on record, in a file or in the builder's hand, is older
than the corpus or on the lines the corpus has.  It holds because the stamp is taken
*before* the corpus is opened: between the two a record may only become older.
`TInv` adds that what lies in a file, in the builder's hand or open in the agent is
`Made`, a build of a corpus in an order of its vocabulary; that the lines the agent
has mapped are the corpus's as long as its structure is fresh; and that candidates
decided on coherent files keep every line with the words of the pipeline (`Deciding`).
`AlwaysExactWhenCoherent` then needs no further invariant, only what the answer is:

* a stage that is not inverted lets through no line without the words of its
  pattern, folded, inside tokens of the folded line (`MatchedHolds`), whether it
  folds, whether it asks for whole words, and at the ends of a pattern too;
* up to the last such stage (`LastPattern`) a pipeline without `-m` there is a
  filter: picking twice is picking once (`PickedTwice`), so that stage sees the same
  lines in the candidates as in the corpus, and so does whatever follows (`RunAmong`);
* C's loop selects the same lines on what its guard lets pass, because no letter there
  folds into ASCII that is not ASCII itself (`FoldsAlike`), and stopping at the n-th
  is taking the first n (`FoundBeforeHead`, `NativelyAsPiped`).

The exceptions in the property are the premises of `CoherentCall`; the run `PaceExact`
shows that it needs them.  `SelectSeq` and `FoldLeft` could not be reasoned
about here (they are defined through operators as arguments); `Picked`, `Sorted` and
recursive functions took their place in the model.

Model-checked only: all liveness, `ChatReturns`, `LastEditApplied`
and `RunEnds`, which is out of the prover's reach.

## 6. Not modelled

Tokenising of shell commands, in `classify` and in `classify_for_pace` (stages are
given parsed), telemetry logs, the wording of messages and prompts, the environment
passed to subprocesses, command validation, and the components marked so in
`PROJECT.json`, each with its reason.  The arithmetic of time-outs (a client waits
the tool's time-out plus five seconds, and `sort_head` runs two timed stages) is not
in the models: a time-out may happen whenever it is pending.  Of `run.py`, one data
set is modelled, without scores and timing; a kill while `summary.json` is written is
not, nor a power failure (rows are flushed, not synced).  `_chat_completion` with
its clamped retry is one step, and so are the repeated questions of the trajectory
pipeline until an answer parses.  For the shard builder, a corpus *renamed over* the
old one during a build is modelled; one edited in place, and two builds of one
directory at a time, are not.

`verl/` makes up more than nine tenths of the repository's lines.  It is a vendored
framework (`verl/VENDORED.md`): trainers for other algorithms, model definitions,
kernels, workers for several back-ends, experiments.  Of it the modules cover what a
rollout of this program runs through.  Its distributed trainer is started with a
configuration and not changed, and modelling it would be a model of verl and not of
GrepSeek; this is why the share of all lines that is modelled stays small, while the
program's own stateful code is covered.
