------------------------------- MODULE TaskRun -------------------------------
(***************************************************************************)
(* run_task of src/inference/run.py over one data set: a thread pool runs  *)
(* the agent of AgentLoop on every example that has no row yet, the main   *)
(* thread appends each result to predictions.jsonl as it completes, and    *)
(* reads the file back for the summary.  The process may be killed at any  *)
(* point, in the middle of a row too, and started again with or without    *)
(* --resume.                                                               *)
(***************************************************************************)
EXTENDS AgentLoop, FiniteSets

CONSTANTS
  Dataset,        \* the examples in the order of the data set, as a sequence
  Parallel,       \* --parallel
  MaxStarts,      \* bound: how often the program is started
  Torn, Garbled   \* texts of broken lines, see RowFile

ASSUME DatasetAssumption ==
  /\ Dataset \in Seq(Examples)
  /\ IsInjective(Dataset)
  /\ Examples = {Dataset[i] : i \in DOMAIN Dataset}

ASSUME TextsAssumption ==
  Torn \notin Examples /\ Garbled \notin Examples /\ Torn # Garbled

ASSUME ParallelAssumption == Parallel \in Nat \ {0} /\ MaxStarts \in Nat

INSTANCE RowFile WITH Ids <- Examples

VARIABLES
  process,    \* "down", "running", "done" (summary written), "failed" (raised)
  file,       \* predictions.jsonl
  summary,    \* n_total of summary.json
  starts,     \* bound: starts so far
  openTail    \* history: the file this run appends to had no newline at its end

runVars == <<process, file, summary, starts, openTail>>
vars == <<agentVars, runVars>>

TypeOK ==
  /\ AgentTypeOK
  /\ process \in {"down", "running", "done", "failed"}
  /\ file \in Seq(Lines)
  /\ \A i \in DOMAIN file : i < Len(file) => file[i].ended
  /\ summary \in 0 .. Cardinality(Examples)
  /\ starts \in 0 .. MaxStarts
  /\ openTail \in BOOLEAN

NobodyWorks(ph) ==
  /\ phase' = ph
  /\ messages' = [e \in Examples |-> <<>>]
  /\ parseErrors' = [e \in Examples |-> 0]
  /\ record' = [e \in Examples |-> NoRecord]

Init ==
  /\ phase = [e \in Examples |-> "out"]
  /\ messages = [e \in Examples |-> <<>>]
  /\ parseErrors = [e \in Examples |-> 0]
  /\ record = [e \in Examples |-> NoRecord]
  /\ process = "down"
  /\ file = <<>>
  /\ summary = 0
  /\ starts = 0
  /\ openTail = FALSE

(***************************************************************************)
(* The start of run_task: the ids already there, the examples that remain, *)
(* append or overwrite, and every future submitted.                        *)
(***************************************************************************)
Seen(resume) == IF resume THEN ReadBack(file) ELSE {}

\* Bug for a mutant: the file is always appended to.
FileAppended(resume) == file

\* Bug for a mutant: the file is overwritten although rows were read from it.
FileOverwritten(resume) == <<>>

FileOpened(resume) == IF resume /\ Seen(resume) # {} THEN file ELSE <<>>

Start(resume) ==
  /\ process # "running"
  /\ starts < MaxStarts
  /\ resume => Decodes(file)
  /\ process' = "running"
  /\ starts' = starts + 1
  /\ file' = FileOpened(resume)
  /\ openTail' = Open(file')
  /\ NobodyWorks([e \in Examples |-> IF e \in Seen(resume) THEN "out" ELSE "queued"])
  /\ UNCHANGED summary

\* _load_existing_ids raises UnicodeDecodeError; main reports it and goes on.
StartFails ==
  /\ process # "running"
  /\ starts < MaxStarts
  /\ ~Decodes(file)
  /\ process' = "failed"
  /\ starts' = starts + 1
  /\ UNCHANGED <<agentVars, file, summary, openTail>>

(***************************************************************************)
(* A thread of the pool takes the next future, in the order submitted.     *)
(***************************************************************************)
Busy == {e \in Examples : phase[e] \in {"llm", "tool"}}

TakeUp ==
  /\ process = "running"
  /\ Cardinality(Busy) < Parallel
  /\ \E i \in DOMAIN Dataset :
       /\ phase[Dataset[i]] = "queued"
       /\ \A j \in 1 .. i - 1 : phase[Dataset[j]] # "queued"
       /\ Continue(Dataset[i], <<>>, 0)
  /\ UNCHANGED <<process, file, summary, starts, openTail>>

Agent(e) ==
  /\ process = "running"
  /\ AgentStep(e)
  /\ UNCHANGED runVars

(***************************************************************************)
(* The main thread: one row per completed future, then the summary.        *)
(***************************************************************************)
Collected(e) ==
  /\ phase' = [phase EXCEPT ![e] = "out"]
  /\ record' = [record EXCEPT ![e] = NoRecord]
  /\ UNCHANGED <<messages, parseErrors>>

\* Bug for a mutant: only examples that ended by themselves get a row.
WriteRowOfGood(e) ==
  /\ process = "running"
  /\ phase[e] = "ended"
  /\ file' = IF record[e].finish = "exception" THEN file ELSE WithRow(file, e)
  /\ Collected(e)
  /\ UNCHANGED <<process, summary, starts, openTail>>

WriteRow(e) ==
  /\ process = "running"
  /\ phase[e] = "ended"
  /\ file' = WithRow(file, e)
  /\ Collected(e)
  /\ UNCHANGED <<process, summary, starts, openTail>>

RowCount == Cardinality({i \in DOMAIN file : file[i].text \in Examples})

Summarise ==
  /\ process = "running"
  /\ \A e \in Examples : phase[e] = "out"
  /\ process' = "done"
  /\ summary' = RowCount
  /\ UNCHANGED <<agentVars, file, starts, openTail>>

(***************************************************************************)
(* The process is killed, between two rows or in the middle of one.        *)
(***************************************************************************)
Killed ==
  /\ process = "running"
  /\ \/ UNCHANGED file
     \/ \E e \in Examples : phase[e] = "ended" /\ file' \in CutShort(file, e)
  /\ process' = "down"
  /\ NobodyWorks([e \in Examples |-> "out"])
  /\ UNCHANGED <<summary, starts, openTail>>

Next ==
  \/ \E resume \in BOOLEAN : Start(resume)
  \/ StartFails
  \/ TakeUp
  \/ \E e \in Examples : Agent(e) \/ WriteRow(e)
  \/ Summarise
  \/ Killed

Spec == Init /\ [][Next]_vars

(***************************************************************************)
(* Fairness: threads run, the model's server and the tool answer or time   *)
(* out (the client and run_tool have timeouts), and the main thread takes  *)
(* what as_completed gives.  Nobody has to start or to kill the program.   *)
(***************************************************************************)
FairSpec ==
  /\ Spec
  /\ WF_vars(TakeUp) /\ WF_vars(Summarise)
  /\ \A e \in Examples : WF_vars(Agent(e)) /\ WF_vars(WriteRow(e))

-----------------------------------------------------------------------------
(***************************************************************************)
(* However often the program is killed and resumed, no example has two     *)
(* rows that read back: n_total and the averages count each once           *)
(* (run.py:253 skips what is there, :265 submits the rest).                *)
(***************************************************************************)
NoExampleTwice ==
  \A i, j \in DOMAIN file :
    file[i].text = file[j].text /\ file[i].text \in Examples => i = j

(***************************************************************************)
(* A run that ends by itself has a row for every example, and its summary  *)
(* counts them all, unless the file it went on with ended without newline. *)
(* Then at most two rows are lost: the one of that last line and the first *)
(* one appended to it (run.py:258, :283).                                  *)
(***************************************************************************)
Missing == Examples \ ReadBack(file)

LosesOnlyAtOpenTail ==
  process = "done" =>
    /\ summary = Cardinality(ReadBack(file))
    /\ Missing # {} => openTail /\ Cardinality(Missing) <= 2

(***************************************************************************)
(* A resumed run and its kills keep every row that reads back, but for the *)
(* one that lacks its newline; only a start without --resume gives up      *)
(* rows (run.py:258: overwrite unless something was seen).                 *)
(***************************************************************************)
RowsSurvive ==
  [][\/ Start(FALSE)
     \/ ReadBack(file) \ ReadBack(file')
          \subseteq (IF Open(file) THEN {Last(file).text} ELSE {})]_vars

(***************************************************************************)
(* Every run ends: whatever the model says, each example reaches a row     *)
(* within its turns, and the run its summary, unless it is killed.         *)
(***************************************************************************)
RunEnds == process = "running" ~> process # "running"
=============================================================================
