------------------------------- MODULE DataRun -------------------------------
(***************************************************************************)
(* main() of src/sft/data_generation/create_data.py: a thread pool makes   *)
(* the trajectories of the examples that have no row yet, here or in the   *)
(* file of a peer; the main thread appends each record, as it completes,   *)
(* to the rich file and, if it is to be trained on, to the chatml file.    *)
(* The process may be killed at any point, in the middle of a row too, and *)
(* started again with or without --resume.  The peer goes on by itself.    *)
(***************************************************************************)
EXTENDS Trajectory, FiniteSets

CONSTANTS
  Dataset,        \* the slice of the data set, as a sequence
  YesNo,          \* examples with a yes-no gold answer, which are skipped
  PeerShare,      \* examples the peer may write a row for
  Parallel,       \* --parallel_examples
  MaxStarts,      \* bound: how often the program is started
  Torn, Garbled   \* texts of broken lines, see RowFile

ASSUME DataAssumption ==
  /\ Dataset \in Seq(Examples) /\ IsInjective(Dataset)
  /\ Examples = ToSet(Dataset)
  /\ YesNo \subseteq Examples /\ PeerShare \subseteq Examples
  /\ Torn \notin Examples /\ Garbled \notin Examples /\ Torn # Garbled
  /\ Parallel \in Nat \ {0} /\ MaxStarts \in Nat

INSTANCE RowFile WITH Ids <- Examples

VARIABLES
  process,    \* "down", "running", "done", "failed" (raised before it began)
  rich,       \* --out
  chatml,     \* --out_chatml
  writing,    \* {e} when e's chatml row is due (its rich row is out), or {}
  peer,       \* the file of --resume_from
  starts,     \* bound: starts so far
  kills,      \* history: kills since the files were last emptied
  glued,      \* history: since then a start went on behind an open last line
  good        \* history: examples whose last rich row is to be trained on

runVars == <<process, rich, chatml, writing, peer, starts, kills, glued, good>>
vars == <<trajectoryVars, runVars>>

TypeOK ==
  /\ TrajectoryTypeOK
  /\ process \in {"down", "running", "done", "failed"}
  /\ \A file \in {rich, chatml, peer} :
       /\ file \in Seq(Lines)
       /\ \A i \in DOMAIN file : i < Len(file) => file[i].ended
  /\ writing \in SUBSET Examples /\ Cardinality(writing) <= 1
  /\ starts \in 0 .. MaxStarts /\ kills \in 0 .. MaxStarts
  /\ glued \in BOOLEAN /\ good \subseteq Examples

NobodyWorks(ph) ==
  /\ phase' = ph
  /\ work' = [e \in Examples |-> NoWork]
  /\ result' = [e \in Examples |-> NoResult]

Init ==
  /\ phase = [e \in Examples |-> "out"]
  /\ work = [e \in Examples |-> NoWork]
  /\ result = [e \in Examples |-> NoResult]
  /\ process = "down"
  /\ rich = <<>> /\ chatml = <<>> /\ peer = <<>>
  /\ writing = {}
  /\ starts = 0 /\ kills = 0
  /\ glued = FALSE
  /\ good = {}

(***************************************************************************)
(* The start of main(): ids read back, the examples that remain, and the   *)
(* files opened to be appended to (--resume) or written anew.              *)
(***************************************************************************)
\* Bug for a mutant: only the peer's rows are looked at.
DoneByPeer(resume) == ReadBack(peer)

Done(resume) == ReadBack(peer) \cup IF resume THEN ReadBack(rich) ELSE {}

\* Bug for a mutant: only the rich file is appended to.
ChatmlEmptied(resume) == <<>>

ChatmlOpened(resume) == IF resume THEN chatml ELSE <<>>

Readable(resume) == Decodes(peer) /\ (resume => Decodes(rich))

Start(resume) ==
  /\ process # "running"
  /\ starts < MaxStarts
  /\ Readable(resume)
  /\ process' = "running"
  /\ starts' = starts + 1
  /\ NobodyWorks([e \in Examples |-> IF e \in Done(resume) \cup YesNo THEN "out" ELSE "queued"])
  /\ rich' = IF resume THEN rich ELSE <<>>
  /\ chatml' = ChatmlOpened(resume)
  /\ kills' = IF resume THEN kills ELSE 0
  /\ glued' = (resume /\ (glued \/ Open(rich)))
  /\ good' = IF resume THEN good ELSE {}
  /\ UNCHANGED <<writing, peer>>

\* _load_processed_ids raises on bytes that do not decode: nothing is opened.
StartFails(resume) ==
  /\ process # "running"
  /\ starts < MaxStarts
  /\ ~Readable(resume)
  /\ process' = "failed"
  /\ starts' = starts + 1
  /\ UNCHANGED <<trajectoryVars, rich, chatml, writing, peer, kills, glued, good>>

Busy == {e \in Examples : phase[e] \in Working}

TakeUp ==
  /\ process = "running"
  /\ Cardinality(Busy) < Parallel
  /\ \E i \in DOMAIN Dataset :
       /\ phase[Dataset[i]] = "queued"
       /\ \A j \in 1 .. i - 1 : phase[Dataset[j]] # "queued"
       /\ Begin(Dataset[i])
  /\ UNCHANGED runVars

Generate(e) ==
  /\ process = "running"
  /\ TrajectoryStep(e)
  /\ UNCHANGED runVars

(***************************************************************************)
(* The main thread, one completed future at a time: the rich row and its   *)
(* flush (the pretty text follows, which nobody reads back), then the row  *)
(* of the chatml file.                                                     *)
(***************************************************************************)
Collected(e) ==
  /\ phase' = [phase EXCEPT ![e] = "out"]
  /\ result' = [result EXCEPT ![e] = NoResult]
  /\ UNCHANGED work

WriteRich(e) ==
  /\ process = "running"
  /\ writing = {}
  /\ phase[e] = "ended"
  /\ rich' = WithRow(rich, e)
  /\ writing' = IF Exported(result[e]) THEN {e} ELSE {}
  /\ good' = IF Exported(result[e]) THEN good \cup {e} ELSE good \ {e}
  /\ Collected(e)
  /\ UNCHANGED <<process, chatml, peer, starts, kills, glued>>

WriteChatml(e) ==
  /\ process = "running"
  /\ writing = {e}
  /\ chatml' = WithRow(chatml, e)
  /\ writing' = {}
  /\ UNCHANGED <<trajectoryVars, process, rich, peer, starts, kills, glued, good>>

Finish ==
  /\ process = "running"
  /\ writing = {}
  /\ \A e \in Examples : phase[e] = "out"
  /\ process' = "done"
  /\ UNCHANGED <<trajectoryVars, rich, chatml, writing, peer, starts, kills, glued, good>>

Killed ==
  /\ process = "running"
  /\ \/ UNCHANGED <<rich, chatml>>
     \/ /\ \E e \in Examples :
             writing = {} /\ phase[e] = "ended" /\ rich' \in CutShort(rich, e)
        /\ UNCHANGED chatml
     \/ /\ \E e \in writing : chatml' \in CutShort(chatml, e)
        /\ UNCHANGED rich
  /\ process' = "down"
  /\ NobodyWorks([e \in Examples |-> "out"])
  /\ writing' = {}
  /\ kills' = kills + 1
  /\ UNCHANGED <<peer, starts, glued, good>>

\* A row of several buffers is in the peer's file in part for a while.  Only a
\* start reads it, so that what is written during a run may come before the next.
PeerWrites ==
  /\ process # "running"
  /\ \E e \in PeerShare \ ReadBack(peer) :
       \/ ~Open(peer) /\ peer' \in CutShort(peer, e)
       \/ Open(peer) /\ peer' = [peer EXCEPT ![Len(peer)] = [text |-> e, ended |-> TRUE]]
  /\ UNCHANGED <<trajectoryVars, process, rich, chatml, writing, starts, kills, glued, good>>

Next ==
  \/ \E resume \in BOOLEAN : Start(resume) \/ StartFails(resume)
  \/ TakeUp
  \/ \E e \in Examples : Generate(e) \/ WriteRich(e) \/ WriteChatml(e)
  \/ Finish
  \/ Killed
  \/ PeerWrites

Spec == Init /\ [][Next]_vars

-----------------------------------------------------------------------------
RowsOf(file, e) == {i \in DOMAIN file : file[i].text = e}

(***************************************************************************)
(* An example is trained on twice only if a run went on behind an open     *)
(* last line of the rich file: the row it glued to that line is lost, so   *)
(* the next run makes the example again, although its chatml row is there. *)
(***************************************************************************)
TrainedTwiceOnlyBehindOpenLine ==
  \A e \in Examples : Cardinality(RowsOf(chatml, e)) > 1 => glued

(***************************************************************************)
(* Rich rows to be trained on and missing in the chatml file, for good     *)
(* (the resumed run skips them): none without a kill, two for each kill.   *)
(* One row is cut short or not begun, and the one glued to it is lost.     *)
(***************************************************************************)
Untrained ==
  {e \in good \cap ReadBack(rich) : e \notin writing /\ RowsOf(chatml, e) = {}}

TrainingRowsLostToKills == Cardinality(Untrained) <= 2 * kills
=============================================================================
