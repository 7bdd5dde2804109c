------------------------------- MODULE RowFile -------------------------------
(***************************************************************************)
(* A file of JSON lines as the drivers write and read it back: run_task    *)
(* and _load_existing_ids of src/inference/run.py.  Rows are appended one  *)
(* write and flush at a time; a process killed in the middle of one leaves *)
(* a prefix of it.                                                         *)
(*                                                                         *)
(* A line is its text and whether its newline is there (only the last line *)
(* of a file may lack it).  The text is the id of the example whose row it *)
(* is, Torn when it is no JSON object, or Garbled when it ends inside a    *)
(* character of several bytes (rows are written with ensure_ascii=False),  *)
(* so that the file does not decode as UTF-8.                              *)
(***************************************************************************)
EXTENDS Naturals, Sequences, SequencesExt

CONSTANTS Ids, Torn, Garbled

Lines == [text : Ids \cup {Torn, Garbled}, ended : BOOLEAN]

Open(file) == file # <<>> /\ ~Last(file).ended

\* What a row or a part of one appended to a line without newline makes of it.
Glued(text) == IF text = Garbled THEN Garbled ELSE Torn

\* Bug for a mutant: the rows carry no newline.
WithBareRow(file, id) == Append(file, [text |-> id, ended |-> FALSE])

\* write(row + "\n") and flush().
WithRow(file, id) ==
  IF Open(file)
  THEN [file EXCEPT ![Len(file)] = [text |-> Glued(@.text), ended |-> TRUE]]
  ELSE Append(file, [text |-> id, ended |-> TRUE])

\* The files a kill in the middle of that write may leave: nothing of the row,
\* some of it, or all but its newline.
CutShort(file, id) ==
  {file} \cup
  IF Open(file)
  THEN {[file EXCEPT ![Len(file)] = [text |-> t, ended |-> FALSE]] :
          t \in {Glued(Last(file).text), Garbled}}
  ELSE {Append(file, [text |-> t, ended |-> FALSE]) : t \in {id, Torn, Garbled}}

\* Reading it back: lines that are no JSON object are skipped, whether or not
\* the last one has its newline; bytes that do not decode raise.
Decodes(file) == \A i \in DOMAIN file : file[i].text # Garbled

ReadBack(file) == {id \in Ids : \E i \in DOMAIN file : file[i].text = id}
=============================================================================
