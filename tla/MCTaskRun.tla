------------------------------ MODULE MCTaskRun ------------------------------
(***************************************************************************)
(* Small instances of TaskRun for TLC.                                     *)
(***************************************************************************)
EXTENDS TaskRun

CONSTANTS e1, e2, e3

Three == <<e1, e2, e3>>
=============================================================================
