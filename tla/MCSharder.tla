----------------------------- MODULE MCSharder ------------------------------
(* Three corpora, two of them of the same number of lines.                 *)
EXTENDS Sharder

CONSTANTS A, B, C

TheLines == [c \in Corpora |-> IF c = C THEN 5 ELSE 4]
=============================================================================
