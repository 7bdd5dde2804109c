------------------------------ MODULE MCDataRun ------------------------------
(***************************************************************************)
(* Small instances of DataRun for TLC.                                     *)
(***************************************************************************)
EXTENDS DataRun

CONSTANTS e1, e2, e3

Three == <<e1, e2, e3>>

(* In chains of three the first example's middle step has no concrete form; *)
(* the second one's first step has one only if an alias is read for it.     *)
TheGeneric == e1 :> {Main(2), Alias(2)} @@ e2 :> {Main(1)} @@ e3 :> {}
=============================================================================
