---------------------------- MODULE MCServerPool ----------------------------
(* Instances of ServerPool for TLC.                                         *)
EXTENDS ServerPool, TLC

OneTwo == <<1, 2>>

(* Server 1 shrinks below its load, or goes away and comes back; an empty   *)
(* function is a file whose entries are all invalid.                        *)
Edits == {(1 :> 1), (2 :> 1), <<>>, Malformed}
Start == {(1 :> 2)}

(* For the liveness run: one edit away from the first contents, or back, or *)
(* a file of invalid entries.                                               *)
Swap == {(1 :> 1), (2 :> 1), <<>>}
Single == {(1 :> 1)}

Symmetry == Permutations(Entries)
=============================================================================
