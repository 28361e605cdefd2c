---------------------------- MODULE MCLogStore ----------------------------
(* Model values and symmetry for the runs of LogStore.                     *)
EXTENDS LogStore, TLC

Symmetry == Permutations(Key) \cup Permutations(Val)
=============================================================================
