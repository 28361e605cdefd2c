---------------------------- MODULE MCSelfHeal ----------------------------
(* Model values and symmetry for the runs of SelfHeal.                     *)
EXTENDS SelfHeal, TLC

Symmetry == Permutations(Dep)
=============================================================================
