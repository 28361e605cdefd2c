--------------------------- MODULE MCDeployEngine ---------------------------
(* Model values and symmetry for the runs of DeployEngine.                 *)
EXTENDS DeployEngine, TLC

Symmetry == Permutations(Dep)
=============================================================================
