------------------------- MODULE MCDeployScheduler -------------------------
(* Model values and symmetry for the runs of DeployScheduler.              *)
EXTENDS DeployScheduler, TLC

Symmetry == Permutations(Sched) \cup Permutations(SchedDep)
=============================================================================
