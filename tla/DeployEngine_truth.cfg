SPECIFICATION Spec
CONSTANTS
  Dep = {d1, d2}
  Free = free
  MaxCompose = 1
  MaxEnv = 2
  MaxCrash = 0
  StoreMayFail = FALSE
SYMMETRY Symmetry
INVARIANTS ProjectTellsOutcome RunningIsLive SuccessIsOnHost
CHECK_DEADLOCK FALSE
