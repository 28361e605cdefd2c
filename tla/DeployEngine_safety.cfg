SPECIFICATION Spec
CONSTANTS
  Dep = {d1, d2}
  Free = free
  MaxCompose = 2
  MaxEnv = 0
  MaxCrash = 1
  StoreMayFail = FALSE
SYMMETRY Symmetry
INVARIANTS TypeOK AtMostOneRunning SuccessIsOnHost RecoveryIsOnHost
 
CHECK_DEADLOCK FALSE
