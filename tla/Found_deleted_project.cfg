SPECIFICATION Spec
CONSTANTS
  Dep = {d1, d2}
  Free = free
  MaxCompose = 1
  MaxEnv = 0
  MaxCrash = 0
  StoreMayFail = FALSE
SYMMETRY Symmetry
PROPERTIES DeletedProjectStaysDeleted
CHECK_DEADLOCK FALSE
