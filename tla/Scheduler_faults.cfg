SPECIFICATION SchedSpec
CONSTANTS
  Dep = {d1, d2}
  Sched = {s1}
  SchedDep = {d1, d2}
  UserDep = {d1, d2}
  Free = free
  Idle = idle
  MaxCompose = 1
  MaxEnv = 0
  MaxCrash = 1
  StoreMayFail = TRUE
SYMMETRY Symmetry
INVARIANTS FiresOnce DoneIsSuccess LockHeldByOne
PROPERTIES SettledIsFinal
CHECK_DEADLOCK FALSE
