SPECIFICATION FairSchedSpec
CONSTANTS
  Dep = {d1, d2}
  Sched = {s1}
  SchedDep = {d2}
  UserDep = {d1}
  Free = free
  Idle = idle
  MaxCompose = 1
  MaxEnv = 0
  MaxCrash = 0
  StoreMayFail = FALSE
PROPERTIES DueSettles AttemptsEnd RunningSettles
CHECK_DEADLOCK FALSE
