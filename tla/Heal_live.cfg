SPECIFICATION FairHealSpec
CONSTANTS
  Dep = {d1}
  Free = free
  SyncRuns = TRUE
  MaxCompose = 1
  MaxEnv = 0
  MaxCrash = 1
  StoreMayFail = FALSE
PROPERTIES RunningComesBack
CHECK_DEADLOCK FALSE
