SPECIFICATION ConsoleSpec
CONSTANTS
  Holders <- HoldersDef
  MaxRequests <- MaxRequestsDef
  Services = {"s1", "s2"}
  PageSize = 1
  MaxItems = 1
  MaxLoads = 2
  Spans = {1, 2, 3}
  Starts = {0, 1}
  Durations = {0, 2}
  MaxTotal = 14
  Things = {"x", "y"}
  Minutes = {0, 1}
  MaxDays = 2
  MaxBackups = 2
  Dirs = {"d", "e"}
  Paths <- PathsDef
INVARIANTS QueriesAreTrue LayoutIsComplete ListIsTrue OnceSent NewestKept
  ScheduleShown FilesListed IdleWhenAnswered
PROPERTIES OneBackupADay
CHECK_DEADLOCK FALSE
