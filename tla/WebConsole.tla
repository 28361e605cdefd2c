----------------------------- MODULE WebConsole -----------------------------
(***************************************************************************)
(* The pages of the web client that an operator watches and maintains the   *)
(* host with, as one specification: each behaviour is that of one page or    *)
(* part of a page.                                                          *)
(***************************************************************************)
EXTENDS Queries, Waterfall, Inventory, BackupSchedule, Files

ConsoleInit ==
  \/ QueryInit \/ TraceInit \/ PagerInit \/ InventoryInit
  \/ BackupScheduleInit \/ FilesInit

ConsoleNext ==
  \/ QueryNext \/ TraceNext \/ PagerNext \/ InventoryNext
  \/ BackupScheduleNext \/ FilesNext

ConsoleSpec == ConsoleInit /\ [][ConsoleNext]_webVars

-----------------------------------------------------------------------------
(* Properties *)

\* The flags that say what is under way (and disable the controls) come down
\* with the last answer, whatever the answers were and however their handlers
\* overlapped: no page stays busy for ever.
IdleWhenAnswered ==
  net = <<>> /\ page # "pager" =>
    ui.busy = {} \/ (page \in Debounced /\ ui.timer)
=============================================================================
