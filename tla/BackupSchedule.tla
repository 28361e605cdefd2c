--------------------------- MODULE BackupSchedule ---------------------------
(***************************************************************************)
(* The scheduled backups: the goroutine of internal/backup/scheduler.go,    *)
(* the record it shares with the handlers of backups_full.go, and the form   *)
(* of pages/SystemPage.tsx that edits it.  The goroutine reads the record    *)
(* before a backup and stores it after; the form stores it as it was loaded. *)
(***************************************************************************)
EXTENDS Browser, FiniteSetsExt

CONSTANTS
  Minutes,     \* of a day, those at which something happens: 0 .. n
  MaxDays,
  MaxBackups   \* that the scheduler starts

ASSUME BackupScheduleAssumption ==
  /\ Minutes = 0 .. Cardinality(Minutes) - 1 /\ MaxDays \in Nat /\ MaxBackups \in Nat

Never     == 0
Unlimited == 0
Idle      == [state |-> "idle"]

\* The fields of the form, and the day of last_run_at.
Settings  == [enabled : BOOLEAN, at : Minutes, keep : {Unlimited, 1}]
SettingsOf(sched) == [enabled |-> sched.enabled, at |-> sched.at, keep |-> sched.keep]
Stored(s, last)   == [enabled |-> s.enabled, at |-> s.at, keep |-> s.keep, last |-> last]

\* sched: the record; run: the backup under way with the record it read; made:
\* the days of the backups made, oldest first; kept: those that remain; stamps:
\* the days that were stored in last_run_at.  started, changed, undone and
\* overwritten only remember: the days on which a backup started, that settings
\* were stored in this minute, that the form has stored an older last_run_at, and
\* that the goroutine has stored older settings.
BackupScheduleInit ==
  /\ page = "backupSchedule" /\ perms \in Holders /\ line = "orderly"
  /\ \E s \in Settings :
       srv = [sched |-> Stored(s, Never), run |-> Idle, day |-> 1, minute |-> 0,
              ticked |-> FALSE, made |-> <<>>, kept |-> <<>>, stamps |-> <<>>,
              started |-> {}, changed |-> FALSE, undone |-> FALSE, overwritten |-> FALSE]
  /\ ui = [form |-> [shown |-> FALSE, sched |-> srv.sched], edited |-> FALSE, busy |-> {}]
  /\ net = <<Request("load", "getBackupSchedule", NoArg)>>

-----------------------------------------------------------------------------
(* The goroutine *)

\* Mutant: a backup is due whatever day the last one ran.
IsDue_Again(s) == s.enabled /\ s.at = srv.minute

\* Mutant: no backup is due once one has run.
IsDue_Once(s) == s.enabled /\ s.at = srv.minute /\ s.last = Never

IsDue(s) == s.enabled /\ s.at = srv.minute /\ s.last # srv.day

\* tick reads the record.
Tick ==
  /\ srv.run = Idle /\ Len(srv.made) < MaxBackups
  /\ Elsewhere(IF IsDue(srv.sched)
               THEN [srv EXCEPT !.ticked = TRUE, !.started = @ \cup {srv.day},
                                !.run = [state |-> "building", sched |-> srv.sched,
                                          late |-> FALSE]]
               ELSE [srv EXCEPT !.ticked = TRUE])

\* The archive is made and recorded; or it is not, and the tick is over.
BackupMade ==
  /\ srv.run.state = "building"
  /\ Elsewhere([srv EXCEPT !.made = Append(@, srv.day), !.kept = Append(@, srv.day),
                           !.run.state = "made"])

BackupFails == srv.run.state = "building" /\ Elsewhere([srv EXCEPT !.run = Idle])

\* Mutant: the oldest backups remain.
Newest_Oldest(backups, n) == SubSeq(backups, 1, Min({n, Len(backups)}))

\* applyRetention: the newest ones remain.
Newest(backups, n) == SubSeq(backups, Max({1, Len(backups) - n + 1}), Len(backups))

ApplyRetention ==
  /\ srv.run.state = "made"
  /\ Elsewhere([srv EXCEPT
       !.kept = IF srv.run.sched.keep = Unlimited THEN @ ELSE Newest(@, srv.run.sched.keep),
       !.run.state = "trimmed"])

\* The record that tick read is stored again, with the time of now.
StampLastRun ==
  /\ srv.run.state = "trimmed"
  /\ Elsewhere([srv EXCEPT
       !.sched = [srv.run.sched EXCEPT !.last = srv.day], !.run = Idle,
       !.stamps = Append(@, srv.day), !.changed = TRUE,
       !.overwritten = @ \/ SettingsOf(srv.run.sched) # SettingsOf(srv.sched)])

Crash == srv.run # Idle /\ Elsewhere([srv EXCEPT !.run = Idle])

\* The ticker fires every minute, unless a backup keeps the goroutine, which it
\* does for an hour at most: into the next of the Minutes, never past it.
TimePasses ==
  /\ IF srv.run = Idle THEN srv.ticked ELSE ~srv.run.late
  /\ LET next == (srv.minute + 1) % Cardinality(Minutes)
     IN /\ next = 0 => srv.day < MaxDays
        /\ Elsewhere([srv EXCEPT
             !.minute = next, !.day = IF next = 0 THEN @ + 1 ELSE @, !.ticked = FALSE,
             !.changed = FALSE,
             !.run = IF @ = Idle THEN @ ELSE [@ EXCEPT !.late = TRUE]])

-----------------------------------------------------------------------------
(* The form *)

ScheduleLoaded ==
  Then("load", LAMBDA s : [ui EXCEPT !.form = [shown |-> TRUE, sched |-> s]])

EditSchedule ==
  /\ ui.form.shown
  /\ \E s \in Settings :
       /\ Cardinality({f \in DOMAIN s : s[f] # ui.form.sched[f]}) = 1
       /\ Becomes([ui EXCEPT !.form.sched = Stored(s, @.last), !.edited = TRUE])

\* The button is never disabled.
SaveSchedule == ui.form.shown /\ Asks(ui, "save", "saveBackupSchedule", ui.form.sched)

\* SaveBackupSchedule stores what it was sent.
ServeSave ==
  Does("save", LAMBDA s : TRUE,
       LAMBDA s : [srv EXCEPT !.sched = s, !.changed = TRUE,
                                    !.undone = @ \/ s.last # srv.sched.last])

\* Mutant: the form keeps what it shows.
ScheduleSaved_NotShown == Then("save", LAMBDA s : [ui EXCEPT !.edited = FALSE])

\* What was edited meanwhile is replaced.
ScheduleSaved ==
  Then("save", LAMBDA s : [ui EXCEPT !.form.sched = s, !.edited = FALSE])

BackupScheduleNext ==
  /\ page = "backupSchedule"
  /\ \/ Tick \/ BackupMade \/ BackupFails \/ ApplyRetention \/ StampLastRun \/ Crash
     \/ TimePasses \/ ScheduleLoaded \/ EditSchedule \/ SaveSchedule \/ ServeSave
     \/ ScheduleSaved \/ Tells("load", srv.sched) \/ DropError({"load", "save"})
     \/ Forbid

BackupScheduleSpec == BackupScheduleInit /\ [][BackupScheduleNext]_webVars

-----------------------------------------------------------------------------
(* Properties *)

\* However long the backups take, over midnight too, and wherever the server
\* crashes, no two are finished on one day, unless the form has put back an
\* older last_run_at.
OnceADay ==
  page = "backupSchedule" /\ ~srv.undone =>
    \A i, j \in DOMAIN srv.stamps : i < j => srv.stamps[i] < srv.stamps[j]

\* Retention never removes a backup while it keeps an older one, nor the last.
NewestKept ==
  page = "backupSchedule" =>
    /\ IsSuffix(srv.kept, srv.made)
    /\ srv.made # <<>> => srv.kept # <<>>

\* A form without edits shows the settings that the scheduler goes by, when
\* nothing is under way and no backup has stored older ones.
ScheduleShown ==
  page = "backupSchedule" /\ Quiet /\ ui.form.shown /\ ~ui.edited /\ ~srv.overwritten
  => SettingsOf(ui.form.sched) = SettingsOf(srv.sched)

\* When the minute of an enabled schedule is over, a backup was started on that
\* day, whatever became of those before, crashes included; unless the settings were
\* stored within the minute, or one that was started the day before was finished on
\* this one: over midnight, the stamp is that of the next day, which has none.
DailyBackup ==
  /\ page = "backupSchedule" /\ srv'.minute # srv.minute /\ ~srv.changed
  /\ srv.sched.enabled /\ srv.minute = srv.sched.at /\ srv.run = Idle
  => srv.day \in srv.started \cup Range(srv.stamps)

\* One backup a day: after no step are there two, and the step that ends the minute
\* of the schedule leaves none out.
OneBackupADay == [][OnceADay' /\ DailyBackup]_webVars
=============================================================================
