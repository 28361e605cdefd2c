--------------------------- MODULE ConsoleProofs ---------------------------
(***************************************************************************)
(* Theorems about the pages that an operator watches and maintains the host *)
(* with, for every value of the constants: the backup scheduler beside its  *)
(* form; the lists with filters and pages; the lists with operations on     *)
(* their rows, what they send and what they show; the flags of every page;  *)
(* the file manager; and all of these as one specification.                 *)
(***************************************************************************)
EXTENDS WebConsole, RequestsProofs, FiniteSetTheorems

-----------------------------------------------------------------------------
(* The inductive invariant *)

Record == [enabled : BOOLEAN, at : Minutes, keep : {Unlimited, 1}, last : Nat]
Run    == [state : {"building", "made", "trimmed"}, sched : Record, late : BOOLEAN]
Fields == {"sched", "run", "day", "minute", "ticked", "made", "kept", "stamps",
           "started", "changed", "undone", "overwritten"}

ServerOK ==
  /\ DOMAIN srv = Fields
  /\ srv.sched \in Record /\ srv.run \in {Idle} \cup Run
  /\ srv.day \in Nat \ {Never}
  /\ srv.made \in Seq(Nat) /\ srv.kept \in Seq(Nat) /\ srv.stamps \in Seq(Nat)
  /\ srv.ticked \in BOOLEAN /\ srv.changed \in BOOLEAN
  /\ srv.undone \in BOOLEAN /\ srv.overwritten \in BOOLEAN

FormOK ==
  /\ DOMAIN ui = {"form", "edited", "busy"} /\ ui.edited \in BOOLEAN
  /\ ui.form \in [shown : BOOLEAN, sched : Record]

\* The load of the form, or a save that carries the whole record.
Load == [by : {"load"}, call : {"getBackupSchedule"}, arg : {NoArg},
         state : {"sent", "done", "error"}, reply : Seq(Record)]
Save == [by : {"save"}, call : {"saveBackupSchedule"}, arg : Record,
         state : {"sent", "done", "error"}, reply : Seq(Record)]

NetOK ==
  /\ net \in Seq(Load \cup Save)
  /\ \A i \in DOMAIN net : net[i].state = "done" => net[i].reply # <<>>

TypeInv == page = "backupSchedule" /\ ServerOK /\ FormOK /\ NetOK

\* What remains is the end of what was made, and is not nothing.
Ends(k, m) ==
  /\ Len(k) <= Len(m)
  /\ \A i \in 1..Len(k) : k[i] = m[Len(m) - Len(k) + i]
  /\ m # <<>> => k # <<>>

KeptInv == Ends(srv.kept, srv.made)

\* A day is stamped in order; the record has the last of them, unless the form
\* has put back another; the backup under way is that of a later day.
Rising(days)    == \A i, j \in DOMAIN days : i < j => days[i] < days[j]
Until(days, d)  == \A i \in DOMAIN days : days[i] <= d
Before(days, d) == \A i \in DOMAIN days : days[i] < d

OnceInv ==
  /\ Until(srv.stamps, srv.day)
  /\ ~srv.undone =>
       /\ Rising(srv.stamps)
       /\ srv.stamps # <<>> => srv.sched.last = srv.stamps[Len(srv.stamps)]
       /\ srv.run # Idle => Before(srv.stamps, srv.day)

\* Wherever a record is, in the store, at the goroutine, in the form or on its
\* way, the day it was last run is one that was stamped.
Past(s, days) == s.last \in {Never} \cup Range(days)

PastIn(m, days) == /\ m.by = "save" => Past(m.arg, days)
                   /\ m.state = "done" => Past(Head(m.reply), days)

PastInv ==
  /\ Past(srv.sched, srv.stamps) /\ Past(ui.form.sched, srv.stamps)
  /\ srv.run # Idle => Past(srv.run.sched, srv.stamps)
  /\ \A i \in DOMAIN net : PastIn(net[i], srv.stamps)

\* Once the ticker has fired in the minute of the schedule, the backup of the
\* day was started or finished.
DailyInv ==
  /\ srv.ticked /\ ~srv.changed
  /\ srv.sched.enabled /\ srv.sched.at = srv.minute
  => srv.day \in srv.started \cup Range(srv.stamps)

\* On an orderly line the requests are served and answered in their order; the
\* first is the load, and nothing is saved before it.
AllowedInv ==
  \A i \in DOMAIN net :
    /\ net[i].state = "error" => ~Authorized(net[i].call)
    /\ net[i].state = "done"  => Authorized(net[i].call)
    /\ net[i].by = "load"     => Len(net) = 1 /\ ~ui.form.shown

OrderInv ==
  \A i, j \in DOMAIN net : i < j /\ net[j].state # "sent" => net[i].state # "sent"

\* The answer served last says what the record says; with no answer to come, and
\* for a user who cannot save, so does a form that has no edits.
Agrees(s) == SettingsOf(s) = SettingsOf(srv.sched)

LastInv ==
  \A i \in DOMAIN net :
    /\ net[i].state = "done"
    /\ \A j \in DOMAIN net : i < j => net[j].state = "sent"
    => Agrees(Answer(i))

AgreesInv ==
  /\ ui.form.shown /\ ~ui.edited
  /\ net = <<>> \/ ~Authorized("saveBackupSchedule")
  => Agrees(ui.form.sched)

ShownInv ==
  /\ line = "orderly" /\ AllowedInv /\ OrderInv
  /\ ~srv.overwritten => LastInv /\ AgreesInv

BackupInv == TypeInv /\ KeptInv /\ OnceInv /\ PastInv /\ DailyInv /\ ShownInv

-----------------------------------------------------------------------------
(* What each step does *)

\* What a step of the goroutine or of the clock leaves alone.
Untouched == UNCHANGED <<page, perms, line, ui, net>> /\ DOMAIN srv' = Fields
Clock   == <<srv.day, srv.minute>>
Log     == <<srv.made, srv.kept>>
Memory  == <<srv.stamps, srv.changed, srv.undone, srv.overwritten>>

\* tick finds a backup due, and then works from the record as it is now.
LEMMA TickEffect ==
  ASSUME TypeInv, Tick
  PROVE  /\ Untouched /\ UNCHANGED <<Clock, Log, Memory>>
         /\ srv'.sched = srv.sched /\ srv'.ticked = TRUE /\ srv.run = Idle
         /\ \/ IsDue(srv.sched) /\ srv'.started = srv.started \cup {srv.day}
               /\ srv'.run = [state |-> "building", sched |-> srv.sched, late |-> FALSE]
            \/ ~IsDue(srv.sched) /\ srv'.started = srv.started /\ srv'.run = srv.run
BY DEF Tick, Elsewhere, ServerIs, session, TypeInv, ServerOK, Fields, Untouched, Clock, Log, Memory

\* The archive is made and recorded on the day it is ready.
LEMMA MadeEffect ==
  ASSUME TypeInv, BackupMade
  PROVE  /\ Untouched /\ UNCHANGED <<Clock, Memory>>
         /\ UNCHANGED <<srv.sched, srv.ticked, srv.started>>
         /\ srv'.made = Append(srv.made, srv.day) /\ srv'.kept = Append(srv.kept, srv.day)
         /\ srv.run \in Run /\ srv'.run \in Run /\ srv'.run.sched = srv.run.sched
<1>1. srv.run \in Run
  BY DEF BackupMade, TypeInv, ServerOK, Run, Idle
<1>. QED BY <1>1 DEF BackupMade, Elsewhere, ServerIs, session, TypeInv, ServerOK, Fields,
                     Untouched, Clock, Log, Memory, Run

\* A backup that fails, or that a crash ends, leaves the record alone.
LEMMA StopEffect ==
  ASSUME TypeInv, BackupFails \/ Crash
  PROVE  /\ Untouched /\ UNCHANGED <<Clock, Log, Memory>>
         /\ UNCHANGED <<srv.sched, srv.ticked, srv.started>> /\ srv'.run = Idle
BY DEF BackupFails, Crash, Elsewhere, ServerIs, session, TypeInv, ServerOK, Fields, Untouched,
       Clock, Log, Memory

\* applyRetention leaves all backups or the newest.
LEMMA TrimEffect ==
  ASSUME TypeInv, ApplyRetention
  PROVE  /\ Untouched /\ UNCHANGED <<Clock, Memory>>
         /\ UNCHANGED <<srv.sched, srv.ticked, srv.started, srv.made>>
         /\ srv'.kept \in {srv.kept, Newest(srv.kept, 1)}
         /\ srv.run \in Run /\ srv'.run \in Run /\ srv'.run.sched = srv.run.sched
<1>1. srv.run \in Run /\ srv.run.sched.keep \in {Unlimited, 1}
  BY DEF ApplyRetention, TypeInv, ServerOK, Run, Idle, Record
<1>. QED BY <1>1 DEF ApplyRetention, Elsewhere, ServerIs, session, TypeInv, ServerOK, Fields,
                     Untouched, Clock, Log, Memory, Run

\* The record that tick read is stored with the day of now.
LEMMA StampEffect ==
  ASSUME TypeInv, StampLastRun
  PROVE  /\ Untouched /\ UNCHANGED <<Clock, Log>>
         /\ UNCHANGED <<srv.ticked, srv.started, srv.undone>>
         /\ srv.run \in Run /\ srv'.run = Idle
         /\ srv'.sched = [srv.run.sched EXCEPT !.last = srv.day]
         /\ srv'.stamps = Append(srv.stamps, srv.day) /\ srv'.changed = TRUE
         /\ srv'.overwritten =
              (srv.overwritten \/ SettingsOf(srv.run.sched) # SettingsOf(srv.sched))
<1>1. srv.run \in Run
  BY DEF StampLastRun, TypeInv, ServerOK, Run, Idle
<1>. QED BY <1>1 DEF StampLastRun, Elsewhere, ServerIs, session, TypeInv, ServerOK, Fields,
                     Untouched, Clock, Log, Memory

\* A minute passes only after the ticker has fired, unless a backup is under way.
LEMMA TimeEffect ==
  ASSUME TypeInv, TimePasses
  PROVE  /\ Untouched /\ UNCHANGED <<Log, srv.stamps, srv.undone, srv.overwritten>>
         /\ UNCHANGED <<srv.sched, srv.started>>
         /\ srv.run = Idle => srv.ticked
         /\ srv'.day \in {srv.day, srv.day + 1} /\ srv'.ticked = FALSE
         /\ srv'.changed = FALSE
         /\ IF srv.run = Idle THEN srv'.run = Idle
            ELSE srv'.run \in Run /\ srv'.run.sched = srv.run.sched
<1>1. srv.run # Idle => srv.run \in Run
  BY DEF TypeInv, ServerOK
<1>. QED BY <1>1 DEF TimePasses, Elsewhere, ServerIs, session, TypeInv, ServerOK, Fields,
                     Untouched, Clock, Log, Memory, Run

-----------------------------------------------------------------------------
(* What each step of the form and of its requests does *)

Message == Load \cup Save

\* One request is answered or refused, and remains the one it is.
Marks(i, r) ==
  /\ i \in DOMAIN net /\ net' = [net EXCEPT ![i] = r] /\ r \in Message
  /\ r.by = net[i].by /\ r.arg = net[i].arg /\ r.call = net[i].call

\* A request that is served.
LEMMA ReplyMarks ==
  ASSUME NetOK, NEW i \in DOMAIN net, NEW v \in Record, Reply(i, v)
  PROVE  \E r \in Message : Marks(i, r) /\ r.state = "done" /\ r.reply = <<v>>
<1>. DEFINE x == net[i]
            p == [x EXCEPT !.state = "done"]
            r == [p EXCEPT !.reply = <<v>>]
<1>0. x \in Message
  BY DEF NetOK, Message
<1>1. net' = [net EXCEPT ![i] = r]
  BY <1>0 DEF Reply, NetOK, Message, Load, Save
<1>. HIDE DEF x
<1>2. p \in Message /\ p.state = "done" /\ p.by = x.by /\ p.arg = x.arg /\ p.call = x.call
  BY <1>0 DEF Message, Load, Save
<1>. HIDE DEF p
<1>3. <<v>> \in Seq(Record)
  OBVIOUS
<1>4. /\ r \in Message /\ r.state = "done" /\ r.reply = <<v>>
      /\ r.by = x.by /\ r.arg = x.arg /\ r.call = x.call
  BY <1>2, <1>3 DEF Message, Load, Save
<1>. HIDE DEF r
<1>. QED BY <1>1, <1>4 DEF Marks, x

\* A request that is refused.
LEMMA RefuseMarks ==
  ASSUME NetOK, NEW i \in DOMAIN net, Refuse(i)
  PROVE  \E r \in Message : Marks(i, r) /\ r.state = "error"
<1>. DEFINE x == net[i]
            r == [x EXCEPT !.state = "error"]
<1>0. x \in Message
  BY DEF NetOK, Message
<1>1. net' = [net EXCEPT ![i] = r]
  BY DEF Refuse, NetOK
<1>. HIDE DEF x
<1>2. /\ r \in Message /\ r.state = "error"
      /\ r.by = x.by /\ r.arg = x.arg /\ r.call = x.call
  BY <1>0 DEF Message, Load, Save
<1>. HIDE DEF r
<1>. QED BY <1>1, <1>2 DEF Marks, x

\* The rest of the requests, after one is taken off.
LEMMA TakeOff ==
  ASSUME NEW S, NEW q \in Seq(S), NEW i \in DOMAIN q
  PROVE  /\ RemoveAt(q, i) \in Seq(S) /\ Len(RemoveAt(q, i)) = Len(q) - 1
         /\ \A k \in 1..Len(q) - 1 : RemoveAt(q, i)[k] = q[IF k < i THEN k ELSE k + 1]
         /\ RemoveAt(q, i) \o <<>> = RemoveAt(q, i)
<1>1. i \in 1..Len(q)
  OBVIOUS
<1>2. /\ RemoveAt(q, i) \in Seq(S) /\ Len(RemoveAt(q, i)) = Len(q) - 1
      /\ \A k \in 1..Len(q) - 1 : RemoveAt(q, i)[k] = q[IF k < i THEN k ELSE k + 1]
  BY <1>1, RemoveAtEffect
<1>3. RemoveAt(q, i) \o <<>> = RemoveAt(q, i)
  BY <1>2
<1>. QED BY <1>2, <1>3

Rests == UNCHANGED <<page, perms, line>>

\* An answer is a whole record.
LEMMA AnswerType ==
  ASSUME NetOK, NEW i \in DOMAIN net, net[i].state = "done"
  PROVE  Answer(i) \in Record
<1>1. net[i].reply \in Seq(Record) /\ net[i].reply # <<>>
  BY DEF NetOK, Load, Save
<1>. QED BY <1>1 DEF Answer

\* The form is filled.
LEMMA LoadedEffect ==
  ASSUME TypeInv, ScheduleLoaded
  PROVE  \E i \in DOMAIN net :
           /\ Arrived(i, "load") /\ net' = RemoveAt(net, i) /\ Rests /\ srv' = srv
           /\ FormOK' /\ ui'.form.shown /\ ui'.form.sched = Answer(i)
           /\ ui'.edited = ui.edited
<1>1. PICK i \in DOMAIN net :
        /\ Arrived(i, "load") /\ HandledThen(i, <<>>)
        /\ PageIs([ui EXCEPT !.form = [shown |-> TRUE, sched |-> Answer(i)]])
  BY DEF ScheduleLoaded, Then, ThenAsks
<1>2. net' = RemoveAt(net, i)
  BY <1>1, TakeOff DEF HandledThen, TypeInv, NetOK
<1>3. Answer(i) \in Record
  BY <1>1, AnswerType DEF Arrived, TypeInv
<1>. QED BY <1>1, <1>2, <1>3 DEF PageIs, session, Rests, TypeInv, FormOK

\* What was saved is shown.
LEMMA SavedEffect ==
  ASSUME TypeInv, ScheduleSaved
  PROVE  \E i \in DOMAIN net :
           /\ Arrived(i, "save") /\ net' = RemoveAt(net, i) /\ Rests /\ srv' = srv
           /\ FormOK' /\ ui'.form.shown = ui.form.shown /\ ui'.form.sched = Answer(i)
           /\ ui'.edited = FALSE
<1>1. PICK i \in DOMAIN net :
        /\ Arrived(i, "save") /\ HandledThen(i, <<>>)
        /\ PageIs([ui EXCEPT !.form.sched = Answer(i), !.edited = FALSE])
  BY DEF ScheduleSaved, Then, ThenAsks
<1>2. net' = RemoveAt(net, i)
  BY <1>1, TakeOff DEF HandledThen, TypeInv, NetOK
<1>3. Answer(i) \in Record
  BY <1>1, AnswerType DEF Arrived, TypeInv
<1>. QED BY <1>1, <1>2, <1>3 DEF PageIs, session, Rests, TypeInv, FormOK

\* An edit never changes the day of the last run.
LEMMA EditEffect ==
  ASSUME TypeInv, EditSchedule
  PROVE  /\ Rests /\ UNCHANGED <<srv, net>> /\ ui.form.shown
         /\ FormOK' /\ ui'.form.shown /\ ui'.form.sched.last = ui.form.sched.last
         /\ ui'.edited = TRUE
<1>1. PICK s \in Settings :
        Becomes([ui EXCEPT !.form.sched = Stored(s, @.last), !.edited = TRUE])
  BY DEF EditSchedule
<1>2. Stored(s, ui.form.sched.last) \in Record
  BY DEF Stored, Settings, Record, TypeInv, FormOK
<1>3. Stored(s, ui.form.sched.last).last = ui.form.sched.last
  BY DEF Stored
<1>. HIDE DEF Stored
<1>. QED BY <1>1, <1>2, <1>3
         DEF EditSchedule, Becomes, PageIs, session, Rests, TypeInv, FormOK

\* The form sends the record that it shows.
LEMMA SaveEffect ==
  ASSUME TypeInv, SaveSchedule
  PROVE  /\ Rests /\ UNCHANGED <<srv, ui>> /\ ui.form.shown
         /\ \E m \in Save : m.arg = ui.form.sched /\ m.state = "sent" /\ net' = Append(net, m)
<1>. DEFINE m == Request("save", "saveBackupSchedule", ui.form.sched)
<1>1. ui.form.sched \in Record /\ <<>> \in Seq(Record)
  BY DEF TypeInv, FormOK
<1>2. m \in Save /\ m.arg = ui.form.sched /\ m.state = "sent"
  BY <1>1 DEF Request, Save
<1>3. net' = net \o <<m>>
  BY DEF SaveSchedule, Asks, Send, Sends
<1>. HIDE DEF m
<1>4. net \o <<m>> = Append(net, m)
  BY <1>2 DEF TypeInv, NetOK
<1>. QED BY <1>2, <1>3, <1>4 DEF SaveSchedule, Asks, PageIs, session, Rests

\* SaveBackupSchedule stores the record it was sent.
LEMMA ServeEffect ==
  ASSUME TypeInv, ServeSave
  PROVE  /\ Rests /\ ui' = ui
         /\ \E i \in DOMAIN net, r \in Message :
              /\ Served(i, "save") /\ Marks(i, r) /\ r.state = "done"
              /\ net[i].arg \in Record /\ r.reply = <<net[i].arg>>
              /\ srv'.sched = net[i].arg
              /\ srv'.undone = (srv.undone \/ net[i].arg.last # srv.sched.last)
         /\ DOMAIN srv' = Fields /\ srv'.changed = TRUE
         /\ UNCHANGED <<Clock, Log, srv.run, srv.ticked, srv.stamps, srv.started,
                        srv.overwritten>>
<1>1. PICK i \in DOMAIN net :
        /\ Served(i, "save") /\ Reply(i, net[i].arg)
        /\ ServerIs([srv EXCEPT !.sched = net[i].arg, !.changed = TRUE,
                                !.undone = @ \/ net[i].arg.last # srv.sched.last])
  BY DEF ServeSave, Does, Makes
<1>2. net[i].arg \in Record
  BY <1>1 DEF Served, TypeInv, NetOK, Load, Save
<1>3. PICK r \in Message : Marks(i, r) /\ r.state = "done" /\ r.reply = <<net[i].arg>>
  BY <1>1, <1>2, ReplyMarks DEF TypeInv
<1>. HIDE DEF Marks
<1>. QED BY <1>1, <1>2, <1>3
         DEF ServerIs, session, Rests, TypeInv, ServerOK, Fields, Clock, Log

\* GetBackupSchedule answers with the record.
LEMMA TellEffect ==
  ASSUME TypeInv, Tells("load", srv.sched)
  PROVE  /\ Rests /\ UNCHANGED <<ui, srv>>
         /\ \E i \in DOMAIN net, r \in Message :
              /\ Served(i, "load") /\ Marks(i, r)
              /\ r.state = "done" /\ r.reply = <<srv.sched>>
<1>1. PICK i \in DOMAIN net : Served(i, "load") /\ Reply(i, srv.sched) /\ NetOnly
  BY DEF Tells, Finds
<1>2. PICK r \in Message : Marks(i, r) /\ r.state = "done" /\ r.reply = <<srv.sched>>
  BY <1>1, ReplyMarks DEF TypeInv, ServerOK
<1>. QED BY <1>1, <1>2 DEF NetOnly, session, Rests

\* The middleware refuses the next request in turn.
LEMMA ForbidEffect ==
  ASSUME TypeInv, Forbid
  PROVE  /\ Rests /\ UNCHANGED <<ui, srv>>
         /\ \E i \in DOMAIN net, r \in Message :
              /\ net[i].state = "sent" /\ InTurn(i)
              /\ ~Authorized(net[i].call) /\ Marks(i, r) /\ r.state = "error"
<1>1. PICK i \in DOMAIN net :
        net[i].state = "sent" /\ InTurn(i) /\ ~Authorized(net[i].call) /\ Refuse(i)
  BY DEF Forbid
<1>2. PICK r \in Message : Marks(i, r) /\ r.state = "error"
  BY <1>1, RefuseMarks DEF TypeInv
<1>. HIDE DEF Marks
<1>. QED BY <1>1, <1>2 DEF Forbid, NetOnly, session, Rests

\* An error is taken, and changes nothing.
LEMMA DropEffect ==
  ASSUME TypeInv, DropError({"load", "save"})
  PROVE  /\ Rests /\ UNCHANGED <<ui, srv>>
         /\ \E i \in DOMAIN net :
              net[i].state = "error" /\ Next1(i) /\ net' = RemoveAt(net, i)
BY DEF DropError, Catch, Failed, Handled, PageIs, session, Rests

-----------------------------------------------------------------------------
(* The requests and the types *)

\* The others stay when one request is answered.
LEMMA MarksNet ==
  ASSUME NetOK, NEW i, NEW r, Marks(i, r), r.state = "done" => r.reply # <<>>
  PROVE  /\ NetOK' /\ DOMAIN net' = DOMAIN net /\ net'[i] = r
         /\ \A k \in DOMAIN net : k # i => net'[k] = net[k]
BY DEF NetOK, Marks, Message

\* The others stay when one request is taken.
LEMMA TakenNet ==
  ASSUME NetOK, NEW i \in DOMAIN net, net' = RemoveAt(net, i)
  PROVE  /\ NetOK' /\ \A k \in DOMAIN net' : \E j \in DOMAIN net : net'[k] = net[j]
<1>1. /\ net' \in Seq(Load \cup Save) /\ Len(net') = Len(net) - 1
      /\ \A k \in 1..Len(net) - 1 : net'[k] = net[IF k < i THEN k ELSE k + 1]
  BY TakeOff DEF NetOK
<1>2. \A k \in DOMAIN net' : \E j \in DOMAIN net : net'[k] = net[j]
  <2>. TAKE k \in DOMAIN net'
  <2>1. k \in 1..Len(net) - 1 /\ (IF k < i THEN k ELSE k + 1) \in DOMAIN net
    BY <1>1 DEF NetOK
  <2>. QED BY <1>1, <2>1
<1>. QED BY <1>1, <1>2 DEF NetOK

\* A request is appended.
LEMMA AskedNet ==
  ASSUME NetOK, NEW m \in Save, m.state = "sent", net' = Append(net, m)
  PROVE  /\ NetOK' /\ Len(net') = Len(net) + 1 /\ net'[Len(net) + 1] = m
         /\ \A k \in DOMAIN net : net'[k] = net[k]
<1>1. /\ net' \in Seq(Load \cup Save) /\ Len(net') = Len(net) + 1
      /\ \A k \in 1..Len(net') : net'[k] = IF k <= Len(net) THEN net[k] ELSE m
  BY DEF NetOK
<1>. QED BY <1>1 DEF NetOK

Serves == Tick \/ BackupMade \/ BackupFails \/ ApplyRetention \/ StampLastRun \/ Crash
          \/ TimePasses

\* The newest one of some backups is the last.
LEMMA NewestType ==
  ASSUME NEW q \in Seq(Nat)
  PROVE  IF q = <<>> THEN Newest(q, 1) = <<>> ELSE Newest(q, 1) = <<q[Len(q)]>>
<1>1. Max({1, Len(q) - 1 + 1}) = IF q = <<>> THEN 1 ELSE Len(q)
  <2>. DEFINE n == Len(q)
  <2>1. n \in Nat /\ {1, n - 1 + 1} = {1, n}
    OBVIOUS
  <2>2. \A x, y \in {1, n} : (\A z \in {1, n} : x >= z) /\ (\A z \in {1, n} : y >= z) => x = y
    BY <2>1
  <2>3. IF n = 0 THEN \A z \in {1, n} : 1 >= z ELSE \A z \in {1, n} : n >= z
    BY <2>1
  <2>4. Max({1, n}) = IF n = 0 THEN 1 ELSE n
    BY <2>2, <2>3 DEF Max
  <2>. QED BY <2>1, <2>4
<1>2. CASE q = <<>>
  BY <1>1, <1>2 DEF Newest
<1>3. CASE q # <<>>
  <2>1. Len(q) \in 1..Len(q) /\ Newest(q, 1) = SubSeq(q, Len(q), Len(q))
    BY <1>1, <1>3 DEF Newest
  <2>2. /\ SubSeq(q, Len(q), Len(q)) \in Seq(Nat) /\ Len(SubSeq(q, Len(q), Len(q))) = 1
        /\ SubSeq(q, Len(q), Len(q))[1] = q[Len(q)]
    BY <2>1, SubSeqProperties
  <2>. QED BY <1>3, <2>1, <2>2
<1>. QED BY <1>2, <1>3

\* A step of the server is one of its state.
LEMMA SettledType ==
  ASSUME TypeInv, Untouched, ServerOK'
  PROVE  TypeInv'
<1>1. FormOK' /\ page' = "backupSchedule"
  BY DEF Untouched, TypeInv, FormOK
<1>2. NetOK'
  BY DEF Untouched, TypeInv, NetOK
<1>. QED BY <1>1, <1>2 DEF TypeInv

\* The goroutine keeps the types.
LEMMA ServesType ==
  ASSUME TypeInv, Serves
  PROVE  TypeInv' /\ Untouched
<1>. SUFFICES Untouched /\ ServerOK'
  BY SettledType
<1>0. ServerOK
  BY DEF TypeInv
<1>1. CASE Tick
  <2>1. srv'.run \in {srv.run, [state |-> "building", sched |-> srv.sched, late |-> FALSE]}
    BY <1>1, TickEffect
  <2>2. srv'.run \in {Idle} \cup Run
    <3>1. srv.sched \in Record /\ srv.run \in {Idle} \cup Run
      BY <1>0 DEF ServerOK
    <3>2. [state |-> "building", sched |-> srv.sched, late |-> FALSE] \in Run
      BY <3>1 DEF Run
    <3>. QED BY <2>1, <3>1, <3>2
  <2>. QED BY <1>0, <1>1, <2>2, TickEffect DEF ServerOK, Untouched, Clock, Log, Memory
<1>2. CASE BackupMade
  <2>1. srv'.made \in Seq(Nat) /\ srv'.kept \in Seq(Nat)
    <3>1. srv'.made = Append(srv.made, srv.day) /\ srv'.kept = Append(srv.kept, srv.day)
      BY <1>2, MadeEffect
    <3>. QED BY <1>0, <3>1 DEF ServerOK
  <2>. QED BY <1>0, <1>2, <2>1, MadeEffect DEF ServerOK, Untouched, Clock, Log, Memory
<1>3. CASE BackupFails \/ Crash
  BY <1>0, <1>3, StopEffect DEF ServerOK, Untouched, Clock, Log, Memory
<1>4. CASE ApplyRetention
  <2>1. srv'.kept \in Seq(Nat)
    <3>1. srv.kept # <<>> => srv.kept[Len(srv.kept)] \in Nat
      BY <1>0 DEF ServerOK
    <3>3. Newest(srv.kept, 1) \in Seq(Nat)
      <4>1. CASE srv.kept = <<>>
        BY <1>0, <4>1, NewestType DEF ServerOK
      <4>2. CASE srv.kept # <<>>
        <5>1. Newest(srv.kept, 1) = <<srv.kept[Len(srv.kept)]>>
          BY <1>0, <4>2, NewestType DEF ServerOK
        <5>2. srv.kept[Len(srv.kept)] \in Nat
          BY <3>1, <4>2
        <5>3. \A n \in Nat : <<n>> \in Seq(Nat)
          OBVIOUS
        <5>. QED BY <5>1, <5>2, <5>3, Zenon
      <4>. QED BY <4>1, <4>2
    <3>. QED BY <1>0, <1>4, <3>3, TrimEffect DEF ServerOK
  <2>. QED BY <1>0, <1>4, <2>1, TrimEffect DEF ServerOK, Untouched, Clock, Log, Memory
<1>5. CASE StampLastRun
  <2>1. srv'.sched \in Record /\ srv'.stamps \in Seq(Nat)
    <3>1. /\ srv'.sched = [srv.run.sched EXCEPT !.last = srv.day]
          /\ srv'.stamps = Append(srv.stamps, srv.day) /\ srv.run \in Run
      BY <1>5, StampEffect
    <3>2. srv.run.sched \in Record /\ srv.day \in Nat /\ srv.stamps \in Seq(Nat)
      BY <1>0, <3>1 DEF ServerOK, Run
    <3>. QED BY <3>1, <3>2 DEF Record
  <2>. QED BY <1>0, <1>5, <2>1, StampEffect DEF ServerOK, Untouched, Clock, Log, Memory
<1>6. CASE TimePasses
  <2>1. srv'.run \in {Idle} \cup Run
    BY <1>6, TimeEffect
  <2>2. srv'.day \in Nat \ {Never}
    BY <1>0, <1>6, TimeEffect DEF ServerOK, Never
  <2>. QED BY <1>0, <1>6, <2>1, <2>2, TimeEffect DEF ServerOK, Untouched, Clock, Log, Memory
<1>. QED BY <1>1, <1>2, <1>3, <1>4, <1>5, <1>6 DEF Serves

Edits == ScheduleLoaded \/ EditSchedule \/ SaveSchedule \/ ScheduleSaved
Calls == Tells("load", srv.sched) \/ DropError({"load", "save"}) \/ Forbid

\* A step is one of the goroutine or the clock, of the form, or of a request.
LEMMA BackupCases ==
  BackupScheduleNext => Serves \/ Edits \/ ServeSave \/ Calls
BY DEF BackupScheduleNext, Serves, Edits, Calls

\* The form and the calls leave the server alone.
LEMMA FormType ==
  ASSUME TypeInv, Edits \/ Calls
  PROVE  TypeInv' /\ Rests /\ srv' = srv
<1>0. page = "backupSchedule" /\ ServerOK /\ FormOK /\ NetOK
  BY DEF TypeInv
<1>. SUFFICES Rests /\ srv' = srv /\ FormOK' /\ NetOK'
  BY <1>0 DEF TypeInv, Rests, ServerOK
<1>1. CASE ScheduleLoaded
  BY <1>0, <1>1, LoadedEffect, TakenNet
<1>2. CASE ScheduleSaved
  BY <1>0, <1>2, SavedEffect, TakenNet
<1>3. CASE EditSchedule
  BY <1>0, <1>3, EditEffect DEF NetOK
<1>4. CASE SaveSchedule
  BY <1>0, <1>4, SaveEffect, AskedNet DEF FormOK
<1>5. CASE Tells("load", srv.sched)
  <2>1. PICK i \in DOMAIN net, r \in Message : Marks(i, r) /\ r.reply = <<srv.sched>>
    BY <1>5, TellEffect
  <2>2. r.reply # <<>>
    BY <2>1
  <2>3. NetOK'
    BY <1>0, <2>1, <2>2, MarksNet
  <2>. QED BY <1>0, <1>5, <2>3, TellEffect DEF FormOK
<1>6. CASE DropError({"load", "save"})
  BY <1>0, <1>6, DropEffect, TakenNet DEF FormOK
<1>7. CASE Forbid
  <2>1. PICK i \in DOMAIN net, r \in Message : Marks(i, r) /\ r.state = "error"
    BY <1>7, ForbidEffect
  <2>2. NetOK'
    BY <1>0, <2>1, MarksNet
  <2>. QED BY <1>0, <1>7, <2>2, ForbidEffect DEF FormOK
<1>. QED BY <1>1, <1>2, <1>3, <1>4, <1>5, <1>6, <1>7 DEF Edits, Calls

\* A save keeps the types.
LEMMA ServeType ==
  ASSUME TypeInv, ServeSave
  PROVE  TypeInv'
<1>0. page = "backupSchedule" /\ ServerOK /\ FormOK /\ NetOK
  BY DEF TypeInv
<1>1. PICK i \in DOMAIN net, r \in Message :
        /\ Marks(i, r) /\ r.state = "done" /\ r.reply = <<net[i].arg>>
        /\ net[i].arg \in Record /\ srv'.sched = net[i].arg
        /\ srv'.undone = (srv.undone \/ net[i].arg.last # srv.sched.last)
  BY ServeEffect
<1>2. NetOK'
  <2>1. r.reply # <<>>
    BY <1>1
  <2>. QED BY <1>0, <1>1, <2>1, MarksNet
<1>3. ServerOK'
  BY <1>0, <1>1, ServeEffect DEF ServerOK, Clock, Log
<1>4. FormOK' /\ page' = page
  BY <1>0, ServeEffect DEF FormOK, Rests
<1>. QED BY <1>0, <1>2, <1>3, <1>4 DEF TypeInv

\* Every step keeps the types.
LEMMA NextType ==
  ASSUME TypeInv, BackupScheduleNext
  PROVE  TypeInv'
BY BackupCases, ServesType, FormType, ServeType

-----------------------------------------------------------------------------
(* Retention *)

\* Another element at the end.
LEMMA Appended ==
  ASSUME NEW q \in Seq(Nat), NEW x \in Nat
  PROVE  /\ Len(Append(q, x)) = Len(q) + 1 /\ Append(q, x) # <<>>
         /\ Append(q, x)[Len(q) + 1] = x
         /\ \A i \in 1..Len(q) : Append(q, x)[i] = q[i]
<1>1. Len(Append(q, x)) = Len(q) + 1 /\ Append(q, x) # <<>>
  OBVIOUS
<1>2. Append(q, x)[Len(q) + 1] = x
  OBVIOUS
<1>3. \A i \in 1..Len(q) : Append(q, x)[i] = q[i]
  OBVIOUS
<1>. QED BY <1>1, <1>2, <1>3, Zenon

\* What was kept is still the end after another backup.
LEMMA EndsAppend ==
  ASSUME NEW k \in Seq(Nat), NEW m \in Seq(Nat), NEW x \in Nat, Ends(k, m)
  PROVE  Ends(Append(k, x), Append(m, x))
<1>. DEFINE kx == Append(k, x)
            mx == Append(m, x)
<1>0. /\ Len(kx) = Len(k) + 1 /\ kx # <<>> /\ kx[Len(k) + 1] = x
      /\ \A i \in 1..Len(k) : kx[i] = k[i]
  BY Appended
<1>4. /\ Len(mx) = Len(m) + 1 /\ mx # <<>> /\ mx[Len(m) + 1] = x
      /\ \A i \in 1..Len(m) : mx[i] = m[i]
  BY Appended
<1>1. /\ Len(kx) = Len(k) + 1 /\ Len(mx) = Len(m) + 1 /\ mx # <<>> /\ kx # <<>>
      /\ \A i \in 1..Len(k) : kx[i] = k[i]
      /\ \A i \in 1..Len(m) : mx[i] = m[i]
      /\ kx[Len(k) + 1] = x /\ mx[Len(m) + 1] = x
  BY <1>0, <1>4
<1>2. Len(k) \in Nat /\ Len(m) \in Nat
  OBVIOUS
<1>. HIDE DEF kx, mx
<1>3. ASSUME NEW i \in 1..Len(kx) PROVE kx[i] = mx[Len(mx) - Len(kx) + i]
  <2>1. CASE i = Len(k) + 1
    BY <1>1, <1>2, <2>1
  <2>2. CASE i \in 1..Len(k)
    <3>. DEFINE j == Len(m) - Len(k) + i
    <3>1. k[i] = m[j] /\ Len(k) <= Len(m)
      BY <2>2 DEF Ends
    <3>2. j \in 1..Len(m) /\ j = Len(mx) - Len(kx) + i
      BY <1>1, <1>2, <2>2, <3>1
    <3>3. kx[i] = k[i] /\ mx[j] = m[j]
      BY <1>1, <2>2, <3>2
    <3>. HIDE DEF j
    <3>. QED BY <3>1, <3>2, <3>3
  <2>. QED BY <1>1, <1>2, <2>1, <2>2
<1>5. Ends(kx, mx)
  BY <1>1, <1>2, <1>3 DEF Ends
<1>. QED BY <1>5 DEF kx, mx

\* The newest is the end.
LEMMA EndsNewest ==
  ASSUME NEW k \in Seq(Nat), NEW m \in Seq(Nat), Ends(k, m)
  PROVE  Ends(Newest(k, 1), m)
<1>1. CASE k = <<>>
  BY <1>1, NewestType
<1>2. CASE k # <<>>
  <2>. DEFINE z == k[Len(k)]
  <2>1. Newest(k, 1) = <<z>> /\ Len(k) \in 1..Len(k)
    BY <1>2, NewestType
  <2>2. Len(m) >= 1 /\ Len(m) \in Nat /\ z = m[Len(m)]
    BY <2>1 DEF Ends
  <2>. HIDE DEF z
  <2>3. Len(<<z>>) = 1 /\ <<z>>[1] = z /\ <<z>> # <<>>
    OBVIOUS
  <2>4. Ends(<<z>>, m)
    BY <2>2, <2>3 DEF Ends
  <2>. QED BY <2>1, <2>4
<1>. QED BY <1>1, <1>2

\* Every step keeps KeptInv.
LEMMA NextKept ==
  ASSUME TypeInv, KeptInv, BackupScheduleNext
  PROVE  KeptInv'
<1>0. srv.made \in Seq(Nat) /\ srv.kept \in Seq(Nat) /\ srv.day \in Nat
  BY DEF TypeInv, ServerOK
<1>1. CASE UNCHANGED <<srv.made, srv.kept>>
  BY <1>1 DEF KeptInv
<1>2. CASE BackupMade
  <2>1. srv'.made = Append(srv.made, srv.day) /\ srv'.kept = Append(srv.kept, srv.day)
    BY <1>2, MadeEffect
  <2>. QED BY <1>0, <2>1, EndsAppend DEF KeptInv
<1>3. CASE ApplyRetention
  <2>1. srv'.made = srv.made /\ srv'.kept \in {srv.kept, Newest(srv.kept, 1)}
    BY <1>3, TrimEffect
  <2>. QED BY <1>0, <2>1, EndsNewest DEF KeptInv
<1>4. Tick \/ BackupFails \/ Crash \/ StampLastRun \/ TimePasses =>
        UNCHANGED <<srv.made, srv.kept>>
  BY TickEffect, StopEffect, StampEffect, TimeEffect DEF Log
<1>5. Edits \/ Calls \/ ServeSave => UNCHANGED <<srv.made, srv.kept>>
  BY FormType, ServeEffect DEF Log
<1>. QED BY <1>1, <1>2, <1>3, <1>4, <1>5, BackupCases DEF Serves

-----------------------------------------------------------------------------
(* One backup a day *)

\* The days after another is stamped.
LEMMA AppendDay ==
  ASSUME NEW q \in Seq(Nat), NEW d \in Nat
  PROVE  /\ Append(q, d) # <<>> /\ Append(q, d)[Len(Append(q, d))] = d
         /\ Until(q, d) => Until(Append(q, d), d)
         /\ Rising(q) /\ Before(q, d) => Rising(Append(q, d))
         /\ Range(Append(q, d)) = Range(q) \cup {d}
<1>. DEFINE p == Append(q, d)
<1>1. /\ p # <<>> /\ Len(p) = Len(q) + 1 /\ p[Len(q) + 1] = d
      /\ DOMAIN p = 1..Len(q) + 1 /\ DOMAIN q = 1..Len(q) /\ Len(q) \in Nat
      /\ \A i \in 1..Len(q) : p[i] = q[i] /\ q[i] \in Nat
  <2>1. p \in Seq(Nat) /\ DOMAIN q = 1..Len(q) /\ Len(q) \in Nat
    OBVIOUS
  <2>2. /\ Len(p) = Len(q) + 1 /\ p # <<>> /\ p[Len(q) + 1] = d
        /\ \A i \in 1..Len(q) : p[i] = q[i]
    BY Appended
  <2>3. \A i \in 1..Len(q) : q[i] \in Nat
    OBVIOUS
  <2>. HIDE DEF p
  <2>. QED BY <2>1, <2>2, <2>3
<1>. HIDE DEF p
<1>2. Until(q, d) => Until(p, d)
  BY <1>1 DEF Until
<1>3. ASSUME Rising(q), Before(q, d), NEW i \in DOMAIN p, NEW j \in DOMAIN p, i < j
      PROVE  p[i] < p[j]
  <2>1. i \in 1..Len(q)
    BY <1>1, <1>3
  <2>2. CASE j = Len(q) + 1
    BY <1>1, <1>3, <2>1, <2>2 DEF Before
  <2>3. CASE j \in 1..Len(q)
    BY <1>1, <1>3, <2>1, <2>3 DEF Rising
  <2>. QED BY <1>1, <2>2, <2>3
<1>4. Range(p) = Range(q) \cup {d}
  <2>1. \A x : x \in Range(p) <=> \E i \in 1..Len(q) + 1 : p[i] = x
    BY <1>1 DEF Range
  <2>2. \A x : x \in Range(q) <=> \E i \in 1..Len(q) : p[i] = x
    BY <1>1 DEF Range
  <2>3. 1..Len(q) + 1 = (1..Len(q)) \cup {Len(q) + 1}
    BY <1>1
  <2>. QED BY <1>1, <2>1, <2>2, <2>3
<1>. QED BY <1>1, <1>2, <1>3, <1>4 DEF p, Rising

\* The last of the days is the latest.
LEMMA LastIsLatest ==
  ASSUME NEW q \in Seq(Nat), NEW d \in Nat, Rising(q), Until(q, d),
         q # <<>> => q[Len(q)] # d
  PROVE  Before(q, d)
<1>. SUFFICES ASSUME NEW i \in DOMAIN q PROVE q[i] < d
  BY DEF Before
<1>1. /\ Len(q) \in DOMAIN q /\ i \in 1..Len(q) /\ q # <<>>
      /\ \A k \in DOMAIN q : q[k] \in Nat /\ q[k] <= d
  BY DEF Until
<1>2. q[Len(q)] < d
  BY <1>1
<1>3. CASE i = Len(q)
  BY <1>2, <1>3
<1>4. CASE i < Len(q)
  BY <1>1, <1>2, <1>4 DEF Rising
<1>. QED BY <1>1, <1>3, <1>4

\* Every step keeps OnceInv.
LEMMA NextOnce ==
  ASSUME TypeInv, OnceInv, BackupScheduleNext
  PROVE  OnceInv'
<1>0. srv.stamps \in Seq(Nat) /\ srv.day \in Nat
  BY DEF TypeInv, ServerOK
<1>. DEFINE Same == UNCHANGED <<srv.stamps, srv.day, srv.sched, srv.undone>>
<1>1. CASE Same /\ (srv'.run # Idle => srv.run # Idle)
  BY <1>1 DEF OnceInv
<1>2. CASE Tick
  <2>1. Same /\ srv.run = Idle /\ (srv'.run # Idle => IsDue(srv.sched))
    BY <1>2, TickEffect DEF Clock, Memory
  <2>2. ASSUME ~srv.undone, IsDue(srv.sched) PROVE Before(srv.stamps, srv.day)
    BY <1>0, <2>2, LastIsLatest DEF OnceInv, IsDue
  <2>. QED BY <2>1, <2>2 DEF OnceInv
<1>3. CASE StampLastRun
  <2>1. /\ srv.run \in Run /\ srv'.run = Idle /\ srv'.undone = srv.undone
        /\ srv'.sched = [srv.run.sched EXCEPT !.last = srv.day]
        /\ srv'.stamps = Append(srv.stamps, srv.day) /\ srv'.day = srv.day
    BY <1>3, StampEffect DEF Clock
  <2>2. srv.run # Idle /\ srv'.sched.last = srv.day
    BY <2>1 DEF Run, Idle, Record
  <2>. QED BY <1>0, <2>1, <2>2, AppendDay DEF OnceInv
<1>4. CASE TimePasses
  <2>1. /\ UNCHANGED <<srv.stamps, srv.sched, srv.undone>>
        /\ srv'.day \in {srv.day, srv.day + 1} /\ (srv'.run # Idle => srv.run # Idle)
    BY <1>4, TimeEffect
  <2>2. \A i \in DOMAIN srv.stamps : srv.stamps[i] \in Nat
    BY <1>0
  <2>. QED BY <1>0, <2>1, <2>2 DEF OnceInv, Until, Before
<1>5. CASE ServeSave
  <2>1. PICK i \in DOMAIN net :
          /\ srv'.sched = net[i].arg
          /\ srv'.undone = (srv.undone \/ net[i].arg.last # srv.sched.last)
    BY <1>5, ServeEffect
  <2>2. UNCHANGED <<srv.stamps, srv.day, srv.run>>
    BY <1>5, ServeEffect DEF Clock
  <2>. QED BY <2>1, <2>2 DEF OnceInv
<1>6. BackupMade \/ BackupFails \/ Crash \/ ApplyRetention =>
        Same /\ (srv'.run # Idle => srv.run # Idle)
  BY MadeEffect, StopEffect, TrimEffect DEF Clock, Memory, Run, Idle
<1>7. Edits \/ Calls => Same /\ srv'.run = srv.run
  BY FormType
<1>. QED BY <1>1, <1>2, <1>3, <1>4, <1>5, <1>6, <1>7, BackupCases DEF Serves

-----------------------------------------------------------------------------
(* The day in each record is one that was stamped *)

\* The goroutine stamps the day before it is in the record.
LEMMA ServesPast ==
  ASSUME TypeInv, PastInv, Serves
  PROVE  PastInv'
<1>. DEFINE Known == Past(srv.sched, srv.stamps) /\ Past(ui.form.sched, srv.stamps)
                     /\ \A i \in DOMAIN net : PastIn(net[i], srv.stamps)
<1>0. /\ srv.stamps \in Seq(Nat) /\ srv.day \in Nat
      /\ ui' = ui /\ net' = net /\ Known
      /\ srv.run # Idle => Past(srv.run.sched, srv.stamps)
  BY ServesType DEF TypeInv, ServerOK, PastInv, Untouched
<1>1. CASE StampLastRun
  <2>1. /\ srv'.run = Idle /\ srv.run \in Run
        /\ srv'.sched = [srv.run.sched EXCEPT !.last = srv.day]
        /\ srv'.stamps = Append(srv.stamps, srv.day)
    BY <1>1, StampEffect
  <2>2. Range(srv'.stamps) = Range(srv.stamps) \cup {srv.day}
    BY <1>0, <2>1, AppendDay
  <2>3. \A s : Past(s, srv.stamps) => Past(s, srv'.stamps)
    BY <2>2 DEF Past
  <2>4. srv'.sched.last = srv.day
    BY <2>1 DEF Run, Record
  <2>5. Past(srv'.sched, srv'.stamps)
    BY <2>2, <2>4 DEF Past
  <2>6. \A i \in DOMAIN net : PastIn(net[i], srv'.stamps)
    BY <1>0, <2>3 DEF PastIn
  <2>. QED BY <1>0, <2>1, <2>3, <2>5, <2>6 DEF PastInv
<1>2. CASE ~StampLastRun
  <2>1. UNCHANGED <<srv.stamps, srv.sched>>
        /\ (srv'.run # Idle => \/ srv.run # Idle /\ srv'.run.sched = srv.run.sched
                               \/ srv'.run.sched = srv.sched)
    <3>1. CASE Tick
      BY <3>1, TickEffect DEF Memory
    <3>2. CASE BackupMade
      BY <3>2, MadeEffect DEF Memory, Run, Idle
    <3>3. CASE BackupFails \/ Crash
      BY <3>3, StopEffect DEF Memory
    <3>4. CASE ApplyRetention
      BY <3>4, TrimEffect DEF Memory, Run, Idle
    <3>5. CASE TimePasses
      BY <3>5, TimeEffect
    <3>. QED BY <1>2, <3>1, <3>2, <3>3, <3>4, <3>5 DEF Serves
  <2>2. srv'.run # Idle => Past(srv'.run.sched, srv.stamps)
    BY <1>0, <2>1
  <2>. QED BY <1>0, <2>1, <2>2 DEF PastInv
<1>. QED BY <1>1, <1>2

\* An answer brings no other day.
LEMMA MarksPast ==
  ASSUME NetOK, NEW days, \A k \in DOMAIN net : PastIn(net[k], days),
         NEW i, NEW r, Marks(i, r), r.state = "done" => r.reply # <<>>,
         r.state = "done" => Past(Head(r.reply), days)
  PROVE  \A k \in DOMAIN net' : PastIn(net'[k], days)
<1>1. /\ DOMAIN net' = DOMAIN net /\ net'[i] = r
      /\ \A k \in DOMAIN net : k # i => net'[k] = net[k]
  BY MarksNet
<1>2. i \in DOMAIN net /\ r.by = net[i].by /\ r.arg = net[i].arg
  BY DEF Marks
<1>3. PastIn(r, days)
  BY <1>2 DEF PastIn
<1>. QED BY <1>1, <1>3

\* Every step keeps PastInv.
LEMMA NextPast ==
  ASSUME TypeInv, PastInv, BackupScheduleNext
  PROVE  PastInv'
<1>. DEFINE q == srv.stamps
            Carried == \A i \in DOMAIN net : PastIn(net[i], q)
<1>0. /\ NetOK /\ Carried /\ Past(srv.sched, q) /\ Past(ui.form.sched, q)
      /\ srv.run # Idle => Past(srv.run.sched, q)
  BY DEF TypeInv, PastInv
<1>1. CASE ScheduleLoaded \/ ScheduleSaved
  <2>1. PICK i \in DOMAIN net : /\ net[i].state = "done" /\ net' = RemoveAt(net, i)
                               /\ ui'.form.sched = Answer(i)
    BY <1>1, LoadedEffect, SavedEffect DEF Arrived
  <2>2. \A k \in DOMAIN net' : PastIn(net'[k], q)
    BY <1>0, <2>1, TakenNet
  <2>3. Past(ui'.form.sched, q)
    BY <1>0, <2>1 DEF PastIn, Answer
  <2>4. srv' = srv
    BY <1>1, FormType DEF Edits
  <2>. QED BY <1>0, <2>2, <2>3, <2>4 DEF PastInv
<1>2. CASE EditSchedule
  <2>1. srv' = srv /\ net' = net /\ ui'.form.sched.last = ui.form.sched.last
    BY <1>2, EditEffect
  <2>2. Past(ui'.form.sched, q)
    BY <1>0, <2>1 DEF Past
  <2>. QED BY <1>0, <2>1, <2>2 DEF PastInv
<1>3. CASE SaveSchedule
  <2>1. PICK m \in Save : /\ m.arg = ui.form.sched /\ m.state = "sent"
                          /\ net' = Append(net, m)
    BY <1>3, SaveEffect
  <2>2. PastIn(m, q)
    BY <1>0, <2>1 DEF PastIn
  <2>3. /\ DOMAIN net' = 1..Len(net) + 1 /\ DOMAIN net = 1..Len(net) /\ Len(net) \in Nat
        /\ net'[Len(net) + 1] = m /\ \A k \in DOMAIN net : net'[k] = net[k]
    BY <1>0, <2>1, AskedNet DEF NetOK
  <2>4. \A k \in DOMAIN net' : PastIn(net'[k], q)
    BY <1>0, <2>2, <2>3
  <2>. QED BY <1>0, <1>3, <2>4, SaveEffect DEF PastInv
<1>4. CASE ServeSave
  <2>1. PICK i \in DOMAIN net, r \in Message :
          /\ Served(i, "save") /\ Marks(i, r) /\ r.state = "done"
          /\ r.reply = <<net[i].arg>> /\ srv'.sched = net[i].arg
    BY <1>4, ServeEffect
  <2>2. Past(net[i].arg, q)
    BY <1>0, <2>1 DEF PastIn, Served
  <2>3. r.reply # <<>> /\ Head(r.reply) = net[i].arg
    BY <2>1
  <2>4. \A k \in DOMAIN net' : PastIn(net'[k], q)
    BY <1>0, <2>1, <2>2, <2>3, MarksPast
  <2>5. UNCHANGED <<srv.stamps, srv.run, ui>>
    BY <1>4, ServeEffect
  <2>. QED BY <1>0, <2>1, <2>2, <2>4, <2>5 DEF PastInv
<1>5. CASE Tells("load", srv.sched)
  <2>1. PICK i \in DOMAIN net, r \in Message : Marks(i, r) /\ r.state = "done" /\ r.reply = <<srv.sched>>
    BY <1>5, TellEffect
  <2>2. r.reply # <<>> /\ Head(r.reply) = srv.sched
    BY <2>1
  <2>3. \A k \in DOMAIN net' : PastIn(net'[k], q)
    BY <1>0, <2>1, <2>2, MarksPast
  <2>. QED BY <1>0, <1>5, <2>3, TellEffect DEF PastInv
<1>6. CASE Forbid
  <2>1. PICK i \in DOMAIN net, r \in Message : Marks(i, r) /\ r.state = "error"
    BY <1>6, ForbidEffect
  <2>2. \A k \in DOMAIN net' : PastIn(net'[k], q)
    BY <1>0, <2>1, MarksPast
  <2>. QED BY <1>0, <1>6, <2>2, ForbidEffect DEF PastInv
<1>7. CASE DropError({"load", "save"})
  <2>1. PICK i \in DOMAIN net : net' = RemoveAt(net, i)
    BY <1>7, DropEffect
  <2>2. \A k \in DOMAIN net' : PastIn(net'[k], q)
    BY <1>0, <2>1, TakenNet
  <2>. QED BY <1>0, <1>7, <2>2, DropEffect DEF PastInv
<1>. QED BY <1>1, <1>2, <1>3, <1>4, <1>5, <1>6, <1>7, ServesPast, BackupCases
         DEF Edits, Calls

-----------------------------------------------------------------------------
(* The backup of a day is not left out *)

\* Every step keeps DailyInv: if tick finds nothing due, the day is stamped already.
LEMMA NextDaily ==
  ASSUME TypeInv, PastInv, DailyInv, BackupScheduleNext
  PROVE  DailyInv'
<1>1. CASE UNCHANGED <<srv.ticked, srv.changed, srv.sched, srv.minute, srv.day, srv.started,
                       srv.stamps>>
  BY <1>1 DEF DailyInv
<1>2. CASE Tick
  <2>1. /\ UNCHANGED <<srv.changed, srv.sched, srv.minute, srv.day, srv.stamps>>
        /\ IsDue(srv.sched) => srv'.started = srv.started \cup {srv.day}
    BY <1>2, TickEffect DEF Clock, Memory
  <2>2. ASSUME srv.sched.enabled, srv.sched.at = srv.minute, ~IsDue(srv.sched)
        PROVE  srv.day \in Range(srv.stamps)
    BY <2>2 DEF IsDue, PastInv, Past, TypeInv, ServerOK
  <2>. QED BY <2>1, <2>2 DEF DailyInv
<1>3. StampLastRun \/ ServeSave => srv'.changed = TRUE
  BY StampEffect, ServeEffect
<1>4. TimePasses => srv'.ticked = FALSE
  BY TimeEffect
<1>5. BackupMade \/ BackupFails \/ Crash \/ ApplyRetention \/ Edits \/ Calls =>
        UNCHANGED <<srv.ticked, srv.changed, srv.sched, srv.minute, srv.day, srv.started,
                    srv.stamps>>
  BY MadeEffect, StopEffect, TrimEffect, FormType DEF Clock, Memory
<1>6. srv'.changed = TRUE \/ srv'.ticked = FALSE => DailyInv'
  BY DEF DailyInv
<1>. QED BY <1>1, <1>2, <1>3, <1>4, <1>5, <1>6, BackupCases DEF Serves

-----------------------------------------------------------------------------
(* The form shows what the scheduler goes by *)

\* What a user may do stays.
LEMMA AuthorizedSame ==
  ASSUME Rests, NEW call
  PROVE  Authorized(call)' <=> Authorized(call)
BY DEF Rests, Authorized, IsAdmin, IsSuperAdmin, Can

\* The goroutine stores other settings than it finds only when it overwrites.
LEMMA ServesShown ==
  ASSUME TypeInv, ShownInv, Serves
  PROVE  ShownInv'
<1>1. UNCHANGED <<page, perms, line, ui, net>>
  BY ServesType DEF Untouched
<1>2. ~srv'.overwritten => ~srv.overwritten /\ SettingsOf(srv'.sched) = SettingsOf(srv.sched)
  <2>1. CASE StampLastRun
    <3>1. /\ srv.run \in Run /\ srv'.sched = [srv.run.sched EXCEPT !.last = srv.day]
          /\ srv'.overwritten =
               (srv.overwritten \/ SettingsOf(srv.run.sched) # SettingsOf(srv.sched))
      BY <2>1, StampEffect
    <3>2. SettingsOf(srv'.sched) = SettingsOf(srv.run.sched)
      BY <3>1 DEF Run, Record, SettingsOf
    <3>. QED BY <3>1, <3>2
  <2>2. CASE ~StampLastRun
    BY <2>2, TickEffect, MadeEffect, StopEffect, TrimEffect, TimeEffect DEF Serves, Memory
  <2>. QED BY <2>1, <2>2
<1>3. \A call : Authorized(call)' <=> Authorized(call)
  BY <1>1, AuthorizedSame DEF Rests
<1>4. AllowedInv' /\ OrderInv' /\ line' = "orderly"
  BY <1>1, <1>3 DEF ShownInv, AllowedInv, OrderInv
<1>5. ASSUME ~srv'.overwritten PROVE LastInv' /\ AgreesInv'
  <2>1. LastInv /\ AgreesInv /\ \A s : Agrees(s)' <=> Agrees(s)
    BY <1>2, <1>5 DEF ShownInv, Agrees
  <2>2. \A i : Answer(i)' = Answer(i)
    BY <1>1 DEF Answer
  <2>3. LastInv'
    BY <1>1, <2>1, <2>2 DEF LastInv, Agrees
  <2>4. AgreesInv'
    BY <1>1, <1>3, <2>1 DEF AgreesInv, Agrees
  <2>. QED BY <2>3, <2>4
<1>. QED BY <1>4, <1>5 DEF ShownInv

\* The next request in turn is answered or refused.
LEMMA MarksShown ==
  ASSUME NetOK, ShownInv, Rests, ui' = ui, NEW i, NEW r, Marks(i, r),
         net[i].state = "sent", InTurn(i), r.state \in {"done", "error"},
         r.state = "done" => /\ Authorized(net[i].call) /\ r.reply # <<>>
                             /\ SettingsOf(Head(r.reply)) = SettingsOf(srv'.sched),
         r.state = "error" => ~Authorized(net[i].call)
  PROVE  /\ AllowedInv' /\ OrderInv' /\ LastInv' /\ net' # <<>> /\ line' = "orderly"
<1>1. /\ NetOK' /\ DOMAIN net' = DOMAIN net /\ net'[i] = r
      /\ \A k \in DOMAIN net : k # i => net'[k] = net[k]
  BY MarksNet
<1>2. i \in DOMAIN net /\ r.by = net[i].by /\ r.call = net[i].call /\ line = "orderly"
  BY DEF Marks, ShownInv
<1>3. /\ \A k \in DOMAIN net : k < i => net[k].state # "sent"
      /\ \A k \in DOMAIN net : i < k => net[k].state = "sent"
  BY <1>2 DEF InTurn, NetOK, ShownInv, OrderInv
<1>4. Len(net') = Len(net)
  BY <1>1 DEF NetOK
<1>5. AllowedInv'
  BY <1>1, <1>2, <1>4, AuthorizedSame DEF ShownInv, AllowedInv
<1>6. OrderInv'
  BY <1>1, <1>2, <1>3 DEF ShownInv, OrderInv, NetOK
<1>7. LastInv'
  <2>. SUFFICES ASSUME NEW k \in DOMAIN net', net'[k].state = "done",
                       \A j \in DOMAIN net' : k < j => net'[j].state = "sent"
                PROVE  SettingsOf(Head(net'[k].reply)) = SettingsOf(srv'.sched)
    BY DEF LastInv, Answer, Agrees
  <2>1. i \in Int /\ k \in Int
    BY <1>1, <1>2 DEF NetOK
  <2>2. k = i
    BY <1>1, <1>2, <1>3, <2>1
  <2>3. net'[k] = r /\ r.state = "done"
    BY <1>1, <2>2
  <2>. QED BY <2>3
<1>. QED BY <1>1, <1>2, <1>5, <1>6, <1>7 DEF Rests

\* The first answer is taken, and the others move up.
LEMMA TakenShown ==
  ASSUME NetOK, ShownInv, Rests, srv' = srv, NEW i \in DOMAIN net, Next1(i),
         net' = RemoveAt(net, i), ui'.form.shown => ui.form.shown \/ Len(net) = 1
  PROVE  /\ AllowedInv' /\ OrderInv' /\ (LastInv => LastInv') /\ line' = "orderly"
         /\ i = 1 /\ (net' = <<>> <=> Len(net) = 1)
<1>0. i = 1 /\ line = "orderly" /\ net \in Seq(Message)
  BY DEF Next1, ShownInv, NetOK, Message
<1>1. /\ net' \in Seq(Message) /\ Len(net') = Len(net) - 1 /\ Len(net) \in Nat
      /\ \A k \in 1..Len(net) - 1 : net'[k] = net[k + 1]
  BY <1>0, TakeOff
<1>2. /\ DOMAIN net' = 1..Len(net) - 1 /\ DOMAIN net = 1..Len(net)
      /\ \A k \in DOMAIN net' : k + 1 \in DOMAIN net /\ net'[k] = net[k + 1]
  BY <1>0, <1>1
<1>3. net' = <<>> <=> Len(net) = 1
  BY <1>0, <1>1
<1>4. AllowedInv'
  <2>. SUFFICES ASSUME NEW k \in DOMAIN net'
                PROVE  /\ net'[k].state = "error" => ~Authorized(net'[k].call)
                       /\ net'[k].state = "done"  => Authorized(net'[k].call)
                       /\ net'[k].by # "load"
    BY AuthorizedSame DEF AllowedInv
  <2>2. /\ net[k + 1].state = "error" => ~Authorized(net[k + 1].call)
        /\ net[k + 1].state = "done"  => Authorized(net[k + 1].call)
        /\ net[k + 1].by # "load"
    BY <1>1, <1>2 DEF ShownInv, AllowedInv
  <2>. QED BY <1>2, <2>2
<1>5. OrderInv'
  <2>. SUFFICES ASSUME NEW j \in DOMAIN net', NEW k \in DOMAIN net', j < k,
                       net'[k].state # "sent"
                PROVE  net'[j].state # "sent"
    BY DEF OrderInv
  <2>. QED BY <1>1, <1>2 DEF ShownInv, OrderInv
<1>6. ASSUME LastInv PROVE LastInv'
  <2>. SUFFICES ASSUME NEW k \in DOMAIN net', net'[k].state = "done",
                       \A j \in DOMAIN net' : k < j => net'[j].state = "sent"
                PROVE  SettingsOf(Head(net'[k].reply)) = SettingsOf(srv'.sched)
    BY DEF LastInv, Answer, Agrees
  <2>1. ASSUME NEW j \in DOMAIN net, k + 1 < j PROVE net[j].state = "sent"
    <3>1. j - 1 \in DOMAIN net' /\ k < j - 1 /\ (j - 1) + 1 = j
      BY <1>1, <1>2, <2>1
    <3>. QED BY <1>2, <3>1
  <2>2. net[k + 1].state = "done" /\ k + 1 \in DOMAIN net
    BY <1>2
  <2>3. Agrees(Answer(k + 1))
    BY <1>6, <2>1, <2>2 DEF LastInv
  <2>. QED BY <1>2, <2>3 DEF Agrees, Answer
<1>. QED BY <1>0, <1>3, <1>4, <1>5, <1>6 DEF Rests

\* The form keeps what it says of the record.
LEMMA FormShown ==
  ASSUME TypeInv, ShownInv, Edits
  PROVE  ShownInv'
<1>0. NetOK /\ net \in Seq(Message) /\ Rests /\ srv' = srv
  BY FormType DEF TypeInv, NetOK, Message
<1>1. \A call : Authorized(call)' <=> Authorized(call)
  BY <1>0, AuthorizedSame
<1>2. \A s : Agrees(s)' <=> Agrees(s)
  BY <1>0 DEF Agrees
<1>3. CASE ScheduleLoaded \/ ScheduleSaved
  <2>1. PICK i \in DOMAIN net :
          /\ net[i].state = "done" /\ Next1(i) /\ net' = RemoveAt(net, i)
          /\ ui'.form.sched = Answer(i)
          /\ \/ net[i].by = "load"
             \/ net[i].call = "saveBackupSchedule" /\ ui'.form.shown = ui.form.shown
    <3>1. CASE ScheduleLoaded
      BY <3>1, LoadedEffect DEF Arrived
    <3>2. CASE ScheduleSaved
      <4>1. PICK i \in DOMAIN net :
              /\ Arrived(i, "save") /\ net' = RemoveAt(net, i)
              /\ ui'.form.shown = ui.form.shown /\ ui'.form.sched = Answer(i)
        BY <3>2, SavedEffect
      <4>2. net[i].by = "save" /\ net[i] \in Load \cup Save
        BY <1>0, <4>1 DEF Arrived, NetOK
      <4>3. net[i].call = "saveBackupSchedule"
        BY <4>2 DEF Load, Save
      <4>. QED BY <4>1, <4>3 DEF Arrived
    <3>. QED BY <1>3, <3>1, <3>2
  <2>2. Authorized(net[i].call) /\ (net[i].by = "load" => Len(net) = 1)
    BY <2>1 DEF ShownInv, AllowedInv
  <2>3. /\ AllowedInv' /\ OrderInv' /\ (LastInv => LastInv') /\ line' = "orderly"
        /\ i = 1 /\ (net' = <<>> <=> Len(net) = 1)
    BY <1>0, <2>1, <2>2, TakenShown
  <2>4. ASSUME ~srv.overwritten, net' = <<>> PROVE Agrees(Answer(i))
    <3>1. \A j \in DOMAIN net : ~(i < j)
      BY <1>0, <2>3, <2>4
    <3>. QED BY <2>1, <2>4, <3>1 DEF ShownInv, LastInv
  <2>5. ~Authorized("saveBackupSchedule") => net' = <<>>
    BY <2>1, <2>2, <2>3
  <2>6. ASSUME ~srv.overwritten PROVE AgreesInv'
    <3>1. net' = <<>> \/ ~Authorized("saveBackupSchedule") =>
            SettingsOf(ui'.form.sched) = SettingsOf(srv'.sched)
      BY <1>0, <2>1, <2>4, <2>5, <2>6 DEF Agrees
    <3>. QED BY <1>1, <3>1 DEF AgreesInv, Agrees
  <2>. QED BY <1>0, <2>3, <2>6 DEF ShownInv
<1>4. CASE EditSchedule
  <2>1. /\ net' = net /\ ui'.edited = TRUE /\ ui.form.shown
    BY <1>4, EditEffect
  <2>2. \A i : Answer(i)' = Answer(i)
    BY <2>1 DEF Answer
  <2>3. AllowedInv' /\ OrderInv' /\ AgreesInv' /\ (LastInv => LastInv')
    BY <1>0, <1>1, <1>2, <2>1, <2>2
    DEF ShownInv, AllowedInv, OrderInv, LastInv, AgreesInv, Agrees
  <2>. QED BY <1>0, <2>3 DEF ShownInv, Rests
<1>5. CASE SaveSchedule
  <2>1. /\ ui' = ui /\ ui.form.shown
        /\ \E m \in Save : m.state = "sent" /\ net' = Append(net, m)
    BY <1>5, SaveEffect
  <2>2. PICK m \in Save : m.state = "sent" /\ net' = Append(net, m)
    BY <2>1
  <2>3. /\ DOMAIN net' = 1..Len(net) + 1 /\ DOMAIN net = 1..Len(net) /\ Len(net) \in Nat
        /\ net'[Len(net) + 1] = m /\ \A k \in DOMAIN net : net'[k] = net[k]
        /\ net' # <<>> /\ m.by = "save"
    BY <1>0, <2>2, AskedNet DEF NetOK, Save
  <2>4. AllowedInv'
    <3>1. \A k \in DOMAIN net : net[k].by # "load"
      BY <2>1 DEF ShownInv, AllowedInv
    <3>. SUFFICES ASSUME NEW k \in DOMAIN net'
                  PROVE  /\ net'[k].state = "error" => ~Authorized(net'[k].call)
                         /\ net'[k].state = "done"  => Authorized(net'[k].call)
                         /\ net'[k].by # "load"
      BY <1>1 DEF AllowedInv
    <3>2. CASE k = Len(net) + 1
      BY <2>2, <2>3, <3>2
    <3>3. CASE k \in DOMAIN net
      BY <2>3, <3>1, <3>3 DEF ShownInv, AllowedInv
    <3>. QED BY <2>3, <3>2, <3>3
  <2>5. OrderInv'
    <3>. SUFFICES ASSUME NEW j \in DOMAIN net', NEW k \in DOMAIN net', j < k,
                         net'[k].state # "sent"
                  PROVE  net'[j].state # "sent"
      BY DEF OrderInv
    <3>1. k \in DOMAIN net /\ j \in DOMAIN net
      BY <2>2, <2>3
    <3>. QED BY <2>3, <3>1 DEF ShownInv, OrderInv
  <2>6. ASSUME LastInv PROVE LastInv'
    <3>. SUFFICES ASSUME NEW k \in DOMAIN net', net'[k].state = "done",
                         \A j \in DOMAIN net' : k < j => net'[j].state = "sent"
                  PROVE  SettingsOf(Head(net'[k].reply)) = SettingsOf(srv'.sched)
      BY DEF LastInv, Answer, Agrees
    <3>1. k \in DOMAIN net
      BY <2>2, <2>3
    <3>2. \A j \in DOMAIN net : k < j => net[j].state = "sent"
      BY <2>3
    <3>3. Agrees(Answer(k)) /\ net'[k] = net[k]
      BY <2>3, <2>6, <3>1, <3>2 DEF LastInv
    <3>. QED BY <1>0, <3>3 DEF Agrees, Answer
  <2>7. AgreesInv => AgreesInv'
    BY <1>0, <1>1, <2>1, <2>3 DEF AgreesInv, Agrees
  <2>. QED BY <1>0, <2>4, <2>5, <2>6, <2>7 DEF ShownInv, Rests
<1>. QED BY <1>3, <1>4, <1>5 DEF Edits

\* So do the requests.
LEMMA CallsShown ==
  ASSUME TypeInv, ShownInv, ServeSave \/ Calls
  PROVE  ShownInv'
<1>0. NetOK /\ line = "orderly"
  BY DEF TypeInv, ShownInv
<1>1. CASE ServeSave
  <2>1. PICK i \in DOMAIN net, r \in Message :
          /\ Served(i, "save") /\ Marks(i, r) /\ r.state = "done"
          /\ net[i].arg \in Record /\ r.reply = <<net[i].arg>> /\ srv'.sched = net[i].arg
    BY <1>1, ServeEffect
  <2>2. /\ net[i].state = "sent" /\ InTurn(i) /\ Authorized(net[i].call)
        /\ net[i].call = "saveBackupSchedule"
    BY <1>0, <2>1 DEF Served, NetOK, Load, Save
  <2>3. r.reply # <<>> /\ SettingsOf(Head(r.reply)) = SettingsOf(srv'.sched)
    BY <2>1
  <2>4. Rests /\ ui' = ui /\ srv'.overwritten = srv.overwritten
    BY <1>1, ServeEffect
  <2>5. /\ AllowedInv' /\ OrderInv' /\ LastInv' /\ net' # <<>> /\ line' = "orderly"
    BY <1>0, <2>1, <2>2, <2>3, <2>4, MarksShown
  <2>6. AgreesInv'
    BY <2>2, <2>4, <2>5, AuthorizedSame DEF AgreesInv
  <2>. QED BY <2>5, <2>6 DEF ShownInv
<1>2. CASE Tells("load", srv.sched)
  <2>1. PICK i \in DOMAIN net, r \in Message :
          Served(i, "load") /\ Marks(i, r) /\ r.state = "done" /\ r.reply = <<srv.sched>>
    BY <1>2, TellEffect
  <2>2. net[i].state = "sent" /\ InTurn(i) /\ Authorized(net[i].call) /\ net[i].by = "load"
    BY <2>1 DEF Served
  <2>3. Rests /\ ui' = ui /\ srv' = srv
    BY <1>2, TellEffect
  <2>4. r.reply # <<>> /\ SettingsOf(Head(r.reply)) = SettingsOf(srv'.sched)
    BY <2>1, <2>3
  <2>5. /\ AllowedInv' /\ OrderInv' /\ LastInv' /\ net' # <<>> /\ line' = "orderly"
    BY <1>0, <2>1, <2>2, <2>3, <2>4, MarksShown
  <2>6. ~ui'.form.shown
    BY <2>2, <2>3 DEF ShownInv, AllowedInv
  <2>. QED BY <2>5, <2>6 DEF ShownInv, AgreesInv
<1>3. CASE Forbid
  <2>1. PICK i \in DOMAIN net, r \in Message :
          /\ net[i].state = "sent" /\ InTurn(i)
          /\ ~Authorized(net[i].call) /\ Marks(i, r) /\ r.state = "error"
    BY <1>3, ForbidEffect
  <2>2. Rests /\ ui' = ui /\ srv' = srv
    BY <1>3, ForbidEffect
  <2>3. /\ AllowedInv' /\ OrderInv' /\ LastInv' /\ net' # <<>> /\ line' = "orderly"
    BY <1>0, <2>1, <2>2, MarksShown
  <2>4. AgreesInv => AgreesInv'
    BY <2>2, <2>3, AuthorizedSame DEF AgreesInv, Agrees
  <2>. QED BY <2>2, <2>3, <2>4 DEF ShownInv
<1>4. CASE DropError({"load", "save"})
  <2>1. PICK i \in DOMAIN net :
          net[i].state = "error" /\ Next1(i) /\ net' = RemoveAt(net, i)
    BY <1>4, DropEffect
  <2>2. Rests /\ ui' = ui /\ srv' = srv
    BY <1>4, DropEffect
  <2>3. /\ AllowedInv' /\ OrderInv' /\ (LastInv => LastInv') /\ line' = "orderly"
    BY <1>0, <2>1, <2>2, TakenShown
  <2>4. ui.form.shown => ~Authorized("saveBackupSchedule")
    BY <1>0, <2>1 DEF ShownInv, AllowedInv, NetOK, Load, Save
  <2>5. AgreesInv => AgreesInv'
    BY <2>2, <2>4, AuthorizedSame DEF AgreesInv, Agrees
  <2>. QED BY <2>2, <2>3, <2>5 DEF ShownInv
<1>. QED BY <1>1, <1>2, <1>3, <1>4 DEF Calls

\* Every step keeps ShownInv.
LEMMA NextShown ==
  ASSUME TypeInv, ShownInv, BackupScheduleNext
  PROVE  ShownInv'
BY BackupCases, ServesShown, FormShown, CallsShown

-----------------------------------------------------------------------------
(* The inductive invariant holds *)

\* It holds when the page is opened.
LEMMA BackupStart ==
  ASSUME BackupScheduleInit
  PROVE  BackupInv
<1>1. PICK s \in Settings :
        srv = [sched |-> Stored(s, Never), run |-> Idle, day |-> 1, minute |-> 0,
               ticked |-> FALSE, made |-> <<>>, kept |-> <<>>, stamps |-> <<>>,
               started |-> {}, changed |-> FALSE, undone |-> FALSE, overwritten |-> FALSE]
  BY DEF BackupScheduleInit
<1>2. Stored(s, Never) \in Record /\ Stored(s, Never).last = Never
  BY DEF Stored, Settings, Record, Never
<1>. HIDE DEF Stored
<1>. DEFINE m == Request("load", "getBackupSchedule", NoArg)
<1>3. /\ page = "backupSchedule" /\ line = "orderly" /\ net = <<m>>
      /\ ui = [form |-> [shown |-> FALSE, sched |-> srv.sched], edited |-> FALSE, busy |-> {}]
  BY DEF BackupScheduleInit
<1>4. m \in Load /\ m.state = "sent" /\ m.by = "load"
  <2>1. <<>> \in Seq(Record)
    OBVIOUS
  <2>. QED BY <2>1 DEF Request, Load
<1>. HIDE DEF m
<1>5. DOMAIN net = {1} /\ net[1] = m /\ net \in Seq(Load \cup Save) /\ Len(net) = 1
  BY <1>3, <1>4
<1>6. TypeInv
  <2>1. ServerOK
    BY <1>1, <1>2 DEF ServerOK, Fields, Never
  <2>2. FormOK
    BY <1>1, <1>2, <1>3 DEF FormOK
  <2>3. NetOK
    BY <1>4, <1>5 DEF NetOK
  <2>. QED BY <1>3, <2>1, <2>2, <2>3 DEF TypeInv
<1>7. KeptInv /\ OnceInv /\ DailyInv
  BY <1>1 DEF KeptInv, Ends, OnceInv, Until, Before, Rising, DailyInv
<1>8. PastInv
  BY <1>1, <1>2, <1>3, <1>4, <1>5 DEF PastInv, Past, PastIn
<1>9. ShownInv
  BY <1>3, <1>4, <1>5 DEF ShownInv, AllowedInv, OrderInv, LastInv, AgreesInv
<1>. QED BY <1>6, <1>7, <1>8, <1>9 DEF BackupInv

\* Every step keeps it.
LEMMA BackupMoves ==
  ASSUME BackupInv, [BackupScheduleNext]_webVars
  PROVE  BackupInv'
<1>1. CASE BackupScheduleNext
  BY <1>1, NextType, NextKept, NextOnce, NextPast, NextDaily, NextShown DEF BackupInv
<1>2. CASE UNCHANGED webVars
  BY <1>2 DEF webVars, BackupInv, TypeInv, ServerOK, FormOK, NetOK, KeptInv, OnceInv, PastInv,
         DailyInv, ShownInv, AllowedInv, OrderInv, LastInv, AgreesInv, Agrees, Answer,
         Authorized, IsAdmin, IsSuperAdmin, Can
<1>. QED BY <1>1, <1>2

\* What the minute that ends shows of the backup of its day.
LEMMA MinuteEnds ==
  ASSUME BackupInv, [BackupScheduleNext]_webVars
  PROVE  DailyBackup
<1>. SUFFICES ASSUME srv'.minute # srv.minute, ~srv.changed, srv.sched.enabled,
                     srv.minute = srv.sched.at, srv.run = Idle
              PROVE  srv.day \in srv.started \cup Range(srv.stamps)
  BY DEF DailyBackup
<1>1. TypeInv /\ DailyInv
  BY DEF BackupInv
<1>2. CASE TimePasses
  BY <1>1, <1>2, TimeEffect DEF DailyInv, TypeInv, ServerOK
<1>3. CASE Tick \/ BackupMade \/ BackupFails \/ ApplyRetention \/ StampLastRun \/ Crash
  BY <1>1, <1>3, TickEffect, MadeEffect, StopEffect, TrimEffect, StampEffect DEF Clock
<1>4. CASE Edits \/ Calls \/ ServeSave \/ UNCHANGED webVars
  BY <1>1, <1>4, FormType, ServeEffect DEF Clock, webVars
<1>. QED BY <1>2, <1>3, <1>4, BackupCases DEF Serves

\* So it always holds.
LEMMA BackupInvHolds == BackupScheduleSpec => []BackupInv
BY BackupStart, BackupMoves, PTL DEF BackupScheduleSpec

-----------------------------------------------------------------------------
(* Theorems *)

\* What remains is the end of what was made.
LEMMA KeptNewest == BackupInv => NewestKept
<1>. SUFFICES ASSUME BackupInv PROVE IsSuffix(srv.kept, srv.made)
  BY DEF NewestKept, BackupInv, KeptInv, Ends
<1>. DEFINE k == srv.kept
            m == srv.made
<1>1. k \in Seq(Nat) /\ m \in Seq(Nat) /\ Ends(k, m)
  BY DEF BackupInv, TypeInv, ServerOK, KeptInv
<1>. HIDE DEF k, m
<1>2. /\ Reverse(k) \in Seq(Nat) /\ Len(Reverse(k)) = Len(k)
      /\ Reverse(m) \in Seq(Nat) /\ Len(Reverse(m)) = Len(m)
      /\ \A i \in 1..Len(k) : Reverse(k)[i] = k[Len(k) - i + 1]
      /\ \A i \in 1..Len(m) : Reverse(m)[i] = m[Len(m) - i + 1]
  BY <1>1 DEF Reverse
<1>3. Len(k) \in Nat /\ Len(m) \in Nat /\ Len(k) <= Len(m)
  BY <1>1 DEF Ends
<1>4. ASSUME NEW i \in 1..Len(k) PROVE Reverse(k)[i] = Reverse(m)[i]
  <2>1. Len(k) - i + 1 \in 1..Len(k) /\ i \in 1..Len(m)
    BY <1>3
  <2>2. k[Len(k) - i + 1] = m[Len(m) - Len(k) + (Len(k) - i + 1)]
    BY <1>1, <2>1 DEF Ends
  <2>3. Len(m) - Len(k) + (Len(k) - i + 1) = Len(m) - i + 1
    BY <1>3
  <2>. QED BY <1>2, <2>1, <2>2, <2>3
<1>5. SubSeq(Reverse(k), 1, Len(k)) = SubSeq(Reverse(m), 1, Len(k))
  <2>. DEFINE p == SubSeq(Reverse(k), 1, Len(k))
              q == SubSeq(Reverse(m), 1, Len(k))
  <2>1. /\ p \in Seq(Nat) /\ Len(p) = Len(k)
        /\ \A i \in 1..Len(k) : p[i] = Reverse(k)[i]
    BY <1>2, <1>3, SubSeqProperties
  <2>2. /\ q \in Seq(Nat) /\ Len(q) = Len(k)
        /\ \A i \in 1..Len(k) : q[i] = Reverse(m)[i]
    BY <1>2, <1>3, SubSeqProperties
  <2>. HIDE DEF p, q
  <2>3. p = q
    BY <1>4, <2>1, <2>2, SeqEqual
  <2>. QED BY <2>3 DEF p, q
<1>6. IsSuffix(k, m)
  BY <1>2, <1>3, <1>5 DEF IsSuffix, IsPrefix
<1>. QED BY <1>6 DEF k, m

\* What applyRetention leaves are the newest of the backups that were made, and
\* at least the last, whatever retention the record asked for when the tick read
\* it and however often the server crashed before a backup was trimmed.
THEOREM NewestCorrect == BackupScheduleSpec => []NewestKept
<1>. QED BY KeptNewest, BackupInvHolds, PTL

\* A step leaves no two on a day, nor a day without.
LEMMA BackupDays ==
  BackupInv /\ [BackupScheduleNext]_webVars => [OnceADay' /\ DailyBackup]_webVars
<1>1. BackupInv' => OnceADay'
  BY DEF BackupInv, OnceInv, Rising, OnceADay
<1>. SUFFICES ASSUME BackupInv, [BackupScheduleNext]_webVars PROVE OnceADay' /\ DailyBackup
  OBVIOUS
<1>. QED BY <1>1, BackupMoves, MinuteEnds

\* One backup a day: the days stamped into last_run_at only rise as long as the
\* form has not put an older one back, and the minute of the schedule does not
\* end without the backup of its day, through crashes, failed backups and those
\* that run over midnight.
THEOREM OneBackupCorrect == BackupScheduleSpec => OneBackupADay
<1>. QED BY BackupDays, BackupInvHolds, PTL DEF BackupScheduleSpec, OneBackupADay

\* What the form shows.
LEMMA FormShows == BackupInv => ScheduleShown
BY DEF BackupInv, ShownInv, AgreesInv, Agrees, Quiet, ScheduleShown

\* When nothing is under way, a form without edits shows the settings of the
\* record, unless a backup that was under way has stored older ones: after any
\* number of saves behind each other, edits between them, and refusals.
THEOREM ShownCorrect == BackupScheduleSpec => []ScheduleShown
<1>. QED BY FormShows, BackupInvHolds, PTL

-----------------------------------------------------------------------------
(* One page at a time *)

LEMMA TheInventory ==
  InventoryPages = {"containers", "images", "volumes", "networks", "proxyHosts",
                    "nginxConfigs", "dns", "users", "roles", "sessions", "backups"}
BY DEF InventoryPages, PageOps

\* The actions of a page are the only ones that move it.
LEMMA OnConsole ==
  ASSUME ConsoleNext
  PROVE  /\ page \in QueryPages => QueryNext
         /\ page = "trace" => TraceNext
         /\ page = "pager" => PagerNext
         /\ page \in InventoryPages => InventoryNext
         /\ page = "backupSchedule" => BackupScheduleNext
         /\ page \in {"files", "viewer"} => FilesNext
<1>. DEFINE Q == QueryPages
            I == InventoryPages
<1>1. /\ Q \cap I = {} /\ {"trace", "pager", "backupSchedule", "files", "viewer"} \cap (Q \cup I) = {}
  BY TheInventory DEF QueryPages
<1>. HIDE DEF Q, I
<1>2. /\ QueryNext => page \in Q
      /\ TraceNext => page = "trace"
      /\ PagerNext => page = "pager"
      /\ InventoryNext => page \in I
      /\ BackupScheduleNext => page = "backupSchedule"
      /\ FilesNext => page \in {"files", "viewer"}
  BY DEF QueryNext, TraceNext, PagerNext, InventoryNext, BackupScheduleNext, FilesNext, Q, I
<1>3. \/ QueryNext \/ TraceNext \/ PagerNext \/ InventoryNext \/ BackupScheduleNext \/ FilesNext
  BY Zenon DEF ConsoleNext
<1>4. /\ page \in Q => page \notin I /\ page \notin {"trace", "pager", "backupSchedule", "files", "viewer"}
      /\ page \in I => page \notin Q /\ page \notin {"trace", "pager", "backupSchedule", "files", "viewer"}
      /\ page \in {"trace", "pager", "backupSchedule", "files", "viewer"} => page \notin Q /\ page \notin I
  BY <1>1
<1>. QED BY <1>2, <1>3, <1>4 DEF Q, I

\* A page starts as its own initial states say.
LEMMA OpensConsole ==
  ASSUME ConsoleInit
  PROVE  /\ page \in QueryPages => QueryInit
         /\ page = "trace" => TraceInit
         /\ page = "pager" => PagerInit
         /\ page \in InventoryPages => InventoryInit
         /\ page = "backupSchedule" => BackupScheduleInit
         /\ page \in {"files", "viewer"} => FilesInit
<1>. DEFINE Q == QueryPages
            I == InventoryPages
<1>1. /\ Q \cap I = {} /\ {"trace", "pager", "backupSchedule", "files", "viewer"} \cap (Q \cup I) = {}
  BY TheInventory DEF QueryPages
<1>. HIDE DEF Q, I
<1>2. /\ QueryInit => page \in Q
      /\ TraceInit => page = "trace"
      /\ PagerInit => page = "pager"
      /\ InventoryInit => page \in I
      /\ BackupScheduleInit => page = "backupSchedule"
      /\ FilesInit => page \in {"files", "viewer"}
  BY DEF QueryInit, TraceInit, PagerInit, InventoryInit, BackupScheduleInit, FilesInit, Q, I
<1>3. \/ QueryInit \/ TraceInit \/ PagerInit \/ InventoryInit \/ BackupScheduleInit \/ FilesInit
  BY Zenon DEF ConsoleInit
<1>4. /\ page \in Q => page \notin I /\ page \notin {"trace", "pager", "backupSchedule", "files", "viewer"}
      /\ page \in I => page \notin Q /\ page \notin {"trace", "pager", "backupSchedule", "files", "viewer"}
      /\ page \in {"trace", "pager", "backupSchedule", "files", "viewer"} => page \notin Q /\ page \notin I
  BY <1>1
<1>. QED BY <1>2, <1>3, <1>4 DEF Q, I

\* The pages of queries stay mounted.
LEMMA QueriesStay == ASSUME QueryNext PROVE UNCHANGED session
<1>1. page \in QueryPages
  BY DEF QueryNext
<1>2. CASE PickFilter
  <2>1. \/ page \in Numbered /\ page \notin Polled /\ page # "trafficLogs"
        \/ page = "trafficLogs" /\ page \notin Numbered /\ page \notin Polled
        \/ page \in Polled /\ page \notin Numbered /\ page # "trafficLogs"
    BY <1>1 DEF QueryPages, Numbered, Polled
  <2>. QED BY <1>2, <2>1 DEF PickFilter, Becomes, AskList, Asks, PageIs, session
<1>3. CASE ListLoaded \/ ListFails
  BY <1>3 DEF ListLoaded, ListFails, PageIs, session
<1>4. CASE ~(PickFilter \/ ListLoaded \/ ListFails)
  BY <1>4 DEF QueryNext, GoToPage, TimerFires, ClickRefresh, Poll, ServeList, ClickClear,
    CancelClear, ClearAll, ServeClear, Cleared, ClearFails, ItemArrives, AskList, PageIs,
    ServerIs, NetOnly, Becomes, Asks, Elsewhere, Finds, Makes, Does, ThenAsks, Then, Catch,
    Forbid, Fault, session
<1>. QED BY <1>2, <1>3, <1>4

-----------------------------------------------------------------------------
(* Queries *)

Lists == {"load", "poll"}

\* A request of a page that numbers up to n.
QueryRequest(x, n) ==
  \/ /\ x.by \in Lists /\ x.call = ListCall /\ x.state \in {"sent", "done", "error"}
     /\ DOMAIN x.arg = {"of", "token"} /\ x.arg.token \in 0..n /\ x.arg.of.at \in Nat
     /\ x.by = "poll" => page \in Polled
     /\ x.state = "done" => \E v : x.reply = <<v>> /\ v.of.of = x.arg.of
  \/ x.by = "clear" /\ x.state \in {"sent", "done", "error"}

\* The latest request of a page that numbers them is under way.
AsksFor(q, n) == \E k \in DOMAIN q : q[k].by \in Lists /\ q[k].arg.token = n

\* On such a page: an answer that will be shown is to what the page displays,
\* and so is what it shows, unless it says that it is loading.
NumberedInv ==
  page \in Numbered /\ ~ui.timer =>
    /\ \A k \in DOMAIN net : net[k].by \in Lists /\ net[k].arg.token = ui.token =>
                               net[k].arg.of = Query(ui)
    /\ ui.shown.of \in {NoQuery, Query(ui)} \/ "loading" \in ui.busy

\* On the others: what was asked for last is what the page displays.
Latest(q, a, u) ==
  /\ \A k \in DOMAIN q : LastOf(q, Lists, k) => q[k].arg.of = a
  /\ (\A k \in DOMAIN q : q[k].by \notin Lists) => u \in {NoQuery, a}

\* The page will list nothing when the answers that there are have been taken.
Full(x)   == x.by \in Lists /\ x.state = "done" /\ Head(x.reply).of.rows # <<>>
Clears(x) == x.by = "clear" /\ x.state = "done"

Emptied(q, rows) ==
  \/ rows = <<>> /\ \A k \in DOMAIN q : ~Full(q[k])
  \/ \E k \in DOMAIN q : Clears(q[k]) /\ \A m \in DOMAIN q : k < m => ~Full(q[m])

QueriesInOrder ==
  line = "orderly" =>
    /\ AnsweredFirst(net)
    /\ \A k \in DOMAIN net :
         /\ net[k].state = "error" => ~Authorized(net[k].call)
         /\ net[k].state = "done"  => Authorized(net[k].call)
    /\ srv.items = <<>> => Emptied(net, ui.shown.rows)
    /\ page \notin Numbered /\ ~ui.timer => Latest(net, Query(ui), ui.shown.of)
    /\ ~Authorized(ListCall) => ui.shown.of = NoQuery

\* What each flag waits for.
QueryFlags ==
  /\ ui.busy \subseteq {"loading", "refreshing", "clearing"}
  /\ "clearing" \in ui.busy => Waits({"clear"})
  /\ "refreshing" \in ui.busy \/ ui.modal # "none" => page = "traces"
  /\ page \in Numbered /\ ui.busy \cap {"loading", "refreshing"} # {} =>
       ui.timer \/ AsksFor(net, ui.token)
  /\ page \notin Numbered /\ "loading" \in ui.busy => ui.timer \/ Waits({"load"})

QueryForm ==
  /\ DOMAIN ui = {"busy", "filter", "at", "token", "timer", "modal", "shown"}
  /\ ui.at \in Nat /\ ui.token \in Nat /\ ui.timer \in BOOLEAN
  /\ ui.timer => page \in Debounced
  /\ page \notin Numbered => ui.token = 0
  /\ DOMAIN srv = {"items"} /\ srv.items \in Seq(Services)
  /\ AreRequests(net) /\ \A k \in DOMAIN net : QueryRequest(net[k], ui.token)

QueryInv ==
  page \in QueryPages => QueryForm /\ NumberedInv /\ QueriesInOrder /\ QueryFlags

\* A request is taken off: which are left.
LEMMA OthersStay ==
  ASSUME AreRequests(net), NEW i \in DOMAIN net, NEW r, r = RemoveAt(net, i)
  PROVE  \A k \in DOMAIN net : k # i => \E j \in DOMAIN r : r[j] = net[k]
<1>1. PICK S : net \in Seq(S)
  BY DEF AreRequests
<1>2. i \in 1..Len(net)
  BY <1>1
<1>3. /\ RemoveAt(net, i) \in Seq(S) /\ Len(RemoveAt(net, i)) = Len(net) - 1
      /\ \A k \in 1..Len(net) - 1 : RemoveAt(net, i)[k] = net[IF k < i THEN k ELSE k + 1]
  BY <1>1, <1>2, RemoveAtEffect
<1>4. DOMAIN r = 1..Len(net) - 1 /\ \A k \in DOMAIN r : r[k] = net[IF k < i THEN k ELSE k + 1]
  BY <1>3
<1>5. ASSUME NEW k \in DOMAIN net, k # i PROVE \E j \in DOMAIN r : r[j] = net[k]
  <2>1. CASE k < i
    <3>1. k \in DOMAIN r /\ r[k] = net[k]
      BY <1>1, <1>2, <1>4, <2>1
    <3>. QED BY <3>1
  <2>2. CASE i < k
    <3>1. k - 1 \in DOMAIN r /\ ~(k - 1 < i) /\ k - 1 + 1 = k
      BY <1>1, <1>2, <1>4, <2>2
    <3>2. r[k - 1] = net[k]
      BY <1>4, <3>1
    <3>. QED BY <3>1, <3>2
  <2>. QED BY <1>1, <1>2, <1>5, <2>1, <2>2
<1>. QED BY <1>5

\* What is asked for now is asked for last.
LEMMA LatestAsked ==
  ASSUME NEW q, NEW r, NEW x, Added(q, r, x), x.by \in Lists, NEW u
  PROVE  Latest(r, x.arg.of, u)
<1>1. Len(q) + 1 \in DOMAIN r /\ \A k \in DOMAIN r : k = Len(q) + 1 \/ k < Len(q) + 1
  BY DEF Added
<1>2. r[Len(q) + 1] = x
  BY DEF Added
<1>3. \A k \in DOMAIN r : LastOf(r, Lists, k) => k = Len(q) + 1
  BY <1>1, <1>2 DEF LastOf
<1>. QED BY <1>1, <1>2, <1>3 DEF Latest

LEMMA LatestAdded ==
  ASSUME NEW q, NEW r, NEW x, Added(q, r, x), x.by \notin Lists, NEW a, NEW u, Latest(q, a, u)
  PROVE  Latest(r, a, u)
<1>1. \A k \in DOMAIN q : k \in DOMAIN r /\ r[k] = q[k]
  BY DEF Added
<1>2. \A k \in DOMAIN r : r[k].by \in Lists => k \in DOMAIN q
  BY DEF Added
<1>3. \A k \in DOMAIN r : LastOf(r, Lists, k) => LastOf(q, Lists, k)
  BY <1>1, <1>2, Zenon DEF LastOf
<1>. QED BY <1>1, <1>2, <1>3, Zenon DEF Latest, LastOf

LEMMA LatestAnswered ==
  ASSUME NEW q, NEW r, NEW i, NEW st, NEW v, AnsweredAt(q, r, i, st, v), NEW a, NEW u, Latest(q, a, u)
  PROVE  Latest(r, a, u)
<1>1. DOMAIN r = DOMAIN q /\ \A k \in DOMAIN q : r[k].by = q[k].by /\ r[k].arg = q[k].arg
  BY DEF AnsweredAt
<1>2. \A k \in DOMAIN r : LastOf(r, Lists, k) => LastOf(q, Lists, k)
  BY <1>1, Zenon DEF LastOf
<1>3. \A k \in DOMAIN r : LastOf(r, Lists, k) => r[k].arg.of = a
  BY <1>1, <1>2 DEF Latest
<1>4. (\A k \in DOMAIN r : r[k].by \notin Lists) => u \in {NoQuery, a}
  BY <1>1, Zenon DEF Latest
<1>. QED BY <1>3, <1>4 DEF Latest

LEMMA LatestAdvanced ==
  ASSUME NEW q, NEW r, Advanced(q, r), NEW a, NEW u, NEW w, Latest(q, a, u),
         q[1].by \notin Lists => w = u,
         q[1].by \in Lists => w \in {NoQuery, q[1].arg.of}
  PROVE  Latest(r, a, w)
<1>1. \A k \in DOMAIN r : k + 1 \in DOMAIN q /\ r[k] = q[k + 1]
  BY DEF Advanced
<1>2. DOMAIN q \subseteq Nat /\ 1 \in DOMAIN q /\ \A k \in DOMAIN q : k = 1 \/ k - 1 \in DOMAIN r
  BY DEF Advanced
<1>3. ASSUME NEW k \in DOMAIN r, LastOf(r, Lists, k)
      PROVE  r[k].arg.of = a
  <2>1. ASSUME NEW m \in DOMAIN q, k + 1 < m
        PROVE  q[m].by \notin Lists
    <3>1. k < m - 1 /\ m # 1 /\ m - 1 + 1 = m /\ k \in Nat
      BY <2>1 DEF Advanced
    <3>2. m - 1 \in DOMAIN r
      BY <1>2, <3>1
    <3>3. r[m - 1] = q[m]
      BY <1>1, <3>1, <3>2
    <3>. QED BY <1>3, <3>1, <3>2, <3>3 DEF LastOf
  <2>2. LastOf(q, Lists, k + 1)
    BY <1>1, <1>3, <2>1 DEF LastOf
  <2>. QED BY <1>1, <2>2 DEF Latest
<1>4. ASSUME \A k \in DOMAIN r : r[k].by \notin Lists
      PROVE  w \in {NoQuery, a}
  <2>1. \A m \in DOMAIN q : 1 < m => q[m].by \notin Lists
    <3>. SUFFICES ASSUME NEW m \in DOMAIN q, 1 < m PROVE q[m].by \notin Lists
      OBVIOUS
    <3>1. m - 1 \in DOMAIN r /\ m - 1 + 1 = m
      BY <1>2
    <3>2. r[m - 1] = q[m]
      BY <1>1, <3>1
    <3>. QED BY <1>4, <3>1, <3>2
  <2>2. CASE q[1].by \in Lists
    <3>1. LastOf(q, Lists, 1)
      BY <1>2, <2>1, <2>2 DEF LastOf
    <3>. QED BY <1>2, <2>2, <3>1 DEF Latest
  <2>3. CASE q[1].by \notin Lists
    <3>1. \A m \in DOMAIN q : q[m].by \notin Lists
      <4>1. \A m \in DOMAIN q : m = 1 \/ 1 < m
        BY <1>2 DEF Advanced
      <4>. QED BY <2>1, <2>3, <4>1
    <3>. QED BY <2>3, <3>1 DEF Latest
  <2>. QED BY <2>2, <2>3
<1>. QED BY <1>3, <1>4 DEF Latest

LEMMA EmptiedAdded ==
  ASSUME NEW q, NEW r, NEW x, Added(q, r, x), NEW rows, Emptied(q, rows)
  PROVE  Emptied(r, rows)
<1>1. ~Full(x)
  BY DEF Added, Full
<1>2. /\ \A k \in DOMAIN q : k \in DOMAIN r /\ r[k] = q[k]
      /\ \A k \in DOMAIN r : k \in DOMAIN q \/ r[k] = x
  BY DEF Added
<1>. QED BY <1>1, <1>2, Zenon DEF Emptied

LEMMA EmptiedAnswered ==
  ASSUME NEW q, NEW r, NEW i, NEW st, NEW v, AnsweredAt(q, r, i, st, v), AnsweredFirst(q),
         q[i].state = "sent", NEW rows, ~Full(r[i]), Emptied(q, rows) \/ Clears(r[i])
  PROVE  Emptied(r, rows)
<1>1. /\ DOMAIN r = DOMAIN q /\ i \in DOMAIN q /\ \A k \in DOMAIN q : k # i => r[k] = q[k]
  BY DEF AnsweredAt
<1>2. \A m \in DOMAIN q : i < m => ~Full(q[m])
  BY <1>1 DEF AnsweredFirst, Full
<1>3. \A m \in DOMAIN q : ~Full(q[m]) => ~Full(r[m])
  BY <1>1
<1>4. CASE Clears(r[i])
  BY <1>1, <1>2, <1>3, <1>4 DEF Emptied
<1>5. CASE rows = <<>> /\ \A k \in DOMAIN q : ~Full(q[k])
  BY <1>1, <1>3, <1>5 DEF Emptied
<1>6. ASSUME NEW k \in DOMAIN q, Clears(q[k]), \A m \in DOMAIN q : k < m => ~Full(q[m])
      PROVE  Emptied(r, rows)
  <2>1. k # i
    BY <1>6 DEF Clears
  <2>2. Clears(r[k])
    BY <1>1, <1>6, <2>1
  <2>. QED BY <1>1, <1>3, <1>6, <2>2 DEF Emptied
<1>. QED BY <1>4, <1>5, <1>6 DEF Emptied

LEMMA EmptiedAdvanced ==
  ASSUME NEW q, NEW r, Advanced(q, r), NEW rows, NEW rest, Emptied(q, rows),
         Full(q[1]) \/ rest = <<>> \/ (rest = rows /\ ~Clears(q[1]))
  PROVE  Emptied(r, rest)
<1>1. /\ \A k \in DOMAIN r : k + 1 \in DOMAIN q /\ r[k] = q[k + 1] /\ k \in Nat /\ 0 < k
      /\ \A k \in DOMAIN q : k = 1 \/ (k - 1 \in DOMAIN r /\ k - 1 + 1 = k /\ 1 < k)
      /\ 1 \in DOMAIN q /\ DOMAIN q \subseteq Nat
  <2>1. \A k \in DOMAIN q : k = 1 \/ (k - 1 \in DOMAIN r /\ k - 1 + 1 = k /\ 1 < k)
    BY DEF Advanced
  <2>2. \A k \in DOMAIN r : k + 1 \in DOMAIN q /\ r[k] = q[k + 1] /\ k \in Nat /\ 0 < k
    BY DEF Advanced
  <2>3. 1 \in DOMAIN q /\ DOMAIN q \subseteq Nat
    BY DEF Advanced
  <2>. QED BY <2>1, <2>2, <2>3
<1>2. CASE rows = <<>> /\ \A k \in DOMAIN q : ~Full(q[k])
  <2>1. rest = <<>>
    BY <1>1, <1>2
  <2>. QED BY <1>1, <1>2, <2>1 DEF Emptied
<1>3. ASSUME NEW k \in DOMAIN q, Clears(q[k]), \A m \in DOMAIN q : k < m => ~Full(q[m])
      PROVE  Emptied(r, rest)
  <2>1. \A m \in DOMAIN r : k - 1 < m => ~Full(r[m])
    <3>. SUFFICES ASSUME NEW m \in DOMAIN r, k - 1 < m PROVE ~Full(r[m])
      OBVIOUS
    <3>1. k < m + 1
      BY <1>1
    <3>. QED BY <1>1, <1>3, <3>1
  <2>2. CASE k = 1
    <3>1. ~Full(q[1])
      BY <1>3, <2>2 DEF Clears, Full, Lists
    <3>2. rest = <<>>
      BY <1>3, <2>2, <3>1
    <3>. QED BY <1>1, <2>1, <2>2, <3>2 DEF Emptied
  <2>3. CASE k # 1
    <3>1. k - 1 \in DOMAIN r /\ r[k - 1] = q[k]
      BY <1>1, <2>3
    <3>. QED BY <1>3, <2>1, <3>1 DEF Emptied
  <2>. QED BY <2>2, <2>3
<1>. QED BY <1>2, <1>3 DEF Emptied

\* Which page it is decides what a filter does.
LEMMA OnePage ==
  ASSUME page \in QueryPages
  PROVE  \/ page \in Numbered /\ page \in Debounced /\ page \notin Polled /\ page # "trafficLogs"
         \/ page = "trafficLogs" /\ page \notin Numbered /\ page \in Debounced /\ page \notin Polled
         \/ page \in Polled /\ page \notin Numbered /\ page \notin Debounced /\ page # "trafficLogs"
BY DEF QueryPages, Numbered, Polled, Debounced

\* The server answers a request.
LEMMA QueriesMark ==
  ASSUME page \in QueryPages, QueryInv, UNCHANGED session, ui' = ui, AreRequests(net'),
         NEW i \in DOMAIN net, NEW st \in {"done", "error"}, NEW v,
         AnsweredAt(net, net', i, st, v), DOMAIN srv' = {"items"}, srv'.items \in Seq(Services),
         st = "done" /\ net[i].by \in Lists => \E w : v = <<w>> /\ w.of.of = net[i].arg.of,
         line = "orderly" =>
           /\ net[i].state = "sent" /\ InTurn(i) /\ (st = "done" <=> Authorized(net[i].call))
           /\ srv'.items = <<>> => ~Full(net'[i]) /\ (srv.items = <<>> \/ Clears(net'[i]))
  PROVE  QueryInv'
<1>. DEFINE r == net'
<1>1. /\ page' = page /\ perms' = perms /\ line' = line
      /\ ListCall' = ListCall /\ \A c : Authorized(c)' <=> Authorized(c)
  BY DEF session, ListCall, Authorized, Can, IsAdmin
<1>2. /\ DOMAIN r = DOMAIN net /\ \A k \in DOMAIN net : k # i => r[k] = net[k]
      /\ r[i].by = net[i].by /\ r[i].call = net[i].call /\ r[i].arg = net[i].arg
      /\ r[i].state = st /\ (st = "done" => r[i].reply = v)
  BY DEF AnsweredAt
<1>3. \A k \in DOMAIN net : r[k].by = net[k].by /\ r[k].call = net[k].call /\ r[k].arg = net[k].arg
  BY <1>2
<1>4. QueryForm /\ NumberedInv /\ QueriesInOrder /\ QueryFlags
  BY DEF QueryInv
<1>5. QueryForm'
  <2>1. \A k \in DOMAIN r : QueryRequest(net[k], ui.token)
    BY <1>2, <1>4 DEF QueryForm
  <2>2. QueryRequest(net[i], ui.token)'
    <3>1. QueryRequest(net[i], ui.token)
      BY <2>1, <1>2
    <3>2. st = "done" /\ r[i].by \in Lists => \E w : r[i].reply = <<w>> /\ w.of.of = r[i].arg.of
      BY <1>2
    <3>. QED BY <3>1, <3>2, <1>1, <1>2 DEF QueryRequest
  <2>3. \A k \in DOMAIN r : QueryRequest(net[k], ui.token)'
    <3>. SUFFICES ASSUME NEW k \in DOMAIN r PROVE QueryRequest(net[k], ui.token)'
      OBVIOUS
    <3>1. CASE k = i
      BY <2>2, <3>1
    <3>2. CASE k # i
      BY <2>1, <3>2, <1>1, <1>2 DEF QueryRequest
    <3>. QED BY <3>1, <3>2
  <2>. QED BY <2>3, <1>1, <1>4 DEF QueryForm
<1>6. NumberedInv'
  BY <1>1, <1>2, <1>3, <1>4 DEF NumberedInv, Query
<1>7. QueriesInOrder'
  <2>. SUFFICES ASSUME line = "orderly" PROVE QueriesInOrder'
    BY <1>1 DEF QueriesInOrder
  <2>1. DOMAIN net \subseteq Nat
    BY <1>4 DEF QueryForm, AreRequests
  <2>2. AnsweredFirst(net')
    <3>1. \A k \in DOMAIN net : k < i => net[k].state # "sent"
      <4>1. PICK S : net \in Seq(S)
        BY <1>4 DEF QueryForm, AreRequests
      <4>. QED BY <4>1 DEF InTurn
    <3>. QED BY <1>4, <2>1, <3>1, OrderAnswered DEF QueriesInOrder
  <2>3. ASSUME NEW k \in DOMAIN net'
        PROVE /\ net'[k].state = "error" => ~Authorized(net'[k].call)
              /\ net'[k].state = "done"  => Authorized(net'[k].call)
    <3>1. CASE k = i
      BY <1>2, <3>1
    <3>2. CASE k # i
      BY <1>2, <1>4, <2>3, <3>2 DEF QueriesInOrder
    <3>. QED BY <3>1, <3>2
  <2>4. srv'.items = <<>> => Emptied(net', ui.shown.rows)
    BY <1>4, EmptiedAnswered DEF QueriesInOrder
  <2>5. page \notin Numbered /\ ~ui.timer => Latest(net', Query(ui), ui.shown.of)
    BY <1>4, LatestAnswered DEF QueriesInOrder
  <2>. QED BY <1>1, <1>4, <2>2, <2>3, <2>4, <2>5 DEF QueriesInOrder, Query
<1>8. QueryFlags'
  <2>1. /\ AsksFor(net, ui.token) => AsksFor(net', ui.token)
        /\ \A W : Waits(W) => Waits(W)'
    BY <1>2, <1>3, Zenon DEF AsksFor, Waits, WaitsIn
  <2>2. /\ "clearing" \in ui.busy => Waits({"clear"})'
        /\ page \notin Numbered /\ "loading" \in ui.busy => ui.timer \/ Waits({"load"})'
    BY <2>1, <1>4 DEF QueryFlags
  <2>. QED BY <2>1, <2>2, <1>1, <1>4 DEF QueryFlags
<1>. QED BY <1>1, <1>5, <1>6, <1>7, <1>8 DEF QueryInv

\* A request of a page is one of these.
LEMMA KindOf ==
  ASSUME QueryForm, NEW k \in DOMAIN net
  PROVE  /\ net[k].by \in Lists \/ net[k].by = "clear"
         /\ net[k].by \in Lists <=> net[k].by # "clear"
         /\ net[k].by \in Lists => net[k].call = ListCall /\ (net[k].by # "load" => net[k].by = "poll")
  <1>1. QueryRequest(net[k], ui.token)
    BY DEF QueryForm
  <1>. QED BY <1>1 DEF QueryRequest, Lists

\* A handler takes an answer or an error.
LEMMA QueriesTake ==
  ASSUME page \in QueryPages, QueryInv, UNCHANGED session, srv' = srv,
         NEW i \in DOMAIN net, Next1(i), net' = RemoveAt(net, i), net[i].state \in {"done", "error"},
         DOMAIN ui' = DOMAIN ui, ui'.busy \subseteq ui.busy,
         ui'.filter = ui.filter, ui'.at = ui.at, ui'.token = ui.token, ui'.timer = ui.timer,
         ui'.modal = ui.modal,
         net[i].by = "clear" => ui'.shown.of = ui.shown.of /\ "clearing" \notin ui'.busy
                                /\ (net[i].state = "error" => ui'.shown = ui.shown)
                                /\ (net[i].state = "done" => ui'.shown.rows = <<>>)
                                /\ ui.busy \ ui'.busy \subseteq {"clearing"},
         net[i].by \in Lists /\ page \in Numbered /\ ~IsLatestLoad(i) => ui' = ui,
         net[i].by \in Lists /\ page \in Numbered /\ IsLatestLoad(i) =>
           ui'.busy \cap {"loading", "refreshing"} = {},
         net[i].by \in Lists /\ IsLatestLoad(i) =>
           IF net[i].state = "done" THEN ui'.shown = Answer(i).of
           ELSE ui'.shown = IF page \in Numbered THEN Nothing(NoQuery) ELSE ui.shown,
         net[i].by = "load" /\ page \notin Numbered => "loading" \notin ui'.busy
  PROVE  QueryInv'
<1>. DEFINE r == net'
<1>1. /\ page' = page /\ perms' = perms /\ line' = line /\ Query(ui') = Query(ui)
      /\ ListCall' = ListCall /\ \A c : Authorized(c)' <=> Authorized(c)
  BY DEF session, ListCall, Authorized, Can, IsAdmin, Query
<1>2. QueryForm /\ NumberedInv /\ QueriesInOrder /\ QueryFlags
  BY DEF QueryInv
<1>3. /\ AreRequests(r) /\ \A k \in DOMAIN r : \E j \in DOMAIN net : r[k] = net[j]
      /\ \A k \in DOMAIN net : k # i => \E j \in DOMAIN r : r[j] = net[k]
  BY <1>2, TakesOne, OthersStay DEF QueryForm
<1>4. /\ net[i].by \in Lists <=> net[i].by # "clear"
      /\ net[i].by \in Lists => net[i].call = ListCall /\ (net[i].by # "load" => net[i].by = "poll")
      /\ page \notin Numbered => IsLatestLoad(i)
      /\ net[i].by = "poll" => page \in Polled
      /\ net[i].by \in Lists /\ net[i].state = "done" => Answer(i).of.of = net[i].arg.of
  <2>1. QueryRequest(net[i], ui.token)
    BY <1>2 DEF QueryForm
  <2>2. net[i].by \in Lists /\ net[i].state = "done" => Answer(i).of.of = net[i].arg.of
    <3>. SUFFICES ASSUME net[i].by \in Lists, net[i].state = "done"
                  PROVE  Answer(i).of.of = net[i].arg.of
      OBVIOUS
    <3>1. PICK v : net[i].reply = <<v>> /\ v.of.of = net[i].arg.of
      BY <2>1 DEF QueryRequest, Lists
    <3>2. Head(net[i].reply) = v
      BY <3>1
    <3>. QED BY <3>1, <3>2 DEF Answer
  <2>. QED BY <1>2, <2>1, <2>2, KindOf DEF IsLatestLoad, QueryRequest
<1>5. QueryForm'
  <2>1. \A k \in DOMAIN r : QueryRequest(net[k], ui.token)'
    <3>. SUFFICES ASSUME NEW k \in DOMAIN r PROVE QueryRequest(net[k], ui.token)'
      OBVIOUS
    <3>1. PICK j \in DOMAIN net : r[k] = net[j]
      BY <1>3
    <3>2. QueryRequest(net[j], ui.token)
      BY <1>2 DEF QueryForm
    <3>. QED BY <3>1, <3>2, <1>1 DEF QueryRequest
  <2>. QED BY <2>1, <1>1, <1>2, <1>3 DEF QueryForm
<1>6. NumberedInv'
  <2>. SUFFICES ASSUME page \in Numbered, ~ui.timer
                PROVE  /\ \A k \in DOMAIN r : r[k].by \in Lists /\ r[k].arg.token = ui.token =>
                                                r[k].arg.of = Query(ui)
                       /\ ui'.shown.of \in {NoQuery, Query(ui)} \/ "loading" \in ui'.busy
    BY <1>1 DEF NumberedInv
  <2>1. \A k \in DOMAIN r : r[k].by \in Lists /\ r[k].arg.token = ui.token =>
                              r[k].arg.of = Query(ui)
    BY <1>2, <1>3 DEF NumberedInv
  <2>2. ui'.shown.of \in {NoQuery, Query(ui)} \/ "loading" \in ui'.busy
    <3>1. CASE net[i].by = "clear"
      BY <3>1, <1>2 DEF NumberedInv
    <3>2. CASE net[i].by \in Lists /\ ~IsLatestLoad(i)
      BY <3>2, <1>2 DEF NumberedInv
    <3>3. CASE net[i].by \in Lists /\ IsLatestLoad(i) /\ net[i].state = "done"
      <4>1. net[i].arg.of = Query(ui)
        BY <3>3, <1>2 DEF NumberedInv, IsLatestLoad
      <4>. QED BY <3>3, <4>1, <1>4
    <3>4. CASE net[i].by \in Lists /\ IsLatestLoad(i) /\ net[i].state = "error"
      BY <3>4 DEF Nothing
    <3>. QED BY <3>1, <3>2, <3>3, <3>4, <1>4
  <2>. QED BY <2>1, <2>2
<1>7. QueriesInOrder'
  <2>. SUFFICES ASSUME line = "orderly" PROVE QueriesInOrder'
    BY <1>1 DEF QueriesInOrder
  <2>1. i = 1 /\ Advanced(net, net') /\ AnsweredFirst(net')
    BY <1>2, OrderTaken DEF QueriesInOrder, QueryForm
  <2>2. /\ net[1].state = "error" => ~Authorized(net[1].call)
        /\ net[1].state = "done"  => Authorized(net[1].call)
        /\ ~Authorized(ListCall) => ui.shown.of = NoQuery
    BY <1>2, <2>1 DEF QueriesInOrder
  <2>3. srv.items = <<>> => Emptied(net', ui'.shown.rows)
    <3>1. CASE net[1].by = "clear"
      <4>1. ui'.shown.rows = <<>> \/ (ui'.shown.rows = ui.shown.rows /\ ~Clears(net[1]))
        BY <3>1, <2>1 DEF Clears
      <4>. QED BY <4>1, <2>1, <1>2, EmptiedAdvanced DEF QueriesInOrder
    <3>2. CASE net[1].by \in Lists
      <4>0. ~Clears(net[1])
        BY <3>2, <1>4, <2>1 DEF Clears
      <4>1. CASE ~IsLatestLoad(1)
        <5>1. ui' = ui
          BY <4>1, <3>2, <2>1, <1>4
        <5>. QED BY <4>0, <5>1, <2>1, <1>2, EmptiedAdvanced DEF QueriesInOrder
      <4>2. CASE IsLatestLoad(1) /\ net[1].state = "done"
        <5>1. Full(net[1]) \/ ui'.shown.rows = <<>>
          BY <4>2, <3>2, <2>1 DEF Full, Answer
        <5>. QED BY <5>1, <2>1, <1>2, EmptiedAdvanced DEF QueriesInOrder
      <4>3. CASE IsLatestLoad(1) /\ net[1].state = "error"
        <5>1. ui'.shown.rows \in {<<>>, ui.shown.rows}
          BY <4>3, <3>2, <2>1 DEF Nothing
        <5>. QED BY <4>0, <5>1, <2>1, <1>2, EmptiedAdvanced DEF QueriesInOrder
      <4>. QED BY <4>1, <4>2, <4>3, <2>1
    <3>. QED BY <3>1, <3>2, <2>1, <1>4
  <2>4. page \notin Numbered /\ ~ui.timer => Latest(net', Query(ui), ui'.shown.of)
    <3>. SUFFICES ASSUME page \notin Numbered, ~ui.timer
                  PROVE  Latest(net', Query(ui), ui'.shown.of)
      OBVIOUS
    <3>1. net[1].by \notin Lists => ui'.shown.of = ui.shown.of
      BY <1>4, <2>1
    <3>2. net[1].by \in Lists => ui'.shown.of \in {NoQuery, net[1].arg.of}
      BY <1>4, <2>1, <2>2
    <3>3. Latest(net, Query(ui), ui.shown.of)
      BY <1>2 DEF QueriesInOrder
    <3>. QED BY <2>1, <3>1, <3>2, <3>3, LatestAdvanced
  <2>5. ~Authorized(ListCall) => ui'.shown.of = NoQuery
    <3>. SUFFICES ASSUME ~Authorized(ListCall) PROVE ui'.shown.of = NoQuery
      OBVIOUS
    <3>1. CASE net[1].by = "clear"
      BY <3>1, <2>1, <2>2
    <3>2. CASE net[1].by \in Lists
      <4>1. net[1].state = "error"
        BY <3>2, <2>1, <2>2, <1>4
      <4>. QED BY <3>2, <4>1, <2>1, <2>2, <1>4 DEF Nothing
    <3>. QED BY <3>1, <3>2, <2>1, <1>4
  <2>6. \A k \in DOMAIN r : /\ r[k].state = "error" => ~Authorized(r[k].call)
                            /\ r[k].state = "done"  => Authorized(r[k].call)
    BY <1>2, <1>3 DEF QueriesInOrder
  <2>. QED BY <1>1, <2>1, <2>3, <2>4, <2>5, <2>6 DEF QueriesInOrder
<1>8. QueryFlags'
  <2>1. \A W : net[i].by \notin W /\ Waits(W) => Waits(W)'
    <3>. SUFFICES ASSUME NEW W, net[i].by \notin W, Waits(W) PROVE Waits(W)'
      OBVIOUS
    <3>1. PICK k \in DOMAIN net : net[k].by \in W
      BY DEF Waits, WaitsIn
    <3>2. PICK j \in DOMAIN r : r[j] = net[k]
      BY <1>3, <3>1
    <3>. QED BY <3>1, <3>2 DEF Waits, WaitsIn
  <2>2. "clearing" \in ui'.busy => Waits({"clear"})'
    BY <2>1, <1>2 DEF QueryFlags
  <2>3. page \in Numbered /\ ui'.busy \cap {"loading", "refreshing"} # {} =>
          ui.timer \/ AsksFor(r, ui.token)
    <3>. SUFFICES ASSUME page \in Numbered, ui'.busy \cap {"loading", "refreshing"} # {}, ~ui.timer
                  PROVE  AsksFor(r, ui.token)
      OBVIOUS
    <3>1. PICK k \in DOMAIN net : net[k].by \in Lists /\ net[k].arg.token = ui.token
      BY <1>2 DEF QueryFlags, AsksFor
    <3>2. k # i
      BY <3>1, <1>4 DEF IsLatestLoad
    <3>3. PICK j \in DOMAIN r : r[j] = net[k]
      BY <1>3, <3>2
    <3>. QED BY <3>1, <3>3 DEF AsksFor
  <2>4. page \notin Numbered /\ "loading" \in ui'.busy => ui.timer \/ Waits({"load"})'
    BY <2>1, <1>2, <1>4 DEF QueryFlags
  <2>. QED BY <2>2, <2>3, <2>4, <1>1, <1>2 DEF QueryFlags
<1>. QED BY <1>1, <1>5, <1>6, <1>7, <1>8 DEF QueryInv

\* A handler asks.
LEMMA QueriesAsk ==
  ASSUME page \in QueryPages, QueryInv, UNCHANGED session, srv' = srv,
         NEW by, NEW call, NEW arg, Send(Request(by, call, arg)),
         DOMAIN ui' = DOMAIN ui, ui'.shown = ui.shown, ui'.at \in Nat,
         ui'.timer = ui.timer \/ ui'.timer = FALSE, ui'.token \in Nat, ui.token <= ui'.token,
         ui'.busy \subseteq {"loading", "refreshing", "clearing"},
         "clearing" \in ui'.busy => by = "clear" \/ "clearing" \in ui.busy,
         "refreshing" \in ui'.busy \/ ui'.modal # "none" => page = "traces",
         \/ /\ by = "clear" /\ ui'.timer = ui.timer /\ ui'.token = ui.token /\ Query(ui') = Query(ui)
            /\ ui'.busy \subseteq ui.busy \cup {"clearing"} /\ ui.busy \subseteq ui'.busy
         \/ /\ by \in Lists /\ call = ListCall /\ arg = [of |-> Query(ui'), token |-> ui'.token]
            /\ by = "poll" => page \in Polled /\ ui'.busy = ui.busy
            /\ IF page \in Numbered
               THEN /\ ui'.token = ui.token + 1
                    /\ ~ui'.timer => "loading" \in ui'.busy
                                     \/ (~ui.timer /\ Query(ui') = Query(ui) /\ ui.busy \subseteq ui'.busy)
               ELSE ui'.token = 0
            /\ by = "poll" => ui'.timer = ui.timer
  PROVE  QueryInv'
<1>. DEFINE r == net'
            x == Request(by, call, arg)
<1>1. /\ page' = page /\ perms' = perms /\ line' = line
      /\ ListCall' = ListCall /\ \A c : Authorized(c)' <=> Authorized(c)
  BY DEF session, ListCall, Authorized, Can, IsAdmin
<1>2. QueryForm /\ NumberedInv /\ QueriesInOrder /\ QueryFlags
  BY DEF QueryInv
<1>3. /\ Added(net, r, x) /\ AreRequests(r)
      /\ x.by = by /\ x.call = call /\ x.arg = arg /\ x.state = "sent"
  <2>1. x.state = "sent"
    BY DEF Request
  <2>2. r = Extended(net, x)
    BY DEF Send, Sends, Extended
  <2>. QED BY <1>2, <2>1, <2>2, AsksAdds DEF QueryForm
<1>. HIDE DEF x
<1>4. /\ \A k \in DOMAIN net : k \in DOMAIN r /\ r[k] = net[k]
      /\ \A k \in DOMAIN r : k \in DOMAIN net \/ r[k] = x
      /\ \E k \in DOMAIN r : r[k] = x
  BY <1>3 DEF Added
<1>5. by \in Lists => /\ arg.of = Query(ui') /\ arg.token = ui'.token
                      /\ DOMAIN arg = {"of", "token"} /\ arg.of.at = ui'.at
  BY DEF Query, Lists
<1>6. QueryForm'
  <2>1. ASSUME NEW k \in DOMAIN net PROVE QueryRequest(net[k], ui'.token)
    <3>1. QueryRequest(net[k], ui.token)
      BY <1>2 DEF QueryForm
    <3>2. \A n \in 0..ui.token : n \in 0..ui'.token
      BY <1>2 DEF QueryForm
    <3>. QED BY <3>1, <3>2 DEF QueryRequest
  <2>2. QueryRequest(x, ui'.token)
    BY <1>3, <1>5 DEF QueryRequest, Lists
  <2>3. \A k \in DOMAIN r : QueryRequest(r[k], ui'.token)
    BY <1>4, <2>1, <2>2
  <2>4. \A k \in DOMAIN r : QueryRequest(net[k], ui.token)'
    BY <1>1, <2>3 DEF QueryRequest
  <2>5. page \notin Numbered => ui'.token = 0
    BY <1>2 DEF QueryForm
  <2>. QED BY <2>4, <2>5, <1>1, <1>2, <1>3 DEF QueryForm
<1>7. NumberedInv'
  <2>. SUFFICES ASSUME page \in Numbered, ~ui'.timer
                PROVE  /\ \A k \in DOMAIN r : r[k].by \in Lists /\ r[k].arg.token = ui'.token =>
                                                r[k].arg.of = Query(ui')
                       /\ ui'.shown.of \in {NoQuery, Query(ui')} \/ "loading" \in ui'.busy
    BY <1>1 DEF NumberedInv
  <2>1. CASE by = "clear"
    BY <2>1, <1>2, <1>3, <1>4 DEF NumberedInv, Lists
  <2>2. CASE by \in Lists
    <3>1. ASSUME NEW k \in DOMAIN net, net[k].by \in Lists PROVE net[k].arg.token # ui'.token
      <4>1. QueryRequest(net[k], ui.token)
        BY <1>2 DEF QueryForm
      <4>. QED BY <2>2, <3>1, <4>1, <1>2 DEF QueryRequest, QueryForm, Lists
    <3>2. ui'.shown.of \in {NoQuery, Query(ui')} \/ "loading" \in ui'.busy
      BY <2>2, <1>2 DEF NumberedInv, Lists
    <3>. QED BY <2>2, <3>1, <3>2, <1>3, <1>4, <1>5
  <2>. QED BY <2>1, <2>2
<1>8. QueriesInOrder'
  <2>. SUFFICES ASSUME line = "orderly" PROVE QueriesInOrder'
    BY <1>1 DEF QueriesInOrder
  <2>1. AnsweredFirst(r)
    BY <1>2, <1>3, OrderAdded DEF QueriesInOrder
  <2>2. \A k \in DOMAIN r : /\ r[k].state = "error" => ~Authorized(r[k].call)
                            /\ r[k].state = "done"  => Authorized(r[k].call)
    BY <1>2, <1>3, <1>4 DEF QueriesInOrder
  <2>3. srv.items = <<>> => Emptied(r, ui.shown.rows)
    BY <1>2, <1>3, EmptiedAdded DEF QueriesInOrder
  <2>4. page \notin Numbered /\ ~ui'.timer => Latest(r, Query(ui'), ui.shown.of)
    <3>1. CASE by \in Lists
      <4>1. Latest(r, x.arg.of, ui.shown.of)
        BY <3>1, <1>3, LatestAsked
      <4>. QED BY <3>1, <4>1, <1>3, <1>5
    <3>2. CASE by = "clear"
      <4>1. x.by \notin Lists
        BY <3>2, <1>3 DEF Lists
      <4>. QED BY <3>2, <4>1, <1>2, <1>3, LatestAdded DEF QueriesInOrder, Lists
    <3>. QED BY <3>1, <3>2
  <2>. QED BY <1>1, <1>2, <2>1, <2>2, <2>3, <2>4 DEF QueriesInOrder
<1>9. QueryFlags'
  <2>1. /\ \A W : Waits(W) => Waits(W)'
        /\ \A W : by \in W => Waits(W)'
        /\ AsksFor(net, ui.token) => AsksFor(r, ui.token)
        /\ by \in Lists => AsksFor(r, ui'.token)
    <3>1. \A W : Waits(W) => Waits(W)'
      BY <1>4, Zenon DEF Waits, WaitsIn
    <3>2. \A W : by \in W => Waits(W)'
      BY <1>3, <1>4 DEF Waits, WaitsIn
    <3>3. AsksFor(net, ui.token) => AsksFor(r, ui.token)
      BY <1>4, Zenon DEF AsksFor
    <3>4. by \in Lists => AsksFor(r, ui'.token)
      BY <1>3, <1>4, <1>5 DEF AsksFor
    <3>. QED BY <3>1, <3>2, <3>3, <3>4
  <2>2. "clearing" \in ui'.busy => Waits({"clear"})'
    BY <2>1, <1>2 DEF QueryFlags
  <2>3. page \in Numbered /\ ui'.busy \cap {"loading", "refreshing"} # {} =>
          ui'.timer \/ AsksFor(r, ui'.token)
    BY <2>1, <1>2 DEF QueryFlags
  <2>4. page \notin Numbered /\ "loading" \in ui'.busy => ui'.timer \/ Waits({"load"})'
    BY <2>1, <1>2 DEF QueryFlags, Lists
  <2>. QED BY <2>2, <2>3, <2>4, <1>1, <1>2 DEF QueryFlags
<1>. QED BY <1>1, <1>6, <1>7, <1>8, <1>9 DEF QueryInv

\* No request comes or goes.
LEMMA QueriesRest ==
  ASSUME page \in QueryPages, QueryInv, UNCHANGED session, net' = net,
         DOMAIN ui' = DOMAIN ui, ui'.shown = ui.shown, ui'.at \in Nat, ui'.token = ui.token,
         \/ ui'.timer = ui.timer /\ Query(ui') = Query(ui) /\ ui'.busy = ui.busy
         \/ ui'.timer = TRUE /\ page \in Debounced
            /\ (ui'.busy = ui.busy \/ (page = "trafficLogs" /\ ui'.busy = {"loading"})),
         ui'.modal # "none" => page = "traces" \/ ui'.modal = ui.modal,
         DOMAIN srv' = {"items"}, srv'.items \in Seq(Services), srv'.items = <<>> => srv' = srv
  PROVE  QueryInv'
<1>1. /\ page' = page /\ perms' = perms /\ line' = line
      /\ ListCall' = ListCall /\ \A c : Authorized(c)' <=> Authorized(c)
  BY DEF session, ListCall, Authorized, Can, IsAdmin
<1>2. QueryForm /\ NumberedInv /\ QueriesInOrder /\ QueryFlags
  BY DEF QueryInv
<1>3. QueryForm'
  <2>1. \A k \in DOMAIN net : QueryRequest(net[k], ui.token)'
    BY <1>1, <1>2 DEF QueryForm, QueryRequest
  <2>. QED BY <1>1, <1>2, <2>1 DEF QueryForm
<1>4. NumberedInv'
  BY <1>1, <1>2 DEF NumberedInv, QueryForm
<1>5. QueriesInOrder'
  <2>1. srv'.items = <<>> => Emptied(net, ui'.shown.rows) \/ line # "orderly"
    BY <1>2 DEF QueriesInOrder
  <2>2. page \notin Numbered /\ ~ui'.timer /\ line = "orderly" => Latest(net, Query(ui'), ui'.shown.of)
    BY <1>2 DEF QueriesInOrder, QueryForm
  <2>. QED BY <1>1, <1>2, <2>1, <2>2 DEF QueriesInOrder
<1>6. QueryFlags'
  <2>1. page # "trafficLogs" \/ page \notin Numbered
    BY DEF Numbered
  <2>2. \A W : Waits(W)' <=> Waits(W)
    BY DEF Waits
  <2>3. "clearing" \in ui'.busy => Waits({"clear"})
    BY <1>2 DEF QueryFlags
  <2>4. page \in Numbered /\ ui'.busy \cap {"loading", "refreshing"} # {} =>
          ui'.timer \/ AsksFor(net, ui.token)
    BY <1>2, <2>1 DEF QueryFlags, QueryForm
  <2>5. page \notin Numbered /\ "loading" \in ui'.busy => ui'.timer \/ Waits({"load"})
    BY <1>2 DEF QueryFlags, QueryForm
  <2>. QED BY <1>1, <1>2, <2>1, <2>2, <2>3, <2>4, <2>5 DEF QueryFlags
<1>. QED BY <1>1, <1>3, <1>4, <1>5, <1>6 DEF QueryInv

\* The cut of no items.
LEMMA CutOfNone ==
  ASSUME NEW m \in Nat, NEW n \in Nat, 0 < m
  PROVE  Cut(<<>>, m, n) = <<>>
<1>1. Len(<<>>) = 0
  OBVIOUS
<1>2. \E x \in {n, 0} : \A y \in {n, 0} : x =< y
  OBVIOUS
<1>3. Min({n, 0}) \in {n, 0} /\ \A y \in {n, 0} : Min({n, 0}) =< y
  BY <1>2, Zenon DEF Min
<1>4. Min({n, 0}) = 0
  BY <1>3
<1>5. SubSeq(<<>>, m, 0) = <<>>
  OBVIOUS
<1>. QED BY <1>1, <1>4, <1>5 DEF Cut

\* The results are to what was asked for, and there are none of nothing.
LEMMA ResultsAre ==
  ASSUME NEW q, q.at \in Nat
  PROVE  /\ Results(srv.items, q).of = q
         /\ srv.items = <<>> => Results(srv.items, q).rows = <<>>
<1>1. Results(srv.items, q).of = q
  BY DEF Results
<1>2. ASSUME srv.items = <<>> PROVE Results(srv.items, q).rows = <<>>
  <2>1. Matching(srv.items, q.filter) = <<>>
    <3>1. ToSet(srv.items) = {}
      BY <1>2 DEF ToSet
    <3>. QED BY <1>2, <3>1 DEF Matching
  <2>2. /\ q.at * PageSize + 1 \in Nat /\ (q.at + 1) * PageSize \in Nat
        /\ 0 < q.at * PageSize + 1
    <3>1. PageSize \in Nat
      BY QueriesAssumption
    <3>2. \A a, b \in Nat : a * b \in Nat
      OBVIOUS
    <3>3. q.at * PageSize \in Nat /\ (q.at + 1) * PageSize \in Nat
      BY <3>1, <3>2
    <3>. QED BY <3>3
  <2>3. Cut(<<>>, q.at * PageSize + 1, (q.at + 1) * PageSize) = <<>>
    BY <2>2, CutOfNone
  <2>. QED BY <2>1, <2>3 DEF Results
<1>. QED BY <1>1, <1>2

\* What the server does keeps the invariant.
LEMMA QueriesServed ==
  ASSUME page \in QueryPages, QueryInv, ServeList \/ ServeClear \/ Forbid \/ Fault
  PROVE  QueryInv'
<1>1. QueryForm /\ AreRequests(net)
  BY DEF QueryInv, QueryForm
<1>2. CASE ServeList
  <2>1. PICK by \in Lists, i \in DOMAIN net :
          /\ Served(i, by) /\ NetOnly
          /\ Reply(i, [net[i].arg EXCEPT !.of = Results(srv.items, @)])
    BY <1>2 DEF ServeList, Finds, Lists
  <2>. DEFINE v == [net[i].arg EXCEPT !.of = Results(srv.items, @)]
  <2>2. AnsweredAt(net, net', i, "done", <<v>>) /\ AreRequests(net')
    <3>1. AnsweredAt(net, net', i, "done", <<v>>)
      BY <1>1, <2>1, ReplyAnswers
    <3>2. Marked
      BY <2>1 DEF Marked
    <3>3. AreRequests(net)'
      BY <1>1, <3>2, MarkedKeeps
    <3>. QED BY <3>1, <3>3
  <2>3. /\ QueryRequest(net[i], ui.token) /\ net[i].by \in Lists /\ net[i].state = "sent" /\ InTurn(i)
        /\ Authorized(net[i].call)
    BY <1>1, <2>1 DEF QueryForm, Served
  <2>4. DOMAIN net[i].arg = {"of", "token"} /\ net[i].arg.of.at \in Nat
    BY <2>3 DEF QueryRequest, Lists
  <2>5. v.of = Results(srv.items, net[i].arg.of)
    BY <2>4
  <2>. HIDE DEF v
  <2>6. v.of.of = net[i].arg.of /\ (srv.items = <<>> => v.of.rows = <<>>)
    BY <2>4, <2>5, ResultsAre
  <2>7. srv.items = <<>> => ~Full(net'[i])
    <3>1. Head(<<v>>) = v /\ net'[i].reply = <<v>>
      BY <2>2 DEF AnsweredAt
    <3>. QED BY <2>6, <3>1 DEF Full
  <2>8. UNCHANGED session /\ ui' = ui /\ srv' = srv
    BY <2>1 DEF NetOnly, session
  <2>9. \E w : <<v>> = <<w>> /\ w.of.of = net[i].arg.of
    BY <2>6
  <2>10. line = "orderly" =>
           /\ net[i].state = "sent" /\ InTurn(i) /\ ("done" = "done" <=> Authorized(net[i].call))
           /\ srv'.items = <<>> => ~Full(net'[i]) /\ (srv.items = <<>> \/ Clears(net'[i]))
    BY <2>3, <2>7, <2>8
  <2>11. DOMAIN srv' = {"items"} /\ srv'.items \in Seq(Services)
    BY <1>1, <2>8 DEF QueryForm
  <2>. QED BY <2>2, <2>8, <2>9, <2>10, <2>11, QueriesMark
<1>3. CASE ServeClear
  <2>1. PICK i \in DOMAIN net :
          /\ Served(i, "clear") /\ UNCHANGED <<session, ui>> /\ Reply(i, net[i].arg)
          /\ srv' = [items |-> <<>>]
    BY <1>3 DEF ServeClear, Does, Makes, ServerIs
  <2>. DEFINE v == net[i].arg
  <2>2. AnsweredAt(net, net', i, "done", <<v>>) /\ AreRequests(net')
    <3>1. AnsweredAt(net, net', i, "done", <<v>>)
      BY <1>1, <2>1, ReplyAnswers
    <3>2. Marked
      BY <2>1 DEF Marked
    <3>3. AreRequests(net)'
      BY <1>1, <3>2, MarkedKeeps
    <3>. QED BY <3>1, <3>3
  <2>3. /\ net[i].by \notin Lists /\ net[i].state = "sent" /\ InTurn(i) /\ Authorized(net[i].call)
        /\ Clears(net'[i]) /\ ~Full(net'[i])
    BY <2>1, <2>2 DEF Served, Lists, AnsweredAt, Clears, Full
  <2>4. DOMAIN srv' = {"items"} /\ srv'.items \in Seq(Services)
    BY <2>1
  <2>. QED BY <2>1, <2>2, <2>3, <2>4, QueriesMark
<1>4. ASSUME NEW i \in DOMAIN net, Refuse(i), NetOnly,
             line = "orderly" => net[i].state = "sent" /\ InTurn(i) /\ ~Authorized(net[i].call)
      PROVE  QueryInv'
  <2>1. AnsweredAt(net, net', i, "error", <<>>)
    BY <1>1, <1>4, RefuseAnswers
  <2>2. AreRequests(net')
    <3>1. Marked
      BY <1>4 DEF Marked
    <3>. QED BY <1>1, <3>1, MarkedKeeps
  <2>3. ~Full(net'[i])
    BY <2>1 DEF AnsweredAt, Full
  <2>4. DOMAIN srv' = {"items"} /\ srv'.items \in Seq(Services) /\ UNCHANGED <<session, ui, srv>>
    BY <1>1, <1>4 DEF QueryForm, NetOnly
  <2>. QED BY <1>4, <2>1, <2>2, <2>3, <2>4, QueriesMark
<1>5. CASE Forbid
  <2>1. PICK i \in DOMAIN net : net[i].state = "sent" /\ InTurn(i) /\ ~Authorized(net[i].call) /\ Refuse(i)
    BY <1>5 DEF Forbid
  <2>. QED BY <1>4, <1>5, <2>1 DEF Forbid
<1>6. CASE Fault
  <2>1. PICK i \in DOMAIN net : Refuse(i)
    BY <1>6 DEF Fault
  <2>. QED BY <1>4, <1>6, <2>1 DEF Fault
<1>. QED BY <1>2, <1>3, <1>5, <1>6

\* The continuations keep the invariant.
LEMMA QueriesTaken ==
  ASSUME page \in QueryPages, QueryInv, ListLoaded \/ ListFails \/ Cleared \/ ClearFails
  PROVE  QueryInv'
<1>1. QueryForm /\ AreRequests(net) /\ QueryFlags
  BY DEF QueryInv, QueryForm
<1>2. CASE ListLoaded \/ ListFails
  <2>1. PICK by \in Lists, i \in DOMAIN net :
          /\ net' = RemoveAt(net, i) /\ UNCHANGED <<session, srv>>
          /\ \/ /\ Arrived(i, by)
                /\ ui' = IF IsLatestLoad(i)
                         THEN [ui EXCEPT !.shown = Answer(i).of, !.busy = Settled(by)] ELSE ui
             \/ /\ Failed(i, by)
                /\ \/ page \notin Numbered /\ ui' = [ui EXCEPT !.busy = Settled(by)]
                   \/ /\ page \in Numbered
                      /\ ui' = IF IsLatestLoad(i)
                               THEN [ui EXCEPT !.shown = Nothing(NoQuery), !.busy = Settled(by)]
                               ELSE ui
    <3>1. CASE ListLoaded
      BY <3>1 DEF ListLoaded, Handled, PageIs, Lists
    <3>2. CASE ListFails
      <4>1. PICK by \in Lists, i \in DOMAIN net :
              /\ Failed(i, by) /\ Handled(i)
              /\ PageIs(CASE page \notin Numbered -> [ui EXCEPT !.busy = Settled(by)]
                          [] page \in Numbered ->
                               IF IsLatestLoad(i)
                               THEN [ui EXCEPT !.shown = Nothing(NoQuery), !.busy = Settled(by)]
                               ELSE ui)
        BY <3>2 DEF ListFails, Lists
      <4>2. CASE page \notin Numbered
        BY <4>1, <4>2 DEF Handled, PageIs
      <4>3. CASE page \in Numbered
        BY <4>1, <4>3 DEF Handled, PageIs
      <4>. QED BY <4>2, <4>3
    <3>. QED BY <1>2, <3>1, <3>2
  <2>2. /\ net[i].by = by /\ net[i].state \in {"done", "error"} /\ Next1(i)
        /\ by \in Lists /\ by # "clear"
    BY <2>1 DEF Arrived, Failed, Lists
  <2>3. page \notin Numbered => IsLatestLoad(i)
    BY DEF IsLatestLoad
  <2>4. /\ Settled(by) \subseteq ui.busy
        /\ page \in Numbered => Settled(by) \cap {"loading", "refreshing"} = {}
        /\ by = "load" => "loading" \notin Settled(by)
    BY DEF Settled, Numbered
  <2>. HIDE DEF Settled, Nothing
  <2>5. /\ DOMAIN ui' = DOMAIN ui /\ ui'.busy \subseteq ui.busy
        /\ ui'.filter = ui.filter /\ ui'.at = ui.at /\ ui'.token = ui.token /\ ui'.timer = ui.timer
        /\ ui'.modal = ui.modal
        /\ page \in Numbered /\ ~IsLatestLoad(i) => ui' = ui
        /\ IsLatestLoad(i) => ui'.busy = Settled(by)
        /\ IsLatestLoad(i) =>
             IF net[i].state = "done" THEN ui'.shown = Answer(i).of
             ELSE ui'.shown = IF page \in Numbered THEN Nothing(NoQuery) ELSE ui.shown
    <3>1. CASE Arrived(i, by)
      <4>1. net[i].state = "done"
        BY <3>1 DEF Arrived
      <4>2. ui' = IF IsLatestLoad(i)
                  THEN [ui EXCEPT !.shown = Answer(i).of, !.busy = Settled(by)] ELSE ui
        BY <2>1, <4>1 DEF Failed
      <4>. QED BY <1>1, <2>4, <4>1, <4>2 DEF QueryForm
    <3>2. CASE Failed(i, by)
      <4>1. net[i].state = "error"
        BY <3>2 DEF Failed
      <4>2. \/ page \notin Numbered /\ ui' = [ui EXCEPT !.busy = Settled(by)]
            \/ /\ page \in Numbered
               /\ ui' = IF IsLatestLoad(i)
                        THEN [ui EXCEPT !.shown = Nothing(NoQuery), !.busy = Settled(by)]
                        ELSE ui
        BY <2>1, <4>1 DEF Arrived
      <4>. QED BY <1>1, <2>4, <4>1, <4>2 DEF QueryForm
    <3>. QED BY <2>1, <3>1, <3>2
  <2>6. UNCHANGED session /\ srv' = srv /\ net' = RemoveAt(net, i)
    BY <2>1
  <2>. QED BY <2>2, <2>3, <2>4, <2>5, <2>6, QueriesTake
<1>3. ASSUME NEW i \in DOMAIN net, net[i].by = "clear", net[i].state \in {"done", "error"}, Next1(i),
             net' = RemoveAt(net, i), UNCHANGED <<session, srv>>,
             NEW w, ui' = [ui EXCEPT !.shown = w, !.busy = @ \ {"clearing"}],
             w = IF net[i].state = "done" THEN Nothing(ui.shown.of) ELSE ui.shown
      PROVE  QueryInv'
  <2>1. /\ DOMAIN ui' = DOMAIN ui /\ ui'.busy = ui.busy \ {"clearing"} /\ ui'.shown = w
        /\ ui'.filter = ui.filter /\ ui'.at = ui.at /\ ui'.token = ui.token /\ ui'.timer = ui.timer
        /\ ui'.modal = ui.modal
    BY <1>1, <1>3 DEF QueryForm
  <2>2. w.of = ui.shown.of /\ (net[i].state = "done" => w.rows = <<>>)
        /\ (net[i].state = "error" => w = ui.shown)
    BY <1>3 DEF Nothing
  <2>3. net[i].by \notin Lists /\ net[i].by # "load" /\ ui'.busy \subseteq ui.busy
        /\ ui.busy \ ui'.busy \subseteq {"clearing"} /\ "clearing" \notin ui'.busy
    BY <1>3, <2>1 DEF Lists
  <2>4. UNCHANGED session /\ srv' = srv
    BY <1>3
  <2>. QED BY <1>3, <2>1, <2>2, <2>3, <2>4, QueriesTake
<1>4. CASE Cleared
  <2>1. PICK i \in DOMAIN net :
          /\ Arrived(i, "clear") /\ HandledThen(i, <<>>) /\ UNCHANGED <<session, srv>>
          /\ ui' = [ui EXCEPT !.shown = Nothing(ui.shown.of), !.busy = @ \ {"clearing"}]
    BY <1>4 DEF Cleared, Then, ThenAsks, PageIs
  <2>2. net' = RemoveAt(net, i)
    BY <1>1, <2>1, TakesOne DEF HandledThen
  <2>3. net[i].by = "clear" /\ net[i].state = "done" /\ Next1(i)
    BY <2>1 DEF Arrived
  <2>. QED BY <1>3, <2>1, <2>2, <2>3
<1>5. CASE ClearFails
  <2>1. PICK i \in DOMAIN net :
          /\ Failed(i, "clear") /\ net' = RemoveAt(net, i) /\ UNCHANGED <<session, srv>>
          /\ ui' = [ui EXCEPT !.busy = @ \ {"clearing"}]
    BY <1>5 DEF ClearFails, Catch, PageIs, Handled
  <2>2. net[i].by = "clear" /\ net[i].state = "error" /\ Next1(i)
    BY <2>1 DEF Failed
  <2>3. ui' = [ui EXCEPT !.shown = ui.shown, !.busy = @ \ {"clearing"}]
    BY <1>1, <2>1 DEF QueryForm
  <2>. QED BY <1>3, <2>1, <2>2, <2>3
<1>. QED BY <1>2, <1>4, <1>5

\* The handlers and effects that ask keep the invariant.
LEMMA QueriesAsked ==
  ASSUME page \in QueryPages, QueryInv,
         TimerFires \/ ClickRefresh \/ Poll \/ ClearAll \/ (PickFilter /\ page \in Polled)
  PROVE  QueryInv'
<1>1. QueryForm /\ QueryFlags
  BY DEF QueryInv
<1>2. ASSUME NEW u, NEW by \in Lists, AskList(u, by),
             DOMAIN u = DOMAIN ui, u.shown = ui.shown, u.at \in Nat, u.token = ui.token,
             u.timer \in {ui.timer, FALSE}, by = "poll" => u = ui /\ page \in Polled,
             u.busy \subseteq {"loading", "refreshing", "clearing"},
             "clearing" \in u.busy => "clearing" \in ui.busy,
             "refreshing" \in u.busy \/ u.modal # "none" => page = "traces",
             page \in Numbered /\ ~u.timer =>
               "loading" \in u.busy
               \/ (~ui.timer /\ Query(u) = Query(ui) /\ ui.busy \subseteq u.busy)
      PROVE  QueryInv'
  <2>. DEFINE n == IF page \in Numbered THEN u.token + 1 ELSE 0
              arg == [of |-> Query(u), token |-> n]
  <2>1. /\ PageIs([u EXCEPT !.token = n]) /\ Send(Request(by, ListCall, arg))
    BY <1>2 DEF AskList, Asks
  <2>2. n \in Nat /\ ui.token <= n
    BY <1>1, <1>2 DEF QueryForm
  <2>3. /\ page \in Numbered => n = ui.token + 1
        /\ page \notin Numbered => n = 0
    BY <1>2
  <2>. HIDE DEF n
  <2>4. /\ DOMAIN ui' = DOMAIN ui /\ ui'.token = n /\ ui'.shown = u.shown /\ ui'.at = u.at
        /\ ui'.timer = u.timer /\ ui'.busy = u.busy /\ ui'.modal = u.modal
        /\ ui'.filter = u.filter
        /\ UNCHANGED session /\ srv' = srv
    BY <1>1, <1>2, <2>1 DEF PageIs, QueryForm
  <2>5. Query(ui') = Query(u)
    BY <2>4 DEF Query
  <2>6. arg = [of |-> Query(ui'), token |-> ui'.token]
    BY <2>4, <2>5
  <2>. HIDE DEF arg
  <2>7. by = "poll" => u.busy = ui.busy /\ u.timer = ui.timer /\ page \in Polled
    BY <1>2
  <2>8. /\ DOMAIN ui' = DOMAIN ui /\ ui'.shown = ui.shown /\ ui'.at \in Nat
        /\ ui'.timer = ui.timer \/ ui'.timer = FALSE
        /\ ui'.token \in Nat /\ ui.token <= ui'.token
        /\ ui'.busy \subseteq {"loading", "refreshing", "clearing"}
        /\ "clearing" \in ui'.busy => by = "clear" \/ "clearing" \in ui.busy
        /\ "refreshing" \in ui'.busy \/ ui'.modal # "none" => page = "traces"
    BY <1>2, <2>2, <2>4
  <2>9. /\ by \in Lists /\ ListCall = ListCall /\ arg = [of |-> Query(ui'), token |-> ui'.token]
        /\ by = "poll" => page \in Polled /\ ui'.busy = ui.busy
        /\ IF page \in Numbered
           THEN /\ ui'.token = ui.token + 1
                /\ ~ui'.timer => "loading" \in ui'.busy
                                 \/ (~ui.timer /\ Query(ui') = Query(ui) /\ ui.busy \subseteq ui'.busy)
           ELSE ui'.token = 0
        /\ by = "poll" => ui'.timer = ui.timer
    BY <1>2, <2>3, <2>4, <2>5, <2>6, <2>7
  <2>. QED BY <2>1, <2>4, <2>8, <2>9, QueriesAsk
<1>3. CASE TimerFires
  <2>. DEFINE u == [ui EXCEPT !.timer = FALSE, !.busy = @ \cup {"loading"}]
  <2>1. AskList(u, "load") /\ ui.timer
    BY <1>3 DEF TimerFires
  <2>2. /\ DOMAIN u = DOMAIN ui /\ u.shown = ui.shown /\ u.at = ui.at /\ u.token = ui.token
        /\ u.timer = FALSE /\ u.busy = ui.busy \cup {"loading"} /\ u.modal = ui.modal
    BY <1>1 DEF QueryForm
  <2>. HIDE DEF u
  <2>. QED BY <1>1, <1>2, <2>1, <2>2 DEF QueryForm, QueryFlags, Lists
<1>4. CASE ClickRefresh
  <2>1. CASE page = "traces" /\ AskList([ui EXCEPT !.busy = @ \cup {"refreshing"}], "load")
    <3>. DEFINE u == [ui EXCEPT !.busy = @ \cup {"refreshing"}]
    <3>2. /\ DOMAIN u = DOMAIN ui /\ u.shown = ui.shown /\ u.at = ui.at /\ u.token = ui.token
          /\ u.timer = ui.timer /\ u.busy = ui.busy \cup {"refreshing"} /\ u.modal = ui.modal
          /\ u.filter = ui.filter
      BY <1>1 DEF QueryForm
    <3>3. Query(u) = Query(ui)
      BY <3>2 DEF Query
    <3>4. AskList(u, "load")
      BY <2>1
    <3>. HIDE DEF u
    <3>. QED BY <1>1, <1>2, <2>1, <3>2, <3>3, <3>4 DEF QueryForm, QueryFlags, Lists
  <2>2. CASE page \in Polled /\ AskList([ui EXCEPT !.busy = {"loading"}], "load")
    <3>. DEFINE u == [ui EXCEPT !.busy = {"loading"}]
    <3>2. /\ DOMAIN u = DOMAIN ui /\ u.shown = ui.shown /\ u.at = ui.at /\ u.token = ui.token
          /\ u.timer = ui.timer /\ u.busy = {"loading"} /\ u.modal = ui.modal
      BY <1>1 DEF QueryForm
    <3>4. AskList(u, "load")
      BY <2>2
    <3>. HIDE DEF u
    <3>. QED BY <1>1, <1>2, <2>2, <3>2, <3>4 DEF QueryForm, QueryFlags, Lists
  <2>. QED BY <1>4, <2>1, <2>2 DEF ClickRefresh
<1>5. CASE Poll
  <2>1. AskList(ui, "poll") /\ page \in Polled /\ page \notin Numbered
    BY <1>5, OnePage DEF Poll
  <2>. QED BY <1>1, <1>2, <2>1 DEF QueryForm, QueryFlags, Lists
<1>6. CASE PickFilter /\ page \in Polled
  <2>1. PICK f : LET v == [ui EXCEPT !.filter = f, !.at = 0]
                 IN CASE page \in Numbered    -> Becomes([v EXCEPT !.timer = TRUE])
                      [] page = "trafficLogs" -> Becomes([v EXCEPT !.timer = TRUE, !.busy = {"loading"}])
                      [] page \in Polled      -> AskList([v EXCEPT !.busy = {"loading"}], "load")
    BY <1>6 DEF PickFilter
  <2>2. page \notin Numbered /\ page # "trafficLogs"
    BY <1>6, OnePage
  <2>. DEFINE u == [[ui EXCEPT !.filter = f, !.at = 0] EXCEPT !.busy = {"loading"}]
  <2>3. AskList(u, "load")
    BY <1>6, <2>1, <2>2
  <2>4. /\ DOMAIN u = DOMAIN ui /\ u.shown = ui.shown /\ u.at = 0 /\ u.token = ui.token
        /\ u.timer = ui.timer /\ u.busy = {"loading"} /\ u.modal = ui.modal
    BY <1>1 DEF QueryForm
  <2>. HIDE DEF u
  <2>. QED BY <1>1, <1>2, <2>2, <2>3, <2>4 DEF QueryForm, QueryFlags, Lists
<1>7. CASE ClearAll
  <2>1. \/ /\ ui.modal = "confirmClear" /\ Send(Request("clear", "otelDeleteTraces", NoArg))
           /\ PageIs([ui EXCEPT !.modal = "none", !.busy = @ \cup {"clearing"}])
        \/ PageIs(ui) /\ Send(Request("clear", "clearTrafficLogs", NoArg))
    BY <1>7 DEF ClearAll, Asks
  <2>2. /\ DOMAIN ui' = DOMAIN ui /\ ui'.shown = ui.shown /\ ui'.at = ui.at /\ ui'.token = ui.token
        /\ ui'.timer = ui.timer /\ ui'.filter = ui.filter
        /\ ui'.modal = ui.modal \/ ui'.modal = "none"
        /\ ui.busy \subseteq ui'.busy /\ ui'.busy \subseteq ui.busy \cup {"clearing"}
        /\ UNCHANGED session /\ srv' = srv
    <3>1. CASE ui' = ui
      BY <1>1, <2>1, <3>1 DEF QueryForm, PageIs
    <3>2. CASE ui' = [ui EXCEPT !.modal = "none", !.busy = @ \cup {"clearing"}]
      BY <1>1, <2>1, <3>2 DEF QueryForm, PageIs
    <3>. QED BY <2>1, <3>1, <3>2 DEF PageIs
  <2>3. Query(ui') = Query(ui)
    BY <2>2 DEF Query
  <2>4. PICK call : Send(Request("clear", call, NoArg))
    BY <2>1
  <2>5. /\ ui'.at \in Nat /\ ui'.token \in Nat /\ ui.token <= ui'.token
        /\ ui'.timer = ui.timer \/ ui'.timer = FALSE
        /\ ui'.busy \subseteq {"loading", "refreshing", "clearing"}
        /\ "refreshing" \in ui'.busy \/ ui'.modal # "none" => page = "traces"
    BY <1>1, <2>2 DEF QueryForm, QueryFlags
  <2>. QED BY <2>2, <2>3, <2>4, <2>5, QueriesAsk
<1>. QED BY <1>3, <1>4, <1>5, <1>6, <1>7

\* The other steps keep it.
LEMMA QueriesAlone ==
  ASSUME page \in QueryPages, QueryInv,
         GoToPage \/ ClickClear \/ CancelClear \/ ItemArrives \/ (PickFilter /\ page \notin Polled)
  PROVE  QueryInv'
<1>1. QueryForm
  BY DEF QueryInv
<1>2. CASE PickFilter /\ page \notin Polled
  <2>1. PICK f : LET v == [ui EXCEPT !.filter = f, !.at = 0]
                 IN CASE page \in Numbered    -> Becomes([v EXCEPT !.timer = TRUE])
                      [] page = "trafficLogs" -> Becomes([v EXCEPT !.timer = TRUE, !.busy = {"loading"}])
                      [] page \in Polled      -> AskList([v EXCEPT !.busy = {"loading"}], "load")
    BY <1>2 DEF PickFilter
  <2>. DEFINE v == [ui EXCEPT !.filter = f, !.at = 0]
  <2>2. page \in Debounced
        /\ \/ Becomes([v EXCEPT !.timer = TRUE])
           \/ page = "trafficLogs" /\ Becomes([v EXCEPT !.timer = TRUE, !.busy = {"loading"}])
    <3>1. CASE page \in Numbered
      BY <1>2, <2>1, <3>1, OnePage
    <3>2. CASE page = "trafficLogs"
      BY <1>2, <2>1, <3>2, OnePage
    <3>. QED BY <1>2, <3>1, <3>2, OnePage
  <2>3. /\ DOMAIN ui' = DOMAIN ui /\ ui'.shown = ui.shown /\ ui'.at = 0 /\ ui'.token = ui.token
        /\ ui'.timer = TRUE /\ ui'.modal = ui.modal
        /\ ui'.busy = ui.busy \/ (page = "trafficLogs" /\ ui'.busy = {"loading"})
    BY <1>1, <2>2 DEF QueryForm, Becomes, PageIs
  <2>4. UNCHANGED session /\ net' = net /\ srv' = srv
    BY <2>2 DEF Becomes, PageIs
  <2>5. ui'.at \in Nat /\ page \in Debounced /\ DOMAIN srv' = {"items"} /\ srv'.items \in Seq(Services)
    BY <1>1, <2>2, <2>3, <2>4 DEF QueryForm
  <2>. QED BY <2>3, <2>4, <2>5, QueriesRest
<1>3. CASE GoToPage
  <2>1. PICK n \in (0 .. LastPage(ui.shown.total)) \ {ui.at} :
          Becomes([ui EXCEPT !.at = n, !.timer = TRUE])
    BY <1>3 DEF GoToPage
  <2>2. n \in Nat /\ page \in Debounced
    <3>1. ASSUME NEW m, n \in 0..m PROVE n \in Nat
      BY <3>1
    <3>2. page \in Debounced
      BY <1>3 DEF GoToPage, Debounced
    <3>. QED BY <3>1, <3>2
  <2>3. /\ DOMAIN ui' = DOMAIN ui /\ ui'.shown = ui.shown /\ ui'.at = n /\ ui'.token = ui.token
        /\ ui'.timer = TRUE /\ ui'.modal = ui.modal /\ ui'.busy = ui.busy
    BY <1>1, <2>1 DEF QueryForm, Becomes, PageIs
  <2>4. UNCHANGED session /\ net' = net /\ srv' = srv
    BY <2>1 DEF Becomes, PageIs
  <2>. QED BY <1>1, <2>2, <2>3, <2>4, QueriesRest DEF QueryForm
<1>4. CASE ClickClear \/ CancelClear
  <2>1. /\ \E m : Becomes([ui EXCEPT !.modal = m]) /\ (m # "none" => page = "traces")
    BY <1>4 DEF ClickClear, CancelClear
  <2>2. /\ DOMAIN ui' = DOMAIN ui /\ ui'.shown = ui.shown /\ ui'.at = ui.at /\ ui'.token = ui.token
        /\ ui'.timer = ui.timer /\ ui'.busy = ui.busy /\ ui'.filter = ui.filter
        /\ ui'.modal # "none" => page = "traces"
    BY <1>1, <2>1 DEF QueryForm, Becomes, PageIs
  <2>3. Query(ui') = Query(ui)
    BY <2>2 DEF Query
  <2>4. UNCHANGED session /\ net' = net /\ srv' = srv
    BY <2>1 DEF Becomes, PageIs
  <2>. QED BY <1>1, <2>2, <2>3, <2>4, QueriesRest DEF QueryForm
<1>5. CASE ItemArrives
  <2>1. PICK s \in Services : srv' = [items |-> <<s>> \o srv.items] /\ UNCHANGED <<session, ui, net>>
    BY <1>5 DEF ItemArrives, Elsewhere, ServerIs
  <2>2. DOMAIN srv' = {"items"} /\ srv'.items \in Seq(Services) /\ srv'.items # <<>>
    <3>1. srv.items \in Seq(Services)
      BY <1>1 DEF QueryForm
    <3>2. srv'.items = <<s>> \o srv.items /\ DOMAIN srv' = {"items"}
      BY <2>1
    <3>3. <<s>> \o srv.items \in Seq(Services) /\ <<s>> \o srv.items # <<>>
      BY <3>1
    <3>. QED BY <3>2, <3>3
  <2>. QED BY <1>1, <2>1, <2>2, QueriesRest DEF QueryForm
<1>. QED BY <1>2, <1>3, <1>4, <1>5

\* Every step of these pages keeps the invariant.
LEMMA QueriesKeep ==
  ASSUME QueryInv, QueryNext
  PROVE  QueryInv'
<1>1. page \in QueryPages
  BY DEF QueryNext
<1>2. \/ ServeList \/ ServeClear \/ Forbid \/ Fault
      \/ ListLoaded \/ ListFails \/ Cleared \/ ClearFails
      \/ TimerFires \/ ClickRefresh \/ Poll \/ ClearAll \/ (PickFilter /\ page \in Polled)
      \/ GoToPage \/ ClickClear \/ CancelClear \/ ItemArrives \/ (PickFilter /\ page \notin Polled)
  BY DEF QueryNext
<1>. QED BY <1>1, <1>2, QueriesServed, QueriesTaken, QueriesAsked, QueriesAlone

-----------------------------------------------------------------------------
(* The tables of operations *)

\* What holds of each operation o of page p.
Entry(p, o, e) ==
  /\ e.asks \in {"no", "confirm", "form"} /\ e.closes \in {"never", "click", "ok", "end"}
  /\ e.blocked \in {"never", "row", "slot", "listed"}
  /\ e.then \in {"none", "local", "reload", "always", "later", "wait", "load", "plan"}
  /\ e.shuts \in BOOLEAN /\ e.slot # "loading"
  /\ e.slot = "modal" => e.asks = "form" /\ p \notin {"dns", "backups"}
  /\ e.asks = "no" => e.closes = "never"
  /\ e.closes = "click" => e.asks = "confirm"
  /\ e.blocked = "slot" => /\ e.slot \in {"modal", "prune", "nginx", "creating"}
                           /\ e.asks = IF e.slot = "modal" THEN "form" ELSE "no"
  /\ e.slot = "prune" => o = "prune"
  /\ e.slot = "nginx" => o = "control"
  /\ e.slot = "creating" => o = "create"
  /\ e.slot \in {"prune", "nginx", "creating"} => e.blocked = "slot"
  /\ e.then = "load" <=> p = "images" /\ o = "upload"
  /\ e.then = "plan" => p = "backups"
  /\ e.then = "wait" => e.slot = "row"
  /\ e.then \in {"wait", "load", "plan"} => e.closes \notin {"ok", "end"}
  /\ p = "containers" => e.slot = "row"
  /\ e.then \in {"none", "plan", "load"} => e.does \in {"keep", "touch"}
  /\ e.then = "local" =>
       /\ e.does \in {"add", "enable", "on", "turn", "remove", "touch"}
       /\ e.asks # "form" => e.does \notin {"add", "enable"}
  /\ p = "images" /\ o \in {"upload", "load"} =>
       e.slot = "modal" /\ e.blocked = "slot" /\ e.closes = "never" /\ ~e.shuts

\* The operations of the containers.
LEMMA ContainerTable ==
  \A o \in DOMAIN ContainerOps : Entry("containers", o, ContainerOps[o])
<1>1. Entry("containers", "start", ContainerOps.start)
  BY DEF ContainerOps, ContainerAction, Op, Entry
<1>2. Entry("containers", "stop", ContainerOps.stop)
  BY DEF ContainerOps, ContainerAction, Op, Entry
<1>3. Entry("containers", "restart", ContainerOps.restart)
  BY DEF ContainerOps, ContainerAction, Op, Entry
<1>4. Entry("containers", "delete", ContainerOps.delete)
  BY DEF ContainerOps, ContainerAction, Op, Entry
<1>5. DOMAIN ContainerOps = {"start", "stop", "restart", "delete"}
  BY DEF ContainerOps
<1>. QED BY <1>1, <1>2, <1>3, <1>4, <1>5

\* The operations of the images.
LEMMA ImageTable ==
  \A o \in DOMAIN ImageOps : Entry("images", o, ImageOps[o])
<1>1. Entry("images", "delete", ImageOps.delete)
  BY DEF ImageOps, DeleteImage, Op, Entry
<1>2. Entry("images", "forceDelete", ImageOps.forceDelete)
  BY DEF ImageOps, DeleteImage, Op, Entry
<1>3. Entry("images", "upload", ImageOps.upload)
  BY DEF ImageOps, AddImage, Op, Entry
<1>4. Entry("images", "load", ImageOps.load)
  BY DEF ImageOps, AddImage, Op, Entry
<1>5. Entry("images", "sync", ImageOps.sync)
  BY DEF ImageOps, PageOp, Op, Entry
<1>6. Entry("images", "prune", ImageOps.prune)
  BY DEF ImageOps, PageOp, Op, Entry
<1>7. DOMAIN ImageOps = {"delete", "forceDelete", "upload", "load", "sync", "prune"}
  BY DEF ImageOps
<1>. QED BY <1>1, <1>2, <1>3, <1>4, <1>5, <1>6, <1>7

\* The operations of the volumes.
LEMMA VolumeTable ==
  \A o \in DOMAIN VolumeOps : Entry("volumes", o, VolumeOps[o])
<1>1. Entry("volumes", "delete", VolumeOps.delete)
  BY DEF VolumeOps, DeleteOps, Op, Entry
<1>2. Entry("volumes", "create", VolumeOps.create)
  BY DEF VolumeOps, CreateModal, Op, Entry
<1>3. Entry("volumes", "prune", VolumeOps.prune)
  BY DEF VolumeOps, PageOp, Op, Entry
<1>4. DOMAIN VolumeOps = {"delete", "create", "prune"}
  BY DEF VolumeOps
<1>. QED BY <1>1, <1>2, <1>3, <1>4

\* The operations of the networks.
LEMMA NetworkTable ==
  \A o \in DOMAIN NetworkOps : Entry("networks", o, NetworkOps[o])
<1>1. Entry("networks", "connect", NetworkOps.connect)
  BY DEF NetworkOps, Link, Op, Entry
<1>2. Entry("networks", "disconnect", NetworkOps.disconnect)
  BY DEF NetworkOps, Link, Op, Entry
<1>3. Entry("networks", "delete", NetworkOps.delete)
  BY DEF NetworkOps, DeleteOps, Op, Entry
<1>4. Entry("networks", "create", NetworkOps.create)
  BY DEF NetworkOps, CreateModal, Op, Entry
<1>5. DOMAIN NetworkOps = {"connect", "disconnect", "delete", "create"}
  BY DEF NetworkOps
<1>. QED BY <1>1, <1>2, <1>3, <1>4, <1>5

\* The operations of the hosts of the proxy.
LEMMA ProxyTable ==
  \A o \in DOMAIN ProxyOps : Entry("proxyHosts", o, ProxyOps[o])
<1>1. Entry("proxyHosts", "add", ProxyOps.add)
  BY DEF ProxyOps, HostModal, Op, Entry
<1>2. Entry("proxyHosts", "edit", ProxyOps.edit)
  BY DEF ProxyOps, HostModal, Op, Entry
<1>3. Entry("proxyHosts", "toggle", ProxyOps.toggle)
  BY DEF ProxyOps, Op, Entry
<1>4. Entry("proxyHosts", "remove", ProxyOps.remove)
  BY DEF ProxyOps, Op, Entry
<1>5. Entry("proxyHosts", "test", ProxyOps.test)
  BY DEF ProxyOps, Op, Entry
<1>6. Entry("proxyHosts", "control", ProxyOps.control)
  BY DEF ProxyOps, PageOp, Op, Entry
<1>7. DOMAIN ProxyOps = {"add", "edit", "toggle", "remove", "test", "control"}
  BY DEF ProxyOps
<1>. QED BY <1>1, <1>2, <1>3, <1>4, <1>5, <1>6, <1>7

\* The operations of the configurations.
LEMMA ConfigTable ==
  \A o \in DOMAIN ConfigOps : Entry("nginxConfigs", o, ConfigOps[o])
<1>1. Entry("nginxConfigs", "add", ConfigOps.add)
  BY DEF ConfigOps, SaveConfig, Op, Entry
<1>2. Entry("nginxConfigs", "edit", ConfigOps.edit)
  BY DEF ConfigOps, SaveConfig, Op, Entry
<1>3. Entry("nginxConfigs", "delete", ConfigOps.delete)
  BY DEF ConfigOps, Op, Entry
<1>4. Entry("nginxConfigs", "viewAll", ConfigOps.viewAll)
  BY DEF ConfigOps, Op, Entry
<1>5. DOMAIN ConfigOps = {"add", "edit", "delete", "viewAll"}
  BY DEF ConfigOps
<1>. QED BY <1>1, <1>2, <1>3, <1>4, <1>5

\* The operations of the tickets.
LEMMA TicketTable ==
  \A o \in DOMAIN TicketOps : Entry("dns", o, TicketOps[o])
<1>1. Entry("dns", "create", TicketOps.create)
  BY DEF TicketOps, Op, Entry
<1>2. Entry("dns", "send", TicketOps.send)
  BY DEF TicketOps, Op, Entry
<1>3. Entry("dns", "delete", TicketOps.delete)
  BY DEF TicketOps, Op, Entry
<1>4. Entry("dns", "status", TicketOps.status)
  BY DEF TicketOps, Op, Entry
<1>5. DOMAIN TicketOps = {"create", "send", "delete", "status"}
  BY DEF TicketOps
<1>. QED BY <1>1, <1>2, <1>3, <1>4, <1>5

\* The operations of the users.
LEMMA UserTable ==
  \A o \in DOMAIN UserOps : Entry("users", o, UserOps[o])
<1>1. Entry("users", "add", UserOps.add)
  BY DEF UserOps, SaveModal, Op, Entry
<1>2. Entry("users", "edit", UserOps.edit)
  BY DEF UserOps, SaveModal, Op, Entry
<1>3. Entry("users", "activity", UserOps.activity)
  BY DEF UserOps, Op, Entry
<1>4. Entry("users", "toggle", UserOps.toggle)
  BY DEF UserOps, Manages, Op, Entry
<1>5. Entry("users", "delete", UserOps.delete)
  BY DEF UserOps, DeleteAsked, Manages, Op, Entry
<1>6. DOMAIN UserOps = {"add", "edit", "activity", "toggle", "delete"}
  BY DEF UserOps
<1>. QED BY <1>1, <1>2, <1>3, <1>4, <1>5, <1>6

\* The operations of the roles.
LEMMA RoleTable ==
  \A o \in DOMAIN RoleOps : Entry("roles", o, RoleOps[o])
<1>1. Entry("roles", "add", RoleOps.add)
  BY DEF RoleOps, SaveModal, Op, Entry
<1>2. Entry("roles", "edit", RoleOps.edit)
  BY DEF RoleOps, SaveModal, Op, Entry
<1>3. Entry("roles", "delete", RoleOps.delete)
  BY DEF RoleOps, DeleteAsked, Manages, Op, Entry
<1>4. DOMAIN RoleOps = {"add", "edit", "delete"}
  BY DEF RoleOps
<1>. QED BY <1>1, <1>2, <1>3, <1>4

\* The operations of the sessions.
LEMMA SessionTable ==
  \A o \in DOMAIN SessionOps : Entry("sessions", o, SessionOps[o])
<1>1. Entry("sessions", "revoke", SessionOps.revoke)
  BY DEF SessionOps, Manages, Op, Entry
<1>2. DOMAIN SessionOps = {"revoke"}
  BY DEF SessionOps
<1>. QED BY <1>1, <1>2

\* The operations of the backups.
LEMMA BackupTable ==
  \A o \in DOMAIN BackupOps : Entry("backups", o, BackupOps[o])
<1>1. Entry("backups", "create", BackupOps.create)
  BY DEF BackupOps, Op, Entry
<1>2. Entry("backups", "inspect", BackupOps.inspect)
  BY DEF BackupOps, Op, Entry
<1>3. Entry("backups", "restore", BackupOps.restore)
  BY DEF BackupOps, Op, Entry
<1>4. Entry("backups", "delete", BackupOps.delete)
  BY DEF BackupOps, Op, Entry
<1>5. DOMAIN BackupOps = {"create", "inspect", "restore", "delete"}
  BY DEF BackupOps
<1>. QED BY <1>1, <1>2, <1>3, <1>4, <1>5

\* The page of the tables.
LEMMA TheTables ==
  ASSUME page \in InventoryPages
  PROVE  /\ \A o \in DOMAIN Ops : Entry(page, o, Ops[o])
         /\ "none" \notin DOMAIN Ops
         /\ page = "containers" => DOMAIN Ops = {"start", "stop", "restart", "delete"}
         /\ page = "backups" => "restore" \in DOMAIN Ops /\ Ops["restore"].asks # "no"
         /\ page = "images" => {"upload", "load"} \subseteq DOMAIN Ops
<1>1. CASE page = "containers"
  <2>1. Ops = ContainerOps
    BY <1>1 DEF Ops, PageOps
  <2>2. DOMAIN ContainerOps = {"start", "stop", "restart", "delete"}
    BY DEF ContainerOps
  <2>. QED BY <1>1, <2>1, <2>2, ContainerTable
<1>2. CASE page = "images"
  <2>1. Ops = ImageOps
    BY <1>2 DEF Ops, PageOps
  <2>2. DOMAIN ImageOps = {"delete", "forceDelete", "upload", "load", "sync", "prune"}
    BY DEF ImageOps
  <2>. QED BY <1>2, <2>1, <2>2, ImageTable
<1>3. CASE page = "volumes"
  <2>1. Ops = VolumeOps
    BY <1>3 DEF Ops, PageOps
  <2>2. DOMAIN VolumeOps = {"delete", "create", "prune"}
    BY DEF VolumeOps
  <2>. QED BY <1>3, <2>1, <2>2, VolumeTable
<1>4. CASE page = "networks"
  <2>1. Ops = NetworkOps
    BY <1>4 DEF Ops, PageOps
  <2>2. DOMAIN NetworkOps = {"connect", "disconnect", "delete", "create"}
    BY DEF NetworkOps
  <2>. QED BY <1>4, <2>1, <2>2, NetworkTable
<1>5. CASE page = "proxyHosts"
  <2>1. Ops = ProxyOps
    BY <1>5 DEF Ops, PageOps
  <2>2. DOMAIN ProxyOps = {"add", "edit", "toggle", "remove", "test", "control"}
    BY DEF ProxyOps
  <2>. QED BY <1>5, <2>1, <2>2, ProxyTable
<1>6. CASE page = "nginxConfigs"
  <2>1. Ops = ConfigOps
    BY <1>6 DEF Ops, PageOps
  <2>2. DOMAIN ConfigOps = {"add", "edit", "delete", "viewAll"}
    BY DEF ConfigOps
  <2>. QED BY <1>6, <2>1, <2>2, ConfigTable
<1>7. CASE page = "dns"
  <2>1. Ops = TicketOps
    BY <1>7 DEF Ops, PageOps
  <2>2. DOMAIN TicketOps = {"create", "send", "delete", "status"}
    BY DEF TicketOps
  <2>. QED BY <1>7, <2>1, <2>2, TicketTable
<1>8. CASE page = "users"
  <2>1. Ops = UserOps
    BY <1>8 DEF Ops, PageOps
  <2>2. DOMAIN UserOps = {"add", "edit", "activity", "toggle", "delete"}
    BY DEF UserOps
  <2>. QED BY <1>8, <2>1, <2>2, UserTable
<1>9. CASE page = "roles"
  <2>1. Ops = RoleOps
    BY <1>9 DEF Ops, PageOps
  <2>2. DOMAIN RoleOps = {"add", "edit", "delete"}
    BY DEF RoleOps
  <2>. QED BY <1>9, <2>1, <2>2, RoleTable
<1>10. CASE page = "sessions"
  <2>1. Ops = SessionOps
    BY <1>10 DEF Ops, PageOps
  <2>2. DOMAIN SessionOps = {"revoke"}
    BY DEF SessionOps
  <2>. QED BY <1>10, <2>1, <2>2, SessionTable
<1>11. CASE page = "backups"
  <2>1. Ops = BackupOps
    BY <1>11 DEF Ops, PageOps
  <2>2. DOMAIN BackupOps = {"create", "inspect", "restore", "delete"}
    BY DEF BackupOps
  <2>3. BackupOps["restore"].asks # "no"
    BY DEF BackupOps, Op
  <2>. QED BY <1>11, <2>1, <2>2, <2>3, BackupTable
<1>. QED BY <1>1, <1>2, <1>3, <1>4, <1>5, <1>6, <1>7, <1>8, <1>9, <1>10, <1>11, TheInventory

-----------------------------------------------------------------------------
(* Inventory: types *)

States == {"gone", "off", "on"}
Views  == [Things -> States]
Reads3 == {"load", "wait"}
OpArg  == {"op", "of", "mounted", "state"}

\* A request of a page of the inventory.
ThingRequest(x) ==
  /\ x.state \in {"sent", "done", "error"}
  /\ \/ /\ x.by \in Reads3 /\ x.call = ListCalls[page]
        /\ x.state = "done" => \E v \in Views : x.reply = <<v>>
     \/ /\ x.by = "op" /\ DOMAIN x.arg = OpArg
        /\ x.arg.op \in DOMAIN Ops /\ x.arg.of \in Things /\ x.arg.mounted \in BOOLEAN
        /\ x.state = "done" => \E v : x.reply = <<v>> /\ v.state \in States
     \/ /\ x.by \in {"bulk", "stack"} /\ page = "containers" /\ DOMAIN x.arg = OpArg
        /\ x.arg.op \in {"start", "stop", "restart"} /\ x.arg.of \in Things
        /\ x.arg.state \in Seq(Things)

ThingsForm ==
  /\ DOMAIN ui = {"busy", "items", "modal", "later", "sel", "filter"}
  /\ ui.items \in Views /\ ui.later \in BOOLEAN /\ ui.sel \subseteq Things
  /\ ui.modal = NoModal
     \/ /\ DOMAIN ui.modal = {"op", "of"} /\ ui.modal.of \in Things
        /\ ui.modal.op \in DOMAIN Ops /\ Ops[ui.modal.op].asks # "no"
  /\ DOMAIN srv = {"items"} /\ srv.items \in Views
  /\ AreRequests(net) /\ \A k \in DOMAIN net : ThingRequest(net[k])

\* What one step of the server changes: request i is answered with v; an
\* operation may remove others.
OpServed(i, v) ==
  /\ net[i].by = "op" /\ CanDo(net[i].arg)
  /\ v = <<[net[i].arg EXCEPT !.state = Made(net[i].arg)]>>
  /\ \E gone :
       /\ Ops[net[i].arg.op].does # "prune" => gone = {}
       /\ srv'.items = [x \in Things |-> IF x \in gone THEN "gone" ELSE
                                         IF x = net[i].arg.of THEN Made(net[i].arg)
                                         ELSE srv.items[x]]

ListServed(i, v) == net[i].by \in Reads3 /\ srv' = srv /\ v = <<srv.items>>

NotServed(i) ==
  srv' = srv /\ (line = "orderly" /\ net[i].by \in Reads3 => ~Authorized(net[i].call))

Serving(i, st, v) ==
  /\ AnsweredAt(net, net', i, st, v) /\ AreRequests(net') /\ UNCHANGED <<session, ui>>
  /\ st \in {"done", "error"} /\ DOMAIN srv' = {"items"} /\ srv'.items \in Views
  /\ line = "orderly" => net[i].state = "sent" /\ InTurn(i)
  /\ st = "error" => NotServed(i)
  /\ st = "done" => \/ ListServed(i, v) \/ OpServed(i, v)
                    \/ net[i].by \in {"bulk", "stack"}

LEMMA FormServed ==
  ASSUME page \in InventoryPages, ThingsForm, NEW i \in DOMAIN net, NEW st, NEW v, Serving(i, st, v)
  PROVE  ThingsForm'
<1>1. /\ DOMAIN net' = DOMAIN net /\ \A k \in DOMAIN net : k # i => net'[k] = net[k]
      /\ net'[i].by = net[i].by /\ net'[i].call = net[i].call /\ net'[i].arg = net[i].arg
      /\ net'[i].state = st /\ (st = "done" => net'[i].reply = v) /\ st \in {"done", "error"}
  BY DEF Serving, AnsweredAt
<1>2. page' = page /\ Ops' = Ops
  BY DEF Serving, session, Ops
<1>3. ThingRequest(net[i]) /\ \A k \in DOMAIN net : ThingRequest(net[k])
  BY DEF ThingsForm
<1>4. net[i].by = "op" => Made(net[i].arg) \in States
  <2>. SUFFICES ASSUME net[i].by = "op" PROVE Made(net[i].arg) \in States
    OBVIOUS
  <2>1. net[i].arg.of \in Things /\ srv.items[net[i].arg.of] \in States
    BY <1>3 DEF ThingRequest, ThingsForm, Views, Reads3
  <2>. QED BY <2>1 DEF Made, States
<1>5. ThingRequest(net[i])'
  <2>1. CASE st = "error"
    BY <1>1, <1>2, <1>3, <2>1 DEF ThingRequest
  <2>2. CASE st = "done" /\ net[i].by \in Reads3 /\ v = <<srv.items>>
    <3>1. srv.items \in Views
      BY DEF ThingsForm
    <3>. QED BY <1>1, <1>2, <1>3, <2>2, <3>1 DEF ThingRequest, Reads3
  <2>3. CASE st = "done" /\ net[i].by = "op"
             /\ v = <<[net[i].arg EXCEPT !.state = Made(net[i].arg)]>>
    <3>1. DOMAIN net[i].arg = OpArg
      BY <1>3, <2>3 DEF ThingRequest, Reads3
    <3>. DEFINE w == [net[i].arg EXCEPT !.state = Made(net[i].arg)]
    <3>2. w.state = Made(net[i].arg)
      BY <3>1 DEF OpArg
    <3>3. w.state \in States
      BY <1>4, <2>3, <3>2
    <3>4. net'[i].reply = <<w>>
      BY <1>1, <2>3
    <3>. HIDE DEF w
    <3>. QED BY <1>1, <1>2, <1>3, <2>3, <3>3, <3>4 DEF ThingRequest, Reads3
  <2>4. CASE st = "done" /\ net[i].by \in {"bulk", "stack"}
    BY <1>1, <1>2, <1>3, <2>4 DEF ThingRequest, Reads3
  <2>5. \/ st = "error"
        \/ st = "done" /\ net[i].by \in Reads3 /\ v = <<srv.items>>
        \/ st = "done" /\ net[i].by = "op" /\ v = <<[net[i].arg EXCEPT !.state = Made(net[i].arg)]>>
        \/ st = "done" /\ net[i].by \in {"bulk", "stack"}
    BY DEF Serving, ListServed, OpServed
  <2>. QED BY <2>1, <2>2, <2>3, <2>4, <2>5, Zenon
<1>6. \A k \in DOMAIN net : ThingRequest(net[k])'
  <2>. SUFFICES ASSUME NEW k \in DOMAIN net PROVE ThingRequest(net[k])'
    OBVIOUS
  <2>1. CASE k = i
    BY <1>5, <2>1
  <2>2. CASE k # i
    BY <1>1, <1>2, <1>3, <2>2 DEF ThingRequest
  <2>. QED BY <2>1, <2>2
<1>7. ui' = ui /\ AreRequests(net') /\ DOMAIN srv' = {"items"} /\ srv'.items \in Views
  BY DEF Serving
<1>. QED BY <1>1, <1>2, <1>6, <1>7 DEF ThingsForm

\* Each of these steps of the server is one.
LEMMA ThingsServed ==
  ASSUME page \in InventoryPages, ThingsForm,
         \/ ServeOp \/ ServeBulk \/ ServeStack \/ Forbid \/ Fault
         \/ \E by \in {"load", "wait"} : Tells(by, srv.items)
  PROVE  \E i \in DOMAIN net : \E st, v : Serving(i, st, v)
<1>1. AreRequests(net) /\ DOMAIN srv = {"items"} /\ srv.items \in Views
  BY DEF ThingsForm
<1>2. ASSUME NEW i \in DOMAIN net, NEW v, Reply(i, v)
      PROVE  AnsweredAt(net, net', i, "done", <<v>>) /\ AreRequests(net')
  <2>1. Marked
    BY <1>2 DEF Marked
  <2>. QED BY <1>1, <1>2, <2>1, ReplyAnswers, MarkedKeeps
<1>3. ASSUME NEW i \in DOMAIN net, Refuse(i), UNCHANGED <<session, ui, srv>>,
             line = "orderly" => net[i].state = "sent" /\ InTurn(i),
             line = "orderly" /\ net[i].by \in Reads3 => ~Authorized(net[i].call)
      PROVE  Serving(i, "error", <<>>)
  <2>1. AnsweredAt(net, net', i, "error", <<>>)
    BY <1>1, <1>3, RefuseAnswers
  <2>2. AreRequests(net')
    <3>1. Marked
      BY <1>3 DEF Marked
    <3>. QED BY <1>1, <3>1, MarkedKeeps
  <2>3. DOMAIN srv' = {"items"} /\ srv'.items \in Views
    BY <1>1, <1>3
  <2>. QED BY <1>3, <2>1, <2>2, <2>3 DEF Serving, NotServed
<1>4. CASE Forbid
  BY <1>3, <1>4 DEF Forbid, NetOnly
<1>5. CASE Fault
  BY <1>3, <1>5 DEF Fault, NetOnly
<1>6. CASE \E by \in {"load", "wait"} : Tells(by, srv.items)
  <2>1. PICK by \in Reads3, i \in DOMAIN net : Served(i, by) /\ Reply(i, srv.items) /\ NetOnly
    BY <1>6 DEF Tells, Finds, Reads3
  <2>2. net[i].by \in Reads3 /\ net[i].state = "sent" /\ InTurn(i)
    BY <2>1 DEF Served
  <2>3. DOMAIN srv' = {"items"} /\ srv'.items \in Views /\ UNCHANGED <<session, ui, srv>>
    BY <1>1, <2>1 DEF NetOnly
  <2>4. Serving(i, "done", <<srv.items>>)
    BY <1>2, <2>1, <2>2, <2>3 DEF Serving, ListServed
  <2>. QED BY <2>4
<1>7. ASSUME NEW i \in DOMAIN net, NEW by, Served(i, by)
      PROVE  net[i].by = by /\ net[i].state = "sent" /\ InTurn(i) /\ ThingRequest(net[i])
  BY <1>7 DEF Served, ThingsForm
<1>8. CASE ServeOp
  <2>1. PICK gone \in SUBSET {x \in Things : srv.items[x] = "off"}, i \in DOMAIN net :
          /\ Served(i, "op")
          /\ IF CanDo(net[i].arg) /\ (Ops[net[i].arg.op].does # "prune" => gone = {})
             THEN /\ Reply(i, [net[i].arg EXCEPT !.state = Made(net[i].arg)])
                  /\ ServerIs([items |-> [x \in Things |-> IF x \in gone THEN "gone" ELSE
                                            IF x = net[i].arg.of THEN Made(net[i].arg)
                                            ELSE srv.items[x]]])
             ELSE Refuse(i) /\ NetOnly
    BY <1>8 DEF ServeOp, Makes
  <2>2. net[i].by = "op" /\ net[i].state = "sent" /\ InTurn(i) /\ net[i].by \notin Reads3
        /\ net[i].arg.of \in Things
    BY <1>7, <2>1 DEF Reads3, ThingRequest
  <2>3. CASE CanDo(net[i].arg) /\ (Ops[net[i].arg.op].does # "prune" => gone = {})
    <3>. DEFINE f == [x \in Things |-> IF x \in gone THEN "gone" ELSE
                                       IF x = net[i].arg.of THEN Made(net[i].arg)
                                       ELSE srv.items[x]]
    <3>1. /\ Reply(i, [net[i].arg EXCEPT !.state = Made(net[i].arg)])
          /\ srv' = [items |-> f] /\ UNCHANGED <<session, ui>>
      BY <2>1, <2>3 DEF ServerIs
    <3>2. Made(net[i].arg) \in States
      <4>1. srv.items[net[i].arg.of] \in States
        BY <1>1, <2>2 DEF Views
      <4>. QED BY <4>1 DEF Made, States
    <3>3. f \in Views
      BY <1>1, <3>2 DEF Views, States
    <3>4. DOMAIN srv' = {"items"} /\ srv'.items = f
      BY <3>1
    <3>5. Serving(i, "done", <<[net[i].arg EXCEPT !.state = Made(net[i].arg)]>>)
      BY <1>2, <2>2, <2>3, <3>1, <3>3, <3>4 DEF Serving, OpServed
    <3>. QED BY <3>5
  <2>4. CASE ~(CanDo(net[i].arg) /\ (Ops[net[i].arg.op].does # "prune" => gone = {}))
    BY <1>3, <2>1, <2>2, <2>4 DEF NetOnly
  <2>. QED BY <2>3, <2>4
<1>9. CASE ServeBulk \/ ServeStack
  <2>1. PICK by \in {"bulk", "stack"}, i \in DOMAIN net :
          /\ Served(i, by)
          /\ IF CanDo(net[i].arg)
             THEN /\ Reply(i, net[i].arg)
                  /\ ServerIs([items |-> [srv.items EXCEPT ![net[i].arg.of] = Made(net[i].arg)]])
             ELSE Refuse(i) /\ NetOnly
    <3>1. CASE ServeBulk
      BY <3>1 DEF ServeBulk, Makes
    <3>2. CASE ServeStack
      BY <3>2 DEF ServeStack, Makes
    <3>. QED BY <1>9, <3>1, <3>2
  <2>2. /\ net[i].by \in {"bulk", "stack"} /\ net[i].state = "sent" /\ InTurn(i)
        /\ net[i].by \notin Reads3 /\ net[i].arg.of \in Things
    BY <1>7, <2>1 DEF Reads3, ThingRequest
  <2>3. CASE CanDo(net[i].arg)
    <3>. DEFINE f == [srv.items EXCEPT ![net[i].arg.of] = Made(net[i].arg)]
    <3>1. Reply(i, net[i].arg) /\ srv' = [items |-> f] /\ UNCHANGED <<session, ui>>
      BY <2>1, <2>3 DEF ServerIs
    <3>2. Made(net[i].arg) \in States
      <4>1. srv.items[net[i].arg.of] \in States
        BY <1>1, <2>2 DEF Views
      <4>. QED BY <4>1 DEF Made, States
    <3>3. f \in Views
      BY <1>1, <3>2 DEF Views
    <3>4. DOMAIN srv' = {"items"} /\ srv'.items = f
      BY <3>1
    <3>5. Serving(i, "done", <<net[i].arg>>)
      BY <1>2, <2>2, <3>1, <3>3, <3>4 DEF Serving
    <3>. QED BY <3>5
  <2>4. CASE ~CanDo(net[i].arg)
    BY <1>3, <2>1, <2>2, <2>4 DEF NetOnly
  <2>. QED BY <2>3, <2>4
<1>. QED BY <1>4, <1>5, <1>6, <1>8, <1>9

-----------------------------------------------------------------------------
(* Inventory: requests that are left *)

\* A request that a form has sent which is still there.
InForm(x) == x.by = "op" /\ Ops[x.arg.op].slot = "modal" /\ x.arg.mounted

\* y is x, whose form may have closed.
Was(y, x, closed) ==
  \/ y = x
  \/ /\ closed /\ x.by = "op" /\ Ops[x.arg.op].slot = "modal"
     /\ y.by = x.by /\ y.call = x.call /\ y.state = x.state /\ y.reply = x.reply
     /\ DOMAIN y.arg = OpArg /\ y.arg.op = x.arg.op /\ y.arg.of = x.arg.of
     /\ y.arg.mounted = FALSE

\* A form closes.
LEMMA UnmountedIs ==
  ASSUME NEW q, AreRequests(q), \A k \in DOMAIN q : ThingRequest(q[k])
  PROVE  /\ AreRequests(Unmounted(q)) /\ DOMAIN Unmounted(q) = DOMAIN q
         /\ Len(Unmounted(q)) = Len(q)
         /\ \A k \in DOMAIN q : /\ Was(Unmounted(q)[k], q[k], TRUE) /\ ~InForm(Unmounted(q)[k])
                                /\ ThingRequest(Unmounted(q)[k])
<1>. DEFINE r == Unmounted(q)
<1>1. PICK S : q \in Seq(S) /\ \A x \in S : IsRequest(x)
  BY DEF AreRequests
<1>2. DOMAIN r = 1..Len(q) /\ DOMAIN q = 1..Len(q) /\ Len(q) \in Nat
  BY <1>1 DEF Unmounted
<1>3. ASSUME NEW k \in DOMAIN q
      PROVE  IsRequest(r[k]) /\ Was(r[k], q[k], TRUE) /\ ~InForm(r[k]) /\ ThingRequest(r[k])
  <2>1. IsRequest(q[k]) /\ ThingRequest(q[k])
    BY <1>1
  <2>2. CASE q[k].by = "op" /\ Ops[q[k].arg.op].slot = "modal"
    <3>1. r[k] = [q[k] EXCEPT !.arg.mounted = FALSE]
      BY <2>2 DEF Unmounted
    <3>2. DOMAIN q[k].arg = OpArg
      BY <2>1, <2>2 DEF ThingRequest, Reads3
    <3>3. /\ DOMAIN r[k] = DOMAIN q[k] /\ r[k].by = q[k].by /\ r[k].call = q[k].call
          /\ r[k].state = q[k].state /\ r[k].reply = q[k].reply
          /\ r[k].arg = [q[k].arg EXCEPT !.mounted = FALSE]
      BY <2>1, <3>1 DEF IsRequest
    <3>4. /\ DOMAIN r[k].arg = OpArg /\ r[k].arg.op = q[k].arg.op /\ r[k].arg.of = q[k].arg.of
          /\ r[k].arg.mounted = FALSE
      BY <3>2, <3>3 DEF OpArg
    <3>. HIDE DEF r
    <3>5. IsRequest(r[k]) /\ Was(r[k], q[k], TRUE) /\ ~InForm(r[k])
      BY <2>1, <2>2, <3>3, <3>4 DEF IsRequest, Was, InForm
    <3>6. ThingRequest(r[k])
      BY <2>1, <2>2, <3>3, <3>4 DEF ThingRequest, Reads3
    <3>. QED BY <3>5, <3>6
  <2>3. CASE ~(q[k].by = "op" /\ Ops[q[k].arg.op].slot = "modal")
    <3>1. r[k] = q[k]
      BY <2>3 DEF Unmounted
    <3>. QED BY <2>1, <2>3, <3>1 DEF Was, InForm
  <2>. QED BY <2>2, <2>3
<1>. HIDE DEF r
<1>4. r \in Seq({r[k] : k \in DOMAIN q}) /\ Len(r) = Len(q)
  <2>1. r = [k \in 1..Len(q) |-> r[k]]
    BY <1>2 DEF r, Unmounted
  <2>. QED BY <1>2, <2>1
<1>5. AreRequests(r)
  BY <1>3, <1>4 DEF AreRequests
<1>. QED BY <1>2, <1>3, <1>4, <1>5 DEF r

\* Where request k was before request i was taken; i is None when none was.
None      == Len(net) + 1
Old(i, k) == IF k < i THEN k ELSE k + 1

\* rest is what is left of the requests when i is taken.
Left(i, closed, rest) ==
  /\ AreRequests(rest) /\ \A k \in DOMAIN rest : ThingRequest(rest[k])
  /\ Len(net) \in Nat /\ DOMAIN net = 1..Len(net) /\ i \in 1..None
  /\ Len(rest) = (IF i = None THEN Len(net) ELSE Len(net) - 1) /\ DOMAIN rest = 1..Len(rest)
  /\ \A k \in DOMAIN rest : /\ Old(i, k) \in DOMAIN net /\ Old(i, k) # i
                            /\ Was(rest[k], net[Old(i, k)], closed)
                            /\ closed => ~InForm(rest[k])
  /\ \A j \in DOMAIN net : j # i => \E k \in DOMAIN rest : Old(i, k) = j

Rest(i, closed) == IF closed THEN Unmounted(RemoveAt(net, i)) ELSE RemoveAt(net, i)

LEMMA LeftIs ==
  ASSUME ThingsForm, NEW i \in DOMAIN net, NEW closed
  PROVE  Left(i, closed, Rest(i, closed))
<1>. DEFINE q == RemoveAt(net, i)
            r == Rest(i, closed)
<1>1. PICK S : net \in Seq(S)
  BY DEF ThingsForm, AreRequests
<1>2. i \in 1..Len(net)
  BY <1>1
<1>3. q \in Seq(S) /\ Len(q) = Len(net) - 1 /\ DOMAIN q = 1..Len(q)
      /\ \A k \in 1..Len(net) - 1 : q[k] = net[Old(i, k)]
  <2>1. /\ q \in Seq(S) /\ Len(q) = Len(net) - 1
        /\ \A k \in 1..Len(net) - 1 : q[k] = net[IF k < i THEN k ELSE k + 1]
    BY <1>1, <1>2, RemoveAtEffect
  <2>. QED BY <2>1 DEF Old
<1>4. AreRequests(q)
  BY TakesOne DEF ThingsForm
<1>. HIDE DEF q
<1>5. \A k \in DOMAIN q : Old(i, k) \in DOMAIN net /\ Old(i, k) # i
  BY <1>1, <1>2, <1>3 DEF Old
<1>6. \A j \in DOMAIN net : j # i => \E k \in DOMAIN q : Old(i, k) = j
  <2>. SUFFICES ASSUME NEW j \in DOMAIN net, j # i PROVE \E k \in DOMAIN q : Old(i, k) = j
    OBVIOUS
  <2>1. CASE j < i
    BY <1>1, <1>2, <1>3, <2>1 DEF Old
  <2>2. CASE i < j
    <3>1. j - 1 \in DOMAIN q /\ Old(i, j - 1) = j
      BY <1>1, <1>2, <1>3, <2>2 DEF Old
    <3>. QED BY <3>1
  <2>. QED BY <1>1, <2>1, <2>2
<1>7. \A k \in DOMAIN q : ThingRequest(q[k])
  BY <1>3, <1>5 DEF ThingsForm
<1>8. /\ AreRequests(r) /\ DOMAIN r = DOMAIN q /\ Len(r) = Len(q)
      /\ \A k \in DOMAIN q : /\ Was(r[k], q[k], closed) /\ (closed => ~InForm(r[k]))
                             /\ ThingRequest(r[k])
  <2>1. CASE closed
    <3>1. r = Unmounted(q)
      BY <2>1 DEF Rest, q
    <3>2. \A k \in DOMAIN q : Was(r[k], q[k], TRUE)
      BY <1>4, <1>7, <3>1, UnmountedIs
    <3>3. \A k \in DOMAIN q : Was(r[k], q[k], closed)
      BY <2>1, <3>2 DEF Was
    <3>. QED BY <1>4, <1>7, <3>1, <3>3, UnmountedIs
  <2>2. CASE ~closed
    <3>1. r = q
      BY <2>2 DEF Rest, q
    <3>. QED BY <1>4, <1>7, <2>2, <3>1 DEF Was
  <2>. QED BY <2>1, <2>2
<1>. HIDE DEF r
<1>9. /\ Len(net) \in Nat /\ DOMAIN net = 1..Len(net) /\ i \in 1..None /\ i # None
      /\ Len(r) = Len(net) - 1 /\ DOMAIN r = 1..Len(r)
  BY <1>1, <1>2, <1>3, <1>8 DEF None
<1>10. \A k \in DOMAIN r : Was(r[k], net[Old(i, k)], closed)
  BY <1>3, <1>8
<1>11. Left(i, closed, r)
  <2>1. Len(r) = (IF i = None THEN Len(net) ELSE Len(net) - 1)
    BY <1>9
  <2>. QED BY <1>5, <1>6, <1>8, <1>9, <1>10, <2>1 DEF Left
<1>. QED BY <1>11 DEF r

\* No request is taken.
LEMMA NoneLeft ==
  ASSUME ThingsForm
  PROVE  Left(None, FALSE, net) /\ Left(None, TRUE, Unmounted(net))
<1>1. PICK S : net \in Seq(S)
  BY DEF ThingsForm, AreRequests
<1>2. /\ Len(net) \in Nat /\ DOMAIN net = 1..Len(net) /\ None \in 1..None
      /\ \A k \in DOMAIN net : Old(None, k) = k /\ k # None
  BY <1>1 DEF None, Old
<1>3. Left(None, FALSE, net)
  BY <1>2 DEF Left, ThingsForm, Was
<1>4. /\ AreRequests(Unmounted(net)) /\ DOMAIN Unmounted(net) = DOMAIN net
      /\ Len(Unmounted(net)) = Len(net)
      /\ \A k \in DOMAIN net : /\ Was(Unmounted(net)[k], net[k], TRUE)
                               /\ ~InForm(Unmounted(net)[k]) /\ ThingRequest(Unmounted(net)[k])
  BY UnmountedIs DEF ThingsForm
<1>. QED BY <1>2, <1>3, <1>4 DEF Left

\* The page takes request i, if any, and sends those of xs, one at most.
Moves(i, closed, xs) ==
  /\ UNCHANGED <<session, srv>>
  /\ i # None => Next1(i) /\ net[i].state \in {"done", "error"}
  /\ \E rest :
       /\ Left(i, closed, rest)
       /\ \/ xs = {} /\ net' = rest
          \/ \E x : xs = {x} /\ ThingRequest(x) /\ x.state = "sent"
                    /\ Added(rest, net', x) /\ AreRequests(net')

LEMMA AddsRequest ==
  ASSUME NEW q, AreRequests(q), NEW by, NEW call, NEW arg
  PROVE  /\ Added(q, Append(q, Request(by, call, arg)), Request(by, call, arg))
         /\ AreRequests(Append(q, Request(by, call, arg)))
         /\ Append(q, Request(by, call, arg)) = q \o <<Request(by, call, arg)>>
<1>1. PICK S : q \in Seq(S)
  BY DEF AreRequests
<1>2. \A x : Append(q, x) = q \o <<x>>
  BY <1>1
<1>3. /\ Added(q, Extended(q, Request(by, call, arg)), Request(by, call, arg))
      /\ AreRequests(Extended(q, Request(by, call, arg)))
  BY AsksAdds
<1>. QED BY <1>2, <1>3 DEF Extended

\* Requests of these pages, as they are sent.
LEMMA ThingsAsk ==
  ASSUME page \in InventoryPages
  PROVE  /\ LoadRequest.by = "load" /\ LoadRequest.state = "sent" /\ ThingRequest(LoadRequest)
         /\ \A o \in DOMAIN Ops, x \in Things :
              /\ Ask(o, x).by = "op" /\ Ask(o, x).arg = Argument(o, x)
              /\ Ask(o, x).state = "sent" /\ ThingRequest(Ask(o, x))
         /\ \A by, call, arg : Request(by, call, arg).state = "sent"
              /\ Request(by, call, arg).by = by /\ Request(by, call, arg).arg = arg
         /\ \A o, x : Argument(o, x).op = o /\ Argument(o, x).of = x
                      /\ Argument(o, x).mounted = TRUE /\ DOMAIN Argument(o, x) = OpArg
<1>1. \A by, call, arg : /\ Request(by, call, arg).state = "sent" /\ Request(by, call, arg).by = by
                         /\ Request(by, call, arg).call = call /\ Request(by, call, arg).arg = arg
  BY DEF Request
<1>2. \A o, x : Argument(o, x).op = o /\ Argument(o, x).of = x
                /\ Argument(o, x).mounted = TRUE /\ DOMAIN Argument(o, x) = OpArg
  BY DEF Argument, OpArg
<1>. HIDE DEF Request, Argument
<1>3. LoadRequest.by = "load" /\ LoadRequest.state = "sent" /\ ThingRequest(LoadRequest)
  BY <1>1 DEF LoadRequest, ThingRequest, Reads3
<1>4. ASSUME NEW o \in DOMAIN Ops, NEW x \in Things
      PROVE  /\ Ask(o, x).by = "op" /\ Ask(o, x).arg = Argument(o, x)
             /\ Ask(o, x).state = "sent" /\ ThingRequest(Ask(o, x))
  <2>. DEFINE r == Ask(o, x)
              a == Argument(o, x)
  <2>1. r.by = "op" /\ r.arg = a /\ r.state = "sent"
    BY <1>1 DEF Ask
  <2>2. a.op = o /\ a.of = x /\ a.mounted = TRUE /\ DOMAIN a = OpArg
    BY <1>2
  <2>. HIDE DEF r, a
  <2>3. ThingRequest(r)
    BY <2>1, <2>2 DEF ThingRequest, Reads3
  <2>. QED BY <2>1, <2>3 DEF r, a
<1>. QED BY <1>1, <1>2, <1>3, <1>4

\* A finite set as a sequence.
LEMMA SetAsSeq ==
  ASSUME NEW S, IsFiniteSet(S)
  PROVE  SetToSeq(S) \in Seq(S) /\ Len(SetToSeq(S)) = Cardinality(S)
<1>1. PICK f : f \in Bijection(1..Cardinality(S), S)
  BY FS_CardinalityType DEF ExistsBijection
<1>2. Cardinality(S) \in Nat
  BY FS_CardinalityType
<1>3. f \in [1..Cardinality(S) -> S] /\ IsInjective(f)
  BY <1>1 DEF Bijection, Injection, IsInjective
<1>4. SetToSeq(S) \in [1..Cardinality(S) -> S]
  BY <1>3 DEF SetToSeq
<1>. HIDE DEF SetToSeq
<1>. QED BY <1>2, <1>4

\* The members of a click, one by one.
LEMMA InTurn1 ==
  ASSUME NEW S, S \subseteq Things, S # {}
  PROVE  Head(InTurnOf(S)) \in Things /\ Tail(InTurnOf(S)) \in Seq(Things)
<1>. DEFINE s == InTurnOf(S)
<1>1. IsFiniteSet(S)
  BY InventoryAssumption, FS_Subset
<1>2. s \in Seq(S) /\ Len(s) = Cardinality(S)
  BY <1>1, SetAsSeq DEF InTurnOf
<1>3. Cardinality(S) # 0
  BY <1>1, FS_EmptySet
<1>. HIDE DEF s
<1>4. s # <<>>
  BY <1>2, <1>3
<1>5. Head(s) \in S /\ Tail(s) \in Seq(S)
  BY <1>2, <1>4
<1>6. Tail(s) \in Seq(Things)
  BY <1>5
<1>. QED BY <1>5, <1>6 DEF s

-----------------------------------------------------------------------------
(* Inventory: what a step of the page does *)

\* What the page becomes.
UiIs(busy, modal, items, later, sel) ==
  /\ DOMAIN ui' = DOMAIN ui
  /\ ui'.busy = busy /\ ui'.modal = modal /\ ui'.items = items
  /\ ui'.later = later /\ ui'.sel = sel

AsksList ==
  /\ Moves(None, FALSE, {LoadRequest})
  /\ \E later \in {ui.later, FALSE} :
       UiIs(BusyLoading(ui.busy), ui.modal, ui.items, later, ui.sel)

RunsOp(o, x) ==
  /\ o \in DOMAIN Ops /\ x \in Things
  /\ \/ Ops[o].asks = "no" /\ ~Blocked(o, x)
     \/ ui.modal # NoModal /\ ui.modal.op = o /\ (Ops[o].asks = "form" => ~Blocked(o, x))
  /\ Moves(None, FALSE, {Ask(o, x)})
  /\ UiIs(Taken(o, x), IF Ops[o].closes = "click" THEN NoModal ELSE ui.modal,
          ui.items, ui.later, ui.sel)

OpensModal(o, x) ==
  /\ o \in DOMAIN Ops /\ x \in Things /\ Ops[o].asks # "no" /\ Uncovered
  /\ Moves(None, FALSE, {})
  /\ UiIs(ui.busy, [op |-> o, of |-> x], ui.items, ui.later, ui.sel)

ClosesForm ==
  /\ ui.modal # NoModal /\ (Ops[ui.modal.op].shuts \/ ~\E b \in ui.busy : b.slot = "modal")
  /\ Moves(None, TRUE, {})
  /\ UiIs(Freed(ui.busy, "modal"), NoModal, ui.items, ui.later, ui.sel)

TakesList(i) ==
  /\ i \in DOMAIN net /\ net[i].by \in Reads3 /\ Moves(i, FALSE, {})
  /\ UiIs(IF net[i].by = "load" THEN ui.busy \ {Loading} ELSE Freed(ui.busy \ {Loading}, "row"),
          ui.modal, IF net[i].state = "done" THEN Head(net[i].reply) ELSE ui.items,
          ui.later, ui.sel)

Selects ==
  /\ Moves(None, FALSE, {})
  /\ \E sel \in SUBSET Things : UiIs(ui.busy, ui.modal, ui.items, ui.later, sel)

Runs == {"bulk", "stack"}

StartsRun(x) ==
  /\ x.by \in Runs /\ Moves(None, FALSE, {x})
  /\ UiIs(IF x.by = "stack" THEN Taken(x.arg.op, x.arg.of) ELSE ui.busy,
          ui.modal, ui.items, ui.later, ui.sel)

GoesOn(i, x) ==
  /\ i \in DOMAIN net /\ net[i].by \in Runs /\ x.by = net[i].by /\ Moves(i, FALSE, {x})
  /\ \E later \in BOOLEAN :
       /\ ui.later \/ (x.by = "stack" /\ net[i].state = "done") => later
       /\ UiIs(IF x.by = "stack" THEN Taken(x.arg.op, x.arg.of) ELSE ui.busy,
               ui.modal, ui.items, later, ui.sel)

EndsRun(i) ==
  /\ i \in DOMAIN net /\ net[i].by \in Runs /\ Moves(i, FALSE, {})
  /\ \E later \in BOOLEAN, sel \in SUBSET Things :
       /\ ui.later \/ net[i].by = "bulk" \/ net[i].state = "done" => later
       /\ UiIs(IF net[i].by = "stack" THEN Freed(ui.busy, "row") ELSE ui.busy,
               ui.modal, ui.items, later, sel)

\* The page takes no request and sends one at most.
LEMMA MovesAlone ==
  ASSUME ThingsForm
  PROVE  /\ UNCHANGED <<session, srv, net>> => Moves(None, FALSE, {})
         /\ UNCHANGED <<session, srv>> /\ net' = Unmounted(net) => Moves(None, TRUE, {})
         /\ \A by, call, arg :
              /\ UNCHANGED <<session, srv>> /\ Send(Request(by, call, arg))
              /\ ThingRequest(Request(by, call, arg))
              => Moves(None, FALSE, {Request(by, call, arg)})
<1>1. AreRequests(net)
  BY DEF ThingsForm
<1>2. UNCHANGED <<session, srv, net>> => Moves(None, FALSE, {})
  BY NoneLeft DEF Moves
<1>3. UNCHANGED <<session, srv>> /\ net' = Unmounted(net) => Moves(None, TRUE, {})
  BY NoneLeft DEF Moves
<1>4. ASSUME NEW by, NEW call, NEW arg, UNCHANGED <<session, srv>>,
             Send(Request(by, call, arg)), ThingRequest(Request(by, call, arg))
      PROVE  Moves(None, FALSE, {Request(by, call, arg)})
  <2>. DEFINE x == Request(by, call, arg)
  <2>1. Added(net, Append(net, x), x) /\ AreRequests(Append(net, x)) /\ Append(net, x) = net \o <<x>>
    BY <1>1, AddsRequest
  <2>2. net' = net \o <<x>>
    BY <1>4 DEF Send, Sends
  <2>3. Added(net, net', x) /\ AreRequests(net')
    BY <2>1, <2>2
  <2>4. x.state = "sent"
    BY DEF Request
  <2>. HIDE DEF x
  <2>5. ThingRequest(x)
    BY <1>4 DEF x
  <2>6. Moves(None, FALSE, {x})
    BY <1>4, <2>3, <2>4, <2>5, NoneLeft DEF Moves
  <2>. QED BY <2>6 DEF x
<1>. QED BY <1>2, <1>3, <1>4

\* The page takes request i and sends one at most.
LEMMA MovesOn ==
  ASSUME ThingsForm, NEW i \in DOMAIN net, Next1(i), net[i].state \in {"done", "error"},
         UNCHANGED <<session, srv>>, NEW closed
  PROVE  /\ net' = Rest(i, closed) => Moves(i, closed, {})
         /\ \A by, call, arg :
              /\ \/ net' = Append(Rest(i, closed), Request(by, call, arg))
                 \/ net' = Rest(i, closed) \o <<Request(by, call, arg)>>
              /\ ThingRequest(Request(by, call, arg))
              => Moves(i, closed, {Request(by, call, arg)})
<1>. DEFINE r == Rest(i, closed)
<1>1. Left(i, closed, r)
  BY LeftIs
<1>. HIDE DEF r
<1>2. AreRequests(r)
  BY <1>1 DEF Left
<1>3. net' = r => Moves(i, closed, {})
  BY <1>1 DEF Moves
<1>4. ASSUME NEW by, NEW call, NEW arg, ThingRequest(Request(by, call, arg)),
             \/ net' = Append(r, Request(by, call, arg))
             \/ net' = r \o <<Request(by, call, arg)>>
      PROVE  Moves(i, closed, {Request(by, call, arg)})
  <2>. DEFINE x == Request(by, call, arg)
  <2>1. Added(r, Append(r, x), x) /\ AreRequests(Append(r, x)) /\ Append(r, x) = r \o <<x>>
    BY <1>2, AddsRequest
  <2>3. Added(r, net', x) /\ AreRequests(net')
    BY <1>4, <2>1
  <2>4. x.state = "sent"
    BY DEF Request
  <2>. HIDE DEF x
  <2>5. ThingRequest(x)
    BY <1>4 DEF x
  <2>6. Moves(i, closed, {x})
    BY <1>1, <2>3, <2>4, <2>5 DEF Moves
  <2>. QED BY <2>6 DEF x
<1>. QED BY <1>3, <1>4 DEF r

\* The answer to an operation is taken.
EndsPlain(i, ok, closed, busy, modal) ==
  /\ ok => Ops[net[i].arg.op].then \in {"none", "local"}
  /\ Ops[net[i].arg.op].then # "always" /\ Moves(i, closed, {})
  /\ UiIs(busy, modal, IF ok THEN Applied([net[i].arg EXCEPT !.state = Answer(i).state])
                       ELSE ui.items, ui.later, ui.sel)

EndsReload(i, ok, closed, busy, modal) ==
  /\ Ops[net[i].arg.op].then = "always" \/ (ok /\ Ops[net[i].arg.op].then = "reload")
  /\ Moves(i, closed, {LoadRequest})
  /\ UiIs(BusyLoading(busy), modal, ui.items, ui.later, ui.sel)

EndsLater(i, ok, closed, busy, modal) ==
  /\ ok /\ Ops[net[i].arg.op].then = "later" /\ Moves(i, closed, {})
  /\ UiIs(busy, modal, ui.items, TRUE, ui.sel)

EndsWait(i, ok, closed) ==
  /\ ok /\ Ops[net[i].arg.op].then = "wait" /\ ~closed
  /\ Moves(i, closed, {Request("wait", ListCalls[page], NoArg)})
  /\ UiIs(BusyLoading(ui.busy), ui.modal, ui.items, ui.later, ui.sel \ {net[i].arg.of})

EndsLoad(i, ok, closed) ==
  /\ ok /\ Ops[net[i].arg.op].then = "load" /\ ~closed
  /\ Moves(i, closed, {Ask("load", net[i].arg.of)})
  /\ UiIs(ui.busy, ui.modal, ui.items, ui.later, ui.sel)

EndsPlan(i, ok, closed, busy) ==
  /\ ok /\ Ops[net[i].arg.op].then = "plan" /\ ~closed /\ Moves(i, closed, {})
  /\ UiIs(busy, [op |-> "restore", of |-> net[i].arg.of], ui.items, ui.later, ui.sel)

OpEnds(i, ok, closed, busy, modal) ==
  /\ net[i].by = "op" /\ Next1(i) /\ net[i].state = (IF ok THEN "done" ELSE "error")
  /\ UNCHANGED <<session, srv>>
  /\ closed = Closes(net[i].arg, ok) /\ busy = Released(net[i].arg, closed)
  /\ modal = IF closed THEN NoModal ELSE ui.modal
  /\ \/ EndsPlain(i, ok, closed, busy, modal) \/ EndsReload(i, ok, closed, busy, modal)
     \/ EndsLater(i, ok, closed, busy, modal) \/ EndsWait(i, ok, closed)
     \/ EndsLoad(i, ok, closed) \/ EndsPlan(i, ok, closed, busy)

LEMMA SettleIs ==
  ASSUME page \in InventoryPages, ThingsForm, NEW i \in DOMAIN net, net[i].by = "op",
         NEW a, NEW ok \in BOOLEAN, Settle(i, a, ok), Next1(i),
         net[i].state = (IF ok THEN "done" ELSE "error"),
         a = IF ok THEN [net[i].arg EXCEPT !.state = Answer(i).state] ELSE net[i].arg
  PROVE  \E closed, busy, modal : OpEnds(i, ok, closed, busy, modal)
<1>. DEFINE b == net[i].arg
            closed == Closes(b, ok)
            busy == Released(b, closed)
            modal == IF closed THEN NoModal ELSE ui.modal
            then == IF ok \/ Ops[b.op].then = "always" THEN Ops[b.op].then ELSE "none"
            idle == [ui EXCEPT !.busy = busy, !.modal = modal]
<1>1. DOMAIN b = OpArg /\ b.op \in DOMAIN Ops /\ Entry(page, b.op, Ops[b.op])
  <2>1. ThingRequest(net[i])
    BY DEF ThingsForm
  <2>. QED BY <2>1, TheTables DEF ThingRequest, Reads3
<1>2. a.op = b.op /\ a.of = b.of /\ a.mounted = b.mounted
  BY <1>1 DEF OpArg
<1>3. Closes(a, ok) = closed /\ Released(a, closed) = busy
  BY <1>2 DEF Closes, Released
<1>4. /\ DOMAIN idle = DOMAIN ui /\ idle.busy = busy /\ idle.modal = modal
      /\ idle.items = ui.items /\ idle.later = ui.later /\ idle.sel = ui.sel /\ idle.filter = ui.filter
  BY DEF ThingsForm
<1>. HIDE DEF busy, modal
<1>6. /\ then \in {"none", "local", "reload", "always", "later", "wait", "load", "plan"}
      /\ ok => then = Ops[b.op].then
      /\ ~ok => then = IF Ops[b.op].then = "always" THEN "always" ELSE "none"
  BY <1>1 DEF Entry
<1>. DEFINE C == Closes(a, ok)
            R == IF C THEN Unmounted(RemoveAt(net, i)) ELSE RemoveAt(net, i)
            T == IF ok \/ Ops[a.op].then = "always" THEN Ops[a.op].then ELSE "none"
            I == [ui EXCEPT !.busy = Released(a, C), !.modal = IF C THEN NoModal ELSE @]
<1>5. C = closed /\ R = Rest(i, closed) /\ T = then /\ I = idle
  <2>1. C = closed
    BY <1>3
  <2>2. Released(a, C) = busy
    BY <1>3, <2>1
  <2>3. T = then
    <3>1. Ops[a.op] = Ops[b.op]
      BY <1>2
    <3>. HIDE DEF b
    <3>. QED BY <3>1
  <2>. HIDE DEF C, closed
  <2>4. (IF C THEN NoModal ELSE ui.modal) = modal
    BY <2>1 DEF modal
  <2>5. I = [ui EXCEPT !.busy = busy, !.modal = modal]
    BY <2>2, <2>4 DEF I
  <2>. QED BY <2>1, <2>3, <2>5 DEF Rest
<1>7a. (CASE T \in {"none", "local"} ->
                net' = R /\ PageIs(IF ok THEN [I EXCEPT !.items = Applied(a)] ELSE I)
           [] T \in {"reload", "always"} ->
                net' = Append(R, LoadRequest) /\ PageIs([I EXCEPT !.busy = BusyLoading(@)])
           [] T = "later" -> net' = R /\ PageIs([I EXCEPT !.later = TRUE])
           [] T = "wait"  ->
                /\ net' = Append(R, Request("wait", ListCalls[page], NoArg))
                /\ PageIs([ui EXCEPT !.sel = @ \ {a.of}, !.busy = BusyLoading(@)])
           [] T = "load"  -> net' = Append(R, Ask("load", a.of)) /\ PageIs(ui)
           [] T = "plan"  ->
                net' = R /\ PageIs([I EXCEPT !.modal = [op |-> "restore", of |-> a.of]]))
  BY DEF Settle
<1>. HIDE DEF C, R, T, I
<1>7. /\ then \in {"none", "local"} =>
           net' = Rest(i, closed) /\ PageIs(IF ok THEN [idle EXCEPT !.items = Applied(a)] ELSE idle)
      /\ then \in {"reload", "always"} =>
           /\ net' = Append(Rest(i, closed), LoadRequest)
           /\ PageIs([idle EXCEPT !.busy = BusyLoading(@)])
      /\ then = "later" => net' = Rest(i, closed) /\ PageIs([idle EXCEPT !.later = TRUE])
      /\ then = "wait" =>
           /\ net' = Append(Rest(i, closed), Request("wait", ListCalls[page], NoArg))
           /\ PageIs([ui EXCEPT !.sel = @ \ {a.of}, !.busy = BusyLoading(@)])
      /\ then = "load" => net' = Append(Rest(i, closed), Ask("load", a.of)) /\ PageIs(ui)
      /\ then = "plan" =>
           net' = Rest(i, closed) /\ PageIs([idle EXCEPT !.modal = [op |-> "restore", of |-> a.of]])
  <2>. HIDE DEF closed, then, idle
  <2>. QED BY <1>5, <1>7a
<1>. HIDE DEF then
<1>8. then \in {"wait", "load", "plan"} => ~closed
  <2>1. then \in {"wait", "load", "plan"} => ok /\ Ops[b.op].closes \notin {"ok", "end"}
    BY <1>1, <1>6 DEF Entry
  <2>. QED BY <2>1 DEF Closes
<1>. HIDE DEF closed, idle
<1>. DEFINE J == net[i].by = "op" /\ Next1(i) /\ net[i].state = (IF ok THEN "done" ELSE "error")
                 /\ closed = Closes(net[i].arg, ok) /\ busy = Released(net[i].arg, closed)
                 /\ modal = IF closed THEN NoModal ELSE ui.modal
<1>9. J
  BY DEF closed, busy, modal
<1>16. UNCHANGED <<session, srv>> =>
         /\ net' = Rest(i, closed) => Moves(i, closed, {})
         /\ net' = Append(Rest(i, closed), LoadRequest) => Moves(i, closed, {LoadRequest})
         /\ net' = Append(Rest(i, closed), Request("wait", ListCalls[page], NoArg))
            => Moves(i, closed, {Request("wait", ListCalls[page], NoArg)})
         /\ net' = Append(Rest(i, closed), Ask("load", b.of)) /\ then = "load"
            => Moves(i, closed, {Ask("load", b.of)})
  <2>. SUFFICES ASSUME UNCHANGED <<session, srv>>
       PROVE  /\ net' = Rest(i, closed) => Moves(i, closed, {})
              /\ net' = Append(Rest(i, closed), LoadRequest) => Moves(i, closed, {LoadRequest})
              /\ net' = Append(Rest(i, closed), Request("wait", ListCalls[page], NoArg))
                 => Moves(i, closed, {Request("wait", ListCalls[page], NoArg)})
              /\ net' = Append(Rest(i, closed), Ask("load", b.of)) /\ then = "load"
                 => Moves(i, closed, {Ask("load", b.of)})
    OBVIOUS
  <2>1. /\ net' = Rest(i, closed) => Moves(i, closed, {})
        /\ \A by, call, arg :
             /\ net' = Append(Rest(i, closed), Request(by, call, arg))
             /\ ThingRequest(Request(by, call, arg))
             => Moves(i, closed, {Request(by, call, arg)})
    BY MovesOn
  <2>2. ThingRequest(LoadRequest) /\ ThingRequest(Request("wait", ListCalls[page], NoArg))
    <3>1. ThingRequest(Request("wait", ListCalls[page], NoArg))
      BY DEF Request, ThingRequest, Reads3
    <3>. QED BY <3>1, ThingsAsk
  <2>3. then = "load" => ThingRequest(Ask("load", b.of))
    <3>1. then = "load" => page = "images" /\ b.of \in Things
      <4>1. ThingRequest(net[i]) /\ net[i].by = "op"
        BY DEF ThingsForm
      <4>. QED BY <1>1, <1>6, <4>1 DEF Entry, ThingRequest, Reads3
    <3>. QED BY <3>1, ThingsAsk, TheTables
  <2>5. ASSUME net' = Append(Rest(i, closed), LoadRequest)
        PROVE  Moves(i, closed, {LoadRequest})
    BY <2>1, <2>2, <2>5 DEF LoadRequest
  <2>6. ASSUME net' = Append(Rest(i, closed), Request("wait", ListCalls[page], NoArg))
        PROVE  Moves(i, closed, {Request("wait", ListCalls[page], NoArg)})
    BY <2>1, <2>2, <2>6
  <2>7. ASSUME net' = Append(Rest(i, closed), Ask("load", b.of)), then = "load"
        PROVE  Moves(i, closed, {Ask("load", b.of)})
    BY <2>1, <2>3, <2>7 DEF Ask
  <2>. QED BY <2>1, <2>5, <2>6, <2>7
<1>10. CASE then \in {"none", "local"}
  <2>1. net' = Rest(i, closed) /\ PageIs(IF ok THEN [idle EXCEPT !.items = Applied(a)] ELSE idle)
    BY <1>7, <1>10
  <2>2. UiIs(busy, modal, IF ok THEN Applied(a) ELSE ui.items, ui.later, ui.sel)
    BY <1>4, <2>1 DEF UiIs, PageIs, ThingsForm
  <2>3. /\ ok => Ops[net[i].arg.op].then \in {"none", "local"}
        /\ Ops[net[i].arg.op].then # "always"
    BY <1>6, <1>10
  <2>4. EndsPlain(i, ok, closed, busy, modal)
    BY <2>1, <2>2, <2>3, <1>16 DEF EndsPlain, PageIs
  <2>. QED BY <1>9, <2>1, <2>4 DEF OpEnds, PageIs
<1>11. CASE then \in {"reload", "always"}
  <2>1. net' = Append(Rest(i, closed), LoadRequest) /\ PageIs([idle EXCEPT !.busy = BusyLoading(@)])
    BY <1>7, <1>11
  <2>2. UiIs(BusyLoading(busy), modal, ui.items, ui.later, ui.sel)
    BY <1>4, <2>1 DEF UiIs, PageIs, ThingsForm
  <2>3. Ops[net[i].arg.op].then = "always" \/ (ok /\ Ops[net[i].arg.op].then = "reload")
    BY <1>6, <1>11
  <2>4. EndsReload(i, ok, closed, busy, modal)
    BY <2>1, <2>2, <2>3, <1>16 DEF EndsReload, PageIs
  <2>. QED BY <1>9, <2>1, <2>4 DEF OpEnds, PageIs
<1>12. CASE then = "later"
  <2>1. net' = Rest(i, closed) /\ PageIs([idle EXCEPT !.later = TRUE])
    BY <1>7, <1>12
  <2>2. UiIs(busy, modal, ui.items, TRUE, ui.sel)
    BY <1>4, <2>1 DEF UiIs, PageIs, ThingsForm
  <2>3. EndsLater(i, ok, closed, busy, modal)
    BY <1>6, <1>12, <2>1, <2>2, <1>16 DEF EndsLater, PageIs
  <2>. QED BY <1>9, <2>1, <2>3 DEF OpEnds, PageIs
<1>13. CASE then = "wait"
  <2>1. /\ net' = Append(Rest(i, closed), Request("wait", ListCalls[page], NoArg))
        /\ PageIs([ui EXCEPT !.sel = @ \ {b.of}, !.busy = BusyLoading(@)])
    BY <1>2, <1>7, <1>13
  <2>2. UiIs(BusyLoading(ui.busy), ui.modal, ui.items, ui.later, ui.sel \ {b.of})
    BY <2>1 DEF UiIs, PageIs, ThingsForm
  <2>3. EndsWait(i, ok, closed)
    BY <1>6, <1>8, <1>13, <2>1, <2>2, <1>16 DEF EndsWait, PageIs
  <2>. QED BY <1>9, <2>1, <2>3 DEF OpEnds, PageIs
<1>14. CASE then = "load"
  <2>1. net' = Append(Rest(i, closed), Ask("load", b.of)) /\ PageIs(ui)
    BY <1>2, <1>7, <1>14
  <2>2. UiIs(ui.busy, ui.modal, ui.items, ui.later, ui.sel)
    BY <2>1 DEF UiIs, PageIs
  <2>3. EndsLoad(i, ok, closed)
    BY <1>6, <1>8, <1>14, <2>1, <2>2, <1>16 DEF EndsLoad, PageIs
  <2>. QED BY <1>9, <2>1, <2>3 DEF OpEnds, PageIs
<1>15. CASE then = "plan"
  <2>1. net' = Rest(i, closed) /\ PageIs([idle EXCEPT !.modal = [op |-> "restore", of |-> b.of]])
    BY <1>2, <1>7, <1>15
  <2>2. UiIs(busy, [op |-> "restore", of |-> b.of], ui.items, ui.later, ui.sel)
    BY <1>4, <2>1 DEF UiIs, PageIs, ThingsForm
  <2>3. EndsPlan(i, ok, closed, busy)
    BY <1>6, <1>8, <1>15, <2>1, <2>2, <1>16 DEF EndsPlan, PageIs
  <2>. QED BY <1>9, <2>1, <2>3 DEF OpEnds, PageIs
<1>. QED BY <1>6, <1>10, <1>11, <1>12, <1>13, <1>14, <1>15

LEMMA OpSettlesAs ==
  ASSUME page \in InventoryPages, ThingsForm, OpSettles
  PROVE  \E i \in DOMAIN net, ok \in BOOLEAN : \E closed, busy, modal : OpEnds(i, ok, closed, busy, modal)
<1>1. PICK i \in DOMAIN net :
        \/ Arrived(i, "op") /\ Settle(i, [net[i].arg EXCEPT !.state = Answer(i).state], TRUE)
        \/ Failed(i, "op") /\ Settle(i, net[i].arg, FALSE)
  BY DEF OpSettles
<1>2. CASE Arrived(i, "op") /\ Settle(i, [net[i].arg EXCEPT !.state = Answer(i).state], TRUE)
  BY <1>2, SettleIs DEF Arrived
<1>3. CASE Failed(i, "op") /\ Settle(i, net[i].arg, FALSE)
  BY <1>3, SettleIs DEF Failed
<1>. QED BY <1>1, <1>2, <1>3

\* What a step of one of these pages is.
Serves1 == \E i \in DOMAIN net : \E st, v : Serving(i, st, v)
Clicks  == \E o \in DOMAIN Ops, x \in Things : RunsOp(o, x) \/ OpensModal(o, x)
Answers == \E i \in DOMAIN net, ok \in BOOLEAN : \E closed, busy, modal :
             OpEnds(i, ok, closed, busy, modal)
Turns   == (\E x : StartsRun(x)) \/ \E i \in DOMAIN net : EndsRun(i) \/ \E x : GoesOn(i, x)
Rest1   == AsksList \/ ClosesForm \/ Selects \/ \E i \in DOMAIN net : TakesList(i)

LEMMA ListMoves ==
  ASSUME page \in InventoryPages, ThingsForm, Refresh \/ LaterFires \/ Loaded \/ WaitLoaded
  PROVE  Rest1
<1>1. CASE Refresh \/ LaterFires
  <2>1. PICK later \in {ui.later, FALSE} :
          /\ UNCHANGED <<session, srv>> /\ Send(LoadRequest)
          /\ UiIs(BusyLoading(ui.busy), ui.modal, ui.items, later, ui.sel)
    BY <1>1 DEF Refresh, LaterFires, Asks, PageIs, LoadRequest, UiIs, ThingsForm
  <2>2. Moves(None, FALSE, {LoadRequest})
    BY <2>1, MovesAlone, ThingsAsk DEF LoadRequest
  <2>. QED BY <2>1, <2>2 DEF AsksList, Rest1
<1>2. CASE Loaded \/ WaitLoaded
  <2>1. PICK by \in Reads3, i \in DOMAIN net :
          /\ \/ Arrived(i, by) /\ HandledThen(i, <<>>)
             \/ Failed(i, by) /\ Handled(i)
          /\ UNCHANGED <<session, srv>>
          /\ UiIs(IF by = "load" THEN ui.busy \ {Loading} ELSE Freed(ui.busy \ {Loading}, "row"),
                  ui.modal, IF net[i].state = "done" THEN Head(net[i].reply) ELSE ui.items,
                  ui.later, ui.sel)
    <3>1. CASE Loaded
      <4>1. CASE Then("load", LAMBDA items : [ui EXCEPT !.items = items, !.busy = @ \ {Loading}])
        BY <4>1 DEF Then, ThenAsks, Arrived, PageIs, UiIs, ThingsForm, Answer, Reads3
      <4>2. CASE Catch("load", [ui EXCEPT !.busy = @ \ {Loading}])
        BY <4>2 DEF Catch, Failed, PageIs, UiIs, ThingsForm, Reads3
      <4>. QED BY <3>1, <4>1, <4>2 DEF Loaded
    <3>2. CASE WaitLoaded
      <4>1. CASE Then("wait", LAMBDA items : [ui EXCEPT !.items = items,
                                                        !.busy = Freed(@ \ {Loading}, "row")])
        BY <4>1 DEF Then, ThenAsks, Arrived, PageIs, UiIs, ThingsForm, Answer, Reads3
      <4>2. CASE Catch("wait", [ui EXCEPT !.busy = Freed(@ \ {Loading}, "row")])
        BY <4>2 DEF Catch, Failed, PageIs, UiIs, ThingsForm, Reads3
      <4>. QED BY <3>2, <4>1, <4>2 DEF WaitLoaded
    <3>. QED BY <1>2, <3>1, <3>2
  <2>2. net[i].by = by /\ net[i].state \in {"done", "error"} /\ Next1(i)
    BY <2>1 DEF Arrived, Failed
  <2>3. net' = Rest(i, FALSE)
    <3>1. RemoveAt(net, i) \o <<>> = RemoveAt(net, i)
      BY TakesOne DEF ThingsForm
    <3>. QED BY <2>1, <3>1 DEF Handled, HandledThen, Rest
  <2>4. Moves(i, FALSE, {})
    BY <2>1, <2>2, <2>3, MovesOn
  <2>. QED BY <2>1, <2>2, <2>4 DEF TakesList, Rest1
<1>. QED BY <1>1, <1>2

LEMMA ClickMoves ==
  ASSUME page \in InventoryPages, ThingsForm, ClickOp \/ ConfirmOp
  PROVE  Clicks
<1>1. ASSUME NEW o \in DOMAIN Ops, NEW x \in Things, RunOp(o, x),
             \/ Ops[o].asks = "no" /\ ~Blocked(o, x)
             \/ ui.modal # NoModal /\ ui.modal.op = o /\ (Ops[o].asks = "form" => ~Blocked(o, x))
      PROVE  RunsOp(o, x)
  <2>. DEFINE r == Ask(o, x)
  <2>1. UNCHANGED <<session, srv>> /\ Send(Ask(o, x))
    BY <1>1 DEF RunOp, Asks, PageIs, Ask
  <2>2. UiIs(Taken(o, x), IF Ops[o].closes = "click" THEN NoModal ELSE ui.modal,
             ui.items, ui.later, ui.sel)
    <3>1. ui' = [ui EXCEPT !.busy = Taken(o, x),
                           !.modal = IF Ops[o].closes = "click" THEN NoModal ELSE @]
      BY <1>1 DEF RunOp, Asks, PageIs
    <3>. QED BY <3>1 DEF UiIs, ThingsForm
  <2>3. Moves(None, FALSE, {Ask(o, x)})
    BY <2>1, MovesAlone, ThingsAsk DEF Ask
  <2>. QED BY <1>1, <2>2, <2>3 DEF RunsOp
<1>2. CASE ConfirmOp
  <2>1. ui.modal # NoModal /\ ui.modal.op \in DOMAIN Ops /\ ui.modal.of \in Things
    BY <1>2 DEF ConfirmOp, ThingsForm
  <2>2. RunOp(ui.modal.op, ui.modal.of)
        /\ (Ops[ui.modal.op].asks = "form" => ~Blocked(ui.modal.op, ui.modal.of))
    BY <1>2 DEF ConfirmOp
  <2>. QED BY <1>1, <2>1, <2>2 DEF Clicks
<1>3. CASE ClickOp
  <2>1. PICK o \in DOMAIN Ops : \E x \in (IF Ops[o].from = Anything THEN Someone ELSE Things) :
          /\ OnPage(o, x)
          /\ CASE Ops[o].asks = "no"      -> ~Blocked(o, x) /\ RunOp(o, x)
               [] Ops[o].asks = "confirm" -> ~Blocked(o, x)
                                             /\ Becomes([ui EXCEPT !.modal = [op |-> o, of |-> x]])
               [] Ops[o].asks = "form"    -> Becomes([ui EXCEPT !.modal = [op |-> o, of |-> x]])
    BY <1>3 DEF ClickOp
  <2>2. PICK x \in Things :
          /\ OnPage(o, x)
          /\ CASE Ops[o].asks = "no"      -> ~Blocked(o, x) /\ RunOp(o, x)
               [] Ops[o].asks = "confirm" -> ~Blocked(o, x)
                                             /\ Becomes([ui EXCEPT !.modal = [op |-> o, of |-> x]])
               [] Ops[o].asks = "form"    -> Becomes([ui EXCEPT !.modal = [op |-> o, of |-> x]])
    <3>1. Someone \subseteq Things
      BY InventoryAssumption DEF Someone
    <3>2. (IF Ops[o].from = Anything THEN Someone ELSE Things) \subseteq Things
      BY <3>1
    <3>. QED BY <2>1, <3>2
  <2>3. Entry(page, o, Ops[o])
    BY TheTables
  <2>4. CASE Ops[o].asks = "no"
    BY <1>1, <2>2, <2>4 DEF Clicks
  <2>5. CASE Ops[o].asks # "no"
    <3>1. Becomes([ui EXCEPT !.modal = [op |-> o, of |-> x]])
      BY <2>2, <2>3, <2>5 DEF Entry
    <3>2. ui' = [ui EXCEPT !.modal = [op |-> o, of |-> x]] /\ UNCHANGED <<session, srv, net>>
      BY <3>1 DEF Becomes, PageIs
    <3>3. UiIs(ui.busy, [op |-> o, of |-> x], ui.items, ui.later, ui.sel)
      BY <3>2 DEF UiIs, ThingsForm
    <3>4. Moves(None, FALSE, {}) /\ Uncovered
      BY <2>2, <3>2, MovesAlone DEF OnPage
    <3>. QED BY <2>2, <2>5, <3>3, <3>4 DEF OpensModal, Clicks
  <2>. QED BY <2>4, <2>5
<1>. QED BY <1>2, <1>3

LEMMA FormMoves ==
  ASSUME page \in InventoryPages, ThingsForm, CancelModal \/ PickState \/ Select
  PROVE  Rest1
<1>1. CASE CancelModal
  <2>1. UNCHANGED <<session, srv>> /\ net' = Unmounted(net)
        /\ ui' = [ui EXCEPT !.modal = NoModal, !.busy = Freed(@, "modal")]
    BY <1>1 DEF CancelModal, PageIs
  <2>2. UiIs(Freed(ui.busy, "modal"), NoModal, ui.items, ui.later, ui.sel)
    BY <2>1 DEF UiIs, ThingsForm
  <2>3. Moves(None, TRUE, {})
    BY <2>1, MovesAlone
  <2>. QED BY <1>1, <2>2, <2>3 DEF CancelModal, ClosesForm, Rest1
<1>2. CASE PickState \/ Select
  <2>1. PICK u : Becomes(u) /\ \/ \E f : u = [ui EXCEPT !.filter = f]
                               \/ \E s \in SUBSET Things : u = [ui EXCEPT !.sel = s]
    <3>1. CASE PickState
      BY <3>1 DEF PickState
    <3>2. CASE Select
      <4>1. Filtered \subseteq Things /\ ui.sel \subseteq Things
        BY DEF Filtered, Listed, ThingsForm
      <4>2. CASE \E x \in Filtered :
                   Becomes([ui EXCEPT !.sel = IF x \in @ THEN @ \ {x} ELSE @ \cup {x}])
        <5>1. PICK x \in Filtered :
                Becomes([ui EXCEPT !.sel = IF x \in @ THEN @ \ {x} ELSE @ \cup {x}])
          BY <4>2
        <5>2. (IF x \in ui.sel THEN ui.sel \ {x} ELSE ui.sel \cup {x}) \in SUBSET Things
          BY <4>1, <5>1
        <5>. QED BY <5>1, <5>2
      <4>3. CASE Becomes([ui EXCEPT !.sel = IF Cardinality(@) = Cardinality(Filtered)
                                            THEN {} ELSE Filtered])
        <5>2. (IF Cardinality(ui.sel) = Cardinality(Filtered) THEN {} ELSE Filtered) \in SUBSET Things
          BY <4>1
        <5>. QED BY <4>3, <5>2
      <4>. QED BY <3>2, <4>2, <4>3 DEF Select
    <3>. QED BY <1>2, <3>1, <3>2
  <2>2. ui' = u /\ UNCHANGED <<session, srv, net>>
    BY <2>1 DEF Becomes, PageIs
  <2>3. \E sel \in SUBSET Things : UiIs(ui.busy, ui.modal, ui.items, ui.later, sel)
    <3>1. CASE \E f : u = [ui EXCEPT !.filter = f]
      BY <2>2, <3>1 DEF UiIs, ThingsForm
    <3>2. CASE \E s \in SUBSET Things : u = [ui EXCEPT !.sel = s]
      BY <2>2, <3>2 DEF UiIs, ThingsForm
    <3>. QED BY <2>1, <3>1, <3>2
  <2>4. Moves(None, FALSE, {})
    BY <2>2, MovesAlone
  <2>. QED BY <2>3, <2>4 DEF Selects, Rest1
<1>. QED BY <1>1, <1>2

LEMMA RunStarts ==
  ASSUME page \in InventoryPages, ThingsForm, Bulk \/ Stack
  PROVE  Turns
<1>1. PICK by \in Runs, o \in {"start", "stop", "restart"}, S \in SUBSET Things :
        /\ S # {} /\ page = "containers" /\ UNCHANGED <<session, srv>>
        /\ Send(Request(by, Ops[o].call,
                        [Argument(o, Head(InTurnOf(S))) EXCEPT !.state = Tail(InTurnOf(S))]))
        /\ UiIs(IF by = "stack" THEN Taken(o, Head(InTurnOf(S))) ELSE ui.busy,
                ui.modal, ui.items, ui.later, ui.sel)
  <2>1. CASE Bulk
    <3>1. PICK o \in {"start", "stop", "restart"} :
            /\ ui.sel # {} /\ page = "containers"
            /\ Asks(ui, "bulk", Ops[o].call,
                    [Argument(o, Head(InTurnOf(ui.sel))) EXCEPT !.state = Tail(InTurnOf(ui.sel))])
      BY <2>1 DEF Bulk
    <3>2. UNCHANGED <<session, srv, ui>> /\ ui.sel \in SUBSET Things
      BY <3>1 DEF Asks, PageIs, ThingsForm
    <3>3. UiIs(ui.busy, ui.modal, ui.items, ui.later, ui.sel)
      BY <3>2 DEF UiIs
    <3>. QED BY <3>1, <3>2, <3>3 DEF Asks, Runs
  <2>2. CASE Stack
    <3>1. PICK o \in {"start", "stop", "restart"} :
            /\ Filtered # {} /\ page = "containers"
            /\ Asks([ui EXCEPT !.busy = Taken(o, Head(InTurnOf(Filtered)))], "stack", Ops[o].call,
                    [Argument(o, Head(InTurnOf(Filtered))) EXCEPT !.state = Tail(InTurnOf(Filtered))])
      BY <2>2 DEF Stack
    <3>. DEFINE h == Head(InTurnOf(Filtered))
                b == Taken(o, h)
    <3>2. UNCHANGED <<session, srv>> /\ Filtered \in SUBSET Things /\ ui' = [ui EXCEPT !.busy = b]
      BY <3>1 DEF Asks, PageIs, Filtered, Listed
    <3>. HIDE DEF b
    <3>3. UiIs(b, ui.modal, ui.items, ui.later, ui.sel)
      BY <3>2 DEF UiIs, ThingsForm
    <3>. HIDE DEF h
    <3>4. /\ Send(Request("stack", Ops[o].call,
                          [Argument(o, Head(InTurnOf(Filtered))) EXCEPT !.state = Tail(InTurnOf(Filtered))]))
          /\ "stack" \in Runs
      BY <3>1 DEF Asks, Runs
    <3>5. UiIs(IF "stack" = "stack" THEN Taken(o, Head(InTurnOf(Filtered))) ELSE ui.busy,
               ui.modal, ui.items, ui.later, ui.sel)
      BY <3>3 DEF b, h
    <3>. QED BY <3>1, <3>2, <3>4, <3>5
  <2>. QED BY <2>1, <2>2
<1>. DEFINE h == Head(InTurnOf(S))
            s == Tail(InTurnOf(S))
            a == [Argument(o, h) EXCEPT !.state = s]
            x == Request(by, Ops[o].call, a)
<1>2. h \in Things /\ s \in Seq(Things)
  BY <1>1, InTurn1
<1>. HIDE DEF h, s
<1>3. /\ DOMAIN Argument(o, h) = OpArg /\ Argument(o, h).op = o /\ Argument(o, h).of = h
  BY DEF Argument, OpArg
<1>4. DOMAIN a = OpArg /\ a.op = o /\ a.of = h /\ a.state = s
  BY <1>3 DEF OpArg
<1>. HIDE DEF a
<1>5. x.by = by /\ x.arg = a /\ x.state = "sent"
  BY ThingsAsk
<1>6. UNCHANGED <<session, srv>> /\ Send(x)
  BY <1>1 DEF x, a, h, s
<1>. HIDE DEF x
<1>7. ThingRequest(x)
  BY <1>1, <1>2, <1>4, <1>5 DEF ThingRequest, Runs
<1>8. Moves(None, FALSE, {x})
  BY <1>6, <1>7, MovesAlone DEF x
<1>9. UiIs(IF x.by = "stack" THEN Taken(x.arg.op, x.arg.of) ELSE ui.busy,
           ui.modal, ui.items, ui.later, ui.sel)
  BY <1>1, <1>4, <1>5 DEF h
<1>. QED BY <1>1, <1>5, <1>8, <1>9 DEF StartsRun, Turns

LEMMA RunTurns ==
  ASSUME page \in InventoryPages, ThingsForm, BulkSettles \/ StackSettles
  PROVE  Turns
<1>1. PICK i \in DOMAIN net :
        /\ net[i].by \in Runs /\ net[i].state \in {"done", "error"} /\ Next1(i)
        /\ UNCHANGED <<session, srv>>
        /\ \/ /\ net[i].arg.state = <<>> /\ Handled(i)
              /\ \E later \in BOOLEAN, sel \in SUBSET Things :
                   /\ ui.later \/ net[i].by = "bulk" \/ net[i].state = "done" => later
                   /\ UiIs(IF net[i].by = "stack" THEN Freed(ui.busy, "row") ELSE ui.busy,
                           ui.modal, ui.items, later, sel)
           \/ /\ net[i].arg.state # <<>>
              /\ HandledThen(i, <<Request(net[i].by, net[i].call,
                   [net[i].arg EXCEPT !.of = Head(net[i].arg.state), !.state = Tail(net[i].arg.state)])>>)
              /\ \E later \in BOOLEAN :
                   /\ ui.later \/ (net[i].by = "stack" /\ net[i].state = "done") => later
                   /\ UiIs(IF net[i].by = "stack" THEN Taken(net[i].arg.op, Head(net[i].arg.state))
                           ELSE ui.busy, ui.modal, ui.items, later, ui.sel)
  <2>1. CASE BulkSettles
    <3>1. PICK i \in DOMAIN net :
            /\ net[i].by = "bulk" /\ net[i].state \in {"done", "error"} /\ Next1(i)
            /\ IF net[i].arg.state = <<>>
               THEN Handled(i) /\ PageIs([ui EXCEPT !.sel = {}, !.later = TRUE])
               ELSE /\ HandledThen(i, <<Request("bulk", net[i].call,
                         [net[i].arg EXCEPT !.of = Head(net[i].arg.state),
                                            !.state = Tail(net[i].arg.state)])>>)
                    /\ PageIs(ui)
      BY <2>1 DEF BulkSettles
    <3>2. CASE net[i].arg.state = <<>>
      <4>1. Handled(i) /\ UNCHANGED <<session, srv>> /\ UiIs(ui.busy, ui.modal, ui.items, TRUE, {})
        BY <3>1, <3>2 DEF PageIs, UiIs, ThingsForm
      <4>. QED BY <3>1, <3>2, <4>1 DEF Runs
    <3>3. CASE net[i].arg.state # <<>>
      <4>1. UNCHANGED <<session, srv>> /\ UiIs(ui.busy, ui.modal, ui.items, ui.later, ui.sel)
        BY <3>1, <3>3 DEF PageIs, UiIs
      <4>2. ui.later \in BOOLEAN
        BY DEF ThingsForm
      <4>. QED BY <3>1, <3>3, <4>1, <4>2 DEF Runs
    <3>. QED BY <3>2, <3>3
  <2>2. CASE StackSettles
    <3>. DEFINE later(i) == ui.later \/ net[i].state = "done"
    <3>1. PICK i \in DOMAIN net :
            /\ net[i].by = "stack" /\ net[i].state \in {"done", "error"} /\ Next1(i)
            /\ IF net[i].arg.state = <<>>
               THEN Handled(i) /\ PageIs([ui EXCEPT !.busy = Freed(@, "row"), !.later = later(i)])
               ELSE /\ HandledThen(i, <<Request("stack", net[i].call,
                         [net[i].arg EXCEPT !.of = Head(net[i].arg.state),
                                            !.state = Tail(net[i].arg.state)])>>)
                    /\ PageIs([ui EXCEPT !.busy = Taken(net[i].arg.op, Head(net[i].arg.state)),
                                         !.later = later(i)])
      BY <2>2 DEF StackSettles
    <3>2. later(i) \in BOOLEAN /\ (ui.later \/ net[i].state = "done" => later(i))
      BY DEF ThingsForm
    <3>. HIDE DEF later
    <3>3. CASE net[i].arg.state = <<>>
      <4>1. /\ Handled(i) /\ UNCHANGED <<session, srv>> /\ ui.sel \in SUBSET Things
            /\ UiIs(Freed(ui.busy, "row"), ui.modal, ui.items, later(i), ui.sel)
        BY <3>1, <3>3 DEF PageIs, UiIs, ThingsForm
      <4>. QED BY <3>1, <3>2, <3>3, <4>1 DEF Runs
    <3>4. CASE net[i].arg.state # <<>>
      <4>. DEFINE b == Taken(net[i].arg.op, Head(net[i].arg.state))
      <4>1. UNCHANGED <<session, srv>> /\ ui' = [ui EXCEPT !.busy = b, !.later = later(i)]
        BY <3>1, <3>4 DEF PageIs
      <4>. HIDE DEF b
      <4>2. UiIs(b, ui.modal, ui.items, later(i), ui.sel)
        BY <4>1 DEF UiIs, ThingsForm
      <4>. QED BY <3>1, <3>2, <3>4, <4>1, <4>2 DEF Runs, b
    <3>. QED BY <3>3, <3>4
  <2>. QED BY <2>1, <2>2
<1>2. CASE net[i].arg.state = <<>>
  <2>1. net' = Rest(i, FALSE)
    BY <1>1, <1>2 DEF Handled, Rest
  <2>2. Moves(i, FALSE, {})
    BY <1>1, <2>1, MovesOn
  <2>. QED BY <1>1, <1>2, <2>2 DEF EndsRun, Turns
<1>3. CASE net[i].arg.state # <<>>
  <2>. DEFINE b == net[i].arg
              h == Head(b.state)
              s == Tail(b.state)
              a == [b EXCEPT !.of = h, !.state = s]
              x == Request(net[i].by, net[i].call, a)
  <2>1. /\ ThingRequest(net[i]) /\ DOMAIN b = OpArg /\ b.op \in {"start", "stop", "restart"}
        /\ page = "containers" /\ b.state \in Seq(Things)
    BY <1>1 DEF ThingsForm, ThingRequest, Runs, Reads3
  <2>2. h \in Things /\ s \in Seq(Things)
    BY <1>3, <2>1
  <2>3. net' = RemoveAt(net, i) \o <<x>>
    BY <1>1, <1>3 DEF HandledThen
  <2>. HIDE DEF h, s
  <2>4. DOMAIN a = OpArg /\ a.op = b.op /\ a.of = h /\ a.state = s
    BY <2>1 DEF OpArg
  <2>. HIDE DEF a
  <2>5. x.by = net[i].by /\ x.arg = a /\ x.state = "sent"
    BY ThingsAsk
  <2>. HIDE DEF x
  <2>6. ThingRequest(x)
    BY <1>1, <2>1, <2>2, <2>4, <2>5 DEF ThingRequest, Runs
  <2>7. Moves(i, FALSE, {x})
    <3>1. net' = Rest(i, FALSE) \o <<x>>
      BY <2>3 DEF Rest
    <3>. QED BY <1>1, <2>6, <3>1, MovesOn DEF x
  <2>8. \E later \in BOOLEAN :
          /\ ui.later \/ (x.by = "stack" /\ net[i].state = "done") => later
          /\ UiIs(IF x.by = "stack" THEN Taken(x.arg.op, x.arg.of) ELSE ui.busy,
                  ui.modal, ui.items, later, ui.sel)
    BY <1>1, <1>3, <2>4, <2>5 DEF h
  <2>. QED BY <1>1, <2>5, <2>7, <2>8 DEF GoesOn, Turns
<1>. QED BY <1>2, <1>3

\* A step of one of these pages is one of these.
ThingsMove == Serves1 \/ Clicks \/ Answers \/ Turns \/ Rest1

LEMMA ThingsMoves ==
  ASSUME page \in InventoryPages, ThingsForm, InventoryNext
  PROVE  ThingsMove
<1>1. CASE \/ ServeOp \/ ServeBulk \/ ServeStack \/ Forbid \/ Fault
           \/ \E by \in {"load", "wait"} : Tells(by, srv.items)
  BY <1>1, ThingsServed DEF ThingsMove, Serves1
<1>2. CASE Refresh \/ LaterFires \/ Loaded \/ WaitLoaded
  BY <1>2, ListMoves DEF ThingsMove
<1>3. CASE ClickOp \/ ConfirmOp
  BY <1>3, ClickMoves DEF ThingsMove
<1>4. CASE CancelModal \/ PickState \/ Select
  BY <1>4, FormMoves DEF ThingsMove
<1>5. CASE OpSettles
  BY <1>5, OpSettlesAs DEF ThingsMove, Answers
<1>6. CASE Bulk \/ Stack
  BY <1>6, RunStarts DEF ThingsMove
<1>7. CASE BulkSettles \/ StackSettles
  BY <1>7, RunTurns DEF ThingsMove
<1>. QED BY <1>1, <1>2, <1>3, <1>4, <1>5, <1>6, <1>7 DEF InventoryNext

\* What is in flight after such a step.
LEMMA MovesNet ==
  ASSUME NEW i, NEW closed, NEW xs, Moves(i, closed, xs)
  PROVE  /\ AreRequests(net')
         /\ \E rest :
              /\ Left(i, closed, rest)
              /\ \/ xs = {} /\ net' = rest
                 \/ \E x : xs = {x} /\ ThingRequest(x) /\ x.state = "sent" /\ Added(rest, net', x)
              /\ \A k \in DOMAIN net' : \/ k \in DOMAIN rest /\ net'[k] = rest[k]
                                        \/ net'[k] \in xs /\ ThingRequest(net'[k])
              /\ \A k \in DOMAIN rest : k \in DOMAIN net' /\ net'[k] = rest[k]
              /\ \A x \in xs : \E k \in DOMAIN net' : net'[k] = x
<1>1. PICK rest :
        /\ Left(i, closed, rest)
        /\ \/ xs = {} /\ net' = rest
           \/ \E x : xs = {x} /\ ThingRequest(x) /\ x.state = "sent"
                     /\ Added(rest, net', x) /\ AreRequests(net')
  BY DEF Moves
<1>2. AreRequests(rest)
  BY <1>1 DEF Left
<1>3. CASE xs = {} /\ net' = rest
  BY <1>1, <1>2, <1>3
<1>4. CASE \E x : xs = {x} /\ ThingRequest(x) /\ x.state = "sent"
                  /\ Added(rest, net', x) /\ AreRequests(net')
  <2>1. PICK x : xs = {x} /\ ThingRequest(x) /\ x.state = "sent"
                 /\ Added(rest, net', x) /\ AreRequests(net')
    BY <1>4
  <2>2. /\ \A k \in DOMAIN net' : k \in DOMAIN rest \/ k = Len(rest) + 1
        /\ \A k \in DOMAIN rest : k \in DOMAIN net' /\ net'[k] = rest[k]
        /\ Len(rest) + 1 \in DOMAIN net' /\ net'[Len(rest) + 1] = x
    BY <2>1 DEF Added
  <2>. QED BY <1>1, <2>1, <2>2
<1>. QED BY <1>1, <1>3, <1>4

ModalOk(modal) ==
  modal = NoModal \/ /\ DOMAIN modal = {"op", "of"} /\ modal.of \in Things
                     /\ modal.op \in DOMAIN Ops /\ Ops[modal.op].asks # "no"

LEMMA FormMoved ==
  ASSUME page \in InventoryPages, ThingsForm, NEW i, NEW closed, NEW xs, Moves(i, closed, xs),
         NEW busy, NEW modal, NEW items \in Views, NEW later \in BOOLEAN, NEW sel \in SUBSET Things,
         UiIs(busy, modal, items, later, sel), ModalOk(modal)
  PROVE  ThingsForm'
<1>1. page' = page /\ Ops' = Ops /\ srv' = srv
  BY DEF Moves, session, Ops
<1>2. AreRequests(net')
  BY MovesNet
<1>3. PICK rest :
        /\ Left(i, closed, rest)
        /\ \A k \in DOMAIN net' : \/ k \in DOMAIN rest /\ net'[k] = rest[k]
                                  \/ net'[k] \in xs /\ ThingRequest(net'[k])
  BY MovesNet
<1>4. \A k \in DOMAIN net' : ThingRequest(net'[k])
  BY <1>3 DEF Left
<1>5. \A k \in DOMAIN net' : ThingRequest(net[k])'
  BY <1>1, <1>4 DEF ThingRequest
<1>6. /\ DOMAIN ui' = {"busy", "items", "modal", "later", "sel", "filter"}
      /\ ui'.items \in Views /\ ui'.later \in BOOLEAN /\ ui'.sel \subseteq Things
      /\ ui'.modal = modal
  BY DEF UiIs, ThingsForm
<1>7. ModalOk(modal)'
  BY <1>1 DEF ModalOk
<1>8. DOMAIN srv' = {"items"} /\ srv'.items \in Views
  BY <1>1 DEF ThingsForm
<1>. QED BY <1>2, <1>5, <1>6, <1>7, <1>8 DEF ThingsForm, ModalOk

LEMMA ThingsKeepForm ==
  ASSUME page \in InventoryPages, ThingsForm, ThingsMove
  PROVE  ThingsForm' /\ UNCHANGED session
<1>1. /\ ui.items \in Views /\ ui.later \in BOOLEAN /\ ui.sel \in SUBSET Things
      /\ ModalOk(ui.modal) /\ ModalOk(NoModal)
  BY DEF ThingsForm, ModalOk
<1>2. ASSUME NEW i \in DOMAIN net, NEW st, NEW v, Serving(i, st, v)
      PROVE  ThingsForm' /\ UNCHANGED session
  BY <1>2, FormServed DEF Serving
<1>3. ASSUME NEW i, NEW closed, NEW xs, Moves(i, closed, xs)
      PROVE  UNCHANGED session
  BY <1>3 DEF Moves
<1>4. ASSUME NEW o \in DOMAIN Ops, NEW x \in Things, RunsOp(o, x)
      PROVE  ThingsForm' /\ UNCHANGED session
  <2>1. ModalOk(IF Ops[o].closes = "click" THEN NoModal ELSE ui.modal)
    BY <1>1
  <2>. QED BY <1>1, <1>3, <1>4, <2>1, FormMoved DEF RunsOp
<1>5. ASSUME NEW o \in DOMAIN Ops, NEW x \in Things, OpensModal(o, x)
      PROVE  ThingsForm' /\ UNCHANGED session
  <2>1. ModalOk([op |-> o, of |-> x])
    BY <1>5 DEF OpensModal, ModalOk
  <2>. QED BY <1>1, <1>3, <1>5, <2>1, FormMoved DEF OpensModal
<1>6. CASE AsksList
  <2>1. PICK later \in {ui.later, FALSE} :
          /\ Moves(None, FALSE, {LoadRequest})
          /\ UiIs(BusyLoading(ui.busy), ui.modal, ui.items, later, ui.sel)
    BY <1>6 DEF AsksList
  <2>2. later \in BOOLEAN
    BY <1>1, <2>1
  <2>. QED BY <1>1, <1>3, <2>1, <2>2, FormMoved
<1>7. CASE ClosesForm
  BY <1>1, <1>3, <1>7, FormMoved DEF ClosesForm
<1>8. CASE Selects
  BY <1>1, <1>3, <1>8, FormMoved DEF Selects
<1>9. ASSUME NEW i \in DOMAIN net, TakesList(i)
      PROVE  ThingsForm' /\ UNCHANGED session
  <2>1. ThingRequest(net[i]) /\ net[i].by \in Reads3
    BY <1>9 DEF TakesList, ThingsForm
  <2>2. net[i].state = "done" => Head(net[i].reply) \in Views
    <3>. SUFFICES ASSUME net[i].state = "done" PROVE Head(net[i].reply) \in Views
      OBVIOUS
    <3>1. PICK w \in Views : net[i].reply = <<w>>
      BY <2>1 DEF ThingRequest, Reads3
    <3>. QED BY <3>1
  <2>3. (IF net[i].state = "done" THEN Head(net[i].reply) ELSE ui.items) \in Views
    BY <1>1, <2>2
  <2>. QED BY <1>1, <1>3, <1>9, <2>3, FormMoved DEF TakesList
<1>10. ASSUME NEW x, StartsRun(x)
       PROVE  ThingsForm' /\ UNCHANGED session
  BY <1>1, <1>3, <1>10, FormMoved DEF StartsRun
<1>11. ASSUME NEW i \in DOMAIN net, NEW x, GoesOn(i, x)
       PROVE  ThingsForm' /\ UNCHANGED session
  BY <1>1, <1>3, <1>11, FormMoved DEF GoesOn
<1>12. ASSUME NEW i \in DOMAIN net, EndsRun(i)
       PROVE  ThingsForm' /\ UNCHANGED session
  BY <1>1, <1>3, <1>12, FormMoved DEF EndsRun
<1>13. ASSUME NEW i \in DOMAIN net, NEW ok \in BOOLEAN, NEW closed, NEW busy, NEW modal,
              OpEnds(i, ok, closed, busy, modal)
       PROVE  ThingsForm' /\ UNCHANGED session
  <2>1. ThingRequest(net[i]) /\ net[i].by = "op" /\ (ok => net[i].state = "done")
        /\ ModalOk(modal)
    BY <1>1, <1>13 DEF OpEnds, ThingsForm
  <2>. DEFINE b == net[i].arg
              a == [b EXCEPT !.state = Answer(i).state]
  <2>2. DOMAIN b = OpArg /\ b.op \in DOMAIN Ops /\ b.of \in Things
    BY <2>1 DEF ThingRequest, Reads3
  <2>3. CASE EndsPlain(i, ok, closed, busy, modal)
    <3>1. ok => Applied(a) \in Views
      <4>. SUFFICES ASSUME ok PROVE Applied(a) \in Views
        OBVIOUS
      <4>1. PICK w : net[i].reply = <<w>> /\ w.state \in States
        BY <2>1 DEF ThingRequest, Reads3
      <4>2. Answer(i) = w
        BY <4>1 DEF Answer
      <4>3. a.state \in States /\ a.of = b.of /\ a.op = b.op
        BY <2>2, <4>1, <4>2 DEF OpArg
      <4>. HIDE DEF a
      <4>4. [ui.items EXCEPT ![a.of] = a.state] \in Views
        BY <1>1, <4>3 DEF Views
      <4>. QED BY <1>1, <4>4 DEF Applied
    <3>2. (IF ok THEN Applied(a) ELSE ui.items) \in Views
      BY <1>1, <3>1
    <3>. QED BY <1>1, <1>3, <2>1, <2>3, <3>2, FormMoved DEF EndsPlain
  <2>4. CASE EndsReload(i, ok, closed, busy, modal)
    BY <1>1, <1>3, <2>1, <2>4, FormMoved DEF EndsReload
  <2>5. CASE EndsLater(i, ok, closed, busy, modal)
    BY <1>1, <1>3, <2>1, <2>5, FormMoved DEF EndsLater
  <2>6. CASE EndsWait(i, ok, closed)
    <3>1. ui.sel \ {net[i].arg.of} \in SUBSET Things
      BY <1>1
    <3>. QED BY <1>1, <1>3, <2>6, <3>1, FormMoved DEF EndsWait
  <2>7. CASE EndsLoad(i, ok, closed)
    BY <1>1, <1>3, <2>7, FormMoved DEF EndsLoad
  <2>8. CASE EndsPlan(i, ok, closed, busy)
    <3>1. page = "backups"
      BY <2>2, <2>8, TheTables DEF EndsPlan, Entry
    <3>2. ModalOk([op |-> "restore", of |-> net[i].arg.of])
      BY <2>2, <3>1, TheTables DEF ModalOk
    <3>. QED BY <1>1, <1>3, <2>8, <3>2, FormMoved DEF EndsPlan
  <2>. QED BY <1>13, <2>3, <2>4, <2>5, <2>6, <2>7, <2>8 DEF OpEnds
<1>. QED BY <1>2, <1>4, <1>5, <1>6, <1>7, <1>8, <1>9, <1>10, <1>11, <1>12, <1>13
     DEF ThingsMove, Serves1, Clicks, Answers, Turns, Rest1

-----------------------------------------------------------------------------
(* The page stays *)

\* The other pages stay mounted too.
LEMMA OthersStayOn ==
  ASSUME BackupScheduleNext \/ TraceNext \/ PagerNext \/ FilesNext
  PROVE  UNCHANGED session
<1>1. CASE BackupScheduleNext
  BY <1>1 DEF BackupScheduleNext, Tick, BackupMade, BackupFails, ApplyRetention, StampLastRun,
    Crash, TimePasses, ScheduleLoaded, EditSchedule, SaveSchedule, ServeSave, ScheduleSaved,
    Tells, DropError, Forbid, Elsewhere, ServerIs, PageIs, NetOnly, Becomes, Asks, Finds, Makes,
    Does, ThenAsks, Then, Catch, Finally, session
<1>2. CASE TraceNext
  BY <1>2 DEF TraceNext, Toggle, TraceRead, Tells, Finds, Fault, NetOnly, PageIs, Asks, Becomes,
    Finally, Then, ThenAsks, Catch, session
<1>3. CASE PagerNext
  BY <1>3 DEF PagerNext, ClickPage, ClickArrow, TotalChanges, Becomes, PageIs, Elsewhere,
    ServerIs, session
<1>4. CASE FilesNext
  <2>1. CASE Browse \/ ServeBrowse \/ Browsed \/ Search \/ ServeSearch \/ Searched \/ ClearSearch
    BY <2>1 DEF Browse, ServeBrowse, Browsed, Search, ServeSearch, Searched, ClearSearch, Asks,
      Becomes, PageIs, NetOnly, Finds, Then, ThenAsks, Catch, session
  <2>2. CASE SelectFile \/ OpenDialog \/ CloseDialog \/ SubmitDialog
    BY <2>2 DEF SelectFile, OpenDialog, CloseDialog, SubmitDialog, Becomes, Asks, PageIs, session
  <2>3. CASE ServeChange \/ ChangeSettles \/ Upload \/ Uploaded \/ ServeUpload
    BY <2>3 DEF ServeChange, ChangeSettles, Upload, Uploaded, ServeUpload, Does, Makes, PageIs,
      ServerIs, NetOnly, Asks, session
  <2>4. CASE OpenEntry \/ ServeRead \/ FileOpened \/ CloseViewer \/ ClickEdit \/ CancelEdit
    BY <2>4 DEF OpenEntry, ServeRead, FileOpened, CloseViewer, ClickEdit, CancelEdit, Asks,
      Becomes, PageIs, Makes, ServerIs, NetOnly, Then, ThenAsks, session
  <2>5. CASE SaveFile \/ ServeSaveFile \/ FileSaved \/ DropError({"open"}) \/ Forbid \/ Fault
    BY <2>5 DEF SaveFile, ServeSaveFile, FileSaved, DropError, Forbid, Fault, Asks, PageIs, Does,
      Makes, ServerIs, NetOnly, Then, ThenAsks, Catch, session
  <2>. QED BY <1>4, <2>1, <2>2, <2>3, <2>4, <2>5 DEF FilesNext
<1>. QED BY <1>1, <1>2, <1>3, <1>4

\* What is in the boxes of a page of the inventory, whatever it is.
ConsoleForm == page \in InventoryPages => ThingsForm

LEMMA PageStays ==
  ASSUME ConsoleForm, [ConsoleNext]_webVars
  PROVE  ConsoleForm' /\ UNCHANGED session
<1>1. CASE UNCHANGED webVars
  <2>1. UNCHANGED <<session, ui, srv, net>> /\ page' = page
    BY <1>1 DEF webVars, session
  <2>2. Ops' = Ops
    BY <2>1 DEF Ops
  <2>3. ThingsForm => ThingsForm'
    BY <2>1, <2>2 DEF ThingsForm, ThingRequest
  <2>. QED BY <2>1, <2>3 DEF ConsoleForm
<1>2. CASE ConsoleNext /\ page \in InventoryPages
  <2>1. InventoryNext
    BY <1>2, OnConsole
  <2>. QED BY <1>2, <2>1, ThingsMoves, ThingsKeepForm DEF ConsoleForm
<1>3. CASE ConsoleNext /\ page \notin InventoryPages
  <2>1. \/ QueryNext \/ TraceNext \/ PagerNext \/ BackupScheduleNext \/ FilesNext
    <3>1. InventoryNext => page \in InventoryPages
      BY DEF InventoryNext
    <3>. QED BY <1>3, <3>1, Zenon DEF ConsoleNext
  <2>2. UNCHANGED session
    BY <2>1, QueriesStay, OthersStayOn
  <2>3. page' \notin InventoryPages
    BY <1>3, <2>2 DEF session
  <2>. QED BY <2>2, <2>3 DEF ConsoleForm
<1>. QED BY <1>1, <1>2, <1>3

LEMMA ConsoleOpens == ASSUME ConsoleInit PROVE ConsoleForm
<1>. SUFFICES ASSUME page \in InventoryPages PROVE ThingsForm
  BY DEF ConsoleForm
<1>1. InventoryInit
  BY OpensConsole
<1>2. /\ DOMAIN ui = {"busy", "items", "modal", "later", "sel", "filter"}
      /\ ui.items = [x \in Things |-> "gone"] /\ ui.later = FALSE /\ ui.sel = {}
      /\ ui.modal = NoModal
  BY <1>1 DEF InventoryInit
<1>3. DOMAIN srv = {"items"} /\ srv.items \in Views
  BY <1>1 DEF InventoryInit, Views, States
<1>4. ui.items \in Views
  BY <1>2 DEF Views, States
<1>. DEFINE x == LoadRequest
<1>5. net = <<x>>
  BY <1>1 DEF InventoryInit
<1>6. IsRequest(x) /\ ThingRequest(x)
  <2>1. IsRequest(x)
    BY DEF LoadRequest, Request, IsRequest
  <2>. QED BY <2>1, ThingsAsk
<1>. HIDE DEF x
<1>7. AreRequests(net) /\ \A k \in DOMAIN net : ThingRequest(net[k])
  <2>1. net \in Seq({x}) /\ \A k \in DOMAIN net : net[k] = x
    BY <1>5
  <2>2. AreRequests(net)
    BY <1>6, <2>1 DEF AreRequests
  <2>. QED BY <1>6, <2>1, <2>2
<1>. QED BY <1>2, <1>3, <1>4, <1>7 DEF ThingsForm

-----------------------------------------------------------------------------
(* Queries: what a page lists *)

LEMMA QueriesOpen == ASSUME ConsoleInit PROVE QueryInv
<1>. SUFFICES ASSUME page \in QueryPages PROVE QueryForm /\ NumberedInv /\ QueriesInOrder /\ QueryFlags
  BY DEF QueryInv
<1>1. QueryInit
  BY OpensConsole
<1>2. /\ DOMAIN ui = {"busy", "filter", "at", "token", "timer", "modal", "shown"}
      /\ ui.busy = {"loading"} /\ ui.at = 0 /\ ui.token = 0 /\ ui.timer = (page \in Debounced)
      /\ ui.modal = "none" /\ ui.shown = Nothing(NoQuery)
  BY <1>1 DEF QueryInit
<1>3. DOMAIN srv = {"items"} /\ srv.items \in Seq(Services)
  <2>1. SetToSeq(Services) \in Seq(Services)
    BY SetAsSeq, QueriesAssumption
  <2>. QED BY <1>1, <2>1 DEF QueryInit
<1>. DEFINE a == [of |-> Query(ui), token |-> 0]
            x == Request("load", ListCall, a)
<1>4. net = IF page \in Debounced THEN <<>> ELSE <<x>>
  <2>. DEFINE u == [busy |-> {"loading"}, filter |-> All, at |-> 0, token |-> 0,
                    timer |-> page \in Debounced, modal |-> "none", shown |-> Nothing(NoQuery)]
  <2>1. ui = u
    BY <1>1 DEF QueryInit
  <2>2. net = IF page \in Debounced THEN <<>>
              ELSE <<Request("load", ListCall, [of |-> Query(ui), token |-> 0])>>
    BY <1>1, Zenon DEF QueryInit
  <2>. QED BY <2>2
<1>5. /\ x.by = "load" /\ x.call = ListCall /\ x.arg = a /\ x.state = "sent" /\ IsRequest(x)
      /\ DOMAIN a = {"of", "token"} /\ a.of = Query(ui) /\ a.token = 0
  BY DEF Request, IsRequest
<1>6. Query(ui).at = 0
  BY <1>2 DEF Query
<1>. HIDE DEF x, a
<1>7. QueryRequest(x, 0)
  BY <1>5, <1>6 DEF QueryRequest, Lists
<1>8. /\ net \in Seq({x}) /\ \A k \in DOMAIN net : net[k] = x /\ k = 1
      /\ page \in Debounced \/ (1 \in DOMAIN net /\ net[1] = x)
  <2>1. CASE page \in Debounced
    BY <1>4, <2>1
  <2>2. CASE page \notin Debounced
    <3>1. net = <<x>>
      BY <1>4, <2>2
    <3>. QED BY <3>1
  <2>. QED BY <2>1, <2>2
<1>9. AreRequests(net)
  BY <1>5, <1>8 DEF AreRequests
<1>10. QueryForm
  <2>1. ui.timer \in BOOLEAN /\ (ui.timer => page \in Debounced)
    <3>. DEFINE b == page \in Debounced
    <3>1. ui.timer = b
      BY <1>2
    <3>2. b \in BOOLEAN
      OBVIOUS
    <3>3. b => page \in Debounced
      OBVIOUS
    <3>. HIDE DEF b
    <3>. QED BY <3>1, <3>2, <3>3
  <2>2. \A k \in DOMAIN net : QueryRequest(net[k], 0)
    BY <1>7, <1>8
  <2>3. ui.at \in Nat /\ ui.token \in Nat /\ ui.token = 0
    BY <1>2
  <2>4. \A k \in DOMAIN net : QueryRequest(net[k], ui.token)
    BY <2>2, <2>3
  <2>. QED BY <1>2, <1>3, <1>9, <2>1, <2>3, <2>4 DEF QueryForm
<1>11. page \in Numbered => page \in Debounced
  BY DEF Debounced
<1>12. NumberedInv
  BY <1>2, <1>11 DEF NumberedInv
<1>13. QueriesInOrder
  <2>1. AnsweredFirst(net)
    BY <1>5, <1>8 DEF AnsweredFirst
  <2>2. ui.shown.rows = <<>> /\ ui.shown.of = NoQuery
    BY <1>2 DEF Nothing
  <2>3. Emptied(net, ui.shown.rows)
    BY <1>5, <1>8, <2>2 DEF Emptied, Full
  <2>4. Latest(net, Query(ui), ui.shown.of)
    BY <1>5, <1>8, <2>2 DEF Latest
  <2>5. \A k \in DOMAIN net : net[k].state = "sent"
    BY <1>5, <1>8
  <2>. QED BY <2>1, <2>2, <2>3, <2>4, <2>5 DEF QueriesInOrder
<1>14. QueryFlags
  <2>1. page \notin Debounced => Waits({"load"})
    BY <1>5, <1>8 DEF Waits, WaitsIn
  <2>. QED BY <1>2, <1>11, <2>1 DEF QueryFlags
<1>. QED BY <1>10, <1>12, <1>13, <1>14

LEMMA QueriesTrue == ASSUME QueryInv PROVE QueriesAreTrue
<1>1. ASSUME page \in QueryPages, ~ui.timer, "loading" \notin ui.busy, page \in Numbered \/ Quiet
      PROVE  ui.shown.of \in {NoQuery, Query(ui)}
  <2>1. CASE page \in Numbered
    BY <1>1, <2>1 DEF QueryInv, NumberedInv
  <2>2. CASE page \notin Numbered
    <3>1. Latest(net, Query(ui), ui.shown.of) /\ net = <<>>
      BY <1>1, <2>2 DEF QueryInv, QueriesInOrder, Quiet
    <3>. QED BY <3>1 DEF Latest
  <2>. QED BY <2>1, <2>2
<1>2. ASSUME page \in QueryPages, Quiet, srv.items = <<>>
      PROVE  ui.shown.rows = <<>>
  <2>1. Emptied(net, ui.shown.rows) /\ net = <<>>
    BY <1>2 DEF QueryInv, QueriesInOrder, Quiet
  <2>. QED BY <2>1 DEF Emptied
<1>. QED BY <1>1, <1>2 DEF QueriesAreTrue, LatestQueryShown, ShownExist

LEMMA QueryInvHolds == ConsoleSpec => [](ConsoleForm /\ QueryInv)
<1>1. ConsoleInit => ConsoleForm /\ QueryInv
  BY ConsoleOpens, QueriesOpen
<1>2. ConsoleForm /\ QueryInv /\ [ConsoleNext]_webVars => (ConsoleForm /\ QueryInv)'
  <2>. SUFFICES ASSUME ConsoleForm, QueryInv, [ConsoleNext]_webVars PROVE ConsoleForm' /\ QueryInv'
    OBVIOUS
  <2>1. ConsoleForm' /\ page' = page
    BY PageStays DEF session
  <2>2. CASE page \notin QueryPages
    BY <2>1, <2>2 DEF QueryInv
  <2>3. CASE page \in QueryPages /\ ConsoleNext
    BY <2>1, <2>3, OnConsole, QueriesKeep
  <2>4. CASE UNCHANGED webVars
    <3>1. page' = page /\ perms' = perms /\ line' = line /\ ui' = ui /\ srv' = srv /\ net' = net
      BY <2>4 DEF webVars
    <3>2. ListCall' = ListCall /\ (\A c : Authorized(c)' <=> Authorized(c)) /\ Query(ui)' = Query(ui)
      BY <3>1 DEF ListCall, Authorized, Can, IsAdmin, Query
    <3>3. QueryForm => QueryForm'
      BY <3>1, <3>2 DEF QueryForm, QueryRequest
    <3>4. NumberedInv => NumberedInv'
      BY <3>1, <3>2 DEF NumberedInv
    <3>5. QueriesInOrder => QueriesInOrder'
      BY <3>1, <3>2 DEF QueriesInOrder
    <3>6. QueryFlags => QueryFlags'
      BY <3>1 DEF QueryFlags, Waits
    <3>. QED BY <2>1, <3>1, <3>3, <3>4, <3>5, <3>6 DEF QueryInv
  <2>. QED BY <2>1, <2>2, <2>3, <2>4
<1>. QED BY <1>1, <1>2, PTL DEF ConsoleSpec

\* The traces, the database view, the captured payloads, the traffic report and
\* the audit trail: what is listed is an answer to the filter and to the page
\* number on display, and nothing that was cleared is.
THEOREM QueriesCorrect == ConsoleSpec => []QueriesAreTrue
BY QueryInvHolds, QueriesTrue, PTL

-----------------------------------------------------------------------------
(* Inventory: what is under way, and what says so *)

\* The slots of operations that are no row's.
OwnSlots == {"prune", "nginx", "creating"}

IsTaken(s) == \E b \in ui.busy : b.slot = s

\* Request x says why slot s is taken.
IsOp(x, s)  == x.by = "op" /\ Ops[x.arg.op].slot = s /\ (s = "modal" => x.arg.mounted)
Holds(x, s) == IsOp(x, s) \/ (s = "row" /\ x.by \in {"wait", "stack"})

\* The modal on display has sent what its form has under way.
OfModal(x, modal) ==
  /\ modal # NoModal
  /\ x.arg.op = modal.op \/ (page = "images" /\ x.arg.op = "load" /\ modal.op = "upload")

FormOnce ==
  /\ \A k \in DOMAIN net : InForm(net[k]) => OfModal(net[k], ui.modal)
  /\ ui.modal # NoModal /\ Ops[ui.modal.op].blocked = "slot" =>
       /\ \A j, k \in DOMAIN net : InForm(net[j]) /\ InForm(net[k]) => j = k
       /\ \A k \in DOMAIN net : InForm(net[k]) => IsTaken("modal")

PageOnce ==
  \A s \in OwnSlots :
    /\ \A j, k \in DOMAIN net : IsOp(net[j], s) /\ IsOp(net[k], s) => j = k
    /\ \A k \in DOMAIN net : IsOp(net[k], s) => IsTaken(s)

\* The modal of an upload does not close while one is under way.
IsUpload(x)  == page = "images" /\ x.by = "op" /\ x.arg.op = "upload"
UploadsStay == \A k \in DOMAIN net : IsUpload(net[k]) => net[k].arg.mounted

\* What is taken waits for a request.
BusyHeld ==
  \A b \in ui.busy : \/ b = Loading /\ Waits(Reads3)
                     \/ b.slot # "loading" /\ \E k \in DOMAIN net : Holds(net[k], b.slot)

FlagsInv == FormOnce /\ PageOnce /\ UploadsStay /\ BusyHeld

\* A step that takes request i and sends xs may keep each of these.
OthersInForm(i) == \E k \in DOMAIN net : k # i /\ InForm(net[k])

KeepsForm(i, closed, xs, busy, modal) ==
  /\ closed \/ modal = ui.modal \/ ~OthersInForm(i)
  /\ \A x \in xs : InForm(x) =>
       /\ ~closed /\ OfModal(x, modal)
       /\ Ops[modal.op].blocked = "slot" => ~OthersInForm(i) /\ \E b \in busy : b.slot = "modal"
  /\ modal # NoModal /\ Ops[modal.op].blocked = "slot" /\ ~closed /\ OthersInForm(i)
     /\ IsTaken("modal") => \E b \in busy : b.slot = "modal"

KeepsPage(i, xs, busy) ==
  \A s \in OwnSlots :
    /\ IsTaken(s) => \/ \E b \in busy : b.slot = s
                     \/ i \in DOMAIN net /\ IsOp(net[i], s)
    /\ \A x \in xs : IsOp(x, s) => ~IsTaken(s) /\ \E b \in busy : b.slot = s

KeepsUploads(closed, xs) ==
  /\ closed => ~\E k \in DOMAIN net : IsUpload(net[k]) /\ InForm(net[k])
  /\ \A x \in xs : IsUpload(x) => x.arg.mounted

KeepsHeld(i, closed, xs, busy) ==
  \A b \in busy :
    \/ /\ b = Loading
       /\ \/ \E x \in xs : x.by \in Reads3
          \/ b \in ui.busy /\ (i \in DOMAIN net => net[i].by \notin Reads3)
    \/ /\ b.slot # "loading"
       /\ \/ \E x \in xs : Holds(x, b.slot)
          \/ /\ b \in ui.busy /\ (closed => b.slot # "modal")
             /\ i \in DOMAIN net => ~Holds(net[i], b.slot)

\* Where a request that is left comes from, and what it is.
LEMMA LeftKinds ==
  ASSUME NEW i, NEW closed, NEW rest, Left(i, closed, rest)
  PROVE  /\ \A k \in DOMAIN rest :
              LET j == Old(i, k) IN
              /\ j \in DOMAIN net /\ j # i
              /\ \A s : s # "modal" => (IsOp(rest[k], s) <=> IsOp(net[j], s))
              /\ \A s : s # "modal" => (Holds(rest[k], s) <=> Holds(net[j], s))
              /\ rest[k].by = net[j].by
              /\ InForm(rest[k]) => ~closed /\ rest[k] = net[j]
              /\ IsUpload(rest[k]) => IsUpload(net[j])
              /\ IsUpload(rest[k]) /\ net[j].arg.mounted => rest[k].arg.mounted \/ (closed /\ InForm(net[j]))
         /\ \A k, m \in DOMAIN rest : Old(i, k) = Old(i, m) => k = m
         /\ \A j \in DOMAIN net : j # i => \E k \in DOMAIN rest : Old(i, k) = j
<1>1. /\ Len(net) \in Nat /\ DOMAIN net = 1..Len(net) /\ i \in 1..None
      /\ Len(rest) = (IF i = None THEN Len(net) ELSE Len(net) - 1) /\ DOMAIN rest = 1..Len(rest)
  BY DEF Left
<1>2. \A k, m \in DOMAIN rest : Old(i, k) = Old(i, m) => k = m
  <2>. SUFFICES ASSUME NEW k \in DOMAIN rest, NEW m \in DOMAIN rest, Old(i, k) = Old(i, m)
       PROVE  k = m
    OBVIOUS
  <2>. DEFINE n == Len(net)
              r == Len(rest)
  <2>1. n \in Nat /\ (r = n \/ r = n - 1) /\ None = n + 1
    BY <1>1 DEF None
  <2>2. DOMAIN rest = 1..r /\ i \in 1..None
    BY <1>1
  <2>. HIDE DEF n, r, None
  <2>3. r \in Int /\ None \in Int
    BY <2>1
  <2>4. k \in Int /\ m \in Int /\ i \in Int
    BY <2>2, <2>3
  <2>. QED BY <2>4 DEF Old
<1>3. ASSUME NEW k \in DOMAIN rest, NEW j, j = Old(i, k)
      PROVE  /\ j \in DOMAIN net /\ j # i
             /\ \A s : s # "modal" => (IsOp(rest[k], s) <=> IsOp(net[j], s))
             /\ \A s : s # "modal" => (Holds(rest[k], s) <=> Holds(net[j], s))
             /\ rest[k].by = net[j].by
             /\ InForm(rest[k]) => ~closed /\ rest[k] = net[j]
             /\ IsUpload(rest[k]) => IsUpload(net[j])
             /\ IsUpload(rest[k]) /\ net[j].arg.mounted => rest[k].arg.mounted \/ (closed /\ InForm(net[j]))
  <2>1. /\ j \in DOMAIN net /\ j # i /\ Was(rest[k], net[j], closed)
        /\ (closed => ~InForm(rest[k]))
    BY <1>3 DEF Left
  <2>2. /\ rest[k].by = net[j].by /\ (IsUpload(rest[k]) => IsUpload(net[j]))
        /\ \A s : s # "modal" => (IsOp(rest[k], s) <=> IsOp(net[j], s))
    BY <2>1 DEF Was, IsOp, IsUpload
  <2>3. \A s : s # "modal" => (Holds(rest[k], s) <=> Holds(net[j], s))
    BY <2>2 DEF Holds
  <2>4. InForm(rest[k]) => ~closed /\ rest[k] = net[j]
    BY <2>1 DEF Was
  <2>5. IsUpload(rest[k]) /\ net[j].arg.mounted => rest[k].arg.mounted \/ (closed /\ InForm(net[j]))
    BY <2>1 DEF Was, InForm, IsUpload
  <2>. QED BY <2>1, <2>2, <2>3, <2>4, <2>5
<1>. QED BY <1>2, <1>3 DEF Left

\* Such a step keeps them.
LEMMA FlagsMoved ==
  ASSUME page \in InventoryPages, FlagsInv, NEW i, NEW closed, NEW xs, Moves(i, closed, xs),
         NEW busy, NEW modal, NEW items, NEW later, NEW sel,
         UiIs(busy, modal, items, later, sel),
         KeepsForm(i, closed, xs, busy, modal), KeepsPage(i, xs, busy),
         KeepsUploads(closed, xs), KeepsHeld(i, closed, xs, busy)
  PROVE  FlagsInv'
<1>1. page' = page /\ Ops' = Ops /\ ui'.busy = busy /\ ui'.modal = modal
  BY DEF Moves, session, Ops, UiIs
<1>2. PICK rest :
        /\ Left(i, closed, rest)
        /\ \A k \in DOMAIN net' : \/ k \in DOMAIN rest /\ net'[k] = rest[k]
                                  \/ net'[k] \in xs /\ ThingRequest(net'[k])
        /\ \A k \in DOMAIN rest : k \in DOMAIN net' /\ net'[k] = rest[k]
        /\ \A x \in xs : \E k \in DOMAIN net' : net'[k] = x
        /\ \A j, k \in DOMAIN net' : net'[j] \in xs /\ net'[k] \in xs =>
             j = k \/ (j \in DOMAIN rest /\ net'[j] = rest[j]) \/ (k \in DOMAIN rest /\ net'[k] = rest[k])
  <2>1. PICK rest :
        /\ Left(i, closed, rest)
        /\ \/ xs = {} /\ net' = rest
           \/ \E x : xs = {x} /\ ThingRequest(x) /\ x.state = "sent" /\ Added(rest, net', x)
        /\ \A k \in DOMAIN net' : \/ k \in DOMAIN rest /\ net'[k] = rest[k]
                                  \/ net'[k] \in xs /\ ThingRequest(net'[k])
        /\ \A k \in DOMAIN rest : k \in DOMAIN net' /\ net'[k] = rest[k]
        /\ \A x \in xs : \E k \in DOMAIN net' : net'[k] = x
    BY MovesNet
  <2>2. \A j, k \in DOMAIN net' :
          j = k \/ (j \in DOMAIN rest /\ net'[j] = rest[j]) \/ (k \in DOMAIN rest /\ net'[k] = rest[k])
    <3>1. CASE net' = rest
      BY <3>1
    <3>2. CASE \E x : Added(rest, net', x)
      BY <3>2 DEF Added
    <3>. QED BY <2>1, <3>1, <3>2
  <2>. QED BY <2>1, <2>2
<1>. DEFINE In(k) == k \in DOMAIN rest /\ net'[k] = rest[k]
            O(k)  == Old(i, k)
<1>3. /\ \A k \in DOMAIN net' : In(k) \/ net'[k] \in xs
      /\ \A j, k \in DOMAIN net' : In(j) \/ In(k) \/ j = k
  BY <1>2
<1>4. /\ \A k \in DOMAIN rest :
           /\ O(k) \in DOMAIN net /\ O(k) # i
           /\ \A s : s # "modal" => (IsOp(rest[k], s) <=> IsOp(net[O(k)], s))
           /\ \A s : s # "modal" => (Holds(rest[k], s) <=> Holds(net[O(k)], s))
           /\ rest[k].by = net[O(k)].by
           /\ InForm(rest[k]) => ~closed /\ rest[k] = net[O(k)]
           /\ IsUpload(rest[k]) => IsUpload(net[O(k)])
           /\ IsUpload(rest[k]) /\ net[O(k)].arg.mounted =>
                rest[k].arg.mounted \/ (closed /\ InForm(net[O(k)]))
      /\ \A k, m \in DOMAIN rest : O(k) = O(m) => k = m
      /\ \A j \in DOMAIN net : j # i => \E k \in DOMAIN rest : O(k) = j
  BY <1>2, LeftKinds
<1>. HIDE DEF O
<1>5. /\ \A k \in DOMAIN net' : In(k) /\ InForm(net'[k]) =>
           /\ ~closed /\ O(k) \in DOMAIN net /\ O(k) # i /\ InForm(net[O(k)]) /\ net'[k] = net[O(k)]
      /\ \A k \in DOMAIN net' : In(k) /\ InForm(net'[k]) => OthersInForm(i)
  BY <1>4 DEF OthersInForm
<1>6. \A k \in DOMAIN net' : InForm(net'[k]) => OfModal(net'[k], modal)
  <2>. SUFFICES ASSUME NEW k \in DOMAIN net', InForm(net'[k]) PROVE OfModal(net'[k], modal)
    OBVIOUS
  <2>1. CASE In(k)
    <3>1. modal = ui.modal
      BY <1>5, <2>1 DEF KeepsForm
    <3>. QED BY <1>5, <2>1, <3>1 DEF FlagsInv, FormOnce
  <2>2. CASE net'[k] \in xs
    BY <2>2 DEF KeepsForm
  <2>. QED BY <1>3, <2>1, <2>2
<1>7. ASSUME modal # NoModal, Ops[modal.op].blocked = "slot"
      PROVE  /\ \A j, k \in DOMAIN net' : InForm(net'[j]) /\ InForm(net'[k]) => j = k
             /\ \A k \in DOMAIN net' : InForm(net'[k]) => \E b \in busy : b.slot = "modal"
  <2>1. \A k \in DOMAIN net' : In(k) /\ InForm(net'[k]) => modal = ui.modal /\ ~closed
    BY <1>5 DEF KeepsForm
  <2>2. \A k \in DOMAIN net' : In(k) /\ InForm(net'[k]) => \E b \in busy : b.slot = "modal"
    <3>. SUFFICES ASSUME NEW k \in DOMAIN net', In(k), InForm(net'[k])
         PROVE  \E b \in busy : b.slot = "modal"
      OBVIOUS
    <3>1. IsTaken("modal") /\ OthersInForm(i) /\ ~closed
      BY <1>5, <1>7, <2>1 DEF FlagsInv, FormOnce
    <3>. QED BY <1>7, <3>1 DEF KeepsForm
  <2>3. ASSUME NEW j \in DOMAIN net', NEW k \in DOMAIN net', InForm(net'[j]), InForm(net'[k])
        PROVE  j = k
    <3>1. CASE In(j) /\ In(k)
      <4>1. O(j) = O(k)
        BY <1>5, <1>7, <2>1, <2>3, <3>1 DEF FlagsInv, FormOnce
      <4>. QED BY <1>4, <3>1, <4>1
    <3>2. CASE ~In(j)
      <4>1. net'[j] \in xs /\ ~OthersInForm(i)
        BY <1>3, <1>7, <2>3, <3>2 DEF KeepsForm
      <4>. QED BY <1>3, <1>5, <2>3, <3>2, <4>1
    <3>3. CASE ~In(k)
      <4>1. net'[k] \in xs /\ ~OthersInForm(i)
        BY <1>3, <1>7, <2>3, <3>3 DEF KeepsForm
      <4>. QED BY <1>3, <1>5, <2>3, <3>3, <4>1
    <3>. QED BY <3>1, <3>2, <3>3
  <2>4. ASSUME NEW k \in DOMAIN net', InForm(net'[k]), ~In(k)
        PROVE  \E b \in busy : b.slot = "modal"
    BY <1>3, <1>7, <2>4 DEF KeepsForm
  <2>. QED BY <2>2, <2>3, <2>4
<1>8. ASSUME NEW s \in OwnSlots
      PROVE  /\ \A j, k \in DOMAIN net' : IsOp(net'[j], s) /\ IsOp(net'[k], s) => j = k
             /\ \A k \in DOMAIN net' : IsOp(net'[k], s) => \E b \in busy : b.slot = s
  <2>1. s # "modal"
    BY DEF OwnSlots
  <2>2. /\ \A j, k \in DOMAIN net : IsOp(net[j], s) /\ IsOp(net[k], s) => j = k
        /\ \A k \in DOMAIN net : IsOp(net[k], s) => IsTaken(s)
    BY DEF FlagsInv, PageOnce
  <2>3. /\ IsTaken(s) => \/ \E b \in busy : b.slot = s
                         \/ i \in DOMAIN net /\ IsOp(net[i], s)
        /\ \A x \in xs : IsOp(x, s) => ~IsTaken(s) /\ \E b \in busy : b.slot = s
    BY DEF KeepsPage
  <2>4. \A k \in DOMAIN net' : In(k) /\ IsOp(net'[k], s) =>
          O(k) \in DOMAIN net /\ O(k) # i /\ IsOp(net[O(k)], s)
    BY <1>4, <2>1
  <2>5. \A k \in DOMAIN net' : In(k) /\ IsOp(net'[k], s) => \E b \in busy : b.slot = s
    BY <2>2, <2>3, <2>4
  <2>6. \A k \in DOMAIN net' : ~In(k) /\ IsOp(net'[k], s) => ~IsTaken(s) /\ \E b \in busy : b.slot = s
    BY <1>3, <2>3
  <2>7. ASSUME NEW j \in DOMAIN net', NEW k \in DOMAIN net', IsOp(net'[j], s), IsOp(net'[k], s)
        PROVE  j = k
    <3>1. CASE In(j) /\ In(k)
      <4>1. O(j) = O(k)
        BY <2>2, <2>4, <2>7, <3>1
      <4>. QED BY <1>4, <3>1, <4>1
    <3>2. CASE ~In(j) \/ ~In(k)
      <4>1. ~IsTaken(s)
        BY <2>6, <2>7, <3>2
      <4>2. ~In(j) /\ ~In(k)
        BY <2>2, <2>4, <2>7, <4>1
      <4>. QED BY <1>3, <4>2
    <3>. QED BY <3>1, <3>2
  <2>. QED BY <2>5, <2>6, <2>7
<1>9. \A k \in DOMAIN net' : IsUpload(net'[k]) => net'[k].arg.mounted
  <2>. SUFFICES ASSUME NEW k \in DOMAIN net', IsUpload(net'[k]) PROVE net'[k].arg.mounted
    OBVIOUS
  <2>1. CASE In(k)
    <3>1. O(k) \in DOMAIN net /\ IsUpload(net[O(k)])
      BY <1>4, <2>1
    <3>2. net[O(k)].arg.mounted
      BY <3>1 DEF FlagsInv, UploadsStay
    <3>. QED BY <1>4, <2>1, <3>1, <3>2 DEF KeepsUploads
  <2>2. CASE net'[k] \in xs
    BY <2>2 DEF KeepsUploads
  <2>. QED BY <1>3, <2>1, <2>2
<1>10. ASSUME NEW b \in busy
       PROVE  \/ b = Loading /\ \E k \in DOMAIN net' : net'[k].by \in Reads3
              \/ b.slot # "loading" /\ \E k \in DOMAIN net' : Holds(net'[k], b.slot)
  <2>1. CASE b = Loading /\ \E x \in xs : x.by \in Reads3
    BY <1>2, <2>1
  <2>2. CASE b = Loading /\ b \in ui.busy /\ (i \in DOMAIN net => net[i].by \notin Reads3)
    <3>1. PICK j \in DOMAIN net : net[j].by \in Reads3
      BY <2>2 DEF FlagsInv, BusyHeld, Waits, WaitsIn, Loading
    <3>2. j # i
      BY <2>2, <3>1
    <3>3. PICK k \in DOMAIN rest : O(k) = j
      BY <1>4, <3>2
    <3>. QED BY <1>2, <1>4, <2>2, <3>1, <3>3
  <2>3. CASE b.slot # "loading" /\ \E x \in xs : Holds(x, b.slot)
    BY <1>2, <2>3
  <2>4. CASE /\ b.slot # "loading" /\ b \in ui.busy /\ (closed => b.slot # "modal")
             /\ i \in DOMAIN net => ~Holds(net[i], b.slot)
    <3>1. PICK j \in DOMAIN net : Holds(net[j], b.slot)
      <4>0. Loading.slot = "loading"
        BY DEF Loading
      <4>1. b # Loading
        BY <2>4, <4>0
      <4>. QED BY <2>4, <4>1 DEF FlagsInv, BusyHeld
    <3>2. j # i
      BY <2>4, <3>1
    <3>3. PICK k \in DOMAIN rest : O(k) = j
      BY <1>4, <3>2
    <3>4. Holds(rest[k], b.slot)
      <4>1. CASE b.slot # "modal"
        BY <1>4, <3>1, <3>3, <4>1
      <4>2. CASE ~closed
        <5>1. rest[k] = net[j]
          BY <1>2, <3>3, <4>2 DEF Left, Was, O
        <5>. QED BY <3>1, <5>1
      <4>. QED BY <2>4, <4>1, <4>2
    <3>. QED BY <1>2, <2>4, <3>4
  <2>. QED BY <2>1, <2>2, <2>3, <2>4 DEF KeepsHeld
<1>11. \A k \in DOMAIN net' :
         /\ InForm(net[k])' <=> InForm(net'[k])
         /\ \A s : IsOp(net[k], s)' <=> IsOp(net'[k], s)
         /\ \A s : Holds(net[k], s)' <=> Holds(net'[k], s)
         /\ IsUpload(net[k])' <=> IsUpload(net'[k])
         /\ OfModal(net[k], ui.modal)' <=> OfModal(net'[k], modal)
  BY <1>1 DEF InForm, IsOp, Holds, IsUpload, OfModal
<1>12. \A s : IsTaken(s)' <=> \E b \in busy : b.slot = s
  BY <1>1 DEF IsTaken
<1>13. FormOnce'
  BY <1>1, <1>6, <1>7, <1>11, <1>12 DEF FormOnce
<1>14. PageOnce'
  BY <1>1, <1>8, <1>11, <1>12 DEF PageOnce
<1>15. UploadsStay'
  BY <1>9, <1>11 DEF UploadsStay
<1>16. BusyHeld'
  BY <1>1, <1>10, <1>11 DEF BusyHeld, Waits, WaitsIn
<1>. QED BY <1>13, <1>14, <1>15, <1>16 DEF FlagsInv

\* What is known of the requests of a form, and of what is taken.
LEMMA FlagFacts ==
  ASSUME page \in InventoryPages, ThingsForm, FlagsInv
  PROVE  /\ None \notin DOMAIN net /\ Loading.slot = "loading"
         /\ \A k \in DOMAIN net : net[k].by = "op" =>
              /\ net[k].arg.op \in DOMAIN Ops /\ net[k].arg.of \in Things
              /\ Entry(page, net[k].arg.op, Ops[net[k].arg.op])
         /\ \A k \in DOMAIN net : InForm(net[k]) =>
              /\ ui.modal # NoModal /\ page \notin {"dns", "backups"}
              /\ Ops[net[k].arg.op].asks = "form"
         /\ ui.modal # NoModal => /\ ui.modal.op \in DOMAIN Ops /\ Ops[ui.modal.op].asks # "no"
                                  /\ Entry(page, ui.modal.op, Ops[ui.modal.op])
         /\ \A k \in DOMAIN net : IsUpload(net[k]) => InForm(net[k])
         /\ \A k \in DOMAIN net : IsUpload(net[k]) =>
              /\ ui.modal.op = "upload" /\ Ops[ui.modal.op].closes = "never"
              /\ ~Ops[ui.modal.op].shuts /\ IsTaken("modal") /\ ~OthersInForm(k)
         /\ \A b \in ui.busy : b # Loading => b.slot # "loading"
<1>1. None \notin DOMAIN net /\ Loading.slot = "loading"
  <2>1. PICK S : net \in Seq(S)
    BY DEF ThingsForm, AreRequests
  <2>2. Len(net) \in Nat /\ DOMAIN net = 1..Len(net)
    BY <2>1
  <2>. QED BY <2>2 DEF None, Loading
<1>2. ASSUME NEW k \in DOMAIN net, net[k].by = "op"
      PROVE  /\ net[k].arg.op \in DOMAIN Ops /\ net[k].arg.of \in Things
             /\ Entry(page, net[k].arg.op, Ops[net[k].arg.op])
  <2>1. ThingRequest(net[k])
    BY DEF ThingsForm
  <2>. QED BY <1>2, <2>1, TheTables DEF ThingRequest, Reads3
<1>3. ASSUME NEW k \in DOMAIN net, InForm(net[k])
      PROVE  /\ ui.modal # NoModal /\ page \notin {"dns", "backups"}
             /\ Ops[net[k].arg.op].asks = "form"
  <2>1. Entry(page, net[k].arg.op, Ops[net[k].arg.op]) /\ Ops[net[k].arg.op].slot = "modal"
    BY <1>2, <1>3 DEF InForm
  <2>2. OfModal(net[k], ui.modal)
    BY <1>3 DEF FlagsInv, FormOnce
  <2>. QED BY <2>1, <2>2 DEF Entry, OfModal
<1>4. ui.modal # NoModal => /\ ui.modal.op \in DOMAIN Ops /\ Ops[ui.modal.op].asks # "no"
                            /\ Entry(page, ui.modal.op, Ops[ui.modal.op])
  BY TheTables DEF ThingsForm
<1>5. ASSUME NEW k \in DOMAIN net, IsUpload(net[k])
      PROVE  /\ InForm(net[k]) /\ ui.modal.op = "upload" /\ Ops[ui.modal.op].closes = "never"
             /\ ~Ops[ui.modal.op].shuts /\ IsTaken("modal") /\ ~OthersInForm(k)
  <2>1. page = "images" /\ net[k].by = "op" /\ net[k].arg.op = "upload" /\ net[k].arg.mounted
    BY <1>5 DEF IsUpload, FlagsInv, UploadsStay
  <2>2. Ops["upload"].slot = "modal" /\ Ops["upload"].blocked = "slot"
        /\ Ops["upload"].closes = "never" /\ ~Ops["upload"].shuts
    BY <1>2, <2>1 DEF Entry
  <2>3. InForm(net[k])
    BY <2>1, <2>2 DEF InForm
  <2>4. ui.modal # NoModal /\ ui.modal.op = "upload"
    BY <2>1, <2>3 DEF FlagsInv, FormOnce, OfModal
  <2>5. IsTaken("modal") /\ ~OthersInForm(k)
    BY <2>2, <2>3, <2>4 DEF FlagsInv, FormOnce, OthersInForm
  <2>. QED BY <2>2, <2>3, <2>4, <2>5
<1>6. \A b \in ui.busy : b # Loading => b.slot # "loading"
  BY DEF FlagsInv, BusyHeld
<1>. QED BY <1>1, <1>2, <1>3, <1>4, <1>5, <1>6

\* The server says nothing about what is under way.
LEMMA FlagsServed ==
  ASSUME FlagsInv, NEW i \in DOMAIN net, NEW st, NEW v, Serving(i, st, v)
  PROVE  FlagsInv'
<1>1. /\ DOMAIN net' = DOMAIN net
      /\ \A k \in DOMAIN net : net'[k].by = net[k].by /\ net'[k].arg = net[k].arg
  BY DEF Serving, AnsweredAt
<1>2. page' = page /\ Ops' = Ops /\ ui' = ui
  BY DEF Serving, session, Ops
<1>3. \A k \in DOMAIN net :
        /\ InForm(net[k])' <=> InForm(net[k])
        /\ \A s : IsOp(net[k], s)' <=> IsOp(net[k], s)
        /\ \A s : Holds(net[k], s)' <=> Holds(net[k], s)
        /\ IsUpload(net[k])' <=> IsUpload(net[k])
        /\ OfModal(net[k], ui.modal)' <=> OfModal(net[k], ui.modal)
  BY <1>1, <1>2 DEF InForm, IsOp, Holds, IsUpload, OfModal
<1>4. \A s : IsTaken(s)' <=> IsTaken(s)
  BY <1>2 DEF IsTaken
<1>5. FormOnce'
  BY <1>1, <1>2, <1>3, <1>4 DEF FlagsInv, FormOnce
<1>6. PageOnce'
  BY <1>1, <1>3, <1>4 DEF FlagsInv, PageOnce
<1>7. UploadsStay'
  BY <1>1, <1>3 DEF FlagsInv, UploadsStay
<1>8. BusyHeld'
  BY <1>1, <1>2, <1>3 DEF FlagsInv, BusyHeld, Waits, WaitsIn
<1>. QED BY <1>5, <1>6, <1>7, <1>8 DEF FlagsInv

\* What is taken stays so when a row or a form takes a slot.
LEMMA TakenStays ==
  ASSUME NEW o, NEW x
  PROVE  /\ \A s : IsTaken(s) => \E b \in Taken(o, x) : b.slot = s
         /\ \A b \in Taken(o, x) :
              \/ b \in ui.busy /\ (Ops[o].slot # "none" => b.slot # Ops[o].slot)
              \/ b.slot = Ops[o].slot /\ Ops[o].slot # "none"
         /\ Ops[o].slot # "none" => \E b \in Taken(o, x) : b.slot = Ops[o].slot
<1>1. Slot(o, x).slot = Ops[o].slot
  BY DEF Slot
<1>. HIDE DEF Slot
<1>2. CASE Ops[o].slot = "none"
  BY <1>2 DEF Taken, IsTaken
<1>3. CASE Ops[o].slot # "none"
  <2>1. Taken(o, x) = {b \in ui.busy : b.slot # Ops[o].slot} \cup {Slot(o, x)}
    BY <1>3 DEF Taken, Freed
  <2>. QED BY <1>1, <1>3, <2>1 DEF IsTaken
<1>. QED BY <1>2, <1>3

\* A control is clicked that asks nothing, or a modal is confirmed.
LEMMA RunKeepsFlags ==
  ASSUME page \in InventoryPages, ThingsForm, FlagsInv, NEW o, NEW x, RunsOp(o, x)
  PROVE  FlagsInv'
<1>. DEFINE y == Ask(o, x)
            busy == Taken(o, x)
            modal == IF Ops[o].closes = "click" THEN NoModal ELSE ui.modal
<1>1. o \in DOMAIN Ops /\ x \in Things /\ Entry(page, o, Ops[o])
  BY TheTables DEF RunsOp
<1>2. y.by = "op" /\ y.arg.op = o /\ y.arg.mounted = TRUE
  <2>1. y.by = "op" /\ y.arg = Argument(o, x)
    BY <1>1, ThingsAsk
  <2>2. Argument(o, x).op = o /\ Argument(o, x).mounted = TRUE
    BY DEF Argument
  <2>. QED BY <2>1, <2>2
<1>. HIDE DEF y
<1>3. None \notin DOMAIN net /\ \A b \in ui.busy : b # Loading => b.slot # "loading"
  BY FlagFacts
<1>4. /\ \A s : IsTaken(s) => \E b \in busy : b.slot = s
      /\ \A b \in busy : \/ b \in ui.busy
                         \/ b.slot = Ops[o].slot /\ Ops[o].slot # "none"
      /\ Ops[o].slot # "none" => \E b \in busy : b.slot = Ops[o].slot
  BY TakenStays
<1>. HIDE DEF busy
<1>5. Ops[o].blocked = "slot" => ~IsTaken(Ops[o].slot)
  <2>. SUFFICES ASSUME Ops[o].blocked = "slot" PROVE ~IsTaken(Ops[o].slot)
    OBVIOUS
  <2>1. Ops[o].asks \in {"no", "form"}
    BY <1>1 DEF Entry
  <2>2. ~Blocked(o, x)
    BY <2>1, FlagFacts DEF RunsOp
  <2>. QED BY <2>2 DEF Blocked, IsTaken
<1>6. Ops[o].asks # "no" => ui.modal # NoModal /\ ui.modal.op = o
  BY DEF RunsOp
<1>7. KeepsForm(None, FALSE, {y}, busy, modal)
  <2>1. modal = ui.modal \/ ~OthersInForm(None)
    <3>. SUFFICES ASSUME Ops[o].closes = "click", NEW k \in DOMAIN net, InForm(net[k]) PROVE FALSE
      BY DEF OthersInForm
    <3>1. Ops[o].asks = "confirm"
      BY <1>1 DEF Entry
    <3>2. OfModal(net[k], ui.modal) /\ ui.modal.op = o
      BY <1>6, <3>1 DEF FlagsInv, FormOnce
    <3>3. Ops[net[k].arg.op].asks = "form"
      BY FlagFacts
    <3>4. page = "images" /\ o = "upload"
      BY <3>1, <3>2, <3>3 DEF OfModal
    <3>. QED BY <1>1, <3>4 DEF Entry
  <2>2. ASSUME InForm(y)
        PROVE  /\ OfModal(y, modal)
               /\ Ops[modal.op].blocked = "slot" =>
                    ~OthersInForm(None) /\ \E b \in busy : b.slot = "modal"
    <3>1. Ops[o].slot = "modal" /\ Ops[o].asks = "form" /\ Ops[o].closes # "click"
      BY <1>1, <1>2, <2>2 DEF InForm, Entry
    <3>2. ui.modal # NoModal /\ ui.modal.op = o /\ modal = ui.modal
      BY <1>6, <3>1
    <3>3. Ops[o].blocked = "slot" => ~OthersInForm(None)
      BY <1>5, <3>1, <3>2 DEF OthersInForm, FlagsInv, FormOnce
    <3>. QED BY <1>2, <1>4, <3>1, <3>2, <3>3 DEF OfModal
  <2>3. IsTaken("modal") => \E b \in busy : b.slot = "modal"
    BY <1>4
  <2>. HIDE DEF modal
  <2>. QED BY <2>1, <2>2, <2>3 DEF KeepsForm
<1>8. KeepsPage(None, {y}, busy)
  <2>. SUFFICES ASSUME NEW s \in OwnSlots
       PROVE  /\ IsTaken(s) => \E b \in busy : b.slot = s
              /\ IsOp(y, s) => ~IsTaken(s) /\ \E b \in busy : b.slot = s
    BY DEF KeepsPage
  <2>1. IsOp(y, s) => Ops[o].slot = s /\ Ops[o].blocked = "slot" /\ s # "none"
    BY <1>1, <1>2 DEF IsOp, Entry, OwnSlots
  <2>. QED BY <1>4, <1>5, <2>1
<1>9. KeepsUploads(FALSE, {y})
  BY <1>2 DEF KeepsUploads
<1>10. KeepsHeld(None, FALSE, {y}, busy)
  <2>. SUFFICES ASSUME NEW b \in busy
       PROVE  \/ b = Loading /\ b \in ui.busy
              \/ b.slot # "loading" /\ (Holds(y, b.slot) \/ b \in ui.busy)
    BY <1>3 DEF KeepsHeld
  <2>1. CASE b \in ui.busy
    BY <1>3, <2>1
  <2>2. CASE b.slot = Ops[o].slot /\ Ops[o].slot # "none"
    BY <1>1, <1>2, <2>2 DEF Entry, Holds, IsOp
  <2>. QED BY <1>4, <2>1, <2>2
<1>. QED
  <2>1. Moves(None, FALSE, {y}) /\ UiIs(busy, modal, ui.items, ui.later, ui.sel)
    BY DEF RunsOp, y, busy
  <2>. HIDE DEF modal
  <2>. QED BY <1>7, <1>8, <1>9, <1>10, <2>1, FlagsMoved

\* A modal opens, or a form closes.
LEMMA ModalKeepsFlags ==
  ASSUME page \in InventoryPages, ThingsForm, FlagsInv,
         ClosesForm \/ \E o, x : OpensModal(o, x)
  PROVE  FlagsInv'
<1>1. /\ None \notin DOMAIN net /\ \A b \in ui.busy : b # Loading => b.slot # "loading"
      /\ Loading.slot = "loading"
  BY FlagFacts
<1>2. ASSUME NEW o, NEW x, OpensModal(o, x)
      PROVE  FlagsInv'
  <2>. DEFINE modal == [op |-> o, of |-> x]
  <2>1. ~OthersInForm(None)
    BY <1>2, FlagFacts DEF OpensModal, Uncovered, OthersInForm
  <2>2. Moves(None, FALSE, {}) /\ UiIs(ui.busy, modal, ui.items, ui.later, ui.sel)
    BY <1>2 DEF OpensModal
  <2>. HIDE DEF modal
  <2>3. KeepsForm(None, FALSE, {}, ui.busy, modal)
    BY <2>1 DEF KeepsForm
  <2>4. KeepsPage(None, {}, ui.busy) /\ KeepsUploads(FALSE, {}) /\ KeepsHeld(None, FALSE, {}, ui.busy)
    BY <1>1 DEF KeepsPage, KeepsUploads, KeepsHeld, IsTaken
  <2>. QED BY <2>2, <2>3, <2>4, FlagsMoved
<1>3. CASE ClosesForm
  <2>. DEFINE busy == Freed(ui.busy, "modal")
  <2>1. /\ Moves(None, TRUE, {}) /\ UiIs(busy, NoModal, ui.items, ui.later, ui.sel)
        /\ Ops[ui.modal.op].shuts \/ ~IsTaken("modal")
    BY <1>3 DEF ClosesForm, IsTaken
  <2>2. \A b : b \in busy <=> b \in ui.busy /\ b.slot # "modal"
    BY DEF Freed
  <2>. HIDE DEF busy
  <2>3. KeepsForm(None, TRUE, {}, busy, NoModal)
    BY DEF KeepsForm
  <2>4. KeepsPage(None, {}, busy)
    <3>. SUFFICES ASSUME NEW s \in OwnSlots, IsTaken(s) PROVE \E b \in busy : b.slot = s
      BY DEF KeepsPage
    <3>. QED BY <2>2 DEF OwnSlots, IsTaken
  <2>5. KeepsUploads(TRUE, {})
    BY <2>1, FlagFacts DEF KeepsUploads
  <2>6. KeepsHeld(None, TRUE, {}, busy)
    BY <1>1, <2>2 DEF KeepsHeld
  <2>. QED BY <2>1, <2>3, <2>4, <2>5, <2>6, FlagsMoved
<1>. QED BY <1>2, <1>3

\* The list is asked for, and taken; rows are selected.
LEMMA ListKeepsFlags ==
  ASSUME page \in InventoryPages, ThingsForm, FlagsInv,
         AsksList \/ Selects \/ \E i \in DOMAIN net : TakesList(i)
  PROVE  FlagsInv'
<1>1. /\ None \notin DOMAIN net /\ \A b \in ui.busy : b # Loading => b.slot # "loading"
      /\ Loading.slot = "loading"
  BY FlagFacts
<1>2. CASE AsksList
  <2>. DEFINE busy == BusyLoading(ui.busy)
  <2>1. PICK later \in {ui.later, FALSE} :
          /\ Moves(None, FALSE, {LoadRequest})
          /\ UiIs(busy, ui.modal, ui.items, later, ui.sel)
    BY <1>2 DEF AsksList
  <2>2. /\ \A b \in ui.busy : b \in busy
        /\ \A b \in busy : b = Loading \/ b \in ui.busy
    BY DEF BusyLoading
  <2>3. LoadRequest.by = "load"
    BY ThingsAsk
  <2>. HIDE DEF busy
  <2>4. KeepsForm(None, FALSE, {LoadRequest}, busy, ui.modal)
    BY <2>2, <2>3 DEF KeepsForm, InForm, IsTaken
  <2>5. KeepsPage(None, {LoadRequest}, busy)
    BY <2>2, <2>3 DEF KeepsPage, IsOp, IsTaken
  <2>6. KeepsUploads(FALSE, {LoadRequest})
    BY <2>3 DEF KeepsUploads, IsUpload
  <2>7. KeepsHeld(None, FALSE, {LoadRequest}, busy)
    BY <1>1, <2>2, <2>3 DEF KeepsHeld, Reads3
  <2>. QED BY <2>1, <2>4, <2>5, <2>6, <2>7, FlagsMoved
<1>3. CASE Selects
  <2>1. PICK sel \in SUBSET Things : UiIs(ui.busy, ui.modal, ui.items, ui.later, sel)
    BY <1>3 DEF Selects
  <2>2. Moves(None, FALSE, {})
    BY <1>3 DEF Selects
  <2>3. KeepsForm(None, FALSE, {}, ui.busy, ui.modal)
    BY DEF KeepsForm, IsTaken
  <2>4. KeepsPage(None, {}, ui.busy) /\ KeepsUploads(FALSE, {}) /\ KeepsHeld(None, FALSE, {}, ui.busy)
    BY <1>1 DEF KeepsPage, KeepsUploads, KeepsHeld, IsTaken
  <2>. QED BY <2>1, <2>2, <2>3, <2>4, FlagsMoved
<1>4. ASSUME NEW i \in DOMAIN net, TakesList(i)
      PROVE  FlagsInv'
  <2>. DEFINE busy == IF net[i].by = "load" THEN ui.busy \ {Loading}
                      ELSE Freed(ui.busy \ {Loading}, "row")
              items == IF net[i].state = "done" THEN Head(net[i].reply) ELSE ui.items
  <2>1. /\ Moves(i, FALSE, {}) /\ UiIs(busy, ui.modal, items, ui.later, ui.sel)
        /\ net[i].by \in Reads3
    BY <1>4 DEF TakesList
  <2>2. /\ \A b \in busy : /\ b \in ui.busy /\ b # Loading
                           /\ net[i].by = "wait" => b.slot # "row"
        /\ \A b \in ui.busy : b # Loading /\ b.slot # "row" => b \in busy
    BY <2>1 DEF Freed, Reads3
  <2>. HIDE DEF busy, items
  <2>3. \A s : s \notin {"loading", "row"} /\ IsTaken(s) => \E b \in busy : b.slot = s
    BY <1>1, <2>2 DEF IsTaken
  <2>4. KeepsForm(i, FALSE, {}, busy, ui.modal)
    BY <2>3 DEF KeepsForm
  <2>5. KeepsPage(i, {}, busy)
    BY <2>3 DEF KeepsPage, OwnSlots
  <2>6. KeepsUploads(FALSE, {})
    BY DEF KeepsUploads
  <2>7. KeepsHeld(i, FALSE, {}, busy)
    BY <1>1, <2>1, <2>2 DEF KeepsHeld, Holds, IsOp, Reads3
  <2>. QED BY <2>1, <2>4, <2>5, <2>6, <2>7, FlagsMoved
<1>. QED BY <1>2, <1>3, <1>4

\* A click on several containers starts, goes on and ends.
LEMMA TurnsKeepFlags ==
  ASSUME page \in InventoryPages, ThingsForm, FlagsInv, Turns
  PROVE  FlagsInv'
<1>1. /\ None \notin DOMAIN net /\ \A b \in ui.busy : b # Loading => b.slot # "loading"
      /\ Loading.slot = "loading"
  BY FlagFacts
<1>. DEFINE BusyOf(x) == IF x.by = "stack" THEN Taken(x.arg.op, x.arg.of) ELSE ui.busy
<1>2. ASSUME NEW i, NEW x, Moves(i, FALSE, {x}), x.by \in Runs,
             NEW later, UiIs(BusyOf(x), ui.modal, ui.items, later, ui.sel),
             i \in DOMAIN net => net[i].by = x.by
      PROVE  FlagsInv'
  <2>. DEFINE busy == BusyOf(x)
  <2>1. ThingRequest(x)
    BY <1>2 DEF Moves
  <2>2. x.by = "stack" => Ops[x.arg.op].slot = "row"
    <3>1. page = "containers" /\ x.arg.op \in {"start", "stop", "restart"}
      BY <1>2, <2>1 DEF ThingRequest, Runs, Reads3
    <3>. QED BY <3>1, TheTables DEF Entry
  <2>3. /\ \A s : IsTaken(s) => \E b \in busy : b.slot = s
        /\ \A b \in busy : \/ b \in ui.busy /\ (x.by = "stack" => b.slot # "row")
                           \/ b.slot = "row" /\ x.by = "stack"
    <3>1. CASE x.by = "stack"
      BY <2>2, <3>1, TakenStays
    <3>2. CASE x.by # "stack"
      BY <3>2 DEF IsTaken
    <3>. QED BY <3>1, <3>2
  <2>4. UiIs(busy, ui.modal, ui.items, later, ui.sel)
    BY <1>2
  <2>. HIDE DEF busy, BusyOf
  <2>5. x.by # "op" /\ x.by \notin Reads3 /\ x.by # "wait"
    BY <1>2 DEF Runs, Reads3
  <2>6. KeepsForm(i, FALSE, {x}, busy, ui.modal)
    BY <2>3, <2>5 DEF KeepsForm, InForm
  <2>7. KeepsPage(i, {x}, busy)
    BY <2>3, <2>5 DEF KeepsPage, IsOp
  <2>8. KeepsUploads(FALSE, {x})
    BY <2>5 DEF KeepsUploads, IsUpload
  <2>9. KeepsHeld(i, FALSE, {x}, busy)
    BY <1>1, <1>2, <2>3, <2>5 DEF KeepsHeld, Holds, IsOp
  <2>. QED BY <1>2, <2>4, <2>6, <2>7, <2>8, <2>9, FlagsMoved
<1>3. ASSUME NEW x, StartsRun(x) PROVE FlagsInv'
  BY <1>1, <1>2, <1>3 DEF StartsRun
<1>4. ASSUME NEW i \in DOMAIN net, NEW x, GoesOn(i, x) PROVE FlagsInv'
  BY <1>2, <1>4 DEF GoesOn
<1>5. ASSUME NEW i \in DOMAIN net, EndsRun(i) PROVE FlagsInv'
  <2>. DEFINE busy == IF net[i].by = "stack" THEN Freed(ui.busy, "row") ELSE ui.busy
  <2>1. PICK later \in BOOLEAN, sel \in SUBSET Things :
          UiIs(busy, ui.modal, ui.items, later, sel)
    BY <1>5 DEF EndsRun
  <2>2. Moves(i, FALSE, {}) /\ net[i].by \in Runs
    BY <1>5 DEF EndsRun
  <2>3. /\ \A s : s # "row" /\ IsTaken(s) => \E b \in busy : b.slot = s
        /\ \A b \in busy : b \in ui.busy /\ (net[i].by = "stack" => b.slot # "row")
    BY DEF Freed, IsTaken
  <2>. HIDE DEF busy
  <2>4. KeepsForm(i, FALSE, {}, busy, ui.modal)
    BY <2>3 DEF KeepsForm
  <2>5. KeepsPage(i, {}, busy)
    BY <2>3 DEF KeepsPage, OwnSlots
  <2>6. KeepsUploads(FALSE, {})
    BY DEF KeepsUploads
  <2>7. KeepsHeld(i, FALSE, {}, busy)
    BY <1>1, <2>2, <2>3 DEF KeepsHeld, Holds, IsOp, Runs, Reads3
  <2>. QED BY <2>1, <2>2, <2>4, <2>5, <2>6, <2>7, FlagsMoved
<1>. QED BY <1>3, <1>4, <1>5 DEF Turns

\* What is under way when the answer to an operation is taken.
LEMMA ReleasedIs ==
  ASSUME page \in InventoryPages, ThingsForm, FlagsInv, NEW i \in DOMAIN net, net[i].by = "op",
         NEW closed
  PROVE  LET a == net[i].arg
             busy == Released(a, closed)
         IN /\ \A b \in busy : b \in ui.busy /\ (closed => b.slot # "modal") /\ ~Holds(net[i], b.slot)
            /\ \A b \in ui.busy : b \in busy \/ IsOp(net[i], b.slot) \/ (closed /\ b.slot = "modal")
<1>. DEFINE a == net[i].arg
            slot == Ops[a.op].slot
            kept == IF slot = "modal" /\ ~a.mounted THEN ui.busy ELSE Freed(ui.busy, slot)
<1>1. a.mounted \in BOOLEAN
  BY DEF ThingsForm, ThingRequest, Reads3
<1>2. Released(a, closed) = IF closed THEN Freed(kept, "modal") ELSE kept
  BY DEF Released
<1>3. \A s : Holds(net[i], s) <=> slot = s /\ (s = "modal" => a.mounted)
  BY DEF Holds, IsOp
<1>4. /\ \A b \in kept : b \in ui.busy /\ ~Holds(net[i], b.slot)
      /\ \A b \in ui.busy : b \in kept \/ (slot = b.slot /\ (b.slot = "modal" => a.mounted))
  <2>1. CASE slot = "modal" /\ ~a.mounted
    BY <1>3, <2>1
  <2>2. CASE ~(slot = "modal" /\ ~a.mounted)
    <3>1. kept = {b \in ui.busy : b.slot # slot}
      BY <2>2 DEF Freed
    <3>. HIDE DEF kept, slot
    <3>. QED BY <1>1, <1>3, <2>2, <3>1
  <2>. QED BY <2>1, <2>2
<1>5. \A s : slot = s /\ (s = "modal" => a.mounted) => IsOp(net[i], s)
  BY DEF IsOp
<1>. HIDE DEF kept, slot, a
<1>6. CASE closed
  <2>1. Released(a, closed) = {b \in kept : b.slot # "modal"}
    BY <1>2, <1>6 DEF Freed
  <2>. QED BY <1>4, <1>5, <1>6, <2>1 DEF a
<1>7. CASE ~closed
  BY <1>2, <1>4, <1>5, <1>7 DEF a
<1>. QED BY <1>6, <1>7

\* The answer to an operation is taken.
LEMMA AnswersKeepFlags ==
  ASSUME page \in InventoryPages, ThingsForm, FlagsInv, Answers
  PROVE  FlagsInv'
<1>1. /\ Loading.slot = "loading" /\ \A b \in ui.busy : b # Loading => b.slot # "loading"
      /\ LoadRequest.by = "load"
  BY FlagFacts, ThingsAsk
<1>2. PICK i \in DOMAIN net, ok \in BOOLEAN : \E closed, busy, modal :
             OpEnds(i, ok, closed, busy, modal)
  BY DEF Answers
<1>3. PICK closed, busy, modal : OpEnds(i, ok, closed, busy, modal)
  BY <1>2
<1>4. /\ net[i].by = "op" /\ closed = Closes(net[i].arg, ok) /\ busy = Released(net[i].arg, closed)
      /\ modal = IF closed THEN NoModal ELSE ui.modal
  BY <1>3 DEF OpEnds
<1>. DEFINE e == Ops[net[i].arg.op]
<1>5. Entry(page, net[i].arg.op, e) /\ net[i].arg.op \in DOMAIN Ops /\ net[i].arg.of \in Things
  BY <1>4, FlagFacts
<1>6. /\ \A b \in busy : b \in ui.busy /\ (closed => b.slot # "modal") /\ ~Holds(net[i], b.slot)
      /\ \A b \in ui.busy : b \in busy \/ IsOp(net[i], b.slot) \/ (closed /\ b.slot = "modal")
  BY <1>4, ReleasedIs
<1>7. \A s \in OwnSlots : IsTaken(s) => (\E b \in busy : b.slot = s) \/ IsOp(net[i], s)
  BY <1>6 DEF IsTaken, OwnSlots
<1>8. KeepsUploads(closed, {})
  <2>. SUFFICES ASSUME closed, NEW k \in DOMAIN net, IsUpload(net[k]) PROVE FALSE
    BY DEF KeepsUploads
  <2>1. Ops[ui.modal.op].closes = "never"
    BY FlagFacts
  <2>. QED BY <1>4, <2>1 DEF Closes
<1>9. ~closed /\ Ops[ui.modal.op].blocked = "slot" /\ ui.modal # NoModal /\ OthersInForm(i)
      /\ IsTaken("modal") => \E b \in busy : b.slot = "modal"
  <2>. SUFFICES ASSUME ~closed, Ops[ui.modal.op].blocked = "slot", ui.modal # NoModal,
                       OthersInForm(i), NEW b \in ui.busy, b.slot = "modal"
       PROVE  b \in busy
    BY DEF IsTaken
  <2>1. ~InForm(net[i])
    BY DEF OthersInForm, FlagsInv, FormOnce
  <2>2. ~IsOp(net[i], "modal")
    BY <2>1 DEF IsOp, InForm
  <2>. QED BY <1>6, <2>2
<1>10. KeepsForm(i, closed, {}, busy, modal)
  BY <1>4, <1>9 DEF KeepsForm
<1>11. KeepsPage(i, {}, busy)
  BY <1>7 DEF KeepsPage
<1>12. KeepsHeld(i, closed, {}, busy)
  <2>1. net[i].by \notin Reads3
    BY <1>4 DEF Reads3
  <2>. QED BY <1>1, <1>6, <2>1 DEF KeepsHeld
<1>13. \A xs, more : (\A x \in xs : x.by \in Reads3) /\ (\A b \in busy : b \in more)
                     => KeepsForm(i, closed, xs, more, modal) /\ KeepsPage(i, xs, more)
                        /\ KeepsUploads(closed, xs)
  <2>. SUFFICES ASSUME NEW xs, NEW more, \A x \in xs : x.by \in Reads3, \A b \in busy : b \in more
       PROVE  KeepsForm(i, closed, xs, more, modal) /\ KeepsPage(i, xs, more) /\ KeepsUploads(closed, xs)
    OBVIOUS
  <2>1. \A x \in xs : x.by # "op"
    BY DEF Reads3
  <2>2. KeepsForm(i, closed, xs, more, modal)
    BY <1>10, <2>1 DEF KeepsForm, InForm
  <2>3. KeepsPage(i, xs, more)
    BY <1>11, <2>1 DEF KeepsPage, IsOp
  <2>4. KeepsUploads(closed, xs)
    BY <1>8, <2>1 DEF KeepsUploads, IsUpload
  <2>. QED BY <2>2, <2>3, <2>4
<1>14. CASE EndsPlain(i, ok, closed, busy, modal) \/ EndsLater(i, ok, closed, busy, modal)
  BY <1>8, <1>10, <1>11, <1>12, <1>14, FlagsMoved DEF EndsPlain, EndsLater
<1>15. CASE EndsReload(i, ok, closed, busy, modal)
  <2>. DEFINE more == BusyLoading(busy)
  <2>1. Moves(i, closed, {LoadRequest}) /\ UiIs(more, modal, ui.items, ui.later, ui.sel)
    BY <1>15 DEF EndsReload
  <2>2. (\A b \in busy : b \in more) /\ \A b \in more : b \in busy \/ b = Loading
    BY DEF BusyLoading
  <2>. HIDE DEF more
  <2>3. KeepsForm(i, closed, {LoadRequest}, more, modal) /\ KeepsPage(i, {LoadRequest}, more)
        /\ KeepsUploads(closed, {LoadRequest})
    BY <1>1, <1>13, <2>2 DEF Reads3
  <2>4. KeepsHeld(i, closed, {LoadRequest}, more)
    BY <1>1, <1>12, <2>2 DEF KeepsHeld, Reads3
  <2>. QED BY <2>1, <2>3, <2>4, FlagsMoved
<1>16. CASE EndsWait(i, ok, closed)
  <2>. DEFINE more == BusyLoading(ui.busy)
              x == Request("wait", ListCalls[page], NoArg)
              sel == ui.sel \ {net[i].arg.of}
  <2>1. Moves(i, closed, {x}) /\ UiIs(more, modal, ui.items, ui.later, sel) /\ ~closed
        /\ e.then = "wait"
    BY <1>4, <1>16 DEF EndsWait
  <2>2. (\A b \in ui.busy : b \in more) /\ \A b \in more : b \in ui.busy \/ b = Loading
    BY DEF BusyLoading
  <2>3. x.by = "wait"
    BY ThingsAsk
  <2>4. e.slot = "row"
    BY <1>5, <2>1 DEF Entry
  <2>. HIDE DEF more, x, sel
  <2>5. KeepsForm(i, closed, {x}, more, modal) /\ KeepsPage(i, {x}, more)
        /\ KeepsUploads(closed, {x})
    BY <1>6, <1>13, <2>2, <2>3 DEF Reads3
  <2>6. KeepsHeld(i, closed, {x}, more)
    <3>. SUFFICES ASSUME NEW b \in more
         PROVE  b = Loading \/ (b.slot # "loading" /\ (Holds(x, b.slot)
                  \/ (b \in ui.busy /\ ~Holds(net[i], b.slot))))
      BY <2>1, <2>3 DEF KeepsHeld, Reads3
    <3>1. \A s : Holds(net[i], s) => s = "row"
      BY <1>4, <2>4 DEF Holds, IsOp
    <3>2. Holds(x, "row")
      BY <2>3 DEF Holds
    <3>. QED BY <1>1, <2>2, <3>1, <3>2
  <2>. QED BY <2>1, <2>5, <2>6, FlagsMoved
<1>17. CASE EndsLoad(i, ok, closed)
  <2>. DEFINE y == Ask("load", net[i].arg.of)
  <2>1. Moves(i, closed, {y}) /\ UiIs(ui.busy, modal, ui.items, ui.later, ui.sel) /\ ~closed
        /\ e.then = "load" /\ modal = ui.modal
    BY <1>4, <1>17 DEF EndsLoad
  <2>2. page = "images" /\ net[i].arg.op = "upload"
    BY <1>5, <2>1 DEF Entry
  <2>3. IsUpload(net[i])
    BY <1>4, <2>2 DEF IsUpload
  <2>4. /\ ui.modal.op = "upload" /\ IsTaken("modal") /\ ~OthersInForm(i)
        /\ ui.modal # NoModal /\ InForm(net[i])
    BY <2>3, FlagFacts
  <2>5. "load" \in DOMAIN Ops /\ Ops["load"].slot = "modal"
    BY <2>2, TheTables DEF Entry
  <2>6. y.by = "op" /\ y.arg.op = "load" /\ y.arg.mounted = TRUE
    <3>1. y.by = "op" /\ y.arg = Argument("load", net[i].arg.of)
      BY <1>5, <2>5, ThingsAsk
    <3>2. Argument("load", net[i].arg.of).op = "load" /\ Argument("load", net[i].arg.of).mounted = TRUE
      BY DEF Argument
    <3>. QED BY <3>1, <3>2
  <2>. HIDE DEF y
  <2>7. OfModal(y, ui.modal)
    BY <2>2, <2>4, <2>6 DEF OfModal
  <2>8. KeepsForm(i, closed, {y}, ui.busy, modal)
    BY <2>1, <2>4, <2>7 DEF KeepsForm, IsTaken
  <2>9. KeepsPage(i, {y}, ui.busy)
    BY <2>5, <2>6 DEF KeepsPage, IsOp, IsTaken, OwnSlots
  <2>10. KeepsUploads(closed, {y})
    BY <2>1, <2>6 DEF KeepsUploads
  <2>11. KeepsHeld(i, closed, {y}, ui.busy)
    <3>. SUFFICES ASSUME NEW b \in ui.busy
         PROVE  b = Loading \/ (b.slot # "loading" /\ (Holds(y, b.slot) \/ ~Holds(net[i], b.slot)))
      BY <1>4, <2>1 DEF KeepsHeld, Reads3
    <3>1. Holds(y, "modal")
      BY <2>5, <2>6 DEF Holds, IsOp
    <3>2. Ops[net[i].arg.op].slot = "modal"
      BY <2>4 DEF InForm
    <3>3. \A s : Holds(net[i], s) => s = "modal"
      BY <1>4, <3>2 DEF Holds, IsOp
    <3>. QED BY <1>1, <3>1, <3>3
  <2>. QED BY <2>1, <2>8, <2>9, <2>10, <2>11, FlagsMoved
<1>18. CASE EndsPlan(i, ok, closed, busy)
  <2>. DEFINE plan == [op |-> "restore", of |-> net[i].arg.of]
  <2>1. Moves(i, closed, {}) /\ UiIs(busy, plan, ui.items, ui.later, ui.sel) /\ e.then = "plan"
    BY <1>18 DEF EndsPlan
  <2>2. page = "backups"
    BY <1>5, <2>1 DEF Entry
  <2>. HIDE DEF plan
  <2>3. ~OthersInForm(i)
    BY <2>2, FlagFacts DEF OthersInForm
  <2>4. KeepsForm(i, closed, {}, busy, plan)
    BY <2>3 DEF KeepsForm
  <2>. QED BY <1>8, <1>11, <1>12, <2>1, <2>4, FlagsMoved
<1>. QED BY <1>3, <1>14, <1>15, <1>16, <1>17, <1>18 DEF OpEnds

LEMMA ThingsKeepFlags ==
  ASSUME page \in InventoryPages, ThingsForm, FlagsInv, ThingsMove
  PROVE  FlagsInv'
<1>1. CASE Serves1
  BY <1>1, FlagsServed DEF Serves1
<1>2. CASE Clicks
  BY <1>2, RunKeepsFlags, ModalKeepsFlags DEF Clicks
<1>3. CASE Answers
  BY <1>3, AnswersKeepFlags
<1>4. CASE Turns
  BY <1>4, TurnsKeepFlags
<1>5. CASE Rest1
  BY <1>5, ModalKeepsFlags, ListKeepsFlags DEF Rest1
<1>. QED BY <1>1, <1>2, <1>3, <1>4, <1>5 DEF ThingsMove

\* A page of the inventory opens with its list asked for.
LEMMA FlagsOpen ==
  ASSUME ConsoleInit, page \in InventoryPages
  PROVE  FlagsInv
<1>1. InventoryInit
  BY OpensConsole
<1>2. ui.busy = (IF page \in Hiding THEN {Loading} ELSE {}) /\ ui.modal = NoModal
  BY <1>1 DEF InventoryInit
<1>. DEFINE x == LoadRequest
<1>3. net = <<x>>
  BY <1>1 DEF InventoryInit
<1>4. x.by = "load"
  BY ThingsAsk
<1>. HIDE DEF x
<1>5. DOMAIN net = {1} /\ net[1].by = "load"
  BY <1>3, <1>4
<1>6. FormOnce /\ PageOnce /\ UploadsStay
  BY <1>5 DEF FormOnce, PageOnce, UploadsStay, InForm, IsOp, IsUpload
<1>7. BusyHeld
  BY <1>2, <1>5 DEF BusyHeld, Waits, WaitsIn, Reads3
<1>. QED BY <1>6, <1>7 DEF FlagsInv

LEMMA ThingsOnce ==
  ASSUME ConsoleForm, page \in InventoryPages => FlagsInv
  PROVE  OnceSent
<1>. SUFFICES ASSUME page \in InventoryPages, NEW i \in DOMAIN net, NEW j \in DOMAIN net,
              net[i].by = "op", net[j].by = "op", net[i].arg.op = net[j].arg.op,
              net[i].arg.mounted, net[j].arg.mounted, Ops[net[i].arg.op].blocked = "slot"
     PROVE  i = j
  BY DEF OnceSent
<1>. DEFINE o == net[i].arg.op
<1>1. ThingsForm /\ FlagsInv
  BY DEF ConsoleForm
<1>2. Entry(page, o, Ops[o])
  BY <1>1, FlagFacts
<1>3. CASE Ops[o].slot = "modal"
  <2>1. InForm(net[i]) /\ InForm(net[j])
    BY <1>3 DEF InForm
  <2>2. OfModal(net[i], ui.modal)
    BY <1>1, <2>1 DEF FlagsInv, FormOnce
  <2>3. ui.modal # NoModal /\ Ops[ui.modal.op].blocked = "slot"
    <3>1. CASE ui.modal.op = o
      BY <2>2, <3>1 DEF OfModal
    <3>2. CASE page = "images" /\ ui.modal.op = "upload"
      BY <1>1, <2>2, <3>2, FlagFacts DEF OfModal, Entry
    <3>. QED BY <2>2, <3>1, <3>2 DEF OfModal
  <2>. QED BY <1>1, <2>1, <2>3 DEF FlagsInv, FormOnce
<1>4. CASE Ops[o].slot # "modal"
  <2>1. Ops[o].slot \in OwnSlots
    BY <1>2, <1>4 DEF Entry, OwnSlots
  <2>2. IsOp(net[i], Ops[o].slot) /\ IsOp(net[j], Ops[o].slot)
    BY <1>4 DEF IsOp
  <2>. QED BY <1>1, <2>1, <2>2 DEF FlagsInv, PageOnce
<1>. QED BY <1>3, <1>4

\* What a page of the inventory always satisfies.
ThingsInv == page \in InventoryPages => FlagsInv

LEMMA ThingsInvHolds == ConsoleSpec => [](ConsoleForm /\ ThingsInv)
<1>1. ConsoleInit => ConsoleForm /\ ThingsInv
  BY ConsoleOpens, FlagsOpen DEF ThingsInv
<1>2. ConsoleForm /\ ThingsInv /\ [ConsoleNext]_webVars => (ConsoleForm /\ ThingsInv)'
  <2>. SUFFICES ASSUME ConsoleForm, ThingsInv, [ConsoleNext]_webVars
       PROVE  ConsoleForm' /\ ThingsInv'
    OBVIOUS
  <2>1. ConsoleForm' /\ page' = page
    BY PageStays DEF session
  <2>2. CASE page \notin InventoryPages
    BY <2>1, <2>2 DEF ThingsInv, InventoryPages
  <2>3. CASE page \in InventoryPages /\ ConsoleNext
    <3>1. InventoryNext /\ ThingsForm
      BY <2>3, OnConsole DEF ConsoleForm
    <3>2. FlagsInv'
      BY <2>3, <3>1, ThingsMoves, ThingsKeepFlags DEF ThingsInv
    <3>. QED BY <2>1, <3>2 DEF ThingsInv
  <2>4. CASE UNCHANGED webVars
    <3>1. page' = page /\ ui' = ui /\ net' = net
      BY <2>4 DEF webVars
    <3>2. /\ Ops' = Ops /\ (\A x : InForm(x)' <=> InForm(x)) /\ (\A s : IsTaken(s)' <=> IsTaken(s))
          /\ \A x, s : IsOp(x, s)' <=> IsOp(x, s)
      BY <3>1 DEF Ops, InForm, IsTaken, IsOp
    <3>3. FormOnce => FormOnce'
      BY <3>1, <3>2 DEF FormOnce, OfModal, InForm
    <3>4. PageOnce => PageOnce'
      BY <3>1, <3>2 DEF PageOnce, IsOp
    <3>5. UploadsStay => UploadsStay'
      BY <3>1 DEF UploadsStay, IsUpload
    <3>6. BusyHeld => BusyHeld'
      BY <3>1, <3>2 DEF BusyHeld, Waits, WaitsIn, Holds, IsOp
    <3>7. InventoryPages' = InventoryPages
      BY DEF InventoryPages
    <3>. QED BY <2>1, <3>1, <3>3, <3>4, <3>5, <3>6, <3>7 DEF ThingsInv, FlagsInv
  <2>. QED BY <2>1, <2>2, <2>3, <2>4
<1>. QED BY <1>1, <1>2, PTL DEF ConsoleSpec

\* The pages that list what the host has: an operation whose control its own
\* slot disables is not under way twice from one form or page, although other
\* operations take and free the same slot and a form may be closed meanwhile.
THEOREM OnceCorrect == ConsoleSpec => []OnceSent
<1>1. ConsoleForm /\ ThingsInv => OnceSent
  BY ThingsOnce DEF ThingsInv
<1>. QED BY <1>1, ThingsInvHolds, PTL

-----------------------------------------------------------------------------
(* What the flags of the other pages wait for *)

TraceFlags ==
  /\ DOMAIN ui = {"busy", "open", "loaded"} /\ AreRequests(net)
  /\ ui.busy = {} \/ Waits({"toggle"})

ScheduleFlags == "busy" \in DOMAIN ui /\ ui.busy = {}

FileFlags ==
  /\ DOMAIN ui = {"busy", "cwd", "entries", "sel", "search", "viewer", "modal"}
  /\ AreRequests(net) /\ ui.busy \subseteq {"loading", "searching", "saving"}
  /\ "loading" \in ui.busy => Waits({"browse"})
  /\ "searching" \in ui.busy => Waits({"search"})
  /\ "saving" \in ui.busy => Waits({"save"})

LEMMA TraceKeepsFlags ==
  ASSUME TraceNext, TraceFlags
  PROVE  TraceFlags'
<1>1. CASE Fault \/ Tells("toggle", "trace")
  <2>1. ui' = ui /\ Stays
    BY <1>1, FaultStays, TellsStays
  <2>. QED BY <2>1, StaysKeeps DEF TraceFlags
<1>2. CASE Toggle
  <2>1. CASE net' = net /\ ui' = [ui EXCEPT !.open = ~@]
    BY <2>1 DEF TraceFlags, Waits
  <2>2. CASE Asked("toggle") /\ ui' = [ui EXCEPT !.busy = {"loading"}]
    <3>1. DOMAIN ui' = DOMAIN ui
      BY <2>2
    <3>. QED BY <2>2, <3>1, AskedKeeps DEF TraceFlags
  <2>. QED BY <1>2, <2>1, <2>2 DEF Toggle, Asks, Becomes, PageIs, Asked
<1>3. CASE TraceRead
  <2>1. Drops({"toggle"}) /\ ui' = [ui EXCEPT !.loaded = TRUE, !.busy = {}, !.open = ~@]
    BY <1>3 DEF TraceRead, Finally, Then, ThenAsks, Catch, Arrived, Failed, Drops, Removed, PageIs
  <2>2. DOMAIN ui' = DOMAIN ui /\ ui'.busy = {}
    BY <2>1 DEF TraceFlags
  <2>. QED BY <2>1, <2>2, DropsKeeps DEF TraceFlags
<1>. QED BY <1>1, <1>2, <1>3 DEF TraceNext

LEMMA ScheduleKeepsFlags ==
  ASSUME BackupScheduleNext, ScheduleFlags
  PROVE  ScheduleFlags'
<1>1. CASE ScheduleLoaded \/ ScheduleSaved \/ EditSchedule
  <2>1. \/ \E s : ui' = [ui EXCEPT !.form = [shown |-> TRUE, sched |-> s]]
        \/ \E s : ui' = [ui EXCEPT !.form.sched = s, !.edited = FALSE]
        \/ \E s : ui' = [ui EXCEPT !.form.sched = Stored(s, @.last), !.edited = TRUE]
    BY <1>1 DEF ScheduleLoaded, ScheduleSaved, EditSchedule, Then, ThenAsks, Becomes, PageIs
  <2>. QED BY <2>1 DEF ScheduleFlags
<1>2. CASE ~(ScheduleLoaded \/ ScheduleSaved \/ EditSchedule)
  <2>1. ui' = ui
    BY <1>2 DEF BackupScheduleNext, Tick, BackupMade, BackupFails, ApplyRetention, StampLastRun,
      Crash, TimePasses, SaveSchedule, ServeSave, Tells, DropError, Forbid, Elsewhere, ServerIs,
      PageIs, NetOnly, Becomes, Asks, Finds, Makes, Does, Catch
  <2>. QED BY <2>1 DEF ScheduleFlags
<1>. QED BY <1>1, <1>2

\* What a step of the page of the files does with the requests and the flags.
FilesStep ==
  /\ DOMAIN ui' = DOMAIN ui
  /\ \/ Stays /\ ui'.busy \subseteq ui.busy
     \/ Asked("browse") /\ ui'.busy = ui.busy \cup {"loading"}
     \/ Asked("search") /\ ui'.busy = ui.busy \cup {"searching"}
     \/ Asked("save") /\ ui'.busy = ui.busy \cup {"saving"}
     \/ \E by \in {"change", "upload", "open"} : Asked(by) /\ ui'.busy = ui.busy
     \/ Drops({"browse"}) /\ ui'.busy = ui.busy \ {"loading"}
     \/ Drops({"search"}) /\ ui'.busy = ui.busy \ {"searching"}
     \/ Drops({"save"}) /\ ui'.busy = ui.busy \ {"saving"}
     \/ Drops({"change", "open"}) /\ ui'.busy = ui.busy
     \/ Swaps({"change", "upload"}, "browse") /\ ui'.busy = ui.busy \cup {"loading"}
     \/ Swaps({"upload"}, "upload") /\ ui'.busy = ui.busy

LEMMA FilesStepKeeps ==
  ASSUME FileFlags, FilesStep
  PROVE  FileFlags'
<1>1. CASE Stays /\ ui'.busy \subseteq ui.busy
  BY <1>1, StaysKeeps DEF FileFlags, FilesStep
<1>2. ASSUME NEW by \in {"browse", "search", "save", "change", "upload", "open"}, Asked(by),
             ui'.busy \subseteq ui.busy \cup (CASE by = "browse" -> {"loading"}
                                                [] by = "search" -> {"searching"}
                                                [] by = "save" -> {"saving"}
                                                [] OTHER -> {})
      PROVE  FileFlags'
  <2>1. \A W : AreRequests(net)' /\ (by \in W => Waits(W)') /\ (Waits(W) => Waits(W)')
    BY <1>2, AskedKeeps DEF FileFlags
  <2>. QED BY <1>2, <2>1 DEF FileFlags, FilesStep
<1>3. ASSUME NEW bys, Drops(bys),
             \/ bys = {"browse"} /\ ui'.busy = ui.busy \ {"loading"}
             \/ bys = {"search"} /\ ui'.busy = ui.busy \ {"searching"}
             \/ bys = {"save"} /\ ui'.busy = ui.busy \ {"saving"}
             \/ bys = {"change", "open"} /\ ui'.busy = ui.busy
      PROVE  FileFlags'
  <2>1. AreRequests(net)' /\ \A W : (\A b \in bys : b \notin W) => (Waits(W)' <=> Waits(W))
    BY <1>3, DropsKeeps DEF FileFlags
  <2>2. /\ "browse" \notin bys => (Waits({"browse"})' <=> Waits({"browse"}))
        /\ "search" \notin bys => (Waits({"search"})' <=> Waits({"search"}))
        /\ "save" \notin bys => (Waits({"save"})' <=> Waits({"save"}))
    BY <2>1
  <2>. QED BY <1>3, <2>1, <2>2 DEF FileFlags, FilesStep
<1>4. ASSUME NEW bys \in SUBSET {"change", "upload"}, NEW by, Swaps(bys, by),
             \/ by = "browse" /\ ui'.busy = ui.busy \cup {"loading"}
             \/ by = "upload" /\ ui'.busy = ui.busy
      PROVE  FileFlags'
  <2>1. /\ AreRequests(net)'
        /\ \A W : /\ by \in W => Waits(W)'
                  /\ by \notin W /\ (\A b \in bys : b \notin W) => (Waits(W)' <=> Waits(W))
    BY <1>4, SwapsKeeps DEF FileFlags
  <2>2. \A w \in {"browse", "search", "save"} : Waits({w}) => Waits({w})'
    <3>. SUFFICES ASSUME NEW w \in {"browse", "search", "save"}, Waits({w}) PROVE Waits({w})'
      OBVIOUS
    <3>1. \A b \in bys : b \notin {w}
      OBVIOUS
    <3>. QED BY <2>1, <3>1
  <2>. QED BY <1>4, <2>1, <2>2 DEF FileFlags, FilesStep
<1>. QED
  <2>1. CASE \/ Stays /\ ui'.busy \subseteq ui.busy
             \/ Asked("browse") /\ ui'.busy = ui.busy \cup {"loading"}
             \/ Asked("search") /\ ui'.busy = ui.busy \cup {"searching"}
             \/ Asked("save") /\ ui'.busy = ui.busy \cup {"saving"}
             \/ \E by \in {"change", "upload", "open"} : Asked(by) /\ ui'.busy = ui.busy
    BY <1>1, <1>2, <2>1
  <2>2. CASE \/ Drops({"browse"}) /\ ui'.busy = ui.busy \ {"loading"}
             \/ Drops({"search"}) /\ ui'.busy = ui.busy \ {"searching"}
             \/ Drops({"save"}) /\ ui'.busy = ui.busy \ {"saving"}
             \/ Drops({"change", "open"}) /\ ui'.busy = ui.busy
    BY <1>3, <2>2
  <2>3. CASE \/ Swaps({"change", "upload"}, "browse") /\ ui'.busy = ui.busy \cup {"loading"}
             \/ Swaps({"upload"}, "upload") /\ ui'.busy = ui.busy
    BY <1>4, <2>3
  <2>. QED BY <2>1, <2>2, <2>3 DEF FilesStep

\* What a page of the files becomes.
LEMMA BrowsingIs ==
  ASSUME NEW u, NEW dir, DOMAIN u = {"busy", "cwd", "entries", "sel", "search", "viewer", "modal"}
  PROVE  /\ DOMAIN Browsing(u, dir) = DOMAIN u
         /\ Browsing(u, dir).busy = u.busy \cup {"loading"}
         /\ Browsing(u, dir).cwd = dir /\ Browsing(u, dir).entries = u.entries
BY DEF Browsing

LEMMA FilesSteps ==
  ASSUME FilesNext, FileFlags
  PROVE  FilesStep
<1>0. DOMAIN ui = {"busy", "cwd", "entries", "sel", "search", "viewer", "modal"}
  BY DEF FileFlags
<1>1. CASE ServeBrowse \/ ServeSearch \/ ServeChange \/ ServeUpload \/ ServeRead \/ ServeSaveFile
  <2>1. Stays /\ ui' = ui
    BY <1>1 DEF ServeBrowse, ServeSearch, ServeChange, ServeUpload, ServeRead, ServeSaveFile,
      Finds, Does, Makes, Stays, Marked, ServerIs, NetOnly
  <2>. QED BY <2>1 DEF FilesStep
<1>2. CASE Forbid \/ Fault
  <2>1. Stays /\ ui' = ui
    BY <1>2, FaultStays
  <2>. QED BY <2>1 DEF FilesStep
<1>3. CASE Browse
  <2>1. PICK dir : Asked("browse") /\ ui' = Browsing(ui, dir)
    BY <1>3 DEF Browse, Asks, Asked, PageIs
  <2>. QED BY <1>0, <2>1, BrowsingIs DEF FilesStep
<1>4. CASE Search
  <2>1. Asked("search") /\ ui' = [ui EXCEPT !.busy = @ \cup {"searching"}]
    BY <1>4 DEF Search, Asks, Asked, PageIs
  <2>. QED BY <1>0, <2>1 DEF FilesStep
<1>5. CASE Browsed
  <2>1. \E ps : Drops({"browse"}) /\ ui' = [ui EXCEPT !.entries = ps, !.busy = @ \ {"loading"}]
    BY <1>5 DEF Browsed, Then, ThenAsks, Catch, Arrived, Failed, Drops, Removed, PageIs
  <2>. QED BY <1>0, <2>1 DEF FilesStep
<1>6. CASE Searched
  <2>1. /\ Drops({"search"})
        /\ \/ \E ps : ui' = [ui EXCEPT !.search = [on |-> TRUE, found |-> ps], !.busy = @ \ {"searching"}]
           \/ ui' = [ui EXCEPT !.busy = @ \ {"searching"}]
    BY <1>6 DEF Searched, Then, ThenAsks, Catch, Arrived, Failed, Drops, Removed, PageIs
  <2>. QED BY <1>0, <2>1 DEF FilesStep
<1>7. CASE ClearSearch \/ SelectFile \/ OpenDialog \/ CloseDialog
  <2>1. /\ net' = net
        /\ \/ ui' = [ui EXCEPT !.search = NoAnswers]
           \/ \E p : ui' = [ui EXCEPT !.sel = IF p \in @ THEN @ \ {p} ELSE @ \cup {p}]
           \/ ui' = [ui EXCEPT !.sel = IF Cardinality(@) = Cardinality(Displayed) THEN {} ELSE Displayed]
           \/ ui' = [ui EXCEPT !.modal.kind = "new"]
           \/ ui' = [ui EXCEPT !.modal.kind = "deleteSel"]
           \/ \E m : ui' = [ui EXCEPT !.modal = m]
    BY <1>7 DEF ClearSearch, SelectFile, OpenDialog, CloseDialog, Becomes, PageIs
  <2>2. DOMAIN ui' = DOMAIN ui /\ ui'.busy = ui.busy
    BY <1>0, <2>1
  <2>. QED BY <2>1, <2>2 DEF FilesStep, Stays
<1>8. CASE SubmitDialog
  <2>1. \/ Asked("change") /\ (ui' = ui \/ ui' = [ui EXCEPT !.modal = NoDialog])
        \/ net' = net /\ ui' = [ui EXCEPT !.modal = NoDialog]
    BY <1>8 DEF SubmitDialog, Asks, Asked, Becomes, PageIs
  <2>2. DOMAIN ui' = DOMAIN ui /\ ui'.busy = ui.busy
    BY <1>0, <2>1
  <2>. QED BY <2>1, <2>2 DEF FilesStep, Stays
<1>9. CASE ChangeSettles
  <2>1. PICK i \in DOMAIN net :
          LET a    == net[i].arg
              idle == [ui EXCEPT !.modal = IF @.kind = a.kind THEN NoDialog ELSE @,
                                 !.viewer = IF a.kind = "delete" /\ a.shuts THEN NoViewer ELSE @]
          IN \/ /\ Arrived(i, "change") \/ (Failed(i, "change") /\ a.kind = "deleteSel")
                /\ HandledThen(i, <<BrowseRequest(a.dir)>>) /\ PageIs(Browsing(idle, a.dir))
             \/ /\ Failed(i, "change") /\ a.kind # "deleteSel" /\ Handled(i) /\ PageIs(ui)
    BY <1>9 DEF ChangeSettles
  <2>. DEFINE a    == net[i].arg
              idle == [ui EXCEPT !.modal = IF @.kind = a.kind THEN NoDialog ELSE @,
                                 !.viewer = IF a.kind = "delete" /\ a.shuts THEN NoViewer ELSE @]
  <2>2. DOMAIN idle = DOMAIN ui /\ idle.busy = ui.busy
    BY <1>0
  <2>3. \/ net[i].by = "change" /\ HandledThen(i, <<BrowseRequest(a.dir)>>) /\ ui' = Browsing(idle, a.dir)
        \/ net[i].by = "change" /\ Handled(i) /\ ui' = ui
    BY <2>1 DEF Arrived, Failed, PageIs
  <2>. HIDE DEF idle
  <2>4. CASE net[i].by = "change" /\ HandledThen(i, <<BrowseRequest(a.dir)>>) /\ ui' = Browsing(idle, a.dir)
    <3>1. Swaps({"change", "upload"}, "browse")
      BY <2>4 DEF Swaps, Swapped, BrowseRequest
    <3>. QED BY <1>0, <2>2, <2>4, <3>1, BrowsingIs DEF FilesStep
  <2>5. CASE net[i].by = "change" /\ Handled(i) /\ ui' = ui
    <3>1. Drops({"change", "open"})
      BY <2>5 DEF Drops, Removed
    <3>. QED BY <2>5, <3>1 DEF FilesStep
  <2>. QED BY <2>3, <2>4, <2>5
<1>10. CASE Upload
  <2>1. Asked("upload") /\ ui' = ui
    BY <1>10 DEF Upload, Asks, Asked, PageIs
  <2>. QED BY <2>1 DEF FilesStep
<1>11. CASE Uploaded
  <2>1. PICK i \in DOMAIN net :
          /\ net[i].by = "upload"
          /\ \/ HandledThen(i, <<Request("upload", "fileImport", net[i].arg)>>) /\ ui' = ui
             \/ /\ HandledThen(i, <<BrowseRequest(net[i].arg.dir)>>)
                /\ ui' = Browsing(ui, net[i].arg.dir)
    BY <1>11 DEF Uploaded, Arrived, Failed, PageIs
  <2>2. CASE HandledThen(i, <<Request("upload", "fileImport", net[i].arg)>>) /\ ui' = ui
    <3>1. Swaps({"upload"}, "upload")
      BY <2>1, <2>2 DEF Swaps, Swapped
    <3>. QED BY <2>2, <3>1 DEF FilesStep
  <2>3. CASE HandledThen(i, <<BrowseRequest(net[i].arg.dir)>>) /\ ui' = Browsing(ui, net[i].arg.dir)
    <3>1. Swaps({"change", "upload"}, "browse")
      BY <2>1, <2>3 DEF Swaps, Swapped, BrowseRequest
    <3>. QED BY <1>0, <2>3, <3>1, BrowsingIs DEF FilesStep
  <2>. QED BY <2>1, <2>2, <2>3
<1>12. CASE OpenEntry
  <2>1. Asked("open") /\ ui' = ui
    BY <1>12 DEF OpenEntry, Asks, Asked, PageIs
  <2>. QED BY <2>1 DEF FilesStep
<1>13. CASE FileOpened \/ DropError({"open"})
  <2>1. Drops({"change", "open"}) /\ (ui' = ui \/ \E w : ui' = [ui EXCEPT !.viewer = w])
    BY <1>13 DEF FileOpened, DropError, Then, ThenAsks, Catch, Arrived, Failed, Drops, Removed, PageIs
  <2>. QED BY <1>0, <2>1 DEF FilesStep
<1>14. CASE CloseViewer \/ ClickEdit \/ CancelEdit
  <2>1. /\ net' = net
        /\ \/ ui' = [ui EXCEPT !.viewer = NoViewer, !.busy = @ \ {"saving"}]
           \/ ui' = [ui EXCEPT !.viewer.editing = TRUE]
           \/ ui' = [ui EXCEPT !.viewer.editing = FALSE, !.viewer.draft = ui.viewer.text]
    BY <1>14 DEF CloseViewer, ClickEdit, CancelEdit, Becomes, PageIs
  <2>2. DOMAIN ui' = DOMAIN ui /\ ui'.busy \subseteq ui.busy
    BY <1>0, <2>1
  <2>. QED BY <2>1, <2>2 DEF FilesStep, Stays
<1>15. CASE SaveFile
  <2>1. Asked("save") /\ ui' = [ui EXCEPT !.busy = @ \cup {"saving"}]
    BY <1>15 DEF SaveFile, Asks, Asked, PageIs
  <2>. QED BY <1>0, <2>1 DEF FilesStep
<1>16. CASE FileSaved
  <2>1. /\ Drops({"save"})
        /\ \/ \E f : ui' = [ui EXCEPT !.busy = @ \ {"saving"},
                                      !.viewer = IF @ = NoViewer THEN @
                                                 ELSE [@ EXCEPT !.text = f.text, !.editing = FALSE]]
           \/ ui' = [ui EXCEPT !.busy = @ \ {"saving"}]
    BY <1>16 DEF FileSaved, Then, ThenAsks, Catch, Arrived, Failed, Drops, Removed, PageIs
  <2>. QED BY <1>0, <2>1 DEF FilesStep
<1>. QED BY <1>1, <1>2, <1>3, <1>4, <1>5, <1>6, <1>7, <1>8, <1>9, <1>10, <1>11, <1>12, <1>13,
            <1>14, <1>15, <1>16 DEF FilesNext

\* Each page and what its flags wait for.
PlainFlags ==
  /\ page = "trace" => TraceFlags
  /\ page = "backupSchedule" => ScheduleFlags
  /\ page \in {"files", "viewer"} => FileFlags

LEMMA PlainOpens == ASSUME ConsoleInit PROVE PlainFlags
<1>1. page = "trace" => TraceFlags
  <2>. SUFFICES ASSUME page = "trace" PROVE TraceFlags
    OBVIOUS
  <2>1. ui = [busy |-> {}, open |-> FALSE, loaded |-> FALSE] /\ net = <<>>
    BY OpensConsole DEF TraceInit
  <2>2. AreRequests(net)
    <3>1. net \in Seq({})
      BY <2>1
    <3>. QED BY <3>1 DEF AreRequests
  <2>. QED BY <2>1, <2>2 DEF TraceFlags
<1>2. page = "backupSchedule" => ScheduleFlags
  BY OpensConsole DEF BackupScheduleInit, ScheduleFlags
<1>3. page \in {"files", "viewer"} => FileFlags
  <2>. SUFFICES ASSUME page \in {"files", "viewer"} PROVE FileFlags
    OBVIOUS
  <2>1. PICK cwd \in Dirs :
          /\ ui = [busy |-> {"loading"}, cwd |-> cwd, entries |-> {}, sel |-> {},
                   search |-> NoAnswers, viewer |-> NoViewer, modal |-> NoDialog]
          /\ net = <<Request("browse", "fileBrowse", cwd)>>
    BY OpensConsole DEF FilesInit
  <2>. DEFINE x == Request("browse", "fileBrowse", cwd)
  <2>2. IsRequest(x) /\ x.by = "browse"
    BY DEF Request, IsRequest
  <2>. HIDE DEF x
  <2>3. net \in Seq({x}) /\ 1 \in DOMAIN net /\ net[1] = x
    BY <2>1 DEF x
  <2>4. AreRequests(net) /\ Waits({"browse"})
    BY <2>2, <2>3 DEF AreRequests, Waits, WaitsIn
  <2>. QED BY <2>1, <2>4 DEF FileFlags
<1>. QED BY <1>1, <1>2, <1>3 DEF PlainFlags

LEMMA PlainKeeps ==
  ASSUME ConsoleForm, PlainFlags, [ConsoleNext]_webVars
  PROVE  PlainFlags'
<1>1. page' = page
  BY PageStays DEF session
<1>2. CASE UNCHANGED webVars
  BY <1>2 DEF webVars, PlainFlags, TraceFlags, ScheduleFlags, FileFlags, Waits
<1>3. CASE ConsoleNext
  <2>1. page = "trace" => TraceFlags'
    BY <1>3, OnConsole, TraceKeepsFlags DEF PlainFlags
  <2>2. page = "backupSchedule" => ScheduleFlags'
    BY <1>3, OnConsole, ScheduleKeepsFlags DEF PlainFlags
  <2>3. page \in {"files", "viewer"} => FileFlags'
    BY <1>3, OnConsole, FilesSteps, FilesStepKeeps DEF PlainFlags
  <2>. QED BY <1>1, <2>1, <2>2, <2>3 DEF PlainFlags
<1>. QED BY <1>2, <1>3

LEMMA PagesAreOurs ==
  ConsoleInit => page \in QueryPages \cup InventoryPages
                          \cup {"trace", "pager", "backupSchedule", "files", "viewer"}
<1>. SUFFICES ASSUME ConsoleInit
     PROVE  page \in QueryPages \cup InventoryPages
                       \cup {"trace", "pager", "backupSchedule", "files", "viewer"}
  OBVIOUS
<1>1. \/ QueryInit \/ TraceInit \/ PagerInit \/ InventoryInit \/ BackupScheduleInit \/ FilesInit
  BY Zenon DEF ConsoleInit
<1>2. /\ QueryInit => page \in QueryPages
      /\ TraceInit => page = "trace"
      /\ PagerInit => page = "pager"
      /\ InventoryInit => page \in InventoryPages
      /\ BackupScheduleInit => page = "backupSchedule"
      /\ FilesInit => page \in {"files", "viewer"}
  BY DEF QueryInit, TraceInit, PagerInit, InventoryInit, BackupScheduleInit, FilesInit
<1>. QED BY <1>1, <1>2, Zenon

\* The pages that there are.
KnownPage ==
  page \in QueryPages \cup InventoryPages \cup {"trace", "pager", "backupSchedule", "files", "viewer"}

LEMMA IdleWhen ==
  ASSUME KnownPage, QueryInv, ConsoleForm, ThingsInv, PlainFlags
  PROVE  IdleWhenAnswered
<1>. SUFFICES ASSUME net = <<>>, page # "pager"
     PROVE  ui.busy = {} \/ (page \in Debounced /\ ui.timer)
  BY DEF IdleWhenAnswered
<1>1. \A W : ~Waits(W)
  BY DEF Waits, WaitsIn
<1>2. CASE page \in QueryPages
  <2>1. QueryForm /\ QueryFlags
    BY <1>2 DEF QueryInv
  <2>2. ~AsksFor(net, ui.token)
    BY DEF AsksFor
  <2>3. "traces" \in Numbered
    BY DEF Numbered
  <2>4. /\ page \in Numbered => ui.timer \/ ui.busy \cap {"loading", "refreshing"} = {}
        /\ page \notin Numbered => ui.timer \/ ("loading" \notin ui.busy /\ "refreshing" \notin ui.busy)
        /\ "clearing" \notin ui.busy
    BY <1>1, <2>1, <2>2, <2>3 DEF QueryFlags
  <2>. QED BY <2>1, <2>4 DEF QueryForm, QueryFlags
<1>3. CASE page \in InventoryPages
  BY <1>1, <1>3 DEF ThingsInv, FlagsInv, BusyHeld
<1>4. CASE page \in {"trace", "backupSchedule", "files", "viewer"}
  BY <1>1, <1>4 DEF PlainFlags, TraceFlags, ScheduleFlags, FileFlags
<1>. QED BY <1>2, <1>3, <1>4 DEF KnownPage

\* The pages that an operator watches and maintains the host with: each flag
\* that says that something is under way waits for an answer, so that none stays
\* up when all have come, whatever they were and in whatever order.
THEOREM IdleCorrect == ConsoleSpec => []IdleWhenAnswered
<1>1. ConsoleInit => KnownPage
  BY PagesAreOurs DEF KnownPage
<1>2. ConsoleForm /\ KnownPage /\ [ConsoleNext]_webVars => KnownPage'
  <2>. SUFFICES ASSUME ConsoleForm, KnownPage, [ConsoleNext]_webVars PROVE KnownPage'
    OBVIOUS
  <2>1. page' = page
    BY PageStays DEF session
  <2>. QED BY <2>1 DEF KnownPage, QueryPages, InventoryPages
<1>3. ConsoleForm /\ PlainFlags /\ [ConsoleNext]_webVars => PlainFlags'
  BY PlainKeeps
<1>4. KnownPage /\ QueryInv /\ ConsoleForm /\ ThingsInv /\ PlainFlags => IdleWhenAnswered
  BY IdleWhen
<1>. QED BY <1>1, <1>2, <1>3, <1>4, QueryInvHolds, ThingsInvHolds, PlainOpens, PTL DEF ConsoleSpec

-----------------------------------------------------------------------------
(* What the page of the files lists *)

FileRequest(x) ==
  /\ x.state \in {"sent", "done", "error"}
  /\ x.by = "browse" => x.call = "fileBrowse"
  /\ x.by = "open" /\ x.state = "done" =>
       \E f : x.reply = <<f>> /\ DOMAIN f = {"file", "text"} /\ f.text # NoFile
  /\ x.by = "save" => x.arg.text # NoFile /\ (x.state = "done" => x.reply = <<x.arg>>)

\* No text that the page has, or sends, is that of a file which is not there.
FilesForm ==
  /\ DOMAIN srv = {"text", "remade"} /\ DOMAIN srv.text = Paths
  /\ DOMAIN ui.viewer = {"file", "text", "draft", "editing"}
  /\ ui.viewer.text # NoFile /\ ui.viewer.draft # NoFile
  /\ \A k \in DOMAIN net : FileRequest(net[k])

\* The answer makes the page read its directory again.
Unread(x) ==
  \/ x.by = "change" /\ x.state = "done"
  \/ x.by = "upload" /\ x.state = "done" /\ x.call = "fileImport"

\* A list is that of a directory where `there` are, or is but for those remade.
Told(list, there, remade) == list \subseteq there /\ there \ list \subseteq remade

Reads1 == {"browse"}

\* What was read last, or is, tells what is there.
Listing(q, list, there, remade) ==
  /\ \A k \in DOMAIN q : LastOf(q, Reads1, k) /\ q[k].state = "done" =>
       \E v : q[k].reply = <<v>> /\ Told(v, there, remade)
  /\ (\A k \in DOMAIN q : q[k].by \notin Reads1) => Told(list, there, remade)

\* It is the directory that the page names.
Aimed(q, dir) == \A k \in DOMAIN q : LastOf(q, Reads1, k) => q[k].arg = dir

Unfailed(q) == \A k \in DOMAIN q : q[k].by \in Reads1 => q[k].state # "error"

HasUnread(q) == \E k \in DOMAIN q : Unread(q[k])

\* A change that was made and not read again, or a list that is true.
FilesOrder ==
  line = "orderly" =>
    /\ AnsweredFirst(net)
    /\ Can("manage_files") =>
         /\ Unfailed(net) /\ Aimed(net, ui.cwd)
         /\ HasUnread(net) \/ Listing(net, ui.entries, Exist \cap Here(ui.cwd), srv.remade)

FilesInv == page \in {"files", "viewer"} => FileFlags /\ FilesForm /\ FilesOrder

\* The directory is asked for: that is what was read last.
LEMMA ReadAsked ==
  ASSUME NEW q, NEW r, NEW x, Added(q, r, x), x.by \in Reads1, Unfailed(q)
  PROVE  /\ Aimed(r, x.arg) /\ Unfailed(r)
         /\ \A list, there, remade : Listing(r, list, there, remade)
<1>1. Len(q) + 1 \in DOMAIN r /\ \A k \in DOMAIN r : k = Len(q) + 1 \/ (k \in DOMAIN q /\ k < Len(q) + 1)
  BY DEF Added
<1>2. r[Len(q) + 1] = x /\ x.state = "sent" /\ \A k \in DOMAIN q : r[k] = q[k]
  BY DEF Added
<1>3. \A k \in DOMAIN r : LastOf(r, Reads1, k) => k = Len(q) + 1
  BY <1>1, <1>2 DEF LastOf
<1>4. Aimed(r, x.arg)
  BY <1>2, <1>3 DEF Aimed
<1>5. Unfailed(r)
  BY <1>1, <1>2 DEF Unfailed
<1>6. \A list, there, remade : Listing(r, list, there, remade)
  BY <1>1, <1>2, <1>3 DEF Listing
<1>. QED BY <1>4, <1>5, <1>6

\* Something else is.
LEMMA ReadAdded ==
  ASSUME NEW q, NEW r, NEW x, Added(q, r, x), x.by \notin Reads1
  PROVE  /\ \A dir : Aimed(q, dir) => Aimed(r, dir)
         /\ Unfailed(q) => Unfailed(r)
         /\ HasUnread(q) => HasUnread(r)
         /\ \A list, there, remade : Listing(q, list, there, remade) => Listing(r, list, there, remade)
<1>1. \A k \in DOMAIN q : k \in DOMAIN r /\ r[k] = q[k]
  BY DEF Added
<1>2. \A k \in DOMAIN r : k \in DOMAIN q \/ r[k] = x
  BY DEF Added
<1>3. \A k \in DOMAIN r : LastOf(r, Reads1, k) => LastOf(q, Reads1, k)
  BY <1>1, <1>2, Zenon DEF LastOf
<1>4. \A k \in DOMAIN r : r[k].by \in Reads1 => k \in DOMAIN q
  BY <1>2
<1>5. ASSUME NEW dir, Aimed(q, dir) PROVE Aimed(r, dir)
  BY <1>1, <1>3, <1>5 DEF Aimed, LastOf
<1>6. Unfailed(q) => Unfailed(r)
  BY <1>1, <1>4 DEF Unfailed
<1>7. HasUnread(q) => HasUnread(r)
  BY <1>1 DEF HasUnread
<1>8. ASSUME NEW list, NEW there, NEW remade, Listing(q, list, there, remade)
      PROVE  Listing(r, list, there, remade)
  <2>1. (\A k \in DOMAIN r : r[k].by \notin Reads1) => \A k \in DOMAIN q : q[k].by \notin Reads1
    BY <1>1
  <2>2. \A k \in DOMAIN r : LastOf(r, Reads1, k) => k \in DOMAIN q /\ r[k] = q[k]
    BY <1>1, <1>3 DEF LastOf
  <2>. QED BY <1>3, <1>8, <2>1, <2>2, Zenon DEF Listing
<1>. QED BY <1>5, <1>6, <1>7, <1>8

\* The server answers a request, and what is there may grow by what it remakes.
LEMMA ReadAnswered ==
  ASSUME NEW q, NEW r, NEW i, NEW st, NEW v, AnsweredAt(q, r, i, st, v), q[i].state = "sent"
  PROVE  /\ \A dir : Aimed(q, dir) => Aimed(r, dir)
         /\ Unfailed(q) /\ (q[i].by \in Reads1 => st # "error") => Unfailed(r)
         /\ HasUnread(q) => HasUnread(r)
         /\ Unread(r[i]) => HasUnread(r)
         /\ \A list, there, remade, there1, remade1 :
              /\ Listing(q, list, there, remade)
              /\ \A es : Told(es, there, remade) => Told(es, there1, remade1)
              /\ q[i].by \in Reads1 => st = "done"
              /\ LastOf(q, Reads1, i) => v = <<there1>>
              => Listing(r, list, there1, remade1)
<1>1. /\ DOMAIN r = DOMAIN q /\ i \in DOMAIN q /\ \A k \in DOMAIN q : k # i => r[k] = q[k]
      /\ \A k \in DOMAIN q : r[k].by = q[k].by /\ r[k].arg = q[k].arg /\ r[k].call = q[k].call
      /\ r[i].state = st /\ (st = "done" => r[i].reply = v)
  BY DEF AnsweredAt
<1>2. \A k \in DOMAIN r : LastOf(r, Reads1, k) => LastOf(q, Reads1, k)
  BY <1>1, Zenon DEF LastOf
<1>3. \A dir : Aimed(q, dir) => Aimed(r, dir)
  BY <1>1, <1>2 DEF Aimed
<1>4. Unfailed(q) /\ (q[i].by \in Reads1 => st # "error") => Unfailed(r)
  BY <1>1 DEF Unfailed
<1>5. HasUnread(q) => HasUnread(r)
  <2>1. \A k \in DOMAIN q : Unread(q[k]) => k # i
    BY DEF Unread
  <2>. QED BY <1>1, <2>1 DEF HasUnread
<1>6. Unread(r[i]) => HasUnread(r)
  BY <1>1 DEF HasUnread
<1>7. ASSUME NEW list, NEW there, NEW remade, NEW there1, NEW remade1,
             Listing(q, list, there, remade),
             \A es : Told(es, there, remade) => Told(es, there1, remade1),
             q[i].by \in Reads1 => st = "done", LastOf(q, Reads1, i) => v = <<there1>>
      PROVE  Listing(r, list, there1, remade1)
  <2>1. ASSUME NEW k \in DOMAIN r, LastOf(r, Reads1, k), r[k].state = "done"
        PROVE  \E w : r[k].reply = <<w>> /\ Told(w, there1, remade1)
    <3>1. CASE k = i
      <4>1. r[k].reply = <<there1>>
        BY <1>1, <1>2, <1>7, <2>1, <3>1
      <4>2. Told(there1, there1, remade1)
        BY DEF Told
      <4>. QED BY <4>1, <4>2
    <3>2. CASE k # i
      BY <1>1, <1>2, <1>7, <2>1, <3>2 DEF Listing
    <3>. QED BY <3>1, <3>2
  <2>2. (\A k \in DOMAIN r : r[k].by \notin Reads1) => Told(list, there1, remade1)
    BY <1>1, <1>7 DEF Listing
  <2>. QED BY <2>1, <2>2 DEF Listing
<1>. QED BY <1>3, <1>4, <1>5, <1>6, <1>7

\* The first request is taken; what it read, if it is that, is shown.
LEMMA ReadAdvanced ==
  ASSUME NEW q, NEW r, Advanced(q, r)
  PROVE  /\ \A dir : Aimed(q, dir) => Aimed(r, dir)
         /\ Unfailed(q) => Unfailed(r)
         /\ HasUnread(q) /\ ~Unread(q[1]) => HasUnread(r)
         /\ \A list, list1, there, remade :
              /\ Listing(q, list, there, remade)
              /\ q[1].by \notin Reads1 => list1 = list
              /\ q[1].by \in Reads1 => q[1].state = "done" /\ \A v : q[1].reply = <<v>> => list1 = v
              => Listing(r, list1, there, remade)
<1>1. /\ \A k \in DOMAIN r : k + 1 \in DOMAIN q /\ r[k] = q[k + 1] /\ k \in Nat /\ 0 < k
      /\ \A k \in DOMAIN q : k = 1 \/ (k - 1 \in DOMAIN r /\ k - 1 + 1 = k /\ 1 < k)
      /\ 1 \in DOMAIN q /\ DOMAIN q \subseteq Nat
  <2>1. \A k \in DOMAIN q : k = 1 \/ (k - 1 \in DOMAIN r /\ k - 1 + 1 = k /\ 1 < k)
    BY DEF Advanced
  <2>2. \A k \in DOMAIN r : k + 1 \in DOMAIN q /\ r[k] = q[k + 1] /\ k \in Nat /\ 0 < k
    BY DEF Advanced
  <2>3. 1 \in DOMAIN q /\ DOMAIN q \subseteq Nat
    BY DEF Advanced
  <2>. QED BY <2>1, <2>2, <2>3
<1>2. \A k \in DOMAIN q : k # 1 => \E j \in DOMAIN r : r[j] = q[k] /\ j + 1 = k
  BY <1>1
<1>3. ASSUME NEW k \in DOMAIN r, LastOf(r, Reads1, k) PROVE LastOf(q, Reads1, k + 1)
  <2>1. ASSUME NEW m \in DOMAIN q, k + 1 < m PROVE q[m].by \notin Reads1
    <3>1. k < m - 1 /\ m # 1
      BY <1>1, <2>1
    <3>2. m - 1 \in DOMAIN r /\ r[m - 1] = q[m]
      BY <1>1, <3>1
    <3>. QED BY <1>3, <3>1, <3>2 DEF LastOf
  <2>. QED BY <1>1, <1>3, <2>1 DEF LastOf
<1>4. ASSUME NEW dir, Aimed(q, dir) PROVE Aimed(r, dir)
  BY <1>1, <1>3, <1>4 DEF Aimed
<1>5. Unfailed(q) => Unfailed(r)
  BY <1>1 DEF Unfailed
<1>6. HasUnread(q) /\ ~Unread(q[1]) => HasUnread(r)
  BY <1>2 DEF HasUnread
<1>7. ASSUME NEW list, NEW list1, NEW there, NEW remade, Listing(q, list, there, remade),
             q[1].by \notin Reads1 => list1 = list,
             q[1].by \in Reads1 => q[1].state = "done" /\ \A v : q[1].reply = <<v>> => list1 = v
      PROVE  Listing(r, list1, there, remade)
  <2>1. ASSUME NEW k \in DOMAIN r, LastOf(r, Reads1, k), r[k].state = "done"
        PROVE  \E w : r[k].reply = <<w>> /\ Told(w, there, remade)
    <3>1. LastOf(q, Reads1, k + 1) /\ r[k] = q[k + 1] /\ k + 1 \in DOMAIN q
      BY <1>1, <1>3, <2>1
    <3>. QED BY <1>7, <2>1, <3>1 DEF Listing
  <2>2. ASSUME \A k \in DOMAIN r : r[k].by \notin Reads1
        PROVE  Told(list1, there, remade)
    <3>1. \A m \in DOMAIN q : m # 1 => q[m].by \notin Reads1
      BY <1>2, <2>2
    <3>2. CASE q[1].by \in Reads1
      <4>1. LastOf(q, Reads1, 1)
        BY <1>1, <3>1, <3>2 DEF LastOf
      <4>2. PICK w : q[1].reply = <<w>> /\ Told(w, there, remade)
        BY <1>1, <1>7, <3>2, <4>1 DEF Listing
      <4>. QED BY <1>7, <3>2, <4>2
    <3>3. CASE q[1].by \notin Reads1
      BY <1>7, <3>1, <3>3 DEF Listing
    <3>. QED BY <3>2, <3>3
  <2>. QED BY <2>1, <2>2 DEF Listing
<1>. QED BY <1>4, <1>5, <1>6, <1>7

\* The server answers, refuses or forbids a request, or it is lost: what it
\* changes by that is read again, or is made again by a save.
Grown == Exist \subseteq Exist' /\ Exist' \ Exist \subseteq srv'.remade
         /\ srv.remade \subseteq srv'.remade

FileServed(i, st, v) ==
  /\ i \in DOMAIN net /\ AnsweredAt(net, net', i, st, v) /\ ui' = ui /\ st \in {"done", "error"}
  /\ line = "orderly" => net[i].state = "sent" /\ InTurn(i)
  /\ DOMAIN srv' = {"text", "remade"} /\ DOMAIN srv'.text = Paths
  /\ net[i].by = "open" /\ st = "done" =>
       \E f : v = <<f>> /\ DOMAIN f = {"file", "text"} /\ f.text # NoFile
  /\ net[i].by = "save" /\ st = "done" => v = <<net[i].arg>>
  /\ line = "orderly" /\ net[i].by \in Reads1 /\ Can("manage_files") =>
       st = "done" /\ srv' = srv /\ v = <<Exist \cap Here(net[i].arg)>>
  /\ Grown \/ (st = "done" /\ \/ net[i].by = "change"
                              \/ net[i].by = "upload" /\ net[i].call = "fileImport")

\* What the page does, and what becomes of the viewer.
PageActs ==
  /\ srv' = srv /\ DOMAIN ui'.viewer = {"file", "text", "draft", "editing"}
  /\ ui'.viewer.text # NoFile /\ ui'.viewer.draft # NoFile

FilesIdle == net' = net /\ ui'.cwd = ui.cwd /\ ui'.entries = ui.entries

FilesAsk(by, call, arg) ==
  /\ Send(Request(by, call, arg)) /\ ui'.entries = ui.entries
  /\ IF by \in Reads1 THEN call = "fileBrowse" /\ ui'.cwd = arg ELSE ui'.cwd = ui.cwd
  /\ by = "save" => arg.text # NoFile

FilesTake(i) ==
  /\ i \in DOMAIN net /\ Next1(i) /\ Removed(i) /\ ui'.cwd = ui.cwd
  /\ net[i].by \notin Reads1 => ui'.entries = ui.entries /\ ~Unread(net[i])
  /\ net[i].by \in Reads1 => \/ net[i].state = "error"
                             \/ net[i].state = "done" /\ ui'.entries = Head(net[i].reply)

FilesSwap(i, by, call, arg) ==
  /\ i \in DOMAIN net /\ Next1(i) /\ HandledThen(i, <<Request(by, call, arg)>>)
  /\ ui'.entries = ui.entries /\ net[i].by \notin Reads1 /\ by # "save"
  /\ IF by \in Reads1 THEN call = "fileBrowse" /\ ui'.cwd = arg
     ELSE ui'.cwd = ui.cwd /\ ~Unread(net[i])

LEMMA FilesMayBrowse == Can("manage_files") => Authorized("fileBrowse")
<1>. DEFINE r == [call |-> "fileBrowse", write |-> FALSE, need |-> "manage_files"]
<1>1. r \in FileApi /\ r.call = "fileBrowse"
  BY DEF FileApi, Reads, Writes
<1>2. FileApi \subseteq Routes
  BY Zenon DEF Routes
<1>3. \A x \in Routes : x.call = "fileBrowse" => x.need = "manage_files"
  BY DEF Reads, Writes, Routes, SessionApi, UserApi, RoleApi, ProjectApi, ComposeApi,
     EnvApi, NginxApi, ProxyApi, DockerApi, DeployApi, ReleaseApi, ContainerApi, ImageApi,
     TerminalApi, FileApi, TrafficApi, DnsApi, TraceApi, OtelApi, UpdateApi, PackageApi,
     BackupApi, AuditApi, AppLogApi, SettingsApi, StorageApi, MaintenanceApi, PolicyApi
<1>. HIDE DEF r
<1>4. Needs("fileBrowse", "manage_files")
  BY <1>1, <1>2, <1>3, RouteNeeds
<1>. QED BY <1>4, WhoMay

LEMMA FilesServe ==
  ASSUME FileFlags, FilesForm, NEW i \in DOMAIN net, net[i].state = "sent", InTurn(i), ui' = ui,
         NEW v, Reply(i, v), DOMAIN srv' = {"text", "remade"}, DOMAIN srv'.text = Paths,
         net[i].by = "open" => DOMAIN v = {"file", "text"} /\ v.text # NoFile,
         net[i].by = "save" => v = net[i].arg,
         net[i].by \in Reads1 => srv' = srv /\ v = Exist \cap Here(net[i].arg),
         Grown \/ net[i].by = "change" \/ (net[i].by = "upload" /\ net[i].call = "fileImport")
  PROVE  FileServed(i, "done", <<v>>)
<1>1. AnsweredAt(net, net', i, "done", <<v>>)
  BY ReplyAnswers DEF FileFlags
<1>2. net[i].by = "open" => \E f : <<v>> = <<f>> /\ DOMAIN f = {"file", "text"} /\ f.text # NoFile
  OBVIOUS
<1>. QED BY <1>1, <1>2 DEF FileServed

LEMMA SameGrown == srv' = srv => Grown
BY DEF Grown, Exist

LEMMA FilesAnswer ==
  ASSUME FilesNext, FileFlags, FilesForm,
         ServeBrowse \/ ServeSearch \/ ServeChange \/ ServeUpload \/ ServeRead \/ ServeSaveFile
         \/ Forbid \/ Fault
  PROVE  \E i, st, v : FileServed(i, st, v)
<1>0. DOMAIN srv = {"text", "remade"} /\ DOMAIN srv.text = Paths
  BY DEF FilesForm
<1>1. CASE ServeBrowse
  <2>1. PICK i \in DOMAIN net : /\ net[i].by = "browse" /\ net[i].state = "sent" /\ InTurn(i)
                                /\ Reply(i, Exist \cap Here(net[i].arg)) /\ NetOnly
    BY <1>1 DEF ServeBrowse, Finds, Served
  <2>2. srv' = srv /\ ui' = ui
    BY <2>1 DEF NetOnly
  <2>3. FileServed(i, "done", <<Exist \cap Here(net[i].arg)>>)
    BY <1>0, <2>1, <2>2, SameGrown, FilesServe
  <2>. QED BY <2>3
<1>2. CASE ServeSearch
  <2>1. PICK i \in DOMAIN net : /\ net[i].by = "search" /\ net[i].state = "sent" /\ InTurn(i)
                                /\ Reply(i, Exist \cap {net[i].arg}) /\ NetOnly
    BY <1>2 DEF ServeSearch, Finds, Served
  <2>2. srv' = srv /\ ui' = ui
    BY <2>1 DEF NetOnly
  <2>3. FileServed(i, "done", <<Exist \cap {net[i].arg}>>)
    BY <1>0, <2>1, <2>2, SameGrown, FilesServe DEF Reads1
  <2>. QED BY <2>3
<1>3. CASE ServeUpload
  <2>1. PICK i \in DOMAIN net :
          /\ net[i].by = "upload" /\ net[i].state = "sent" /\ InTurn(i) /\ Reply(i, NoArg)
          /\ IF net[i].call = "fileImport"
             THEN ServerIs([srv EXCEPT !.text[net[i].arg] = net[i].arg]) ELSE NetOnly
    BY <1>3 DEF ServeUpload, Served
  <2>2. CASE net[i].call = "fileImport"
    <3>1. srv' = [srv EXCEPT !.text[net[i].arg] = net[i].arg] /\ ui' = ui
      BY <2>1, <2>2 DEF ServerIs
    <3>2. DOMAIN srv' = {"text", "remade"} /\ DOMAIN srv'.text = Paths
      BY <1>0, <3>1
    <3>3. FileServed(i, "done", <<NoArg>>)
      BY <2>1, <2>2, <3>1, <3>2, FilesServe DEF Reads1
    <3>. QED BY <3>3
  <2>3. CASE net[i].call # "fileImport"
    <3>1. srv' = srv /\ ui' = ui
      BY <2>1, <2>3 DEF NetOnly
    <3>2. FileServed(i, "done", <<NoArg>>)
      BY <1>0, <2>1, <3>1, SameGrown, FilesServe DEF Reads1
    <3>. QED BY <3>2
  <2>. QED BY <2>2, <2>3
<1>4. CASE Forbid \/ Fault
  <2>1. PICK i \in DOMAIN net : /\ Refuse(i)
                                /\ \/ line = "lossy"
                                   \/ net[i].state = "sent" /\ InTurn(i) /\ ~Authorized(net[i].call)
    BY <1>4 DEF Forbid, Fault
  <2>2. srv' = srv /\ ui' = ui
    BY <1>4 DEF Forbid, Fault, NetOnly
  <2>3. AnsweredAt(net, net', i, "error", <<>>)
    BY <2>1, RefuseAnswers DEF FileFlags
  <2>4. net[i].by \in Reads1 => net[i].call = "fileBrowse"
    BY DEF FilesForm, FileRequest, Reads1
  <2>5. FileServed(i, "error", <<>>)
    BY <1>0, <2>1, <2>2, <2>3, <2>4, SameGrown, FilesMayBrowse DEF FileServed
  <2>. QED BY <2>5
<1>5. ASSUME NEW by \in {"change", "open", "save"}, NEW i \in DOMAIN net, net[i].by = by,
             net[i].state = "sent", InTurn(i), Refuse(i), NetOnly
      PROVE  FileServed(i, "error", <<>>)
  <2>1. srv' = srv /\ ui' = ui
    BY <1>5 DEF NetOnly
  <2>2. AnsweredAt(net, net', i, "error", <<>>)
    BY <1>5, RefuseAnswers DEF FileFlags
  <2>. QED BY <1>0, <1>5, <2>1, <2>2, SameGrown DEF FileServed, Reads1
<1>6. CASE ServeChange
  <2>1. PICK i \in DOMAIN net :
          /\ net[i].by = "change" /\ net[i].state = "sent" /\ InTurn(i)
          /\ \/ /\ Reply(i, net[i].arg)
                /\ ServerIs([srv EXCEPT !.text = Changed(net[i].arg)])
             \/ Refuse(i) /\ NetOnly
    BY <1>6 DEF ServeChange, Does, Makes, Served
  <2>2. CASE Reply(i, net[i].arg) /\ ServerIs([srv EXCEPT !.text = Changed(net[i].arg)])
    <3>1. srv' = [srv EXCEPT !.text = Changed(net[i].arg)] /\ ui' = ui
      BY <2>2 DEF ServerIs
    <3>2. DOMAIN Changed(net[i].arg) = Paths
      BY DEF Changed
    <3>3. DOMAIN srv' = {"text", "remade"} /\ DOMAIN srv'.text = Paths
      BY <1>0, <3>1, <3>2
    <3>4. FileServed(i, "done", <<net[i].arg>>)
      BY <2>1, <2>2, <3>1, <3>3, FilesServe DEF Reads1
    <3>. QED BY <3>4
  <2>. QED BY <1>5, <2>1, <2>2
<1>7. CASE ServeRead
  <2>1. PICK i \in DOMAIN net :
          /\ net[i].by = "open" /\ net[i].state = "sent" /\ InTurn(i)
          /\ \/ /\ net[i].arg \in Exist
                /\ Reply(i, [file |-> net[i].arg, text |-> srv.text[net[i].arg]]) /\ ServerIs(srv)
             \/ Refuse(i) /\ NetOnly
    BY <1>7 DEF ServeRead, Makes, Served
  <2>. DEFINE f == [file |-> net[i].arg, text |-> srv.text[net[i].arg]]
  <2>2. CASE net[i].arg \in Exist /\ Reply(i, f) /\ ServerIs(srv)
    <3>1. srv' = srv /\ ui' = ui
      BY <2>2 DEF ServerIs
    <3>2. DOMAIN f = {"file", "text"} /\ f.text # NoFile
      BY <2>2 DEF Exist
    <3>. HIDE DEF f
    <3>3. FileServed(i, "done", <<f>>)
      BY <1>0, <2>1, <2>2, <3>1, <3>2, SameGrown, FilesServe DEF Reads1
    <3>. QED BY <3>3
  <2>. QED BY <1>5, <2>1, <2>2
<1>8. CASE ServeSaveFile
  <2>. DEFINE S(f) == [text   |-> [srv.text EXCEPT ![f.file] = f.text],
                       remade |-> srv.remade \cup ({f.file} \ Exist)]
  <2>1. PICK i \in DOMAIN net :
          /\ net[i].by = "save" /\ net[i].state = "sent" /\ InTurn(i)
          /\ Reply(i, net[i].arg) /\ ServerIs(S(net[i].arg))
    BY <1>8 DEF ServeSaveFile, Does, Makes, Served
  <2>2. srv' = S(net[i].arg) /\ ui' = ui
    BY <2>1 DEF ServerIs
  <2>3. DOMAIN srv' = {"text", "remade"} /\ DOMAIN srv'.text = Paths
    BY <1>0, <2>2
  <2>4. net[i].arg.text # NoFile
    BY <2>1 DEF FilesForm, FileRequest
  <2>5. Grown
    <3>1. srv'.remade = srv.remade \cup ({net[i].arg.file} \ Exist)
      BY <2>2
    <3>2. \A p \in Paths : srv'.text[p] = IF p = net[i].arg.file THEN net[i].arg.text ELSE srv.text[p]
      BY <1>0, <2>2
    <3>. QED BY <2>4, <3>1, <3>2 DEF Grown, Exist
  <2>. HIDE DEF S
  <2>6. FileServed(i, "done", <<net[i].arg>>)
    BY <2>1, <2>2, <2>3, <2>5, FilesServe DEF Reads1
  <2>. QED BY <2>6
<1>. QED BY <1>1, <1>2, <1>3, <1>4, <1>6, <1>7, <1>8

\* The actions of the page, each with the request it takes and the one it sends.
LEMMA FilesViewer ==
  ASSUME FileFlags, FilesForm, UNCHANGED srv, DOMAIN ui' = DOMAIN ui, ui'.viewer = ui.viewer
  PROVE  PageActs
BY DEF PageActs, FilesForm

LEMMA FilesAct ==
  ASSUME FilesNext, FileFlags, FilesForm,
         ~(ServeBrowse \/ ServeSearch \/ ServeChange \/ ServeUpload \/ ServeRead \/ ServeSaveFile
           \/ Forbid \/ Fault)
  PROVE  /\ PageActs
         /\ \/ FilesIdle
            \/ \E by, call, arg : FilesAsk(by, call, arg)
            \/ \E i : FilesTake(i)
            \/ \E i, by, call, arg : FilesSwap(i, by, call, arg)
<1>0. DOMAIN ui = {"busy", "cwd", "entries", "sel", "search", "viewer", "modal"}
  BY DEF FileFlags
<1>3. CASE Browse
  <2>1. PICK dir \in Dirs : /\ ui' = Browsing(ui, dir) /\ UNCHANGED srv
                            /\ Send(Request("browse", "fileBrowse", dir))
    BY <1>3 DEF Browse, Asks, PageIs
  <2>2. ui'.viewer = ui.viewer /\ DOMAIN ui' = DOMAIN ui
    BY <1>0, <2>1 DEF Browsing
  <2>3. FilesAsk("browse", "fileBrowse", dir)
    BY <1>0, <2>1, BrowsingIs DEF FilesAsk, Reads1
  <2>. QED BY <2>1, <2>2, <2>3, FilesViewer
<1>4. CASE Search
  <2>1. PICK name \in Names : /\ ui' = [ui EXCEPT !.busy = @ \cup {"searching"}] /\ UNCHANGED srv
                 /\ Send(Request("search", "fileSearch", [dir |-> ui.cwd, name |-> name]))
    BY <1>4 DEF Search, Asks, PageIs
  <2>2. FilesAsk("search", "fileSearch", [dir |-> ui.cwd, name |-> name])
    BY <1>0, <2>1 DEF FilesAsk, Reads1
  <2>3. ui'.viewer = ui.viewer /\ DOMAIN ui' = DOMAIN ui
    BY <1>0, <2>1
  <2>. QED BY <2>1, <2>2, <2>3, FilesViewer
<1>5. CASE Browsed
  <2>1. PICK i \in DOMAIN net :
          /\ net[i].by = "browse" /\ Next1(i) /\ Removed(i) /\ UNCHANGED srv
          /\ \/ /\ net[i].state = "done"
                /\ ui' = [ui EXCEPT !.entries = Head(net[i].reply), !.busy = @ \ {"loading"}]
             \/ /\ net[i].state = "error"
                /\ ui' = [ui EXCEPT !.entries = {}, !.busy = @ \ {"loading"}]
    BY <1>5 DEF Browsed, Then, ThenAsks, Catch, Arrived, Failed, Removed, PageIs, Answer
  <2>2. FilesTake(i)
    BY <1>0, <2>1 DEF FilesTake, Reads1
  <2>3. ui'.viewer = ui.viewer /\ DOMAIN ui' = DOMAIN ui
    BY <1>0, <2>1
  <2>. QED BY <2>1, <2>2, <2>3, FilesViewer
<1>6. CASE Searched
  <2>1. PICK i \in DOMAIN net :
          /\ net[i].by = "search" /\ Next1(i) /\ Removed(i) /\ UNCHANGED srv
          /\ \/ \E ps : ui' = [ui EXCEPT !.search = [on |-> TRUE, found |-> ps],
                                         !.busy = @ \ {"searching"}]
             \/ ui' = [ui EXCEPT !.busy = @ \ {"searching"}]
    BY <1>6 DEF Searched, Then, ThenAsks, Catch, Arrived, Failed, Removed, PageIs
  <2>2. FilesTake(i)
    BY <1>0, <2>1 DEF FilesTake, Reads1, Unread
  <2>3. ui'.viewer = ui.viewer /\ DOMAIN ui' = DOMAIN ui
    BY <1>0, <2>1
  <2>. QED BY <2>1, <2>2, <2>3, FilesViewer
<1>7. CASE ClearSearch \/ SelectFile \/ OpenDialog \/ CloseDialog
  <2>1. /\ net' = net /\ UNCHANGED srv
        /\ \/ ui' = [ui EXCEPT !.search = NoAnswers]
           \/ \E p : ui' = [ui EXCEPT !.sel = IF p \in @ THEN @ \ {p} ELSE @ \cup {p}]
           \/ ui' = [ui EXCEPT !.sel = IF Cardinality(@) = Cardinality(Displayed) THEN {} ELSE Displayed]
           \/ ui' = [ui EXCEPT !.modal.kind = "new"]
           \/ ui' = [ui EXCEPT !.modal.kind = "deleteSel"]
           \/ \E m : ui' = [ui EXCEPT !.modal = m]
    BY <1>7 DEF ClearSearch, SelectFile, OpenDialog, CloseDialog, Becomes, PageIs
  <2>2. DOMAIN ui' = DOMAIN ui /\ ui'.viewer = ui.viewer /\ ui'.cwd = ui.cwd /\ ui'.entries = ui.entries
    BY <1>0, <2>1
  <2>. QED BY <2>1, <2>2, FilesViewer DEF FilesIdle
<1>8. CASE SubmitDialog
  <2>1. /\ UNCHANGED srv /\ ui' \in {ui, [ui EXCEPT !.modal = NoDialog]}
        /\ net' = net \/ \E call, arg : Send(Request("change", call, arg))
    BY <1>8 DEF SubmitDialog, Asks, Becomes, PageIs
  <2>2. DOMAIN ui' = DOMAIN ui /\ ui'.viewer = ui.viewer /\ ui'.cwd = ui.cwd /\ ui'.entries = ui.entries
    BY <1>0, <2>1
  <2>3. CASE net' = net
    BY <2>1, <2>2, <2>3, FilesViewer DEF FilesIdle
  <2>4. ASSUME NEW call, NEW arg, Send(Request("change", call, arg))
        PROVE  FilesAsk("change", call, arg)
    BY <2>2, <2>4 DEF FilesAsk, Reads1
  <2>. QED BY <2>1, <2>2, <2>3, <2>4, FilesViewer
<1>9. CASE ChangeSettles
  <2>1. PICK i \in DOMAIN net :
          LET a    == net[i].arg
              idle == [ui EXCEPT !.modal = IF @.kind = a.kind THEN NoDialog ELSE @,
                                 !.viewer = IF a.kind = "delete" /\ a.shuts THEN NoViewer ELSE @]
          IN \/ /\ Arrived(i, "change") \/ (Failed(i, "change") /\ a.kind = "deleteSel")
                /\ HandledThen(i, <<BrowseRequest(a.dir)>>) /\ PageIs(Browsing(idle, a.dir))
             \/ /\ Failed(i, "change") /\ a.kind # "deleteSel" /\ Handled(i) /\ PageIs(ui)
    BY <1>9 DEF ChangeSettles
  <2>. DEFINE a    == net[i].arg
              idle == [ui EXCEPT !.modal = IF @.kind = a.kind THEN NoDialog ELSE @,
                                 !.viewer = IF a.kind = "delete" /\ a.shuts THEN NoViewer ELSE @]
  <2>2. DOMAIN idle = DOMAIN ui /\ idle.viewer \in {ui.viewer, NoViewer} /\ idle.entries = ui.entries
    BY <1>0
  <2>3. \/ /\ net[i].by = "change" /\ Next1(i) /\ HandledThen(i, <<BrowseRequest(a.dir)>>)
           /\ ui' = Browsing(idle, a.dir) /\ UNCHANGED srv
        \/ /\ net[i].by = "change" /\ net[i].state = "error" /\ Next1(i) /\ Handled(i)
           /\ ui' = ui /\ UNCHANGED srv
    BY <2>1 DEF Arrived, Failed, PageIs
  <2>. HIDE DEF idle
  <2>4. CASE /\ net[i].by = "change" /\ Next1(i) /\ HandledThen(i, <<BrowseRequest(a.dir)>>)
             /\ ui' = Browsing(idle, a.dir) /\ UNCHANGED srv
    <3>1. ui'.entries = ui.entries /\ ui'.cwd = a.dir /\ DOMAIN ui' = DOMAIN ui
      BY <1>0, <2>2, <2>4, BrowsingIs
    <3>2. ui'.viewer \in {ui.viewer, NoViewer}
      BY <1>0, <2>2, <2>4 DEF Browsing
    <3>3. PageActs
      BY <2>4, <3>1, <3>2 DEF PageActs, FilesForm, NoViewer, NoFile, Empty
    <3>4. FilesSwap(i, "browse", "fileBrowse", a.dir)
      BY <2>4, <3>1 DEF FilesSwap, Reads1, BrowseRequest
    <3>. QED BY <3>3, <3>4
  <2>5. CASE /\ net[i].by = "change" /\ net[i].state = "error" /\ Next1(i) /\ Handled(i)
             /\ ui' = ui /\ UNCHANGED srv
    <3>1. FilesTake(i)
      BY <2>5 DEF FilesTake, Removed, Reads1, Unread
    <3>. QED BY <2>5, <3>1, FilesViewer
  <2>. QED BY <2>3, <2>4, <2>5
<1>10. CASE Upload
  <2>1. PICK p \in Here(ui.cwd) : ui' = ui /\ UNCHANGED srv /\ Send(Request("upload", "uploadFile", p))
    BY <1>10 DEF Upload, Asks, PageIs
  <2>2. FilesAsk("upload", "uploadFile", p)
    BY <2>1 DEF FilesAsk, Reads1
  <2>. QED BY <2>1, <2>2, FilesViewer
<1>11. CASE Uploaded
  <2>1. PICK i \in DOMAIN net :
          /\ net[i].by = "upload" /\ Next1(i) /\ UNCHANGED srv
          /\ \/ /\ net[i].call = "uploadFile" /\ ui' = ui
                /\ HandledThen(i, <<Request("upload", "fileImport", net[i].arg)>>)
             \/ /\ HandledThen(i, <<BrowseRequest(net[i].arg.dir)>>)
                /\ ui' = Browsing(ui, net[i].arg.dir)
    BY <1>11 DEF Uploaded, Arrived, Failed, PageIs
  <2>2. CASE /\ net[i].call = "uploadFile" /\ ui' = ui
             /\ HandledThen(i, <<Request("upload", "fileImport", net[i].arg)>>)
    <3>1. FilesSwap(i, "upload", "fileImport", net[i].arg)
      BY <2>1, <2>2 DEF FilesSwap, Reads1, Unread
    <3>. QED BY <2>1, <2>2, <3>1, FilesViewer
  <2>3. CASE /\ HandledThen(i, <<BrowseRequest(net[i].arg.dir)>>)
             /\ ui' = Browsing(ui, net[i].arg.dir)
    <3>1. /\ ui'.entries = ui.entries /\ ui'.cwd = net[i].arg.dir /\ DOMAIN ui' = DOMAIN ui
          /\ ui'.viewer = ui.viewer
      BY <1>0, <2>3 DEF Browsing
    <3>2. FilesSwap(i, "browse", "fileBrowse", net[i].arg.dir)
      BY <2>1, <2>3, <3>1 DEF FilesSwap, Reads1, BrowseRequest
    <3>. QED BY <2>1, <3>1, <3>2, FilesViewer
  <2>. QED BY <2>1, <2>2, <2>3
<1>12. CASE OpenEntry
  <2>1. PICK p : ui' = ui /\ UNCHANGED srv /\ Send(Request("open", "fileRead", p))
    BY <1>12 DEF OpenEntry, Asks, PageIs
  <2>2. FilesAsk("open", "fileRead", p)
    BY <2>1 DEF FilesAsk, Reads1
  <2>. QED BY <2>1, <2>2, FilesViewer
<1>13. CASE FileOpened
  <2>1. PICK i \in DOMAIN net :
          /\ net[i].by = "open" /\ net[i].state = "done" /\ Next1(i) /\ Removed(i) /\ UNCHANGED srv
          /\ ui' = [ui EXCEPT !.viewer = Shows(Head(net[i].reply))]
    BY <1>13 DEF FileOpened, Then, ThenAsks, Arrived, Removed, PageIs, Answer
  <2>2. PICK f : net[i].reply = <<f>> /\ DOMAIN f = {"file", "text"} /\ f.text # NoFile
    BY <2>1 DEF FilesForm, FileRequest
  <2>3. ui'.viewer = Shows(f) /\ ui'.cwd = ui.cwd /\ ui'.entries = ui.entries
    BY <1>0, <2>1, <2>2
  <2>4. /\ DOMAIN Shows(f) = {"file", "text", "draft", "editing"}
        /\ Shows(f).text # NoFile /\ Shows(f).draft # NoFile
    BY <2>2 DEF Shows, FilesForm
  <2>5. PageActs
    BY <2>1, <2>3, <2>4 DEF PageActs
  <2>6. FilesTake(i)
    BY <2>1, <2>3 DEF FilesTake, Reads1, Unread
  <2>. QED BY <2>5, <2>6
<1>14. CASE DropError({"open"})
  <2>1. PICK i \in DOMAIN net : /\ net[i].by = "open" /\ Next1(i) /\ Removed(i) /\ UNCHANGED srv
                                /\ ui' = ui
    BY <1>14 DEF DropError, Catch, Failed, Removed, PageIs
  <2>2. FilesTake(i)
    BY <2>1 DEF FilesTake, Reads1, Unread
  <2>. QED BY <2>1, <2>2, FilesViewer
<1>15. CASE CloseViewer \/ ClickEdit \/ CancelEdit
  <2>1. /\ net' = net /\ UNCHANGED srv
        /\ \/ ui' = [ui EXCEPT !.viewer = NoViewer, !.busy = @ \ {"saving"}]
           \/ ui' = [ui EXCEPT !.viewer.editing = TRUE]
           \/ ui' = [ui EXCEPT !.viewer.editing = FALSE, !.viewer.draft = ui.viewer.text]
    BY <1>15 DEF CloseViewer, ClickEdit, CancelEdit, Becomes, PageIs
  <2>2. FilesIdle
    BY <1>0, <2>1 DEF FilesIdle
  <2>3. \/ ui'.viewer = NoViewer
        \/ ui'.viewer = [ui.viewer EXCEPT !.editing = TRUE]
        \/ ui'.viewer = [ui.viewer EXCEPT !.editing = FALSE, !.draft = ui.viewer.text]
    BY <1>0, <2>1
  <2>4. PageActs
    <3>1. /\ DOMAIN ui'.viewer = {"file", "text", "draft", "editing"}
          /\ ui'.viewer.text # NoFile /\ ui'.viewer.draft # NoFile
      <4>1. CASE ui'.viewer = NoViewer
        BY <4>1 DEF NoViewer, NoFile, Empty
      <4>2. CASE ui'.viewer = [ui.viewer EXCEPT !.editing = TRUE]
        BY <4>2 DEF FilesForm
      <4>3. CASE ui'.viewer = [ui.viewer EXCEPT !.editing = FALSE, !.draft = ui.viewer.text]
        BY <4>3 DEF FilesForm
      <4>. QED BY <2>3, <4>1, <4>2, <4>3
    <3>. QED BY <2>1, <3>1 DEF PageActs
  <2>. QED BY <2>2, <2>4
<1>16. CASE SaveFile
  <2>. DEFINE a == [file |-> ui.viewer.file, text |-> ui.viewer.draft]
  <2>1. /\ ui' = [ui EXCEPT !.busy = @ \cup {"saving"}] /\ UNCHANGED srv
        /\ Send(Request("save", "fileWrite", a))
    BY <1>16 DEF SaveFile, Asks, PageIs
  <2>2. a.text # NoFile
    BY DEF FilesForm
  <2>. HIDE DEF a
  <2>3. FilesAsk("save", "fileWrite", a)
    BY <1>0, <2>1, <2>2 DEF FilesAsk, Reads1
  <2>4. ui'.viewer = ui.viewer /\ DOMAIN ui' = DOMAIN ui
    BY <1>0, <2>1
  <2>. QED BY <2>1, <2>3, <2>4, FilesViewer
<1>17. CASE FileSaved
  <2>1. PICK i \in DOMAIN net :
          /\ net[i].by = "save" /\ Next1(i) /\ Removed(i) /\ UNCHANGED srv
          /\ \/ /\ net[i].state = "done"
                /\ ui' = [ui EXCEPT !.busy = @ \ {"saving"},
                            !.viewer = IF @ = NoViewer THEN @
                                       ELSE [@ EXCEPT !.text = Head(net[i].reply).text,
                                                      !.editing = FALSE]]
             \/ ui' = [ui EXCEPT !.busy = @ \ {"saving"}]
    BY <1>17 DEF FileSaved, Then, ThenAsks, Catch, Arrived, Failed, Removed, PageIs, Answer
  <2>2. FilesTake(i)
    BY <1>0, <2>1 DEF FilesTake, Reads1, Unread
  <2>3. net[i].state = "done" => Head(net[i].reply).text # NoFile
    BY <2>1 DEF FilesForm, FileRequest
  <2>4. \/ ui'.viewer = ui.viewer
        \/ \E w : w # NoFile /\ ui'.viewer = [ui.viewer EXCEPT !.text = w, !.editing = FALSE]
    <3>1. \/ ui'.viewer = ui.viewer
          \/ /\ net[i].state = "done"
             /\ ui'.viewer = [ui.viewer EXCEPT !.text = Head(net[i].reply).text, !.editing = FALSE]
      BY <1>0, <2>1
    <3>. QED BY <2>3, <3>1
  <2>5. PageActs
    BY <2>1, <2>4 DEF PageActs, FilesForm
  <2>. QED BY <2>2, <2>5
<1>. QED BY <1>3, <1>4, <1>5, <1>6, <1>7, <1>8, <1>9, <1>10, <1>11, <1>12, <1>13, <1>14, <1>15,
            <1>16, <1>17 DEF FilesNext

\* A request that is sent, and one that is answered, is still one of the page.
LEMMA FileSent ==
  ASSUME NEW by, NEW call, NEW arg, by \in Reads1 => call = "fileBrowse",
         by = "save" => arg.text # NoFile
  PROVE  FileRequest(Request(by, call, arg))
BY DEF FileRequest, Request, Reads1

LEMMA FilesKeepForm ==
  ASSUME FilesNext, FileFlags, FilesForm
  PROVE  FilesForm'
<1>. AreRequests(net)
  BY DEF FileFlags
<1>1. ASSUME NEW i, NEW st, NEW v, FileServed(i, st, v) PROVE FilesForm'
  <2>1. \A k \in DOMAIN net' : FileRequest(net[k])'
    <3>. SUFFICES ASSUME NEW k \in DOMAIN net' PROVE FileRequest(net'[k])
      BY DEF FileRequest
    <3>1. k \in DOMAIN net /\ FileRequest(net[k]) /\ (k # i => net'[k] = net[k])
      BY <1>1 DEF FileServed, AnsweredAt, FilesForm
    <3>2. CASE k # i
      BY <3>1, <3>2
    <3>3. CASE k = i
      <4>1. /\ net'[k].by = net[k].by /\ net'[k].call = net[k].call /\ net'[k].arg = net[k].arg
            /\ net'[k].state = st /\ (st = "done" => net'[k].reply = v)
        BY <1>1, <3>3 DEF FileServed, AnsweredAt
      <4>2. /\ net[k].by = "open" /\ st = "done" =>
                 \E f : v = <<f>> /\ DOMAIN f = {"file", "text"} /\ f.text # NoFile
            /\ net[k].by = "save" /\ st = "done" => v = <<net[k].arg>>
            /\ st \in {"done", "error"}
        BY <1>1, <3>3 DEF FileServed
      <4>. QED BY <3>1, <4>1, <4>2 DEF FileRequest
    <3>. QED BY <3>2, <3>3
  <2>. QED BY <1>1, <2>1 DEF FilesForm, FileServed
<1>2. ASSUME PageActs, \A k \in DOMAIN net' : FileRequest(net'[k]) PROVE FilesForm'
  <2>1. \A k \in DOMAIN net' : FileRequest(net[k])'
    BY <1>2 DEF FileRequest
  <2>. QED BY <1>2, <2>1 DEF FilesForm, PageActs
<1>3. ASSUME FilesIdle PROVE \A k \in DOMAIN net' : FileRequest(net'[k])
  BY <1>3 DEF FilesIdle, FilesForm
<1>4. ASSUME NEW by, NEW call, NEW arg, FilesAsk(by, call, arg)
      PROVE  \A k \in DOMAIN net' : FileRequest(net'[k])
  <2>. DEFINE x == Request(by, call, arg)
  <2>1. FileRequest(x)
    BY <1>4, FileSent DEF FilesAsk
  <2>2. Added(net, net', x)
    BY <1>4, AsksAdds DEF FilesAsk, Send, Sends, Extended
  <2>. HIDE DEF x
  <2>. QED BY <2>1, <2>2 DEF Added, FilesForm
<1>5. ASSUME NEW i, FilesTake(i)
      PROVE  \A k \in DOMAIN net' : FileRequest(net'[k])
  <2>1. i \in DOMAIN net /\ net' = RemoveAt(net, i)
    BY <1>5, TakesOne DEF FilesTake, Removed, Handled, HandledThen
  <2>2. \A k \in DOMAIN net' : \E j \in DOMAIN net : net'[k] = net[j]
    BY <2>1, TakesOne
  <2>. QED BY <2>2 DEF FilesForm
<1>6. ASSUME NEW i, NEW by, NEW call, NEW arg, FilesSwap(i, by, call, arg)
      PROVE  \A k \in DOMAIN net' : FileRequest(net'[k])
  <2>. DEFINE x == Request(by, call, arg)
              r == RemoveAt(net, i)
  <2>1. FileRequest(x)
    BY <1>6, FileSent DEF FilesSwap
  <2>2. AreRequests(r) /\ \A k \in DOMAIN r : \E j \in DOMAIN net : r[k] = net[j]
    BY <1>6, TakesOne DEF FilesSwap
  <2>3. net' = Extended(r, x)
    BY <1>6 DEF FilesSwap, HandledThen, Extended
  <2>. HIDE DEF r
  <2>4. Added(r, net', x)
    BY <2>2, <2>3, AsksAdds
  <2>. HIDE DEF x
  <2>. QED BY <2>1, <2>2, <2>4 DEF Added, FilesForm
<1>. QED BY <1>1, <1>2, <1>3, <1>4, <1>5, <1>6, FilesAnswer, FilesAct

\* The server answers: what is true stays, or there is something to read again.
LEMMA FilesOrderServed ==
  ASSUME line = "orderly", UNCHANGED session, FileFlags, FilesForm, FilesOrder,
         NEW i, NEW st, NEW v, FileServed(i, st, v)
  PROVE  FilesOrder'
<1>. DEFINE there == Exist \cap Here(ui.cwd)
<1>1. /\ i \in DOMAIN net /\ AnsweredAt(net, net', i, st, v) /\ net[i].state = "sent" /\ InTurn(i)
      /\ ui' = ui /\ st \in {"done", "error"} /\ AnsweredFirst(net) /\ AreRequests(net)
  BY DEF FileServed, FileFlags, FilesOrder
<1>2. AnsweredFirst(net')
  <2>1. DOMAIN net \subseteq Nat /\ \A k \in DOMAIN net : k < i => net[k].state # "sent"
    <3>1. PICK S : net \in Seq(S)
      BY <1>1 DEF AreRequests
    <3>. QED BY <1>1, <3>1 DEF InTurn
  <2>. QED BY <1>1, <2>1, OrderAnswered
<1>3. ASSUME Can("manage_files")
      PROVE  /\ Unfailed(net') /\ Aimed(net', ui.cwd)
             /\ HasUnread(net') \/ Listing(net', ui.entries, (Exist \cap Here(ui.cwd))', srv'.remade)
  <2>1. /\ Unfailed(net) /\ Aimed(net, ui.cwd)
        /\ HasUnread(net) \/ Listing(net, ui.entries, there, srv.remade)
    BY <1>3 DEF FilesOrder
  <2>2. net[i].by \in Reads1 => st = "done" /\ srv' = srv /\ v = <<Exist \cap Here(net[i].arg)>>
    BY <1>3 DEF FileServed
  <2>3. Unfailed(net') /\ Aimed(net', ui.cwd)
    BY <1>1, <2>1, <2>2, ReadAnswered
  <2>4. CASE HasUnread(net)
    <3>1. HasUnread(net')
      BY <1>1, <2>4, ReadAnswered
    <3>. QED BY <2>3, <3>1
  <2>5. CASE ~Grown
    <3>1. st = "done" /\ \/ net[i].by = "change"
                         \/ net[i].by = "upload" /\ net[i].call = "fileImport"
      BY <2>5 DEF FileServed
    <3>2. Unread(net'[i])
      BY <1>1, <3>1 DEF AnsweredAt, Unread
    <3>. QED BY <1>1, <2>3, <3>2, ReadAnswered
  <2>6. CASE Grown /\ Listing(net, ui.entries, there, srv.remade)
    <3>. DEFINE there1 == (Exist \cap Here(ui.cwd))'
    <3>1. \A es : Told(es, there, srv.remade) => Told(es, there1, srv'.remade)
      BY <1>1, <2>6 DEF Told, Grown, Here
    <3>2. LastOf(net, Reads1, i) => v = <<there1>>
      <4>. SUFFICES ASSUME LastOf(net, Reads1, i) PROVE v = <<there1>>
        OBVIOUS
      <4>1. net[i].by \in Reads1 /\ net[i].arg = ui.cwd
        BY <1>1, <2>1 DEF LastOf, Aimed
      <4>2. srv' = srv /\ v = <<Exist \cap Here(ui.cwd)>>
        BY <2>2, <4>1
      <4>. QED BY <1>1, <4>2 DEF Exist, Here
    <3>. HIDE DEF there, there1
    <3>3. Listing(net', ui.entries, there1, srv'.remade)
      BY <1>1, <2>2, <2>6, <3>1, <3>2, ReadAnswered
    <3>. QED BY <2>3, <3>3 DEF there1
  <2>. QED BY <2>1, <2>3, <2>4, <2>5, <2>6
<1>4. (Can("manage_files"))' <=> Can("manage_files")
  BY DEF Can, session
<1>. QED BY <1>1, <1>2, <1>3, <1>4 DEF FilesOrder, Unfailed, Aimed, HasUnread, Listing, AnsweredFirst, session

\* The page acts: the answer to a change is taken for a new read, and that to
\* the last read is what is shown.
LEMMA FilesOrderActs ==
  ASSUME line = "orderly", UNCHANGED session, FileFlags, FilesForm, FilesOrder, PageActs,
         \/ FilesIdle
         \/ \E by, call, arg : FilesAsk(by, call, arg)
         \/ \E i : FilesTake(i)
         \/ \E i, by, call, arg : FilesSwap(i, by, call, arg)
  PROVE  FilesOrder'
<1>. DEFINE There(dir) == Exist \cap Here(dir)
            Truly(q, list, dir) == HasUnread(q) \/ Listing(q, list, There(dir), srv.remade)
            Good(q, list, dir) ==
              Can("manage_files") => Unfailed(q) /\ Aimed(q, dir) /\ Truly(q, list, dir)
<1>1. AreRequests(net) /\ AnsweredFirst(net) /\ Good(net, ui.entries, ui.cwd)
  BY DEF FileFlags, FilesOrder
<1>2. ASSUME AnsweredFirst(net'), Good(net', ui'.entries, ui'.cwd)
      PROVE  FilesOrder'
  <2>1. srv' = srv /\ perms' = perms
    BY DEF PageActs, session
  <2>2. (Exist \cap Here(ui.cwd))' = There(ui'.cwd)
    BY <2>1 DEF Exist, Here
  <2>3. (Can("manage_files"))' <=> Can("manage_files")
    BY <2>1 DEF Can
  <2>. HIDE DEF There
  <2>. QED BY <1>2, <2>1, <2>2, <2>3
         DEF FilesOrder, Unfailed, Aimed, HasUnread, Listing, AnsweredFirst
<1>. HIDE DEF There
<1>3. CASE FilesIdle
  BY <1>1, <1>2, <1>3 DEF FilesIdle
<1>4. ASSUME NEW by, NEW call, NEW arg, FilesAsk(by, call, arg)
      PROVE  FilesOrder'
  <2>. DEFINE x == Request(by, call, arg)
  <2>1. Added(net, net', x) /\ AnsweredFirst(net') /\ x.by = by /\ x.arg = arg
    BY <1>1, <1>4, OrderAsked DEF FilesAsk
  <2>. HIDE DEF x
  <2>2. ui'.entries = ui.entries
    BY <1>4 DEF FilesAsk
  <2>3. CASE by \in Reads1
    <3>1. ui'.cwd = x.arg
      BY <1>4, <2>1, <2>3 DEF FilesAsk
    <3>2. Can("manage_files") => /\ Aimed(net', x.arg) /\ Unfailed(net')
                                 /\ Listing(net', ui'.entries, There(ui'.cwd), srv.remade)
      BY <1>1, <2>1, <2>3, ReadAsked
    <3>. QED BY <1>2, <2>1, <3>1, <3>2
  <2>4. CASE by \notin Reads1
    <3>1. ui'.cwd = ui.cwd
      BY <1>4, <2>4 DEF FilesAsk
    <3>2. Good(net', ui.entries, ui.cwd)
      BY <1>1, <2>1, <2>4, ReadAdded
    <3>. QED BY <1>2, <2>1, <2>2, <3>1, <3>2
  <2>. QED BY <2>3, <2>4
<1>5. ASSUME NEW i, FilesTake(i)
      PROVE  FilesOrder'
  <2>1. i = 1 /\ Advanced(net, net') /\ AnsweredFirst(net')
    BY <1>1, <1>5, OrderTaken DEF FilesTake, Removed, Handled, HandledThen
  <2>2. /\ ui'.cwd = ui.cwd
        /\ net[1].by \notin Reads1 => ui'.entries = ui.entries /\ ~Unread(net[1])
        /\ net[1].by \in Reads1 => \/ net[1].state = "error"
                                   \/ net[1].state = "done" /\ ui'.entries = Head(net[1].reply)
    BY <1>5, <2>1 DEF FilesTake
  <2>3. Good(net', ui'.entries, ui.cwd)
    <3>. SUFFICES ASSUME Can("manage_files")
         PROVE  Unfailed(net') /\ Aimed(net', ui.cwd) /\ Truly(net', ui'.entries, ui.cwd)
      OBVIOUS
    <3>1. Unfailed(net) /\ Aimed(net, ui.cwd) /\ Truly(net, ui.entries, ui.cwd)
      BY <1>1
    <3>2. ~Unread(net[1])
      BY <2>2 DEF Unread, Reads1
    <3>3. net[1].by \in Reads1 =>
            net[1].state = "done" /\ \A v : net[1].reply = <<v>> => ui'.entries = v
      <4>1. 1 \in DOMAIN net
        BY <2>1 DEF Advanced
      <4>. QED BY <2>2, <3>1, <4>1 DEF Unfailed
    <3>4. Unfailed(net') /\ Aimed(net', ui.cwd) /\ (HasUnread(net) => HasUnread(net'))
      BY <2>1, <3>1, <3>2, ReadAdvanced
    <3>5. Listing(net, ui.entries, There(ui.cwd), srv.remade)
            => Listing(net', ui'.entries, There(ui.cwd), srv.remade)
      BY <2>1, <2>2, <3>3, ReadAdvanced
    <3>. QED BY <3>1, <3>4, <3>5
  <2>. QED BY <1>2, <2>1, <2>2, <2>3
<1>6. ASSUME NEW i, NEW by, NEW call, NEW arg, FilesSwap(i, by, call, arg)
      PROVE  FilesOrder'
  <2>. DEFINE x == Request(by, call, arg)
  <2>1. /\ i = 1 /\ AnsweredFirst(net') /\ x.by = by /\ x.arg = arg
        /\ \E q : Advanced(net, q) /\ Added(q, net', x)
    BY <1>1, <1>6, OrderSwapped DEF FilesSwap
  <2>. HIDE DEF x
  <2>2. PICK q : Advanced(net, q) /\ Added(q, net', x)
    BY <2>1
  <2>3. net[1].by \notin Reads1 /\ ui'.entries = ui.entries
    BY <1>6, <2>1 DEF FilesSwap
  <2>4. CASE by \in Reads1
    <3>1. ui'.cwd = x.arg
      BY <1>6, <2>1, <2>4 DEF FilesSwap
    <3>2. Can("manage_files") => Unfailed(q)
      BY <1>1, <2>2, ReadAdvanced
    <3>3. Can("manage_files") => /\ Aimed(net', x.arg) /\ Unfailed(net')
                                 /\ Listing(net', ui'.entries, There(ui'.cwd), srv.remade)
      BY <2>1, <2>2, <2>4, <3>2, ReadAsked
    <3>. QED BY <1>2, <2>1, <3>1, <3>3
  <2>5. CASE by \notin Reads1
    <3>1. ui'.cwd = ui.cwd /\ ~Unread(net[1])
      BY <1>6, <2>1, <2>5 DEF FilesSwap
    <3>2. Good(q, ui.entries, ui.cwd)
      <4>1. Listing(net, ui.entries, There(ui.cwd), srv.remade)
              => Listing(q, ui.entries, There(ui.cwd), srv.remade)
        BY <2>2, <2>3, ReadAdvanced
      <4>2. /\ HasUnread(net) => HasUnread(q)
            /\ Unfailed(net) => Unfailed(q)
            /\ Aimed(net, ui.cwd) => Aimed(q, ui.cwd)
        BY <2>2, <3>1, ReadAdvanced
      <4>. QED BY <1>1, <4>1, <4>2
    <3>3. Good(net', ui.entries, ui.cwd)
      BY <2>1, <2>2, <2>5, <3>2, ReadAdded
    <3>. QED BY <1>2, <2>1, <2>3, <3>1, <3>3
  <2>. QED BY <2>4, <2>5
<1>. QED BY <1>3, <1>4, <1>5, <1>6

LEMMA FilesKeep ==
  ASSUME ConsoleForm, FilesInv, [ConsoleNext]_webVars
  PROVE  FilesInv'
<1>1. page' = page /\ UNCHANGED session
  BY PageStays DEF session
<1>2. CASE UNCHANGED webVars
  BY <1>2 DEF webVars, FilesInv, FileFlags, FilesForm, FileRequest, FilesOrder, AnsweredFirst,
    Unfailed, Aimed, HasUnread, Listing, LastOf, Exist, Here, Can, Waits
<1>3. CASE ConsoleNext /\ page \in {"files", "viewer"}
  <2>1. FilesNext /\ FileFlags /\ FilesForm /\ FilesOrder
    BY <1>3, OnConsole DEF FilesInv
  <2>2. FileFlags' /\ FilesForm'
    BY <2>1, FilesSteps, FilesStepKeeps, FilesKeepForm
  <2>3. FilesOrder'
    <3>1. CASE line = "orderly"
      BY <1>1, <2>1, <3>1, FilesAnswer, FilesAct, FilesOrderServed, FilesOrderActs
    <3>2. CASE line # "orderly"
      BY <1>1, <3>2 DEF FilesOrder, session
    <3>. QED BY <3>1, <3>2
  <2>. QED BY <2>2, <2>3 DEF FilesInv
<1>. QED BY <1>1, <1>2, <1>3 DEF FilesInv

LEMMA FilesOpen == ASSUME ConsoleInit PROVE FilesInv
<1>. SUFFICES ASSUME page \in {"files", "viewer"} PROVE FileFlags /\ FilesForm /\ FilesOrder
  BY DEF FilesInv
<1>1. PICK name \in Names, cwd \in Dirs :
        /\ srv = [text |-> [p \in Paths |-> IF p.name = name THEN p ELSE NoFile], remade |-> {}]
        /\ ui = [busy |-> {"loading"}, cwd |-> cwd, entries |-> {}, sel |-> {},
                 search |-> NoAnswers, viewer |-> NoViewer, modal |-> NoDialog]
        /\ net = <<Request("browse", "fileBrowse", cwd)>>
  BY OpensConsole DEF FilesInit
<1>. DEFINE x == Request("browse", "fileBrowse", cwd)
<1>2. x.by = "browse" /\ x.call = "fileBrowse" /\ x.arg = cwd /\ x.state = "sent"
  BY DEF Request
<1>. HIDE DEF x
<1>3. DOMAIN net = {1} /\ net[1] = x
  BY <1>1 DEF x
<1>4. FileFlags
  BY PlainOpens DEF PlainFlags
<1>5. FilesForm
  <2>1. /\ DOMAIN srv = {"text", "remade"} /\ DOMAIN srv.text = Paths
        /\ DOMAIN ui.viewer = {"file", "text", "draft", "editing"}
        /\ ui.viewer.text # NoFile /\ ui.viewer.draft # NoFile
    BY <1>1 DEF NoViewer, NoFile, Empty
  <2>. QED BY <1>2, <1>3, <2>1 DEF FilesForm, FileRequest
<1>6. FilesOrder
  <2>1. AnsweredFirst(net)
    BY <1>2, <1>3 DEF AnsweredFirst
  <2>2. Unfailed(net) /\ Aimed(net, ui.cwd)
    BY <1>1, <1>2, <1>3 DEF Unfailed, Aimed
  <2>3. Listing(net, ui.entries, Exist \cap Here(ui.cwd), srv.remade)
    BY <1>2, <1>3 DEF Listing, Reads1
  <2>. QED BY <2>1, <2>2, <2>3 DEF FilesOrder
<1>. QED BY <1>4, <1>5, <1>6

\* The page of the files, for any directories and files: when nothing is under
\* way, it lists the directory that it names, after any sequence of operations
\* that finished in whatever directory, but for what a save has made again.
THEOREM FilesCorrect == ConsoleSpec => []FilesListed
<1>1. FilesInv => FilesListed
  <2>. SUFFICES ASSUME FilesInv, page \in {"files", "viewer"}, Quiet, Can("manage_files")
       PROVE  LET there == Exist \cap Here(ui.cwd)
              IN ui.entries \subseteq there /\ there \ ui.entries \subseteq srv.remade
    BY DEF FilesListed
  <2>1. net = <<>> /\ FilesOrder /\ line = "orderly"
    BY DEF FilesInv, Quiet
  <2>2. ~HasUnread(net)
    BY <2>1 DEF HasUnread
  <2>3. Listing(net, ui.entries, Exist \cap Here(ui.cwd), srv.remade)
    BY <2>1, <2>2 DEF FilesOrder
  <2>4. \A k \in DOMAIN net : net[k].by \notin Reads1
    BY <2>1
  <2>. QED BY <2>3, <2>4 DEF Listing, Told
<1>2. ConsoleForm /\ FilesInv /\ [ConsoleNext]_webVars => FilesInv'
  BY FilesKeep
<1>. QED BY <1>1, <1>2, FilesOpen, QueryInvHolds, PTL DEF ConsoleSpec

-----------------------------------------------------------------------------
(* What a page of the inventory lists *)

\* What the answer to a request makes of list v.
Patched(o, x, state, v) ==
  IF Ops[o].then = "local" /\ (Ops[o].asks = "form" \/ v[x] # "gone")
  THEN [v EXCEPT ![x] = state] ELSE v

Effect(x, v) ==
  IF x.state # "done" THEN v
  ELSE IF x.by \in Reads3 THEN Head(x.reply)
  ELSE IF x.by = "op" THEN Patched(x.arg.op, x.arg.of, Head(x.reply).state, v)
  ELSE v

\* The list will be s when the answers that there are have been taken: h[k] is
\* the list after request k, from what is shown, u, or from a read that was
\* answered on.
Lists3(q, b, h, u) ==
  /\ b = 0 => h[0] = u
  /\ b # 0 => q[b].by \in Reads3 /\ q[b].state = "done" /\ Head(q[b].reply) = h[b]
  /\ \A k \in b + 1..Len(q) : h[k] = Effect(q[k], h[k - 1])

AllSent(q, k) == \A m \in k + 1..Len(q) : q[m].state = "sent"

Synced(q, u, s) ==
  \E b, h :
    b \in 0..Len(q) /\ Lists3(q, b, h, u) /\ \A k \in b..Len(q) : AllSent(q, k) => h[k] = s

\* The list will be read again.
Rereads(x) ==
  \/ x.by \in Reads3 /\ x.state = "sent"
  \/ /\ x.by = "op" /\ x.state = "done"
     /\ Ops[x.arg.op].then \in {"reload", "always", "later", "wait"}
  \/ x.by = "bulk"
  \/ x.by = "stack" /\ x.state = "done"

WillRead(q, later) == later \/ \E k \in DOMAIN q : Rereads(q[k])

ThingsOrder ==
  line = "orderly" =>
    /\ AnsweredFirst(net)
    /\ Authorized(ListCalls[page]) =>
         WillRead(net, ui.later) \/ Synced(net, ui.items, srv.items)

\* A request more, which is not answered.
LEMMA SyncedAdded ==
  ASSUME NEW q, NEW r, NEW x, Added(q, r, x), Len(r) = Len(q) + 1, NEW u, NEW s, Synced(q, u, s)
  PROVE  Synced(r, u, s)
<1>. DEFINE n == Len(q)
<1>1. PICK b, h : b \in 0..n /\ Lists3(q, b, h, u) /\ \A k \in b..n : AllSent(q, k) => h[k] = s
  BY DEF Synced
<1>2. /\ n \in Nat /\ Len(r) = n + 1 /\ r[n + 1] = x /\ x.state = "sent"
      /\ \A k \in 1..n : r[k] = q[k]
  BY DEF Added
<1>. DEFINE g == [k \in 0..n + 1 |-> IF k = n + 1 THEN s ELSE h[k]]
<1>3. /\ \A k \in 0..n : g[k] = h[k]
      /\ g[n + 1] = s
  BY <1>2
<1>. HIDE DEF g, n
<1>4. h[n] = s
  <2>1. AllSent(q, n)
    BY <1>2 DEF AllSent, n
  <2>. QED BY <1>1, <1>2, <2>1
<1>5. Lists3(r, b, g, u)
  <2>1. b = 0 => g[0] = u
    BY <1>1, <1>2, <1>3 DEF Lists3
  <2>2. b # 0 => r[b].by \in Reads3 /\ r[b].state = "done" /\ Head(r[b].reply) = g[b]
    <3>. SUFFICES ASSUME b # 0
         PROVE  r[b].by \in Reads3 /\ r[b].state = "done" /\ Head(r[b].reply) = g[b]
      OBVIOUS
    <3>1. b \in 1..n /\ b \in 0..n
      BY <1>1, <1>2
    <3>2. q[b].by \in Reads3 /\ q[b].state = "done" /\ Head(q[b].reply) = h[b]
      BY <1>1 DEF Lists3
    <3>. QED BY <1>2, <1>3, <3>1, <3>2
  <2>3. ASSUME NEW k \in b + 1..n + 1 PROVE g[k] = Effect(r[k], g[k - 1])
    <3>1. CASE k = n + 1
      <4>1. k - 1 = n /\ n \in 0..n
        BY <1>2, <3>1
      <4>2. Effect(r[k], g[n]) = g[n]
        BY <1>2, <3>1 DEF Effect
      <4>. QED BY <1>3, <1>4, <3>1, <4>1, <4>2
    <3>2. CASE k # n + 1
      <4>1. k \in b + 1..n /\ k \in 1..n /\ k \in 0..n /\ k - 1 \in 0..n
        BY <1>1, <1>2, <2>3, <3>2
      <4>2. h[k] = Effect(q[k], h[k - 1])
        BY <1>1, <4>1 DEF Lists3, n
      <4>. QED BY <1>2, <1>3, <4>1, <4>2
    <3>. QED BY <3>1, <3>2
  <2>. QED BY <1>2, <2>1, <2>2, <2>3 DEF Lists3
<1>6. ASSUME NEW k \in b..n + 1, AllSent(r, k) PROVE g[k] = s
  <2>1. CASE k = n + 1
    BY <1>3, <2>1
  <2>2. CASE k # n + 1
    <3>1. k \in b..n /\ k \in 0..n
      BY <1>1, <1>2, <1>6, <2>2
    <3>2. AllSent(q, k)
      <4>. SUFFICES ASSUME NEW m \in k + 1..n PROVE q[m].state = "sent"
        BY DEF AllSent, n
      <4>1. m \in k + 1..n + 1 /\ m \in 1..n
        BY <1>2, <3>1
      <4>. QED BY <1>2, <1>6, <4>1 DEF AllSent
    <3>. QED BY <1>1, <1>3, <3>1, <3>2
  <2>. QED BY <2>1, <2>2
<1>7. b \in 0..n + 1
  BY <1>1, <1>2
<1>. QED BY <1>2, <1>5, <1>6, <1>7 DEF Synced

\* The server answers the first request that it has not, and what it has
\* becomes what the page will make of it.
LEMMA SyncedAnswered ==
  ASSUME NEW q, NEW r, NEW i, NEW st, NEW v, AnsweredAt(q, r, i, st, v), AreRequests(q),
         AnsweredFirst(q), q[i].state = "sent", st # "sent", Len(r) = Len(q),
         NEW u, NEW s, NEW t,
         \/ Synced(q, u, s) /\ t = Effect(r[i], s)
         \/ r[i].by \in Reads3 /\ r[i].state = "done" /\ t = Head(r[i].reply)
  PROVE  Synced(r, u, t)
<1>. DEFINE n == Len(q)
<1>1. n \in Nat /\ i \in 1..n /\ DOMAIN q = 1..n
  BY DEF AreRequests, AnsweredAt
<1>2. /\ \A k \in 1..n : k # i => r[k] = q[k]
      /\ r[i].state # "sent"
  BY <1>1 DEF AnsweredAt
<1>3. \A k \in 1..n : i < k => q[k].state = "sent" /\ r[k].state = "sent"
  BY <1>1, <1>2 DEF AnsweredFirst
<1>. HIDE DEF n
<1>4. ASSUME NEW b \in 0..i, NEW h,
             b = 0 => h[0] = u,
             b # 0 => r[b].by \in Reads3 /\ r[b].state = "done" /\ Head(r[b].reply) = h[b],
             \A k \in b + 1..i : h[k] = Effect(r[k], h[k - 1]), h[i] = t
      PROVE  Synced(r, u, t)
  <2>. DEFINE g == [k \in 0..n |-> IF k < i THEN h[k] ELSE t]
  <2>1. /\ \A k \in 0..i : g[k] = h[k]
        /\ \A k \in i..n : g[k] = t
    BY <1>1, <1>4
  <2>. HIDE DEF g
  <2>2. ASSUME NEW k \in b + 1..n PROVE g[k] = Effect(r[k], g[k - 1])
    <3>1. CASE k \leq i
      <4>1. k \in b + 1..i /\ k \in 0..i /\ k - 1 \in 0..i
        BY <1>1, <3>1
      <4>. QED BY <1>4, <2>1, <4>1
    <3>2. CASE i < k
      <4>1. k \in i..n /\ k - 1 \in i..n /\ k \in 1..n
        BY <1>1, <3>2
      <4>2. Effect(r[k], g[k - 1]) = g[k - 1]
        BY <1>3, <3>2, <4>1 DEF Effect
      <4>. QED BY <2>1, <4>1, <4>2
    <3>. QED BY <1>1, <3>1, <3>2
  <2>3. Lists3(r, b, g, u)
    <3>1. b \in 0..i /\ g[b] = h[b]
      BY <2>1
    <3>. QED BY <1>4, <2>2, <3>1 DEF Lists3, n
  <2>4. ASSUME NEW k \in b..n, AllSent(r, k) PROVE g[k] = t
    <3>1. i \leq k
      <4>. SUFFICES ASSUME k < i PROVE FALSE
        BY <1>1
      <4>1. i \in k + 1..n
        BY <1>1
      <4>. QED BY <1>2, <2>4, <4>1 DEF AllSent, n
    <3>2. k \in i..n
      BY <1>1, <3>1
    <3>. QED BY <2>1, <3>2
  <2>5. b \in 0..n
    BY <1>1
  <2>. QED BY <2>3, <2>4, <2>5 DEF Synced, n
<1>5. CASE r[i].by \in Reads3 /\ r[i].state = "done" /\ t = Head(r[i].reply)
  <2>. DEFINE h == [k \in 0..n |-> t]
  <2>1. h[i] = t /\ i # 0 /\ i \in 0..i
    BY <1>1
  <2>. HIDE DEF h
  <2>2. i + 1..i = {}
    BY <1>1
  <2>. QED BY <1>4, <1>5, <2>1, <2>2
<1>6. CASE Synced(q, u, s) /\ t = Effect(r[i], s)
  <2>1. PICK b, h : b \in 0..n /\ Lists3(q, b, h, u) /\ \A k \in b..n : AllSent(q, k) => h[k] = s
    BY <1>6 DEF Synced, n
  <2>2. b < i
    <3>1. b # 0 => b \in 1..n /\ q[b].state = "done"
      BY <1>1, <2>1 DEF Lists3
    <3>. QED BY <1>1, <1>3, <3>1
  <2>3. h[i - 1] = s
    <3>1. i - 1 \in b..n
      <4>1. b \in Int /\ i \in Int /\ n \in Int
        BY <1>1, <2>1
      <4>. QED BY <1>1, <2>1, <2>2, <4>1
    <3>2. AllSent(q, i - 1)
      <4>. SUFFICES ASSUME NEW m \in i - 1 + 1..n PROVE q[m].state = "sent"
        BY DEF AllSent, n
      <4>1. m = i \/ (i < m /\ m \in 1..n)
        BY <1>1
      <4>. QED BY <1>3, <4>1
    <3>. QED BY <2>1, <3>1, <3>2
  <2>. DEFINE g == [k \in 0..n |-> IF k = i THEN t ELSE h[k]]
  <2>4. /\ \A k \in 0..n : k # i => g[k] = h[k]
        /\ g[i] = t
    BY <1>1
  <2>. HIDE DEF g
  <2>5. ASSUME NEW k \in b + 1..i PROVE g[k] = Effect(r[k], g[k - 1])
    <3>1. k - 1 \in 0..n /\ k - 1 # i /\ k \in 0..n /\ k \in 1..n /\ k \in b + 1..n
      BY <1>1, <2>1
    <3>2. CASE k = i
      BY <1>6, <2>3, <2>4, <3>1, <3>2
    <3>3. CASE k # i
      <4>1. h[k] = Effect(q[k], h[k - 1])
        BY <2>1, <3>1 DEF Lists3, n
      <4>. QED BY <1>2, <2>4, <3>1, <3>3, <4>1
    <3>. QED BY <3>2, <3>3
  <2>6. b \in 0..i /\ b # i /\ g[b] = h[b] /\ (b # 0 => b \in 1..n)
    BY <1>1, <2>1, <2>2, <2>4
  <2>7. b # 0 => r[b] = q[b]
    BY <1>2, <2>6
  <2>. QED BY <1>4, <2>1, <2>4, <2>5, <2>6, <2>7 DEF Lists3
<1>. QED BY <1>5, <1>6

\* A form that closes changes nothing of what its requests do to the list.
LEMMA EffectWas ==
  ASSUME NEW y, NEW x, NEW closed, Was(y, x, closed)
  PROVE  /\ \A v : Effect(y, v) = Effect(x, v)
         /\ y.by = x.by /\ y.state = x.state /\ (x.by \in Reads3 => y = x)
         /\ Rereads(y) <=> Rereads(x)
<1>1. CASE y = x
  BY <1>1
<1>2. CASE y # x
  <2>1. /\ x.by = "op" /\ y.by = x.by /\ y.state = x.state /\ y.reply = x.reply
        /\ y.arg.op = x.arg.op /\ y.arg.of = x.arg.of
    BY <1>2 DEF Was
  <2>2. \A v : Effect(y, v) = Effect(x, v)
    BY <2>1 DEF Effect
  <2>3. Rereads(y) <=> Rereads(x)
    BY <2>1 DEF Rereads
  <2>. QED BY <2>1, <2>2, <2>3 DEF Reads3
<1>. QED BY <1>1, <1>2

\* The page takes no request, but may close a form.
LEMMA SyncedNone ==
  ASSUME NEW closed, NEW rest, Left(None, closed, rest), NEW u, NEW s, Synced(net, u, s)
  PROVE  Synced(rest, u, s)
<1>. DEFINE n == Len(net)
<1>1. n \in Nat /\ Len(rest) = n /\ \A k \in 1..n : Was(rest[k], net[k], closed)
  <2>1. Len(net) \in Nat /\ Len(rest) = Len(net) /\ DOMAIN rest = 1..Len(rest)
    BY DEF Left
  <2>2. \A k \in DOMAIN rest : Old(None, k) = k
    BY <2>1 DEF Old, None
  <2>. QED BY <2>1, <2>2 DEF Left
<1>2. \A k \in 1..n : /\ \A v : Effect(rest[k], v) = Effect(net[k], v)
                      /\ rest[k].state = net[k].state
                      /\ net[k].by \in Reads3 => rest[k] = net[k]
  BY <1>1, EffectWas
<1>3. PICK b, h : b \in 0..n /\ Lists3(net, b, h, u) /\ \A k \in b..n : AllSent(net, k) => h[k] = s
  BY DEF Synced
<1>. HIDE DEF n
<1>4. Lists3(rest, b, h, u)
  <2>1. b # 0 => b \in 1..n
    BY <1>1, <1>3
  <2>2. \A k \in b + 1..n : k \in 1..n
    BY <1>1, <1>3
  <2>. QED BY <1>1, <1>2, <1>3, <2>1, <2>2 DEF Lists3, n
<1>5. ASSUME NEW k \in b..n, AllSent(rest, k) PROVE AllSent(net, k)
  <2>1. \A m \in k + 1..n : m \in 1..n
    BY <1>1, <1>3
  <2>. QED BY <1>1, <1>2, <1>5, <2>1 DEF AllSent, n
<1>. QED BY <1>1, <1>3, <1>4, <1>5 DEF Synced

\* The page takes the first answer, and makes of the list what it says.
LEMMA SyncedTaken ==
  ASSUME NEW closed, NEW rest, Left(1, closed, rest), None # 1,
         NEW u, NEW w, NEW s, w = Effect(net[1], u), Synced(net, u, s)
  PROVE  Synced(rest, w, s)
<1>. DEFINE n == Len(net)
            p == Len(rest)
<1>1. /\ n \in Nat /\ 0 < n /\ p = n - 1
      /\ \A k \in 1..p : Was(rest[k], net[k + 1], closed)
  <2>1. Len(net) \in Nat /\ Len(rest) = Len(net) - 1 /\ DOMAIN rest = 1..Len(rest) /\ 0 < Len(net)
    <3>1. Len(net) \in Nat /\ Len(rest) = Len(net) - 1 /\ DOMAIN rest = 1..Len(rest)
      BY DEF Left
    <3>. QED BY <3>1 DEF None
  <2>2. \A k \in DOMAIN rest : Old(1, k) = k + 1
    BY <2>1 DEF Old
  <2>. QED BY <2>1, <2>2 DEF Left
<1>2. \A k \in 1..p : /\ \A v : Effect(rest[k], v) = Effect(net[k + 1], v)
                      /\ rest[k].state = net[k + 1].state
                      /\ net[k + 1].by \in Reads3 => rest[k] = net[k + 1]
  BY <1>1, EffectWas
<1>3. PICK b, h : b \in 0..n /\ Lists3(net, b, h, u) /\ \A k \in b..n : AllSent(net, k) => h[k] = s
  BY DEF Synced
<1>. DEFINE c == IF b = 0 THEN 0 ELSE b - 1
            g == [k \in 0..p |-> h[k + 1]]
<1>4. \A k \in 0..p : g[k] = h[k + 1]
  OBVIOUS
<1>5. c \in 0..p /\ (c # 0 => b = c + 1 /\ c \in 1..p) /\ (c = 0 => b = 0 \/ b = 1)
      /\ b \in Nat /\ b \leq c + 1 /\ p \in Nat
  BY <1>1, <1>3
<1>. HIDE DEF n, p, c, g
<1>6. c = 0 => g[0] = w
  <2>. SUFFICES ASSUME c = 0 PROVE g[0] = w
    OBVIOUS
  <2>0. g[0] = h[1]
    BY <1>4, <1>5
  <2>1. CASE b = 0
    <3>1. 1 \in b + 1..n /\ 1 - 1 = 0
      BY <1>1, <2>1
    <3>2. h[1] = Effect(net[1], h[1 - 1])
      BY <1>3, <3>1 DEF Lists3, n
    <3>. QED BY <1>3, <2>0, <2>1, <3>1, <3>2 DEF Lists3
  <2>2. CASE b = 1
    BY <1>3, <2>0, <2>2 DEF Lists3, Effect
  <2>. QED BY <1>5, <2>1, <2>2
<1>7. c # 0 => rest[c].by \in Reads3 /\ rest[c].state = "done" /\ Head(rest[c].reply) = g[c]
  <2>. SUFFICES ASSUME c # 0
       PROVE  rest[c].by \in Reads3 /\ rest[c].state = "done" /\ Head(rest[c].reply) = g[c]
    OBVIOUS
  <2>1. b = c + 1 /\ c \in 1..p /\ b # 0
    BY <1>5
  <2>2. net[b].by \in Reads3 /\ net[b].state = "done" /\ Head(net[b].reply) = h[b]
    BY <1>3, <2>1 DEF Lists3
  <2>. QED BY <1>2, <1>4, <1>5, <2>1, <2>2
<1>8. ASSUME NEW k \in c + 1..p PROVE g[k] = Effect(rest[k], g[k - 1])
  <2>1. /\ k \in 1..p /\ k \in 0..p /\ k - 1 \in 0..p /\ k - 1 + 1 = k /\ k + 1 - 1 = k
        /\ k + 1 \in b + 1..n
    BY <1>1, <1>5
  <2>2. h[k + 1] = Effect(net[k + 1], h[k + 1 - 1])
    BY <1>3, <2>1 DEF Lists3, n
  <2>3. g[k] = h[k + 1] /\ g[k - 1] = h[k]
    BY <1>4, <2>1
  <2>. QED BY <1>2, <2>1, <2>2, <2>3
<1>9. ASSUME NEW k \in c..p, AllSent(rest, k) PROVE g[k] = s
  <2>1. k + 1 \in b..n /\ k \in 0..p
    BY <1>1, <1>5
  <2>2. AllSent(net, k + 1)
    <3>. SUFFICES ASSUME NEW m \in k + 1 + 1..n PROVE net[m].state = "sent"
      BY DEF AllSent, n
    <3>1. m - 1 \in k + 1..p /\ m - 1 \in 1..p /\ m - 1 + 1 = m
      BY <1>1, <1>5, <2>1
    <3>2. rest[m - 1].state = "sent"
      BY <1>9, <3>1 DEF AllSent, p
    <3>. QED BY <1>2, <3>1, <3>2
  <2>. QED BY <1>3, <1>4, <2>1, <2>2
<1>10. Lists3(rest, c, g, w)
  BY <1>6, <1>7, <1>8 DEF Lists3, p
<1>. QED BY <1>5, <1>9, <1>10 DEF Synced, p

\* The order of the answers, in what is left.
LEMMA LeftOrder ==
  ASSUME NEW i, NEW closed, NEW rest, Left(i, closed, rest), i = None \/ i = 1, AnsweredFirst(net)
  PROVE  AnsweredFirst(rest)
<1>. SUFFICES ASSUME NEW j \in DOMAIN rest, NEW k \in DOMAIN rest, j < k, rest[k].state # "sent"
     PROVE  rest[j].state # "sent"
  BY DEF AnsweredFirst
<1>1. \A m \in DOMAIN rest : /\ Old(i, m) \in DOMAIN net
                             /\ rest[m].state = net[Old(i, m)].state
  BY EffectWas DEF Left
<1>2. Old(i, j) < Old(i, k)
  <2>1. /\ Len(net) \in Nat /\ i \in 1..None /\ DOMAIN rest = 1..Len(rest)
        /\ Len(rest) = (IF i = None THEN Len(net) ELSE Len(net) - 1)
    BY DEF Left
  <2>2. i \in Int /\ j \in Int /\ k \in Int
    BY <2>1 DEF None
  <2>. QED BY <2>2 DEF Old
<1>. QED BY <1>1, <1>2 DEF AnsweredFirst

\* What the list is, as the page of the next state says it.
LEMMA ThingsOrderThen ==
  ASSUME UNCHANGED session,
         AnsweredFirst(net'),
         Authorized(ListCalls[page]) =>
           WillRead(net', ui'.later) \/ Synced(net', ui'.items, srv'.items)
  PROVE  ThingsOrder'
<1>1. Ops' = Ops /\ page' = page /\ (Authorized(ListCalls[page]))' = Authorized(ListCalls[page])
  <2>1. page' = page /\ perms' = perms
    BY DEF session
  <2>2. (Authorized(ListCalls[page]))' = Authorized(ListCalls[page])
    BY <2>1 DEF Authorized, IsAdmin, Can
  <2>. QED BY <2>1, <2>2 DEF Ops
<1>2. WillRead(net', ui'.later) => (WillRead(net, ui.later))'
  BY <1>1 DEF WillRead, Rereads
<1>3. ASSUME Synced(net', ui'.items, srv'.items) PROVE (Synced(net, ui.items, srv.items))'
  <2>1. PICK b, h : /\ b \in 0..Len(net') /\ Lists3(net', b, h, ui'.items)
                    /\ \A k \in b..Len(net') : AllSent(net', k) => h[k] = srv'.items
    BY <1>3 DEF Synced
  <2>2. \A k : (Effect(net[k], h[k - 1]))' = Effect(net'[k], h[k - 1])
    BY <1>1 DEF Effect, Patched
  <2>3. (Lists3(net, b, h, ui.items))'
    BY <2>1, <2>2 DEF Lists3
  <2>4. \A k \in b..Len(net') : (AllSent(net, k))' => h[k] = srv'.items
    BY <2>1 DEF AllSent
  <2>. QED BY <2>1, <2>3, <2>4 DEF Synced
<1>. QED BY <1>1, <1>2, <1>3 DEF ThingsOrder, AnsweredFirst

\* An answer to an orderly page leaves its list in order: what it says of the
\* list is the server's, or a load that will read it again is still to come.
LEMMA ThingsOrderServed ==
  ASSUME page \in InventoryPages, line = "orderly", ThingsForm, ThingsOrder,
         NEW i \in DOMAIN net, NEW st, NEW v, Serving(i, st, v)
  PROVE  ThingsOrder'
<1>1. /\ AnsweredAt(net, net', i, st, v) /\ AreRequests(net) /\ AreRequests(net')
      /\ UNCHANGED <<session, ui>> /\ st \in {"done", "error"}
      /\ net[i].state = "sent" /\ InTurn(i) /\ AnsweredFirst(net)
  BY DEF Serving, ThingsForm, ThingsOrder
<1>2. /\ DOMAIN net' = DOMAIN net /\ \A k \in DOMAIN net : k # i => net'[k] = net[k]
      /\ net'[i].by = net[i].by /\ net'[i].call = net[i].call /\ net'[i].arg = net[i].arg
      /\ net'[i].state = st /\ (st = "done" => net'[i].reply = v)
  BY <1>1 DEF AnsweredAt
<1>3. AnsweredFirst(net')
  <2>1. DOMAIN net \subseteq Nat /\ \A k \in DOMAIN net : k < i => net[k].state # "sent"
    <3>1. PICK S : net \in Seq(S)
      BY <1>1 DEF AreRequests
    <3>. QED BY <1>1, <3>1 DEF InTurn
  <2>. QED BY <1>1, <2>1, OrderAnswered
<1>4. Len(net') = Len(net)
  <2>1. PICK S : net \in Seq(S)
    BY <1>1 DEF AreRequests
  <2>2. PICK T : net' \in Seq(T)
    BY <1>1 DEF AreRequests
  <2>3. Len(net) \in Nat /\ Len(net') \in Nat /\ 1..Len(net) = 1..Len(net')
    BY <1>2, <2>1, <2>2
  <2>. QED BY <2>3
<1>5. ASSUME Authorized(ListCalls[page])
      PROVE  WillRead(net', ui.later) \/ Synced(net', ui.items, srv'.items)
  <2>1. CASE net[i].by \in Reads3
    <3>1. net[i].call = ListCalls[page]
      BY <2>1 DEF ThingsForm, ThingRequest, Reads3
    <3>2. st = "done" /\ srv' = srv /\ v = <<srv.items>>
      BY <1>1, <1>5, <2>1, <3>1 DEF Serving, NotServed, ListServed, OpServed, Reads3
    <3>3. net'[i].by \in Reads3 /\ net'[i].state = "done" /\ srv'.items = Head(net'[i].reply)
      BY <1>2, <2>1, <3>2
    <3>. QED BY <1>1, <1>4, <3>2, <3>3, SyncedAnswered
  <2>2. CASE net[i].by \notin Reads3 /\ WillRead(net, ui.later)
    <3>1. ~\E k \in DOMAIN net : Rereads(net[k]) /\ k = i /\ net[i].by # "bulk"
      BY <1>1, <2>2 DEF Rereads
    <3>2. net[i].by = "bulk" => Rereads(net'[i])
      BY <1>2 DEF Rereads
    <3>. QED BY <1>1, <1>2, <2>2, <3>1, <3>2 DEF WillRead, Rereads
  <2>3. CASE Rereads(net'[i])
    BY <1>2, <2>3 DEF WillRead
  <2>4. ASSUME net[i].by \notin Reads3, Synced(net, ui.items, srv.items), ~Rereads(net'[i]),
               srv'.items = Effect(net'[i], srv.items)
        PROVE  Synced(net', ui.items, srv'.items)
    BY <1>1, <1>4, <2>4, SyncedAnswered
  <2>5. CASE net[i].by \notin Reads3 /\ ~Rereads(net'[i]) /\ Synced(net, ui.items, srv.items)
    <3>1. CASE st = "error"
      <4>1. srv' = srv
        BY <3>1 DEF Serving, NotServed
      <4>2. Effect(net'[i], srv.items) = srv.items
        BY <1>2, <3>1 DEF Effect
      <4>. QED BY <2>4, <2>5, <4>1, <4>2
    <3>2. CASE st = "done"
      <4>. DEFINE a == net[i].arg
                  e == Ops[a.op]
                  s == srv.items
      <4>1. net[i].by \notin Runs
        <5>1. net[i].by \in Runs => Rereads(net'[i])
          BY <1>2, <3>2 DEF Rereads, Runs
        <5>. QED BY <2>5, <5>1
      <4>2. OpServed(i, v)
        BY <1>1, <2>5, <3>2, <4>1 DEF Serving, ListServed, Runs
      <4>3. /\ net[i].by = "op" /\ DOMAIN a = OpArg /\ a.op \in DOMAIN Ops /\ a.of \in Things
        BY <4>2 DEF OpServed, ThingsForm, ThingRequest, Reads3
      <4>4. Entry(page, a.op, e) /\ e.then \notin {"reload", "always", "later", "wait"}
        <5>1. Entry(page, a.op, e)
          BY <4>3, TheTables
        <5>2. e.then \in {"reload", "always", "later", "wait"} => Rereads(net'[i])
          BY <1>2, <3>2, <4>3 DEF Rereads
        <5>. QED BY <2>5, <5>1, <5>2
      <4>5. e.does # "prune" /\ e.then \in {"none", "local", "load", "plan"}
        BY <4>4 DEF Entry
      <4>6. /\ CanDo(a) /\ v = <<[a EXCEPT !.state = Made(a)]>>
            /\ srv'.items = [x \in Things |-> IF x = a.of THEN Made(a) ELSE s[x]]
        BY <4>2, <4>5 DEF OpServed
      <4>7. s \in Views
        BY DEF ThingsForm
      <4>8. net'[i].reply = v /\ Head(v).state = Made(a)
        BY <1>2, <3>2, <4>3, <4>6 DEF OpArg
      <4>9. Effect(net'[i], s) = Patched(a.op, a.of, Made(a), s)
        BY <1>2, <3>2, <4>3, <4>8 DEF Effect, Reads3
      <4>. HIDE DEF a, e, s
      <4>10. CASE e.then # "local"
        <5>1. e.does \in {"keep", "touch"}
          BY <4>4, <4>5, <4>10 DEF Entry
        <5>2. Made(a) = s[a.of]
          BY <5>1 DEF Made, e, s
        <5>3. srv'.items = s
          BY <4>3, <4>6, <4>7, <5>2 DEF Views
        <5>4. Patched(a.op, a.of, Made(a), s) = s
          BY <4>10 DEF Patched, e
        <5>. QED BY <2>4, <2>5, <4>9, <5>3, <5>4 DEF s
      <4>11. CASE e.then = "local"
        <5>1. e.asks = "form" \/ s[a.of] # "gone"
          <6>1. e.asks # "form" => e.does \in {"on", "turn", "remove", "touch"}
            BY <4>4, <4>11 DEF Entry
          <6>2. e.does \in {"on", "turn", "remove", "touch"} => s[a.of] # "gone"
            BY <4>6 DEF CanDo, e, s
          <6>. QED BY <6>1, <6>2
        <5>2. Patched(a.op, a.of, Made(a), s) = [s EXCEPT ![a.of] = Made(a)]
          BY <4>11, <5>1 DEF Patched, e
        <5>3. srv'.items = [s EXCEPT ![a.of] = Made(a)]
          BY <4>3, <4>6, <4>7 DEF Views
        <5>. QED BY <2>4, <2>5, <4>9, <5>2, <5>3 DEF s
      <4>. QED BY <4>10, <4>11
    <3>. QED BY <1>1, <3>1, <3>2
  <2>. QED BY <1>5, <2>1, <2>2, <2>3, <2>5 DEF ThingsOrder
<1>. QED BY <1>1, <1>3, <1>5, ThingsOrderThen

\* The page takes the first answer, if any, and asks for what it may.
LEMMA ThingsOrderMoved ==
  ASSUME page \in InventoryPages, line = "orderly", ThingsForm, ThingsOrder,
         NEW i, NEW closed, NEW xs, Moves(i, closed, xs), i = None \/ i \in DOMAIN net,
         NEW items, NEW later, ui'.items = items, ui'.later = later,
         \/ later \/ \E x \in xs : Rereads(x)
         \/ /\ ~ui.later /\ (i # None => ~Rereads(net[i]))
            /\ items = IF i = None THEN ui.items ELSE Effect(net[i], ui.items)
  PROVE  ThingsOrder'
<1>1. PICK rest :
        /\ Left(i, closed, rest)
        /\ \/ xs = {} /\ net' = rest
           \/ \E x : xs = {x} /\ ThingRequest(x) /\ x.state = "sent" /\ Added(rest, net', x)
        /\ \A k \in DOMAIN rest : k \in DOMAIN net' /\ net'[k] = rest[k]
        /\ \A x \in xs : \E k \in DOMAIN net' : net'[k] = x
  BY MovesNet
<1>2. /\ i = None \/ i = 1
      /\ None \notin DOMAIN net
      /\ UNCHANGED session /\ srv' = srv /\ AreRequests(net') /\ AnsweredFirst(net)
  <2>1. None \notin DOMAIN net
    <3>1. Len(net) \in Nat /\ DOMAIN net = 1..Len(net)
      BY <1>1 DEF Left
    <3>. QED BY <3>1 DEF None
  <2>2. i # None => Next1(i)
    BY DEF Moves
  <2>. QED BY <2>1, <2>2, MovesNet DEF Next1, Moves, ThingsOrder
<1>3. AnsweredFirst(rest) /\ AreRequests(rest)
  <2>1. AreRequests(rest)
    BY <1>1 DEF Left
  <2>. QED BY <1>1, <1>2, <2>1, LeftOrder
<1>4. AnsweredFirst(net')
  BY <1>1, <1>3, OrderAdded
<1>5. ASSUME Authorized(ListCalls[page])
      PROVE  WillRead(net', ui'.later) \/ Synced(net', ui'.items, srv'.items)
  <2>1. CASE later \/ \E x \in xs : Rereads(x)
    BY <1>1, <2>1 DEF WillRead
  <2>2. CASE /\ ~ui.later /\ (i # None => ~Rereads(net[i]))
             /\ items = IF i = None THEN ui.items ELSE Effect(net[i], ui.items)
    <3>1. CASE WillRead(net, ui.later)
      <4>1. PICK j \in DOMAIN net : Rereads(net[j])
        BY <2>2, <3>1 DEF WillRead
      <4>2. j # i
        BY <1>2, <2>2, <4>1
      <4>3. PICK k \in DOMAIN rest : Old(i, k) = j
        BY <1>1, <4>2 DEF Left
      <4>4. Was(rest[k], net[j], closed)
        BY <1>1, <4>3 DEF Left
      <4>. QED BY <1>1, <4>1, <4>4, EffectWas DEF WillRead
    <3>2. CASE Synced(net, ui.items, srv.items)
      <4>1. Synced(rest, items, srv.items)
        <5>1. CASE i = None
          BY <1>1, <2>2, <3>2, <5>1, SyncedNone
        <5>2. CASE i = 1 /\ i # None
          BY <1>1, <2>2, <3>2, <5>2, SyncedTaken
        <5>. QED BY <1>2, <5>1, <5>2
      <4>2. CASE xs = {} /\ net' = rest
        BY <1>2, <4>1, <4>2
      <4>3. CASE \E x : xs = {x} /\ ThingRequest(x) /\ x.state = "sent" /\ Added(rest, net', x)
        <5>1. PICK x : Added(rest, net', x)
          BY <4>3
        <5>2. Len(net') = Len(rest) + 1
          <6>1. PICK S : net' \in Seq(S)
            BY <1>2 DEF AreRequests
          <6>2. DOMAIN net' = 1..Len(net') /\ Len(net') \in Nat
            BY <6>1
          <6>3. DOMAIN net' = 1..Len(rest) + 1 /\ Len(rest) \in Nat
            BY <5>1 DEF Added
          <6>. DEFINE m == Len(net')
                      n == Len(rest)
          <6>4. m \in Nat /\ n \in Nat /\ 1..m = 1..n + 1
            BY <6>2, <6>3
          <6>. HIDE DEF m, n
          <6>5. m = n + 1
            BY <6>4
          <6>. QED BY <6>5 DEF m, n
        <5>. QED BY <1>2, <4>1, <5>1, <5>2, SyncedAdded
      <4>. QED BY <1>1, <4>2, <4>3
    <3>. QED BY <1>5, <3>1, <3>2 DEF ThingsOrder
  <2>. QED BY <2>1, <2>2
<1>. QED BY <1>2, <1>4, <1>5, ThingsOrderThen

\* So does every step of the page: it takes an answer that says something of the
\* list only in the order of the answers, and asks for the list after an operation.
LEMMA ThingsOrderMoves ==
  ASSUME page \in InventoryPages, line = "orderly", ThingsForm, ThingsOrder, ThingsMove
  PROVE  ThingsOrder'
<1>0. \A i \in DOMAIN net : i # None
  <2>1. PICK S : net \in Seq(S)
    BY DEF ThingsForm, AreRequests
  <2>2. DOMAIN net = 1..Len(net) /\ Len(net) \in Nat
    BY <2>1
  <2>. QED BY <2>2 DEF None
\* The page takes nothing that says something of the list.
<1>1. ASSUME NEW i, NEW closed, NEW xs, Moves(i, closed, xs), i = None \/ i \in DOMAIN net,
             NEW busy, NEW modal, NEW later, NEW sel, UiIs(busy, modal, ui.items, later, sel),
             \/ later \/ \E x \in xs : Rereads(x)
             \/ ~ui.later /\ (i # None => ~Rereads(net[i]) /\ Effect(net[i], ui.items) = ui.items)
      PROVE  ThingsOrder'
  BY <1>1, ThingsOrderMoved DEF UiIs
<1>2. ui.later \in BOOLEAN /\ Rereads(LoadRequest)
  BY ThingsAsk DEF ThingsForm, Rereads, Reads3
<1>3. ASSUME NEW o \in DOMAIN Ops, NEW x \in Things, RunsOp(o, x) \/ OpensModal(o, x)
      PROVE  ThingsOrder'
  BY <1>1, <1>2, <1>3 DEF RunsOp, OpensModal
<1>4. CASE AsksList
  <2>1. PICK later : /\ Moves(None, FALSE, {LoadRequest})
                     /\ UiIs(BusyLoading(ui.busy), ui.modal, ui.items, later, ui.sel)
    BY <1>4 DEF AsksList
  <2>. QED BY <1>1, <1>2, <2>1
<1>5. CASE ClosesForm \/ Selects \/ \E x : StartsRun(x)
  BY <1>1, <1>2, <1>5 DEF ClosesForm, Selects, StartsRun
<1>6. ASSUME NEW i \in DOMAIN net, TakesList(i)
      PROVE  ThingsOrder'
  <2>. DEFINE items == IF net[i].state = "done" THEN Head(net[i].reply) ELSE ui.items
  <2>1. net[i].by \in Reads3 /\ Moves(i, FALSE, {}) /\ ui'.items = items /\ ui'.later = ui.later
    BY <1>6 DEF TakesList, UiIs
  <2>2. i # None => net[i].state \in {"done", "error"}
    BY <2>1 DEF Moves
  <2>3. (i # None => ~Rereads(net[i])) /\ Effect(net[i], ui.items) = items
    BY <2>1, <2>2 DEF Effect, Rereads, Reads3
  <2>4. i # None
    BY <1>0
  <2>. HIDE DEF items
  <2>. QED BY <1>2, <2>1, <2>3, <2>4, ThingsOrderMoved
<1>7. ASSUME NEW i \in DOMAIN net, NEW x, GoesOn(i, x)
      PROVE  ThingsOrder'
  <2>1. PICK later \in BOOLEAN :
          /\ ui.later \/ (x.by = "stack" /\ net[i].state = "done") => later
          /\ UiIs(IF x.by = "stack" THEN Taken(x.arg.op, x.arg.of) ELSE ui.busy,
                  ui.modal, ui.items, later, ui.sel)
    BY <1>7 DEF GoesOn
  <2>2. net[i].by \in Runs /\ x.by = net[i].by /\ Moves(i, FALSE, {x})
    BY <1>7 DEF GoesOn
  <2>3. CASE x.by = "bulk"
    <3>1. Rereads(x)
      BY <2>3 DEF Rereads
    <3>. QED BY <1>1, <2>1, <2>2, <3>1
  <2>4. CASE x.by = "stack" /\ net[i].state = "done"
    BY <1>1, <2>1, <2>2, <2>4
  <2>5. CASE x.by = "stack" /\ net[i].state # "done"
    <3>1. ~Rereads(net[i]) /\ Effect(net[i], ui.items) = ui.items
      BY <2>2, <2>5 DEF Rereads, Effect, Reads3
    <3>. QED BY <1>1, <1>2, <2>1, <2>2, <3>1
  <2>. QED BY <2>2, <2>3, <2>4, <2>5 DEF Runs
<1>8. ASSUME NEW i \in DOMAIN net, EndsRun(i)
      PROVE  ThingsOrder'
  <2>1. PICK later \in BOOLEAN, sel \in SUBSET Things :
          /\ ui.later \/ net[i].by = "bulk" \/ net[i].state = "done" => later
          /\ UiIs(IF net[i].by = "stack" THEN Freed(ui.busy, "row") ELSE ui.busy,
                  ui.modal, ui.items, later, sel)
    BY <1>8 DEF EndsRun
  <2>2. net[i].by \in Runs /\ Moves(i, FALSE, {})
    BY <1>8 DEF EndsRun
  <2>3. CASE net[i].by = "bulk" \/ net[i].state = "done"
    BY <1>1, <2>1, <2>2, <2>3
  <2>4. CASE net[i].by = "stack" /\ net[i].state # "done"
    <3>1. ~Rereads(net[i]) /\ Effect(net[i], ui.items) = ui.items
      BY <2>4 DEF Rereads, Effect, Reads3
    <3>. QED BY <1>1, <1>2, <2>1, <2>2, <3>1
  <2>. QED BY <2>2, <2>3, <2>4 DEF Runs
<1>9. ASSUME NEW i \in DOMAIN net, NEW ok \in BOOLEAN, NEW closed, NEW busy, NEW modal,
             OpEnds(i, ok, closed, busy, modal)
      PROVE  ThingsOrder'
  <2>. DEFINE a == net[i].arg
              e == Ops[a.op]
  <2>1. /\ net[i].by = "op" /\ net[i].state = (IF ok THEN "done" ELSE "error")
        /\ DOMAIN a = OpArg
    BY <1>9 DEF OpEnds, ThingsForm, ThingRequest, Reads3
  <2>2. e.then \notin {"reload", "always", "later", "wait"} \/ ~ok => ~Rereads(net[i])
    BY <2>1 DEF Rereads, Reads3
  <2>3. e.then # "local" \/ ~ok => Effect(net[i], ui.items) = ui.items
    BY <2>1 DEF Effect, Patched, Reads3
  <2>4. CASE EndsPlain(i, ok, closed, busy, modal)
    <3>. DEFINE b == [a EXCEPT !.state = Answer(i).state]
                items == IF ok THEN Applied(b) ELSE ui.items
    <3>1. ok => e.then \in {"none", "local"}
      BY <2>4 DEF EndsPlain
    <3>2. Moves(i, closed, {}) /\ ui'.items = items /\ ui'.later = ui.later
      BY <2>4 DEF EndsPlain, UiIs
    <3>3. b.op = a.op /\ b.of = a.of /\ b.state = Head(net[i].reply).state
      BY <2>1 DEF OpArg, Answer
    <3>. HIDE DEF a, b
    <3>4. ok => Effect(net[i], ui.items) = Patched(a.op, a.of, Head(net[i].reply).state, ui.items)
      BY <2>1 DEF Effect, Reads3, a
    <3>5. Applied(b) = Patched(a.op, a.of, Head(net[i].reply).state, ui.items)
      BY <3>3 DEF Applied, Patched
    <3>6. Effect(net[i], ui.items) = items
      BY <2>3, <3>4, <3>5
    <3>7. ~Rereads(net[i])
      BY <2>2, <3>1
    <3>8. i # None
      BY <1>0
    <3>. HIDE DEF items, e
    <3>. QED BY <1>2, <3>2, <3>6, <3>7, <3>8, ThingsOrderMoved
  <2>5. CASE EndsReload(i, ok, closed, busy, modal)
    BY <1>1, <1>2, <2>5 DEF EndsReload
  <2>6. CASE EndsLater(i, ok, closed, busy, modal)
    BY <1>1, <2>6 DEF EndsLater
  <2>7. CASE EndsWait(i, ok, closed)
    <3>1. Rereads(Request("wait", ListCalls[page], NoArg))
      BY ThingsAsk DEF Rereads, Reads3
    <3>. QED BY <1>1, <2>7, <3>1 DEF EndsWait
  <2>8. CASE EndsLoad(i, ok, closed)
    BY <1>1, <1>2, <2>2, <2>3, <2>8 DEF EndsLoad
  <2>9. CASE EndsPlan(i, ok, closed, busy)
    BY <1>1, <1>2, <2>2, <2>3, <2>9 DEF EndsPlan
  <2>. QED BY <1>9, <2>4, <2>5, <2>6, <2>7, <2>8, <2>9 DEF OpEnds
<1>. QED BY <1>3, <1>4, <1>5, <1>6, <1>7, <1>8, <1>9, ThingsOrderServed
     DEF ThingsMove, Serves1, Clicks, Answers, Turns, Rest1

\* A page of the inventory opens with its list asked for.
LEMMA ThingsOrderOpens ==
  ASSUME ConsoleInit, page \in InventoryPages
  PROVE  ThingsOrder
<1>1. net = <<LoadRequest>>
  BY OpensConsole DEF InventoryInit
<1>. DEFINE x == LoadRequest
<1>2. Rereads(x) /\ x.state = "sent"
  BY ThingsAsk DEF Rereads, Reads3
<1>. HIDE DEF x
<1>3. DOMAIN net = {1} /\ net[1] = x
  BY <1>1 DEF x
<1>. QED BY <1>2, <1>3 DEF ThingsOrder, AnsweredFirst, WillRead

ListInv == page \in InventoryPages => ThingsOrder

LEMMA ListKeeps ==
  ASSUME ConsoleForm, ListInv, [ConsoleNext]_webVars
  PROVE  ListInv'
<1>1. page' = page /\ UNCHANGED session /\ InventoryPages' = InventoryPages
  BY PageStays DEF session, InventoryPages
<1>2. CASE UNCHANGED webVars
  <2>1. page' = page /\ perms' = perms /\ line' = line /\ ui' = ui /\ srv' = srv /\ net' = net
    BY <1>2 DEF webVars
  <2>2. ThingsOrder => ThingsOrder'
    <3>. SUFFICES ASSUME ThingsOrder, line = "orderly" PROVE ThingsOrder'
      BY <2>1 DEF ThingsOrder
    <3>. QED BY <1>1, <2>1, ThingsOrderThen DEF ThingsOrder
  <2>. QED BY <1>1, <2>2 DEF ListInv
<1>3. CASE ConsoleNext /\ page \in InventoryPages
  <2>1. InventoryNext /\ ThingsForm /\ ThingsOrder
    BY <1>3, OnConsole DEF ConsoleForm, ListInv
  <2>2. CASE line = "orderly"
    BY <1>3, <2>1, <2>2, ThingsMoves, ThingsOrderMoves DEF ListInv
  <2>3. CASE line # "orderly"
    BY <1>1, <2>3 DEF ThingsOrder, ListInv, session
  <2>. QED BY <2>2, <2>3
<1>4. CASE page \notin InventoryPages
  BY <1>1, <1>4 DEF ListInv
<1>. QED BY <1>2, <1>3, <1>4

\* A page of the inventory, for any things and any user who may list them: when
\* every answer is in, in order and none lost, and no reload waits for its
\* timer, it shows what the server has, although half of the operations patch
\* the list of the page and the other half read it again.
THEOREM ListCorrect == ConsoleSpec => []ListIsTrue
<1>1. ListInv => ListIsTrue
  <2>. SUFFICES ASSUME ListInv, page \in InventoryPages, Quiet, ~ui.later, Authorized(ListCalls[page])
       PROVE  ui.items = srv.items
    BY DEF ListIsTrue
  <2>1. net = <<>> /\ ThingsOrder /\ line = "orderly"
    BY DEF ListInv, Quiet
  <2>2. ~WillRead(net, ui.later)
    BY <2>1 DEF WillRead
  <2>3. Synced(net, ui.items, srv.items)
    BY <2>1, <2>2 DEF ThingsOrder
  <2>4. PICK b, h : /\ b \in 0..Len(net) /\ Lists3(net, b, h, ui.items)
                    /\ \A k \in b..Len(net) : AllSent(net, k) => h[k] = srv.items
    BY <2>3 DEF Synced
  <2>5. b = 0 /\ Len(net) = 0 /\ h[0] = ui.items
    BY <2>1, <2>4 DEF Lists3
  <2>6. AllSent(net, 0) /\ 0 \in b..Len(net)
    BY <2>5 DEF AllSent
  <2>. QED BY <2>4, <2>5, <2>6
<1>2. ConsoleForm /\ ListInv /\ [ConsoleNext]_webVars => ListInv'
  BY ListKeeps
<1>3. ConsoleInit => ListInv
  BY ThingsOrderOpens DEF ListInv
<1>. QED BY <1>1, <1>2, <1>3, QueryInvHolds, PTL DEF ConsoleSpec

-----------------------------------------------------------------------------
(* The backups, among the other pages *)

\* All three hold of the backups when their page is one of those of the console:
\* the newest are kept, every day has one, and the form shows the settings.
THEOREM BackupsCorrect == ConsoleSpec => []NewestKept /\ OneBackupADay /\ []ScheduleShown
<1>. DEFINE Inv == page = "backupSchedule" => BackupInv
<1>1. ConsoleInit => Inv
  BY OpensConsole, BackupStart
<1>2. ASSUME ConsoleForm, Inv, [ConsoleNext]_webVars
      PROVE  Inv' /\ [OnceADay' /\ DailyBackup]_webVars
  <2>1. page' = page
    BY <1>2, PageStays DEF session
  <2>2. CASE page = "backupSchedule"
    <3>1. [BackupScheduleNext]_webVars
      BY <1>2, <2>2, OnConsole
    <3>. QED BY <1>2, <2>2, <3>1, BackupMoves, BackupDays
  <2>3. CASE page # "backupSchedule"
    BY <2>1, <2>3 DEF OnceADay, DailyBackup
  <2>. QED BY <2>2, <2>3
<1>3. Inv => NewestKept /\ ScheduleShown
  BY KeptNewest, FormShows DEF NewestKept, ScheduleShown
<1>4. ConsoleForm /\ Inv /\ [ConsoleNext]_webVars => Inv'
  BY <1>2
<1>5. ConsoleForm /\ Inv /\ [ConsoleNext]_webVars => [OnceADay' /\ DailyBackup]_webVars
  BY <1>2
<1>. HIDE DEF Inv
<1>. QED BY <1>1, <1>3, <1>4, <1>5, QueryInvHolds, PTL DEF ConsoleSpec, OneBackupADay
=============================================================================
