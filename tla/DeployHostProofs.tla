-------------------------- MODULE DeployHostProofs --------------------------
(***************************************************************************)
(* More theorems about DeployEngine, and those about DeployScheduler: what  *)
(* the deployment records say about the project directory, the containers,  *)
(* the project's status and the users' cancels, for every number of         *)
(* attempts, versions and crashes; that all this also holds next to the     *)
(* scheduler; and what the scheduler itself promises of its entries.        *)
(***************************************************************************)
EXTENDS DeployScheduler, DeployEngineProofs, FiniteSetTheorems

-----------------------------------------------------------------------------
(* The inductive invariant about the host *)

\* Where an attempt has a record that has started: from the first write to the
\* project directory to the unlock.
Started == Critical \ {"resolve", "record"}

\* What a record says of the host is true.
OnHost(r) ==
  /\ r.status = "success" => disk = r.ver /\ stack.ver = r.ver
  /\ r.rolledBackTo # NoPair =>
       /\ disk.compose = r.rolledBackTo.compose
       /\ disk.env \in {r.rolledBackTo.env, 0}
       /\ stack.ver = disk

\* The start of a record is a tick of the clock, and no two attempts have the
\* latest one.
Clocked ==
  /\ \A d \in Dep :
       /\ records[d].at <= clock /\ job[d].rec.at <= clock
       /\ records[d].at = 0 => records[d] = NoRecord
       /\ job[d].pc = "return" => job[d].rec.at > 0
  /\ \A d, e \in Dep :
       /\ clock > 0 /\ d # e
       /\ clock \in {records[d].at, job[d].rec.at}
       => clock \notin {records[e].at, job[e].rec.at}

\* What the goroutine j has done of its phase at its control point.
AtPoint(j) ==
  /\ j.rec.status = "success" => j.pc \in {"settle", "finish"}
  /\ j.rec.rolledBackTo # NoPair => j.pc \in {"settle", "finish"}
  /\ j.phase = "deploy" /\ j.pc \in Started \ {"failing", "settle", "finish"}
       => j.target = j.rec.ver
  /\ j.phase = "restore" /\ j.pc \notin {"settle", "finish"}
       => /\ j.target.compose = j.prev.compose
          /\ j.target.env \in {j.prev.env, 0}
  /\ j.phase = "restore" => j.rec.status # "success" /\ j.pc # "posthook"
  /\ j.pc = "env" => disk.compose = j.target.compose
  /\ j.pc \in {"prehook", "up"} => disk = j.target
  /\ j.pc \in {"health", "posthook"} => disk = j.target /\ stack.ver = j.target
  /\ j.pc \in {"settle", "finish"} => OnHost(j.rec)

\* The record of an attempt that has started: as it was at the start, or gone,
\* until it is settled.
Stored(d) ==
  \/ records[d] = NoRecord
  \/ /\ records[d].at = clock
     /\ records[d].status = "running"
     /\ records[d].rolledBackTo = NoPair
  \/ job[d].pc = "finish" /\ records[d] = job[d].rec

AttemptOK(d) ==
  /\ job[d].pc \in Started =>
       job[d].rec.at = clock /\ clock > 0 /\ Stored(d) /\ AtPoint(job[d])
  /\ job[d].pc = "record" => /\ job[d].rec.at = 0
                             /\ job[d].rec.rolledBackTo = NoPair
  /\ job[d].pc = "return" /\ job[d].rec.at = clock => OnHost(job[d].rec)
  /\ records[d].at = clock => OnHost(records[d])

HostInv == Clocked /\ \A d \in Dep : AttemptOK(d)

\* Only a cancel makes an attempt see its context cancelled.
AskedInv ==
  \A d \in Dep :
    job[d].rec.status = "cancelled" \/ job[d].reason = "canceled"
      => job[d].ctx = "cancelled"

\* Without crashes and lost saves, a running record has its attempt at work.
LiveInv ==
  \A d \in Dep : records[d].status = "running" => job[d].pc \in Owning

\* The project's status is that of the latest deployment, from its unlock on.
Tells(r) ==
  project # "absent" =>
    (project = "running" <=> r.status = "success" \/ r.rolledBackTo # NoPair)

TellsInv ==
  /\ \A d \in Dep :
       /\ records[d].at = clock /\ clock > 0
       /\ \A e \in Dep : job[e].pc \notin Started
       => Tells(records[d])
  /\ \A d \in Dep :
       job[d].pc = "return" /\ job[d].rec.at = clock => Tells(job[d].rec)

-----------------------------------------------------------------------------
(* What a step leaves alone *)

\* The locals that no control point but its own changes.
SameLocals(j, k) ==
  /\ k.rec = j.rec /\ k.phase = j.phase /\ k.target = j.target
  /\ k.prev = j.prev /\ k.ctx = j.ctx

OthersSame(d) ==
  \A e \in Dep : e # d => job'[e] = job[e] /\ records'[e] = records[e]

HostSame == disk' = disk /\ stack'.ver = stack.ver

LEMMA GotoLocals ==
  ASSUME job \in [Dep -> Job], NEW d \in Dep, NEW p, Goto(d, p)
  PROVE  /\ job'[d].pc = p /\ SameLocals(job[d], job'[d])
         /\ job'[d].reason = job[d].reason
         /\ \A e \in Dep : e # d => job'[e] = job[e]
<1>1. /\ job'[d] = [job[d] EXCEPT !.pc = p]
      /\ \A e \in Dep : e # d => job'[e] = job[e]
  BY BecomeEffect DEF Goto
<1>2. job[d] \in Job
  OBVIOUS
<1>. QED BY <1>1, <1>2 DEF Job, SameLocals

LEMMA FailsLocals ==
  ASSUME job \in [Dep -> Job], NEW d \in Dep, NEW why, Fails(d, why)
  PROVE  /\ SameLocals(job[d], job'[d])
         /\ \/ /\ job[d].phase = "deploy" /\ job'[d].pc = "failing"
               /\ job'[d].reason = why
            \/ /\ job[d].phase = "restore" /\ job'[d].pc = "settle"
               /\ job'[d].reason = job[d].reason
         /\ \A e \in Dep : e # d => job'[e] = job[e]
<1>1. job[d] \in Job
  OBVIOUS
<1>2. /\ job'[d] = IF job[d].phase = "deploy"
                   THEN [job[d] EXCEPT !.pc = "failing", !.reason = why]
                   ELSE [job[d] EXCEPT !.pc = "settle"]
      /\ \A e \in Dep : e # d => job'[e] = job[e]
  BY BecomeEffect DEF Fails
<1>. QED BY <1>1, <1>2 DEF Job, SameLocals

\* The attempts that do not step keep what holds of them, although the host may
\* change under them: only the lock's owner touches it, and by then its record
\* is the latest.
LEMMA OthersKept ==
  ASSUME IInv, HostInv, NEW d \in Dep, OthersSame(d),
         \/ clock' = clock /\ HostSame
         \/ clock' = clock /\ lock = d /\ job[d].pc \in Started
         \/ clock' = clock + 1 /\ lock = d
  PROVE  \A e \in Dep : e # d => AttemptOK(e)'
<1>. SUFFICES ASSUME NEW e \in Dep, e # d PROVE AttemptOK(e)'
  OBVIOUS
<1>0. /\ clock \in Nat /\ job[e].rec.at \in Nat /\ records[e].at \in Nat
      /\ job'[e] = job[e] /\ records'[e] = records[e]
      /\ AttemptOK(e) /\ Clocked
  BY DEF IInv, TypeOK, Job, Record, HostInv, OthersSame
<1>1. CASE clock' = clock /\ HostSame
  BY <1>0, <1>1 DEF AttemptOK, Stored, AtPoint, OnHost, HostSame
<1>2. ASSUME lock = d PROVE job[e].pc \notin Started
  BY <1>2 DEF IInv, LockHeldByOne, Started
<1>3. CASE clock' = clock /\ lock = d /\ job[d].pc \in Started
  <2>1. clock > 0 /\ clock = job[d].rec.at
    BY <1>3 DEF HostInv, AttemptOK
  <2>2. records[e].at # clock /\ job[e].rec.at # clock
    BY <1>0, <2>1 DEF Clocked
  <2>. QED BY <1>0, <1>2, <1>3, <2>2 DEF AttemptOK
<1>4. CASE clock' = clock + 1 /\ lock = d
  <2>1. records[e].at # clock' /\ job[e].rec.at # clock'
    BY <1>0, <1>4 DEF Clocked
  <2>. QED BY <1>0, <1>2, <1>4, <2>1 DEF AttemptOK
<1>. QED BY <1>1, <1>3, <1>4

\* The clock's facts survive a step that starts no record.
LEMMA ClockKept ==
  ASSUME IInv, Clocked, NEW d \in Dep, OthersSame(d), clock' = clock,
         job'[d].rec.at \in {0, job[d].rec.at},
         job'[d].pc = "return" => job'[d].rec.at > 0,
         \/ records'[d] \in {records[d], NoRecord}
         \/ records'[d] = job[d].rec /\ job[d].rec.at > 0
  PROVE  Clocked'
<1>1. /\ clock \in Nat
      /\ \A e \in Dep : job[e].rec.at \in Nat /\ records[e].at \in Nat
  BY DEF IInv, TypeOK, Job, Record
<1>2. records'[d].at \in {0, records[d].at, job[d].rec.at}
  BY DEF NoRecord
<1>3. records'[d].at = 0 => records'[d] = NoRecord
  BY <1>1 DEF Clocked
<1>4. \A e \in Dep : /\ records'[e].at <= clock /\ job'[e].rec.at <= clock
                     /\ records'[e].at = 0 => records'[e] = NoRecord
                     /\ job'[e].pc = "return" => job'[e].rec.at > 0
  BY <1>1, <1>2, <1>3 DEF Clocked, OthersSame
<1>5. ASSUME NEW e \in Dep, clock > 0, clock \in {records'[e].at, job'[e].rec.at}
      PROVE  clock \in {records[e].at, job[e].rec.at}
  BY <1>1, <1>2, <1>5 DEF OthersSame
<1>. QED BY <1>4, <1>5 DEF Clocked

\* Both together: a step of d that starts no record needs a look at d alone.
LEMMA AttemptSteps ==
  ASSUME IInv, HostInv, NEW d \in Dep, OthersSame(d), clock' = clock,
         HostSame \/ (lock = d /\ job[d].pc \in Started),
         job'[d].rec.at \in {0, job[d].rec.at},
         job'[d].pc = "return" => job'[d].rec.at > 0,
         \/ records'[d] \in {records[d], NoRecord}
         \/ records'[d] = job[d].rec /\ job[d].rec.at > 0,
         AttemptOK(d)'
  PROVE  HostInv'
<1>1. Clocked'
  BY ClockKept DEF HostInv
<1>2. \A e \in Dep : e # d => AttemptOK(e)'
  BY OthersKept
<1>. QED BY <1>1, <1>2 DEF HostInv

-----------------------------------------------------------------------------
(* The steps of DeployVersion *)

\* d works on the project directory, the containers or nothing, and comes to
\* a control point with the facts of that point.
LEMMA WorkHost ==
  ASSUME IInv, HostInv, NEW d \in Dep, OthersSame(d),
         UNCHANGED <<records, clock>>,
         job[d].pc \in Started \ {"finish"}, job'[d].pc \in Started \ {"finish"},
         job'[d].rec.at = job[d].rec.at,
         AtPoint(job[d])'
  PROVE  HostInv'
<1>1. /\ job[d].rec.at = clock /\ clock > 0 /\ Stored(d)
      /\ records[d].at = clock => OnHost(records[d])
  BY DEF HostInv, AttemptOK
<1>2. lock = d
  BY DEF IInv, LockHeldByOne, Started
<1>3. records[d].status # "success" /\ records[d].rolledBackTo = NoPair
  BY <1>1 DEF Stored, NoRecord
<1>4. Stored(d)'
  BY <1>1 DEF Stored
<1>5. OnHost(records[d])'
  BY <1>3 DEF OnHost
<1>6. AttemptOK(d)'
  BY <1>1, <1>4, <1>5 DEF AttemptOK, Started, Critical
<1>. QED BY <1>1, <1>2, <1>6, AttemptSteps

\* An attempt that has not started yet ends.
LEMMA EndHost ==
  ASSUME IInv, HostInv, NEW d \in Dep, OthersSame(d), HostSame,
         UNCHANGED clock,
         records'[d] = records[d],
         job'[d].pc \in {"over", "resolve", "spawned"},
         job'[d].rec.at \in {0, job[d].rec.at}
  PROVE  HostInv'
<1>1. AttemptOK(d)'
  BY DEF HostInv, AttemptOK, Started, Critical, OnHost, HostSame
<1>. QED BY <1>1, AttemptSteps

LEMMA ResolveHost ==
  ASSUME IInv, HostInv, NEW d \in Dep, Resolve(d)
  PROVE  HostInv'
<1>. USE DEF dbVars, versionVars, hostVars
<1>0. job \in [Dep -> Job] /\ job[d] \in Job /\ job[d].pc = "resolve"
  BY DEF IInv, TypeOK, Resolve
<1>1. UNCHANGED <<records, clock, disk, stack>>
  BY DEF Resolve
<1>2. CASE GiveUp(d)
  <2>1. job'[d] = Over /\ \A e \in Dep : e # d => job'[e] = job[e]
    BY <1>0, <1>2, BecomeEffect DEF GiveUp
  <2>2. job'[d].pc = "over" /\ job'[d].rec.at = 0
    BY <2>1 DEF Over, Unused, NoRecord
  <2>. QED BY <1>1, <2>1, <2>2, EndHost DEF OthersSame, HostSame
<1>3. CASE ~GiveUp(d)
  <2>. DEFINE ver == [compose |-> IF job[d].asked.compose = 0
                                  THEN Latest(composes)
                                  ELSE job[d].asked.compose,
                      env     |-> IF job[d].asked.env = 0
                                  THEN Latest(envs) ELSE job[d].asked.env]
              rec == [NoRecord EXCEPT !.status = "running", !.ver = ver]
  <2>1. PICK keep \in {LastSuccess, NoPair} :
          Become(d, [job[d] EXCEPT !.pc = "record", !.rec = rec,
                                   !.asked = NoPair, !.prev = keep])
    BY <1>3, Zenon DEF Resolve
  <2>2. rec.at = 0 /\ rec.rolledBackTo = NoPair
    BY DEF NoRecord
  <2>. HIDE DEF rec
  <2>3. /\ job'[d] = [job[d] EXCEPT !.pc = "record", !.rec = rec,
                                    !.asked = NoPair, !.prev = keep]
        /\ \A e \in Dep : e # d => job'[e] = job[e]
    BY <1>0, <2>1, BecomeEffect, Zenon
  <2>4. job'[d].pc = "record" /\ job'[d].rec = rec
    BY <1>0, <2>3 DEF Job
  <2>5. AttemptOK(d)'
    BY <1>1, <2>2, <2>4 DEF HostInv, AttemptOK, Started, OnHost
  <2>. QED BY <1>1, <2>2, <2>3, <2>4, <2>5, AttemptSteps DEF OthersSame, HostSame
<1>. QED BY <1>2, <1>3

\* The record starts: its time is later than every other.
LEMMA SaveRunningHost ==
  ASSUME IInv, HostInv, NEW d \in Dep, SaveRunning(d)
  PROVE  HostInv'
<1>. USE DEF dbVars, versionVars, hostVars
<1>0. /\ job \in [Dep -> Job] /\ job[d] \in Job /\ job[d].pc = "record"
      /\ records \in [Dep -> Record] /\ clock \in Nat
      /\ UNCHANGED <<disk, stack>>
  BY DEF IInv, TypeOK, SaveRunning
<1>1. CASE GiveUp(d) /\ UNCHANGED <<records, clock>>
  <2>1. job'[d] = Over /\ \A e \in Dep : e # d => job'[e] = job[e]
    BY <1>0, <1>1, BecomeEffect DEF GiveUp
  <2>2. job'[d].pc = "over" /\ job'[d].rec.at = 0
    BY <2>1 DEF Over, Unused, NoRecord
  <2>. QED BY <1>0, <1>1, <2>1, <2>2, EndHost DEF OthersSame, HostSame
<1>2. CASE ~(GiveUp(d) /\ UNCHANGED <<records, clock>>)
  <2>. DEFINE rec == [job[d].rec EXCEPT !.at = clock + 1]
  <2>1. /\ records' = [records EXCEPT ![d] = rec]
        /\ clock' = clock + 1
        /\ Become(d, [job[d] EXCEPT !.pc = "compose", !.rec = rec,
                                    !.target = rec.ver])
    BY <1>2 DEF SaveRunning
  <2>2. /\ rec.at = clock + 1 /\ rec.status = "running"
        /\ rec.rolledBackTo = NoPair /\ rec # NoRecord
    BY <1>0 DEF Job, Record, IInv, GoroutineOK, HostInv, AttemptOK, NoRecord
  <2>. HIDE DEF rec
  <2>3. /\ job'[d] = [job[d] EXCEPT !.pc = "compose", !.rec = rec,
                                    !.target = rec.ver]
        /\ \A e \in Dep : e # d => job'[e] = job[e]
    BY <1>0, <2>1, BecomeEffect, Zenon
  <2>4. /\ job'[d].pc = "compose" /\ job'[d].rec = rec
        /\ job'[d].target = rec.ver /\ job'[d].phase = job[d].phase
    BY <1>0, <2>3 DEF Job
  <2>5. job[d].phase = "deploy"
    BY <1>0 DEF Job, IInv, GoroutineOK, Settled
  <2>6. OthersSame(d) /\ records'[d] = rec
    BY <1>0, <2>1, <2>3 DEF OthersSame
  <2>7. Clocked'
    <3>1. \A e \in Dep : /\ records[e].at \in Nat /\ job[e].rec.at \in Nat
                         /\ records[e].at <= clock /\ job[e].rec.at <= clock
      BY <1>0 DEF HostInv, Clocked, Job, Record
    <3>2. \A e \in Dep : /\ records'[e].at <= clock' /\ job'[e].rec.at <= clock'
                         /\ records'[e].at = 0 => records'[e] = NoRecord
                         /\ job'[e].pc = "return" => job'[e].rec.at > 0
      BY <1>0, <2>1, <2>2, <2>4, <2>6, <3>1 DEF OthersSame, HostInv, Clocked
    <3>3. \A e \in Dep : clock' \in {records'[e].at, job'[e].rec.at} => e = d
      BY <1>0, <2>1, <2>6, <3>1 DEF OthersSame
    <3>. QED BY <3>2, <3>3 DEF Clocked
  <2>8. AttemptOK(d)'
    <3>1. AtPoint(job[d])'
      BY <2>2, <2>4, <2>5 DEF AtPoint, Started
    <3>2. Stored(d)'
      BY <2>1, <2>2, <2>6 DEF Stored
    <3>3. OnHost(records[d])'
      BY <2>2, <2>6 DEF OnHost
    <3>. QED BY <1>0, <2>1, <2>2, <2>4, <3>1, <3>2, <3>3 DEF AttemptOK
  <2>9. lock = d
    BY <1>0 DEF IInv, LockHeldByOne, Critical
  <2>. QED BY <2>1, <2>6, <2>7, <2>8, <2>9, OthersKept DEF HostInv
<1>. QED BY <1>1, <1>2

\* A step that fails leaves a record that claims nothing about the host.
LEMMA FailsHost ==
  ASSUME IInv, HostInv, NEW d \in Dep, NEW why, Fails(d, why),
         UNCHANGED <<records, clock>>,
         job[d].pc \in Started \ {"settle", "finish"}
  PROVE  HostInv'
<1>1. job \in [Dep -> Job]
  BY DEF IInv, TypeOK
<1>2. /\ SameLocals(job[d], job'[d]) /\ OthersSame(d)
      /\ \/ job[d].phase = "deploy" /\ job'[d].pc = "failing"
         \/ job[d].phase = "restore" /\ job'[d].pc = "settle"
  BY <1>1, FailsLocals DEF OthersSame
<1>3. job'[d].pc \in Started \ {"finish"} /\ job'[d].rec = job[d].rec
  BY <1>2 DEF SameLocals, Started, Critical
<1>4. AtPoint(job[d])'
  BY <1>2 DEF HostInv, AttemptOK, AtPoint, OnHost, SameLocals
<1>. QED BY <1>2, <1>3, <1>4, WorkHost

\* So does one that goes on to a point p with the facts of p.
LEMMA GotoHost ==
  ASSUME IInv, HostInv, NEW d \in Dep, NEW p \in Started \ {"finish"}, Goto(d, p),
         UNCHANGED <<records, clock>>,
         job[d].pc \in Started \ {"settle", "finish"},
         SameLocals(job[d], job'[d]) /\ job'[d].pc = p => AtPoint(job[d])'
  PROVE  HostInv'
<1>1. job \in [Dep -> Job]
  BY DEF IInv, TypeOK
<1>2. SameLocals(job[d], job'[d]) /\ OthersSame(d) /\ job'[d].pc = p
  BY <1>1, GotoLocals DEF OthersSame
<1>. QED BY <1>2, WorkHost DEF SameLocals

LEMMA WriteHost ==
  ASSUME IInv, HostInv, NEW d \in Dep, WriteCompose(d) \/ WriteEnv(d)
  PROVE  HostInv'
<1>. USE DEF dbVars, versionVars, hostVars
<1>0. /\ disk \in Pair /\ job[d].target \in Pair /\ job[d].phase \in {"deploy", "restore"}
      /\ UNCHANGED <<records, clock, stack>>
  BY DEF IInv, TypeOK, Job, WriteCompose, WriteEnv
<1>1. job[d].pc \in Started \ {"settle", "finish"}
  BY DEF WriteCompose, WriteEnv, Started, Critical
<1>2. AtPoint(job[d])
  BY <1>1 DEF HostInv, AttemptOK
<1>3. CASE Fails(d, "error")
  BY <1>0, <1>1, <1>3, FailsHost
<1>4. CASE WriteCompose(d) /\ Goto(d, "env")
  <2>1. disk' = [disk EXCEPT !.compose = job[d].target.compose]
             \/ Fails(d, "error")
    BY <1>4 DEF WriteCompose
  <2>2. disk' = [disk EXCEPT !.compose = job[d].target.compose]
          => disk'.compose = job[d].target.compose
    BY <1>0 DEF Pair
  <2>3. ASSUME disk'.compose = job[d].target.compose
        PROVE  HostInv'
    <3>1. SameLocals(job[d], job'[d]) /\ job'[d].pc = "env" => AtPoint(job[d])'
      BY <1>2, <1>4, <2>3 DEF AtPoint, SameLocals, Started, Critical, WriteCompose
    <3>2. "env" \in Started \ {"finish"}
      BY DEF Started, Critical
    <3>. QED BY <1>0, <1>1, <1>4, <3>1, <3>2, GotoHost
  <2>. QED BY <1>3, <2>1, <2>2, <2>3
<1>5. CASE /\ WriteEnv(d)
           /\ disk' = [disk EXCEPT !.env = job[d].target.env]
           /\ Goto(d, IF job[d].phase = "deploy" THEN "prehook" ELSE "up")
  <2>. DEFINE p == IF job[d].phase = "deploy" THEN "prehook" ELSE "up"
  <2>1. disk' = job[d].target
    <3>1. disk.compose = job[d].target.compose
      BY <1>2, <1>5 DEF AtPoint, WriteEnv
    <3>. QED BY <1>0, <1>5, <3>1 DEF Pair
  <2>2. SameLocals(job[d], job'[d]) /\ job'[d].pc = p => AtPoint(job[d])'
    BY <1>0, <1>2, <1>5, <2>1 DEF AtPoint, SameLocals, Started, Critical, WriteEnv
  <2>3. p \in Started \ {"finish"}
    BY DEF Started, Critical
  <2>. QED BY <1>0, <1>1, <1>5, <2>2, <2>3, GotoHost
<1>. QED BY <1>3, <1>4, <1>5 DEF WriteCompose, WriteEnv

LEMMA CommandHost ==
  ASSUME IInv, HostInv, NEW d \in Dep, PreHook(d) \/ ComposeUp(d)
  PROVE  HostInv'
<1>. USE DEF dbVars, versionVars, hostVars
<1>0. UNCHANGED <<records, clock, disk>>
  BY DEF PreHook, ComposeUp
<1>1. job[d].pc \in Started \ {"settle", "finish"}
  BY DEF PreHook, ComposeUp, Started, Critical
<1>2. AtPoint(job[d])
  BY <1>1 DEF HostInv, AttemptOK
<1>3. CASE \E why \in CommandErrors(d) : Fails(d, why)
  BY <1>0, <1>1, <1>3, FailsHost
<1>4. CASE PreHook(d) /\ Goto(d, "up")
  <2>1. SameLocals(job[d], job'[d]) /\ job'[d].pc = "up" => AtPoint(job[d])'
    BY <1>0, <1>2, <1>4 DEF AtPoint, SameLocals, Started, Critical, PreHook
  <2>2. "up" \in Started \ {"finish"}
    BY DEF Started, Critical
  <2>. QED BY <1>0, <1>1, <1>4, <2>1, <2>2, GotoHost
<1>5. CASE /\ ComposeUp(d) /\ Goto(d, "health")
           /\ stack' = [ver |-> disk, state |-> "unhealthy"]
  <2>1. SameLocals(job[d], job'[d]) /\ job'[d].pc = "health" => AtPoint(job[d])'
    BY <1>0, <1>2, <1>5 DEF AtPoint, SameLocals, Started, Critical, ComposeUp
  <2>2. "health" \in Started \ {"finish"}
    BY DEF Started, Critical
  <2>. QED BY <1>0, <1>1, <1>5, <2>1, <2>2, GotoHost
<1>. QED BY <1>3, <1>4, <1>5 DEF PreHook, ComposeUp

\* The containers are healthy at the target: the restored versions, or those of
\* the record once the last hook has succeeded.
LEMMA HealthyHost ==
  ASSUME IInv, HostInv, NEW d \in Dep, WaitHealthy(d) \/ PostHook(d)
  PROVE  HostInv'
<1>. USE DEF dbVars, versionVars, hostVars
<1>0. /\ job \in [Dep -> Job] /\ job[d] \in Job /\ job[d].rec \in Record
      /\ UNCHANGED <<records, clock, disk, stack>>
  BY DEF IInv, TypeOK, Job, WaitHealthy, PostHook
<1>1. job[d].pc \in Started \ {"settle", "finish"}
  BY DEF WaitHealthy, PostHook, Started, Critical
<1>2. /\ AtPoint(job[d]) /\ job[d].rec.rolledBackTo = NoPair
      /\ job[d].rec.status # "success"
  BY <1>1 DEF HostInv, AttemptOK, AtPoint
<1>3. CASE \E why : Fails(d, why)
  BY <1>0, <1>1, <1>3, FailsHost
<1>4. CASE WaitHealthy(d) /\ job[d].phase = "deploy" /\ Goto(d, "posthook")
  <2>1. SameLocals(job[d], job'[d]) /\ job'[d].pc = "posthook" => AtPoint(job[d])'
    BY <1>0, <1>2, <1>4 DEF AtPoint, SameLocals, Started, Critical, WaitHealthy
  <2>2. "posthook" \in Started \ {"finish"}
    BY DEF Started, Critical
  <2>. QED BY <1>0, <1>1, <1>4, <2>1, <2>2, GotoHost
<1>5. CASE /\ WaitHealthy(d) /\ job[d].phase # "deploy"
           /\ Become(d, [job[d] EXCEPT !.pc = "settle",
                           !.rec = [@ EXCEPT !.rolledBackTo = job[d].prev]])
  <2>1. /\ job'[d] = [job[d] EXCEPT !.pc = "settle",
                        !.rec = [@ EXCEPT !.rolledBackTo = job[d].prev]]
        /\ OthersSame(d)
    BY <1>0, <1>5, BecomeEffect DEF OthersSame
  <2>2. /\ job'[d].pc = "settle" /\ job'[d].phase = job[d].phase
        /\ job'[d].rec.rolledBackTo = job[d].prev
        /\ job'[d].rec.status = job[d].rec.status
        /\ job'[d].rec.at = job[d].rec.at
    BY <1>0, <2>1 DEF Job, Record
  <2>3. /\ disk.compose = job[d].prev.compose
        /\ disk.env \in {job[d].prev.env, 0}
        /\ stack.ver = disk
    BY <1>0, <1>2, <1>5 DEF AtPoint, WaitHealthy, Job
  <2>4. AtPoint(job[d])'
    BY <1>0, <1>2, <2>2, <2>3 DEF AtPoint, OnHost, Started
  <2>5. job'[d].pc \in Started \ {"finish"}
    BY <2>2 DEF Started, Critical
  <2>. QED BY <1>0, <1>1, <2>1, <2>2, <2>4, <2>5, WorkHost
<1>6. CASE /\ PostHook(d)
           /\ Become(d, [job[d] EXCEPT !.pc = "settle",
                                       !.rec = [@ EXCEPT !.status = "success"]])
  <2>1. /\ job'[d] = [job[d] EXCEPT !.pc = "settle",
                                    !.rec = [@ EXCEPT !.status = "success"]]
        /\ OthersSame(d)
    BY <1>0, <1>6, BecomeEffect DEF OthersSame
  <2>2. /\ job'[d].pc = "settle" /\ job'[d].phase = job[d].phase
        /\ job'[d].rec.rolledBackTo = NoPair
        /\ job'[d].rec.ver = job[d].rec.ver
        /\ job'[d].rec.at = job[d].rec.at
    BY <1>0, <1>2, <2>1 DEF Job, Record
  <2>3. /\ disk = job[d].rec.ver /\ stack.ver = job[d].rec.ver
        /\ job[d].phase # "restore"
    BY <1>0, <1>1, <1>2, <1>6 DEF AtPoint, PostHook, Job
  <2>4. AtPoint(job[d])'
    BY <1>0, <2>2, <2>3 DEF AtPoint, OnHost, Started
  <2>5. job'[d].pc \in Started \ {"finish"}
    BY <2>2 DEF Started, Critical
  <2>. QED BY <1>0, <1>1, <2>1, <2>2, <2>4, <2>5, WorkHost
<1>. QED BY <1>3, <1>4, <1>5, <1>6 DEF WaitHealthy, PostHook

LEMMA BeginFailHost ==
  ASSUME IInv, HostInv, NEW d \in Dep, BeginFail(d)
  PROVE  HostInv'
<1>. DEFINE status == IF job[d].reason = "canceled" THEN "cancelled" ELSE "failed"
            failed == [job[d] EXCEPT !.rec = [@ EXCEPT !.status = status],
                                     !.reason = "none"]
            restore == [failed EXCEPT !.pc = "compose", !.phase = "restore",
                                      !.target = RestoreTarget(d)]
            settle == [failed EXCEPT !.pc = "settle"]
<1>0. /\ job \in [Dep -> Job] /\ job[d] \in Job /\ job[d].pc = "failing"
      /\ UNCHANGED <<records, clock, disk, stack>>
  BY DEF IInv, TypeOK, BeginFail, dbVars, hostVars
<1>1. AtPoint(job[d]) /\ job[d].rec.rolledBackTo = NoPair
  BY <1>0 DEF HostInv, AttemptOK, AtPoint, Started, Critical
<1>2. /\ failed \in Job /\ failed.rec.status \in {"cancelled", "failed"}
      /\ failed.rec.rolledBackTo = NoPair /\ failed.rec.at = job[d].rec.at
      /\ failed.prev = job[d].prev /\ failed.phase = job[d].phase
  BY <1>0, <1>1 DEF Job, Record, Settled
<1>3. Become(d, restore) \/ Become(d, settle)
  BY Zenon DEF BeginFail
<1>. HIDE DEF failed
<1>4. job'[d] \in {restore, settle} /\ OthersSame(d)
  BY <1>0, <1>3, BecomeEffect DEF OthersSame
<1>5. /\ job'[d].rec = failed.rec /\ job'[d].prev = failed.prev
      /\ \/ /\ job'[d].pc = "compose" /\ job'[d].phase = "restore"
            /\ job'[d].target = RestoreTarget(d)
         \/ job'[d].pc = "settle" /\ job'[d].phase = job[d].phase
  BY <1>2, <1>4 DEF Job
<1>6. /\ RestoreTarget(d).compose = job[d].prev.compose
      /\ RestoreTarget(d).env \in {job[d].prev.env, 0}
  BY DEF RestoreTarget
<1>7. AtPoint(job[d])'
  BY <1>1, <1>2, <1>5, <1>6 DEF AtPoint, OnHost, Started
<1>8. job[d].pc \in Started \ {"finish"} /\ job'[d].pc \in Started \ {"finish"}
  BY <1>0, <1>5 DEF Started, Critical
<1>. QED BY <1>0, <1>2, <1>4, <1>5, <1>7, <1>8, WorkHost

\* The outcome is saved, the lock released, and the record perhaps saved again.
LEMMA OutcomeHost ==
  ASSUME IInv, HostInv, NEW d \in Dep,
         SaveOutcome(d) \/ Finish(d) \/ Return(d)
  PROVE  HostInv'
<1>. USE DEF dbVars, versionVars, hostVars
<1>0. /\ job \in [Dep -> Job] /\ records \in [Dep -> Record]
      /\ AttemptOK(d) /\ Clocked /\ clock \in Nat
      /\ UNCHANGED <<clock, disk, stack>>
  BY DEF IInv, TypeOK, HostInv, SaveOutcome, Finish, Return
<1>1. CASE SaveOutcome(d)
  <2>1. /\ job[d].pc = "settle" /\ job'[d].pc = "finish"
        /\ job'[d].rec = job[d].rec /\ job'[d].phase = job[d].phase
        /\ \A e \in Dep : e # d => job'[e] = job[e]
    BY <1>0, <1>1, GotoLocals DEF SaveOutcome, SameLocals
  <2>2. /\ job[d].rec.at = clock /\ clock > 0 /\ AtPoint(job[d])
        /\ OnHost(job[d].rec) /\ Stored(d)
    BY <1>0, <2>1 DEF AttemptOK, AtPoint, Started, Critical
  <2>3. /\ records'[d] \in {records[d], job[d].rec}
        /\ \A e \in Dep : e # d => records'[e] = records[e]
    BY <1>0, <1>1 DEF SaveOutcome, SaveRecord
  <2>4. AtPoint(job[d])'
    BY <1>0, <2>1, <2>2 DEF AtPoint, OnHost, Started
  <2>5. Stored(d)' /\ (records'[d].at = clock => OnHost(records[d])')
    BY <1>0, <2>1, <2>2, <2>3 DEF Stored, AttemptOK, OnHost
  <2>6. AttemptOK(d)'
    BY <1>0, <2>1, <2>2, <2>4, <2>5 DEF AttemptOK
  <2>. QED BY <1>0, <2>1, <2>2, <2>3, <2>6, AttemptSteps DEF OthersSame, HostSame
<1>2. CASE Finish(d)
  <2>1. /\ job[d].pc = "finish" /\ job'[d].pc = "return"
        /\ job'[d].rec = job[d].rec /\ OthersSame(d) /\ UNCHANGED records
    BY <1>0, <1>2, GotoLocals DEF Finish, SameLocals, OthersSame
  <2>2. job[d].rec.at = clock /\ clock > 0 /\ OnHost(job[d].rec)
    BY <1>0, <2>1 DEF AttemptOK, AtPoint, Started, Critical
  <2>3. AttemptOK(d)'
    BY <1>0, <2>1, <2>2 DEF AttemptOK, Started, Critical, OnHost
  <2>. QED BY <1>0, <2>1, <2>2, <2>3, AttemptSteps DEF HostSame
<1>3. CASE Return(d)
  <2>1. /\ job[d].pc = "return" /\ job'[d] = Over
        /\ \A e \in Dep : e # d => job'[e] = job[e]
    BY <1>0, <1>3, BecomeEffect DEF Return
  <2>2. /\ records'[d] \in {records[d], job[d].rec}
        /\ \A e \in Dep : e # d => records'[e] = records[e]
    BY <1>0, <1>3 DEF Return, SaveRecord, Marked
  <2>3. job'[d].pc = "over" /\ job'[d].rec.at = 0 /\ job[d].rec.at > 0
    BY <1>0, <2>1 DEF Over, Unused, NoRecord, Clocked
  <2>4. AttemptOK(d)'
    BY <1>0, <2>1, <2>2, <2>3 DEF AttemptOK, Started, Critical, OnHost
  <2>. QED BY <1>0, <2>1, <2>2, <2>3, <2>4, AttemptSteps DEF OthersSame, HostSame
<1>. QED BY <1>1, <1>2, <1>3

LEMMA LockHost ==
  ASSUME IInv, HostInv, NEW d \in Dep, Acquire(d) \/ Refused(d)
  PROVE  HostInv'
<1>0. job \in [Dep -> Job] /\ UNCHANGED <<records, clock, disk, stack>>
  BY DEF IInv, TypeOK, Acquire, Refused, dbVars, hostVars
<1>1. CASE Acquire(d)
  <2>1. job'[d].pc = "resolve" /\ job'[d].rec = job[d].rec /\ OthersSame(d)
    BY <1>0, <1>1, GotoLocals DEF Acquire, SameLocals, OthersSame
  <2>. QED BY <1>0, <2>1, EndHost DEF HostSame
<1>2. CASE Refused(d)
  <2>1. job'[d] = [Over EXCEPT !.reason = "busy"] /\ OthersSame(d)
    BY <1>0, <1>2, BecomeEffect DEF Refused, OthersSame
  <2>2. job'[d].pc = "over" /\ job'[d].rec.at = 0
    BY <2>1 DEF Over, Unused, NoRecord
  <2>. QED BY <1>0, <2>1, <2>2, EndHost DEF HostSame
<1>. QED BY <1>1, <1>2

LEMMA EngineStepHost ==
  ASSUME IInv, HostInv, NEW d \in Dep, EngineStep(d)
  PROVE  HostInv'
BY LockHost, ResolveHost, SaveRunningHost, WriteHost, CommandHost, HealthyHost,
   BeginFailHost, OutcomeHost, Zenon DEF EngineStep

-----------------------------------------------------------------------------
(* The handlers and the environment *)

LEMMA RequestHost ==
  ASSUME IInv, HostInv, NEW d \in Dep, Requests(d) \/ ContextExpires(d)
  PROVE  HostInv'
<1>0. job \in [Dep -> Job] /\ job[d] \in Job
  BY DEF IInv, TypeOK
<1>1. UNCHANGED <<records, clock, disk, stack>>
  BY DEF Requests, TriggerDeploy, RollbackToVersions, RollbackToDeployment,
         Spawn, CancelDeploy, ContextExpires, dbVars, hostVars
<1>2. CASE \E from, ver : Spawn(d, from, ver)
  <2>1. PICK from, ver : Spawn(d, from, ver)
    BY <1>2
  <2>2. /\ job'[d] = [Unused EXCEPT !.pc = "spawned", !.origin = from,
                                    !.asked = ver]
        /\ OthersSame(d)
    BY <1>0, <1>1, <2>1, BecomeEffect DEF Spawn, OthersSame
  <2>3. job'[d].pc = "spawned" /\ job'[d].rec.at = 0
    BY <2>2 DEF Unused, NoRecord
  <2>. QED BY <1>1, <2>2, <2>3, EndHost DEF HostSame
<1>3. CASE \E c : Become(d, [job[d] EXCEPT !.ctx = c])
  <2>1. PICK c : Become(d, [job[d] EXCEPT !.ctx = c])
    BY <1>3
  <2>2. job'[d] = [job[d] EXCEPT !.ctx = c] /\ OthersSame(d)
    BY <1>0, <1>1, <2>1, BecomeEffect DEF OthersSame
  <2>3. /\ job'[d].pc = job[d].pc /\ job'[d].phase = job[d].phase
        /\ job'[d].rec = job[d].rec /\ job'[d].target = job[d].target
        /\ job'[d].prev = job[d].prev
    BY <1>0, <2>2 DEF Job
  <2>4. AttemptOK(d)'
    BY <1>1, <2>3 DEF HostInv, AttemptOK, Stored, AtPoint, OnHost
  <2>. QED BY <1>1, <2>2, <2>3, <2>4, AttemptSteps
           DEF HostInv, Clocked, HostSame
<1>. QED BY <1>2, <1>3 DEF Requests, TriggerDeploy, RollbackToVersions,
               RollbackToDeployment, CancelDeploy, ContextExpires

\* Edits take records away, containers change state on their own.
LEMMA EditsHost ==
  ASSUME IInv, HostInv, Edits \/ ContainersChange
  PROVE  HostInv'
<1>. USE DEF dbVars, versionVars, hostVars
<1>0. /\ clock \in Nat
      /\ \A d \in Dep : records[d].at \in Nat /\ job[d].rec.at \in Nat
      /\ NoRecord.at = 0 /\ NoRecord.status = "none"
      /\ NoRecord.rolledBackTo = NoPair
  BY DEF IInv, TypeOK, Job, Record, NoRecord
<1>1. /\ UNCHANGED job
      /\ \A d \in Dep : records'[d] \in {records[d], NoRecord}
  BY EditShape DEF IInv
<1>2. UNCHANGED <<clock, disk>> /\ stack'.ver = stack.ver
  <2>1. stack \in Stack
    BY DEF IInv, TypeOK
  <2>2. CASE ContainersChange
    BY <2>1, <2>2 DEF ContainersChange, Stack
  <2>3. CASE Edits
    BY <2>3 DEF Edits, SaveCompose, SaveEnv, DeleteProject,
         DeleteComposeVersion, DeleteEnvVersion, DeleteDeployment,
         PruneDeployments
  <2>. QED BY <2>2, <2>3
<1>3. Clocked'
  BY <1>0, <1>1, <1>2 DEF HostInv, Clocked
<1>4. ASSUME NEW d \in Dep PROVE AttemptOK(d)'
  <2>1. AttemptOK(d) /\ job'[d] = job[d] /\ records'[d] \in {records[d], NoRecord}
    BY <1>1 DEF HostInv
  <2>. QED BY <1>0, <1>2, <2>1
           DEF AttemptOK, Stored, AtPoint, OnHost
<1>. QED BY <1>3, <1>4 DEF HostInv

\* After a crash nothing is at work; if it cut a compose run short, the latest
\* record is that of the run.
LEMMA CrashHost ==
  ASSUME IInv, HostInv, Crash
  PROVE  HostInv'
<1>. USE DEF dbVars, versionVars, hostVars
<1>0. /\ clock \in Nat
      /\ \A d \in Dep : records[d].at \in Nat /\ job[d].rec.at \in Nat
      /\ UNCHANGED <<records, clock, disk>>
  BY DEF IInv, TypeOK, Job, Record, Crash
<1>1. \A d \in Dep : job'[d].pc \in {"unused", "over"} /\ job'[d].rec.at = 0
  BY DEF Crash, Unused, Over, NoRecord
<1>2. Clocked'
  BY <1>0, <1>1 DEF HostInv, Clocked
<1>3. ASSUME NEW d \in Dep, records[d].at = clock
      PROVE  OnHost(records[d])'
  <2>1. OnHost(records[d])
    BY <1>3 DEF HostInv, AttemptOK
  <2>2. CASE stack'.ver = stack.ver
    BY <1>0, <2>1, <2>2 DEF OnHost
  <2>3. CASE stack'.ver # stack.ver
    <3>1. PICK u \in Dep : job[u].pc = "up"
      <4>1. stack \in Stack
        BY DEF IInv, TypeOK
      <4>. QED BY <2>3, <4>1 DEF Crash, Stack
    <3>2. job[u].rec.at = clock /\ clock > 0 /\ Stored(u)
      BY <3>1 DEF HostInv, AttemptOK, Started, Critical
    <3>3. d = u
      BY <1>3, <3>2 DEF HostInv, Clocked
    <3>4. records[d].status # "success" /\ records[d].rolledBackTo = NoPair
      BY <3>1, <3>2, <3>3 DEF Stored, NoRecord
    <3>. QED BY <1>0, <3>4 DEF OnHost
  <2>. QED BY <2>2, <2>3
<1>4. \A d \in Dep : AttemptOK(d)'
  BY <1>0, <1>1, <1>3 DEF AttemptOK, Started, Critical
<1>. QED BY <1>2, <1>4 DEF HostInv

LEMMA NextHost ==
  ASSUME IInv, HostInv, [Next]_vars
  PROVE  HostInv'
<1>1. CASE UNCHANGED vars
  BY <1>1 DEF vars, HostInv, Clocked, AttemptOK, Stored, AtPoint, OnHost
<1>. QED BY <1>1, EngineStepHost, RequestHost, EditsHost, CrashHost
         DEF Next, EngineNext

LEMMA InitHost == Init => HostInv
BY DEF Init, HostInv, Clocked, AttemptOK, OnHost, Unused, NoRecord, Started,
       Critical

\* Whenever no deployment holds the project's lock, a latest deployment that is
\* recorded as successful names the versions whose files are in the project
\* directory and whose containers docker runs: through refused and pruned
\* attempts, failed automatic rollbacks, crashes and lost saves.
THEOREM SuccessCorrect == Spec => []SuccessIsOnHost
<1>1. Init => IInv /\ HostInv
  BY InitInv, InitHost
<1>2. IInv /\ HostInv /\ [Next]_vars => (IInv /\ HostInv)'
  BY NextInv, NextHost
<1>3. HostInv => SuccessIsOnHost
  BY DEF HostInv, AttemptOK, OnHost, SuccessIsOnHost
<1>. QED BY <1>1, <1>2, <1>3, PTL DEF Spec

\* Likewise a latest deployment recorded as rolled back names the compose
\* version that the directory holds and the containers were made from, with
\* the env set of that version or none.
THEOREM RecoveryCorrect == Spec => []RecoveryIsOnHost
<1>1. Init => IInv /\ HostInv
  BY InitInv, InitHost
<1>2. IInv /\ HostInv /\ [Next]_vars => (IInv /\ HostInv)'
  BY NextInv, NextHost
<1>3. HostInv => RecoveryIsOnHost
  BY DEF HostInv, AttemptOK, OnHost, RecoveryIsOnHost
<1>. QED BY <1>1, <1>2, <1>3, PTL DEF Spec

-----------------------------------------------------------------------------
(* Cancelled attempts *)

\* What a step leaves in the goroutine is no more than its context says.
Asked(j) == j.rec.status = "cancelled" \/ j.reason = "canceled"
              => j.ctx = "cancelled"

LEMMA OverAsked == Asked(Over) /\ Asked([Over EXCEPT !.reason = "busy"])
BY DEF Asked, Over, Unused, NoRecord

LEMMA GotoAsked ==
  ASSUME IInv, NEW d \in Dep, Asked(job[d]), NEW p, Goto(d, p)
  PROVE  Asked(job'[d])
BY GotoLocals DEF IInv, TypeOK, Asked, SameLocals

\* fail() takes for a cancel only the error of a context that was cancelled.
LEMMA FailsAsked ==
  ASSUME IInv, NEW d \in Dep, Asked(job[d]),
         NEW why \in {"error"} \cup CommandErrors(d) \cup HealthErrors(d),
         Fails(d, why)
  PROVE  Asked(job'[d])
<1>1. why = "canceled" => job[d].ctx = "cancelled"
  BY DEF CommandErrors, HealthErrors, CtxErr
<1>2. /\ SameLocals(job[d], job'[d])
      /\ job'[d].reason \in {why, job[d].reason}
  BY FailsLocals DEF IInv, TypeOK
<1>. QED BY <1>1, <1>2 DEF Asked, SameLocals

LEMMA EngineStepAsked ==
  ASSUME IInv, NEW d \in Dep, Asked(job[d]), EngineStep(d)
  PROVE  Asked(job'[d])
<1>0. job \in [Dep -> Job] /\ job[d] \in Job
  BY DEF IInv, TypeOK
<1>1. CASE \E p : Goto(d, p)
  BY <1>1, GotoAsked
<1>2. CASE \E why \in {"error"} \cup CommandErrors(d) \cup HealthErrors(d) :
             Fails(d, why)
  BY <1>2, FailsAsked
<1>3. CASE Become(d, Over) \/ Become(d, [Over EXCEPT !.reason = "busy"])
  BY <1>0, <1>3, BecomeEffect, OverAsked
<1>4. CASE Resolve(d) /\ ~GiveUp(d)
  <2>. DEFINE ver == [compose |-> IF job[d].asked.compose = 0
                                  THEN Latest(composes)
                                  ELSE job[d].asked.compose,
                      env     |-> IF job[d].asked.env = 0
                                  THEN Latest(envs) ELSE job[d].asked.env]
              rec == [NoRecord EXCEPT !.status = "running", !.ver = ver]
  <2>1. PICK keep \in {LastSuccess, NoPair} :
          Become(d, [job[d] EXCEPT !.pc = "record", !.rec = rec,
                                   !.asked = NoPair, !.prev = keep])
    BY <1>4, Zenon DEF Resolve
  <2>2. rec.status = "running"
    BY DEF NoRecord
  <2>. HIDE DEF rec
  <2>3. job'[d] = [job[d] EXCEPT !.pc = "record", !.rec = rec,
                                 !.asked = NoPair, !.prev = keep]
    BY <1>0, <2>1, BecomeEffect, Zenon
  <2>. QED BY <1>0, <2>2, <2>3 DEF Asked, Job
<1>5. CASE \E r, t : /\ Become(d, [job[d] EXCEPT !.pc = "compose", !.rec = r,
                                                 !.target = t])
                     /\ r.status = job[d].rec.status
  <2>1. PICK r, t : /\ Become(d, [job[d] EXCEPT !.pc = "compose", !.rec = r,
                                                !.target = t])
                    /\ r.status = job[d].rec.status
    BY <1>5
  <2>2. job'[d] = [job[d] EXCEPT !.pc = "compose", !.rec = r, !.target = t]
    BY <1>0, <2>1, BecomeEffect, Zenon
  <2>. QED BY <1>0, <2>1, <2>2 DEF Asked, Job
<1>6. CASE \/ Become(d, [job[d] EXCEPT !.pc = "settle",
                           !.rec = [@ EXCEPT !.rolledBackTo = job[d].prev]])
           \/ Become(d, [job[d] EXCEPT !.pc = "settle",
                           !.rec = [@ EXCEPT !.status = "success"]])
  <2>1. job'[d] \in {[job[d] EXCEPT !.pc = "settle",
                        !.rec = [@ EXCEPT !.rolledBackTo = job[d].prev]],
                     [job[d] EXCEPT !.pc = "settle",
                        !.rec = [@ EXCEPT !.status = "success"]]}
    BY <1>0, <1>6, BecomeEffect
  <2>. QED BY <1>0, <2>1 DEF Asked, Job, Record
<1>7. CASE BeginFail(d)
  <2>. DEFINE status == IF job[d].reason = "canceled" THEN "cancelled"
                                                      ELSE "failed"
              failed == [job[d] EXCEPT !.rec = [@ EXCEPT !.status = status],
                                       !.reason = "none"]
  <2>1. failed \in Job /\ Asked(failed)
    BY <1>0 DEF Job, Record, Settled, Asked
  <2>2. \/ Become(d, [failed EXCEPT !.pc = "compose", !.phase = "restore",
                                    !.target = RestoreTarget(d)])
        \/ Become(d, [failed EXCEPT !.pc = "settle"])
    BY <1>7, Zenon DEF BeginFail
  <2>. HIDE DEF failed
  <2>3. job'[d] \in {[failed EXCEPT !.pc = "compose", !.phase = "restore",
                                    !.target = RestoreTarget(d)],
                     [failed EXCEPT !.pc = "settle"]}
    BY <1>0, <2>2, BecomeEffect
  <2>. QED BY <2>1, <2>3 DEF Asked, Job
<1>8. CASE SaveRunning(d)
  <2>. DEFINE rec == [job[d].rec EXCEPT !.at = clock + 1]
  <2>1. rec.status = job[d].rec.status
    BY <1>0 DEF Job, Record
  <2>2. \/ Become(d, [job[d] EXCEPT !.pc = "compose", !.rec = rec,
                                    !.target = rec.ver])
        \/ Become(d, Over)
    BY <1>8 DEF SaveRunning, GiveUp
  <2>. HIDE DEF rec
  <2>. QED BY <1>3, <1>5, <2>1, <2>2
<1>9. CASE WriteCompose(d) \/ WriteEnv(d) \/ PreHook(d) \/ ComposeUp(d)
           \/ WaitHealthy(d) \/ PostHook(d)
  BY <1>1, <1>2, <1>6, <1>9 DEF WriteCompose, WriteEnv, PreHook, ComposeUp,
                                WaitHealthy, PostHook
<1>10. CASE Acquire(d) \/ Refused(d) \/ SaveOutcome(d) \/ Finish(d) \/ Return(d)
  BY <1>1, <1>3, <1>10 DEF Acquire, Refused, SaveOutcome, Finish, Return
<1>. QED BY <1>3, <1>4, <1>7, <1>8, <1>9, <1>10 DEF EngineStep, GiveUp

LEMMA NextAsked ==
  ASSUME IInv, AskedInv, [Next]_vars
  PROVE  AskedInv'
<1>0. job \in [Dep -> Job] /\ \A d \in Dep : Asked(job[d])
  BY DEF IInv, TypeOK, AskedInv, Asked
<1>1. ASSUME NEW d \in Dep, EngineStep(d) PROVE AskedInv'
  <2>1. \A e \in Dep : e # d => job'[e] = job[e]
    BY <1>1, EngineStepShape DEF IInv
  <2>2. Asked(job'[d])
    BY <1>0, <1>1, EngineStepAsked
  <2>. QED BY <1>0, <2>1, <2>2 DEF AskedInv, Asked
<1>2. ASSUME NEW d \in Dep, Requests(d) \/ ContextExpires(d) PROVE AskedInv'
  <2>1. \A e \in Dep : e # d => job'[e] = job[e]
    BY <1>2, RequestShape DEF IInv
  <2>2. CASE \E from, ver : Become(d, [Unused EXCEPT !.pc = "spawned",
                                         !.origin = from, !.asked = ver])
    <3>1. PICK from, ver : job'[d] = [Unused EXCEPT !.pc = "spawned",
                                         !.origin = from, !.asked = ver]
      BY <1>0, <2>2, BecomeEffect
    <3>2. Asked(job'[d])
      BY <3>1 DEF Asked, Unused, NoRecord
    <3>. QED BY <1>0, <2>1, <3>2 DEF AskedInv, Asked
  <2>3. CASE \E c : /\ Become(d, [job[d] EXCEPT !.ctx = c])
                    /\ ContextMatters(d)
    <3>1. PICK c : job'[d] = [job[d] EXCEPT !.ctx = c] /\ ContextMatters(d)
      BY <1>0, <2>3, BecomeEffect
    <3>2. Asked(job'[d])
      BY <1>0, <3>1 DEF Asked, ContextMatters, Job
    <3>. QED BY <1>0, <2>1, <3>2 DEF AskedInv, Asked
  <2>. QED BY <1>2, <2>2, <2>3
           DEF Requests, TriggerDeploy, RollbackToVersions, Spawn,
               RollbackToDeployment, CancelDeploy, ContextExpires
<1>3. CASE Edits \/ ContainersChange \/ UNCHANGED vars
  BY <1>3, EditShape DEF IInv, AskedInv, vars
<1>4. CASE Crash
  <2>1. \A d \in Dep : job'[d] \in {Unused, Over}
    BY <1>4 DEF Crash
  <2>. QED BY <2>1 DEF AskedInv, Unused, Over, NoRecord
<1>. QED BY <1>1, <1>2, <1>3, <1>4 DEF Next, EngineNext

\* A deployment record says "cancelled" only if somebody cancelled that very
\* attempt: a deploy that times out, a command the timeout killed, a crash or a
\* failed rollback never reads as the operator's decision.
THEOREM CancelledCorrect == Spec => CancelledOnlyIfAsked
<1>1. Init => IInv /\ AskedInv
  <2>1. Init => AskedInv
    BY DEF Init, AskedInv, Unused, NoRecord
  <2>. QED BY <2>1, InitInv
<1>2. IInv /\ AskedInv /\ [Next]_vars => (IInv /\ AskedInv)'
  BY NextInv, NextAsked
<1>3. IInv /\ AskedInv /\ [Next]_vars =>
        [\A d \in Dep :
           records'[d].status = "cancelled" /\ records[d].status # "cancelled"
             => job[d].ctx = "cancelled"]_records
  <2>. SUFFICES ASSUME IInv, AskedInv, [Next]_vars, NEW d \in Dep,
                       records'[d].status = "cancelled",
                       records[d].status # "cancelled"
                PROVE  job[d].ctx = "cancelled"
    OBVIOUS
  <2>0. records \in [Dep -> Record]
    BY DEF IInv, TypeOK
  <2>1. ASSUME NEW e \in Dep, EngineStep(e) PROVE job[d].ctx = "cancelled"
    <3>1. \/ Take(e)  \/ Leave(e)  \/ Work(e)
          \/ Start(e) \/ Settle(e) \/ Release(e)
      BY <2>1, EngineStepShape DEF IInv
    <3>. QED BY <2>0, <3>1
             DEF AskedInv, Take, Leave, Work, Start, Settle, Release
  <2>2. CASE \E e \in Dep : Requests(e) \/ ContextExpires(e)
    BY <2>2, RequestShape DEF IInv
  <2>3. CASE Edits \/ ContainersChange
    BY <2>3, EditShape DEF IInv, NoRecord
  <2>4. CASE Crash \/ UNCHANGED vars
    BY <2>4, CrashShape DEF IInv, vars
  <2>. QED BY <2>1, <2>2, <2>3, <2>4 DEF Next, EngineNext
<1>. QED BY <1>1, <1>2, <1>3, PTL DEF Spec, CancelledOnlyIfAsked

-----------------------------------------------------------------------------
(* Running records and the project's status, without crashes and lost saves *)

LEMMA NextLive ==
  ASSUME IInv, LiveInv, MaxCrash = 0, ~StoreMayFail, [Next]_vars
  PROVE  LiveInv'
<1>0. /\ records \in [Dep -> Record] /\ crashes \in 0..MaxCrash
      /\ \A d \in Dep : GoroutineOK(job[d])
  BY DEF IInv, TypeOK
<1>1. ASSUME NEW d \in Dep, EngineStep(d) PROVE LiveInv'
  <2>1. /\ \A e \in Dep : e # d => job'[e] = job[e]
        /\ \/ Take(d)  \/ Leave(d)  \/ Work(d)
           \/ Start(d) \/ Settle(d) \/ Release(d)
    BY <1>1, EngineStepShape DEF IInv
  <2>. QED BY <1>0, <2>1
           DEF LiveInv, Take, Leave, Work, Start, Settle, Release,
               GoroutineOK, Settled, Owning, Critical
<1>2. ASSUME NEW d \in Dep, Requests(d) \/ ContextExpires(d) PROVE LiveInv'
  <2>1. /\ \A e \in Dep : e # d => job'[e] = job[e]
        /\ job[d].pc = "unused" \/ job'[d].pc = job[d].pc
        /\ UNCHANGED records
    BY <1>2, RequestShape DEF IInv
  <2>. QED BY <2>1 DEF LiveInv, Owning, Critical
<1>3. CASE Edits \/ ContainersChange \/ UNCHANGED vars
  BY <1>3, EditShape DEF IInv, LiveInv, NoRecord, vars
<1>4. ~Crash
  BY <1>0 DEF Crash
<1>. QED BY <1>1, <1>2, <1>3, <1>4 DEF Next, EngineNext

LEMMA InitLive == Init => LiveInv
BY DEF Init, LiveInv, NoRecord

\* As long as the process does not die and the store loses no save, a record
\* says "running" only while its own attempt holds the lock: the handlers, which
\* refuse to deploy while any record is running, never refuse for good.
THEOREM LiveCorrect ==
  MaxCrash = 0 /\ ~StoreMayFail => (Spec => []RunningIsLive)
<1>. SUFFICES ASSUME MaxCrash = 0, ~StoreMayFail PROVE Spec => []RunningIsLive
  OBVIOUS
<1>1. Init => IInv /\ LiveInv
  BY InitInv, InitLive
<1>2. IInv /\ LiveInv /\ [Next]_vars => (IInv /\ LiveInv)'
  BY NextInv, NextLive
<1>3. IInv /\ LiveInv => RunningIsLive
  BY DEF IInv, LockHeldByOne, LiveInv, RunningIsLive, Owning
<1>. QED BY <1>1, <1>2, <1>3, PTL DEF Spec

\* Only the last step under the lock sets the project's status, and only the
\* save of a new record advances the clock.
LEMMA StatusKept ==
  ASSUME NEW d \in Dep, EngineStep(d)
  PROVE  /\ Finish(d) \/ UNCHANGED project
         /\ SaveRunning(d) \/ UNCHANGED clock
BY Zenon DEF EngineStep, Acquire, Refused, Resolve, SaveRunning, WriteCompose,
   WriteEnv, PreHook, ComposeUp, WaitHealthy, PostHook, BeginFail, SaveOutcome,
   Finish, Return, dbVars, versionVars

\* A step that keeps the status, the clock and who has started keeps what the
\* status tells, if the records it writes are those already told.
LEMMA TellsKept ==
  ASSUME TellsInv, UNCHANGED clock, project' \in {project, "absent"},
         \A d \in Dep :
           /\ job[d].pc \in Started => job'[d].pc \in Started
           /\ job'[d].pc = "return" => job[d].pc = "return"
                                       /\ job'[d].rec = job[d].rec
           /\ \/ records'[d] \in {records[d], NoRecord}
              \/ job[d].pc = "return" /\ records'[d] = job[d].rec
              \/ job'[d].pc \in Started
  PROVE  TellsInv'
<1>1. ASSUME NEW r, Tells(r) PROVE Tells(r)'
  BY <1>1 DEF Tells
<1>2. ASSUME NEW d \in Dep, records'[d].at = clock, clock > 0,
             \A e \in Dep : job'[e].pc \notin Started
      PROVE  Tells(records[d])'
  <2>1. records'[d] # NoRecord
    BY <1>2 DEF NoRecord
  <2>2. Tells(records'[d])
    BY <1>2, <2>1 DEF TellsInv
  <2>. QED BY <2>2 DEF Tells
<1>3. ASSUME NEW d \in Dep, job'[d].pc = "return", job'[d].rec.at = clock
      PROVE  Tells(job[d].rec)'
  BY <1>3 DEF TellsInv, Tells
<1>. QED BY <1>2, <1>3 DEF TellsInv

LEMMA FinishTells ==
  ASSUME IInv, HostInv, LiveInv, TellsInv, ~StoreMayFail,
         NEW d \in Dep, Finish(d)
  PROVE  TellsInv'
<1>0. job \in [Dep -> Job] /\ clock \in Nat /\ UNCHANGED <<records, clock>>
  BY DEF IInv, TypeOK, Finish
<1>1. /\ job[d].pc = "finish" /\ job'[d].pc = "return"
      /\ job'[d].rec = job[d].rec
      /\ \A e \in Dep : e # d => job'[e] = job[e]
  BY <1>0, GotoLocals DEF Finish, SameLocals
<1>2. job[d].rec.at = clock /\ clock > 0 /\ Stored(d)
  BY <1>1 DEF HostInv, AttemptOK, Started, Critical
<1>3. \A e \in Dep : e # d => records[e].at # clock /\ job[e].rec.at # clock
  BY <1>2 DEF HostInv, Clocked
<1>4. Tells(job[d].rec)'
  BY <1>1 DEF Finish, Tells, ShownRunning
<1>5. records[d].at = clock => records[d] = job[d].rec
  BY <1>1, <1>2 DEF Stored, LiveInv, Owning, NoRecord
<1>6. records[d].at = clock => Tells(records[d])'
  BY <1>0, <1>1, <1>4, <1>5 DEF Tells
<1>. QED BY <1>0, <1>1, <1>3, <1>4, <1>6 DEF TellsInv

LEMMA NextTells ==
  ASSUME IInv, HostInv, LiveInv, TellsInv, MaxCrash = 0, ~StoreMayFail,
         [Next]_vars
  PROVE  TellsInv'
<1>0. /\ job \in [Dep -> Job] /\ records \in [Dep -> Record] /\ clock \in Nat
      /\ crashes \in 0..MaxCrash
      /\ \A d \in Dep : job[d].rec.at <= clock /\ job[d].rec.at \in Nat
  BY DEF IInv, TypeOK, HostInv, Clocked, Job, Record
<1>1. ASSUME NEW d \in Dep, EngineStep(d) PROVE TellsInv'
  <2>1. /\ \A e \in Dep : e # d => job'[e] = job[e]
        /\ \/ Take(d)  \/ Leave(d)  \/ Work(d)
           \/ Start(d) \/ Settle(d) \/ Release(d)
    BY <1>1, EngineStepShape DEF IInv
  <2>2. CASE Finish(d)
    BY <2>2, FinishTells
  <2>3. CASE SaveRunning(d) /\ ~UNCHANGED clock
    <3>1. clock' = clock + 1 /\ job'[d].pc = "compose"
      <4>1. /\ clock' = clock + 1
            /\ \E j : Become(d, [job[d] EXCEPT !.pc = "compose", !.rec = j,
                                               !.target = j.ver])
        BY <2>3 DEF SaveRunning
      <4>2. PICK j : job'[d] = [job[d] EXCEPT !.pc = "compose", !.rec = j,
                                              !.target = j.ver]
        BY <1>0, <4>1, BecomeEffect
      <4>3. job[d] \in Job
        BY <1>0
      <4>. QED BY <4>1, <4>2, <4>3 DEF Job
    <3>2. job'[d].pc \in Started
      BY <3>1 DEF Started, Critical
    <3>. QED BY <1>0, <2>1, <3>1, <3>2 DEF TellsInv
  <2>4. CASE ~Finish(d) /\ UNCHANGED clock
    <3>1. UNCHANGED project
      BY <1>1, <2>4, StatusKept
    <3>2. /\ job[d].pc \in Started => job'[d].pc \in Started
          /\ job'[d].pc # "return"
      <4>1. job[d].pc = "finish" => job'[d].pc # "return"
        BY <1>1, <2>4 DEF EngineStep, Acquire, Refused, Resolve, SaveRunning,
           WriteCompose, WriteEnv, PreHook, ComposeUp, WaitHealthy, PostHook,
           BeginFail, SaveOutcome, Return
      <4>. QED BY <2>1, <4>1
               DEF Take, Leave, Work, Start, Settle, Release, Started, Critical,
                   Owning
    <3>3. ASSUME NEW e \in Dep
          PROVE  \/ records'[e] \in {records[e], NoRecord}
                 \/ job[e].pc = "return" /\ records'[e] = job[e].rec
                 \/ job'[e].pc \in Started
      BY <1>0, <2>1, <3>3
      DEF Take, Leave, Work, Start, Settle, Release, Started, Critical
    <3>4. ASSUME NEW e \in Dep
          PROVE  /\ job[e].pc \in Started => job'[e].pc \in Started
                 /\ job'[e].pc = "return" => /\ job[e].pc = "return"
                                             /\ job'[e].rec = job[e].rec
      BY <2>1, <3>2
    <3>. QED BY <2>4, <3>1, <3>3, <3>4, TellsKept
  <2>. QED BY <1>1, <2>2, <2>3, <2>4, StatusKept
<1>2. ASSUME NEW d \in Dep, Requests(d) \/ ContextExpires(d) PROVE TellsInv'
  <2>1. /\ \A e \in Dep : e # d => job'[e] = job[e]
        /\ job'[d].rec = job[d].rec \/ job[d].pc = "unused"
        /\ \/ job[d].pc = "unused" /\ job'[d].pc = "spawned"
           \/ job'[d].pc = job[d].pc
        /\ UNCHANGED records
    BY <1>2, RequestShape DEF IInv
  <2>2. UNCHANGED <<project, clock>>
    BY <1>2 DEF Requests, TriggerDeploy, RollbackToVersions, Spawn,
       RollbackToDeployment, CancelDeploy, ContextExpires, dbVars
  <2>3. "unused" \notin Started
    BY DEF Started, Critical
  <2>. QED BY <2>1, <2>2, <2>3, TellsKept
<1>3. CASE Edits \/ ContainersChange
  <2>1. UNCHANGED job /\ \A d \in Dep : records'[d] \in {records[d], NoRecord}
    BY <1>3, EditShape DEF IInv
  <2>2. UNCHANGED clock /\ project' \in {project, "absent"}
    BY <1>3 DEF Edits, ContainersChange, SaveCompose, SaveEnv, DeleteProject,
         DeleteComposeVersion, DeleteEnvVersion, DeleteDeployment,
         PruneDeployments, dbVars
  <2>. QED BY <2>1, <2>2, TellsKept
<1>4. ~Crash
  BY <1>0 DEF Crash
<1>5. CASE UNCHANGED vars
  BY <1>5 DEF vars, TellsInv, Tells
<1>. QED BY <1>1, <1>2, <1>3, <1>4, <1>5 DEF Next, EngineNext

\* As long as the process does not die and the store loses no save, a project
\* that no deployment is working on is shown running exactly if its latest
\* deployment succeeded or recovered: deployments that were refused, that gave
\* up early or whose records are pruned never leave another status behind.
THEOREM TellsCorrect ==
  MaxCrash = 0 /\ ~StoreMayFail => (Spec => []ProjectTellsOutcome)
<1>. SUFFICES ASSUME MaxCrash = 0, ~StoreMayFail
              PROVE  Spec => []ProjectTellsOutcome
  OBVIOUS
<1>. DEFINE All == IInv /\ HostInv /\ LiveInv /\ TellsInv
<1>1. Init => All
  <2>1. Init => TellsInv
    BY DEF Init, TellsInv, Unused
  <2>. QED BY <2>1, InitInv, InitHost, InitLive
<1>2. All /\ [Next]_vars => All'
  BY NextInv, NextHost, NextLive, NextTells
<1>3. All => ProjectTellsOutcome
  <2>. SUFFICES ASSUME All, NEW d \in Dep, clock > 0, records[d].at = clock,
                       lock = Free, project # "absent"
                PROVE  project = "running" <=>
                         \/ records[d].status = "success"
                         \/ records[d].rolledBackTo # NoPair
    BY DEF ProjectTellsOutcome
  <2>1. \A e \in Dep : job[e].pc \notin Started
    BY DeployAssumption DEF IInv, LockHeldByOne, Started
  <2>. QED BY <2>1 DEF TellsInv, Tells
<1>. QED BY <1>1, <1>2, <1>3, PTL DEF Spec

-----------------------------------------------------------------------------
(* The inductive invariant about the scheduler *)

Firing == [entry : Sched, dep : SchedDep]

SchedTypeOK ==
  /\ sched \in [Sched -> {"absent", "pending", "done", "failed", "deleted"}]
  /\ due \in SUBSET Sched
  /\ firing \in {Idle} \cup Firing
  /\ fired \in [Sched -> SUBSET SchedDep]

\* An entry that a tick has in hand has no outcome yet.
TickInv ==
  /\ \A s \in Sched : sched[s] = "absent" => fired[s] = {}
  /\ \A s \in due : sched[s] \in {"pending", "deleted"}
  /\ firing # Idle =>
       /\ firing.entry \notin due
       /\ sched[firing.entry] \in {"pending", "deleted"}
       /\ firing.dep \in fired[firing.entry]

\* Entries that may still fire, unless their attempt is under way.
MayFire(s) ==
  /\ sched[s] = "pending" \/ s \in due
  /\ firing = Idle \/ firing.entry # s

\* An entry that may still fire has had at most an attempt for each crash.
OnceInv ==
  \A s \in Sched :
    /\ IsFiniteSet(fired[s])
    /\ Cardinality(fired[s]) <= crashes + 1
    /\ MayFire(s) => Cardinality(fired[s]) <= crashes

\* The attempt that made an entry done is over, so its record is final.
GoodAttempt(d) ==
  job[d].pc = "over" /\ records[d].status \notin {"failed", "cancelled"}

DoneInv ==
  \A s \in Sched : sched[s] = "done" => \E d \in fired[s] : GoodAttempt(d)

EntryInv == SchedTypeOK /\ TickInv /\ OnceInv /\ DoneInv

-----------------------------------------------------------------------------
(* The engine's steps, the entries' and those of a tick *)

EngineStays == UNCHANGED vars /\ (SchedEdits \/ TickStart \/ \E s \in Sched : TickSkip(s))

LEMMA SchedCases ==
  ASSUME [SchedNext]_allVars
  PROVE  \/ [Next]_vars /\ UNCHANGED schedVars
         \/ SchedCrash
         \/ EngineStays
         \/ \E s \in Sched : TickFire(s)
         \/ TickSave
<1>1. CASE UNCHANGED allVars
  BY <1>1 DEF allVars
<1>2. ASSUME SchedEdits \/ TickStart \/ \E s \in Sched : TickSkip(s)
      PROVE  EngineStays
  BY <1>2 DEF EngineStays, SchedEdits, CreateScheduledDeploy,
              DeleteScheduledDeploy, TickStart, TickSkip
<1>. QED BY <1>1, <1>2, SchedulerAssumption
         DEF SchedNext, Tick, Next, EngineNext

\* The attempt a tick fires starts as one that a handler starts does.
LEMMA FireEffect ==
  ASSUME TypeOK, NEW s \in Sched, TickFire(s)
  PROVE  \E d \in SchedDep, ver \in Pair :
           /\ job[d].pc = "unused" /\ d \in Dep
           /\ job'[d] = [Unused EXCEPT !.pc = "spawned", !.origin = "schedule",
                                       !.asked = ver]
           /\ Become(d, job'[d])
           /\ \A e \in Dep : e # d => job'[e] = job[e]
           /\ firing' = [entry |-> s, dep |-> d]
           /\ fired' = [fired EXCEPT ![s] = @ \cup {d}]
<1>1. PICK d \in SchedDep, ver \in Pair :
        /\ job[d].pc = "unused"
        /\ Become(d, [Unused EXCEPT !.pc = "spawned", !.origin = "schedule",
                                    !.asked = ver])
        /\ firing' = [entry |-> s, dep |-> d]
        /\ fired' = [fired EXCEPT ![s] = @ \cup {d}]
  BY DEF TickFire
<1>2. d \in Dep
  BY SchedulerAssumption
<1>3. /\ job'[d] = [Unused EXCEPT !.pc = "spawned", !.origin = "schedule",
                                  !.asked = ver]
      /\ \A e \in Dep : e # d => job'[e] = job[e]
  BY <1>1, <1>2, BecomeEffect DEF TypeOK
<1>. QED BY <1>1, <1>2, <1>3

LEMMA SaveEffect ==
  ASSUME TypeOK, SchedTypeOK, TickSave
  PROVE  /\ firing.entry \in Sched /\ firing.dep \in SchedDep
         /\ firing.dep \in Dep
         /\ job'[firing.dep] = [job[firing.dep] EXCEPT !.pc = "over"]
         /\ \A e \in Dep : e # firing.dep => job'[e] = job[e]
<1>1. firing \in Firing
  BY DEF TickSave, SchedTypeOK
<1>2. firing.entry \in Sched /\ firing.dep \in SchedDep /\ firing.dep \in Dep
  BY <1>1, SchedulerAssumption DEF Firing
<1>. QED BY <1>2, BecomeEffect DEF TickSave, TypeOK

\* What the engine's invariants need to know of both.
LEMMA TickEffect ==
  ASSUME TypeOK, SchedTypeOK, NEW s \in Sched, TickFire(s) \/ TickSave
  PROVE  \E d \in Dep :
           /\ job' \in [Dep -> Job]
           /\ \A e \in Dep : e # d => job'[e] = job[e]
           /\ \/ /\ job[d].pc = "unused" /\ job'[d].pc = "spawned"
                 /\ job'[d].phase = "deploy" /\ job'[d].rec = NoRecord
                 /\ NoneRunning
              \/ /\ job[d].pc \in {"return", "over"} /\ job'[d].pc = "over"
                 /\ job'[d].phase = job[d].phase /\ job'[d].rec = job[d].rec
           /\ UNCHANGED <<dbVars, hostVars, lock, cancels, crashes>>
<1>1. CASE TickFire(s)
  <2>1. PICK d \in SchedDep, ver \in Pair :
           /\ job[d].pc = "unused" /\ d \in Dep
           /\ job'[d] = [Unused EXCEPT !.pc = "spawned", !.origin = "schedule",
                                       !.asked = ver]
           /\ Become(d, job'[d])
           /\ \A e \in Dep : e # d => job'[e] = job[e]
    BY <1>1, FireEffect, Zenon
  <2>2. /\ job'[d].pc = "spawned" /\ job'[d].phase = "deploy"
        /\ job'[d].rec = NoRecord
    BY <2>1 DEF Unused
  <2>3. job' \in [Dep -> Job]
    <3>1. job'[d] \in Job
      <4>1. Unused \in Job
        BY ConstantTypes
      <4>. QED BY <2>1, <4>1 DEF Job
    <3>. QED BY <2>1, <3>1, BecomeType DEF TypeOK
  <2>. QED BY <1>1, <2>1, <2>2, <2>3 DEF TickFire
<1>2. CASE TickSave
  <2>. DEFINE d == firing.dep
  <2>1. /\ d \in Dep
        /\ job'[d] = [job[d] EXCEPT !.pc = "over"]
        /\ \A e \in Dep : e # d => job'[e] = job[e]
    BY <1>2, SaveEffect
  <2>2. job[d] \in Job
    BY <2>1 DEF TypeOK
  <2>3. job' \in [Dep -> Job]
    <3>1. [job[d] EXCEPT !.pc = "over"] \in Job
      BY <2>2 DEF Job
    <3>. QED BY <1>2, <2>1, <3>1, BecomeType DEF TypeOK, TickSave
  <2>4. /\ job'[d].pc = "over" /\ job'[d].phase = job[d].phase
        /\ job'[d].rec = job[d].rec
    BY <2>1, <2>2 DEF Job
  <2>. QED BY <1>2, <2>1, <2>3, <2>4 DEF TickSave
<1>. QED BY <1>1, <1>2

-----------------------------------------------------------------------------
(* What holds of the engine next to the scheduler *)

LEMMA TickEngine ==
  ASSUME IInv, SchedTypeOK, NEW s \in Sched, TickFire(s) \/ TickSave
  PROVE  /\ IInv'
         /\ HostInv => HostInv'
         /\ RunningInv => RunningInv'
<1>. USE DEF dbVars, versionVars, hostVars
<1>1. PICK d \in Dep :
           /\ job' \in [Dep -> Job]
           /\ \A e \in Dep : e # d => job'[e] = job[e]
           /\ \/ /\ job[d].pc = "unused" /\ job'[d].pc = "spawned"
                 /\ job'[d].phase = "deploy" /\ job'[d].rec = NoRecord
                 /\ NoneRunning
              \/ /\ job[d].pc \in {"return", "over"} /\ job'[d].pc = "over"
                 /\ job'[d].phase = job[d].phase /\ job'[d].rec = job[d].rec
           /\ UNCHANGED <<dbVars, hostVars, lock, cancels, crashes>>
  BY TickEffect, Zenon DEF IInv
<1>2. IInv'
  <2>1. TypeOK'
    BY <1>1 DEF IInv, TypeOK
  <2>2. LockHeldByOne'
    BY <1>1 DEF IInv, LockHeldByOne, Critical
  <2>3. (\A e \in Dep : GoroutineOK(job[e]))'
    BY <1>1 DEF IInv, GoroutineOK
  <2>4. SettledOwner'
    BY <1>1 DEF IInv, SettledOwner
  <2>. QED BY <2>1, <2>2, <2>3, <2>4 DEF IInv
<1>3. ASSUME HostInv PROVE HostInv'
  BY <1>1, <1>3, EndHost DEF OthersSame, HostSame, NoRecord
<1>4. ASSUME RunningInv PROVE RunningInv'
  <2>1. LiveOwnsRunning'
    BY <1>1, <1>4 DEF RunningInv, LiveOwnsRunning, Alive, NoneRunning, Owning,
                      Critical
  <2>. QED BY <1>1, <1>4, <2>1 DEF RunningInv, AtMostOneRunning
<1>. QED BY <1>2, <1>3, <1>4

LEMMA SchedEngine ==
  ASSUME IInv, SchedTypeOK, [SchedNext]_allVars
  PROVE  /\ IInv'
         /\ HostInv => HostInv'
         /\ RunningInv /\ ~StoreMayFail => RunningInv'
<1>1. CASE [Next]_vars
  BY <1>1, NextInv, NextHost, NextRunning
<1>2. CASE SchedCrash \/ EngineStays
  BY <1>1, <1>2 DEF SchedCrash, EngineStays, Next
<1>3. CASE (\E s \in Sched : TickFire(s)) \/ TickSave
  <2>1. CASE \E s \in Sched : TickFire(s)
    BY <2>1, TickEngine
  <2>2. CASE TickSave
    <3>1. \E s \in Sched : TRUE
      BY <2>2, SaveEffect DEF IInv
    <3>. QED BY <2>2, <3>1, TickEngine
  <2>. QED BY <1>3, <2>1, <2>2
<1>. QED BY <1>1, <1>2, <1>3, SchedCases

-----------------------------------------------------------------------------
(* The entries *)

LEMMA OutcomeType ==
  ASSUME NEW d
  PROVE  Outcome(d) \in {"done", "failed"}
BY DEF Outcome

LEMMA NextSchedType ==
  ASSUME IInv, SchedTypeOK, [SchedNext]_allVars
  PROVE  SchedTypeOK'
<1>1. CASE UNCHANGED schedVars
  BY <1>1 DEF schedVars, SchedTypeOK
<1>2. CASE SchedCrash
  BY <1>2 DEF SchedCrash, SchedTypeOK
<1>3. CASE EngineStays
  BY <1>3 DEF EngineStays, SchedEdits, CreateScheduledDeploy,
              DeleteScheduledDeploy, TickStart, TickSkip, SchedTypeOK
<1>4. ASSUME NEW s \in Sched, TickFire(s) PROVE SchedTypeOK'
  <2>1. PICK d \in SchedDep : /\ firing' = [entry |-> s, dep |-> d]
                              /\ fired' = [fired EXCEPT ![s] = @ \cup {d}]
    BY <1>4 DEF TickFire
  <2>2. firing' \in Firing
    BY <2>1 DEF Firing
  <2>. QED BY <1>4, <2>1, <2>2 DEF SchedTypeOK, TickFire
<1>5. CASE TickSave
  BY <1>5, SaveEffect, OutcomeType DEF IInv, SchedTypeOK, TickSave
<1>. QED BY <1>1, <1>2, <1>3, <1>4, <1>5, SchedCases

LEMMA NextTick ==
  ASSUME IInv, SchedTypeOK, TickInv, [SchedNext]_allVars
  PROVE  TickInv'
<1>1. CASE UNCHANGED schedVars
  BY <1>1 DEF schedVars, TickInv
<1>2. CASE SchedCrash
  BY <1>2 DEF SchedCrash, TickInv
<1>3. CASE EngineStays
  <2>. firing # Idle => firing.entry \in Sched
    BY DEF SchedTypeOK, Firing
  <2>. QED BY <1>3
           DEF EngineStays, SchedEdits, CreateScheduledDeploy,
               DeleteScheduledDeploy, TickStart, TickSkip, SchedTypeOK, TickInv
<1>4. ASSUME NEW s \in Sched, TickFire(s) PROVE TickInv'
  <2>1. PICK d \in SchedDep : /\ firing' = [entry |-> s, dep |-> d]
                              /\ fired' = [fired EXCEPT ![s] = @ \cup {d}]
    BY <1>4 DEF TickFire
  <2>. QED BY <1>4, <2>1 DEF SchedTypeOK, TickInv, TickFire
<1>5. CASE TickSave
  <2>1. firing.entry \in Sched /\ firing' = Idle /\ due' = due
    BY <1>5, SaveEffect DEF IInv, TickSave
  <2>2. \/ sched' = [sched EXCEPT ![firing.entry] = Outcome(firing.dep)]
           /\ UNCHANGED fired
        \/ fired' = [fired EXCEPT ![firing.entry] = {}] /\ UNCHANGED sched
    BY <1>5 DEF TickSave
  <2>3. firing.entry \notin due
    BY <1>5 DEF TickInv, TickSave
  <2>. QED BY <2>1, <2>2, <2>3, OutcomeType DEF SchedTypeOK, TickInv
<1>. QED BY <1>1, <1>2, <1>3, <1>4, <1>5, SchedCases

LEMMA NextOnce ==
  ASSUME IInv, SchedTypeOK, TickInv, OnceInv, [SchedNext]_allVars
  PROVE  OnceInv'
<1>0. /\ crashes \in Nat
      /\ \A s \in Sched : IsFiniteSet(fired[s]) /\ Cardinality(fired[s]) \in Nat
  BY FS_CardinalityType, DeployAssumption DEF IInv, TypeOK, OnceInv
<1>1. CASE [Next]_vars /\ UNCHANGED schedVars
  <2>1. crashes' \in {crashes, crashes + 1}
    BY <1>1 DEF Next, EngineNext, EngineStep, Acquire, Refused, Resolve,
       SaveRunning, WriteCompose, WriteEnv, PreHook, ComposeUp, WaitHealthy,
       PostHook, BeginFail, SaveOutcome, Finish, Return, Requests,
       TriggerDeploy, RollbackToVersions, RollbackToDeployment, Spawn,
       CancelDeploy, ContextExpires, Edits, SaveCompose, SaveEnv,
       DeleteComposeVersion, DeleteEnvVersion, DeleteDeployment,
       PruneDeployments, DeleteProject, ContainersChange, Crash, vars
  <2>. QED BY <1>0, <1>1, <2>1 DEF OnceInv, MayFire, schedVars
<1>2. CASE SchedCrash
  <2>1. crashes' = crashes + 1 /\ UNCHANGED <<sched, fired>>
    BY <1>2 DEF SchedCrash, Crash
  <2>. QED BY <1>0, <2>1 DEF OnceInv
<1>3. CASE EngineStays
  <2>1. UNCHANGED <<crashes, fired, firing>>
    BY <1>3 DEF EngineStays, vars, SchedEdits, CreateScheduledDeploy,
                DeleteScheduledDeploy, TickStart, TickSkip
  <2>2. ASSUME NEW s \in Sched, MayFire(s)'
        PROVE  MayFire(s) \/ fired[s] = {}
    BY <1>3, <2>1, <2>2
    DEF EngineStays, SchedEdits, CreateScheduledDeploy, DeleteScheduledDeploy,
        TickStart, TickSkip, MayFire, TickInv, SchedTypeOK
  <2>. QED BY <1>0, <2>1, <2>2, FS_EmptySet DEF OnceInv
<1>4. ASSUME NEW s \in Sched, TickFire(s) PROVE OnceInv'
  <2>1. PICK d \in SchedDep : /\ firing' = [entry |-> s, dep |-> d]
                              /\ fired' = [fired EXCEPT ![s] = @ \cup {d}]
    BY <1>4 DEF TickFire
  <2>2. /\ UNCHANGED <<crashes, sched>> /\ due' = due \ {s}
        /\ firing = Idle /\ s \in due
    BY <1>4 DEF TickFire
  <2>3. Cardinality(fired[s]) <= crashes
    BY <2>2 DEF OnceInv, MayFire
  <2>4. /\ IsFiniteSet(fired'[s])
        /\ Cardinality(fired'[s]) <= crashes + 1
        /\ Cardinality(fired'[s]) \in Nat
    <3>1. fired'[s] = fired[s] \cup {d}
      BY <2>1 DEF SchedTypeOK
    <3>2. /\ IsFiniteSet(fired[s] \cup {d})
          /\ Cardinality(fired[s] \cup {d}) =
               IF d \in fired[s] THEN Cardinality(fired[s])
                                 ELSE Cardinality(fired[s]) + 1
      BY <1>0, FS_AddElement
    <3>. QED BY <1>0, <2>3, <3>1, <3>2
  <2>5. \A t \in Sched : t # s => fired'[t] = fired[t]
    BY <2>1 DEF SchedTypeOK
  <2>6. ~MayFire(s)'
    <3>1. firing' \in Firing
      BY <2>1 DEF Firing
    <3>2. firing' # Idle /\ firing'.entry = s
      BY <2>1, <3>1, SchedulerAssumption DEF Firing
    <3>. QED BY <3>2 DEF MayFire
  <2>7. \A t \in Sched : t # s /\ MayFire(t)' => MayFire(t)
    BY <2>2 DEF MayFire
  <2>. QED BY <1>0, <2>2, <2>4, <2>5, <2>6, <2>7 DEF OnceInv
<1>5. CASE TickSave
  <2>0. PICK s \in Sched : s = firing.entry
    BY <1>5, SaveEffect DEF IInv
  <2>1. UNCHANGED <<crashes, due>> /\ s \notin due
    BY <1>5, <2>0 DEF TickSave, TickInv
  <2>2. \/ sched' = [sched EXCEPT ![s] = Outcome(firing.dep)]
           /\ UNCHANGED fired
        \/ fired' = [fired EXCEPT ![s] = {}] /\ UNCHANGED sched
    BY <1>5, <2>0 DEF TickSave
  <2>3. \A t \in Sched : t # s => /\ fired'[t] = fired[t]
                                  /\ MayFire(t)' => MayFire(t)
    BY <2>0, <2>1, <2>2 DEF SchedTypeOK, MayFire
  <2>4. \/ fired'[s] = fired[s] /\ ~MayFire(s)'
        \/ fired'[s] = {}
    BY <2>1, <2>2, OutcomeType DEF SchedTypeOK, MayFire
  <2>. QED BY <1>0, <2>1, <2>3, <2>4, FS_EmptySet DEF OnceInv
<1>. QED BY <1>1, <1>2, <1>3, <1>4, <1>5, SchedCases

-----------------------------------------------------------------------------
(* Done entries *)

\* The record of an attempt that is over is the last word on it.
LEMMA GoodStays ==
  ASSUME IInv, NEW d \in Dep, GoodAttempt(d), [Next]_vars
  PROVE  GoodAttempt(d)'
<1>0. records \in [Dep -> Record]
  BY DEF IInv, TypeOK
<1>1. ASSUME NEW e \in Dep, EngineStep(e) PROVE GoodAttempt(d)'
  <2>1. /\ \A f \in Dep : f # e => job'[f] = job[f]
        /\ \/ Take(e)  \/ Leave(e)  \/ Work(e)
           \/ Start(e) \/ Settle(e) \/ Release(e)
    BY <1>1, EngineStepShape DEF IInv
  <2>2. e # d
    BY <2>1 DEF GoodAttempt, Take, Leave, Work, Start, Settle, Release, Critical
  <2>. QED BY <1>0, <2>1, <2>2
           DEF GoodAttempt, Take, Leave, Work, Start, Settle, Release
<1>2. ASSUME NEW e \in Dep, Requests(e) \/ ContextExpires(e)
      PROVE  GoodAttempt(d)'
  BY <1>2, RequestShape DEF IInv, GoodAttempt
<1>3. CASE Edits \/ ContainersChange
  BY <1>3, EditShape DEF IInv, GoodAttempt, NoRecord
<1>4. CASE Crash
  BY <1>4, CrashShape DEF IInv, GoodAttempt
<1>5. CASE UNCHANGED vars
  BY <1>5 DEF vars, GoodAttempt
<1>. QED BY <1>1, <1>2, <1>3, <1>4, <1>5 DEF Next, EngineNext

LEMMA NextDone ==
  ASSUME IInv, SchedTypeOK, TickInv, DoneInv, [SchedNext]_allVars
  PROVE  DoneInv'
<1>0. \A s \in Sched : fired[s] \subseteq Dep
  BY SchedulerAssumption DEF SchedTypeOK
<1>1. ASSUME [Next]_vars, UNCHANGED <<sched, fired>>
      PROVE  DoneInv'
  BY <1>0, <1>1, GoodStays DEF DoneInv
<1>2. CASE SchedCrash \/ ([Next]_vars /\ UNCHANGED schedVars)
  BY <1>1, <1>2 DEF SchedCrash, schedVars, Next
<1>3. CASE EngineStays
  <2>1. /\ UNCHANGED vars /\ UNCHANGED fired
        /\ \A s \in Sched : sched'[s] = "done" => sched[s] = "done"
    BY <1>3 DEF EngineStays, SchedEdits, CreateScheduledDeploy,
                DeleteScheduledDeploy, TickStart, TickSkip, SchedTypeOK
  <2>. QED BY <2>1 DEF DoneInv, GoodAttempt, vars
<1>4. ASSUME NEW s \in Sched, TickFire(s) PROVE DoneInv'
  <2>1. PICK d \in SchedDep :
           /\ job[d].pc = "unused"
           /\ \A e \in Dep : e # d => job'[e] = job[e]
           /\ fired' = [fired EXCEPT ![s] = @ \cup {d}]
    BY <1>4, FireEffect DEF IInv
  <2>2. UNCHANGED <<sched, records>>
    BY <1>4 DEF TickFire, dbVars
  <2>3. \A e \in Dep : GoodAttempt(e) => GoodAttempt(e)'
    BY <2>1, <2>2 DEF GoodAttempt
  <2>4. \A t \in Sched : fired[t] \subseteq fired'[t]
    BY <2>1 DEF SchedTypeOK
  <2>. QED BY <1>0, <2>2, <2>3, <2>4 DEF DoneInv
<1>5. CASE TickSave
  <2>0. PICK s \in Sched, d \in Dep : s = firing.entry /\ d = firing.dep
    BY <1>5, SaveEffect DEF IInv
  <2>1. /\ job'[d] = [job[d] EXCEPT !.pc = "over"]
        /\ \A e \in Dep : e # d => job'[e] = job[e]
        /\ UNCHANGED records
    BY <1>5, <2>0, SaveEffect DEF IInv, TickSave, dbVars
  <2>2. /\ job'[d].pc = "over"
        /\ \A e \in Dep : GoodAttempt(e) => GoodAttempt(e)'
    <3>1. job[d] \in Job
      BY <2>1 DEF IInv, TypeOK
    <3>2. job'[d].pc = "over"
      BY <2>1, <3>1 DEF Job
    <3>. QED BY <2>1, <3>2 DEF GoodAttempt
  <2>3. Outcome(d) = "done" => GoodAttempt(d)'
    <3>. SUFFICES ASSUME job[d].pc = "return", job[d].rec.status = "success"
                  PROVE  GoodAttempt(d)'
      BY DEF Outcome
    <3>1. records[d].status \in Settled => records[d] = job[d].rec
      BY DEF IInv, SettledOwner
    <3>. QED BY <2>1, <2>2, <3>1 DEF Settled, GoodAttempt
  <2>4. d \in fired[s] /\ sched[s] # "done"
    BY <1>5, <2>0 DEF TickInv, TickSave
  <2>5. \/ sched' = [sched EXCEPT ![s] = Outcome(d)] /\ UNCHANGED fired
        \/ fired' = [fired EXCEPT ![s] = {}] /\ UNCHANGED sched
    BY <1>5, <2>0 DEF TickSave
  <2>. QED BY <1>0, <2>1, <2>2, <2>3, <2>4, <2>5 DEF DoneInv, SchedTypeOK
<1>. QED BY <1>2, <1>3, <1>4, <1>5, SchedCases

-----------------------------------------------------------------------------
(* Theorems *)

SchedInv == IInv /\ HostInv /\ EntryInv

LEMMA InitSched == SchedInit => SchedInv
<1>. SUFFICES ASSUME SchedInit PROVE SchedInv
  OBVIOUS
<1>1. IInv /\ HostInv
  BY InitInv, InitHost DEF SchedInit
<1>2. crashes = 0
  BY DEF SchedInit, Init
<1>3. EntryInv
  BY <1>2, FS_EmptySet
  DEF SchedInit, EntryInv, SchedTypeOK, TickInv, OnceInv, MayFire, DoneInv
<1>. QED BY <1>1, <1>3 DEF SchedInv

LEMMA NextSched ==
  ASSUME SchedInv, [SchedNext]_allVars
  PROVE  SchedInv'
BY SchedEngine, NextSchedType, NextTick, NextOnce, NextDone
DEF SchedInv, EntryInv

\* Next to the scheduler as next to the handlers, the project's lock is held by
\* exactly the attempt that is between TryLock and Unlock.
THEOREM SchedLockCorrect == SchedSpec => []LockHeldByOne
<1>1. SchedInv => LockHeldByOne
  BY DEF SchedInv, IInv
<1>. QED BY <1>1, InitSched, NextSched, PTL DEF SchedSpec

\* Each entry fires once: between two starts of the process, and as long as the
\* store takes what became of an entry, no entry is deployed twice, whatever
\* list of due entries a tick works from and whatever users delete meanwhile.
THEOREM OnceCorrect == SchedSpec => []FiresOnce
<1>1. SchedInv => FiresOnce
  BY DEF SchedInv, EntryInv, OnceInv, FiresOnce
<1>. QED BY <1>1, InitSched, NextSched, PTL DEF SchedSpec

\* An entry is shown done only if one of the deployments made for it has no
\* record of a failure, through crashes and saves that fail.
THEOREM DoneCorrect == SchedSpec => []DoneIsSuccess
<1>1. SchedInv => DoneIsSuccess
  BY DEF SchedInv, EntryInv, DoneInv, GoodAttempt, DoneIsSuccess
<1>. QED BY <1>1, InitSched, NextSched, PTL DEF SchedSpec

\* The scheduler's deployments are records like the users': once settled they
\* change no more, and while nothing is deploying the latest successful one is
\* what is on the host.
THEOREM SchedSettledCorrect == SchedSpec => SettledIsFinal /\ []SuccessIsOnHost
<1>1. SchedInv => SuccessIsOnHost
  BY DEF SchedInv, HostInv, AttemptOK, OnHost, SuccessIsOnHost
<1>2. SchedInv /\ [SchedNext]_allVars =>
        [\A d \in Dep : records[d].status \in Settled
                         => records'[d] \in {records[d], NoRecord}]_records
  <2>. SUFFICES ASSUME SchedInv, [SchedNext]_allVars
                PROVE  \A d \in Dep : records[d].status \in Settled
                         => records'[d] \in {records[d], NoRecord}
    OBVIOUS
  <2>1. CASE [Next]_vars
    BY <2>1, SettledStep DEF SchedInv
  <2>2. CASE UNCHANGED records
    BY <2>2
  <2>. QED BY <2>1, <2>2, SchedCases, Zenon
           DEF SchedCrash, EngineStays, vars, TickFire, TickSave, dbVars, Next
<1>. QED BY <1>1, <1>2, InitSched, NextSched, PTL DEF SchedSpec, SettledIsFinal

\* With a store that does not lose saves, the scheduler never makes a second
\* record of the project run next to one that users started.
THEOREM SchedOneRunning == ~StoreMayFail => (SchedSpec => []AtMostOneRunning)
<1>. SUFFICES ASSUME ~StoreMayFail PROVE SchedSpec => []AtMostOneRunning
  OBVIOUS
<1>1. SchedInit => SchedInv /\ RunningInv
  <2>1. SchedInit => RunningInv
    BY DEF SchedInit, Init, RunningInv, AtMostOneRunning, LiveOwnsRunning,
           NoRecord
  <2>. QED BY <2>1, InitSched
<1>2. SchedInv /\ RunningInv /\ [SchedNext]_allVars => (SchedInv /\ RunningInv)'
  BY NextSched, SchedEngine DEF SchedInv, EntryInv
<1>3. RunningInv => AtMostOneRunning
  BY DEF RunningInv
<1>. QED BY <1>1, <1>2, <1>3, PTL DEF SchedSpec
=============================================================================
