---------------------------- MODULE DeployEngine ----------------------------
(***************************************************************************)
(* One project of OffDock as the deploy engine and the HTTP handlers that  *)
(* drive it see it (src/internal/deploy/engine.go, api/handlers/deploy.go, *)
(* rollback.go, compose.go, envvars.go, projects.go, system.go).  All the  *)
(* state is keyed by project id and the engine's lock is per project, so   *)
(* one project is enough.                                                  *)
(*                                                                         *)
(* A deployment attempt d is the goroutine that runs DeployVersion; job[d] *)
(* is that goroutine's program counter and locals.  Collections of the     *)
(* store are plain sets and functions here: their durability is the        *)
(* subject of module LogStore.                                             *)
(***************************************************************************)
EXTENDS Integers, FiniteSets

CONSTANTS
  Dep,          \* ids of the deployment attempts that may ever be made
  Free,         \* the owner of an unlocked project lock
  MaxCompose,   \* bound on compose versions saved
  MaxEnv,       \* bound on env versions saved
  MaxCrash,     \* bound on process crashes
  StoreMayFail  \* TRUE: a Save to the store may return an error

ASSUME DeployAssumption ==
  /\ Free \notin Dep
  /\ MaxCompose \in Nat \ {0}
  /\ MaxEnv \in Nat
  /\ MaxCrash \in Nat
  /\ StoreMayFail \in BOOLEAN

VARIABLES
  project,      \* status of the project's record, "absent" when deleted
  composes,     \* compose versions in the store
  envs,         \* env-set versions in the store
  records,      \* the Deployments collection
  clock,        \* number of deployment records ever started (orders StartedAt)
  disk,         \* versions in the project directory's compose file and .env
  stack,        \* what docker runs for the project
  lock,         \* Engine.locks[project]
  cancels,      \* H.deployCancels: attempts with a registered cancel function
  job,          \* per attempt: the goroutine running DeployVersion
  crashes       \* crashes so far

versionVars == <<composes, envs>>
dbVars      == <<project, composes, envs, records, clock>>
hostVars    == <<disk, stack>>
vars == <<project, composes, envs, records, clock,
          disk, stack, lock, cancels, job, crashes>>

-----------------------------------------------------------------------------
(* Types *)

\* A compose version and an env version; 0 is "none" in a record or on disk
\* and "latest" in a request.
Pair   == [compose : 0..MaxCompose, env : 0..MaxEnv]
NoPair == [compose |-> 0, env |-> 0]

ProjectStatus == {"absent", "stopped", "running", "error", "degraded"}
Settled       == {"success", "failed", "cancelled"}

\* rolledBackTo is RolledBackTo of the Go record, NoPair when empty.
Record   == [status : {"none", "running"} \cup Settled, ver : Pair,
             at : Nat, rolledBackTo : Pair]
NoRecord == [status |-> "none", ver |-> NoPair, at |-> 0,
             rolledBackTo |-> NoPair]

\* The control points inside the critical section of DeployVersion.
Critical == {"resolve", "record", "compose", "env", "prehook", "up", "health",
             "posthook", "failing", "settle", "finish"}

Job == [pc     : {"unused", "spawned", "return", "over"} \cup Critical,
        origin : {"none", "trigger", "rollback", "restore", "schedule"},
        ctx    : {"live", "cancelled", "expired"},
        phase  : {"deploy", "restore"},
        reason : {"none", "busy", "error", "canceled", "deadline", "killed"},
        asked  : Pair,     \* versions requested, 0 = latest
        target : Pair,     \* versions being written and brought up
        prev   : Pair,     \* last good versions, for the automatic rollback
        rec    : Record]   \* the goroutine's own copy of its record

Unused == [pc |-> "unused", origin |-> "none", ctx |-> "live",
           phase |-> "deploy", reason |-> "none", asked |-> NoPair,
           target |-> NoPair, prev |-> NoPair, rec |-> NoRecord]
Over   == [Unused EXCEPT !.pc = "over"]

\* What docker reports of the containers: "unhealthy" is every state but up and
\* well (starting, restarting, exited, half of them recreated).
Stack == [ver : Pair, state : {"down", "unhealthy", "healthy"}]

TypeOK ==
  /\ project \in ProjectStatus
  /\ composes \in SUBSET (1..MaxCompose)
  /\ envs \in SUBSET (1..MaxEnv)
  /\ records \in [Dep -> Record]
  /\ clock \in Nat
  /\ disk \in Pair
  /\ stack \in Stack
  /\ lock \in Dep \cup {Free}
  /\ cancels \in SUBSET Dep
  /\ job \in [Dep -> Job]
  /\ crashes \in 0..MaxCrash

\* The project has just been created and its first compose file saved.
Init ==
  /\ project = "stopped"
  /\ composes = {1}
  /\ envs = {}
  /\ records = [d \in Dep |-> NoRecord]
  /\ clock = 0
  /\ disk = NoPair
  /\ stack = [ver |-> NoPair, state |-> "down"]
  /\ lock = Free
  /\ cancels = {}
  /\ job = [d \in Dep |-> Unused]
  /\ crashes = 0

-----------------------------------------------------------------------------
(* Helpers *)

IsTop(v, S) == v \in S /\ \A w \in S : w <= v

\* The highest version, 0 if there is none.  Mutant: one too high.
Latest_OffByOne(S) ==
  IF \E v \in S : IsTop(v, S) THEN 1 + CHOOSE v \in S : IsTop(v, S) ELSE 1

Latest(S) ==
  IF \E v \in S : IsTop(v, S) THEN CHOOSE v \in S : IsTop(v, S) ELSE 0

NoneRunning == \A d \in Dep : records[d].status # "running"

\* The versions of the most recently started successful deployment.
IsLastSuccess(d) ==
  /\ records[d].status = "success"
  /\ \A e \in Dep : records[e].status = "success" => records[e].at <= records[d].at

LastSuccess ==
  IF \E d \in Dep : IsLastSuccess(d)
  THEN records[CHOOSE d \in Dep : IsLastSuccess(d)].ver
  ELSE NoPair

\* Attempt d's goroutine takes the state j; or only another control point.
Become(d, j) == job' = [job EXCEPT ![d] = j]
Goto(d, p)   == Become(d, [job[d] EXCEPT !.pc = p])

\* A Save that may fail leaves the collection as it was.
SaveRecord(d, r) ==
  \/ records' = [records EXCEPT ![d] = r]
  \/ StoreMayFail /\ UNCHANGED records

\* DeployVersion returns before it has a record: the lock is released and the
\* goroutine ends.  Mutant: an early return without the unlock.
GiveUp_KeepsLock(d) ==
  /\ UNCHANGED lock
  /\ cancels' = cancels \ {d}
  /\ Become(d, Over)

GiveUp(d) ==
  /\ lock' = Free
  /\ cancels' = cancels \ {d}
  /\ Become(d, Over)

\* An error at a step of the deploy enters fail(); at a step of the automatic
\* rollback it ends the rollback unrecovered.
Fails(d, why) ==
  Become(d, IF job[d].phase = "deploy"
            THEN [job[d] EXCEPT !.pc = "failing", !.reason = why]
            ELSE [job[d] EXCEPT !.pc = "settle"])

\* Whether d's current phase runs under a context that is still live: the
\* automatic rollback has a fresh one.
CtxLive(d) == job[d].phase = "restore" \/ job[d].ctx = "live"

\* context.Canceled or context.DeadlineExceeded.  Mutant: any done context is
\* taken for a cancel.
CtxErr_Canceled(d) == "canceled"

CtxErr(d) == IF job[d].ctx = "cancelled" THEN "canceled" ELSE "deadline"

\* What a command run with exec.CommandContext returns: its own error, the
\* context's error if the context was done before it started or by the time it
\* was over, or the error of the kill signal if the context ended while it ran.
CommandErrors(d) ==
  IF CtxLive(d) THEN {"error"} ELSE {CtxErr(d), "killed"}

\* What ends the health poll short of success: a container that exited or the
\* health deadline, or a context that is done.  Mutant: no health deadline.
HealthErrors_NoDeadline(d) == IF CtxLive(d) THEN {} ELSE {CtxErr(d)}

HealthErrors(d) == {"error"} \cup (IF CtxLive(d) THEN {} ELSE {CtxErr(d)})

\* What the automatic rollback brings up: the last good compose version, which
\* must still exist, and its env set, or an empty one if that is gone.
\* Mutant: the versions that have just failed.
RestoreTarget_Failed(d) == job[d].rec.ver

RestoreTarget(d) ==
  [compose |-> job[d].prev.compose,
   env     |-> IF job[d].prev.env \in envs THEN job[d].prev.env ELSE 0]

CanRollBack(d) ==
  /\ job[d].prev.compose > 0
  /\ job[d].prev # job[d].rec.ver
  /\ job[d].prev.compose \in composes

\* Whether the project is shown running after the deployment.  Mutant: a
\* recovered project is left in error.
ShownRunning_NotRecovered(rec) == rec.status = "success"

ShownRunning(rec) == rec.status = "success" \/ rec.rolledBackTo # NoPair

\* The record Rollback saves a second time.  Mutant: as it was at the start.
Marked_Stale(d) == [job[d].rec EXCEPT !.status = "running"]

Marked(d) == job[d].rec

-----------------------------------------------------------------------------
(* HTTP handlers that start and cancel deployments *)

\* The project exists, none of its records is running, and a goroutine is
\* started with a registered cancel function.  Mutant: no look at the records.
Spawn_NoCheck(d, from, ver) ==
  /\ project # "absent"
  /\ job[d].pc = "unused"
  /\ Become(d, [Unused EXCEPT !.pc = "spawned", !.origin = from, !.asked = ver])
  /\ cancels' = cancels \cup {d}
  /\ UNCHANGED <<dbVars, hostVars, lock, crashes>>

Spawn(d, from, ver) ==
  /\ project # "absent"
  /\ NoneRunning
  /\ job[d].pc = "unused"
  /\ Become(d, [Unused EXCEPT !.pc = "spawned", !.origin = from, !.asked = ver])
  /\ cancels' = cancels \cup {d}
  /\ UNCHANGED <<dbVars, hostVars, lock, crashes>>

TriggerDeploy(d, ver) == Spawn(d, "trigger", ver)

\* Rollback with an explicit pin or a tag.
RollbackToVersions(d, ver) == Spawn(d, "rollback", ver)

\* Rollback to the pair a past deployment used.
RollbackToDeployment(d, src) ==
  /\ records[src].status # "none"
  /\ Spawn(d, "restore", records[src].ver)

\* The context matters to the goroutine until its deploy phase has ended.
ContextMatters(d) ==
  /\ job[d].ctx = "live"
  /\ job[d].phase = "deploy"
  /\ job[d].pc \notin {"unused", "failing", "settle", "finish", "return", "over"}

CancelDeploy(d) ==
  /\ d \in cancels
  /\ ContextMatters(d)
  /\ Become(d, [job[d] EXCEPT !.ctx = "cancelled"])
  /\ UNCHANGED <<dbVars, hostVars, lock, cancels, crashes>>

-----------------------------------------------------------------------------
(* Engine.DeployVersion *)

\* TryLock succeeds.
Acquire(d) ==
  /\ job[d].pc = "spawned"
  /\ lock = Free
  /\ lock' = d
  /\ Goto(d, "resolve")
  /\ UNCHANGED <<dbVars, hostVars, cancels, crashes>>

\* TryLock fails: "a deployment is already in progress for this project".
Refused(d) ==
  /\ job[d].pc = "spawned"
  /\ lock # Free
  /\ cancels' = cancels \ {d}
  /\ Become(d, [Over EXCEPT !.reason = "busy"])
  /\ UNCHANGED <<dbVars, hostVars, lock, crashes>>

\* Read the project, resolve the versions and capture the last good ones if
\* the project's settings ask for a rollback on failure.  Operators change that
\* setting at any time and this is where it is read, so it is either.
Resolve(d) ==
  LET want == job[d].asked
      ver  == [compose |-> IF want.compose = 0 THEN Latest(composes)
                                               ELSE want.compose,
               env     |-> IF want.env = 0 THEN Latest(envs) ELSE want.env]
      found == /\ project # "absent"
               /\ ver.compose \in composes
               /\ want.env \in envs \cup {0}
  IN /\ job[d].pc = "resolve"
     /\ \/ /\ found
           /\ \E keep \in {LastSuccess, NoPair} :
                Become(d, [job[d] EXCEPT
                  !.pc = "record",
                  !.rec = [NoRecord EXCEPT !.status = "running", !.ver = ver],
                  !.asked = NoPair,
                  !.prev = keep])
           /\ UNCHANGED <<lock, cancels>>
        \/ ~found /\ GiveUp(d)
     /\ UNCHANGED <<dbVars, hostVars, crashes>>

\* Save the record as running.
SaveRunning(d) ==
  LET rec == [job[d].rec EXCEPT !.at = clock + 1]
  IN /\ job[d].pc = "record"
     /\ \/ /\ records' = [records EXCEPT ![d] = rec]
           /\ clock' = clock + 1
           /\ Become(d, [job[d] EXCEPT !.pc = "compose", !.rec = rec,
                                       !.target = rec.ver])
           /\ UNCHANGED <<lock, cancels>>
        \/ /\ StoreMayFail
           /\ GiveUp(d)
           /\ UNCHANGED <<records, clock>>
     /\ UNCHANGED <<project, versionVars, hostVars, crashes>>

\* The project directory is written: compose file, then .env.
\* Mutant: the latest compose version whatever was asked for.
WriteCompose_Latest(d) ==
  /\ job[d].pc = "compose"
  /\ disk' = [disk EXCEPT !.compose = Latest(composes)]
  /\ Goto(d, "env")
  /\ UNCHANGED <<dbVars, stack, lock, cancels, crashes>>

WriteCompose(d) ==
  /\ job[d].pc = "compose"
  /\ \/ disk' = [disk EXCEPT !.compose = job[d].target.compose] /\ Goto(d, "env")
     \/ UNCHANGED disk /\ Fails(d, "error")
  /\ UNCHANGED <<dbVars, stack, lock, cancels, crashes>>

\* Mutant: an error is ignored.
WriteEnv_Ignored(d) ==
  /\ job[d].pc = "env"
  /\ disk' \in {disk, [disk EXCEPT !.env = job[d].target.env]}
  /\ Goto(d, IF job[d].phase = "deploy" THEN "prehook" ELSE "up")
  /\ UNCHANGED <<dbVars, stack, lock, cancels, crashes>>

WriteEnv(d) ==
  /\ job[d].pc = "env"
  /\ \/ /\ disk' = [disk EXCEPT !.env = job[d].target.env]
        /\ Goto(d, IF job[d].phase = "deploy" THEN "prehook" ELSE "up")
     \/ UNCHANGED disk /\ Fails(d, "error")
  /\ UNCHANGED <<dbVars, stack, lock, cancels, crashes>>

\* An empty hook succeeds whatever the context.
PreHook(d) ==
  /\ job[d].pc = "prehook"
  /\ \/ Goto(d, "up")
     \/ \E why \in CommandErrors(d) : Fails(d, why)
  /\ UNCHANGED <<dbVars, hostVars, lock, cancels, crashes>>

\* docker compose up -d --force-recreate of what is on disk.  A failed or
\* killed run leaves the old containers or half of the new ones, and a run that
\* ends at the moment the context does is reported as the context's error.
ComposeUp(d) ==
  /\ job[d].pc = "up"
  /\ \/ /\ CtxLive(d)
        /\ stack' = [ver |-> disk, state |-> "unhealthy"]
        /\ Goto(d, "health")
     \/ \E why \in CommandErrors(d) :
          /\ stack' \in {stack, [ver |-> disk, state |-> "unhealthy"]}
          /\ Fails(d, why)
  /\ UNCHANGED <<dbVars, disk, lock, cancels, crashes>>

\* The poll loop ends with every container healthy, with a container that
\* exited, at the health deadline, or because the context is done.
WaitHealthy(d) ==
  /\ job[d].pc = "health"
  /\ \/ /\ stack.state = "healthy" /\ CtxLive(d)
        /\ IF job[d].phase = "deploy"
           THEN Goto(d, "posthook")
           ELSE Become(d, [job[d] EXCEPT !.pc = "settle",
                             !.rec = [@ EXCEPT !.rolledBackTo = job[d].prev]])
     \/ \E why \in HealthErrors(d) : Fails(d, why)
  /\ UNCHANGED <<dbVars, hostVars, lock, cancels, crashes>>

\* The post-deploy hook, then the best-effort nginx reload and snapshot.
PostHook(d) ==
  /\ job[d].pc = "posthook"
  /\ \/ Become(d, [job[d] EXCEPT !.pc = "settle",
                                 !.rec = [@ EXCEPT !.status = "success"]])
     \/ \E why \in CommandErrors(d) : Fails(d, why)
  /\ UNCHANGED <<dbVars, hostVars, lock, cancels, crashes>>

\* fail(): classify the outcome and start the automatic rollback if there are
\* other good versions to go back to.
BeginFail(d) ==
  LET status == IF job[d].reason = "canceled" THEN "cancelled" ELSE "failed"
      failed == [job[d] EXCEPT !.rec = [@ EXCEPT !.status = status],
                               !.reason = "none"]
  IN /\ job[d].pc = "failing"
     /\ IF CanRollBack(d)
        THEN Become(d, [failed EXCEPT !.pc = "compose", !.phase = "restore",
                                      !.target = RestoreTarget(d)])
        ELSE Become(d, [failed EXCEPT !.pc = "settle"])
     /\ UNCHANGED <<dbVars, hostVars, lock, cancels, crashes>>

\* Save the settled record; an error is ignored.  Mutant: only if it was not
\* cancelled.
SaveOutcome_NotCancelled(d) ==
  /\ job[d].pc = "settle"
  /\ IF job[d].rec.status = "cancelled" THEN UNCHANGED records
                                        ELSE SaveRecord(d, job[d].rec)
  /\ Goto(d, "finish")
  /\ UNCHANGED <<project, versionVars, clock, hostVars, lock, cancels, crashes>>

SaveOutcome(d) ==
  /\ job[d].pc = "settle"
  /\ SaveRecord(d, job[d].rec)
  /\ Goto(d, "finish")
  /\ UNCHANGED <<project, versionVars, clock, hostVars, lock, cancels, crashes>>

\* Save the copy of the project read by Resolve with its new status, whether
\* or not the project still exists; return, releasing the lock.
Finish(d) ==
  /\ job[d].pc = "finish"
  /\ \/ project' = IF ShownRunning(job[d].rec) THEN "running" ELSE "error"
     \/ StoreMayFail /\ UNCHANGED project
  /\ lock' = Free
  /\ Goto(d, "return")
  /\ UNCHANGED <<versionVars, records, clock, hostVars, cancels, crashes>>

\* Back in the handler's goroutine (the scheduler, the other caller, has its
\* own module): Rollback saves the record once more to mark it, outside the
\* lock.
Return(d) ==
  /\ job[d].pc = "return"
  /\ job[d].origin # "schedule"
  /\ IF job[d].origin \in {"rollback", "restore"}
     THEN SaveRecord(d, Marked(d))
     ELSE UNCHANGED records
  /\ cancels' = cancels \ {d}
  /\ Become(d, Over)
  /\ UNCHANGED <<project, versionVars, clock, hostVars, lock, crashes>>

\* The deploy timeout fires.
ContextExpires(d) ==
  /\ lock = d
  /\ ContextMatters(d)
  /\ Become(d, [job[d] EXCEPT !.ctx = "expired"])
  /\ UNCHANGED <<dbVars, hostVars, lock, cancels, crashes>>

EngineStep(d) ==
  \/ Acquire(d)      \/ Refused(d)    \/ Resolve(d)   \/ SaveRunning(d)
  \/ WriteCompose(d) \/ WriteEnv(d)   \/ PreHook(d)   \/ ComposeUp(d)
  \/ WaitHealthy(d)  \/ PostHook(d)   \/ BeginFail(d) \/ SaveOutcome(d)
  \/ Finish(d)       \/ Return(d)

-----------------------------------------------------------------------------
(* Other handlers that change what a deployment reads or wrote *)

SaveCompose ==
  /\ Latest(composes) < MaxCompose
  /\ composes' = composes \cup {Latest(composes) + 1}
  /\ UNCHANGED <<project, envs, records, clock, hostVars, lock, cancels, job,
                 crashes>>

SaveEnv ==
  /\ project # "absent"
  /\ Latest(envs) < MaxEnv
  /\ envs' = envs \cup {Latest(envs) + 1}
  /\ UNCHANGED <<project, composes, records, clock, hostVars, lock, cancels,
                 job, crashes>>

\* Deleting a version is refused for the latest one and for one a deployment
\* record refers to (tags are left to the module of the versions).
DeleteComposeVersion(v) ==
  /\ v \in composes
  /\ v # Latest(composes)
  /\ \A d \in Dep : records[d].status # "none" => records[d].ver.compose # v
  /\ composes' = composes \ {v}
  /\ UNCHANGED <<project, envs, records, clock, hostVars, lock, cancels, job,
                 crashes>>

DeleteEnvVersion(v) ==
  /\ v \in envs
  /\ v # Latest(envs)
  /\ \A d \in Dep : records[d].status # "none" => records[d].ver.env # v
  /\ envs' = envs \ {v}
  /\ UNCHANGED <<project, composes, records, clock, hostVars, lock, cancels,
                 job, crashes>>

DeleteDeployment(d) ==
  /\ records[d].status \in Settled
  /\ records' = [records EXCEPT ![d] = NoRecord]
  /\ UNCHANGED <<project, versionVars, clock, hostVars, lock, cancels, job,
                 crashes>>

\* PruneAll drops the oldest records beyond a count over all projects, of any
\* status: of this project's, those started up to some point.
PruneDeployments(n) ==
  /\ \E d \in Dep : records[d].at \in 1..n
  /\ records' = [d \in Dep |-> IF records[d].at <= n THEN NoRecord
                                                     ELSE records[d]]
  /\ UNCHANGED <<project, versionVars, clock, hostVars, lock, cancels, job,
                 crashes>>

\* The project, its compose versions and its env sets go; deployments,
\* settings and containers stay.
DeleteProject ==
  /\ project # "absent"
  /\ project' = "absent"
  /\ composes' = {}
  /\ envs' = {}
  /\ UNCHANGED <<records, clock, hostVars, lock, cancels, job, crashes>>

-----------------------------------------------------------------------------
(* The environment *)

\* Containers become healthy or fail on their own.
ContainersChange ==
  /\ stack.state # "down"
  /\ \E s \in {"healthy", "unhealthy"} \ {stack.state} :
       stack' = [stack EXCEPT !.state = s]
  /\ UNCHANGED <<dbVars, disk, lock, cancels, job, crashes>>

\* The process dies and starts again: goroutines, locks and the cancel
\* registry are gone, nothing mends the records.  A reboot takes the
\* containers down, a compose run cut short leaves half of them.
Crash ==
  /\ crashes < MaxCrash
  /\ crashes' = crashes + 1
  /\ job' = [d \in Dep |-> IF job[d].pc = "unused" THEN Unused ELSE Over]
  /\ lock' = Free
  /\ cancels' = {}
  /\ \/ UNCHANGED stack
     \/ stack' = [stack EXCEPT !.state = "down"]
     \/ /\ \E d \in Dep : job[d].pc = "up"
        /\ stack' = [ver |-> disk, state |-> "unhealthy"]
  /\ UNCHANGED <<dbVars, disk>>

-----------------------------------------------------------------------------
Requests(d) ==
  \/ \E ver \in Pair : TriggerDeploy(d, ver) \/ RollbackToVersions(d, ver)
  \/ \E src \in Dep : RollbackToDeployment(d, src)
  \/ CancelDeploy(d)

Edits ==
  \/ SaveCompose \/ SaveEnv \/ DeleteProject
  \/ \E v \in 1..MaxCompose : DeleteComposeVersion(v)
  \/ \E v \in 1..MaxEnv : DeleteEnvVersion(v)
  \/ \E d \in Dep : DeleteDeployment(d)
  \/ \E n \in 1..clock : PruneDeployments(n)

EngineNext ==
  \/ \E d \in Dep : EngineStep(d) \/ Requests(d) \/ ContextExpires(d)
  \/ Edits
  \/ ContainersChange

Next == EngineNext \/ Crash

Spec == Init /\ [][Next]_vars

\* The Go scheduler runs every goroutine, every command ends, and the health
\* loop has a deadline; users, containers and crashes owe nothing.
FairSpec == Spec /\ \A d \in Dep : WF_vars(EngineStep(d))

-----------------------------------------------------------------------------
(* Properties *)

\* The per-project lock is held by exactly the attempt that is between TryLock
\* and Unlock, through refusals, early returns and crashes.
LockHeldByOne == \A d \in Dep : lock = d <=> job[d].pc \in Critical

\* The handlers' check of the records and the engine's lock together never let
\* two records of the project be running, even with a record left over from a
\* crash, pruned records, and attempts that passed the check long ago.  A
\* store that loses the final Save is excluded.
AtMostOneRunning ==
  \A d, e \in Dep :
    records[d].status = "running" /\ records[e].status = "running" => d = e

\* When no deployment is in progress, the files on disk and the containers are
\* at the versions that the latest deployment, if it succeeded, recorded.
SuccessIsOnHost ==
  \A d \in Dep :
    records[d].status = "success" /\ records[d].at = clock /\ lock = Free
      => disk = records[d].ver /\ stack.ver = records[d].ver

\* When no deployment is in progress and the latest one failed and recovered,
\* they are at the compose version it says it rolled back to, with that
\* version's env set or none.
RecoveryIsOnHost ==
  \A d \in Dep :
    records[d].rolledBackTo # NoPair /\ records[d].at = clock /\ lock = Free
      => /\ disk.compose = records[d].rolledBackTo.compose
         /\ disk.env \in {records[d].rolledBackTo.env, 0}
         /\ stack.ver = disk

\* Once settled, a record changes neither its outcome nor its versions: the
\* handler's late second save, pruning and crashes included.
SettledIsFinal ==
  [][\A d \in Dep :
       records[d].status \in Settled => records'[d] \in {records[d], NoRecord}]_records

\* A record says "cancelled" only of an attempt somebody cancelled: a timeout
\* or a command killed by one is a failure.
CancelledOnlyIfAsked ==
  [][\A d \in Dep :
       records'[d].status = "cancelled" /\ records[d].status # "cancelled"
         => job[d].ctx = "cancelled"]_records

\* With no crash and no failing store, after a deployment the project is shown
\* running exactly when its latest deployment succeeded or recovered.
ProjectTellsOutcome ==
  \A d \in Dep :
    /\ clock > 0 /\ records[d].at = clock
    /\ lock = Free /\ project # "absent"
    => (project = "running" <=> \/ records[d].status = "success"
                                \/ records[d].rolledBackTo # NoPair)

\* With no crash and no failing store, a record is running only while its own
\* attempt holds the lock, so a project that refuses to deploy is deploying.
RunningIsLive == \A d \in Dep : records[d].status = "running" => lock = d

\* A deleted project stays deleted.
DeletedProjectStaysDeleted ==
  [][project = "absent" => project' = "absent"]_project

\* Every attempt started is over in the end, and so is every record's running
\* status: the lock always comes free again.
AttemptsEnd ==
  \A d \in Dep : job[d].pc = "spawned" ~> job[d].pc = "over"

RunningSettles ==
  \A d \in Dep : records[d].status = "running" ~> records[d].status # "running"
=============================================================================
