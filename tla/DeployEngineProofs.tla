------------------------- MODULE DeployEngineProofs -------------------------
(***************************************************************************)
(* Theorems about DeployEngine for every number of attempts, versions and  *)
(* crashes.                                                                *)
(***************************************************************************)
EXTENDS DeployEngine, TLAPS

-----------------------------------------------------------------------------
(* Operators *)

LEMMA LatestType ==
  ASSUME NEW n \in Nat, NEW S \in SUBSET (1..n)
  PROVE  Latest(S) \in 0..n
<1>1. CASE \E v \in S : IsTop(v, S)
  <2>1. Latest(S) = CHOOSE v \in S : IsTop(v, S)
    BY <1>1, Zenon DEF Latest
  <2>2. (CHOOSE v \in S : IsTop(v, S)) \in S
    BY <1>1, Zenon
  <2>3. Latest(S) \in S
    BY <2>1, <2>2, Zenon
  <2>4. Latest(S) \in 1..n
    BY <2>3, Zenon
  <2>. QED BY <2>4
<1>2. CASE ~ \E v \in S : IsTop(v, S)
  <2>1. Latest(S) = 0
    BY <1>2, Zenon DEF Latest
  <2>. QED BY <2>1
<1>. QED BY <1>1, <1>2

LEMMA LastSuccessType ==
  ASSUME records \in [Dep -> Record]
  PROVE  LastSuccess \in Pair
<1>1. CASE \E d \in Dep : IsLastSuccess(d)
  <2>1. (CHOOSE d \in Dep : IsLastSuccess(d)) \in Dep
    BY <1>1
  <2>. QED BY <1>1, <2>1 DEF LastSuccess, Record
<1>2. CASE ~ \E d \in Dep : IsLastSuccess(d)
  BY <1>2, DeployAssumption DEF LastSuccess, NoPair, Pair
<1>. QED BY <1>1, <1>2

LEMMA RestoreTargetType ==
  ASSUME TypeOK, NEW d \in Dep
  PROVE  RestoreTarget(d) \in Pair
BY DeployAssumption DEF TypeOK, Job, Pair, RestoreTarget

-----------------------------------------------------------------------------
(* Type correctness *)

LEMMA ConstantTypes ==
  /\ NoPair \in Pair /\ NoRecord \in Record
  /\ Unused \in Job /\ Over \in Job
  /\ [Over EXCEPT !.reason = "busy"] \in Job
<1>1. NoPair \in Pair
  BY DeployAssumption DEF NoPair, Pair
<1>2. NoRecord \in Record
  BY <1>1 DEF NoRecord, Record
<1>3. Unused \in Job
  BY <1>1, <1>2 DEF Unused, Job
<1>. QED BY <1>1, <1>2, <1>3 DEF Over, Job

\* A goroutine that takes a state of its type leaves job in its type.
LEMMA BecomeType ==
  ASSUME job \in [Dep -> Job], NEW d \in Dep, NEW j \in Job, Become(d, j)
  PROVE  job' \in [Dep -> Job]
BY DEF Become

LEMMA GotoType ==
  ASSUME job \in [Dep -> Job], NEW d \in Dep,
         NEW p \in Critical \cup {"return"}, Goto(d, p)
  PROVE  job' \in [Dep -> Job]
<1>1. [job[d] EXCEPT !.pc = p] \in Job
  BY DEF Job
<1>. QED BY <1>1, BecomeType DEF Goto

\* The updates of several locals at once.
LEMMA ResolvedType ==
  ASSUME NEW j \in Job, NEW r \in Record, NEW keep \in Pair
  PROVE  [j EXCEPT !.pc = "record", !.rec = r, !.asked = NoPair, !.prev = keep]
           \in Job
<1>1. "record" \in Critical
  BY DEF Critical
<1>2. NoPair \in Pair
  BY ConstantTypes
<1>. QED BY <1>1, <1>2 DEF Job

LEMMA RestoringType ==
  ASSUME NEW j \in Job, NEW t \in Pair
  PROVE  [j EXCEPT !.pc = "compose", !.phase = "restore", !.target = t] \in Job
<1>1. "compose" \in Critical
  BY DEF Critical
<1>. QED BY <1>1 DEF Job

LEMMA SettlingType ==
  ASSUME NEW j \in Job
  PROVE  [j EXCEPT !.pc = "settle"] \in Job
<1>1. "settle" \in Critical
  BY DEF Critical
<1>. QED BY <1>1 DEF Job

LEMMA FailsType ==
  ASSUME job \in [Dep -> Job], NEW d \in Dep,
         NEW why \in {"error", "canceled", "deadline", "killed"}, Fails(d, why)
  PROVE  job' \in [Dep -> Job]
<1>0. job[d] \in Job /\ {"failing", "settle"} \subseteq Critical
  BY DEF Critical
<1>1. [job[d] EXCEPT !.pc = "failing", !.reason = why] \in Job
  BY <1>0 DEF Job
<1>2. [job[d] EXCEPT !.pc = "settle"] \in Job
  BY <1>0 DEF Job
<1>. QED BY <1>1, <1>2, BecomeType DEF Fails

LEMMA ErrorSets ==
  ASSUME NEW d \in Dep
  PROVE  /\ CommandErrors(d) \subseteq {"error", "canceled", "deadline", "killed"}
         /\ HealthErrors(d) \subseteq {"error", "canceled", "deadline", "killed"}
BY DEF CommandErrors, HealthErrors, CtxErr

LEMMA EngineStepType ==
  ASSUME TypeOK, NEW d \in Dep, EngineStep(d)
  PROVE  TypeOK'
<1>. DEFINE j == job[d]
<1>0. /\ job \in [Dep -> Job] /\ j \in Job
      /\ records \in [Dep -> Record] /\ disk \in Pair /\ clock \in Nat
  BY DEF TypeOK
<1>. USE DEF dbVars, versionVars, hostVars
<1>1. CASE Acquire(d)
  <2>1. job' \in [Dep -> Job]
    BY <1>0, <1>1, GotoType DEF Acquire, Critical
  <2>. QED BY <1>1, <2>1 DEF Acquire, TypeOK
<1>2. CASE Refused(d)
  <2>1. job' \in [Dep -> Job]
    BY <1>0, <1>2, ConstantTypes, BecomeType DEF Refused
  <2>. QED BY <1>2, <2>1 DEF Refused, TypeOK
<1>3. CASE Resolve(d)
  <2>2. /\ Latest(composes) \in 0..MaxCompose
        /\ Latest(envs) \in 0..MaxEnv
    BY LatestType, DeployAssumption DEF TypeOK
  <2>3. j.asked \in Pair
    BY <1>0 DEF Job
  <2>4. [compose |-> IF j.asked.compose = 0 THEN Latest(composes)
                                            ELSE j.asked.compose,
         env     |-> IF j.asked.env = 0 THEN Latest(envs) ELSE j.asked.env]
          \in Pair
    BY <2>2, <2>3 DEF Pair
  <2>. DEFINE ver == [compose |-> IF j.asked.compose = 0 THEN Latest(composes)
                                                        ELSE j.asked.compose,
                      env |-> IF j.asked.env = 0 THEN Latest(envs)
                                                 ELSE j.asked.env]
              rec == [NoRecord EXCEPT !.status = "running", !.ver = ver]
  <2>5. rec \in Record
    <3>1. ver \in Pair
      BY <2>4
    <3>. HIDE DEF ver
    <3>. QED BY <3>1, ConstantTypes DEF Record
  <2>6. job' \in [Dep -> Job]
    <3>1. CASE \E keep \in {LastSuccess, NoPair} :
                 Become(d, [j EXCEPT !.pc = "record", !.rec = rec,
                                     !.asked = NoPair, !.prev = keep])
      <4>1. PICK keep \in {LastSuccess, NoPair} :
                 Become(d, [j EXCEPT !.pc = "record", !.rec = rec,
                                     !.asked = NoPair, !.prev = keep])
        BY <3>1
      <4>2. keep \in Pair
        BY <1>0, LastSuccessType, ConstantTypes
      <4>. HIDE DEF rec
      <4>3. [j EXCEPT !.pc = "record", !.rec = rec,
                      !.asked = NoPair, !.prev = keep] \in Job
        BY <1>0, <2>5, <4>2, ResolvedType, Zenon
      <4>. QED BY <1>0, <4>1, <4>3, BecomeType, Zenon
    <3>2. CASE GiveUp(d)
      BY <1>0, <3>2, ConstantTypes, BecomeType DEF GiveUp
    <3>. QED BY <1>3, <3>1, <3>2 DEF Resolve
  <2>. QED BY <1>3, <2>6 DEF Resolve, GiveUp, TypeOK
<1>4. CASE SaveRunning(d)
  <2>. DEFINE rec == [j.rec EXCEPT !.at = clock + 1]
  <2>1. rec \in Record /\ rec.ver \in Pair
    BY <1>0 DEF Job, Record
  <2>2. [j EXCEPT !.pc = "compose", !.rec = rec, !.target = rec.ver] \in Job
    BY <1>0, <2>1 DEF Job, Critical
  <2>3. job' \in [Dep -> Job]
    BY <1>0, <1>4, <2>2, ConstantTypes, BecomeType DEF SaveRunning, GiveUp
  <2>4. records' \in [Dep -> Record]
    BY <1>0, <1>4, <2>1 DEF SaveRunning
  <2>. QED BY <1>4, <2>3, <2>4 DEF SaveRunning, GiveUp, TypeOK
<1>5. CASE WriteCompose(d)
  <2>1. disk' \in Pair
    BY <1>0, <1>5 DEF WriteCompose, Job, Pair
  <2>2. job' \in [Dep -> Job]
    BY <1>0, <1>5, FailsType, GotoType DEF WriteCompose, Critical
  <2>. QED BY <1>5, <2>1, <2>2 DEF WriteCompose, TypeOK
<1>6. CASE WriteEnv(d)
  <2>1. disk' \in Pair
    BY <1>0, <1>6 DEF WriteEnv, Job, Pair
  <2>2. job' \in [Dep -> Job]
    BY <1>0, <1>6, FailsType, GotoType DEF WriteEnv, Critical
  <2>. QED BY <1>6, <2>1, <2>2 DEF WriteEnv, TypeOK
<1>7. CASE PreHook(d)
  <2>1. job' \in [Dep -> Job]
    BY <1>0, <1>7, FailsType, GotoType, ErrorSets DEF PreHook, Critical
  <2>. QED BY <1>7, <2>1 DEF PreHook, TypeOK
<1>8. CASE ComposeUp(d)
  <2>1. stack' \in Stack
    BY <1>0, <1>8 DEF ComposeUp, Stack, TypeOK
  <2>2. job' \in [Dep -> Job]
    BY <1>0, <1>8, FailsType, GotoType, ErrorSets DEF ComposeUp, Critical
  <2>. QED BY <1>8, <2>1, <2>2 DEF ComposeUp, TypeOK
<1>9. CASE WaitHealthy(d)
  <2>1. [j EXCEPT !.pc = "settle", !.rec = [@ EXCEPT !.rolledBackTo = j.prev]]
          \in Job
    BY <1>0 DEF Job, Critical, Record
  <2>2. job' \in [Dep -> Job]
    BY <1>0, <1>9, <2>1, FailsType, GotoType, BecomeType, ErrorSets
    DEF WaitHealthy, Critical
  <2>. QED BY <1>9, <2>2 DEF WaitHealthy, TypeOK
<1>10. CASE PostHook(d)
  <2>1. [j EXCEPT !.pc = "settle", !.rec = [@ EXCEPT !.status = "success"]] \in Job
    BY <1>0 DEF Job, Critical, Record, Settled
  <2>2. job' \in [Dep -> Job]
    BY <1>0, <1>10, <2>1, FailsType, BecomeType, ErrorSets DEF PostHook
  <2>. QED BY <1>10, <2>2 DEF PostHook, TypeOK
<1>11. CASE BeginFail(d)
  <2>. DEFINE status == IF j.reason = "canceled" THEN "cancelled" ELSE "failed"
              failed == [j EXCEPT !.rec = [@ EXCEPT !.status = status],
                                  !.reason = "none"]
  <2>1. failed \in Job
    BY <1>0 DEF Job, Record, Settled
  <2>. HIDE DEF failed
  <2>2. job' \in [Dep -> Job]
    <3>1. CASE Become(d, [failed EXCEPT !.pc = "compose", !.phase = "restore",
                                        !.target = RestoreTarget(d)])
      <4>1. RestoreTarget(d) \in Pair
        BY RestoreTargetType
      <4>2. [failed EXCEPT !.pc = "compose", !.phase = "restore",
                           !.target = RestoreTarget(d)] \in Job
        BY <2>1, <4>1, RestoringType, Zenon
      <4>. QED BY <1>0, <3>1, <4>2, BecomeType, Zenon
    <3>2. CASE Become(d, [failed EXCEPT !.pc = "settle"])
      <4>1. [failed EXCEPT !.pc = "settle"] \in Job
        BY <2>1, SettlingType, Zenon
      <4>. QED BY <1>0, <3>2, <4>1, BecomeType, Zenon
    <3>. QED BY <1>11, <3>1, <3>2 DEF BeginFail, failed
  <2>. QED BY <1>11, <2>2 DEF BeginFail, TypeOK
<1>12. CASE SaveOutcome(d)
  <2>1. records' \in [Dep -> Record]
    BY <1>0, <1>12 DEF SaveOutcome, SaveRecord, Job
  <2>2. job' \in [Dep -> Job]
    BY <1>0, <1>12, GotoType DEF SaveOutcome, Critical
  <2>. QED BY <1>12, <2>1, <2>2 DEF SaveOutcome, TypeOK
<1>13. CASE Finish(d)
  <2>1. job' \in [Dep -> Job]
    BY <1>0, <1>13, GotoType DEF Finish
  <2>. QED BY <1>13, <2>1 DEF Finish, TypeOK, ProjectStatus
<1>14. CASE Return(d)
  <2>1. records' \in [Dep -> Record]
    BY <1>0, <1>14 DEF Return, SaveRecord, Marked, Job
  <2>2. job' \in [Dep -> Job]
    BY <1>0, <1>14, ConstantTypes, BecomeType DEF Return
  <2>. QED BY <1>14, <2>1, <2>2 DEF Return, TypeOK
<1>. QED BY <1>1, <1>2, <1>3, <1>4, <1>5, <1>6, <1>7, <1>8, <1>9, <1>10,
            <1>11, <1>12, <1>13, <1>14 DEF EngineStep

LEMMA InitType == Init => TypeOK
BY DeployAssumption, ConstantTypes
DEF Init, TypeOK, ProjectStatus, Pair, NoPair, Stack

\* The handlers that start and cancel attempts.
LEMMA SpawnType ==
  ASSUME TypeOK, NEW d \in Dep, NEW ver \in Pair,
         NEW from \in {"trigger", "rollback", "restore", "schedule"},
         Spawn(d, from, ver)
  PROVE  TypeOK'
<1>1. [Unused EXCEPT !.pc = "spawned", !.origin = from, !.asked = ver] \in Job
  <2>1. Unused \in Job
    BY ConstantTypes
  <2>. QED BY <2>1 DEF Job
<1>2. job' \in [Dep -> Job]
  <2>1. Become(d, [Unused EXCEPT !.pc = "spawned", !.origin = from, !.asked = ver])
    BY DEF Spawn
  <2>. QED BY <1>1, <2>1, BecomeType DEF TypeOK
<1>. QED BY <1>2 DEF Spawn, TypeOK, dbVars, versionVars, hostVars

LEMMA RequestsType ==
  ASSUME TypeOK, NEW d \in Dep, Requests(d) \/ ContextExpires(d)
  PROVE  TypeOK'
<1>0. job \in [Dep -> Job] /\ job[d] \in Job
  BY DEF TypeOK
<1>1. CASE \E ver \in Pair : TriggerDeploy(d, ver) \/ RollbackToVersions(d, ver)
  BY <1>1, SpawnType DEF TriggerDeploy, RollbackToVersions
<1>2. CASE \E src \in Dep : RollbackToDeployment(d, src)
  <2>1. PICK src \in Dep : RollbackToDeployment(d, src)
    BY <1>2
  <2>2. records[src].ver \in Pair
    BY DEF TypeOK, Record
  <2>. QED BY <2>1, <2>2, SpawnType DEF RollbackToDeployment
<1>3. CASE CancelDeploy(d)
  <2>1. [job[d] EXCEPT !.ctx = "cancelled"] \in Job
    BY <1>0 DEF Job
  <2>2. job' \in [Dep -> Job]
    BY <1>0, <1>3, <2>1, BecomeType DEF CancelDeploy
  <2>. QED BY <1>3, <2>2 DEF CancelDeploy, TypeOK, dbVars, versionVars, hostVars
<1>4. CASE ContextExpires(d)
  <2>1. [job[d] EXCEPT !.ctx = "expired"] \in Job
    BY <1>0 DEF Job
  <2>2. job' \in [Dep -> Job]
    BY <1>0, <1>4, <2>1, BecomeType DEF ContextExpires
  <2>. QED BY <1>4, <2>2
           DEF ContextExpires, TypeOK, dbVars, versionVars, hostVars
<1>. QED BY <1>1, <1>2, <1>3, <1>4 DEF Requests

LEMMA EditsType ==
  ASSUME TypeOK, Edits
  PROVE  TypeOK'
<1>. USE DEF dbVars, versionVars, hostVars
<1>0. /\ Latest(composes) \in 0..MaxCompose
      /\ Latest(envs) \in 0..MaxEnv
      /\ composes \subseteq 1..MaxCompose /\ envs \subseteq 1..MaxEnv
  BY LatestType, DeployAssumption DEF TypeOK
<1>1. CASE SaveCompose
  <2>1. Latest(composes) + 1 \in 1..MaxCompose
    BY <1>0, <1>1, DeployAssumption DEF SaveCompose
  <2>. QED BY <1>0, <1>1, <2>1 DEF SaveCompose, TypeOK
<1>2. CASE SaveEnv
  <2>1. Latest(envs) + 1 \in 1..MaxEnv
    BY <1>0, <1>2, DeployAssumption DEF SaveEnv
  <2>. QED BY <1>0, <1>2, <2>1 DEF SaveEnv, TypeOK
<1>3. CASE DeleteProject
  BY <1>3 DEF DeleteProject, TypeOK, ProjectStatus
<1>4. CASE \E v \in 1..MaxCompose : DeleteComposeVersion(v)
  BY <1>0, <1>4 DEF DeleteComposeVersion, TypeOK
<1>5. CASE \E v \in 1..MaxEnv : DeleteEnvVersion(v)
  BY <1>0, <1>5 DEF DeleteEnvVersion, TypeOK
<1>6. CASE \E d \in Dep : DeleteDeployment(d)
  BY <1>6, ConstantTypes DEF DeleteDeployment, TypeOK
<1>7. CASE \E n \in 1..clock : PruneDeployments(n)
  BY <1>7, ConstantTypes DEF PruneDeployments, TypeOK
<1>. QED BY <1>1, <1>2, <1>3, <1>4, <1>5, <1>6, <1>7 DEF Edits

LEMMA EnvironmentType ==
  ASSUME TypeOK, ContainersChange \/ Crash
  PROVE  TypeOK'
<1>. USE DEF dbVars, versionVars, hostVars
<1>1. CASE ContainersChange
  BY <1>1 DEF ContainersChange, TypeOK, Stack
<1>2. CASE Crash
  <2>1. job' \in [Dep -> Job]
    BY <1>2, ConstantTypes DEF Crash
  <2>2. stack' \in Stack
    BY <1>2 DEF Crash, TypeOK, Stack
  <2>3. crashes' \in 0..MaxCrash
    BY <1>2, DeployAssumption DEF Crash, TypeOK
  <2>. QED BY <1>2, <2>1, <2>2, <2>3 DEF Crash, TypeOK
<1>. QED BY <1>1, <1>2

LEMMA NextType ==
  ASSUME TypeOK, [Next]_vars
  PROVE  TypeOK'
<1>1. CASE \E d \in Dep : EngineStep(d)
  BY <1>1, EngineStepType
<1>2. CASE \E d \in Dep : Requests(d) \/ ContextExpires(d)
  BY <1>2, RequestsType
<1>3. CASE Edits
  BY <1>3, EditsType
<1>4. CASE ContainersChange \/ Crash
  BY <1>4, EnvironmentType
<1>5. CASE UNCHANGED vars
  BY <1>5 DEF vars, TypeOK
<1>. QED BY <1>1, <1>2, <1>3, <1>4, <1>5 DEF Next, EngineNext

\* Every state the engine, the handlers and the environment can reach keeps
\* its types.
THEOREM TypeCorrect == Spec => []TypeOK
<1>1. Init => TypeOK
  BY InitType
<1>2. TypeOK /\ [Next]_vars => TypeOK'
  BY NextType
<1>. QED BY <1>1, <1>2, PTL DEF Spec

-----------------------------------------------------------------------------
(* The inductive invariant *)

\* What a goroutine's own copy of its record says at its control point.
GoroutineOK(j) ==
  /\ j.pc \in {"spawned", "resolve"} => j.phase = "deploy"
  /\ j.pc = "record" => j.rec.status = "running"
  /\ j.pc \in {"settle", "finish", "return"} \/ j.phase = "restore"
       => j.rec.status \in Settled

\* A settled record belongs to an attempt with nothing left to say about it.
SettledOwner ==
  \A d \in Dep :
    records[d].status \in Settled =>
      \/ job[d].pc = "over"
      \/ job[d].pc \in {"finish", "return"} /\ records[d] = job[d].rec

IInv ==
  /\ TypeOK
  /\ LockHeldByOne
  /\ \A d \in Dep : GoroutineOK(job[d])
  /\ SettledOwner

\* Where the attempt that holds the lock has a running record.
Owning == Critical \ {"resolve", "record", "finish"}

Alive(d) == job[d].pc \notin {"unused", "over"}

\* While any attempt is alive, a running record is that of the lock's owner.
\* After a crash no attempt is alive and a running record has no owner.
LiveOwnsRunning ==
  (\E d \in Dep : Alive(d)) =>
    \A e \in Dep : records[e].status = "running" =>
                    lock = e /\ job[e].pc \in Owning

RunningInv == AtMostOneRunning /\ LiveOwnsRunning

-----------------------------------------------------------------------------
(* What a step of DeployVersion does, seen from the lock and the records *)

Take(d) ==
  /\ job[d].pc = "spawned" /\ job'[d].pc = "resolve"
  /\ lock = Free /\ lock' = d
  /\ UNCHANGED records

Leave(d) ==
  /\ job[d].pc \in {"spawned", "return"} /\ job'[d].pc = "over"
  /\ UNCHANGED lock
  /\ \/ UNCHANGED records
     \/ /\ job[d].pc = "return"
        /\ records' = [records EXCEPT ![d] = job[d].rec]

Work(d) ==
  /\ {job[d].pc, job'[d].pc} \subseteq Critical \ {"finish"}
  /\ job[d].pc # "settle"
  /\ job[d].pc \in Owning <=> job'[d].pc \in Owning
  /\ UNCHANGED <<lock, records>>

Start(d) ==
  /\ job[d].pc = "record" /\ job'[d].pc = "compose"
  /\ UNCHANGED lock
  /\ job'[d].rec.status = "running"
  /\ records' = [records EXCEPT ![d] = job'[d].rec]

Settle(d) ==
  /\ job[d].pc = "settle" /\ job'[d].pc = "finish"
  /\ job'[d].rec = job[d].rec
  /\ UNCHANGED lock
  /\ \/ records' = [records EXCEPT ![d] = job[d].rec]
     \/ StoreMayFail /\ UNCHANGED records

Release(d) ==
  /\ \/ job[d].pc \in {"resolve", "record"} /\ job'[d].pc = "over"
     \/ /\ job[d].pc = "finish" /\ job'[d].pc = "return"
        /\ job'[d].rec = job[d].rec
  /\ lock' = Free
  /\ UNCHANGED records

LEMMA BecomeEffect ==
  ASSUME job \in [Dep -> Job], NEW d \in Dep, NEW j, Become(d, j)
  PROVE  /\ job'[d] = j
         /\ \A e \in Dep : e # d => job'[e] = job[e]
BY DEF Become

LEMMA GotoEffect ==
  ASSUME job \in [Dep -> Job], NEW d \in Dep, NEW p, Goto(d, p)
  PROVE  /\ job'[d].pc = p
         /\ job'[d].rec = job[d].rec /\ job'[d].phase = job[d].phase
         /\ \A e \in Dep : e # d => job'[e] = job[e]
<1>1. /\ job'[d] = [job[d] EXCEPT !.pc = p]
      /\ \A e \in Dep : e # d => job'[e] = job[e]
  BY BecomeEffect DEF Goto
<1>2. job[d] \in Job
  OBVIOUS
<1>. QED BY <1>1, <1>2 DEF Job

LEMMA FailsEffect ==
  ASSUME job \in [Dep -> Job], NEW d \in Dep, NEW why, Fails(d, why)
  PROVE  /\ \/ job[d].phase = "deploy" /\ job'[d].pc = "failing"
            \/ job[d].phase = "restore" /\ job'[d].pc = "settle"
         /\ job'[d].rec = job[d].rec /\ job'[d].phase = job[d].phase
         /\ \A e \in Dep : e # d => job'[e] = job[e]
<1>1. job[d] \in Job
  OBVIOUS
<1>2. /\ job'[d] = IF job[d].phase = "deploy"
                   THEN [job[d] EXCEPT !.pc = "failing", !.reason = why]
                   ELSE [job[d] EXCEPT !.pc = "settle"]
      /\ \A e \in Dep : e # d => job'[e] = job[e]
  BY BecomeEffect DEF Fails
<1>. QED BY <1>1, <1>2 DEF Job

LEMMA OverEffect ==
  ASSUME job \in [Dep -> Job], NEW d \in Dep,
         Become(d, Over) \/ Become(d, [Over EXCEPT !.reason = "busy"])
  PROVE  /\ job'[d].pc = "over" /\ job'[d].phase = "deploy"
         /\ \A e \in Dep : e # d => job'[e] = job[e]
<1>1. /\ job'[d] \in {Over, [Over EXCEPT !.reason = "busy"]}
      /\ \A e \in Dep : e # d => job'[e] = job[e]
  BY BecomeEffect
<1>. QED BY <1>1 DEF Over, Unused

LEMMA EngineStepShape ==
  ASSUME TypeOK, NEW d \in Dep, GoroutineOK(job[d]), EngineStep(d)
  PROVE  /\ \A e \in Dep : e # d => job'[e] = job[e]
         /\ GoroutineOK(job'[d])
         /\ \/ Take(d)  \/ Leave(d)  \/ Work(d)
            \/ Start(d) \/ Settle(d) \/ Release(d)
<1>. DEFINE others == \A e \in Dep : e # d => job'[e] = job[e]
            fresh  == GoroutineOK(job'[d])
<1>0. /\ job \in [Dep -> Job] /\ job[d] \in Job
      /\ job[d].phase \in {"deploy", "restore"}
  BY DEF TypeOK, Job
<1>. USE DEF dbVars, versionVars, hostVars
<1>1. CASE Acquire(d)
  <2>1. /\ job'[d].pc = "resolve" /\ others
        /\ job'[d].rec = job[d].rec /\ job'[d].phase = job[d].phase
    BY <1>0, <1>1, GotoEffect DEF Acquire
  <2>. QED BY <1>1, <2>1 DEF Acquire, Take, GoroutineOK
<1>2. CASE Refused(d)
  <2>1. job'[d].pc = "over" /\ job'[d].phase = "deploy" /\ others
    BY <1>0, <1>2, OverEffect DEF Refused
  <2>. QED BY <1>2, <2>1 DEF Refused, Leave, GoroutineOK
<1>3. CASE Resolve(d)
  <2>1. CASE GiveUp(d)
    <3>1. job'[d].pc = "over" /\ job'[d].phase = "deploy" /\ others
      BY <1>0, <2>1, OverEffect DEF GiveUp
    <3>. QED BY <1>3, <2>1, <3>1 DEF Resolve, GiveUp, Release, GoroutineOK
  <2>2. CASE ~GiveUp(d)
    <3>. DEFINE ver == [compose |-> IF job[d].asked.compose = 0
                                    THEN Latest(composes)
                                    ELSE job[d].asked.compose,
                        env     |-> IF job[d].asked.env = 0
                                    THEN Latest(envs) ELSE job[d].asked.env]
    <3>0. UNCHANGED <<lock, records>>
      BY <1>3, <2>2 DEF Resolve
    <3>1. PICK keep \in {LastSuccess, NoPair} :
            Become(d, [job[d] EXCEPT
                 !.pc = "record",
                 !.rec = [NoRecord EXCEPT !.status = "running", !.ver = ver],
                 !.asked = NoPair,
                 !.prev = keep])
      BY <1>3, <2>2, Zenon DEF Resolve
    <3>. HIDE DEF ver
    <3>2. /\ job'[d] = [job[d] EXCEPT
                 !.pc = "record",
                 !.rec = [NoRecord EXCEPT !.status = "running", !.ver = ver],
                 !.asked = NoPair,
                 !.prev = keep]
          /\ others
      BY <1>0, <3>1, BecomeEffect, Zenon
    <3>3. /\ job'[d].pc = "record" /\ job'[d].rec.status = "running"
          /\ job'[d].phase = job[d].phase
      BY <1>0, <3>2 DEF Job, NoRecord
    <3>4. job[d].pc = "resolve" /\ job[d].phase = "deploy"
      BY <1>3 DEF Resolve, GoroutineOK
    <3>5. Work(d)
      BY <3>0, <3>3, <3>4 DEF Work, Critical, Owning
    <3>6. fresh
      BY <3>3, <3>4 DEF GoroutineOK
    <3>. QED BY <3>2, <3>5, <3>6
  <2>. QED BY <2>1, <2>2
<1>4. CASE SaveRunning(d)
  <2>1. CASE GiveUp(d) /\ UNCHANGED records
    <3>1. job'[d].pc = "over" /\ job'[d].phase = "deploy" /\ others
      BY <1>0, <2>1, OverEffect DEF GiveUp
    <3>2. Release(d)
      BY <1>4, <2>1, <3>1 DEF SaveRunning, GiveUp, Release
    <3>. QED BY <3>1, <3>2 DEF GoroutineOK
  <2>2. CASE ~(GiveUp(d) /\ UNCHANGED records)
    <3>. DEFINE rec == [job[d].rec EXCEPT !.at = clock + 1]
    <3>1. rec.status = "running"
      BY <1>0, <1>4 DEF SaveRunning, GoroutineOK, Job, Record
    <3>2. /\ job[d].pc = "record"
          /\ records' = [records EXCEPT ![d] = rec]
          /\ Become(d, [job[d] EXCEPT !.pc = "compose", !.rec = rec,
                                      !.target = rec.ver])
          /\ UNCHANGED lock
      BY <1>4, <2>2 DEF SaveRunning
    <3>. HIDE DEF rec
    <3>3. /\ job'[d] = [job[d] EXCEPT !.pc = "compose", !.rec = rec,
                                      !.target = rec.ver]
          /\ others
      BY <1>0, <3>2, BecomeEffect, Zenon
    <3>4. /\ job'[d].pc = "compose" /\ job'[d].rec = rec
          /\ job'[d].phase = job[d].phase
      BY <1>0, <3>3 DEF Job
    <3>5. job[d].phase = "deploy"
      BY <1>0, <3>2 DEF GoroutineOK, Settled
    <3>. QED BY <3>1, <3>2, <3>3, <3>4, <3>5 DEF Start, GoroutineOK
  <2>. QED BY <2>1, <2>2
<1>5. CASE WriteCompose(d)
  <2>1. CASE Goto(d, "env")
    <3>1. /\ job'[d].pc = "env" /\ others
          /\ job'[d].rec = job[d].rec /\ job'[d].phase = job[d].phase
      BY <1>0, <2>1, GotoEffect
    <3>. QED BY <1>5, <3>1 DEF WriteCompose, Work, Critical, Owning, GoroutineOK
  <2>2. CASE Fails(d, "error")
    BY <1>0, <1>5, <2>2, FailsEffect
    DEF WriteCompose, Work, Critical, Owning, GoroutineOK
  <2>. QED BY <1>5, <2>1, <2>2 DEF WriteCompose
<1>6. CASE WriteEnv(d)
  <2>1. CASE \E p \in {"prehook", "up"} : Goto(d, p)
    <3>1. /\ job'[d].pc \in {"prehook", "up"} /\ others
          /\ job'[d].rec = job[d].rec /\ job'[d].phase = job[d].phase
      BY <1>0, <2>1, GotoEffect
    <3>. QED BY <1>6, <3>1 DEF WriteEnv, Work, Critical, Owning, GoroutineOK
  <2>2. CASE Fails(d, "error")
    BY <1>0, <1>6, <2>2, FailsEffect
    DEF WriteEnv, Work, Critical, Owning, GoroutineOK
  <2>. QED BY <1>6, <2>1, <2>2 DEF WriteEnv
<1>7. CASE PreHook(d)
  <2>1. CASE Goto(d, "up")
    <3>1. /\ job'[d].pc = "up" /\ others
          /\ job'[d].rec = job[d].rec /\ job'[d].phase = job[d].phase
      BY <1>0, <2>1, GotoEffect
    <3>. QED BY <1>7, <3>1 DEF PreHook, Work, Critical, Owning, GoroutineOK
  <2>2. CASE \E why \in CommandErrors(d) : Fails(d, why)
    BY <1>0, <1>7, <2>2, FailsEffect
    DEF PreHook, Work, Critical, Owning, GoroutineOK
  <2>. QED BY <1>7, <2>1, <2>2 DEF PreHook
<1>8. CASE ComposeUp(d)
  <2>1. CASE Goto(d, "health")
    <3>1. /\ job'[d].pc = "health" /\ others
          /\ job'[d].rec = job[d].rec /\ job'[d].phase = job[d].phase
      BY <1>0, <2>1, GotoEffect
    <3>. QED BY <1>8, <3>1 DEF ComposeUp, Work, Critical, Owning, GoroutineOK
  <2>2. CASE \E why \in CommandErrors(d) : Fails(d, why)
    BY <1>0, <1>8, <2>2, FailsEffect
    DEF ComposeUp, Work, Critical, Owning, GoroutineOK
  <2>. QED BY <1>8, <2>1, <2>2 DEF ComposeUp
<1>9. CASE WaitHealthy(d)
  <2>1. CASE Goto(d, "posthook") /\ job[d].phase = "deploy"
    <3>1. /\ job'[d].pc = "posthook" /\ others
          /\ job'[d].rec = job[d].rec /\ job'[d].phase = job[d].phase
      BY <1>0, <2>1, GotoEffect
    <3>. QED BY <1>9, <3>1 DEF WaitHealthy, Work, Critical, Owning, GoroutineOK
  <2>2. CASE /\ job[d].phase # "deploy"
             /\ Become(d, [job[d] EXCEPT !.pc = "settle",
                             !.rec = [@ EXCEPT !.rolledBackTo = job[d].prev]])
    <3>1. /\ job'[d] = [job[d] EXCEPT !.pc = "settle",
                             !.rec = [@ EXCEPT !.rolledBackTo = job[d].prev]]
          /\ others
      BY <1>0, <2>2, BecomeEffect
    <3>2. /\ job'[d].pc = "settle" /\ job'[d].phase = job[d].phase
          /\ job'[d].rec.status = job[d].rec.status
      BY <1>0, <3>1 DEF Job, Record
    <3>. QED BY <1>0, <1>9, <2>2, <3>1, <3>2
             DEF WaitHealthy, Work, Critical, Owning, GoroutineOK
  <2>3. CASE \E why \in HealthErrors(d) : Fails(d, why)
    BY <1>0, <1>9, <2>3, FailsEffect
    DEF WaitHealthy, Work, Critical, Owning, GoroutineOK
  <2>. QED BY <1>9, <2>1, <2>2, <2>3 DEF WaitHealthy
<1>10. CASE PostHook(d)
  <2>1. CASE Become(d, [job[d] EXCEPT !.pc = "settle",
                                      !.rec = [@ EXCEPT !.status = "success"]])
    <3>1. /\ job'[d] = [job[d] EXCEPT !.pc = "settle",
                                      !.rec = [@ EXCEPT !.status = "success"]]
          /\ others
      BY <1>0, <2>1, BecomeEffect
    <3>2. /\ job'[d].pc = "settle" /\ job'[d].phase = job[d].phase
          /\ job'[d].rec.status = "success"
      BY <1>0, <3>1 DEF Job, Record
    <3>. QED BY <1>10, <3>1, <3>2
             DEF PostHook, Work, Critical, Owning, GoroutineOK, Settled
  <2>2. CASE \E why \in CommandErrors(d) : Fails(d, why)
    BY <1>0, <1>10, <2>2, FailsEffect
    DEF PostHook, Work, Critical, Owning, GoroutineOK
  <2>. QED BY <1>10, <2>1, <2>2 DEF PostHook
<1>11. CASE BeginFail(d)
  <2>. DEFINE status == IF job[d].reason = "canceled" THEN "cancelled" ELSE "failed"
              failed == [job[d] EXCEPT !.rec = [@ EXCEPT !.status = status],
                                       !.reason = "none"]
  <2>1. /\ failed \in Job
        /\ failed.rec.status \in {"cancelled", "failed"}
    BY <1>0 DEF Job, Record, Settled
  <2>2. job[d].pc = "failing" /\ UNCHANGED <<lock, records>>
    BY <1>11 DEF BeginFail
  <2>3. \/ Become(d, [failed EXCEPT !.pc = "compose", !.phase = "restore",
                                    !.target = RestoreTarget(d)])
        \/ Become(d, [failed EXCEPT !.pc = "settle"])
    BY <1>11, Zenon DEF BeginFail
  <2>. HIDE DEF failed
  <2>4. /\ job'[d] \in {[failed EXCEPT !.pc = "compose", !.phase = "restore",
                                       !.target = RestoreTarget(d)],
                         [failed EXCEPT !.pc = "settle"]}
        /\ others
    BY <1>0, <2>3, BecomeEffect
  <2>5. /\ job'[d].pc \in {"compose", "settle"}
        /\ job'[d].rec.status \in {"cancelled", "failed"}
    BY <1>0, <2>1, <2>4 DEF Job
  <2>. QED BY <2>2, <2>4, <2>5 DEF Work, Critical, Owning, GoroutineOK, Settled
<1>12. CASE SaveOutcome(d)
  <2>1. /\ job'[d].pc = "finish" /\ others
        /\ job'[d].rec = job[d].rec /\ job'[d].phase = job[d].phase
    BY <1>0, <1>12, GotoEffect DEF SaveOutcome
  <2>. QED BY <1>12, <2>1 DEF SaveOutcome, SaveRecord, Settle, GoroutineOK
<1>13. CASE Finish(d)
  <2>1. /\ job'[d].pc = "return" /\ others
        /\ job'[d].rec = job[d].rec /\ job'[d].phase = job[d].phase
    BY <1>0, <1>13, GotoEffect DEF Finish
  <2>. QED BY <1>13, <2>1 DEF Finish, Release, GoroutineOK
<1>14. CASE Return(d)
  <2>1. job'[d].pc = "over" /\ job'[d].phase = "deploy" /\ others
    BY <1>0, <1>14, OverEffect DEF Return
  <2>. QED BY <1>14, <2>1 DEF Return, SaveRecord, Marked, Leave, GoroutineOK
<1>. QED BY <1>1, <1>2, <1>3, <1>4, <1>5, <1>6, <1>7, <1>8, <1>9, <1>10,
            <1>11, <1>12, <1>13, <1>14 DEF EngineStep

\* What a handler or the environment does to an attempt: it starts it, marks
\* its context done, or leaves it alone.
LEMMA RequestShape ==
  ASSUME TypeOK, NEW d \in Dep, GoroutineOK(job[d]),
         Requests(d) \/ ContextExpires(d)
  PROVE  /\ \A e \in Dep : e # d => job'[e] = job[e]
         /\ GoroutineOK(job'[d])
         /\ job'[d].rec = job[d].rec \/ job[d].pc = "unused"
         /\ \/ job[d].pc = "unused" /\ job'[d].pc = "spawned" /\ NoneRunning
            \/ job'[d].pc = job[d].pc /\ Alive(d)
         /\ UNCHANGED <<lock, records>>
<1>. DEFINE others == \A e \in Dep : e # d => job'[e] = job[e]
<1>0. job \in [Dep -> Job] /\ job[d] \in Job
  BY DEF TypeOK
<1>1. CASE \E from, ver : Spawn(d, from, ver)
  <2>1. PICK from, ver : Spawn(d, from, ver)
    BY <1>1
  <2>2. /\ job'[d] = [Unused EXCEPT !.pc = "spawned", !.origin = from,
                                    !.asked = ver]
        /\ others
    BY <1>0, <2>1, BecomeEffect, Zenon DEF Spawn
  <2>3. job'[d].pc = "spawned" /\ job'[d].phase = "deploy"
    BY <2>2 DEF Unused
  <2>. QED BY <2>1, <2>2, <2>3 DEF Spawn, GoroutineOK, dbVars
<1>2. CASE \E c : /\ Become(d, [job[d] EXCEPT !.ctx = c])
                  /\ ContextMatters(d)
                  /\ UNCHANGED <<lock, records>>
  <2>1. PICK c : /\ Become(d, [job[d] EXCEPT !.ctx = c])
                 /\ ContextMatters(d)
                 /\ UNCHANGED <<lock, records>>
    BY <1>2
  <2>2. job'[d] = [job[d] EXCEPT !.ctx = c] /\ others
    BY <1>0, <2>1, BecomeEffect, Zenon
  <2>3. /\ job'[d].pc = job[d].pc /\ job'[d].phase = job[d].phase
        /\ job'[d].rec = job[d].rec
    BY <1>0, <2>2 DEF Job
  <2>. QED BY <2>1, <2>2, <2>3 DEF ContextMatters, Alive, GoroutineOK
<1>3. CASE CancelDeploy(d)
  BY <1>2, <1>3, Zenon DEF CancelDeploy, dbVars
<1>4. CASE ContextExpires(d)
  BY <1>2, <1>4, Zenon DEF ContextExpires, dbVars
<1>5. CASE \E ver \in Pair : TriggerDeploy(d, ver) \/ RollbackToVersions(d, ver)
  BY <1>1, <1>5 DEF TriggerDeploy, RollbackToVersions
<1>6. CASE \E src \in Dep : RollbackToDeployment(d, src)
  BY <1>1, <1>6 DEF RollbackToDeployment
<1>. QED BY <1>3, <1>4, <1>5, <1>6 DEF Requests

\* Edits only ever take deployment records away.
LEMMA EditShape ==
  ASSUME TypeOK, Edits \/ ContainersChange
  PROVE  /\ UNCHANGED <<job, lock>>
         /\ \A d \in Dep : records'[d] \in {records[d], NoRecord}
<1>. USE DEF dbVars, versionVars, hostVars
<1>0. records \in [Dep -> Record]
  BY DEF TypeOK
<1>1. CASE SaveCompose \/ SaveEnv \/ DeleteProject \/ ContainersChange
  BY <1>1 DEF SaveCompose, SaveEnv, DeleteProject, ContainersChange
<1>2. CASE \/ \E v \in 1..MaxCompose : DeleteComposeVersion(v)
           \/ \E v \in 1..MaxEnv : DeleteEnvVersion(v)
  BY <1>2 DEF DeleteComposeVersion, DeleteEnvVersion
<1>3. CASE \E d \in Dep : DeleteDeployment(d)
  BY <1>0, <1>3 DEF DeleteDeployment
<1>4. CASE \E n \in 1..clock : PruneDeployments(n)
  BY <1>0, <1>4 DEF PruneDeployments
<1>. QED BY <1>1, <1>2, <1>3, <1>4 DEF Edits

LEMMA CrashShape ==
  ASSUME TypeOK, Crash
  PROVE  /\ \A d \in Dep :
              /\ job'[d].pc = IF job[d].pc = "unused" THEN "unused" ELSE "over"
              /\ job'[d].phase = "deploy"
         /\ lock' = Free
         /\ UNCHANGED records
BY DEF Crash, Unused, Over, dbVars

-----------------------------------------------------------------------------
(* The lock and the settled records *)

LEMMA InitInv == Init => IInv
<1>. SUFFICES ASSUME Init PROVE IInv
  OBVIOUS
<1>1. TypeOK
  BY InitType
<1>2. \A d \in Dep : job[d] = Unused /\ records[d] = NoRecord
  BY DEF Init
<1>3. LockHeldByOne
  BY <1>2, DeployAssumption DEF Init, LockHeldByOne, Unused, Critical
<1>. QED BY <1>1, <1>2, <1>3
         DEF IInv, GoroutineOK, SettledOwner, Unused, NoRecord, Settled

LEMMA EngineStepInv ==
  ASSUME IInv, NEW d \in Dep, EngineStep(d)
  PROVE  IInv'
<1>1. TypeOK'
  BY EngineStepType DEF IInv
<1>2. /\ \A e \in Dep : e # d => job'[e] = job[e]
      /\ GoroutineOK(job'[d])
      /\ \/ Take(d)  \/ Leave(d)  \/ Work(d)
         \/ Start(d) \/ Settle(d) \/ Release(d)
  BY EngineStepShape DEF IInv
<1>3. (\A e \in Dep : GoroutineOK(job[e]))'
  BY <1>2 DEF IInv
<1>4. LockHeldByOne'
  BY <1>2, DeployAssumption
  DEF IInv, LockHeldByOne, Take, Leave, Work, Start, Settle, Release, Critical
<1>5. SettledOwner'
  <2>1. records \in [Dep -> Record]
    BY DEF IInv, TypeOK
  <2>2. GoroutineOK(job[d]) /\ SettledOwner
    BY DEF IInv
  <2>3. CASE Take(d) \/ Work(d) \/ Release(d)
    BY <1>2, <2>2, <2>3
    DEF SettledOwner, Take, Work, Release, Critical
  <2>4. CASE Leave(d)
    BY <1>2, <2>1, <2>2, <2>4 DEF SettledOwner, Leave
  <2>5. CASE Start(d)
    BY <1>2, <2>1, <2>2, <2>5 DEF SettledOwner, Start, Settled
  <2>6. CASE Settle(d)
    BY <1>2, <2>1, <2>2, <2>6 DEF SettledOwner, Settle
  <2>. QED BY <1>2, <2>3, <2>4, <2>5, <2>6
<1>. QED BY <1>1, <1>3, <1>4, <1>5 DEF IInv

LEMMA NextInv ==
  ASSUME IInv, [Next]_vars
  PROVE  IInv'
<1>1. TypeOK'
  BY NextType DEF IInv
<1>2. CASE \E d \in Dep : EngineStep(d)
  BY <1>2, EngineStepInv
<1>3. ASSUME NEW d \in Dep, Requests(d) \/ ContextExpires(d)
      PROVE  IInv'
  <2>1. /\ \A e \in Dep : e # d => job'[e] = job[e]
        /\ GoroutineOK(job'[d])
        /\ job'[d].rec = job[d].rec \/ job[d].pc = "unused"
        /\ \/ job[d].pc = "unused" /\ job'[d].pc = "spawned"
           \/ job'[d].pc = job[d].pc
        /\ UNCHANGED <<lock, records>>
    BY <1>3, RequestShape DEF IInv
  <2>2. LockHeldByOne'
    BY <2>1 DEF IInv, LockHeldByOne, Critical
  <2>3. SettledOwner'
    BY <2>1 DEF IInv, SettledOwner
  <2>. QED BY <1>1, <2>1, <2>2, <2>3 DEF IInv
<1>4. CASE Edits \/ ContainersChange
  <2>1. /\ UNCHANGED <<job, lock>>
        /\ \A d \in Dep : records'[d] \in {records[d], NoRecord}
    BY <1>4, EditShape DEF IInv
  <2>2. SettledOwner'
    BY <2>1 DEF IInv, SettledOwner, NoRecord, Settled
  <2>. QED BY <1>1, <2>1, <2>2 DEF IInv, LockHeldByOne
<1>5. CASE Crash
  <2>1. /\ \A d \in Dep :
             /\ job'[d].pc = IF job[d].pc = "unused" THEN "unused" ELSE "over"
             /\ job'[d].phase = "deploy"
        /\ lock' = Free
        /\ UNCHANGED records
    BY <1>5, CrashShape DEF IInv
  <2>2. LockHeldByOne'
    BY <2>1, DeployAssumption DEF LockHeldByOne, Critical
  <2>3. SettledOwner'
    BY <2>1 DEF IInv, SettledOwner
  <2>. QED BY <1>1, <2>1, <2>2, <2>3 DEF IInv, GoroutineOK
<1>6. CASE UNCHANGED vars
  BY <1>1, <1>6 DEF IInv, LockHeldByOne, SettledOwner, vars
<1>. QED BY <1>2, <1>3, <1>4, <1>5, <1>6 DEF Next, EngineNext

\* Whatever crashes, however many attempts, and even if saves fail: the
\* project's lock is held by exactly the attempt that is between TryLock and
\* Unlock, so no two goroutines work on a project directory and its containers.
THEOREM LockCorrect == Spec => []LockHeldByOne
<1>1. Init => IInv
  BY InitInv
<1>2. IInv /\ [Next]_vars => IInv'
  BY NextInv
<1>3. IInv => LockHeldByOne
  BY DEF IInv
<1>. QED BY <1>1, <1>2, <1>3, PTL DEF Spec

LEMMA SettledStep ==
  ASSUME IInv, [Next]_vars
  PROVE  \A d \in Dep : records[d].status \in Settled
                         => records'[d] \in {records[d], NoRecord}
<1>0. records \in [Dep -> Record] /\ SettledOwner
  BY DEF IInv, TypeOK
<1>1. ASSUME NEW d \in Dep, EngineStep(d)
      PROVE  \A e \in Dep : records[e].status \in Settled
                             => records'[e] \in {records[e], NoRecord}
  <2>1. \/ Take(d)  \/ Leave(d)  \/ Work(d)
        \/ Start(d) \/ Settle(d) \/ Release(d)
    BY <1>1, EngineStepShape DEF IInv
  <2>. QED BY <1>0, <2>1
           DEF SettledOwner, Take, Leave, Work, Start, Settle, Release
<1>2. CASE \E d \in Dep : Requests(d) \/ ContextExpires(d)
  BY <1>2, RequestShape DEF IInv
<1>3. CASE Edits \/ ContainersChange
  BY <1>3, EditShape DEF IInv
<1>4. CASE Crash \/ UNCHANGED vars
  BY <1>4, CrashShape DEF IInv, vars
<1>. QED BY <1>1, <1>2, <1>3, <1>4 DEF Next, EngineNext

\* A settled deployment record never changes again, except that it may be
\* deleted: no late save of the engine or of the rollback handler, no crash and
\* no failing save rewrites history.
THEOREM SettledCorrect == Spec => SettledIsFinal
<1>1. Init => IInv
  BY InitInv
<1>2. IInv /\ [Next]_vars => IInv'
  BY NextInv
<1>3. IInv /\ [Next]_vars =>
        [\A d \in Dep : records[d].status \in Settled
                         => records'[d] \in {records[d], NoRecord}]_records
  BY SettledStep
<1>. QED BY <1>1, <1>2, <1>3, PTL DEF Spec, SettledIsFinal

-----------------------------------------------------------------------------
(* At most one running record *)

LEMMA EngineStepRunning ==
  ASSUME IInv, RunningInv, ~StoreMayFail, NEW d \in Dep, EngineStep(d)
  PROVE  RunningInv'
<1>0. /\ records \in [Dep -> Record] /\ LockHeldByOne /\ GoroutineOK(job[d])
      /\ AtMostOneRunning /\ LiveOwnsRunning
  BY DEF IInv, TypeOK, RunningInv
<1>1. /\ \A e \in Dep : e # d => job'[e] = job[e]
      /\ \/ Take(d)  \/ Leave(d)  \/ Work(d)
         \/ Start(d) \/ Settle(d) \/ Release(d)
  BY EngineStepShape DEF IInv
<1>2. \A e \in Dep : records[e].status = "running"
                      => lock = e /\ job[e].pc \in Owning
  BY <1>0, <1>1 DEF LiveOwnsRunning, Alive, Take, Leave, Work, Start, Settle,
                    Release, Critical
<1>3. CASE Take(d) \/ Work(d) \/ Release(d)
  <2>1. \A e \in Dep : records'[e].status = "running"
                        => lock' = e /\ job'[e].pc \in Owning
    BY <1>0, <1>1, <1>2, <1>3, DeployAssumption
    DEF Take, Work, Release, LockHeldByOne, Owning, Critical
  <2>. QED BY <2>1 DEF RunningInv, AtMostOneRunning, LiveOwnsRunning
<1>4. CASE Leave(d) \/ Settle(d)
  <2>1. \A e \in Dep : records'[e].status = "running"
                        => lock' = e /\ job'[e].pc \in Owning
    BY <1>0, <1>1, <1>2, <1>4
    DEF Leave, Settle, GoroutineOK, Settled, Owning, Critical
  <2>. QED BY <2>1 DEF RunningInv, AtMostOneRunning, LiveOwnsRunning
<1>5. CASE Start(d)
  <2>1. lock = d
    BY <1>0, <1>5 DEF Start, LockHeldByOne, Critical
  <2>2. \A e \in Dep : records[e].status # "running"
    BY <1>2, <1>5, <2>1 DEF Start, Owning
  <2>3. \A e \in Dep : records'[e].status = "running"
                        => lock' = e /\ job'[e].pc \in Owning
    BY <1>0, <1>5, <2>1, <2>2 DEF Start, Owning, Critical
  <2>. QED BY <2>3 DEF RunningInv, AtMostOneRunning, LiveOwnsRunning
<1>. QED BY <1>1, <1>3, <1>4, <1>5

LEMMA NextRunning ==
  ASSUME IInv, RunningInv, ~StoreMayFail, [Next]_vars
  PROVE  RunningInv'
<1>0. AtMostOneRunning /\ LiveOwnsRunning
  BY DEF RunningInv
<1>1. CASE \E d \in Dep : EngineStep(d)
  BY <1>1, EngineStepRunning
<1>2. ASSUME NEW d \in Dep, Requests(d) \/ ContextExpires(d)
      PROVE  RunningInv'
  <2>1. /\ \A e \in Dep : e # d => job'[e] = job[e]
        /\ \/ job[d].pc = "unused" /\ job'[d].pc = "spawned" /\ NoneRunning
           \/ job'[d].pc = job[d].pc /\ Alive(d)
        /\ UNCHANGED <<lock, records>>
    BY <1>2, RequestShape DEF IInv
  <2>2. LiveOwnsRunning'
    BY <1>0, <2>1 DEF LiveOwnsRunning, Alive, NoneRunning
  <2>. QED BY <1>0, <2>1, <2>2 DEF RunningInv, AtMostOneRunning
<1>3. CASE Edits \/ ContainersChange
  <2>1. /\ UNCHANGED <<job, lock>>
        /\ \A d \in Dep : records'[d] \in {records[d], NoRecord}
    BY <1>3, EditShape DEF IInv
  <2>2. \A d \in Dep : records'[d].status = "running"
                        => records[d].status = "running"
    BY <2>1 DEF NoRecord
  <2>. QED BY <1>0, <2>1, <2>2
           DEF RunningInv, AtMostOneRunning, LiveOwnsRunning, Alive
<1>4. CASE Crash
  BY <1>0, <1>4, CrashShape
  DEF IInv, RunningInv, AtMostOneRunning, LiveOwnsRunning, Alive
<1>5. CASE UNCHANGED vars
  BY <1>0, <1>5 DEF RunningInv, AtMostOneRunning, LiveOwnsRunning, Alive, vars
<1>. QED BY <1>1, <1>2, <1>3, <1>4, <1>5 DEF Next, EngineNext

\* With a store that does not lose saves, at most one deployment record of the
\* project is running: the handlers look at the records before they start a
\* goroutine and the engine takes the lock before it saves one, and neither is
\* enough alone: the look is stale by the time of the save, and the lock
\* forgets a record that a crash left running.
THEOREM OneRunningCorrect == ~StoreMayFail => (Spec => []AtMostOneRunning)
<1>. SUFFICES ASSUME ~StoreMayFail PROVE Spec => []AtMostOneRunning
  OBVIOUS
<1>1. Init => IInv /\ RunningInv
  <2>1. Init => RunningInv
    BY DEF Init, RunningInv, AtMostOneRunning, LiveOwnsRunning, NoRecord
  <2>. QED BY <2>1, InitInv
<1>2. IInv /\ RunningInv /\ [Next]_vars => (IInv /\ RunningInv)'
  BY NextInv, NextRunning
<1>3. RunningInv => AtMostOneRunning
  BY DEF RunningInv
<1>. QED BY <1>1, <1>2, <1>3, PTL DEF Spec
=============================================================================
