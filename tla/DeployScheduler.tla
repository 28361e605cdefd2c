-------------------------- MODULE DeployScheduler --------------------------
(***************************************************************************)
(* The deploy scheduler (deploy/schedule.go, api/handlers/                 *)
(* scheduled_deploys.go) next to the deploy engine and its HTTP handlers.  *)
(* One goroutine ticks: it reads the due entries once, then handles them   *)
(* one after the other, each from that copy, and a fired entry blocks it   *)
(* for as long as DeployVersion runs.                                      *)
(*                                                                         *)
(* An entry is created here at the moment it comes due: before that nothing*)
(* looks at it.  The versions it asks for are those of a tag, looked up    *)
(* when it fires, so they are chosen at that point.                        *)
(***************************************************************************)
EXTENDS DeployEngine

CONSTANTS
  Sched,     \* ids of the scheduled deploys that may be created
  SchedDep,  \* attempts the scheduler may make
  UserDep,   \* attempts users may make through the handlers
  Idle       \* the scheduler is not waiting for a deployment

ASSUME SchedulerAssumption ==
  /\ SchedDep \subseteq Dep
  /\ UserDep \subseteq Dep
  /\ Idle \notin [entry : Sched, dep : SchedDep]

VARIABLES
  sched,     \* the ScheduledDeploys collection: an entry's status
  due,       \* entries of this tick's list not handled yet
  firing,    \* the entry whose DeployVersion has not returned, with its attempt
  fired      \* attempts made for each entry, since the store last failed to
             \* take their outcome (observed only)

schedVars == <<sched, due, firing, fired>>
allVars   == <<vars, schedVars>>

\* A status "absent": not created; "deleted": removed by a user.
SchedInit ==
  /\ Init
  /\ sched = [s \in Sched |-> "absent"]
  /\ due = {}
  /\ firing = Idle
  /\ fired = [s \in Sched |-> {}]

-----------------------------------------------------------------------------
CreateScheduledDeploy(s) ==
  /\ project # "absent"
  /\ sched[s] = "absent"
  /\ sched' = [sched EXCEPT ![s] = "pending"]
  /\ UNCHANGED <<vars, due, firing, fired>>

DeleteScheduledDeploy(s) ==
  /\ sched[s] \in {"pending", "done", "failed"}
  /\ sched' = [sched EXCEPT ![s] = "deleted"]
  /\ UNCHANGED <<vars, due, firing, fired>>

\* A tick reads the pending entries that are due.
TickStart ==
  /\ firing = Idle /\ due = {}
  /\ \E s \in Sched : sched[s] = "pending"
  /\ due' = {s \in Sched : sched[s] = "pending"}
  /\ UNCHANGED <<vars, sched, firing, fired>>

\* The next entry of the list is left for a later tick: a deployment runs.
TickSkip(s) ==
  /\ firing = Idle /\ s \in due
  /\ ~NoneRunning
  /\ due' = due \ {s}
  /\ UNCHANGED <<vars, sched, firing, fired>>

\* Or it fires: DeployVersion is called with a context that no handler can
\* cancel.
TickFire(s) ==
  /\ firing = Idle /\ s \in due
  /\ NoneRunning
  /\ due' = due \ {s}
  /\ \E d \in SchedDep, ver \in Pair :
       /\ job[d].pc = "unused"
       /\ Become(d, [Unused EXCEPT !.pc = "spawned", !.origin = "schedule",
                                   !.asked = ver])
       /\ firing' = [entry |-> s, dep |-> d]
       /\ fired' = [fired EXCEPT ![s] = @ \cup {d}]
  /\ UNCHANGED <<dbVars, hostVars, lock, cancels, crashes, sched>>

\* DeployVersion has returned, with an error unless the deployment succeeded.
\* Mutant: a returned record is taken for a success.
Outcome_AnyRecord(d) == IF job[d].pc = "return" THEN "done" ELSE "failed"

Outcome(d) ==
  IF job[d].pc = "return" /\ job[d].rec.status = "success" THEN "done"
                                                           ELSE "failed"

\* The tick's copy of the entry is saved with the outcome; an error is ignored.
\* Mutant: failed entries are left pending, to be tried again.
TickSave_Retry ==
  /\ firing # Idle
  /\ job[firing.dep].pc \in {"return", "over"}
  /\ sched' = IF Outcome(firing.dep) = "done"
              THEN [sched EXCEPT ![firing.entry] = "done"] ELSE sched
  /\ Become(firing.dep, [job[firing.dep] EXCEPT !.pc = "over"])
  /\ firing' = Idle
  /\ UNCHANGED <<dbVars, hostVars, lock, cancels, crashes, due, fired>>

TickSave ==
  /\ firing # Idle
  /\ job[firing.dep].pc \in {"return", "over"}
  /\ \/ /\ sched' = [sched EXCEPT ![firing.entry] = Outcome(firing.dep)]
        /\ UNCHANGED fired
     \/ /\ StoreMayFail /\ fired' = [fired EXCEPT ![firing.entry] = {}]
        /\ UNCHANGED sched
  /\ Become(firing.dep, [job[firing.dep] EXCEPT !.pc = "over"])
  /\ firing' = Idle
  /\ UNCHANGED <<dbVars, hostVars, lock, cancels, crashes, due>>

\* The collection survives a crash, the tick does not.
SchedCrash ==
  /\ Crash
  /\ due' = {}
  /\ firing' = Idle
  /\ UNCHANGED <<sched, fired>>

Tick == TickStart \/ TickSave \/ \E s \in Sched : TickSkip(s) \/ TickFire(s)

SchedEdits ==
  \E s \in Sched : CreateScheduledDeploy(s) \/ DeleteScheduledDeploy(s)

SchedNext ==
  \/ /\ \/ \E d \in Dep : EngineStep(d) \/ ContextExpires(d)
        \/ \E d \in UserDep : Requests(d)
        \/ Edits
        \/ ContainersChange
     /\ UNCHANGED schedVars
  \/ SchedEdits
  \/ Tick
  \/ SchedCrash

SchedSpec == SchedInit /\ [][SchedNext]_allVars

\* The scheduler's ticker keeps ticking; the engine is as fair as in FairSpec.
FairSchedSpec ==
  /\ SchedSpec
  /\ \A d \in Dep : WF_allVars(EngineStep(d) /\ UNCHANGED schedVars)
  /\ WF_allVars(Tick)

-----------------------------------------------------------------------------
(* Properties *)

\* "One-shot: each entry fires once": between two starts, and while the store takes
\* what became of it, the process never makes two attempts for one entry,
\* whatever list a tick works from and whatever becomes of the attempts.
FiresOnce ==
  \A s \in Sched : Cardinality(fired[s]) <= crashes + 1

\* An entry is done only if one of the deployments made for it succeeded: not
\* all their records say otherwise, whatever crashes and failing saves do.
DoneIsSuccess ==
  \A s \in Sched : sched[s] = "done" =>
    \E d \in fired[s] : records[d].status \notin {"failed", "cancelled"}

\* A due entry does not stay pending: "it will fire on a later tick".
DueSettles ==
  \A s \in Sched : sched[s] = "pending" ~> sched[s] # "pending"
=============================================================================
