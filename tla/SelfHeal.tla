------------------------------ MODULE SelfHeal ------------------------------
(***************************************************************************)
(* The reconciler that brings a project back up after a boot or on demand  *)
(* (selfheal/reconciler.go, Engine.EnsureUp in deploy/engine.go) and the   *)
(* dashboard's status sync (api/handlers/logs.go), next to the deploy      *)
(* engine.  Neither takes the engine's project lock: both read the store,  *)
(* work on the host for a while, and act on what they read.                *)
(***************************************************************************)
EXTENDS DeployEngine

CONSTANT SyncRuns   \* TRUE: somebody has the dashboard open

ASSUME SelfHealAssumption == SyncRuns \in BOOLEAN

VARIABLES
  heal,   \* the reconciler's control point and the versions it brings up
  sync    \* the status sync: idle, asking docker, or about to save a status

healVars == <<heal, sync>>
allVars  == <<vars, healVars>>

\* The control points: off, reported, docker, ensure, compose, env, up.
\* "reported": no reconcile is running and the last one reported an error for
\* docker or this project.
HealOff == [pc |-> "off", target |-> NoPair]
HealErr == [HealOff EXCEPT !.pc = "reported"]

\* The process has just started: its boot reconcile waits for docker.
HealInit ==
  /\ Init
  /\ heal = [HealOff EXCEPT !.pc = "docker"]
  /\ sync = "idle"

-----------------------------------------------------------------------------
(* Reconciler.Run for one project.  One reconcile at a time is a bound of    *)
(* the model: the boot one and those of the Reconcile handler may overlap.   *)

Reconcile ==
  /\ heal.pc \in {"off", "reported"}
  /\ heal' = [HealOff EXCEPT !.pc = "docker"]
  /\ UNCHANGED <<vars, sync>>

\* Docker answers and the projects are listed: this one is brought up only if
\* it is marked running.  Mutant: only projects in error are.
ListProjects_OnlyErrors ==
  /\ heal.pc = "docker"
  /\ heal' = IF project = "error" THEN [heal EXCEPT !.pc = "ensure"] ELSE HealOff
  /\ UNCHANGED <<vars, sync>>

ListProjects ==
  /\ heal.pc = "docker"
  /\ heal' = IF project = "running" THEN [heal EXCEPT !.pc = "ensure"] ELSE HealOff
  /\ UNCHANGED <<vars, sync>>

\* Docker does not answer: the reconcile ends with that in its report.
DockerStaysDown ==
  /\ heal.pc = "docker"
  /\ heal' = HealErr
  /\ UNCHANGED <<vars, sync>>

\* EnsureUp reads the latest versions.
EnsureUp ==
  /\ heal.pc = "ensure"
  /\ heal' = IF project # "absent" /\ composes # {}
             THEN [pc |-> "compose",
                   target |-> [compose |-> Latest(composes), env |-> Latest(envs)]]
             ELSE HealErr
  /\ UNCHANGED <<vars, sync>>

EnsureCompose ==
  /\ heal.pc = "compose"
  /\ disk' = [disk EXCEPT !.compose = heal.target.compose]
  /\ heal' = [heal EXCEPT !.pc = "env"]
  /\ UNCHANGED <<dbVars, stack, lock, cancels, job, crashes, sync>>

EnsureEnv ==
  /\ heal.pc = "env"
  /\ disk' = [disk EXCEPT !.env = heal.target.env]
  /\ heal' = [heal EXCEPT !.pc = "up"]
  /\ UNCHANGED <<dbVars, stack, lock, cancels, job, crashes, sync>>

\* docker compose up -d without --force-recreate: what already runs from the
\* files on disk is left alone, except containers that are not running.
EnsureStack ==
  /\ heal.pc = "up"
  /\ stack' \in IF stack.ver = disk /\ stack.state # "down"
                THEN {stack}
                ELSE {[ver |-> disk, state |-> "unhealthy"]}
  /\ heal' = HealOff
  /\ UNCHANGED <<dbVars, disk, lock, cancels, job, crashes, sync>>

\* An error ends the work on this project; a failed compose run may leave half
\* of the containers.
EnsureFails ==
  /\ heal.pc \in {"compose", "env", "up"}
  /\ \/ UNCHANGED stack
     \/ heal.pc = "up" /\ stack' = [ver |-> disk, state |-> "unhealthy"]
  /\ heal' = HealErr
  /\ UNCHANGED <<dbVars, disk, lock, cancels, job, crashes, sync>>

HealStep ==
  \/ ListProjects  \/ DockerStaysDown \/ EnsureUp
  \/ EnsureCompose \/ EnsureEnv       \/ EnsureStack \/ EnsureFails

-----------------------------------------------------------------------------
(* SyncProjectStatus and SyncAllProjectStatus *)

SyncStart ==
  /\ SyncRuns
  /\ sync = "idle" /\ project # "absent"
  /\ sync' = "asking"
  /\ UNCHANGED <<vars, heal>>

\* computeProjectStatus: containers that start, restart or exit can amount to
\* any status, and no containers to stopped, and so does an error of docker ps.
StatusOf(st) ==
  CASE st.state = "healthy"   -> {"running"}
    [] st.state = "unhealthy" -> {"running", "degraded", "stopped"}
    [] st.state = "down"      -> {"stopped"}

AskDocker ==
  /\ sync = "asking"
  /\ sync' \in StatusOf(stack) \cup {"stopped"}
  /\ UNCHANGED <<vars, heal>>

\* The handler saves its copy of the project with the status, whether or not
\* the project still exists.
SyncSave ==
  /\ sync \notin {"idle", "asking"}
  /\ project' = sync
  /\ sync' = "idle"
  /\ UNCHANGED <<versionVars, records, clock, hostVars, lock, cancels, job,
                 crashes, heal>>

SyncStep == SyncStart \/ AskDocker \/ SyncSave

-----------------------------------------------------------------------------
\* A restarted process reconciles.
Boot ==
  /\ Crash
  /\ heal' = [HealOff EXCEPT !.pc = "docker"]
  /\ sync' = "idle"

HealNext ==
  \/ EngineNext /\ UNCHANGED healVars
  \/ Reconcile
  \/ HealStep
  \/ SyncStep
  \/ Boot

HealSpec == HealInit /\ [][HealNext]_allVars

\* The reconciler is a goroutine whose waits are bounded.
FairHealSpec ==
  /\ HealSpec
  /\ \A d \in Dep : WF_allVars(EngineStep(d) /\ UNCHANGED healVars)
  /\ WF_allVars(HealStep)

-----------------------------------------------------------------------------
(* Properties *)

\* The host has just come up again, or an operator asked for a reconcile, with
\* the containers of a running project down.
FoundDown ==
  /\ heal.pc = "docker"
  /\ project = "running" /\ composes # {}
  /\ stack.state = "down"

\* "Bring every running project back up": such a project is brought up, or its
\* error is reported, unless by then it is no longer said to be running; a
\* deployment, a crash or the status sync may come in between.
RunningComesBack ==
  FoundDown ~> stack.state # "down" \/ project # "running" \/ heal.pc = "reported"
=============================================================================
