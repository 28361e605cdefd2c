---------------------------- MODULE WebProjects ----------------------------
(***************************************************************************)
(* The pages of the web client that a project goes through, from the login  *)
(* to the deployment, as one specification: each behaviour is that of one    *)
(* page or part of a page.                                                  *)
(***************************************************************************)
EXTENDS DeployPage, DeployReleases, Editors, Project, Pipeline, Session

ProjectsInit ==
  \/ DeployInit    \/ ModalInit    \/ ConfirmInit        \/ TagsInit
  \/ SchedulesInit \/ ComposeInit  \/ DeploySettingsInit \/ EnvInit
  \/ ProjectInit   \/ OverviewInit \/ NewProjectInit     \/ LogsInit
  \/ ExecInit      \/ DashboardInit \/ FileBrowserInit   \/ PipelineInit
  \/ SessionInit   \/ NavInit

ProjectsNext ==
  \/ DeployNext    \/ ModalNext    \/ ConfirmNext        \/ TagsNext
  \/ SchedulesNext \/ ComposeNext  \/ DeploySettingsNext \/ EnvNext
  \/ ProjectNext   \/ OverviewNext \/ NewProjectNext     \/ LogsNext
  \/ ExecNext      \/ DashboardNext \/ FileBrowserNext   \/ PipelineNext
  \/ SessionNext   \/ NavNext

\* What happens to a deployment without the operator: the server answers, the
\* goroutine of the engine and the hub go on, the page takes what arrives.  The
\* fairness of one of them at a time is enough, all that they do being finite.
DeployWork ==
  \/ /\ page \in {"deploy", "deployModal"}
     /\ TriggerDeploy \/ Forbid \/ \E d \in Deps : Goroutine(d)
  \/ /\ page = "deploy"
     /\ \/ Tells("reload", srv.rec) \/ DeploymentsLoaded \/ DropError({"reload"})
        \/ DeployStarted \/ DeployRefused \/ StreamMessage \/ StreamError
  \/ /\ page = "deployModal"
     /\ \/ ServeCancelDeploy \/ Finally("cancel", ui) \/ ModalStarted
        \/ ModalRefused \/ ModalMessage \/ ModalStreamError

ProjectsSpec ==
  ProjectsInit /\ [][ProjectsNext]_webVars /\ WF_webVars(DeployWork)

-----------------------------------------------------------------------------
(* Properties of every page *)

\* The handlers whose control is disabled while they are under way (the busy
\* flags of React state, set before the request and cleared after the answer).
Guarded == {"createTag", "save", "create", "exec", "sync", "action", "login", "setup"}

\* None of them has two requests under way, however answers come and whatever
\* else is clicked meanwhile: no double submission.
OneWrite ==
  \A i, j \in DOMAIN net : net[i].by = net[j].by /\ net[i].by \in Guarded => i = j

\* The flags that say what is under way (and disable the controls) come down
\* with the last answer, whether it was an answer, an error or a refusal: no
\* page stays busy for ever.
BusyEnds ==
  net = <<>> /\ "busy" \in DOMAIN ui =>
    ui.busy = {} \/ (page = "overview" /\ ui.timer)

\* What these handlers ask, whose control checks the permission, the server does
\* not forbid: the page and the router agree on who may do what.
Offered ==
  [confirm |-> {"deleteVersion"}, schedules |-> {"createSchedule"},
   compose |-> {"save"}, env |-> {"save"}, newProject |-> {"create"}]

NothingForbidden ==
  page \in DOMAIN Offered =>
    \A i \in DOMAIN net : net[i].by \in Offered[page] => Authorized(net[i].call)
=============================================================================
