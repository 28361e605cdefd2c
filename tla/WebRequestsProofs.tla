------------------------- MODULE WebRequestsProofs -------------------------
(***************************************************************************)
(* Theorems about all the pages of a project as one specification, for every *)
(* value of the constants: a page that is mounted stays mounted, what         *)
(* DeployPageProofs shows of the pages that deploy holds in every behaviour, *)
(* and of the requests of every page, that a write whose control is disabled *)
(* while it is under way is asked for once, and that the control comes back  *)
(* with the last answer.                                                     *)
(***************************************************************************)
EXTENDS WebProjects, DeployPageProofs

-----------------------------------------------------------------------------
(* No action of a page mounts another *)

\* The confirmation of a deployment stays mounted.
LEMMA ConfirmStays == ASSUME ConfirmNext PROVE UNCHANGED session
BY DEF ConfirmNext, SaveVersionElsewhere, HistoryLoaded, PickVersion,
  ClickDeployLatest, ClickRollbackTo, ClickRollbackToRecord, DiffLoaded,
  CancelConfirm, ConfirmDeploy, ServeTrigger, ClickDeleteVersion,
  ServeDeleteVersion, VersionDeleted, RequestDeploy, NoConfirm, PageIs, ServerIs,
  NetOnly, Becomes, Asks, Elsewhere, Finds, Tells, Makes, Does, ThenAsks, Then,
  Catch, Finally, Forbid, Fault, DropError, session

\* Release tags: the page stays mounted.
LEMMA TagsStays == ASSUME TagsNext PROVE UNCHANGED session
BY DEF TagsNext, TagsLoaded, ToggleTagForm, TypeTagName, ClickCreateTag,
  ServeCreateTag, TagCreated, CreateTagFails, ClickDeleteTag, ServeDeleteTag,
  TagDeleted, PageIs, ServerIs, NetOnly, Becomes, Asks, Elsewhere, Finds, Tells,
  Makes, Does, ThenAsks, Then, Catch, Finally, Forbid, Fault, DropError, session

\* Scheduled deployments: the page stays mounted.
LEMMA SchedulesStays == ASSUME SchedulesNext PROVE UNCHANGED session
BY DEF SchedulesNext, TypeScheduleTime, ClickSchedule, ServeCreateSchedule,
  SchedulesLoaded, ScheduleCreated, ClickDeleteSchedule, ServeDeleteSchedule,
  ScheduleDeleted, PageIs, ServerIs, NetOnly, Becomes, Asks, Elsewhere, Finds,
  Tells, Makes, Does, ThenAsks, Then, Catch, Finally, Forbid, Fault, DropError,
  session

\* The settings of deployments: the page stays mounted.
LEMMA DeploySettingsStays == ASSUME DeploySettingsNext PROVE page' = page
BY DEF DeploySettingsNext, DeploySettingsLoaded, EditDeploySettings,
  SaveDeploySettings, ServeSaveSettings, DeploySettingsSaved, SavedMarkFades,
  PageIs, ServerIs, NetOnly, Becomes, Asks, Elsewhere, Finds, Tells, Makes, Does,
  ThenAsks, Then, Catch, Finally, Forbid, Fault, DropError, session

\* The compose editors: the page stays mounted.
LEMMA ComposeStays == ASSUME ComposeNext PROVE UNCHANGED session
BY DEF ComposeNext, ComposeLoaded, ComposeHistoryLoaded, TypeCompose,
  ClickComposeVersion, ClickSaveCompose, ServeSaveCompose, ComposeSaved,
  SavedHistoryLoaded, ComposeSaveFails, PageIs, ServerIs, NetOnly, Becomes, Asks,
  Elsewhere, Finds, Tells, Makes, Does, ThenAsks, Then, Catch, Finally, Forbid,
  Fault, DropError, session

\* The editors of environment variables: the page stays mounted.
LEMMA EnvStays == ASSUME EnvNext PROVE UNCHANGED session
BY DEF EnvNext, EnvLoaded, EditVar, RenameVar, AddVar, RemoveVar, OpenImport,
  ImportVars, PasteVars, CloseModal, ClickSaveEnv, ServeSaveEnv, EnvSaved,
  EnvSaveFails, OpenHistory, EnvHistoryLoaded, PickEnvVersion, ClickRestore,
  ServeRestoreEnv, EnvRestored, Mutate, PageIs, ServerIs, NetOnly, Becomes, Asks,
  Elsewhere, Finds, Tells, Makes, Does, ThenAsks, Then, Catch, Finally, Forbid,
  Fault, DropError, session

\* The form of a new project stays mounted.
LEMMA NewProjectStays == ASSUME NewProjectNext PROVE UNCHANGED session
BY DEF NewProjectNext, SubmitProject, ServeCreateProject, ProjectCreated, PageIs,
  ServerIs, NetOnly, Becomes, Asks, Elsewhere, Finds, Tells, Makes, Does, ThenAsks,
  Then, Catch, Finally, Forbid, Fault, DropError, session

\* The header of a project stays mounted.
LEMMA ProjectStays == ASSUME ProjectNext PROVE UNCHANGED session
BY DEF ProjectNext, ProjectLoaded, ToggleClone, HandleClone, ServeClone, Cloned,
  CloneFails, PageIs, ServerIs, NetOnly, Becomes, Asks, Elsewhere, Finds, Tells,
  Makes, Does, ThenAsks, Then, Catch, Finally, Forbid, Fault, DropError, session

\* The containers: the page stays mounted.
LEMMA OverviewStays == ASSUME OverviewNext PROVE UNCHANGED session
BY DEF OverviewNext, ClickRefresh, ContainersRefreshed, ClickSync, ServeSync,
  Synced, ClickAction, ServeAction, ActionSettles, ActionDone, PageIs, ServerIs,
  NetOnly, Becomes, Asks, Elsewhere, Finds, Tells, Makes, Does, ThenAsks, Then,
  Catch, Finally, Forbid, Fault, DropError, session

\* The log of a container stays mounted.
LEMMA LogsStays == ASSUME LogsNext PROVE UNCHANGED session
BY DEF LogsNext, OpenLog, CloseLog, ContainerLogs, LogMessage, LogError, PageIs,
  ServerIs, NetOnly, Becomes, Asks, Elsewhere, Finds, Tells, Makes, Does, ThenAsks,
  Then, Catch, Finally, Forbid, Fault, DropError, session

\* Commands on the host: the page stays mounted.
LEMMA ExecStays == ASSUME ExecNext PROVE page' = page
BY DEF ExecNext, RunCommand, ServeExec, CommandRan, PageIs, ServerIs, NetOnly,
  Becomes, Asks, Elsewhere, Finds, Tells, Makes, Does, ThenAsks, Then, Catch,
  Finally, Forbid, Fault, DropError, session

\* The browser of files: the page stays mounted.
LEMMA FileBrowserStays == ASSUME FileBrowserNext PROVE UNCHANGED session
BY DEF FileBrowserNext, OpenServerTab, OpenLocalTab, CloseBrowser, TypeMount,
  ClickGo, ClickDirectory, ServerUp, ServerBrowsed, ClickFile, FilePreviewed,
  FileUsed, UseLocalFile, BrowseServer, PageIs, ServerIs, NetOnly, Becomes, Asks,
  Elsewhere, Finds, Tells, Makes, Does, ThenAsks, Then, Catch, Finally, Forbid,
  Fault, DropError, session

\* The projects of the dashboard stays mounted.
LEMMA DashboardStays == ASSUME DashboardNext PROVE UNCHANGED session
BY DEF DashboardNext, ProjectsLoaded, Search, TurnPage, OpenDelete, CloseDelete,
  ConfirmDelete, ServeDelete, Deleted, PageIs, ServerIs, NetOnly, Becomes, Asks,
  Elsewhere, Finds, Tells, Makes, Does, ThenAsks, Then, Catch, Finally, Forbid,
  Fault, DropError, session

\* The bar of stages: the page stays mounted.
LEMMA PipelineStays == ASSUME PipelineNext PROVE page' = page
BY DEF PipelineNext, EngineEnters, EngineFails, EngineWritesOther, PipelineMessage,
  PipelineStops, PageIs, ServerIs, NetOnly, Becomes, Asks, Elsewhere, Finds, Tells,
  Makes, Does, ThenAsks, Then, Catch, Finally, Forbid, Fault, DropError, session

\* Signing in and out: the page stays mounted.
LEMMA SessionStays == ASSUME SessionNext PROVE page' = page
BY DEF SessionNext, ServeMe, MeAnswered, Protect, SignedIn, SetupChecked,
  SubmitLogin, ServeLogin, LoginAccepted, LoggedIn, SubmitSetup, ServeSetup, SetUp,
  ClickLogout, ServeLogout, LoggedOut, Goes, PageIs, ServerIs, NetOnly, Becomes,
  Asks, Elsewhere, Finds, Tells, Makes, Does, ThenAsks, Then, Catch, Finally,
  Forbid, Fault, DropError, session

\* The navigation stays mounted.
LEMMA NavStays == ASSUME NavNext PROVE page' = page
BY DEF NavNext, DropOn, ToggleHidden, ToggleEditing, ResetNav, SwitchUser, PageIs,
  ServerIs, NetOnly, Becomes, Asks, Elsewhere, Finds, Tells, Makes, Does, ThenAsks,
  Then, Catch, Finally, Forbid, Fault, DropError, session

\* The page that is mounted is the only one that moves.
LEMMA PageStays ==
  ASSUME ProjectsNext
  PROVE  /\ ~DeployNext /\ ~ModalNext => page' = page
         /\ page \in DeployPages => DeployNext \/ ModalNext
         /\ DeployNext \/ ModalNext => page \in DeployPages
<1>0. UNCHANGED session => page' = page
  BY DEF session
<1>1. ~DeployNext /\ ~ModalNext => page' = page
  BY <1>0, ConfirmStays, TagsStays, SchedulesStays, DeploySettingsStays, ComposeStays, EnvStays,
     NewProjectStays, ProjectStays, OverviewStays, LogsStays, ExecStays, FileBrowserStays,
     DashboardStays, PipelineStays, SessionStays, NavStays, Zenon
  DEF ProjectsNext
<1>2. page \in DeployPages => DeployNext \/ ModalNext
  BY DEF ProjectsNext, DeployPages, ConfirmNext, TagsNext, SchedulesNext, ComposeNext,
         DeploySettingsNext, EnvNext, ProjectNext, OverviewNext, NewProjectNext, LogsNext,
         ExecNext, DashboardNext, FileBrowserNext, PipelineNext, SessionNext, NavNext
<1>3. DeployNext \/ ModalNext => page \in DeployPages
  BY DEF DeployNext, ModalNext, DeployPages
<1>. QED BY <1>1, <1>2, <1>3

-----------------------------------------------------------------------------
(* The pages that deploy *)

\* The other pages leave the invariant of the pages that deploy alone.
LEMMA DeployInvHolds == ProjectsSpec => []DeployInv
<1>1. ProjectsInit => DeployInv
  <2>1. CASE DeployInit \/ ModalInit
    BY <2>1, DeployStarts
  <2>2. ASSUME ProjectsInit, ~(DeployInit \/ ModalInit)
        PROVE  page \notin DeployPages
    BY <2>2
    DEF ProjectsInit, DeployPages, Opens, ConfirmInit, TagsInit, SchedulesInit, ComposeInit,
        DeploySettingsInit, EnvInit, ProjectInit, OverviewInit, NewProjectInit, LogsInit,
        ExecInit, DashboardInit, FileBrowserInit, PipelineInit, SessionInit, NavInit
  <2>. QED BY <2>1, <2>2 DEF DeployInv
<1>2. DeployInv /\ [ProjectsNext]_webVars => DeployInv'
  <2>. SUFFICES ASSUME DeployInv, [ProjectsNext]_webVars PROVE DeployInv'
    OBVIOUS
  <2>1. CASE DeployNext \/ ModalNext
    BY <2>1, DeployMoves, ModalMoves
  <2>2. CASE ProjectsNext /\ ~DeployNext /\ ~ModalNext
    <3>1. page' = page /\ page \notin DeployPages
      BY <2>2, PageStays
    <3>. QED BY <3>1 DEF DeployInv
  <2>3. CASE UNCHANGED webVars
    <3>1. page' = page /\ ui' = ui /\ srv' = srv /\ net' = net
      BY <2>3 DEF webVars
    <3>. QED BY <3>1, Zenon
         DEF DeployInv, ServerInv, NetInv, PageInv, UiType, ModalOK, LogOK, Waiting
  <2>. QED BY <2>1, <2>2, <2>3
<1>. QED BY <1>1, <1>2, PTL DEF ProjectsSpec

\* The deploy page and the modal say that they deploy exactly while they listen
\* to a deployment or wait for one to be created, whatever is lost: their
\* buttons are neither disabled for nothing nor enabled under a running log.
THEOREM DeployingCorrect == ProjectsSpec => []DeployingIsTrue
<1>1. DeployInv => DeployingIsTrue
  BY DeployInvProperties
<1>. QED BY <1>1, DeployInvHolds, PTL

\* The page reads the history again only for a deployment that is over, and the
\* modal says that a deployment succeeded only when its record does.
THEOREM OutcomeCorrect == ProjectsSpec => []OutcomeIsTold
<1>1. DeployInv => OutcomeIsTold
  BY DeployInvProperties
<1>. QED BY <1>1, DeployInvHolds, PTL

\* The hub never sends to a channel that it has closed, and the page never shows
\* more log lines of a deployment than were published: a subscriber is replayed
\* what came before it and sent what comes after, nothing twice.
THEOREM LogCorrect == ProjectsSpec => []LogIsPublished
<1>1. DeployInv => LogIsPublished
  BY DeployInvProperties
<1>. QED BY <1>1, DeployInvHolds, PTL

-----------------------------------------------------------------------------
(* The inductive invariant: the flags of each page and what they wait for *)

\* A flag that is up exactly while a request of W is under way, which is the
\* only one; one that is up only while there is one; no other handler that is
\* disabled while it is under way asks on this page.
Exactly(f, W) == (f \in ui.busy <=> Waits(W)) /\ One(W)
During(f, W)  == f \in ui.busy => Waits(W)
NoOther(W)    == ~Waits(Guarded \ W)

IdlePages == {"confirm", "schedules", "logs", "pipeline", "nav"}

IdleFlags == page \in IdlePages => ui.busy = {} /\ NoOther({})

TagsFlags ==
  page = "tags" =>
    /\ ui.busy \subseteq {"tagSaving"}
    /\ Exactly("tagSaving", {"createTag"}) /\ NoOther({"createTag"})

ComposeFlags ==
  page \in {"compose", "composeTab"} =>
    /\ ui.busy \subseteq {"saving"}
    /\ Exactly("saving", {"save", "saveHistory"}) /\ NoOther({"save"})

NewProjectFlags ==
  page = "newProject" =>
    /\ ui.busy \subseteq {"loading"}
    /\ Exactly("loading", {"create"}) /\ NoOther({"create"})

ExecFlags ==
  page = "exec" =>
    /\ ui.busy \subseteq {"running"}
    /\ Exactly("running", {"exec"}) /\ NoOther({"exec"})

DeploySettingsFlags ==
  page = "deploySettings" =>
    /\ ui.busy \subseteq {"settingsSaving"}
    /\ During("settingsSaving", {"saveSettings"}) /\ NoOther({})

ProjectFlags ==
  page = "project" =>
    ui.busy \subseteq {"cloning"} /\ During("cloning", {"clone"}) /\ NoOther({})

FileBrowserFlags ==
  page = "fileBrowser" =>
    /\ ui.busy \subseteq {"serverLoading"}
    /\ During("serverLoading", {"browse"}) /\ NoOther({})

\* The state of a modal that is closed is gone.
EnvFlags ==
  page \in {"env", "envTab"} =>
    /\ ui.busy \subseteq {"saving", "loading", "restoring"}
    /\ Exactly("saving", {"save"}) /\ During("loading", {"loadHistory"})
    /\ During("restoring", {"restore"}) /\ NoOther({"save"})
    /\ "modal" \in DOMAIN ui /\ ("loading" \in ui.busy => ui.modal = "history")

\* After an action the flag waits for the timer.
OverviewFlags ==
  page = "overview" =>
    /\ ui.busy \subseteq {"loading", "syncing", "action"}
    /\ Exactly("syncing", {"sync"}) /\ During("loading", {"refresh"})
    /\ "action" \in ui.busy <=> Waits({"action"}) \/ ui.timer
    /\ ~(Waits({"action"}) /\ ui.timer) /\ One({"action"})
    /\ "timer" \in DOMAIN ui /\ ui.timer \in BOOLEAN
    /\ NoOther({"sync", "action"})

SessionFlags ==
  page = "session" =>
    /\ ui.busy \subseteq {"loading", "submitting"}
    /\ Exactly("submitting", {"login", "loginMe", "setup"})
    /\ During("loading", {"me"}) /\ NoOther({"login", "setup"})

\* The modal deletes its project while a request says so; the answer to such a
\* request is the project that it names.
DeletesIn(q, p) == \E k \in DOMAIN q : q[k].by = "delete" /\ q[k].arg = p
AnswersIn(q)    == \A k \in DOMAIN q : q[k].by = "delete" /\ q[k].state = "done" =>
                                         Head(q[k].reply) = q[k].arg

DashboardFlags ==
  page = "dashboard" =>
    /\ ui.busy \subseteq {"deleting"} /\ NoOther({}) /\ AnswersIn(net)
    /\ "asks" \in DOMAIN ui
    /\ "deleting" \in ui.busy => ui.asks # 0 /\ DeletesIn(net, ui.asks)

Flags ==
  /\ IdleFlags /\ TagsFlags /\ ComposeFlags /\ NewProjectFlags /\ ExecFlags
  /\ DeploySettingsFlags /\ ProjectFlags /\ FileBrowserFlags /\ EnvFlags
  /\ OverviewFlags /\ SessionFlags /\ DashboardFlags

OtherPages ==
  IdlePages \cup {"tags", "compose", "composeTab", "newProject", "exec", "deploySettings",
                 "project", "fileBrowser", "env", "envTab", "overview", "session",
                 "dashboard"}

FlagsInv ==
  page \notin DeployPages =>
    page \in OtherPages /\ AreRequests(net) /\ "busy" \in DOMAIN ui /\ Flags

-----------------------------------------------------------------------------
(* One page after the other *)

\* The confirmation of a deployment: what its actions do.
LEMMA ConfirmMoves ==
  ASSUME ConfirmNext, "busy" \in DOMAIN ui
  PROVE  Busy(ui.busy) /\ \/ Stays \/ Asked("diff") \/ Asked("startDeploy")
                          \/ /\ Asked("deleteVersion")
                             /\ Granted("deleteVersion", "deleteComposeVersion", "edit_compose")
                          \/ Drops({"loadHistory", "diff", "startDeploy", "deleteVersion"})
<1>1. SaveVersionElsewhere => Busy(ui.busy) /\ Stays
  BY DEF SaveVersionElsewhere, Elsewhere, ServerIs, Stays, Busy
<1>2. HistoryLoaded \/ VersionDeleted
      => Busy(ui.busy) /\ Drops({"loadHistory", "diff", "startDeploy", "deleteVersion"})
  BY DEF HistoryLoaded, VersionDeleted, Then, ThenAsks, Arrived, PageIs, Drops,
         Removed, Busy
<1>3. PickVersion \/ CancelConfirm => Busy(ui.busy) /\ Stays
  BY DEF PickVersion, CancelConfirm, NoConfirm, Becomes, PageIs, Stays, Busy
<1>4. ClickDeployLatest \/ ClickRollbackTo \/ ClickRollbackToRecord
      => Busy(ui.busy) /\ Asked("diff")
  BY DEF ClickDeployLatest, ClickRollbackTo, ClickRollbackToRecord,
         RequestDeploy, Asks, PageIs, Asked, Busy
<1>5. DiffLoaded => Busy(ui.busy) /\ Drops({"loadHistory", "diff", "startDeploy", "deleteVersion"})
  BY DEF DiffLoaded, Then, ThenAsks, Arrived, Catch, Failed, PageIs, Drops,
         Removed, Busy
<1>6. ConfirmDeploy => Busy(ui.busy) /\ Asked("startDeploy")
  BY DEF ConfirmDeploy, NoConfirm, Asks, PageIs, Asked, Busy
<1>7. ServeTrigger \/ ServeDeleteVersion => Busy(ui.busy) /\ Stays
  BY DEF ServeTrigger, ServeDeleteVersion, Does, Makes, Finds, ServerIs,
         NetOnly, Stays, Marked, Busy
<1>8. ClickDeleteVersion =>
        /\ Busy(ui.busy) /\ Asked("deleteVersion")
        /\ Granted("deleteVersion", "deleteComposeVersion", "edit_compose")
  BY DEF ClickDeleteVersion, Asks, PageIs, Asked, Granted, Busy
<1>9. Tells("loadHistory", srv.versions) => Busy(ui.busy) /\ Stays
  BY TellsStays DEF Busy
<1>10. Finds("diff", LAMBDA v : v) => Busy(ui.busy) /\ Stays
  BY DEF Finds, NetOnly, Stays, Marked, Busy
<1>11. Finally("startDeploy", ui)
       => Busy(ui.busy) /\ Drops({"loadHistory", "diff", "startDeploy", "deleteVersion"})
  BY DEF Finally, Then, ThenAsks, Arrived, Catch, Failed, PageIs, Drops,
         Removed, Busy
<1>12. DropError({"loadHistory", "deleteVersion"})
       => Busy(ui.busy) /\ Drops({"loadHistory", "diff", "startDeploy", "deleteVersion"})
  BY DEF DropError, Catch, Failed, Drops, Removed, PageIs, Busy
<1>13. Forbid \/ Fault => Busy(ui.busy) /\ Stays
  BY FaultStays DEF Busy
<1>. QED BY <1>1, <1>2, <1>3, <1>4, <1>5, <1>6, <1>7, <1>8, <1>9, <1>10, <1>11,
       <1>12, <1>13, Zenon DEF ConfirmNext

\* The confirmation of a deployment: its flags.
LEMMA ConfirmKeeps ==
  ASSUME ConfirmNext, AreRequests(net), "busy" \in DOMAIN ui, IdleFlags
  PROVE  AreRequests(net)' /\ "busy" \in DOMAIN ui' /\ IdleFlags'
<1>1. page = "confirm" /\ page' = page
  BY ConfirmStays DEF ConfirmNext, session
<1>. QED BY <1>1, ConfirmMoves, StaysKeeps, DropsKeeps, AskedKeeps
         DEF IdleFlags, Exactly, During, NoOther, Guarded, Busy, Modal, IdlePages

\* Release tags: what its actions do.
LEMMA TagsMoves ==
  ASSUME TagsNext, "busy" \in DOMAIN ui
  PROVE  \/ Busy(ui.busy) /\ (Stays \/ Drops({"loadTags", "deleteTag"}) \/ Asked("deleteTag"))
         \/ "tagSaving" \notin ui.busy /\ Busy({"tagSaving"}) /\ Asked("createTag")
         \/ Busy({}) /\ Drops({"createTag"})
<1>1. TagsLoaded => Busy(ui.busy) /\ Drops({"loadTags", "deleteTag"})
  BY DEF TagsLoaded, Then, ThenAsks, Arrived, PageIs, Drops, Removed, Busy
<1>2. ToggleTagForm \/ TypeTagName => Busy(ui.busy) /\ Stays
  BY DEF ToggleTagForm, TypeTagName, Becomes, PageIs, Stays, Busy
<1>3. ClickCreateTag => "tagSaving" \notin ui.busy /\ Busy({"tagSaving"}) /\ Asked("createTag")
  BY DEF ClickCreateTag, Asks, PageIs, Asked, Busy
<1>4. ServeCreateTag \/ ServeDeleteTag => Busy(ui.busy) /\ Stays
  BY DEF ServeCreateTag, ServeDeleteTag, Does, Makes, Finds, ServerIs, NetOnly,
         Stays, Marked, Busy
<1>5. TagCreated => Busy({}) /\ Drops({"createTag"})
  BY DEF TagCreated, Then, ThenAsks, Arrived, PageIs, Drops, Removed, Busy
<1>6. CreateTagFails => Busy({}) /\ Drops({"createTag"})
  BY DEF CreateTagFails, Catch, Failed, PageIs, Drops, Removed, Busy
<1>7. ClickDeleteTag => Busy(ui.busy) /\ Asked("deleteTag")
  BY DEF ClickDeleteTag, Asks, PageIs, Asked, Busy
<1>8. TagDeleted => Busy(ui.busy) /\ Drops({"loadTags", "deleteTag"})
  BY DEF TagDeleted, Arrived, Failed, Drops, Removed, PageIs, Busy
<1>9. Tells("loadTags", srv.tags) => Busy(ui.busy) /\ Stays
  BY TellsStays DEF Busy
<1>10. DropError({"loadTags"}) => Busy(ui.busy) /\ Drops({"loadTags", "deleteTag"})
  BY DEF DropError, Catch, Failed, Drops, Removed, PageIs, Busy
<1>11. Forbid \/ Fault => Busy(ui.busy) /\ Stays
  BY FaultStays DEF Busy
<1>. QED BY <1>1, <1>2, <1>3, <1>4, <1>5, <1>6, <1>7, <1>8, <1>9, <1>10, <1>11,
       Zenon DEF TagsNext

\* Release tags: its flags.
LEMMA TagsKeeps ==
  ASSUME TagsNext, AreRequests(net), "busy" \in DOMAIN ui, TagsFlags
  PROVE  AreRequests(net)' /\ "busy" \in DOMAIN ui' /\ TagsFlags'
<1>1. page = "tags" /\ page' = page
  BY TagsStays DEF TagsNext, session
<1>. QED BY <1>1, TagsMoves, StaysKeeps, DropsKeeps, AskedKeeps
         DEF TagsFlags, Exactly, During, NoOther, Guarded, Busy, Modal

\* Scheduled deployments: what its actions do.
LEMMA SchedulesMoves ==
  ASSUME SchedulesNext, "busy" \in DOMAIN ui
  PROVE  Busy(ui.busy) /\ \/ Stays \/ Asked("deleteSchedule")
                          \/ /\ Asked("createSchedule")
                             /\ Granted("createSchedule", "createScheduledDeploy", "deploy")
                          \/ Drops({"loadSchedules", "createSchedule", "deleteSchedule"})
<1>1. TypeScheduleTime => Busy(ui.busy) /\ Stays
  BY DEF TypeScheduleTime, Becomes, PageIs, Stays, Busy
<1>2. ClickSchedule =>
        /\ Busy(ui.busy) /\ Asked("createSchedule")
        /\ Granted("createSchedule", "createScheduledDeploy", "deploy")
  BY DEF ClickSchedule, Asks, PageIs, Asked, Granted, Busy
<1>3. ServeCreateSchedule \/ ServeDeleteSchedule => Busy(ui.busy) /\ Stays
  BY DEF ServeCreateSchedule, ServeDeleteSchedule, Does, Makes, Finds, ServerIs,
         NetOnly, Stays, Marked, Busy
<1>4. SchedulesLoaded \/ ScheduleCreated \/ ScheduleDeleted
      => Busy(ui.busy) /\ Drops({"loadSchedules", "createSchedule", "deleteSchedule"})
  BY DEF SchedulesLoaded, ScheduleCreated, ScheduleDeleted, Then, ThenAsks,
         Arrived, PageIs, Drops, Removed, Busy
<1>5. ClickDeleteSchedule => Busy(ui.busy) /\ Asked("deleteSchedule")
  BY DEF ClickDeleteSchedule, Asks, PageIs, Asked, Busy
<1>6. Tells("loadSchedules", srv.list) => Busy(ui.busy) /\ Stays
  BY TellsStays DEF Busy
<1>7. DropError({"loadSchedules", "createSchedule", "deleteSchedule"})
      => Busy(ui.busy) /\ Drops({"loadSchedules", "createSchedule", "deleteSchedule"})
  BY SilentDrops DEF Busy
<1>8. Forbid \/ Fault => Busy(ui.busy) /\ Stays
  BY FaultStays DEF Busy
<1>. QED BY <1>1, <1>2, <1>3, <1>4, <1>5, <1>6, <1>7, <1>8, Zenon DEF
       SchedulesNext

\* Scheduled deployments: its flags.
LEMMA SchedulesKeeps ==
  ASSUME SchedulesNext, AreRequests(net), "busy" \in DOMAIN ui, IdleFlags
  PROVE  AreRequests(net)' /\ "busy" \in DOMAIN ui' /\ IdleFlags'
<1>1. page = "schedules" /\ page' = page
  BY SchedulesStays DEF SchedulesNext, session
<1>. QED BY <1>1, SchedulesMoves, StaysKeeps, DropsKeeps, AskedKeeps
         DEF IdleFlags, Exactly, During, NoOther, Guarded, Busy, Modal, IdlePages

\* The settings of deployments: what its actions do.
LEMMA DeploySettingsMoves ==
  ASSUME DeploySettingsNext, "busy" \in DOMAIN ui
  PROVE  \/ Busy(ui.busy) /\ (Stays \/ Drops({"loadSettings"}))
         \/ Busy({"settingsSaving"}) /\ Asked("saveSettings")
         \/ Busy({}) /\ Drops({"saveSettings"})
<1>1. DeploySettingsLoaded => Busy(ui.busy) /\ Drops({"loadSettings"})
  BY DEF DeploySettingsLoaded, Then, ThenAsks, Arrived, PageIs, Drops, Removed,
         Busy
<1>2. EditDeploySettings \/ SavedMarkFades => Busy(ui.busy) /\ Stays
  BY DEF EditDeploySettings, SavedMarkFades, Becomes, PageIs, Stays, Busy
<1>3. SaveDeploySettings => Busy({"settingsSaving"}) /\ Asked("saveSettings")
  BY DEF SaveDeploySettings, Asks, PageIs, Asked, Busy
<1>4. ServeSaveSettings => Busy(ui.busy) /\ Stays
  BY DEF ServeSaveSettings, Does, Makes, Finds, ServerIs, NetOnly, Stays,
         Marked, Busy
<1>5. DeploySettingsSaved => Busy({}) /\ Drops({"saveSettings"})
  BY DEF DeploySettingsSaved, Then, ThenAsks, Arrived, Catch, Failed, PageIs,
         Drops, Removed, Busy
<1>6. Tells("loadSettings", srv) => Busy(ui.busy) /\ Stays
  BY TellsStays DEF Busy
<1>7. DropError({"loadSettings"}) => Busy(ui.busy) /\ Drops({"loadSettings"})
  BY SilentDrops DEF Busy
<1>8. Forbid \/ Fault => Busy(ui.busy) /\ Stays
  BY FaultStays DEF Busy
<1>. QED BY <1>1, <1>2, <1>3, <1>4, <1>5, <1>6, <1>7, <1>8, Zenon DEF
       DeploySettingsNext

\* The settings of deployments: its flags.
LEMMA DeploySettingsKeeps ==
  ASSUME DeploySettingsNext, AreRequests(net), "busy" \in DOMAIN ui, DeploySettingsFlags
  PROVE  AreRequests(net)' /\ "busy" \in DOMAIN ui' /\ DeploySettingsFlags'
<1>1. page = "deploySettings" /\ page' = page
  BY DeploySettingsStays DEF DeploySettingsNext
<1>. QED BY <1>1, DeploySettingsMoves, StaysKeeps, DropsKeeps, AskedKeeps
         DEF DeploySettingsFlags, Exactly, During, NoOther, Guarded, Busy, Modal

\* The compose editors: what its actions do.
LEMMA ComposeMoves ==
  ASSUME ComposeNext, "busy" \in DOMAIN ui
  PROVE  \/ Busy(ui.busy) /\ \/ Stays \/ Drops({"load", "loadHistory"})
                             \/ Swaps({"save"}, "saveHistory")
         \/ /\ "saving" \notin ui.busy /\ Busy({"saving"}) /\ Asked("save")
            /\ page = "compose" => Granted("save", "saveCompose", "edit_compose")
         \/ Busy({}) /\ (Drops({"save", "saveHistory"}) \/ Swaps({"save"}, "loadHistory"))
<1>1. ComposeLoaded \/ ComposeHistoryLoaded => Busy(ui.busy) /\ Drops({"load", "loadHistory"})
  BY DEF ComposeLoaded, ComposeHistoryLoaded, SelectCompose, Then, ThenAsks,
         Arrived, PageIs, Drops, Removed, Busy
<1>2. TypeCompose \/ ClickComposeVersion => Busy(ui.busy) /\ Stays
  BY DEF TypeCompose, ClickComposeVersion, SelectCompose, Becomes, PageIs,
         Stays, Busy
<1>3. ClickSaveCompose =>
          (Busy(ui.busy) /\ Stays)
       \/ /\ "saving" \notin ui.busy /\ Busy({"saving"}) /\ Asked("save")
          /\ page = "compose" => Granted("save", "saveCompose", "edit_compose")
  BY DEF ClickSaveCompose, Becomes, Stays, Asks, PageIs, Asked, Granted, Busy
<1>4. ServeSaveCompose => Busy(ui.busy) /\ Stays
  BY DEF ServeSaveCompose, Does, Makes, Finds, ServerIs, NetOnly, Stays, Marked,
         Busy
<1>5. ComposeSaved =>
          (Busy(ui.busy) /\ Swaps({"save"}, "saveHistory"))
       \/ (Busy({}) /\ Swaps({"save"}, "loadHistory"))
  BY DEF ComposeSaved, ThenAsks, Arrived, PageIs, Swaps, Swapped, Busy
<1>6. SavedHistoryLoaded => Busy({}) /\ Drops({"save", "saveHistory"})
  BY DEF SavedHistoryLoaded, Then, ThenAsks, Arrived, PageIs, Drops, Removed,
         Busy
<1>7. ComposeSaveFails => Busy({}) /\ Drops({"save", "saveHistory"})
  BY DEF ComposeSaveFails, Catch, Failed, PageIs, Drops, Removed, Busy
<1>8. Tells("load", Version(Len(srv.versions))) => Busy(ui.busy) /\ Stays
  BY TellsStays DEF Busy
<1>9. (\E by \in {"loadHistory", "saveHistory"} : Tells(by, srv.versions)) => Busy(ui.busy) /\ Stays
  BY DEF Tells, Finds, NetOnly, Stays, Marked, Busy
<1>10. DropError({"load", "loadHistory"}) => Busy(ui.busy) /\ Drops({"load", "loadHistory"})
  BY SilentDrops DEF Busy
<1>11. Forbid \/ Fault => Busy(ui.busy) /\ Stays
  BY FaultStays DEF Busy
<1>. QED BY <1>1, <1>2, <1>3, <1>4, <1>5, <1>6, <1>7, <1>8, <1>9, <1>10, <1>11,
       Zenon DEF ComposeNext

\* The compose editors: its flags.
LEMMA ComposeKeeps ==
  ASSUME ComposeNext, AreRequests(net), "busy" \in DOMAIN ui, ComposeFlags
  PROVE  AreRequests(net)' /\ "busy" \in DOMAIN ui' /\ ComposeFlags'
<1>1. page \in {"compose", "composeTab"} /\ page' = page
  BY ComposeStays DEF ComposeNext, session
<1>. QED BY <1>1, ComposeMoves, StaysKeeps, DropsKeeps, AskedKeeps, SwapsKeeps
         DEF ComposeFlags, Exactly, During, NoOther, Guarded, Busy, Modal

\* A new project: what its actions do.
LEMMA NewProjectMoves ==
  ASSUME NewProjectNext, "busy" \in DOMAIN ui
  PROVE  \/ Busy(ui.busy) /\ Stays
         \/ /\ "loading" \notin ui.busy /\ Busy({"loading"}) /\ Asked("create")
            /\ Granted("create", "createProject", "manage_projects")
         \/ Busy({}) /\ Drops({"create"})
<1>1. SubmitProject =>
        /\ "loading" \notin ui.busy /\ Busy({"loading"}) /\ Asked("create")
        /\ Granted("create", "createProject", "manage_projects")
  BY DEF SubmitProject, Asks, PageIs, Asked, Granted, Busy
<1>2. ServeCreateProject => Busy(ui.busy) /\ Stays
  BY DEF ServeCreateProject, Does, Makes, Finds, ServerIs, NetOnly, Stays,
         Marked, Busy
<1>3. ProjectCreated => Busy({}) /\ Drops({"create"})
  BY DEF ProjectCreated, Then, ThenAsks, Arrived, Catch, Failed, PageIs, Drops,
         Removed, Busy
<1>4. Forbid \/ Fault => Busy(ui.busy) /\ Stays
  BY FaultStays DEF Busy
<1>. QED BY <1>1, <1>2, <1>3, <1>4, Zenon DEF NewProjectNext

\* A new project: its flags.
LEMMA NewProjectKeeps ==
  ASSUME NewProjectNext, AreRequests(net), "busy" \in DOMAIN ui, NewProjectFlags
  PROVE  AreRequests(net)' /\ "busy" \in DOMAIN ui' /\ NewProjectFlags'
<1>1. page = "newProject" /\ page' = page
  BY NewProjectStays DEF NewProjectNext, session
<1>. QED BY <1>1, NewProjectMoves, StaysKeeps, DropsKeeps, AskedKeeps
         DEF NewProjectFlags, Exactly, During, NoOther, Guarded, Busy, Modal

\* Commands on the host: what its actions do.
LEMMA ExecMoves ==
  ASSUME ExecNext, "busy" \in DOMAIN ui
  PROVE  \/ Busy(ui.busy) /\ Stays
         \/ "running" \notin ui.busy /\ Busy({"running"}) /\ Asked("exec")
         \/ Busy({}) /\ Drops({"exec"})
<1>1. RunCommand => "running" \notin ui.busy /\ Busy({"running"}) /\ Asked("exec")
  BY DEF RunCommand, Asks, PageIs, Asked, Busy
<1>2. ServeExec => Busy(ui.busy) /\ Stays
  BY DEF ServeExec, Does, Makes, Finds, ServerIs, NetOnly, Stays, Marked, Busy
<1>3. CommandRan => Busy({}) /\ Drops({"exec"})
  BY DEF CommandRan, Finally, Then, ThenAsks, Arrived, Catch, Failed, PageIs,
         Drops, Removed, Busy
<1>4. Forbid \/ Fault => Busy(ui.busy) /\ Stays
  BY FaultStays DEF Busy
<1>. QED BY <1>1, <1>2, <1>3, <1>4, Zenon DEF ExecNext

\* Commands on the host: its flags.
LEMMA ExecKeeps ==
  ASSUME ExecNext, AreRequests(net), "busy" \in DOMAIN ui, ExecFlags
  PROVE  AreRequests(net)' /\ "busy" \in DOMAIN ui' /\ ExecFlags'
<1>1. page = "exec" /\ page' = page
  BY ExecStays DEF ExecNext
<1>. QED BY <1>1, ExecMoves, StaysKeeps, DropsKeeps, AskedKeeps
         DEF ExecFlags, Exactly, During, NoOther, Guarded, Busy, Modal

\* The header of a project and its clone: what its actions do.
LEMMA ProjectMoves ==
  ASSUME ProjectNext, "busy" \in DOMAIN ui
  PROVE  \/ Busy(ui.busy) /\ (Stays \/ Drops({"load"}))
         \/ Busy({"cloning"}) /\ Asked("clone")
         \/ Busy({}) /\ (Drops({"clone"}) \/ Swaps({"clone"}, "load"))
<1>1. ProjectLoaded => Busy(ui.busy) /\ Drops({"load"})
  BY DEF ProjectLoaded, Then, ThenAsks, Arrived, Catch, Failed, PageIs, Drops,
         Removed, Busy
<1>2. ToggleClone => Busy(ui.busy) /\ Stays
  BY DEF ToggleClone, Becomes, PageIs, Stays, Busy
<1>3. HandleClone => Busy({"cloning"}) /\ Asked("clone")
  BY DEF HandleClone, Asks, PageIs, Asked, Busy
<1>4. ServeClone => Busy(ui.busy) /\ Stays
  BY DEF ServeClone, Does, Makes, Finds, ServerIs, NetOnly, Stays, Marked, Busy
<1>5. Cloned => Busy({}) /\ Swaps({"clone"}, "load")
  BY DEF Cloned, ThenAsks, Arrived, PageIs, Swaps, Swapped, Busy
<1>6. CloneFails => Busy({}) /\ Drops({"clone"})
  BY DEF CloneFails, Catch, Failed, PageIs, Drops, Removed, Busy
<1>7. Finds("load", LAMBDA p : p) => Busy(ui.busy) /\ Stays
  BY DEF Finds, NetOnly, Stays, Marked, Busy
<1>8. Forbid \/ Fault => Busy(ui.busy) /\ Stays
  BY FaultStays DEF Busy
<1>. QED BY <1>1, <1>2, <1>3, <1>4, <1>5, <1>6, <1>7, <1>8, Zenon DEF
       ProjectNext

\* The header of a project and its clone: its flags.
LEMMA ProjectKeeps ==
  ASSUME ProjectNext, AreRequests(net), "busy" \in DOMAIN ui, ProjectFlags
  PROVE  AreRequests(net)' /\ "busy" \in DOMAIN ui' /\ ProjectFlags'
<1>1. page = "project" /\ page' = page
  BY ProjectStays DEF ProjectNext, session
<1>. QED BY <1>1, ProjectMoves, StaysKeeps, DropsKeeps, AskedKeeps, SwapsKeeps
         DEF ProjectFlags, Exactly, During, NoOther, Guarded, Busy, Modal

\* The browser of files: what its actions do.
LEMMA FileBrowserMoves ==
  ASSUME FileBrowserNext, "busy" \in DOMAIN ui
  PROVE  \/ Busy(ui.busy) /\ \/ Stays \/ Asked("preview") \/ Asked("use")
                             \/ Drops({"preview", "use"})
         \/ Busy({"serverLoading"}) /\ Asked("browse")
         \/ Busy({}) /\ Drops({"browse"})
<1>1. OpenServerTab \/ ClickGo \/ ClickDirectory \/ ServerUp
      => Busy({"serverLoading"}) /\ Asked("browse")
  BY DEF OpenServerTab, ClickGo, ClickDirectory, ServerUp, BrowseServer, Asks,
         PageIs, Asked, Busy
<1>2. OpenLocalTab \/ CloseBrowser \/ TypeMount \/ UseLocalFile => Busy(ui.busy) /\ Stays
  BY DEF OpenLocalTab, CloseBrowser, TypeMount, UseLocalFile, Becomes, PageIs,
         Stays, Busy
<1>3. ServerBrowsed => Busy({}) /\ Drops({"browse"})
  BY DEF ServerBrowsed, Arrived, Catch, Failed, PageIs, Drops, Removed, Busy
<1>4. ClickFile => Busy(ui.busy) /\ (Asked("preview") \/ Asked("use"))
  BY DEF ClickFile, Asks, PageIs, Asked, Busy
<1>5. FilePreviewed => Busy(ui.busy) /\ Drops({"preview", "use"})
  BY DEF FilePreviewed, Finally, Then, ThenAsks, Arrived, Catch, Failed, PageIs,
         Drops, Removed, Busy
<1>6. FileUsed => Busy(ui.busy) /\ Drops({"preview", "use"})
  BY DEF FileUsed, Then, ThenAsks, Arrived, PageIs, Drops, Removed, Busy
<1>7. Finds("browse", SubDirs) => Busy(ui.busy) /\ Stays
  BY DEF Finds, NetOnly, Stays, Marked, Busy
<1>8. (\E by \in {"preview", "use"} : Finds(by, LAMBDA p : p)) => Busy(ui.busy) /\ Stays
  BY DEF Finds, NetOnly, Stays, Marked, Busy
<1>9. DropError({"use"}) => Busy(ui.busy) /\ Drops({"preview", "use"})
  BY DEF DropError, Catch, Failed, Drops, Removed, PageIs, Busy
<1>10. Forbid \/ Fault => Busy(ui.busy) /\ Stays
  BY FaultStays DEF Busy
<1>. QED BY <1>1, <1>2, <1>3, <1>4, <1>5, <1>6, <1>7, <1>8, <1>9, <1>10, Zenon
       DEF FileBrowserNext

\* The browser of files: its flags.
LEMMA FileBrowserKeeps ==
  ASSUME FileBrowserNext, AreRequests(net), "busy" \in DOMAIN ui, FileBrowserFlags
  PROVE  AreRequests(net)' /\ "busy" \in DOMAIN ui' /\ FileBrowserFlags'
<1>1. page = "fileBrowser" /\ page' = page
  BY FileBrowserStays DEF FileBrowserNext, session
<1>. QED BY <1>1, FileBrowserMoves, StaysKeeps, DropsKeeps, AskedKeeps
         DEF FileBrowserFlags, Exactly, During, NoOther, Guarded, Busy, Modal

\* The editors of environment variables: what its actions do.
LEMMA EnvMoves ==
  ASSUME EnvNext, "busy" \in DOMAIN ui, "modal" \in DOMAIN ui
  PROVE  \/ Busy(ui.busy) /\ Modal(ui.modal) /\ (Stays \/ Drops({"load"}))
         \/ ui.modal # "history" /\ Busy(ui.busy) /\ Modal("none") /\ Stays
         \/ ui.modal # "history" /\ Busy(ui.busy) /\ Modal("import") /\ Stays
         \/ Busy(ui.busy \ {"loading", "restoring"}) /\ Modal("none") /\ (Stays \/ Drops({"restore"}))
         \/ /\ "saving" \notin ui.busy /\ Busy(ui.busy \cup {"saving"})
            /\ Modal(ui.modal) /\ Asked("save")
            /\ page = "env" => Granted("save", "saveEnv", "edit_env")
         \/ Busy(ui.busy \ {"saving"}) /\ Modal(ui.modal) /\ Drops({"save"})
         \/ Busy(ui.busy \cup {"loading"}) /\ Modal("history") /\ Asked("loadHistory")
         \/ ui.modal # "history" /\ ui' = ui /\ Drops({"loadHistory"})
         \/ Busy(ui.busy \ {"loading"}) /\ Modal(ui.modal) /\ Drops({"loadHistory"})
         \/ Busy(ui.busy \cup {"restoring"}) /\ Modal(ui.modal) /\ Asked("restore")
         \/ Busy(ui.busy \ {"restoring"}) /\ Modal(ui.modal) /\ Drops({"restore"})
<1>1. EnvLoaded => Busy(ui.busy) /\ Modal(ui.modal) /\ Drops({"load"})
  BY DEF EnvLoaded, ShowEnv, Modal, Then, ThenAsks, Arrived, PageIs, Drops,
         Removed, Busy
<1>2. EditVar \/ RenameVar \/ AddVar \/ RemoveVar \/ PasteVars
      => Busy(ui.busy) /\ Modal(ui.modal) /\ Stays
  BY DEF EditVar, RenameVar, AddVar, RemoveVar, PasteVars, Mutate, Modal,
         Becomes, PageIs, Stays, Busy
<1>3. OpenImport => ui.modal # "history" /\ Busy(ui.busy) /\ Modal("import") /\ Stays
  BY DEF OpenImport, Modal, Becomes, PageIs, Stays, Busy
<1>4. ImportVars => ui.modal # "history" /\ Busy(ui.busy) /\ Modal("none") /\ Stays
  BY DEF ImportVars, Modal, Becomes, PageIs, Stays, Busy
<1>5. CloseModal => Busy(ui.busy \ {"loading", "restoring"}) /\ Modal("none") /\ Stays
  BY DEF CloseModal, Modal, Becomes, PageIs, Stays, Busy
<1>6. ClickSaveEnv =>
       /\ "saving" \notin ui.busy /\ Busy(ui.busy \cup {"saving"})
       /\ Modal(ui.modal) /\ Asked("save")
       /\ page = "env" => Granted("save", "saveEnv", "edit_env")
  BY DEF ClickSaveEnv, Modal, Asks, PageIs, Asked, Granted, Busy
<1>7. ServeSaveEnv => Busy(ui.busy) /\ Modal(ui.modal) /\ Stays
  BY DEF ServeSaveEnv, Modal, Does, Makes, Finds, ServerIs, NetOnly, Stays,
         Marked, Busy
<1>8. ServeRestoreEnv => Busy(ui.busy) /\ Modal(ui.modal) /\ Stays
  BY DEF ServeRestoreEnv, Modal, Does, Makes, Finds, ServerIs, NetOnly, Stays,
         Marked, Busy
<1>9. EnvSaved => Busy(ui.busy \ {"saving"}) /\ Modal(ui.modal) /\ Drops({"save"})
  BY DEF EnvSaved, ShowEnv, Modal, Then, ThenAsks, Arrived, PageIs, Drops,
         Removed, Busy
<1>10. EnvSaveFails => Busy(ui.busy \ {"saving"}) /\ Modal(ui.modal) /\ Drops({"save"})
  BY DEF EnvSaveFails, Modal, Catch, Failed, PageIs, Drops, Removed, Busy
<1>11. OpenHistory => Busy(ui.busy \cup {"loading"}) /\ Modal("history") /\ Asked("loadHistory")
  BY DEF OpenHistory, Modal, Asks, PageIs, Asked, Busy
<1>12. EnvHistoryLoaded =>
          (ui.modal # "history" /\ ui' = ui /\ Drops({"loadHistory"}))
       \/ (Busy(ui.busy \ {"loading"}) /\ Modal(ui.modal) /\ Drops({"loadHistory"}))
  BY DEF EnvHistoryLoaded, Modal, Then, ThenAsks, Arrived, Catch, Failed,
         PageIs, Drops, Removed, Busy
<1>13. PickEnvVersion => Busy(ui.busy) /\ Modal(ui.modal) /\ Stays
  BY DEF PickEnvVersion, Modal, Becomes, PageIs, Stays, Busy
<1>14. ClickRestore => Busy(ui.busy \cup {"restoring"}) /\ Modal(ui.modal) /\ Asked("restore")
  BY DEF ClickRestore, Modal, Asks, PageIs, Asked, Busy
<1>15. EnvRestored =>
          (Busy(ui.busy \ {"loading", "restoring"}) /\ Modal("none") /\ Drops({"restore"}))
       \/ (Busy(ui.busy \ {"restoring"}) /\ Modal(ui.modal) /\ Drops({"restore"}))
  BY DEF EnvRestored, ShowEnv, Modal, Then, ThenAsks, Arrived, Catch, Failed,
         PageIs, Drops, Removed, Busy
<1>16. Tells("load", EnvReply(Len(srv.sets))) => Busy(ui.busy) /\ Modal(ui.modal) /\ Stays
  BY TellsStays DEF Busy, Modal
<1>17. Tells("loadHistory", Len(srv.sets)) => Busy(ui.busy) /\ Modal(ui.modal) /\ Stays
  BY TellsStays DEF Busy, Modal
<1>18. DropError({"load"}) => Busy(ui.busy) /\ Modal(ui.modal) /\ Drops({"load"})
  BY SilentDrops DEF Busy, Modal
<1>19. Forbid \/ Fault => Busy(ui.busy) /\ Modal(ui.modal) /\ Stays
  BY FaultStays DEF Busy, Modal
<1>. QED BY <1>1, <1>2, <1>3, <1>4, <1>5, <1>6, <1>7, <1>8, <1>9, <1>10, <1>11,
       <1>12, <1>13, <1>14, <1>15, <1>16, <1>17, <1>18, <1>19, Zenon DEF EnvNext

\* The editors of environment variables: its flags.
LEMMA EnvKeeps ==
  ASSUME EnvNext, AreRequests(net), "busy" \in DOMAIN ui, EnvFlags
  PROVE  AreRequests(net)' /\ "busy" \in DOMAIN ui' /\ EnvFlags'
<1>1. page \in {"env", "envTab"} /\ page' = page
  BY EnvStays DEF EnvNext, session
<1>. QED BY <1>1, EnvMoves, StaysKeeps, DropsKeeps, AskedKeeps
         DEF EnvFlags, Exactly, During, NoOther, Guarded, Busy, Modal

\* The containers of a project: what its actions do.
LEMMA OverviewMoves ==
  ASSUME OverviewNext, "busy" \in DOMAIN ui, "timer" \in DOMAIN ui
  PROVE  \/ Busy(ui.busy) /\ Timer(ui.timer) /\ Stays
         \/ Busy(ui.busy \cup {"loading"}) /\ Timer(ui.timer) /\ Asked("refresh")
         \/ Busy(ui.busy \ {"loading"}) /\ Timer(ui.timer) /\ Drops({"refresh"})
         \/ /\ "syncing" \notin ui.busy
            /\ Busy(ui.busy \cup {"syncing"}) /\ Timer(ui.timer) /\ Asked("sync")
         \/ /\ Busy((ui.busy \ {"syncing"}) \cup {"loading"}) /\ Timer(ui.timer)
            /\ Swaps({"sync"}, "refresh")
         \/ Busy(ui.busy \ {"syncing"}) /\ Timer(ui.timer) /\ Drops({"sync"})
         \/ /\ "action" \notin ui.busy
            /\ Busy(ui.busy \cup {"action"}) /\ Timer(ui.timer) /\ Asked("action")
         \/ /\ ui.timer /\ Busy((ui.busy \ {"action"}) \cup {"loading"}) /\ Timer(FALSE)
            /\ Asked("refresh")
         \/ Busy(ui.busy) /\ Timer(TRUE) /\ Drops({"action"})
         \/ Busy(ui.busy \ {"action"}) /\ Timer(ui.timer) /\ Drops({"action"})
<1>1. ClickRefresh => Busy(ui.busy \cup {"loading"}) /\ Timer(ui.timer) /\ Asked("refresh")
  BY DEF ClickRefresh, Refreshing, Timer, Asks, PageIs, Asked, Busy
<1>2. ContainersRefreshed => Busy(ui.busy \ {"loading"}) /\ Timer(ui.timer) /\ Drops({"refresh"})
  BY DEF ContainersRefreshed, Then, ThenAsks, Arrived, Timer, Catch, Failed,
         PageIs, Drops, Removed, Busy
<1>3. ClickSync =>
       /\ "syncing" \notin ui.busy
       /\ Busy(ui.busy \cup {"syncing"}) /\ Timer(ui.timer) /\ Asked("sync")
  BY DEF ClickSync, Timer, Asks, PageIs, Asked, Busy
<1>4. ServeSync \/ ServeAction => Busy(ui.busy) /\ Timer(ui.timer) /\ Stays
  BY DEF ServeSync, ServeAction, Timer, Does, Makes, Finds, ServerIs, NetOnly,
         Stays, Marked, Busy
<1>5. Synced =>
       \/ Busy((ui.busy \ {"syncing"}) \cup {"loading"}) /\ Timer(ui.timer) /\ Swaps({"sync"}, "refresh")
       \/ Busy(ui.busy \ {"syncing"}) /\ Timer(ui.timer) /\ Drops({"sync"})
  BY DEF Synced, Timer, Catch, Failed, Drops, Removed, ThenAsks, Arrived,
         PageIs, Swaps, Swapped, Busy
<1>6. ClickAction =>
       /\ "action" \notin ui.busy
       /\ Busy(ui.busy \cup {"action"}) /\ Timer(ui.timer) /\ Asked("action")
  BY DEF ClickAction, Timer, Asks, PageIs, Asked, Busy
<1>7. ActionSettles =>
       /\ ui.timer /\ Busy((ui.busy \ {"action"}) \cup {"loading"}) /\ Timer(FALSE)
       /\ Asked("refresh")
  BY DEF ActionSettles, Timer, PageIs, Asked, Busy
<1>8. ActionDone =>
       \/ Busy(ui.busy) /\ Timer(TRUE) /\ Drops({"action"})
       \/ Busy(ui.busy \ {"action"}) /\ Timer(ui.timer) /\ Drops({"action"})
  BY DEF ActionDone, Then, ThenAsks, Arrived, Timer, Catch, Failed, PageIs,
         Drops, Removed, Busy
<1>9. Tells("refresh", srv.state) => Busy(ui.busy) /\ Timer(ui.timer) /\ Stays
  BY TellsStays DEF Busy, Timer
<1>10. Forbid \/ Fault => Busy(ui.busy) /\ Timer(ui.timer) /\ Stays
  BY FaultStays DEF Busy, Timer
<1>. QED BY <1>1, <1>2, <1>3, <1>4, <1>5, <1>6, <1>7, <1>8, <1>9, <1>10, Zenon
       DEF OverviewNext

\* The containers of a project: its flags.
LEMMA OverviewKeeps ==
  ASSUME OverviewNext, AreRequests(net), "busy" \in DOMAIN ui, OverviewFlags
  PROVE  AreRequests(net)' /\ "busy" \in DOMAIN ui' /\ OverviewFlags'
<1>1. page = "overview" /\ page' = page
  BY OverviewStays DEF OverviewNext, session
<1>2. /\ "timer" \in DOMAIN ui /\ ui.timer \in BOOLEAN
      /\ ui.busy \subseteq {"loading", "syncing", "action"}
      /\ ("syncing" \in ui.busy <=> Waits({"sync"})) /\ One({"sync"})
      /\ "loading" \in ui.busy => Waits({"refresh"})
      /\ "action" \in ui.busy <=> Waits({"action"}) \/ ui.timer = TRUE
      /\ ~(Waits({"action"}) /\ ui.timer = TRUE) /\ One({"action"})
      /\ ~Waits(Guarded \ {"sync", "action"})
  BY <1>1 DEF OverviewFlags, Exactly, During, NoOther
<1>3. /\ AreRequests(net)' /\ "busy" \in DOMAIN ui' /\ "timer" \in DOMAIN ui' /\ ui'.timer \in BOOLEAN
      /\ ui'.busy \subseteq {"loading", "syncing", "action"}
      /\ ("syncing" \in ui'.busy <=> Waits({"sync"})') /\ One({"sync"})'
      /\ "loading" \in ui'.busy => Waits({"refresh"})'
      /\ "action" \in ui'.busy <=> Waits({"action"})' \/ ui'.timer = TRUE
      /\ ~(Waits({"action"})' /\ ui'.timer = TRUE) /\ One({"action"})'
      /\ ~Waits(Guarded \ {"sync", "action"})'
  <2>. USE DEF Busy, Timer
  <2>1. CASE Busy(ui.busy) /\ Timer(ui.timer) /\ Stays
    BY <1>2, <2>1, StaysKeeps
  <2>2. CASE /\ Busy(ui.busy \cup {"loading"}) /\ Timer(ui.timer)
             /\ Asked("refresh")
    BY <1>2, <2>2, AskedKeeps DEF Guarded
  <2>3. CASE /\ Busy(ui.busy \ {"loading"}) /\ Timer(ui.timer)
             /\ Drops({"refresh"})
    BY <1>2, <2>3, DropsKeeps DEF Guarded
  <2>4. CASE /\ "syncing" \notin ui.busy
             /\ Busy(ui.busy \cup {"syncing"}) /\ Timer(ui.timer) /\ Asked("sync")
    BY <1>2, <2>4, AskedKeeps DEF Guarded
  <2>5. CASE /\ Busy((ui.busy \ {"syncing"}) \cup {"loading"}) /\ Timer(ui.timer)
             /\ Swaps({"sync"}, "refresh")
    BY <1>2, <2>5, SwapsKeeps DEF Guarded
  <2>6. CASE Busy(ui.busy \ {"syncing"}) /\ Timer(ui.timer) /\ Drops({"sync"})
    BY <1>2, <2>6, DropsKeeps DEF Guarded
  <2>7. CASE /\ "action" \notin ui.busy
             /\ Busy(ui.busy \cup {"action"}) /\ Timer(ui.timer) /\ Asked("action")
    BY <1>2, <2>7, AskedKeeps DEF Guarded
  <2>8. CASE /\ ui.timer = TRUE
             /\ Busy((ui.busy \ {"action"}) \cup {"loading"}) /\ Timer(FALSE)
             /\ Asked("refresh")
    <3>1. /\ AreRequests(net)' /\ One({"action"})' /\ One({"sync"})' /\ Waits({"refresh"})'
          /\ ~Waits({"action"})' /\ (Waits({"sync"})' <=> Waits({"sync"}))
          /\ ~Waits(Guarded \ {"sync", "action"})'
      BY <1>2, <2>8, AskedKeeps DEF Guarded
    <3>2. /\ "busy" \in DOMAIN ui' /\ "timer" \in DOMAIN ui' /\ ui'.timer = FALSE
          /\ ui'.busy = (ui.busy \ {"action"}) \cup {"loading"}
      BY <2>8
    <3>3. "syncing" \in ui'.busy <=> Waits({"sync"})'
      BY <1>2, <3>1, <3>2
    <3>. QED BY <1>2, <3>1, <3>2, <3>3
  <2>9. CASE Busy(ui.busy) /\ Timer(TRUE) /\ Drops({"action"})
    BY <1>2, <2>9, DropsKeeps DEF Guarded
  <2>10. CASE Busy(ui.busy \ {"action"}) /\ Timer(ui.timer) /\ Drops({"action"})
    BY <1>2, <2>10, DropsKeeps DEF Guarded
  <2>11. ui.timer => ui.timer = TRUE
    BY <1>2
  <2>. HIDE DEF Busy, Timer
  <2>. QED BY <1>2, <2>1, <2>2, <2>3, <2>4, <2>5, <2>6, <2>7, <2>8, <2>9, <2>10,
              <2>11, OverviewMoves, Zenon
<1>. QED BY <1>1, <1>3 DEF OverviewFlags, Exactly, During, NoOther

\* Signing in and out: what its actions do.
LEMMA SessionMoves ==
  ASSUME SessionNext, "busy" \in DOMAIN ui
  PROVE  \/ Busy(ui.busy) /\ \/ Stays \/ Asked("setupCheck") \/ Asked("logout")
                             \/ Drops({"setupCheck", "logout"}) \/ Swaps({"login"}, "loginMe")
                             \/ Swaps({"setupCheck", "logout"}, "setupCheck")
         \/ Busy(ui.busy \ {"loading"}) /\ Drops({"me"})
         \/ /\ "submitting" \notin ui.busy /\ Busy(ui.busy \cup {"submitting"})
            /\ Asked("login") \/ Asked("setup")
         \/ /\ Busy(ui.busy \ {"submitting"})
            /\ Drops({"login", "loginMe", "setup"}) \/ Swaps({"setup"}, "setupCheck")
<1>1. ServeMe \/ ServeLogin \/ ServeSetup \/ ServeLogout => Busy(ui.busy) /\ Stays
  BY DEF ServeMe, ServeLogin, ServeSetup, ServeLogout, Does, Makes, Finds,
         ServerIs, NetOnly, Stays, Marked, Busy
<1>2. MeAnswered => Busy(ui.busy \ {"loading"}) /\ Drops({"me"})
  BY DEF MeAnswered, Then, ThenAsks, Arrived, Catch, Failed, PageIs, Drops,
         Removed, Busy
<1>3. Protect \/ SignedIn => Busy(ui.busy) /\ (Stays \/ Asked("setupCheck"))
  BY DEF Protect, SignedIn, Goes, PageIs, Stays, Asked, Busy
<1>4. SetupChecked
      => Busy(ui.busy) /\ (Drops({"setupCheck", "logout"}) \/ Swaps({"setupCheck", "logout"}, "setupCheck"))
  BY DEF SetupChecked, Arrived, PageIs, NetOnly, Drops, Removed, Swaps, Swapped,
         Busy
<1>5. SubmitLogin =>
       /\ "submitting" \notin ui.busy
       /\ Busy(ui.busy \cup {"submitting"}) /\ Asked("login")
  BY DEF SubmitLogin, Asks, PageIs, Asked, Busy
<1>6. LoginAccepted => Busy(ui.busy) /\ Swaps({"login"}, "loginMe")
  BY DEF LoginAccepted, ThenAsks, Arrived, PageIs, Swaps, Swapped, Busy
<1>7. LoggedIn => Busy(ui.busy \ {"submitting"}) /\ Drops({"login", "loginMe", "setup"})
  BY DEF LoggedIn, Then, ThenAsks, Arrived, Catch, Failed, PageIs, Drops,
         Removed, Busy
<1>8. SubmitSetup =>
       /\ "submitting" \notin ui.busy
       /\ Busy(ui.busy \cup {"submitting"}) /\ Asked("setup")
  BY DEF SubmitSetup, Asks, PageIs, Asked, Busy
<1>9. SetUp =>
       /\ Busy(ui.busy \ {"submitting"})
       /\ Drops({"login", "loginMe", "setup"}) \/ Swaps({"setup"}, "setupCheck")
  BY DEF SetUp, Catch, Failed, Drops, Removed, ThenAsks, Arrived, PageIs, Swaps,
         Swapped, Busy
<1>10. ClickLogout => Busy(ui.busy) /\ Asked("logout")
  BY DEF ClickLogout, Asks, PageIs, Asked, Busy
<1>11. LoggedOut => Busy(ui.busy) /\ Swaps({"setupCheck", "logout"}, "setupCheck")
  BY DEF LoggedOut, ThenAsks, Arrived, PageIs, Swaps, Swapped, Busy
<1>12. Tells("setupCheck", srv.setup) => Busy(ui.busy) /\ Stays
  BY TellsStays DEF Busy
<1>13. DropError({"setupCheck", "logout"}) => Busy(ui.busy) /\ Drops({"setupCheck", "logout"})
  BY SilentDrops DEF Busy
<1>14. Fault => Busy(ui.busy) /\ Stays
  BY FaultStays DEF Busy
<1>. QED BY <1>1, <1>2, <1>3, <1>4, <1>5, <1>6, <1>7, <1>8, <1>9, <1>10, <1>11,
       <1>12, <1>13, <1>14, Zenon DEF SessionNext

\* Signing in and out: its flags.
LEMMA SessionKeeps ==
  ASSUME SessionNext, AreRequests(net), "busy" \in DOMAIN ui, SessionFlags
  PROVE  AreRequests(net)' /\ "busy" \in DOMAIN ui' /\ SessionFlags'
<1>1. page = "session" /\ page' = page
  BY SessionStays DEF SessionNext
<1>. QED BY <1>1, SessionMoves, StaysKeeps, DropsKeeps, AskedKeeps, SwapsKeeps
         DEF SessionFlags, Exactly, During, NoOther, Guarded, Busy, Modal

\* The pages that ask the server for nothing.
LEMMA LogsKeeps ==
  ASSUME LogsNext, AreRequests(net), "busy" \in DOMAIN ui, IdleFlags
  PROVE  AreRequests(net)' /\ "busy" \in DOMAIN ui' /\ IdleFlags'
<1>1. page = "logs" /\ page' = page
  BY LogsStays DEF LogsNext, session
<1>2. net' = net /\ Busy(ui.busy)
  BY DEF LogsNext, OpenLog, CloseLog, ContainerLogs, LogMessage, LogError,
         Becomes, Elsewhere, PageIs, ServerIs, Busy
<1>. QED BY <1>1, <1>2 DEF IdleFlags, IdlePages, NoOther, Waits, Busy

\* The bar of stages.
LEMMA PipelineKeeps ==
  ASSUME PipelineNext, AreRequests(net), "busy" \in DOMAIN ui, IdleFlags
  PROVE  AreRequests(net)' /\ "busy" \in DOMAIN ui' /\ IdleFlags'
<1>1. page = "pipeline" /\ page' = page
  BY PipelineStays DEF PipelineNext
<1>2. net' = net /\ Busy(ui.busy)
  BY DEF PipelineNext, EngineEnters, EngineFails, EngineWritesOther,
         PipelineMessage, PipelineStops, Becomes, Elsewhere, PageIs, ServerIs,
         Busy
<1>. QED BY <1>1, <1>2 DEF IdleFlags, IdlePages, NoOther, Waits, Busy

\* The navigation.
LEMMA NavKeeps ==
  ASSUME NavNext, AreRequests(net), "busy" \in DOMAIN ui, IdleFlags
  PROVE  AreRequests(net)' /\ "busy" \in DOMAIN ui' /\ IdleFlags'
<1>1. page = "nav" /\ page' = page
  BY NavStays DEF NavNext
<1>2. net' = net /\ Busy(ui.busy)
  BY DEF NavNext, DropOn, ToggleHidden, ToggleEditing, ResetNav, SwitchUser,
         Becomes, PageIs, Busy
<1>. QED BY <1>1, <1>2 DEF IdleFlags, IdlePages, NoOther, Waits, Busy

-----------------------------------------------------------------------------
(* The projects of the dashboard, whose modal may be closed and opened for *)
(* another project while it deletes                                        *)

\* Taking one off a sequence leaves the others.
LEMMA RemoveRest ==
  ASSUME NEW q, AreRequests(q), NEW i \in DOMAIN q
  PROVE  /\ \A k \in DOMAIN RemoveAt(q, i) : \E j \in DOMAIN q : RemoveAt(q, i)[k] = q[j]
         /\ \A j \in DOMAIN q : j # i => \E k \in DOMAIN RemoveAt(q, i) : RemoveAt(q, i)[k] = q[j]
<1>. DEFINE r     == RemoveAt(q, i)
            At(k) == IF k < i THEN k ELSE k + 1
<1>0. PICK S : q \in Seq(S) /\ \A x \in S : IsRequest(x)
  BY DEF AreRequests
<1>1. i \in 1..Len(q) /\ DOMAIN q = 1..Len(q)
  BY <1>0
<1>2. /\ r \in Seq(S) /\ Len(r) = Len(q) - 1
      /\ \A k \in 1..Len(q) - 1 : r[k] = q[At(k)]
  BY <1>0, <1>1, RemoveAtEffect
<1>. HIDE DEF r
<1>3. DOMAIN r = 1..Len(q) - 1
  BY <1>1, <1>2
<1>4. \A k \in DOMAIN r : At(k) \in DOMAIN q /\ r[k] = q[At(k)]
  BY <1>1, <1>2, <1>3
<1>5. ASSUME NEW j \in DOMAIN q, j # i
      PROVE  \E k \in DOMAIN r : r[k] = q[j]
  <2>1. CASE j < i
    BY <1>1, <1>3, <1>4, <2>1
  <2>2. CASE ~(j < i)
    <3>1. j - 1 \in DOMAIN r /\ At(j - 1) = j
      BY <1>1, <1>3, <1>5, <2>2
    <3>. QED BY <1>4, <3>1
  <2>. QED BY <2>1, <2>2
<1>. HIDE DEF At
<1>. QED BY <1>4, <1>5, Zenon DEF r

\* What is left are the deletions of other projects, still rightly answered.
LEMMA RemoveDeletes ==
  ASSUME NEW q, AreRequests(q), NEW i \in DOMAIN q, AnswersIn(q)
  PROVE  /\ AnswersIn(RemoveAt(q, i))
         /\ \A p : DeletesIn(q, p) /\ (q[i].by # "delete" \/ q[i].arg # p) =>
                     DeletesIn(RemoveAt(q, i), p)
<1>. DEFINE r == RemoveAt(q, i)
<1>1. /\ \A k \in DOMAIN r : \E j \in DOMAIN q : r[k] = q[j]
      /\ \A j \in DOMAIN q : j # i => \E k \in DOMAIN r : r[k] = q[j]
  BY RemoveRest
<1>. HIDE DEF r
<1>2. AnswersIn(r)
  BY <1>1 DEF AnswersIn
<1>3. ASSUME NEW p, DeletesIn(q, p), q[i].by # "delete" \/ q[i].arg # p
      PROVE  DeletesIn(r, p)
  <2>1. PICK j \in DOMAIN q : q[j].by = "delete" /\ q[j].arg = p
    BY <1>3 DEF DeletesIn
  <2>2. j # i
    BY <1>3, <2>1
  <2>. QED BY <1>1, <2>1, <2>2, Zenon DEF DeletesIn
<1>. QED BY <1>2, <1>3 DEF r

\* A request that has just been sent has no answer yet.
LEMMA AppendDeletes ==
  ASSUME NEW q, AreRequests(q), NEW x, IsRequest(x), x.state = "sent", AnswersIn(q)
  PROVE  /\ AnswersIn(q \o <<x>>)
         /\ \A p : DeletesIn(q, p) => DeletesIn(q \o <<x>>, p)
         /\ x.by = "delete" => DeletesIn(q \o <<x>>, x.arg)
<1>. DEFINE r == q \o <<x>>
<1>1. PICK S : q \in Seq(S) /\ \A y \in S : IsRequest(y)
  BY DEF AreRequests
<1>2. q \in Seq(S \cup {x}) /\ <<x>> \in Seq(S \cup {x})
  BY <1>1
<1>3. /\ r \in Seq(S \cup {x}) /\ Len(r) = Len(q) + 1
      /\ \A k \in 1..Len(q) + 1 : r[k] = IF k <= Len(q) THEN q[k] ELSE <<x>>[k - Len(q)]
  BY <1>2
<1>. HIDE DEF r
<1>4. DOMAIN q = 1..Len(q) /\ Len(q) \in Nat /\ DOMAIN r = 1..Len(q) + 1
  BY <1>1, <1>3
<1>5. /\ \A k \in DOMAIN q : k \in DOMAIN r /\ r[k] = q[k]
      /\ Len(q) + 1 \in DOMAIN r /\ r[Len(q) + 1] = x
      /\ \A k \in DOMAIN r : k \in DOMAIN q \/ k = Len(q) + 1
  BY <1>3, <1>4
<1>6. AnswersIn(r)
  BY <1>5 DEF AnswersIn
<1>7. \A p : DeletesIn(q, p) => DeletesIn(r, p)
  BY <1>5, Zenon DEF DeletesIn
<1>8. x.by = "delete" => DeletesIn(r, x.arg)
  BY <1>5, Zenon DEF DeletesIn
<1>. QED BY <1>6, <1>7, <1>8 DEF r

\* The answer to a deletion is the project that was to be deleted.
RightlyMarked ==
  \E i \in DOMAIN net :
    \/ Refuse(i)
    \/ \E v : Reply(i, v) /\ (net[i].by = "delete" => v = net[i].arg)

\* The server answers a deletion with the project that was to be deleted.
LEMMA MarkedDeletes ==
  ASSUME AreRequests(net), RightlyMarked, AnswersIn(net)
  PROVE  AnswersIn(net)' /\ \A p : DeletesIn(net, p) => DeletesIn(net', p)
<1>1. PICK i \in DOMAIN net :
        \/ Refuse(i)
        \/ \E v : Reply(i, v) /\ (net[i].by = "delete" => v = net[i].arg)
  BY DEF RightlyMarked
<1>2. PICK S : net \in Seq(S) /\ \A x \in S : IsRequest(x)
  BY DEF AreRequests
<1>. DEFINE x == net[i]
<1>3. IsRequest(x)
  BY <1>2
<1>. HIDE DEF x
<1>4. \E r : /\ net' = [net EXCEPT ![i] = r] /\ r.by = x.by /\ r.arg = x.arg
             /\ r.by = "delete" /\ r.state = "done" => Head(r.reply) = r.arg
  <2>1. CASE Refuse(i)
    <3>. DEFINE r == [x EXCEPT !.state = "error"]
    <3>1. net' = [net EXCEPT ![i] = r]
      BY <1>2, <2>1 DEF Refuse, x
    <3>2. r.by = x.by /\ r.arg = x.arg /\ r.state = "error"
      BY <1>3 DEF IsRequest
    <3>. QED BY <3>1, <3>2
  <2>2. CASE \E v : Reply(i, v) /\ (net[i].by = "delete" => v = net[i].arg)
    <3>1. PICK v : Reply(i, v) /\ (x.by = "delete" => v = x.arg)
      BY <2>2 DEF x
    <3>. DEFINE s == [x EXCEPT !.state = "done"]
                r == [s EXCEPT !.reply = <<v>>]
    <3>2. net' = [net EXCEPT ![i] = r]
      BY <1>2, <3>1 DEF Reply, x
    <3>3. s.by = x.by /\ s.arg = x.arg /\ IsRequest(s)
      BY <1>3 DEF IsRequest
    <3>. HIDE DEF s
    <3>4. r.by = s.by /\ r.arg = s.arg /\ r.reply = <<v>>
      BY <3>3 DEF IsRequest
    <3>5. Head(r.reply) = v
      BY <3>4
    <3>. QED BY <3>1, <3>2, <3>3, <3>4, <3>5
  <2>. QED BY <1>1, <2>1, <2>2
<1>5. PICK r : /\ net' = [net EXCEPT ![i] = r] /\ r.by = x.by /\ r.arg = x.arg
               /\ r.by = "delete" /\ r.state = "done" => Head(r.reply) = r.arg
  BY <1>4
<1>6. /\ DOMAIN net' = DOMAIN net
      /\ \A k \in DOMAIN net : net'[k].by = net[k].by /\ net'[k].arg = net[k].arg
      /\ net'[i] = r /\ \A k \in DOMAIN net : k # i => net'[k] = net[k]
  BY <1>5 DEF x
<1>7. AnswersIn(net)'
  BY <1>5, <1>6, Zenon DEF AnswersIn
<1>8. \A p : DeletesIn(net, p) => DeletesIn(net', p)
  BY <1>6, Zenon DEF DeletesIn
<1>. QED BY <1>7, <1>8

\* The answer to one request leaves the deletions of other projects.
LEMMA TakenDeletes ==
  ASSUME AreRequests(net), NEW i \in DOMAIN net, Removed(i) \/ Swapped(i, "list"), AnswersIn(net)
  PROVE  /\ AnswersIn(net)'
         /\ \A p : DeletesIn(net, p) /\ (net[i].by # "delete" \/ net[i].arg # p) =>
                     DeletesIn(net', p)
<1>1. CASE Removed(i)
  <2>1. net' = RemoveAt(net, i)
    BY <1>1, RemoveIn DEF Removed, Handled, HandledThen
  <2>. QED BY <2>1, RemoveDeletes
<1>2. CASE Swapped(i, "list")
  <2>1. PICK call, arg : HandledThen(i, <<Request("list", call, arg)>>)
    BY <1>2 DEF Swapped
  <2>. DEFINE x == Request("list", call, arg)
  <2>2. net' = RemoveAt(net, i) \o <<x>> /\ IsRequest(x) /\ x.state = "sent"
    BY <2>1 DEF HandledThen, Request, IsRequest
  <2>. HIDE DEF x
  <2>3. AreRequests(RemoveAt(net, i))
    BY RemoveIn
  <2>4. /\ AnswersIn(RemoveAt(net, i))
        /\ \A p : DeletesIn(net, p) /\ (net[i].by # "delete" \/ net[i].arg # p) =>
                    DeletesIn(RemoveAt(net, i), p)
    BY RemoveDeletes
  <2>. QED BY <2>2, <2>3, <2>4, AppendDeletes
<1>. QED BY <1>1, <1>2

\* The flag of the modal of a deletion, action by action.
LEMMA DashboardKeeps ==
  ASSUME DashboardNext, AreRequests(net), "busy" \in DOMAIN ui, DashboardFlags
  PROVE  AreRequests(net)' /\ "busy" \in DOMAIN ui' /\ DashboardFlags'
<1>1. page = "dashboard" /\ page' = page
  BY DashboardStays DEF DashboardNext, session
<1>2. /\ "asks" \in DOMAIN ui /\ ui.busy \subseteq {"deleting"}
      /\ ~Waits(Guarded \ {}) /\ AnswersIn(net)
      /\ "deleting" \in ui.busy => ui.asks # 0 /\ DeletesIn(net, ui.asks)
  BY <1>1 DEF DashboardFlags, NoOther
<1>. DEFINE Same == {"busy", "asks"} \subseteq DOMAIN ui' /\ ui'.busy = ui.busy /\ ui'.asks = ui.asks
            Goal == /\ AreRequests(net)' /\ {"busy", "asks"} \subseteq DOMAIN ui'
                    /\ ui'.busy \subseteq {"deleting"}
                    /\ ~Waits(Guarded \ {})' /\ AnswersIn(net)'
                    /\ "deleting" \in ui'.busy => ui'.asks # 0 /\ DeletesIn(net', ui'.asks)
<1>. SUFFICES Goal
  BY <1>1 DEF DashboardFlags, NoOther
<1>3. ASSUME Same, NEW i \in DOMAIN net, net[i].by \in {"syncAll", "list"},
             Removed(i) \/ Swapped(i, "list")
      PROVE  Goal
  <2>1. AnswersIn(net)' /\ (DeletesIn(net, ui.asks) => DeletesIn(net', ui.asks))
    BY <1>2, <1>3, TakenDeletes
  <2>2. AreRequests(net)' /\ ~Waits(Guarded \ {})'
    <3>1. CASE Removed(i)
      BY <1>2, <3>1, RemovedKeeps
    <3>2. CASE Swapped(i, "list")
      BY <1>2, <1>3, <3>2, SwappedKeeps DEF Guarded
    <3>. QED BY <1>3, <3>1, <3>2
  <2>. QED BY <1>2, <1>3, <2>1, <2>2
<1>4. ASSUME Same, net' = net
      PROVE  Goal
  BY <1>2, <1>4, StaysKeeps DEF Stays
<1>5. ASSUME Same, RightlyMarked
      PROVE  Goal
  <2>1. Marked
    BY <1>5, Zenon DEF RightlyMarked, Marked
  <2>2. AreRequests(net)' /\ ~Waits(Guarded \ {})'
    BY <1>2, <2>1, MarkedKeeps
  <2>. QED BY <1>2, <1>5, <2>2, MarkedDeletes
<1>6. CASE ProjectsLoaded
  <2>1. CASE \E by \in {"syncAll", "list"} :
               Then(by, LAMBDA ps : [ui EXCEPT !.list = ps, !.match = ps])
    <3>1. \E i \in DOMAIN net : net[i].by \in {"syncAll", "list"} /\ Removed(i) /\ Same
      BY <1>2, <2>1 DEF Then, ThenAsks, Arrived, PageIs, Removed
    <3>. HIDE DEF Same, Goal
    <3>. QED BY <1>3, <3>1
  <2>2. CASE \E i \in DOMAIN net :
               /\ Failed(i, "syncAll")
               /\ HandledThen(i, <<Request("list", "listProjects", NoArg)>>)
               /\ PageIs(ui)
    <3>1. \E i \in DOMAIN net : net[i].by \in {"syncAll", "list"} /\ Swapped(i, "list") /\ Same
      BY <1>2, <2>2 DEF Failed, PageIs, Swapped
    <3>. HIDE DEF Same, Goal
    <3>. QED BY <1>3, <3>1
  <2>. QED BY <1>6, <2>1, <2>2, Zenon DEF ProjectsLoaded
<1>7. CASE Search \/ TurnPage
  <2>1. Same /\ net' = net
    BY <1>2, <1>7 DEF Search, TurnPage, Becomes, PageIs
  <2>. QED BY <1>4, <2>1, Zenon
<1>8. CASE OpenDelete
  <2>1. /\ net' = net /\ ui'.busy = ui.busy /\ {"busy", "asks"} \subseteq DOMAIN ui'
        /\ ui.asks = 0
    BY <1>2, <1>8 DEF OpenDelete, Becomes, PageIs
  <2>2. AreRequests(net)' /\ ~Waits(Guarded \ {})'
    BY <1>2, <2>1, StaysKeeps DEF Stays
  <2>. QED BY <1>2, <2>1, <2>2
<1>9. CASE CloseDelete
  <2>1. net' = net /\ ui'.busy = {} /\ {"busy", "asks"} \subseteq DOMAIN ui'
    BY <1>2, <1>9 DEF CloseDelete, NoDelete, Becomes, PageIs
  <2>2. AreRequests(net)' /\ ~Waits(Guarded \ {})'
    BY <1>2, <2>1, StaysKeeps DEF Stays
  <2>. QED BY <1>2, <2>1, <2>2
<1>10. CASE ConfirmDelete
  <2>. DEFINE x == Request("delete", "deleteProject", ui.asks)
  <2>1. /\ ui.asks # 0 /\ net' = net \o <<x>> /\ Asked("delete")
        /\ {"busy", "asks"} \subseteq DOMAIN ui' /\ ui'.busy = {"deleting"} /\ ui'.asks = ui.asks
    BY <1>2, <1>10 DEF ConfirmDelete, Asks, Send, Sends, PageIs, Asked
  <2>2. IsRequest(x) /\ x.by = "delete" /\ x.arg = ui.asks /\ x.state = "sent"
    BY DEF Request, IsRequest
  <2>. HIDE DEF x
  <2>3. AnswersIn(net)' /\ DeletesIn(net', ui.asks)
    BY <1>2, <2>1, <2>2, AppendDeletes
  <2>4. AreRequests(net)' /\ ~Waits(Guarded \ {})'
    BY <1>2, <2>1, AskedKeeps DEF Guarded
  <2>. QED BY <2>1, <2>3, <2>4
<1>11. CASE Deleted
  <2>1. ASSUME NEW i \in DOMAIN net, net[i].by = "delete", Removed(i),
               {"busy", "asks"} \subseteq DOMAIN ui',
               \/ ui'.busy = {}
               \/ net[i].arg # ui.asks /\ ui'.busy = ui.busy /\ ui'.asks = ui.asks
        PROVE  Goal
    <3>1. /\ AnswersIn(net)'
          /\ net[i].arg # ui.asks /\ DeletesIn(net, ui.asks) => DeletesIn(net', ui.asks)
      BY <1>2, <2>1, TakenDeletes
    <3>2. AreRequests(net)' /\ ~Waits(Guarded \ {})'
      BY <1>2, <2>1, RemovedKeeps
    <3>. QED BY <1>2, <2>1, <3>1, <3>2
  <2>2. CASE Then("delete", LAMBDA p : [IF ui.asks = p THEN NoDelete ELSE ui
                                        EXCEPT !.list = @ \ {p}, !.match = @ \ {p}])
    <3>1. PICK i \in DOMAIN net :
            /\ net[i].by = "delete" /\ net[i].state = "done" /\ Removed(i)
            /\ ui' = [IF ui.asks = Answer(i) THEN NoDelete ELSE ui
                      EXCEPT !.list = @ \ {Answer(i)}, !.match = @ \ {Answer(i)}]
      BY <2>2 DEF Then, ThenAsks, Arrived, PageIs, Removed
    <3>2. Answer(i) = net[i].arg
      BY <1>2, <3>1 DEF AnswersIn, Answer
    <3>3. {"busy", "asks"} \subseteq DOMAIN ui'
      BY <1>2, <3>1 DEF NoDelete
    <3>4. CASE ui.asks = Answer(i)
      <4>1. ui'.busy = {}
        BY <1>2, <3>1, <3>4 DEF NoDelete
      <4>. HIDE DEF Goal
      <4>. QED BY <2>1, <3>1, <3>3, <4>1
    <3>5. CASE ui.asks # Answer(i)
      <4>1. ui'.busy = ui.busy /\ ui'.asks = ui.asks
        BY <1>2, <3>1, <3>5
      <4>. HIDE DEF Goal
      <4>. QED BY <2>1, <3>1, <3>2, <3>3, <3>5, <4>1
    <3>. QED BY <3>4, <3>5
  <2>3. CASE \E i \in DOMAIN net :
               /\ Failed(i, "delete") /\ Handled(i)
               /\ PageIs(IF ui.asks = net[i].arg THEN [ui EXCEPT !.busy = {}] ELSE ui)
    <3>1. PICK i \in DOMAIN net :
            /\ net[i].by = "delete" /\ Removed(i)
            /\ ui' = IF ui.asks = net[i].arg THEN [ui EXCEPT !.busy = {}] ELSE ui
      BY <2>3 DEF Failed, PageIs, Removed
    <3>2. /\ {"busy", "asks"} \subseteq DOMAIN ui'
          /\ \/ ui'.busy = {}
             \/ net[i].arg # ui.asks /\ ui'.busy = ui.busy /\ ui'.asks = ui.asks
      BY <1>2, <3>1
    <3>. HIDE DEF Goal
    <3>. QED BY <2>1, <3>1, <3>2
  <2>. QED BY <1>11, <2>2, <2>3, Zenon DEF Deleted
<1>12. CASE ServeDelete
  <2>1. Same /\ RightlyMarked
    BY <1>2, <1>12 DEF ServeDelete, Does, Makes, ServerIs, NetOnly, RightlyMarked
  <2>. QED BY <1>5, <2>1, Zenon
<1>13. CASE \E by \in {"syncAll", "list"} : Tells(by, srv.projects)
  <2>1. Same /\ RightlyMarked
    BY <1>2, <1>13 DEF Tells, Finds, Served, NetOnly, RightlyMarked
  <2>. QED BY <1>5, <2>1, Zenon
<1>14. CASE Forbid \/ Fault
  <2>1. Same /\ RightlyMarked
    BY <1>2, <1>14 DEF Forbid, Fault, NetOnly, RightlyMarked
  <2>. QED BY <1>5, <2>1, Zenon
<1>. QED BY <1>6, <1>7, <1>8, <1>9, <1>10, <1>11, <1>12, <1>13, <1>14, Zenon
         DEF DashboardNext

-----------------------------------------------------------------------------
(* All pages *)

\* A page opens with no request under way,
LEMMA AsksNothing ==
  ASSUME net = <<>>, NEW W
  PROVE  AreRequests(net) /\ ~Waits(W) /\ One(W)
<1>1. net \in Seq({}) /\ DOMAIN net = {}
  OBVIOUS
<1>. QED BY <1>1 DEF AreRequests, Waits, WaitsIn, One, OneIn

\* with one,
LEMMA AsksOne ==
  ASSUME NEW by, NEW call, NEW arg, net = <<Request(by, call, arg)>>, NEW W
  PROVE  AreRequests(net) /\ (Waits(W) <=> by \in W) /\ One(W)
<1>. DEFINE x == Request(by, call, arg)
<1>1. IsRequest(x) /\ x.by = by
  BY DEF Request, IsRequest
<1>. HIDE DEF x
<1>2. net = <<x>>
  BY DEF x
<1>3. net \in Seq({x}) /\ DOMAIN net = {1} /\ net[1] = x
  BY <1>2
<1>4. AreRequests(net)
  <2>. DEFINE S == {x}
  <2>1. net \in Seq(S) /\ \A z \in S : IsRequest(z)
    BY <1>1, <1>3
  <2>. HIDE DEF S
  <2>. QED BY <2>1 DEF AreRequests
<1>5. Waits(W) <=> by \in W
  BY <1>1, <1>3 DEF Waits, WaitsIn
<1>6. One(W)
  BY <1>3 DEF One, OneIn
<1>. QED BY <1>4, <1>5, <1>6

\* or with two.
LEMMA AsksTwo ==
  ASSUME NEW by, NEW call, NEW arg, NEW by2, NEW call2, NEW arg2,
         net = <<Request(by, call, arg), Request(by2, call2, arg2)>>, NEW W
  PROVE  /\ AreRequests(net) /\ (Waits(W) <=> by \in W \/ by2 \in W)
         /\ by \notin W \/ by2 \notin W => One(W)
<1>. DEFINE x == Request(by, call, arg)
            y == Request(by2, call2, arg2)
<1>1. IsRequest(x) /\ x.by = by /\ IsRequest(y) /\ y.by = by2
  BY DEF Request, IsRequest
<1>. HIDE DEF x, y
<1>2. net = <<x, y>>
  BY DEF x, y
<1>3. net \in Seq({x, y}) /\ DOMAIN net = {1, 2} /\ net[1] = x /\ net[2] = y
  BY <1>2
<1>4. AreRequests(net)
  <2>. DEFINE S == {x, y}
  <2>1. net \in Seq(S) /\ \A z \in S : IsRequest(z)
    BY <1>1, <1>3
  <2>. HIDE DEF S
  <2>. QED BY <2>1 DEF AreRequests
<1>5. Waits(W) <=> by \in W \/ by2 \in W
  BY <1>1, <1>3 DEF Waits, WaitsIn
<1>6. by \notin W \/ by2 \notin W => One(W)
  BY <1>1, <1>3 DEF One, OneIn
<1>. QED BY <1>4, <1>5, <1>6

\* The flags of a page that has just been mounted.
LEMMA FlagsStart ==
  ASSUME ProjectsInit
  PROVE  FlagsInv
<1>. USE DEF FlagsInv, Flags, DeployPages, IdlePages, OtherPages, Opens, IdleFlags, TagsFlags,
         ComposeFlags, NewProjectFlags, ExecFlags, DeploySettingsFlags, ProjectFlags,
         FileBrowserFlags, EnvFlags, OverviewFlags, SessionFlags, DashboardFlags,
         Exactly, During, NoOther, Guarded
<1>1. CASE DeployInit \/ ModalInit
  BY <1>1 DEF DeployInit, ModalInit
<1>2. CASE ConfirmInit
  BY <1>2, AsksOne DEF ConfirmInit
<1>3. CASE TagsInit
  <2>1. /\ page = "tags" /\ net = <<Request("loadTags", "listDeployTags", NoArg)>>
        /\ ui.busy = {} /\ "busy" \in DOMAIN ui
    BY <1>3 DEF TagsInit
  <2>. QED BY <2>1, AsksOne
<1>4. CASE SchedulesInit
  BY <1>4, AsksOne DEF SchedulesInit
<1>5. CASE ComposeInit
  BY <1>5, AsksTwo DEF ComposeInit
<1>6. CASE DeploySettingsInit
  BY <1>6, AsksOne DEF DeploySettingsInit
<1>7. CASE EnvInit
  BY <1>7, AsksOne DEF EnvInit
<1>8. CASE ProjectInit
  BY <1>8, AsksOne DEF ProjectInit
<1>9. CASE OverviewInit
  BY <1>9, AsksOne DEF OverviewInit
<1>10. CASE NewProjectInit
  BY <1>10, AsksNothing DEF NewProjectInit
<1>11. CASE LogsInit \/ PipelineInit \/ NavInit
  BY <1>11, AsksNothing DEF LogsInit, PipelineInit, NavInit
<1>12. CASE ExecInit
  BY <1>12, AsksNothing DEF ExecInit
<1>13. CASE DashboardInit
  <2>1. net = <<Request("syncAll", "syncAllProjects", NoArg)>>
    BY <1>13 DEF DashboardInit
  <2>2. AnswersIn(net)
    BY <2>1 DEF AnswersIn, Request
  <2>. QED BY <1>13, <2>1, <2>2, AsksOne DEF DashboardInit
<1>14. CASE FileBrowserInit
  BY <1>14, AsksNothing DEF FileBrowserInit
<1>15. CASE SessionInit
  <2>1. \/ net = <<Request("me", "me", NoArg)>>
        \/ net = <<Request("me", "me", NoArg), Request("setupCheck", "setupStatus", NoArg)>>
    <3>1. PICK at \in {"app", "login", "setup"} :
            net = <<Request("me", "me", NoArg)>> \o
                  (IF at = "app" THEN <<>>
                   ELSE <<Request("setupCheck", "setupStatus", NoArg)>>)
      BY <1>15 DEF SessionInit
    <3>. DEFINE x == Request("me", "me", NoArg)
                y == Request("setupCheck", "setupStatus", NoArg)
    <3>. HIDE DEF x, y
    <3>2. <<x>> \o <<>> = <<x>> /\ <<x>> \o <<y>> = <<x, y>>
      <4>1. <<x>> \in Seq({x, y}) /\ <<y>> \in Seq({x, y}) /\ <<>> \in Seq({x, y})
        OBVIOUS
      <4>2. <<x>> \o <<>> = <<x>>
        BY <4>1
      <4>. DEFINE s == <<x>> \o <<y>>
                  u == <<x, y>>
      <4>3. /\ s \in Seq({x, y}) /\ Len(s) = 2 /\ s[1] = x /\ s[2] = y
            /\ u \in Seq({x, y}) /\ Len(u) = 2 /\ u[1] = x /\ u[2] = y
        BY <4>1
      <4>. HIDE DEF s, u
      <4>4. \A k \in 1 .. Len(s) : s[k] = u[k]
        BY <4>3
      <4>5. s = u
        BY <4>3, <4>4, SeqEqual
      <4>. QED BY <4>2, <4>5 DEF s, u
    <3>3. net = <<x>> \o (IF at = "app" THEN <<>> ELSE <<y>>)
      BY <3>1 DEF x, y
    <3>4. net = <<x>> \/ net = <<x, y>>
      BY <3>2, <3>3
    <3>. QED BY <3>4 DEF x, y
  <2>. QED BY <1>15, <2>1, AsksOne, AsksTwo DEF SessionInit
<1>. HIDE DEF FlagsInv
<1>. QED BY <1>1, <1>2, <1>3, <1>4, <1>5, <1>6, <1>7, <1>8, <1>9, <1>10, <1>11, <1>12,
            <1>13, <1>14, <1>15, Zenon DEF ProjectsInit

\* The pages that deploy stay mounted, and have no such flags.
LEMMA DeployPagesStay ==
  ASSUME DeployNext \/ ModalNext
  PROVE  page \in DeployPages /\ page' = page
BY DEF DeployNext, ModalNext, DeployPages, StartDeploy, DeployStarted, DeployRefused,
  StreamMessage, StreamError, StreamBreaks, TriggerDeploy, Goroutine, EngineStarts,
  EngineLogs, EngineEnds, PublishError, PublishStatus, EngineCloses, HubSends, HubForwards,
  DeploymentsLoaded, ModalStarted, ModalRefused, ModalMessage, ModalStreamError,
  ClickCancelDeploy, ServeCancelDeploy, PageIs, ServerIs, NetOnly, Becomes, Asks, Elsewhere,
  Finds, Tells, Makes, Does, ThenAsks, Then, Catch, Finally, Forbid, Fault, DropError,
  session

\* Every action of every page keeps them.
LEMMA FlagsMove ==
  ASSUME FlagsInv, [ProjectsNext]_webVars
  PROVE  FlagsInv'
<1>1. CASE DeployNext \/ ModalNext
  BY <1>1, DeployPagesStay DEF FlagsInv
<1>2. CASE UNCHANGED webVars
  <2>1. page' = page /\ ui' = ui /\ net' = net
    BY <1>2 DEF webVars
  <2>. QED BY <2>1, Zenon
       DEF FlagsInv, Flags, IdleFlags, TagsFlags, ComposeFlags, NewProjectFlags, ExecFlags,
           DeploySettingsFlags, ProjectFlags, FileBrowserFlags, EnvFlags, OverviewFlags,
           SessionFlags, DashboardFlags, Exactly, During, NoOther, Waits, One
<1>3. CASE ProjectsNext /\ ~DeployNext /\ ~ModalNext
  <2>1. page' = page /\ page \notin DeployPages
    BY <1>3, PageStays
  <2>2. AreRequests(net) /\ "busy" \in DOMAIN ui /\ Flags
    BY <2>1 DEF FlagsInv
  <2>. SUFFICES AreRequests(net)' /\ "busy" \in DOMAIN ui' /\ Flags'
    BY <2>1 DEF FlagsInv
  <2>. USE DEF Flags, IdleFlags, IdlePages, TagsFlags, ComposeFlags, NewProjectFlags,
           ExecFlags, DeploySettingsFlags, ProjectFlags, FileBrowserFlags, EnvFlags,
           OverviewFlags, SessionFlags, DashboardFlags
  <2>3. CASE ConfirmNext \/ SchedulesNext \/ LogsNext \/ PipelineNext \/ NavNext
    BY <2>1, <2>2, <2>3, ConfirmKeeps, SchedulesKeeps, LogsKeeps, PipelineKeeps, NavKeeps
       DEF ConfirmNext, SchedulesNext, LogsNext, PipelineNext, NavNext
  <2>4. CASE TagsNext \/ ComposeNext \/ DeploySettingsNext
    BY <2>1, <2>2, <2>4, TagsKeeps, ComposeKeeps, DeploySettingsKeeps
       DEF TagsNext, ComposeNext, DeploySettingsNext
  <2>5. CASE EnvNext \/ ProjectNext \/ OverviewNext
    BY <2>1, <2>2, <2>5, EnvKeeps, ProjectKeeps, OverviewKeeps
       DEF EnvNext, ProjectNext, OverviewNext
  <2>6. CASE NewProjectNext \/ ExecNext \/ FileBrowserNext
    BY <2>1, <2>2, <2>6, NewProjectKeeps, ExecKeeps, FileBrowserKeeps
       DEF NewProjectNext, ExecNext, FileBrowserNext
  <2>7. CASE DashboardNext \/ SessionNext
    BY <2>1, <2>2, <2>7, DashboardKeeps, SessionKeeps DEF DashboardNext, SessionNext
  <2>. HIDE DEF Flags
  <2>. QED BY <1>3, <2>3, <2>4, <2>5, <2>6, <2>7, Zenon DEF ProjectsNext
<1>. QED BY <1>1, <1>2, <1>3

\* The invariant, in every behaviour.
LEMMA FlagsInvHolds == ProjectsSpec => []FlagsInv
BY FlagsStart, FlagsMove, PTL DEF ProjectsSpec

\* No page ever has two requests under way for a write whose control it
\* disables meanwhile: however the answers come, and whatever else is clicked,
\* a write is not submitted twice (the busy flags of the pages).
THEOREM OneWriteCorrect == ProjectsSpec => []OneWrite
<1>1. FlagsInv /\ DeployInv => OneWrite
  <2>. SUFFICES ASSUME FlagsInv, DeployInv, NEW i \in DOMAIN net, NEW j \in DOMAIN net,
                       net[i].by = net[j].by, net[i].by \in Guarded
                PROVE  i = j
    BY DEF OneWrite
  <2>1. page \notin DeployPages
    <3>. SUFFICES ASSUME page \in DeployPages PROVE FALSE
      OBVIOUS
    <3>1. net \in Seq(RequestType)
      BY DEF DeployInv, NetInv
    <3>2. net[i] \in RequestType
      BY <3>1
    <3>. QED BY <3>2 DEF RequestType, Guarded
  <2>. DEFINE b == net[i].by
  <2>2. \A W : NoOther(W) => b \in W
    BY DEF NoOther, Waits, WaitsIn
  <2>3. \A W : One(W) /\ b \in W => i = j
    BY DEF One, OneIn
  <2>. HIDE DEF b
  <2>4. b \in Guarded
    BY DEF b
  <2>5. page \in OtherPages /\ Flags
    BY <2>1 DEF FlagsInv
  <2>6. CASE page \in IdlePages
    BY <2>2, <2>5, <2>6 DEF Flags, IdleFlags
  <2>7. CASE page = "tags"
    BY <2>2, <2>3, <2>5, <2>7 DEF Flags, TagsFlags, Exactly
  <2>8. CASE page \in {"compose", "composeTab"}
    BY <2>2, <2>3, <2>5, <2>8 DEF Flags, ComposeFlags, Exactly
  <2>9. CASE page = "newProject"
    BY <2>2, <2>3, <2>5, <2>9 DEF Flags, NewProjectFlags, Exactly
  <2>10. CASE page = "exec"
    BY <2>2, <2>3, <2>5, <2>10 DEF Flags, ExecFlags, Exactly
  <2>11. CASE page \in {"deploySettings", "project", "fileBrowser", "dashboard"}
    BY <2>2, <2>5, <2>11
    DEF Flags, DeploySettingsFlags, ProjectFlags, FileBrowserFlags, DashboardFlags
  <2>12. CASE page \in {"env", "envTab"}
    BY <2>2, <2>3, <2>5, <2>12 DEF Flags, EnvFlags, Exactly
  <2>13. CASE page = "overview"
    BY <2>2, <2>3, <2>5, <2>13 DEF Flags, OverviewFlags, Exactly
  <2>14. CASE page = "session"
    BY <2>2, <2>3, <2>5, <2>14 DEF Flags, SessionFlags, Exactly
  <2>. QED BY <2>5, <2>6, <2>7, <2>8, <2>9, <2>10, <2>11, <2>12, <2>13, <2>14
       DEF OtherPages
<1>. QED BY <1>1, FlagsInvHolds, DeployInvHolds, PTL

\* The flags of every page come down with the last answer, error or refusal:
\* no control stays disabled once nothing is under way, also when the answers
\* were overtaken, the modal was closed or opened for something else meanwhile.
THEOREM BusyEndsCorrect == ProjectsSpec => []BusyEnds
<1>1. FlagsInv /\ DeployInv => BusyEnds
  <2>. SUFFICES ASSUME FlagsInv, DeployInv, net = <<>>, "busy" \in DOMAIN ui
                PROVE  ui.busy = {} \/ (page = "overview" /\ ui.timer)
    BY DEF BusyEnds
  <2>1. page \notin DeployPages
    BY DEF DeployInv, PageInv, UiType, PageType, ModalType, DeployPages
  <2>2. \A W : ~Waits(W)
    BY AsksNothing
  <2>3. page \in OtherPages /\ Flags
    BY <2>1 DEF FlagsInv
  <2>4. \A p : ~DeletesIn(<<>>, p)
    BY DEF DeletesIn
  <2>5. ui.busy = {} \/ (page = "overview" /\ ui.timer)
    BY <2>2, <2>3, <2>4
    DEF OtherPages, Flags, IdleFlags, TagsFlags, ComposeFlags, NewProjectFlags, ExecFlags,
        DeploySettingsFlags, ProjectFlags, FileBrowserFlags, EnvFlags, OverviewFlags,
        SessionFlags, DashboardFlags, Exactly, During
  <2>. QED BY <2>5
<1>. QED BY <1>1, FlagsInvHolds, DeployInvHolds, PTL
=============================================================================
