--------------------------- MODULE DeployReleases ---------------------------
(***************************************************************************)
(* pages/DeployPage.tsx around the deployment: the confirmation and the     *)
(* versions it names, release tags, scheduled deployments and the settings. *)
(* These parts of the page share no state but the versions and are opened   *)
(* one at a time, each as a page of its own.  A version stands for a        *)
(* compose and an env version, which the page treats alike.                 *)
(***************************************************************************)
EXTENDS Browser

CONSTANTS
  MaxVersions,   \* versions ever saved
  TagNames,      \* names of tags
  MaxSchedules   \* scheduled deployments ever created

ASSUME ReleasesAssumption ==
  MaxVersions \in Nat \ {0} /\ MaxSchedules \in Nat /\ IsFiniteSet(TagNames)

Latest   == 0     \* the version of a request that names none
NoTarget == [open |-> FALSE, v |-> Latest]
Newest(vs) == IF vs = {} THEN 0 ELSE CHOOSE v \in vs : \A w \in vs : w <= v

-----------------------------------------------------------------------------
(* The confirmation and the versions *)

\* used: versions that a deployment record or a tag names; target: what the
\* confirmation asks about; diff: the version whose difference it shows.
ConfirmInit ==
  /\ Opens("confirm")
  /\ ui = [busy |-> {}, history |-> {}, target |-> NoTarget, diff |-> <<>>,
           picked |-> Latest]
  /\ srv \in [versions : {{1}, {1, 2}}, used : {{}, {1}}, saved : {2}]
  /\ net = <<Request("loadHistory", "composeHistory", NoArg)>>

SaveVersionElsewhere ==
  /\ srv.saved < MaxVersions
  /\ Elsewhere([srv EXCEPT !.saved = @ + 1, !.versions = @ \cup {srv.saved + 1}])

HistoryLoaded == Then("loadHistory", LAMBDA vs : [ui EXCEPT !.history = vs])

\* The pickers of the Releases tab: the latest, or a version of the history.
PickVersion ==
  \E v \in {Latest} \cup ui.history : ui.picked # v /\ Becomes([ui EXCEPT !.picked = v])

\* requestDeploy, and the effect that reads the difference.
RequestDeploy(v) ==
  /\ ~ui.target.open
  /\ Asks([ui EXCEPT !.target = [open |-> TRUE, v |-> v]], "diff", "deployDiff", v)

ClickDeployLatest ==
  ui.history # {} /\ Can("deploy") /\ RequestDeploy(Latest)

ClickRollbackTo == ui.history # {} /\ RequestDeploy(ui.picked)

\* Quick rollback and "Rollback to this" of a deployment of the list.
ClickRollbackToRecord == \E v \in srv.used : RequestDeploy(v)

DiffLoaded ==
  \/ Then("diff", LAMBDA v : [ui EXCEPT !.diff = <<v>>])
  \/ Catch("diff", [ui EXCEPT !.diff = <<>>])

NoConfirm == [ui EXCEPT !.target = NoTarget, !.diff = <<>>]

CancelConfirm == ui.target.open /\ Becomes(NoConfirm)

ConfirmDeploy ==
  ui.target.open /\ Asks(NoConfirm, "startDeploy", "triggerDeploy", ui.target.v)

\* What the server deploys for a request.
Resolved(v) == IF v = Latest THEN Newest(srv.versions) ELSE v

\* TriggerDeploy answers at once; its goroutine resolves the version, and a
\* version that is there gets a record.
ServeTrigger ==
  Does("startDeploy", LAMBDA v : TRUE,
       LAMBDA v : [srv EXCEPT !.used = @ \cup ({Resolved(v)} \cap srv.versions)])

\* Mutant: to every user.
ClickDeleteVersion_All ==
  \E v \in ui.history \ {Newest(ui.history)} :
    Asks(ui, "deleteVersion", "deleteComposeVersion", v)

\* Manage versions: the latest one shown cannot be deleted.
ClickDeleteVersion ==
  /\ Can("edit_compose")
  /\ \E v \in ui.history \ {Newest(ui.history)} :
       Asks(ui, "deleteVersion", "deleteComposeVersion", v)

\* DeleteComposeVersion: the latest one and those that tags or deployments name
\* are refused.
ServeDeleteVersion ==
  Does("deleteVersion",
       LAMBDA v : v \in srv.versions \ (srv.used \cup {Newest(srv.versions)}),
       LAMBDA v : [srv EXCEPT !.versions = @ \ {v}])

VersionDeleted == Then("deleteVersion", LAMBDA v : [ui EXCEPT !.history = @ \ {v}])

ConfirmNext ==
  /\ page = "confirm"
  /\ \/ SaveVersionElsewhere \/ HistoryLoaded \/ PickVersion
     \/ ClickDeployLatest \/ ClickRollbackTo \/ ClickRollbackToRecord
     \/ DiffLoaded \/ CancelConfirm \/ ConfirmDeploy \/ ServeTrigger
     \/ ClickDeleteVersion \/ ServeDeleteVersion \/ VersionDeleted
     \/ Tells("loadHistory", srv.versions) \/ Finds("diff", LAMBDA v : v)
     \/ Finally("startDeploy", ui) \/ DropError({"loadHistory", "deleteVersion"})
     \/ Forbid \/ Fault

-----------------------------------------------------------------------------
(* Release tags *)

\* tags: those shown; name: typed into the form, "" when empty; open: the form.
TagsInit ==
  /\ Opens("tags")
  /\ ui = [busy |-> {}, tags |-> {}, open |-> FALSE, name |-> ""]
  /\ srv \in [tags : SUBSET TagNames, retention : {0, 1}]
  /\ net = <<Request("loadTags", "listDeployTags", NoArg)>>

TagsLoaded == Then("loadTags", LAMBDA ts : [ui EXCEPT !.tags = ts])

ToggleTagForm == Becomes([ui EXCEPT !.open = ~@])

TypeTagName ==
  ui.open /\ \E n \in TagNames : ui.name # n /\ Becomes([ui EXCEPT !.name = n])

\* The Create tag button: disabled while it saves and for a name that is shown.
ClickCreateTag ==
  /\ ui.open /\ ui.name # "" /\ "tagSaving" \notin ui.busy /\ ui.name \notin ui.tags
  /\ Asks([ui EXCEPT !.busy = {"tagSaving"}], "createTag", "createDeployTag", ui.name)

\* CreateDeployTag: a name in use is refused; then tags beyond the retention
\* are trimmed, the oldest first.
ServeCreateTag ==
  Does("createTag", LAMBDA n : n \notin srv.tags,
       LAMBDA n : [srv EXCEPT !.tags = IF srv.retention = 1 THEN {n} ELSE @ \cup {n}])

TagCreated ==
  Then("createTag", LAMBDA n : [ui EXCEPT !.tags = @ \cup {n}, !.name = "",
                                          !.open = FALSE, !.busy = {}])

\* Mutant: the flag is reset only when the tag was created.
CreateTagFails_Stuck == Catch("createTag", ui)

CreateTagFails == Catch("createTag", [ui EXCEPT !.busy = {}])

ClickDeleteTag == \E t \in ui.tags : Asks(ui, "deleteTag", "deleteDeployTag", t)

ServeDeleteTag ==
  Does("deleteTag", LAMBDA t : TRUE, LAMBDA t : [srv EXCEPT !.tags = @ \ {t}])

\* The error of the request is dropped before the tag is taken off the list.
TagDeleted ==
  \E i \in DOMAIN net :
    /\ Arrived(i, "deleteTag") \/ Failed(i, "deleteTag")
    /\ Handled(i)
    /\ PageIs([ui EXCEPT !.tags = @ \ {net[i].arg}])

TagsNext ==
  /\ page = "tags"
  /\ \/ TagsLoaded \/ ToggleTagForm \/ TypeTagName \/ ClickCreateTag
     \/ ServeCreateTag \/ TagCreated \/ CreateTagFails \/ ClickDeleteTag
     \/ ServeDeleteTag \/ TagDeleted
     \/ Tells("loadTags", srv.tags) \/ DropError({"loadTags"}) \/ Forbid \/ Fault

-----------------------------------------------------------------------------
(* Scheduled deployments *)

SchedulesInit ==
  /\ Opens("schedules")
  /\ ui = [busy |-> {}, list |-> {}, at |-> FALSE]
  /\ srv = [list |-> {}, made |-> 0]
  /\ net = <<Request("loadSchedules", "listScheduledDeploys", NoArg)>>

SchedulesLoaded == Then("loadSchedules", LAMBDA l : [ui EXCEPT !.list = l])

TypeScheduleTime == Can("deploy") /\ ~ui.at /\ Becomes([ui EXCEPT !.at = TRUE])

\* createSchedule: nothing marks that it is under way.
ClickSchedule ==
  Can("deploy") /\ ui.at /\ Asks(ui, "createSchedule", "createScheduledDeploy", NoArg)

ServeCreateSchedule ==
  Makes("createSchedule", LAMBDA x : srv.made < MaxSchedules,
        LAMBDA x : [list |-> srv.list \cup {srv.made + 1}, made |-> srv.made + 1],
        LAMBDA x : srv.made + 1)

ScheduleCreated ==
  Then("createSchedule", LAMBDA s : [ui EXCEPT !.list = @ \cup {s}, !.at = FALSE])

\* Offered on every pending entry, to every user.
ClickDeleteSchedule ==
  \E s \in ui.list : Asks(ui, "deleteSchedule", "deleteScheduledDeploy", s)

ServeDeleteSchedule ==
  Does("deleteSchedule", LAMBDA s : TRUE, LAMBDA s : [srv EXCEPT !.list = @ \ {s}])

\* Mutant: the entry stays on the page.
ScheduleDeleted_Stays == Then("deleteSchedule", LAMBDA s : ui)

ScheduleDeleted == Then("deleteSchedule", LAMBDA s : [ui EXCEPT !.list = @ \ {s}])

SchedulesNext ==
  /\ page = "schedules"
  /\ \/ TypeScheduleTime \/ ClickSchedule \/ ServeCreateSchedule \/ SchedulesLoaded
     \/ ScheduleCreated \/ ClickDeleteSchedule \/ ServeDeleteSchedule
     \/ ScheduleDeleted \/ Tells("loadSchedules", srv.list)
     \/ DropError({"loadSchedules", "createSchedule", "deleteSchedule"})
     \/ Forbid \/ Fault

-----------------------------------------------------------------------------
(* Deploy settings *)

\* form: the fields the form edits ("bad": timeouts that leave no room for the
\* health check); rest: dns servers, dns search and extra hosts, which it does
\* not.  "default" until something else is set.
DeploySettingsInit ==
  /\ Opens("deploySettings")
  /\ ui = [busy |-> {}, loaded |-> FALSE, draft |-> "default", saved |-> FALSE]
  /\ srv \in [form : {"default", "set"}, rest : {"default", "set"}]
  /\ net = <<Request("loadSettings", "getDeploySettings", NoArg)>>

DeploySettingsLoaded ==
  Then("loadSettings", LAMBDA s : [ui EXCEPT !.loaded = TRUE, !.draft = s.form])

EditDeploySettings ==
  \E f \in {"default", "set", "bad"} : ui.draft # f /\ Becomes([ui EXCEPT !.draft = f])

\* saveSettings up to its await; the field for the tag retention calls it when
\* it loses the focus, whatever is under way.
SaveDeploySettings ==
  Asks([ui EXCEPT !.busy = {"settingsSaving"}], "saveSettings", "saveDeploySettings",
       [form |-> ui.draft, rest |-> "default"])

\* SaveDeploySettings replaces the whole record.
ServeSaveSettings ==
  Does("saveSettings", LAMBDA s : s.form # "bad", LAMBDA s : s)

DeploySettingsSaved ==
  \/ Then("saveSettings",
          LAMBDA s : [ui EXCEPT !.loaded = TRUE, !.saved = TRUE, !.busy = {}])
  \/ Catch("saveSettings", [ui EXCEPT !.busy = {}])

\* The timer of the "Saved" mark.
SavedMarkFades == ui.saved /\ Becomes([ui EXCEPT !.saved = FALSE])

DeploySettingsNext ==
  /\ page = "deploySettings"
  /\ \/ DeploySettingsLoaded \/ EditDeploySettings \/ SaveDeploySettings
     \/ ServeSaveSettings \/ DeploySettingsSaved \/ SavedMarkFades
     \/ Tells("loadSettings", srv) \/ DropError({"loadSettings"}) \/ Forbid \/ Fault

-----------------------------------------------------------------------------
(* Properties *)

\* Once nothing is under way: the tags and the schedules shown are the server's
\* (for tags, none is hidden; retention may have taken others), every version
\* that the page offers is there, and the difference that the confirmation
\* shows is of the version that it asks about.
ReleasesShown ==
  Quiet => /\ page = "tags" /\ Can("deploy") => srv.tags \subseteq ui.tags
           /\ page = "schedules" => ui.list = srv.list
           /\ page = "confirm" => /\ ui.history \subseteq srv.versions
                                  /\ ui.target.open => ui.diff = <<ui.target.v>>
=============================================================================
