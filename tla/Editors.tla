------------------------------ MODULE Editors ------------------------------
(***************************************************************************)
(* The editors of versions: pages/ComposePage.tsx and the Compose tab of    *)
(* pages/ProjectDashboardPage.tsx, pages/EnvPage.tsx and the Env tab, and   *)
(* the form of a new project (pages/ProjectsNewPage.tsx).                   *)
(***************************************************************************)
EXTENDS Browser

CONSTANTS
  Texts,      \* contents of a compose file that the server takes
  EnvKeys,    \* keys of environment variables
  MaxVars,    \* variables in the editor at a time
  MaxSaved    \* versions on the server

ASSUME EditorsAssumption == MaxSaved \in Nat \ {0} /\ IsFiniteSet(EnvKeys)

NoVersion == 0
Empty     == ""
Bad       == "bad"     \* a content that the server refuses

-----------------------------------------------------------------------------
(* The compose editors *)

\* A version is its number with its content; selected: the one highlighted;
\* msg: what the last save said.
ComposeInit ==
  /\ page \in {"compose", "composeTab"}
  /\ perms \in Holders /\ line \in {"orderly", "lossy"}
  /\ ui = [busy |-> {}, text |-> Empty, history |-> <<>>, selected |-> NoVersion,
           msg |-> "none"]
  /\ srv \in [versions : {<<>>} \cup {<<t>> : t \in Texts}]
  /\ net = <<Request("load", "getCompose", NoArg),
             Request("loadHistory", "composeHistory", NoArg)>>

Version(n) == [number |-> n, text |-> IF n = NoVersion THEN Empty ELSE srv.versions[n]]

SelectCompose(v) == [ui EXCEPT !.text = v.text, !.selected = v.number]

ComposeLoaded ==
  Then("load", LAMBDA v : IF v.number = NoVersion THEN ui ELSE SelectCompose(v))

ComposeHistoryLoaded ==
  Then("loadHistory", LAMBDA h : [ui EXCEPT !.history = h])

TypeCompose ==
  \E t \in Texts \cup {Empty, Bad} : ui.text # t /\ Becomes([ui EXCEPT !.text = t])

\* A click on a version replaces what was typed.
ClickComposeVersion ==
  \E n \in DOMAIN ui.history :
    Becomes(SelectCompose([number |-> n, text |-> ui.history[n]]))

\* Mutant: the button stays enabled while it saves.
ClickSaveCompose_Twice ==
  /\ page = "compose" => Can("edit_compose")
  /\ Asks([ui EXCEPT !.busy = {"saving"}, !.msg = "none"], "save", "saveCompose", ui.text)

\* The page offers the button to those who may save, the tab to everybody and
\* refuses an empty content itself.
ClickSaveCompose ==
  /\ "saving" \notin ui.busy
  /\ page = "compose" => Can("edit_compose")
  /\ IF page = "composeTab" /\ ui.text = Empty
     THEN Becomes([ui EXCEPT !.msg = "err"])
     ELSE Asks([ui EXCEPT !.busy = {"saving"}, !.msg = "none"],
               "save", "saveCompose", ui.text)

\* SaveCompose: a content that is that of the latest version makes no other.
IsLatest(t) == srv.versions # <<>> /\ Last(srv.versions) = t

ServeSaveCompose ==
  Makes("save",
        LAMBDA t : t \in Texts /\ (IsLatest(t) \/ Len(srv.versions) < MaxSaved),
        LAMBDA t : IF IsLatest(t) THEN srv ELSE [versions |-> Append(srv.versions, t)],
        LAMBDA t : IF IsLatest(t) THEN Len(srv.versions) ELSE Len(srv.versions) + 1)

\* Mutant: the history is not read again.
ComposeSaved_NoReload ==
  Then("save", LAMBDA n : [ui EXCEPT !.selected = n, !.busy = {}, !.msg = "ok"])

\* The page waits for the history before it says that it has saved; the tab
\* says so and reads the history beside.
ComposeSaved ==
  \/ /\ page = "compose"
     /\ ThenAsks("save", LAMBDA n : [ui EXCEPT !.selected = n],
                 <<Request("saveHistory", "composeHistory", NoArg)>>)
  \/ /\ page = "composeTab"
     /\ ThenAsks("save",
                 LAMBDA n : [ui EXCEPT !.selected = n, !.busy = {}, !.msg = "ok"],
                 <<Request("loadHistory", "composeHistory", NoArg)>>)

SavedHistoryLoaded ==
  Then("saveHistory", LAMBDA h : [ui EXCEPT !.history = h, !.busy = {}, !.msg = "ok"])

\* Also when only the history could not be read.
ComposeSaveFails ==
  \E by \in {"save", "saveHistory"} : Catch(by, [ui EXCEPT !.busy = {}, !.msg = "err"])

ComposeNext ==
  /\ page \in {"compose", "composeTab"}
  /\ \/ ComposeLoaded \/ ComposeHistoryLoaded \/ TypeCompose \/ ClickComposeVersion
     \/ ClickSaveCompose \/ ServeSaveCompose \/ ComposeSaved \/ SavedHistoryLoaded
     \/ ComposeSaveFails
     \/ Tells("load", Version(Len(srv.versions)))
     \/ \E by \in {"loadHistory", "saveHistory"} : Tells(by, srv.versions)
     \/ DropError({"load", "loadHistory"}) \/ Forbid \/ Fault

-----------------------------------------------------------------------------
(* Environment variables *)

\* The rows of the editor and the sets of the server: a value and a flag for
\* some of the keys.  "real" is a value that somebody entered; the server shows
\* a secret as "mask".
NoVars == [k \in {} |-> 0]

\* marshalEnvSet
Masked(set) ==
  [k \in DOMAIN set |-> IF set[k].secret THEN [set[k] EXCEPT !.val = "mask"] ELSE set[k]]

LatestEnv == IF srv.sets = <<>> THEN NoVars ELSE Last(srv.sets)

EnvReply(n) == [number |-> n, set |-> IF n = 0 THEN NoVars ELSE Masked(srv.sets[n])]

EnvInit ==
  /\ page \in {"env", "envTab"}
  /\ perms \in Holders /\ line \in {"orderly", "lossy"}
  /\ ui = [busy |-> {}, rows |-> NoVars, version |-> NoVersion, dirty |-> FALSE,
           modal |-> "none", picked |-> NoVersion, history |-> 0]
  /\ \E k \in EnvKeys, secret \in BOOLEAN :
       srv = [sets |-> <<(k :> [val |-> "real", secret |-> secret])>>]
  /\ net = <<Request("load", "getEnv", NoArg)>>

\* loadFrom
ShowEnv(r) == [ui EXCEPT !.rows = r.set, !.version = r.number, !.dirty = FALSE]

EnvLoaded == Then("load", ShowEnv)

\* mutate
Mutate(rows) ==
  /\ rows # ui.rows /\ Cardinality(DOMAIN rows) <= MaxVars
  /\ Becomes([ui EXCEPT !.rows = rows, !.dirty = TRUE])

Without(rows, k) == [j \in DOMAIN rows \ {k} |-> rows[j]]

\* updateVar: a value is entered, or the Secret flag is turned.
EditVar ==
  /\ ui.modal = "none"
  /\ \E k \in DOMAIN ui.rows :
       \/ Mutate([ui.rows EXCEPT ![k].val = "real"])
       \/ Mutate([ui.rows EXCEPT ![k].secret = ~@])

\* updateVar of a key: the row keeps its value under another name.
RenameVar ==
  /\ ui.modal = "none"
  /\ \E k \in DOMAIN ui.rows, j \in EnvKeys \ DOMAIN ui.rows :
       Mutate((j :> ui.rows[k]) @@ Without(ui.rows, k))

AddVar ==
  /\ ui.modal = "none"
  /\ \E k \in EnvKeys \ DOMAIN ui.rows :
       Mutate((k :> [val |-> "real", secret |-> FALSE]) @@ ui.rows)

RemoveVar ==
  ui.modal = "none" /\ \E k \in DOMAIN ui.rows : Mutate(Without(ui.rows, k))

\* Import of the page, for those who may save and for everybody while there is
\* no variable; parseDotEnv flags a key by its name.  Paste of the tab keeps the
\* flag of a key that is there.
OpenImport ==
  /\ page = "env" /\ ui.modal = "none" /\ (Can("edit_env") \/ ui.rows = NoVars)
  /\ Becomes([ui EXCEPT !.modal = "import"])

ImportVars ==
  /\ ui.modal = "import"
  /\ \E k \in EnvKeys, secret \in BOOLEAN, replace \in BOOLEAN :
       LET rows == (k :> [val |-> "real", secret |-> secret])
                   @@ (IF replace THEN NoVars ELSE ui.rows)
       IN /\ Cardinality(DOMAIN rows) <= MaxVars
          /\ Becomes([ui EXCEPT !.rows = rows, !.dirty = TRUE, !.modal = "none"])

PasteVars ==
  /\ page = "envTab"
  /\ \E k \in EnvKeys :
       Mutate((k :> [val |-> "real",
                     secret |-> k \in DOMAIN ui.rows /\ ui.rows[k].secret]) @@ ui.rows)

\* A modal that is closed takes its state along; a restore goes on.
CloseModal ==
  /\ ui.modal \in {"import", "history"}
  /\ Becomes([ui EXCEPT !.modal = "none", !.busy = @ \ {"loading", "restoring"}])

\* The page offers the button to those who may save something they changed, the
\* tab always.
ClickSaveEnv ==
  /\ "saving" \notin ui.busy /\ ui.modal = "none"
  /\ page = "env" => ui.dirty /\ Can("edit_env")
  /\ Asks([ui EXCEPT !.busy = @ \cup {"saving"}], "save", "saveEnv", ui.rows)

\* SaveEnv: a secret whose value is the mask keeps the value that the latest
\* version has under its key, and is refused when there is none.
Kept(rows, k) == rows[k].secret /\ rows[k].val = "mask"

Unmasked(rows) ==
  [k \in DOMAIN rows |->
     IF Kept(rows, k) THEN [rows[k] EXCEPT !.val = LatestEnv[k].val] ELSE rows[k]]

CanSaveEnv(rows) ==
  /\ \A k \in DOMAIN rows : Kept(rows, k) => k \in DOMAIN LatestEnv
  /\ Unmasked(rows) = LatestEnv \/ Len(srv.sets) < MaxSaved

ServeSaveEnv ==
  \E i \in DOMAIN net :
    /\ Served(i, "save")
    /\ LET set == Unmasked(net[i].arg)
           n   == IF set = LatestEnv THEN Len(srv.sets) ELSE Len(srv.sets) + 1
       IN IF ~CanSaveEnv(net[i].arg)
          THEN Refuse(i) /\ NetOnly
          ELSE /\ Reply(i, [number |-> n, set |-> Masked(set)])
               /\ IF n = Len(srv.sets) THEN UNCHANGED srv
                  ELSE srv' = [sets |-> Append(srv.sets, set)]
               /\ UNCHANGED <<session, ui>>

\* What was changed since the click is overwritten.
EnvSaved == Then("save", LAMBDA r : [ShowEnv(r) EXCEPT !.busy = @ \ {"saving"}])

EnvSaveFails == Catch("save", [ui EXCEPT !.busy = @ \ {"saving"}])

\* HistoryModal.  history: how many versions it lists; they do not change.
OpenHistory ==
  /\ page = "env" /\ ui.modal = "none"
  /\ Asks([ui EXCEPT !.modal = "history", !.busy = @ \cup {"loading"}, !.history = 0,
                     !.picked = NoVersion],
          "loadHistory", "envHistory", NoArg)

EnvHistoryLoaded ==
  \/ Then("loadHistory", LAMBDA h : IF ui.modal # "history" THEN ui ELSE
          [ui EXCEPT !.history = h, !.picked = h, !.busy = @ \ {"loading"}])
  \/ Catch("loadHistory", [ui EXCEPT !.busy = @ \ {"loading"}])

PickEnvVersion ==
  /\ ui.modal = "history"
  /\ \E n \in 1 .. ui.history : ui.picked # n /\ Becomes([ui EXCEPT !.picked = n])

\* Offered to every user.
ClickRestore ==
  /\ ui.modal = "history" /\ ui.picked # NoVersion /\ "restoring" \notin ui.busy
  /\ Asks([ui EXCEPT !.busy = @ \cup {"restoring"}], "restore", "restoreEnv", ui.picked)

\* RestoreEnv appends a copy.
ServeRestoreEnv ==
  Makes("restore", LAMBDA n : Len(srv.sets) < MaxSaved,
        LAMBDA n : [sets |-> Append(srv.sets, srv.sets[n])],
        LAMBDA n : [number |-> Len(srv.sets) + 1, set |-> Masked(srv.sets[n])])

\* onRestore closes the modal that is open, with its state.
EnvRestored ==
  \/ Then("restore",
          LAMBDA r : [ShowEnv(r) EXCEPT !.modal = "none",
                                        !.busy = @ \ {"loading", "restoring"}])
  \/ Catch("restore", [ui EXCEPT !.busy = @ \ {"restoring"}])

EnvNext ==
  /\ page \in {"env", "envTab"}
  /\ \/ EnvLoaded \/ EditVar \/ RenameVar \/ AddVar \/ RemoveVar \/ OpenImport
     \/ ImportVars \/ PasteVars \/ CloseModal \/ ClickSaveEnv \/ ServeSaveEnv
     \/ EnvSaved \/ EnvSaveFails \/ OpenHistory \/ EnvHistoryLoaded \/ PickEnvVersion
     \/ ClickRestore \/ ServeRestoreEnv \/ EnvRestored
     \/ Tells("load", EnvReply(Len(srv.sets)))
     \/ Tells("loadHistory", Len(srv.sets))
     \/ DropError({"load"}) \/ Forbid \/ Fault

-----------------------------------------------------------------------------
(* A new project *)

\* The form is offered to those who may create projects; at: where the page is.
NewProjectInit ==
  /\ Opens("newProject")
  /\ ui = [busy |-> {}, error |-> FALSE, at |-> "form"]
  /\ srv = [projects |-> 0]
  /\ net = <<>>

SubmitProject ==
  /\ Can("manage_projects") /\ ui.at = "form" /\ "loading" \notin ui.busy
  /\ srv.projects < MaxSaved
  /\ Asks([ui EXCEPT !.busy = {"loading"}, !.error = FALSE],
          "create", "createProject", NoArg)

ServeCreateProject ==
  Makes("create", LAMBDA x : TRUE, LAMBDA x : [projects |-> srv.projects + 1],
        LAMBDA x : srv.projects + 1)

ProjectCreated ==
  \/ Then("create", LAMBDA n : [ui EXCEPT !.busy = {}, !.at = "project"])
  \/ Catch("create", [ui EXCEPT !.busy = {}, !.error = TRUE])

NewProjectNext ==
  /\ page = "newProject"
  /\ SubmitProject \/ ServeCreateProject \/ ProjectCreated \/ Forbid \/ Fault

-----------------------------------------------------------------------------
(* Properties *)

\* An environment page that does not say "unsaved changes" shows the version
\* whose number it gives, and a compose page that says "Saved" has what it saved
\* selected and the version in the history (when no answer was overtaken).
EditorsShowSaved ==
  /\ page = "env" /\ ~ui.dirty /\ ui.version # NoVersion =>
       ui.rows = Masked(srv.sets[ui.version])
  /\ page \in {"compose", "composeTab"} /\ Quiet /\ ui.msg = "ok" =>
       ui.history = srv.versions /\ ui.selected \in DOMAIN srv.versions
=============================================================================
