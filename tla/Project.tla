------------------------------ MODULE Project ------------------------------
(***************************************************************************)
(* pages/ProjectDashboardPage.tsx around its editors, and the list of       *)
(* projects of pages/DashboardPage.tsx: the header of a project and its      *)
(* clone, the containers with their logs and commands, the browser of files  *)
(* that fills an editor, the search, the pages and the deletion of projects. *)
(***************************************************************************)
EXTENDS Browser

CONSTANTS
  Boxes,        \* containers of the project
  MaxProjects,  \* projects ever created
  PerPage,      \* PROJECTS_PER_PAGE
  MaxLog,       \* lines that a container logs
  LogKeep,      \* lines that a log view keeps
  LogTail       \* lines that a stream starts with

ASSUME ProjectAssumption ==
  /\ IsFiniteSet(Boxes) /\ MaxProjects \in Nat \ {0} /\ PerPage \in Nat \ {0}
  /\ MaxLog \in Nat /\ LogKeep \in Nat \ {0} /\ LogTail \in Nat

-----------------------------------------------------------------------------
(* The header and the clone *)

\* at: the project of the route; shown: the project in the header, 0 for none.
ProjectInit ==
  /\ Opens("project")
  /\ ui = [busy |-> {}, at |-> 1, shown |-> 0, error |-> FALSE, modal |-> FALSE]
  /\ srv = [projects |-> 1]
  /\ net = <<Request("load", "getProject", 1)>>

\* The error is never taken back.
ProjectLoaded ==
  \/ Then("load", LAMBDA p : [ui EXCEPT !.shown = p])
  \/ Catch("load", [ui EXCEPT !.error = TRUE])

Headed == ui.shown # 0 /\ ~ui.error

ToggleClone == Headed /\ Becomes([ui EXCEPT !.modal = ~@])

\* handleClone: the button is disabled while it clones, Enter in the field is
\* not.
HandleClone ==
  /\ Headed /\ ui.modal
  /\ Asks([ui EXCEPT !.busy = {"cloning"}], "clone", "cloneProject", ui.at)

ServeClone ==
  Makes("clone", LAMBDA p : srv.projects < MaxProjects,
        LAMBDA p : [projects |-> srv.projects + 1], LAMBDA p : srv.projects + 1)

\* navigate: the same component with another id, whose effect loads.  Mutant:
\* the effect runs only when the page is mounted.
Cloned_NoEffect ==
  Then("clone", LAMBDA p : [ui EXCEPT !.at = p, !.modal = FALSE, !.busy = {}])

Cloned ==
  \E i \in DOMAIN net :
    /\ Arrived(i, "clone")
    /\ HandledThen(i, <<Request("load", "getProject", Answer(i))>>)
    /\ PageIs([ui EXCEPT !.at = Answer(i), !.modal = FALSE, !.busy = {}])

CloneFails == Catch("clone", [ui EXCEPT !.busy = {}])

ProjectNext ==
  /\ page = "project"
  /\ \/ ProjectLoaded \/ ToggleClone \/ HandleClone \/ ServeClone \/ Cloned
     \/ CloneFails \/ Finds("load", LAMBDA p : p) \/ Forbid \/ Fault

-----------------------------------------------------------------------------
(* The containers *)

\* state: of each container; project: the status in the record, which a sync
\* sets from the containers.
OverviewInit ==
  /\ Opens("overview")
  /\ ui = [busy |-> {"loading"}, list |-> <<>>, project |-> "stopped", timer |-> FALSE]
  /\ srv \in [state : {<<s>> : s \in [Boxes -> {"running", "exited"}]},
              project : {"stopped"}]
  /\ net = <<Request("refresh", "listContainers", NoArg)>>

Refreshing == [ui EXCEPT !.busy = @ \cup {"loading"}]

ClickRefresh == Asks(Refreshing, "refresh", "listContainers", NoArg)

ContainersRefreshed ==
  \/ Then("refresh", LAMBDA l : [ui EXCEPT !.list = l, !.busy = @ \ {"loading"}])
  \/ Catch("refresh", [ui EXCEPT !.busy = @ \ {"loading"}])

ClickSync ==
  /\ "syncing" \notin ui.busy
  /\ Asks([ui EXCEPT !.busy = @ \cup {"syncing"}], "sync", "syncProjectStatus", NoArg)

StatusOf(state) ==
  IF \E b \in Boxes : state[b] = "running" THEN "running" ELSE "stopped"

ServeSync ==
  Makes("sync", LAMBDA x : TRUE,
        LAMBDA x : [srv EXCEPT !.project = StatusOf(srv.state[1])],
        LAMBDA x : StatusOf(srv.state[1]))

Synced ==
  \/ ThenAsks("sync",
       LAMBDA st : [ui EXCEPT !.project = st,
                              !.busy = (@ \ {"syncing"}) \cup {"loading"}],
       <<Request("refresh", "listContainers", NoArg)>>)
  \/ Catch("sync", [ui EXCEPT !.busy = @ \ {"syncing"}])

\* doAction: one container at a time.
ClickAction ==
  /\ "action" \notin ui.busy /\ ui.list # <<>> /\ "loading" \notin ui.busy
  /\ \E b \in Boxes, to \in {"running", "exited"} :
       Asks([ui EXCEPT !.busy = @ \cup {"action"}], "action", "containerAction",
            [box |-> b, to |-> to])

ServeAction ==
  Does("action", LAMBDA a : TRUE, LAMBDA a : [srv EXCEPT !.state[1][a.box] = a.to])

\* Docker is given 800 ms before the list is read again.
ActionSettles ==
  /\ ui.timer
  /\ PageIs([ui EXCEPT !.timer = FALSE, !.busy = (@ \ {"action"}) \cup {"loading"}])
  /\ Send(Request("refresh", "listContainers", NoArg))

ActionDone ==
  \/ Then("action", LAMBDA a : [ui EXCEPT !.timer = TRUE])
  \/ Catch("action", [ui EXCEPT !.busy = @ \ {"action"}])

OverviewNext ==
  /\ page = "overview"
  /\ \/ ClickRefresh \/ ContainersRefreshed \/ ClickSync \/ ServeSync \/ Synced
     \/ ClickAction \/ ServeAction \/ ActionSettles \/ ActionDone
     \/ Tells("refresh", srv.state) \/ Forbid \/ Fault

-----------------------------------------------------------------------------
(* The log of a container: LogsModal and InlineLogViewer *)

\* lines: the numbers of the lines shown; sent: of the last one that the stream
\* carried.
LogsInit ==
  /\ Opens("logs")
  /\ ui = [busy |-> {}, lines |-> <<>>, open |-> FALSE, es |-> "closed"]
  /\ srv = [made |-> 0, sent |-> 0]
  /\ net = <<>>

\* The effect opens a stream for the container of the view, and closes it with
\* the view.
OpenLog ==
  /\ ~ui.open
  /\ ui' = [ui EXCEPT !.open = TRUE, !.es = "open", !.lines = <<>>]
  /\ srv' = [srv EXCEPT !.sent = IF srv.made < LogTail THEN 0 ELSE srv.made - LogTail]
  /\ UNCHANGED <<session, net>>

CloseLog == ui.open /\ Becomes([ui EXCEPT !.open = FALSE, !.es = "closed", !.lines = <<>>])

ContainerLogs == srv.made < MaxLog /\ Elsewhere([srv EXCEPT !.made = @ + 1])

\* A stream starts with the tail of the log and follows it.  Mutant: the view
\* keeps what it had when it is full.
LogMessage_Full ==
  /\ ui.es = "open" /\ srv.sent < srv.made
  /\ srv' = [srv EXCEPT !.sent = @ + 1]
  /\ ui' = [ui EXCEPT !.lines = IF Len(@) < LogKeep THEN Append(@, srv.sent + 1) ELSE @]
  /\ UNCHANGED <<session, net>>

LogMessage ==
  /\ ui.es = "open" /\ srv.sent < srv.made
  /\ srv' = [srv EXCEPT !.sent = @ + 1]
  /\ ui' = [ui EXCEPT !.lines =
               Append(IF Len(@) < LogKeep THEN @ ELSE Tail(@), srv.sent + 1)]
  /\ UNCHANGED <<session, net>>

\* onerror closes for good: the view stays with what it has.
LogError == ui.es = "open" /\ Becomes([ui EXCEPT !.es = "closed"])

LogsNext ==
  page = "logs" /\ (OpenLog \/ CloseLog \/ ContainerLogs \/ LogMessage \/ LogError)

-----------------------------------------------------------------------------
(* Commands on the host: ExecModal *)

ExecInit ==
  /\ Opens("exec")
  /\ ui = [busy |-> {}, output |-> 0]
  /\ srv = [ran |-> 0]
  /\ net = <<>>

RunCommand ==
  /\ "running" \notin ui.busy /\ ui.output < MaxLog
  /\ Asks([ui EXCEPT !.busy = {"running"}], "exec", "execCommand", NoArg)

ServeExec == Does("exec", LAMBDA x : TRUE, LAMBDA x : [ran |-> srv.ran + 1])

CommandRan == Finally("exec", [ui EXCEPT !.output = @ + 1, !.busy = {}])

ExecNext == page = "exec" /\ (RunCommand \/ ServeExec \/ CommandRan \/ Forbid \/ Fault)

-----------------------------------------------------------------------------
(* FileBrowser: a file of the server or of the user's computer for an editor *)

\* A path is the sequence of its names below the root; the server has a
\* directory "d" with a file, in the mount and in itself once.
Mount == <<"m">>
Dirs  == {<<>>, <<"m">>, <<"m", "d">>}

Under(p, q) == Len(p) <= Len(q) /\ SubSeq(q, 1, Len(p)) = p

\* path and entries of the list.
FileBrowserInit ==
  /\ Opens("fileBrowser")
  /\ ui = [busy |-> {}, tab |-> "local", path |-> Mount, mount |-> Mount,
           entries |-> <<>>, open |-> TRUE]
  /\ srv = [files |-> Dirs]
  /\ net = <<>>

BrowseServer(u, p) ==
  Asks([u EXCEPT !.busy = {"serverLoading"}], "browse", "fileBrowse", p)

OpenServerTab ==
  /\ ui.open /\ ui.tab = "local"
  /\ BrowseServer([ui EXCEPT !.tab = "server"], Mount)

Browsing == ui.open /\ ui.tab = "server"

OpenLocalTab == Browsing /\ Becomes([ui EXCEPT !.tab = "local"])

CloseBrowser == ui.open /\ Becomes([ui EXCEPT !.open = FALSE])

TypeMount ==
  Browsing /\ \E p \in Dirs : ui.mount # p /\ Becomes([ui EXCEPT !.mount = p])

\* Go shows the new path before there is an answer.
ClickGo == Browsing /\ BrowseServer([ui EXCEPT !.path = ui.mount], ui.mount)

ClickDirectory ==
  /\ Browsing /\ ui.entries # <<>>
  /\ \E p \in ui.entries[1] : BrowseServer(ui, p)

\* serverUp: the parent, unless it is outside the mount.
ServerUp ==
  /\ Browsing /\ ui.path # <<>>
  /\ LET parent == IF Len(ui.path) = 1 THEN ui.mount ELSE Front(ui.path)
     IN Under(ui.mount, parent) /\ BrowseServer(ui, parent)

SubDirs(p) == {q \in Dirs : Len(q) = Len(p) + 1 /\ Under(p, q)}

ServerBrowsed ==
  \/ \E i \in DOMAIN net :
       /\ Arrived(i, "browse") /\ Handled(i)
       /\ PageIs([ui EXCEPT !.entries = <<Answer(i)>>, !.path = net[i].arg, !.busy = {}])
  \/ Catch("browse", [ui EXCEPT !.busy = {}])

\* A click on a file previews it; Use takes it for the editor.
ClickFile ==
  /\ Browsing /\ ui.entries # <<>>
  /\ \E by \in {"preview", "use"} : Asks(ui, by, "fileRead", ui.path)

FilePreviewed == Finally("preview", ui)

\* onSelect hands the content to the editor.
FileUsed == Then("use", LAMBDA p : [ui EXCEPT !.open = FALSE])

UseLocalFile == ui.open /\ ui.tab = "local" /\ Becomes([ui EXCEPT !.open = FALSE])

FileBrowserNext ==
  /\ page = "fileBrowser"
  /\ \/ OpenServerTab \/ OpenLocalTab \/ CloseBrowser \/ TypeMount \/ ClickGo \/ ClickDirectory
     \/ ServerUp \/ ServerBrowsed \/ ClickFile \/ FilePreviewed \/ FileUsed
     \/ UseLocalFile \/ Finds("browse", SubDirs)
     \/ (\E by \in {"preview", "use"} : Finds(by, LAMBDA p : p))
     \/ DropError({"use"}) \/ Forbid \/ Fault

-----------------------------------------------------------------------------
(* The projects of the dashboard *)

\* match: the projects that the search leaves; at: the page asked for.
DashboardInit ==
  /\ Opens("dashboard")
  /\ ui = [busy |-> {}, list |-> {}, match |-> {}, at |-> 0, asks |-> 0]
  /\ \E n \in 1 .. MaxProjects : srv = [projects |-> 1 .. n]
  /\ net = <<Request("syncAll", "syncAllProjects", NoArg)>>

\* reload: the plain list when the sync fails.
ProjectsLoaded ==
  \/ \E by \in {"syncAll", "list"} :
       Then(by, LAMBDA ps : [ui EXCEPT !.list = ps, !.match = ps])
  \/ \E i \in DOMAIN net :
       /\ Failed(i, "syncAll")
       /\ HandledThen(i, <<Request("list", "listProjects", NoArg)>>)
       /\ PageIs(ui)

\* A search starts at the first page.
Search ==
  \E m \in SUBSET ui.list : ui.match # m /\ Becomes([ui EXCEPT !.match = m, !.at = 0])

TotalPages(n) == IF n = 0 THEN 1 ELSE ((n - 1) \div PerPage) + 1
MinOf(a, b)   == IF a < b THEN a ELSE b

\* Mutant: the page asked for is not brought back into the range.
SafePage_Unclamped == ui.at

SafePage == MinOf(ui.at, TotalPages(Cardinality(ui.match)) - 1)

\* How many projects are on the page shown.
Shown ==
  LET left == Cardinality(ui.match) - SafePage * PerPage
  IN IF left < 0 THEN 0 ELSE MinOf(left, PerPage)

TurnPage ==
  \/ SafePage > 0
     /\ Becomes([ui EXCEPT !.at = IF @ = 0 THEN 0 ELSE @ - 1])
  \/ SafePage < TotalPages(Cardinality(ui.match)) - 1
     /\ Becomes([ui EXCEPT !.at = MinOf(@ + 1, TotalPages(Cardinality(ui.match)) - 1)])

\* The modal of one project, whose name has to be typed; Enter in the field
\* asks again while it deletes.  asks: the project it is about, 0 for none.
OpenDelete ==
  /\ Can("manage_projects") \/ IsAdmin
  /\ ui.asks = 0 /\ \E p \in ui.match : Becomes([ui EXCEPT !.asks = p])

NoDelete == [ui EXCEPT !.asks = 0, !.busy = {}]

CloseDelete == ui.asks # 0 /\ Becomes(NoDelete)

ConfirmDelete ==
  /\ ui.asks # 0
  /\ Asks([ui EXCEPT !.busy = {"deleting"}], "delete", "deleteProject", ui.asks)

ServeDelete ==
  Does("delete", LAMBDA p : p \in srv.projects,
       LAMBDA p : [srv EXCEPT !.projects = @ \ {p}])

Deleted ==
  \/ Then("delete", LAMBDA p : [IF ui.asks = p THEN NoDelete ELSE ui
                                EXCEPT !.list = @ \ {p}, !.match = @ \ {p}])
  \/ \E i \in DOMAIN net :
       /\ Failed(i, "delete") /\ Handled(i)
       /\ PageIs(IF ui.asks = net[i].arg THEN [ui EXCEPT !.busy = {}] ELSE ui)

DashboardNext ==
  /\ page = "dashboard"
  /\ \/ ProjectsLoaded \/ Search \/ TurnPage \/ OpenDelete \/ CloseDelete
     \/ ConfirmDelete \/ ServeDelete \/ Deleted
     \/ (\E by \in {"syncAll", "list"} : Tells(by, srv.projects))
     \/ Forbid \/ Fault

-----------------------------------------------------------------------------
(* Properties *)

\* Once nothing is under way: the header is of the project of the route, also
\* after a clone; the containers and the status are those of the server; the
\* dashboard has every project; a file list is of the path above it.
ProjectShown ==
  Quiet =>
    /\ page = "project" => ui.shown = ui.at
    /\ page = "overview" /\ ~ui.timer => ui.list = srv.state /\ ui.project = srv.project
    /\ page = "dashboard" => ui.match \subseteq ui.list /\ ui.list = srv.projects
    /\ page = "fileBrowser" /\ Can("manage_files") =>
         ui.entries \in {<<>>, <<SubDirs(ui.path)>>}

\* A page of the dashboard is never empty while there are projects to show.
NoEmptyPage == page = "dashboard" /\ ui.match # {} => Shown > 0

\* A log view has the last lines that its stream carried, none twice and none
\* missing between them.
LogIsWindow ==
  page = "logs" /\ ui.es = "open" =>
    /\ Len(ui.lines) <= LogKeep
    /\ \A i \in DOMAIN ui.lines : ui.lines[i] = srv.sent - Len(ui.lines) + i

\* The pages of a project, its logs and the dashboard show what there is.
ProjectPagesAreTrue == ProjectShown /\ NoEmptyPage /\ LogIsWindow
=============================================================================
