------------------------------- MODULE Files -------------------------------
(***************************************************************************)
(* pages/FilesPage.tsx: the directory, the modals that change it, the       *)
(* uploads into it and the viewer that edits a file of it.  The page is      *)
(* checked twice, "files" without the viewer, "viewer" without searches,     *)
(* selections and uploads.                                                  *)
(***************************************************************************)
EXTENDS Browser

CONSTANTS
  Dirs,
  Paths   \* of the files that may be, each a directory and a name

ASSUME FilesAssumption ==
  IsFiniteSet(Dirs) /\ IsFiniteSet(Paths) /\ \A p \in Paths : p.dir \in Dirs

Names  == {p.name : p \in Paths}
NoFile == [dir |-> "none", name |-> "none"]
Empty  == [dir |-> "none", name |-> "empty"]
Here(u) == {p \in Paths : p.dir = u}

\* The text of a file is told by the file that it was first in; what is typed is
\* left out, so that a draft is a text of some file.  The viewer keeps
\* its draft and that it is editing for as long as it is open, whatever file.
NoViewer  == [file |-> NoFile, text |-> Empty, draft |-> Empty, editing |-> FALSE]
NoAnswers == [on |-> FALSE, found |-> {}]
NoDialog  == [kind |-> "none", of |-> NoFile]

FilesInit ==
  /\ page \in {"files", "viewer"} /\ perms \in Holders /\ line \in {"orderly", "lossy"}
  /\ page = "files" => line = "orderly"
  /\ \E name \in Names, cwd \in Dirs :
       /\ srv = [text |-> [p \in Paths |-> IF p.name = name THEN p ELSE NoFile],
                 remade |-> {}]
       /\ ui = [busy |-> {"loading"}, cwd |-> cwd, entries |-> {}, sel |-> {},
                search |-> NoAnswers, viewer |-> NoViewer, modal |-> NoDialog]
       /\ net = <<Request("browse", "fileBrowse", cwd)>>

Exist == {p \in Paths : srv.text[p] # NoFile}

-----------------------------------------------------------------------------
(* The directory *)

Browsing(u, dir) ==
  [u EXCEPT !.busy = @ \cup {"loading"}, !.search = NoAnswers, !.sel = {}, !.cwd = dir]

BrowseRequest(dir) == Request("browse", "fileBrowse", dir)

Unveiled == ui.modal = NoDialog

Browse ==
  Unveiled /\ \E dir \in Dirs : Asks(Browsing(ui, dir), "browse", "fileBrowse", dir)

ServeBrowse == Finds("browse", LAMBDA dir : Exist \cap Here(dir))

\* Any answer is taken for that of the last directory asked for.
Browsed ==
  \/ Then("browse", LAMBDA ps : [ui EXCEPT !.entries = ps, !.busy = @ \ {"loading"}])
  \/ Catch("browse", [ui EXCEPT !.entries = {}, !.busy = @ \ {"loading"}])

Search ==
  page = "files" /\ Unveiled /\ \E name \in Names :
    Asks([ui EXCEPT !.busy = @ \cup {"searching"}], "search", "fileSearch",
         [dir |-> ui.cwd, name |-> name])

ServeSearch == Finds("search", LAMBDA p : Exist \cap {p})

Searched ==
  \/ Then("search", LAMBDA ps : [ui EXCEPT !.search = [on |-> TRUE, found |-> ps],
                                           !.busy = @ \ {"searching"}])
  \/ Catch("search", [ui EXCEPT !.busy = @ \ {"searching"}])

ClearSearch == Unveiled /\ ui.search.on /\ Becomes([ui EXCEPT !.search = NoAnswers])

Displayed ==
  IF "loading" \in ui.busy THEN {} ELSE
  IF ui.search.on THEN ui.search.found ELSE ui.entries

-----------------------------------------------------------------------------
(* What changes it *)

\* setSelected is not called when the results of a search come or go.
SelectFile ==
  /\ page = "files" /\ Unveiled
  /\ \/ \E p \in Displayed :
          Becomes([ui EXCEPT !.sel = IF p \in @ THEN @ \ {p} ELSE @ \cup {p}])
     \/ Displayed # {} /\ Becomes([ui EXCEPT !.sel = IF Cardinality(@) = Cardinality(Displayed)
                                                     THEN {} ELSE Displayed])

OpenDialog ==
  /\ Unveiled
  /\ \/ Becomes([ui EXCEPT !.modal.kind = "new"])
     \/ \E kind \in {"delete", "rename"}, p \in Displayed :
          Becomes([ui EXCEPT !.modal = [kind |-> kind, of |-> p]])
     \/ ui.sel # {} /\ Becomes([ui EXCEPT !.modal.kind = "deleteSel"])

CloseDialog == ~Unveiled /\ Becomes([ui EXCEPT !.modal = NoDialog])

\* files: what the request is about; to: the file that it makes.  The directory
\* is the one of the render that was clicked.
Change(kind, files, to) ==
  [kind |-> kind, files |-> files, to |-> to, dir |-> ui.cwd,
   shuts |-> ui.viewer.file \in files]

\* A key press in the field of a new name submits while it is under way too.
SubmitDialog ==
  \/ /\ ui.modal.kind = "new"
     /\ \E p \in Here(ui.cwd) : Asks(ui, "change", "fileWrite", Change("new", {}, p))
  \/ /\ ui.modal.kind = "rename"
     /\ \E p \in Here(ui.modal.of.dir) :
          IF p = ui.modal.of THEN Becomes([ui EXCEPT !.modal = NoDialog])
          ELSE Asks(ui, "change", "fileRename", Change("rename", {ui.modal.of}, p))
  \/ /\ ui.modal.kind = "delete" /\ ~Waiting("change")
     /\ Asks(ui, "change", "fileDelete", Change("delete", {ui.modal.of}, NoFile))
  \/ /\ ui.modal.kind = "deleteSel"
     /\ Asks([ui EXCEPT !.modal = NoDialog], "change", "fileDelete",
             Change("deleteSel", ui.sel, NoFile))

\* A new file is written over one of that name, a renamed one too.
Changed(a) ==
  [p \in Paths |->
     CASE a.kind = "new" /\ p = a.to    -> Empty
       [] a.kind = "rename" /\ p = a.to -> srv.text[CHOOSE f \in a.files : TRUE]
       [] p \in a.files                 -> NoFile
       [] OTHER                         -> srv.text[p]]

ServeChange ==
  Does("change", LAMBDA a : a.kind = "rename" => a.files \subseteq Exist,
       LAMBDA a : [srv EXCEPT !.text = Changed(a)])

\* Mutant: the directory is not read again.
ChangeSettles_NotRead ==
  Finally("change", [ui EXCEPT !.modal = NoDialog])

\* The directory of the click is read again; a dialog of its kind closes.
ChangeSettles ==
  \E i \in DOMAIN net :
    LET a    == net[i].arg
        idle == [ui EXCEPT !.modal = IF @.kind = a.kind THEN NoDialog ELSE @,
                           !.viewer = IF a.kind = "delete" /\ a.shuts THEN NoViewer ELSE @]
    IN \/ /\ Arrived(i, "change") \/ (Failed(i, "change") /\ a.kind = "deleteSel")
          /\ HandledThen(i, <<BrowseRequest(a.dir)>>) /\ PageIs(Browsing(idle, a.dir))
       \/ /\ Failed(i, "change") /\ a.kind # "deleteSel" /\ Handled(i) /\ PageIs(ui)

\* A file of the computer is staged, then moved into the directory of the click,
\* which the page goes back to, whatever became of it.
Upload ==
  page = "files" /\ Unveiled /\ \E p \in Here(ui.cwd) : Asks(ui, "upload", "uploadFile", p)

Uploaded ==
  \E i \in DOMAIN net :
    \/ /\ Arrived(i, "upload") /\ net[i].call = "uploadFile"
       /\ HandledThen(i, <<Request("upload", "fileImport", net[i].arg)>>) /\ PageIs(ui)
    \/ /\ Failed(i, "upload") \/ (Arrived(i, "upload") /\ net[i].call = "fileImport")
       /\ HandledThen(i, <<BrowseRequest(net[i].arg.dir)>>)
       /\ PageIs(Browsing(ui, net[i].arg.dir))

ServeUpload ==
  \E i \in DOMAIN net :
    /\ Served(i, "upload") /\ Reply(i, NoArg)
    /\ IF net[i].call = "fileImport"
       THEN ServerIs([srv EXCEPT !.text[net[i].arg] = net[i].arg]) ELSE NetOnly

-----------------------------------------------------------------------------
(* The viewer *)

OpenEntry ==
  page = "viewer" /\ Unveiled /\ \E p \in Displayed : Asks(ui, "open", "fileRead", p)

ServeRead ==
  Makes("open", LAMBDA p : p \in Exist, LAMBDA p : srv,
        LAMBDA p : [file |-> p, text |-> srv.text[p]])

Shows(f) ==
  [file |-> f.file, text |-> f.text, editing |-> ui.viewer.editing,
   draft |-> IF ui.viewer = NoViewer THEN f.text ELSE ui.viewer.draft]

FileOpened == Then("open", LAMBDA f : [ui EXCEPT !.viewer = Shows(f)])

CloseViewer ==
  Unveiled /\ ui.viewer # NoViewer
  /\ Becomes([ui EXCEPT !.viewer = NoViewer, !.busy = @ \ {"saving"}])

ClickEdit ==
  Unveiled /\ ui.viewer # NoViewer /\ ~ui.viewer.editing
  /\ Becomes([ui EXCEPT !.viewer.editing = TRUE])

CancelEdit ==
  Unveiled /\ ui.viewer.editing
  /\ Becomes([ui EXCEPT !.viewer.editing = FALSE, !.viewer.draft = ui.viewer.text])

SaveFile ==
  /\ Unveiled /\ ui.viewer.editing /\ "saving" \notin ui.busy
  /\ Asks([ui EXCEPT !.busy = @ \cup {"saving"}], "save", "fileWrite",
          [file |-> ui.viewer.file, text |-> ui.viewer.draft])

ServeSaveFile ==
  Does("save", LAMBDA f : TRUE,
       LAMBDA f : [text   |-> [srv.text EXCEPT ![f.file] = f.text],
                   remade |-> srv.remade \cup ({f.file} \ Exist)])

\* The text becomes that of the file which is open by then.
FileSaved ==
  \/ Then("save", LAMBDA f :
       [ui EXCEPT !.busy = @ \ {"saving"},
                  !.viewer = IF @ = NoViewer THEN @
                             ELSE [@ EXCEPT !.text = f.text, !.editing = FALSE]])
  \/ Catch("save", [ui EXCEPT !.busy = @ \ {"saving"}])

FilesNext ==
  /\ page \in {"files", "viewer"}
  /\ \/ Browse \/ ServeBrowse \/ Browsed \/ Search \/ ServeSearch \/ Searched
     \/ ClearSearch \/ SelectFile \/ OpenDialog \/ CloseDialog \/ SubmitDialog
     \/ ServeChange \/ ChangeSettles \/ Upload \/ Uploaded \/ ServeUpload \/ OpenEntry
     \/ ServeRead \/ FileOpened \/ CloseViewer \/ ClickEdit \/ CancelEdit \/ SaveFile
     \/ ServeSaveFile \/ FileSaved \/ DropError({"open"}) \/ Forbid \/ Fault

FilesSpec == FilesInit /\ [][FilesNext]_webVars

-----------------------------------------------------------------------------
(* Properties *)

\* When nothing is under way, the page lists the directory that it names, after
\* any sequence of operations, finished in whatever directory; but for the files
\* that a save has made again after they were renamed or deleted.
FilesListed ==
  page \in {"files", "viewer"} /\ Quiet /\ Can("manage_files") =>
    LET there == Exist \cap Here(ui.cwd)
    IN ui.entries \subseteq there /\ there \ ui.entries \subseteq srv.remade

\* pages/HelpPage.tsx: "Edit -- inline code editor".  Where no file is renamed, a
\* save gives a file the text that it had, or one typed for it: never that of
\* another file.
EditsKeepFiles ==
  [][ page = "viewer" /\ srv' # srv =>
        \A i \in DOMAIN net :
          net[i].by = "save" /\ net[i].state = "sent" /\ net'[i].state = "done"
          => net[i].arg.text \in {net[i].arg.file, Empty} ]_webVars
=============================================================================
