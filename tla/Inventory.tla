----------------------------- MODULE Inventory -----------------------------
(***************************************************************************)
(* The pages that list what the host has and act on a row of the list:      *)
(* pages/ContainersPage.tsx, ImagesPage.tsx, VolumesPage.tsx,               *)
(* NetworksPage.tsx, ReverseProxyPage.tsx, DNSPage.tsx, UsersPage.tsx and   *)
(* the backups of SystemPage.tsx.  They differ in what their operations ask *)
(* and in what they do with the answer, which is what the tables say.       *)
(***************************************************************************)
EXTENDS Browser, FiniteSetsExt

CONSTANT Things    \* what a page may list

ASSUME InventoryAssumption == IsFiniteSet(Things) /\ Things # {}

Nobody   == "-"
Anything == {"gone", "off", "on"}
NoModal  == [op |-> "none", of |-> Nobody]
Loading  == [slot |-> "loading", of |-> Nobody, key |-> ""]

-----------------------------------------------------------------------------
(* The operations *)

\* call: the route; does: what it makes of the thing on the server.
\* need: the permission without which the page does not offer it; bare: an
\* empty list offers it to everybody.
\* from: the states of the row that offers it.
\* asks: "no", "confirm" (a ConfirmModal) or "form" (a modal of its own);
\* shuts: the modal may be closed while its request is under way.
\* closes: when the modal closes.
\* slot: the useState that says it is under way, and keeps one value, that of
\* the row that took it last; key: what else that value tells apart.
\* blocked: when its control is disabled: while the slot is taken, while this
\* row has it, while it is taken and the list is not empty, or never.
\* then: what the page does with the answer.
Op(call, does) ==
  [call |-> call, does |-> does, need |-> "any", bare |-> FALSE, from |-> {"off", "on"},
   asks |-> "no", shuts |-> TRUE, closes |-> "never", slot |-> "none", key |-> "",
   blocked |-> "never", then |-> "none"]

ContainerAction(does) ==
  [Op("globalContainerAction", does) EXCEPT
     !.need = "container_ops", !.slot = "row", !.blocked = "row", !.then = "later"]

ContainerOps ==
  [start   |-> [ContainerAction("on") EXCEPT !.from = {"off"}],
   stop    |-> [ContainerAction("off") EXCEPT !.from = {"on"}],
   restart |-> ContainerAction("on"),
   delete  |-> [ContainerAction("remove") EXCEPT
                  !.call = "deleteContainer", !.asks = "confirm", !.closes = "click",
                  !.then = "wait"]]

\* A key press in the field of the modal deletes whatever its button says.
DeleteImage(does) ==
  [Op("removeImageByRef", does) EXCEPT
     !.need = "manage_images", !.asks = "form", !.shuts = FALSE, !.closes = "ok",
     !.slot = "modal", !.then = "reload"]

\* A file of the computer is uploaded first, and then loaded as one of the
\* server is.
AddImage(call, does, then) ==
  [Op(call, does) EXCEPT
     !.need = "manage_images", !.bare = TRUE, !.from = {"gone"}, !.asks = "form",
     !.shuts = FALSE, !.slot = "modal", !.blocked = "slot", !.then = then]

\* An operation of the page: no row has it.
PageOp(call, does, slot, then) ==
  [Op(call, does) EXCEPT !.from = Anything, !.slot = slot, !.blocked = "slot", !.then = then]

ImageOps ==
  [delete      |-> DeleteImage("removeIdle"),
   forceDelete |-> DeleteImage("remove"),
   upload      |-> AddImage("uploadFile", "keep", "load"),
   load        |-> AddImage("loadImage", "load", "reload"),
   sync        |-> [PageOp("syncImages", "keep", "sync", "reload") EXCEPT
                      !.blocked = "listed"],
   prune       |-> [PageOp("pruneImages", "prune", "prune", "reload") EXCEPT
                      !.need = "manage_images"]]

\* The modals of volumes and networks submit at a key press too.
CreateModal(call) ==
  [Op(call, "add") EXCEPT
     !.need = "manage_network", !.from = {"gone"}, !.asks = "form", !.closes = "ok",
     !.slot = "modal", !.then = "reload"]

DeleteOps(call, does) ==
  [Op(call, does) EXCEPT
     !.asks = "confirm", !.closes = "ok", !.slot = "row", !.blocked = "row",
     !.then = "reload"]

VolumeOps ==
  [delete |-> DeleteOps("deleteVolume", "removeIdle"),
   create |-> [CreateModal("createVolume") EXCEPT !.bare = TRUE],
   prune  |-> [PageOp("pruneVolumes", "prune", "prune", "reload") EXCEPT
                 !.need = "manage_network"]]

\* A network is on when a container is connected to it.
Link(call, does, from) ==
  [Op(call, does) EXCEPT
     !.from = {from}, !.slot = "row", !.blocked = "row", !.then = "reload"]

NetworkOps ==
  [connect    |-> Link("dockerNetworkConnect", "on", "off"),
   disconnect |-> [Link("dockerNetworkDisconnect", "off", "on") EXCEPT !.key = "link"],
   delete     |-> [DeleteOps("deleteDockerNetwork", "removeIdle") EXCEPT !.from = {"off"}],
   create     |-> CreateModal("createDockerNetwork")]

\* A host is on when it is enabled.
HostModal(call, does, from) ==
  [Op(call, does) EXCEPT
     !.from = from, !.asks = "form", !.closes = "ok", !.slot = "modal",
     !.blocked = "slot", !.then = "local"]

ProxyOps ==
  [add     |-> HostModal("createProxyHost", "enable", {"gone"}),
   edit    |-> HostModal("updateProxyHost", "touch", {"off", "on"}),
   toggle  |-> [Op("toggleProxyHost", "turn") EXCEPT
                  !.slot = "row", !.blocked = "row", !.then = "local"],
   remove  |-> [Op("deleteProxyHost", "remove") EXCEPT
                  !.asks = "confirm", !.closes = "end", !.slot = "row", !.then = "local"],
   test    |-> [Op("testProxyHost", "touch") EXCEPT !.slot = "test", !.blocked = "row"],
   control |-> PageOp("nginxSystemControl", "keep", "nginx", "none")]

SaveConfig(does, from) ==
  [Op("saveNginxCustom", does) EXCEPT
     !.from = from, !.asks = "form", !.shuts = FALSE, !.closes = "ok",
     !.slot = "modal", !.blocked = "slot", !.then = "reload"]

ConfigOps ==
  [add     |-> SaveConfig("enable", {"gone"}),
   edit    |-> SaveConfig("turn", {"off", "on"}),
   delete  |-> [Op("deleteNginxCustom", "remove") EXCEPT !.then = "reload"],
   viewAll |-> [Op("listAllNginxConfigs", "keep") EXCEPT !.from = Anything]]

\* A ticket is on when it was sent.  The form is no modal and is not disabled.
TicketOps ==
  [create |-> [Op("createDNSTicket", "add") EXCEPT
                 !.from = {"gone"}, !.asks = "form", !.closes = "ok", !.then = "local"],
   send   |-> [Op("sendDNSTicket", "on") EXCEPT
                 !.slot = "sending", !.blocked = "row", !.then = "local"],
   delete |-> [Op("deleteDNSTicket", "remove") EXCEPT
                 !.slot = "deleting", !.blocked = "row", !.then = "local"],
   status |-> [Op("updateDNSTicket", "turn") EXCEPT !.then = "local"]]

\* The modals of users and of roles.
SaveModal(call, does, from) ==
  [Op(call, does) EXCEPT
     !.need = "superadmin", !.from = from, !.asks = "form", !.closes = "ok",
     !.slot = "modal", !.blocked = "slot", !.then = "reload"]

\* The lists are read again whatever the answer was.
Manages(call, does) ==
  [Op(call, does) EXCEPT !.need = "superadmin", !.then = "always"]

DeleteAsked(call) ==
  [Manages(call, "remove") EXCEPT !.asks = "confirm", !.closes = "end"]

UserOps ==
  [add      |-> SaveModal("createUser", "enable", {"gone"}),
   edit     |-> SaveModal("updateUser", "touch", {"off", "on"}),
   activity |-> [Op("userAudit", "keep") EXCEPT !.need = "superadmin"],
   toggle   |-> Manages("updateUser", "turn"),
   delete   |-> DeleteAsked("deleteUser")]

RoleOps ==
  [add    |-> SaveModal("createRole", "add", {"gone"}),
   edit   |-> SaveModal("updateRole", "touch", {"off", "on"}),
   delete |-> DeleteAsked("deleteRole")]

SessionOps == [revoke |-> Manages("revokeSession", "remove")]

\* restore is asked for by the plan of the backup (inspect), which opens it.
BackupOps ==
  [create  |-> [Op("createBackup", "add") EXCEPT
                  !.from = {"gone"}, !.slot = "creating", !.blocked = "slot",
                  !.then = "reload"],
   inspect |-> [Op("inspectBackup", "touch") EXCEPT !.then = "plan"],
   restore |-> [Op("restoreBackup", "touch") EXCEPT
                  !.from = {}, !.asks = "confirm", !.closes = "click"],
   delete  |-> [Op("deleteBackup", "remove") EXCEPT !.then = "reload"]]

PageOps ==
  [containers |-> ContainerOps, images |-> ImageOps, volumes |-> VolumeOps,
   networks |-> NetworkOps, proxyHosts |-> ProxyOps, nginxConfigs |-> ConfigOps,
   dns |-> TicketOps, users |-> UserOps, roles |-> RoleOps, sessions |-> SessionOps,
   backups |-> BackupOps]

InventoryPages == DOMAIN PageOps
Ops            == PageOps[page]

ListCalls ==
  [containers |-> "listAllContainers", images |-> "imageUsage", volumes |-> "listVolumes",
   networks |-> "listAllDockerNetworks", proxyHosts |-> "listProxyHosts",
   nginxConfigs |-> "listNginxCustom", dns |-> "listDNSTickets", users |-> "listUsers",
   roles |-> "listRoles", sessions |-> "listSessions", backups |-> "listBackups"]

\* load() says so each time on the first of these pages; the images are hidden
\* by their first load alone.
Flagged == {"containers", "volumes", "networks", "proxyHosts", "dns"}
Hiding  == Flagged \cup {"images"}

-----------------------------------------------------------------------------
(* The list *)

LoadRequest == Request("load", ListCalls[page], NoArg)

BusyLoading(busy) == IF page \in Flagged THEN busy \cup {Loading} ELSE busy

InventoryInit ==
  /\ page \in InventoryPages /\ perms \in Holders /\ line \in {"orderly", "lossy"}
  /\ ui = [busy |-> IF page \in Hiding THEN {Loading} ELSE {},
           items |-> [x \in Things |-> "gone"], modal |-> NoModal, later |-> FALSE,
           sel |-> {}, filter |-> "all"]
  /\ srv \in [items : [Things -> {"gone", "off", "on"}]]
  /\ net = <<LoadRequest>>

\* No modal covers the page; the form of the tickets is none.
Uncovered == ui.modal = NoModal \/ page = "dns"

Refresh ==
  /\ page \notin {"users", "roles", "sessions", "backups"} /\ Uncovered
  /\ Asks([ui EXCEPT !.busy = BusyLoading(@)], "load", ListCalls[page], NoArg)

\* setTimeout(load, 1200)
LaterFires ==
  /\ ui.later
  /\ Asks([ui EXCEPT !.busy = BusyLoading(@), !.later = FALSE], "load",
          ListCalls[page], NoArg)

\* Mutant: a list that cannot be read leaves the page loading.
Loaded_Stuck ==
  \/ Then("load", LAMBDA items : [ui EXCEPT !.items = items, !.busy = @ \ {Loading}])
  \/ Catch("load", ui)

Loaded ==
  \/ Then("load", LAMBDA items : [ui EXCEPT !.items = items, !.busy = @ \ {Loading}])
  \/ Catch("load", [ui EXCEPT !.busy = @ \ {Loading}])

Listed == {x \in Things : ui.items[x] # "gone"}

-----------------------------------------------------------------------------
(* An operation *)

Slot(o, x) == [slot |-> Ops[o].slot, of |-> x, key |-> Ops[o].key]

Freed(busy, slot) == {b \in busy : b.slot # slot}

\* Mutant: nothing says that it is under way.
Taken_Not(o, x) == ui.busy

\* The state of a slot is replaced, whoever had it.
Taken(o, x) ==
  IF Ops[o].slot = "none" THEN ui.busy
  ELSE Freed(ui.busy, Ops[o].slot) \cup {Slot(o, x)}

Blocked(o, x) ==
  CASE Ops[o].blocked = "never"  -> FALSE
    [] Ops[o].blocked = "row"    -> Slot(o, x) \in ui.busy
    [] Ops[o].blocked = "slot"   -> \E b \in ui.busy : b.slot = Ops[o].slot
    [] Ops[o].blocked = "listed" -> Listed # {} /\ \E b \in ui.busy : b.slot = Ops[o].slot

\* The control is there: the row is, in a state that has it, to this user.
OfferedTo(o) == \/ Ops[o].need = "any" \/ Can(Ops[o].need)
                \/ Ops[o].bare /\ Listed = {} /\ Loading \notin ui.busy

\* Stands for the row of what has none.
Someone == {CHOOSE x \in Things : TRUE}

OnPage(o, x) ==
  /\ Uncovered /\ OfferedTo(o) /\ ui.items[x] \in Ops[o].from
  /\ page \in Hiding /\ "gone" \notin Ops[o].from => Loading \notin ui.busy

Argument(o, x) == [op |-> o, of |-> x, mounted |-> TRUE, state |-> "-"]

Ask(o, x) == Request("op", Ops[o].call, Argument(o, x))

RunOp(o, x) ==
  Asks([ui EXCEPT !.busy = Taken(o, x),
                  !.modal = IF Ops[o].closes = "click" THEN NoModal ELSE @],
       "op", Ops[o].call, Argument(o, x))

\* The control of a ConfirmModal is disabled before it opens, that of a form
\* when it is submitted.
ClickOp ==
  \E o \in DOMAIN Ops : \E x \in (IF Ops[o].from = Anything THEN Someone ELSE Things) :
    /\ OnPage(o, x)
    /\ CASE Ops[o].asks = "no"      -> ~Blocked(o, x) /\ RunOp(o, x)
         [] Ops[o].asks = "confirm" -> ~Blocked(o, x)
                                       /\ Becomes([ui EXCEPT !.modal = [op |-> o, of |-> x]])
         [] Ops[o].asks = "form"    -> Becomes([ui EXCEPT !.modal = [op |-> o, of |-> x]])

ConfirmOp ==
  /\ ui.modal # NoModal
  /\ Ops[ui.modal.op].asks = "form" => ~Blocked(ui.modal.op, ui.modal.of)
  /\ RunOp(ui.modal.op, ui.modal.of)

\* What a form that is closed had sent has no state to change any more.
Unmounted(rs) ==
  [i \in DOMAIN rs |->
     IF rs[i].by = "op" /\ Ops[rs[i].arg.op].slot = "modal"
     THEN [rs[i] EXCEPT !.arg.mounted = FALSE] ELSE rs[i]]

CancelModal ==
  /\ ui.modal # NoModal
  /\ Ops[ui.modal.op].shuts \/ ~\E b \in ui.busy : b.slot = "modal"
  /\ PageIs([ui EXCEPT !.modal = NoModal, !.busy = Freed(@, "modal")])
  /\ net' = Unmounted(net)

-----------------------------------------------------------------------------
(* What the server does *)

CanDo(a) ==
  LET now == srv.items[a.of]
  IN CASE Ops[a.op].does \in {"add", "enable"} -> now = "gone"
       [] Ops[a.op].does = "removeIdle"         -> now = "off"
       [] Ops[a.op].does \in {"remove", "on", "off", "turn", "touch"} -> now # "gone"
       [] OTHER -> TRUE

Made(a) ==
  LET now == srv.items[a.of]
  IN CASE Ops[a.op].does \in {"enable", "on"}          -> "on"
       [] Ops[a.op].does \in {"add", "off"}            -> "off"
       [] Ops[a.op].does \in {"remove", "removeIdle"}  -> "gone"
       [] Ops[a.op].does = "turn" -> IF now = "on" THEN "off" ELSE "on"
       [] Ops[a.op].does = "load" -> IF now = "gone" THEN "off" ELSE now
       [] OTHER                                        -> now

\* Some of what nobody uses is pruned.
ServeOp ==
  \E gone \in SUBSET {x \in Things : srv.items[x] = "off"} :
    Makes("op", LAMBDA a : CanDo(a) /\ (Ops[a.op].does # "prune" => gone = {}),
          LAMBDA a : [items |-> [x \in Things |-> IF x \in gone THEN "gone" ELSE
                                                  IF x = a.of THEN Made(a) ELSE srv.items[x]]],
          LAMBDA a : [a EXCEPT !.state = Made(a)])

-----------------------------------------------------------------------------
(* What the page does with the answer *)

Closes(a, ok) ==
  /\ ui.modal.op \in DOMAIN Ops
  /\ Ops[ui.modal.op].asks = Ops[a.op].asks /\ Ops[ui.modal.op].closes = Ops[a.op].closes
  /\ Ops[a.op].closes = "end" \/ (ok /\ Ops[a.op].closes = "ok")

\* The busy flags after the answer: a form sets its own only while it is there.
Released(a, closed) ==
  LET slot == Ops[a.op].slot
      busy == IF slot = "modal" /\ ~a.mounted THEN ui.busy ELSE Freed(ui.busy, slot)
  IN IF closed THEN Freed(busy, "modal") ELSE busy

\* Mutant: the list keeps what it showed.
Applied_Not(a) == ui.items

Applied(a) ==
  IF Ops[a.op].then # "local" THEN ui.items
  ELSE IF Ops[a.op].asks = "form" \/ ui.items[a.of] # "gone"
       THEN [ui.items EXCEPT ![a.of] = a.state] ELSE ui.items

\* The continuation of a: closed, says whether its modal closes.
Settle(i, a, ok) ==
  LET closed == Closes(a, ok)
      rest   == IF closed THEN Unmounted(RemoveAt(net, i)) ELSE RemoveAt(net, i)
      then   == IF ok \/ Ops[a.op].then = "always" THEN Ops[a.op].then ELSE "none"
      idle   == [ui EXCEPT !.busy = Released(a, closed),
                           !.modal = IF closed THEN NoModal ELSE @]
  IN CASE then \in {"none", "local"} ->
            net' = rest /\ PageIs(IF ok THEN [idle EXCEPT !.items = Applied(a)] ELSE idle)
       [] then \in {"reload", "always"} ->
            net' = Append(rest, LoadRequest) /\ PageIs([idle EXCEPT !.busy = BusyLoading(@)])
       [] then = "later" -> net' = rest /\ PageIs([idle EXCEPT !.later = TRUE])
       [] then = "wait"  ->
            /\ net' = Append(rest, Request("wait", ListCalls[page], NoArg))
            /\ PageIs([ui EXCEPT !.sel = @ \ {a.of}, !.busy = BusyLoading(@)])
       [] then = "load"  -> net' = Append(rest, Ask("load", a.of)) /\ PageIs(ui)
       [] then = "plan"  ->
            net' = rest /\ PageIs([idle EXCEPT !.modal = [op |-> "restore", of |-> a.of]])

OpSettles ==
  \E i \in DOMAIN net :
    \/ Arrived(i, "op") /\ Settle(i, [net[i].arg EXCEPT !.state = Answer(i).state], TRUE)
    \/ Failed(i, "op") /\ Settle(i, net[i].arg, FALSE)

\* doDelete of a container waits for the list, which its load() catches.
WaitLoaded ==
  \/ Then("wait", LAMBDA items : [ui EXCEPT !.items = items,
                                            !.busy = Freed(@ \ {Loading}, "row")])
  \/ Catch("wait", [ui EXCEPT !.busy = Freed(@ \ {Loading}, "row")])

-----------------------------------------------------------------------------
(* Selections and stacks of containers *)

Filtered == {x \in Listed : ui.filter \in {"all", ui.items[x]}}

PickState ==
  page = "containers" /\ \E f \in {"all", "on", "off"} \ {ui.filter} :
    Becomes([ui EXCEPT !.filter = f])

\* toggleAll compares the sizes alone.
Select ==
  /\ page = "containers" /\ ui.modal = NoModal /\ Loading \notin ui.busy
  /\ \/ \E x \in Filtered :
          Becomes([ui EXCEPT !.sel = IF x \in @ THEN @ \ {x} ELSE @ \cup {x}])
     \/ /\ Filtered # {}
        /\ Becomes([ui EXCEPT !.sel = IF Cardinality(@) = Cardinality(Filtered)
                                      THEN {} ELSE Filtered])

\* doBulk and stackAction go through the members of the click one by one,
\* whatever becomes of each.
InTurnOf(members) == SetToSeq(members)

Bulk ==
  /\ page = "containers" /\ ui.sel # {} /\ Can("container_ops")
  /\ \E o \in {"start", "stop", "restart"} :
       Asks(ui, "bulk", Ops[o].call,
            [Argument(o, Head(InTurnOf(ui.sel))) EXCEPT !.state = Tail(InTurnOf(ui.sel))])

ServeBulk ==
  Makes("bulk", CanDo, LAMBDA a : [items |-> [srv.items EXCEPT ![a.of] = Made(a)]],
        LAMBDA a : a)

BulkSettles ==
  \E i \in DOMAIN net :
    /\ net[i].by = "bulk" /\ net[i].state \in {"done", "error"} /\ Next1(i)
    /\ LET a == net[i].arg
       IN IF a.state = <<>>
          THEN Handled(i) /\ PageIs([ui EXCEPT !.sel = {}, !.later = TRUE])
          ELSE /\ HandledThen(i, <<Request("bulk", net[i].call,
                    [a EXCEPT !.of = Head(a.state), !.state = Tail(a.state)])>>)
               /\ PageIs(ui)

\* doAction for each member: the slot goes from one to the next.
Stack ==
  /\ page = "containers" /\ Can("container_ops") /\ ui.modal = NoModal
  /\ Loading \notin ui.busy /\ Filtered # {}
  /\ \E o \in {"start", "stop", "restart"} :
       LET x == Head(InTurnOf(Filtered))
       IN Asks([ui EXCEPT !.busy = Taken(o, x)], "stack", Ops[o].call,
               [Argument(o, x) EXCEPT !.state = Tail(InTurnOf(Filtered))])

ServeStack ==
  Makes("stack", CanDo, LAMBDA a : [items |-> [srv.items EXCEPT ![a.of] = Made(a)]],
        LAMBDA a : a)

StackSettles ==
  \E i \in DOMAIN net :
    /\ net[i].by = "stack" /\ net[i].state \in {"done", "error"} /\ Next1(i)
    /\ LET a     == net[i].arg
           later == ui.later \/ net[i].state = "done"
       IN IF a.state = <<>>
          THEN Handled(i) /\ PageIs([ui EXCEPT !.busy = Freed(@, "row"), !.later = later])
          ELSE /\ HandledThen(i, <<Request("stack", net[i].call,
                    [a EXCEPT !.of = Head(a.state), !.state = Tail(a.state)])>>)
               /\ PageIs([ui EXCEPT !.busy = Taken(a.op, Head(a.state)), !.later = later])

InventoryNext ==
  /\ page \in InventoryPages
  /\ \/ Refresh \/ LaterFires \/ Loaded \/ ClickOp \/ ConfirmOp \/ CancelModal
     \/ ServeOp \/ OpSettles \/ WaitLoaded \/ PickState \/ Select \/ Bulk
     \/ ServeBulk \/ BulkSettles \/ Stack \/ ServeStack \/ StackSettles
     \/ \E by \in {"load", "wait"} : Tells(by, srv.items)
     \/ Forbid \/ Fault

-----------------------------------------------------------------------------
(* Properties *)

\* When nothing is under way and no answer was lost or overtaken, the list is
\* what the server has, after any sequence of operations, refused ones included.
ListIsTrue ==
  /\ page \in InventoryPages /\ Quiet /\ ~ui.later
  /\ Authorized(ListCalls[page])
  => ui.items = srv.items

\* An operation whose control is disabled while its slot is taken is not under
\* way twice from one form or page, whatever else took and freed its slot.
OnceSent ==
  page \in InventoryPages =>
    \A i, j \in DOMAIN net :
      /\ net[i].by = "op" /\ net[j].by = "op" /\ net[i].arg.op = net[j].arg.op
      /\ net[i].arg.mounted /\ net[j].arg.mounted /\ Ops[net[i].arg.op].blocked = "slot"
      => i = j
=============================================================================
