----------------------------- MODULE DeployPage -----------------------------
(***************************************************************************)
(* pages/DeployPage.tsx while it deploys: the request, the stream of the    *)
(* deployment's log through the hub, and the history that is read again      *)
(* when the stream says that it is over.  The engine behind it is reduced    *)
(* to what the page can see of it: its record, the messages it publishes     *)
(* and the end of the stream; module DeployEngine has the rest.              *)
(***************************************************************************)
EXTENDS Browser, SSEHub

CONSTANTS
  MaxDeploys,    \* deployments that the operator starts from this page
  MaxLines       \* log lines of a deployment

ASSUME DeployPageAssumption == MaxDeploys \in Nat /\ MaxLines \in Nat

Deps == 1 .. MaxDeploys

-----------------------------------------------------------------------------
(* The server: TriggerDeploy and the goroutine it starts *)

\* phase of a deployment: where its goroutine is.
DeployServer ==
  [last   |-> 0,                              \* deployments triggered so far
   phase  |-> [d \in Deps |-> "none"],
   lines  |-> [d \in Deps |-> 0],
   rec    |-> [d \in Deps |-> "none"],
   stream |-> [d \in Deps |-> NewStream]]

Active(s) == \E d \in Deps : s.rec[d] = "running"

\* The goroutine uses the hub one call after the other.
HubIdle(d) == srv.stream[d].toSend = <<>> /\ ~srv.stream[d].closing

\* A deployment is refused while a record says that one runs.
TriggerDeploy ==
  \E i \in DOMAIN net :
    /\ Served(i, "startDeploy")
    /\ IF Active(srv) \/ srv.last = MaxDeploys
       THEN Refuse(i) /\ UNCHANGED srv
       ELSE LET d == srv.last + 1 IN
            /\ srv' = [srv EXCEPT !.last = d, !.phase[d] = "starting"]
            /\ Reply(i, d)
    /\ UNCHANGED <<session, ui>>

\* The engine saves the running record, or gives up before it has one.
EngineStarts(d) ==
  /\ srv.phase[d] = "starting"
  /\ \/ /\ ~Active(srv)
        /\ Elsewhere([srv EXCEPT !.phase[d] = "running", !.rec[d] = "running"])
     \/ Elsewhere([srv EXCEPT !.phase[d] = "failed"])

EngineLogs(d) ==
  /\ srv.phase[d] = "running" /\ HubIdle(d)
  /\ srv.lines[d] < MaxLines
  /\ Elsewhere([srv EXCEPT !.lines[d] = @ + 1,
                           !.stream[d] = PublishLock(@, "log")])

\* The final save of the record; an error is published before the status.
EngineEnds(d) ==
  /\ srv.phase[d] = "running" /\ HubIdle(d)
  /\ \E st \in {"success", "failed"} :
       Elsewhere([srv EXCEPT !.rec[d] = st,
                    !.phase[d] = IF st = "success" THEN "ended" ELSE "failed"])

PublishError(d) ==
  /\ srv.phase[d] = "failed" /\ HubIdle(d)
  /\ Elsewhere([srv EXCEPT !.stream[d] = PublishLock(@, "error"),
                           !.phase[d] = IF srv.rec[d] = "none" THEN "said" ELSE "ended"])

\* Mutant: the status is published while the record still says running.
PublishStatus_Early(d) ==
  /\ srv.phase[d] \in {"running", "ended"} /\ HubIdle(d)
  /\ \E st \in {"success", "failed"} : Elsewhere(
       [srv EXCEPT !.stream[d] = PublishLock(@, st),
                   !.phase[d] = IF @ = "ended" THEN "said" ELSE "running"])

PublishStatus(d) ==
  /\ srv.phase[d] = "ended" /\ HubIdle(d)
  /\ Elsewhere([srv EXCEPT !.stream[d] = PublishLock(@, srv.rec[d]),
                           !.phase[d] = "said"])

\* Mutant: the stream is closed beside the last message.
EngineCloses_Beside(d) ==
  /\ srv.phase[d] = "said"
  /\ Elsewhere([srv EXCEPT !.stream[d] = CloseLock(@), !.phase[d] = "closed"])

EngineCloses(d) ==
  /\ srv.phase[d] = "said" /\ HubIdle(d)
  /\ Elsewhere([srv EXCEPT !.stream[d] = CloseLock(@), !.phase[d] = "closed"])

HubSends(d) ==
  /\ ~HubIdle(d)
  /\ Elsewhere([srv EXCEPT !.stream[d] =
                  IF @.closing THEN CloseSend(@) ELSE PublishSend(@)])

HubForwards(d) ==
  /\ CanForward(srv.stream[d])
  /\ Elsewhere([srv EXCEPT !.stream[d] = Forward(@)])

Goroutine(d) ==
  \/ EngineStarts(d) \/ EngineLogs(d)    \/ EngineEnds(d) \/ PublishError(d)
  \/ PublishStatus(d) \/ EngineCloses(d) \/ HubSends(d)   \/ HubForwards(d)

-----------------------------------------------------------------------------
(* The page *)

\* list: the status of the deployments shown; es: the deployment whose
\* EventSource is open, 0 for none; log: the lines after the label.
DeployInit ==
  /\ Opens("deploy")
  /\ ui = [deploying |-> FALSE, list |-> [d \in Deps |-> "none"], es |-> 0, log |-> <<>>]
  /\ srv = DeployServer
  /\ net = <<Request("reload", "listDeployments", 0)>>

DeploymentsLoaded == Then("reload", LAMBDA rec : [ui EXCEPT !.list = rec])

\* startDeploy up to its await, from the confirmation that the buttons open;
\* every one of them is disabled while the page deploys.
StartDeploy ==
  /\ ~ui.deploying
  /\ Asks([ui EXCEPT !.deploying = TRUE, !.log = <<>>],
          "startDeploy", "triggerDeploy", NoArg)

\* setStreamKey: the effect opens the EventSource of the new deployment, after
\* the cleanup closed the one before.
DeployStarted ==
  \E i \in DOMAIN net :
    /\ Arrived(i, "startDeploy") /\ Handled(i)
    /\ LET d == Answer(i) IN
       /\ ui' = [ui EXCEPT !.es = d]
       /\ srv' = [srv EXCEPT !.stream[d] = Subscribe(@)]
    /\ UNCHANGED session

DeployRefused == Catch("startDeploy", [ui EXCEPT !.deploying = FALSE])

Stream == srv.stream[ui.es]

\* es.onmessage
StreamMessage ==
  /\ ui.es # 0 /\ Stream.wire # <<>>
  /\ LET m == Head(Stream.wire) IN
     \/ /\ m = "log"
        /\ ui' = [ui EXCEPT !.log = Append(@, m)]
        /\ srv' = [srv EXCEPT !.stream[ui.es].wire = Tail(@)]
        /\ UNCHANGED net
     \/ /\ m \in {"success", "failed", "error"}
        /\ ui' = [ui EXCEPT !.log = Append(@, m), !.deploying = FALSE, !.es = 0]
        /\ srv' = [srv EXCEPT !.stream[ui.es] = Hangup(@)]
        /\ Send(Request("reload", "listDeployments", ui.es))
  /\ UNCHANGED session

\* es.onerror: the response ended or the connection broke.  Mutant: the
\* browser is left to reconnect, as an EventSource does by itself.
StreamError_Reconnects ==
  /\ ui.es # 0 /\ Stream.wire = <<>> /\ Stream.conn = "over"
  /\ ui' = [ui EXCEPT !.deploying = FALSE]
  /\ srv' = [srv EXCEPT !.stream[ui.es] = Subscribe(@)]
  /\ UNCHANGED <<session, net>>

StreamError ==
  /\ ui.es # 0 /\ Stream.wire = <<>> /\ Stream.conn = "over"
  /\ ui' = [ui EXCEPT !.deploying = FALSE, !.es = 0]
  /\ UNCHANGED <<session, srv, net>>

StreamBreaks ==
  /\ ui.es # 0 /\ Stream.conn = "live"
  /\ Elsewhere([srv EXCEPT !.stream[ui.es] = Hangup(@)])

DeployNext ==
  /\ page = "deploy"
  /\ \/ StartDeploy \/ DeployStarted \/ DeployRefused \/ StreamMessage \/ StreamError
     \/ StreamBreaks \/ TriggerDeploy \/ \E d \in Deps : Goroutine(d)
     \/ Tells("reload", srv.rec) \/ DeploymentsLoaded \/ DropError({"reload"})
     \/ Forbid \/ Fault

-----------------------------------------------------------------------------
(* The deployment that DashboardPage starts: DeployModal *)

\* The modal deploys when it opens; done, success: how it says it ended.
ModalInit ==
  /\ Opens("deployModal")
  /\ ui = [deploying |-> TRUE, es |-> 0, done |-> FALSE, success |-> FALSE,
           cancelling |-> FALSE, dep |-> 0, log |-> <<>>]
  /\ srv = DeployServer
  /\ net = <<Request("startDeploy", "triggerDeploy", NoArg)>>

ModalStarted ==
  \E i \in DOMAIN net :
    /\ Arrived(i, "startDeploy") /\ Handled(i)
    /\ LET d == Answer(i) IN
       /\ ui' = [ui EXCEPT !.es = d, !.dep = d]
       /\ srv' = [srv EXCEPT !.stream[d] = Subscribe(@)]
    /\ UNCHANGED session

ModalEnded == [ui EXCEPT !.deploying = FALSE, !.done = TRUE, !.es = 0]

ModalRefused == Catch("startDeploy", ModalEnded)

\* An error is logged, a status ends the modal.  Mutant: an error of the log
\* is taken for a status.
ModalMessage_AnyStatus ==
  /\ ui.es # 0 /\ Stream.wire # <<>> /\ Head(Stream.wire) # "log"
  /\ ui' = [ModalEnded EXCEPT !.success = Head(Stream.wire) # "failed"]
  /\ srv' = [srv EXCEPT !.stream[ui.es] = Hangup(@)]
  /\ UNCHANGED <<session, net>>

ModalMessage ==
  /\ ui.es # 0 /\ Stream.wire # <<>>
  /\ LET m == Head(Stream.wire) IN
     \/ /\ m \in {"log", "error"}
        /\ ui' = [ui EXCEPT !.log = Append(@, m)]
        /\ srv' = [srv EXCEPT !.stream[ui.es].wire = Tail(@)]
     \/ /\ m \in {"success", "failed"}
        /\ ui' = [ModalEnded EXCEPT !.success = m = "success",
                                    !.log = Append(ui.log, m)]
        /\ srv' = [srv EXCEPT !.stream[ui.es] = Hangup(@)]
  /\ UNCHANGED <<session, net>>

\* Also when the stream broke and the deployment goes on.
ModalStreamError ==
  /\ ui.es # 0 /\ Stream.wire = <<>> /\ Stream.conn = "over"
  /\ Becomes(ModalEnded)

\* Nothing resets cancelling.
ClickCancelDeploy ==
  /\ ui.deploying /\ ui.dep # 0 /\ ~ui.cancelling
  /\ Asks([ui EXCEPT !.cancelling = TRUE], "cancel", "cancelDeploy", ui.dep)

\* CancelDeploy stops the context of the engine, whose next step fails.
ServeCancelDeploy ==
  Does("cancel", LAMBDA d : srv.phase[d] = "running",
       LAMBDA d : [srv EXCEPT !.rec[d] = "failed", !.phase[d] = "failed"])

ModalNext ==
  /\ page = "deployModal"
  /\ \/ ModalStarted \/ ModalRefused \/ ModalMessage \/ ModalStreamError
     \/ StreamBreaks \/ ClickCancelDeploy \/ ServeCancelDeploy \/ Finally("cancel", ui)
     \/ TriggerDeploy \/ (\E d \in Deps : Goroutine(d)) \/ Forbid \/ Fault

-----------------------------------------------------------------------------
(* Properties *)

\* The page has a stream open only while it says that it deploys, and a stream
\* open or a request under way whenever it says so: the buttons can neither
\* stay disabled for nothing nor start a deployment under a running log.
DeployingIsTrue ==
  page \in {"deploy", "deployModal"} =>
    (ui.deploying <=> ui.es # 0 \/ Waiting("startDeploy"))

\* When the page reads the history again because the stream said that a
\* deployment is over, its record is settled already.
ReloadSeesOutcome ==
  page = "deploy" =>
    \A i \in DOMAIN net :
      net[i].by = "reload" /\ net[i].arg # 0 => srv.rec[net[i].arg] # "running"

\* A modal that says "Deployed successfully" is right, however the messages,
\* a cancellation and the end of the stream came.
SuccessIsTrue ==
  page = "deployModal" /\ ui.success => srv.rec[ui.dep] = "success"

\* The hub never sends to a channel that it has closed (which would bring the
\* process down), and no message reaches the log twice: a subscriber is
\* replayed what was published before it came and sent what comes after.
LogIsPublished ==
  page \in {"deploy", "deployModal"} =>
    /\ \A d \in Deps : srv.stream[d].toSend # <<>> => srv.stream[d].open
    /\ ui.es # 0 => Cardinality({i \in DOMAIN ui.log : ui.log[i] = "log"})
                      <= srv.lines[ui.es]

\* What the pages say of the outcome of a deployment is in its record by then.
OutcomeIsTold == ReloadSeesOutcome /\ SuccessIsTrue

\* Deploying ends, whatever happens to the stream.
Deploying == page \in {"deploy", "deployModal"} /\ ui.deploying
DeployingEnds == Deploying ~> ~Deploying
=============================================================================
