------------------------------ MODULE Pipeline ------------------------------
(***************************************************************************)
(* The bar of stages that pages/DeployPage.tsx computes from the log of a   *)
(* deployment, against the engine that writes the log.                      *)
(***************************************************************************)
EXTENDS Browser, FiniteSetsExt

\* PIPELINE_STAGES: resolve, write, deploy, health, nginx, done.  A line of the
\* log is the number of the stage whose marker it holds, Error for the marker of
\* an error, or Other.
Stages == 1 .. 6
Health == 4
Done   == 6
Error  == 0
Other  == 7

-----------------------------------------------------------------------------
(* computePipeline *)

MarkersOf(log) == {k \in DOMAIN log : log[k] \in Stages}
ErrorsOf(log)  == {k \in DOMAIN log : log[k] = Error}
LastStage(log, ks) == IF ks = {} THEN 0 ELSE log[Max(ks)]

LatestStage(log) == LastStage(log, MarkersOf(log))

\* An error belongs to the stage started last, or to the first one.  Mutant: to
\* the one after it.
ErrorStage_Next(log) ==
  IF ErrorsOf(log) = {} THEN 0
  ELSE LastStage(log, {k \in MarkersOf(log) : k < Max(ErrorsOf(log))}) + 1

ErrorStage(log) ==
  IF ErrorsOf(log) = {} THEN 0
  ELSE Max({1, LastStage(log, {k \in MarkersOf(log) : k < Max(ErrorsOf(log))})})

Passed(log) == {s \in Stages : \/ s < ErrorStage(log)
                               \/ \E k \in MarkersOf(log) : s < log[k]}

StageStatus(log, deploying, s) ==
  CASE s = ErrorStage(log) -> "error"
    [] s # ErrorStage(log) /\ s \in Passed(log) -> "done"
    [] s # ErrorStage(log) /\ s \notin Passed(log) ->
         IF ErrorsOf(log) # {} \/ s # LatestStage(log) THEN "pending"
         ELSE IF deploying /\ s # Done THEN "running" ELSE "done"

-----------------------------------------------------------------------------
(* The engine, the hub and the page *)

\* at: the stage that the engine is in; state: how it goes; wire: the lines on
\* their way to the page.
PipelineInit ==
  /\ Opens("pipeline")
  /\ ui = [busy |-> {}, log |-> <<>>, deploying |-> TRUE]
  /\ srv = [at |-> 0, state |-> "running", wire |-> <<>>]
  /\ net = <<>>

\* A line reaches the wire, unless the channel of the page is full.
Logged(s, l) == {s, [s EXCEPT !.wire = Append(@, l)]}

\* The marker of the next stage; without a configuration nginx has none.
EngineEnters ==
  /\ srv.state = "running" /\ srv.at < Done
  /\ \E s \in {srv.at + 1} \cup (IF srv.at = Health THEN {Done} ELSE {}) :
       \E w \in Logged([srv EXCEPT !.at = s, !.state = IF s = Done THEN "success" ELSE @], s) :
         Elsewhere(w)

EngineFails ==
  /\ srv.state = "running"
  /\ \E w \in Logged([srv EXCEPT !.state = "failed"], Error) : Elsewhere(w)

\* Hooks and the recovery write markers that are no stage's.
EngineWritesOther ==
  /\ srv.state \in {"running", "failed"} /\ Len(srv.wire) < 2
  /\ \E w \in Logged(srv, Other) : Elsewhere(w)

PipelineMessage ==
  /\ ui.deploying /\ srv.wire # <<>>
  /\ ui' = IF Head(srv.wire) = Other THEN ui
           ELSE [ui EXCEPT !.log = Append(@, Head(srv.wire))]
  /\ srv' = [srv EXCEPT !.wire = Tail(@)]
  /\ UNCHANGED <<session, net>>

\* The status of the deployment, or the end of the stream at any time.
PipelineStops == ui.deploying /\ Becomes([ui EXCEPT !.deploying = FALSE])

PipelineNext ==
  /\ page = "pipeline"
  /\ \/ EngineEnters \/ EngineFails \/ EngineWritesOther \/ PipelineMessage
     \/ PipelineStops

-----------------------------------------------------------------------------
(* Properties *)

\* Whatever lines were lost and however the stream ended: the bar shows a stage
\* as failed only if the engine failed, in this stage or after it, "Done" only
\* if the deployment succeeded, and a stage that is not the last one seen as done
\* only if the engine has left it.
PipelineIsTrue ==
  page = "pipeline" =>
    \A s \in Stages : LET shown == StageStatus(ui.log, ui.deploying, s) IN
      /\ shown = "error" => srv.state = "failed" /\ s <= Max({1, srv.at})
      /\ shown = "done" /\ s # LatestStage(ui.log) => s < srv.at
      /\ shown = "done" /\ s = Done => srv.state = "success"
=============================================================================
