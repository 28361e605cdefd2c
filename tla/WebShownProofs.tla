--------------------------- MODULE WebShownProofs ---------------------------
(***************************************************************************)
(* Theorems about what the pages of a project show, for every value of the  *)
(* constants: the bar of stages against the engine that writes the log; the *)
(* confirmation, the tags, the schedules and the settings; the editors; the *)
(* lists, buttons and logs of the other pages; and that no page asks for    *)
(* what the router forbids to its user.                                     *)
(***************************************************************************)
EXTENDS WebRequestsProofs, WellFoundedInduction

-----------------------------------------------------------------------------
(* One page at a time *)

\* The actions of a page are the only ones that move it.
LEMMA OnPage ==
  ASSUME ProjectsNext
  PROVE  /\ page = "pipeline" => PipelineNext
         /\ page = "session" => SessionNext
         /\ page = "nav" => NavNext
         /\ page = "tags" => TagsNext
         /\ page = "schedules" => SchedulesNext
         /\ page = "confirm" => ConfirmNext
         /\ page \in {"compose", "composeTab"} => ComposeNext
         /\ page \in {"env", "envTab"} => EnvNext
         /\ page = "newProject" => NewProjectNext
         /\ page = "project" => ProjectNext
         /\ page = "overview" => OverviewNext
         /\ page = "dashboard" => DashboardNext
         /\ page = "logs" => LogsNext
         /\ page = "fileBrowser" => FileBrowserNext
BY DEF ProjectsNext, DeployNext, ModalNext, ConfirmNext, TagsNext, SchedulesNext, ComposeNext,
       DeploySettingsNext, EnvNext, ProjectNext, OverviewNext, NewProjectNext, LogsNext,
       ExecNext, DashboardNext, FileBrowserNext, PipelineNext, SessionNext, NavNext

\* A page that is mounted stays mounted.
LEMMA OnePage == ASSUME [ProjectsNext]_webVars PROVE page' = page
BY DeployPagesStay, PageStays DEF webVars

-----------------------------------------------------------------------------
(* The bar of stages *)

\* Of two lines of a log, what the earlier one says about the later: the stages
\* come in their order, and after an error neither a stage nor another error.
Fits(x, y) ==
  /\ x \in Stages /\ y \in Stages => x < y
  /\ x = Error => y \notin Stages /\ y # Error

\* What a line says about the engine.
Known(x, s) ==
  /\ x \in Stages => x <= s.at
  /\ x = Error => s.state = "failed"
  /\ x = Done => s.state = "success"

InOrder(q) == \A j, k \in DOMAIN q : j < k => Fits(q[j], q[k])
AllKnown(q, s) == \A k \in DOMAIN q : Known(q[k], s)
Ahead(p, q) == \A j \in DOMAIN p, k \in DOMAIN q : Fits(p[j], q[k])

PipelineInv ==
  page = "pipeline" =>
    /\ ui.log \in Seq(0..7) /\ ui.deploying \in BOOLEAN
    /\ DOMAIN ui = {"busy", "log", "deploying"}
    /\ srv \in [at : 0..6, state : {"running", "failed", "success"}, wire : Seq(0..7)]
    /\ InOrder(ui.log) /\ InOrder(srv.wire) /\ Ahead(ui.log, srv.wire)
    /\ AllKnown(ui.log, srv) /\ AllKnown(srv.wire, srv)

\* A line that fits behind all the others is logged.
LEMMA LogsInOrder ==
  ASSUME NEW p \in Seq(0..7), NEW q \in Seq(0..7), NEW x \in 0..7,
         InOrder(q), Ahead(p, q),
         \A j \in DOMAIN p : Fits(p[j], x), \A k \in DOMAIN q : Fits(q[k], x)
  PROVE  /\ Append(q, x) \in Seq(0..7)
         /\ InOrder(Append(q, x)) /\ Ahead(p, Append(q, x))
<1>. DEFINE r == Append(q, x)
<1>1. /\ r \in Seq(0..7) /\ DOMAIN r = 1..Len(q) + 1 /\ DOMAIN q = 1..Len(q)
      /\ Len(q) \in Nat
      /\ \A k \in 1..Len(q) : r[k] = q[k]
      /\ r[Len(q) + 1] = x
  OBVIOUS
<1>. HIDE DEF r
<1>2. ASSUME NEW j \in DOMAIN r, NEW k \in DOMAIN r, j < k
      PROVE  Fits(r[j], r[k])
  <2>1. j \in DOMAIN q /\ r[j] = q[j]
    BY <1>1, <1>2
  <2>2. CASE k \in DOMAIN q
    <3>1. Fits(q[j], q[k]) /\ r[k] = q[k]
      BY <1>1, <1>2, <2>1, <2>2 DEF InOrder
    <3>. QED BY <2>1, <3>1
  <2>3. CASE k \notin DOMAIN q
    <3>1. r[k] = x
      BY <1>1, <2>3
    <3>. QED BY <2>1, <3>1
  <2>. QED BY <2>2, <2>3
<1>3. ASSUME NEW j \in DOMAIN p, NEW k \in DOMAIN r
      PROVE  Fits(p[j], r[k])
  <2>1. CASE k \in DOMAIN q
    BY <1>1, <2>1 DEF Ahead
  <2>2. CASE k \notin DOMAIN q
    <3>1. r[k] = x
      BY <1>1, <2>2
    <3>. QED BY <3>1
  <2>. QED BY <2>1, <2>2
<1>. QED BY <1>1, <1>2, <1>3 DEF InOrder, Ahead, r

LEMMA AppendAhead ==
  ASSUME NEW p \in Seq(0..7), NEW x \in 0..7, NEW r \in Seq(0..7),
         Ahead(p, r), \A k \in DOMAIN r : Fits(x, r[k])
  PROVE  Ahead(Append(p, x), r)
<1>. DEFINE q == Append(p, x)
<1>1. /\ DOMAIN q = 1..Len(p) + 1 /\ DOMAIN p = 1..Len(p)
      /\ Len(p) \in Nat
      /\ \A k \in 1..Len(p) : q[k] = p[k]
      /\ q[Len(p) + 1] = x
  OBVIOUS
<1>. HIDE DEF q
<1>2. ASSUME NEW j \in DOMAIN q, NEW k \in DOMAIN r
      PROVE  Fits(q[j], r[k])
  <2>1. CASE j \in DOMAIN p
    BY <1>1, <2>1 DEF Ahead
  <2>2. CASE j \notin DOMAIN p
    <3>1. q[j] = x
      BY <1>1, <2>2
    <3>. QED BY <3>1
  <2>. QED BY <2>1, <2>2
<1>. QED BY <1>2 DEF Ahead, q

LEMMA AppendKnown ==
  ASSUME NEW q \in Seq(0..7), NEW x \in 0..7, NEW s, AllKnown(q, s), Known(x, s)
  PROVE  AllKnown(Append(q, x), s)
<1>. DEFINE r == Append(q, x)
<1>1. /\ DOMAIN r = 1..Len(q) + 1 /\ DOMAIN q = 1..Len(q)
      /\ Len(q) \in Nat
      /\ \A k \in 1..Len(q) : r[k] = q[k]
      /\ r[Len(q) + 1] = x
  OBVIOUS
<1>. HIDE DEF r
<1>2. ASSUME NEW k \in DOMAIN r
      PROVE  Known(r[k], s)
  <2>1. CASE k \in DOMAIN q
    BY <1>1, <2>1 DEF AllKnown
  <2>2. CASE k \notin DOMAIN q
    <3>1. r[k] = x
      BY <1>1, <2>2
    <3>. QED BY <3>1
  <2>. QED BY <2>1, <2>2
<1>. QED BY <1>2 DEF AllKnown, r

\* The first line is taken off the wire.
LEMMA WireTaken ==
  ASSUME NEW p \in Seq(0..7), NEW q \in Seq(0..7), q # <<>>, NEW s,
         InOrder(q), Ahead(p, q), AllKnown(q, s)
  PROVE  /\ Tail(q) \in Seq(0..7) /\ Head(q) \in 0..7
         /\ InOrder(Tail(q)) /\ Ahead(p, Tail(q)) /\ AllKnown(Tail(q), s)
         /\ Known(Head(q), s)
         /\ \A j \in DOMAIN p : Fits(p[j], Head(q))
         /\ \A k \in DOMAIN Tail(q) : Fits(Head(q), Tail(q)[k])
<1>. DEFINE r == Tail(q)
<1>1. /\ r \in Seq(0..7) /\ DOMAIN r = 1..Len(q) - 1 /\ DOMAIN q = 1..Len(q)
      /\ Len(q) \in Nat \ {0} /\ Head(q) = q[1] /\ Head(q) \in 0..7
      /\ \A k \in 1..Len(q) - 1 : r[k] = q[k + 1]
  OBVIOUS
<1>. HIDE DEF r
<1>2. \A k \in DOMAIN r : k + 1 \in DOMAIN q /\ r[k] = q[k + 1] /\ 1 < k + 1
  BY <1>1
<1>3. 1 \in DOMAIN q
  BY <1>1
<1>4. InOrder(r)
  <2>. SUFFICES ASSUME NEW j \in DOMAIN r, NEW k \in DOMAIN r, j < k
                PROVE  Fits(r[j], r[k])
    BY DEF InOrder
  <2>1. j + 1 < k + 1
    BY <1>1
  <2>2. Fits(q[j + 1], q[k + 1])
    BY <1>2, <2>1 DEF InOrder
  <2>. QED BY <1>2, <2>2
<1>5. Ahead(p, r)
  BY <1>2 DEF Ahead
<1>6. AllKnown(r, s)
  BY <1>2 DEF AllKnown
<1>7. Known(Head(q), s)
  BY <1>1, <1>3 DEF AllKnown
<1>8. \A j \in DOMAIN p : Fits(p[j], Head(q))
  BY <1>1, <1>3 DEF Ahead
<1>9. \A k \in DOMAIN r : Fits(Head(q), r[k])
  BY <1>1, <1>2, <1>3 DEF InOrder
<1>. QED BY <1>1, <1>4, <1>5, <1>6, <1>7, <1>8, <1>9 DEF r

\* The engine logs a line, or the wire is full: the lines that are there keep
\* saying the truth when the engine only goes on.
LEMMA EngineLogged ==
  ASSUME PipelineInv, page = "pipeline", NEW a \in 0..6, NEW st \in {"running", "failed", "success"},
         NEW x \in 0..7, NEW s,
         s = [srv EXCEPT !.at = a, !.state = st],
         srv' \in {s, [s EXCEPT !.wire = Append(@, x)]},
         page' = page, ui' = ui,
         srv.at <= a, srv.state # "running" => st = srv.state,
         Known(x, s), x # Other => srv.state = "running" /\ (x \in Stages => srv.at < x)
  PROVE  PipelineInv'
<1>1. /\ srv \in [at : 0..6, state : {"running", "failed", "success"}, wire : Seq(0..7)]
      /\ ui.log \in Seq(0..7) /\ ui.deploying \in BOOLEAN
      /\ DOMAIN ui = {"busy", "log", "deploying"}
      /\ InOrder(ui.log) /\ InOrder(srv.wire) /\ Ahead(ui.log, srv.wire)
      /\ AllKnown(ui.log, srv) /\ AllKnown(srv.wire, srv)
  BY DEF PipelineInv
<1>2. /\ s.at = a /\ s.state = st /\ s.wire = srv.wire
      /\ s \in [at : 0..6, state : {"running", "failed", "success"}, wire : Seq(0..7)]
  BY <1>1
<1>3. \A y : Known(y, srv) => Known(y, s)
  BY <1>1, <1>2, SMT DEF Known, Stages, Error, Done
<1>4. \A y \in 0..7 : Known(y, srv) => Fits(y, x)
  <2>1. CASE x = Other
    BY <2>1 DEF Fits, Stages, Error, Other
  <2>2. CASE x # Other
    <3>1. srv.state = "running" /\ (x \in Stages => srv.at < x)
      BY <2>2
    <3>. QED BY <1>1, <3>1 DEF Fits, Known, Stages, Error
  <2>. QED BY <2>1, <2>2
<1>5. AllKnown(ui.log, s) /\ AllKnown(srv.wire, s)
  BY <1>1, <1>3 DEF AllKnown
<1>6. CASE srv' = s
  BY <1>1, <1>2, <1>5, <1>6 DEF PipelineInv, Ahead, InOrder, AllKnown, Known, Fits
<1>7. CASE srv' = [s EXCEPT !.wire = Append(@, x)]
  <2>1. /\ srv'.wire = Append(srv.wire, x) /\ srv'.at = a /\ srv'.state = st
        /\ srv' \in [at : 0..6, state : {"running", "failed", "success"}, wire : Seq(0..7)]
    <3>1. Append(srv.wire, x) \in Seq(0..7)
      BY <1>1
    <3>. DEFINE w == Append(srv.wire, x)
    <3>2. srv' = [s EXCEPT !.wire = w]
      BY <1>2, <1>7
    <3>. HIDE DEF w
    <3>3. w \in Seq(0..7)
      BY <3>1 DEF w
    <3>4. srv'.wire = w /\ srv'.at = a /\ srv'.state = st
      BY <1>2, <3>2
    <3>5. srv' \in [at : 0..6, state : {"running", "failed", "success"}, wire : Seq(0..7)]
      BY <1>2, <3>2, <3>3
    <3>. QED BY <3>4, <3>5 DEF w
  <2>2. /\ \A j \in DOMAIN ui.log : Fits(ui.log[j], x)
        /\ \A k \in DOMAIN srv.wire : Fits(srv.wire[k], x)
    <3>1. \A j \in DOMAIN ui.log : ui.log[j] \in 0..7 /\ Known(ui.log[j], srv)
      BY <1>1 DEF AllKnown
    <3>2. \A k \in DOMAIN srv.wire : srv.wire[k] \in 0..7 /\ Known(srv.wire[k], srv)
      BY <1>1 DEF AllKnown
    <3>. QED BY <1>4, <3>1, <3>2
  <2>3. InOrder(Append(srv.wire, x)) /\ Ahead(ui.log, Append(srv.wire, x))
    BY <1>1, <2>2, LogsInOrder
  <2>4. AllKnown(Append(srv.wire, x), s)
    BY <1>1, <1>5, AppendKnown
  <2>5. \A q : AllKnown(q, s) => AllKnown(q, srv')
    BY <1>2, <2>1 DEF AllKnown, Known
  <2>. QED BY <1>1, <1>5, <2>1, <2>3, <2>4, <2>5
       DEF PipelineInv
<1>. QED BY <1>6, <1>7

LEMMA PipelineStarts == ASSUME ProjectsInit PROVE PipelineInv
<1>. SUFFICES ASSUME page = "pipeline" PROVE PipelineInv
  BY DEF PipelineInv
<1>1. PipelineInit
  BY DEF ProjectsInit, DeployInit, ModalInit, Opens, ConfirmInit, TagsInit, SchedulesInit,
         ComposeInit, DeploySettingsInit, EnvInit, ProjectInit, OverviewInit, NewProjectInit,
         LogsInit, ExecInit, DashboardInit, FileBrowserInit, SessionInit, NavInit
<1>. QED BY <1>1 DEF PipelineInit, PipelineInv, InOrder, Ahead, AllKnown

LEMMA PipelineMoves == ASSUME PipelineInv, [ProjectsNext]_webVars PROVE PipelineInv'
<1>. SUFFICES ASSUME page = "pipeline", page' = page PROVE PipelineInv'
  BY OnePage DEF PipelineInv
<1>1. /\ srv \in [at : 0..6, state : {"running", "failed", "success"}, wire : Seq(0..7)]
      /\ ui.log \in Seq(0..7) /\ ui.deploying \in BOOLEAN
      /\ DOMAIN ui = {"busy", "log", "deploying"}
      /\ InOrder(ui.log) /\ InOrder(srv.wire) /\ Ahead(ui.log, srv.wire)
      /\ AllKnown(ui.log, srv) /\ AllKnown(srv.wire, srv)
  BY DEF PipelineInv
<1>2. ASSUME NEW a \in 0..6, NEW st \in {"running", "failed", "success"}, NEW x \in 0..7,
             Elsewhere([srv EXCEPT !.at = a, !.state = st])
               \/ Elsewhere([[srv EXCEPT !.at = a, !.state = st] EXCEPT !.wire = Append(@, x)]),
             srv.at <= a, srv.state # "running" => st = srv.state,
             Known(x, [srv EXCEPT !.at = a, !.state = st]),
             x # Other => srv.state = "running" /\ (x \in Stages => srv.at < x)
      PROVE  PipelineInv'
  <2>. DEFINE s == [srv EXCEPT !.at = a, !.state = st]
  <2>1. srv' \in {s, [s EXCEPT !.wire = Append(@, x)]} /\ ui' = ui
    BY <1>2 DEF Elsewhere, ServerIs
  <2>2. Known(x, s)
    BY <1>2
  <2>. HIDE DEF s
  <2>3. s = [srv EXCEPT !.at = a, !.state = st]
    BY DEF s
  <2>. QED BY <1>2, <2>1, <2>2, <2>3, EngineLogged
<1>3. CASE EngineEnters
  <2>1. srv.state = "running" /\ srv.at < Done
    BY <1>3 DEF EngineEnters
  <2>2. PICK s \in {srv.at + 1} \cup (IF srv.at = Health THEN {Done} ELSE {}) :
          \E w \in Logged([srv EXCEPT !.at = s, !.state = IF s = Done THEN "success" ELSE @], s) :
            Elsewhere(w)
    BY <1>3 DEF EngineEnters
  <2>. DEFINE st == IF s = Done THEN "success" ELSE srv.state
              t  == [srv EXCEPT !.at = s, !.state = st]
  <2>3. s \in 1..6 /\ srv.at < s
    BY <1>1, <2>1, <2>2 DEF Health, Done
  <2>4. [srv EXCEPT !.at = s, !.state = IF s = Done THEN "success" ELSE @] = t
    OBVIOUS
  <2>5. Elsewhere(t) \/ Elsewhere([t EXCEPT !.wire = Append(@, s)])
    BY <2>2, <2>4 DEF Logged
  <2>6. t.at = s /\ t.state = st
    BY <1>1
  <2>7. Known(s, t)
    BY <2>3, <2>6 DEF Known, Stages, Error, Done
  <2>8. st \in {"running", "failed", "success"} /\ s \in 0..6 /\ s \in 0..7 /\ srv.at <= s
    BY <1>1, <2>1, <2>3
  <2>. HIDE DEF st
  <2>. QED BY <1>2, <2>1, <2>3, <2>5, <2>7, <2>8
<1>4. CASE EngineFails
  <2>. DEFINE t == [srv EXCEPT !.at = srv.at, !.state = "failed"]
  <2>1. srv.state = "running" /\ \E w \in Logged([srv EXCEPT !.state = "failed"], Error) : Elsewhere(w)
    BY <1>4 DEF EngineFails
  <2>2. [srv EXCEPT !.state = "failed"] = t
    BY <1>1
  <2>3. Elsewhere(t) \/ Elsewhere([t EXCEPT !.wire = Append(@, Error)])
    BY <2>1, <2>2 DEF Logged
  <2>4. Known(Error, t) /\ Error \in 0..7 /\ Error \notin Stages
    BY <1>1 DEF Known, Stages, Error, Done
  <2>5. srv.at \in 0..6 /\ srv.at <= srv.at
    BY <1>1
  <2>. QED BY <1>2, <2>1, <2>3, <2>4, <2>5
<1>5. CASE EngineWritesOther
  <2>. DEFINE t == [srv EXCEPT !.at = srv.at, !.state = srv.state]
  <2>1. \E w \in Logged(srv, Other) : Elsewhere(w)
    BY <1>5 DEF EngineWritesOther
  <2>2. srv = t
    BY <1>1
  <2>3. Elsewhere(t) \/ Elsewhere([t EXCEPT !.wire = Append(@, Other)])
    BY <2>1, <2>2 DEF Logged
  <2>4. Known(Other, t) /\ Other \in 0..7
    BY <1>1 DEF Known, Stages, Error, Done, Other
  <2>5. srv.at \in 0..6 /\ srv.at <= srv.at /\ srv.state \in {"running", "failed", "success"}
    BY <1>1
  <2>. QED BY <1>2, <2>3, <2>4, <2>5
<1>6. CASE PipelineMessage
  <2>1. /\ srv.wire # <<>> /\ srv' = [srv EXCEPT !.wire = Tail(@)]
        /\ ui' = IF Head(srv.wire) = Other THEN ui
                 ELSE [ui EXCEPT !.log = Append(@, Head(srv.wire))]
    BY <1>6 DEF PipelineMessage
  <2>. DEFINE x == Head(srv.wire)
              r == Tail(srv.wire)
  <2>2. /\ r \in Seq(0..7) /\ x \in 0..7
        /\ InOrder(r) /\ Ahead(ui.log, r) /\ AllKnown(r, srv) /\ Known(x, srv)
        /\ \A j \in DOMAIN ui.log : Fits(ui.log[j], x)
        /\ \A k \in DOMAIN r : Fits(x, r[k])
    BY <1>1, <2>1, WireTaken
  <2>0. srv' = [srv EXCEPT !.wire = r]
    BY <2>1
  <2>. HIDE DEF x, r
  <2>3. /\ srv' \in [at : 0..6, state : {"running", "failed", "success"}, wire : Seq(0..7)]
        /\ srv'.at = srv.at /\ srv'.state = srv.state /\ srv'.wire = r
    BY <1>1, <2>0, <2>2
  <2>4. \A q : AllKnown(q, srv) => AllKnown(q, srv')
    BY <2>3 DEF AllKnown, Known
  <2>5. CASE x = Other
    <3>1. ui' = ui
      BY <2>1, <2>5 DEF x
    <3>. QED BY <1>1, <2>2, <2>3, <2>4, <3>1 DEF PipelineInv
  <2>6. CASE x # Other
    <3>1. ui' = [ui EXCEPT !.log = Append(@, x)]
      BY <2>1, <2>6 DEF x
    <3>2. /\ ui'.log = Append(ui.log, x) /\ ui'.deploying = ui.deploying
          /\ DOMAIN ui' = {"busy", "log", "deploying"}
      BY <1>1, <3>1
    <3>3. Append(ui.log, x) \in Seq(0..7) /\ InOrder(Append(ui.log, x))
      <4>1. Ahead(<<>>, ui.log) /\ \A j \in DOMAIN <<>> : Fits(<<>>[j], x)
        BY DEF Ahead
      <4>2. <<>> \in Seq(0..7)
        OBVIOUS
      <4>. QED BY <1>1, <2>2, <4>1, <4>2, LogsInOrder
    <3>4. AllKnown(Append(ui.log, x), srv)
      BY <1>1, <2>2, AppendKnown
    <3>5. Ahead(Append(ui.log, x), r)
      BY <1>1, <2>2, AppendAhead
    <3>. QED BY <1>1, <2>2, <2>3, <2>4, <3>2, <3>3, <3>4, <3>5 DEF PipelineInv
  <2>. QED BY <2>5, <2>6
<1>7. CASE PipelineStops
  <2>1. ui' = [ui EXCEPT !.deploying = FALSE] /\ srv' = srv
    BY <1>7 DEF PipelineStops, Becomes, PageIs
  <2>2. ui'.log = ui.log /\ ui'.deploying = FALSE /\ DOMAIN ui' = {"busy", "log", "deploying"}
    BY <1>1, <2>1
  <2>. QED BY <1>1, <2>1, <2>2 DEF PipelineInv
<1>8. CASE UNCHANGED webVars
  <2>1. ui' = ui /\ srv' = srv
    BY <1>8 DEF webVars
  <2>. QED BY <1>1, <2>1 DEF PipelineInv
<1>. QED BY <1>3, <1>4, <1>5, <1>6, <1>7, <1>8, OnPage DEF PipelineNext

LEMMA PipelineInvHolds == ProjectsSpec => []PipelineInv
BY PipelineStarts, PipelineMoves, PTL DEF ProjectsSpec

-----------------------------------------------------------------------------
(* What the bar shows *)

\* The greatest line of some lines of a log.
LEMMA LastLine ==
  ASSUME NEW q \in Seq(0..7), NEW S, S \subseteq DOMAIN q, S # {}
  PROVE  Max(S) \in S
<1>. DEFINE T == {Len(q) - k : k \in S}
<1>1. DOMAIN q = 1..Len(q) /\ Len(q) \in Nat
  OBVIOUS
<1>2. T \subseteq Nat /\ T # {}
  BY <1>1
<1>3. PICK t \in T : \A u \in T : <<u, t>> \notin OpToRel(<, Nat)
  BY <1>2, WFMin, NatLessThanWellFounded, Zenon
<1>4. \A u \in T : ~(u < t)
  BY <1>2, <1>3, Zenon DEF OpToRel
<1>5. PICK m \in S : t = Len(q) - m
  OBVIOUS
<1>6. \A k \in S : m >= k
  <2>. SUFFICES ASSUME NEW k \in S PROVE m >= k
    OBVIOUS
  <2>1. ~(Len(q) - k < Len(q) - m)
    BY <1>4, <1>5
  <2>. QED BY <1>1, <2>1
<1>. QED BY <1>6, Zenon DEF Max

\* The stage seen last is one of the log, and so is the one that an error ends.
LEMMA LastStageSeen ==
  ASSUME NEW q \in Seq(0..7), NEW S, S \subseteq MarkersOf(q)
  PROVE  LastStage(q, S) = 0 \/ \E k \in MarkersOf(q) : LastStage(q, S) = q[k]
<1>1. S \subseteq DOMAIN q
  BY DEF MarkersOf
<1>2. S # {} => Max(S) \in S
  BY <1>1, LastLine
<1>. QED BY <1>2 DEF LastStage

\* The greater of one and another stage.
LEMMA AtLeastOne ==
  ASSUME NEW n \in Nat
  PROVE  Max({1, n}) = IF n = 0 THEN 1 ELSE n
<1>. DEFINE m == IF n = 0 THEN 1 ELSE n
<1>1. m \in {1, n} /\ \A y \in {1, n} : m >= y
  OBVIOUS
<1>2. \A z \in {1, n} : (\A y \in {1, n} : z >= y) => z = m
  OBVIOUS
<1>. HIDE DEF m
<1>3. Max({1, n}) = m
  BY <1>1, <1>2, Zenon DEF Max
<1>. QED BY <1>3 DEF m

LEMMA BarIsTrue == ASSUME PipelineInv PROVE PipelineIsTrue
<1>. SUFFICES ASSUME page = "pipeline", NEW s \in Stages
              PROVE  LET shown == StageStatus(ui.log, ui.deploying, s) IN
                       /\ shown = "error" => srv.state = "failed" /\ s <= Max({1, srv.at})
                       /\ shown = "done" /\ s # LatestStage(ui.log) => s < srv.at
                       /\ shown = "done" /\ s = Done => srv.state = "success"
  BY Zenon DEF PipelineIsTrue
<1>. DEFINE q == ui.log
            e == ErrorStage(q)
            l == LastStage(q, {k \in MarkersOf(q) : k < Max(ErrorsOf(q))})
            shown == StageStatus(q, ui.deploying, s)
<1>1. /\ srv.at \in 0..6 /\ q \in Seq(0..7) /\ AllKnown(q, srv)
  BY DEF PipelineInv
<1>2. \A k \in MarkersOf(q) : q[k] \in 1..6 /\ q[k] <= srv.at /\ (q[k] = 6 => srv.state = "success")
  BY <1>1 DEF MarkersOf, AllKnown, Known, Stages, Done
<1>3. l = 0 \/ \E k \in MarkersOf(q) : l = q[k]
  BY <1>1, LastStageSeen
<1>4. LatestStage(q) = 0 \/ \E k \in MarkersOf(q) : LatestStage(q) = q[k]
  BY <1>1, LastStageSeen DEF LatestStage
<1>5. l \in 0..6 /\ l <= srv.at
  BY <1>1, <1>2, <1>3
<1>6. e = IF ErrorsOf(q) = {} THEN 0 ELSE Max({1, l})
  BY DEF ErrorStage
<1>7. ErrorsOf(q) # {} => srv.state = "failed"
  BY <1>1 DEF ErrorsOf, AllKnown, Known
<1>. HIDE DEF l
<1>8. Max({1, l}) = (IF l = 0 THEN 1 ELSE l) /\ Max({1, srv.at}) = (IF srv.at = 0 THEN 1 ELSE srv.at)
  BY <1>1, <1>5, AtLeastOne
<1>. HIDE DEF e
<1>9. e \in 0..6 /\ (e > 1 => e <= srv.at) /\ (e # 0 => srv.state = "failed" /\ e <= Max({1, srv.at}))
  BY <1>1, <1>5, <1>6, <1>7, <1>8
<1>10. shown = "error" => s = e
  BY DEF StageStatus, e
<1>11. shown = "done" /\ s # LatestStage(q) => s \in Passed(q)
  BY DEF StageStatus
<1>12. s \in Passed(q) => s < e \/ \E k \in MarkersOf(q) : s < q[k]
  BY DEF Passed, e
<1>13. s \in 1..6
  BY DEF Stages
<1>14. s \in Passed(q) => s < srv.at /\ s # 6
  BY <1>1, <1>2, <1>9, <1>12, <1>13
<1>15. LatestStage(q) = 6 => srv.state = "success"
  BY <1>2, <1>4
<1>. HIDE DEF shown
<1>16. shown = "error" => srv.state = "failed" /\ s <= Max({1, srv.at})
  BY <1>9, <1>10, <1>13
<1>17. shown = "done" /\ s # LatestStage(q) => s < srv.at
  BY <1>11, <1>14
<1>18. shown = "done" /\ s = Done => srv.state = "success"
  BY <1>11, <1>14, <1>15 DEF Done
<1>. QED BY <1>16, <1>17, <1>18 DEF shown

\* The bar of the deploy page never shows a stage as failed when the deployment
\* has not failed or had not come to it, none as done that the engine has not
\* left, and "Done" only for a success: whatever lines the hub dropped and
\* however the stream ended.
THEOREM PipelineCorrect == ProjectsSpec => []PipelineIsTrue
BY PipelineInvHolds, BarIsTrue, PTL

-----------------------------------------------------------------------------
(* What the router asks for *)

\* What the router puts in front of the calls of these pages.
LEMMA CallNeeds ==
  /\ \A c \in {"composeHistory", "deployDiff", "listDeployTags",
                "listScheduledDeploys", "getCompose", "getProject", "listContainers",
                "syncAllProjects", "listProjects", "me"} : Needs(c, "any")
  /\ \A c \in {"setupStatus", "login", "logout", "setupCreate"} : Needs(c, "public")
  /\ \A c \in {"deleteDeployTag", "createDeployTag", "createScheduledDeploy"} : Needs(c, "deploy")
  /\ \A c \in {"deleteComposeVersion", "saveCompose"} : Needs(c, "edit_compose")
  /\ \A c \in {"saveEnv"} : Needs(c, "edit_env")
  /\ \A c \in {"createProject"} : Needs(c, "manage_projects")
  /\ \A c \in {"fileBrowse"} : Needs(c, "manage_files")
<1>1. Needs("composeHistory", "any")
  <2>. DEFINE r == [call |-> "composeHistory", write |-> FALSE, need |-> "any"]
  <2>1. r \in ComposeApi /\ r.call = "composeHistory"
    BY DEF ComposeApi, Reads, Writes
  <2>2. ComposeApi \subseteq Routes
    BY Zenon DEF Routes
  <2>3. \A x \in Routes : x.call = "composeHistory" => x.need = "any"
    BY DEF Reads, Writes, Routes, SessionApi, UserApi, RoleApi, ProjectApi, ComposeApi,
       EnvApi, NginxApi, ProxyApi, DockerApi, DeployApi, ReleaseApi, ContainerApi, ImageApi,
       TerminalApi, FileApi, TrafficApi, DnsApi, TraceApi, OtelApi, UpdateApi, PackageApi,
       BackupApi, AuditApi, AppLogApi, SettingsApi, StorageApi, MaintenanceApi, PolicyApi
  <2>. HIDE DEF r
  <2>. QED BY <2>1, <2>2, <2>3, RouteNeeds
<1>2. Needs("deployDiff", "any")
  <2>. DEFINE r == [call |-> "deployDiff", write |-> FALSE, need |-> "any"]
  <2>1. r \in ReleaseApi /\ r.call = "deployDiff"
    BY DEF ReleaseApi, Reads, Writes
  <2>2. ReleaseApi \subseteq Routes
    BY Zenon DEF Routes
  <2>3. \A x \in Routes : x.call = "deployDiff" => x.need = "any"
    BY DEF Reads, Writes, Routes, SessionApi, UserApi, RoleApi, ProjectApi, ComposeApi,
       EnvApi, NginxApi, ProxyApi, DockerApi, DeployApi, ReleaseApi, ContainerApi, ImageApi,
       TerminalApi, FileApi, TrafficApi, DnsApi, TraceApi, OtelApi, UpdateApi, PackageApi,
       BackupApi, AuditApi, AppLogApi, SettingsApi, StorageApi, MaintenanceApi, PolicyApi
  <2>. HIDE DEF r
  <2>. QED BY <2>1, <2>2, <2>3, RouteNeeds
<1>3. Needs("listDeployTags", "any")
  <2>. DEFINE r == [call |-> "listDeployTags", write |-> FALSE, need |-> "any"]
  <2>1. r \in DeployApi /\ r.call = "listDeployTags"
    BY DEF DeployApi, Reads, Writes
  <2>2. DeployApi \subseteq Routes
    BY Zenon DEF Routes
  <2>3. \A x \in Routes : x.call = "listDeployTags" => x.need = "any"
    BY DEF Reads, Writes, Routes, SessionApi, UserApi, RoleApi, ProjectApi, ComposeApi,
       EnvApi, NginxApi, ProxyApi, DockerApi, DeployApi, ReleaseApi, ContainerApi, ImageApi,
       TerminalApi, FileApi, TrafficApi, DnsApi, TraceApi, OtelApi, UpdateApi, PackageApi,
       BackupApi, AuditApi, AppLogApi, SettingsApi, StorageApi, MaintenanceApi, PolicyApi
  <2>. HIDE DEF r
  <2>. QED BY <2>1, <2>2, <2>3, RouteNeeds
<1>4. Needs("listScheduledDeploys", "any")
  <2>. DEFINE r == [call |-> "listScheduledDeploys", write |-> FALSE, need |-> "any"]
  <2>1. r \in ReleaseApi /\ r.call = "listScheduledDeploys"
    BY DEF ReleaseApi, Reads, Writes
  <2>2. ReleaseApi \subseteq Routes
    BY Zenon DEF Routes
  <2>3. \A x \in Routes : x.call = "listScheduledDeploys" => x.need = "any"
    BY DEF Reads, Writes, Routes, SessionApi, UserApi, RoleApi, ProjectApi, ComposeApi,
       EnvApi, NginxApi, ProxyApi, DockerApi, DeployApi, ReleaseApi, ContainerApi, ImageApi,
       TerminalApi, FileApi, TrafficApi, DnsApi, TraceApi, OtelApi, UpdateApi, PackageApi,
       BackupApi, AuditApi, AppLogApi, SettingsApi, StorageApi, MaintenanceApi, PolicyApi
  <2>. HIDE DEF r
  <2>. QED BY <2>1, <2>2, <2>3, RouteNeeds
<1>5. Needs("getCompose", "any")
  <2>. DEFINE r == [call |-> "getCompose", write |-> FALSE, need |-> "any"]
  <2>1. r \in ComposeApi /\ r.call = "getCompose"
    BY DEF ComposeApi, Reads, Writes
  <2>2. ComposeApi \subseteq Routes
    BY Zenon DEF Routes
  <2>3. \A x \in Routes : x.call = "getCompose" => x.need = "any"
    BY DEF Reads, Writes, Routes, SessionApi, UserApi, RoleApi, ProjectApi, ComposeApi,
       EnvApi, NginxApi, ProxyApi, DockerApi, DeployApi, ReleaseApi, ContainerApi, ImageApi,
       TerminalApi, FileApi, TrafficApi, DnsApi, TraceApi, OtelApi, UpdateApi, PackageApi,
       BackupApi, AuditApi, AppLogApi, SettingsApi, StorageApi, MaintenanceApi, PolicyApi
  <2>. HIDE DEF r
  <2>. QED BY <2>1, <2>2, <2>3, RouteNeeds
<1>6. Needs("getProject", "any")
  <2>. DEFINE r == [call |-> "getProject", write |-> FALSE, need |-> "any"]
  <2>1. r \in ProjectApi /\ r.call = "getProject"
    BY DEF ProjectApi, Reads, Writes
  <2>2. ProjectApi \subseteq Routes
    BY Zenon DEF Routes
  <2>3. \A x \in Routes : x.call = "getProject" => x.need = "any"
    BY DEF Reads, Writes, Routes, SessionApi, UserApi, RoleApi, ProjectApi, ComposeApi,
       EnvApi, NginxApi, ProxyApi, DockerApi, DeployApi, ReleaseApi, ContainerApi, ImageApi,
       TerminalApi, FileApi, TrafficApi, DnsApi, TraceApi, OtelApi, UpdateApi, PackageApi,
       BackupApi, AuditApi, AppLogApi, SettingsApi, StorageApi, MaintenanceApi, PolicyApi
  <2>. HIDE DEF r
  <2>. QED BY <2>1, <2>2, <2>3, RouteNeeds
<1>7. Needs("listContainers", "any")
  <2>. DEFINE r == [call |-> "listContainers", write |-> FALSE, need |-> "any"]
  <2>1. r \in ContainerApi /\ r.call = "listContainers"
    BY DEF ContainerApi, Reads, Writes
  <2>2. ContainerApi \subseteq Routes
    BY Zenon DEF Routes
  <2>3. \A x \in Routes : x.call = "listContainers" => x.need = "any"
    BY DEF Reads, Writes, Routes, SessionApi, UserApi, RoleApi, ProjectApi, ComposeApi,
       EnvApi, NginxApi, ProxyApi, DockerApi, DeployApi, ReleaseApi, ContainerApi, ImageApi,
       TerminalApi, FileApi, TrafficApi, DnsApi, TraceApi, OtelApi, UpdateApi, PackageApi,
       BackupApi, AuditApi, AppLogApi, SettingsApi, StorageApi, MaintenanceApi, PolicyApi
  <2>. HIDE DEF r
  <2>. QED BY <2>1, <2>2, <2>3, RouteNeeds
<1>8. Needs("syncAllProjects", "any")
  <2>. DEFINE r == [call |-> "syncAllProjects", write |-> TRUE, need |-> "any"]
  <2>1. r \in ProjectApi /\ r.call = "syncAllProjects"
    BY DEF ProjectApi, Reads, Writes
  <2>2. ProjectApi \subseteq Routes
    BY Zenon DEF Routes
  <2>3. \A x \in Routes : x.call = "syncAllProjects" => x.need = "any"
    BY DEF Reads, Writes, Routes, SessionApi, UserApi, RoleApi, ProjectApi, ComposeApi,
       EnvApi, NginxApi, ProxyApi, DockerApi, DeployApi, ReleaseApi, ContainerApi, ImageApi,
       TerminalApi, FileApi, TrafficApi, DnsApi, TraceApi, OtelApi, UpdateApi, PackageApi,
       BackupApi, AuditApi, AppLogApi, SettingsApi, StorageApi, MaintenanceApi, PolicyApi
  <2>. HIDE DEF r
  <2>. QED BY <2>1, <2>2, <2>3, RouteNeeds
<1>9. Needs("listProjects", "any")
  <2>. DEFINE r == [call |-> "listProjects", write |-> FALSE, need |-> "any"]
  <2>1. r \in ProjectApi /\ r.call = "listProjects"
    BY DEF ProjectApi, Reads, Writes
  <2>2. ProjectApi \subseteq Routes
    BY Zenon DEF Routes
  <2>3. \A x \in Routes : x.call = "listProjects" => x.need = "any"
    BY DEF Reads, Writes, Routes, SessionApi, UserApi, RoleApi, ProjectApi, ComposeApi,
       EnvApi, NginxApi, ProxyApi, DockerApi, DeployApi, ReleaseApi, ContainerApi, ImageApi,
       TerminalApi, FileApi, TrafficApi, DnsApi, TraceApi, OtelApi, UpdateApi, PackageApi,
       BackupApi, AuditApi, AppLogApi, SettingsApi, StorageApi, MaintenanceApi, PolicyApi
  <2>. HIDE DEF r
  <2>. QED BY <2>1, <2>2, <2>3, RouteNeeds
<1>10. Needs("me", "any")
  <2>. DEFINE r == [call |-> "me", write |-> FALSE, need |-> "any"]
  <2>1. r \in SessionApi /\ r.call = "me"
    BY DEF SessionApi, Reads, Writes
  <2>2. SessionApi \subseteq Routes
    BY Zenon DEF Routes
  <2>3. \A x \in Routes : x.call = "me" => x.need = "any"
    BY DEF Reads, Writes, Routes, SessionApi, UserApi, RoleApi, ProjectApi, ComposeApi,
       EnvApi, NginxApi, ProxyApi, DockerApi, DeployApi, ReleaseApi, ContainerApi, ImageApi,
       TerminalApi, FileApi, TrafficApi, DnsApi, TraceApi, OtelApi, UpdateApi, PackageApi,
       BackupApi, AuditApi, AppLogApi, SettingsApi, StorageApi, MaintenanceApi, PolicyApi
  <2>. HIDE DEF r
  <2>. QED BY <2>1, <2>2, <2>3, RouteNeeds
<1>11. Needs("setupStatus", "public")
  <2>. DEFINE r == [call |-> "setupStatus", write |-> FALSE, need |-> "public"]
  <2>1. r \in SessionApi /\ r.call = "setupStatus"
    BY DEF SessionApi, Reads, Writes
  <2>2. SessionApi \subseteq Routes
    BY Zenon DEF Routes
  <2>3. \A x \in Routes : x.call = "setupStatus" => x.need = "public"
    BY DEF Reads, Writes, Routes, SessionApi, UserApi, RoleApi, ProjectApi, ComposeApi,
       EnvApi, NginxApi, ProxyApi, DockerApi, DeployApi, ReleaseApi, ContainerApi, ImageApi,
       TerminalApi, FileApi, TrafficApi, DnsApi, TraceApi, OtelApi, UpdateApi, PackageApi,
       BackupApi, AuditApi, AppLogApi, SettingsApi, StorageApi, MaintenanceApi, PolicyApi
  <2>. HIDE DEF r
  <2>. QED BY <2>1, <2>2, <2>3, RouteNeeds
<1>12. Needs("login", "public")
  <2>. DEFINE r == [call |-> "login", write |-> TRUE, need |-> "public"]
  <2>1. r \in SessionApi /\ r.call = "login"
    BY DEF SessionApi, Reads, Writes
  <2>2. SessionApi \subseteq Routes
    BY Zenon DEF Routes
  <2>3. \A x \in Routes : x.call = "login" => x.need = "public"
    BY DEF Reads, Writes, Routes, SessionApi, UserApi, RoleApi, ProjectApi, ComposeApi,
       EnvApi, NginxApi, ProxyApi, DockerApi, DeployApi, ReleaseApi, ContainerApi, ImageApi,
       TerminalApi, FileApi, TrafficApi, DnsApi, TraceApi, OtelApi, UpdateApi, PackageApi,
       BackupApi, AuditApi, AppLogApi, SettingsApi, StorageApi, MaintenanceApi, PolicyApi
  <2>. HIDE DEF r
  <2>. QED BY <2>1, <2>2, <2>3, RouteNeeds
<1>13. Needs("logout", "public")
  <2>. DEFINE r == [call |-> "logout", write |-> TRUE, need |-> "public"]
  <2>1. r \in SessionApi /\ r.call = "logout"
    BY DEF SessionApi, Reads, Writes
  <2>2. SessionApi \subseteq Routes
    BY Zenon DEF Routes
  <2>3. \A x \in Routes : x.call = "logout" => x.need = "public"
    BY DEF Reads, Writes, Routes, SessionApi, UserApi, RoleApi, ProjectApi, ComposeApi,
       EnvApi, NginxApi, ProxyApi, DockerApi, DeployApi, ReleaseApi, ContainerApi, ImageApi,
       TerminalApi, FileApi, TrafficApi, DnsApi, TraceApi, OtelApi, UpdateApi, PackageApi,
       BackupApi, AuditApi, AppLogApi, SettingsApi, StorageApi, MaintenanceApi, PolicyApi
  <2>. HIDE DEF r
  <2>. QED BY <2>1, <2>2, <2>3, RouteNeeds
<1>14. Needs("setupCreate", "public")
  <2>. DEFINE r == [call |-> "setupCreate", write |-> TRUE, need |-> "public"]
  <2>1. r \in SessionApi /\ r.call = "setupCreate"
    BY DEF SessionApi, Reads, Writes
  <2>2. SessionApi \subseteq Routes
    BY Zenon DEF Routes
  <2>3. \A x \in Routes : x.call = "setupCreate" => x.need = "public"
    BY DEF Reads, Writes, Routes, SessionApi, UserApi, RoleApi, ProjectApi, ComposeApi,
       EnvApi, NginxApi, ProxyApi, DockerApi, DeployApi, ReleaseApi, ContainerApi, ImageApi,
       TerminalApi, FileApi, TrafficApi, DnsApi, TraceApi, OtelApi, UpdateApi, PackageApi,
       BackupApi, AuditApi, AppLogApi, SettingsApi, StorageApi, MaintenanceApi, PolicyApi
  <2>. HIDE DEF r
  <2>. QED BY <2>1, <2>2, <2>3, RouteNeeds
<1>15. Needs("deleteDeployTag", "deploy")
  <2>. DEFINE r == [call |-> "deleteDeployTag", write |-> TRUE, need |-> "deploy"]
  <2>1. r \in DeployApi /\ r.call = "deleteDeployTag"
    BY DEF DeployApi, Reads, Writes
  <2>2. DeployApi \subseteq Routes
    BY Zenon DEF Routes
  <2>3. \A x \in Routes : x.call = "deleteDeployTag" => x.need = "deploy"
    BY DEF Reads, Writes, Routes, SessionApi, UserApi, RoleApi, ProjectApi, ComposeApi,
       EnvApi, NginxApi, ProxyApi, DockerApi, DeployApi, ReleaseApi, ContainerApi, ImageApi,
       TerminalApi, FileApi, TrafficApi, DnsApi, TraceApi, OtelApi, UpdateApi, PackageApi,
       BackupApi, AuditApi, AppLogApi, SettingsApi, StorageApi, MaintenanceApi, PolicyApi
  <2>. HIDE DEF r
  <2>. QED BY <2>1, <2>2, <2>3, RouteNeeds
<1>16. Needs("createDeployTag", "deploy")
  <2>. DEFINE r == [call |-> "createDeployTag", write |-> TRUE, need |-> "deploy"]
  <2>1. r \in DeployApi /\ r.call = "createDeployTag"
    BY DEF DeployApi, Reads, Writes
  <2>2. DeployApi \subseteq Routes
    BY Zenon DEF Routes
  <2>3. \A x \in Routes : x.call = "createDeployTag" => x.need = "deploy"
    BY DEF Reads, Writes, Routes, SessionApi, UserApi, RoleApi, ProjectApi, ComposeApi,
       EnvApi, NginxApi, ProxyApi, DockerApi, DeployApi, ReleaseApi, ContainerApi, ImageApi,
       TerminalApi, FileApi, TrafficApi, DnsApi, TraceApi, OtelApi, UpdateApi, PackageApi,
       BackupApi, AuditApi, AppLogApi, SettingsApi, StorageApi, MaintenanceApi, PolicyApi
  <2>. HIDE DEF r
  <2>. QED BY <2>1, <2>2, <2>3, RouteNeeds
<1>17. Needs("createScheduledDeploy", "deploy")
  <2>. DEFINE r == [call |-> "createScheduledDeploy", write |-> TRUE, need |-> "deploy"]
  <2>1. r \in ReleaseApi /\ r.call = "createScheduledDeploy"
    BY DEF ReleaseApi, Reads, Writes
  <2>2. ReleaseApi \subseteq Routes
    BY Zenon DEF Routes
  <2>3. \A x \in Routes : x.call = "createScheduledDeploy" => x.need = "deploy"
    BY DEF Reads, Writes, Routes, SessionApi, UserApi, RoleApi, ProjectApi, ComposeApi,
       EnvApi, NginxApi, ProxyApi, DockerApi, DeployApi, ReleaseApi, ContainerApi, ImageApi,
       TerminalApi, FileApi, TrafficApi, DnsApi, TraceApi, OtelApi, UpdateApi, PackageApi,
       BackupApi, AuditApi, AppLogApi, SettingsApi, StorageApi, MaintenanceApi, PolicyApi
  <2>. HIDE DEF r
  <2>. QED BY <2>1, <2>2, <2>3, RouteNeeds
<1>18. Needs("deleteComposeVersion", "edit_compose")
  <2>. DEFINE r == [call |-> "deleteComposeVersion", write |-> TRUE, need |-> "edit_compose"]
  <2>1. r \in ComposeApi /\ r.call = "deleteComposeVersion"
    BY DEF ComposeApi, Reads, Writes
  <2>2. ComposeApi \subseteq Routes
    BY Zenon DEF Routes
  <2>3. \A x \in Routes : x.call = "deleteComposeVersion" => x.need = "edit_compose"
    BY DEF Reads, Writes, Routes, SessionApi, UserApi, RoleApi, ProjectApi, ComposeApi,
       EnvApi, NginxApi, ProxyApi, DockerApi, DeployApi, ReleaseApi, ContainerApi, ImageApi,
       TerminalApi, FileApi, TrafficApi, DnsApi, TraceApi, OtelApi, UpdateApi, PackageApi,
       BackupApi, AuditApi, AppLogApi, SettingsApi, StorageApi, MaintenanceApi, PolicyApi
  <2>. HIDE DEF r
  <2>. QED BY <2>1, <2>2, <2>3, RouteNeeds
<1>19. Needs("saveCompose", "edit_compose")
  <2>. DEFINE r == [call |-> "saveCompose", write |-> TRUE, need |-> "edit_compose"]
  <2>1. r \in ComposeApi /\ r.call = "saveCompose"
    BY DEF ComposeApi, Reads, Writes
  <2>2. ComposeApi \subseteq Routes
    BY Zenon DEF Routes
  <2>3. \A x \in Routes : x.call = "saveCompose" => x.need = "edit_compose"
    BY DEF Reads, Writes, Routes, SessionApi, UserApi, RoleApi, ProjectApi, ComposeApi,
       EnvApi, NginxApi, ProxyApi, DockerApi, DeployApi, ReleaseApi, ContainerApi, ImageApi,
       TerminalApi, FileApi, TrafficApi, DnsApi, TraceApi, OtelApi, UpdateApi, PackageApi,
       BackupApi, AuditApi, AppLogApi, SettingsApi, StorageApi, MaintenanceApi, PolicyApi
  <2>. HIDE DEF r
  <2>. QED BY <2>1, <2>2, <2>3, RouteNeeds
<1>20. Needs("saveEnv", "edit_env")
  <2>. DEFINE r == [call |-> "saveEnv", write |-> TRUE, need |-> "edit_env"]
  <2>1. r \in EnvApi /\ r.call = "saveEnv"
    BY DEF EnvApi, Reads, Writes
  <2>2. EnvApi \subseteq Routes
    BY Zenon DEF Routes
  <2>3. \A x \in Routes : x.call = "saveEnv" => x.need = "edit_env"
    BY DEF Reads, Writes, Routes, SessionApi, UserApi, RoleApi, ProjectApi, ComposeApi,
       EnvApi, NginxApi, ProxyApi, DockerApi, DeployApi, ReleaseApi, ContainerApi, ImageApi,
       TerminalApi, FileApi, TrafficApi, DnsApi, TraceApi, OtelApi, UpdateApi, PackageApi,
       BackupApi, AuditApi, AppLogApi, SettingsApi, StorageApi, MaintenanceApi, PolicyApi
  <2>. HIDE DEF r
  <2>. QED BY <2>1, <2>2, <2>3, RouteNeeds
<1>21. Needs("createProject", "manage_projects")
  <2>. DEFINE r == [call |-> "createProject", write |-> TRUE, need |-> "manage_projects"]
  <2>1. r \in ProjectApi /\ r.call = "createProject"
    BY DEF ProjectApi, Reads, Writes
  <2>2. ProjectApi \subseteq Routes
    BY Zenon DEF Routes
  <2>3. \A x \in Routes : x.call = "createProject" => x.need = "manage_projects"
    BY DEF Reads, Writes, Routes, SessionApi, UserApi, RoleApi, ProjectApi, ComposeApi,
       EnvApi, NginxApi, ProxyApi, DockerApi, DeployApi, ReleaseApi, ContainerApi, ImageApi,
       TerminalApi, FileApi, TrafficApi, DnsApi, TraceApi, OtelApi, UpdateApi, PackageApi,
       BackupApi, AuditApi, AppLogApi, SettingsApi, StorageApi, MaintenanceApi, PolicyApi
  <2>. HIDE DEF r
  <2>. QED BY <2>1, <2>2, <2>3, RouteNeeds
<1>22. Needs("fileBrowse", "manage_files")
  <2>. DEFINE r == [call |-> "fileBrowse", write |-> FALSE, need |-> "manage_files"]
  <2>1. r \in FileApi /\ r.call = "fileBrowse"
    BY DEF FileApi, Reads, Writes
  <2>2. FileApi \subseteq Routes
    BY Zenon DEF Routes
  <2>3. \A x \in Routes : x.call = "fileBrowse" => x.need = "manage_files"
    BY DEF Reads, Writes, Routes, SessionApi, UserApi, RoleApi, ProjectApi, ComposeApi,
       EnvApi, NginxApi, ProxyApi, DockerApi, DeployApi, ReleaseApi, ContainerApi, ImageApi,
       TerminalApi, FileApi, TrafficApi, DnsApi, TraceApi, OtelApi, UpdateApi, PackageApi,
       BackupApi, AuditApi, AppLogApi, SettingsApi, StorageApi, MaintenanceApi, PolicyApi
  <2>. HIDE DEF r
  <2>. QED BY <2>1, <2>2, <2>3, RouteNeeds
<1>. QED
  BY <1>1, <1>2, <1>3, <1>4, <1>5, <1>6, <1>7, <1>8, <1>9, <1>10, <1>11, <1>12, <1>13, <1>14, <1>15, <1>16, <1>17, <1>18, <1>19, <1>20, <1>21, <1>22, Zenon

-----------------------------------------------------------------------------
(* Release tags *)

TagLists   == {"loadTags"}
TagCreates == {"createTag"}
TagDeletes == {"deleteTag"}

TagRequest(x) ==
  \/ x.by = "loadTags" /\ x.call = "listDeployTags" /\ x.state # "error"
  \/ x.by = "createTag" /\ x.call = "createDeployTag" /\ (x.state = "done" => x.reply = <<x.arg>>)
  \/ x.by = "deleteTag" /\ x.call = "deleteDeployTag" /\ x.state # "error"

TagsLoading == \E k \in DOMAIN net : net[k].by = "loadTags" /\ net[k].state = "sent"

TagsShown == \A t \in srv.tags : WillShow(net, ui.tags, t, TagLists, TagCreates, TagDeletes)

TagsInv ==
  page = "tags" /\ line = "orderly" /\ Can("deploy") =>
    /\ DOMAIN ui = {"busy", "tags", "open", "name"} /\ DOMAIN srv = {"tags", "retention"}
    /\ AnsweredFirst(net) /\ \A k \in DOMAIN net : TagRequest(net[k])
    /\ TagsLoading \/ TagsShown

\* A tag is asked for or taken off: no other member of the list moves.
LEMMA TagsAsked ==
  ASSUME TagsInv, page = "tags", line = "orderly", Can("deploy"), AreRequests(net),
         NEW by, NEW call, NEW arg,
         Send(Request(by, call, arg)), UNCHANGED <<page, perms, line, srv>>, ui'.tags = ui.tags,
         DOMAIN ui' = DOMAIN ui,
         \/ by = "createTag" /\ call = "createDeployTag"
         \/ by = "deleteTag" /\ call = "deleteDeployTag"
  PROVE  TagsInv'
<1>. DEFINE x == Request(by, call, arg)
<1>1. /\ AnsweredFirst(net) /\ \A k \in DOMAIN net : TagRequest(net[k])
      /\ TagsLoading \/ TagsShown
      /\ DOMAIN ui = {"busy", "tags", "open", "name"} /\ DOMAIN srv = {"tags", "retention"}
  BY DEF TagsInv
<1>2. /\ Added(net, net', x) /\ AnsweredFirst(net') /\ x.by = by /\ x.call = call
  BY <1>1, OrderAsked
<1>3. x.state = "sent"
  BY <1>2 DEF Added
<1>. HIDE DEF x
<1>4. TagRequest(x)
  BY <1>2, <1>3 DEF TagRequest
<1>5. \A k \in DOMAIN net' : TagRequest(net'[k])
  BY <1>1, <1>2, <1>4 DEF Added
<1>6. TagsLoading => TagsLoading'
  BY <1>2 DEF TagsLoading, Added
<1>7. TagsShown => TagsShown'
  BY <1>2, ShowsAdded DEF TagsShown
<1>. QED BY <1>1, <1>2, <1>5, <1>6, <1>7 DEF TagsInv

\* The server answers: a member that it has is shown or will be.
LEMMA TagsAnswered ==
  ASSUME TagsInv, page = "tags", line = "orderly", Can("deploy"), AreRequests(net),
         NEW i \in DOMAIN net, net[i].state = "sent", InTurn(i),
         Refuse(i) \/ \E v : Reply(i, v), UNCHANGED <<page, perms, line, ui>>,
         DOMAIN srv' = DOMAIN srv, TagRequest(net'[i]),
         \A t \in srv'.tags : \/ Adds(net'[i], t, TagLists, TagCreates)
                              \/ t \in srv.tags /\ ~Takes(net'[i], t, TagLists, TagDeletes),
         net[i].by = "loadTags" => \A t \in srv'.tags : Adds(net'[i], t, TagLists, TagCreates)
  PROVE  TagsInv'
<1>1. /\ AnsweredFirst(net) /\ \A k \in DOMAIN net : TagRequest(net[k])
      /\ TagsLoading \/ TagsShown
      /\ DOMAIN ui = {"busy", "tags", "open", "name"} /\ DOMAIN srv = {"tags", "retention"}
  BY DEF TagsInv
<1>2. AnsweredFirst(net') /\ DOMAIN net \subseteq Nat
  BY <1>1, OrderServed
<1>3. PICK st, v : AnsweredAt(net, net', i, st, v)
  BY ReplyAnswers, RefuseAnswers
<1>4. DOMAIN net' = DOMAIN net /\ \A k \in DOMAIN net : k # i => net'[k] = net[k]
  BY <1>3 DEF AnsweredAt
<1>5. \A k \in DOMAIN net' : TagRequest(net'[k])
  BY <1>1, <1>4
<1>6. \A t : WillShow(net', ui.tags, t, TagLists, TagCreates, TagDeletes) <=>
               \/ Adds(net'[i], t, TagLists, TagCreates)
               \/ /\ WillShow(net, ui.tags, t, TagLists, TagCreates, TagDeletes)
                  /\ ~Takes(net'[i], t, TagLists, TagDeletes)
  BY <1>1, <1>2, <1>3, ShowsAnswered DEF TagLists, TagCreates, TagDeletes
<1>7. TagsShown => TagsShown'
  BY <1>6 DEF TagsShown
<1>8. TagsLoading => TagsLoading' \/ TagsShown'
  <2>1. CASE net[i].by = "loadTags"
    BY <1>6, <2>1 DEF TagsShown
  <2>2. CASE net[i].by # "loadTags"
    BY <1>4, <2>2 DEF TagsLoading
  <2>. QED BY <2>1, <2>2
<1>. QED BY <1>1, <1>2, <1>5, <1>7, <1>8 DEF TagsInv

\* The page takes an answer.
LEMMA TagsTaken ==
  ASSUME TagsInv, page = "tags", line = "orderly", Can("deploy"), AreRequests(net),
         NEW i \in DOMAIN net, Next1(i), net[i].state # "sent", Removed(i),
         UNCHANGED <<page, perms, line, srv>>, DOMAIN ui' = DOMAIN ui,
         \A t : /\ Adds(net[i], t, TagLists, TagCreates) => t \in ui'.tags
                /\ Takes(net[i], t, TagLists, TagDeletes) => t \notin ui'.tags
                /\ ~Adds(net[i], t, TagLists, TagCreates) /\ ~Takes(net[i], t, TagLists, TagDeletes)
                     => (t \in ui'.tags <=> t \in ui.tags)
  PROVE  TagsInv'
<1>1. /\ AnsweredFirst(net) /\ \A k \in DOMAIN net : TagRequest(net[k])
      /\ TagsLoading \/ TagsShown
      /\ DOMAIN ui = {"busy", "tags", "open", "name"} /\ DOMAIN srv = {"tags", "retention"}
  BY DEF TagsInv
<1>2. i = 1 /\ Advanced(net, net') /\ AnsweredFirst(net')
  BY <1>1, OrderTaken DEF Removed, Handled, HandledThen
<1>3. \A k \in DOMAIN net' : k + 1 \in DOMAIN net /\ net'[k] = net[k + 1]
  BY <1>2 DEF Advanced
<1>4. \A k \in DOMAIN net' : TagRequest(net'[k])
  BY <1>1, <1>3
<1>5. \A t : WillShow(net', ui'.tags, t, TagLists, TagCreates, TagDeletes) <=>
               WillShow(net, ui.tags, t, TagLists, TagCreates, TagDeletes)
  <2>1. /\ TagLists \cap TagCreates = {} /\ TagLists \cap TagDeletes = {}
        /\ TagCreates \cap TagDeletes = {}
    BY DEF TagLists, TagCreates, TagDeletes
  <2>. QED BY <1>2, <2>1, ShowsAdvanced
<1>6. TagsShown => TagsShown'
  BY <1>5 DEF TagsShown
<1>7. TagsLoading => TagsLoading'
  BY <1>2, StaysSent DEF TagsLoading
<1>. QED BY <1>1, <1>2, <1>4, <1>6, <1>7 DEF TagsInv

LEMMA TagsMove ==
  ASSUME TagsInv, FlagsInv, TagsNext
  PROVE  TagsInv'
<1>1. page = "tags" /\ page' = page /\ perms' = perms /\ line' = line
  BY TagsStays DEF TagsNext, session
<1>. SUFFICES ASSUME line = "orderly", Can("deploy") PROVE TagsInv'
  BY <1>1 DEF TagsInv, Can
<1>2. AreRequests(net)
  BY <1>1 DEF FlagsInv, DeployPages
<1>3. /\ AnsweredFirst(net) /\ \A k \in DOMAIN net : TagRequest(net[k])
      /\ TagsLoading \/ TagsShown
      /\ DOMAIN ui = {"busy", "tags", "open", "name"} /\ DOMAIN srv = {"tags", "retention"}
  BY <1>1 DEF TagsInv
<1>4. \A k \in DOMAIN net : Authorized(net[k].call)
  BY <1>3, CallNeeds, WhoMay DEF TagRequest
<1>5. ASSUME NEW i \in DOMAIN net, net[i].state = "done"
      PROVE  net[i].by # "loadTags" => net[i].reply = <<net[i].arg>> \/ net[i].by = "deleteTag"
  BY <1>3, <1>5 DEF TagRequest
<1>6. CASE ToggleTagForm \/ TypeTagName
  <2>1. ui'.tags = ui.tags /\ DOMAIN ui' = DOMAIN ui /\ UNCHANGED <<srv, net>>
    BY <1>3, <1>6 DEF ToggleTagForm, TypeTagName, Becomes, PageIs
  <2>2. (TagsLoading => TagsLoading') /\ (TagsShown => TagsShown')
    BY <2>1 DEF TagsLoading, TagsShown
  <2>. QED BY <1>1, <1>3, <2>1, <2>2 DEF TagsInv
<1>7. CASE ClickCreateTag
  <2>1. /\ ui' = [ui EXCEPT !.busy = {"tagSaving"}] /\ srv' = srv
        /\ Send(Request("createTag", "createDeployTag", ui.name))
    BY <1>7 DEF ClickCreateTag, Asks, PageIs
  <2>2. ui'.tags = ui.tags /\ DOMAIN ui' = DOMAIN ui
    BY <1>3, <2>1
  <2>. QED BY <1>1, <1>2, <2>1, <2>2, TagsAsked
<1>8. CASE ClickDeleteTag
  <2>1. PICK t \in ui.tags : Send(Request("deleteTag", "deleteDeployTag", t)) /\ ui' = ui /\ srv' = srv
    BY <1>8 DEF ClickDeleteTag, Asks, PageIs
  <2>. QED BY <1>1, <1>2, <2>1, TagsAsked
<1>9. CASE TagsLoaded
  <2>1. PICK i \in DOMAIN net : Arrived(i, "loadTags") /\ HandledThen(i, <<>>)
                                /\ PageIs([ui EXCEPT !.tags = Answer(i)])
    BY <1>9 DEF TagsLoaded, Then, ThenAsks
  <2>2. ui'.tags = Head(net[i].reply) /\ DOMAIN ui' = DOMAIN ui /\ srv' = srv
    BY <1>3, <2>1 DEF PageIs, Answer
  <2>3. net[i].by = "loadTags" /\ net[i].state = "done" /\ Next1(i) /\ Removed(i)
    BY <2>1 DEF Arrived, Removed
  <2>. QED BY <1>1, <1>2, <2>2, <2>3, TagsTaken DEF Adds, Takes, TagLists, TagCreates, TagDeletes
<1>10. CASE TagCreated
  <2>1. PICK i \in DOMAIN net : Arrived(i, "createTag") /\ HandledThen(i, <<>>)
          /\ PageIs([ui EXCEPT !.tags = @ \cup {Answer(i)}, !.name = "", !.open = FALSE, !.busy = {}])
    BY <1>10 DEF TagCreated, Then, ThenAsks
  <2>2. ui'.tags = ui.tags \cup {Head(net[i].reply)} /\ DOMAIN ui' = DOMAIN ui /\ srv' = srv
    BY <1>3, <2>1 DEF PageIs, Answer
  <2>3. net[i].by = "createTag" /\ net[i].state = "done" /\ Next1(i) /\ Removed(i)
    BY <2>1 DEF Arrived, Removed
  <2>. QED BY <1>1, <1>2, <2>2, <2>3, TagsTaken DEF Adds, Takes, TagLists, TagCreates, TagDeletes
<1>11. CASE CreateTagFails \/ DropError({"loadTags"})
  <2>1. PICK i \in DOMAIN net : /\ net[i].state = "error" /\ Next1(i) /\ Handled(i)
                                /\ ui' \in {ui, [ui EXCEPT !.busy = {}]} /\ srv' = srv
    BY <1>11 DEF CreateTagFails, DropError, Catch, Failed, PageIs
  <2>2. ui'.tags = ui.tags /\ DOMAIN ui' = DOMAIN ui
    BY <1>3, <2>1
  <2>. QED BY <1>1, <1>2, <2>1, <2>2, TagsTaken DEF Adds, Takes, Removed
<1>12. CASE TagDeleted
  <2>1. PICK i \in DOMAIN net : /\ Arrived(i, "deleteTag") \/ Failed(i, "deleteTag")
                                /\ Handled(i) /\ PageIs([ui EXCEPT !.tags = @ \ {net[i].arg}])
    BY <1>12 DEF TagDeleted
  <2>2. ui'.tags = ui.tags \ {net[i].arg} /\ DOMAIN ui' = DOMAIN ui /\ srv' = srv
    BY <1>3, <2>1 DEF PageIs
  <2>3. net[i].by = "deleteTag" /\ net[i].state = "done" /\ Next1(i) /\ Removed(i)
    BY <1>3, <2>1 DEF Arrived, Failed, Removed, TagRequest
  <2>. QED BY <1>1, <1>2, <2>2, <2>3, TagsTaken DEF Adds, Takes, TagLists, TagCreates, TagDeletes
<1>13. CASE ServeCreateTag
  <2>1. PICK i \in DOMAIN net :
          /\ Served(i, "createTag")
          /\ \/ /\ Reply(i, net[i].arg)
                /\ ServerIs([srv EXCEPT !.tags = IF srv.retention = 1 THEN {net[i].arg}
                                                 ELSE @ \cup {net[i].arg}])
             \/ Refuse(i) /\ NetOnly
    BY <1>13 DEF ServeCreateTag, Does, Makes
  <2>2. net[i].by = "createTag" /\ net[i].state = "sent" /\ InTurn(i) /\ net[i].call = "createDeployTag"
    BY <1>3, <2>1 DEF Served, TagRequest
  <2>3. CASE Reply(i, net[i].arg) /\ ServerIs([srv EXCEPT !.tags = IF srv.retention = 1 THEN {net[i].arg}
                                                 ELSE @ \cup {net[i].arg}])
    <3>1. AnsweredAt(net, net', i, "done", <<net[i].arg>>)
      BY <1>2, <2>3, ReplyAnswers
    <3>2. /\ net'[i].by = "createTag" /\ net'[i].call = "createDeployTag" /\ net'[i].state = "done"
          /\ net'[i].reply = <<net[i].arg>> /\ net'[i].arg = net[i].arg
      BY <2>2, <3>1 DEF AnsweredAt
    <3>3. /\ \A t \in srv'.tags : t = net[i].arg \/ t \in srv.tags
          /\ DOMAIN srv' = DOMAIN srv /\ ui' = ui
      BY <1>3, <2>3 DEF ServerIs
    <3>4. TagRequest(net'[i])
      BY <3>2 DEF TagRequest
    <3>5. Head(net'[i].reply) = net[i].arg
      BY <3>2
    <3>6. \A t \in srv'.tags : \/ Adds(net'[i], t, TagLists, TagCreates)
                               \/ t \in srv.tags /\ ~Takes(net'[i], t, TagLists, TagDeletes)
      BY <3>2, <3>3, <3>5 DEF Adds, Takes, TagLists, TagCreates, TagDeletes
    <3>. QED BY <1>1, <1>2, <2>2, <2>3, <3>3, <3>4, <3>6, TagsAnswered
  <2>4. CASE Refuse(i) /\ NetOnly
    <3>1. AnsweredAt(net, net', i, "error", <<>>)
      BY <1>2, <2>4, RefuseAnswers
    <3>2. net'[i].by = "createTag" /\ net'[i].call = "createDeployTag" /\ net'[i].state = "error"
      BY <2>2, <3>1 DEF AnsweredAt
    <3>3. TagRequest(net'[i])
      BY <3>2 DEF TagRequest
    <3>4. \A t : ~Takes(net'[i], t, TagLists, TagDeletes)
      BY <3>2 DEF Takes
    <3>5. srv' = srv /\ ui' = ui
      BY <2>4 DEF NetOnly
    <3>. QED BY <1>1, <1>2, <2>2, <2>4, <3>3, <3>4, <3>5, TagsAnswered
  <2>. QED BY <2>1, <2>3, <2>4
<1>14. CASE ServeDeleteTag
  <2>1. PICK i \in DOMAIN net :
          /\ Served(i, "deleteTag") /\ Reply(i, net[i].arg)
          /\ ServerIs([srv EXCEPT !.tags = @ \ {net[i].arg}])
    BY <1>14 DEF ServeDeleteTag, Does, Makes
  <2>2. net[i].by = "deleteTag" /\ net[i].state = "sent" /\ InTurn(i) /\ net[i].call = "deleteDeployTag"
    BY <1>3, <2>1 DEF Served, TagRequest
  <2>3. AnsweredAt(net, net', i, "done", <<net[i].arg>>)
    BY <1>2, <2>1, ReplyAnswers
  <2>4. /\ net'[i].by = "deleteTag" /\ net'[i].call = "deleteDeployTag" /\ net'[i].state = "done"
        /\ net'[i].arg = net[i].arg
    BY <2>2, <2>3 DEF AnsweredAt
  <2>5. /\ \A t \in srv'.tags : t # net[i].arg /\ t \in srv.tags
        /\ DOMAIN srv' = DOMAIN srv /\ ui' = ui
    BY <1>3, <2>1 DEF ServerIs
  <2>6. TagRequest(net'[i])
    BY <2>4 DEF TagRequest
  <2>7. \A t \in srv'.tags : t \in srv.tags /\ ~Takes(net'[i], t, TagLists, TagDeletes)
    BY <2>4, <2>5 DEF Takes, TagLists, TagDeletes
  <2>. QED BY <1>1, <1>2, <2>1, <2>2, <2>5, <2>6, <2>7, TagsAnswered
<1>15. CASE Tells("loadTags", srv.tags)
  <2>1. PICK i \in DOMAIN net : Served(i, "loadTags") /\ Reply(i, srv.tags) /\ NetOnly
    BY <1>15 DEF Tells, Finds
  <2>2. net[i].by = "loadTags" /\ net[i].state = "sent" /\ InTurn(i) /\ net[i].call = "listDeployTags"
    BY <1>3, <2>1 DEF Served, TagRequest
  <2>3. AnsweredAt(net, net', i, "done", <<srv.tags>>)
    BY <1>2, <2>1, ReplyAnswers
  <2>4. /\ net'[i].by = "loadTags" /\ net'[i].call = "listDeployTags" /\ net'[i].state = "done"
        /\ net'[i].reply = <<srv.tags>>
    BY <2>2, <2>3 DEF AnsweredAt
  <2>5. srv' = srv /\ ui' = ui
    BY <2>1 DEF NetOnly
  <2>6. TagRequest(net'[i])
    BY <2>4 DEF TagRequest
  <2>7. \A t \in srv'.tags : Adds(net'[i], t, TagLists, TagCreates)
    BY <2>4, <2>5 DEF Adds, TagLists, TagCreates
  <2>. QED BY <1>1, <1>2, <2>1, <2>2, <2>5, <2>6, <2>7, TagsAnswered
<1>16. CASE Forbid
  BY <1>4, <1>16 DEF Forbid
<1>17. CASE Fault
  BY <1>17 DEF Fault
<1>. QED BY <1>6, <1>7, <1>8, <1>9, <1>10, <1>11, <1>12, <1>13, <1>14, <1>15, <1>16, <1>17
         DEF TagsNext

-----------------------------------------------------------------------------
(* Scheduled deployments *)

Lists   == {"loadSchedules"}
Creates == {"createSchedule"}
Deletes == {"deleteSchedule"}

ScheduleRequest(x) ==
  \/ x.by = "loadSchedules" /\ x.call = "listScheduledDeploys" /\ x.state # "error"
  \/ x.by = "createSchedule" /\ x.call = "createScheduledDeploy"
  \/ x.by = "deleteSchedule" /\ (x.state = "done" => x.reply = <<x.arg>>)

SchedulesLoading == \E k \in DOMAIN net : net[k].by = "loadSchedules" /\ net[k].state = "sent"

SchedulesShown == \A t : t \in srv.list <=> WillShow(net, ui.list, t, Lists, Creates, Deletes)

SchedulesInv ==
  page = "schedules" /\ line = "orderly" =>
    /\ DOMAIN ui = {"busy", "list", "at"} /\ DOMAIN srv = {"list", "made"}
    /\ AnsweredFirst(net) /\ \A k \in DOMAIN net : ScheduleRequest(net[k])
    /\ SchedulesLoading \/ SchedulesShown

\* An entry is asked for or taken off: nothing moves yet.
LEMMA SchedulesAsked ==
  ASSUME SchedulesInv, page = "schedules", line = "orderly", AreRequests(net),
         NEW by, NEW call, NEW arg,
         Send(Request(by, call, arg)), UNCHANGED <<page, perms, line, srv, ui>>,
         \/ by = "createSchedule" /\ call = "createScheduledDeploy"
         \/ by = "deleteSchedule"
  PROVE  SchedulesInv'
<1>. DEFINE x == Request(by, call, arg)
<1>1. /\ AnsweredFirst(net) /\ \A k \in DOMAIN net : ScheduleRequest(net[k])
      /\ SchedulesLoading \/ SchedulesShown
      /\ DOMAIN ui = {"busy", "list", "at"} /\ DOMAIN srv = {"list", "made"}
  BY DEF SchedulesInv
<1>2. /\ Added(net, net', x) /\ AnsweredFirst(net') /\ x.by = by /\ x.call = call
  BY <1>1, OrderAsked
<1>3. x.state = "sent"
  BY <1>2 DEF Added
<1>. HIDE DEF x
<1>4. ScheduleRequest(x)
  BY <1>2, <1>3 DEF ScheduleRequest
<1>5. \A k \in DOMAIN net' : ScheduleRequest(net'[k])
  BY <1>1, <1>2, <1>4 DEF Added
<1>6. SchedulesLoading => SchedulesLoading'
  BY <1>2 DEF SchedulesLoading, Added
<1>7. SchedulesShown => SchedulesShown'
  <2>1. \A t : WillShow(net', ui.list, t, Lists, Creates, Deletes) <=>
               WillShow(net, ui.list, t, Lists, Creates, Deletes)
    BY <1>2, ShowsAdded
  <2>. QED BY <2>1 DEF SchedulesShown
<1>. QED BY <1>1, <1>2, <1>5, <1>6, <1>7 DEF SchedulesInv

\* The server answers: what it adds and takes off is shown or will be.
LEMMA SchedulesAnswered ==
  ASSUME SchedulesInv, page = "schedules", line = "orderly", AreRequests(net),
         NEW i \in DOMAIN net, net[i].state = "sent", InTurn(i),
         Refuse(i) \/ \E v : Reply(i, v), UNCHANGED <<page, perms, line, ui>>,
         DOMAIN srv' = DOMAIN srv, ScheduleRequest(net'[i]),
         \A t : t \in srv'.list <=> \/ Adds(net'[i], t, Lists, Creates)
                                    \/ t \in srv.list /\ ~Takes(net'[i], t, Lists, Deletes),
         net[i].by = "loadSchedules" =>
           \A t : \/ t \in srv'.list /\ Adds(net'[i], t, Lists, Creates)
                  \/ t \notin srv'.list /\ Takes(net'[i], t, Lists, Deletes)
  PROVE  SchedulesInv'
<1>1. /\ AnsweredFirst(net) /\ \A k \in DOMAIN net : ScheduleRequest(net[k])
      /\ SchedulesLoading \/ SchedulesShown
      /\ DOMAIN ui = {"busy", "list", "at"} /\ DOMAIN srv = {"list", "made"}
  BY DEF SchedulesInv
<1>2. AnsweredFirst(net') /\ DOMAIN net \subseteq Nat
  BY <1>1, OrderServed
<1>3. PICK st, v : AnsweredAt(net, net', i, st, v)
  BY ReplyAnswers, RefuseAnswers
<1>4. DOMAIN net' = DOMAIN net /\ \A k \in DOMAIN net : k # i => net'[k] = net[k]
  BY <1>3 DEF AnsweredAt
<1>5. \A k \in DOMAIN net' : ScheduleRequest(net'[k])
  BY <1>1, <1>4
<1>6. \A t : WillShow(net', ui.list, t, Lists, Creates, Deletes) <=>
               \/ Adds(net'[i], t, Lists, Creates)
               \/ /\ WillShow(net, ui.list, t, Lists, Creates, Deletes)
                  /\ ~Takes(net'[i], t, Lists, Deletes)
  BY <1>1, <1>2, <1>3, ShowsAnswered DEF Lists, Creates, Deletes
<1>7. SchedulesShown => SchedulesShown'
  BY <1>6 DEF SchedulesShown
<1>8. SchedulesLoading => SchedulesLoading' \/ SchedulesShown'
  <2>1. CASE net[i].by = "loadSchedules"
    <3>1. \A t : ~(Adds(net'[i], t, Lists, Creates) /\ Takes(net'[i], t, Lists, Deletes))
      BY DEF Adds, Takes, Lists, Creates, Deletes
    <3>. QED BY <1>6, <2>1, <3>1 DEF SchedulesShown
  <2>2. CASE net[i].by # "loadSchedules"
    BY <1>4, <2>2 DEF SchedulesLoading
  <2>. QED BY <2>1, <2>2
<1>. QED BY <1>1, <1>2, <1>5, <1>7, <1>8 DEF SchedulesInv

\* The server refuses an entry, or that one is taken off.
LEMMA SchedulesRefused ==
  ASSUME SchedulesInv, page = "schedules", line = "orderly", AreRequests(net),
         NEW i \in DOMAIN net, net[i].state = "sent", InTurn(i), net[i].by # "loadSchedules",
         Refuse(i), NetOnly
  PROVE  SchedulesInv'
<1>1. AnsweredAt(net, net', i, "error", <<>>)
  BY RefuseAnswers
<1>2. /\ net'[i].by = net[i].by /\ net'[i].call = net[i].call /\ net'[i].state = "error"
      /\ i \in DOMAIN net
  BY <1>1 DEF AnsweredAt
<1>3. ScheduleRequest(net[i])
  BY <1>2 DEF SchedulesInv
<1>4. ScheduleRequest(net'[i])
  BY <1>2, <1>3 DEF ScheduleRequest
<1>5. \A t : ~Takes(net'[i], t, Lists, Deletes) /\ ~Adds(net'[i], t, Lists, Creates)
  BY <1>2 DEF Takes, Adds
<1>6. UNCHANGED <<page, perms, line, ui, srv>>
  BY DEF NetOnly, session
<1>. QED BY <1>4, <1>5, <1>6, SchedulesAnswered

\* The page takes an answer.
LEMMA SchedulesTaken ==
  ASSUME SchedulesInv, page = "schedules", line = "orderly", AreRequests(net),
         NEW i \in DOMAIN net, Next1(i), net[i].state # "sent", Removed(i),
         UNCHANGED <<page, perms, line, srv>>, DOMAIN ui' = DOMAIN ui,
         \A t : /\ Adds(net[i], t, Lists, Creates) => t \in ui'.list
                /\ Takes(net[i], t, Lists, Deletes) => t \notin ui'.list
                /\ ~Adds(net[i], t, Lists, Creates) /\ ~Takes(net[i], t, Lists, Deletes)
                     => (t \in ui'.list <=> t \in ui.list)
  PROVE  SchedulesInv'
<1>1. /\ AnsweredFirst(net) /\ \A k \in DOMAIN net : ScheduleRequest(net[k])
      /\ SchedulesLoading \/ SchedulesShown
      /\ DOMAIN ui = {"busy", "list", "at"} /\ DOMAIN srv = {"list", "made"}
  BY DEF SchedulesInv
<1>2. i = 1 /\ Advanced(net, net') /\ AnsweredFirst(net')
  BY <1>1, OrderTaken DEF Removed, Handled, HandledThen
<1>3. \A k \in DOMAIN net' : k + 1 \in DOMAIN net /\ net'[k] = net[k + 1]
  BY <1>2 DEF Advanced
<1>4. \A k \in DOMAIN net' : ScheduleRequest(net'[k])
  BY <1>1, <1>3
<1>5. \A t : WillShow(net', ui'.list, t, Lists, Creates, Deletes) <=>
               WillShow(net, ui.list, t, Lists, Creates, Deletes)
  <2>1. Lists \cap Creates = {} /\ Lists \cap Deletes = {} /\ Creates \cap Deletes = {}
    BY DEF Lists, Creates, Deletes
  <2>. QED BY <1>2, <2>1, ShowsAdvanced
<1>6. SchedulesShown => SchedulesShown'
  BY <1>5 DEF SchedulesShown
<1>7. SchedulesLoading => SchedulesLoading'
  BY <1>2, StaysSent DEF SchedulesLoading
<1>. QED BY <1>1, <1>2, <1>4, <1>6, <1>7 DEF SchedulesInv

LEMMA SchedulesMove ==
  ASSUME SchedulesInv, FlagsInv, SchedulesNext
  PROVE  SchedulesInv'
<1>1. page = "schedules" /\ page' = page /\ perms' = perms /\ line' = line
  BY SchedulesStays DEF SchedulesNext, session
<1>. SUFFICES ASSUME line = "orderly" PROVE SchedulesInv'
  BY <1>1 DEF SchedulesInv
<1>2. AreRequests(net)
  BY <1>1 DEF FlagsInv, DeployPages
<1>3. /\ AnsweredFirst(net) /\ \A k \in DOMAIN net : ScheduleRequest(net[k])
      /\ SchedulesLoading \/ SchedulesShown
      /\ DOMAIN ui = {"busy", "list", "at"} /\ DOMAIN srv = {"list", "made"}
  BY <1>1 DEF SchedulesInv
<1>4. \A k \in DOMAIN net : net[k].by = "loadSchedules" => Authorized(net[k].call)
  BY <1>3, CallNeeds, WhoMay DEF ScheduleRequest
<1>6. CASE TypeScheduleTime
  <2>1. ui'.list = ui.list /\ DOMAIN ui' = DOMAIN ui /\ UNCHANGED <<srv, net>>
    BY <1>3, <1>6 DEF TypeScheduleTime, Becomes, PageIs
  <2>2. (SchedulesLoading => SchedulesLoading') /\ (SchedulesShown => SchedulesShown')
    BY <2>1 DEF SchedulesLoading, SchedulesShown
  <2>. QED BY <1>1, <1>3, <2>1, <2>2 DEF SchedulesInv
<1>7. CASE ClickSchedule \/ ClickDeleteSchedule
  <2>1. PICK by, call, arg :
          /\ Send(Request(by, call, arg)) /\ ui' = ui /\ srv' = srv
          /\ \/ by = "createSchedule" /\ call = "createScheduledDeploy"
             \/ by = "deleteSchedule"
    BY <1>7 DEF ClickSchedule, ClickDeleteSchedule, Asks, PageIs
  <2>. QED BY <1>1, <1>2, <2>1, SchedulesAsked
<1>9. CASE SchedulesLoaded
  <2>1. PICK i \in DOMAIN net : Arrived(i, "loadSchedules") /\ HandledThen(i, <<>>)
                                /\ PageIs([ui EXCEPT !.list = Answer(i)])
    BY <1>9 DEF SchedulesLoaded, Then, ThenAsks
  <2>2. ui'.list = Head(net[i].reply) /\ DOMAIN ui' = DOMAIN ui /\ srv' = srv
    BY <1>3, <2>1 DEF PageIs, Answer
  <2>3. net[i].by = "loadSchedules" /\ net[i].state = "done" /\ Next1(i) /\ Removed(i)
    BY <2>1 DEF Arrived, Removed
  <2>. QED BY <1>1, <1>2, <2>2, <2>3, SchedulesTaken DEF Adds, Takes, Lists, Creates, Deletes
<1>10. CASE ScheduleCreated
  <2>1. PICK i \in DOMAIN net : Arrived(i, "createSchedule") /\ HandledThen(i, <<>>)
          /\ PageIs([ui EXCEPT !.list = @ \cup {Answer(i)}, !.at = FALSE])
    BY <1>10 DEF ScheduleCreated, Then, ThenAsks
  <2>2. ui'.list = ui.list \cup {Head(net[i].reply)} /\ DOMAIN ui' = DOMAIN ui /\ srv' = srv
    BY <1>3, <2>1 DEF PageIs, Answer
  <2>3. net[i].by = "createSchedule" /\ net[i].state = "done" /\ Next1(i) /\ Removed(i)
    BY <2>1 DEF Arrived, Removed
  <2>. QED BY <1>1, <1>2, <2>2, <2>3, SchedulesTaken DEF Adds, Takes, Lists, Creates, Deletes
<1>11. CASE DropError({"loadSchedules", "createSchedule", "deleteSchedule"})
  <2>1. PICK i \in DOMAIN net : /\ net[i].state = "error" /\ Next1(i) /\ Handled(i)
                                /\ ui' = ui /\ srv' = srv
    BY <1>11 DEF DropError, Catch, Failed, PageIs
  <2>. QED BY <1>1, <1>2, <2>1, SchedulesTaken DEF Adds, Takes, Removed
<1>12. CASE ScheduleDeleted
  <2>1. PICK i \in DOMAIN net : Arrived(i, "deleteSchedule") /\ HandledThen(i, <<>>)
                                /\ PageIs([ui EXCEPT !.list = @ \ {Answer(i)}])
    BY <1>12 DEF ScheduleDeleted, Then, ThenAsks
  <2>2. net[i].by = "deleteSchedule" /\ net[i].state = "done" /\ Next1(i) /\ Removed(i)
    BY <2>1 DEF Arrived, Removed
  <2>3. Head(net[i].reply) = net[i].arg
    <3>1. net[i].reply = <<net[i].arg>>
      BY <1>3, <2>2 DEF ScheduleRequest
    <3>. QED BY <3>1
  <2>4. ui'.list = ui.list \ {net[i].arg} /\ DOMAIN ui' = DOMAIN ui /\ srv' = srv
    BY <1>3, <2>1, <2>3 DEF PageIs, Answer
  <2>. QED BY <1>1, <1>2, <2>2, <2>4, SchedulesTaken DEF Adds, Takes, Lists, Creates, Deletes
<1>13. CASE ServeCreateSchedule
  <2>1. PICK i \in DOMAIN net :
          /\ Served(i, "createSchedule")
          /\ \/ /\ Reply(i, srv.made + 1)
                /\ ServerIs([list |-> srv.list \cup {srv.made + 1}, made |-> srv.made + 1])
             \/ Refuse(i) /\ NetOnly
    BY <1>13 DEF ServeCreateSchedule, Makes
  <2>2. /\ net[i].by = "createSchedule" /\ net[i].state = "sent" /\ InTurn(i)
        /\ net[i].call = "createScheduledDeploy"
    BY <1>3, <2>1 DEF Served, ScheduleRequest
  <2>3. CASE /\ Reply(i, srv.made + 1)
             /\ ServerIs([list |-> srv.list \cup {srv.made + 1}, made |-> srv.made + 1])
    <3>1. AnsweredAt(net, net', i, "done", <<srv.made + 1>>)
      BY <1>2, <2>3, ReplyAnswers
    <3>2. /\ net'[i].by = "createSchedule" /\ net'[i].call = "createScheduledDeploy"
          /\ net'[i].state = "done" /\ net'[i].reply = <<srv.made + 1>>
      BY <2>2, <3>1 DEF AnsweredAt
    <3>3. /\ \A t : t \in srv'.list <=> t = srv.made + 1 \/ t \in srv.list
          /\ DOMAIN srv' = DOMAIN srv /\ ui' = ui
      BY <1>3, <2>3 DEF ServerIs
    <3>4. ScheduleRequest(net'[i])
      BY <3>2 DEF ScheduleRequest
    <3>5. Head(net'[i].reply) = srv.made + 1
      BY <3>2
    <3>6. \A t : t \in srv'.list <=> \/ Adds(net'[i], t, Lists, Creates)
                                     \/ t \in srv.list /\ ~Takes(net'[i], t, Lists, Deletes)
      BY <3>2, <3>3, <3>5 DEF Adds, Takes, Lists, Creates, Deletes
    <3>. QED BY <1>1, <1>2, <2>2, <2>3, <3>3, <3>4, <3>6, SchedulesAnswered
  <2>4. CASE Refuse(i) /\ NetOnly
    BY <1>1, <1>2, <1>3, <2>2, <2>4, SchedulesRefused
  <2>. QED BY <2>1, <2>3, <2>4
<1>14. CASE ServeDeleteSchedule
  <2>1. PICK i \in DOMAIN net :
          /\ Served(i, "deleteSchedule") /\ Reply(i, net[i].arg)
          /\ ServerIs([srv EXCEPT !.list = @ \ {net[i].arg}])
    BY <1>14 DEF ServeDeleteSchedule, Does, Makes
  <2>2. net[i].by = "deleteSchedule" /\ net[i].state = "sent" /\ InTurn(i)
    BY <2>1 DEF Served
  <2>3. AnsweredAt(net, net', i, "done", <<net[i].arg>>)
    BY <1>2, <2>1, ReplyAnswers
  <2>4. /\ net'[i].by = "deleteSchedule" /\ net'[i].state = "done"
        /\ net'[i].arg = net[i].arg /\ net'[i].reply = <<net[i].arg>>
    BY <2>2, <2>3 DEF AnsweredAt
  <2>5. /\ \A t : t \in srv'.list <=> t # net[i].arg /\ t \in srv.list
        /\ DOMAIN srv' = DOMAIN srv /\ ui' = ui
    BY <1>3, <2>1 DEF ServerIs
  <2>6. ScheduleRequest(net'[i])
    BY <2>4 DEF ScheduleRequest
  <2>7. \A t : t \in srv'.list <=> \/ Adds(net'[i], t, Lists, Creates)
                                   \/ t \in srv.list /\ ~Takes(net'[i], t, Lists, Deletes)
    BY <2>4, <2>5 DEF Adds, Takes, Lists, Creates, Deletes
  <2>. QED BY <1>1, <1>2, <2>1, <2>2, <2>5, <2>6, <2>7, SchedulesAnswered
<1>15. CASE Tells("loadSchedules", srv.list)
  <2>1. PICK i \in DOMAIN net : Served(i, "loadSchedules") /\ Reply(i, srv.list) /\ NetOnly
    BY <1>15 DEF Tells, Finds
  <2>2. /\ net[i].by = "loadSchedules" /\ net[i].state = "sent" /\ InTurn(i)
        /\ net[i].call = "listScheduledDeploys"
    BY <1>3, <2>1 DEF Served, ScheduleRequest
  <2>3. AnsweredAt(net, net', i, "done", <<srv.list>>)
    BY <1>2, <2>1, ReplyAnswers
  <2>4. /\ net'[i].by = "loadSchedules" /\ net'[i].call = "listScheduledDeploys"
        /\ net'[i].state = "done" /\ net'[i].reply = <<srv.list>>
    BY <2>2, <2>3 DEF AnsweredAt
  <2>5. srv' = srv /\ ui' = ui
    BY <2>1 DEF NetOnly
  <2>6. ScheduleRequest(net'[i])
    BY <2>4 DEF ScheduleRequest
  <2>7. \A t : /\ t \in srv'.list => Adds(net'[i], t, Lists, Creates)
               /\ t \notin srv'.list => Takes(net'[i], t, Lists, Deletes) /\ ~Adds(net'[i], t, Lists, Creates)
    BY <2>4, <2>5 DEF Adds, Takes, Lists, Creates
  <2>. QED BY <1>1, <1>2, <2>1, <2>2, <2>5, <2>6, <2>7, SchedulesAnswered
<1>16. CASE Forbid
  <2>1. PICK i \in DOMAIN net : /\ net[i].state = "sent" /\ InTurn(i) /\ ~Authorized(net[i].call)
                                /\ Refuse(i) /\ NetOnly
    BY <1>16 DEF Forbid
  <2>2. net[i].by # "loadSchedules"
    BY <1>4, <2>1
  <2>. QED BY <1>1, <1>2, <2>1, <2>2, SchedulesRefused
<1>17. CASE Fault
  BY <1>17 DEF Fault
<1>. QED BY <1>6, <1>7, <1>9, <1>10, <1>11, <1>12, <1>13, <1>14, <1>15, <1>16, <1>17
         DEF SchedulesNext

-----------------------------------------------------------------------------
(* The confirmation of a deployment *)

Histories == {"loadHistory"}
Diffs     == {"diff"}
Removals  == {"deleteVersion"}

ConfirmRequest(x) ==
  \/ x.by = "loadHistory" /\ x.call = "composeHistory" /\ x.state \in {"sent", "done"}
  \/ /\ x.by = "diff" /\ x.call = "deployDiff" /\ x.state \in {"sent", "done"}
     /\ x.state = "done" => x.reply = <<x.arg>>
  \/ x.by = "deleteVersion" /\ (x.state = "done" => x.reply = <<x.arg>>)
  \/ x.by = "startDeploy"

\* What the page offers or will is there; the difference is of the target.
HistoryThere == \A t : WillShow(net, ui.history, t, Histories, {}, Removals) => t \in srv.versions
DiffOfTarget == ui.target.open => UpToDate(net, Diffs, ui.target.v, ui.diff, ui.target.v)

ConfirmInv ==
  page = "confirm" /\ line = "orderly" =>
    /\ DOMAIN ui = {"busy", "history", "target", "diff", "picked"}
    /\ DOMAIN srv = {"versions", "used", "saved"}
    /\ AnsweredFirst(net) /\ \A k \in DOMAIN net : ConfirmRequest(net[k])
    /\ HistoryThere /\ DiffOfTarget

\* The page asks: for the difference of the new target, or for something else.
LEMMA ConfirmAsked ==
  ASSUME ConfirmInv, page = "confirm", line = "orderly", AreRequests(net),
         NEW by, NEW call, NEW arg,
         Send(Request(by, call, arg)), UNCHANGED <<page, perms, line, srv>>,
         ui'.history = ui.history, DOMAIN ui' = DOMAIN ui,
         \/ by = "diff" /\ call = "deployDiff" /\ ui'.target.v = arg
         \/ by = "startDeploy" /\ ~ui'.target.open
         \/ by = "deleteVersion" /\ ui' = ui
  PROVE  ConfirmInv'
<1>. DEFINE x == Request(by, call, arg)
<1>1. /\ AnsweredFirst(net) /\ \A k \in DOMAIN net : ConfirmRequest(net[k])
      /\ HistoryThere /\ DiffOfTarget
      /\ DOMAIN ui = {"busy", "history", "target", "diff", "picked"}
      /\ DOMAIN srv = {"versions", "used", "saved"}
  BY DEF ConfirmInv
<1>2. /\ Added(net, net', x) /\ AnsweredFirst(net') /\ x.by = by /\ x.call = call /\ x.arg = arg
  BY <1>1, OrderAsked
<1>3. x.state = "sent"
  BY <1>2 DEF Added
<1>. HIDE DEF x
<1>4. ConfirmRequest(x)
  BY <1>2, <1>3 DEF ConfirmRequest
<1>5. \A k \in DOMAIN net' : ConfirmRequest(net'[k])
  BY <1>1, <1>2, <1>4 DEF Added
<1>6. HistoryThere'
  <2>1. \A t : WillShow(net', ui.history, t, Histories, {}, Removals) <=>
               WillShow(net, ui.history, t, Histories, {}, Removals)
    BY <1>2, ShowsAdded
  <2>. QED BY <1>1, <2>1 DEF HistoryThere
<1>7. DiffOfTarget'
  <2>1. CASE by = "diff" /\ ui'.target.v = arg
    <3>1. \A u, s : UpToDate(net', Diffs, arg, u, s)
      BY <1>2, <2>1, UpToDateAsked DEF Diffs
    <3>. QED BY <2>1, <3>1 DEF DiffOfTarget
  <2>2. CASE ~ui'.target.open
    BY <2>2 DEF DiffOfTarget
  <2>3. CASE by = "deleteVersion" /\ ui' = ui
    <3>1. \A a, u, s : UpToDate(net, Diffs, a, u, s) => UpToDate(net', Diffs, a, u, s)
      <4>1. x.by \notin Diffs
        BY <1>2, <2>3 DEF Diffs
      <4>. QED BY <1>2, <4>1, UpToDateAdded
    <3>. QED BY <1>1, <2>3, <3>1 DEF DiffOfTarget
  <2>. QED BY <2>1, <2>2, <2>3
<1>. QED BY <1>1, <1>2, <1>5, <1>6, <1>7 DEF ConfirmInv

\* The server answers: what it takes off goes from what the page will offer.
LEMMA ConfirmAnswered ==
  ASSUME ConfirmInv, page = "confirm", line = "orderly", AreRequests(net),
         NEW i \in DOMAIN net, net[i].state = "sent", InTurn(i),
         Refuse(i) \/ \E v : Reply(i, v), UNCHANGED <<page, perms, line, ui>>,
         DOMAIN srv' = DOMAIN srv, ConfirmRequest(net'[i]),
         \A t : \/ Adds(net'[i], t, Histories, {})
                \/ t \in srv.versions /\ ~Takes(net'[i], t, Histories, Removals)
                => t \in srv'.versions
  PROVE  ConfirmInv'
<1>1. /\ AnsweredFirst(net) /\ \A k \in DOMAIN net : ConfirmRequest(net[k])
      /\ HistoryThere /\ DiffOfTarget
      /\ DOMAIN ui = {"busy", "history", "target", "diff", "picked"}
      /\ DOMAIN srv = {"versions", "used", "saved"}
  BY DEF ConfirmInv
<1>2. AnsweredFirst(net') /\ DOMAIN net \subseteq Nat
  BY <1>1, OrderServed
<1>3. PICK st, v : st \in {"done", "error"} /\ AnsweredAt(net, net', i, st, v)
  BY MarkIsAnswer
<1>4. /\ DOMAIN net' = DOMAIN net /\ \A k \in DOMAIN net : k # i => net'[k] = net[k]
      /\ net'[i].by = net[i].by /\ net'[i].arg = net[i].arg /\ net'[i].state = st
      /\ st = "done" => net'[i].reply = v
  BY <1>3 DEF AnsweredAt
<1>5. \A k \in DOMAIN net' : ConfirmRequest(net'[k])
  BY <1>1, <1>4
<1>6. HistoryThere'
  <2>1. \A t : WillShow(net', ui.history, t, Histories, {}, Removals) <=>
                 \/ Adds(net'[i], t, Histories, {})
                 \/ /\ WillShow(net, ui.history, t, Histories, {}, Removals)
                    /\ ~Takes(net'[i], t, Histories, Removals)
    BY <1>1, <1>2, <1>3, ShowsAnswered DEF Histories, Removals
  <2>. QED BY <1>1, <2>1 DEF HistoryThere
<1>7. DiffOfTarget'
  <2>1. net[i].by \in Diffs => st = "done" /\ v = <<net[i].arg>>
    BY <1>3, <1>4 DEF ConfirmRequest, Diffs
  <2>2. \A a, u : UpToDate(net, Diffs, a, u, a) => UpToDate(net', Diffs, a, u, a)
    BY <1>3, <2>1, FreshAnswered
  <2>. QED BY <1>1, <2>2 DEF DiffOfTarget
<1>. QED BY <1>1, <1>2, <1>5, <1>6, <1>7 DEF ConfirmInv

\* The page takes an answer.
LEMMA ConfirmTaken ==
  ASSUME ConfirmInv, page = "confirm", line = "orderly", AreRequests(net),
         NEW i \in DOMAIN net, Next1(i), net[i].state # "sent", Removed(i),
         UNCHANGED <<page, perms, line, srv>>, DOMAIN ui' = DOMAIN ui, ui'.target = ui.target,
         \A t : /\ Adds(net[i], t, Histories, {}) => t \in ui'.history
                /\ Takes(net[i], t, Histories, Removals) => t \notin ui'.history
                /\ ~Adds(net[i], t, Histories, {}) /\ ~Takes(net[i], t, Histories, Removals)
                     => (t \in ui'.history <=> t \in ui.history),
         ui'.diff = IF net[i].by = "diff" THEN net[i].reply ELSE ui.diff
  PROVE  ConfirmInv'
<1>1. /\ AnsweredFirst(net) /\ \A k \in DOMAIN net : ConfirmRequest(net[k])
      /\ HistoryThere /\ DiffOfTarget
      /\ DOMAIN ui = {"busy", "history", "target", "diff", "picked"}
      /\ DOMAIN srv = {"versions", "used", "saved"}
  BY DEF ConfirmInv
<1>2. i = 1 /\ Advanced(net, net') /\ AnsweredFirst(net')
  BY <1>1, OrderTaken DEF Removed, Handled, HandledThen
<1>3. \A k \in DOMAIN net' : k + 1 \in DOMAIN net /\ net'[k] = net[k + 1]
  BY <1>2 DEF Advanced
<1>4. \A k \in DOMAIN net' : ConfirmRequest(net'[k])
  BY <1>1, <1>3
<1>5. HistoryThere'
  <2>1. Histories \cap {} = {} /\ Histories \cap Removals = {} /\ {} \cap Removals = {}
    BY DEF Histories, Removals
  <2>2. \A t : WillShow(net', ui'.history, t, Histories, {}, Removals) <=>
               WillShow(net, ui.history, t, Histories, {}, Removals)
    BY <1>2, <2>1, ShowsAdvanced
  <2>. QED BY <1>1, <2>2 DEF HistoryThere
<1>6. DiffOfTarget'
  <2>1. net[1].by \in Diffs => net[1].state = "done"
    BY <1>1, <1>2 DEF ConfirmRequest, Diffs
  <2>2. /\ net[1].by \in Diffs /\ net[1].state = "done" => ui'.diff = net[1].reply
        /\ net[1].by \notin Diffs => ui'.diff = ui.diff
    BY <1>2 DEF Diffs
  <2>3. \A a, s : UpToDate(net, Diffs, a, ui.diff, s) => UpToDate(net', Diffs, a, ui'.diff, s)
    BY <1>2, <2>1, <2>2, FreshAdvanced
  <2>. QED BY <1>1, <2>3 DEF DiffOfTarget
<1>. QED BY <1>1, <1>2, <1>4, <1>5, <1>6 DEF ConfirmInv

LEMMA ConfirmKept ==
  ASSUME ConfirmInv, FlagsInv, ConfirmNext
  PROVE  ConfirmInv'
<1>1. page = "confirm" /\ page' = page /\ perms' = perms /\ line' = line
  BY ConfirmStays DEF ConfirmNext, session
<1>. SUFFICES ASSUME line = "orderly" PROVE ConfirmInv'
  BY <1>1 DEF ConfirmInv
<1>2. AreRequests(net)
  BY <1>1 DEF FlagsInv, DeployPages
<1>3. /\ AnsweredFirst(net) /\ \A k \in DOMAIN net : ConfirmRequest(net[k])
      /\ HistoryThere /\ DiffOfTarget
      /\ DOMAIN ui = {"busy", "history", "target", "diff", "picked"}
      /\ DOMAIN srv = {"versions", "used", "saved"}
  BY <1>1 DEF ConfirmInv
<1>4. \A k \in DOMAIN net : net[k].by \in {"loadHistory", "diff"} => Authorized(net[k].call)
  BY <1>3, CallNeeds, WhoMay DEF ConfirmRequest
<1>5. ASSUME NEW i \in DOMAIN net, net[i].state = "sent", InTurn(i), Refuse(i), NetOnly,
             net[i].by \in {"startDeploy", "deleteVersion"}
      PROVE  ConfirmInv'
  <2>1. AnsweredAt(net, net', i, "error", <<>>)
    BY <1>2, <1>5, RefuseAnswers
  <2>2. net'[i].by = net[i].by /\ net'[i].state = "error"
    BY <2>1 DEF AnsweredAt
  <2>3. ConfirmRequest(net'[i])
    BY <1>5, <2>2 DEF ConfirmRequest
  <2>4. \A t : ~Adds(net'[i], t, Histories, {})
    BY <2>2 DEF Adds
  <2>5. srv' = srv /\ ui' = ui
    BY <1>5 DEF NetOnly
  <2>. QED BY <1>1, <1>2, <1>5, <2>3, <2>4, <2>5, ConfirmAnswered
<1>6. CASE SaveVersionElsewhere \/ PickVersion \/ CancelConfirm
  <2>1. /\ ui'.history = ui.history /\ DOMAIN ui' = DOMAIN ui /\ net' = net
        /\ DOMAIN srv' = DOMAIN srv /\ srv.versions \subseteq srv'.versions
        /\ (ui'.target = ui.target /\ ui'.diff = ui.diff) \/ ~ui'.target.open
    <3>1. CASE SaveVersionElsewhere
      BY <1>3, <3>1 DEF SaveVersionElsewhere, Elsewhere, ServerIs
    <3>2. CASE PickVersion
      <4>1. PICK v : ui' = [ui EXCEPT !.picked = v] /\ net' = net /\ srv' = srv
        BY <3>2 DEF PickVersion, Becomes, PageIs
      <4>. QED BY <1>3, <4>1
    <3>3. CASE CancelConfirm
      BY <1>3, <3>3 DEF CancelConfirm, NoConfirm, NoTarget, Becomes, PageIs
    <3>. QED BY <1>6, <3>1, <3>2, <3>3
  <2>2. HistoryThere'
    BY <1>3, <2>1 DEF HistoryThere
  <2>3. DiffOfTarget'
    BY <1>3, <2>1 DEF DiffOfTarget
  <2>. QED BY <1>1, <1>3, <2>1, <2>2, <2>3 DEF ConfirmInv
<1>7. CASE ClickDeployLatest \/ ClickRollbackTo \/ ClickRollbackToRecord
  <2>1. PICK v : RequestDeploy(v)
    BY <1>7 DEF ClickDeployLatest, ClickRollbackTo, ClickRollbackToRecord
  <2>2. /\ ui' = [ui EXCEPT !.target = [open |-> TRUE, v |-> v]] /\ srv' = srv
        /\ Send(Request("diff", "deployDiff", v))
    BY <2>1 DEF RequestDeploy, Asks, PageIs
  <2>3. ui'.history = ui.history /\ DOMAIN ui' = DOMAIN ui /\ ui'.target.v = v
    BY <1>3, <2>2
  <2>. QED BY <1>1, <1>2, <2>2, <2>3, ConfirmAsked
<1>8. CASE ConfirmDeploy
  <2>1. /\ ui' = NoConfirm /\ srv' = srv
        /\ Send(Request("startDeploy", "triggerDeploy", ui.target.v))
    BY <1>8 DEF ConfirmDeploy, Asks, PageIs
  <2>2. ui'.history = ui.history /\ DOMAIN ui' = DOMAIN ui /\ ~ui'.target.open
    BY <1>3, <2>1 DEF NoConfirm, NoTarget
  <2>. QED BY <1>1, <1>2, <2>1, <2>2, ConfirmAsked
<1>9. CASE ClickDeleteVersion
  <2>1. PICK v : ui' = ui /\ srv' = srv
                 /\ Send(Request("deleteVersion", "deleteComposeVersion", v))
    BY <1>9 DEF ClickDeleteVersion, Asks, PageIs
  <2>. QED BY <1>1, <1>2, <2>1, ConfirmAsked
<1>10. CASE HistoryLoaded
  <2>1. PICK i \in DOMAIN net : Arrived(i, "loadHistory") /\ HandledThen(i, <<>>)
                                /\ PageIs([ui EXCEPT !.history = Answer(i)])
    BY <1>10 DEF HistoryLoaded, Then, ThenAsks
  <2>2. /\ ui'.history = Head(net[i].reply) /\ DOMAIN ui' = DOMAIN ui /\ srv' = srv
        /\ ui'.target = ui.target /\ ui'.diff = ui.diff
    BY <1>3, <2>1 DEF PageIs, Answer
  <2>3. net[i].by = "loadHistory" /\ net[i].state = "done" /\ Next1(i) /\ Removed(i)
    BY <2>1 DEF Arrived, Removed
  <2>4. \A t : /\ Adds(net[i], t, Histories, {}) => t \in ui'.history
               /\ Takes(net[i], t, Histories, Removals) => t \notin ui'.history
               /\ Adds(net[i], t, Histories, {}) \/ Takes(net[i], t, Histories, Removals)
    BY <2>2, <2>3 DEF Adds, Takes, Histories, Removals
  <2>. QED BY <1>1, <1>2, <2>2, <2>3, <2>4, ConfirmTaken
<1>11. CASE VersionDeleted
  <2>1. PICK i \in DOMAIN net : Arrived(i, "deleteVersion") /\ HandledThen(i, <<>>)
                                /\ PageIs([ui EXCEPT !.history = @ \ {Answer(i)}])
    BY <1>11 DEF VersionDeleted, Then, ThenAsks
  <2>2. net[i].by = "deleteVersion" /\ net[i].state = "done" /\ Next1(i) /\ Removed(i)
    BY <2>1 DEF Arrived, Removed
  <2>3. Head(net[i].reply) = net[i].arg
    <3>1. net[i].reply = <<net[i].arg>>
      BY <1>3, <2>2 DEF ConfirmRequest
    <3>. QED BY <3>1
  <2>4. /\ ui'.history = ui.history \ {net[i].arg} /\ DOMAIN ui' = DOMAIN ui /\ srv' = srv
        /\ ui'.target = ui.target /\ ui'.diff = ui.diff
    BY <1>3, <2>1, <2>3 DEF PageIs, Answer
  <2>5. \A t : /\ ~Adds(net[i], t, Histories, {})
               /\ Takes(net[i], t, Histories, Removals) <=> t = net[i].arg
    BY <2>2 DEF Adds, Takes, Histories, Removals
  <2>. QED BY <1>1, <1>2, <2>2, <2>4, <2>5, ConfirmTaken
<1>12. CASE DiffLoaded
  <2>1. PICK i \in DOMAIN net : /\ net[i].by = "diff" /\ net[i].state # "sent" /\ Next1(i)
                                /\ Removed(i)
                                /\ \/ /\ net[i].state = "done"
                                      /\ PageIs([ui EXCEPT !.diff = <<Answer(i)>>])
                                   \/ net[i].state = "error"
    BY <1>12 DEF DiffLoaded, Then, ThenAsks, Catch, Arrived, Failed, Removed
  <2>2. net[i].reply = <<net[i].arg>> /\ net[i].state = "done"
    BY <1>3, <2>1 DEF ConfirmRequest
  <2>3. Answer(i) = net[i].arg
    BY <2>2 DEF Answer
  <2>4. /\ ui'.diff = net[i].reply /\ ui'.history = ui.history /\ DOMAIN ui' = DOMAIN ui
        /\ srv' = srv /\ ui'.target = ui.target
    BY <1>3, <2>1, <2>2, <2>3 DEF PageIs
  <2>5. \A t : ~Adds(net[i], t, Histories, {}) /\ ~Takes(net[i], t, Histories, Removals)
    BY <2>1 DEF Adds, Takes, Histories, Removals
  <2>. QED BY <1>1, <1>2, <2>1, <2>4, <2>5, ConfirmTaken
<1>13. CASE Finally("startDeploy", ui) \/ DropError({"loadHistory", "deleteVersion"})
  <2>1. PICK i \in DOMAIN net :
          /\ \/ net[i].by = "startDeploy" /\ net[i].state # "sent"
             \/ net[i].by \in {"loadHistory", "deleteVersion"} /\ net[i].state = "error"
          /\ Next1(i) /\ Removed(i) /\ ui' = ui /\ srv' = srv
    BY <1>13 DEF Finally, Then, ThenAsks, DropError, Catch, Arrived, Failed, PageIs, Removed
  <2>2. \A t : ~Adds(net[i], t, Histories, {}) /\ ~Takes(net[i], t, Histories, Removals)
    BY <2>1 DEF Adds, Takes, Histories, Removals
  <2>3. net[i].by # "diff" /\ net[i].state # "sent"
    BY <2>1
  <2>. QED BY <1>1, <1>2, <2>1, <2>2, <2>3, ConfirmTaken
<1>14. CASE ServeTrigger
  <2>1. PICK i \in DOMAIN net : /\ Served(i, "startDeploy") /\ Reply(i, net[i].arg) /\ ui' = ui
                                /\ srv' = [srv EXCEPT !.used = @ \cup ({Resolved(net[i].arg)} \cap srv.versions)]
    BY <1>14 DEF ServeTrigger, Does, Makes, ServerIs
  <2>2. net[i].by = "startDeploy" /\ net[i].state = "sent" /\ InTurn(i)
    BY <2>1 DEF Served
  <2>3. AnsweredAt(net, net', i, "done", <<net[i].arg>>)
    BY <1>2, <2>1, ReplyAnswers
  <2>4. net'[i].by = "startDeploy"
    BY <2>2, <2>3 DEF AnsweredAt
  <2>5. ConfirmRequest(net'[i]) /\ \A t : ~Adds(net'[i], t, Histories, {})
    BY <2>4 DEF ConfirmRequest, Adds, Histories
  <2>6. srv'.versions = srv.versions /\ DOMAIN srv' = DOMAIN srv
    BY <1>3, <2>1
  <2>. QED BY <1>1, <1>2, <2>1, <2>2, <2>5, <2>6, ConfirmAnswered
<1>15. CASE ServeDeleteVersion
  <2>1. PICK i \in DOMAIN net : /\ Served(i, "deleteVersion")
                                /\ \/ Reply(i, net[i].arg)
                                      /\ ServerIs([srv EXCEPT !.versions = @ \ {net[i].arg}])
                                   \/ Refuse(i) /\ NetOnly
    BY <1>15 DEF ServeDeleteVersion, Does, Makes
  <2>2. net[i].by = "deleteVersion" /\ net[i].state = "sent" /\ InTurn(i)
    BY <2>1 DEF Served
  <2>3. CASE Reply(i, net[i].arg) /\ ServerIs([srv EXCEPT !.versions = @ \ {net[i].arg}])
    <3>1. AnsweredAt(net, net', i, "done", <<net[i].arg>>)
      BY <1>2, <2>3, ReplyAnswers
    <3>2. /\ net'[i].by = "deleteVersion" /\ net'[i].state = "done"
          /\ net'[i].arg = net[i].arg /\ net'[i].reply = <<net[i].arg>>
      BY <2>2, <3>1 DEF AnsweredAt
    <3>3. ConfirmRequest(net'[i])
      BY <3>2 DEF ConfirmRequest
    <3>4. /\ \A t : t \in srv.versions /\ t # net[i].arg => t \in srv'.versions
          /\ DOMAIN srv' = DOMAIN srv /\ ui' = ui
      BY <1>3, <2>3 DEF ServerIs
    <3>5. \A t : /\ ~Adds(net'[i], t, Histories, {})
                 /\ Takes(net'[i], t, Histories, Removals) <=> t = net[i].arg
      BY <3>2 DEF Adds, Takes, Histories, Removals
    <3>. QED BY <1>1, <1>2, <2>2, <2>3, <3>3, <3>4, <3>5, ConfirmAnswered
  <2>. QED BY <1>5, <2>1, <2>2, <2>3
<1>16. CASE Tells("loadHistory", srv.versions)
  <2>1. PICK i \in DOMAIN net : Served(i, "loadHistory") /\ Reply(i, srv.versions) /\ NetOnly
    BY <1>16 DEF Tells, Finds
  <2>2. /\ net[i].by = "loadHistory" /\ net[i].state = "sent" /\ InTurn(i)
        /\ net[i].call = "composeHistory"
    BY <1>3, <2>1 DEF Served, ConfirmRequest
  <2>3. AnsweredAt(net, net', i, "done", <<srv.versions>>)
    BY <1>2, <2>1, ReplyAnswers
  <2>4. /\ net'[i].by = "loadHistory" /\ net'[i].call = "composeHistory"
        /\ net'[i].state = "done" /\ net'[i].reply = <<srv.versions>>
    BY <2>2, <2>3 DEF AnsweredAt
  <2>5. srv' = srv /\ ui' = ui
    BY <2>1 DEF NetOnly
  <2>6. ConfirmRequest(net'[i])
    BY <2>4 DEF ConfirmRequest
  <2>7. Head(net'[i].reply) = srv.versions
    BY <2>4
  <2>8. \A t : \/ Adds(net'[i], t, Histories, {})
               \/ t \in srv.versions /\ ~Takes(net'[i], t, Histories, Removals)
               => t \in srv'.versions
    BY <2>5, <2>7 DEF Adds
  <2>. QED BY <1>1, <1>2, <2>1, <2>2, <2>5, <2>6, <2>8, ConfirmAnswered
<1>17. CASE Finds("diff", LAMBDA v : v)
  <2>1. PICK i \in DOMAIN net : Served(i, "diff") /\ Reply(i, net[i].arg) /\ NetOnly
    BY <1>17 DEF Finds
  <2>2. /\ net[i].by = "diff" /\ net[i].state = "sent" /\ InTurn(i) /\ net[i].call = "deployDiff"
    BY <1>3, <2>1 DEF Served, ConfirmRequest
  <2>3. AnsweredAt(net, net', i, "done", <<net[i].arg>>)
    BY <1>2, <2>1, ReplyAnswers
  <2>4. /\ net'[i].by = "diff" /\ net'[i].call = "deployDiff" /\ net'[i].arg = net[i].arg
        /\ net'[i].state = "done" /\ net'[i].reply = <<net[i].arg>>
    BY <2>2, <2>3 DEF AnsweredAt
  <2>5. srv' = srv /\ ui' = ui
    BY <2>1 DEF NetOnly
  <2>6. ConfirmRequest(net'[i])
    BY <2>4 DEF ConfirmRequest
  <2>7. \A t : ~Adds(net'[i], t, Histories, {})
    BY <2>4 DEF Adds, Histories
  <2>. QED BY <1>1, <1>2, <2>1, <2>2, <2>5, <2>6, <2>7, ConfirmAnswered
<1>18. CASE Forbid
  <2>1. PICK i \in DOMAIN net : /\ net[i].state = "sent" /\ InTurn(i) /\ ~Authorized(net[i].call)
                                /\ Refuse(i) /\ NetOnly
    BY <1>18 DEF Forbid
  <2>2. net[i].by \in {"startDeploy", "deleteVersion"}
    BY <1>3, <1>4, <2>1 DEF ConfirmRequest
  <2>. QED BY <1>5, <2>1, <2>2
<1>19. CASE Fault
  BY <1>19 DEF Fault
<1>. QED BY <1>6, <1>7, <1>8, <1>9, <1>10, <1>11, <1>12, <1>13, <1>14, <1>15, <1>16, <1>17,
            <1>18, <1>19
         DEF ConfirmNext

-----------------------------------------------------------------------------
(* The releases that the pages show *)

\* The page that is mounted when it opens.
LEMMA OpensOn ==
  ASSUME ProjectsInit
  PROVE  /\ page = "tags" => TagsInit
         /\ page = "schedules" => SchedulesInit
         /\ page = "confirm" => ConfirmInit
         /\ page \in {"compose", "composeTab"} => ComposeInit
         /\ page \in {"env", "envTab"} => EnvInit
         /\ page = "newProject" => NewProjectInit
         /\ page = "project" => ProjectInit
         /\ page = "overview" => OverviewInit
         /\ page = "dashboard" => DashboardInit
         /\ page = "logs" => LogsInit
         /\ page = "fileBrowser" => FileBrowserInit
BY DEF ProjectsInit, DeployInit, ModalInit, Opens, ConfirmInit, TagsInit, SchedulesInit,
       ComposeInit, DeploySettingsInit, EnvInit, ProjectInit, OverviewInit, NewProjectInit,
       LogsInit, ExecInit, DashboardInit, FileBrowserInit, PipelineInit, SessionInit, NavInit

\* The one request with which a page opens.
LEMMA FirstAsked ==
  ASSUME NEW by, NEW call, NEW arg, NEW q, q = <<Request(by, call, arg)>>
  PROVE  /\ DOMAIN q = {1} /\ AnsweredFirst(q)
         /\ q[1].by = by /\ q[1].call = call /\ q[1].arg = arg /\ q[1].state = "sent"
<1>1. DOMAIN q = {1} /\ q[1] = Request(by, call, arg)
  OBVIOUS
<1>. QED BY <1>1 DEF Request, AnsweredFirst

ReleasesInv == TagsInv /\ SchedulesInv /\ ConfirmInv

LEMMA ReleasesStart == ASSUME ProjectsInit PROVE ReleasesInv
<1>1. TagsInv
  <2>. SUFFICES ASSUME page = "tags" PROVE TagsInv
    BY DEF TagsInv
  <2>1. net = <<Request("loadTags", "listDeployTags", NoArg)>> /\ TagsInit
    BY OpensOn DEF TagsInit
  <2>2. DOMAIN ui = {"busy", "tags", "open", "name"} /\ DOMAIN srv = {"tags", "retention"}
    BY <2>1 DEF TagsInit
  <2>3. /\ DOMAIN net = {1} /\ AnsweredFirst(net) /\ net[1].by = "loadTags"
        /\ net[1].call = "listDeployTags" /\ net[1].state = "sent"
    BY <2>1, FirstAsked
  <2>. QED BY <2>2, <2>3 DEF TagsInv, TagsLoading, TagRequest
<1>2. SchedulesInv
  <2>. SUFFICES ASSUME page = "schedules" PROVE SchedulesInv
    BY DEF SchedulesInv
  <2>1. net = <<Request("loadSchedules", "listScheduledDeploys", NoArg)>> /\ SchedulesInit
    BY OpensOn DEF SchedulesInit
  <2>2. DOMAIN ui = {"busy", "list", "at"} /\ DOMAIN srv = {"list", "made"}
    BY <2>1 DEF SchedulesInit
  <2>3. /\ DOMAIN net = {1} /\ AnsweredFirst(net) /\ net[1].by = "loadSchedules"
        /\ net[1].call = "listScheduledDeploys" /\ net[1].state = "sent"
    BY <2>1, FirstAsked
  <2>. QED BY <2>2, <2>3 DEF SchedulesInv, SchedulesLoading, ScheduleRequest
<1>3. ConfirmInv
  <2>. SUFFICES ASSUME page = "confirm" PROVE ConfirmInv
    BY DEF ConfirmInv
  <2>1. net = <<Request("loadHistory", "composeHistory", NoArg)>> /\ ConfirmInit
    BY OpensOn DEF ConfirmInit
  <2>2. /\ DOMAIN ui = {"busy", "history", "target", "diff", "picked"}
        /\ DOMAIN srv = {"versions", "used", "saved"}
        /\ ui.history = {} /\ ~ui.target.open
    BY <2>1 DEF ConfirmInit, NoTarget
  <2>3. /\ DOMAIN net = {1} /\ AnsweredFirst(net) /\ net[1].by = "loadHistory"
        /\ net[1].call = "composeHistory" /\ net[1].state = "sent"
    BY <2>1, FirstAsked
  <2>4. HistoryThere
    BY <2>2, <2>3 DEF HistoryThere, WillShow, Adds
  <2>. QED BY <2>2, <2>3, <2>4 DEF ConfirmInv, ConfirmRequest, DiffOfTarget
<1>. QED BY <1>1, <1>2, <1>3 DEF ReleasesInv

LEMMA ReleasesMove ==
  ASSUME ReleasesInv, FlagsInv, [ProjectsNext]_webVars
  PROVE  ReleasesInv'
<1>1. page' = page
  BY OnePage
<1>2. CASE UNCHANGED webVars
  <2>1. page' = page /\ perms' = perms /\ line' = line /\ ui' = ui /\ srv' = srv /\ net' = net
    BY <1>2 DEF webVars
  <2>2. TagsInv'
    BY <2>1 DEF ReleasesInv, TagsInv, TagsLoading, TagsShown, Can
  <2>3. SchedulesInv'
    BY <2>1 DEF ReleasesInv, SchedulesInv, SchedulesLoading, SchedulesShown
  <2>4. ConfirmInv'
    BY <2>1 DEF ReleasesInv, ConfirmInv, HistoryThere, DiffOfTarget
  <2>. QED BY <2>2, <2>3, <2>4 DEF ReleasesInv
<1>3. CASE ProjectsNext
  <2>1. TagsInv'
    <3>1. CASE page = "tags"
      BY <1>3, <3>1, OnPage, TagsMove DEF ReleasesInv
    <3>. QED BY <1>1, <3>1 DEF TagsInv
  <2>2. SchedulesInv'
    <3>1. CASE page = "schedules"
      BY <1>3, <3>1, OnPage, SchedulesMove DEF ReleasesInv
    <3>. QED BY <1>1, <3>1 DEF SchedulesInv
  <2>3. ConfirmInv'
    <3>1. CASE page = "confirm"
      BY <1>3, <3>1, OnPage, ConfirmKept DEF ReleasesInv
    <3>. QED BY <1>1, <3>1 DEF ConfirmInv
  <2>. QED BY <2>1, <2>2, <2>3 DEF ReleasesInv
<1>. QED BY <1>2, <1>3

LEMMA ReleasesInvHolds == ProjectsSpec => []ReleasesInv
<1>1. ProjectsInit => ReleasesInv
  BY ReleasesStart
<1>2. ReleasesInv /\ FlagsInv /\ [ProjectsNext]_webVars => ReleasesInv'
  BY ReleasesMove
<1>. QED BY <1>1, <1>2, FlagsInvHolds, PTL DEF ProjectsSpec

LEMMA ReleasesNow == ASSUME ReleasesInv PROVE ReleasesShown
<1>. SUFFICES ASSUME net = <<>>, line = "orderly"
              PROVE  /\ page = "tags" /\ Can("deploy") => srv.tags \subseteq ui.tags
                     /\ page = "schedules" => ui.list = srv.list
                     /\ page = "confirm" => /\ ui.history \subseteq srv.versions
                                            /\ ui.target.open => ui.diff = <<ui.target.v>>
  BY DEF ReleasesShown, Quiet
<1>1. ASSUME page = "tags", Can("deploy") PROVE srv.tags \subseteq ui.tags
  <2>1. \A t \in srv.tags : WillShow(<<>>, ui.tags, t, TagLists, TagCreates, TagDeletes)
    BY <1>1 DEF ReleasesInv, TagsInv, TagsLoading, TagsShown
  <2>. QED BY <2>1, ShowsNow
<1>2. ASSUME page = "schedules" PROVE ui.list = srv.list
  <2>1. \A t : t \in srv.list <=> WillShow(<<>>, ui.list, t, Lists, Creates, Deletes)
    BY <1>2 DEF ReleasesInv, SchedulesInv, SchedulesLoading, SchedulesShown
  <2>2. \A t : t \in srv.list <=> t \in ui.list
    BY <2>1, ShowsNow
  <2>. QED BY <2>2
<1>3. ASSUME page = "confirm"
      PROVE  ui.history \subseteq srv.versions /\ (ui.target.open => ui.diff = <<ui.target.v>>)
  <2>1. /\ \A t : WillShow(<<>>, ui.history, t, Histories, {}, Removals) => t \in srv.versions
        /\ ui.target.open => UpToDate(<<>>, Diffs, ui.target.v, ui.diff, ui.target.v)
    BY <1>3 DEF ReleasesInv, ConfirmInv, HistoryThere, DiffOfTarget
  <2>. QED BY <2>1, ShowsNow, UpToDateNow
<1>. QED BY <1>1, <1>2, <1>3

\* Once nothing is under way on a line that keeps the order, the page hides no
\* tag, shows the pending schedules of the server and offers only versions that
\* are there; and the difference that the confirmation shows is of the version
\* that will be deployed, however often the target was changed meanwhile.
THEOREM ReleasesCorrect == ProjectsSpec => []ReleasesShown
<1>1. ReleasesInv => ReleasesShown
  BY ReleasesNow
<1>. QED BY <1>1, ReleasesInvHolds, PTL

-----------------------------------------------------------------------------
(* What the pages offer, the server grants *)

\* What handlers W ask for is something that they had asked or may ask.
CallsKept(W) ==
  \A k \in DOMAIN net' : net'[k].by \in W =>
    \/ \E j \in DOMAIN net : net'[k].by = net[j].by /\ net'[k].call = net[j].call
    \/ Authorized(net'[k].call)

LEMMA AskKeepsCalls ==
  ASSUME AreRequests(net), NEW W, NEW by, NEW call, NEW arg, Send(Request(by, call, arg)),
         by \in W => Authorized(call)
  PROVE  CallsKept(W)
<1>. DEFINE x == Request(by, call, arg)
<1>1. net' = Extended(net, Request(by, call, arg))
  BY DEF Send, Sends, Extended
<1>2. Added(net, net', x) /\ x.by = by /\ x.call = call
  BY <1>1, AsksAdds
<1>. HIDE DEF x
<1>3. \A k \in DOMAIN net' : \/ k \in DOMAIN net /\ net'[k] = net[k]
                             \/ net'[k] = x
  BY <1>2 DEF Added
<1>. QED BY <1>2, <1>3 DEF CallsKept

LEMMA GrantKeepsCalls ==
  ASSUME AreRequests(net), NEW W, NEW by, NEW call, NEW need, Needs(call, need),
         need \notin {"any", "public", "admin"}, Granted(by, call, need)
  PROVE  CallsKept(W)
<1>1. Authorized(call)
  BY WhoMay DEF Granted
<1>2. PICK arg : Send(Request(by, call, arg))
  BY DEF Granted
<1>. QED BY <1>1, <1>2, AskKeepsCalls

LEMMA OthersKeepCalls ==
  ASSUME AreRequests(net), NEW W,
         \/ Stays \/ \E bys : Drops(bys)
         \/ \E by : by \notin W /\ Asked(by)
         \/ \E bys, by : by \notin W /\ Swaps(bys, by)
  PROVE  CallsKept(W)
<1>1. ASSUME net' = net PROVE CallsKept(W)
  BY <1>1 DEF CallsKept
<1>2. ASSUME NEW i \in DOMAIN net, Refuse(i) PROVE CallsKept(W)
  <2>1. AnsweredAt(net, net', i, "error", <<>>)
    BY <1>2, RefuseAnswers
  <2>2. \A k \in DOMAIN net' : k \in DOMAIN net /\ net'[k].by = net[k].by /\ net'[k].call = net[k].call
    BY <2>1 DEF AnsweredAt
  <2>. QED BY <2>2 DEF CallsKept
<1>3. ASSUME NEW i \in DOMAIN net, NEW v, Reply(i, v) PROVE CallsKept(W)
  <2>1. AnsweredAt(net, net', i, "done", <<v>>)
    BY <1>3, ReplyAnswers
  <2>2. \A k \in DOMAIN net' : k \in DOMAIN net /\ net'[k].by = net[k].by /\ net'[k].call = net[k].call
    BY <2>1 DEF AnsweredAt
  <2>. QED BY <2>2 DEF CallsKept
<1>4. ASSUME NEW i \in DOMAIN net, Removed(i) PROVE CallsKept(W)
  <2>1. \A k \in DOMAIN net' : \E j \in DOMAIN net : net'[k] = net[j]
    BY <1>4, TakesOne DEF Removed, Handled, HandledThen
  <2>. QED BY <2>1 DEF CallsKept
<1>5. ASSUME NEW by, by \notin W, Asked(by) PROVE CallsKept(W)
  <2>1. PICK call, arg : Send(Request(by, call, arg))
    BY <1>5 DEF Asked
  <2>. QED BY <1>5, <2>1, AskKeepsCalls
<1>6. ASSUME NEW i \in DOMAIN net, NEW by, by \notin W, Swapped(i, by) PROVE CallsKept(W)
  <2>1. PICK call, arg : net' = RemoveAt(net, i) \o <<Request(by, call, arg)>>
    BY <1>6 DEF Swapped, HandledThen
  <2>. DEFINE q == RemoveAt(net, i)
              x == Request(by, call, arg)
  <2>2. AreRequests(q) /\ \A k \in DOMAIN q : \E j \in DOMAIN net : q[k] = net[j]
    BY TakesOne
  <2>3. net' = Extended(q, Request(by, call, arg))
    BY <2>1 DEF Extended
  <2>. HIDE DEF q
  <2>4. Added(q, net', x) /\ x.by = by
    BY <2>2, <2>3, AsksAdds
  <2>. HIDE DEF x
  <2>5. \A k \in DOMAIN net' : \/ k \in DOMAIN q /\ net'[k] = q[k]
                               \/ net'[k] = x
    BY <2>4 DEF Added
  <2>. QED BY <1>6, <2>2, <2>4, <2>5 DEF CallsKept
<1>. QED BY <1>1, <1>2, <1>3, <1>4, <1>5, <1>6 DEF Stays, Marked, Drops, Swaps

LEMMA CallsKeepRights ==
  ASSUME page \in DOMAIN Offered, page' = page, perms' = perms, NothingForbidden,
         CallsKept(Offered[page])
  PROVE  NothingForbidden'
<1>1. \A c : Authorized(c) => Authorized(c)'
  BY DEF Authorized, Can, IsAdmin
<1>. QED BY <1>1 DEF NothingForbidden, CallsKept

LEMMA RightsMove ==
  ASSUME NothingForbidden, FlagsInv, [ProjectsNext]_webVars
  PROVE  NothingForbidden'
<1>1. page' = page
  BY OnePage
<1>2. CASE UNCHANGED webVars
  BY <1>2 DEF webVars, NothingForbidden, Authorized, Can, IsAdmin
<1>3. CASE ProjectsNext /\ page \notin DOMAIN Offered
  BY <1>1, <1>3 DEF NothingForbidden
<1>4. CASE ProjectsNext /\ page \in DOMAIN Offered
  <2>0. DOMAIN Offered = {"confirm", "schedules", "compose", "env", "newProject"}
    BY DEF Offered
  <2>1. AreRequests(net) /\ "busy" \in DOMAIN ui /\ Flags
    BY <1>4, <2>0 DEF FlagsInv, DeployPages
  <2>2. CASE page = "confirm"
    <3>1. ConfirmNext /\ perms' = perms
      BY <1>4, <2>2, OnPage, ConfirmStays DEF session
    <3>2. Needs("deleteComposeVersion", "edit_compose")
      BY CallNeeds
    <3>3. CallsKept({"deleteVersion"})
      BY <2>1, <3>1, <3>2, ConfirmMoves, OthersKeepCalls, GrantKeepsCalls
    <3>. QED BY <1>1, <1>4, <2>2, <3>1, <3>3, CallsKeepRights DEF Offered
  <2>3. CASE page = "schedules"
    <3>1. SchedulesNext /\ perms' = perms
      BY <1>4, <2>3, OnPage, SchedulesStays DEF session
    <3>2. Needs("createScheduledDeploy", "deploy")
      BY CallNeeds
    <3>3. CallsKept({"createSchedule"})
      BY <2>1, <3>1, <3>2, SchedulesMoves, OthersKeepCalls, GrantKeepsCalls
    <3>. QED BY <1>1, <1>4, <2>3, <3>1, <3>3, CallsKeepRights DEF Offered
  <2>4. CASE page = "compose"
    <3>1. ComposeNext /\ perms' = perms
      BY <1>4, <2>4, OnPage, ComposeStays DEF session
    <3>2. Needs("saveCompose", "edit_compose")
      BY CallNeeds
    <3>3. CallsKept({"save"})
      BY <2>1, <2>4, <3>1, <3>2, ComposeMoves, OthersKeepCalls, GrantKeepsCalls
    <3>. QED BY <1>1, <1>4, <2>4, <3>1, <3>3, CallsKeepRights DEF Offered
  <2>5. CASE page = "env"
    <3>1. EnvNext /\ perms' = perms
      BY <1>4, <2>5, OnPage, EnvStays DEF session
    <3>2. Needs("saveEnv", "edit_env") /\ "modal" \in DOMAIN ui
      BY <2>1, <2>5, CallNeeds DEF Flags, EnvFlags
    <3>3. CallsKept({"save"})
      <4>1. Stays \/ (\E bys : Drops(bys)) \/ Asked("loadHistory") \/ Asked("restore")
            \/ Granted("save", "saveEnv", "edit_env")
        BY <2>1, <2>5, <3>1, <3>2, EnvMoves, Zenon
      <4>. QED BY <2>1, <3>2, <4>1, OthersKeepCalls, GrantKeepsCalls
    <3>. QED BY <1>1, <1>4, <2>5, <3>1, <3>3, CallsKeepRights DEF Offered
  <2>6. CASE page = "newProject"
    <3>1. NewProjectNext /\ perms' = perms
      BY <1>4, <2>6, OnPage, NewProjectStays DEF session
    <3>2. Needs("createProject", "manage_projects")
      BY CallNeeds
    <3>3. CallsKept({"create"})
      BY <2>1, <3>1, <3>2, NewProjectMoves, OthersKeepCalls, GrantKeepsCalls
    <3>. QED BY <1>1, <1>4, <2>6, <3>1, <3>3, CallsKeepRights DEF Offered
  <2>. QED BY <1>4, <2>0, <2>2, <2>3, <2>4, <2>5, <2>6
<1>. QED BY <1>2, <1>3, <1>4

\* What a control that checks a permission asks for, the server does not forbid,
\* whoever the user is and whatever is lost: the pages and the router agree on
\* who may save, schedule, create and delete.
THEOREM NothingForbiddenHolds == ProjectsSpec => []NothingForbidden
<1>1. ProjectsInit => NothingForbidden
  <2>. SUFFICES ASSUME ProjectsInit, page \in DOMAIN Offered
                PROVE  \A i \in DOMAIN net : net[i].by \notin Offered[page]
    BY DEF NothingForbidden
  <2>1. page \in {"confirm", "schedules", "compose", "env", "newProject"}
    BY DEF Offered
  <2>2. CASE page = "confirm"
    <3>1. net = <<Request("loadHistory", "composeHistory", NoArg)>>
      BY <2>2, OpensOn DEF ConfirmInit
    <3>. QED BY <2>2, <3>1, FirstAsked DEF Offered
  <2>3. CASE page = "schedules"
    <3>1. net = <<Request("loadSchedules", "listScheduledDeploys", NoArg)>>
      BY <2>3, OpensOn DEF SchedulesInit
    <3>. QED BY <2>3, <3>1, FirstAsked DEF Offered
  <2>4. CASE page = "compose"
    <3>1. net = <<Request("load", "getCompose", NoArg),
                  Request("loadHistory", "composeHistory", NoArg)>>
      BY <2>4, OpensOn DEF ComposeInit
    <3>2. \A i \in DOMAIN net : net[i].by \in {"load", "loadHistory"}
      BY <3>1 DEF Request
    <3>. QED BY <2>4, <3>2 DEF Offered
  <2>5. CASE page = "env"
    <3>1. net = <<Request("load", "getEnv", NoArg)>>
      BY <2>5, OpensOn DEF EnvInit
    <3>. QED BY <2>5, <3>1, FirstAsked DEF Offered
  <2>6. CASE page = "newProject"
    <3>1. net = <<>>
      BY <2>6, OpensOn DEF NewProjectInit
    <3>. QED BY <3>1
  <2>. QED BY <2>1, <2>2, <2>3, <2>4, <2>5, <2>6
<1>2. NothingForbidden /\ FlagsInv /\ [ProjectsNext]_webVars => NothingForbidden'
  BY RightsMove
<1>. QED BY <1>1, <1>2, FlagsInvHolds, PTL DEF ProjectsSpec

-----------------------------------------------------------------------------
(* The compose editors *)

Readings == {"loadHistory", "saveHistory"}

\* A request while the server has n versions: what it was answered is of these.
ComposeRequest(x, n) ==
  \/ /\ x.by = "load" /\ x.call = "getCompose" /\ x.state \in {"sent", "done"}
     /\ x.state = "done" => \E v : x.reply = <<v>> /\ v.number \in 0..n
  \/ /\ x.by \in Readings /\ x.call = "composeHistory" /\ x.arg = NoArg
     /\ x.state \in {"sent", "done"}
     /\ x.state = "done" => \E h : x.reply = <<h>> /\ DOMAIN h \subseteq 1..n
  \/ x.by = "save" /\ (x.state = "done" => \E m : x.reply = <<m>> /\ m \in 1..n)

SaveTold  == \E k \in DOMAIN net : net[k].by = "save" /\ net[k].state = "done"
IsReading == \E k \in DOMAIN net : net[k].by = "saveHistory"

\* What the page shows of the history, or will once the answers are there.
HistoryComes == UpToDate(net, Readings, NoArg, <<ui.history>>, srv.versions) \/ SaveTold

\* The version that the page has selected.
SelectedThere ==
  /\ ui.selected \in 0..Len(srv.versions) /\ DOMAIN ui.history \subseteq 1..Len(srv.versions)
  /\ ui.msg = "ok" \/ IsReading => ui.selected # 0

ComposeInv ==
  page \in {"compose", "composeTab"} /\ line = "orderly" =>
    /\ DOMAIN ui = {"busy", "text", "history", "selected", "msg"} /\ DOMAIN srv = {"versions"}
    /\ \E S : srv.versions \in Seq(S)
    /\ AnsweredFirst(net) /\ \A k \in DOMAIN net : ComposeRequest(net[k], Len(srv.versions))
    /\ HistoryComes /\ SelectedThere

\* More versions leave a request what it is.
LEMMA ComposeGrows ==
  ASSUME NEW m \in Nat, NEW n \in Nat, m <= n, NEW x, ComposeRequest(x, m)
  PROVE  ComposeRequest(x, n)
<1>1. 0..m \subseteq 0..n /\ 1..m \subseteq 1..n
  OBVIOUS
<1>. QED BY <1>1 DEF ComposeRequest

\* The page asks to save.
LEMMA ComposeAsked ==
  ASSUME ComposeInv, page \in {"compose", "composeTab"}, line = "orderly", AreRequests(net),
         NEW call, NEW arg, Send(Request("save", call, arg)), UNCHANGED <<page, line, srv>>,
         ui'.history = ui.history, ui'.selected = ui.selected, ui'.msg # "ok",
         DOMAIN ui' = DOMAIN ui
  PROVE  ComposeInv'
<1>. DEFINE x == Request("save", call, arg)
<1>1. /\ DOMAIN ui = {"busy", "text", "history", "selected", "msg"} /\ DOMAIN srv = {"versions"}
      /\ \E S : srv.versions \in Seq(S)
      /\ AnsweredFirst(net) /\ \A k \in DOMAIN net : ComposeRequest(net[k], Len(srv.versions))
      /\ HistoryComes /\ SelectedThere
  BY DEF ComposeInv
<1>2. /\ Added(net, net', x) /\ AnsweredFirst(net') /\ x.by = "save" /\ x.call = call
  BY <1>1, OrderAsked
<1>3. x.state = "sent"
  BY <1>2 DEF Added
<1>. HIDE DEF x
<1>4. /\ \A k \in DOMAIN net : k \in DOMAIN net' /\ net'[k] = net[k]
      /\ \A k \in DOMAIN net' : (k \in DOMAIN net /\ net'[k] = net[k]) \/ net'[k] = x
  BY <1>2 DEF Added
<1>5. \A k \in DOMAIN net' : ComposeRequest(net'[k], Len(srv.versions))
  BY <1>1, <1>2, <1>3, <1>4 DEF ComposeRequest
<1>6. HistoryComes'
  <2>1. x.by \notin Readings
    BY <1>2 DEF Readings
  <2>2. \A u, s : UpToDate(net, Readings, NoArg, u, s) => UpToDate(net', Readings, NoArg, u, s)
    BY <1>2, <2>1, UpToDateAdded
  <2>3. SaveTold => SaveTold'
    BY <1>4 DEF SaveTold
  <2>. QED BY <1>1, <2>2, <2>3 DEF HistoryComes
<1>7. IsReading' => IsReading
  BY <1>2, <1>4 DEF IsReading
<1>8. SelectedThere'
  BY <1>1, <1>7 DEF SelectedThere
<1>. QED BY <1>1, <1>2, <1>5, <1>6, <1>8 DEF ComposeInv

\* The server answers.
LEMMA ComposeAnswered ==
  ASSUME ComposeInv, page \in {"compose", "composeTab"}, line = "orderly", AreRequests(net),
         NEW i \in DOMAIN net, net[i].state = "sent", InTurn(i),
         Refuse(i) \/ \E v : Reply(i, v), UNCHANGED <<page, line, ui>>,
         DOMAIN srv' = DOMAIN srv, \E S : srv'.versions \in Seq(S),
         Len(srv.versions) <= Len(srv'.versions), ComposeRequest(net'[i], Len(srv'.versions)),
         srv' = srv \/ (net[i].by = "save" /\ net'[i].state = "done"),
         net[i].by \in Readings => net'[i].reply = <<srv.versions>>
  PROVE  ComposeInv'
<1>1. /\ DOMAIN ui = {"busy", "text", "history", "selected", "msg"} /\ DOMAIN srv = {"versions"}
      /\ \E S : srv.versions \in Seq(S)
      /\ AnsweredFirst(net) /\ \A k \in DOMAIN net : ComposeRequest(net[k], Len(srv.versions))
      /\ HistoryComes /\ SelectedThere
  BY DEF ComposeInv
<1>2. AnsweredFirst(net')
  BY <1>1, OrderServed
<1>3. PICK st, v : st \in {"done", "error"} /\ AnsweredAt(net, net', i, st, v)
  BY MarkIsAnswer
<1>4. /\ DOMAIN net' = DOMAIN net /\ \A k \in DOMAIN net : k # i => net'[k] = net[k]
      /\ net'[i].by = net[i].by /\ net'[i].arg = net[i].arg /\ net'[i].state = st
      /\ st = "done" => net'[i].reply = v
  BY <1>3 DEF AnsweredAt
<1>5. Len(srv.versions) \in Nat /\ Len(srv'.versions) \in Nat
  BY <1>1
<1>6. \A k \in DOMAIN net' : ComposeRequest(net'[k], Len(srv'.versions))
  BY <1>1, <1>4, <1>5, ComposeGrows
<1>7. HistoryComes'
  <2>1. CASE net[i].by = "save" /\ net'[i].state = "done"
    BY <1>4, <2>1 DEF HistoryComes, SaveTold
  <2>2. CASE srv' = srv
    <3>1. net[i].by \in Readings => st = "done" /\ v = <<srv.versions>>
      BY <1>3, <1>4 DEF ComposeRequest, Readings
    <3>2. \A u : UpToDate(net, Readings, NoArg, u, srv.versions)
                   => UpToDate(net', Readings, NoArg, u, srv.versions)
      BY <1>3, <3>1, FreshAnswered
    <3>3. SaveTold => SaveTold'
      BY <1>4 DEF SaveTold
    <3>. QED BY <1>1, <2>2, <3>2, <3>3 DEF HistoryComes
  <2>. QED BY <2>1, <2>2
<1>8. IsReading' => IsReading
  BY <1>4 DEF IsReading
<1>9. SelectedThere'
  BY <1>1, <1>5, <1>8 DEF SelectedThere
<1>. QED BY <1>1, <1>2, <1>6, <1>7, <1>9 DEF ComposeInv

\* The server tells.
LEMMA ComposeTold ==
  ASSUME ComposeInv, page \in {"compose", "composeTab"}, line = "orderly", AreRequests(net),
         NEW i \in DOMAIN net, net[i].state = "sent", InTurn(i),
         Refuse(i) \/ \E v : Reply(i, v), UNCHANGED <<page, line, ui, srv>>,
         ComposeRequest(net'[i], Len(srv.versions)),
         net[i].by \in Readings => net'[i].reply = <<srv.versions>>
  PROVE  ComposeInv'
<1>1. (\E S : srv.versions \in Seq(S)) /\ Len(srv.versions) \in Nat
  BY DEF ComposeInv
<1>2. /\ DOMAIN srv' = DOMAIN srv /\ \E S : srv'.versions \in Seq(S)
      /\ Len(srv.versions) <= Len(srv'.versions) /\ ComposeRequest(net'[i], Len(srv'.versions))
  BY <1>1
<1>. QED BY <1>2, ComposeAnswered

\* The page takes an answer that is not of a save that succeeded.
LEMMA ComposeTaken ==
  ASSUME ComposeInv, page \in {"compose", "composeTab"}, line = "orderly", AreRequests(net),
         NEW i \in DOMAIN net, Next1(i), net[i].state # "sent", Removed(i),
         UNCHANGED <<page, line, srv>>, DOMAIN ui' = DOMAIN ui,
         net[i].by = "save" => net[i].state # "done",
         net[i].by \in Readings => net[i].reply = <<ui'.history>>,
         net[i].by \notin Readings => ui'.history = ui.history,
         ui'.selected \in 0..Len(srv.versions), ui.selected # 0 => ui'.selected # 0,
         ui'.msg = "ok" => ui.msg = "ok" \/ net[i].by = "saveHistory"
  PROVE  ComposeInv'
<1>1. /\ DOMAIN ui = {"busy", "text", "history", "selected", "msg"} /\ DOMAIN srv = {"versions"}
      /\ \E S : srv.versions \in Seq(S)
      /\ AnsweredFirst(net) /\ \A k \in DOMAIN net : ComposeRequest(net[k], Len(srv.versions))
      /\ HistoryComes /\ SelectedThere
  BY DEF ComposeInv
<1>2. i = 1 /\ Advanced(net, net') /\ AnsweredFirst(net')
  BY <1>1, OrderTaken DEF Removed, Handled, HandledThen
<1>3. \A k \in DOMAIN net' : k + 1 \in DOMAIN net /\ net'[k] = net[k + 1]
  BY <1>2 DEF Advanced
<1>4. \A k \in DOMAIN net' : ComposeRequest(net'[k], Len(srv.versions))
  BY <1>1, <1>3
<1>5. HistoryComes'
  <2>1. net[1].by \in Readings => net[1].state = "done"
    BY <1>1, <1>2 DEF ComposeRequest, Readings
  <2>2. /\ net[1].by \in Readings /\ net[1].state = "done" => <<ui'.history>> = net[1].reply
        /\ net[1].by \notin Readings => <<ui'.history>> = <<ui.history>>
    BY <1>2
  <2>3. \A s : UpToDate(net, Readings, NoArg, <<ui.history>>, s)
                 => UpToDate(net', Readings, NoArg, <<ui'.history>>, s)
    BY <1>2, <2>1, <2>2, FreshAdvanced
  <2>4. SaveTold => SaveTold'
    <3>. SUFFICES ASSUME NEW k \in DOMAIN net, net[k].by = "save", net[k].state = "done"
                  PROVE  SaveTold'
      BY DEF SaveTold
    <3>1. k # 1
      BY <1>2
    <3>2. k - 1 \in DOMAIN net' /\ k - 1 + 1 = k
      BY <1>2, <3>1 DEF Advanced
    <3>3. net'[k - 1] = net[k]
      BY <1>3, <3>2
    <3>. QED BY <3>2, <3>3 DEF SaveTold
  <2>. QED BY <1>1, <2>3, <2>4 DEF HistoryComes
<1>6. (IsReading' => IsReading) /\ (net[i].by = "saveHistory" => IsReading)
  BY <1>3 DEF IsReading
<1>7. DOMAIN ui'.history \subseteq 1..Len(srv.versions)
  <2>1. CASE net[i].by \in Readings
    <3>1. PICK h : net[i].reply = <<h>> /\ DOMAIN h \subseteq 1..Len(srv.versions)
      BY <1>1, <2>1 DEF ComposeRequest, Readings
    <3>2. ui'.history = h
      BY <2>1, <3>1
    <3>. QED BY <3>1, <3>2
  <2>2. CASE net[i].by \notin Readings
    BY <1>1, <2>2 DEF SelectedThere
  <2>. QED BY <2>1, <2>2
<1>8. SelectedThere'
  BY <1>1, <1>6, <1>7 DEF SelectedThere
<1>. QED BY <1>1, <1>2, <1>4, <1>5, <1>8 DEF ComposeInv

\* The page takes the answer to a save and reads the history again.
LEMMA ComposeReads ==
  ASSUME ComposeInv, page \in {"compose", "composeTab"}, line = "orderly", AreRequests(net),
         NEW i \in DOMAIN net, Arrived(i, "save"),
         NEW by \in Readings, HandledThen(i, <<Request(by, "composeHistory", NoArg)>>),
         UNCHANGED <<page, line, srv>>, DOMAIN ui' = DOMAIN ui,
         ui'.selected = Answer(i), ui'.history = ui.history
  PROVE  ComposeInv'
<1>. DEFINE x == Request(by, "composeHistory", NoArg)
<1>1. /\ DOMAIN ui = {"busy", "text", "history", "selected", "msg"} /\ DOMAIN srv = {"versions"}
      /\ \E S : srv.versions \in Seq(S)
      /\ AnsweredFirst(net) /\ \A k \in DOMAIN net : ComposeRequest(net[k], Len(srv.versions))
      /\ HistoryComes /\ SelectedThere
  BY DEF ComposeInv
<1>2. Next1(i) /\ net[i].by = "save" /\ net[i].state = "done"
  BY DEF Arrived
<1>3. /\ i = 1 /\ AnsweredFirst(net')
      /\ \E q : Advanced(net, q) /\ Added(q, net', x)
      /\ x.by = by /\ x.call = "composeHistory" /\ x.arg = NoArg
  BY <1>1, <1>2, OrderSwapped
<1>4. PICK q : Advanced(net, q) /\ Added(q, net', x)
  BY <1>3
<1>5. x.state = "sent"
  BY <1>4 DEF Added
<1>. HIDE DEF x
<1>6. \A k \in DOMAIN q : k + 1 \in DOMAIN net /\ q[k] = net[k + 1]
  BY <1>4 DEF Advanced
<1>7. \A k \in DOMAIN net' : (k \in DOMAIN q /\ net'[k] = q[k]) \/ net'[k] = x
  BY <1>4 DEF Added
<1>8. ComposeRequest(x, Len(srv.versions))
  BY <1>3, <1>5 DEF ComposeRequest
<1>9. \A k \in DOMAIN net' : ComposeRequest(net'[k], Len(srv.versions))
  BY <1>1, <1>6, <1>7, <1>8
<1>10. HistoryComes'
  <2>1. \A u, s : UpToDate(net', Readings, x.arg, u, s)
    BY <1>3, <1>4, UpToDateAsked
  <2>. QED BY <1>3, <2>1 DEF HistoryComes
<1>11. Answer(i) \in 1..Len(srv.versions)
  <2>1. PICK m : net[i].reply = <<m>> /\ m \in 1..Len(srv.versions)
    BY <1>1, <1>2 DEF ComposeRequest, Readings
  <2>. QED BY <2>1 DEF Answer
<1>12. SelectedThere'
  BY <1>1, <1>11 DEF SelectedThere
<1>. QED BY <1>1, <1>3, <1>9, <1>10, <1>12 DEF ComposeInv

LEMMA ComposeKept ==
  ASSUME ComposeInv, FlagsInv, ComposeNext
  PROVE  ComposeInv'
<1>1. page \in {"compose", "composeTab"} /\ page' = page /\ perms' = perms /\ line' = line
  BY ComposeStays DEF ComposeNext, session
<1>. SUFFICES ASSUME line = "orderly" PROVE ComposeInv'
  BY <1>1 DEF ComposeInv
<1>2. AreRequests(net)
  BY <1>1 DEF FlagsInv, DeployPages
<1>3. /\ DOMAIN ui = {"busy", "text", "history", "selected", "msg"} /\ DOMAIN srv = {"versions"}
      /\ \E S : srv.versions \in Seq(S)
      /\ AnsweredFirst(net) /\ \A k \in DOMAIN net : ComposeRequest(net[k], Len(srv.versions))
      /\ HistoryComes /\ SelectedThere
  BY <1>1 DEF ComposeInv
<1>4. \A k \in DOMAIN net : net[k].by \in {"load", "loadHistory", "saveHistory"}
                              => Authorized(net[k].call)
  <2>1. \A c \in {"getCompose", "composeHistory"} : Authorized(c)
    BY CallNeeds, WhoMay
  <2>. QED BY <1>3, <2>1 DEF ComposeRequest, Readings
<1>5. ASSUME NEW i \in DOMAIN net, net[i].state = "sent", InTurn(i), Refuse(i), NetOnly,
             net[i].by = "save"
      PROVE  ComposeInv'
  <2>1. AnsweredAt(net, net', i, "error", <<>>)
    BY <1>2, <1>5, RefuseAnswers
  <2>2. net'[i].by = net[i].by /\ net'[i].state = "error"
    BY <2>1 DEF AnsweredAt
  <2>3. ComposeRequest(net'[i], Len(srv.versions))
    BY <1>5, <2>2 DEF ComposeRequest
  <2>4. srv' = srv /\ ui' = ui /\ net[i].by \notin Readings
    BY <1>5 DEF NetOnly, Readings
  <2>. QED BY <1>1, <1>2, <1>5, <2>3, <2>4, ComposeTold
<1>6. CASE TypeCompose \/ ClickComposeVersion
  <2>1. PICK t, n : /\ ui' = [[ui EXCEPT !.text = t] EXCEPT !.selected = n]
                    /\ net' = net /\ srv' = srv
                    /\ n = ui.selected \/ n \in DOMAIN ui.history
    <3>1. CASE TypeCompose
      <4>1. PICK t : ui' = [ui EXCEPT !.text = t] /\ net' = net /\ srv' = srv
        BY <3>1 DEF TypeCompose, Becomes, PageIs
      <4>2. ui' = [[ui EXCEPT !.text = t] EXCEPT !.selected = ui.selected]
        BY <1>3, <4>1
      <4>. QED BY <4>1, <4>2
    <3>2. CASE ClickComposeVersion
      BY <3>2 DEF ClickComposeVersion, SelectCompose, Becomes, PageIs
    <3>. QED BY <1>6, <3>1, <3>2
  <2>2. /\ ui'.history = ui.history /\ ui'.msg = ui.msg /\ DOMAIN ui' = DOMAIN ui
        /\ ui'.selected = ui.selected \/ ui'.selected \in DOMAIN ui.history
        /\ net' = net /\ srv' = srv
    BY <1>3, <2>1
  <2>3. HistoryComes'
    BY <1>3, <2>2 DEF HistoryComes, SaveTold
  <2>4. IsReading' = IsReading /\ Len(srv.versions) \in Nat
    BY <1>3, <2>2 DEF IsReading
  <2>5. SelectedThere'
    BY <1>3, <2>2, <2>4 DEF SelectedThere
  <2>. QED BY <1>1, <1>3, <2>2, <2>3, <2>5 DEF ComposeInv
<1>7. CASE ClickSaveCompose
  <2>1. CASE Becomes([ui EXCEPT !.msg = "err"])
    <3>1. /\ ui'.history = ui.history /\ ui'.msg = "err" /\ DOMAIN ui' = DOMAIN ui
          /\ ui'.selected = ui.selected /\ net' = net /\ srv' = srv
      BY <1>3, <2>1 DEF Becomes, PageIs
    <3>2. HistoryComes' /\ SelectedThere'
      BY <1>3, <3>1 DEF HistoryComes, SaveTold, SelectedThere, IsReading
    <3>. QED BY <1>1, <1>3, <3>1, <3>2 DEF ComposeInv
  <2>2. CASE Asks([ui EXCEPT !.busy = {"saving"}, !.msg = "none"], "save", "saveCompose", ui.text)
    <3>1. /\ Send(Request("save", "saveCompose", ui.text)) /\ srv' = srv
          /\ ui' = [ui EXCEPT !.busy = {"saving"}, !.msg = "none"]
      BY <2>2 DEF Asks, PageIs
    <3>2. /\ ui'.history = ui.history /\ ui'.msg # "ok" /\ DOMAIN ui' = DOMAIN ui
          /\ ui'.selected = ui.selected
      BY <1>3, <3>1
    <3>. QED BY <1>1, <1>2, <3>1, <3>2, ComposeAsked
  <2>. QED BY <1>7, <2>1, <2>2 DEF ClickSaveCompose
<1>8. CASE ComposeLoaded
  <2>1. PICK i \in DOMAIN net :
          /\ Arrived(i, "load") /\ HandledThen(i, <<>>)
          /\ PageIs(IF Answer(i).number = NoVersion THEN ui ELSE SelectCompose(Answer(i)))
    BY <1>8 DEF ComposeLoaded, Then, ThenAsks
  <2>2. net[i].by = "load" /\ net[i].state = "done" /\ Next1(i) /\ Removed(i) /\ srv' = srv
    BY <2>1 DEF Arrived, Removed, PageIs
  <2>3. Answer(i).number \in 0..Len(srv.versions)
    <3>1. PICK v : net[i].reply = <<v>> /\ v.number \in 0..Len(srv.versions)
      BY <1>3, <2>2 DEF ComposeRequest, Readings
    <3>. QED BY <3>1 DEF Answer
  <2>4. /\ ui'.history = ui.history /\ ui'.msg = ui.msg /\ DOMAIN ui' = DOMAIN ui
        /\ \/ ui'.selected = ui.selected
           \/ ui'.selected = Answer(i).number /\ ui'.selected # 0
    BY <1>3, <2>1 DEF PageIs, SelectCompose, NoVersion
  <2>5. ui'.selected \in 0..Len(srv.versions) /\ (ui.selected # 0 => ui'.selected # 0)
    BY <1>3, <2>3, <2>4 DEF SelectedThere
  <2>6. net[i].by \notin Readings /\ net[i].by # "save"
    BY <2>2 DEF Readings
  <2>. QED BY <1>1, <1>2, <2>2, <2>4, <2>5, <2>6, ComposeTaken
<1>9. CASE ComposeHistoryLoaded \/ SavedHistoryLoaded
  <2>1. PICK i \in DOMAIN net :
          /\ net[i].by \in Readings /\ net[i].state = "done" /\ Next1(i) /\ Removed(i) /\ srv' = srv
          /\ \/ ui' = [ui EXCEPT !.history = Answer(i)]
             \/ /\ ui' = [ui EXCEPT !.history = Answer(i), !.busy = {}, !.msg = "ok"]
                /\ net[i].by = "saveHistory"
    BY <1>9 DEF ComposeHistoryLoaded, SavedHistoryLoaded, Then, ThenAsks, Arrived, Removed,
                PageIs, Readings
  <2>2. /\ ui'.history = Answer(i) /\ ui'.selected = ui.selected /\ DOMAIN ui' = DOMAIN ui
        /\ ui'.msg = "ok" => ui.msg = "ok" \/ net[i].by = "saveHistory"
    BY <1>3, <2>1
  <2>3. net[i].reply = <<ui'.history>>
    <3>1. PICK h : net[i].reply = <<h>>
      BY <1>3, <2>1 DEF ComposeRequest, Readings
    <3>. QED BY <2>2, <3>1 DEF Answer
  <2>4. ui'.selected \in 0..Len(srv.versions) /\ net[i].by # "save"
    BY <1>3, <2>1, <2>2 DEF SelectedThere, Readings
  <2>. QED BY <1>1, <1>2, <2>1, <2>2, <2>3, <2>4, ComposeTaken
<1>10. CASE ComposeSaved
  <2>1. PICK i \in DOMAIN net, by \in Readings :
          /\ Arrived(i, "save") /\ HandledThen(i, <<Request(by, "composeHistory", NoArg)>>)
          /\ srv' = srv
          /\ \/ ui' = [ui EXCEPT !.selected = Answer(i)]
             \/ ui' = [ui EXCEPT !.selected = Answer(i), !.busy = {}, !.msg = "ok"]
    BY <1>10 DEF ComposeSaved, ThenAsks, PageIs, Readings
  <2>2. ui'.history = ui.history /\ ui'.selected = Answer(i) /\ DOMAIN ui' = DOMAIN ui
    BY <1>3, <2>1
  <2>. QED BY <1>1, <1>2, <2>1, <2>2, ComposeReads
<1>11. CASE ComposeSaveFails \/ DropError({"load", "loadHistory"})
  <2>1. PICK i \in DOMAIN net :
          /\ net[i].state = "error" /\ Next1(i) /\ Handled(i) /\ srv' = srv
          /\ ui' = ui \/ ui' = [ui EXCEPT !.busy = {}, !.msg = "err"]
    BY <1>11 DEF ComposeSaveFails, DropError, Catch, Failed, PageIs
  <2>2. net[i].by = "save" /\ Removed(i)
    BY <1>3, <2>1 DEF ComposeRequest, Removed
  <2>3. /\ ui'.history = ui.history /\ ui'.selected = ui.selected /\ DOMAIN ui' = DOMAIN ui
        /\ ui'.msg = "ok" => ui.msg = "ok"
    BY <1>3, <2>1
  <2>4. ui'.selected \in 0..Len(srv.versions) /\ net[i].by \notin Readings
    BY <1>3, <2>2, <2>3 DEF SelectedThere, Readings
  <2>. QED BY <1>1, <1>2, <2>1, <2>2, <2>3, <2>4, ComposeTaken
<1>12. CASE ServeSaveCompose
  <2>1. PICK i \in DOMAIN net :
          /\ Served(i, "save")
          /\ \/ Refuse(i) /\ NetOnly
             \/ /\ Reply(i, IF IsLatest(net[i].arg) THEN Len(srv.versions) ELSE Len(srv.versions) + 1)
                /\ ServerIs(IF IsLatest(net[i].arg) THEN srv
                            ELSE [versions |-> Append(srv.versions, net[i].arg)])
    BY <1>12 DEF ServeSaveCompose, Makes
  <2>2. net[i].by = "save" /\ net[i].state = "sent" /\ InTurn(i)
    BY <2>1 DEF Served
  <2>3. PICK S : srv.versions \in Seq(S)
    BY <1>3
  <2>. DEFINE vs == srv.versions
              ws == Append(vs, net[i].arg)
              n  == IF IsLatest(net[i].arg) THEN Len(vs) ELSE Len(vs) + 1
  <2>4. ws \in Seq(S \cup {net[i].arg}) /\ Len(ws) = Len(vs) + 1 /\ Len(vs) \in Nat
    BY <2>3
  <2>5. IsLatest(net[i].arg) => Len(vs) # 0
    BY <2>3 DEF IsLatest
  <2>. HIDE DEF ws
  <2>6. CASE Reply(i, n) /\ ServerIs(IF IsLatest(net[i].arg) THEN srv ELSE [versions |-> ws])
    <3>1. AnsweredAt(net, net', i, "done", <<n>>)
      BY <1>2, <2>6, ReplyAnswers
    <3>2. /\ net'[i].by = "save" /\ net'[i].state = "done" /\ net'[i].reply = <<n>>
      BY <2>2, <3>1 DEF AnsweredAt
    <3>3. /\ DOMAIN srv' = DOMAIN srv /\ Len(srv'.versions) = n
          /\ \E T : srv'.versions \in Seq(T)
      BY <1>3, <2>3, <2>4, <2>6 DEF ServerIs
    <3>4. n \in 1..n /\ Len(vs) <= n
      BY <2>4, <2>5
    <3>. HIDE DEF n
    <3>5. ComposeRequest(net'[i], Len(srv'.versions))
      BY <3>2, <3>3, <3>4 DEF ComposeRequest
    <3>6. ui' = ui /\ net[i].by \notin Readings
      BY <2>2, <2>6 DEF ServerIs, Readings
    <3>. QED BY <1>1, <1>2, <2>2, <2>6, <3>2, <3>3, <3>4, <3>5, <3>6, ComposeAnswered
  <2>. QED BY <1>5, <2>1, <2>2, <2>6 DEF ws
<1>13. CASE Tells("load", Version(Len(srv.versions)))
  <2>1. PICK i \in DOMAIN net : Served(i, "load") /\ Reply(i, Version(Len(srv.versions))) /\ NetOnly
    BY <1>13 DEF Tells, Finds
  <2>2. net[i].by = "load" /\ net[i].state = "sent" /\ InTurn(i) /\ net[i].call = "getCompose"
    BY <1>3, <2>1 DEF Served, ComposeRequest, Readings
  <2>. DEFINE v == Version(Len(srv.versions))
  <2>3. v.number = Len(srv.versions) /\ Len(srv.versions) \in Nat
    BY <1>3 DEF Version
  <2>. HIDE DEF v
  <2>4. AnsweredAt(net, net', i, "done", <<v>>)
    BY <1>2, <2>1, ReplyAnswers DEF v
  <2>5. /\ net'[i].by = "load" /\ net'[i].call = "getCompose" /\ net'[i].state = "done"
        /\ net'[i].reply = <<v>>
    BY <2>2, <2>4 DEF AnsweredAt
  <2>6. ComposeRequest(net'[i], Len(srv.versions))
    BY <2>3, <2>5 DEF ComposeRequest
  <2>7. srv' = srv /\ ui' = ui /\ net[i].by \notin Readings
    BY <2>1, <2>2 DEF NetOnly, Readings
  <2>. QED BY <1>1, <1>2, <2>1, <2>2, <2>6, <2>7, ComposeTold
<1>14. CASE \E by \in {"loadHistory", "saveHistory"} : Tells(by, srv.versions)
  <2>1. PICK i \in DOMAIN net : /\ net[i].by \in Readings /\ net[i].state = "sent" /\ InTurn(i)
                                /\ Reply(i, srv.versions) /\ NetOnly
    BY <1>14 DEF Tells, Finds, Served, Readings
  <2>2. net[i].call = "composeHistory" /\ net[i].arg = NoArg
    BY <1>3, <2>1 DEF ComposeRequest, Readings
  <2>3. AnsweredAt(net, net', i, "done", <<srv.versions>>)
    BY <1>2, <2>1, ReplyAnswers
  <2>4. /\ net'[i].by \in Readings /\ net'[i].call = "composeHistory" /\ net'[i].arg = NoArg
        /\ net'[i].state = "done" /\ net'[i].reply = <<srv.versions>>
    BY <2>1, <2>2, <2>3 DEF AnsweredAt
  <2>5. DOMAIN srv.versions = 1..Len(srv.versions) /\ Len(srv.versions) \in Nat
    BY <1>3
  <2>6. ComposeRequest(net'[i], Len(srv.versions))
    BY <2>4, <2>5 DEF ComposeRequest
  <2>7. srv' = srv /\ ui' = ui
    BY <2>1 DEF NetOnly
  <2>. QED BY <1>1, <1>2, <2>1, <2>4, <2>6, <2>7, ComposeTold
<1>15. CASE Forbid
  <2>1. PICK i \in DOMAIN net : /\ net[i].state = "sent" /\ InTurn(i) /\ ~Authorized(net[i].call)
                                /\ Refuse(i) /\ NetOnly
    BY <1>15 DEF Forbid
  <2>2. net[i].by = "save"
    BY <1>3, <1>4, <2>1 DEF ComposeRequest, Readings
  <2>. QED BY <1>5, <2>1, <2>2
<1>16. CASE Fault
  BY <1>16 DEF Fault
<1>. QED BY <1>6, <1>7, <1>8, <1>9, <1>10, <1>11, <1>12, <1>13, <1>14, <1>15, <1>16
         DEF ComposeNext

-----------------------------------------------------------------------------
(* Environment variables *)

\* A version of the variables as the server shows it.
IsVersion(r, sets) ==
  r.number = NoVersion \/ (r.number \in DOMAIN sets /\ r.set = Masked(sets[r.number]))

EnvRequest(x, sets) ==
  x.by \in {"load", "save", "restore"} /\ x.state = "done" =>
    \E r : x.reply = <<r>> /\ IsVersion(r, sets)

RowsTold ==
  ~ui.dirty => IsVersion([number |-> ui.version, set |-> ui.rows], srv.sets)

EnvInv ==
  page \in {"env", "envTab"} =>
    /\ DOMAIN ui = {"busy", "rows", "version", "dirty", "modal", "picked", "history"}
    /\ DOMAIN srv = {"sets"} /\ \E S : srv.sets \in Seq(S)
    /\ \A k \in DOMAIN net : EnvRequest(net[k], srv.sets)
    /\ RowsTold

\* Versions are only added.
Grows(s, t) == DOMAIN s \subseteq DOMAIN t /\ \A n \in DOMAIN s : t[n] = s[n]

\* What there is to answer with was there before.
NoNews == \A k \in DOMAIN net' : net'[k].state = "sent" \/ \E j \in DOMAIN net : net'[k] = net[j]

LEMMA WithoutNews ==
  ASSUME AreRequests(net)
  PROVE  /\ UNCHANGED net => NoNews
         /\ \A by, call, arg : Send(Request(by, call, arg)) => NoNews
         /\ \A i \in DOMAIN net : Removed(i) => NoNews
<1>1. UNCHANGED net => NoNews
  BY DEF NoNews
<1>2. ASSUME NEW by, NEW call, NEW arg, Send(Request(by, call, arg))
      PROVE  NoNews
  <2>. DEFINE x == Request(by, call, arg)
              r == Extended(net, x)
  <2>1. Added(net, r, x)
    BY AsksAdds
  <2>2. net' = r
    BY <1>2 DEF Send, Sends, Extended
  <2>. HIDE DEF x, r
  <2>3. \A k \in DOMAIN r : (k \in DOMAIN net /\ r[k] = net[k]) \/ r[k].state = "sent"
    BY <2>1 DEF Added
  <2>. QED BY <2>2, <2>3 DEF NoNews
<1>3. ASSUME NEW i \in DOMAIN net, Removed(i)
      PROVE  NoNews
  <2>1. \A k \in DOMAIN net' : \E j \in DOMAIN net : net'[k] = net[j]
    BY <1>3, TakesOne DEF Removed, Handled, HandledThen
  <2>. QED BY <2>1 DEF NoNews
<1>. QED BY <1>1, <1>2, <1>3

\* The page moves: it asks, or it takes an answer, or neither.
LEMMA EnvSteps ==
  ASSUME EnvInv, page \in {"env", "envTab"}, UNCHANGED <<page, srv>>, NoNews,
         DOMAIN ui' = DOMAIN ui, RowsTold'
  PROVE  EnvInv'
<1>1. \A k \in DOMAIN net' : EnvRequest(net'[k], srv.sets)
  BY DEF EnvInv, NoNews, EnvRequest
<1>. QED BY <1>1 DEF EnvInv

\* The page asks, or it is edited.
LEMMA EnvKeepsRows ==
  ASSUME EnvInv, page \in {"env", "envTab"}, UNCHANGED <<page, srv>>, NoNews,
         DOMAIN ui' = DOMAIN ui,
         ui'.dirty \/ (ui'.dirty = ui.dirty /\ ui'.rows = ui.rows /\ ui'.version = ui.version)
  PROVE  EnvInv'
<1>1. RowsTold'
  BY DEF EnvInv, RowsTold
<1>. QED BY <1>1, EnvSteps

\* The page shows what it was answered.
LEMMA EnvShowsReply ==
  ASSUME EnvInv, page \in {"env", "envTab"}, AreRequests(net), UNCHANGED <<page, srv>>,
         NEW i \in DOMAIN net, Removed(i), net[i].by \in {"load", "save", "restore"},
         net[i].state = "done", DOMAIN ui' = DOMAIN ui,
         ui'.rows = Answer(i).set, ui'.version = Answer(i).number
  PROVE  EnvInv'
<1>1. PICK r : net[i].reply = <<r>> /\ IsVersion(r, srv.sets)
  BY DEF EnvInv, EnvRequest
<1>2. Answer(i) = r
  BY <1>1 DEF Answer
<1>3. RowsTold'
  BY <1>1, <1>2 DEF RowsTold, IsVersion
<1>. QED BY <1>3, EnvSteps, WithoutNews

\* The server answers, and may have added a version.
LEMMA EnvAnswered ==
  ASSUME EnvInv, page \in {"env", "envTab"}, UNCHANGED <<page, ui>>,
         NEW i \in DOMAIN net, NEW st, NEW v, AnsweredAt(net, net', i, st, v),
         DOMAIN srv' = DOMAIN srv, \E S : srv'.sets \in Seq(S), Grows(srv.sets, srv'.sets),
         st = "done" /\ net[i].by \in {"load", "save", "restore"}
           => \E r : v = <<r>> /\ IsVersion(r, srv'.sets)
  PROVE  EnvInv'
<1>1. /\ \A k \in DOMAIN net : EnvRequest(net[k], srv.sets)
      /\ RowsTold
  BY DEF EnvInv
<1>2. \A r : IsVersion(r, srv.sets) => IsVersion(r, srv'.sets)
  BY DEF IsVersion, Grows
<1>3. \A k \in DOMAIN net' : EnvRequest(net'[k], srv'.sets)
  <2>. SUFFICES ASSUME NEW k \in DOMAIN net' PROVE EnvRequest(net'[k], srv'.sets)
    OBVIOUS
  <2>1. CASE k = i
    BY <2>1 DEF AnsweredAt, EnvRequest
  <2>2. CASE k # i
    <3>1. k \in DOMAIN net /\ net'[k] = net[k]
      BY <2>2 DEF AnsweredAt
    <3>2. EnvRequest(net[k], srv.sets)
      BY <1>1, <3>1
    <3>. QED BY <1>2, <3>1, <3>2 DEF EnvRequest
  <2>. QED BY <2>1, <2>2
<1>4. RowsTold'
  BY <1>1, <1>2 DEF RowsTold
<1>. QED BY <1>3, <1>4 DEF EnvInv

\* The server answers without a change.
LEMMA EnvTells ==
  ASSUME EnvInv, page \in {"env", "envTab"}, UNCHANGED <<page, ui, srv>>,
         NEW i \in DOMAIN net, NEW st, NEW v, AnsweredAt(net, net', i, st, v),
         st = "done" /\ net[i].by \in {"load", "save", "restore"}
           => \E r : v = <<r>> /\ IsVersion(r, srv.sets)
  PROVE  EnvInv'
<1>1. DOMAIN srv' = DOMAIN srv /\ (\E S : srv'.sets \in Seq(S)) /\ Grows(srv.sets, srv'.sets)
  BY DEF EnvInv, Grows
<1>. QED BY <1>1, EnvAnswered

\* A version is appended.
LEMMA EnvAppended ==
  ASSUME NEW S, NEW s \in Seq(S), NEW x
  PROVE  /\ Append(s, x) \in Seq(S \cup {x}) /\ Grows(s, Append(s, x))
         /\ Len(s) + 1 \in DOMAIN Append(s, x) /\ Append(s, x)[Len(s) + 1] = x
         /\ Len(s) \in Nat
BY DEF Grows

LEMMA EnvKept ==
  ASSUME EnvInv, FlagsInv, EnvNext
  PROVE  EnvInv'
<1>1. page \in {"env", "envTab"} /\ page' = page
  BY EnvStays DEF EnvNext, session
<1>2. AreRequests(net)
  BY <1>1 DEF FlagsInv, DeployPages
<1>3. /\ DOMAIN ui = {"busy", "rows", "version", "dirty", "modal", "picked", "history"}
      /\ DOMAIN srv = {"sets"}
      /\ \A k \in DOMAIN net : EnvRequest(net[k], srv.sets)
      /\ RowsTold
  BY <1>1 DEF EnvInv
<1>4. PICK S : srv.sets \in Seq(S)
  BY <1>1 DEF EnvInv
<1>5. ASSUME NEW i \in DOMAIN net, Refuse(i), NetOnly
      PROVE  EnvInv'
  <2>1. AnsweredAt(net, net', i, "error", <<>>)
    BY <1>2, <1>5, RefuseAnswers
  <2>. QED BY <1>1, <1>5, <2>1, EnvTells DEF NetOnly
<1>6. CASE EditVar \/ RenameVar \/ AddVar \/ RemoveVar \/ PasteVars \/ ImportVars
  <2>1. UNCHANGED <<net, srv>> /\ DOMAIN ui' = DOMAIN ui /\ ui'.dirty
    <3>1. \A rows : Mutate(rows) => UNCHANGED <<net, srv>> /\ DOMAIN ui' = DOMAIN ui /\ ui'.dirty
      BY <1>3 DEF Mutate, Becomes, PageIs
    <3>2. CASE EditVar \/ RenameVar \/ AddVar \/ RemoveVar \/ PasteVars
      BY <3>1, <3>2 DEF EditVar, RenameVar, AddVar, RemoveVar, PasteVars
    <3>3. CASE ImportVars
      BY <1>3, <3>3 DEF ImportVars, Becomes, PageIs
    <3>. QED BY <1>6, <3>2, <3>3
  <2>. QED BY <1>1, <1>2, <2>1, EnvKeepsRows, WithoutNews
<1>7. CASE OpenImport \/ CloseModal \/ PickEnvVersion
  <2>1. /\ UNCHANGED <<net, srv>> /\ DOMAIN ui' = DOMAIN ui
        /\ ui'.dirty = ui.dirty /\ ui'.rows = ui.rows /\ ui'.version = ui.version
    BY <1>3, <1>7 DEF OpenImport, CloseModal, PickEnvVersion, Becomes, PageIs
  <2>. QED BY <1>1, <1>2, <2>1, EnvKeepsRows, WithoutNews
<1>8. CASE ClickSaveEnv \/ OpenHistory \/ ClickRestore
  <2>1. /\ \E by, call, arg : Send(Request(by, call, arg))
        /\ UNCHANGED srv /\ DOMAIN ui' = DOMAIN ui
        /\ ui'.dirty = ui.dirty /\ ui'.rows = ui.rows /\ ui'.version = ui.version
    BY <1>3, <1>8 DEF ClickSaveEnv, OpenHistory, ClickRestore, Asks, PageIs
  <2>. QED BY <1>1, <1>2, <2>1, EnvKeepsRows, WithoutNews
<1>9. CASE \/ EnvLoaded \/ EnvSaved
           \/ Then("restore", LAMBDA r : [ShowEnv(r) EXCEPT !.modal = "none",
                                                   !.busy = @ \ {"loading", "restoring"}])
  <2>1. PICK i \in DOMAIN net :
          /\ net[i].by \in {"load", "save", "restore"} /\ net[i].state = "done" /\ Removed(i)
          /\ UNCHANGED srv
          /\ \/ ui' = ShowEnv(Answer(i))
             \/ ui' = [ShowEnv(Answer(i)) EXCEPT !.busy = @ \ {"saving"}]
             \/ ui' = [ShowEnv(Answer(i)) EXCEPT !.modal = "none",
                                                 !.busy = @ \ {"loading", "restoring"}]
    BY <1>9 DEF EnvLoaded, EnvSaved, Then, ThenAsks, Arrived, PageIs, Removed
  <2>2. DOMAIN ui' = DOMAIN ui /\ ui'.rows = Answer(i).set /\ ui'.version = Answer(i).number
    BY <1>3, <2>1 DEF ShowEnv
  <2>. QED BY <1>1, <1>2, <2>1, <2>2, EnvShowsReply
<1>10. CASE \/ EnvSaveFails \/ EnvHistoryLoaded \/ DropError({"load"})
            \/ Catch("restore", [ui EXCEPT !.busy = @ \ {"restoring"}])
  <2>1. /\ \E i \in DOMAIN net : Removed(i)
        /\ UNCHANGED srv /\ DOMAIN ui' = DOMAIN ui
        /\ ui'.dirty = ui.dirty /\ ui'.rows = ui.rows /\ ui'.version = ui.version
    <3>1. CASE \/ EnvSaveFails \/ DropError({"load"})
               \/ Catch("restore", [ui EXCEPT !.busy = @ \ {"restoring"}])
      BY <1>3, <3>1 DEF EnvSaveFails, DropError, Catch, PageIs, Removed
    <3>2. CASE EnvHistoryLoaded
      BY <1>3, <3>2 DEF EnvHistoryLoaded, Then, ThenAsks, Catch, PageIs, Removed
    <3>. QED BY <1>10, <3>1, <3>2
  <2>. QED BY <1>1, <1>2, <2>1, EnvKeepsRows, WithoutNews
<1>11. CASE Tells("load", EnvReply(Len(srv.sets)))
  <2>. DEFINE r == EnvReply(Len(srv.sets))
  <2>1. PICK i \in DOMAIN net : Reply(i, r) /\ NetOnly
    BY <1>11 DEF Tells, Finds
  <2>2. IsVersion(r, srv.sets)
    BY <1>4 DEF EnvReply, IsVersion, NoVersion
  <2>. HIDE DEF r
  <2>3. AnsweredAt(net, net', i, "done", <<r>>)
    BY <1>2, <2>1, ReplyAnswers
  <2>. QED BY <1>1, <2>1, <2>2, <2>3, EnvTells DEF NetOnly
<1>12. CASE Tells("loadHistory", Len(srv.sets))
  <2>. DEFINE r == Len(srv.sets)
  <2>1. PICK i \in DOMAIN net : Served(i, "loadHistory") /\ Reply(i, r) /\ NetOnly
    BY <1>12 DEF Tells, Finds
  <2>. HIDE DEF r
  <2>2. AnsweredAt(net, net', i, "done", <<r>>) /\ net[i].by = "loadHistory"
    BY <1>2, <2>1, ReplyAnswers DEF Served
  <2>. QED BY <1>1, <2>1, <2>2, EnvTells DEF NetOnly
<1>13. CASE ServeRestoreEnv
  <2>1. PICK i \in DOMAIN net :
          \/ Refuse(i) /\ NetOnly
          \/ /\ Reply(i, [number |-> Len(srv.sets) + 1, set |-> Masked(srv.sets[net[i].arg])])
             /\ ServerIs([sets |-> Append(srv.sets, srv.sets[net[i].arg])])
    BY <1>13 DEF ServeRestoreEnv, Makes
  <2>. DEFINE x == srv.sets[net[i].arg]
              t == Append(srv.sets, x)
              r == [number |-> Len(srv.sets) + 1, set |-> Masked(x)]
  <2>2. /\ t \in Seq(S \cup {x}) /\ Grows(srv.sets, t) /\ Len(srv.sets) + 1 \in DOMAIN t
        /\ t[Len(srv.sets) + 1] = x
    BY <1>4, EnvAppended
  <2>. HIDE DEF t
  <2>3. IsVersion(r, t)
    BY <2>2 DEF IsVersion
  <2>. HIDE DEF r
  <2>4. CASE Reply(i, r) /\ ServerIs([sets |-> t])
    <3>1. AnsweredAt(net, net', i, "done", <<r>>)
      BY <1>2, <2>4, ReplyAnswers
    <3>2. srv' = [sets |-> t] /\ UNCHANGED ui
      BY <2>4 DEF ServerIs
    <3>3. /\ DOMAIN srv' = DOMAIN srv /\ srv'.sets = t
          /\ \E T : srv'.sets \in Seq(T)
      BY <1>3, <2>2, <3>2
    <3>. QED BY <1>1, <2>2, <2>3, <3>1, <3>2, <3>3, EnvAnswered
  <2>. QED BY <1>5, <2>1, <2>4 DEF r, t
<1>14. CASE ServeSaveEnv
  <2>1. PICK i \in DOMAIN net : /\ Served(i, "save")
                                /\ LET set == Unmasked(net[i].arg)
                                       n   == IF set = LatestEnv THEN Len(srv.sets)
                                                                 ELSE Len(srv.sets) + 1
                                   IN \/ Refuse(i) /\ NetOnly
                                      \/ /\ Reply(i, [number |-> n, set |-> Masked(set)])
                                         /\ IF n = Len(srv.sets)
                                            THEN UNCHANGED srv
                                            ELSE srv' = [sets |-> Append(srv.sets, set)]
                                         /\ UNCHANGED <<session, ui>>
    BY <1>14 DEF ServeSaveEnv
  <2>. DEFINE x == Unmasked(net[i].arg)
              n == Len(srv.sets)
              t == Append(srv.sets, x)
              r == [number |-> n, set |-> Masked(x)]
              w == [number |-> n + 1, set |-> Masked(x)]
  <2>2. /\ t \in Seq(S \cup {x}) /\ Grows(srv.sets, t) /\ n + 1 \in DOMAIN t /\ t[n + 1] = x
        /\ n \in Nat
    BY <1>4, EnvAppended
  <2>. HIDE DEF x, t
  <2>3. x = LatestEnv => IsVersion(r, srv.sets)
    <3>1. CASE n = 0
      BY <3>1 DEF IsVersion, NoVersion
    <3>2. CASE n # 0
      <4>1. srv.sets # <<>> /\ n \in DOMAIN srv.sets
        BY <1>4, <3>2
      <4>2. LatestEnv = srv.sets[n]
        BY <4>1 DEF LatestEnv, Last
      <4>. QED BY <4>1, <4>2 DEF IsVersion
    <3>. QED BY <3>1, <3>2
  <2>4. IsVersion(w, t)
    BY <2>2 DEF IsVersion
  <2>. HIDE DEF n, r, w
  <2>5. CASE Reply(i, r) /\ UNCHANGED <<srv, ui>> /\ x = LatestEnv
    <3>1. AnsweredAt(net, net', i, "done", <<r>>)
      BY <1>2, <2>5, ReplyAnswers
    <3>. QED BY <1>1, <2>3, <2>5, <3>1, EnvTells
  <2>6. CASE Reply(i, w) /\ srv' = [sets |-> t] /\ UNCHANGED ui
    <3>1. AnsweredAt(net, net', i, "done", <<w>>)
      BY <1>2, <2>6, ReplyAnswers
    <3>2. /\ DOMAIN srv' = DOMAIN srv /\ srv'.sets = t
          /\ \E T : srv'.sets \in Seq(T)
      BY <1>3, <2>2, <2>6
    <3>. QED BY <1>1, <2>2, <2>4, <2>6, <3>1, <3>2, EnvAnswered
  <2>7. \/ Refuse(i) /\ NetOnly
        \/ x = LatestEnv /\ Reply(i, r) /\ UNCHANGED <<srv, ui>>
        \/ Reply(i, w) /\ srv' = [sets |-> t] /\ UNCHANGED ui
    <3>1. n + 1 # n
      BY <2>2
    <3>. QED BY <2>1, <3>1 DEF n, r, w, t, x
  <2>. QED BY <1>5, <2>5, <2>6, <2>7
<1>15. CASE Forbid \/ Fault
  BY <1>5, <1>15 DEF Forbid, Fault
<1>. QED BY <1>6, <1>7, <1>8, <1>9, <1>10, <1>11, <1>12, <1>13, <1>14, <1>15
         DEF EnvNext, EnvRestored

-----------------------------------------------------------------------------
(* What the editors show *)

LEMMA EditorsStart == ASSUME ProjectsInit PROVE ComposeInv /\ EnvInv
<1>1. ComposeInv
  <2>. SUFFICES ASSUME page \in {"compose", "composeTab"}, line = "orderly"
                PROVE  ComposeInv
    BY DEF ComposeInv
  <2>1. ComposeInit
    BY OpensOn
  <2>. DEFINE x == Request("load", "getCompose", NoArg)
              y == Request("loadHistory", "composeHistory", NoArg)
  <2>2. /\ x.by = "load" /\ x.call = "getCompose" /\ x.state = "sent"
        /\ y.by = "loadHistory" /\ y.call = "composeHistory" /\ y.state = "sent" /\ y.arg = NoArg
    BY DEF Request
  <2>3. net = <<x, y>>
    BY <2>1 DEF ComposeInit
  <2>. HIDE DEF x, y
  <2>4. /\ DOMAIN ui = {"busy", "text", "history", "selected", "msg"} /\ DOMAIN srv = {"versions"}
        /\ ui.history = <<>> /\ ui.selected = 0 /\ ui.msg = "none"
        /\ srv.versions = <<>> \/ \E a \in Texts : srv.versions = <<a>>
    BY <2>1 DEF ComposeInit, NoVersion
  <2>5. \E S : srv.versions \in Seq(S)
    <3>1. <<>> \in Seq(Texts) /\ \A a \in Texts : <<a>> \in Seq(Texts)
      OBVIOUS
    <3>. QED BY <2>4, <3>1
  <2>6. /\ \A k \in DOMAIN net : ComposeRequest(net[k], Len(srv.versions))
        /\ \A k \in DOMAIN net : net[k].state = "sent"
    BY <2>2, <2>3 DEF ComposeRequest, Readings
  <2>7. HistoryComes
    BY <2>2, <2>3 DEF HistoryComes, UpToDate, LastOf, Readings
  <2>8. SelectedThere
    <3>1. ~IsReading
      BY <2>2, <2>3 DEF IsReading
    <3>2. Len(srv.versions) \in Nat
      BY <2>5
    <3>. QED BY <2>4, <3>1, <3>2 DEF SelectedThere
  <2>. QED BY <2>4, <2>5, <2>6, <2>7, <2>8 DEF ComposeInv, AnsweredFirst
<1>2. EnvInv
  <2>. SUFFICES ASSUME page \in {"env", "envTab"} PROVE EnvInv
    BY DEF EnvInv
  <2>1. EnvInit
    BY OpensOn
  <2>2. PICK v : srv = [sets |-> <<v>>]
    BY <2>1 DEF EnvInit
  <2>3. /\ DOMAIN ui = {"busy", "rows", "version", "dirty", "modal", "picked", "history"}
        /\ ui.version = NoVersion
    BY <2>1 DEF EnvInit
  <2>4. \A k \in DOMAIN net : net[k].state = "sent"
    BY <2>1 DEF EnvInit, Request
  <2>5. DOMAIN srv = {"sets"} /\ \E S : srv.sets \in Seq(S)
    <3>1. <<v>> \in Seq({v})
      OBVIOUS
    <3>. QED BY <2>2, <3>1
  <2>. QED BY <2>3, <2>4, <2>5 DEF EnvInv, EnvRequest, RowsTold, IsVersion
<1>. QED BY <1>1, <1>2

LEMMA EditorsMove ==
  ASSUME ComposeInv, EnvInv, FlagsInv, [ProjectsNext]_webVars
  PROVE  ComposeInv' /\ EnvInv'
<1>1. CASE UNCHANGED webVars
  BY <1>1 DEF webVars, session, ComposeInv, EnvInv, AnsweredFirst, HistoryComes, SaveTold,
              SelectedThere, IsReading, RowsTold
<1>2. CASE ProjectsNext
  <2>1. page' = page
    BY OnePage
  <2>2. ComposeInv'
    <3>1. CASE page \in {"compose", "composeTab"}
      BY <1>2, <3>1, OnPage, ComposeKept
    <3>. QED BY <2>1, <3>1 DEF ComposeInv
  <2>3. EnvInv'
    <3>1. CASE page \in {"env", "envTab"}
      BY <1>2, <3>1, OnPage, EnvKept
    <3>. QED BY <2>1, <3>1 DEF EnvInv
  <2>. QED BY <2>2, <2>3
<1>. QED BY <1>1, <1>2

\* An environment page that does not say "unsaved changes" shows the version
\* whose number it gives, whatever was saved, restored or lost meanwhile; and a
\* compose page that says "Saved" has what it saved selected and in its history,
\* the history having been read behind the save.
THEOREM EditorsCorrect == ProjectsSpec => []EditorsShowSaved
<1>1. ComposeInv /\ EnvInv => EditorsShowSaved
  <2>. SUFFICES ASSUME ComposeInv, EnvInv PROVE EditorsShowSaved
    OBVIOUS
  <2>1. ASSUME page = "env", ~ui.dirty, ui.version # NoVersion
        PROVE  ui.rows = Masked(srv.sets[ui.version])
    BY <2>1 DEF EnvInv, RowsTold, IsVersion
  <2>2. ASSUME page \in {"compose", "composeTab"}, Quiet, ui.msg = "ok"
        PROVE  ui.history = srv.versions /\ ui.selected \in DOMAIN srv.versions
    <3>1. /\ HistoryComes /\ SelectedThere /\ \E S : srv.versions \in Seq(S)
          /\ ~SaveTold
      BY <2>2 DEF Quiet, ComposeInv, SaveTold
    <3>2. <<ui.history>> = <<srv.versions>>
      BY <2>2, <3>1, UpToDateNow DEF Quiet, HistoryComes
    <3>3. ui.selected \in 1..Len(srv.versions) /\ DOMAIN srv.versions = 1..Len(srv.versions)
      BY <2>2, <3>1 DEF SelectedThere
    <3>. QED BY <3>2, <3>3
  <2>. QED BY <2>1, <2>2 DEF EditorsShowSaved
<1>2. ProjectsInit => ComposeInv /\ EnvInv
  BY EditorsStart
<1>3. (ComposeInv /\ EnvInv) /\ FlagsInv /\ [ProjectsNext]_webVars => (ComposeInv /\ EnvInv)'
  BY EditorsMove
<1>. QED BY <1>1, <1>2, <1>3, FlagsInvHolds, PTL DEF ProjectsSpec

-----------------------------------------------------------------------------
(* The log of a container *)

\* The last lines of the first n.
IsWindow(q, n) == \A i \in DOMAIN q : q[i] = n - Len(q) + i

WindowInv ==
  page = "logs" =>
    /\ DOMAIN ui = {"busy", "lines", "open", "es"} /\ DOMAIN srv = {"made", "sent"}
    /\ srv.made \in Nat /\ srv.sent \in Nat
    /\ ui.lines \in Seq(Nat) /\ Len(ui.lines) <= LogKeep
    /\ ui.es = "open" => IsWindow(ui.lines, srv.sent)

\* One more line, for which the first one makes room.
LEMMA WindowMoves ==
  ASSUME NEW q \in Seq(Nat), NEW n \in Nat, NEW keep \in Nat \ {0}, Len(q) <= keep,
         IsWindow(q, n), NEW r, r = Append(IF Len(q) < keep THEN q ELSE Tail(q), n + 1)
  PROVE  r \in Seq(Nat) /\ Len(r) <= keep /\ IsWindow(r, n + 1)
<1>. DEFINE p == IF Len(q) < keep THEN q ELSE Tail(q)
<1>1. p \in Seq(Nat) /\ Len(p) < keep /\ IsWindow(p, n)
  <2>1. CASE Len(q) < keep
    BY <2>1
  <2>2. CASE ~(Len(q) < keep)
    <3>1. q # <<>> /\ Len(q) = keep
      BY <2>2
    <3>2. /\ Tail(q) \in Seq(Nat) /\ Len(Tail(q)) = Len(q) - 1
          /\ \A i \in 1..Len(q) - 1 : Tail(q)[i] = q[i + 1]
      BY <3>1
    <3>3. \A i \in 1..Len(q) - 1 : q[i + 1] = n - Len(q) + (i + 1)
      BY DEF IsWindow
    <3>4. \A i \in 1..Len(q) - 1 : Tail(q)[i] = n - (Len(q) - 1) + i
      BY <3>2, <3>3
    <3>. QED BY <2>2, <3>1, <3>2, <3>4 DEF IsWindow
  <2>. QED BY <2>1, <2>2
<1>. HIDE DEF p
<1>2. /\ Append(p, n + 1) \in Seq(Nat) /\ Len(Append(p, n + 1)) = Len(p) + 1
      /\ \A i \in 1..Len(p) : Append(p, n + 1)[i] = p[i]
      /\ Append(p, n + 1)[Len(p) + 1] = n + 1
  BY <1>1
<1>3. IsWindow(Append(p, n + 1), n + 1)
  <2>. SUFFICES ASSUME NEW i \in 1..Len(p) + 1
                PROVE  Append(p, n + 1)[i] = (n + 1) - (Len(p) + 1) + i
    BY <1>1, <1>2 DEF IsWindow
  <2>1. CASE i = Len(p) + 1
    BY <1>1, <1>2, <2>1
  <2>2. CASE i # Len(p) + 1
    <3>1. i \in 1..Len(p)
      BY <1>1, <2>2
    <3>2. p[i] = n - Len(p) + i
      BY <1>1, <3>1 DEF IsWindow
    <3>. QED BY <1>1, <1>2, <3>1, <3>2
  <2>. QED BY <2>1, <2>2
<1>. QED BY <1>1, <1>2, <1>3 DEF p

LEMMA WindowStarts == ASSUME ProjectsInit PROVE WindowInv
<1>. SUFFICES ASSUME page = "logs" PROVE WindowInv
  BY DEF WindowInv
<1>1. LogsInit
  BY OpensOn
<1>. QED BY <1>1, ProjectAssumption DEF LogsInit, WindowInv

LEMMA WindowKept ==
  ASSUME WindowInv, [ProjectsNext]_webVars
  PROVE  WindowInv'
<1>1. page' = page
  BY OnePage
<1>. SUFFICES ASSUME page = "logs" PROVE WindowInv'
  BY <1>1 DEF WindowInv
<1>2. /\ DOMAIN ui = {"busy", "lines", "open", "es"} /\ DOMAIN srv = {"made", "sent"}
      /\ srv.made \in Nat /\ srv.sent \in Nat
      /\ ui.lines \in Seq(Nat) /\ Len(ui.lines) <= LogKeep
      /\ ui.es = "open" => IsWindow(ui.lines, srv.sent)
  BY DEF WindowInv
<1>3. CASE OpenLog
  <2>1. /\ ui'.lines = <<>> /\ DOMAIN ui' = DOMAIN ui /\ DOMAIN srv' = DOMAIN srv
        /\ srv'.made = srv.made
        /\ srv'.sent = IF srv.made < LogTail THEN 0 ELSE srv.made - LogTail
    BY <1>2, <1>3 DEF OpenLog
  <2>. QED BY <1>1, <1>2, <2>1, ProjectAssumption DEF WindowInv, IsWindow
<1>4. CASE CloseLog \/ LogError
  <2>1. /\ ui'.lines = <<>> \/ ui'.lines = ui.lines
        /\ ui'.es = "closed" /\ DOMAIN ui' = DOMAIN ui /\ srv' = srv
    BY <1>2, <1>4 DEF CloseLog, LogError, Becomes, PageIs
  <2>2. ui'.lines \in Seq(Nat) /\ Len(ui'.lines) <= LogKeep
    <3>1. <<>> \in Seq(Nat) /\ Len(<<>>) <= LogKeep
      BY ProjectAssumption
    <3>. QED BY <1>2, <2>1, <3>1
  <2>. QED BY <1>1, <1>2, <2>1, <2>2 DEF WindowInv
<1>5. CASE ContainerLogs
  <2>1. srv'.made = srv.made + 1 /\ srv'.sent = srv.sent /\ DOMAIN srv' = DOMAIN srv /\ ui' = ui
    BY <1>2, <1>5 DEF ContainerLogs, Elsewhere, ServerIs
  <2>. QED BY <1>1, <1>2, <2>1 DEF WindowInv
<1>6. CASE LogMessage
  <2>1. /\ srv'.sent = srv.sent + 1 /\ srv'.made = srv.made /\ DOMAIN srv' = DOMAIN srv
        /\ DOMAIN ui' = DOMAIN ui /\ ui'.es = ui.es /\ ui.es = "open"
        /\ ui'.lines = Append(IF Len(ui.lines) < LogKeep THEN ui.lines ELSE Tail(ui.lines),
                              srv.sent + 1)
    BY <1>2, <1>6 DEF LogMessage
  <2>2. /\ ui'.lines \in Seq(Nat) /\ Len(ui'.lines) <= LogKeep
        /\ IsWindow(ui'.lines, srv.sent + 1)
    BY <1>2, <2>1, WindowMoves, ProjectAssumption
  <2>. QED BY <1>1, <1>2, <2>1, <2>2 DEF WindowInv
<1>7. CASE UNCHANGED webVars
  BY <1>7 DEF webVars, WindowInv
<1>. QED BY <1>3, <1>4, <1>5, <1>6, <1>7, OnPage DEF LogsNext

-----------------------------------------------------------------------------
(* The projects of the dashboard *)

Refreshes == {"syncAll", "list"}
Erasures  == {"delete"}

AllProjects == 1..MaxProjects

ProjectsRequest(x) ==
  /\ x.by \in Refreshes /\ x.state = "done" => \E l : x.reply = <<l>> /\ l \subseteq AllProjects
  /\ x.by = "delete" /\ x.state = "done" => x.reply = <<x.arg>>

\* The search leaves some of the list, whatever is lost.
MatchInv ==
  page = "dashboard" =>
    /\ DOMAIN ui = {"busy", "list", "match", "at", "asks"} /\ DOMAIN srv = {"projects"}
    /\ srv.projects \subseteq AllProjects /\ ui.list \subseteq AllProjects
    /\ ui.match \subseteq ui.list /\ ui.at \in Nat
    /\ \A k \in DOMAIN net : ProjectsRequest(net[k])

\* What a page shows of n elements, s pages before it.
LEMMA PageHasSome ==
  ASSUME NEW n \in Nat \ {0}, NEW per \in Nat \ {0}, NEW s \in Nat, s <= (n - 1) \div per
  PROVE  n - s * per > 0
<1>. DEFINE d == (n - 1) \div per
<1>1. d \in Nat /\ d * per <= n - 1
  OBVIOUS
<1>. HIDE DEF d
<1>2. s * per <= d * per
  BY <1>1 DEF d
<1>3. s * per \in Nat /\ d * per \in Nat
  BY <1>1
<1>. QED BY <1>1, <1>2, <1>3

LEMMA SwapHasNoNews ==
  ASSUME AreRequests(net), NEW i \in DOMAIN net, NEW by, NEW call, NEW arg,
         HandledThen(i, <<Request(by, call, arg)>>)
  PROVE  NoNews
<1>. DEFINE q == RemoveAt(net, i)
            x == Request(by, call, arg)
            r == Extended(q, x)
<1>1. AreRequests(q) /\ \A k \in DOMAIN q : \E j \in DOMAIN net : q[k] = net[j]
  BY TakesOne
<1>2. net' = r
  BY DEF HandledThen, Extended
<1>. HIDE DEF q
<1>3. Added(q, r, x)
  BY <1>1, AsksAdds
<1>. HIDE DEF x, r
<1>4. \A k \in DOMAIN r : (k \in DOMAIN q /\ r[k] = q[k]) \/ r[k].state = "sent"
  BY <1>3 DEF Added
<1>. QED BY <1>1, <1>2, <1>4 DEF NoNews

LEMMA MatchSteps ==
  ASSUME MatchInv, page = "dashboard", UNCHANGED <<page, srv>>, NoNews, DOMAIN ui' = DOMAIN ui,
         ui'.list \subseteq AllProjects, ui'.match \subseteq ui'.list, ui'.at \in Nat
  PROVE  MatchInv'
<1>1. \A k \in DOMAIN net' : ProjectsRequest(net'[k])
  BY DEF MatchInv, NoNews, ProjectsRequest
<1>. QED BY <1>1 DEF MatchInv

LEMMA MatchAnswered ==
  ASSUME MatchInv, page = "dashboard", UNCHANGED <<page, ui>>,
         NEW i \in DOMAIN net, NEW st, NEW v, AnsweredAt(net, net', i, st, v),
         DOMAIN srv' = DOMAIN srv, srv'.projects \subseteq srv.projects, ProjectsRequest(net'[i])
  PROVE  MatchInv'
<1>1. \A k \in DOMAIN net' : ProjectsRequest(net'[k])
  BY DEF MatchInv, AnsweredAt
<1>. QED BY <1>1 DEF MatchInv

\* On a line in order the sync never fails, and the list is that of the server
\* once what was answered is taken.
DashboardRequest(x) ==
  \/ x.by = "syncAll" /\ x.call = "syncAllProjects" /\ x.state # "error"
  \/ x.by = "delete"

DashboardLoading == \E k \in DOMAIN net : net[k].by = "syncAll" /\ net[k].state = "sent"

DashboardShown ==
  \A t : t \in srv.projects <=> WillShow(net, ui.list, t, Refreshes, {}, Erasures)

DashboardInv ==
  page = "dashboard" /\ line = "orderly" =>
    /\ AnsweredFirst(net) /\ \A k \in DOMAIN net : DashboardRequest(net[k])
    /\ DashboardLoading \/ DashboardShown

\* A project is to be deleted: nothing moves yet.
LEMMA DashboardAsked ==
  ASSUME DashboardInv, AreRequests(net), UNCHANGED <<page, line, srv>>, ui'.list = ui.list,
         NEW call, NEW arg, Send(Request("delete", call, arg))
  PROVE  DashboardInv'
<1>. SUFFICES ASSUME page = "dashboard", line = "orderly" PROVE DashboardInv'
  BY DEF DashboardInv
<1>. DEFINE x == Request("delete", call, arg)
<1>1. /\ AnsweredFirst(net) /\ \A k \in DOMAIN net : DashboardRequest(net[k])
      /\ DashboardLoading \/ DashboardShown
  BY DEF DashboardInv
<1>2. Added(net, net', x) /\ AnsweredFirst(net') /\ x.by = "delete"
  BY <1>1, OrderAsked
<1>. HIDE DEF x
<1>3. \A k \in DOMAIN net' : DashboardRequest(net'[k])
  BY <1>1, <1>2 DEF Added, DashboardRequest
<1>4. DashboardLoading => DashboardLoading'
  BY <1>2 DEF DashboardLoading, Added
<1>5. \A t : WillShow(net', ui.list, t, Refreshes, {}, Erasures) <=>
             WillShow(net, ui.list, t, Refreshes, {}, Erasures)
  BY <1>2, ShowsAdded
<1>6. DashboardShown => DashboardShown'
  BY <1>5 DEF DashboardShown
<1>. QED BY <1>1, <1>2, <1>3, <1>4, <1>6 DEF DashboardInv

\* The server answers: what it takes off, or has, is shown or will be.
LEMMA DashboardAnswered ==
  ASSUME DashboardInv, page = "dashboard", line = "orderly", AreRequests(net),
         NEW i \in DOMAIN net, net[i].state = "sent", InTurn(i),
         Refuse(i) \/ \E v : Reply(i, v), UNCHANGED <<page, line, ui>>, DashboardRequest(net'[i]),
         \A t : t \in srv'.projects <=>
                  \/ Adds(net'[i], t, Refreshes, {})
                  \/ t \in srv.projects /\ ~Takes(net'[i], t, Refreshes, Erasures),
         net[i].by = "syncAll" =>
           \A t : \/ t \in srv'.projects /\ Adds(net'[i], t, Refreshes, {})
                  \/ t \notin srv'.projects /\ Takes(net'[i], t, Refreshes, Erasures)
  PROVE  DashboardInv'
<1>1. /\ AnsweredFirst(net) /\ \A k \in DOMAIN net : DashboardRequest(net[k])
      /\ DashboardLoading \/ DashboardShown
  BY DEF DashboardInv
<1>2. AnsweredFirst(net') /\ DOMAIN net \subseteq Nat
  BY <1>1, OrderServed
<1>3. PICK st, v : AnsweredAt(net, net', i, st, v)
  BY MarkIsAnswer
<1>4. DOMAIN net' = DOMAIN net /\ \A k \in DOMAIN net : k # i => net'[k] = net[k]
  BY <1>3 DEF AnsweredAt
<1>5. \A k \in DOMAIN net' : DashboardRequest(net'[k])
  BY <1>1, <1>4
<1>6. \A t : WillShow(net', ui.list, t, Refreshes, {}, Erasures) <=>
               \/ Adds(net'[i], t, Refreshes, {})
               \/ /\ WillShow(net, ui.list, t, Refreshes, {}, Erasures)
                  /\ ~Takes(net'[i], t, Refreshes, Erasures)
  <2>1. Refreshes \cap {} = {} /\ Refreshes \cap Erasures = {} /\ {} \cap Erasures = {}
    BY DEF Refreshes, Erasures
  <2>. QED BY <1>1, <1>2, <1>3, <2>1, ShowsAnswered
<1>7. DashboardShown => DashboardShown'
  BY <1>6 DEF DashboardShown
<1>8. DashboardLoading => DashboardLoading' \/ DashboardShown'
  <2>1. CASE net[i].by = "syncAll"
    <3>1. \A t : ~(Adds(net'[i], t, Refreshes, {}) /\ Takes(net'[i], t, Refreshes, Erasures))
      BY DEF Adds, Takes, Refreshes, Erasures
    <3>. QED BY <1>6, <2>1, <3>1 DEF DashboardShown
  <2>2. CASE net[i].by # "syncAll"
    BY <1>4, <2>2 DEF DashboardLoading
  <2>. QED BY <2>1, <2>2
<1>. QED BY <1>1, <1>2, <1>5, <1>7, <1>8 DEF DashboardInv

\* The page takes an answer.
LEMMA DashboardTaken ==
  ASSUME DashboardInv, page = "dashboard", AreRequests(net),
         NEW i \in DOMAIN net, Next1(i), net[i].state # "sent", Removed(i),
         UNCHANGED <<page, line, srv>>,
         \A t : /\ Adds(net[i], t, Refreshes, {}) => t \in ui'.list
                /\ Takes(net[i], t, Refreshes, Erasures) => t \notin ui'.list
                /\ ~Adds(net[i], t, Refreshes, {}) /\ ~Takes(net[i], t, Refreshes, Erasures)
                     => (t \in ui'.list <=> t \in ui.list)
  PROVE  DashboardInv'
<1>. SUFFICES ASSUME line = "orderly" PROVE DashboardInv'
  BY DEF DashboardInv
<1>1. /\ AnsweredFirst(net) /\ \A k \in DOMAIN net : DashboardRequest(net[k])
      /\ DashboardLoading \/ DashboardShown
  BY DEF DashboardInv
<1>2. i = 1 /\ Advanced(net, net') /\ AnsweredFirst(net')
  BY <1>1, OrderTaken DEF Removed, Handled, HandledThen
<1>3. \A k \in DOMAIN net' : k + 1 \in DOMAIN net /\ net'[k] = net[k + 1]
  BY <1>2 DEF Advanced
<1>4. \A k \in DOMAIN net' : DashboardRequest(net'[k])
  BY <1>1, <1>3
<1>5. \A t : WillShow(net', ui'.list, t, Refreshes, {}, Erasures) <=>
             WillShow(net, ui.list, t, Refreshes, {}, Erasures)
  <2>1. Refreshes \cap {} = {} /\ Refreshes \cap Erasures = {} /\ {} \cap Erasures = {}
    BY DEF Refreshes, Erasures
  <2>. QED BY <1>2, <2>1, ShowsAdvanced
<1>6. DashboardShown => DashboardShown'
  BY <1>5 DEF DashboardShown
<1>7. DashboardLoading => DashboardLoading'
  BY <1>2, StaysSent DEF DashboardLoading
<1>. QED BY <1>1, <1>2, <1>4, <1>6, <1>7 DEF DashboardInv

LEMMA DashboardMoves ==
  ASSUME MatchInv, DashboardInv, FlagsInv, DashboardNext
  PROVE  MatchInv' /\ DashboardInv'
<1>1. page = "dashboard" /\ page' = page /\ line' = line
  BY DashboardStays DEF DashboardNext, session
<1>2. AreRequests(net)
  BY <1>1 DEF FlagsInv, DeployPages
<1>3. /\ DOMAIN ui = {"busy", "list", "match", "at", "asks"} /\ DOMAIN srv = {"projects"}
      /\ srv.projects \subseteq AllProjects /\ ui.list \subseteq AllProjects
      /\ ui.match \subseteq ui.list /\ ui.at \in Nat
      /\ \A k \in DOMAIN net : ProjectsRequest(net[k])
  BY <1>1 DEF MatchInv
<1>4. line = "orderly" => \A k \in DOMAIN net : DashboardRequest(net[k])
  BY <1>1 DEF DashboardInv
<1>5. ASSUME NEW i \in DOMAIN net, Refuse(i), NetOnly,
             line = "orderly" => net[i].by = "delete" /\ net[i].state = "sent" /\ InTurn(i)
      PROVE  MatchInv' /\ DashboardInv'
  <2>1. AnsweredAt(net, net', i, "error", <<>>)
    BY <1>2, <1>5, RefuseAnswers
  <2>2. net'[i].by = net[i].by /\ net'[i].state = "error"
    BY <2>1 DEF AnsweredAt
  <2>3. ProjectsRequest(net'[i]) /\ ui' = ui /\ srv' = srv
    BY <1>5, <2>2 DEF ProjectsRequest, NetOnly
  <2>4. MatchInv'
    BY <1>1, <2>1, <2>3, MatchAnswered
  <2>5. CASE line = "orderly"
    <3>1. DashboardRequest(net'[i])
      BY <1>5, <2>2, <2>5 DEF DashboardRequest
    <3>2. \A t : ~Adds(net'[i], t, Refreshes, {}) /\ ~Takes(net'[i], t, Refreshes, Erasures)
      BY <2>2 DEF Adds, Takes
    <3>3. net[i].by = "delete" /\ net[i].state = "sent" /\ InTurn(i)
      BY <1>5, <2>5
    <3>. QED BY <1>1, <1>2, <1>5, <2>3, <2>4, <2>5, <3>1, <3>2, <3>3, DashboardAnswered
  <2>6. CASE line # "orderly"
    BY <1>1, <2>4, <2>6 DEF DashboardInv
  <2>. QED BY <2>5, <2>6
<1>6. CASE Search \/ TurnPage \/ OpenDelete \/ CloseDelete
  <2>1. /\ UNCHANGED <<net, srv>> /\ DOMAIN ui' = DOMAIN ui /\ ui'.list = ui.list
        /\ ui'.match \subseteq ui.list /\ ui'.at \in Nat
    <3>0. CASE Search
      <4>1. PICK m \in SUBSET ui.list : Becomes([ui EXCEPT !.match = m, !.at = 0])
        BY <3>0 DEF Search
      <4>. QED BY <1>3, <4>1 DEF Becomes, PageIs
    <3>1. CASE OpenDelete \/ CloseDelete
      BY <1>3, <3>1 DEF OpenDelete, CloseDelete, NoDelete, Becomes, PageIs
    <3>2. CASE TurnPage
      <4>1. PICK a : UNCHANGED <<net, srv>> /\ ui' = [ui EXCEPT !.at = a] /\ a \in Nat
        <5>1. CASE Becomes([ui EXCEPT !.at = IF @ = 0 THEN 0 ELSE @ - 1])
          <6>1. (IF ui.at = 0 THEN 0 ELSE ui.at - 1) \in Nat
            BY <1>3
          <6>. QED BY <5>1, <6>1 DEF Becomes, PageIs
        <5>2. CASE /\ SafePage < TotalPages(Cardinality(ui.match)) - 1
                   /\ Becomes([ui EXCEPT !.at = MinOf(@ + 1, TotalPages(Cardinality(ui.match)) - 1)])
          <6>1. IsFiniteSet(ui.match)
            <7>1. ui.match \subseteq 1..MaxProjects
              BY <1>3 DEF AllProjects
            <7>2. IsFiniteSet(1..MaxProjects)
              <8>1. MaxProjects \in Int /\ 1 \in Int
                BY ProjectAssumption
              <8>. QED BY <8>1, FS_Interval, Zenon
            <7>. QED BY <7>1, <7>2, FS_Subset, Zenon
          <6>2. Cardinality(ui.match) \in Nat
            BY <6>1, FS_CardinalityType
          <6>3. MinOf(ui.at + 1, TotalPages(Cardinality(ui.match)) - 1) \in Nat
            BY <1>3, <6>2, ProjectAssumption DEF MinOf, TotalPages
          <6>. QED BY <5>2, <6>3 DEF Becomes, PageIs
        <5>. QED BY <3>2, <5>1, <5>2 DEF TurnPage
      <4>. QED BY <1>3, <4>1
    <3>. QED BY <1>6, <3>0, <3>1, <3>2
  <2>2. MatchInv'
    BY <1>1, <1>2, <1>3, <2>1, MatchSteps, WithoutNews
  <2>3. DashboardInv'
    BY <1>1, <2>1 DEF DashboardInv, DashboardLoading, DashboardShown, AnsweredFirst
  <2>. QED BY <2>2, <2>3
<1>7. CASE ConfirmDelete
  <2>1. /\ Send(Request("delete", "deleteProject", ui.asks)) /\ UNCHANGED srv
        /\ DOMAIN ui' = DOMAIN ui /\ ui'.list = ui.list /\ ui'.match = ui.match /\ ui'.at = ui.at
    BY <1>3, <1>7 DEF ConfirmDelete, Asks, PageIs
  <2>2. NoNews
    BY <1>2, <2>1, WithoutNews
  <2>3. MatchInv'
    BY <1>1, <1>3, <2>1, <2>2, MatchSteps
  <2>. QED BY <1>1, <1>2, <2>1, <2>3, DashboardAsked
<1>8. CASE \E by \in {"syncAll", "list"} :
             Then(by, LAMBDA ps : [ui EXCEPT !.list = ps, !.match = ps])
  <2>1. PICK i \in DOMAIN net :
          /\ net[i].by \in Refreshes /\ net[i].state = "done" /\ Next1(i) /\ Removed(i)
          /\ ui' = [ui EXCEPT !.list = Answer(i), !.match = Answer(i)] /\ srv' = srv
    BY <1>8 DEF Then, ThenAsks, Arrived, PageIs, Removed, Refreshes
  <2>2. PICK l : net[i].reply = <<l>> /\ l \subseteq AllProjects
    BY <1>3, <2>1 DEF ProjectsRequest
  <2>3. /\ Head(net[i].reply) = l /\ DOMAIN ui' = DOMAIN ui /\ ui'.list = l /\ ui'.match = l
        /\ ui'.at = ui.at
    BY <1>3, <2>1, <2>2 DEF Answer
  <2>4. MatchInv'
    BY <1>1, <1>2, <1>3, <2>1, <2>2, <2>3, MatchSteps, WithoutNews
  <2>5. \A t : /\ Adds(net[i], t, Refreshes, {}) => t \in l
               /\ Takes(net[i], t, Refreshes, Erasures) => t \notin l
               /\ Adds(net[i], t, Refreshes, {}) \/ Takes(net[i], t, Refreshes, Erasures)
    BY <2>1, <2>3 DEF Adds, Takes, Refreshes, Erasures
  <2>. QED BY <1>1, <1>2, <2>1, <2>3, <2>4, <2>5, DashboardTaken
<1>9. CASE \E i \in DOMAIN net :
             /\ Failed(i, "syncAll")
             /\ HandledThen(i, <<Request("list", "listProjects", NoArg)>>)
             /\ PageIs(ui)
  <2>1. PICK i \in DOMAIN net : /\ Failed(i, "syncAll") /\ PageIs(ui)
                                /\ HandledThen(i, <<Request("list", "listProjects", NoArg)>>)
    BY <1>9
  <2>2. MatchInv'
    BY <1>1, <1>2, <1>3, <2>1, MatchSteps, SwapHasNoNews DEF PageIs
  <2>3. line # "orderly"
    BY <1>4, <2>1 DEF Failed, DashboardRequest
  <2>. QED BY <1>1, <2>2, <2>3 DEF DashboardInv
<1>10. CASE Deleted
  <2>1. PICK i \in DOMAIN net :
          /\ net[i].by = "delete" /\ Next1(i) /\ Removed(i) /\ srv' = srv /\ DOMAIN ui' = DOMAIN ui
          /\ ui'.at = ui.at
          /\ \/ /\ net[i].state = "done" /\ ui'.list = ui.list \ {Answer(i)}
                /\ ui'.match = ui.match \ {Answer(i)}
             \/ net[i].state = "error" /\ ui'.list = ui.list /\ ui'.match = ui.match
    <3>1. CASE \E i \in DOMAIN net :
                 /\ Failed(i, "delete") /\ Handled(i)
                 /\ PageIs(IF ui.asks = net[i].arg THEN [ui EXCEPT !.busy = {}] ELSE ui)
      BY <1>3, <3>1 DEF Failed, PageIs, Removed
    <3>2. CASE Then("delete", LAMBDA p : [IF ui.asks = p THEN NoDelete ELSE ui
                                          EXCEPT !.list = @ \ {p}, !.match = @ \ {p}])
      <4>1. PICK i \in DOMAIN net : /\ Arrived(i, "delete") /\ HandledThen(i, <<>>) /\ srv' = srv
                                    /\ ui' = [IF ui.asks = Answer(i) THEN NoDelete ELSE ui
                                         EXCEPT !.list = @ \ {Answer(i)}, !.match = @ \ {Answer(i)}]
        BY <3>2 DEF Then, ThenAsks, PageIs
      <4>. DEFINE u == IF ui.asks = Answer(i) THEN NoDelete ELSE ui
      <4>2. /\ DOMAIN u = DOMAIN ui /\ u.list = ui.list /\ u.match = ui.match /\ u.at = ui.at
        BY <1>3 DEF NoDelete
      <4>3. ui' = [u EXCEPT !.list = @ \ {Answer(i)}, !.match = @ \ {Answer(i)}]
        BY <4>1
      <4>. HIDE DEF u
      <4>4. /\ DOMAIN ui' = DOMAIN ui /\ ui'.at = ui.at /\ ui'.list = ui.list \ {Answer(i)}
            /\ ui'.match = ui.match \ {Answer(i)}
        BY <1>3, <4>2, <4>3
      <4>5. net[i].by = "delete" /\ Next1(i) /\ Removed(i) /\ net[i].state = "done"
        BY <4>1 DEF Arrived, Removed
      <4>. QED BY <4>1, <4>4, <4>5
    <3>. QED BY <1>10, <3>1, <3>2 DEF Deleted
  <2>2. MatchInv'
    BY <1>1, <1>2, <1>3, <2>1, MatchSteps, WithoutNews
  <2>3. CASE net[i].state = "done"
    <3>1. net[i].reply = <<net[i].arg>>
      BY <1>3, <2>1, <2>3 DEF ProjectsRequest
    <3>2. ui'.list = ui.list \ {net[i].arg}
      BY <2>1, <2>3, <3>1 DEF Answer
    <3>3. \A t : ~Adds(net[i], t, Refreshes, {}) /\ (Takes(net[i], t, Refreshes, Erasures) <=> t = net[i].arg)
      BY <2>1, <2>3 DEF Adds, Takes, Refreshes, Erasures
    <3>. QED BY <1>1, <1>2, <2>1, <2>2, <2>3, <3>2, <3>3, DashboardTaken
  <2>4. CASE net[i].state = "error"
    <3>1. \A t : ~Adds(net[i], t, Refreshes, {}) /\ ~Takes(net[i], t, Refreshes, Erasures)
      BY <2>4 DEF Adds, Takes
    <3>. QED BY <1>1, <1>2, <2>1, <2>2, <2>4, <3>1, DashboardTaken
  <2>. QED BY <2>1, <2>3, <2>4
<1>11. CASE ServeDelete
  <2>1. PICK i \in DOMAIN net :
          /\ Served(i, "delete")
          /\ \/ /\ Reply(i, net[i].arg)
                /\ ServerIs([srv EXCEPT !.projects = @ \ {net[i].arg}])
             \/ Refuse(i) /\ NetOnly
    BY <1>11 DEF ServeDelete, Does, Makes
  <2>2. net[i].by = "delete" /\ net[i].state = "sent" /\ InTurn(i)
    BY <2>1 DEF Served
  <2>3. CASE Reply(i, net[i].arg) /\ ServerIs([srv EXCEPT !.projects = @ \ {net[i].arg}])
    <3>1. AnsweredAt(net, net', i, "done", <<net[i].arg>>)
      BY <1>2, <2>3, ReplyAnswers
    <3>2. /\ net'[i].by = "delete" /\ net'[i].state = "done" /\ net'[i].reply = <<net[i].arg>>
          /\ net'[i].arg = net[i].arg
      BY <2>2, <3>1 DEF AnsweredAt
    <3>3. /\ DOMAIN srv' = DOMAIN srv /\ srv'.projects = srv.projects \ {net[i].arg} /\ ui' = ui
      BY <1>3, <2>3 DEF ServerIs
    <3>4. ProjectsRequest(net'[i]) /\ DashboardRequest(net'[i])
      BY <3>2 DEF ProjectsRequest, DashboardRequest, Refreshes
    <3>5. MatchInv'
      BY <1>1, <3>1, <3>3, <3>4, MatchAnswered
    <3>6. \A t : ~Adds(net'[i], t, Refreshes, {}) /\ (Takes(net'[i], t, Refreshes, Erasures) <=> t = net[i].arg)
      BY <3>2 DEF Adds, Takes, Refreshes, Erasures
    <3>7. CASE line = "orderly"
      BY <1>1, <1>2, <2>2, <2>3, <3>3, <3>4, <3>5, <3>6, <3>7, DashboardAnswered
    <3>8. CASE line # "orderly"
      BY <1>1, <3>5, <3>8 DEF DashboardInv
    <3>. QED BY <3>7, <3>8
  <2>. QED BY <1>5, <2>1, <2>2, <2>3
<1>12. CASE \E by \in {"syncAll", "list"} : Tells(by, srv.projects)
  <2>1. PICK i \in DOMAIN net : /\ net[i].by \in Refreshes /\ net[i].state = "sent" /\ InTurn(i)
                                /\ Reply(i, srv.projects) /\ NetOnly
    BY <1>12 DEF Tells, Finds, Served, Refreshes
  <2>2. AnsweredAt(net, net', i, "done", <<srv.projects>>)
    BY <1>2, <2>1, ReplyAnswers
  <2>3. /\ net'[i].by = net[i].by /\ net'[i].state = "done" /\ net'[i].reply = <<srv.projects>>
        /\ net'[i].call = net[i].call
    BY <2>2 DEF AnsweredAt
  <2>4. ui' = ui /\ srv' = srv
    BY <2>1 DEF NetOnly
  <2>5. ProjectsRequest(net'[i])
    BY <1>3, <2>1, <2>3 DEF ProjectsRequest, Refreshes
  <2>6. MatchInv'
    BY <1>1, <2>2, <2>4, <2>5, MatchAnswered
  <2>7. CASE line = "orderly"
    <3>1. DashboardRequest(net'[i])
      BY <1>4, <2>1, <2>3, <2>7 DEF DashboardRequest
    <3>2. /\ Head(net'[i].reply) = srv.projects
          /\ \A t : /\ Adds(net'[i], t, Refreshes, {}) <=> t \in srv.projects
                    /\ Takes(net'[i], t, Refreshes, Erasures) <=> t \notin srv.projects
      BY <2>1, <2>3 DEF Adds, Takes, Refreshes, Erasures
    <3>. QED BY <1>1, <1>2, <2>1, <2>4, <2>6, <2>7, <3>1, <3>2, DashboardAnswered
  <2>8. CASE line # "orderly"
    BY <1>1, <2>6, <2>8 DEF DashboardInv
  <2>. QED BY <2>7, <2>8
<1>13. CASE Forbid
  <2>1. PICK i \in DOMAIN net : /\ net[i].state = "sent" /\ InTurn(i) /\ ~Authorized(net[i].call)
                                /\ Refuse(i) /\ NetOnly
    BY <1>13 DEF Forbid
  <2>2. Authorized("syncAllProjects")
    BY CallNeeds, WhoMay
  <2>3. line = "orderly" => net[i].by = "delete"
    BY <1>4, <2>1, <2>2 DEF DashboardRequest
  <2>. QED BY <1>5, <2>1, <2>3
<1>14. CASE Fault
  BY <1>5, <1>14 DEF Fault
<1>. QED BY <1>6, <1>7, <1>8, <1>9, <1>10, <1>11, <1>12, <1>13, <1>14 DEF DashboardNext, ProjectsLoaded

LEMMA DashboardStarts == ASSUME ProjectsInit PROVE MatchInv /\ DashboardInv
<1>. SUFFICES ASSUME page = "dashboard" PROVE MatchInv /\ DashboardInv
  BY DEF MatchInv, DashboardInv
<1>1. DashboardInit
  BY OpensOn
<1>2. PICK n \in 1..MaxProjects : srv = [projects |-> 1..n]
  BY <1>1 DEF DashboardInit
<1>3. /\ DOMAIN ui = {"busy", "list", "match", "at", "asks"} /\ ui.list = {} /\ ui.match = {}
      /\ ui.at = 0 /\ DOMAIN srv = {"projects"} /\ srv.projects \subseteq AllProjects
  BY <1>1, <1>2, ProjectAssumption DEF DashboardInit, AllProjects
<1>. DEFINE x == Request("syncAll", "syncAllProjects", NoArg)
<1>4. x.by = "syncAll" /\ x.call = "syncAllProjects" /\ x.state = "sent"
  BY DEF Request
<1>5. net = <<x>>
  BY <1>1 DEF DashboardInit
<1>. HIDE DEF x
<1>6. \A k \in DOMAIN net : ProjectsRequest(net[k]) /\ DashboardRequest(net[k])
  BY <1>4, <1>5 DEF ProjectsRequest, DashboardRequest
<1>7. DashboardLoading /\ AnsweredFirst(net)
  BY <1>4, <1>5 DEF DashboardLoading, AnsweredFirst
<1>. QED BY <1>3, <1>6, <1>7 DEF MatchInv, DashboardInv

\* A page of the dashboard is never empty while the search leaves some project.
LEMMA PagesNotEmpty == ASSUME MatchInv PROVE NoEmptyPage
<1>. SUFFICES ASSUME page = "dashboard", ui.match # {} PROVE Shown > 0
  BY DEF NoEmptyPage
<1>. DEFINE n == Cardinality(ui.match)
<1>1. IsFiniteSet(ui.match)
  <2>1. ui.match \subseteq 1..MaxProjects
    BY DEF MatchInv, AllProjects
  <2>2. IsFiniteSet(1..MaxProjects)
    <3>1. MaxProjects \in Int /\ 1 \in Int
      BY ProjectAssumption
    <3>. QED BY <3>1, FS_Interval, Zenon
  <2>. QED BY <2>1, <2>2, FS_Subset, Zenon
<1>2. n \in Nat \ {0}
  BY <1>1, FS_CardinalityType, FS_EmptySet
<1>3. ui.at \in Nat
  BY DEF MatchInv
<1>. HIDE DEF n
<1>4. SafePage \in Nat /\ SafePage <= (n - 1) \div PerPage
  <2>1. (n - 1) \div PerPage \in Nat
    BY <1>2, ProjectAssumption
  <2>2. SafePage = MinOf(ui.at, (n - 1) \div PerPage)
    BY <1>2, <2>1 DEF SafePage, TotalPages, n
  <2>. QED BY <1>3, <2>1, <2>2 DEF MinOf
<1>5. n - SafePage * PerPage > 0
  BY <1>2, <1>4, PageHasSome, ProjectAssumption
<1>6. Shown = LET left == n - SafePage * PerPage IN IF left < 0 THEN 0 ELSE MinOf(left, PerPage)
  BY DEF Shown, n
<1>. DEFINE left == n - SafePage * PerPage
<1>7. left \in Int /\ left > 0
  BY <1>2, <1>4, <1>5, ProjectAssumption
<1>8. Shown = IF left < 0 THEN 0 ELSE MinOf(left, PerPage)
  BY <1>6
<1>. HIDE DEF left
<1>. QED BY <1>7, <1>8, ProjectAssumption DEF MinOf

-----------------------------------------------------------------------------
(* The header of a project *)

Loads == {"load"}

HeaderRequest(x) ==
  \/ /\ x.by = "load" /\ x.call = "getProject" /\ x.state \in {"sent", "done"}
     /\ x.state = "done" => x.reply = <<x.arg>>
  \/ x.by = "clone"

HeaderComes == UpToDate(net, Loads, ui.at, <<ui.shown>>, ui.at)

HeaderInv ==
  page = "project" /\ line = "orderly" =>
    /\ DOMAIN ui = {"busy", "at", "shown", "error", "modal"}
    /\ AnsweredFirst(net) /\ \A k \in DOMAIN net : HeaderRequest(net[k])
    /\ HeaderComes

\* The page takes an answer that does not lead it elsewhere.
LEMMA HeaderTaken ==
  ASSUME HeaderInv, page = "project", line = "orderly", AreRequests(net),
         NEW i \in DOMAIN net, Next1(i), net[i].state # "sent", Removed(i),
         UNCHANGED <<page, line>>, DOMAIN ui' = DOMAIN ui, ui'.at = ui.at,
         net[i].by = "load" => <<ui'.shown>> = net[i].reply,
         net[i].by # "load" => ui'.shown = ui.shown
  PROVE  HeaderInv'
<1>1. /\ AnsweredFirst(net) /\ \A k \in DOMAIN net : HeaderRequest(net[k])
      /\ HeaderComes /\ DOMAIN ui = {"busy", "at", "shown", "error", "modal"}
  BY DEF HeaderInv
<1>2. i = 1 /\ Advanced(net, net') /\ AnsweredFirst(net')
  BY <1>1, OrderTaken DEF Removed, Handled, HandledThen
<1>3. \A k \in DOMAIN net' : HeaderRequest(net'[k])
  BY <1>1, <1>2 DEF Advanced
<1>4. net[1].by \in Loads => net[1].state = "done"
  BY <1>1, <1>2 DEF HeaderRequest, Loads
<1>5. /\ net[1].by \in Loads /\ net[1].state = "done" => <<ui'.shown>> = net[1].reply
      /\ net[1].by \notin Loads => <<ui'.shown>> = <<ui.shown>>
  BY <1>2 DEF Loads
<1>6. UpToDate(net', Loads, ui.at, <<ui'.shown>>, ui.at)
  BY <1>1, <1>2, <1>4, <1>5, FreshAdvanced DEF HeaderComes
<1>. QED BY <1>1, <1>2, <1>3, <1>6 DEF HeaderInv, HeaderComes

\* The server answers.
LEMMA HeaderAnswered ==
  ASSUME HeaderInv, page = "project", line = "orderly", AreRequests(net),
         NEW i \in DOMAIN net, net[i].state = "sent", InTurn(i),
         Refuse(i) \/ \E v : Reply(i, v), UNCHANGED <<page, line, ui>>, HeaderRequest(net'[i])
  PROVE  HeaderInv'
<1>1. /\ AnsweredFirst(net) /\ \A k \in DOMAIN net : HeaderRequest(net[k])
      /\ HeaderComes /\ DOMAIN ui = {"busy", "at", "shown", "error", "modal"}
  BY DEF HeaderInv
<1>2. AnsweredFirst(net')
  BY <1>1, OrderServed
<1>3. PICK st, v : st \in {"done", "error"} /\ AnsweredAt(net, net', i, st, v)
  BY MarkIsAnswer
<1>4. \A k \in DOMAIN net' : HeaderRequest(net'[k])
  BY <1>1, <1>3 DEF AnsweredAt
<1>5. net[i].by \in Loads /\ net[i].arg = ui.at => st = "done" /\ v = <<ui.at>>
  BY <1>3 DEF AnsweredAt, HeaderRequest, Loads
<1>6. UpToDate(net', Loads, ui.at, <<ui.shown>>, ui.at)
  BY <1>1, <1>3, <1>5, FreshAnswered DEF HeaderComes
<1>. QED BY <1>1, <1>2, <1>4, <1>6 DEF HeaderInv, HeaderComes

LEMMA HeaderMoves ==
  ASSUME HeaderInv, FlagsInv, ProjectNext
  PROVE  HeaderInv'
<1>1. page = "project" /\ page' = page /\ perms' = perms /\ line' = line
  BY ProjectStays DEF ProjectNext, session
<1>. SUFFICES ASSUME line = "orderly" PROVE HeaderInv'
  BY <1>1 DEF HeaderInv
<1>2. AreRequests(net)
  BY <1>1 DEF FlagsInv, DeployPages
<1>3. /\ AnsweredFirst(net) /\ \A k \in DOMAIN net : HeaderRequest(net[k])
      /\ HeaderComes /\ DOMAIN ui = {"busy", "at", "shown", "error", "modal"}
  BY <1>1 DEF HeaderInv
<1>4. CASE ProjectLoaded
  <2>1. CASE Then("load", LAMBDA p : [ui EXCEPT !.shown = p])
    <3>1. PICK i \in DOMAIN net : Arrived(i, "load") /\ HandledThen(i, <<>>)
                                  /\ ui' = [ui EXCEPT !.shown = Answer(i)]
      BY <2>1 DEF Then, ThenAsks, PageIs
    <3>2. net[i].reply = <<net[i].arg>>
      BY <1>3, <3>1 DEF Arrived, HeaderRequest
    <3>3. /\ <<ui'.shown>> = net[i].reply /\ DOMAIN ui' = DOMAIN ui /\ ui'.at = ui.at
      BY <1>3, <3>1, <3>2 DEF Answer
    <3>. QED BY <1>1, <1>2, <3>1, <3>3, HeaderTaken DEF Arrived, Removed
  <2>2. CASE Catch("load", [ui EXCEPT !.error = TRUE])
    BY <1>3, <2>2 DEF Catch, Failed, HeaderRequest
  <2>. QED BY <1>4, <2>1, <2>2 DEF ProjectLoaded
<1>5. CASE ToggleClone
  <2>1. /\ net' = net /\ DOMAIN ui' = DOMAIN ui /\ ui'.at = ui.at /\ ui'.shown = ui.shown
    BY <1>3, <1>5 DEF ToggleClone, Becomes, PageIs
  <2>. QED BY <1>1, <1>3, <2>1 DEF HeaderInv, HeaderComes
<1>6. CASE HandleClone
  <2>. DEFINE x == Request("clone", "cloneProject", ui.at)
  <2>1. /\ Send(x) /\ DOMAIN ui' = DOMAIN ui /\ ui'.at = ui.at /\ ui'.shown = ui.shown
    BY <1>3, <1>6 DEF HandleClone, Asks, PageIs
  <2>2. Added(net, net', x) /\ AnsweredFirst(net') /\ x.by = "clone"
    BY <1>2, <1>3, <2>1, OrderAsked
  <2>. HIDE DEF x
  <2>3. \A k \in DOMAIN net' : HeaderRequest(net'[k])
    BY <1>3, <2>2 DEF Added, HeaderRequest
  <2>4. UpToDate(net', Loads, ui.at, <<ui.shown>>, ui.at)
    <3>1. x.by \notin Loads
      BY <2>2 DEF Loads
    <3>. QED BY <1>3, <2>2, <3>1, UpToDateAdded DEF HeaderComes
  <2>. QED BY <1>1, <1>3, <2>1, <2>2, <2>3, <2>4 DEF HeaderInv, HeaderComes
<1>7. CASE ServeClone
  <2>1. PICK i \in DOMAIN net : /\ Served(i, "clone") /\ ui' = ui
                                /\ Refuse(i) \/ \E v : Reply(i, v)
    BY <1>7 DEF ServeClone, Makes, ServerIs, NetOnly
  <2>2. HeaderRequest(net'[i])
    <3>1. PICK st, v : AnsweredAt(net, net', i, st, v)
      BY <1>2, <2>1, MarkIsAnswer
    <3>. QED BY <2>1, <3>1 DEF AnsweredAt, Served, HeaderRequest
  <2>. QED BY <1>1, <1>2, <2>1, <2>2, HeaderAnswered DEF Served
<1>8. CASE Cloned
  <2>1. PICK i \in DOMAIN net :
          /\ Arrived(i, "clone")
          /\ HandledThen(i, <<Request("load", "getProject", Answer(i))>>)
          /\ ui' = [ui EXCEPT !.at = Answer(i), !.modal = FALSE, !.busy = {}]
    BY <1>8 DEF Cloned, PageIs
  <2>. DEFINE x == Request("load", "getProject", Answer(i))
  <2>2. /\ AnsweredFirst(net') /\ \E q : Advanced(net, q) /\ Added(q, net', x)
        /\ x.by = "load" /\ x.call = "getProject" /\ x.arg = Answer(i)
    BY <1>2, <1>3, <2>1, OrderSwapped DEF Arrived
  <2>3. PICK q : Advanced(net, q) /\ Added(q, net', x)
    BY <2>2
  <2>. HIDE DEF x
  <2>4. \A k \in DOMAIN q : HeaderRequest(q[k])
    BY <1>3, <2>3 DEF Advanced
  <2>5. \A k \in DOMAIN net' : HeaderRequest(net'[k])
    BY <2>2, <2>3, <2>4 DEF Added, HeaderRequest
  <2>6. ui'.at = Answer(i) /\ DOMAIN ui' = DOMAIN ui
    BY <1>3, <2>1
  <2>7. \A u, s : UpToDate(net', Loads, x.arg, u, s)
    BY <2>2, <2>3, UpToDateAsked DEF Loads
  <2>. QED BY <1>1, <1>3, <2>2, <2>5, <2>6, <2>7 DEF HeaderInv, HeaderComes
<1>9. CASE CloneFails
  <2>1. PICK i \in DOMAIN net : Failed(i, "clone") /\ Handled(i) /\ ui' = [ui EXCEPT !.busy = {}]
    BY <1>9 DEF CloneFails, Catch, PageIs
  <2>2. DOMAIN ui' = DOMAIN ui /\ ui'.at = ui.at /\ ui'.shown = ui.shown
    BY <1>3, <2>1
  <2>. QED BY <1>1, <1>2, <2>1, <2>2, HeaderTaken DEF Failed, Removed
<1>10. CASE Finds("load", LAMBDA p : p)
  <2>1. PICK i \in DOMAIN net : Served(i, "load") /\ Reply(i, net[i].arg) /\ ui' = ui
    BY <1>10 DEF Finds, NetOnly
  <2>2. AnsweredAt(net, net', i, "done", <<net[i].arg>>)
    BY <1>2, <2>1, ReplyAnswers
  <2>3. HeaderRequest(net'[i])
    BY <1>3, <2>1, <2>2 DEF AnsweredAt, HeaderRequest, Served
  <2>. QED BY <1>1, <1>2, <2>1, <2>3, HeaderAnswered DEF Served
<1>11. CASE Forbid
  <2>1. PICK i \in DOMAIN net : /\ net[i].state = "sent" /\ InTurn(i) /\ ~Authorized(net[i].call)
                                /\ Refuse(i) /\ NetOnly
    BY <1>11 DEF Forbid
  <2>2. Authorized("getProject")
    BY CallNeeds, WhoMay
  <2>3. net[i].by = "clone" /\ ui' = ui
    BY <1>3, <2>1, <2>2 DEF HeaderRequest, NetOnly
  <2>4. HeaderRequest(net'[i])
    <3>1. AnsweredAt(net, net', i, "error", <<>>)
      BY <1>2, <2>1, RefuseAnswers
    <3>. QED BY <2>3, <3>1 DEF AnsweredAt, HeaderRequest
  <2>. QED BY <1>1, <1>2, <2>1, <2>3, <2>4, HeaderAnswered
<1>12. CASE Fault
  BY <1>12 DEF Fault
<1>. QED BY <1>4, <1>5, <1>6, <1>7, <1>8, <1>9, <1>10, <1>11, <1>12 DEF ProjectNext

LEMMA HeaderStarts == ASSUME ProjectsInit PROVE HeaderInv
<1>. SUFFICES ASSUME page = "project" PROVE HeaderInv
  BY DEF HeaderInv
<1>1. ProjectInit
  BY OpensOn
<1>. DEFINE x == Request("load", "getProject", 1)
<1>2. x.by = "load" /\ x.call = "getProject" /\ x.state = "sent" /\ x.arg = 1
  BY DEF Request
<1>3. net = <<x>> /\ DOMAIN ui = {"busy", "at", "shown", "error", "modal"} /\ ui.at = 1
  BY <1>1 DEF ProjectInit
<1>. HIDE DEF x
<1>4. /\ \A k \in DOMAIN net : HeaderRequest(net[k]) /\ AnsweredFirst(net)
      /\ HeaderComes
  BY <1>2, <1>3 DEF HeaderRequest, AnsweredFirst, HeaderComes, UpToDate, LastOf, Loads
<1>. QED BY <1>3, <1>4 DEF HeaderInv

-----------------------------------------------------------------------------
(* The containers of a project *)

Listings == {"refresh"}

BoxRequest(x) ==
  \/ /\ x.by = "refresh" /\ x.call = "listContainers" /\ x.arg = NoArg
     /\ x.state = "sent" \/ (x.state = "done" /\ \E l : x.reply = <<l>>)
  \/ x.by \in {"sync", "action"}

\* The list is that of the server, or will be: an action that was done is told,
\* and then the timer reads the list again.
ActionTold == \E k \in DOMAIN net : net[k].by = "action" /\ net[k].state = "done"
ListComes  == UpToDate(net, Listings, NoArg, <<ui.list>>, srv.state) \/ ActionTold \/ ui.timer

\* The status is what the last sync found, which is the only one under way.
SyncTold(x) == x.by = "sync" /\ x.state = "done"
StatusComes ==
  /\ \A k \in DOMAIN net : SyncTold(net[k]) => net[k].reply = <<srv.project>>
  /\ (\A k \in DOMAIN net : ~SyncTold(net[k])) => ui.project = srv.project

OverviewInv ==
  page = "overview" /\ line = "orderly" =>
    /\ DOMAIN ui = {"busy", "list", "project", "timer"} /\ DOMAIN srv = {"state", "project"}
    /\ AnsweredFirst(net) /\ \A k \in DOMAIN net : BoxRequest(net[k])
    /\ ListComes /\ StatusComes

\* The page asks: for the list, or for something else.
LEMMA OverviewAsked ==
  ASSUME OverviewInv, page = "overview", line = "orderly", AreRequests(net),
         UNCHANGED <<page, line, srv>>, DOMAIN ui' = DOMAIN ui, ui'.list = ui.list,
         ui'.project = ui.project, NEW by, NEW call, NEW arg, Send(Request(by, call, arg)),
         \/ by = "refresh" /\ call = "listContainers" /\ arg = NoArg
         \/ by \in {"sync", "action"} /\ ui'.timer = ui.timer
  PROVE  OverviewInv'
<1>1. /\ DOMAIN ui = {"busy", "list", "project", "timer"} /\ DOMAIN srv = {"state", "project"}
      /\ AnsweredFirst(net) /\ \A k \in DOMAIN net : BoxRequest(net[k])
      /\ ListComes /\ StatusComes
  BY DEF OverviewInv
<1>. DEFINE x == Request(by, call, arg)
<1>2. /\ Added(net, net', x) /\ AnsweredFirst(net') /\ x.by = by /\ x.call = call /\ x.arg = arg
  BY <1>1, OrderAsked
<1>3. x.state = "sent"
  BY <1>2 DEF Added
<1>. HIDE DEF x
<1>4. /\ \A k \in DOMAIN net : k \in DOMAIN net' /\ net'[k] = net[k]
      /\ \A k \in DOMAIN net' : (k \in DOMAIN net /\ net'[k] = net[k]) \/ net'[k] = x
  BY <1>2 DEF Added
<1>5. BoxRequest(x)
  BY <1>2, <1>3 DEF BoxRequest
<1>6. \A k \in DOMAIN net' : BoxRequest(net'[k])
  BY <1>1, <1>4, <1>5
<1>7. ListComes'
  <2>1. CASE by = "refresh"
    <3>1. x.by \in Listings /\ x.arg = NoArg
      BY <1>2, <2>1 DEF Listings
    <3>2. \A u, s : UpToDate(net', Listings, x.arg, u, s)
      BY <1>2, <3>1, UpToDateAsked
    <3>. QED BY <3>1, <3>2 DEF ListComes
  <2>2. CASE by \in {"sync", "action"}
    <3>1. x.by \notin Listings
      BY <1>2, <2>2 DEF Listings
    <3>2. \A u, s : UpToDate(net, Listings, NoArg, u, s) => UpToDate(net', Listings, NoArg, u, s)
      BY <1>2, <3>1, UpToDateAdded
    <3>3. ActionTold => ActionTold'
      BY <1>4 DEF ActionTold
    <3>. QED BY <1>1, <2>2, <3>2, <3>3 DEF ListComes
  <2>. QED BY <2>1, <2>2
<1>8. StatusComes'
  <2>1. ~SyncTold(x)
    BY <1>3 DEF SyncTold
  <2>. HIDE DEF x
  <2>. QED BY <1>1, <1>4, <2>1 DEF StatusComes
<1>. QED BY <1>1, <1>2, <1>6, <1>7, <1>8 DEF OverviewInv

\* The server answers; an action that is done and a sync change what it has.
LEMMA OverviewAnswered ==
  ASSUME OverviewInv, page = "overview", line = "orderly", AreRequests(net), One({"sync"}),
         NEW i \in DOMAIN net, net[i].state = "sent", InTurn(i),
         Refuse(i) \/ \E v : Reply(i, v), UNCHANGED <<page, line, ui>>,
         DOMAIN srv' = DOMAIN srv, BoxRequest(net'[i]),
         srv'.state = srv.state \/ (net[i].by = "action" /\ net'[i].state = "done"),
         net[i].by = "refresh" => net'[i].reply = <<srv.state>>,
         SyncTold(net'[i]) => net'[i].reply = <<srv'.project>>,
         ~SyncTold(net'[i]) => srv'.project = srv.project
  PROVE  OverviewInv'
<1>1. /\ DOMAIN ui = {"busy", "list", "project", "timer"} /\ DOMAIN srv = {"state", "project"}
      /\ AnsweredFirst(net) /\ \A k \in DOMAIN net : BoxRequest(net[k])
      /\ ListComes /\ StatusComes
  BY DEF OverviewInv
<1>2. AnsweredFirst(net')
  BY <1>1, OrderServed
<1>3. PICK st, v : st \in {"done", "error"} /\ AnsweredAt(net, net', i, st, v)
  BY MarkIsAnswer
<1>4. /\ DOMAIN net' = DOMAIN net /\ \A k \in DOMAIN net : k # i => net'[k] = net[k]
      /\ net'[i].by = net[i].by /\ net'[i].arg = net[i].arg /\ net'[i].state = st
      /\ st = "done" => net'[i].reply = v
  BY <1>3 DEF AnsweredAt
<1>5. \A k \in DOMAIN net' : BoxRequest(net'[k])
  BY <1>1, <1>4
<1>6. ListComes'
  <2>1. CASE net[i].by = "action" /\ net'[i].state = "done"
    BY <1>4, <2>1 DEF ListComes, ActionTold
  <2>2. CASE srv'.state = srv.state
    <3>1. net[i].by \in Listings /\ net[i].arg = NoArg => st = "done" /\ v = <<srv.state>>
      BY <1>3, <1>4 DEF BoxRequest, Listings
    <3>2. \A u : UpToDate(net, Listings, NoArg, u, srv.state)
                   => UpToDate(net', Listings, NoArg, u, srv.state)
      BY <1>3, <3>1, FreshAnswered
    <3>3. ActionTold => ActionTold'
      BY <1>4 DEF ActionTold
    <3>. QED BY <1>1, <2>2, <3>2, <3>3 DEF ListComes
  <2>. QED BY <2>1, <2>2
<1>7. StatusComes'
  <2>1. ~SyncTold(net[i])
    BY DEF SyncTold
  <2>2. CASE SyncTold(net'[i])
    <3>1. \A k \in DOMAIN net : net[k].by = "sync" => k = i
      BY <1>4, <2>2 DEF One, OneIn, SyncTold
    <3>. QED BY <1>4, <2>2, <3>1 DEF StatusComes, SyncTold
  <2>3. CASE ~SyncTold(net'[i])
    BY <1>1, <1>4, <2>1, <2>3 DEF StatusComes
  <2>. QED BY <2>2, <2>3
<1>. QED BY <1>1, <1>2, <1>5, <1>6, <1>7 DEF OverviewInv

\* The page takes an answer that is not that of a sync that was done.
LEMMA OverviewTaken ==
  ASSUME OverviewInv, page = "overview", line = "orderly", AreRequests(net),
         NEW i \in DOMAIN net, Next1(i), net[i].state # "sent", Removed(i), ~SyncTold(net[i]),
         UNCHANGED <<page, line, srv>>, DOMAIN ui' = DOMAIN ui, ui'.project = ui.project,
         net[i].by = "refresh" => net[i].reply = <<ui'.list>>,
         net[i].by # "refresh" => ui'.list = ui.list,
         ui.timer => ui'.timer, net[i].by = "action" /\ net[i].state = "done" => ui'.timer
  PROVE  OverviewInv'
<1>1. /\ DOMAIN ui = {"busy", "list", "project", "timer"} /\ DOMAIN srv = {"state", "project"}
      /\ AnsweredFirst(net) /\ \A k \in DOMAIN net : BoxRequest(net[k])
      /\ ListComes /\ StatusComes
  BY DEF OverviewInv
<1>2. i = 1 /\ Advanced(net, net') /\ AnsweredFirst(net')
  BY <1>1, OrderTaken DEF Removed, Handled, HandledThen
<1>3. /\ \A k \in DOMAIN net' : k + 1 \in DOMAIN net /\ net'[k] = net[k + 1]
      /\ \A k \in DOMAIN net : k # 1 => \E j \in DOMAIN net' : net'[j] = net[k]
  <2>1. \A k \in DOMAIN net' : k + 1 \in DOMAIN net /\ net'[k] = net[k + 1]
    BY <1>2 DEF Advanced
  <2>2. \A k \in DOMAIN net : k # 1 => k - 1 \in DOMAIN net' /\ k - 1 + 1 = k
    BY <1>2 DEF Advanced
  <2>3. \A k \in DOMAIN net : k # 1 => net'[k - 1] = net[k]
    BY <2>1, <2>2
  <2>. QED BY <2>1, <2>2, <2>3
<1>4. \A k \in DOMAIN net' : BoxRequest(net'[k])
  BY <1>1, <1>3
<1>5. ListComes'
  <2>1. net[1].by \in Listings => net[1].state = "done"
    BY <1>1, <1>2 DEF BoxRequest, Listings
  <2>2. /\ net[1].by \in Listings /\ net[1].state = "done" => <<ui'.list>> = net[1].reply
        /\ net[1].by \notin Listings => <<ui'.list>> = <<ui.list>>
    BY <1>2 DEF Listings
  <2>3. \A s : UpToDate(net, Listings, NoArg, <<ui.list>>, s)
                 => UpToDate(net', Listings, NoArg, <<ui'.list>>, s)
    BY <1>2, <2>1, <2>2, FreshAdvanced
  <2>4. ActionTold => ActionTold' \/ ui'.timer
    BY <1>2, <1>3 DEF ActionTold
  <2>. QED BY <1>1, <2>3, <2>4 DEF ListComes
<1>6. StatusComes'
  BY <1>1, <1>2, <1>3 DEF StatusComes
<1>. QED BY <1>1, <1>2, <1>4, <1>5, <1>6 DEF OverviewInv

\* The page takes what a sync found, and reads the list again.
LEMMA OverviewSynced ==
  ASSUME OverviewInv, page = "overview", line = "orderly", AreRequests(net), One({"sync"}),
         NEW i \in DOMAIN net, Arrived(i, "sync"),
         HandledThen(i, <<Request("refresh", "listContainers", NoArg)>>),
         UNCHANGED <<page, line, srv>>, DOMAIN ui' = DOMAIN ui, ui'.project = Answer(i)
  PROVE  OverviewInv'
<1>. DEFINE x == Request("refresh", "listContainers", NoArg)
<1>1. /\ DOMAIN ui = {"busy", "list", "project", "timer"} /\ DOMAIN srv = {"state", "project"}
      /\ AnsweredFirst(net) /\ \A k \in DOMAIN net : BoxRequest(net[k])
      /\ ListComes /\ StatusComes
  BY DEF OverviewInv
<1>2. /\ i = 1 /\ AnsweredFirst(net') /\ \E q : Advanced(net, q) /\ Added(q, net', x)
      /\ x.by = "refresh" /\ x.call = "listContainers" /\ x.arg = NoArg
  BY <1>1, OrderSwapped DEF Arrived
<1>3. PICK q : Advanced(net, q) /\ Added(q, net', x)
  BY <1>2
<1>4. x.state = "sent"
  BY <1>3 DEF Added
<1>. HIDE DEF x
<1>5. /\ \A k \in DOMAIN q : k \in Nat \ {0} /\ k + 1 \in DOMAIN net /\ q[k] = net[k + 1]
      /\ \A k \in DOMAIN net' : (k \in DOMAIN q /\ net'[k] = q[k]) \/ net'[k] = x
  BY <1>3 DEF Advanced, Added
<1>6. \A k \in DOMAIN net' : BoxRequest(net'[k])
  BY <1>1, <1>2, <1>4, <1>5 DEF BoxRequest
<1>7. ListComes'
  <2>1. \A u, s : UpToDate(net', Listings, x.arg, u, s)
    BY <1>2, <1>3, UpToDateAsked DEF Listings
  <2>. QED BY <1>2, <2>1 DEF ListComes
<1>8. StatusComes'
  <2>1. \A k \in DOMAIN q : q[k].by # "sync"
    <3>. SUFFICES ASSUME NEW k \in DOMAIN q, q[k].by = "sync" PROVE FALSE
      OBVIOUS
    <3>1. k \in Nat \ {0} /\ k + 1 \in DOMAIN net /\ net[k + 1].by = "sync" /\ net[1].by = "sync"
      BY <1>2, <1>5 DEF Arrived
    <3>2. 1 = k + 1
      BY <1>2, <3>1 DEF One, OneIn
    <3>. QED BY <3>1, <3>2
  <2>2. \A k \in DOMAIN net' : ~SyncTold(net'[k])
    BY <1>2, <1>5, <2>1 DEF SyncTold
  <2>3. ui'.project = srv.project
    <3>1. net[i].reply = <<srv.project>>
      BY <1>1 DEF StatusComes, SyncTold, Arrived
    <3>. QED BY <3>1 DEF Answer
  <2>. QED BY <2>2, <2>3 DEF StatusComes
<1>. QED BY <1>1, <1>2, <1>6, <1>7, <1>8 DEF OverviewInv

LEMMA OverviewKept ==
  ASSUME OverviewInv, FlagsInv, OverviewNext
  PROVE  OverviewInv'
<1>1. page = "overview" /\ page' = page /\ perms' = perms /\ line' = line
  BY OverviewStays DEF OverviewNext, session
<1>. SUFFICES ASSUME line = "orderly" PROVE OverviewInv'
  BY <1>1 DEF OverviewInv
<1>2. AreRequests(net) /\ One({"sync"})
  BY <1>1 DEF FlagsInv, DeployPages, Flags, OverviewFlags, Exactly
<1>3. /\ DOMAIN ui = {"busy", "list", "project", "timer"} /\ DOMAIN srv = {"state", "project"}
      /\ AnsweredFirst(net) /\ \A k \in DOMAIN net : BoxRequest(net[k])
      /\ ListComes /\ StatusComes
  BY <1>1 DEF OverviewInv
<1>4. ASSUME NEW i \in DOMAIN net, net[i].state = "sent", InTurn(i), Refuse(i), NetOnly,
             net[i].by # "refresh"
      PROVE  OverviewInv'
  <2>1. AnsweredAt(net, net', i, "error", <<>>)
    BY <1>2, <1>4, RefuseAnswers
  <2>2. net'[i].by = net[i].by /\ net'[i].state = "error"
    BY <2>1 DEF AnsweredAt
  <2>3. BoxRequest(net'[i]) /\ ~SyncTold(net'[i])
    BY <1>3, <1>4, <2>2 DEF BoxRequest, SyncTold
  <2>4. srv' = srv /\ ui' = ui
    BY <1>4 DEF NetOnly
  <2>. QED BY <1>1, <1>2, <1>4, <2>3, <2>4, OverviewAnswered
<1>5. CASE ClickRefresh \/ ClickSync \/ ActionSettles
  <2>1. /\ DOMAIN ui' = DOMAIN ui /\ ui'.list = ui.list /\ ui'.project = ui.project /\ srv' = srv
        /\ \/ Send(Request("refresh", "listContainers", NoArg))
           \/ Send(Request("sync", "syncProjectStatus", NoArg)) /\ ui'.timer = ui.timer
    BY <1>3, <1>5 DEF ClickRefresh, Refreshing, ClickSync, ActionSettles, Asks, PageIs
  <2>2. \/ Send(Request("refresh", "listContainers", NoArg))
        \/ Send(Request("sync", "syncProjectStatus", NoArg)) /\ ui'.timer = ui.timer
    BY <2>1
  <2>3. CASE Send(Request("refresh", "listContainers", NoArg))
    BY <1>1, <1>2, <2>1, <2>3, OverviewAsked
  <2>4. CASE Send(Request("sync", "syncProjectStatus", NoArg)) /\ ui'.timer = ui.timer
    BY <1>1, <1>2, <2>1, <2>4, OverviewAsked
  <2>. QED BY <2>2, <2>3, <2>4
<1>6. CASE ClickAction
  <2>1. PICK a : /\ Send(Request("action", "containerAction", a)) /\ srv' = srv
                 /\ ui' = [ui EXCEPT !.busy = @ \cup {"action"}]
    BY <1>6 DEF ClickAction, Asks, PageIs
  <2>2. /\ DOMAIN ui' = DOMAIN ui /\ ui'.list = ui.list /\ ui'.project = ui.project
        /\ ui'.timer = ui.timer
    BY <1>3, <2>1
  <2>. QED BY <1>1, <1>2, <2>1, <2>2, OverviewAsked
<1>7. CASE ContainersRefreshed
  <2>1. CASE Then("refresh", LAMBDA l : [ui EXCEPT !.list = l, !.busy = @ \ {"loading"}])
    <3>1. PICK i \in DOMAIN net : /\ Arrived(i, "refresh") /\ HandledThen(i, <<>>) /\ srv' = srv
                                  /\ ui' = [ui EXCEPT !.list = Answer(i), !.busy = @ \ {"loading"}]
      BY <2>1 DEF Then, ThenAsks, PageIs
    <3>2. /\ net[i].by = "refresh" /\ net[i].state = "done" /\ Next1(i) /\ Removed(i)
          /\ ~SyncTold(net[i])
      BY <3>1 DEF Arrived, Removed, SyncTold
    <3>3. /\ DOMAIN ui' = DOMAIN ui /\ ui'.list = Answer(i) /\ ui'.project = ui.project
          /\ ui'.timer = ui.timer
      BY <1>3, <3>1
    <3>4. net[i].reply = <<ui'.list>>
      <4>1. PICK l : net[i].reply = <<l>>
        BY <1>3, <3>2 DEF BoxRequest
      <4>. QED BY <3>3, <4>1 DEF Answer
    <3>. QED BY <1>1, <1>2, <3>1, <3>2, <3>3, <3>4, OverviewTaken
  <2>2. CASE Catch("refresh", [ui EXCEPT !.busy = @ \ {"loading"}])
    BY <1>3, <2>2 DEF Catch, Failed, BoxRequest
  <2>. QED BY <1>7, <2>1, <2>2 DEF ContainersRefreshed
<1>8. CASE Synced
  <2>1. CASE Catch("sync", [ui EXCEPT !.busy = @ \ {"syncing"}])
    <3>1. PICK i \in DOMAIN net : /\ Failed(i, "sync") /\ Handled(i) /\ srv' = srv
                                  /\ ui' = [ui EXCEPT !.busy = @ \ {"syncing"}]
      BY <2>1 DEF Catch, PageIs
    <3>2. /\ DOMAIN ui' = DOMAIN ui /\ ui'.list = ui.list /\ ui'.project = ui.project
          /\ ui'.timer = ui.timer
      BY <1>3, <3>1
    <3>. QED BY <1>1, <1>2, <3>1, <3>2, OverviewTaken DEF Failed, Removed, SyncTold
  <2>2. CASE ThenAsks("sync",
               LAMBDA st : [ui EXCEPT !.project = st,
                                      !.busy = (@ \ {"syncing"}) \cup {"loading"}],
               <<Request("refresh", "listContainers", NoArg)>>)
    <3>1. PICK i \in DOMAIN net :
            /\ Arrived(i, "sync") /\ srv' = srv
            /\ HandledThen(i, <<Request("refresh", "listContainers", NoArg)>>)
            /\ ui' = [ui EXCEPT !.project = Answer(i), !.busy = (@ \ {"syncing"}) \cup {"loading"}]
      BY <2>2 DEF ThenAsks, PageIs
    <3>2. DOMAIN ui' = DOMAIN ui /\ ui'.project = Answer(i)
      BY <1>3, <3>1
    <3>. QED BY <1>1, <1>2, <3>1, <3>2, OverviewSynced
  <2>. QED BY <1>8, <2>1, <2>2 DEF Synced
<1>9. CASE ActionDone
  <2>1. PICK i \in DOMAIN net :
          /\ net[i].by = "action" /\ net[i].state # "sent" /\ Next1(i) /\ Removed(i) /\ srv' = srv
          /\ \/ ui' = [ui EXCEPT !.timer = TRUE]
             \/ net[i].state = "error" /\ ui' = [ui EXCEPT !.busy = @ \ {"action"}]
    BY <1>9 DEF ActionDone, Then, ThenAsks, Catch, Arrived, Failed, PageIs, Removed
  <2>2. /\ DOMAIN ui' = DOMAIN ui /\ ui'.list = ui.list /\ ui'.project = ui.project
        /\ ui'.timer = TRUE \/ (ui'.timer = ui.timer /\ net[i].state = "error")
    BY <1>3, <2>1
  <2>. QED BY <1>1, <1>2, <2>1, <2>2, OverviewTaken DEF SyncTold
<1>10. CASE ServeSync
  <2>. DEFINE st == StatusOf(srv.state[1])
  <2>1. PICK i \in DOMAIN net :
          /\ Served(i, "sync")
          /\ \/ Reply(i, st) /\ ServerIs([srv EXCEPT !.project = st])
             \/ Refuse(i) /\ NetOnly
    BY <1>10 DEF ServeSync, Makes
  <2>2. net[i].by = "sync" /\ net[i].state = "sent" /\ InTurn(i)
    BY <2>1 DEF Served
  <2>. HIDE DEF st
  <2>3. CASE Reply(i, st) /\ ServerIs([srv EXCEPT !.project = st])
    <3>1. AnsweredAt(net, net', i, "done", <<st>>)
      BY <1>2, <2>3, ReplyAnswers
    <3>2. net'[i].by = "sync" /\ net'[i].state = "done" /\ net'[i].reply = <<st>>
      BY <2>2, <3>1 DEF AnsweredAt
    <3>3. /\ DOMAIN srv' = DOMAIN srv /\ srv'.project = st /\ srv'.state = srv.state /\ ui' = ui
      BY <1>3, <2>3 DEF ServerIs
    <3>4. BoxRequest(net'[i]) /\ SyncTold(net'[i])
      BY <3>2 DEF BoxRequest, SyncTold
    <3>. QED BY <1>1, <1>2, <2>2, <2>3, <3>2, <3>3, <3>4, OverviewAnswered
  <2>. QED BY <1>4, <2>1, <2>2, <2>3
<1>11. CASE ServeAction
  <2>1. PICK i \in DOMAIN net :
          /\ Served(i, "action") /\ Reply(i, net[i].arg)
          /\ ServerIs([srv EXCEPT !.state[1][net[i].arg.box] = net[i].arg.to])
    BY <1>11 DEF ServeAction, Does, Makes
  <2>2. net[i].by = "action" /\ net[i].state = "sent" /\ InTurn(i)
    BY <2>1 DEF Served
  <2>3. AnsweredAt(net, net', i, "done", <<net[i].arg>>)
    BY <1>2, <2>1, ReplyAnswers
  <2>4. net'[i].by = "action" /\ net'[i].state = "done"
    BY <2>2, <2>3 DEF AnsweredAt
  <2>5. DOMAIN srv' = DOMAIN srv /\ srv'.project = srv.project /\ ui' = ui
    BY <1>3, <2>1 DEF ServerIs
  <2>6. BoxRequest(net'[i]) /\ ~SyncTold(net'[i])
    BY <2>4 DEF BoxRequest, SyncTold
  <2>. QED BY <1>1, <1>2, <2>1, <2>2, <2>4, <2>5, <2>6, OverviewAnswered
<1>12. CASE Tells("refresh", srv.state)
  <2>1. PICK i \in DOMAIN net : Served(i, "refresh") /\ Reply(i, srv.state) /\ NetOnly
    BY <1>12 DEF Tells, Finds
  <2>2. net[i].by = "refresh" /\ net[i].state = "sent" /\ InTurn(i)
    BY <2>1 DEF Served
  <2>3. AnsweredAt(net, net', i, "done", <<srv.state>>)
    BY <1>2, <2>1, ReplyAnswers
  <2>4. /\ net'[i].by = "refresh" /\ net'[i].state = "done" /\ net'[i].reply = <<srv.state>>
        /\ net'[i].call = net[i].call /\ net'[i].arg = net[i].arg
    BY <2>2, <2>3 DEF AnsweredAt
  <2>5. srv' = srv /\ ui' = ui
    BY <2>1 DEF NetOnly
  <2>6. BoxRequest(net'[i]) /\ ~SyncTold(net'[i])
    BY <1>3, <2>2, <2>4 DEF BoxRequest, SyncTold
  <2>. QED BY <1>1, <1>2, <2>1, <2>2, <2>4, <2>5, <2>6, OverviewAnswered
<1>13. CASE Forbid
  <2>1. PICK i \in DOMAIN net : /\ net[i].state = "sent" /\ InTurn(i) /\ ~Authorized(net[i].call)
                                /\ Refuse(i) /\ NetOnly
    BY <1>13 DEF Forbid
  <2>2. Authorized("listContainers")
    BY CallNeeds, WhoMay
  <2>3. net[i].by # "refresh"
    BY <1>3, <2>1, <2>2 DEF BoxRequest
  <2>. QED BY <1>4, <2>1, <2>3
<1>14. CASE Fault
  BY <1>14 DEF Fault
<1>. QED BY <1>5, <1>6, <1>7, <1>8, <1>9, <1>10, <1>11, <1>12, <1>13, <1>14 DEF OverviewNext

LEMMA OverviewStarts == ASSUME ProjectsInit PROVE OverviewInv
<1>. SUFFICES ASSUME page = "overview" PROVE OverviewInv
  BY DEF OverviewInv
<1>1. OverviewInit
  BY OpensOn
<1>. DEFINE x == Request("refresh", "listContainers", NoArg)
<1>2. x.by = "refresh" /\ x.call = "listContainers" /\ x.state = "sent" /\ x.arg = NoArg
  BY DEF Request
<1>3. /\ net = <<x>> /\ DOMAIN ui = {"busy", "list", "project", "timer"}
      /\ DOMAIN srv = {"state", "project"} /\ ui.project = "stopped" /\ srv.project = "stopped"
  BY <1>1 DEF OverviewInit
<1>. HIDE DEF x
<1>4. (\A k \in DOMAIN net : BoxRequest(net[k])) /\ AnsweredFirst(net)
  BY <1>2, <1>3 DEF BoxRequest, AnsweredFirst
<1>5. ListComes
  BY <1>2, <1>3 DEF ListComes, UpToDate, LastOf, Listings
<1>6. StatusComes
  BY <1>2, <1>3 DEF StatusComes, SyncTold
<1>. QED BY <1>3, <1>4, <1>5, <1>6 DEF OverviewInv

-----------------------------------------------------------------------------
(* The browser of files *)

FileRequest(x) ==
  x.by = "browse" =>
    /\ x.call = "fileBrowse" /\ x.state \in {"sent", "done"}
    /\ x.state = "done" => x.reply = <<SubDirs(x.arg)>>

IsBrowsing   == \E k \in DOMAIN net : net[k].by = "browse"
EntriesThere == ui.entries \in {<<>>, <<SubDirs(ui.path)>>}

\* Whoever may manage files is never refused: a path that the page shows without
\* its entries is one that it is reading.
FilesInv ==
  page = "fileBrowser" /\ line = "orderly" /\ Can("manage_files") =>
    /\ DOMAIN ui = {"busy", "tab", "path", "mount", "entries", "open"}
    /\ \A k \in DOMAIN net : FileRequest(net[k])
    /\ IsBrowsing \/ EntriesThere

\* The page asks for a path, or for a file.
LEMMA FilesAsked ==
  ASSUME FilesInv, page = "fileBrowser", line = "orderly", Can("manage_files"), AreRequests(net),
         UNCHANGED <<page, perms, line>>, DOMAIN ui' = DOMAIN ui,
         NEW by, NEW call, NEW arg, Send(Request(by, call, arg)),
         \/ by = "browse" /\ call = "fileBrowse"
         \/ by # "browse" /\ ui'.entries = ui.entries /\ ui'.path = ui.path
  PROVE  FilesInv'
<1>. DEFINE x == Request(by, call, arg)
            r == Extended(net, x)
<1>1. /\ Added(net, r, x) /\ x.by = by /\ x.call = call
      /\ net' = r
  BY AsksAdds DEF Send, Sends, Extended
<1>2. x.state = "sent"
  BY <1>1 DEF Added
<1>. HIDE DEF x, r
<1>3. /\ \A k \in DOMAIN net : k \in DOMAIN r /\ r[k] = net[k]
      /\ \A k \in DOMAIN r : (k \in DOMAIN net /\ r[k] = net[k]) \/ r[k] = x
      /\ \E k \in DOMAIN r : r[k] = x
  <2>1. Len(net) + 1 \in DOMAIN r /\ r[Len(net) + 1] = x
    BY <1>1 DEF Added
  <2>. QED BY <1>1, <2>1 DEF Added
<1>4. \A k \in DOMAIN net' : FileRequest(net'[k])
  BY <1>1, <1>2, <1>3 DEF FilesInv, FileRequest
<1>5. (IsBrowsing \/ EntriesThere)'
  <2>1. IsBrowsing => IsBrowsing'
    BY <1>1, <1>3 DEF IsBrowsing
  <2>2. by = "browse" => IsBrowsing'
    BY <1>1, <1>3 DEF IsBrowsing
  <2>. QED BY <2>1, <2>2 DEF FilesInv, EntriesThere
<1>. QED BY <1>4, <1>5 DEF FilesInv

\* The server answers.
LEMMA FilesAnswered ==
  ASSUME FilesInv, page = "fileBrowser", line = "orderly", Can("manage_files"), AreRequests(net),
         NEW i \in DOMAIN net, Refuse(i) \/ \E v : Reply(i, v),
         UNCHANGED <<page, perms, line, ui>>, FileRequest(net'[i])
  PROVE  FilesInv'
<1>1. PICK st, v : AnsweredAt(net, net', i, st, v)
  BY MarkIsAnswer
<1>2. \A k \in DOMAIN net' : FileRequest(net'[k])
  BY <1>1 DEF FilesInv, AnsweredAt
<1>3. IsBrowsing => IsBrowsing'
  BY <1>1 DEF IsBrowsing, AnsweredAt
<1>. QED BY <1>2, <1>3 DEF FilesInv, EntriesThere

\* The page takes an answer: the entries of a path, or a file.
LEMMA FilesTaken ==
  ASSUME FilesInv, page = "fileBrowser", line = "orderly", Can("manage_files"), AreRequests(net),
         NEW i \in DOMAIN net, Next1(i), Removed(i), UNCHANGED <<page, perms, line>>,
         DOMAIN ui' = DOMAIN ui,
         \/ ui'.entries = <<SubDirs(ui'.path)>>
         \/ net[i].by # "browse" /\ ui'.entries = ui.entries /\ ui'.path = ui.path
  PROVE  FilesInv'
<1>1. net' = RemoveAt(net, i)
  BY TakesOne DEF Removed, Handled, HandledThen
<1>2. i = 1 /\ Advanced(net, net')
  BY <1>1, OrderlyTakes
<1>3. /\ \A k \in DOMAIN net' : k + 1 \in DOMAIN net /\ net'[k] = net[k + 1]
      /\ \A k \in DOMAIN net : k # 1 => \E j \in DOMAIN net' : net'[j] = net[k]
  <2>1. \A k \in DOMAIN net' : k + 1 \in DOMAIN net /\ net'[k] = net[k + 1]
    BY <1>2 DEF Advanced
  <2>2. \A k \in DOMAIN net : k # 1 => k - 1 \in DOMAIN net' /\ k - 1 + 1 = k
    BY <1>2 DEF Advanced
  <2>3. \A k \in DOMAIN net : k # 1 => net'[k - 1] = net[k]
    BY <2>1, <2>2
  <2>. QED BY <2>1, <2>2, <2>3
<1>4. \A k \in DOMAIN net' : FileRequest(net'[k])
  BY <1>3 DEF FilesInv
<1>5. net[i].by # "browse" /\ IsBrowsing => IsBrowsing'
  BY <1>2, <1>3 DEF IsBrowsing
<1>. QED BY <1>4, <1>5 DEF FilesInv, EntriesThere

LEMMA FilesMove ==
  ASSUME FilesInv, FlagsInv, FileBrowserNext
  PROVE  FilesInv'
<1>1. page = "fileBrowser" /\ page' = page /\ perms' = perms /\ line' = line
  BY FileBrowserStays DEF FileBrowserNext, session
<1>. SUFFICES ASSUME line = "orderly", Can("manage_files") PROVE FilesInv'
  BY <1>1 DEF FilesInv, Can
<1>2. AreRequests(net)
  BY <1>1 DEF FlagsInv, DeployPages
<1>3. /\ DOMAIN ui = {"busy", "tab", "path", "mount", "entries", "open"}
      /\ \A k \in DOMAIN net : FileRequest(net[k])
      /\ IsBrowsing \/ EntriesThere
  BY <1>1 DEF FilesInv
<1>4. CASE OpenLocalTab \/ CloseBrowser \/ TypeMount \/ UseLocalFile
  <2>1. /\ net' = net /\ DOMAIN ui' = DOMAIN ui /\ ui'.entries = ui.entries /\ ui'.path = ui.path
    BY <1>3, <1>4 DEF OpenLocalTab, CloseBrowser, TypeMount, UseLocalFile, Becomes, PageIs
  <2>. QED BY <1>1, <1>3, <2>1 DEF FilesInv, IsBrowsing, EntriesThere, Can
<1>5. CASE OpenServerTab \/ ClickGo \/ ClickDirectory \/ ServerUp
  <2>1. \E p : Send(Request("browse", "fileBrowse", p)) /\ DOMAIN ui' = DOMAIN ui
    BY <1>3, <1>5 DEF OpenServerTab, ClickGo, ClickDirectory, ServerUp, BrowseServer, Asks, PageIs
  <2>. QED BY <1>1, <1>2, <2>1, FilesAsked
<1>6. CASE ClickFile
  <2>1. PICK by \in {"preview", "use"} : Send(Request(by, "fileRead", ui.path)) /\ ui' = ui
    BY <1>6 DEF ClickFile, Asks, PageIs
  <2>. QED BY <1>1, <1>2, <2>1, FilesAsked
<1>7. CASE ServerBrowsed
  <2>1. CASE Catch("browse", [ui EXCEPT !.busy = {}])
    BY <1>3, <2>1 DEF Catch, Failed, FileRequest
  <2>2. CASE \E i \in DOMAIN net :
               /\ Arrived(i, "browse") /\ Handled(i)
               /\ PageIs([ui EXCEPT !.entries = <<Answer(i)>>, !.path = net[i].arg, !.busy = {}])
    <3>1. PICK i \in DOMAIN net :
            /\ Arrived(i, "browse") /\ Handled(i)
            /\ ui' = [ui EXCEPT !.entries = <<Answer(i)>>, !.path = net[i].arg, !.busy = {}]
      BY <2>2 DEF PageIs
    <3>2. net[i].reply = <<SubDirs(net[i].arg)>>
      BY <1>3, <3>1 DEF Arrived, FileRequest
    <3>3. Answer(i) = SubDirs(net[i].arg)
      BY <3>2 DEF Answer
    <3>4. DOMAIN ui' = DOMAIN ui /\ ui'.path = net[i].arg /\ ui'.entries = <<Answer(i)>>
      BY <1>3, <3>1
    <3>5. ui'.entries = <<SubDirs(ui'.path)>>
      BY <3>3, <3>4
    <3>. QED BY <1>1, <1>2, <3>1, <3>4, <3>5, FilesTaken DEF Arrived, Removed
  <2>. QED BY <1>7, <2>1, <2>2 DEF ServerBrowsed
<1>8. CASE FilePreviewed \/ FileUsed \/ DropError({"use"})
  <2>1. /\ \E i \in DOMAIN net : net[i].by # "browse" /\ Next1(i) /\ Removed(i)
        /\ DOMAIN ui' = DOMAIN ui /\ ui'.entries = ui.entries /\ ui'.path = ui.path
    BY <1>3, <1>8 DEF FilePreviewed, FileUsed, DropError, Finally, Then, ThenAsks, Catch, Arrived,
                      Failed, PageIs, Removed
  <2>. QED BY <1>1, <1>2, <2>1, FilesTaken
<1>9. CASE Finds("browse", SubDirs)
  <2>1. PICK i \in DOMAIN net : Served(i, "browse") /\ Reply(i, SubDirs(net[i].arg)) /\ ui' = ui
    BY <1>9 DEF Finds, NetOnly
  <2>2. AnsweredAt(net, net', i, "done", <<SubDirs(net[i].arg)>>)
    BY <1>2, <2>1, ReplyAnswers
  <2>3. FileRequest(net'[i])
    BY <1>3, <2>1, <2>2 DEF AnsweredAt, FileRequest, Served
  <2>. QED BY <1>1, <1>2, <2>1, <2>3, FilesAnswered
<1>10. CASE \E by \in {"preview", "use"} : Finds(by, LAMBDA p : p)
  <2>1. PICK i \in DOMAIN net : net[i].by # "browse" /\ Reply(i, net[i].arg) /\ ui' = ui
    BY <1>10 DEF Finds, Served, NetOnly
  <2>2. AnsweredAt(net, net', i, "done", <<net[i].arg>>)
    BY <1>2, <2>1, ReplyAnswers
  <2>3. FileRequest(net'[i])
    BY <2>1, <2>2 DEF AnsweredAt, FileRequest
  <2>. QED BY <1>1, <1>2, <2>1, <2>3, FilesAnswered
<1>11. CASE Forbid
  <2>1. PICK i \in DOMAIN net : ~Authorized(net[i].call) /\ Refuse(i) /\ NetOnly
    BY <1>11 DEF Forbid
  <2>2. Authorized("fileBrowse")
    BY CallNeeds, WhoMay
  <2>3. net[i].by # "browse" /\ ui' = ui
    BY <1>3, <2>1, <2>2 DEF FileRequest, NetOnly
  <2>4. FileRequest(net'[i])
    <3>1. AnsweredAt(net, net', i, "error", <<>>)
      BY <1>2, <2>1, RefuseAnswers
    <3>. QED BY <2>3, <3>1 DEF AnsweredAt, FileRequest
  <2>. QED BY <1>1, <1>2, <2>1, <2>3, <2>4, FilesAnswered
<1>12. CASE Fault
  BY <1>12 DEF Fault
<1>. QED BY <1>4, <1>5, <1>6, <1>7, <1>8, <1>9, <1>10, <1>11, <1>12 DEF FileBrowserNext

LEMMA FilesStart == ASSUME ProjectsInit PROVE FilesInv
<1>. SUFFICES ASSUME page = "fileBrowser" PROVE FilesInv
  BY DEF FilesInv
<1>1. FileBrowserInit
  BY OpensOn
<1>2. /\ DOMAIN ui = {"busy", "tab", "path", "mount", "entries", "open"} /\ ui.entries = <<>>
      /\ net = <<>>
  BY <1>1 DEF FileBrowserInit
<1>. QED BY <1>2 DEF FilesInv, EntriesThere

-----------------------------------------------------------------------------
(* The pages of a project *)

ProjectInv == HeaderInv /\ OverviewInv /\ MatchInv /\ DashboardInv /\ FilesInv /\ WindowInv

LEMMA ProjectKept ==
  ASSUME ProjectInv, FlagsInv, [ProjectsNext]_webVars
  PROVE  ProjectInv'
<1>1. CASE UNCHANGED webVars
  <2>1. UNCHANGED <<page, line, perms, ui, srv, net>>
    BY <1>1 DEF webVars, session
  <2>2. HeaderInv' /\ OverviewInv'
    BY <2>1 DEF ProjectInv, HeaderInv, HeaderComes, OverviewInv, ListComes, ActionTold,
                StatusComes, AnsweredFirst
  <2>3. MatchInv' /\ DashboardInv'
    BY <2>1 DEF ProjectInv, MatchInv, DashboardInv, DashboardLoading, DashboardShown, AnsweredFirst
  <2>4. FilesInv' /\ WindowInv'
    BY <1>1, <2>1, WindowKept DEF ProjectInv, FilesInv, IsBrowsing, EntriesThere, Can
  <2>. QED BY <2>2, <2>3, <2>4 DEF ProjectInv
<1>2. CASE ProjectsNext
  <2>1. page' = page
    BY OnePage
  <2>2. CASE page = "project"
    <3>1. HeaderInv'
      BY <1>2, <2>2, OnPage, HeaderMoves DEF ProjectInv
    <3>. QED BY <2>1, <2>2, <3>1 DEF ProjectInv, OverviewInv, MatchInv, DashboardInv, FilesInv, WindowInv
  <2>3. CASE page = "overview"
    <3>1. OverviewInv'
      BY <1>2, <2>3, OnPage, OverviewKept DEF ProjectInv
    <3>. QED BY <2>1, <2>3, <3>1 DEF ProjectInv, HeaderInv, MatchInv, DashboardInv, FilesInv, WindowInv
  <2>4. CASE page = "dashboard"
    <3>1. MatchInv' /\ DashboardInv'
      BY <1>2, <2>4, OnPage, DashboardMoves DEF ProjectInv
    <3>. QED BY <2>1, <2>4, <3>1 DEF ProjectInv, HeaderInv, OverviewInv, FilesInv, WindowInv
  <2>5. CASE page = "fileBrowser"
    <3>1. FilesInv'
      BY <1>2, <2>5, OnPage, FilesMove DEF ProjectInv
    <3>. QED BY <2>1, <2>5, <3>1 DEF ProjectInv, HeaderInv, OverviewInv, MatchInv, DashboardInv, WindowInv
  <2>6. CASE page \notin {"project", "overview", "dashboard", "fileBrowser"}
    <3>1. WindowInv'
      BY WindowKept DEF ProjectInv
    <3>. QED BY <2>1, <2>6, <3>1 DEF ProjectInv, HeaderInv, OverviewInv, MatchInv, DashboardInv, FilesInv
  <2>. QED BY <2>2, <2>3, <2>4, <2>5, <2>6
<1>. QED BY <1>1, <1>2

\* What the pages show follows, once nothing is under way.
LEMMA ProjectShownNow == ASSUME ProjectInv PROVE ProjectShown
<1>. SUFFICES ASSUME Quiet
              PROVE  /\ page = "project" => ui.shown = ui.at
                     /\ page = "overview" /\ ~ui.timer => ui.list = srv.state /\ ui.project = srv.project
                     /\ page = "dashboard" => ui.match \subseteq ui.list /\ ui.list = srv.projects
                     /\ page = "fileBrowser" /\ Can("manage_files") =>
                          ui.entries \in {<<>>, <<SubDirs(ui.path)>>}
  BY DEF ProjectShown
<1>1. ASSUME page = "project" PROVE ui.shown = ui.at
  <2>1. UpToDate(<<>>, Loads, ui.at, <<ui.shown>>, ui.at)
    BY <1>1 DEF ProjectInv, HeaderInv, HeaderComes, Quiet
  <2>2. <<ui.shown>> = <<ui.at>>
    BY <2>1, UpToDateNow
  <2>. QED BY <2>2
<1>2. ASSUME page = "overview", ~ui.timer
      PROVE  ui.list = srv.state /\ ui.project = srv.project
  <2>1. UpToDate(<<>>, Listings, NoArg, <<ui.list>>, srv.state)
    BY <1>2 DEF ProjectInv, OverviewInv, ListComes, ActionTold, Quiet
  <2>2. <<ui.list>> = <<srv.state>>
    BY <2>1, UpToDateNow
  <2>3. ui.project = srv.project
    BY <1>2 DEF ProjectInv, OverviewInv, StatusComes, Quiet
  <2>. QED BY <2>2, <2>3
<1>3. ASSUME page = "dashboard"
      PROVE  ui.match \subseteq ui.list /\ ui.list = srv.projects
  <2>1. \A t : t \in srv.projects <=> WillShow(<<>>, ui.list, t, Refreshes, {}, Erasures)
    BY <1>3 DEF ProjectInv, DashboardInv, DashboardLoading, DashboardShown, Quiet
  <2>2. \A t : t \in srv.projects <=> t \in ui.list
    BY <2>1, ShowsNow
  <2>3. ui.match \subseteq ui.list
    BY <1>3 DEF ProjectInv, MatchInv
  <2>. QED BY <2>2, <2>3
<1>4. ASSUME page = "fileBrowser", Can("manage_files")
      PROVE  ui.entries \in {<<>>, <<SubDirs(ui.path)>>}
  BY <1>4 DEF ProjectInv, FilesInv, IsBrowsing, EntriesThere, Quiet
<1>. QED BY <1>1, <1>2, <1>3, <1>4

\* Once nothing is under way on a line that keeps the order, the header is of
\* the project of the route, the containers and the status are the server's, the
\* dashboard has every project and a list of files is of its path; and always a
\* page of the dashboard has some project, and a log view the last lines that
\* its stream carried.
THEOREM ProjectPagesCorrect == ProjectsSpec => []ProjectPagesAreTrue
<1>1. ProjectInv => ProjectPagesAreTrue
  <2>1. WindowInv => LogIsWindow
    BY DEF WindowInv, LogIsWindow, IsWindow
  <2>. QED BY <2>1, ProjectShownNow, PagesNotEmpty DEF ProjectInv, ProjectPagesAreTrue
<1>2. ProjectsInit => ProjectInv
  BY HeaderStarts, OverviewStarts, DashboardStarts, FilesStart, WindowStarts DEF ProjectInv
<1>3. ProjectInv /\ FlagsInv /\ [ProjectsNext]_webVars => ProjectInv'
  BY ProjectKept
<1>. QED BY <1>1, <1>2, <1>3, FlagsInvHolds, PTL DEF ProjectsSpec
=============================================================================
