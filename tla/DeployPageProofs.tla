-------------------------- MODULE DeployPageProofs --------------------------
(***************************************************************************)
(* Theorems about the pages that deploy, for every number of deployments   *)
(* and log lines and every capacity of the hub's buffers and channels:     *)
(* what the hub brings to the page, and what the page shows of it.         *)
(***************************************************************************)
EXTENDS DeployPage, RequestsProofs, SequenceTheorems, FunctionTheorems, FiniteSetTheorems, TLAPS

DeployPages == {"deploy", "deployModal"}

-----------------------------------------------------------------------------
(* The inductive invariant: the hub *)

Phases   == {"none", "starting", "running", "failed", "ended", "said", "closed"}
\* The phases of a deployment that is over.
After    == {"failed", "ended", "said", "closed"}
Statuses == {"none", "running", "success", "failed"}
Messages == {"log", "error", "success", "failed"}

StreamType ==
  [buf : Seq(Messages), closed : BOOLEAN, client : BOOLEAN, chan : Seq(Messages),
   open : BOOLEAN, toSend : {<<>>} \cup {<<m>> : m \in Messages},
   closing : BOOLEAN, wire : Seq(Messages), conn : {"none", "live", "over"}]

\* The log lines among messages.
Logs(q) == Cardinality({k \in DOMAIN q : q[k] = "log"})

\* Those on their way to the subscriber.
Backlog(s) == Logs(s.wire) + Logs(s.chan) + Logs(s.toSend)

\* What the messages say of the deployment is true.
Told(q, phase, rec) ==
  \A k \in DOMAIN q :
    q[k] # "log" => phase \in After /\ (q[k] = "success" => rec = "success")

StreamOK(s, phase, rec, lines) ==
  /\ s \in StreamType
  /\ Told(s.buf, phase, rec) /\ Told(s.wire, phase, rec)
  /\ Told(s.chan, phase, rec) /\ Told(s.toSend, phase, rec)
  /\ s.closing \/ ~s.open => phase = "closed" /\ s.toSend = <<>>
  /\ Logs(s.buf) <= lines

\* Nobody has subscribed to the stream yet.
Unheard(s) ==
  /\ ~s.client /\ s.open /\ ~s.closing /\ s.conn = "none"
  /\ s.wire = <<>> /\ s.chan = <<>> /\ s.toSend = <<>>

ServerType ==
  [last : 0..MaxDeploys, phase : [Deps -> Phases], lines : [Deps -> Nat],
   rec : [Deps -> Statuses], stream : [Deps -> StreamType]]

RecordOK(phase, rec) ==
  /\ phase = "running" <=> rec = "running"
  /\ phase = "ended" => rec # "none"

ServerInv ==
  /\ srv \in ServerType
  /\ \A d \in Deps :
       /\ StreamOK(srv.stream[d], srv.phase[d], srv.rec[d], srv.lines[d])
       /\ RecordOK(srv.phase[d], srv.rec[d])
       /\ d > srv.last => srv.phase[d] = "none" /\ Unheard(srv.stream[d])

-----------------------------------------------------------------------------
(* The requests and the page *)

Answers == Nat \cup [Deps -> Statuses]

RequestType ==
  [by : {"reload", "startDeploy", "cancel"},
   call : {"listDeployments", "triggerDeploy", "cancelDeploy"},
   arg : Nat \cup {NoArg}, state : {"sent", "done", "error"},
   reply : Seq(Answers)]

\* With the server at s, the answer names a deployment that the page has not
\* subscribed to yet.
Fresh(r, s) ==
  r.by = "startDeploy" /\ r.state = "done" =>
    /\ Head(r.reply) \in Deps /\ Head(r.reply) <= s.last
    /\ Unheard(s.stream[Head(r.reply)])

\* The history is read again for a deployment that is over; a deployment that
\* is cancelled has been started.
ArgOK(r, s) ==
  /\ r.by = "reload" => /\ r.arg \in 0..MaxDeploys
                        /\ r.arg # 0 => s.phase[r.arg] \in After
  /\ r.by = "cancel" => r.arg \in Deps

Replied(r) == r.state = "done" => Head(r.reply) \in Answers

RequestOK(r, s) == Replied(r) /\ Fresh(r, s) /\ ArgOK(r, s)

NetInv ==
  /\ net \in Seq(RequestType)
  /\ \A i \in DOMAIN net : RequestOK(net[i], srv)
  /\ \A i, j \in DOMAIN net :
       net[i].by = "startDeploy" /\ net[j].by = "startDeploy" => i = j

PageType ==
  [deploying : BOOLEAN, list : Answers, es : 0..MaxDeploys, log : Seq(Messages)]

ModalType ==
  [deploying : BOOLEAN, es : 0..MaxDeploys, done : BOOLEAN, success : BOOLEAN,
   cancelling : BOOLEAN, dep : 0..MaxDeploys, log : Seq(Messages)]

UiType ==
  /\ page = "deploy" => ui \in PageType
  /\ page = "deployModal" => ui \in ModalType

\* The modal has one deployment, and is right when it says that it succeeded.
ModalOK ==
  page = "deployModal" =>
    /\ ui.es # 0 => ui.es = ui.dep
    /\ ui.success => /\ ui.dep # 0 /\ ~Waiting("startDeploy")
                     /\ srv.phase[ui.dep] \in After
                     /\ srv.rec[ui.dep] = "success"

\* The page deploys while it waits for its deployment or listens to it, never
\* both; what it has heard and will hear has been logged.
LogOK ==
  /\ ui.deploying <=> ui.es # 0 \/ Waiting("startDeploy")
  /\ ui.es # 0 => /\ ~Waiting("startDeploy")
                  /\ ui.es <= srv.last
                  /\ Logs(ui.log) + Backlog(srv.stream[ui.es])
                       <= srv.lines[ui.es]
  /\ Waiting("startDeploy") => ui.log = <<>>

PageInv == UiType /\ ModalOK /\ LogOK

DeployInv == page \in DeployPages => ServerInv /\ NetInv /\ PageInv

-----------------------------------------------------------------------------
(* Sequences *)

LEMMA LogsType ==
  ASSUME NEW q \in Seq(Messages)
  PROVE  /\ IsFiniteSet({k \in DOMAIN q : q[k] = "log"})
         /\ Logs(q) \in Nat
<1>1. IsFiniteSet(1..Len(q))
  BY FS_Interval
<1>2. {k \in DOMAIN q : q[k] = "log"} \subseteq 1..Len(q)
  OBVIOUS
<1>3. IsFiniteSet({k \in DOMAIN q : q[k] = "log"})
  BY <1>1, <1>2, FS_Subset
<1>. QED BY <1>3, FS_CardinalityType DEF Logs

LEMMA LogsEmpty == Logs(<<>>) = 0
<1>1. {k \in DOMAIN <<>> : <<>>[k] = "log"} = {}
  OBVIOUS
<1>. QED BY <1>1, FS_EmptySet DEF Logs

LEMMA LogsAppend ==
  ASSUME NEW q \in Seq(Messages), NEW m \in Messages
  PROVE  /\ Append(q, m) \in Seq(Messages)
         /\ Logs(Append(q, m)) = Logs(q) + (IF m = "log" THEN 1 ELSE 0)
<1>. DEFINE r == Append(q, m)
            A == {k \in DOMAIN q : q[k] = "log"}
            B == {k \in DOMAIN r : r[k] = "log"}
<1>1. /\ r \in Seq(Messages) /\ Len(r) = Len(q) + 1
      /\ \A k \in 1..Len(q) : r[k] = q[k]
      /\ r[Len(q) + 1] = m
  OBVIOUS
<1>. HIDE DEF r
<1>2. Len(q) \in Nat /\ DOMAIN q = 1..Len(q) /\ DOMAIN r = 1..Len(q) + 1
  BY <1>1
<1>3. B = IF m = "log" THEN A \cup {Len(q) + 1} ELSE A
  BY <1>1, <1>2
<1>4. IsFiniteSet(A) /\ Len(q) + 1 \notin A
  BY <1>2, LogsType
<1>. HIDE DEF A, B
<1>5. Cardinality(B) = Cardinality(A) + (IF m = "log" THEN 1 ELSE 0)
  <2>1. CASE m = "log"
    BY <1>3, <1>4, <2>1, FS_AddElement, FS_CardinalityType
  <2>2. CASE m # "log"
    BY <1>3, <1>4, <2>2, FS_CardinalityType
  <2>. QED BY <2>1, <2>2
<1>. QED BY <1>1, <1>5 DEF Logs, A, B, r

LEMMA LogsTail ==
  ASSUME NEW q \in Seq(Messages), q # <<>>
  PROVE  /\ Head(q) \in Messages /\ Tail(q) \in Seq(Messages)
         /\ Logs(q) = Logs(Tail(q)) + (IF Head(q) = "log" THEN 1 ELSE 0)
<1>. DEFINE r == Tail(q)
            A == {k \in DOMAIN r : r[k] = "log"}
            B == {k \in DOMAIN q : q[k] = "log"}
            C == {k + 1 : k \in A}
<1>1. /\ Head(q) \in Messages /\ r \in Seq(Messages) /\ Len(r) = Len(q) - 1
      /\ Head(q) = q[1]
      /\ \A k \in 1..Len(r) : r[k] = q[k + 1]
  BY HeadTailProperties
<1>. HIDE DEF r
<1>2. /\ Len(q) \in Nat \ {0} /\ Len(r) \in Nat
      /\ DOMAIN q = 1..Len(q) /\ DOMAIN r = 1..Len(q) - 1
  BY <1>1
<1>3. IsFiniteSet(A) /\ A \subseteq 1..Len(r)
  BY <1>1, <1>2, LogsType
<1>4. IsFiniteSet(C) /\ Cardinality(C) = Cardinality(A)
  <2>. DEFINE f == [k \in A |-> k + 1]
  <2>1. f \in Bijection(A, C)
    <3>1. f \in [A -> C]
      OBVIOUS
    <3>2. \A a, b \in A : f[a] = f[b] => a = b
      BY <1>2, <1>3
    <3>3. \A t \in C : \E a \in A : f[a] = t
      OBVIOUS
    <3>. HIDE DEF f, A, C
    <3>. QED BY <3>1, <3>2, <3>3, Fun_IsBij
  <2>2. ExistsBijection(A, C)
    BY <2>1, Zenon DEF ExistsBijection
  <2>. HIDE DEF A, C
  <2>. QED BY <1>3, <2>2, FS_Bijection
<1>5. 1 \notin C
  BY <1>2, <1>3
<1>6. B = IF Head(q) = "log" THEN C \cup {1} ELSE C
  <2>1. \A k \in 2..Len(q) : q[k] = r[k - 1] /\ k - 1 \in DOMAIN r
    BY <1>1, <1>2
  <2>2. \A k \in 2..Len(q) : k \in B <=> k \in C
    BY <1>1, <1>2, <2>1
  <2>3. 1 \in B <=> Head(q) = "log"
    BY <1>1, <1>2
  <2>4. B \subseteq 1..Len(q) /\ C \subseteq 2..Len(q)
    BY <1>2, <1>3
  <2>5. \A k \in 1..Len(q) : k = 1 \/ k \in 2..Len(q)
    BY <1>2
  <2>. HIDE DEF B, C
  <2>6. CASE Head(q) = "log"
    <3>1. 1 \in 1..Len(q) /\ \A k \in 2..Len(q) : k \in 1..Len(q)
      BY <1>2
    <3>2. \A k : k \in B <=> k \in C \cup {1}
      BY <2>2, <2>3, <2>4, <2>5, <2>6, <3>1, Zenon
    <3>. QED BY <2>6, <3>2
  <2>7. CASE Head(q) # "log"
    <3>1. \A k : k \in B <=> k \in C
      BY <2>2, <2>3, <2>4, <2>5, <2>7, Zenon
    <3>. QED BY <2>7, <3>1
  <2>. QED BY <2>6, <2>7
<1>. HIDE DEF A, B, C
<1>7. Cardinality(B) = Cardinality(C) + (IF Head(q) = "log" THEN 1 ELSE 0)
  <2>1. CASE Head(q) = "log"
    BY <1>4, <1>5, <1>6, <2>1, FS_AddElement, FS_CardinalityType
  <2>2. CASE Head(q) # "log"
    BY <1>4, <1>6, <2>2, FS_CardinalityType
  <2>. QED BY <2>1, <2>2
<1>. QED BY <1>1, <1>4, <1>7 DEF Logs, A, B, r

LEMMA LogsOne ==
  ASSUME NEW m \in Messages
  PROVE  Logs(<<m>>) = IF m = "log" THEN 1 ELSE 0
<1>1. {k \in DOMAIN <<m>> : <<m>>[k] = "log"} = IF m = "log" THEN {1} ELSE {}
  OBVIOUS
<1>2. Cardinality({1}) = 1
  BY FS_Singleton
<1>. QED BY <1>1, <1>2, FS_EmptySet DEF Logs

-----------------------------------------------------------------------------
(* What the messages tell *)

\* A deployment that is over stays as it ended.
Later(phase, rec, phase2, rec2) ==
  /\ phase \in After => phase2 \in After /\ rec2 = rec
  /\ phase = "closed" => phase2 = "closed"

True(m, phase, rec) ==
  m # "log" => phase \in After /\ (m = "success" => rec = "success")

LEMMA ToldLater ==
  ASSUME NEW q, NEW phase, NEW rec, NEW phase2, NEW rec2,
         Told(q, phase, rec), Later(phase, rec, phase2, rec2)
  PROVE  Told(q, phase2, rec2)
BY DEF Told, Later

LEMMA ToldEmpty ==
  ASSUME NEW phase, NEW rec PROVE Told(<<>>, phase, rec)
BY DEF Told

LEMMA ToldOne ==
  ASSUME NEW m \in Messages, NEW phase, NEW rec
  PROVE  Told(<<m>>, phase, rec) <=> True(m, phase, rec)
BY DEF Told, True

LEMMA ToldAppend ==
  ASSUME NEW q \in Seq(Messages), NEW m \in Messages, NEW phase, NEW rec,
         Told(q, phase, rec), True(m, phase, rec)
  PROVE  Told(Append(q, m), phase, rec)
<1>1. /\ DOMAIN Append(q, m) = 1..Len(q) + 1 /\ DOMAIN q = 1..Len(q)
      /\ \A k \in 1..Len(q) : Append(q, m)[k] = q[k]
      /\ Append(q, m)[Len(q) + 1] = m
      /\ Len(q) \in Nat
  OBVIOUS
<1>2. \A k \in 1..Len(q) + 1 : k \in 1..Len(q) \/ k = Len(q) + 1
  BY <1>1
<1>. QED BY <1>1, <1>2, Zenon DEF Told, True

LEMMA ToldTail ==
  ASSUME NEW q \in Seq(Messages), q # <<>>, NEW phase, NEW rec,
         Told(q, phase, rec)
  PROVE  Told(Tail(q), phase, rec) /\ True(Head(q), phase, rec)
<1>1. /\ Tail(q) \in Seq(Messages) /\ Len(Tail(q)) = Len(q) - 1
      /\ \A k \in 1..Len(Tail(q)) : Tail(q)[k] = q[k + 1]
      /\ Head(q) = q[1] /\ Len(q) \in Nat \ {0}
  BY HeadTailProperties
<1>2. DOMAIN Tail(q) = 1..Len(q) - 1 /\ DOMAIN q = 1..Len(q)
  BY <1>1
<1>3. \A k \in 1..Len(q) - 1 : k + 1 \in 1..Len(q)
  BY <1>1
<1>4. Told(Tail(q), phase, rec)
  BY <1>1, <1>2, <1>3 DEF Told
<1>5. 1 \in DOMAIN q
  BY <1>1, <1>2
<1>. QED BY <1>1, <1>4, <1>5 DEF Told, True

-----------------------------------------------------------------------------
(* The hub *)

LEMMA BacklogType ==
  ASSUME NEW s \in StreamType
  PROVE  /\ Logs(s.buf) \in Nat /\ Logs(s.wire) \in Nat
         /\ Logs(s.chan) \in Nat /\ Logs(s.toSend) \in Nat
         /\ Backlog(s) \in Nat
<1>1. Logs(s.buf) \in Nat /\ Logs(s.wire) \in Nat /\ Logs(s.chan) \in Nat
  BY LogsType DEF StreamType
<1>2. s.toSend = <<>> \/ \E m \in Messages : s.toSend = <<m>>
  BY DEF StreamType
<1>3. Logs(s.toSend) \in Nat
  <2>1. CASE s.toSend = <<>>
    <3>1. Logs(s.toSend) = 0
      BY <2>1, LogsEmpty, Zenon
    <3>. QED BY <3>1
  <2>2. CASE \E m \in Messages : s.toSend = <<m>>
    <3>1. PICK m \in Messages : s.toSend = <<m>>
      BY <2>2
    <3>2. Logs(s.toSend) = Logs(<<m>>)
      BY <3>1, Zenon
    <3>. QED BY <3>2, LogsOne
  <2>. QED BY <1>2, <2>1, <2>2, Zenon
<1>. QED BY <1>1, <1>3 DEF Backlog

LEMMA StreamLater ==
  ASSUME NEW s, NEW phase, NEW rec, NEW phase2, NEW rec2,
         NEW n \in Nat, NEW n2 \in Nat,
         StreamOK(s, phase, rec, n), Later(phase, rec, phase2, rec2), n <= n2
  PROVE  StreamOK(s, phase2, rec2, n2)
<1>1. Logs(s.buf) \in Nat
  BY LogsType DEF StreamOK, StreamType
<1>. QED BY <1>1, ToldLater DEF StreamOK, Later

LEMMA PublishLockOK ==
  ASSUME NEW s, NEW m \in Messages, NEW phase, NEW rec, NEW n \in Nat,
         StreamOK(s, phase, rec, n), True(m, phase, rec), s.toSend = <<>>,
         s.open, ~s.closing
  PROVE  /\ StreamOK(PublishLock(s, m), phase, rec,
                     n + (IF m = "log" THEN 1 ELSE 0))
         /\ Backlog(PublishLock(s, m))
              <= Backlog(s) + (IF m = "log" THEN 1 ELSE 0)
         /\ Unheard(s) => Unheard(PublishLock(s, m))
<1>. DEFINE t == PublishLock(s, m)
<1>1. s \in StreamType
  BY DEF StreamOK
<1>2. /\ t.buf = IF Len(s.buf) < ReplayBuf THEN Append(s.buf, m) ELSE s.buf
      /\ t.toSend = IF s.client THEN <<m>> ELSE <<>>
      /\ t.closed = s.closed /\ t.client = s.client /\ t.chan = s.chan
      /\ t.open = s.open /\ t.closing = s.closing /\ t.wire = s.wire
      /\ t.conn = s.conn
  BY <1>1 DEF PublishLock, StreamType
<1>3. t.buf \in Seq(Messages)
  BY <1>1, <1>2, LogsAppend DEF StreamType
<1>4. t \in StreamType
  <2>1. /\ (IF Len(s.buf) < ReplayBuf THEN Append(s.buf, m) ELSE s.buf)
             \in Seq(Messages)
        /\ (IF s.client THEN <<m>> ELSE <<>>)
             \in {<<>>} \cup {<<x>> : x \in Messages}
    BY <1>1, LogsAppend DEF StreamType
  <2>. QED BY <1>1, <2>1, Zenon DEF PublishLock, StreamType
<1>. HIDE DEF t
<1>5. Told(t.buf, phase, rec) /\ Told(t.toSend, phase, rec)
  BY <1>1, <1>2, ToldAppend, ToldOne, ToldEmpty DEF StreamOK, StreamType
<1>6. Logs(t.buf) <= n + (IF m = "log" THEN 1 ELSE 0)
  <2>1. Logs(s.buf) \in Nat /\ Logs(s.buf) <= n
    BY <1>1, BacklogType DEF StreamOK
  <2>2. CASE Len(s.buf) < ReplayBuf
    <3>1. t.buf = Append(s.buf, m) /\ s.buf \in Seq(Messages)
      BY <1>1, <1>2, <2>2 DEF StreamType
    <3>2. Logs(t.buf) = Logs(s.buf) + (IF m = "log" THEN 1 ELSE 0)
      BY <3>1, LogsAppend
    <3>. QED BY <2>1, <3>2
  <2>3. CASE ~(Len(s.buf) < ReplayBuf)
    BY <1>2, <2>1, <2>3
  <2>. QED BY <2>2, <2>3
<1>7. Logs(t.toSend) <= (IF m = "log" THEN 1 ELSE 0) /\ Logs(s.toSend) = 0
  BY <1>2, LogsOne, LogsEmpty
<1>8. Logs(s.wire) \in Nat /\ Logs(s.chan) \in Nat /\ Logs(t.toSend) \in Nat
  BY <1>1, <1>4, BacklogType
<1>9. Backlog(t) <= Backlog(s) + (IF m = "log" THEN 1 ELSE 0)
  BY <1>2, <1>7, <1>8 DEF Backlog
<1>10. StreamOK(t, phase, rec, n + (IF m = "log" THEN 1 ELSE 0))
  BY <1>2, <1>4, <1>5, <1>6 DEF StreamOK
<1>. QED BY <1>2, <1>9, <1>10 DEF t, Unheard

LEMMA PublishSendOK ==
  ASSUME NEW s, NEW phase, NEW rec, NEW n \in Nat,
         StreamOK(s, phase, rec, n)
  PROVE  /\ StreamOK(PublishSend(s), phase, rec, n)
         /\ Backlog(PublishSend(s)) <= Backlog(s)
         /\ Unheard(s) => Unheard(PublishSend(s))
<1>. DEFINE t == PublishSend(s)
<1>1. s \in StreamType
  BY DEF StreamOK
<1>2. CASE s.toSend # <<>> /\ Len(s.chan) < ChanCap
  <2>1. PICK m \in Messages : s.toSend = <<m>>
    BY <1>1, <1>2 DEF StreamType
  <2>2. s.chan \o s.toSend = Append(s.chan, m) /\ s.chan \in Seq(Messages)
    BY <1>1, <2>1 DEF StreamType
  <2>3. t = [s EXCEPT !.toSend = <<>>, !.chan = Append(s.chan, m)]
    BY <1>1, <1>2, <2>2 DEF PublishSend
  <2>. HIDE DEF t
  <2>4. /\ t.chan = Append(s.chan, m) /\ t.toSend = <<>>
        /\ t.buf = s.buf /\ t.closed = s.closed /\ t.client = s.client
        /\ t.open = s.open /\ t.closing = s.closing /\ t.wire = s.wire
        /\ t.conn = s.conn
    BY <1>1, <2>3 DEF StreamType
  <2>5. Append(s.chan, m) \in Seq(Messages)
    BY <2>2, LogsAppend
  <2>6. t \in StreamType
    BY <1>1, <2>3, <2>5, Zenon DEF StreamType
  <2>7. Told(t.chan, phase, rec) /\ Told(t.toSend, phase, rec)
    BY <2>1, <2>2, <2>4, ToldAppend, ToldOne, ToldEmpty DEF StreamOK
  <2>8. /\ Logs(t.chan) = Logs(s.chan) + Logs(s.toSend) /\ Logs(t.toSend) = 0
        /\ Logs(s.chan) \in Nat /\ Logs(s.toSend) \in Nat
        /\ Logs(s.wire) \in Nat
    <3>1. Logs(s.chan) \in Nat /\ Logs(s.toSend) \in Nat /\ Logs(s.wire) \in Nat
      BY <1>1, BacklogType
    <3>2. Logs(t.toSend) = 0
      BY <2>4, LogsEmpty, Zenon
    <3>3. Logs(t.chan) = Logs(s.chan) + (IF m = "log" THEN 1 ELSE 0)
      BY <2>2, <2>4, LogsAppend
    <3>4. Logs(s.toSend) = Logs(<<m>>)
      BY <2>1, Zenon
    <3>. QED BY <3>1, <3>2, <3>3, <3>4, LogsOne
  <2>9. StreamOK(t, phase, rec, n)
    BY <2>4, <2>6, <2>7 DEF StreamOK
  <2>. QED BY <2>1, <2>4, <2>8, <2>9 DEF t, Backlog, Unheard
<1>3. CASE ~(s.toSend # <<>> /\ Len(s.chan) < ChanCap)
  <2>3. t = [s EXCEPT !.toSend = <<>>]
    BY <1>1, <1>3 DEF PublishSend, StreamType
  <2>. HIDE DEF t
  <2>4. /\ t.toSend = <<>> /\ t.chan = s.chan
        /\ t.buf = s.buf /\ t.closed = s.closed /\ t.client = s.client
        /\ t.open = s.open /\ t.closing = s.closing /\ t.wire = s.wire
        /\ t.conn = s.conn /\ t \in StreamType
    BY <1>1, <2>3 DEF StreamType
  <2>5. Logs(t.toSend) = 0
    BY <2>4, LogsEmpty, Zenon
  <2>6. Logs(s.chan) \in Nat /\ Logs(s.wire) \in Nat /\ Logs(s.toSend) \in Nat
    BY <1>1, BacklogType
  <2>7. StreamOK(t, phase, rec, n)
    BY <2>4, ToldEmpty DEF StreamOK
  <2>. QED BY <2>4, <2>5, <2>6, <2>7 DEF t, Backlog, Unheard
<1>. QED BY <1>2, <1>3

LEMMA CloseOK ==
  ASSUME NEW s, NEW phase, NEW rec, NEW n \in Nat,
         StreamOK(s, phase, rec, n)
  PROVE  /\ s.toSend = <<>> =>
              /\ StreamOK(CloseLock(s), "closed", rec, n)
              /\ Backlog(CloseLock(s)) = Backlog(s)
              /\ Unheard(s) => Unheard(CloseLock(s))
         /\ s.closing =>
              /\ StreamOK(CloseSend(s), phase, rec, n)
              /\ Backlog(CloseSend(s)) = Backlog(s)
              /\ ~Unheard(s)
<1>1. s \in StreamType
  BY DEF StreamOK
<1>2. ASSUME s.toSend = <<>>
      PROVE  /\ StreamOK(CloseLock(s), "closed", rec, n)
             /\ Backlog(CloseLock(s)) = Backlog(s)
             /\ Unheard(s) => Unheard(CloseLock(s))
  <2>. DEFINE t == CloseLock(s)
  <2>1. t \in StreamType
    BY <1>1 DEF CloseLock, StreamType
  <2>2. /\ t.buf = s.buf /\ t.chan = s.chan /\ t.open = s.open
        /\ t.toSend = s.toSend /\ t.wire = s.wire /\ t.conn = s.conn
        /\ t.client = FALSE /\ t.closing = s.client
    BY <1>1 DEF CloseLock, StreamType
  <2>. HIDE DEF t
  <2>3. /\ Told(s.buf, "closed", rec) /\ Told(s.wire, "closed", rec)
        /\ Told(s.chan, "closed", rec) /\ Told(s.toSend, "closed", rec)
    BY DEF StreamOK, Told, After
  <2>4. StreamOK(t, "closed", rec, n)
    BY <1>2, <2>1, <2>2, <2>3 DEF StreamOK
  <2>. QED BY <2>2, <2>4 DEF t, Backlog, Unheard
<1>3. ASSUME s.closing
      PROVE  /\ StreamOK(CloseSend(s), phase, rec, n)
             /\ Backlog(CloseSend(s)) = Backlog(s)
             /\ ~Unheard(s)
  <2>. DEFINE t == CloseSend(s)
  <2>1. t \in StreamType
    BY <1>1 DEF CloseSend, StreamType
  <2>2. /\ t.buf = s.buf /\ t.chan = s.chan
        /\ t.toSend = s.toSend /\ t.wire = s.wire
    BY <1>1 DEF CloseSend, StreamType
  <2>. HIDE DEF t
  <2>3. StreamOK(t, phase, rec, n)
    BY <1>3, <2>1, <2>2 DEF StreamOK
  <2>. QED BY <1>3, <2>2, <2>3 DEF t, Backlog, Unheard
<1>. QED BY <1>2, <1>3

LEMMA ForwardOK ==
  ASSUME NEW s, NEW phase, NEW rec, NEW n \in Nat,
         StreamOK(s, phase, rec, n), CanForward(s)
  PROVE  /\ StreamOK(Forward(s), phase, rec, n)
         /\ Backlog(Forward(s)) = Backlog(s)
         /\ ~Unheard(s)
<1>. DEFINE t == Forward(s)
<1>1. s \in StreamType
  BY DEF StreamOK
<1>2. ~Unheard(s)
  BY DEF CanForward, Unheard
<1>3. CASE s.chan # <<>>
  <2>1. /\ Head(s.chan) \in Messages /\ Tail(s.chan) \in Seq(Messages)
        /\ Logs(s.chan) = Logs(Tail(s.chan))
                            + (IF Head(s.chan) = "log" THEN 1 ELSE 0)
    BY <1>1, <1>3, LogsTail DEF StreamType
  <2>2. /\ Append(s.wire, Head(s.chan)) \in Seq(Messages)
        /\ Logs(Append(s.wire, Head(s.chan))) =
             Logs(s.wire) + (IF Head(s.chan) = "log" THEN 1 ELSE 0)
    BY <1>1, <2>1, LogsAppend DEF StreamType
  <2>3. t = [s EXCEPT !.wire = Append(s.wire, Head(s.chan)),
                      !.chan = Tail(s.chan)]
    BY <1>1, <1>3 DEF Forward
  <2>. HIDE DEF t
  <2>4. /\ t.wire = Append(s.wire, Head(s.chan)) /\ t.chan = Tail(s.chan)
        /\ t.buf = s.buf /\ t.toSend = s.toSend /\ t.open = s.open
        /\ t.closing = s.closing
    BY <1>1, <2>3 DEF StreamType
  <2>5. t \in StreamType
    BY <1>1, <2>1, <2>2, <2>3, Zenon DEF StreamType
  <2>6. Told(t.wire, phase, rec) /\ Told(t.chan, phase, rec)
    BY <1>1, <1>3, <2>1, <2>4, ToldTail, ToldAppend DEF StreamOK, StreamType
  <2>7. StreamOK(t, phase, rec, n)
    BY <2>4, <2>5, <2>6 DEF StreamOK
  <2>8. /\ Logs(s.wire) \in Nat /\ Logs(Tail(s.chan)) \in Nat
        /\ Logs(s.toSend) \in Nat
    BY <1>1, <2>1, LogsType, BacklogType
  <2>9. Backlog(t) = Backlog(s)
    BY <2>1, <2>2, <2>4, <2>8 DEF Backlog
  <2>. QED BY <1>2, <2>7, <2>9 DEF t
<1>4. CASE s.chan = <<>>
  <2>1. t = [s EXCEPT !.conn = "over"]
    BY <1>4 DEF Forward
  <2>. HIDE DEF t
  <2>2. /\ t.wire = s.wire /\ t.chan = s.chan
        /\ t.buf = s.buf /\ t.toSend = s.toSend /\ t.open = s.open
        /\ t.closing = s.closing /\ t \in StreamType
    BY <1>1, <2>1 DEF StreamType
  <2>3. StreamOK(t, phase, rec, n) /\ Backlog(t) = Backlog(s)
    BY <2>2 DEF StreamOK, Backlog
  <2>. QED BY <1>2, <2>3 DEF t
<1>. QED BY <1>3, <1>4

LEMMA SubscriberOK ==
  ASSUME NEW s, NEW phase, NEW rec, NEW n \in Nat,
         StreamOK(s, phase, rec, n)
  PROVE  /\ Unheard(s) => /\ StreamOK(Subscribe(s), phase, rec, n)
                          /\ Backlog(Subscribe(s)) <= n
         /\ StreamOK(Hangup(s), phase, rec, n)
         /\ Backlog(Hangup(s)) <= Backlog(s)
<1>1. s \in StreamType
  BY DEF StreamOK
<1>2. ASSUME Unheard(s)
      PROVE  StreamOK(Subscribe(s), phase, rec, n) /\ Backlog(Subscribe(s)) <= n
  <2>. DEFINE t == Subscribe(s)
  <2>1. /\ t.wire = s.buf /\ t.chan = <<>> /\ t.buf = s.buf /\ t.toSend = <<>>
        /\ t.open = s.open /\ t.closing = s.closing
    BY <1>1, <1>2 DEF Subscribe, StreamType, Unheard
  <2>2. t \in StreamType
    BY <1>1, Zenon DEF Subscribe, StreamType
  <2>. HIDE DEF t
  <2>3. StreamOK(t, phase, rec, n)
    BY <2>1, <2>2, ToldEmpty DEF StreamOK
  <2>4. Logs(s.buf) \in Nat /\ Logs(<<>>) = 0 /\ Logs(s.buf) <= n
    BY <1>1, LogsType, LogsEmpty DEF StreamOK, StreamType
  <2>. QED BY <2>1, <2>3, <2>4 DEF t, Backlog
<1>3. StreamOK(Hangup(s), phase, rec, n) /\ Backlog(Hangup(s)) <= Backlog(s)
  <2>. DEFINE t == Hangup(s)
  <2>1. /\ t.wire = <<>> /\ t.chan = <<>> /\ t.buf = s.buf
        /\ t.toSend = s.toSend /\ t.open = s.open /\ t.closing = s.closing
    BY <1>1 DEF Hangup, StreamType
  <2>2. t \in StreamType
    <3>1. <<>> \in Seq(Messages)
      OBVIOUS
    <3>. QED BY <1>1, <3>1, Zenon DEF Hangup, StreamType
  <2>. HIDE DEF t
  <2>3. StreamOK(t, phase, rec, n)
    BY <2>1, <2>2, ToldEmpty DEF StreamOK
  <2>4. /\ Logs(s.wire) \in Nat /\ Logs(s.chan) \in Nat /\ Logs(<<>>) = 0
        /\ Logs(s.toSend) \in Nat
    BY <1>1, BacklogType, LogsEmpty, Zenon
  <2>. QED BY <2>1, <2>3, <2>4 DEF t, Backlog
<1>. QED BY <1>2, <1>3

-----------------------------------------------------------------------------
(* What a step of the server keeps *)

\* Only deployment d is concerned.
Concerns(d) ==
  /\ srv' \in ServerType /\ srv.last <= srv'.last
  /\ \A e \in Deps \ {d} :
       /\ srv'.phase[e] = srv.phase[e] /\ srv'.rec[e] = srv.rec[e]
       /\ srv'.lines[e] = srv.lines[e] /\ srv'.stream[e] = srv.stream[e]

\* What holds of deployment d after the step.
Sound(d) ==
  /\ StreamOK(srv'.stream[d], srv'.phase[d], srv'.rec[d], srv'.lines[d])
  /\ RecordOK(srv'.phase[d], srv'.rec[d])
  /\ Later(srv.phase[d], srv.rec[d], srv'.phase[d], srv'.rec[d])

\* Who has not subscribed has missed nothing, and what is on the way to the
\* subscriber has been logged.
Carries(d) ==
  /\ Unheard(srv.stream[d]) => Unheard(srv'.stream[d])
  /\ Backlog(srv'.stream[d]) + srv.lines[d]
       <= Backlog(srv.stream[d]) + srv'.lines[d]

LEMMA ServerKept ==
  ASSUME ServerInv, NEW d \in Deps, Concerns(d), Sound(d), d <= srv'.last
  PROVE  /\ ServerInv'
         /\ \A e \in Deps :
              Later(srv.phase[e], srv.rec[e], srv'.phase[e], srv'.rec[e])
<1>1. ASSUME NEW e \in Deps
      PROVE  /\ StreamOK(srv'.stream[e], srv'.phase[e], srv'.rec[e], srv'.lines[e])
             /\ RecordOK(srv'.phase[e], srv'.rec[e])
             /\ e > srv'.last => srv'.phase[e] = "none" /\ Unheard(srv'.stream[e])
             /\ Later(srv.phase[e], srv.rec[e], srv'.phase[e], srv'.rec[e])
  <2>1. CASE e = d
    BY <2>1 DEF Sound, Concerns, ServerType, Deps
  <2>2. CASE e # d
    <3>1. /\ srv'.phase[e] = srv.phase[e] /\ srv'.rec[e] = srv.rec[e]
          /\ srv'.lines[e] = srv.lines[e] /\ srv'.stream[e] = srv.stream[e]
      BY <2>2 DEF Concerns
    <3>2. e > srv'.last => e > srv.last
      BY DEF Concerns, ServerInv, ServerType, Deps
    <3>. QED BY <3>1, <3>2, Zenon DEF ServerInv, Later
  <2>. QED BY <2>1, <2>2
<1>2. srv' \in ServerType
  BY DEF Concerns
<1>. QED BY <1>1, <1>2, Zenon DEF ServerInv

LEMMA RequestKept ==
  ASSUME ServerInv, NEW d \in Deps, Concerns(d), Sound(d), NEW r \in RequestType,
         Carries(d) \/ r.by # "startDeploy", RequestOK(r, srv)
  PROVE  RequestOK(r, srv')
<1>1. ASSUME NEW e \in Deps
      PROVE  /\ Unheard(srv.stream[e]) /\ r.by = "startDeploy"
                  => Unheard(srv'.stream[e])
             /\ srv.phase[e] \in After => srv'.phase[e] \in After
  <2>1. CASE e = d
    BY <2>1, Zenon DEF Sound, Carries, Later
  <2>2. CASE e # d
    BY <2>2, Zenon DEF Concerns
  <2>. QED BY <2>1, <2>2, Zenon
<1>2. Fresh(r, srv')
  <2>. SUFFICES ASSUME r.by = "startDeploy", r.state = "done"
                PROVE  /\ Head(r.reply) \in Deps /\ Head(r.reply) <= srv'.last
                       /\ Unheard(srv'.stream[Head(r.reply)])
    BY DEF Fresh
  <2>1. /\ Head(r.reply) \in Deps /\ Head(r.reply) <= srv.last
        /\ Unheard(srv.stream[Head(r.reply)])
    BY Zenon DEF RequestOK, Fresh
  <2>2. Head(r.reply) <= srv'.last
    BY <2>1 DEF Concerns, ServerInv, ServerType, Deps
  <2>. QED BY <1>1, <2>1, <2>2, Zenon
<1>3. ArgOK(r, srv')
  <2>1. r.by = "reload" => /\ r.arg \in 0..MaxDeploys
                           /\ r.arg # 0 => srv.phase[r.arg] \in After
    BY DEF RequestOK, ArgOK
  <2>2. r.arg \in 0..MaxDeploys /\ r.arg # 0 => r.arg \in Deps
    BY DEF Deps
  <2>. QED BY <1>1, <2>1, <2>2, Zenon DEF RequestOK, ArgOK
<1>. QED BY <1>2, <1>3 DEF RequestOK

-----------------------------------------------------------------------------
(* What a step of the network keeps *)

\* The request at i is answered, by r.
Answered(i, r) ==
  /\ net' \in Seq(RequestType) /\ Len(net') = Len(net)
  /\ \A k \in DOMAIN net : net'[k] = IF k = i THEN r ELSE net[k]

LEMMA NetAnswered ==
  ASSUME NetInv, NEW i \in DOMAIN net, NEW r \in RequestType, Answered(i, r),
         r.by = net[i].by, RequestOK(r, srv'),
         \A k \in DOMAIN net : RequestOK(net[k], srv')
  PROVE  NetInv' /\ \A by : Waiting(by)' <=> Waiting(by)
<1>1. DOMAIN net' = DOMAIN net
  BY DEF Answered, NetInv
<1>2. \A k \in DOMAIN net : net'[k].by = net[k].by
  BY Zenon DEF Answered
<1>3. \A k \in DOMAIN net : RequestOK(net'[k], srv')
  BY Zenon DEF Answered
<1>4. net' \in Seq(RequestType)
  BY DEF Answered
<1>5. NetInv'
  BY <1>1, <1>2, <1>3, <1>4, Zenon DEF NetInv
<1>6. \A by : Waiting(by)' <=> Waiting(by)
  BY <1>1, <1>2, Zenon DEF Waiting
<1>. QED BY <1>5, <1>6

LEMMA NetRemoved ==
  ASSUME NetInv, NEW i \in DOMAIN net, net' = RemoveAt(net, i),
         \A k \in DOMAIN net : k # i => RequestOK(net[k], srv')
  PROVE  /\ NetInv'
         /\ \A by : net[i].by # by => (Waiting(by)' <=> Waiting(by))
         /\ net[i].by = "startDeploy" => ~Waiting("startDeploy")'
<1>. DEFINE At(k) == IF k < i THEN k ELSE k + 1
<1>1. net \in Seq(RequestType) /\ i \in 1..Len(net) /\ DOMAIN net = 1..Len(net)
  BY DEF NetInv
<1>2. /\ net' \in Seq(RequestType) /\ Len(net') = Len(net) - 1
      /\ \A k \in 1..Len(net) - 1 : net'[k] = net[At(k)]
  BY <1>1, RemoveAtEffect
<1>3. DOMAIN net' = 1..Len(net) - 1
  BY <1>1, <1>2
<1>4. /\ \A k \in DOMAIN net' : At(k) \in DOMAIN net /\ At(k) # i
      /\ \A j, k \in DOMAIN net' : At(j) = At(k) => j = k
      /\ \A k \in DOMAIN net : k # i => \E j \in DOMAIN net' : At(j) = k
  <2>1. ASSUME NEW k \in DOMAIN net, k # i
        PROVE  \E j \in DOMAIN net' : At(j) = k
    <3>1. CASE k < i
      BY <1>1, <1>3, <3>1
    <3>2. CASE ~(k < i)
      <4>1. k - 1 \in DOMAIN net' /\ At(k - 1) = k
        BY <1>1, <1>3, <2>1, <3>2
      <4>. QED BY <4>1
    <3>. QED BY <3>1, <3>2
  <2>. QED BY <1>1, <1>3, <2>1
<1>. HIDE DEF At
<1>5. \A k \in DOMAIN net' : net'[k] = net[At(k)]
  BY <1>2, <1>3
<1>6. NetInv'
  <2>1. \A k \in DOMAIN net' : RequestOK(net'[k], srv')
    BY <1>4, <1>5, Zenon
  <2>2. ASSUME NEW j \in DOMAIN net', NEW k \in DOMAIN net',
               net'[j].by = "startDeploy", net'[k].by = "startDeploy"
        PROVE  j = k
    <3>1. At(j) \in DOMAIN net /\ At(k) \in DOMAIN net
      BY <1>4, Zenon
    <3>2. net[At(j)].by = "startDeploy" /\ net[At(k)].by = "startDeploy"
      BY <1>5, <2>2, Zenon
    <3>3. At(j) = At(k)
      BY <3>1, <3>2, Zenon DEF NetInv
    <3>. QED BY <1>4, <3>3, Zenon
  <2>. QED BY <1>2, <2>1, <2>2, Zenon DEF NetInv
<1>7. ASSUME NEW by, net[i].by # by
      PROVE  Waiting(by)' <=> Waiting(by)
  <2>1. ASSUME Waiting(by)' PROVE Waiting(by)
    <3>1. PICK k \in DOMAIN net' : net'[k].by = by
      BY <2>1 DEF Waiting
    <3>. QED BY <1>4, <1>5, <3>1, Zenon DEF Waiting
  <2>2. ASSUME Waiting(by) PROVE Waiting(by)'
    <3>1. PICK k \in DOMAIN net : net[k].by = by
      BY <2>2 DEF Waiting
    <3>2. k # i
      BY <1>7, <3>1
    <3>3. PICK j \in DOMAIN net' : At(j) = k
      BY <1>4, <3>2, Zenon
    <3>4. net'[j].by = by
      BY <1>5, <3>1, <3>3, Zenon
    <3>. QED BY <3>4 DEF Waiting
  <2>. QED BY <2>1, <2>2
<1>8. net[i].by = "startDeploy" => ~Waiting("startDeploy")'
  BY <1>4, <1>5, Zenon DEF Waiting, NetInv
<1>. QED BY <1>6, <1>7, <1>8

LEMMA NetSent ==
  ASSUME NetInv, NEW r \in RequestType, Send(r), RequestOK(r, srv'),
         \A k \in DOMAIN net : RequestOK(net[k], srv'),
         r.by = "startDeploy" => ~Waiting("startDeploy")
  PROVE  NetInv' /\ \A by : Waiting(by)' <=> Waiting(by) \/ r.by = by
<1>1. net \in Seq(RequestType) /\ net' = Append(net, r)
  BY DEF NetInv, Send, Sends
<1>2. /\ net' \in Seq(RequestType) /\ DOMAIN net' = 1..Len(net) + 1
      /\ DOMAIN net = 1..Len(net) /\ Len(net) \in Nat
      /\ \A k \in 1..Len(net) : net'[k] = net[k]
      /\ net'[Len(net) + 1] = r
  BY <1>1
<1>3. /\ \A k \in DOMAIN net' : k \in DOMAIN net \/ k = Len(net) + 1
      /\ \A k \in DOMAIN net : k \in DOMAIN net' /\ net'[k] = net[k]
      /\ Len(net) + 1 \in DOMAIN net'
  BY <1>2
<1>4. NetInv'
  <2>1. \A k \in DOMAIN net' : RequestOK(net'[k], srv')
    BY <1>2, <1>3, Zenon
  <2>2. \A j, k \in DOMAIN net' :
          net'[j].by = "startDeploy" /\ net'[k].by = "startDeploy" => j = k
    BY <1>2, <1>3, Zenon DEF NetInv, Waiting
  <2>. QED BY <1>2, <2>1, <2>2, Zenon DEF NetInv
<1>5. \A by : Waiting(by)' <=> Waiting(by) \/ r.by = by
  BY <1>2, <1>3, Zenon DEF Waiting
<1>. QED BY <1>4, <1>5

-----------------------------------------------------------------------------
(* The goroutine of a deployment *)

LEMMA Untouched ==
  ASSUME srv \in ServerType, NEW d \in Deps
  PROVE  /\ srv.phase[d] \in Phases /\ srv.rec[d] \in Statuses
         /\ srv.lines[d] \in Nat /\ srv.stream[d] \in StreamType
         /\ srv.last \in 0..MaxDeploys /\ MaxDeploys \in Nat
BY DeployPageAssumption DEF ServerType

\* The server with another stream, phase, record and lines of d.
FieldsSet(d, s, ph, rc, n) ==
  /\ srv'.last = srv.last /\ srv' \in ServerType
  /\ srv'.stream = [srv.stream EXCEPT ![d] = s]
  /\ srv'.phase = [srv.phase EXCEPT ![d] = ph]
  /\ srv'.rec = [srv.rec EXCEPT ![d] = rc]
  /\ srv'.lines = [srv.lines EXCEPT ![d] = n]

LEMMA SetConcerns ==
  ASSUME srv \in ServerType, NEW d \in Deps, NEW s, NEW ph, NEW rc, NEW n,
         FieldsSet(d, s, ph, rc, n)
  PROVE  /\ Concerns(d) /\ srv'.last = srv.last
         /\ srv'.stream[d] = s /\ srv'.phase[d] = ph
         /\ srv'.rec[d] = rc /\ srv'.lines[d] = n
<1>1. srv'.last = srv.last /\ srv' \in ServerType
  BY DEF FieldsSet
<1>2. \A e \in Deps :
        /\ srv'.stream[e] = IF e = d THEN s ELSE srv.stream[e]
        /\ srv'.phase[e] = IF e = d THEN ph ELSE srv.phase[e]
        /\ srv'.rec[e] = IF e = d THEN rc ELSE srv.rec[e]
        /\ srv'.lines[e] = IF e = d THEN n ELSE srv.lines[e]
  BY DEF FieldsSet, ServerType
<1>3. srv.last <= srv'.last
  BY <1>1, Untouched
<1>. QED BY <1>1, <1>2, <1>3 DEF Concerns

\* A step that changes the stream of d, and possibly its phase or its lines.
LEMMA StreamSet ==
  ASSUME srv \in ServerType, NEW d \in Deps, NEW s \in StreamType,
         NEW ph \in Phases, NEW n \in Nat,
         \/ srv' = [srv EXCEPT !.stream[d] = s, !.phase[d] = ph] /\ n = srv.lines[d]
         \/ srv' = [srv EXCEPT !.lines[d] = n, !.stream[d] = s] /\ ph = srv.phase[d]
         \/ /\ srv' = [srv EXCEPT !.stream[d] = s]
            /\ ph = srv.phase[d] /\ n = srv.lines[d]
  PROVE  FieldsSet(d, s, ph, srv.rec[d], n)
<1>1. CASE srv' = [srv EXCEPT !.stream[d] = s, !.phase[d] = ph] /\ n = srv.lines[d]
  BY <1>1 DEF FieldsSet, ServerType
<1>2. CASE srv' = [srv EXCEPT !.lines[d] = n, !.stream[d] = s] /\ ph = srv.phase[d]
  BY <1>2 DEF FieldsSet, ServerType
<1>3. CASE srv' = [srv EXCEPT !.stream[d] = s] /\ ph = srv.phase[d] /\ n = srv.lines[d]
  BY <1>3 DEF FieldsSet, ServerType
<1>. QED BY <1>1, <1>2, <1>3

\* A step that changes the record of d and its phase.
LEMMA RecordSet ==
  ASSUME srv \in ServerType, NEW d \in Deps, NEW rc \in Statuses, NEW ph \in Phases,
         \/ srv' = [srv EXCEPT !.phase[d] = ph, !.rec[d] = rc]
         \/ srv' = [srv EXCEPT !.rec[d] = rc, !.phase[d] = ph]
         \/ srv' = [srv EXCEPT !.phase[d] = ph] /\ rc = srv.rec[d]
  PROVE  FieldsSet(d, srv.stream[d], ph, rc, srv.lines[d])
<1>1. CASE srv' = [srv EXCEPT !.phase[d] = ph, !.rec[d] = rc]
  BY <1>1 DEF FieldsSet, ServerType
<1>2. CASE srv' = [srv EXCEPT !.rec[d] = rc, !.phase[d] = ph]
  BY <1>2 DEF FieldsSet, ServerType
<1>3. CASE srv' = [srv EXCEPT !.phase[d] = ph] /\ rc = srv.rec[d]
  BY <1>3 DEF FieldsSet, ServerType
<1>. QED BY <1>1, <1>2, <1>3

\* A deployment that has not been triggered does nothing.
LEMMA Triggered ==
  ASSUME ServerInv, NEW d \in Deps,
         srv.phase[d] # "none" \/ ~Unheard(srv.stream[d])
  PROVE  d <= srv.last
BY Untouched DEF ServerInv, Deps

LEMMA RecordMoves ==
  ASSUME ServerInv, NEW d \in Deps, NEW rc \in Statuses, NEW ph \in Phases,
         \/ srv' = [srv EXCEPT !.phase[d] = ph, !.rec[d] = rc]
         \/ srv' = [srv EXCEPT !.rec[d] = rc, !.phase[d] = ph]
         \/ srv' = [srv EXCEPT !.phase[d] = ph] /\ rc = srv.rec[d],
         srv.phase[d] \in {"starting", "running"}, RecordOK(ph, rc)
  PROVE  Concerns(d) /\ Sound(d) /\ Carries(d) /\ d <= srv'.last
<1>1. srv \in ServerType
  BY DEF ServerInv
<1>2. /\ Concerns(d) /\ srv'.last = srv.last
      /\ srv'.rec[d] = rc /\ srv'.phase[d] = ph
      /\ srv'.stream[d] = srv.stream[d] /\ srv'.lines[d] = srv.lines[d]
  <2>1. FieldsSet(d, srv.stream[d], ph, rc, srv.lines[d])
    BY <1>1, RecordSet
  <2>. QED BY <1>1, <2>1, SetConcerns
<1>3. Later(srv.phase[d], srv.rec[d], ph, rc)
  BY DEF Later, After
<1>4. StreamOK(srv.stream[d], ph, rc, srv.lines[d])
  BY <1>1, <1>3, Untouched, StreamLater DEF ServerInv
<1>5. Backlog(srv.stream[d]) + srv.lines[d] \in Nat
  BY <1>1, Untouched, BacklogType
<1>. QED BY <1>1, <1>2, <1>3, <1>4, <1>5, Triggered, Untouched DEF Sound, Carries

\* The goroutine goes on to phase ph with the stream at s.
StreamMove(d, s, ph) ==
  \/ srv' = [srv EXCEPT !.stream[d] = s, !.phase[d] = ph]
  \/ srv' = [srv EXCEPT !.stream[d] = s] /\ ph = srv.phase[d]

PhaseMove(d, s, ph) ==
  \/ ph = srv.phase[d] /\ (ph # "none" \/ ~Unheard(s))
  \/ /\ srv.phase[d] \in {"failed", "ended", "said"}
     /\ \/ ph \in {"said", "closed"}
        \/ ph = "ended" /\ srv.rec[d] # "none"

LEMMA StreamMoves ==
  ASSUME ServerInv, NEW d \in Deps, NEW s \in StreamType, NEW ph \in Phases,
         StreamMove(d, s, ph), PhaseMove(d, srv.stream[d], ph),
         StreamOK(s, ph, srv.rec[d], srv.lines[d]),
         Unheard(srv.stream[d]) => Unheard(s),
         Backlog(s) <= Backlog(srv.stream[d])
  PROVE  Concerns(d) /\ Sound(d) /\ Carries(d) /\ d <= srv'.last
<1>1. srv \in ServerType
  BY DEF ServerInv
<1>2. /\ Concerns(d) /\ srv'.last = srv.last
      /\ srv'.stream[d] = s /\ srv'.phase[d] = ph
      /\ srv'.rec[d] = srv.rec[d] /\ srv'.lines[d] = srv.lines[d]
  <2>1. srv.lines[d] \in Nat
    BY <1>1, Untouched
  <2>2. FieldsSet(d, s, ph, srv.rec[d], srv.lines[d])
    BY <1>1, <2>1, StreamSet DEF StreamMove
  <2>. QED BY <1>1, <2>2, SetConcerns
<1>3. Later(srv.phase[d], srv.rec[d], ph, srv.rec[d]) /\ RecordOK(ph, srv.rec[d])
  BY DEF Later, After, RecordOK, ServerInv, PhaseMove
<1>4. Backlog(s) \in Nat /\ Backlog(srv.stream[d]) \in Nat /\ srv.lines[d] \in Nat
  BY <1>1, Untouched, BacklogType
<1>5. d <= srv.last
  BY Triggered DEF PhaseMove
<1>. QED BY <1>2, <1>3, <1>4, <1>5 DEF Sound, Carries

LEMMA GoroutineMoves ==
  ASSUME ServerInv, NEW d \in Deps, Goroutine(d)
  PROVE  Concerns(d) /\ Sound(d) /\ Carries(d) /\ d <= srv'.last
<1>. DEFINE Goal == Concerns(d) /\ Sound(d) /\ Carries(d) /\ d <= srv'.last
            s == srv.stream[d]
<1>1. /\ srv \in ServerType /\ s \in StreamType
      /\ srv.phase[d] \in Phases /\ srv.rec[d] \in Statuses /\ srv.lines[d] \in Nat
      /\ RecordOK(srv.phase[d], srv.rec[d])
      /\ StreamOK(s, srv.phase[d], srv.rec[d], srv.lines[d])
  BY Untouched DEF ServerInv
<1>. HIDE DEF s, Goal
<1>2. ASSUME EngineStarts(d) PROVE Goal
  <2>1. srv.phase[d] = "starting" /\ srv.rec[d] # "running"
    BY <1>1, <1>2 DEF EngineStarts, RecordOK
  <2>2. CASE srv' = [srv EXCEPT !.phase[d] = "running", !.rec[d] = "running"]
    <3>1. "running" \in Phases /\ "running" \in Statuses
          /\ RecordOK("running", "running")
      BY DEF Phases, Statuses, RecordOK
    <3>. QED BY <2>1, <2>2, <3>1, RecordMoves DEF Goal
  <2>3. CASE srv' = [srv EXCEPT !.phase[d] = "failed"]
    <3>1. "failed" \in Phases /\ RecordOK("failed", srv.rec[d])
      BY <2>1 DEF Phases, RecordOK
    <3>. QED BY <1>1, <2>1, <2>3, <3>1, RecordMoves DEF Goal
  <2>. QED BY <1>2, <2>2, <2>3 DEF EngineStarts, Elsewhere, ServerIs
<1>3. ASSUME EngineLogs(d) PROVE Goal
  <2>. DEFINE t == PublishLock(s, "log")
  <2>1. /\ srv.phase[d] = "running" /\ s.toSend = <<>> /\ ~s.closing
        /\ srv' = [srv EXCEPT !.lines[d] = @ + 1, !.stream[d] = t]
    BY <1>3 DEF EngineLogs, HubIdle, Elsewhere, ServerIs, s
  <2>2. s.open
    BY <1>1, <2>1 DEF StreamOK
  <2>3. /\ StreamOK(t, srv.phase[d], srv.rec[d], srv.lines[d] + 1)
        /\ Backlog(t) <= Backlog(s) + 1
        /\ Unheard(s) => Unheard(t)
    <3>1. "log" \in Messages /\ True("log", srv.phase[d], srv.rec[d])
      BY DEF Messages, True
    <3>. QED BY <1>1, <2>1, <2>2, <3>1, PublishLockOK
  <2>4. t \in StreamType
    BY <2>3 DEF StreamOK
  <2>. HIDE DEF t
  <2>5. /\ Concerns(d) /\ srv'.last = srv.last
        /\ srv'.stream[d] = t /\ srv'.phase[d] = srv.phase[d]
        /\ srv'.rec[d] = srv.rec[d] /\ srv'.lines[d] = srv.lines[d] + 1
    <3>1. srv' = [srv EXCEPT !.lines[d] = srv.lines[d] + 1, !.stream[d] = t]
      BY <2>1
    <3>2. srv.lines[d] + 1 \in Nat
      BY <1>1
    <3>3. FieldsSet(d, t, srv.phase[d], srv.rec[d], srv.lines[d] + 1)
      BY <1>1, <2>4, <3>1, <3>2, StreamSet
    <3>. QED BY <1>1, <3>3, SetConcerns
  <2>6. Backlog(t) \in Nat /\ Backlog(s) \in Nat
    BY <1>1, <2>4, BacklogType
  <2>7. Sound(d)
    BY <1>1, <2>3, <2>5 DEF Sound, Later
  <2>8. Carries(d)
    BY <1>1, <2>3, <2>5, <2>6 DEF Carries, s
  <2>9. d <= srv'.last
    BY <2>1, <2>5, Triggered
  <2>. QED BY <2>5, <2>7, <2>8, <2>9 DEF Goal
<1>4. ASSUME EngineEnds(d) PROVE Goal
  <2>1. PICK st \in {"success", "failed"} :
          srv' = [srv EXCEPT !.rec[d] = st,
                    !.phase[d] = IF st = "success" THEN "ended" ELSE "failed"]
    BY <1>4 DEF EngineEnds, Elsewhere, ServerIs
  <2>. DEFINE ph == IF st = "success" THEN "ended" ELSE "failed"
  <2>2. srv' = [srv EXCEPT !.rec[d] = st, !.phase[d] = ph]
    BY <2>1
  <2>3. st \in Statuses /\ ph \in Phases /\ RecordOK(ph, st)
    BY DEF Statuses, Phases, RecordOK
  <2>4. srv.phase[d] = "running"
    BY <1>4 DEF EngineEnds
  <2>. HIDE DEF ph
  <2>. QED BY <2>2, <2>3, <2>4, RecordMoves DEF Goal
<1>5. ASSUME PublishError(d) PROVE Goal
  <2>. DEFINE t  == PublishLock(s, "error")
              ph == IF srv.rec[d] = "none" THEN "said" ELSE "ended"
  <2>1. /\ srv.phase[d] = "failed" /\ s.toSend = <<>> /\ ~s.closing
        /\ srv' = [srv EXCEPT !.stream[d] = t, !.phase[d] = ph]
    BY <1>5 DEF PublishError, HubIdle, Elsewhere, ServerIs, s
  <2>2. s.open
    BY <1>1, <2>1 DEF StreamOK
  <2>3. /\ StreamOK(t, srv.phase[d], srv.rec[d], srv.lines[d] + 0)
        /\ Backlog(t) <= Backlog(s) + 0
        /\ Unheard(s) => Unheard(t)
    <3>1. "error" \in Messages /\ True("error", srv.phase[d], srv.rec[d])
      BY <2>1 DEF Messages, True, After
    <3>. QED BY <1>1, <2>1, <2>2, <3>1, PublishLockOK
  <2>4. t \in StreamType /\ Backlog(t) <= Backlog(s)
    BY <1>1, <2>3, BacklogType DEF StreamOK
  <2>5. ph \in Phases /\ ph \in After /\ PhaseMove(d, s, ph)
    BY <2>1 DEF Phases, After, PhaseMove
  <2>. HIDE DEF t, ph
  <2>6. Later("failed", srv.rec[d], ph, srv.rec[d])
    BY <2>5 DEF Later, After
  <2>7. StreamOK(t, ph, srv.rec[d], srv.lines[d])
    BY <1>1, <2>1, <2>3, <2>6, StreamLater
  <2>8. StreamMove(d, t, ph)
    BY <2>1 DEF StreamMove
  <2>. QED BY <2>3, <2>4, <2>5, <2>7, <2>8, StreamMoves DEF Goal, s
<1>6. ASSUME PublishStatus(d) PROVE Goal
  <2>. DEFINE t == PublishLock(s, srv.rec[d])
  <2>1. /\ srv.phase[d] = "ended" /\ s.toSend = <<>> /\ ~s.closing
        /\ srv' = [srv EXCEPT !.stream[d] = t, !.phase[d] = "said"]
    BY <1>6 DEF PublishStatus, HubIdle, Elsewhere, ServerIs, s
  <2>2. s.open
    BY <1>1, <2>1 DEF StreamOK
  <2>3. srv.rec[d] \in {"success", "failed"}
    BY <1>1, <2>1 DEF RecordOK, Statuses
  <2>4. /\ StreamOK(t, srv.phase[d], srv.rec[d], srv.lines[d] + 0)
        /\ Backlog(t) <= Backlog(s) + 0
        /\ Unheard(s) => Unheard(t)
    <3>1. srv.rec[d] \in Messages /\ True(srv.rec[d], srv.phase[d], srv.rec[d])
          /\ srv.rec[d] # "log"
      BY <2>1, <2>3 DEF Messages, True, After
    <3>. QED BY <1>1, <2>1, <2>2, <3>1, PublishLockOK
  <2>5. t \in StreamType /\ Backlog(t) <= Backlog(s)
    BY <1>1, <2>4, BacklogType DEF StreamOK
  <2>6. "said" \in Phases /\ PhaseMove(d, s, "said")
    BY <2>1 DEF Phases, PhaseMove
  <2>. HIDE DEF t
  <2>7. Later("ended", srv.rec[d], "said", srv.rec[d])
    BY DEF Later, After
  <2>8. StreamOK(t, "said", srv.rec[d], srv.lines[d])
    BY <1>1, <2>1, <2>4, <2>7, StreamLater
  <2>9. StreamMove(d, t, "said")
    BY <2>1 DEF StreamMove
  <2>. QED BY <2>4, <2>5, <2>6, <2>8, <2>9, StreamMoves DEF Goal, s
<1>7. ASSUME EngineCloses(d) PROVE Goal
  <2>. DEFINE t == CloseLock(s)
  <2>1. /\ srv.phase[d] = "said" /\ s.toSend = <<>>
        /\ srv' = [srv EXCEPT !.stream[d] = t, !.phase[d] = "closed"]
    BY <1>7 DEF EngineCloses, HubIdle, Elsewhere, ServerIs, s
  <2>2. /\ StreamOK(t, "closed", srv.rec[d], srv.lines[d])
        /\ Backlog(t) = Backlog(s)
        /\ Unheard(s) => Unheard(t)
    BY <1>1, <2>1, CloseOK
  <2>3. t \in StreamType /\ Backlog(t) <= Backlog(s)
    BY <1>1, <2>2, BacklogType DEF StreamOK
  <2>4. "closed" \in Phases /\ PhaseMove(d, s, "closed")
    BY <2>1 DEF Phases, PhaseMove
  <2>. HIDE DEF t
  <2>5. StreamMove(d, t, "closed")
    BY <2>1 DEF StreamMove
  <2>. QED BY <2>2, <2>3, <2>4, <2>5, StreamMoves DEF Goal, s
<1>8. ASSUME HubSends(d) PROVE Goal
  <2>. DEFINE t == IF s.closing THEN CloseSend(s) ELSE PublishSend(s)
  <2>1. srv' = [srv EXCEPT !.stream[d] = t]
    BY <1>8 DEF HubSends, Elsewhere, ServerIs, s
  <2>2. ~Unheard(s)
    BY <1>8 DEF HubSends, HubIdle, Unheard, s
  <2>3. StreamOK(t, srv.phase[d], srv.rec[d], srv.lines[d])
    BY <1>1, CloseOK, PublishSendOK
  <2>4. Backlog(t) <= Backlog(s)
    <3>1. CASE s.closing
      <4>1. Backlog(t) = Backlog(s) /\ Backlog(s) \in Nat
        BY <1>1, <3>1, CloseOK, BacklogType
      <4>. QED BY <4>1
    <3>2. CASE ~s.closing
      BY <1>1, <3>2, PublishSendOK
    <3>. QED BY <3>1, <3>2
  <2>5. t \in StreamType
    BY <2>3 DEF StreamOK
  <2>. HIDE DEF t
  <2>6. StreamMove(d, t, srv.phase[d]) /\ PhaseMove(d, s, srv.phase[d])
    BY <2>1, <2>2 DEF StreamMove, PhaseMove
  <2>. QED BY <1>1, <2>2, <2>3, <2>4, <2>5, <2>6, StreamMoves DEF Goal, s
<1>9. ASSUME HubForwards(d) PROVE Goal
  <2>. DEFINE t == Forward(s)
  <2>1. srv' = [srv EXCEPT !.stream[d] = t] /\ CanForward(s)
    BY <1>9 DEF HubForwards, Elsewhere, ServerIs, s
  <2>2. /\ StreamOK(t, srv.phase[d], srv.rec[d], srv.lines[d])
        /\ Backlog(t) = Backlog(s) /\ ~Unheard(s)
    BY <1>1, <2>1, ForwardOK
  <2>3. t \in StreamType /\ Backlog(t) <= Backlog(s)
    BY <1>1, <2>2, BacklogType DEF StreamOK
  <2>. HIDE DEF t
  <2>4. StreamMove(d, t, srv.phase[d]) /\ PhaseMove(d, s, srv.phase[d])
    BY <2>1, <2>2 DEF StreamMove, PhaseMove
  <2>. QED BY <1>1, <2>2, <2>3, <2>4, StreamMoves DEF Goal, s
<1>. QED
  BY <1>2, <1>3, <1>4, <1>5, <1>6, <1>7, <1>8, <1>9, Zenon DEF Goroutine, Goal

-----------------------------------------------------------------------------
(* The page *)

LEMMA UiFields ==
  ASSUME UiType, page \in DeployPages
  PROVE  /\ ui.deploying \in BOOLEAN /\ ui.es \in 0..MaxDeploys
         /\ ui.log \in Seq(Messages) /\ Logs(ui.log) \in Nat
         /\ ui.es # 0 => ui.es \in Deps
         /\ page = "deployModal" => ui.success \in BOOLEAN /\ ui.dep \in 0..MaxDeploys
<1>1. /\ ui.deploying \in BOOLEAN /\ ui.es \in 0..MaxDeploys /\ ui.log \in Seq(Messages)
      /\ page = "deployModal" => ui.success \in BOOLEAN /\ ui.dep \in 0..MaxDeploys
  BY DEF UiType, DeployPages, PageType, ModalType
<1>2. Logs(ui.log) \in Nat
  BY <1>1, LogsType
<1>3. ui.es # 0 => ui.es \in Deps
  BY <1>1, DeployPageAssumption DEF Deps
<1>. QED BY <1>1, <1>2, <1>3, Zenon

\* What the page shows stays true while the server goes on.
LEMMA PageKept ==
  ASSUME ServerInv, PageInv, page \in DeployPages, NEW d \in Deps,
         Concerns(d), Sound(d), Carries(d), UNCHANGED <<page, ui>>,
         Waiting("startDeploy")' <=> Waiting("startDeploy")
  PROVE  PageInv'
<1>1. UiType' /\ srv \in ServerType /\ srv' \in ServerType
  BY DEF PageInv, UiType, PageType, ModalType, ServerInv, Concerns
<1>2. ASSUME NEW e \in Deps
      PROVE  /\ Later(srv.phase[e], srv.rec[e], srv'.phase[e], srv'.rec[e])
             /\ Backlog(srv'.stream[e]) + srv.lines[e]
                  <= Backlog(srv.stream[e]) + srv'.lines[e]
             /\ Backlog(srv'.stream[e]) \in Nat /\ Backlog(srv.stream[e]) \in Nat
             /\ srv.lines[e] \in Nat /\ srv'.lines[e] \in Nat
  <2>1. /\ Backlog(srv'.stream[e]) \in Nat /\ Backlog(srv.stream[e]) \in Nat
        /\ srv.lines[e] \in Nat /\ srv'.lines[e] \in Nat
    BY <1>1, BacklogType DEF ServerType
  <2>2. CASE e = d
    BY <2>1, <2>2 DEF Sound, Carries
  <2>3. CASE e # d
    BY <2>1, <2>3 DEF Concerns, Later
  <2>. QED BY <2>1, <2>2, <2>3
<1>3. ui' = ui /\ page' = page
  OBVIOUS
<1>4. LogOK'
  <2>1. ui.es # 0 => ui.es <= srv'.last
    BY <1>1, UiFields DEF PageInv, LogOK, Concerns, ServerType
  <2>2. ui.es # 0 => Logs(ui.log) + Backlog(srv'.stream[ui.es]) <= srv'.lines[ui.es]
    BY <1>2, UiFields DEF PageInv, LogOK
  <2>. QED BY <1>3, <2>1, <2>2, Zenon DEF PageInv, LogOK
<1>5. ModalOK'
  <2>1. page = "deployModal" /\ ui.success => ui.dep \in Deps
    BY UiFields DEF PageInv, ModalOK, Deps
  <2>. QED BY <1>2, <1>3, <2>1, Zenon DEF PageInv, ModalOK, Later
<1>. QED BY <1>1, <1>4, <1>5 DEF PageInv

\* A step that concerns deployment d of the server alone.
LEMMA ServerMoves ==
  ASSUME DeployInv, page \in DeployPages, UNCHANGED <<page, ui, net>>,
         NEW d \in Deps, Concerns(d), Sound(d), Carries(d), d <= srv'.last
  PROVE  DeployInv'
<1>1. ServerInv /\ NetInv /\ PageInv
  BY DEF DeployInv
<1>2. ServerInv'
  BY <1>1, ServerKept
<1>3. \A k \in DOMAIN net : RequestOK(net[k], srv')
  <2>1. \A k \in DOMAIN net : net[k] \in RequestType /\ RequestOK(net[k], srv)
    BY <1>1 DEF NetInv
  <2>. QED BY <1>1, <2>1, RequestKept
<1>4. net' = net
  OBVIOUS
<1>5. NetInv'
  BY <1>1, <1>3, <1>4, Zenon DEF NetInv
<1>6. Waiting("startDeploy")' <=> Waiting("startDeploy")
  BY <1>4, Zenon DEF Waiting
<1>7. PageInv'
  BY <1>1, <1>6, PageKept
<1>. QED BY <1>2, <1>5, <1>7 DEF DeployInv

\* A step of the network alone.
LEMMA NetMoves ==
  ASSUME DeployInv, page \in DeployPages, UNCHANGED <<page, ui, srv>>, NetInv',
         Waiting("startDeploy")' <=> Waiting("startDeploy")
  PROVE  DeployInv'
<1>1. page' = page /\ ui' = ui /\ srv' = srv
  OBVIOUS
<1>2. ServerInv'
  BY <1>1, Zenon DEF DeployInv, ServerInv
<1>3. PageInv'
  BY <1>1, Zenon DEF DeployInv, PageInv, UiType, ModalOK, LogOK
<1>. QED BY <1>2, <1>3 DEF DeployInv

-----------------------------------------------------------------------------
(* The requests *)

LEMMA ReplyEffect ==
  ASSUME net \in Seq(RequestType), NEW i \in DOMAIN net, NEW v \in Answers, Reply(i, v)
  PROVE  \E r \in RequestType :
           /\ Answered(i, r) /\ r.by = net[i].by /\ r.arg = net[i].arg
           /\ r.state = "done" /\ Head(r.reply) = v
<1>. DEFINE r == [net[i] EXCEPT !.state = "done", !.reply = <<v>>]
<1>1. net[i] \in RequestType
  OBVIOUS
<1>2. <<v>> \in Seq(Answers) /\ Head(<<v>>) = v
  OBVIOUS
<1>3. /\ r \in RequestType /\ r.by = net[i].by /\ r.arg = net[i].arg
      /\ r.state = "done" /\ r.reply = <<v>>
  BY <1>1, <1>2 DEF RequestType
<1>4. net' = [net EXCEPT ![i] = r]
  BY <1>1 DEF Reply, RequestType
<1>. HIDE DEF r
<1>5. Answered(i, r)
  BY <1>3, <1>4 DEF Answered
<1>. QED BY <1>2, <1>3, <1>5

LEMMA RefuseEffect ==
  ASSUME net \in Seq(RequestType), NEW i \in DOMAIN net, Refuse(i)
  PROVE  \E r \in RequestType :
           /\ Answered(i, r) /\ r.by = net[i].by /\ r.arg = net[i].arg
           /\ r.state = "error"
<1>. DEFINE r == [net[i] EXCEPT !.state = "error"]
<1>1. net[i] \in RequestType
  OBVIOUS
<1>2. /\ r \in RequestType /\ r.by = net[i].by /\ r.arg = net[i].arg
      /\ r.state = "error"
  BY <1>1 DEF RequestType
<1>3. net' = [net EXCEPT ![i] = r]
  BY <1>1 DEF Refuse, RequestType
<1>. HIDE DEF r
<1>4. Answered(i, r)
  BY <1>2, <1>3 DEF Answered
<1>. QED BY <1>2, <1>4

\* A request is refused or lost.
LEMMA RefuseMoves ==
  ASSUME DeployInv, page \in DeployPages, UNCHANGED <<page, ui, srv>>,
         NEW i \in DOMAIN net, Refuse(i)
  PROVE  DeployInv'
<1>1. NetInv /\ net \in Seq(RequestType)
  BY DEF DeployInv, NetInv
<1>2. PICK r \in RequestType :
        /\ Answered(i, r) /\ r.by = net[i].by /\ r.arg = net[i].arg
        /\ r.state = "error"
  BY <1>1, RefuseEffect
<1>3. srv' = srv /\ \A k \in DOMAIN net : RequestOK(net[k], srv)
  BY <1>1 DEF NetInv
<1>4. RequestOK(r, srv')
  BY <1>2, <1>3 DEF RequestOK, Fresh, ArgOK, Replied
<1>5. NetInv' /\ \A by : Waiting(by)' <=> Waiting(by)
  BY <1>1, <1>2, <1>3, <1>4, NetAnswered
<1>. QED BY <1>5, NetMoves

LEMMA TriggerMoves ==
  ASSUME DeployInv, page \in DeployPages, TriggerDeploy
  PROVE  DeployInv'
<1>1. ServerInv /\ NetInv /\ PageInv /\ net \in Seq(RequestType)
  BY DEF DeployInv, NetInv
<1>2. PICK i \in DOMAIN net :
        /\ Served(i, "startDeploy")
        /\ IF Active(srv) \/ srv.last = MaxDeploys
           THEN Refuse(i) /\ UNCHANGED srv
           ELSE LET d == srv.last + 1 IN
                /\ srv' = [srv EXCEPT !.last = d, !.phase[d] = "starting"]
                /\ Reply(i, d)
  BY Zenon DEF TriggerDeploy
<1>3. page' = page /\ ui' = ui
  BY DEF TriggerDeploy, session
<1>4. CASE Active(srv) \/ srv.last = MaxDeploys
  BY <1>2, <1>3, <1>4, RefuseMoves
<1>5. CASE ~(Active(srv) \/ srv.last = MaxDeploys)
  <2>. DEFINE d == srv.last + 1
  <2>1. srv' = [srv EXCEPT !.last = d, !.phase[d] = "starting"] /\ Reply(i, d)
    BY <1>2, <1>5
  <2>2. d \in Deps /\ srv.last < d /\ d \in Answers /\ srv \in ServerType
    BY <1>1, <1>5, DeployPageAssumption DEF ServerInv, ServerType, Deps, Answers
  <2>. HIDE DEF d
  <2>3. /\ srv.phase[d] = "none" /\ Unheard(srv.stream[d])
        /\ srv.rec[d] # "running"
        /\ StreamOK(srv.stream[d], "none", srv.rec[d], srv.lines[d])
    <3>1. srv.phase[d] = "none" /\ Unheard(srv.stream[d])
      BY <1>1, <2>2, Untouched DEF ServerInv, Deps
    <3>. QED BY <1>1, <2>2, <3>1 DEF ServerInv, RecordOK
  <2>4. /\ srv'.last = d /\ srv'.phase = [srv.phase EXCEPT ![d] = "starting"]
        /\ srv'.rec = srv.rec /\ srv'.lines = srv.lines /\ srv'.stream = srv.stream
        /\ srv' \in ServerType
    <3>1. "starting" \in Phases /\ d \in 0..MaxDeploys
      BY <2>2 DEF Phases, Deps
    <3>. QED BY <2>1, <2>2, <3>1 DEF ServerType
  <2>5. Concerns(d)
    <3>1. srv.last <= d
      BY <2>2, Untouched DEF Deps
    <3>. QED BY <2>2, <2>4, <3>1 DEF Concerns, ServerType
  <2>6. Sound(d)
    <3>1. Later("none", srv.rec[d], "starting", srv.rec[d])
      BY DEF Later, After
    <3>2. srv'.phase[d] = "starting"
      BY <2>2, <2>4 DEF ServerType
    <3>3. StreamOK(srv.stream[d], "starting", srv.rec[d], srv.lines[d])
      BY <2>2, <2>3, <3>1, Untouched, StreamLater
    <3>4. RecordOK("starting", srv.rec[d])
      BY <2>3 DEF RecordOK
    <3>. QED BY <2>3, <2>4, <3>1, <3>2, <3>3, <3>4 DEF Sound
  <2>7. Carries(d)
    BY <2>2, <2>4, Untouched, BacklogType DEF Carries
  <2>8. ServerInv'
    BY <1>1, <2>2, <2>4, <2>5, <2>6, ServerKept, Untouched DEF Deps
  <2>9. \A k \in DOMAIN net : RequestOK(net[k], srv')
    <3>1. \A k \in DOMAIN net : net[k] \in RequestType /\ RequestOK(net[k], srv)
      BY <1>1 DEF NetInv
    <3>. QED BY <1>1, <2>2, <2>5, <2>6, <2>7, <3>1, RequestKept
  <2>10. PICK r \in RequestType :
           /\ Answered(i, r) /\ r.by = net[i].by /\ r.arg = net[i].arg
           /\ r.state = "done" /\ Head(r.reply) = d
    BY <1>1, <2>1, <2>2, ReplyEffect
  <2>11. RequestOK(r, srv')
    <3>1. Fresh(r, srv')
      <4>1. d <= srv'.last
        BY <2>2, <2>4 DEF Deps
      <4>. QED BY <2>2, <2>3, <2>4, <2>10, <4>1, Zenon DEF Fresh
    <3>2. r.by = "startDeploy"
      BY <1>2, <2>10 DEF Served
    <3>3. Replied(r)
      BY <2>2, <2>10 DEF Replied
    <3>. QED BY <3>1, <3>2, <3>3 DEF RequestOK, ArgOK
  <2>12. NetInv' /\ \A by : Waiting(by)' <=> Waiting(by)
    BY <1>1, <2>9, <2>10, <2>11, NetAnswered
  <2>13. PageInv'
    BY <1>1, <1>3, <2>2, <2>5, <2>6, <2>7, <2>12, PageKept
  <2>. QED BY <2>8, <2>12, <2>13 DEF DeployInv
<1>. QED BY <1>4, <1>5

-----------------------------------------------------------------------------
(* The continuations of the page *)

LEMMA HandledEffect ==
  ASSUME NetInv, NEW i \in DOMAIN net, Handled(i) \/ HandledThen(i, <<>>)
  PROVE  net' = RemoveAt(net, i)
<1>1. net \in Seq(RequestType) /\ i \in 1..Len(net)
  BY DEF NetInv
<1>2. RemoveAt(net, i) \in Seq(RequestType)
  BY <1>1, RemoveAtEffect
<1>3. RemoveAt(net, i) \o <<>> = RemoveAt(net, i)
  BY <1>2
<1>. QED BY <1>3 DEF Handled, HandledThen

\* The answer is taken and the server is left alone.
LEMMA HandledMoves ==
  ASSUME DeployInv, page \in DeployPages, UNCHANGED <<page, srv>>,
         NEW i \in DOMAIN net, Handled(i) \/ HandledThen(i, <<>>)
  PROVE  /\ ServerInv' /\ NetInv'
         /\ \A by : net[i].by # by => (Waiting(by)' <=> Waiting(by))
         /\ net[i].by = "startDeploy" => ~Waiting("startDeploy")'
<1>1. NetInv /\ srv' = srv /\ net' = RemoveAt(net, i)
  BY HandledEffect DEF DeployInv
<1>2. \A k \in DOMAIN net : RequestOK(net[k], srv')
  BY <1>1, Zenon DEF NetInv
<1>3. ServerInv'
  BY <1>1, Zenon DEF DeployInv, ServerInv
<1>4. /\ NetInv'
      /\ \A by : net[i].by # by => (Waiting(by)' <=> Waiting(by))
      /\ net[i].by = "startDeploy" => ~Waiting("startDeploy")'
  BY <1>1, <1>2, NetRemoved
<1>. QED BY <1>3, <1>4

\* The answer is taken and the page stays as it is, but for its list.
LEMMA QuietMoves ==
  ASSUME DeployInv, page \in DeployPages, UNCHANGED <<page, srv>>,
         NEW i \in DOMAIN net, Handled(i) \/ HandledThen(i, <<>>),
         net[i].by # "startDeploy", UiType',
         ui'.deploying = ui.deploying, ui'.es = ui.es, ui'.log = ui.log,
         page = "deployModal" => ui' = ui
  PROVE  DeployInv'
<1>1. ServerInv' /\ NetInv' /\ (Waiting("startDeploy")' <=> Waiting("startDeploy"))
  BY HandledMoves
<1>2. srv' = srv /\ page' = page
  OBVIOUS
<1>3. LogOK'
  BY <1>1, <1>2, Zenon DEF DeployInv, PageInv, LogOK
<1>4. ModalOK'
  BY <1>1, <1>2, Zenon DEF DeployInv, PageInv, ModalOK
<1>. QED BY <1>1, <1>3, <1>4 DEF DeployInv, PageInv

\* The page hears which deployment it has started, and subscribes to it.
LEMMA StartedMoves ==
  ASSUME DeployInv, page \in DeployPages, NEW i \in DOMAIN net,
         Arrived(i, "startDeploy"), Handled(i),
         srv' = [srv EXCEPT !.stream[Answer(i)] = Subscribe(@)],
         ui'.es = Answer(i), ui'.log = ui.log, ui'.deploying = ui.deploying
  PROVE  /\ ServerInv' /\ NetInv' /\ LogOK'
         /\ ui.es = 0 /\ Answer(i) \in Deps
         /\ page = "deployModal" => ~ui.success
<1>. DEFINE d == Answer(i)
            s == srv.stream[d]
<1>1. /\ ServerInv /\ NetInv /\ PageInv /\ srv \in ServerType
      /\ net[i].by = "startDeploy" /\ Waiting("startDeploy")
  BY DEF DeployInv, ServerInv, Arrived, Waiting
<1>2. d \in Deps /\ d <= srv.last /\ Unheard(s)
  BY <1>1 DEF NetInv, RequestOK, Fresh, Arrived, Answer
<1>3. srv' = [srv EXCEPT !.stream[d] = Subscribe(s)]
  OBVIOUS
<1>. HIDE DEF d
<1>4. StreamOK(s, srv.phase[d], srv.rec[d], srv.lines[d]) /\ srv.lines[d] \in Nat
  BY <1>1, <1>2, Untouched DEF ServerInv
<1>5. /\ StreamOK(Subscribe(s), srv.phase[d], srv.rec[d], srv.lines[d])
      /\ Backlog(Subscribe(s)) <= srv.lines[d]
  BY <1>2, <1>4, SubscriberOK
<1>6. /\ Concerns(d) /\ srv'.last = srv.last
      /\ srv'.stream[d] = Subscribe(s) /\ srv'.phase[d] = srv.phase[d]
      /\ srv'.rec[d] = srv.rec[d] /\ srv'.lines[d] = srv.lines[d]
  <2>1. Subscribe(s) \in StreamType
    BY <1>5 DEF StreamOK
  <2>2. FieldsSet(d, Subscribe(s), srv.phase[d], srv.rec[d], srv.lines[d])
    BY <1>1, <1>2, <1>3, <2>1, StreamSet, Untouched
  <2>. QED BY <1>1, <1>2, <2>2, SetConcerns
<1>7. Sound(d)
  BY <1>1, <1>2, <1>5, <1>6 DEF Sound, Later, ServerInv
<1>8. ServerInv'
  BY <1>1, <1>2, <1>6, <1>7, ServerKept
<1>9. \A k \in DOMAIN net : k # i => RequestOK(net[k], srv')
  <2>1. \A k \in DOMAIN net : k # i =>
          /\ net[k] \in RequestType /\ RequestOK(net[k], srv)
          /\ net[k].by # "startDeploy"
    BY <1>1 DEF NetInv
  <2>. QED BY <1>1, <1>2, <1>6, <1>7, <2>1, RequestKept
<1>10. NetInv' /\ ~Waiting("startDeploy")'
  BY <1>1, <1>9, HandledEffect, NetRemoved
<1>11. LogOK'
  <2>1. ui.log = <<>> /\ ui.deploying
    BY <1>1, Zenon DEF PageInv, LogOK
  <2>2. Logs(ui'.log) = 0
    BY <2>1, LogsEmpty, Zenon
  <2>3. ui'.es = d /\ ui'.deploying /\ d # 0
    BY <1>2, <2>1 DEF d, Deps
  <2>4. Logs(ui'.log) + Backlog(srv'.stream[d]) <= srv'.lines[d]
    <3>1. Backlog(Subscribe(s)) \in Nat
      BY <1>5, BacklogType DEF StreamOK
    <3>. QED BY <1>4, <1>5, <1>6, <2>2, <3>1
  <2>5. d <= srv'.last
    BY <1>2, <1>6
  <2>. QED BY <1>10, <2>3, <2>4, <2>5, Zenon DEF LogOK
<1>12. ui.es = 0 /\ (page = "deployModal" => ~ui.success)
  BY <1>1, Zenon DEF PageInv, LogOK, ModalOK
<1>. QED BY <1>2, <1>8, <1>10, <1>11, <1>12 DEF d

LEMMA TailOK ==
  ASSUME NEW s, NEW phase, NEW rec, NEW n \in Nat,
         StreamOK(s, phase, rec, n), s.wire # <<>>
  PROVE  /\ Head(s.wire) \in Messages /\ True(Head(s.wire), phase, rec)
         /\ StreamOK([s EXCEPT !.wire = Tail(@)], phase, rec, n)
         /\ Backlog(s) = Backlog([s EXCEPT !.wire = Tail(@)])
                            + (IF Head(s.wire) = "log" THEN 1 ELSE 0)
<1>. DEFINE t == [s EXCEPT !.wire = Tail(@)]
<1>1. s \in StreamType /\ s.wire \in Seq(Messages)
  BY DEF StreamOK, StreamType
<1>2. /\ Head(s.wire) \in Messages /\ Tail(s.wire) \in Seq(Messages)
      /\ Logs(s.wire) = Logs(Tail(s.wire)) + (IF Head(s.wire) = "log" THEN 1 ELSE 0)
  BY <1>1, LogsTail
<1>3. Told(Tail(s.wire), phase, rec) /\ True(Head(s.wire), phase, rec)
  BY <1>1, ToldTail DEF StreamOK
<1>4. /\ t.wire = Tail(s.wire) /\ t.chan = s.chan /\ t.buf = s.buf
      /\ t.toSend = s.toSend /\ t.open = s.open /\ t.closing = s.closing
  BY <1>1 DEF StreamType
<1>5. t \in StreamType
  BY <1>1, <1>2, Zenon DEF StreamType
<1>. HIDE DEF t
<1>6. StreamOK(t, phase, rec, n)
  BY <1>3, <1>4, <1>5 DEF StreamOK
<1>7. /\ Logs(s.chan) \in Nat /\ Logs(s.toSend) \in Nat
      /\ Logs(Tail(s.wire)) \in Nat
  BY <1>1, <1>2, LogsType, BacklogType
<1>8. Backlog(s) = Backlog(t) + (IF Head(s.wire) = "log" THEN 1 ELSE 0)
  BY <1>2, <1>4, <1>7 DEF Backlog
<1>. QED BY <1>2, <1>3, <1>6, <1>8 DEF t

\* The page takes from the stream that it listens to, which is then at s.
LEMMA ListenMoves ==
  ASSUME DeployInv, page \in DeployPages, ui.es # 0, NEW s \in StreamType,
         srv' = [srv EXCEPT !.stream[ui.es] = s],
         StreamOK(s, srv.phase[ui.es], srv.rec[ui.es], srv.lines[ui.es]),
         Backlog(s) <= Backlog(srv.stream[ui.es]), ~Unheard(srv.stream[ui.es])
  PROVE  /\ ServerInv' /\ \A k \in DOMAIN net : RequestOK(net[k], srv')
         /\ ui.es \in Deps /\ srv'.last = srv.last /\ srv'.stream[ui.es] = s
         /\ \A e \in Deps : /\ srv'.phase[e] = srv.phase[e]
                            /\ srv'.rec[e] = srv.rec[e]
                            /\ srv'.lines[e] = srv.lines[e]
         /\ Concerns(ui.es) /\ Sound(ui.es) /\ Carries(ui.es) /\ ui.es <= srv'.last
<1>. DEFINE d == ui.es
<1>1. /\ ServerInv /\ NetInv /\ PageInv /\ srv \in ServerType /\ d \in Deps
  BY UiFields DEF DeployInv, ServerInv, PageInv
<1>. HIDE DEF d
<1>2. StreamMove(d, s, srv.phase[d]) /\ PhaseMove(d, srv.stream[d], srv.phase[d])
  BY DEF StreamMove, PhaseMove, d
<1>3. srv.phase[d] \in Phases /\ srv.lines[d] \in Nat
  BY <1>1, Untouched
<1>4. Concerns(d) /\ Sound(d) /\ Carries(d) /\ d <= srv'.last
  BY <1>1, <1>2, <1>3, StreamMoves DEF d
<1>5. FieldsSet(d, s, srv.phase[d], srv.rec[d], srv.lines[d])
  BY <1>1, <1>3, StreamSet DEF d
<1>6. /\ srv'.last = srv.last /\ srv'.stream[d] = s
      /\ \A e \in Deps : /\ srv'.phase[e] = srv.phase[e]
                         /\ srv'.rec[e] = srv.rec[e]
                         /\ srv'.lines[e] = srv.lines[e]
  BY <1>1, <1>5, SetConcerns DEF Concerns
<1>7. ServerInv'
  BY <1>1, <1>4, ServerKept
<1>8. \A k \in DOMAIN net : RequestOK(net[k], srv')
  <2>1. \A k \in DOMAIN net : net[k] \in RequestType /\ RequestOK(net[k], srv)
    BY <1>1 DEF NetInv
  <2>. QED BY <1>1, <1>4, <2>1, RequestKept
<1>. QED BY <1>1, <1>4, <1>6, <1>7, <1>8 DEF d

\* A message of the log is appended to what the page shows.
LEMMA HeardMoves ==
  ASSUME DeployInv, page \in DeployPages, ui.es # 0, Stream.wire # <<>>,
         UNCHANGED <<page, net>>,
         srv' = [srv EXCEPT !.stream[ui.es].wire = Tail(@)],
         ui' = [ui EXCEPT !.log = Append(@, Head(Stream.wire))]
  PROVE  DeployInv'
<1>. DEFINE d == ui.es
            s == srv.stream[d]
            t == [s EXCEPT !.wire = Tail(@)]
            m == Head(s.wire)
<1>1. /\ ServerInv /\ NetInv /\ PageInv /\ srv \in ServerType /\ d \in Deps
      /\ net' = net /\ page' = page
      /\ ui.log \in Seq(Messages) /\ Logs(ui.log) \in Nat
  BY UiFields DEF DeployInv, ServerInv, PageInv
<1>2. /\ StreamOK(s, srv.phase[d], srv.rec[d], srv.lines[d]) /\ srv.lines[d] \in Nat
      /\ s \in StreamType /\ s.wire # <<>>
  BY <1>1, Untouched DEF ServerInv, Stream
<1>3. /\ m \in Messages /\ StreamOK(t, srv.phase[d], srv.rec[d], srv.lines[d])
      /\ Backlog(s) = Backlog(t) + (IF m = "log" THEN 1 ELSE 0)
  BY <1>2, TailOK
<1>4. t \in StreamType /\ Backlog(t) \in Nat /\ Backlog(t) <= Backlog(s)
  <2>1. t \in StreamType
    BY <1>3 DEF StreamOK
  <2>2. Backlog(t) \in Nat
    BY <2>1, BacklogType
  <2>. QED BY <1>3, <2>1, <2>2
<1>5. srv' = [srv EXCEPT !.stream[d] = t]
  BY <1>1, <1>2 DEF ServerType
<1>6. ~Unheard(s)
  BY <1>2 DEF Unheard
<1>. HIDE DEF t
<1>7. /\ ServerInv' /\ \A k \in DOMAIN net : RequestOK(net[k], srv')
      /\ srv'.last = srv.last /\ srv'.stream[d] = t
      /\ \A e \in Deps : /\ srv'.phase[e] = srv.phase[e]
                         /\ srv'.rec[e] = srv.rec[e]
                         /\ srv'.lines[e] = srv.lines[e]
  BY <1>3, <1>4, <1>5, <1>6, ListenMoves
<1>8. NetInv' /\ (Waiting("startDeploy")' <=> Waiting("startDeploy"))
  BY <1>1, <1>7, Zenon DEF NetInv, Waiting
<1>9. /\ Append(ui.log, m) \in Seq(Messages)
      /\ Logs(Append(ui.log, m)) = Logs(ui.log) + (IF m = "log" THEN 1 ELSE 0)
  BY <1>1, <1>3, LogsAppend
<1>10. ui' = [ui EXCEPT !.log = Append(ui.log, m)]
  BY DEF Stream
<1>. HIDE DEF m
<1>11. /\ UiType' /\ ui'.deploying = ui.deploying /\ ui'.es = ui.es
       /\ ui'.log = Append(ui.log, m)
       /\ page = "deployModal" => ui'.dep = ui.dep /\ ui'.success = ui.success
  BY <1>1, <1>9, <1>10 DEF PageInv, UiType, PageType, ModalType, DeployPages
<1>12. LogOK'
  <2>1. ~Waiting("startDeploy") /\ ui.deploying /\ ui.es <= srv.last
        /\ Logs(ui.log) + Backlog(s) <= srv.lines[d]
    BY <1>1, Zenon DEF PageInv, LogOK, d, s
  <2>2. Logs(ui'.log) + Backlog(srv'.stream[d]) <= srv'.lines[d]
    <3>1. /\ Logs(ui'.log) = Logs(Append(ui.log, m)) /\ srv'.lines[d] = srv.lines[d]
          /\ Backlog(srv'.stream[d]) = Backlog(t)
      BY <1>1, <1>7, <1>11, Zenon
    <3>2. /\ Logs(ui.log) \in Nat /\ Backlog(t) \in Nat /\ srv.lines[d] \in Nat
      BY <1>1, <1>2, <1>4
    <3>. QED BY <1>3, <1>9, <2>1, <3>1, <3>2
  <2>. QED BY <1>7, <1>8, <1>11, <2>1, <2>2, Zenon DEF LogOK, d
<1>13. ModalOK'
  <2>1. page = "deployModal" /\ ui.success => ui.dep \in Deps
    BY <1>1, UiFields DEF PageInv, ModalOK, Deps
  <2>. QED BY <1>1, <1>7, <1>8, <1>11, <2>1, Zenon DEF PageInv, ModalOK
<1>. QED BY <1>7, <1>8, <1>11, <1>12, <1>13 DEF DeployInv, PageInv

LEMMA BreaksMoves ==
  ASSUME DeployInv, page \in DeployPages, StreamBreaks
  PROVE  DeployInv'
<1>. DEFINE s == srv.stream[ui.es]
            t == Hangup(s)
<1>1. /\ ServerInv /\ PageInv /\ ui.es \in Deps /\ ui.es # 0 /\ srv \in ServerType
      /\ UNCHANGED <<page, ui, net>> /\ srv' = [srv EXCEPT !.stream[ui.es] = t]
      /\ s.conn = "live"
  BY UiFields
  DEF DeployInv, ServerInv, PageInv, StreamBreaks, Elsewhere, ServerIs, Stream, session
<1>2. StreamOK(s, srv.phase[ui.es], srv.rec[ui.es], srv.lines[ui.es])
      /\ srv.lines[ui.es] \in Nat
  BY <1>1, Untouched DEF ServerInv
<1>3. StreamOK(t, srv.phase[ui.es], srv.rec[ui.es], srv.lines[ui.es])
      /\ Backlog(t) <= Backlog(s)
  BY <1>2, SubscriberOK
<1>4. t \in StreamType /\ ~Unheard(s)
  BY <1>1, <1>3 DEF StreamOK, Unheard
<1>. HIDE DEF t
<1>5. Concerns(ui.es) /\ Sound(ui.es) /\ Carries(ui.es) /\ ui.es <= srv'.last
  BY <1>1, <1>3, <1>4, ListenMoves
<1>. QED BY <1>1, <1>5, ServerMoves

\* The stream hangs up on a page whose deployment has been told of: what the
\* page does with the message, es.onmessage for a status.
LEMMA ToldMoves ==
  ASSUME DeployInv, page \in DeployPages, ui.es # 0, Stream.wire # <<>>,
         srv' = [srv EXCEPT !.stream[ui.es] = Hangup(@)]
  PROVE  /\ ServerInv' /\ \A k \in DOMAIN net : RequestOK(net[k], srv')
         /\ ui.es \in Deps
         /\ \A e \in Deps : srv'.phase[e] = srv.phase[e] /\ srv'.rec[e] = srv.rec[e]
         /\ Head(Stream.wire) \in Messages
         /\ True(Head(Stream.wire), srv.phase[ui.es], srv.rec[ui.es])
         /\ ~Waiting("startDeploy") /\ ui.log \in Seq(Messages)
<1>. DEFINE s == srv.stream[ui.es]
            t == Hangup(s)
<1>1. /\ ServerInv /\ PageInv /\ ui.es \in Deps /\ srv \in ServerType
      /\ ui.log \in Seq(Messages) /\ srv' = [srv EXCEPT !.stream[ui.es] = t]
  BY UiFields DEF DeployInv, ServerInv, PageInv
<1>2. /\ StreamOK(s, srv.phase[ui.es], srv.rec[ui.es], srv.lines[ui.es])
      /\ srv.lines[ui.es] \in Nat /\ s.wire # <<>>
  BY <1>1, Untouched DEF ServerInv, Stream
<1>3. StreamOK(t, srv.phase[ui.es], srv.rec[ui.es], srv.lines[ui.es])
      /\ Backlog(t) <= Backlog(s)
  BY <1>2, SubscriberOK
<1>4. t \in StreamType /\ ~Unheard(s)
  BY <1>2, <1>3 DEF StreamOK, Unheard
<1>5. Head(s.wire) \in Messages /\ True(Head(s.wire), srv.phase[ui.es], srv.rec[ui.es])
  BY <1>2, TailOK
<1>. HIDE DEF t
<1>6. /\ ServerInv' /\ \A k \in DOMAIN net : RequestOK(net[k], srv')
      /\ \A e \in Deps : srv'.phase[e] = srv.phase[e] /\ srv'.rec[e] = srv.rec[e]
  BY <1>1, <1>3, <1>4, ListenMoves
<1>7. ~Waiting("startDeploy")
  BY <1>1, Zenon DEF PageInv, LogOK
<1>. QED BY <1>1, <1>5, <1>6, <1>7 DEF Stream

\* A page that has no stream and no deployment to wait for is idle.
LEMMA IdleOK ==
  ASSUME ui'.es = 0, ~ui'.deploying, ~Waiting("startDeploy")'
  PROVE  LogOK'
BY Zenon DEF LogOK

LEMMA RequestIsTyped ==
  ASSUME NEW by \in {"reload", "startDeploy", "cancel"},
         NEW call \in {"listDeployments", "triggerDeploy", "cancelDeploy"},
         NEW arg \in Nat \cup {NoArg}
  PROVE  /\ Request(by, call, arg) \in RequestType
         /\ Request(by, call, arg).by = by /\ Request(by, call, arg).arg = arg
         /\ Request(by, call, arg).state = "sent"
<1>1. <<>> \in Seq(Answers)
  OBVIOUS
<1>. QED BY <1>1 DEF Request, RequestType

\* The middleware and the network, on either page.
LEMMA LostMoves ==
  ASSUME DeployInv, page \in DeployPages, Forbid \/ Fault
  PROVE  DeployInv'
<1>1. UNCHANGED <<page, ui, srv>> /\ \E i \in DOMAIN net : Refuse(i)
  BY DEF Forbid, Fault, NetOnly, session
<1>. QED BY <1>1, RefuseMoves

LEMMA GoroutineKeeps ==
  ASSUME DeployInv, page \in DeployPages, NEW d \in Deps, Goroutine(d)
  PROVE  DeployInv'
<1>1. UNCHANGED <<page, ui, net>>
  BY DEF Goroutine, EngineStarts, EngineLogs, EngineEnds, PublishError, PublishStatus,
         EngineCloses, HubSends, HubForwards, Elsewhere, ServerIs, session
<1>2. Concerns(d) /\ Sound(d) /\ Carries(d) /\ d <= srv'.last
  BY GoroutineMoves DEF DeployInv
<1>. QED BY <1>1, <1>2, ServerMoves

-----------------------------------------------------------------------------
(* DeployPage.tsx *)

LEMMA DeployMoves ==
  ASSUME DeployInv, DeployNext
  PROVE  DeployInv'
<1>1. /\ page = "deploy" /\ page \in DeployPages /\ ui \in PageType
      /\ ServerInv /\ NetInv /\ PageInv
  BY DEF DeployNext, DeployInv, DeployPages, PageInv, UiType
<1>2. ASSUME StartDeploy PROVE DeployInv'
  <2>. DEFINE r == Request("startDeploy", "triggerDeploy", NoArg)
  <2>1. /\ ~ui.deploying /\ Send(r) /\ page' = page /\ srv' = srv
        /\ ui' = [ui EXCEPT !.deploying = TRUE, !.log = <<>>]
    BY <1>2 DEF StartDeploy, Asks, PageIs, session
  <2>2. ui.es = 0 /\ ~Waiting("startDeploy")
    BY <1>1, <2>1, Zenon DEF PageInv, LogOK
  <2>3. r \in RequestType /\ r.by = "startDeploy" /\ r.state = "sent"
    <3>1. NoArg \in Nat \cup {NoArg}
      OBVIOUS
    <3>2. /\ "startDeploy" \in {"reload", "startDeploy", "cancel"}
          /\ "triggerDeploy" \in {"listDeployments", "triggerDeploy", "cancelDeploy"}
      OBVIOUS
    <3>3. Request("startDeploy", "triggerDeploy", NoArg) \in RequestType
      BY <3>1, <3>2, RequestIsTyped
    <3>. QED BY <3>3 DEF Request
  <2>. HIDE DEF r
  <2>4. RequestOK(r, srv') /\ \A k \in DOMAIN net : RequestOK(net[k], srv')
    BY <1>1, <2>1, <2>3 DEF NetInv, RequestOK, Replied, Fresh, ArgOK
  <2>5. NetInv' /\ Waiting("startDeploy")'
    BY <1>1, <2>1, <2>2, <2>3, <2>4, NetSent
  <2>6. /\ ui' \in PageType /\ ui'.deploying /\ ui'.es = 0 /\ ui'.log = <<>>
    <3>1. <<>> \in Seq(Messages)
      OBVIOUS
    <3>. QED BY <1>1, <2>1, <2>2, <3>1 DEF PageType
  <2>7. LogOK'
    BY <2>5, <2>6, Zenon DEF LogOK
  <2>8. ServerInv'
    BY <1>1, <2>1, Zenon DEF ServerInv
  <2>. QED BY <1>1, <2>1, <2>5, <2>6, <2>7, <2>8 DEF DeployInv, PageInv, UiType, ModalOK
<1>3. ASSUME DeployStarted PROVE DeployInv'
  <2>1. PICK i \in DOMAIN net :
          /\ Arrived(i, "startDeploy") /\ Handled(i)
          /\ ui' = [ui EXCEPT !.es = Answer(i)]
          /\ srv' = [srv EXCEPT !.stream[Answer(i)] = Subscribe(@)]
    BY <1>3, Zenon DEF DeployStarted
  <2>2. page' = page
    BY <1>3 DEF DeployStarted, session
  <2>3. ui'.es = Answer(i) /\ ui'.log = ui.log /\ ui'.deploying = ui.deploying
    BY <1>1, <2>1 DEF PageType
  <2>4. ServerInv' /\ NetInv' /\ LogOK' /\ Answer(i) \in Deps
    BY <1>1, <2>1, <2>3, StartedMoves
  <2>5. Answer(i) \in 0..MaxDeploys
    BY <2>4, DeployPageAssumption DEF Deps
  <2>6. ui' \in PageType
    BY <1>1, <2>1, <2>5 DEF PageType
  <2>. QED BY <1>1, <2>2, <2>4, <2>6 DEF DeployInv, PageInv, UiType, ModalOK
<1>4. ASSUME DeployRefused PROVE DeployInv'
  <2>1. PICK i \in DOMAIN net : net[i].by = "startDeploy" /\ Handled(i)
    BY <1>4 DEF DeployRefused, Catch, Failed
  <2>2. page' = page /\ srv' = srv /\ ui' = [ui EXCEPT !.deploying = FALSE]
    BY <1>4 DEF DeployRefused, Catch, PageIs, session
  <2>3. ServerInv' /\ NetInv' /\ ~Waiting("startDeploy")'
    BY <1>1, <2>1, <2>2, HandledMoves
  <2>4. Waiting("startDeploy")
    BY <2>1 DEF Waiting
  <2>5. ui.es = 0
    BY <1>1, <2>4, Zenon DEF PageInv, LogOK
  <2>6. ui' \in PageType /\ ui'.es = 0 /\ ~ui'.deploying
    BY <1>1, <2>2, <2>5 DEF PageType
  <2>7. LogOK'
    BY <2>3, <2>6, IdleOK
  <2>. QED BY <1>1, <2>2, <2>3, <2>6, <2>7 DEF DeployInv, PageInv, UiType, ModalOK
<1>5. ASSUME StreamMessage PROVE DeployInv'
  <2>. DEFINE m == Head(Stream.wire)
              r == Request("reload", "listDeployments", ui.es)
  <2>1. ui.es # 0 /\ Stream.wire # <<>> /\ page' = page
    BY <1>5 DEF StreamMessage, session
  <2>2. \/ /\ ui' = [ui EXCEPT !.log = Append(@, m)]
           /\ srv' = [srv EXCEPT !.stream[ui.es].wire = Tail(@)]
           /\ UNCHANGED net
        \/ /\ m \in {"success", "failed", "error"}
           /\ ui' = [ui EXCEPT !.log = Append(@, m), !.deploying = FALSE, !.es = 0]
           /\ srv' = [srv EXCEPT !.stream[ui.es] = Hangup(@)]
           /\ Send(r)
    BY <1>5 DEF StreamMessage
  <2>3. CASE /\ ui' = [ui EXCEPT !.log = Append(@, m)]
             /\ srv' = [srv EXCEPT !.stream[ui.es].wire = Tail(@)]
             /\ UNCHANGED net
    BY <1>1, <2>1, <2>3, HeardMoves
  <2>4. CASE /\ m \in {"success", "failed", "error"}
             /\ ui' = [ui EXCEPT !.log = Append(@, m), !.deploying = FALSE, !.es = 0]
             /\ srv' = [srv EXCEPT !.stream[ui.es] = Hangup(@)]
             /\ Send(r)
    <3>1. /\ ServerInv' /\ \A k \in DOMAIN net : RequestOK(net[k], srv')
          /\ ui.es \in Deps /\ m \in Messages
          /\ \A e \in Deps : srv'.phase[e] = srv.phase[e]
          /\ True(m, srv.phase[ui.es], srv.rec[ui.es])
          /\ ~Waiting("startDeploy") /\ ui.log \in Seq(Messages)
      BY <1>1, <2>1, <2>4, ToldMoves
    <3>2. srv.phase[ui.es] \in After
      BY <2>4, <3>1 DEF True
    <3>3. ui.es \in Nat /\ ui.es \in 0..MaxDeploys
      BY <3>1, DeployPageAssumption DEF Deps
    <3>4. r \in RequestType /\ r.by = "reload" /\ r.arg = ui.es /\ r.state = "sent"
      BY <3>3, RequestIsTyped
    <3>5. Append(ui.log, m) \in Seq(Messages)
      BY <3>1
    <3>. HIDE DEF r, m
    <3>6. RequestOK(r, srv')
      BY <3>1, <3>2, <3>3, <3>4 DEF RequestOK, Replied, Fresh, ArgOK
    <3>7. NetInv' /\ ~Waiting("startDeploy")'
      BY <1>1, <2>4, <3>1, <3>4, <3>6, NetSent
    <3>8. ui' \in PageType /\ ui'.es = 0 /\ ~ui'.deploying
      <4>1. ui' = [ui EXCEPT !.log = Append(ui.log, m), !.deploying = FALSE, !.es = 0]
        BY <2>4
      <4>2. 0 \in 0..MaxDeploys
        BY DeployPageAssumption
      <4>. QED BY <1>1, <3>5, <4>1, <4>2 DEF PageType
    <3>9. LogOK'
      BY <3>7, <3>8, IdleOK
    <3>. QED BY <1>1, <2>1, <3>1, <3>7, <3>8, <3>9 DEF DeployInv, PageInv, UiType, ModalOK
  <2>. QED BY <2>2, <2>3, <2>4
<1>6. ASSUME StreamError PROVE DeployInv'
  <2>1. /\ ui.es # 0 /\ page' = page /\ srv' = srv /\ net' = net
        /\ ui' = [ui EXCEPT !.deploying = FALSE, !.es = 0]
    BY <1>6 DEF StreamError, session
  <2>2. ServerInv' /\ NetInv' /\ ~Waiting("startDeploy")'
    BY <1>1, <2>1, Zenon DEF ServerInv, NetInv, PageInv, LogOK, Waiting
  <2>3. ui' \in PageType /\ ui'.es = 0 /\ ~ui'.deploying
    <3>1. 0 \in 0..MaxDeploys
      BY DeployPageAssumption
    <3>. QED BY <1>1, <2>1, <3>1 DEF PageType
  <2>4. LogOK'
    BY <2>2, <2>3, IdleOK
  <2>. QED BY <1>1, <2>1, <2>2, <2>3, <2>4 DEF DeployInv, PageInv, UiType, ModalOK
<1>7. ASSUME Tells("reload", srv.rec) PROVE DeployInv'
  <2>1. PICK i \in DOMAIN net : Served(i, "reload") /\ Reply(i, srv.rec)
    BY <1>7 DEF Tells, Finds
  <2>2. UNCHANGED <<page, ui, srv>>
    BY <1>7 DEF Tells, Finds, NetOnly, session
  <2>3. srv.rec \in Answers /\ net \in Seq(RequestType)
    BY <1>1 DEF ServerInv, ServerType, Answers, NetInv
  <2>4. PICK r \in RequestType :
          /\ Answered(i, r) /\ r.by = net[i].by /\ r.arg = net[i].arg
          /\ r.state = "done" /\ Head(r.reply) = srv.rec
    BY <2>1, <2>3, ReplyEffect
  <2>5. \A k \in DOMAIN net : RequestOK(net[k], srv')
    BY <1>1, <2>2 DEF NetInv
  <2>6. r.by = "reload"
    BY <2>1, <2>4 DEF Served
  <2>7. RequestOK(r, srv')
    BY <2>3, <2>4, <2>5, <2>6 DEF RequestOK, Replied, Fresh, ArgOK
  <2>8. NetInv' /\ \A by : Waiting(by)' <=> Waiting(by)
    BY <1>1, <2>4, <2>5, <2>7, NetAnswered
  <2>. QED BY <1>1, <2>2, <2>8, NetMoves
<1>8. ASSUME DeploymentsLoaded PROVE DeployInv'
  <2>1. PICK i \in DOMAIN net :
          /\ Arrived(i, "reload") /\ HandledThen(i, <<>>)
          /\ ui' = [ui EXCEPT !.list = Answer(i)] /\ page' = page /\ srv' = srv
    BY <1>8 DEF DeploymentsLoaded, Then, ThenAsks, PageIs, session
  <2>2. net[i].by = "reload" /\ Answer(i) \in Answers
    BY <1>1, <2>1 DEF Arrived, NetInv, RequestOK, Replied, Answer
  <2>3. /\ ui' \in PageType /\ ui'.deploying = ui.deploying
        /\ ui'.es = ui.es /\ ui'.log = ui.log
    BY <1>1, <2>1, <2>2 DEF PageType
  <2>4. UiType'
    BY <1>1, <2>1, <2>3 DEF UiType
  <2>. QED BY <1>1, <2>1, <2>2, <2>3, <2>4, QuietMoves
<1>9. ASSUME DropError({"reload"}) PROVE DeployInv'
  <2>1. PICK i \in DOMAIN net :
          /\ net[i].by = "reload" /\ Handled(i)
          /\ ui' = ui /\ page' = page /\ srv' = srv
    BY <1>9 DEF DropError, Catch, Failed, PageIs, session
  <2>2. UiType'
    BY <1>1, <2>1 DEF UiType
  <2>. QED BY <1>1, <2>1, <2>2, QuietMoves
<1>10. ASSUME NEW d \in Deps, Goroutine(d) PROVE DeployInv'
  BY <1>1, <1>10, GoroutineKeeps
<1>. QED
  BY <1>1, <1>2, <1>3, <1>4, <1>5, <1>6, <1>7, <1>8, <1>9, <1>10, BreaksMoves,
     TriggerMoves, LostMoves, Zenon
  DEF DeployNext

-----------------------------------------------------------------------------
(* DeployModal of DashboardPage.tsx *)

\* The record that CancelDeploy settles stops nobody who listens.
LEMMA CancelMoves ==
  ASSUME DeployInv, page = "deployModal", ServeCancelDeploy
  PROVE  DeployInv'
<1>1. /\ page \in DeployPages /\ ServerInv /\ NetInv /\ PageInv
      /\ net \in Seq(RequestType)
  BY DEF DeployInv, DeployPages, NetInv
<1>2. PICK i \in DOMAIN net :
        /\ Served(i, "cancel")
        /\ IF srv.phase[net[i].arg] = "running"
           THEN /\ Reply(i, net[i].arg)
                /\ ServerIs([srv EXCEPT !.rec[net[i].arg] = "failed",
                                        !.phase[net[i].arg] = "failed"])
           ELSE Refuse(i) /\ NetOnly
  BY DEF ServeCancelDeploy, Does, Makes
<1>3. CASE srv.phase[net[i].arg] = "running"
  <2>. DEFINE d == net[i].arg
  <2>1. d \in Deps /\ d \in Answers
    BY <1>1, <1>2 DEF NetInv, RequestOK, ArgOK, Served, Deps, Answers
  <2>2. /\ Reply(i, d) /\ page' = page /\ ui' = ui
        /\ srv' = [srv EXCEPT !.rec[d] = "failed", !.phase[d] = "failed"]
    BY <1>2, <1>3 DEF ServerIs, session
  <2>3. srv.phase[d] = "running"
    BY <1>3
  <2>. HIDE DEF d
  <2>4. Concerns(d) /\ Sound(d) /\ Carries(d) /\ d <= srv'.last
    <3>1. "failed" \in Statuses /\ "failed" \in Phases /\ RecordOK("failed", "failed")
      BY DEF Statuses, Phases, RecordOK
    <3>. QED BY <1>1, <2>1, <2>2, <2>3, <3>1, RecordMoves
  <2>5. ServerInv'
    BY <1>1, <2>1, <2>4, ServerKept
  <2>6. \A k \in DOMAIN net : RequestOK(net[k], srv')
    <3>1. \A k \in DOMAIN net : net[k] \in RequestType /\ RequestOK(net[k], srv)
      BY <1>1 DEF NetInv
    <3>. QED BY <1>1, <2>1, <2>4, <3>1, RequestKept
  <2>7. PICK r \in RequestType :
          /\ Answered(i, r) /\ r.by = net[i].by /\ r.arg = net[i].arg
          /\ r.state = "done" /\ Head(r.reply) = d
    BY <1>1, <2>1, <2>2, ReplyEffect
  <2>8. r.by = "cancel"
    BY <1>2, <2>7 DEF Served
  <2>9. RequestOK(r, srv')
    BY <2>1, <2>7, <2>8 DEF RequestOK, Replied, Fresh, ArgOK, d
  <2>10. NetInv' /\ \A by : Waiting(by)' <=> Waiting(by)
    BY <1>1, <2>6, <2>7, <2>9, NetAnswered
  <2>11. PageInv'
    BY <1>1, <2>1, <2>2, <2>4, <2>10, PageKept
  <2>. QED BY <2>5, <2>10, <2>11 DEF DeployInv
<1>4. CASE srv.phase[net[i].arg] # "running"
  <2>1. Refuse(i) /\ UNCHANGED <<page, ui, srv>>
    BY <1>2, <1>4 DEF NetOnly, session
  <2>. QED BY <1>1, <2>1, RefuseMoves
<1>. QED BY <1>3, <1>4

LEMMA ModalMoves ==
  ASSUME DeployInv, ModalNext
  PROVE  DeployInv'
<1>1. /\ page = "deployModal" /\ page \in DeployPages /\ ui \in ModalType
      /\ ServerInv /\ NetInv /\ PageInv
  BY DEF ModalNext, DeployInv, DeployPages, PageInv, UiType
<1>2. ASSUME ModalStarted PROVE DeployInv'
  <2>1. PICK i \in DOMAIN net :
          /\ Arrived(i, "startDeploy") /\ Handled(i)
          /\ ui' = [ui EXCEPT !.es = Answer(i), !.dep = Answer(i)]
          /\ srv' = [srv EXCEPT !.stream[Answer(i)] = Subscribe(@)]
    BY <1>2, Zenon DEF ModalStarted
  <2>2. page' = page
    BY <1>2 DEF ModalStarted, session
  <2>3. /\ ui'.es = Answer(i) /\ ui'.log = ui.log /\ ui'.deploying = ui.deploying
        /\ ui'.dep = Answer(i) /\ ui'.success = ui.success
    BY <1>1, <2>1 DEF ModalType
  <2>4. ServerInv' /\ NetInv' /\ LogOK' /\ Answer(i) \in Deps /\ ~ui.success
    BY <1>1, <2>1, <2>3, StartedMoves
  <2>5. Answer(i) \in 0..MaxDeploys
    BY <2>4, DeployPageAssumption DEF Deps
  <2>6. ui' \in ModalType
    BY <1>1, <2>1, <2>5 DEF ModalType
  <2>7. ModalOK'
    BY <2>3, <2>4 DEF ModalOK
  <2>. QED BY <1>1, <2>2, <2>4, <2>6, <2>7 DEF DeployInv, PageInv, UiType
<1>3. 0 \in 0..MaxDeploys
  BY DeployPageAssumption
<1>4. ASSUME ModalRefused PROVE DeployInv'
  <2>1. PICK i \in DOMAIN net : net[i].by = "startDeploy" /\ Handled(i)
    BY <1>4 DEF ModalRefused, Catch, Failed
  <2>2. page' = page /\ srv' = srv /\ ui' = ModalEnded
    BY <1>4 DEF ModalRefused, Catch, PageIs, session
  <2>3. ServerInv' /\ NetInv' /\ ~Waiting("startDeploy")'
    BY <1>1, <2>1, <2>2, HandledMoves
  <2>4. Waiting("startDeploy")
    BY <2>1 DEF Waiting
  <2>5. ~ui.success
    BY <1>1, <2>4, Zenon DEF PageInv, ModalOK
  <2>6. ui' \in ModalType /\ ui'.es = 0 /\ ~ui'.deploying /\ ~ui'.success
    BY <1>1, <1>3, <2>2, <2>5 DEF ModalType, ModalEnded
  <2>7. LogOK'
    BY <2>3, <2>6, IdleOK
  <2>8. ModalOK'
    BY <2>6 DEF ModalOK
  <2>. QED BY <1>1, <2>2, <2>3, <2>6, <2>7, <2>8 DEF DeployInv, PageInv, UiType
<1>5. ASSUME ModalMessage PROVE DeployInv'
  <2>. DEFINE m == Head(Stream.wire)
  <2>1. ui.es # 0 /\ Stream.wire # <<>> /\ page' = page /\ net' = net
    BY <1>5 DEF ModalMessage, session
  <2>2. \/ /\ ui' = [ui EXCEPT !.log = Append(@, m)]
           /\ srv' = [srv EXCEPT !.stream[ui.es].wire = Tail(@)]
        \/ /\ m \in {"success", "failed"}
           /\ ui' = [ModalEnded EXCEPT !.success = m = "success",
                                       !.log = Append(ui.log, m)]
           /\ srv' = [srv EXCEPT !.stream[ui.es] = Hangup(@)]
    BY <1>5 DEF ModalMessage
  <2>3. CASE /\ ui' = [ui EXCEPT !.log = Append(@, m)]
             /\ srv' = [srv EXCEPT !.stream[ui.es].wire = Tail(@)]
    BY <1>1, <2>1, <2>3, HeardMoves
  <2>4. CASE /\ m \in {"success", "failed"}
             /\ ui' = [ModalEnded EXCEPT !.success = m = "success",
                                         !.log = Append(ui.log, m)]
             /\ srv' = [srv EXCEPT !.stream[ui.es] = Hangup(@)]
    <3>1. /\ ServerInv' /\ \A k \in DOMAIN net : RequestOK(net[k], srv')
          /\ ui.es \in Deps /\ m \in Messages
          /\ \A e \in Deps : srv'.phase[e] = srv.phase[e] /\ srv'.rec[e] = srv.rec[e]
          /\ True(m, srv.phase[ui.es], srv.rec[ui.es])
          /\ ~Waiting("startDeploy") /\ ui.log \in Seq(Messages)
      BY <1>1, <2>1, <2>4, ToldMoves
    <3>2. /\ srv.phase[ui.es] \in After
          /\ m = "success" => srv.rec[ui.es] = "success"
      BY <2>4, <3>1 DEF True
    <3>3. Append(ui.log, m) \in Seq(Messages)
      BY <3>1
    <3>. HIDE DEF m
    <3>4. NetInv' /\ ~Waiting("startDeploy")'
      BY <1>1, <2>1, <3>1, Zenon DEF NetInv, Waiting
    <3>5. /\ ui' \in ModalType /\ ui'.es = 0 /\ ~ui'.deploying
          /\ ui'.dep = ui.dep /\ ui'.success = (m = "success")
      BY <1>1, <1>3, <2>4, <3>3 DEF ModalType, ModalEnded
    <3>6. LogOK'
      BY <3>4, <3>5, IdleOK
    <3>7. ui.es = ui.dep
      BY <1>1, <2>1, Zenon DEF PageInv, ModalOK
    <3>8. ModalOK'
      BY <2>1, <3>1, <3>2, <3>4, <3>5, <3>7 DEF ModalOK
    <3>. QED BY <1>1, <2>1, <3>1, <3>4, <3>5, <3>6, <3>8 DEF DeployInv, PageInv, UiType
  <2>. QED BY <2>2, <2>3, <2>4
<1>6. ASSUME ModalStreamError PROVE DeployInv'
  <2>1. /\ ui.es # 0 /\ page' = page /\ srv' = srv /\ net' = net /\ ui' = ModalEnded
    BY <1>6 DEF ModalStreamError, Becomes, PageIs, session
  <2>2. ServerInv' /\ NetInv' /\ ~Waiting("startDeploy")'
    BY <1>1, <2>1, Zenon DEF ServerInv, NetInv, PageInv, LogOK, Waiting
  <2>3. /\ ui' \in ModalType /\ ui'.es = 0 /\ ~ui'.deploying
        /\ ui'.dep = ui.dep /\ ui'.success = ui.success
    BY <1>1, <1>3, <2>1 DEF ModalType, ModalEnded
  <2>4. LogOK'
    BY <2>2, <2>3, IdleOK
  <2>5. ModalOK'
    BY <1>1, <2>1, <2>2, <2>3, Zenon DEF PageInv, ModalOK
  <2>. QED BY <1>1, <2>1, <2>2, <2>3, <2>4, <2>5 DEF DeployInv, PageInv, UiType
<1>7. ASSUME ClickCancelDeploy PROVE DeployInv'
  <2>. DEFINE r == Request("cancel", "cancelDeploy", ui.dep)
  <2>1. /\ ui.dep # 0 /\ Send(r) /\ page' = page /\ srv' = srv
        /\ ui' = [ui EXCEPT !.cancelling = TRUE]
    BY <1>7 DEF ClickCancelDeploy, Asks, PageIs, session
  <2>2. ui.dep \in Deps /\ ui.dep \in Nat \cup {NoArg}
    BY <1>1, <2>1, DeployPageAssumption DEF ModalType, Deps
  <2>3. r \in RequestType /\ r.by = "cancel" /\ r.arg = ui.dep /\ r.state = "sent"
    <3>1. /\ "cancel" \in {"reload", "startDeploy", "cancel"}
          /\ "cancelDeploy" \in {"listDeployments", "triggerDeploy", "cancelDeploy"}
      OBVIOUS
    <3>2. Request("cancel", "cancelDeploy", ui.dep) \in RequestType
      BY <2>2, <3>1, RequestIsTyped
    <3>. QED BY <3>2 DEF Request
  <2>. HIDE DEF r
  <2>4. RequestOK(r, srv') /\ \A k \in DOMAIN net : RequestOK(net[k], srv')
    BY <1>1, <2>1, <2>2, <2>3 DEF NetInv, RequestOK, Replied, Fresh, ArgOK
  <2>5. NetInv' /\ (Waiting("startDeploy")' <=> Waiting("startDeploy"))
    <3>1. NetInv' /\ \A by : Waiting(by)' <=> Waiting(by) \/ r.by = by
      BY <1>1, <2>1, <2>3, <2>4, NetSent
    <3>. QED BY <2>3, <3>1
  <2>6. /\ ui' \in ModalType /\ ui'.es = ui.es /\ ui'.deploying = ui.deploying
        /\ ui'.dep = ui.dep /\ ui'.success = ui.success /\ ui'.log = ui.log
    BY <1>1, <2>1 DEF ModalType
  <2>7. LogOK' /\ ModalOK' /\ ServerInv'
    BY <1>1, <2>1, <2>5, <2>6, Zenon DEF PageInv, LogOK, ModalOK, ServerInv
  <2>. QED BY <1>1, <2>1, <2>5, <2>6, <2>7 DEF DeployInv, PageInv, UiType
<1>8. ASSUME Finally("cancel", ui) PROVE DeployInv'
  <2>1. PICK i \in DOMAIN net :
          /\ net[i].by = "cancel"
          /\ Handled(i) \/ HandledThen(i, <<>>)
          /\ ui' = ui /\ page' = page /\ srv' = srv
    BY <1>8 DEF Finally, Then, ThenAsks, Catch, Arrived, Failed, PageIs, session
  <2>2. UiType'
    BY <1>1, <2>1 DEF UiType
  <2>. QED BY <1>1, <2>1, <2>2, QuietMoves
<1>9. ASSUME NEW d \in Deps, Goroutine(d) PROVE DeployInv'
  BY <1>1, <1>9, GoroutineKeeps
<1>. QED
  BY <1>1, <1>2, <1>4, <1>5, <1>6, <1>7, <1>8, <1>9, BreaksMoves, CancelMoves,
     TriggerMoves, LostMoves, Zenon
  DEF ModalNext

-----------------------------------------------------------------------------
(* The invariant *)

LEMMA DeployStarts ==
  ASSUME DeployInit \/ ModalInit
  PROVE  DeployInv
<1>1. srv = DeployServer /\ page \in DeployPages
  BY DEF DeployInit, ModalInit, Opens, DeployPages
<1>2. /\ NewStream \in StreamType /\ Unheard(NewStream)
      /\ NewStream.buf = <<>> /\ NewStream.wire = <<>> /\ NewStream.chan = <<>>
      /\ NewStream.toSend = <<>> /\ NewStream.open /\ ~NewStream.closing
  <2>1. <<>> \in Seq(Messages)
    OBVIOUS
  <2>. QED BY <2>1 DEF NewStream, StreamType, Unheard
<1>3. StreamOK(NewStream, "none", "none", 0)
  BY <1>2, ToldEmpty, LogsEmpty DEF StreamOK
<1>4. ServerInv
  <2>1. /\ srv.last = 0 /\ srv.phase = [d \in Deps |-> "none"]
        /\ srv.lines = [d \in Deps |-> 0] /\ srv.rec = [d \in Deps |-> "none"]
        /\ srv.stream = [d \in Deps |-> NewStream]
    BY <1>1, Zenon DEF DeployServer
  <2>2. srv \in ServerType
    <3>1. "none" \in Phases /\ "none" \in Statuses /\ 0 \in 0..MaxDeploys
      BY DeployPageAssumption DEF Phases, Statuses
    <3>. HIDE DEF NewStream
    <3>. QED BY <1>1, <1>2, <3>1 DEF ServerType, DeployServer
  <2>3. RecordOK("none", "none")
    BY DEF RecordOK
  <2>. QED BY <1>2, <1>3, <2>1, <2>2, <2>3 DEF ServerInv
<1>5. CASE DeployInit
  <2>. DEFINE r == Request("reload", "listDeployments", 0)
  <2>1. r \in RequestType /\ r.by = "reload" /\ r.arg = 0 /\ r.state = "sent"
    BY RequestIsTyped
  <2>2. net = <<r>> /\ page = "deploy"
    BY <1>5 DEF DeployInit, Opens
  <2>. HIDE DEF r
  <2>3. RequestOK(r, srv)
    BY <2>1, DeployPageAssumption DEF RequestOK, Replied, Fresh, ArgOK
  <2>4. /\ net \in Seq(RequestType) /\ DOMAIN net = {1} /\ net[1] = r
    BY <2>1, <2>2
  <2>5. NetInv /\ ~Waiting("startDeploy")
    BY <2>1, <2>3, <2>4 DEF NetInv, Waiting
  <2>6. ui = [deploying |-> FALSE, list |-> [d \in Deps |-> "none"], es |-> 0, log |-> <<>>]
    BY <1>5 DEF DeployInit
  <2>7. ui \in PageType /\ ui.es = 0 /\ ~ui.deploying
    <3>1. <<>> \in Seq(Messages) /\ 0 \in 0..MaxDeploys
      BY DeployPageAssumption
    <3>2. [d \in Deps |-> "none"] \in Answers
      BY DEF Answers, Statuses
    <3>. QED BY <2>6, <3>1, <3>2 DEF PageType
  <2>. QED BY <1>4, <2>2, <2>5, <2>7 DEF DeployInv, PageInv, UiType, ModalOK, LogOK
<1>6. CASE ModalInit
  <2>. DEFINE r == Request("startDeploy", "triggerDeploy", NoArg)
  <2>1. r \in RequestType /\ r.by = "startDeploy" /\ r.state = "sent"
    <3>1. /\ "startDeploy" \in {"reload", "startDeploy", "cancel"}
          /\ "triggerDeploy" \in {"listDeployments", "triggerDeploy", "cancelDeploy"}
          /\ NoArg \in Nat \cup {NoArg}
      OBVIOUS
    <3>2. Request("startDeploy", "triggerDeploy", NoArg) \in RequestType
      BY <3>1, RequestIsTyped
    <3>. QED BY <3>2 DEF Request
  <2>2. net = <<r>> /\ page = "deployModal"
    BY <1>6 DEF ModalInit, Opens
  <2>. HIDE DEF r
  <2>3. RequestOK(r, srv)
    BY <2>1 DEF RequestOK, Replied, Fresh, ArgOK
  <2>4. /\ net \in Seq(RequestType) /\ DOMAIN net = {1} /\ net[1] = r
    BY <2>1, <2>2
  <2>5. NetInv /\ Waiting("startDeploy")
    BY <2>1, <2>3, <2>4 DEF NetInv, Waiting
  <2>6. ui = [deploying |-> TRUE, es |-> 0, done |-> FALSE, success |-> FALSE,
              cancelling |-> FALSE, dep |-> 0, log |-> <<>>]
    BY <1>6 DEF ModalInit
  <2>7. ui \in ModalType /\ ui.es = 0 /\ ui.deploying /\ ~ui.success /\ ui.log = <<>>
    <3>1. <<>> \in Seq(Messages) /\ 0 \in 0..MaxDeploys
      BY DeployPageAssumption
    <3>. QED BY <2>6, <3>1 DEF ModalType
  <2>. QED BY <1>4, <2>2, <2>5, <2>7 DEF DeployInv, PageInv, UiType, ModalOK, LogOK
<1>. QED BY <1>5, <1>6

LEMMA DeployInvProperties ==
  ASSUME DeployInv
  PROVE  DeployingIsTrue /\ OutcomeIsTold /\ LogIsPublished
<1>. SUFFICES ASSUME page \in DeployPages
              PROVE  DeployingIsTrue /\ OutcomeIsTold /\ LogIsPublished
  BY DEF DeployPages, DeployingIsTrue, OutcomeIsTold, ReloadSeesOutcome, SuccessIsTrue,
         LogIsPublished
<1>1. ServerInv /\ NetInv /\ PageInv /\ srv \in ServerType
  BY DEF DeployInv, ServerInv
<1>2. DeployingIsTrue
  BY <1>1, Zenon DEF PageInv, LogOK, DeployingIsTrue
<1>3. ReloadSeesOutcome
  <2>. SUFFICES ASSUME NEW i \in DOMAIN net, net[i].by = "reload", net[i].arg # 0
                PROVE  srv.rec[net[i].arg] # "running"
    BY DEF ReloadSeesOutcome
  <2>1. net[i].arg \in Deps /\ srv.phase[net[i].arg] \in After
    BY <1>1, DeployPageAssumption DEF NetInv, RequestOK, ArgOK, Deps
  <2>. QED BY <1>1, <2>1 DEF ServerInv, RecordOK, After
<1>4. SuccessIsTrue
  BY <1>1, Zenon DEF PageInv, ModalOK, SuccessIsTrue
<1>5. LogIsPublished
  <2>1. ASSUME NEW d \in Deps, srv.stream[d].toSend # <<>>
        PROVE  srv.stream[d].open
    BY <1>1, <2>1 DEF ServerInv, StreamOK
  <2>2. ASSUME ui.es # 0
        PROVE  Cardinality({i \in DOMAIN ui.log : ui.log[i] = "log"})
                 <= srv.lines[ui.es]
    <3>1. ui.es \in Deps /\ Logs(ui.log) \in Nat
      BY <1>1, <2>2, UiFields DEF PageInv
    <3>2. Backlog(srv.stream[ui.es]) \in Nat /\ srv.lines[ui.es] \in Nat
      BY <1>1, <3>1, Untouched, BacklogType
    <3>3. Logs(ui.log) + Backlog(srv.stream[ui.es]) <= srv.lines[ui.es]
      BY <1>1, <2>2, Zenon DEF PageInv, LogOK
    <3>4. Logs(ui.log) <= srv.lines[ui.es]
      BY <3>1, <3>2, <3>3
    <3>. QED BY <3>4 DEF Logs
  <2>. QED BY <2>1, <2>2, Zenon DEF LogIsPublished
<1>. QED BY <1>2, <1>3, <1>4, <1>5 DEF OutcomeIsTold
=============================================================================
