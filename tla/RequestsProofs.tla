--------------------------- MODULE RequestsProofs ---------------------------
(***************************************************************************)
(* Lemmas about the requests between any page and the server: what a step   *)
(* does with those of some handlers, the order in which they are answered,  *)
(* and what a page will show when the answers have been taken.  They are    *)
(* what the proofs about each page rest on.                                 *)
(***************************************************************************)
EXTENDS Browser, SequenceTheorems, TLAPS

-----------------------------------------------------------------------------
(* A request that is taken off *)

\* What is left, in the order in which it was.
LEMMA RemoveAtEffect ==
  ASSUME NEW S, NEW s \in Seq(S), NEW i \in 1..Len(s)
  PROVE  /\ RemoveAt(s, i) \in Seq(S)
         /\ Len(RemoveAt(s, i)) = Len(s) - 1
         /\ \A k \in 1..Len(s) - 1 :
              RemoveAt(s, i)[k] = s[IF k < i THEN k ELSE k + 1]
<1>. DEFINE a == SubSeq(s, 1, i-1)
            b == SubSeq(s, i+1, Len(s))
<1>1. /\ a \in Seq(S) /\ Len(a) = i - 1
      /\ \A k \in 1..i-1 : a[k] = s[k]
  BY SubSeqProperties
<1>2. /\ b \in Seq(S) /\ Len(b) = Len(s) - i
      /\ \A k \in 1..Len(s) - i : b[k] = s[i + k]
  BY SubSeqProperties
<1>. HIDE DEF a, b
<1>3. /\ a \o b \in Seq(S)
      /\ Len(a \o b) = Len(s) - 1
      /\ \A k \in 1..Len(s) - 1 :
           (a \o b)[k] = IF k <= i - 1 THEN a[k] ELSE b[k - (i - 1)]
  <2>1. /\ a \o b \in Seq(S)
        /\ Len(a \o b) = Len(a) + Len(b)
        /\ \A k \in 1..Len(a) + Len(b) :
             (a \o b)[k] = IF k <= Len(a) THEN a[k] ELSE b[k - Len(a)]
    BY <1>1, <1>2, ConcatProperties, Zenon
  <2>2. Len(a) + Len(b) = Len(s) - 1
    BY <1>1, <1>2
  <2>. QED BY <1>1, <2>1, <2>2
<1>4. ASSUME NEW k \in 1..Len(s) - 1
      PROVE  (a \o b)[k] = s[IF k < i THEN k ELSE k + 1]
  <2>1. CASE k < i
    BY <1>1, <1>3, <2>1
  <2>2. CASE ~(k < i)
    <3>1. k - (i - 1) \in 1..Len(s) - i /\ i + (k - (i - 1)) = k + 1
      BY <2>2
    <3>2. b[k - (i - 1)] = s[k + 1]
      BY <1>2, <3>1
    <3>. QED BY <1>3, <2>2, <3>2
  <2>. QED BY <2>1, <2>2
<1>. QED BY <1>3, <1>4 DEF RemoveAt, a, b

-----------------------------------------------------------------------------
(* The requests of some handlers in a sequence *)

IsRequest(x)   == DOMAIN x = {"by", "call", "arg", "state", "reply"}
AreRequests(q) == \E S : q \in Seq(S) /\ \A x \in S : IsRequest(x)
WaitsIn(q, W)  == \E k \in DOMAIN q : q[k].by \in W
OneIn(q, W)    == \A j, k \in DOMAIN q : q[j].by \in W /\ q[k].by \in W => j = k

\* What is left when one request is taken off.
LEMMA RemoveIn ==
  ASSUME NEW q, AreRequests(q), NEW i \in DOMAIN q, NEW W
  PROVE  /\ AreRequests(RemoveAt(q, i)) /\ RemoveAt(q, i) \o <<>> = RemoveAt(q, i)
         /\ OneIn(q, W) => OneIn(RemoveAt(q, i), W)
         /\ q[i].by \notin W => (WaitsIn(RemoveAt(q, i), W) <=> WaitsIn(q, W))
         /\ q[i].by \in W /\ OneIn(q, W) => ~WaitsIn(RemoveAt(q, i), W)
         /\ WaitsIn(RemoveAt(q, i), W) => WaitsIn(q, W)
<1>. DEFINE r     == RemoveAt(q, i)
            At(k) == IF k < i THEN k ELSE k + 1
<1>0. PICK S : q \in Seq(S) /\ \A x \in S : IsRequest(x)
  BY DEF AreRequests
<1>1. i \in 1..Len(q) /\ DOMAIN q = 1..Len(q)
  BY <1>0
<1>2. /\ r \in Seq(S) /\ Len(r) = Len(q) - 1
      /\ \A k \in 1..Len(q) - 1 : r[k] = q[At(k)]
  BY <1>0, <1>1, RemoveAtEffect
<1>. HIDE DEF r
<1>3. DOMAIN r = 1..Len(q) - 1 /\ r \o <<>> = r
  BY <1>1, <1>2
<1>4. /\ \A k \in DOMAIN r : At(k) \in DOMAIN q /\ At(k) # i
      /\ \A j, k \in DOMAIN r : At(j) = At(k) => j = k
      /\ \A k \in DOMAIN q : k # i => \E j \in DOMAIN r : At(j) = k
  <2>1. ASSUME NEW k \in DOMAIN q, k # i
        PROVE  \E j \in DOMAIN r : At(j) = k
    <3>1. CASE k < i
      BY <1>1, <1>3, <3>1
    <3>2. CASE ~(k < i)
      <4>1. k - 1 \in DOMAIN r /\ At(k - 1) = k
        BY <1>1, <1>3, <2>1, <3>2
      <4>. QED BY <4>1
    <3>. QED BY <3>1, <3>2
  <2>. QED BY <1>1, <1>3, <2>1
<1>. HIDE DEF At
<1>5. \A k \in DOMAIN r : r[k] = q[At(k)]
  BY <1>2, <1>3
<1>6. AreRequests(r)
  BY <1>0, <1>2 DEF AreRequests
<1>7. ASSUME OneIn(q, W), NEW j \in DOMAIN r, NEW k \in DOMAIN r,
             r[j].by \in W, r[k].by \in W
      PROVE  j = k
  <2>1. At(j) \in DOMAIN q /\ At(k) \in DOMAIN q
    BY <1>4, Zenon
  <2>2. q[At(j)].by \in W /\ q[At(k)].by \in W
    BY <1>5, <1>7, Zenon
  <2>3. At(j) = At(k)
    BY <1>7, <2>1, <2>2, Zenon DEF OneIn
  <2>. QED BY <1>4, <2>3, Zenon
<1>8. ASSUME WaitsIn(r, W)
      PROVE  \E k \in DOMAIN q : k # i /\ q[k].by \in W
  <2>1. PICK k \in DOMAIN r : r[k].by \in W
    BY <1>8 DEF WaitsIn
  <2>. QED BY <1>4, <1>5, <2>1, Zenon
<1>9. ASSUME WaitsIn(q, W), q[i].by \notin W
      PROVE  WaitsIn(r, W)
  <2>1. PICK k \in DOMAIN q : q[k].by \in W
    BY <1>9 DEF WaitsIn
  <2>2. k # i
    BY <1>9, <2>1
  <2>3. PICK j \in DOMAIN r : At(j) = k
    BY <1>4, <2>2, Zenon
  <2>4. r[j].by \in W
    BY <1>5, <2>1, <2>3, Zenon
  <2>. QED BY <2>4 DEF WaitsIn
<1>10. OneIn(q, W) => OneIn(r, W)
  BY <1>7, Zenon DEF OneIn
<1>11. WaitsIn(r, W) => WaitsIn(q, W)
  BY <1>8, Zenon DEF WaitsIn
<1>12. q[i].by \in W /\ OneIn(q, W) => ~WaitsIn(r, W)
  BY <1>8, Zenon DEF OneIn
<1>. QED BY <1>3, <1>6, <1>9, <1>10, <1>11, <1>12, Zenon DEF r

\* What is there when one request is added.
LEMMA AppendIn ==
  ASSUME NEW q, AreRequests(q), NEW x, IsRequest(x), NEW W
  PROVE  /\ AreRequests(q \o <<x>>)
         /\ x.by \notin W => /\ WaitsIn(q \o <<x>>, W) <=> WaitsIn(q, W)
                             /\ OneIn(q, W) => OneIn(q \o <<x>>, W)
         /\ x.by \in W => /\ WaitsIn(q \o <<x>>, W)
                          /\ ~WaitsIn(q, W) => OneIn(q \o <<x>>, W)
         /\ WaitsIn(q, W) => WaitsIn(q \o <<x>>, W)
<1>. DEFINE r == q \o <<x>>
<1>1. PICK S : q \in Seq(S) /\ \A y \in S : IsRequest(y)
  BY DEF AreRequests
<1>2. q \in Seq(S \cup {x}) /\ <<x>> \in Seq(S \cup {x})
  BY <1>1
<1>3. /\ r \in Seq(S \cup {x}) /\ Len(r) = Len(q) + 1
      /\ \A k \in 1..Len(q) + 1 : r[k] = IF k <= Len(q) THEN q[k] ELSE <<x>>[k - Len(q)]
    BY <1>2
<1>. HIDE DEF r
<1>4. /\ DOMAIN q = 1..Len(q) /\ Len(q) \in Nat /\ DOMAIN r = 1..Len(q) + 1
  BY <1>1, <1>3
<1>5. /\ \A k \in DOMAIN q : k \in DOMAIN r /\ r[k] = q[k]
      /\ Len(q) + 1 \in DOMAIN r /\ r[Len(q) + 1] = x
      /\ \A k \in DOMAIN r : k \in DOMAIN q \/ k = Len(q) + 1
  BY <1>3, <1>4
<1>6. AreRequests(r)
  BY <1>1, <1>3 DEF AreRequests
<1>7. WaitsIn(q, W) => WaitsIn(r, W)
  BY <1>5, Zenon DEF WaitsIn
<1>8. x.by \in W => WaitsIn(r, W)
  BY <1>5, Zenon DEF WaitsIn
<1>9. x.by \notin W /\ WaitsIn(r, W) => WaitsIn(q, W)
  BY <1>5, Zenon DEF WaitsIn
<1>10. x.by \notin W /\ OneIn(q, W) => OneIn(r, W)
  BY <1>5, Zenon DEF OneIn
<1>11. x.by \in W /\ ~WaitsIn(q, W) => OneIn(r, W)
  BY <1>5, Zenon DEF OneIn, WaitsIn
<1>. QED BY <1>6, <1>7, <1>8, <1>9, <1>10, <1>11, Zenon DEF r

-----------------------------------------------------------------------------
(* What a step does with the requests *)

Waits(W) == WaitsIn(net, W)
One(W)   == OneIn(net, W)

Marked        == \E i \in DOMAIN net : Refuse(i) \/ \E v : Reply(i, v)
Removed(i)    == Handled(i) \/ HandledThen(i, <<>>)
Asked(by)     == \E call, arg : Send(Request(by, call, arg))
\* A handler asks what its user may ask.
Granted(by, call, need) == Can(need) /\ \E arg : Send(Request(by, call, arg))
Swapped(i, by) == \E call, arg : HandledThen(i, <<Request(by, call, arg)>>)

\* A request that is answered or refused is still that of its handler.
LEMMA MarkedKeeps ==
  ASSUME AreRequests(net), Marked, NEW W
  PROVE  AreRequests(net)' /\ (Waits(W)' <=> Waits(W)) /\ (One(W) => One(W)')
<1>1. PICK i \in DOMAIN net : Refuse(i) \/ \E v : Reply(i, v)
  BY DEF Marked
<1>2. PICK S : net \in Seq(S) /\ \A x \in S : IsRequest(x)
  BY DEF AreRequests
<1>. DEFINE x == net[i]
<1>3. IsRequest(x)
  BY <1>2
<1>. HIDE DEF x
<1>4. \E r : net' = [net EXCEPT ![i] = r] /\ r.by = x.by /\ IsRequest(r)
  <2>1. CASE Refuse(i)
    <3>. DEFINE r == [x EXCEPT !.state = "error"]
    <3>1. net' = [net EXCEPT ![i] = r]
      BY <1>2, <2>1 DEF Refuse, x
    <3>2. r.by = x.by /\ IsRequest(r)
      BY <1>3 DEF IsRequest
    <3>. QED BY <3>1, <3>2
  <2>2. CASE \E v : Reply(i, v)
    <3>1. PICK v : Reply(i, v)
      BY <2>2
    <3>. DEFINE p == [x EXCEPT !.state = "done"]
                r == [p EXCEPT !.reply = <<v>>]
    <3>2. net' = [net EXCEPT ![i] = r]
      BY <1>2, <3>1 DEF Reply, x
    <3>3. p.by = x.by /\ IsRequest(p)
      BY <1>3 DEF IsRequest
    <3>. HIDE DEF p
    <3>4. r.by = p.by /\ IsRequest(r)
      BY <3>3 DEF IsRequest
    <3>. QED BY <3>2, <3>3, <3>4
  <2>. QED BY <1>1, <2>1, <2>2
<1>5. PICK r : net' = [net EXCEPT ![i] = r] /\ r.by = x.by /\ IsRequest(r)
  BY <1>4
<1>6. net' \in Seq(S \cup {r}) /\ \A y \in S \cup {r} : IsRequest(y)
  BY <1>2, <1>5
<1>7. DOMAIN net' = DOMAIN net /\ \A k \in DOMAIN net : net'[k].by = net[k].by
  BY <1>5 DEF x
<1>8. Waits(W)' <=> Waits(W)
  BY <1>7, Zenon DEF Waits, WaitsIn
<1>9. One(W) => One(W)'
  BY <1>7, Zenon DEF One, OneIn
<1>. QED BY <1>6, <1>8, <1>9 DEF AreRequests

\* One request is taken off.
LEMMA RemovedKeeps ==
  ASSUME AreRequests(net), NEW i \in DOMAIN net, Removed(i), NEW W
  PROVE  /\ AreRequests(net)' /\ (One(W) => One(W)') /\ (Waits(W)' => Waits(W))
         /\ net[i].by \notin W => (Waits(W)' <=> Waits(W))
         /\ net[i].by \in W /\ One(W) => ~Waits(W)'
<1>1. net' = RemoveAt(net, i)
  BY RemoveIn DEF Removed, Handled, HandledThen
<1>. QED BY <1>1, RemoveIn DEF Waits, One

\* A handler asks.
LEMMA AskedKeeps ==
  ASSUME AreRequests(net), NEW by, Asked(by), NEW W
  PROVE  /\ AreRequests(net)'
         /\ by \notin W => (Waits(W)' <=> Waits(W)) /\ (One(W) => One(W)')
         /\ by \in W => Waits(W)' /\ (~Waits(W) => One(W)')
         /\ Waits(W) => Waits(W)'
<1>0. PICK call, arg : Send(Request(by, call, arg))
  BY DEF Asked
<1>. DEFINE x == Request(by, call, arg)
<1>1. net' = net \o <<x>> /\ x.by = by /\ IsRequest(x)
  BY <1>0 DEF Send, Sends, Request, IsRequest
<1>. HIDE DEF x
<1>. QED BY <1>1, AppendIn DEF Waits, One

\* A request is taken off and a handler asks.
LEMMA SwappedKeeps ==
  ASSUME AreRequests(net), NEW i \in DOMAIN net, NEW by, Swapped(i, by), NEW W
  PROVE  /\ AreRequests(net)'
         /\ by \in W => Waits(W)'
         /\ by \notin W /\ net[i].by \notin W => (Waits(W)' <=> Waits(W)) /\ (One(W) => One(W)')
         /\ by \in W /\ net[i].by \in W /\ One(W) => One(W)'
         /\ by \notin W /\ net[i].by \in W /\ One(W) => ~Waits(W)' /\ One(W)'
<1>0. PICK call, arg : HandledThen(i, <<Request(by, call, arg)>>)
  BY DEF Swapped
<1>. DEFINE x == Request(by, call, arg)
<1>1. net' = RemoveAt(net, i) \o <<x>> /\ x.by = by /\ IsRequest(x)
  BY <1>0 DEF HandledThen, Request, IsRequest
<1>. HIDE DEF x
<1>2. /\ AreRequests(RemoveAt(net, i))
      /\ OneIn(net, W) => OneIn(RemoveAt(net, i), W)
      /\ net[i].by \notin W => (WaitsIn(RemoveAt(net, i), W) <=> WaitsIn(net, W))
      /\ net[i].by \in W /\ OneIn(net, W) => ~WaitsIn(RemoveAt(net, i), W)
  BY RemoveIn
<1>3. /\ AreRequests(net')
      /\ x.by \notin W => /\ WaitsIn(net', W) <=> WaitsIn(RemoveAt(net, i), W)
                          /\ OneIn(RemoveAt(net, i), W) => OneIn(net', W)
      /\ x.by \in W => /\ WaitsIn(net', W)
                       /\ ~WaitsIn(RemoveAt(net, i), W) => OneIn(net', W)
  BY <1>1, <1>2, AppendIn
<1>. QED BY <1>1, <1>2, <1>3, Zenon DEF Waits, One

-----------------------------------------------------------------------------
(* What an action of a page does with the requests and with the flags *)

Stays          == net' = net \/ Marked
Drops(bys)     == \E i \in DOMAIN net : net[i].by \in bys /\ Removed(i)
Swaps(bys, by) == \E i \in DOMAIN net : net[i].by \in bys /\ Swapped(i, by)
Busy(b)        == "busy" \in DOMAIN ui' /\ ui'.busy = b
Modal(m)       == "modal" \in DOMAIN ui' /\ ui'.modal = m
Timer(t)       == "timer" \in DOMAIN ui' /\ ui'.timer = t

\* No request comes or goes.
LEMMA StaysKeeps ==
  ASSUME AreRequests(net), Stays, NEW W
  PROVE  AreRequests(net)' /\ (Waits(W)' <=> Waits(W)) /\ (One(W) => One(W)')
<1>1. CASE net' = net
  BY <1>1, Zenon DEF Waits, One
<1>. QED BY <1>1, MarkedKeeps DEF Stays

\* An answer or an error reaches one of the handlers.
LEMMA DropsKeeps ==
  ASSUME AreRequests(net), NEW bys, Drops(bys), NEW W
  PROVE  /\ AreRequests(net)' /\ (One(W) => One(W)') /\ (Waits(W)' => Waits(W))
         /\ (\A b \in bys : b \notin W) => (Waits(W)' <=> Waits(W))
         /\ (\A b \in bys : b \in W) => Waits(W) /\ (One(W) => ~Waits(W)')
<1>1. PICK i \in DOMAIN net : net[i].by \in bys /\ Removed(i)
  BY DEF Drops
<1>2. net[i].by \in W => Waits(W)
  BY DEF Waits, WaitsIn
<1>. QED BY <1>1, <1>2, RemovedKeeps

\* The answer reaches a handler, which asks again.
LEMMA SwapsKeeps ==
  ASSUME AreRequests(net), NEW bys, NEW by, Swaps(bys, by), NEW W
  PROVE  /\ AreRequests(net)'
         /\ by \in W => Waits(W)'
         /\ (\A b \in bys : b \in W) => Waits(W)
         /\ by \notin W /\ (\A b \in bys : b \notin W) =>
              (Waits(W)' <=> Waits(W)) /\ (One(W) => One(W)')
         /\ by \in W /\ (\A b \in bys : b \in W) /\ One(W) => One(W)'
         /\ by \notin W /\ (\A b \in bys : b \in W) /\ One(W) => ~Waits(W)' /\ One(W)'
<1>1. PICK i \in DOMAIN net : net[i].by \in bys /\ Swapped(i, by)
  BY DEF Swaps
<1>2. net[i].by \in W => Waits(W)
  BY DEF Waits, WaitsIn
<1>. QED BY <1>1, <1>2, SwappedKeeps

\* A request that is forbidden or lost changes nothing of the page.
LEMMA FaultStays ==
  ASSUME Forbid \/ Fault
  PROVE  ui' = ui /\ Stays
BY DEF Forbid, Fault, Stays, Marked, NetOnly

\* A read that is answered changes nothing of the page.
LEMMA TellsStays ==
  ASSUME NEW by, NEW v, Tells(by, v)
  PROVE  ui' = ui /\ Stays
BY DEF Tells, Finds, Stays, Marked, NetOnly

\* An error that is dropped changes nothing of the page.
LEMMA SilentDrops ==
  ASSUME NEW silent, DropError(silent)
  PROVE  ui' = ui /\ Drops(silent)
BY DEF DropError, Catch, Failed, Drops, Removed, PageIs

-----------------------------------------------------------------------------
(* The requests in flight, from one state to the next *)

\* r is q with an answer to one request, without its first, with one more.
AnsweredAt(q, r, i, st, v) ==
  /\ i \in DOMAIN q /\ DOMAIN r = DOMAIN q
  /\ \A k \in DOMAIN q : k # i => r[k] = q[k]
  /\ r[i].by = q[i].by /\ r[i].call = q[i].call /\ r[i].arg = q[i].arg
  /\ r[i].state = st /\ (st = "done" => r[i].reply = v)

Advanced(q, r) ==
  /\ Len(q) \in Nat \ {0} /\ DOMAIN q = 1..Len(q) /\ DOMAIN r = 1..Len(q) - 1
  /\ Len(r) = Len(q) - 1
  /\ \A k \in DOMAIN r : r[k] = q[k + 1]

Added(q, r, x) ==
  /\ Len(q) \in Nat /\ DOMAIN q = 1..Len(q) /\ DOMAIN r = 1..Len(q) + 1
  /\ \A k \in DOMAIN q : r[k] = q[k]
  /\ r[Len(q) + 1] = x /\ x.state = "sent"

\* In an orderly line what was answered is in front of what was not.
AnsweredFirst(q) ==
  \A j, k \in DOMAIN q : j < k /\ q[k].state # "sent" => q[j].state # "sent"

LEMMA ReplyAnswers ==
  ASSUME AreRequests(net), NEW i \in DOMAIN net, NEW v, Reply(i, v)
  PROVE  AnsweredAt(net, net', i, "done", <<v>>)
<1>1. PICK S : net \in Seq(S) /\ \A x \in S : IsRequest(x)
  BY DEF AreRequests
<1>. DEFINE x == net[i]
            p == [x EXCEPT !.state = "done"]
            r == [p EXCEPT !.reply = <<v>>]
<1>2. IsRequest(x)
  BY <1>1
<1>3. net' = [net EXCEPT ![i] = r]
  BY <1>1 DEF Reply
<1>. HIDE DEF x
<1>4. p.by = x.by /\ p.call = x.call /\ p.arg = x.arg /\ p.state = "done" /\ IsRequest(p)
  BY <1>2 DEF IsRequest
<1>. HIDE DEF p
<1>5. r.by = p.by /\ r.call = p.call /\ r.arg = p.arg /\ r.state = p.state /\ r.reply = <<v>>
  BY <1>4 DEF IsRequest
<1>. HIDE DEF r
<1>6. DOMAIN net' = DOMAIN net /\ net'[i] = r /\ \A k \in DOMAIN net : k # i => net'[k] = net[k]
  BY <1>1, <1>3
<1>. QED BY <1>4, <1>5, <1>6 DEF AnsweredAt, x

LEMMA RefuseAnswers ==
  ASSUME AreRequests(net), NEW i \in DOMAIN net, Refuse(i), NEW v
  PROVE  AnsweredAt(net, net', i, "error", v)
<1>1. PICK S : net \in Seq(S) /\ \A x \in S : IsRequest(x)
  BY DEF AreRequests
<1>. DEFINE x == net[i]
            r == [x EXCEPT !.state = "error"]
<1>2. IsRequest(x)
  BY <1>1
<1>3. net' = [net EXCEPT ![i] = r]
  BY <1>1 DEF Refuse
<1>. HIDE DEF x
<1>4. r.by = x.by /\ r.call = x.call /\ r.arg = x.arg /\ r.state = "error"
  BY <1>2 DEF IsRequest
<1>. HIDE DEF r
<1>6. DOMAIN net' = DOMAIN net /\ net'[i] = r /\ \A k \in DOMAIN net : k # i => net'[k] = net[k]
  BY <1>1, <1>3
<1>. QED BY <1>4, <1>6 DEF AnsweredAt, x

\* A request that is answered or refused.
LEMMA MarkIsAnswer ==
  ASSUME AreRequests(net), NEW i \in DOMAIN net, Refuse(i) \/ \E v : Reply(i, v)
  PROVE  \E st, v : st \in {"done", "error"} /\ AnsweredAt(net, net', i, st, v)
<1>1. Refuse(i) => AnsweredAt(net, net', i, "error", <<>>)
  BY RefuseAnswers
<1>2. \A w : Reply(i, w) => AnsweredAt(net, net', i, "done", <<w>>)
  BY ReplyAnswers
<1>3. \/ AnsweredAt(net, net', i, "error", <<>>)
      \/ \E w : AnsweredAt(net, net', i, "done", <<w>>)
  BY <1>1, <1>2, Zenon
<1>4. CASE AnsweredAt(net, net', i, "error", <<>>)
  BY <1>4
<1>5. ASSUME NEW w, AnsweredAt(net, net', i, "done", <<w>>)
      PROVE  \E st, v : st \in {"done", "error"} /\ AnsweredAt(net, net', i, st, v)
  BY <1>5
<1>. QED BY <1>3, <1>4, <1>5

\* Answers are taken in order.
LEMMA OrderlyTakes ==
  ASSUME line = "orderly", AreRequests(net), NEW i \in DOMAIN net, Next1(i), NEW r,
         r = RemoveAt(net, i)
  PROVE  i = 1 /\ Advanced(net, r)
<1>1. PICK S : net \in Seq(S)
  BY DEF AreRequests
<1>2. i = 1
  BY DEF Next1
<1>3. /\ RemoveAt(net, 1) \in Seq(S) /\ Len(RemoveAt(net, 1)) = Len(net) - 1
      /\ \A k \in 1..Len(net) - 1 : RemoveAt(net, 1)[k] = net[IF k < 1 THEN k ELSE k + 1]
  <2>1. 1 \in 1..Len(net)
    BY <1>1, <1>2
  <2>. QED BY <1>1, <2>1, RemoveAtEffect
<1>4. 1 \in DOMAIN net /\ DOMAIN net = 1..Len(net) /\ Len(net) \in Nat
  BY <1>1, <1>2
<1>5. DOMAIN r = 1..Len(r) /\ Len(r) = Len(net) - 1
  BY <1>2, <1>3
<1>6. \A k \in 1..Len(net) - 1 : r[k] = net[k + 1]
  BY <1>2, <1>3
<1>. QED BY <1>2, <1>3, <1>4, <1>5, <1>6 DEF Advanced

\* A request that is taken leaves the others, also out of order.
LEMMA TakesOne ==
  ASSUME AreRequests(net), NEW i \in DOMAIN net, NEW r, r = RemoveAt(net, i)
  PROVE  /\ AreRequests(r) /\ \A k \in DOMAIN r : \E j \in DOMAIN net : r[k] = net[j]
         /\ r \o <<>> = r
<1>1. PICK S : net \in Seq(S)
  BY DEF AreRequests
<1>2. i \in 1..Len(net)
  BY <1>1
<1>3. /\ r \in Seq(S) /\ Len(r) = Len(net) - 1
      /\ \A k \in 1..Len(net) - 1 : r[k] = net[IF k < i THEN k ELSE k + 1]
  <2>1. /\ RemoveAt(net, i) \in Seq(S) /\ Len(RemoveAt(net, i)) = Len(net) - 1
        /\ \A k \in 1..Len(net) - 1 : RemoveAt(net, i)[k] = net[IF k < i THEN k ELSE k + 1]
    BY <1>1, <1>2, RemoveAtEffect
  <2>. QED BY <2>1, Zenon
<1>4. \A k \in 1..Len(net) - 1 : (IF k < i THEN k ELSE k + 1) \in DOMAIN net
  BY <1>1, <1>2
<1>5. DOMAIN r = 1..Len(net) - 1
  BY <1>3
<1>6. AreRequests(r) /\ r \o <<>> = r
  BY RemoveIn
<1>. QED BY <1>3, <1>4, <1>5, <1>6, Zenon

Extended(q, x) == q \o <<x>>

LEMMA AsksAdds ==
  ASSUME NEW q, AreRequests(q), NEW by, NEW call, NEW arg
  PROVE  /\ Added(q, Extended(q, Request(by, call, arg)), Request(by, call, arg))
         /\ Request(by, call, arg).by = by /\ Request(by, call, arg).call = call
         /\ Request(by, call, arg).arg = arg
         /\ AreRequests(Extended(q, Request(by, call, arg)))
<1>. DEFINE x == Request(by, call, arg)
            r == Extended(q, x)
<1>1. x.by = by /\ x.call = call /\ x.arg = arg /\ x.state = "sent" /\ IsRequest(x)
  BY DEF Request, IsRequest
<1>. HIDE DEF x
<1>2. PICK S : q \in Seq(S)
  BY DEF AreRequests
<1>3. q \in Seq(S \cup {x}) /\ <<x>> \in Seq(S \cup {x})
  BY <1>2
<1>4. r = q \o <<x>>
  BY DEF Extended
<1>. HIDE DEF r
<1>5. /\ Len(r) = Len(q) + 1 /\ DOMAIN r = 1..Len(r) /\ DOMAIN q = 1..Len(q) /\ Len(q) \in Nat
      /\ \A k \in 1..Len(q) + 1 : r[k] = IF k <= Len(q) THEN q[k] ELSE <<x>>[k - Len(q)]
  BY <1>3, <1>4
<1>6. r[Len(q) + 1] = x /\ \A k \in DOMAIN q : r[k] = q[k]
  BY <1>5
<1>7. AreRequests(r)
  BY <1>1, <1>4, AppendIn
<1>. QED BY <1>1, <1>5, <1>6, <1>7 DEF Added, x, r

\* The order of the answers, kept.
LEMMA OrderAnswered ==
  ASSUME NEW q, NEW r, NEW i, NEW st \in {"done", "error"}, NEW v, AnsweredAt(q, r, i, st, v),
         AnsweredFirst(q), DOMAIN q \subseteq Nat,
         \A k \in DOMAIN q : k < i => q[k].state # "sent"
  PROVE  AnsweredFirst(r)
<1>. SUFFICES ASSUME NEW j \in DOMAIN q, NEW k \in DOMAIN q, j < k, r[k].state # "sent"
              PROVE  r[j].state # "sent"
  BY DEF AnsweredFirst, AnsweredAt
<1>1. CASE j = i
  BY <1>1 DEF AnsweredAt
<1>2. CASE j # i /\ k = i
  BY <1>2 DEF AnsweredAt
<1>3. CASE j # i /\ k # i
  <2>1. r[k] = q[k] /\ r[j] = q[j]
    BY <1>3 DEF AnsweredAt
  <2>. QED BY <2>1 DEF AnsweredFirst
<1>. QED BY <1>1, <1>2, <1>3

LEMMA OrderAdvanced ==
  ASSUME NEW q, NEW r, Advanced(q, r), AnsweredFirst(q)
  PROVE  AnsweredFirst(r)
<1>. SUFFICES ASSUME NEW j \in DOMAIN r, NEW k \in DOMAIN r, j < k, r[k].state # "sent"
              PROVE  r[j].state # "sent"
  BY DEF AnsweredFirst
<1>1. j + 1 \in DOMAIN q /\ k + 1 \in DOMAIN q /\ j + 1 < k + 1
  BY DEF Advanced
<1>2. r[j] = q[j + 1] /\ r[k] = q[k + 1]
  BY DEF Advanced
<1>. QED BY <1>1, <1>2 DEF AnsweredFirst

LEMMA OrderAdded ==
  ASSUME NEW q, NEW r, NEW x, Added(q, r, x), AnsweredFirst(q)
  PROVE  AnsweredFirst(r)
<1>. SUFFICES ASSUME NEW j \in DOMAIN r, NEW k \in DOMAIN r, j < k, r[k].state # "sent"
              PROVE  r[j].state # "sent"
  BY DEF AnsweredFirst
<1>1. k \in DOMAIN q
  BY DEF Added
<1>2. j \in DOMAIN q
  BY <1>1 DEF Added
<1>3. r[j] = q[j] /\ r[k] = q[k]
  BY <1>1, <1>2 DEF Added
<1>. QED BY <1>1, <1>2, <1>3 DEF AnsweredFirst

-----------------------------------------------------------------------------
(* What a page has read last *)

\* The page has read value s, or will: the last request of the handlers W asks
\* for a and is not answered yet, or its answer is s; without one, u is what the
\* page shows.
LastOf(q, W, k) ==
  k \in DOMAIN q /\ q[k].by \in W /\ \A m \in DOMAIN q : k < m => q[m].by \notin W

UpToDate(q, W, a, u, s) ==
  /\ \A k \in DOMAIN q : LastOf(q, W, k) =>
       /\ q[k].arg = a /\ q[k].state # "error"
       /\ q[k].state = "done" => q[k].reply = <<s>>
  /\ (\A k \in DOMAIN q : q[k].by \notin W) => u = <<s>>

\* The server answers a request; one of these with s.
LEMMA FreshAnswered ==
  ASSUME NEW q, NEW r, NEW i, NEW st, NEW v, AnsweredAt(q, r, i, st, v),
         NEW W, NEW a, NEW u, NEW s, UpToDate(q, W, a, u, s),
         q[i].by \in W /\ q[i].arg = a => st = "done" /\ v = <<s>>
  PROVE  UpToDate(r, W, a, u, s)
<1>1. \A k \in DOMAIN q : r[k].by = q[k].by /\ r[k].arg = q[k].arg
  BY DEF AnsweredAt
<1>2. DOMAIN r = DOMAIN q
  BY DEF AnsweredAt
<1>3. ASSUME NEW k \in DOMAIN r, LastOf(r, W, k)
      PROVE  /\ r[k].arg = a /\ r[k].state # "error"
             /\ r[k].state = "done" => r[k].reply = <<s>>
  <2>1. LastOf(q, W, k)
    BY <1>1, <1>2, <1>3, Zenon DEF LastOf
  <2>2. /\ q[k].arg = a /\ q[k].state # "error" /\ q[k].by \in W
        /\ q[k].state = "done" => q[k].reply = <<s>>
    BY <2>1 DEF UpToDate, LastOf
  <2>3. CASE k = i
    BY <2>2, <2>3 DEF AnsweredAt
  <2>4. CASE k # i
    <3>1. r[k] = q[k]
      BY <1>2, <2>4 DEF AnsweredAt
    <3>. QED BY <2>2, <3>1
  <2>. QED BY <2>3, <2>4
<1>4. (\A k \in DOMAIN r : r[k].by \notin W) => u = <<s>>
  BY <1>1, <1>2, Zenon DEF UpToDate
<1>. QED BY <1>3, <1>4 DEF UpToDate

\* The first request is taken; what it read, if it is one of these, is shown.
LEMMA FreshAdvanced ==
  ASSUME NEW q, NEW r, Advanced(q, r),
         NEW W, NEW a, NEW u, NEW w, NEW s, UpToDate(q, W, a, u, s),
         q[1].by \in W /\ q[1].state = "done" => w = q[1].reply,
         q[1].by \notin W => w = u,
         q[1].by \in W => q[1].state = "done"
  PROVE  UpToDate(r, W, a, w, s)
<1>1. \A k \in DOMAIN r : k + 1 \in DOMAIN q /\ r[k] = q[k + 1]
  BY DEF Advanced
<1>2. DOMAIN q \subseteq Nat /\ 1 \in DOMAIN q /\ \A k \in DOMAIN q : k = 1 \/ k - 1 \in DOMAIN r
  BY DEF Advanced
<1>3. ASSUME NEW k \in DOMAIN r, LastOf(r, W, k)
      PROVE  /\ r[k].arg = a /\ r[k].state # "error"
             /\ r[k].state = "done" => r[k].reply = <<s>>
  <2>1. ASSUME NEW m \in DOMAIN q, k + 1 < m
        PROVE  q[m].by \notin W
    <3>1. k < m - 1 /\ m # 1 /\ m - 1 + 1 = m /\ k \in Nat
      BY <2>1 DEF Advanced
    <3>2. m - 1 \in DOMAIN r
      BY <1>2, <3>1
    <3>3. r[m - 1] = q[m]
      BY <1>1, <3>1, <3>2
    <3>. QED BY <1>3, <3>1, <3>2, <3>3 DEF LastOf
  <2>2. LastOf(q, W, k + 1)
    BY <1>1, <1>3, <2>1 DEF LastOf
  <2>. QED BY <1>1, <2>2 DEF UpToDate
<1>4. ASSUME \A k \in DOMAIN r : r[k].by \notin W
      PROVE  w = <<s>>
  <2>1. \A m \in DOMAIN q : 1 < m => q[m].by \notin W
    <3>. SUFFICES ASSUME NEW m \in DOMAIN q, 1 < m PROVE q[m].by \notin W
      OBVIOUS
    <3>1. m - 1 \in DOMAIN r /\ m - 1 + 1 = m
      BY <1>2
    <3>2. r[m - 1] = q[m]
      BY <1>1, <3>1
    <3>. QED BY <1>4, <3>1, <3>2
  <2>2. CASE q[1].by \in W
    <3>1. LastOf(q, W, 1)
      BY <1>2, <2>1, <2>2 DEF LastOf
    <3>2. q[1].state # "error" /\ (q[1].state = "done" => q[1].reply = <<s>>)
      BY <1>2, <3>1 DEF UpToDate
    <3>. QED BY <2>2, <3>2
  <2>3. CASE q[1].by \notin W
    <3>1. \A m \in DOMAIN q : q[m].by \notin W
      <4>1. \A m \in DOMAIN q : m = 1 \/ 1 < m
        BY <1>2 DEF Advanced
      <4>. QED BY <2>1, <2>3, <4>1
    <3>. QED BY <2>3, <3>1 DEF UpToDate
  <2>. QED BY <2>2, <2>3
<1>. QED BY <1>3, <1>4 DEF UpToDate

\* One more of these requests: what they read is up to date.
LEMMA UpToDateAsked ==
  ASSUME NEW q, NEW r, NEW x, Added(q, r, x), NEW W, x.by \in W, NEW u, NEW s
  PROVE  UpToDate(r, W, x.arg, u, s)
<1>1. Len(q) + 1 \in DOMAIN r /\ \A k \in DOMAIN r : k = Len(q) + 1 \/ k < Len(q) + 1
  BY DEF Added
<1>2. r[Len(q) + 1] = x
  BY DEF Added
<1>3. \A k \in DOMAIN r : LastOf(r, W, k) => k = Len(q) + 1
  BY <1>1, <1>2 DEF LastOf
<1>4. x.state = "sent"
  BY DEF Added
<1>. QED BY <1>1, <1>2, <1>3, <1>4 DEF UpToDate

\* A request of another handler.
LEMMA UpToDateAdded ==
  ASSUME NEW q, NEW r, NEW x, Added(q, r, x), NEW W, x.by \notin W,
         NEW a, NEW u, NEW s, UpToDate(q, W, a, u, s)
  PROVE  UpToDate(r, W, a, u, s)
<1>1. \A k \in DOMAIN q : k \in DOMAIN r /\ r[k] = q[k]
  BY DEF Added
<1>2. \A k \in DOMAIN r : r[k].by \in W => k \in DOMAIN q
  BY DEF Added
<1>3. \A k \in DOMAIN r : LastOf(r, W, k) => LastOf(q, W, k)
  BY <1>1, <1>2, Zenon DEF LastOf
<1>. QED BY <1>1, <1>2, <1>3, Zenon DEF UpToDate, LastOf

\* Nothing is under way.
LEMMA UpToDateNow ==
  ASSUME NEW W, NEW a, NEW u, NEW s, UpToDate(<<>>, W, a, u, s)
  PROVE  u = <<s>>
BY DEF UpToDate

-----------------------------------------------------------------------------
(* The members of a list that a page keeps *)

\* What the answer to a request does to member t of the list: the handlers L put
\* a list in its place, those of C add a member and those of D take one off.
Adds(x, t, L, C) ==
  x.state = "done" /\ \/ x.by \in L /\ t \in Head(x.reply)
                      \/ x.by \in C /\ t = Head(x.reply)

Takes(x, t, L, D) ==
  x.state = "done" /\ \/ x.by \in L /\ t \notin Head(x.reply)
                      \/ x.by \in D /\ t = x.arg

\* Member t will be shown when the answers that there are have been taken.
WillShow(q, list, t, L, C, D) ==
  \/ /\ t \in list
     /\ \A k \in DOMAIN q : ~Takes(q[k], t, L, D)
  \/ \E k \in DOMAIN q :
       /\ Adds(q[k], t, L, C)
       /\ \A m \in DOMAIN q : k < m => ~Takes(q[m], t, L, D)

\* The server answers the first request that was not answered.
LEMMA ShowsAnswered ==
  ASSUME NEW q, NEW r, NEW i, NEW st, NEW v, AnsweredAt(q, r, i, st, v), DOMAIN q \subseteq Nat,
         AnsweredFirst(q), q[i].state = "sent", NEW L, NEW C, NEW D,
         L \cap C = {}, L \cap D = {}, C \cap D = {},
         NEW list, NEW t
  PROVE  WillShow(r, list, t, L, C, D) <=>
           Adds(r[i], t, L, C) \/ (WillShow(q, list, t, L, C, D) /\ ~Takes(r[i], t, L, D))
<1>. DEFINE A(x) == Adds(x, t, L, C)
            T(x) == Takes(x, t, L, D)
<1>1. DOMAIN r = DOMAIN q /\ i \in DOMAIN q /\ \A k \in DOMAIN q : k # i => r[k] = q[k]
  BY DEF AnsweredAt
<1>2. ~A(q[i]) /\ ~T(q[i])
  BY DEF Adds, Takes
<1>3. \A m \in DOMAIN q : i < m => ~A(q[m]) /\ ~T(q[m])
  BY <1>1 DEF Adds, Takes, AnsweredFirst
<1>4. ~(A(r[i]) /\ T(r[i]))
  BY DEF Adds, Takes
<1>5. \A m \in DOMAIN q : i < m \/ m < i \/ m = i
  BY <1>1
<1>6. WillShow(q, list, t, L, C, D) <=>
        \/ t \in list /\ \A k \in DOMAIN q : ~T(q[k])
        \/ \E k \in DOMAIN q : A(q[k]) /\ \A m \in DOMAIN q : k < m => ~T(q[m])
  BY DEF WillShow
<1>7. WillShow(r, list, t, L, C, D) <=>
        \/ t \in list /\ \A k \in DOMAIN q : ~T(r[k])
        \/ \E k \in DOMAIN q : A(r[k]) /\ \A m \in DOMAIN q : k < m => ~T(r[m])
  BY <1>1 DEF WillShow
<1>. HIDE DEF A, T
<1>8. \A k \in DOMAIN q : A(q[k]) => k < i
  BY <1>2, <1>3, <1>5
<1>9. ASSUME A(r[i]) PROVE WillShow(r, list, t, L, C, D)
  <2>1. \A m \in DOMAIN q : i < m => ~T(r[m])
    BY <1>1, <1>3
  <2>. QED BY <1>1, <1>7, <1>9, <2>1
<1>10. ASSUME WillShow(q, list, t, L, C, D), ~T(r[i]) PROVE WillShow(r, list, t, L, C, D)
  <2>1. \A m \in DOMAIN q : ~T(q[m]) => ~T(r[m])
    BY <1>1, <1>10
  <2>2. \A m \in DOMAIN q : A(q[m]) => A(r[m])
    BY <1>1, <1>2
  <2>. QED BY <1>6, <1>7, <1>10, <2>1, <2>2, Zenon
<1>11. ASSUME WillShow(r, list, t, L, C, D), ~A(r[i])
       PROVE  WillShow(q, list, t, L, C, D) /\ ~T(r[i])
  <2>1. \A m \in DOMAIN q : ~T(r[m]) => ~T(q[m])
    BY <1>1, <1>2
  <2>2. \A m \in DOMAIN q : A(r[m]) => A(q[m]) /\ m < i
    BY <1>1, <1>8, <1>11
  <2>. QED BY <1>1, <1>6, <1>7, <1>11, <2>1, <2>2, Zenon
<1>. QED BY <1>9, <1>10, <1>11 DEF A, T

\* A request that is sent adds and takes nothing.
LEMMA ShowsAdded ==
  ASSUME NEW q, NEW r, NEW x, Added(q, r, x), NEW L, NEW C, NEW D, NEW list, NEW t
  PROVE  WillShow(r, list, t, L, C, D) <=> WillShow(q, list, t, L, C, D)
<1>. DEFINE A(y) == Adds(y, t, L, C)
            T(y) == Takes(y, t, L, D)
<1>1. ~A(x) /\ ~T(x)
  BY DEF Added, Adds, Takes
<1>2. /\ \A k \in DOMAIN q : k \in DOMAIN r /\ r[k] = q[k]
      /\ \A k \in DOMAIN r : k \in DOMAIN q \/ r[k] = x
  BY DEF Added
<1>3. WillShow(q, list, t, L, C, D) <=>
        \/ t \in list /\ \A k \in DOMAIN q : ~T(q[k])
        \/ \E k \in DOMAIN q : A(q[k]) /\ \A m \in DOMAIN q : k < m => ~T(q[m])
  BY DEF WillShow
<1>4. WillShow(r, list, t, L, C, D) <=>
        \/ t \in list /\ \A k \in DOMAIN r : ~T(r[k])
        \/ \E k \in DOMAIN r : A(r[k]) /\ \A m \in DOMAIN r : k < m => ~T(r[m])
  BY DEF WillShow
<1>. HIDE DEF A, T
<1>5. WillShow(q, list, t, L, C, D) => WillShow(r, list, t, L, C, D)
  BY <1>1, <1>2, <1>3, <1>4
<1>6. WillShow(r, list, t, L, C, D) => WillShow(q, list, t, L, C, D)
  BY <1>1, <1>2, <1>3, <1>4
<1>. QED BY <1>5, <1>6

\* The page takes the first answer, and the list becomes w.
LEMMA ShowsAdvanced ==
  ASSUME NEW q, NEW r, Advanced(q, r), NEW L, NEW C, NEW D,
         L \cap C = {}, L \cap D = {}, C \cap D = {}, NEW list, NEW w, NEW t,
         Adds(q[1], t, L, C) => t \in w,
         Takes(q[1], t, L, D) => t \notin w,
         ~Adds(q[1], t, L, C) /\ ~Takes(q[1], t, L, D) => (t \in w <=> t \in list)
  PROVE  WillShow(r, w, t, L, C, D) <=> WillShow(q, list, t, L, C, D)
<1>. DEFINE A(y) == Adds(y, t, L, C)
            T(y) == Takes(y, t, L, D)
<1>1. /\ \A k \in DOMAIN r : k + 1 \in DOMAIN q /\ r[k] = q[k + 1] /\ k \in Nat
      /\ \A k \in DOMAIN q : k = 1 \/ (k - 1 \in DOMAIN r /\ r[k - 1] = q[k] /\ 1 < k)
      /\ 1 \in DOMAIN q /\ DOMAIN q \subseteq Nat
  <2>1. \A k \in DOMAIN q : k = 1 \/ (k - 1 \in DOMAIN r /\ k - 1 + 1 = k /\ 1 < k)
    BY DEF Advanced
  <2>2. \A k \in DOMAIN r : k + 1 \in DOMAIN q /\ r[k] = q[k + 1] /\ k \in Nat
    BY DEF Advanced
  <2>3. \A k \in DOMAIN q : k = 1 \/ r[k - 1] = q[k]
    BY <2>1, <2>2
  <2>4. 1 \in DOMAIN q /\ DOMAIN q \subseteq Nat
    BY DEF Advanced
  <2>. QED BY <2>1, <2>2, <2>3, <2>4
<1>2. ~(A(q[1]) /\ T(q[1]))
  BY DEF Adds, Takes
<1>3. WillShow(q, list, t, L, C, D) <=>
        \/ t \in list /\ \A k \in DOMAIN q : ~T(q[k])
        \/ \E k \in DOMAIN q : A(q[k]) /\ \A m \in DOMAIN q : k < m => ~T(q[m])
  BY DEF WillShow
<1>4. WillShow(r, w, t, L, C, D) <=>
        \/ t \in w /\ \A k \in DOMAIN r : ~T(r[k])
        \/ \E k \in DOMAIN r : A(r[k]) /\ \A m \in DOMAIN r : k < m => ~T(r[m])
  BY DEF WillShow
<1>5. (A(q[1]) => t \in w) /\ (T(q[1]) => t \notin w)
      /\ (~A(q[1]) /\ ~T(q[1]) => (t \in w <=> t \in list))
  OBVIOUS
<1>. HIDE DEF A, T
<1>6. (\A k \in DOMAIN r : ~T(r[k])) <=> (\A k \in DOMAIN q : 1 < k => ~T(q[k]))
  <2>1. ASSUME \A k \in DOMAIN r : ~T(r[k]), NEW k \in DOMAIN q, 1 < k
        PROVE  ~T(q[k])
    <3>1. k - 1 \in DOMAIN r /\ r[k - 1] = q[k]
      BY <1>1, <2>1
    <3>. QED BY <2>1, <3>1
  <2>2. ASSUME \A k \in DOMAIN q : 1 < k => ~T(q[k]), NEW k \in DOMAIN r
        PROVE  ~T(r[k])
    <3>1. k + 1 \in DOMAIN q /\ r[k] = q[k + 1] /\ 1 < k + 1
      <4>1. k \in 1..Len(q) - 1 /\ Len(q) \in Nat
        BY DEF Advanced
      <4>. QED BY <1>1, <4>1
    <3>. QED BY <2>2, <3>1
  <2>. QED BY <2>1, <2>2
<1>7. ASSUME NEW k \in DOMAIN r
      PROVE  (\A m \in DOMAIN r : k < m => ~T(r[m])) <=> (\A m \in DOMAIN q : k + 1 < m => ~T(q[m]))
  <2>0. k \in Nat /\ k > 0
    <3>1. k \in 1..Len(q) - 1 /\ Len(q) \in Nat
      BY DEF Advanced
    <3>. QED BY <3>1
  <2>1. ASSUME \A m \in DOMAIN r : k < m => ~T(r[m]), NEW m \in DOMAIN q, k + 1 < m
        PROVE  ~T(q[m])
    <3>1. m - 1 \in DOMAIN r /\ r[m - 1] = q[m] /\ k < m - 1
      BY <1>1, <2>0, <2>1
    <3>. QED BY <2>1, <3>1
  <2>2. ASSUME \A m \in DOMAIN q : k + 1 < m => ~T(q[m]), NEW m \in DOMAIN r, k < m
        PROVE  ~T(r[m])
    <3>1. m + 1 \in DOMAIN q /\ r[m] = q[m + 1] /\ k + 1 < m + 1
      BY <1>1, <2>0, <2>2
    <3>. QED BY <2>2, <3>1
  <2>. QED BY <2>1, <2>2
<1>8. ASSUME WillShow(r, w, t, L, C, D) PROVE WillShow(q, list, t, L, C, D)
  <2>1. CASE t \in w /\ \A k \in DOMAIN r : ~T(r[k])
    <3>1. CASE A(q[1])
      BY <1>1, <1>3, <1>6, <2>1, <3>1
    <3>2. CASE ~A(q[1])
      <4>1. t \in list /\ ~T(q[1])
        BY <1>5, <2>1, <3>2
      <4>2. \A k \in DOMAIN q : ~T(q[k])
        BY <1>1, <1>6, <2>1, <4>1
      <4>. QED BY <1>3, <4>1, <4>2
    <3>. QED BY <3>1, <3>2
  <2>2. ASSUME NEW k \in DOMAIN r, A(r[k]), \A m \in DOMAIN r : k < m => ~T(r[m])
        PROVE  WillShow(q, list, t, L, C, D)
    <3>1. k + 1 \in DOMAIN q /\ A(q[k + 1])
      BY <1>1, <2>2
    <3>2. \A m \in DOMAIN q : k + 1 < m => ~T(q[m])
      BY <1>7, <2>2
    <3>. QED BY <1>3, <3>1, <3>2
  <2>. QED BY <1>4, <1>8, <2>1, <2>2
<1>9. ASSUME WillShow(q, list, t, L, C, D) PROVE WillShow(r, w, t, L, C, D)
  <2>1. CASE t \in list /\ \A k \in DOMAIN q : ~T(q[k])
    <3>1. \A k \in DOMAIN r : ~T(r[k])
      BY <1>6, <2>1
    <3>2. t \in w
      BY <1>1, <1>5, <2>1
    <3>. QED BY <1>4, <3>1, <3>2
  <2>2. ASSUME NEW k \in DOMAIN q, A(q[k]), \A m \in DOMAIN q : k < m => ~T(q[m])
        PROVE  WillShow(r, w, t, L, C, D)
    <3>1. CASE k = 1
      <4>1. t \in w /\ \A j \in DOMAIN r : ~T(r[j])
        BY <1>5, <1>6, <2>2, <3>1
      <4>. QED BY <1>4, <4>1
    <3>2. CASE k # 1
      <4>1. k - 1 \in DOMAIN r /\ r[k - 1] = q[k] /\ k - 1 + 1 = k
        BY <1>1, <3>2
      <4>2. \A m \in DOMAIN r : k - 1 < m => ~T(r[m])
        BY <1>7, <2>2, <4>1
      <4>. QED BY <1>4, <2>2, <4>1, <4>2
    <3>. QED BY <3>1, <3>2
  <2>. QED BY <1>3, <1>9, <2>1, <2>2
<1>. QED BY <1>8, <1>9

\* Nothing is under way.
LEMMA ShowsNow ==
  ASSUME NEW L, NEW C, NEW D, NEW list, NEW t
  PROVE  WillShow(<<>>, list, t, L, C, D) <=> t \in list
BY DEF WillShow

-----------------------------------------------------------------------------
(* What the router asks for *)

Needs(c, n) == Api[c].need = n

\* The routes of a call say what it needs.
LEMMA RouteNeeds ==
  ASSUME NEW c, NEW n,
         \E r \in Routes : r.call = c, \A r \in Routes : r.call = c => r.need = n
  PROVE  Needs(c, n)
<1>1. c \in {r.call : r \in Routes}
  OBVIOUS
<1>2. Api[c] = CHOOSE r \in Routes : r.call = c
  BY <1>1 DEF Api
<1>3. (CHOOSE r \in Routes : r.call = c) \in Routes
      /\ (CHOOSE r \in Routes : r.call = c).call = c
  OBVIOUS
<1>. QED BY <1>2, <1>3 DEF Needs

\* Who may ask.
LEMMA WhoMay ==
  ASSUME NEW c, NEW n, Needs(c, n)
  PROVE  /\ n \in {"any", "public"} => Authorized(c)
         /\ n \notin {"any", "public", "admin"} => (Authorized(c) <=> Can(n))
BY DEF Needs, Authorized

-----------------------------------------------------------------------------
(* A line in order *)

\* The server answers or refuses the first request that it has not.
LEMMA OrderServed ==
  ASSUME line = "orderly", AreRequests(net), AnsweredFirst(net), NEW i \in DOMAIN net,
         net[i].state = "sent", InTurn(i), Refuse(i) \/ \E v : Reply(i, v)
  PROVE  AnsweredFirst(net') /\ AreRequests(net') /\ DOMAIN net \subseteq Nat
<1>1. DOMAIN net \subseteq Nat \ {0}
  BY DEF AreRequests
<1>2. \A k \in DOMAIN net : k < i => net[k].state # "sent"
  BY <1>1 DEF InTurn
<1>3. AnsweredFirst(net')
  <2>1. CASE Refuse(i)
    <3>1. AnsweredAt(net, net', i, "error", <<>>)
      BY <2>1, RefuseAnswers
    <3>. QED BY <1>1, <1>2, <3>1, OrderAnswered
  <2>2. ASSUME NEW v, Reply(i, v)
        PROVE  AnsweredFirst(net')
    <3>1. AnsweredAt(net, net', i, "done", <<v>>)
      BY <2>2, ReplyAnswers
    <3>. QED BY <1>1, <1>2, <3>1, OrderAnswered
  <2>. QED BY <2>1, <2>2
<1>4. AreRequests(net')
  BY MarkedKeeps DEF Marked
<1>. QED BY <1>1, <1>3, <1>4

\* A handler takes the first answer.
LEMMA OrderTaken ==
  ASSUME line = "orderly", AreRequests(net), AnsweredFirst(net), NEW i \in DOMAIN net, Next1(i),
         net' = RemoveAt(net, i) \/ net' = RemoveAt(net, i) \o <<>>
  PROVE  i = 1 /\ Advanced(net, net') /\ AnsweredFirst(net') /\ AreRequests(net')
<1>1. net' = RemoveAt(net, i) /\ AreRequests(net')
  BY TakesOne
<1>2. i = 1 /\ Advanced(net, net')
  BY <1>1, OrderlyTakes
<1>. QED BY <1>1, <1>2, OrderAdvanced

\* A handler asks.
LEMMA OrderAsked ==
  ASSUME AreRequests(net), AnsweredFirst(net), NEW by, NEW call, NEW arg,
         Send(Request(by, call, arg))
  PROVE  /\ Added(net, net', Request(by, call, arg)) /\ AnsweredFirst(net') /\ AreRequests(net')
         /\ Request(by, call, arg).by = by /\ Request(by, call, arg).call = call
         /\ Request(by, call, arg).arg = arg
<1>1. net' = Extended(net, Request(by, call, arg))
  BY DEF Send, Sends, Extended
<1>2. LET r == Extended(net, Request(by, call, arg)) IN
        /\ Added(net, r, Request(by, call, arg)) /\ AreRequests(r)
        /\ Request(by, call, arg).by = by /\ Request(by, call, arg).call = call
        /\ Request(by, call, arg).arg = arg
  BY AsksAdds
<1>3. AnsweredFirst(net')
  BY <1>1, <1>2, OrderAdded
<1>. QED BY <1>1, <1>2, <1>3

\* A request that was not answered is not taken.
LEMMA StaysSent ==
  ASSUME NEW q, NEW r, Advanced(q, r), NEW by, q[1].state # "sent",
         \E k \in DOMAIN q : q[k].by = by /\ q[k].state = "sent"
  PROVE  \E k \in DOMAIN r : r[k].by = by /\ r[k].state = "sent"
<1>1. PICK k \in DOMAIN q : q[k].by = by /\ q[k].state = "sent"
  OBVIOUS
<1>2. k - 1 \in DOMAIN r /\ k - 1 + 1 = k
  BY <1>1 DEF Advanced
<1>3. r[k - 1] = q[k]
  BY <1>2 DEF Advanced
<1>. QED BY <1>1, <1>2, <1>3

\* The first answer is taken, and a request comes at the end.
LEMMA OrderSwapped ==
  ASSUME line = "orderly", AreRequests(net), AnsweredFirst(net), NEW i \in DOMAIN net, Next1(i),
         NEW by, NEW call, NEW arg, HandledThen(i, <<Request(by, call, arg)>>)
  PROVE  /\ i = 1 /\ AnsweredFirst(net') /\ AreRequests(net')
         /\ \E q : Advanced(net, q) /\ Added(q, net', Request(by, call, arg))
         /\ Request(by, call, arg).by = by /\ Request(by, call, arg).call = call
         /\ Request(by, call, arg).arg = arg
<1>. DEFINE q == RemoveAt(net, i)
<1>1. net' = Extended(q, Request(by, call, arg))
  BY DEF HandledThen, Extended
<1>2. AreRequests(q) /\ i = 1 /\ Advanced(net, q)
  BY TakesOne, OrderlyTakes
<1>. HIDE DEF q
<1>3. /\ Added(q, net', Request(by, call, arg)) /\ AreRequests(net')
      /\ Request(by, call, arg).by = by /\ Request(by, call, arg).call = call
      /\ Request(by, call, arg).arg = arg
  BY <1>1, <1>2, AsksAdds
<1>4. AnsweredFirst(q)
  BY <1>2, OrderAdvanced
<1>5. AnsweredFirst(net')
  BY <1>3, <1>4, OrderAdded
<1>. QED BY <1>2, <1>3, <1>5
=============================================================================
