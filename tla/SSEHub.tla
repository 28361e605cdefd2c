------------------------------- MODULE SSEHub -------------------------------
(***************************************************************************)
(* The hub of server-sent events (api/sse/hub.go) for one stream and one of *)
(* its subscribers, with the connection to the subscriber's browser.        *)
(* Publish and Close take a snapshot of the clients under the hub's mutex    *)
(* and work on it after the mutex is free; one goroutine, that of the        *)
(* deployment, calls both.                                                  *)
(***************************************************************************)
EXTENDS Naturals, Sequences

CONSTANTS
  ReplayBuf,   \* replayBufSize: messages kept for late subscribers (512)
  ChanCap      \* capacity of a client's channel (128)

ASSUME HubAssumption == ReplayBuf \in Nat \ {0} /\ ChanCap \in Nat \ {0}

\* buf, closed: the stream; client: the subscriber is in its map; chan, open:
\* the subscriber's channel; toSend: the message Publish has still to send to
\* its snapshot, <<>> when none; wire: written to the response, not yet read
\* by the browser; conn: the response is "none", "live" or "over".
NewStream ==
  [buf |-> <<>>, closed |-> FALSE, client |-> FALSE, chan |-> <<>>, open |-> TRUE,
   toSend |-> <<>>, closing |-> FALSE, wire |-> <<>>, conn |-> "none"]

\* Registration and the copy of the buffer are one critical section, so that
\* each message is either replayed or sent to the channel.
Subscribe(s) ==
  [s EXCEPT !.wire = s.buf,
            !.client = ~s.closed,
            !.conn = IF s.closed THEN "over" ELSE "live"]

\* The critical section of Publish.
PublishLock(s, m) ==
  [s EXCEPT !.buf = IF Len(s.buf) < ReplayBuf THEN Append(@, m) ELSE @,
            !.toSend = IF s.client THEN <<m>> ELSE <<>>]

\* After it: a full channel drops the message.
PublishSend(s) ==
  [s EXCEPT !.toSend = <<>>,
            !.chan = IF s.toSend # <<>> /\ Len(@) < ChanCap THEN @ \o s.toSend ELSE @]

CloseLock(s) ==
  [s EXCEPT !.closed = TRUE, !.client = FALSE, !.closing = s.client]

\* The channels of the snapshot are closed, outside it.  Mutant: they are not.
CloseSend_Open(s) == [s EXCEPT !.closing = FALSE]

CloseSend(s) == [s EXCEPT !.closing = FALSE, !.open = FALSE]

\* The subscriber's goroutine writes what its channel holds, and returns when
\* the channel is closed and empty.
CanForward(s) == s.conn = "live" /\ (s.chan # <<>> \/ ~s.open)

Forward(s) ==
  IF s.chan # <<>>
  THEN [s EXCEPT !.wire = Append(@, Head(s.chan)), !.chan = Tail(@)]
  ELSE [s EXCEPT !.conn = "over"]

\* remove, when the browser is gone or the connection breaks.
Hangup(s) == [s EXCEPT !.client = FALSE, !.conn = "over", !.wire = <<>>, !.chan = <<>>]

\* gc forgets a stream some time after it was closed.
Forget(s) == NewStream
=============================================================================
