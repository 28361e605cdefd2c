------------------------------ MODULE Browser ------------------------------
(***************************************************************************)
(* The web client between its pages and the server: one page is mounted,   *)
(* it keeps its state in `ui` (the useState of its component), and it       *)
(* speaks with the server through requests that are answered, refused or    *)
(* lost.  A page is a module of its own that extends this one and gives the *)
(* actions: what its controls offer, what its handlers and effects send,    *)
(* what the server does with it and what the page does with each answer.    *)
(*                                                                         *)
(* A request passes through three steps, each an action: it is sent; the    *)
(* server serves it, which changes `srv` and fixes the reply; the           *)
(* continuation of the handler that sent it takes the reply.                *)
(***************************************************************************)
EXTENDS Api, Naturals, Sequences, SequencesExt

CONSTANTS
  Holders,      \* the sets of permissions and roles a signed-in user may have
  MaxRequests   \* of each page, the most requests in flight when one of its
                \* controls asks for another

ASSUME BrowserAssumption ==
  /\ \A p \in DOMAIN MaxRequests : MaxRequests[p] \in Nat \ {0}
  /\ \A h \in Holders : IsFiniteSet(h)

VARIABLES
  page,    \* the page or the part of a page that is mounted
  perms,   \* what AuthContext says the user may do (api.me)
  line,    \* "orderly": requests are served and answered in order and none is
           \* lost; "lossy": any order, any loss
  ui,      \* the state of the mounted component
  srv,     \* the part of the server's state behind the page
  net      \* the requests in flight, oldest first

session == <<page, perms, line>>
webVars == <<page, perms, line, ui, srv, net>>

\* hooks/usePermissions.ts
Can(p) == p \in perms \/ "superadmin" \in perms

IsAdmin == "admin" \in perms \/ "superadmin" \in perms

IsSuperAdmin == "superadmin" \in perms

\* The middleware in front of a route.
Authorized(call) ==
  CASE Api[call].need \in {"any", "public"} -> TRUE
    [] Api[call].need = "admin"             -> IsAdmin
    [] OTHER                                -> Can(Api[call].need)

NoArg == "-"

\* "by" names the handler or effect whose continuation waits for the answer.
Request(by, call, arg) ==
  [by |-> by, call |-> call, arg |-> arg, state |-> "sent", reply |-> <<>>]

Room        == Len(net) < MaxRequests[page]
Waiting(by) == \E i \in DOMAIN net : net[i].by = by

Sends(rs) == net' = net \o rs
Send(r)   == Sends(<<r>>)

\* request(): a reply that is not ok, and a fetch that fails, reject the
\* promise; the continuation then takes the catch branch.
InTurn(i)      == line = "lossy" \/ \A k \in 1 .. i - 1 : net[k].state # "sent"
Served(i, by)  == /\ net[i].by = by /\ net[i].state = "sent" /\ InTurn(i)
                  /\ Authorized(net[i].call)
Next1(i)       == line = "lossy" \/ i = 1
Arrived(i, by) == net[i].by = by /\ net[i].state = "done"  /\ Next1(i)
Failed(i, by)  == net[i].by = by /\ net[i].state = "error" /\ Next1(i)

Reply(i, v)        == net' = [net EXCEPT ![i].state = "done", ![i].reply = <<v>>]
Refuse(i)          == net' = [net EXCEPT ![i].state = "error"]
Answer(i)          == Head(net[i].reply)
Handled(i)         == net' = RemoveAt(net, i)
HandledThen(i, rs) == net' = RemoveAt(net, i) \o rs

\* A step of the page, of the server, and of the network alone.
PageIs(u)   == ui' = u /\ UNCHANGED <<session, srv>>
ServerIs(s) == srv' = s /\ UNCHANGED <<session, ui>>
NetOnly     == UNCHANGED <<session, ui, srv>>

\* A handler up to its first await: it changes the page, and asks the server.
Becomes(u)             == PageIs(u) /\ UNCHANGED net
Asks(u, by, call, arg) == Room /\ PageIs(u) /\ Send(Request(by, call, arg))

\* Something else changes what the server has.
Elsewhere(s) == ServerIs(s) /\ UNCHANGED net

\* The server answers a read, with V of its argument; it does what a write
\* asks and answers with V, or refuses it.
Finds(by, V(_)) ==
  \E i \in DOMAIN net : Served(i, by) /\ Reply(i, V(net[i].arg)) /\ NetOnly

Tells(by, v) == Finds(by, LAMBDA arg : v)

Makes(by, Ok(_), S(_), V(_)) ==
  \E i \in DOMAIN net :
    /\ Served(i, by)
    /\ IF Ok(net[i].arg)
       THEN Reply(i, V(net[i].arg)) /\ ServerIs(S(net[i].arg))
       ELSE Refuse(i) /\ NetOnly

Does(by, Ok(_), S(_)) == Makes(by, Ok, S, LAMBDA arg : arg)

\* The continuation of a handler: with the answer, possibly asking again; in
\* its catch branch; and in either, when nothing depends on the outcome.
ThenAsks(by, U(_), rs) ==
  \E i \in DOMAIN net : Arrived(i, by) /\ HandledThen(i, rs) /\ PageIs(U(Answer(i)))

Then(by, U(_)) == ThenAsks(by, U, <<>>)

Catch(by, u) == \E i \in DOMAIN net : Failed(i, by) /\ Handled(i) /\ PageIs(u)

Finally(by, u) == Then(by, LAMBDA v : u) \/ Catch(by, u)

\* The middleware answers 403.
Forbid ==
  /\ \E i \in DOMAIN net :
       /\ net[i].state = "sent" /\ InTurn(i)
       /\ ~Authorized(net[i].call) /\ Refuse(i)
  /\ NetOnly

\* A request that never reaches the server, that it refuses (401, 4xx, 5xx), or
\* whose reply is lost after the server did what was asked.
Fault ==
  /\ line = "lossy"
  /\ \E i \in DOMAIN net : net[i].state # "error" /\ Refuse(i)
  /\ NetOnly

\* .catch(() => {}): the error of a request of these handlers changes nothing.
DropError(silent) == \E by \in silent : Catch(by, ui)

\* A page has just been mounted, by any user.
Opens(p) == page = p /\ perms \in Holders /\ line \in {"orderly", "lossy"}

\* No request is under way, and none was lost or overtaken.
Quiet == net = <<>> /\ line = "orderly"
=============================================================================
