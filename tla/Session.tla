------------------------------ MODULE Session ------------------------------
(***************************************************************************)
(* Who is signed in, and what the frame of the application offers them:     *)
(* hooks/useAuth.tsx, the routes of App.tsx, pages/LoginPage.tsx and         *)
(* pages/SetupPage.tsx; the navigation of components/Layout.tsx.             *)
(***************************************************************************)
EXTENDS Browser

Nobody == "nobody"

-----------------------------------------------------------------------------
(* Signing in and out *)

\* user: of AuthContext; at: the route; cookie: the user of the session that
\* the browser's cookie names; setup: the server has no user yet.
SessionInit ==
  /\ Opens("session")
  /\ \E at \in {"app", "login", "setup"} :
       /\ ui = [busy |-> {"loading"}, user |-> Nobody, at |-> at]
       /\ net = <<Request("me", "me", NoArg)>> \o
                (IF at = "app" THEN <<>>
                 ELSE <<Request("setupCheck", "setupStatus", NoArg)>>)
  /\ srv \in {[setup |-> FALSE, cookie |-> Nobody], [setup |-> FALSE, cookie |-> "u"],
              [setup |-> TRUE, cookie |-> Nobody]}

\* The effect of AuthProvider: without a session it is refused.
ServeMe ==
  \E by \in {"me", "loginMe"} :
    Makes(by, LAMBDA x : srv.cookie # Nobody, LAMBDA x : srv, LAMBDA x : srv.cookie)

MeAnswered ==
  \/ Then("me", LAMBDA u : [ui EXCEPT !.user = u, !.busy = @ \ {"loading"}])
  \/ Catch("me", [ui EXCEPT !.user = Nobody, !.busy = @ \ {"loading"}])

\* A route that is left takes its pending navigation along.
Goes(u, to) ==
  /\ PageIs([u EXCEPT !.at = to])
  /\ IF to = "app" THEN UNCHANGED net ELSE Send(Request("setupCheck", "setupStatus", NoArg))

\* RequireAuth.  Mutant: before AuthProvider knows.
Protect_Early == ui.at = "app" /\ ui.user = Nobody /\ Goes(ui, "login")

Protect ==
  ui.at = "app" /\ "loading" \notin ui.busy /\ ui.user = Nobody /\ Goes(ui, "login")

SignedIn == ui.at = "login" /\ ui.user # Nobody /\ Goes(ui, "app")

SetupChecked ==
  \E i \in DOMAIN net :
    /\ Arrived(i, "setupCheck")
    /\ \/ /\ ui.at = "login" /\ Answer(i)
          /\ HandledThen(i, <<Request("setupCheck", "setupStatus", NoArg)>>)
          /\ PageIs([ui EXCEPT !.at = "setup"])
       \/ /\ ui.at = "setup" /\ ~Answer(i)
          /\ HandledThen(i, <<Request("setupCheck", "setupStatus", NoArg)>>)
          /\ PageIs([ui EXCEPT !.at = "login"])
       \/ /\ ui.at = "app" \/ (ui.at = "setup") = Answer(i)
          /\ Handled(i) /\ NetOnly

\* handleSubmit of the login, with a right or a wrong password.
SubmitLogin ==
  /\ ui.at = "login" /\ "submitting" \notin ui.busy
  /\ \E right \in BOOLEAN :
       Asks([ui EXCEPT !.busy = @ \cup {"submitting"}], "login", "login", right)

ServeLogin ==
  Does("login", LAMBDA right : right /\ ~srv.setup,
       LAMBDA right : [srv EXCEPT !.cookie = "u"])

LoginAccepted == ThenAsks("login", LAMBDA x : ui, <<Request("loginMe", "me", NoArg)>>)

LoggedIn ==
  \/ Then("loginMe", LAMBDA u : [ui EXCEPT !.user = u, !.at = "app",
                                           !.busy = @ \ {"submitting"}])
  \/ \E by \in {"login", "loginMe"} : Catch(by, [ui EXCEPT !.busy = @ \ {"submitting"}])

SubmitSetup ==
  /\ ui.at = "setup" /\ "submitting" \notin ui.busy
  /\ Asks([ui EXCEPT !.busy = @ \cup {"submitting"}], "setup", "setupCreate", NoArg)

\* SetupCreate: only the first user.
ServeSetup ==
  Does("setup", LAMBDA x : srv.setup, LAMBDA x : [srv EXCEPT !.setup = FALSE])

SetUp ==
  \/ ThenAsks("setup", LAMBDA x : [ui EXCEPT !.at = "login", !.busy = @ \ {"submitting"}],
              <<Request("setupCheck", "setupStatus", NoArg)>>)
  \/ Catch("setup", [ui EXCEPT !.busy = @ \ {"submitting"}])

ClickLogout ==
  ui.at = "app" /\ ui.user # Nobody /\ Asks(ui, "logout", "logout", NoArg)

ServeLogout ==
  Does("logout", LAMBDA x : TRUE, LAMBDA x : [srv EXCEPT !.cookie = Nobody])

\* Mutant: the user of AuthContext stays.
LoggedOut_Stays ==
  ThenAsks("logout", LAMBDA x : [ui EXCEPT !.at = "login"],
           <<Request("setupCheck", "setupStatus", NoArg)>>)

LoggedOut ==
  ThenAsks("logout", LAMBDA x : [ui EXCEPT !.user = Nobody, !.at = "login"],
           <<Request("setupCheck", "setupStatus", NoArg)>>)

SessionNext ==
  /\ page = "session"
  /\ \/ ServeMe \/ MeAnswered \/ Protect \/ SignedIn \/ SetupChecked \/ SubmitLogin
     \/ ServeLogin \/ LoginAccepted \/ LoggedIn \/ SubmitSetup \/ ServeSetup \/ SetUp
     \/ ClickLogout \/ ServeLogout \/ LoggedOut \/ Tells("setupCheck", srv.setup)
     \/ DropError({"setupCheck", "logout"}) \/ Fault

-----------------------------------------------------------------------------
(* The navigation *)

\* Some of navSystem, with who may see it.
NavItems == <<"docs", "terminal", "settings", "users">>

Permitted(item) ==
  CASE item = "docs"     -> TRUE
    [] item = "terminal" -> Can("terminal")
    [] item = "settings" -> IsAdmin
    [] item = "users"    -> IsSuperAdmin

\* order and hidden are kept in the browser's storage, for whoever signs in.
NavInit ==
  /\ Opens("nav") /\ line = "orderly"
  /\ ui = [busy |-> {}, order |-> <<>>, hidden |-> {}, editing |-> FALSE]
  /\ srv = [nothing |-> 0] /\ net = <<>>

\* "Merge a saved order with the canonical list so that newly added nav items
\* always surface."  Mutant: only what was ordered.
ApplyOrder_OnlySaved(items, order) == SelectSeq(order, LAMBDA t : t \in ToSet(items))

ApplyOrder(items, order) ==
  SelectSeq(order, LAMBDA t : t \in ToSet(items))
  \o SelectSeq(items, LAMBDA t : t \notin ToSet(order))

NavList == ApplyOrder(SelectSeq(NavItems, Permitted), ui.order)

VisibleNav ==
  IF ui.editing THEN NavList ELSE SelectSeq(NavList, LAMBDA t : t \notin ui.hidden)

Reorder(list, from, to) ==
  IF from = to THEN list ELSE InsertAt(RemoveAt(list, from), to, list[from])

DropOn ==
  /\ ui.editing
  /\ \E from, to \in DOMAIN NavList :
       Becomes([ui EXCEPT !.order = Reorder(NavList, from, to)])

ToggleHidden ==
  /\ ui.editing
  /\ \E t \in ToSet(NavList) :
       Becomes([ui EXCEPT !.hidden = IF t \in @ THEN @ \ {t} ELSE @ \cup {t}])

ToggleEditing == Becomes([ui EXCEPT !.editing = ~@])

ResetNav == ui.editing /\ Becomes([ui EXCEPT !.order = <<>>, !.hidden = {}])

\* Another user signs in with the same browser.
SwitchUser ==
  /\ perms' \in Holders /\ perms' # perms
  /\ ui' = [ui EXCEPT !.editing = FALSE]
  /\ UNCHANGED <<page, line, srv, net>>

NavNext ==
  page = "nav" /\ (DropOn \/ ToggleHidden \/ ToggleEditing \/ ResetNav \/ SwitchUser)

-----------------------------------------------------------------------------
(* Properties *)

\* Once nothing is under way, the application knows the user of the session and
\* nobody when there is none, also after a login that overtook the first me().
SessionShown == page = "session" /\ Quiet => ui.user = srv.cookie

\* A user with a session who opens a page of the application stays there until
\* a logout: the page is not left for the login before it is known who asks.
NoBounce ==
  page = "session" /\ line = "orderly" /\ ui.at = "app" /\ ui'.at # "app" =>
    srv'.cookie = Nobody

\* However one user arranged the navigation and another signed in after: each
\* item that a user may see is offered once, unless it was hidden, and no other.
NavIsComplete ==
  page = "nav" =>
    /\ IsInjective(VisibleNav)
    /\ ToSet(VisibleNav) = {t \in ToSet(NavItems) :
                              Permitted(t) /\ (ui.editing \/ t \notin ui.hidden)}

\* The application knows who is signed in, keeps them, and offers them their
\* navigation, from the first state on.
SessionIsTrue ==
  [][NavIsComplete /\ NavIsComplete' /\ SessionShown' /\ NoBounce]_webVars
=============================================================================
