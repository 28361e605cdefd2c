------------------------------ MODULE Queries ------------------------------
(***************************************************************************)
(* The pages that show what matches a filter, a page of it at a time:       *)
(* the traces and the database view of pages/OTelTracesPage.tsx, the        *)
(* report and the captured payloads of pages/TrafficPage.tsx, and           *)
(* pages/AuditPage.tsx; with components/Pagination.tsx.                     *)
(***************************************************************************)
EXTENDS Browser, FiniteSetsExt

CONSTANTS
  Services,   \* what a filter may select
  PageSize,   \* items of a page
  MaxItems,   \* items that the server keeps
  MaxLoads    \* requests that one page numbers

ASSUME QueriesAssumption ==
  /\ IsFiniteSet(Services) /\ PageSize \in Nat \ {0}
  /\ MaxItems \in Nat /\ MaxLoads \in Nat

QueryPages == {"traces", "database", "trafficLogs", "traffic", "audit"}
Numbered   == {"traces", "database"}    \* with loadRef, and pages of results
Debounced  == Numbered \cup {"trafficLogs"}
Polled     == {"traffic", "audit"}

All == "all"

\* shown: the results with the query they are an answer to; timer: the timeout
\* of 250 ms of the effect runs; token: loadRef.
Query(u) == [filter |-> u.filter, at |-> u.at]
NoQuery  == [filter |-> "none", at |-> 0]
Nothing(query) == [of |-> query, rows |-> <<>>, total |-> 0]

\* The route of a page's list.
ListCall ==
  CASE page = "traces"      -> "otelTraces"
    [] page = "database"    -> "otelDatabase"
    [] page = "trafficLogs" -> "trafficLogs"
    [] page = "traffic"     -> "traffic"
    [] page = "audit"       -> "listAuditEvents"

QueryInit ==
  /\ page \in QueryPages /\ perms \in Holders /\ line \in {"orderly", "lossy"}
  /\ ui = [busy |-> {"loading"}, filter |-> All, at |-> 0, token |-> 0,
           timer |-> page \in Debounced, modal |-> "none", shown |-> Nothing(NoQuery)]
  /\ srv = [items |-> SetToSeq(Services)]
  /\ net = IF page \in Debounced THEN <<>>
           ELSE <<Request("load", ListCall, [of |-> Query(ui), token |-> 0])>>

Cut(items, first, last) == SubSeq(items, first, Min({last, Len(items)}))

\* Each item is of another service.
Matching(items, filter) ==
  IF filter = All THEN items
  ELSE IF filter \in ToSet(items) THEN <<filter>> ELSE <<>>

\* OTelTraces and the other lists: filtered, then cut, the offset clamped.
Results(items, q) ==
  LET found == Matching(items, q.filter)
  IN [of |-> q, total |-> Len(found),
      rows |-> IF page \in Numbered THEN Cut(found, q.at * PageSize + 1, (q.at + 1) * PageSize)
               ELSE found]

ServeList ==
  \E by \in {"load", "poll"} : Finds(by, LAMBDA a : [a EXCEPT !.of = Results(srv.items, @)])

\* A list is asked for with the filters of the last render.
AskList(u, by) ==
  LET n == IF page \in Numbered THEN u.token + 1 ELSE 0
  IN /\ n <= MaxLoads
     /\ Asks([u EXCEPT !.token = n], by, ListCall, [of |-> Query(u), token |-> n])

\* The effects of a filter: the first page, and the list, now or by the timer.
PickFilter ==
  \E f \in (Services \cup {All}) \ {ui.filter} :
    LET u == [ui EXCEPT !.filter = f, !.at = 0]
    IN CASE page \in Numbered    -> Becomes([u EXCEPT !.timer = TRUE])
         [] page = "trafficLogs" -> Becomes([u EXCEPT !.timer = TRUE, !.busy = {"loading"}])
         [] page \in Polled      -> AskList([u EXCEPT !.busy = {"loading"}], "load")

LastPage(total) == IF total = 0 THEN 0 ELSE (total - 1) \div PageSize

GoToPage ==
  /\ page \in Numbered /\ "loading" \notin ui.busy /\ ui.shown.total > 0
  /\ \E n \in (0 .. LastPage(ui.shown.total)) \ {ui.at} :
       Becomes([ui EXCEPT !.at = n, !.timer = TRUE])

TimerFires ==
  /\ page \in Debounced /\ ui.timer
  /\ AskList([ui EXCEPT !.timer = FALSE, !.busy = @ \cup {"loading"}], "load")

ClickRefresh ==
  \/ /\ page = "traces" /\ "refreshing" \notin ui.busy
     /\ AskList([ui EXCEPT !.busy = @ \cup {"refreshing"}], "load")
  \/ page \in Polled /\ AskList([ui EXCEPT !.busy = {"loading"}], "load")

\* The intervals of 15 and of 30 seconds.
Poll == page \in Polled /\ AskList(ui, "poll")

\* Mutant: whatever the number.
IsLatestLoad_Any(i) == TRUE

\* An answer that is not the latest one asked for changes nothing, where the
\* page numbers its requests.
IsLatestLoad(i) == page \in Numbered => net[i].arg.token = ui.token

\* Only the first load of the audit page, and any of the traffic page, ends its
\* loading.
Settled(by) == IF page = "audit" /\ by = "poll" THEN ui.busy
               ELSE ui.busy \ {"loading", "refreshing"}

ListLoaded ==
  \E by \in {"load", "poll"} : \E i \in DOMAIN net :
    /\ Arrived(i, by) /\ Handled(i)
    /\ PageIs(IF IsLatestLoad(i)
              THEN [ui EXCEPT !.shown = Answer(i).of, !.busy = Settled(by)] ELSE ui)

\* The traces and the database view show nothing then, the others what they had.
ListFails ==
  \E by \in {"load", "poll"} : \E i \in DOMAIN net :
    /\ Failed(i, by) /\ Handled(i)
    /\ PageIs(CASE page \notin Numbered -> [ui EXCEPT !.busy = Settled(by)]
                [] page \in Numbered ->
                     IF IsLatestLoad(i)
                     THEN [ui EXCEPT !.shown = Nothing(NoQuery), !.busy = Settled(by)]
                     ELSE ui)

ClickClear ==
  /\ page = "traces" /\ ui.shown.rows # <<>> /\ "clearing" \notin ui.busy
  /\ ui.modal = "none" /\ Becomes([ui EXCEPT !.modal = "confirmClear"])

CancelClear == ui.modal # "none" /\ Becomes([ui EXCEPT !.modal = "none"])

ClearAll ==
  \/ /\ ui.modal = "confirmClear"
     /\ Asks([ui EXCEPT !.modal = "none", !.busy = @ \cup {"clearing"}],
             "clear", "otelDeleteTraces", NoArg)
  \/ page = "trafficLogs" /\ Asks(ui, "clear", "clearTrafficLogs", NoArg)

ServeClear == Does("clear", LAMBDA a : TRUE, LAMBDA a : [items |-> <<>>])

\* Mutant: what is listed stays.
Cleared_Stays == Then("clear", LAMBDA a : [ui EXCEPT !.busy = @ \ {"clearing"}])

Cleared ==
  Then("clear", LAMBDA a : [ui EXCEPT !.shown = Nothing(ui.shown.of),
                                      !.busy = @ \ {"clearing"}])

ClearFails == Catch("clear", [ui EXCEPT !.busy = @ \ {"clearing"}])

\* Something happens on the host: the newest item comes first.
ItemArrives ==
  /\ Len(srv.items) < MaxItems
  /\ \E s \in Services \ ToSet(srv.items) : Elsewhere([items |-> <<s>> \o srv.items])

QueryNext ==
  /\ page \in QueryPages
  /\ \/ PickFilter \/ GoToPage \/ TimerFires \/ ClickRefresh \/ Poll \/ ServeList
     \/ ListLoaded \/ ListFails \/ ClickClear \/ CancelClear \/ ClearAll \/ ServeClear
     \/ Cleared \/ ClearFails \/ ItemArrives \/ Forbid \/ Fault

\* When nothing is under way the page lists an answer to the filter and the page
\* number that it displays, never to those it had before: on the pages that
\* number their requests whatever the line does, on the others when it keeps the
\* order.
LatestQueryShown ==
  /\ page \in QueryPages /\ ~ui.timer /\ "loading" \notin ui.busy
  /\ page \in Numbered \/ Quiet
  => ui.shown.of \in {NoQuery, Query(ui)}

\* What was cleared is not listed any more, and what is listed is on the server,
\* unless it came or went since.
ShownExist ==
  page \in QueryPages /\ Quiet /\ srv.items = <<>> => ui.shown.rows = <<>>

\* What a page lists is what was asked for last, and is still there.
QueriesAreTrue == LatestQueryShown /\ ShownExist
=============================================================================
