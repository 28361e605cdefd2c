----------------------------- MODULE Waterfall -----------------------------
(***************************************************************************)
(* A row of pages/OTelTracesPage.tsx: a trace, opened, read in full and     *)
(* laid out as the tree of its spans along the time they took; and the      *)
(* numbered pager of components/Pagination.tsx.                             *)
(***************************************************************************)
EXTENDS Browser, FiniteSetsExt

CONSTANTS
  Spans,      \* 1 .. n, in the order of the answer
  Starts,     \* times at which spans start
  Durations,  \* how long they take
  MaxTotal    \* items that a pager counts

NoParent == 0
Missing  == 99    \* the id of a span that the trace does not hold

ASSUME WaterfallAssumption ==
  /\ Spans = 1 .. Cardinality(Spans) /\ Missing \notin Spans
  /\ Starts \cup Durations \subseteq Nat /\ MaxTotal \in Nat

-----------------------------------------------------------------------------
(* buildSpanTree and SpanRow *)

\* A trace gives each span its parent, its start and its duration.
Traces ==
  [parent : [Spans -> Spans \cup {NoParent, Missing}], start : [Spans -> Starts],
   duration : {[s \in Spans |-> d] : d \in Durations}]

\* The spans of ss by start; the sort is stable.
ByStart(t, ss) ==
  SetToSortSeq(ss, LAMBDA a, b : \/ t.start[a] < t.start[b]
                                 \/ t.start[a] = t.start[b] /\ a < b)

Children(t, p) == {s \in Spans : t.parent[s] = p}

\* Mutant: only the spans without a parent.
Roots_NoParent(t) == Children(t, NoParent)

\* Without a parent, or with one that the trace does not hold.
Roots(t) == {s \in Spans : t.parent[s] \notin Spans}

\* walk: a span, then its children with theirs, one deeper.
Walk(t) ==
  LET walk[span \in Spans, depth \in 0 .. Cardinality(Spans)] ==
        LET below == ByStart(t, Children(t, span))
        IN <<[span |-> span, depth |-> depth]>>
             \o FlattenSeq([k \in DOMAIN below |-> walk[below[k], depth + 1]])
  IN walk

BuildSpanTree(t) ==
  LET roots == ByStart(t, Roots(t))
  IN FlattenSeq([k \in DOMAIN roots |-> Walk(t)[roots[k], 0]])

TraceStart(t) == Min({t.start[s] : s \in Spans})
TraceEnd(t)   == Max({t.start[s] + t.duration[s] : s \in Spans})

\* A duration of 0 counts as 1.
TraceDuration(t) == Max({1, TraceEnd(t) - TraceStart(t)})

\* The bar of a span, in thousandths of the width of the row.
Narrowest == 6

ClampedLeft(t, s) ==
  Min({((t.start[s] - TraceStart(t)) * 1000) \div TraceDuration(t), 990})

ClampedWidth(t, s) ==
  LET width == Max({(t.duration[s] * 1000) \div TraceDuration(t), Narrowest})
  IN Max({Min({width, 1000 - ClampedLeft(t, s)}), Narrowest})

-----------------------------------------------------------------------------
(* TraceRow *)

\* loaded: what the answer held, once there was one.
TraceInit ==
  /\ page = "trace" /\ perms = {} /\ line \in {"orderly", "lossy"}
  /\ srv \in Traces
  /\ ui = [busy |-> {}, open |-> FALSE, loaded |-> FALSE]
  /\ net = <<>>

\* toggle: to open a row that was not read, the trace is read first.  The click
\* is not disabled meanwhile: another one reads it again.
Toggle ==
  IF ~ui.open /\ ~ui.loaded
  THEN Asks([ui EXCEPT !.busy = {"loading"}], "toggle", "otelTrace", NoArg)
  ELSE Becomes([ui EXCEPT !.open = ~@])

\* The trace of the list stands in for one that could not be read.
TraceRead ==
  Finally("toggle", [ui EXCEPT !.loaded = TRUE, !.busy = {}, !.open = ~@])

TraceNext ==
  /\ page = "trace" /\ (Toggle \/ Tells("toggle", "trace") \/ TraceRead \/ Fault)

\* The spans that the waterfall shows.
Shown == IF ui.open THEN BuildSpanTree(srv) ELSE <<>>

-----------------------------------------------------------------------------
(* Pagination *)

Ellipsis == -1

PageCount(total) == Max({1, (total + 1) \div 2})    \* two items a page

\* Mutant: the last page is left out when it is the next one.
PageWindow_NoLast(current, pages) ==
  LET to == Min({pages - 1, current + 1})
  IN [k \in 1 .. to - Max({0, current - 1}) + 1 |-> Max({0, current - 1}) + k - 1]

\* pageWindow: the current page and its neighbours, the first, the last, and an
\* ellipsis for what lies between.
PageWindow(current, pages) ==
  LET from == Max({0, current - 1})
      to   == Min({pages - 1, current + 1})
  IN (IF from > 0 THEN <<0>> ELSE <<>>)
       \o (IF from > 1 THEN <<Ellipsis>> ELSE <<>>)
       \o [k \in 1 .. to - from + 1 |-> from + k - 1]
       \o (IF to < pages - 2 THEN <<Ellipsis>> ELSE <<>>)
       \o (IF to < pages - 1 THEN <<pages - 1>> ELSE <<>>)

\* A page number beyond the last one counts as the last one.
Clamped == Min({ui.at, PageCount(srv.total) - 1})

PagerInit ==
  /\ page = "pager" /\ perms = {} /\ line = "orderly" /\ net = <<>>
  /\ srv \in [total : 0 .. MaxTotal] /\ ui = [at |-> 0]

ClickPage ==
  \E n \in ToSet(PageWindow(Clamped, PageCount(srv.total))) \ {Ellipsis} :
    Becomes([at |-> n])

ClickArrow ==
  \/ Clamped > 0 /\ \E n \in {0, Clamped - 1} : Becomes([at |-> n])
  \/ /\ Clamped < PageCount(srv.total) - 1
     /\ \E n \in {PageCount(srv.total) - 1, Clamped + 1} : Becomes([at |-> n])

\* Items come and go.
TotalChanges == \E n \in 0 .. MaxTotal : n # srv.total /\ Elsewhere([total |-> n])

PagerNext == page = "pager" /\ (ClickPage \/ ClickArrow \/ TotalChanges)

-----------------------------------------------------------------------------
(* Properties *)

\* A span with its parent, the parent of that, and so on.
Above(t, s) ==
  LET above[n \in 0 .. Cardinality(Spans)] ==
        IF n = 0 THEN {s}
        ELSE LET found == above[n - 1]
             IN found \cup ({t.parent[a] : a \in found} \cap Spans)
  IN above[Cardinality(Spans)]

\* Not on a cycle of parents, nor below one.
Rooted(t, s) == \E a \in Above(t, s) : t.parent[a] \notin Spans

\* Whatever order the spans come in, and with spans missing: the waterfall holds
\* every rooted span once, below its parent and one deeper, what stands between
\* them being below it too; siblings by start; and every bar within the row.
WaterfallIsTrue ==
  page = "trace" /\ ui.open =>
    /\ Len(Shown) = Cardinality({s \in Spans : Rooted(srv, s)})
    /\ {Shown[k].span : k \in DOMAIN Shown} = {s \in Spans : Rooted(srv, s)}
    /\ \A j, k \in DOMAIN Shown :
         /\ srv.parent[Shown[k].span] = Shown[j].span =>
              /\ j < k /\ Shown[k].depth = Shown[j].depth + 1
              /\ \A m \in j + 1 .. k : Shown[m].depth > Shown[j].depth
         /\ j < k /\ srv.parent[Shown[j].span] = srv.parent[Shown[k].span] =>
              srv.start[Shown[j].span] <= srv.start[Shown[k].span]
    /\ \A s \in Spans :
         /\ ClampedLeft(srv, s) \in 0 .. 990
         /\ ClampedLeft(srv, s) + ClampedWidth(srv, s) <= 1000

\* The pager shows the pages in order with the first, the last and the current
\* one among them, and an ellipsis exactly where it skips some: from any page,
\* and after any change of the total, every page can be reached.
PagerIsComplete ==
  page = "pager" =>
    LET w     == PageWindow(Clamped, PageCount(srv.total))
        pages == 0 .. PageCount(srv.total) - 1
    IN /\ {0, Clamped, PageCount(srv.total) - 1} \subseteq ToSet(w)
       /\ ToSet(w) \subseteq pages \cup {Ellipsis}
       /\ \A k \in 1 .. Len(w) - 1 :
            IF w[k + 1] = Ellipsis THEN w[k + 2] > w[k] + 1
            ELSE w[k] # Ellipsis => w[k + 1] = w[k] + 1

\* The layouts that are computed, of a trace and of a pager, leave nothing out.
LayoutIsComplete == WaterfallIsTrue /\ PagerIsComplete
=============================================================================
