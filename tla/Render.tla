------------------------------- MODULE Render -------------------------------
(***************************************************************************)
(* The chart of static/index.html.  Every click, and every minute the page *)
(* itself, starts a render: it reads the list of targets, then asks for the *)
(* series and for the period to compare with, and draws each when it comes. *)
(* Renders overlap, and the three requests of each are answered in any      *)
(* order, fail, or are aborted by a newer render.                           *)
(*                                                                         *)
(* An answer and the code that awaits it up to its next await are one step: *)
(* the page has one thread.  A range preset or a custom range is a window.  *)
(***************************************************************************)
EXTENDS Naturals, FiniteSets

CONSTANTS Names, NoName,
          Linked,      \* the names a link to the page may carry
          Windows,
          Beyond,      \* the windows whose comparison period is older than retention
          Filters,     \* for each choice of type, the names it shows
          MaxRenders,  \* bound
          MaxEdits     \* bound: changes to the table

ASSUME RenderAssumption ==
    /\ NoName \notin Names /\ Linked \subseteq Names \cup {NoName}
    /\ Beyond \subseteq Windows /\ Filters \subseteq SUBSET Names
    /\ MaxRenders \in Nat \ {0} /\ MaxEdits \in Nat

VARIABLES
    table, edits,            \* the active targets, at the server
    call,                    \* the editor's write on its way: the name its answer selects
    targets, pills, current, filter, win, cmpMode,
    retention,               \* whether /api/version has told how far back the history goes
    greyed,                  \* whether the compare menu offers its period
    renderSeq, rendering, inflight, cmpInflight,
    r,                       \* the renders
    drawn,                   \* the chart: whose, of what, and the window it is labelled with
    cmpData, legend,         \* the compare line and what the legend says of it
    gone,                    \* history: the names seen missing since the newest render began
    late                     \* history: an older render's list came since then

server == << table, edits >>
choice == << filter, win, cmpMode >>
menu == << retention, greyed >>
page == << targets, pills, current >>
flights == << inflight, cmpInflight >>
chart == << drawn, cmpData, legend >>
vars == << server, call, page, choice, menu, renderSeq, rendering, flights, r, chart, gone, late >>

Renders == 1 .. MaxRenders
Modes == {"off", "prev"}
Over == {"done", "gaveUp", "superseded"}
Unborn == [pc |-> "unborn", list |-> {}, name |-> NoName, win |-> 0, mode |-> "off",
           aborted |-> FALSE, cmp |-> "off"]
NoLine == [seq |-> 0, name |-> NoName, win |-> 0, mode |-> "off"]

\* The page loads: its link may name a target, and a range of at most a day; the first
\* render starts.
Init ==
    /\ table \in SUBSET Names /\ edits = 0 /\ call = {}
    /\ targets = {} /\ pills = {} /\ current \in Linked
    /\ filter = Names /\ win \in Windows \ Beyond /\ cmpMode = "off" /\ retention = FALSE /\ greyed = FALSE
    /\ renderSeq = 1 /\ rendering = TRUE /\ inflight = 0 /\ cmpInflight = 0
    /\ r = [k \in Renders |-> IF k = 1 THEN [Unborn EXCEPT !.pc = "list"] ELSE Unborn]
    /\ drawn = [seq |-> 0, name |-> NoName, win |-> 0, label |-> 0, mode |-> "off"]
    /\ cmpData = NoLine /\ legend = "plain"
    /\ gone = Names \ table /\ late = FALSE

\* render(), up to the request for the list.
Begin == /\ renderSeq < MaxRenders
         /\ renderSeq' = renderSeq + 1 /\ rendering' = TRUE
         /\ r' = [r EXCEPT ![renderSeq + 1].pc = "list"]
         /\ gone' = Names \ table /\ late' = FALSE
Render == Begin /\ UNCHANGED << server, menu, flights, chart, targets, pills >>

CmpValid(mode) == mode = "off" \/ ~retention \/ win \notin Beyond

----------------------------------------------------------------------------
(* What the user does, and the page of itself: each starts a render.       *)

PickTarget(n) == n \in pills /\ current' = n /\ Render /\ UNCHANGED << call, choice >>
PickWindow(w) == win' = w /\ Render /\ UNCHANGED << call, current, filter, cmpMode >>
PickMode(m) == /\ m # cmpMode /\ (m = "off" \/ ~greyed) /\ cmpMode' = m
               /\ Render /\ UNCHANGED << call, current, filter, win >>
PickFilter(f) == f # filter /\ filter' = f /\ Render /\ UNCHANGED << call, current, win, cmpMode >>

AutoRefresh == ~rendering /\ Render /\ UNCHANGED << call, current, choice >>

\* The answer to /api/version: a comparison that is out of reach is turned off.
Version ==
    /\ ~retention /\ retention' = TRUE /\ greyed' = (win \in Beyond)
    /\ \/ /\ cmpMode = "off" \/ win \notin Beyond
          /\ UNCHANGED << cmpMode, renderSeq, rendering, r, gone, late >>
       \/ /\ cmpMode # "off" /\ win \in Beyond
          /\ cmpMode' = "off" /\ Begin
    /\ UNCHANGED << server, call, page, filter, win, flights, chart >>

\* A write at the server: the editor's (an add, a change of name, a delete), or another
\* page's, which is one whose answer never comes.
Alters(T) == /\ edits < MaxEdits /\ edits' = edits + 1
             /\ table' = T /\ gone' = gone \cup (Names \ T)
             /\ UNCHANGED << page, choice, menu, renderSeq, rendering, flights, r, chart, late >>
Save(n) == /\ call = {} /\ n \notin table
           /\ \E old \in {{}} \cup {{o} : o \in table} : Alters((table \ old) \cup {n})
           /\ call' = {n}
Delete(n) == /\ call = {} /\ n \in table /\ Alters(table \ {n})
             /\ call' = IF n \in targets THEN {NoName, n} ELSE {}

\* Its answer: the saved target becomes the current one, a deleted one no longer is.
Answered ==
    /\ call # {} /\ call' = {}
    /\ current' \in IF NoName \notin call THEN call
                    ELSE IF current \in call THEN {NoName} ELSE {current}
    /\ Render /\ UNCHANGED choice

----------------------------------------------------------------------------
(* A render's own steps.                                                   *)

Superseded(k) == k # renderSeq

Unlock_Always(k) == rendering' = FALSE
\* The render is over: the finally of render().
Unlock(k) == rendering' = (rendering /\ Superseded(k))
Leaves(k, how) ==
    /\ r' = [r EXCEPT ![k] = [Unborn EXCEPT !.pc = IF Superseded(k) THEN "superseded" ELSE how,
                                           !.cmp = IF r[k].cmp = "flying" THEN "flying" ELSE "off"]]
    /\ Unlock(k)

\* The server reads its table.
Serve(k) == /\ r[k].pc = "list" /\ r[k].list = {}
            /\ r' = [r EXCEPT ![k].list = {table}]
            /\ UNCHANGED << server, call, page, choice, menu, renderSeq, rendering, flights, chart, gone, late >>

FallBack_OldPills(visible) == IF current \in pills \/ visible = {} THEN {current} ELSE visible
\* loadTargets' last line.  Which visible target is the first is left open.
FallBack(visible) == IF current \in visible \/ visible = {} THEN {current} ELSE visible

\* Whatever is in flight is aborted, and the render sends its own two requests.
Requests(k, cur) ==
    LET mode == IF CmpValid(cmpMode) THEN cmpMode ELSE "off" IN
    /\ cmpMode' = mode /\ greyed' = ~CmpValid("prev")
    /\ inflight' = k /\ cmpInflight' = IF mode = "off" THEN 0 ELSE k
    /\ r' = [j \in Renders |->
               IF j = k
               THEN [r[k] EXCEPT !.pc = "series", !.list = {}, !.name = cur, !.win = win, !.mode = mode,
                                 !.cmp = IF mode = "off" THEN "off" ELSE "flying"]
               ELSE [r[j] EXCEPT !.aborted = @ \/ j = inflight,
                                 !.cmp = IF j # cmpInflight THEN @
                                         ELSE IF r[j].pc \in Over THEN "off" ELSE "aborted"]]
    /\ UNCHANGED rendering

AfterList_NoCheck(k, got, cur) ==
    IF cur \in got THEN Requests(k, cur)
    ELSE Leaves(k, "gaveUp") /\ UNCHANGED << cmpMode, greyed, flights >>
AfterList(k, got, cur) ==
    IF ~Superseded(k) /\ cur \in got
    THEN Requests(k, cur)
    ELSE /\ Leaves(k, "gaveUp")
         /\ UNCHANGED << cmpMode, greyed, flights >>

ListArrives(k) ==
    /\ r[k].pc = "list"
    /\ \E got \in r[k].list : \E cur \in FallBack(got \cap filter) :
         /\ targets' = got /\ pills' = got \cap filter /\ current' = cur
         /\ AfterList(k, got, cur)
    /\ late' = (late \/ Superseded(k))
    /\ UNCHANGED << server, call, filter, win, retention, renderSeq, chart, gone >>

ListFails(k) ==
    /\ r[k].pc = "list" /\ Leaves(k, "gaveUp")
    /\ UNCHANGED << server, call, page, choice, menu, renderSeq, flights, chart, gone, late >>

\* The main chart, without a compare line so far.
Draw(k) ==
    /\ drawn' = [seq |-> k, name |-> r[k].name, win |-> r[k].win, label |-> win, mode |-> r[k].mode]
    /\ cmpData' = NoLine
    /\ legend' = IF r[k].mode = "off" THEN "plain" ELSE "promised"

AfterSeries_NoCheck(k) ==
    Draw(k) /\ r' = [r EXCEPT ![k].pc = "compare"] /\ UNCHANGED rendering
AfterSeries(k) ==
    IF Superseded(k) THEN Leaves(k, "superseded") /\ UNCHANGED chart
    ELSE Draw(k) /\ r' = [r EXCEPT ![k].pc = "compare"] /\ UNCHANGED rendering

\* The request for the series: answered, failed, or aborted by a newer render.
Series(k) ==
    /\ r[k].pc = "series"
    /\ inflight' = IF inflight = k THEN 0 ELSE inflight
    /\ \/ ~r[k].aborted /\ AfterSeries(k)
       \/ ~r[k].aborted /\ Leaves(k, "gaveUp") /\ UNCHANGED chart
       \/ r[k].aborted /\ Leaves(k, "superseded") /\ UNCHANGED chart
    /\ UNCHANGED << server, call, page, choice, menu, renderSeq, cmpInflight, gone, late >>

CompareEnds_Keeps(k, how) ==
    /\ r[k].cmp = "flying"
    /\ r' = [r EXCEPT ![k].cmp = IF r[k].pc \in Over THEN "off" ELSE how]
    /\ UNCHANGED << server, call, page, choice, menu, renderSeq, rendering, flights, chart, gone, late >>
\* fetchCompare settles: with a line, with no rows, or with a failure.
CompareEnds(k, how) ==
    /\ r[k].cmp = "flying"
    /\ r' = [r EXCEPT ![k].cmp = IF r[k].pc \in Over THEN "off" ELSE how]
    /\ cmpInflight' = IF cmpInflight = k THEN 0 ELSE cmpInflight
    /\ UNCHANGED << server, call, page, choice, menu, renderSeq, rendering, inflight, chart, gone, late >>
CompareArrives(k) == \E how \in {"line", "empty", "failed"} : CompareEnds(k, how)
CompareTimesOut_Never(k) == FALSE /\ CompareEnds(k, "failed")
CompareTimesOut(k) == CompareEnds(k, "failed")

\* The comparison is added to the chart.
Finish(k) ==
    /\ r[k].pc = "compare" /\ r[k].cmp # "flying"
    /\ LET stale == Superseded(k) \/ r[k].cmp \in {"off", "aborted"} \/ r[k].mode # cmpMode IN
       /\ cmpData' = IF stale \/ r[k].cmp # "line" THEN cmpData
                     ELSE [seq |-> k, name |-> r[k].name, win |-> r[k].win, mode |-> r[k].mode]
       /\ legend' = IF stale THEN legend
                    ELSE IF r[k].cmp = "failed" THEN "unavailable"
                    ELSE IF r[k].cmp = "empty" THEN "noData" ELSE legend
    /\ Leaves(k, "done")
    /\ UNCHANGED << server, call, page, choice, menu, renderSeq, flights, drawn, gone, late >>

User == \/ \E n \in Names : PickTarget(n) \/ Save(n) \/ Delete(n)
        \/ \E w \in Windows : PickWindow(w)
        \/ \E m \in Modes : PickMode(m)
        \/ \E f \in Filters : PickFilter(f)
Proceeds(k) == Serve(k) \/ ListArrives(k) \/ ListFails(k) \/ Series(k) \/ Finish(k)
Next ==
    \/ User \/ AutoRefresh \/ Version \/ Answered
    \/ \E k \in Renders : Proceeds(k) \/ CompareArrives(k) \/ CompareTimesOut(k)
Spec == Init /\ [][Next]_vars

\* A request for a list or a series is answered or fails, and the comparison has its own
\* timer: a render that is not over goes on.
FairSpec == Spec /\ \A k \in Renders : WF_vars(Proceeds(k) \/ CompareTimesOut(k))

----------------------------------------------------------------------------
\* Every part of the page has its type, and the two controllers it keeps are of requests
\* still in flight.
TypeOK ==
    /\ table \subseteq Names /\ targets \subseteq Names /\ pills \subseteq targets
    /\ current \in Names \cup {NoName} /\ win \in Windows /\ cmpMode \in Modes
    /\ renderSeq \in Renders /\ inflight \in 0 .. renderSeq /\ cmpInflight \in 0 .. renderSeq
    /\ \A k \in Renders : r[k].pc = "unborn" <=> k > renderSeq
    /\ inflight # 0 => r[inflight].pc = "series" /\ ~r[inflight].aborted
    /\ cmpInflight # 0 => r[cmpInflight].cmp = "flying"
    /\ drawn.seq \in 0 .. renderSeq /\ cmpData.seq \in 0 .. renderSeq
    /\ legend \in {"plain", "promised", "unavailable", "noData"}

\* The automatic refresh is held back exactly as long as the newest render is at work:
\* an older one that ends does not let it in.
LockedWhileNewestRuns == rendering <=> r[renderSeq].pc \notin Over

\* The chart, its label and its compare line belong together: the label names the window
\* that is drawn, whatever was clicked while the series was on its way, and the line,
\* from which the tooltip reads too, is of this chart's render, target, window and mode.
OneChart ==
    /\ drawn.label = drawn.win
    /\ cmpData = NoLine \/ \A f \in DOMAIN cmpData : cmpData[f] = drawn[f]

\* Only a newer render aborts a render's requests (the comment at index.html:501), so the
\* newest goes on until it has drawn or given up; when it is through, the chart shows
\* what is chosen, and the legend promises a compare line only when there is one.
ShowsTheChoice ==
    /\ ~r[renderSeq].aborted /\ r[renderSeq].cmp # "aborted"
    /\ r[renderSeq].pc = "done" =>
        /\ drawn.seq = renderSeq /\ drawn.win = win /\ drawn.mode = cmpMode
        /\ drawn.name = current \/ late
        /\ legend = "promised" <=> cmpData # NoLine

\* The page leaves the chosen target only when the user does, when the target has been
\* deleted since or its type is filtered out, or on the list of an older render.
LeavesOnlyTheGone ==
    [][current' # current /\ current # NoName /\ renderSeq' = renderSeq
          => late' \/ current \in gone \/ current \notin filter]_vars

\* Once the user lets the page be, its renders come to an end and the automatic refresh
\* is let in again.
RefreshResumes == rendering ~> ~rendering
=============================================================================
