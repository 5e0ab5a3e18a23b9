--------------------------------- MODULE Burndown ---------------------------------
(***************************************************************************)
(* The Burndown chart (stats/burnoutChartUtils.js, BurnoutChart.jsx): from *)
(* the stories of a sprint and the days they were closed, the points or    *)
(* the number of stories still open on each day, stacked by team, with the *)
(* cards above and the list of tasks a click on the chart filters.         *)
(*                                                                         *)
(* Days are counted from the start of the sprint, which ends on SprintEnd; *)
(* a story is open under the team it had at the start, or when it was      *)
(* created, and is taken from the team that closed it.  StatsLoading has   *)
(* the request and its cache; here a request is due for the debounce, while *)
(* the chart of the former answer is still shown, and then loading, which  *)
(* hides it.                                                               *)
(***************************************************************************)
EXTENDS Integers, FiniteSetsExt

CONSTANTS Stories,
          Teams,      \* all there are: a story may have been of any at the start
          Selected,   \* those whose sprint it is
          None, All,
          Kinds,      \* [created, start, opened, closings, closed, points, assignee]
          SprintEnd,
          LastDay,    \* no closing is known after it
          MaxClicks

\* What the constants have to be: no story is closed before it is created.
BurndownAssumption ==
    /\ IsFiniteSet(Stories) /\ IsFiniteSet(Teams) /\ Selected \subseteq Teams
    /\ None \notin Teams /\ None \notin Kinds
    /\ SprintEnd \in Nat /\ LastDay \in Nat /\ SprintEnd <= LastDay /\ MaxClicks \in Nat
    /\ \A k \in Kinds :
           /\ k.created \in Nat /\ k.points \in Nat
           /\ k.start \in Teams /\ k.opened \in Teams
           /\ \A c \in k.closings : /\ c.team \in Teams /\ c.day \in Int /\ c.day <= LastDay
                                    /\ (c.day >= 0 => c.day >= k.created)

VARIABLE page

\* filteredIssues
Chosen(p) ==
    {s \in Stories : p.kind[s] # None /\ p.assignee \in {All, p.kind[s].assignee}}

\* The closings the server tells of, those by the teams selected and, after the
\* end, those asked for; the chart has the latter only of a completed sprint.
Told(p, s) ==
    {c \in p.kind[s].closings : /\ c.day >= 0 /\ c.team \in Selected
                               /\ (c.day <= SprintEnd \/ (p.post /\ p.completed))}

\* closureByIssue: the first of them.
Closing(p, s) ==
    IF Told(p, s) = {} THEN None
    ELSE CHOOSE c \in Told(p, s) : \A d \in Told(p, s) : c.day <= d.day

\* A story that is closed now though no closing is told of passes for one
\* closed before the sprint; one created after the sprint is not of it.
InChart(p) ==
    {s \in Chosen(p) : /\ p.kind[s].created <= SprintEnd
                       /\ ~(s \in p.closed /\ Closing(p, s) = None)}

\* issueMetricValue
Value(p) == [s \in Chosen(p) |-> IF p.metric = "points" THEN p.kind[s].points ELSE 1]

ValueOf(p, S) == SumFunctionOnSet(Value(p), S)

Added(p, s) == p.kind[s].created > 0

\* openTeam
OpenTeam(p, s) == IF Added(p, s) THEN p.kind[s].opened ELSE p.kind[s].start

\* fullRangeEnd: a completed sprint's chart goes on to the last closing.
LastClosing(p) ==
    Max({0} \union {Closing(p, s).day : s \in {i \in Chosen(p) : Closing(p, i) # None}})
FullEnd(p) == IF p.completed /\ LastClosing(p) > SprintEnd THEN LastClosing(p) ELSE SprintEnd

\* chartEndDateKey: and stops there, when that was before the end.
ChartEnd(p) ==
    IF p.completed /\ \E s \in Chosen(p) : Closing(p, s) # None THEN LastClosing(p) ELSE SprintEnd

\* baselineByTeam
AtStart(p) == {s \in InChart(p) : ~Added(p, s)}
Baseline(p, t) == ValueOf(p, {s \in AtStart(p) : p.kind[s].start = t})

\* dayDeltaByTeam
AddedOn(p, d, t) == {s \in InChart(p) : Added(p, s) /\ p.kind[s].created = d /\ p.kind[s].opened = t}
ClosedOn(p, d, t) ==
    {s \in InChart(p) : /\ Closing(p, s) # None
                        /\ Closing(p, s).day = d /\ Closing(p, s).team = t}
Delta(p, d, t) == ValueOf(p, AddedOn(p, d, t)) - ValueOf(p, ClosedOn(p, d, t))

\* A plausible slip: the changes of the first day, which the start does not
\* hold, are left out.
RunningFromSecondDay(p, t) ==
    LET run[d \in 0..FullEnd(p)] ==
            IF d = 0 THEN Baseline(p, t) ELSE Max({0, run[d - 1] + Delta(p, d, t)})
    IN  run

\* runningByTeam: per day, never less than nothing.
Running(p, t) ==
    LET run[d \in 0..FullEnd(p)] ==
            Max({0, (IF d = 0 THEN Baseline(p, t) ELSE run[d - 1]) + Delta(p, d, t)})
    IN  run

Timeline(p) == [t \in Teams |-> Running(p, t)]

TotalOf(timeline, d) == SumFunction([t \in Teams |-> timeline[t][d]])

\* The cards.
Summary(p) ==
    [start |-> SumFunction([t \in Teams |-> Baseline(p, t)]),
     added |-> ValueOf(p, {s \in InChart(p) : Added(p, s)}),
     closed |-> ValueOf(p, {s \in InChart(p) : Closing(p, s) # None}),
     remaining |-> TotalOf(Timeline(p), SprintEnd)]

\* visibleTeams
Visible(p) == {t \in Teams : \E d \in 0..ChartEnd(p) : Timeline(p)[t][d] > 0}

\* buildBurnoutTaskFilter: the stories open on a day, of a team or of all.
OpenOn(p, d, t) ==
    {s \in InChart(p) : /\ p.kind[s].created <= d
                        /\ ~(Closing(p, s) # None /\ Closing(p, s).day <= d)
                        /\ t \in {None, OpenTeam(p, s)}}

-----------------------------------------------------------------------------
(* The page.                                                               *)

Offered(p) == {All} \union {p.kind[s].assignee : s \in {i \in Stories : p.kind[i] # None}}

Unfiltered(p) == [p EXCEPT !.filter = None, !.early = FALSE]

\* The effects that follow the answer and the filter of assignees.
Effects(p) ==
    IF p.assignee \in Offered(p) THEN p ELSE Unfiltered([p EXCEPT !.assignee = All])

NoStories == [s \in Stories |-> None]

Init ==
    \E completed \in BOOLEAN :
        page = [shown |-> TRUE, phase |-> "due", fresh |-> FALSE, kind |-> NoStories,
                post |-> FALSE, completed |-> completed, closed |-> {}, patched |-> FALSE,
                metric |-> "points", assignee |-> All, filter |-> None, early |-> FALSE,
                clicks |-> 0]

\* The debounce is over.
Ask == page.shown /\ page.phase = "due" /\ page' = [page EXCEPT !.phase = "loading"]

\* The answer, or the one cached for the query: stories with what their
\* changelogs say.
Load ==
    /\ page.shown /\ page.phase # "ready"
    /\ \E kind \in [Stories -> Kinds] :
           page' = Effects([page EXCEPT !.phase = "ready", !.fresh = TRUE, !.kind = kind,
                                        !.post = page.completed, !.patched = FALSE,
                                        !.closed = {s \in Stories : kind[s].closed}])

\* It failed or timed out, or there is no sprint or no story to ask for.
LoadFails ==
    /\ page.shown /\ page.phase # "ready"
    /\ page' = Effects([page EXCEPT !.phase = "ready", !.kind = NoStories])

Click(q) == page.clicks < MaxClicks /\ page' = Effects([q EXCEPT !.clicks = @ + 1])

SetAssignee ==
    \E a \in Offered(page) \ {page.assignee} :
        page.shown /\ Click(Unfiltered([page EXCEPT !.assignee = a]))

SetMetric ==
    \E m \in {"points", "count"} \ {page.metric} :
        page.shown /\ Click([page EXCEPT !.metric = m])

\* A click on the chart: on the area of a team or above all of them.
SelectPoint ==
    /\ page.shown /\ page.phase # "loading" /\ page.kind # NoStories
    /\ \E d \in 0..ChartEnd(page), t \in Visible(page) \union {None} :
           LET chosen == [day |-> d, team |-> t, keys |-> OpenOn(page, d, t)]
               same == page.filter # None /\ page.filter.day = d /\ page.filter.team = t
           IN /\ t # None => Timeline(page)[t][d] > 0
              /\ Click(IF same THEN Unfiltered(page)
                       ELSE [page EXCEPT !.filter = chosen, !.early = (page.phase = "due")])

ClearFilter == page.filter # None /\ Click(Unfiltered(page))

\* The status of a story is changed on the board; what was answered stays.
ChangeStatus ==
    \E s \in Stories :
        LET other == IF s \in page.closed THEN page.closed \ {s} ELSE page.closed \union {s}
        IN Click([page EXCEPT !.closed = other, !.patched = TRUE])

\* Another sprint, other teams or other tasks are asked for: the filter goes,
\* the answer stays until the next.  Without its tasks the sprint is loading.
Rescope ==
    \E completed \in BOOLEAN, phase \in {"due", "loading"} :
        Click(Unfiltered([page EXCEPT !.completed = completed, !.fresh = FALSE,
                                      !.phase = IF page.shown THEN phase ELSE @,
                                      !.closed = IF phase = "due" THEN @ ELSE {}]))

\* The view is left, which cancels a request though "loading" stays.
Leave ==
    /\ page.shown
    /\ Click(Unfiltered([page EXCEPT !.shown = FALSE,
                                     !.phase = IF @ = "due" THEN "ready" ELSE @]))

\* Back in it: a query that is not cached is asked again.
Return ==
    /\ ~page.shown
    /\ \E phase \in {"ready", "due"} :
           /\ phase = "ready" => page.fresh
           /\ Click([page EXCEPT !.shown = TRUE, !.phase = IF @ = "loading" THEN @ ELSE phase])

\* Another group: what it was left with, if it was seen before.  Bounded to the
\* first click, for it overwrites what the others set.
ShowGroup ==
    /\ page.clicks = 0
    /\ \E kind \in [Stories -> Kinds] \union {NoStories}, post \in BOOLEAN :
           LET left == [page EXCEPT !.kind = kind, !.post = post, !.fresh = FALSE,
                                    !.phase = IF page.shown THEN "due" ELSE "ready",
                                    !.closed = {s \in Stories : kind # NoStories /\ kind[s].closed}]
           IN \E assignee \in Offered(left) :
                  Click(Unfiltered([left EXCEPT !.assignee = assignee]))

\* Saved settings empty data and caches, and have the tasks loaded again.
SaveSettings ==
    Click(Unfiltered([page EXCEPT !.kind = NoStories, !.closed = {}, !.fresh = FALSE,
                                  !.phase = IF page.shown THEN "loading" ELSE "ready"]))

Next ==
    \/ Ask \/ Load \/ LoadFails \/ SetAssignee \/ SetMetric \/ SelectPoint \/ ClearFilter
    \/ ChangeStatus \/ Rescope \/ Leave \/ Return \/ ShowGroup \/ SaveSettings

Spec == Init /\ [][Next]_page

-----------------------------------------------------------------------------
\* Type correctness of the page's state.
TypeOK ==
    /\ page.kind \in [Stories -> Kinds \union {None}]
    /\ {page.shown, page.fresh, page.post, page.completed, page.patched, page.early} \subseteq BOOLEAN
    /\ page.phase \in {"ready", "due", "loading"} /\ page.closed \subseteq Stories
    /\ page.metric \in {"points", "count"} /\ page.assignee \in Offered(page)
    /\ page.filter = None
       \/ (page.filter.day \in 0..LastDay /\ page.filter.team \in Teams \union {None}
           /\ page.filter.keys \subseteq Stories)
    /\ page.clicks \in 0..MaxClicks

\* Every story was closed by the team it is counted under.
NobodyMoved(p) ==
    \A s \in InChart(p) : Closing(p, s) # None => Closing(p, s).team = OpenTeam(p, s)

OpenValue(p, d, t) == ValueOf(p, OpenOn(p, d, t))

\* The chart never hides open work: on every day the stack is at least as high
\* as the stories open, and just as high, team by team, when none of them was
\* closed by another team.
ChartCountsOpen(p) ==
    LET timeline == Timeline(p)
    IN \A d \in 0..FullEnd(p) :
           /\ TotalOf(timeline, d) >= OpenValue(p, d, None)
           /\ NobodyMoved(p) => \A t \in Teams : timeline[t][d] = OpenValue(p, d, t)

\* The cards add up: what was there and what was added, less what was closed,
\* is left on the last day.
CardsAddUp(p) ==
    NobodyMoved(p) =>
        Summary(p).start + Summary(p).added - Summary(p).closed = TotalOf(Timeline(p), FullEnd(p))

\* A closed sprint is drawn to its last closing, an open one to its end, and no
\* team with open work is left out.
NothingCutOff(p) ==
    /\ \A s \in InChart(p) : Closing(p, s) # None => Closing(p, s).day <= ChartEnd(p)
    /\ \A d \in 0..ChartEnd(p) : \A s \in OpenOn(p, d, None) :
           Value(p)[s] > 0 /\ NobodyMoved(p) => OpenTeam(p, s) \in Visible(p)

\* The tasks listed after a click are those open on that day in the chart that
\* is still shown, unless a status was changed on the board since, or the click
\* was on the chart of the former query; and they are listed in that view alone.
FilterIsOfChart(p) ==
    p.filter # None =>
        /\ p.shown
        /\ p.patched \/ p.early \/ p.filter.keys = OpenOn(p, p.filter.day, p.filter.team)

\* Chart, cards and filtered list of the Burndown (buildBurnoutChartModel,
\* buildBurnoutTaskFilter) say the same of the stories still open.
BurndownSound ==
    /\ TypeOK
    /\ ChartCountsOpen(page) /\ CardsAddUp(page) /\ NothingCutOff(page) /\ FilterIsOfChart(page)
=============================================================================
