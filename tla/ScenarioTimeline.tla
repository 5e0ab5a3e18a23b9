-------------------------- MODULE ScenarioTimeline --------------------------
(***************************************************************************)
(* The timeline of the scenario planner (dashboard.jsx with scenarioUtils  *)
(* and scenarioLaneUtils): which issues are on it, how they are stacked    *)
(* into the rows of lanes, which lanes are collapsed, and the focus on one *)
(* epic, which zooms in and must lead back to where the user was.  Loading *)
(* and saving the edits is DraftEditor's; here an edit moves an issue by a *)
(* day.                                                                    *)
(*                                                                         *)
(* Days are numbers; so are issues, in the order of the answer, and so are *)
(* people, epics and teams, all of them different numbers.  What a render  *)
(* computes from its state is an operator on the page; places on the       *)
(* screen are rows and days, not pixels, and all lanes fit in the window.  *)
(***************************************************************************)
EXTENDS Integers, FiniteSets, SequencesExt

CONSTANTS Count,         \* issues of an answer
          Plans,         \* answers: functions from Keys to Kinds
          Kinds,         \* what an issue can be: epic, team, who, start, end, killed
          Replanned,     \* kinds another answer may give the first issue
          Dependencies,  \* pairs of issues, the first one before the second
          Matches,       \* issues the text of the search finds
          FocusSet,      \* focused_issue_keys and context_issue_keys
          ExcludedEpics, Capacity, \* people of a team, 0 if not known
          SprintBounds, BaseStart, Deadline,
          None, MaxSteps, MaxRuns

VARIABLE page

Keys == 1 .. Count
NoDay == 0
Nobody == 0

\* The state of a scenario that has just been computed.
NewPage(plan, all, mode) ==
    [plan |-> plan,
     moved |-> {},       \* scenarioOverrides
     all |-> all,        \* isAllTeamsSelected
     mode |-> mode,
     collapsed |-> {},
     focus |-> None, range |-> NoDay,
     restore |-> None,   \* scenarioFocusRestoreRef
     skip |-> FALSE, init |-> FALSE, \* refs of the collapse effect
     pending |-> None,   \* scenarioPendingScrollRef
     at |-> None,        \* the issue scrolled to
     hover |-> None,
     search |-> FALSE, only |-> FALSE, edit |-> FALSE,
     kept |-> FALSE,     \* history: editing began in the focus
     left |-> [steps |-> MaxSteps, runs |-> MaxRuns]]

-----------------------------------------------------------------------------
(* What is on the timeline                                                 *)

\* applyIssueOverride
Issue(p, i) ==
    IF i \in p.moved
      THEN [p.plan[i] EXCEPT !.start = @ + 1, !.end = @ + 1]
      ELSE p.plan[i]

Scheduled(r) == r.start # NoDay /\ r.end # NoDay

\* scenarioExcludedIssueKeys
Excluded(p, i) == p.plan[i].epic \in ExcludedEpics

\* scenarioFocusIssueKeys, scenarioFocusContextKeys
FocusKeys(p) == {i \in Keys : p.focus # None /\ p.plan[i].epic = p.focus}
ContextKeys(p) ==
    {i \in Keys \ FocusKeys(p) :
        \E f \in FocusKeys(p) : {<<i, f>>, <<f, i>>} \cap Dependencies # {}}

\* scenarioTimelineIssues: the search does not reach into the focus.
TimelineIssues(p) ==
    CASE p.focus # None -> FocusKeys(p) \union ContextKeys(p)
      [] p.focus = None /\ p.search -> Matches
      [] OTHER -> Keys

ViewStart(p) == IF p.range = NoDay THEN BaseStart ELSE p.range

\* splitAtSprintBoundaries; a bar has the issue's key if part is 0.
SplitAtSprintBoundaries(i, r) ==
    LET cuts == {b \in SprintBounds : r.start < b /\ b < r.end}
        days == SetToSortSeq(cuts \union {r.start, r.end}, <)
    IN IF ~Scheduled(r) \/ cuts = {}
         THEN {[issue |-> i, part |-> 0, start |-> r.start, end |-> r.end]}
         ELSE {[issue |-> i, part |-> k, start |-> days[k], end |-> days[k + 1]] :
                  k \in 1 .. Len(days) - 1}

\* Capacity kept free is clipped to the sprint; a bar without days fills it.
Clipped(p, b) ==
    [b EXCEPT !.start = IF @ < ViewStart(p) THEN ViewStart(p) ELSE @,
              !.end = IF @ = NoDay \/ @ > Deadline THEN Deadline ELSE @]

\* scenarioTimelineWithSegments
BarsOf(p, i) ==
    LET bars == SplitAtSprintBoundaries(i, Issue(p, i))
    IN IF Excluded(p, i)
         THEN {b \in {Clipped(p, s) : s \in bars} : b.start <= b.end}
         ELSE {[issue |-> i, part |-> 0,
                start |-> Issue(p, i).start, end |-> Issue(p, i).end]}

Bars(p) == UNION {BarsOf(p, i) : i \in TimelineIssues(p)}

\* scenarioLaneForIssue
LaneForIssue(p, i) ==
    CASE p.focus # None -> p.focus
      [] p.focus = None /\ p.mode = "epic" -> p.plan[i].epic
      [] p.focus = None /\ p.mode = "assignee" -> p.plan[i].who
      [] OTHER -> p.plan[i].team

\* The keys of scenarioLaneInfo; an epic in focus keeps its lane if empty.
Lanes(p) == {LaneForIssue(p, i) : i \in TimelineIssues(p)}
            \union (IF p.focus # None THEN {p.focus} ELSE {})

Before(p, a, b) ==
    LET who(c) == IF p.plan[c.issue].who = Nobody THEN Count + 100 ELSE p.plan[c.issue].who
        rank(c) == <<IF p.mode = "team" THEN who(c) ELSE 0, c.start, c.issue, c.part>>
    IN \E k \in 1 .. 4 : rank(a)[k] < rank(b)[k]
                         /\ \A j \in 1 .. k - 1 : rank(a)[j] = rank(b)[j]

\* buildLaneIssues: killed issues are not drawn.
LaneBars(p, lane) ==
    SetToSortSeq({b \in Bars(p) : LaneForIssue(p, b.issue) = lane /\ ~p.plan[b.issue].killed},
                 LAMBDA a, b : Before(p, a, b))

-----------------------------------------------------------------------------
(* Rows                                                                    *)

\* Every bar takes a day at least.
From(p, b) == IF b.start = NoDay THEN ViewStart(p) ELSE b.start
Until(p, b) ==
    LET end == IF b.end = NoDay THEN From(p, b) ELSE b.end
    IN IF end <= From(p, b) THEN From(p, b) + 1 ELSE end

\* Rows taken by time alone.
RowFreeOfAnyone(p, rows, mix, b, r) == From(p, b) > rows.ends[r]

RowFree(p, rows, mix, b, r) ==
    /\ From(p, b) > rows.ends[r]
    /\ mix \/ rows.who[r] \in {Nobody, p.plan[b.issue].who}

NoRows == [ends |-> <<>>, who |-> <<>>, placed |-> {}]
NewRow(rows) == [rows EXCEPT !.ends = Append(@, 0), !.who = Append(@, Nobody)]

\* The bar's end and its assignee, who is the row's from then on.
PutIn(p, rows, b, base, r) ==
    [ends |-> [rows.ends EXCEPT ![r] = Until(p, b)],
     who |-> [rows.who EXCEPT ![r] = IF @ = Nobody THEN p.plan[b.issue].who ELSE @],
     placed |-> rows.placed \union {[bar |-> b, row |-> base + r - 1]}]

\* assignRows: the first row that is free, or a new one.
AssignRows(p, bars, base, mix) ==
    LET Place(rows, b, free) ==
          IF free = {} THEN PutIn(p, NewRow(rows), b, base, Len(rows.ends) + 1)
                       ELSE PutIn(p, rows, b, base, Min(free))
    IN FoldLeft(LAMBDA rows, b :
                   Place(rows, b, {r \in DOMAIN rows.ends : RowFree(p, rows, mix, b, r)}),
                NoRows, bars)

CapacityRows(p, lane) ==
    IF p.mode = "team" /\ lane \in DOMAIN Capacity /\ Capacity[lane] > 0
      THEN Capacity[lane] + 1 ELSE 0

CollapsedRows(p, lane) ==
    CASE p.mode = "epic" -> 1
      [] p.mode # "epic" /\ CapacityRows(p, lane) > 2 -> CapacityRows(p, lane)
      [] OTHER -> 2

VisibleRows(p, lane, total) ==
    IF p.focus = None /\ lane \in p.collapsed
      THEN Min({CollapsedRows(p, lane), total}) ELSE total

Stacked(p, lane, work, spare) ==
    LET total == Max({1, Len(work.ends) + Len(spare.ends), CapacityRows(p, lane)})
    IN [placed |-> work.placed \union spare.placed, work |-> Len(work.ends),
        total |-> total, visible |-> VisibleRows(p, lane, total)]

\* Free capacity goes below the work.
StackedBelow(p, lane, work, spare) ==
    Stacked(p, lane, work, AssignRows(p, spare, Max({1, Len(work.ends)}), TRUE))

\* scenarioLaneStacking for one lane.
Stacking(p, lane) ==
    LET Stack(bars) ==
          StackedBelow(p, lane,
             AssignRows(p, SelectSeq(bars, LAMBDA b : ~Excluded(p, b.issue)), 0, FALSE),
             SelectSeq(bars, LAMBDA b : Excluded(p, b.issue)))
    IN Stack(LaneBars(p, lane))

\* The bars of all lanes with their rows; scenarioPositions has those in a
\* visible row.
PlacedIn(lane, s) ==
    {[bar |-> q.bar, row |-> q.row, lane |-> lane, shown |-> q.row < s.visible] : q \in s.placed}
Placed(p) == UNION {PlacedIn(lane, Stacking(p, lane)) : lane \in Lanes(p)}

\* scenarioPositions[key]: a killed issue is taken to be in the first row.
HasPosition(p, placed, i) ==
    \/ \E q \in placed : q.bar.issue = i /\ q.bar.part = 0 /\ q.shown
    \/ p.plan[i].killed /\ \E b \in Bars(p) : b.issue = i /\ b.part = 0

-----------------------------------------------------------------------------
(* Warnings and edges                                                      *)

\* scenarioAssigneeConflicts: neighbours in the order of their start.
AssigneeConflicts(p) ==
    LET of(who) == {i \in TimelineIssues(p) :
                       /\ p.plan[i].who = who /\ who # Nobody
                       /\ Scheduled(p.plan[i]) /\ ~Excluded(p, i) /\ ~p.plan[i].killed}
        start(i) == Issue(p, i).start
        sorted(who) == SetToSortSeq(of(who), LAMBDA i, j : start(i) * 100 + i < start(j) * 100 + j)
        clashes(s) == {k \in 1 .. Len(s) - 1 : Issue(p, s[k]).end > start(s[k + 1])}
    IN UNION {LET s == sorted(p.plan[i].who)
              IN UNION {{s[k], s[k + 1]} : k \in clashes(s)} : i \in TimelineIssues(p)}

\* scenarioLaneInfo: what the label of a lane says of its issues; issues next
\* to the focus do not count.
LaneInfo(p, lane) ==
    LET counted == {i \in TimelineIssues(p) : /\ LaneForIssue(p, i) = lane /\ ~Excluded(p, i)
                                              /\ p.focus # None => i \in FocusKeys(p)}
    IN [unschedulable |-> {i \in counted : ~Scheduled(Issue(p, i))},
        conflicts |-> counted \cap AssigneeConflicts(p)]

\* scenarioUnschedulableItems and the other cards: the server's lists without
\* excluded capacity, and without what a search does not find.
OnCards(p, items) ==
    {i \in items : ~Excluded(p, i) /\ (p.search /\ p.focus = None => i \in Matches)}

\* scenarioEpicEdges: dependencies between the lanes of two epics.
EpicEdges(p) ==
    LET across(a, b) == {e \in Dependencies : p.plan[e[1]].epic = a /\ p.plan[e[2]].epic = b}
    IN IF p.mode # "epic" \/ p.focus # None THEN {}
       ELSE {[from |-> ab[1], to |-> ab[2], count |-> Cardinality(across(ab[1], ab[2]))] :
               ab \in {c \in Lanes(p) \X Lanes(p) : c[1] # c[2] /\ across(c[1], c[2]) # {}}}

\* Bars drawn: with "Conflicts Only", only those with a warning.
Drawn(p, placed) ==
    LET conflicts == AssigneeConflicts(p)
    IN {q \in placed : q.shown /\ (p.only => q.bar.part = 0 /\ q.bar.issue \in conflicts)}

\* scenarioVisibleExportIssues
ExportIssues(p, placed) ==
    LET conflicts == AssigneeConflicts(p)
    IN {b \in Bars(p) :
          /\ p.only => b.part = 0 /\ b.issue \in conflicts
          /\ p.plan[b.issue].killed \/ \E q \in placed : q.bar = b /\ q.shown}

\* scenarioEdgeCandidates: both issues have a bar of their own.
EdgeCandidates(p) ==
    LET whole == {b.issue : b \in {c \in Bars(p) : c.part = 0}}
    IN {e \in Dependencies : e[1] \in whole /\ e[2] \in whole}

\* scenarioFocusEdges
FocusEdges(p) ==
    LET in == FocusKeys(p)
        near == ContextKeys(p)
    IN {e \in EdgeCandidates(p) : \/ e[1] \in in /\ e[2] \in in \union near
                                  \/ e[2] \in in /\ e[1] \in near}

\* The edges of the bar under the pointer, scenarioActiveEdges, are added.
BaseEdges(p) ==
    IF p.focus = None THEN EdgeCandidates(p)
    ELSE FocusEdges(p) \union {e \in EdgeCandidates(p) : p.hover \in {e[1], e[2]}}

\* computeScenarioEdgePaths: with an end that is drawn, two ends that have a
\* place, in the focus one of them in it, and forward in time.
Edges(p, placed) ==
    LET drawn == {q.bar.issue : q \in Drawn(p, placed)}
        issue(i) == [start |-> Issue(p, i).start, end |-> Issue(p, i).end]
    IN {e \in BaseEdges(p) :
          /\ e[1] \in drawn \/ e[2] \in drawn
          /\ HasPosition(p, placed, e[1]) /\ HasPosition(p, placed, e[2])
          /\ p.focus # None => {e[1], e[2]} \cap FocusKeys(p) # {}
          /\ From(p, issue(e[2])) > Until(p, issue(e[1]))}

-----------------------------------------------------------------------------
(* Effects                                                                 *)

\* The collapse effect, run when the lanes or issues are new objects: a
\* return from the focus to epic lanes skips it once, and all teams are
\* collapsed once per scenario.
Collapse(p) ==
    CASE p.skip -> [p EXCEPT !.skip = FALSE]
      [] ~p.skip /\ p.mode = "team" /\ p.all ->
            IF p.init THEN p ELSE [p EXCEPT !.collapsed = Lanes(p), !.init = TRUE]
      [] ~p.skip /\ p.mode = "epic" ->
            [p EXCEPT !.init = FALSE,
                      !.collapsed = Lanes(p) \ {LaneForIssue(p, i) :
                          i \in IF FocusSet = {} THEN Keys ELSE FocusSet}]
      [] OTHER -> [p EXCEPT !.init = FALSE, !.collapsed = {}]

\* scrollToScenarioIssue as of render v.  A lane that is collapsed opens, but
\* the place of the issue is still that of before.
ScrollToIssue(v, p, i, placed) ==
    [p EXCEPT !.collapsed = IF v.mode = "epic" THEN @ \ {LaneForIssue(v, i)} ELSE @,
              !.at = IF placed THEN i ELSE @]

\* Whether the issue has a place in render v.
Findable(v, i) == HasPosition(v, PlacedIn(LaneForIssue(v, i), Stacking(v, LaneForIssue(v, i))), i)

\* The effect that scrolls to the issue asked for from within the focus.
Scrolled(v, p) ==
    IF v.focus = None /\ p.pending # None /\ Findable(v, p.pending)
      THEN ScrollToIssue(v, [p EXCEPT !.pending = None], p.pending, TRUE) ELSE p

\* The render after an event, and the one after its effects.
Rendered(p) == Scrolled(p, p)
Rebuilt(p) == Rendered(Scrolled(p, Collapse(p)))

Step(p) == [p EXCEPT !.left.steps = @ - 1]
CanStep == page.left.steps > 0

-----------------------------------------------------------------------------
(* The user                                                                *)

\* clearScenarioEpicFocus, with no care for the collapse effect.
ClearedUnskipped(p) ==
    [p EXCEPT !.focus = None, !.range = p.restore.range, !.mode = p.restore.mode,
              !.collapsed = p.restore.collapsed, !.restore = None]

\* clearScenarioEpicFocus
Cleared(p) ==
    [p EXCEPT !.focus = None, !.range = p.restore.range, !.mode = p.restore.mode,
              !.skip = p.restore.mode = "epic" \/ @,
              !.collapsed = p.restore.collapsed, !.restore = None]

\* The epic's bar again, Escape, or the line that names the focus.
ClearFocus ==
    /\ page.focus # None /\ CanStep
    /\ page' = Rebuilt(Step(Cleared(page)))

\* The range of the epic, with two days on either side.
FocusRange(p, epic) ==
    Min({p.plan[i].start : i \in {j \in Keys : p.plan[j].epic = epic /\ Scheduled(p.plan[j])}})
    - 2

\* scenarioEpicBars: an epic whose issues have days.
HasEpicBar(p, epic) ==
    /\ p.mode = "epic" /\ p.focus = None
    /\ \E q \in Placed(p) : p.plan[q.bar.issue].epic = epic /\ Scheduled(q.bar)
    /\ \E i \in Keys : p.plan[i].epic = epic /\ Scheduled(p.plan[i])

\* focusScenarioEpic
FocusEpic(epic) ==
    /\ CanStep /\ HasEpicBar(page, epic)
    /\ page' = Rebuilt(Step([page EXCEPT
                  !.restore = [mode |-> page.mode, collapsed |-> page.collapsed,
                               range |-> page.range],
                  !.focus = epic, !.range = FocusRange(page, epic)]))

\* A button for the lanes leaves the focus first.
SetLaneMode(mode) ==
    /\ CanStep
    /\ page.mode # mode \/ page.focus # None
    /\ LET p == IF page.focus # None THEN Cleared(page) ELSE page
       IN page' = Rebuilt(Step([p EXCEPT !.mode = mode]))

\* toggleScenarioLane
ToggleLane(lane) ==
    /\ CanStep /\ page.focus = None /\ lane \in Lanes(page)
    /\ page' = Rendered(Step([page EXCEPT
                  !.collapsed = IF lane \in @ THEN @ \ {lane} ELSE @ \union {lane}]))

\* An issue named on one of the cards above the timeline.
ClickCard(i) ==
    /\ CanStep /\ i \in OnCards(page, Keys)
    /\ page' = IF page.focus # None
                 THEN Rebuilt(Step([Cleared(page) EXCEPT !.pending = i]))
                 ELSE Rendered(Step(ScrollToIssue(page, page, i, Findable(page, i))))

\* New lanes are computed even while the focus hides what is found.
Search ==
    /\ CanStep
    /\ page' = Rebuilt(Step([page EXCEPT !.search = ~@]))

ConflictsOnly ==
    /\ CanStep
    /\ page' = Step([page EXCEPT !.only = ~@])

\* toggleScenarioEditMode: the focus ends, its range stays.
ToggleEditMode ==
    /\ CanStep
    /\ LET leaves == ~page.edit /\ page.focus # None
           p == [page EXCEPT !.edit = ~@, !.focus = IF page.edit THEN @ ELSE None,
                             !.kept = leaves \/ @]
       IN page' = IF leaves THEN Rebuilt(Step(p)) ELSE Step(p)

\* A drag or its undo.
MoveIssue(i) ==
    /\ CanStep /\ page.edit
    /\ ~Excluded(page, i) /\ Scheduled(page.plan[i])
    /\ \E q \in Drawn(page, Placed(page)) : q.bar.issue = i
    /\ page' = Rebuilt(Step([page EXCEPT
                  !.moved = IF i \in @ THEN @ \ {i} ELSE @ \union {i}]))

\* The pointer.  It does not leave a bar that is taken away.
Hover(i) ==
    /\ CanStep /\ page.hover # i
    /\ \E q \in Drawn(page, Placed(page)) : q.bar.issue = i
    /\ page' = Step([page EXCEPT !.hover = i])
Leave ==
    /\ page.hover # None
    /\ \E q \in Drawn(page, Placed(page)) : q.bar.issue = page.hover
    /\ page' = [page EXCEPT !.hover = None]

\* runScenario: another answer for the same teams, here for one issue.  The
\* collapse effect runs before the one that makes it collapse all teams anew.
RunScenario(kind) ==
    /\ page.left.runs > 0 /\ page.moved = {}
    /\ LET p == [page EXCEPT !.plan[1] = kind, !.left.runs = @ - 1]
           q == Scrolled(p, Collapse(p))
       IN page' = Rendered([q EXCEPT !.init = FALSE])

Init ==
    \E plan \in Plans, all \in BOOLEAN, mode \in {"team", "epic", "assignee"} :
       page = [Collapse(NewPage(plan, all, mode)) EXCEPT !.init = FALSE]

Next ==
    \/ ClearFocus \/ Search \/ ConflictsOnly \/ ToggleEditMode \/ Leave
    \/ \E epic \in {k.epic : k \in Kinds} : FocusEpic(epic)
    \/ \E mode \in {"team", "epic", "assignee"} : SetLaneMode(mode)
    \/ \E lane \in Lanes(page) : ToggleLane(lane)
    \/ \E i \in Keys : ClickCard(i) \/ MoveIssue(i) \/ Hover(i)
    \/ \E kind \in Replanned : RunScenario(kind)

Spec == Init /\ [][Next]_page

-----------------------------------------------------------------------------
TypeOK ==
    /\ page.plan \in [Keys -> Kinds] /\ page.moved \subseteq Keys
    /\ page.mode \in {"team", "epic", "assignee"}
    /\ page.range \in Nat
    /\ {page.pending, page.at, page.hover} \subseteq Keys \union {None}
    /\ page.restore = None \/ page.restore.mode \in {"team", "epic", "assignee"}
    /\ page.left.steps \in 0 .. MaxSteps /\ page.left.runs \in 0 .. MaxRuns

\* Two bars of a lane in the same row never overlap; work and free capacity
\* do not share one, and neither do two people's work.
RowsAreReadable(placed) ==
    \A a, b \in placed :
       a # b /\ a.lane = b.lane /\ a.row = b.row =>
          /\ Until(page, a.bar) <= From(page, b.bar) \/ Until(page, b.bar) <= From(page, a.bar)
          /\ Excluded(page, a.bar.issue) <=> Excluded(page, b.bar.issue)
          /\ ~Excluded(page, a.bar.issue) =>
                Nobody \in {page.plan[a.bar.issue].who, page.plan[b.bar.issue].who}
                \/ page.plan[a.bar.issue].who = page.plan[b.bar.issue].who

\* Whatever is not drawn is in a row its lane counts as hidden; nothing is in
\* an open lane.  (A lane with free capacity only starts in its second row
\* and counts one too few.)
NothingLost(placed) ==
    \A lane \in Lanes(page) :
       LET s == Stacking(page, lane)
       IN \/ s.work = 0
          \/ /\ \A q \in s.placed : q.row < s.total
             /\ lane \notin page.collapsed => \A q \in s.placed : q.row < s.visible
             /\ s.visible \in 1 .. s.total

\* An edge that is drawn has two bars, or one that "Conflicts Only" or the
\* death of an issue took away, and in the focus it touches the epic.
EdgesHaveEnds(placed) ==
    \A e \in Edges(page, placed) :
       /\ \A i \in {e[1], e[2]} :
             \/ page.plan[i].killed
             \/ \E q \in placed : q.bar.issue = i /\ q.shown
       /\ page.focus # None =>
             \E i \in {e[1], e[2]} : page.plan[i].epic = page.focus

\* A person whose work overlaps is warned about; who has only one task at a
\* time is not.
OverbookedIsWarned ==
    LET conflicts == AssigneeConflicts(page)
        overlap(i, j) == /\ i # j /\ page.plan[i].who = page.plan[j].who
                         /\ Issue(page, i).start < Issue(page, j).end
                         /\ Issue(page, j).start < Issue(page, i).end
        tasks == {i \in TimelineIssues(page) :
                     /\ page.plan[i].who # Nobody /\ Scheduled(page.plan[i])
                     /\ ~Excluded(page, i) /\ ~page.plan[i].killed
                     /\ Issue(page, i).start < Issue(page, i).end}
    IN \A i, j \in tasks :
          overlap(i, j) => \E k \in conflicts : page.plan[k].who = page.plan[i].who

\* The labels of the lanes add up to what the cards say, and the edges
\* between epics to the dependencies between them.
SumsAgree ==
    page.focus = None =>
       LET all(field) == UNION {LaneInfo(page, lane)[field] : lane \in Lanes(page)}
           unscheduled == {i \in Keys : ~Scheduled(Issue(page, i))}
       IN /\ all("conflicts") = AssigneeConflicts(page)
          /\ all("unschedulable") = OnCards(page, unscheduled)
          /\ page.mode = "epic" /\ ~page.search =>
                MapThenSumSet(LAMBDA e : e.count, EpicEdges(page))
                = Cardinality({e \in Dependencies : page.plan[e[1]].epic # page.plan[e[2]].epic})

\* What is exported is what is drawn (and issues that were killed).
ExportIsDrawn(placed) ==
    {b \in ExportIssues(page, placed) : ~page.plan[b.issue].killed}
    = {q.bar : q \in Drawn(page, placed)}

\* Outside the focus the timeline is not zoomed, unless editing ended it; in
\* the focus lanes are epics and there is a way back.
FocusIsTemporary ==
    /\ page.range # NoDay => page.focus # None \/ page.kept
    /\ page.focus # None => page.mode = "epic" /\ page.restore # None

\* Whatever the view, the search, the filters, the edits and the runs: the page
\* draws every bar, lets none hide another, sums up and exports what it draws
\* and warns of who is overbooked (memos of dashboard.jsx and scenarioUtils.js).
TimelineSound ==
    LET placed == Placed(page)
    IN /\ RowsAreReadable(placed) /\ NothingLost(placed) /\ EdgesHaveEnds(placed)
       /\ OverbookedIsWarned /\ SumsAgree /\ ExportIsDrawn(placed) /\ FocusIsTemporary

\* Leaving the focus, other than for other lanes or for editing, gives the
\* user the lanes back as they were, but for the one scrolled to.
LanesComeBack ==
    page.focus # None /\ page'.focus = None /\ page'.mode = "epic" /\ ~page'.edit
    => LET scrolled == {page'.plan[i].epic : i \in {page'.at, page'.pending} \ {None}}
       IN page'.collapsed \ scrolled = page.restore.collapsed \ scrolled
=============================================================================
