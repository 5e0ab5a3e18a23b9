------------------------------ MODULE StatsTables ------------------------------
(***************************************************************************)
(* The numbers of the Statistics views (stats/excludedCapacityStats.js,    *)
(* projectTrackStats.js, statsUtils.js and the memos of dashboard.jsx that *)
(* use them): the same stories counted several ways, by team, by sprint,   *)
(* by epic and by kind of capacity, under the filters of the page.         *)
(*                                                                         *)
(* The source is loaded sprint by sprint (StatsLoading has the requests):  *)
(* what is shown is computed from the chunks that have come, which may be  *)
(* those of an earlier range or choice of teams.  Points are whole         *)
(* numbers, shares are left to the views, and priorities are named by      *)
(* their labels.                                                           *)
(***************************************************************************)
EXTENDS Integers, Sequences, FiniteSetsExt, Functions, TLC

CONSTANTS Stories, Epics, None,
          Kinds,       \* sprints, team, epic, points, project, status, priority
          EpicInfo,    \* per epic: its track and its assignee
          GroupTeams,
          LastSprint,  \* sprints are 1..LastSprint, in the order of time
          NameInside,  \* <<s, t>>: the name of s is part of the name of t
          Configs,     \* excluded and ad hoc epics of the group
          MaxClicks

VARIABLE page

Sprints == 1..LastSprint
NoTrack == "No track"
Views == {"teams", "excludedCapacity", "monoCrossShare", "projectTrack"}

\* storyPointsFor, added up.
Points(p, S) == MapThenSumSet(LAMBDA k : p.issues[k].points, S)

-----------------------------------------------------------------------------
(* What is loaded and who is shown.                                        *)

\* getSprintRange: either end may be the earlier one.
RangeOf(p) ==
    {s \in Sprints : (p.start <= s /\ s <= p.end) \/ (p.end <= s /\ s <= p.start)}

\* mergeExcludedCapacityStatsSourceChunks: a story is in the chunk of every
\* sprint it was ever in, and counts once.
Loaded(p) ==
    {k \in Stories : /\ Range(p.issues[k].sprints) \intersect p.chunks # {}
                     /\ p.issues[k].team \in p.chunkTeams}

\* taskMatchesSprint: by the id of one of its sprints, or by name.
MatchesSprint(p, k, s) ==
    \E t \in Range(p.issues[k].sprints) :
        t = s \/ <<t, s>> \in NameInside \/ <<s, t>> \in NameInside

InRange(p, k) == \E s \in RangeOf(p) : MatchesSprint(p, k, s)

ScopedTeams(p) == IF p.teams = {} THEN GroupTeams ELSE p.teams

\* The teams of the page, and any other a loaded story has.
TableTeams(p) == ScopedTeams(p) \union {p.issues[k].team : k \in Loaded(p)}

\* classifyCapacityIssue: an ad hoc epic wins over the project.
CapacityType(p, k) ==
    CASE p.issues[k].epic \in p.config.adHoc -> "adHoc"
      [] p.issues[k].epic \notin p.config.adHoc /\ p.issues[k].project = "tech" -> "tech"
      [] OTHER -> "product"

ProjectType(p, k) == IF CapacityType(p, k) = "tech" THEN "tech" ELSE "product"

\* excludedCapacityActiveFilters: none selected is the same as all.
ActiveFilters(p) ==
    LET chosen == IF p.selected = None THEN {} ELSE p.selected \intersect p.config.excluded
    IN IF chosen = {} THEN p.config.excluded ELSE chosen

-----------------------------------------------------------------------------
(* Excluded capacity.                                                      *)

\* buildExcludedCapacityTimeSeries
TimeSeries(p) ==
    [c \in RangeOf(p) \X TableTeams(p) |->
        LET all == {k \in Loaded(p) : /\ p.issues[k].team = c[2]
                                      /\ MatchesSprint(p, k, c[1])}
        IN [total |-> Points(p, all),
            excluded |-> Points(p, {k \in all : p.issues[k].epic \in ActiveFilters(p)})]]

\* buildExcludedCapacityLineSeries: a line per team, or one for the group.
TeamLines(p, rows) ==
    [t \in TableTeams(p) |-> [s \in RangeOf(p) |-> rows[<<s, t>>]]]

GroupLine(p, rows) ==
    [g \in {"group"} |->
        [s \in RangeOf(p) |->
            LET sum(f) == MapThenSumSet(LAMBDA t : rows[<<s, t>>][f], TableTeams(p))
            IN [total |-> sum("total"), excluded |-> sum("excluded")]]]

LineSeries(p) ==
    IF p.chart = "group" THEN GroupLine(p, TimeSeries(p)) ELSE TeamLines(p, TimeSeries(p))

Buckets == {"excludedCapacity", "adHoc", "product", "tech"}

\* The bucket of a story: what is excluded first.
BucketOf(p, k) ==
    IF p.issues[k].epic \in ActiveFilters(p) THEN {"excludedCapacity"} ELSE {CapacityType(p, k)}

\* buildEffortTypeSplitRows: a story counts once however many sprints it was in.
EffortSplit(p) ==
    [t \in TableTeams(p) |->
        [b \in Buckets |->
            Points(p, {k \in Loaded(p) : /\ p.issues[k].team = t
                                         /\ InRange(p, k) /\ b \in BucketOf(p, k)})]]

\* summarizeEffortTypeSplitTotals
SplitTotals(rows) ==
    [b \in Buckets |-> MapThenSumSet(LAMBDA t : rows[t][b], DOMAIN rows)]

-----------------------------------------------------------------------------
(* Epics of one team and of several.                                       *)

WithEpic(p) == {k \in Loaded(p) : p.issues[k].epic # None}

\* buildEpicTeamModeBuckets: an epic in a sprint, with the stories it has there.
EpicBucket(p, e, s) == {k \in WithEpic(p) : p.issues[k].epic = e /\ MatchesSprint(p, k, s)}

IsCross(p, S) == Cardinality({p.issues[k].team : k \in S}) > 1

CrossOf(p, s) == UNION {b \in {EpicBucket(p, e, s) : e \in Epics} : IsCross(p, b)}

\* buildEpicTeamModeSprintRows
ModeRows(p) ==
    [s \in RangeOf(p) |->
        LET all == {k \in WithEpic(p) : MatchesSprint(p, k, s)}
        IN [cross |-> Points(p, CrossOf(p, s)), shared |-> Points(p, all),
            mono |-> Points(p, all \ CrossOf(p, s))]]

\* buildEpicTeamModeOverall: the buckets of all sprints.
ModeOverall(p) ==
    LET buckets == {<<e, s>> \in Epics \X RangeOf(p) : TRUE}
        of(c) == Points(p, EpicBucket(p, c[1], c[2]))
        cross == {c \in buckets : IsCross(p, EpicBucket(p, c[1], c[2]))}
    IN [cross |-> MapThenSumSet(of, cross), shared |-> MapThenSumSet(of, buckets),
        mono |-> MapThenSumSet(of, buckets \ cross)]

\* buildEpicTeamCrossShareLineSeries: of all points of the team in the sprint,
\* those of stories without an epic included.
CrossLines(p) ==
    [t \in TableTeams(p) |->
        [s \in RangeOf(p) |->
            LET mine(S) == {k \in S : p.issues[k].team = t}
            IN [total |-> Points(p, {k \in mine(Loaded(p)) : MatchesSprint(p, k, s)}),
                cross |-> Points(p, mine(CrossOf(p, s)))]]]

-----------------------------------------------------------------------------
(* Project tracks.                                                         *)

\* firstSprint: the one sprint a story counts in here.
FirstSprint(p, k) ==
    IF p.issues[k].sprints = <<>> THEN None ELSE Head(p.issues[k].sprints)

\* inScope
InScope(p, k) ==
    /\ FirstSprint(p, k) \in RangeOf(p)
    /\ p.noExcluded => p.issues[k].epic \notin p.config.excluded
    /\ p.noAdHoc => CapacityType(p, k) # "adHoc"
    /\ p.side = "both" \/ ProjectType(p, k) = p.side

TrackScope(p) == {k \in Loaded(p) : InScope(p, k) /\ p.issues[k].points > 0}

\* inScopeEpicKeys: the epics whose time in each track is asked for.
PhaseEpics(p) == {p.issues[k].epic : k \in {l \in Loaded(p) : InScope(p, l)}} \ {None}

\* A story without an epic stands for itself.
UnitOf(p, k) == IF p.issues[k].epic = None THEN k ELSE p.issues[k].epic
TrackOf(u) == IF u \in Epics THEN EpicInfo[u].track ELSE NoTrack
AssigneeOf(u) == IF u \in Epics THEN EpicInfo[u].assignee ELSE "Unassigned"

Units(p) == {UnitOf(p, k) : k \in TrackScope(p)}
StoriesOf(p, u) == {k \in TrackScope(p) : UnitOf(p, k) = u}

\* The sprint with most of the epic's points, the later one of equals.
Dominant(p, u) ==
    LET at(s) == Points(p, {k \in StoriesOf(p, u) : FirstSprint(p, k) = s})
        used == {FirstSprint(p, k) : k \in StoriesOf(p, u)}
    IN Max({s \in used : \A t \in used : at(t) <= at(s)})

\* A plausible slip: only what the epic has in its dominant sprint is counted.
CellOfDominantOnly(p, s, track) ==
    IF p.mode = "epic"
    THEN UNION {{k \in StoriesOf(p, u) : FirstSprint(p, k) = s} :
                    u \in {v \in Units(p) : TrackOf(v) = track /\ Dominant(p, v) = s}}
    ELSE {k \in TrackScope(p) : FirstSprint(p, k) = s /\ TrackOf(UnitOf(p, k)) = track}

\* The stories counted in a sprint under a track.
CellOf(p, s, track) ==
    IF p.mode = "epic"
    THEN UNION {StoriesOf(p, u) :
                    u \in {v \in Units(p) : TrackOf(v) = track /\ Dominant(p, v) = s}}
    ELSE {k \in TrackScope(p) : FirstSprint(p, k) = s /\ TrackOf(UnitOf(p, k)) = track}

Tracks(p) == {TrackOf(u) : u \in Units(p)}

\* buildProjectTrackSprintSeries
TrackSeries(p) ==
    [c \in RangeOf(p) \X Tracks(p) |-> Points(p, CellOf(p, c[1], c[2]))]

\* summarizeProjectTrackTotals
TrackTotals(p) ==
    LET series == TrackSeries(p)
    IN [t \in Tracks(p) |-> MapThenSumSet(LAMBDA s : series[<<s, t>>], RangeOf(p))]

\* buildProjectTrackBreakdownRows: by assignee of the epic, or by team.
RowOf(p, k) == IF p.mode = "epic" THEN AssigneeOf(UnitOf(p, k)) ELSE p.issues[k].team

Breakdown(p) ==
    [c \in {RowOf(p, k) : k \in TrackScope(p)} \X Tracks(p) |->
        Points(p, {k \in TrackScope(p) : RowOf(p, k) = c[1] /\ TrackOf(UnitOf(p, k)) = c[2]})]

-----------------------------------------------------------------------------
(* The stories of the selected sprint, by team and by priority.            *)

\* statsTaskList: of the tasks of the board, those not under an excluded epic.
StatsTasks(p) ==
    {k \in Stories : /\ 1 \in Range(p.issues[k].sprints)
                     /\ p.issues[k].epic \notin p.config.excluded}

Outcome(r) == IF r.status \in {"done", "killed"} THEN r.status ELSE "incomplete"
Outcomes == {"done", "incomplete", "killed"}

Counts(p, S) == [o \in Outcomes |-> Cardinality({k \in S : Outcome(p.issues[k]) = o})]

\* buildLocalStatsFromTasks: killed stories have no points of a priority.
LocalStats(p) ==
    [t \in {p.issues[k].team : k \in StatsTasks(p)} |->
        LET mine == {k \in StatsTasks(p) : p.issues[k].team = t}
            of(S) == {p.issues[k].priority : k \in S}
            live == {k \in mine : Outcome(p.issues[k]) # "killed"}
        IN [all |-> Counts(p, mine),
            product |-> Counts(p, {k \in mine : ProjectType(p, k) = "product"}),
            tech |-> Counts(p, {k \in mine : ProjectType(p, k) = "tech"}),
            priorities |-> [n \in of(mine) |-> Counts(p, {k \in mine : p.issues[k].priority = n})],
            points |-> [n \in of(live) |-> Points(p, {k \in live : p.issues[k].priority = n})]]]

\* statsTeamRows
TeamRows(p) ==
    LET stats == LocalStats(p)
    IN Restrict(stats, {t \in DOMAIN stats : p.teams = {} \/ t \in p.teams})

\* statsTotals
StatsTotals(rows, part) ==
    [o \in Outcomes |-> MapThenSumSet(LAMBDA t : rows[t][part][o], DOMAIN rows)]

\* priorityRows
PriorityRows(rows) ==
    LET names == UNION {DOMAIN rows[t].priorities : t \in DOMAIN rows}
        having(n) == {t \in DOMAIN rows : n \in DOMAIN rows[t].priorities}
        worth(n) == {t \in DOMAIN rows : n \in DOMAIN rows[t].points}
    IN [n \in names |->
           [counts |-> [o \in Outcomes |->
                           MapThenSumSet(LAMBDA t : rows[t].priorities[n][o], having(n))],
            points |-> MapThenSumSet(LAMBDA t : rows[t].points[n], worth(n))]]

-----------------------------------------------------------------------------
(* The controls, and the effects that put a choice right.                  *)

\* excludedCapacityIsolatedSeries
SeriesIds(p) ==
    IF p.view = "monoCrossShare" \/ p.chart = "teams" THEN TableTeams(p) ELSE {"group"}

\* No choice made yet means all; a choice that is gone is dropped.
WithSelection(p) ==
    [p EXCEPT !.selected = CASE @ = None /\ p.config.excluded # {} -> p.config.excluded
                             [] @ # None -> @ \intersect p.config.excluded
                             [] OTHER -> @]

WithIsolated(p) ==
    [p EXCEPT !.isolated =
        IF (p.view = "excludedCapacity" /\ p.chart # "teams") \/ @ \notin SeriesIds(p)
        THEN None ELSE @]

Effects(p) == WithIsolated(WithSelection(p))

Init ==
    \E issues \in [Stories -> Kinds], config \in Configs :
        page = Effects([issues |-> issues, chunks |-> {}, chunkTeams |-> GroupTeams,
                        start |-> 1, end |-> 1, config |-> config, selected |-> None,
                        teams |-> {}, view |-> "teams", side |-> "product", mode |-> "epic",
                        noAdHoc |-> FALSE, noExcluded |-> FALSE, chart |-> "teams",
                        isolated |-> None, hidden |-> {}, clicks |-> 0])

\* Chunks of the range have come; all those of an earlier one are gone.
Progress ==
    /\ page.view # "teams"
    /\ \E C \in SUBSET RangeOf(page) \ {{}} :
           page' = Effects([page EXCEPT !.chunks = C, !.chunkTeams = ScopedTeams(page)])

Click(q) ==
    /\ page.clicks < MaxClicks
    /\ page' = Effects([q EXCEPT !.clicks = @ + 1])

SetStart == \E s \in Sprints : Click([page EXCEPT !.start = s])
SetEnd == \E s \in Sprints : Click([page EXCEPT !.end = s])
SetView == \E v \in Views : Click([page EXCEPT !.view = v])
ChooseTeams == \E T \in SUBSET GroupTeams : Click([page EXCEPT !.teams = T])
SetSide == \E s \in {"product", "tech", "both"} : Click([page EXCEPT !.side = s])
SetMode == \E m \in {"epic", "team"} : Click([page EXCEPT !.mode = m])
SetExclusions ==
    \/ Click([page EXCEPT !.noAdHoc = ~@])
    \/ Click([page EXCEPT !.noExcluded = ~@])
SetChart == \E c \in {"teams", "group"} : Click([page EXCEPT !.chart = c])
Isolate ==
    /\ page.view \in {"excludedCapacity", "monoCrossShare"}
    /\ \E i \in SeriesIds(page) \union {None} : Click([page EXCEPT !.isolated = i])

\* toggleEffortSplitBucket: a hidden bucket is not drawn, and still counts.
ToggleBucket ==
    \E b \in Buckets :
        Click([page EXCEPT !.hidden = IF b \in @ THEN @ \ {b} ELSE @ \union {b}])

\* toggleExcludedCapacityEpicKey, and the two buttons above the list
ToggleEpic ==
    \E e \in page.config.excluded :
        Click([page EXCEPT !.selected = IF e \in @ THEN @ \ {e} ELSE @ \union {e}])
SelectAllEpics == Click([page EXCEPT !.selected = page.config.excluded])
ClearEpics == Click([page EXCEPT !.selected = {}])

\* The group's epics are configured anew, or another group is chosen.
Reconfigure == \E c \in Configs : Click([page EXCEPT !.config = c])

Next == \/ Progress \/ SetStart \/ SetEnd \/ SetView \/ ChooseTeams \/ SetSide \/ SetMode
        \/ SetExclusions \/ SetChart \/ Isolate \/ ToggleBucket \/ ToggleEpic
        \/ SelectAllEpics \/ ClearEpics \/ Reconfigure

Spec == Init /\ [][Next]_page

-----------------------------------------------------------------------------
\* Type correctness of the page's state.
TypeOK ==
    /\ page.issues \in [Stories -> Kinds]
    /\ page.chunks \subseteq Sprints /\ page.chunkTeams \subseteq GroupTeams
    /\ page.start \in Sprints /\ page.end \in Sprints
    /\ page.config \in Configs /\ page.teams \subseteq GroupTeams
    /\ page.selected = None \/ page.selected \subseteq page.config.excluded
    /\ page.view \in Views /\ page.side \in {"product", "tech", "both"}
    /\ page.mode \in {"epic", "team"} /\ page.chart \in {"teams", "group"}
    /\ page.isolated \in GroupTeams \union {None} /\ page.hidden \subseteq Buckets

\* The line of the group is the sum of the lines of the teams, in each sprint.
GroupIsSumOfTeams(p) ==
    LET rows == TimeSeries(p)
        lines == TeamLines(p, rows)
    IN \A s \in RangeOf(p), f \in {"total", "excluded"} :
           GroupLine(p, rows)["group"][s][f]
               = MapThenSumSet(LAMBDA t : lines[t][s][f], TableTeams(p))

\* The four buckets of the effort split share out every loaded point of the
\* range, once, and agree with the time series on what is excluded, unless a
\* story is counted in two sprints of the range.
SplitSharesOut(p) ==
    LET split == EffortSplit(p)
        totals == SplitTotals(split)
        rows == TimeSeries(p)
        twice == {k \in Loaded(p) :
                     Cardinality({s \in RangeOf(p) : MatchesSprint(p, k, s)}) > 1}
        seen(t) == MapThenSumSet(LAMBDA s : rows[<<s, t>>].excluded, RangeOf(p))
    IN /\ MapThenSumSet(LAMBDA b : totals[b], Buckets)
              = Points(p, {k \in Loaded(p) : InRange(p, k)})
       /\ \A t \in TableTeams(p) :
              /\ split[t]["excludedCapacity"] <= seen(t)
              /\ twice = {} => split[t]["excludedCapacity"] = seen(t)

\* Points of epics of one and of several teams: the total of the range, the
\* row of each sprint and the lines of the teams tell the same.
ModesAgree(p) ==
    LET overall == ModeOverall(p)
        rows == ModeRows(p)
        lines == CrossLines(p)
    IN /\ overall.mono + overall.cross = overall.shared
       /\ \A f \in {"mono", "cross", "shared"} :
              overall[f] = MapThenSumSet(LAMBDA s : rows[s][f], RangeOf(p))
       /\ \A s \in RangeOf(p) :
              rows[s].cross = MapThenSumSet(LAMBDA t : lines[t][s].cross, TableTeams(p))
       /\ \A t \in TableTeams(p), s \in RangeOf(p) : lines[t][s].cross <= lines[t][s].total

\* Epic mode and team mode attribute points to different sprints and rows, but
\* have the same totals per track, as has the breakdown; both sides together
\* are tech and product; and every epic counted has its time in track asked for.
TracksAgree(p) ==
    LET totals(q) == TrackTotals(q)
        as(m) == [p EXCEPT !.mode = m]
        side(s) == Points(p, TrackScope([p EXCEPT !.side = s]))
        rows(q) == Breakdown(q)
    IN /\ totals(as("epic")) = totals(as("team"))
       /\ \A m \in {"epic", "team"} : \A t \in Tracks(p) :
              totals(as(m))[t] = MapThenSumSet(LAMBDA c : rows(as(m))[c],
                                               {c \in DOMAIN rows(as(m)) : c[2] = t})
       /\ side("both") = side("product") + side("tech")
       /\ Units(p) \intersect Epics \subseteq PhaseEpics(p)

\* The rows of the teams add up: to product and tech, to the priorities, and
\* over the teams to the table of priorities.
TeamsAddUp(p) ==
    LET rows == TeamRows(p)
        prios == PriorityRows(rows)
        total == StatsTotals(rows, "all")
    IN /\ \A o \in Outcomes :
              /\ total[o] = StatsTotals(rows, "product")[o] + StatsTotals(rows, "tech")[o]
              /\ total[o] = MapThenSumSet(LAMBDA n : prios[n].counts[o], DOMAIN prios)
       /\ MapThenSumSet(LAMBDA n : prios[n].points, DOMAIN prios)
              = Points(p, {k \in StatsTasks(p) : /\ p.issues[k].team \in DOMAIN rows
                                                 /\ p.issues[k].status # "killed"})

\* A series that is singled out is one of those drawn.
IsolatedIsDrawn(p) ==
    p.view = "excludedCapacity" /\ p.isolated # None => p.isolated \in DOMAIN LineSeries(p)

\* The views of Statistics count the same stories in different ways, and what
\* they have in common agrees, with any filters and any part of the source
\* loaded: memos of dashboard.jsx over excludedCapacityStats.js,
\* projectTrackStats.js and statsUtils.js.
TablesAgree ==
    /\ GroupIsSumOfTeams(page) /\ SplitSharesOut(page) /\ ModesAgree(page)
    /\ TracksAgree(page) /\ TeamsAddUp(page) /\ IsolatedIsDrawn(page)
=============================================================================
