----------------------------- MODULE MCPageParts -----------------------------
(* The parts of the page that work on what the board or a view of its own   *)
(* has loaded, each with a small instance of its constants.  A behaviour    *)
(* follows one of them, part, from its initial states: what they share is    *)
(* the state of SprintBoard and PlanningSelection, an input here.           *)
EXTENDS PageParts, Integers, TLC

CONSTANTS d, e, i1, i2, i3, t1, t2, t3,     \* issues
          g1, g2, s1, s2, pa, pb, pz  \* of the EPM view

VARIABLES moved, failed, turns, fails \* of the EPM view

vars == <<part, page, moved, failed, turns, fails>>

-----------------------------------------------------------------------------
(* The menus: an epic, two stories, a subtask, two values.                 *)
MCEpics == {e}
MCStories == {t1, t2}
MCSubtasks == {t3}
MCValues == {"todo", "doing"}

(* Links: i1 and i3 block i2, which depends on i3; i2 is on the board of     *)
(* both sprints, i1 and i3 only on that of the first or of none.            *)
Link(category, from, to) == [category |-> category, from |-> from, to |-> to]
MCLinked == {i1, i2, i3}
MCLinkSets == {{Link("block", i1, i2), Link("block", i3, i2), Link("dependency", i2, i3)}}
MCOnBoard == <<{{i1, i2}, {i1, i2, i3}}, {{i2}}>>
MCOnRollup == {i1, i3}

(* Three issues of six kinds: a person with two of them at once, one        *)
(* without a date, an excluded epic that starts before the sprint.          *)
Bar(epic, team, who, start, end, killed) ==
    [epic |-> epic, team |-> team, who |-> who, start |-> start, end |-> end, killed |-> killed]
TimelineKinds ==
    <<Bar(11, 21, 1, 10, 12, FALSE), Bar(11, 21, 2, 13, 15, FALSE), Bar(12, 21, 1, 13, 13, FALSE),
      Bar(12, 22, 0, 0, 0, FALSE), Bar(13, 21, 0, 9, 16, FALSE), Bar(11, 22, 1, 12, 15, TRUE)>>
TimelinePlans ==
    {[n \in 1..3 |-> TimelineKinds[code[n]]] :
        code \in {<<1, 2, 3>>, <<1, 1, 2>>, <<1, 3, 4>>, <<1, 5, 2>>, <<3, 3, 5>>,
                  <<1, 2, 6>>, <<4, 6, 1>>, <<3, 5, 5>>, <<5, 1, 4>>, <<2, 3, 2>>}}
MCIssueKinds == {TimelineKinds[n] : n \in 1..6}
MCReplanned == {TimelineKinds[3]}
MCDependencies == {<<1, 2>>, <<3, 1>>}
MCCapacity == [team \in {21, 22} |-> IF team = 21 THEN 1 ELSE 0]

(* One epic, two stories, two teams, the active sprint 1 and the future 2.  *)
PlannedEpic(status, team, labels, marked, sprint) ==
    [status |-> status, team |-> team, labels |-> labels, marked |-> marked, sprint |-> sprint]
PlannedStory(status, team, points, epic, sprint) ==
    [status |-> status, team |-> team, points |-> points, epic |-> epic, sprint |-> sprint]
MCTeams == {"a", "b"}
MCEpicKinds ==
    {PlannedEpic("todo", "a", {"a"}, {}, 2), PlannedEpic("todo", "a", {"b"}, {2}, None),
     PlannedEpic("todo", None, {}, {2}, 1), PlannedEpic("progress", "b", {"a", "b"}, {}, 1),
     PlannedEpic("todo", "b", {}, {1}, 2), PlannedEpic("postponed", "a", {"a"}, {}, 2),
     PlannedEpic("accepted", "a", {"a", "b"}, {2}, 1)}
MCStoryKinds ==
    {PlannedStory("todo", "a", TRUE, e, 1), PlannedStory("todo", "b", FALSE, e, 2),
     PlannedStory("done", "a", TRUE, e, 1), PlannedStory("blocked", "a", TRUE, e, 2),
     PlannedStory("postponed", "b", FALSE, e, 1), PlannedStory("todo", None, TRUE, e, 1),
     PlannedStory("incomplete", "b", TRUE, None, 1), PlannedStory("killed", "b", TRUE, e, 2),
     PlannedStory("todo", "a", TRUE, e, None)}
MCStatuses == {"todo", "done"}

(* Two stories of seven kinds: closed on the first day, by another team, twice, *)
(* after the end, before the sprint and by a team not selected, of which one     *)
(* story was at the start, or created during or after it.                        *)
Closed(day, team) == [day |-> day, team |-> team]
Burning(created, team, closings, closed, points, assignee) ==
    [created |-> created, start |-> team, opened |-> team, closings |-> closings,
     closed |-> closed, points |-> points, assignee |-> assignee]
MCChartTeams == {"a", "b", "z"}
MCBurnKinds ==
    {Burning(0, "a", {}, FALSE, 2, "ann"),
     Burning(0, "a", {Closed(0, "a")}, TRUE, 3, "ann"),
     Burning(0, "a", {Closed(1, "b")}, TRUE, 1, "bob"),
     Burning(1, "b", {Closed(1, "b"), Closed(2, "b")}, FALSE, 2, "bob"),
     Burning(0, "z", {Closed(2, "b")}, TRUE, 1, "ann"),
     Burning(0, "b", {Closed(-1, "b"), Closed(1, "z")}, TRUE, 2, "bob"),
     Burning(2, "b", {}, FALSE, 1, "ann")}

-----------------------------------------------------------------------------
(* Two stories of eight kinds, two epics, three sprints.                    *)
Counted(sprints, team, epic, points, project, status, priority) ==
    [sprints |-> sprints, team |-> team, epic |-> epic, points |-> points,
     project |-> project, status |-> status, priority |-> priority]
Tables == INSTANCE StatsTables WITH
    Stories <- {i2, i3}, Epics <- {d, e},
    Kinds <-
        {Counted(<<1>>, "a", e, 2, "product", "todo", "high"),
         Counted(<<2>>, "b", e, 2, "tech", "done", "high"),
         Counted(<<1, 2>>, "a", e, 1, "tech", "killed", "low"),
         Counted(<<2, 3>>, "b", d, 3, "tech", "done", "low"),
         Counted(<<3>>, "a", d, 1, "product", "todo", "high"),
         Counted(<<1>>, "b", None, 2, "tech", "done", "high"),
         Counted(<<1>>, "b", e, 0, "product", "done", "low"),
         Counted(<<>>, "a", None, 1, "product", "todo", "low")},
    EpicInfo <- d :> [track |-> "No track", assignee |-> "Unassigned"]
                @@ e :> [track |-> "Committed", assignee |-> "kim"],
    GroupTeams <- {"a", "b"}, LastSprint <- 3, NameInside <- {<<1, 3>>},
    Configs <- {[excluded |-> {e}, adHoc |-> {d}], [excluded |-> {d, e}, adHoc |-> {}]}

(* Three sprints for two workers, two choices of teams.                     *)
MCScopes == {1, 2}
MCEpicsIn == 1 :> {d} @@ 2 :> {e} @@ 3 :> {}

(* Three epics of five kinds, over two quarters.                            *)
Timed(created, terminal, status, project, assignee, adHoc, excluded) ==
    [created |-> created, terminal |-> terminal, status |-> status, project |-> project,
     assignee |-> assignee, adHoc |-> adHoc, excluded |-> excluded]
Leads == INSTANCE LeadTimes WITH
    Epics <- {d, e, t3}, Projects <- {"P", "Q"}, Assignees <- {"ann", "bob"},
    Kinds <-
        {Timed(0, 0, "done", "P", "ann", FALSE, FALSE),
         Timed(1, None, "open", "P", "bob", TRUE, FALSE),
         Timed(2, 5, "done", "Q", "ann", FALSE, FALSE),
         Timed(3, None, "killed", "P", "ann", FALSE, FALSE),
         Timed(4, 5, "postponed", "Q", "bob", FALSE, TRUE)},
    LastQuarter <- 1, MonthBudget <- 2, QuarterBudget <- 1

(* Two tabs and two sub-goals; two projects in progress, of which one has   *)
(* no label, and one that was completed lately and is in both tabs.         *)
Epm == INSTANCE EpmView WITH
    Projects <- {pa, pb, pz}, Goals <- {g1, g2}, Tabs <- {"active", "archived"},
    Sprints <- {s1, s2}, Labelled <- {pa, pz},
    TabsOf <- pa :> {"active"} @@ pb :> {"active"} @@ pz :> {"active", "archived"},
    GoalsOf <- pa :> {g1} @@ pb :> {g2} @@ pz :> {g1}, MaxTurns <- 2, MaxFails <- 1

ASSUME EpmConstants == Epm!EpmAssumption

-----------------------------------------------------------------------------
NoEpm == moved = FALSE /\ failed = {} /\ turns = 0 /\ fails = 0

Init ==
    \/ /\ NoEpm
       /\ \/ PartsInit
          \/ part = "tables" /\ Tables!Init
          \/ part = "leads" /\ Leads!Init
    \/ part = "epm" /\ Epm!Init

EpmAlone == UNCHANGED <<moved, failed, turns, fails>>
Alone == EpmAlone /\ UNCHANGED part

SharedNext == PartsNext /\ EpmAlone
TablesNext == part = "tables" /\ Tables!Next /\ Alone
LeadsNext == part = "leads" /\ Leads!Next /\ Alone
EpmNext == part = "epm" /\ Epm!Next /\ UNCHANGED part

Next == SharedNext \/ TablesNext \/ LeadsNext \/ EpmNext

Spec == Init /\ [][Next]_vars

Symmetry == Permutations({s1, s2})

-----------------------------------------------------------------------------
(* The properties of the parts, where they are stated and explained.        *)

\* The tables of Statistics count the same stories.
TablesAgree == part = "tables" => Tables!TypeOK /\ Tables!TablesAgree

\* Cards, grid and bars of Lead Times count the same epics.
LeadTimesSound == part = "leads" => Leads!TypeOK /\ Leads!LeadTimesSound

\* The EPM view shows what was chosen and comes to the end of its loads.
EpmSound == part = "epm" => Epm!TypeOK /\ Epm!EpmSound
=============================================================================
