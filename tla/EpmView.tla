------------------------------- MODULE EpmView -------------------------------
(***************************************************************************)
(* The EPM view: the projects of a tab, and the Jira work of all of them   *)
(* or of the one chosen (useEpmViewData.js, with the collapsed boards of   *)
(* dashboard.jsx).  A list of projects and a rollup are asked for in turn, *)
(* each by the render that was current then; five effects ask again when   *)
(* what is asked for has changed.                                          *)
(*                                                                         *)
(* As in PlanningSelection, page is the state between two turns of the     *)
(* event loop, effects see the renders p and c and change b.  Request      *)
(* numbers are left out: an older request for projects is marked late, and *)
(* an older one for a rollup, whose answer changes nothing, is dropped.    *)
(***************************************************************************)
EXTENDS Naturals, SequencesExt

CONSTANTS Projects,
          TabsOf,     \* the tabs a project is listed in
          GoalsOf,    \* the sub-goals a project is linked to
          Labelled,   \* projects with a Jira label
          Goals, Tabs, Sprints,
          None,
          MaxTurns,   \* bound on what the user does
          MaxFails    \* bound on requests that fail

\* What the constants have to be.
EpmAssumption ==
    /\ TabsOf \in [Projects -> SUBSET Tabs]
    /\ GoalsOf \in [Projects -> SUBSET Goals]
    /\ Labelled \subseteq Projects
    /\ {"active", "archived"} \subseteq Tabs
    /\ MaxTurns \in Nat /\ MaxFails \in Nat

VARIABLES page,
          moved,   \* history: a list of projects was answered to another scope
          failed,  \* history: projects whose stories could not be read
          turns, fails

vars == <<page, moved, failed, turns, fails>>

\* runtimeEpmSubGoalKeys: the chosen sub-goals, {} for all of them.
RuntimeGoals(c) ==
    LET chosen == c.picked \cap c.draft
    IN  IF chosen = c.draft THEN {} ELSE chosen

\* hasSavedEpmScope
Scoped(c) == c.saved # {}

\* What a request says it wants; fetchEpm...Rollup leaves the sprint out of
\* the tabs that have none.
Scope(c, project) ==
    [tab |-> c.tab, sprint |-> IF c.tab = "active" THEN c.sprint ELSE None,
     goals |-> RuntimeGoals(c), project |-> project]

\* filterEpmProjectsForTab, selectedEpmProject
Visible(projects, tab) == {p \in projects : tab \in TabsOf[p]}
SelectedProject(c) ==
    IF c.project \in Visible(c.list, c.tab) THEN c.project ELSE None

Empty == [kind |-> "none"]
MetadataOnly(c) == [kind |-> "metadata", scope |-> Scope(c, c.project)]
Tree(scope) == [kind |-> "tree", scope |-> scope]
Boards(scope, projects) ==
    [kind |-> "boards", scope |-> scope, projects |-> projects,
     trees |-> IF scope.tab = "archived" THEN {}
               ELSE {[scope EXCEPT !.project = p] : p \in projects \cap Labelled}]

AllBoards(b) == b.shown.kind = "boards"

-----------------------------------------------------------------------------
(* Requests.                                                               *)

\* Only what the render had is known to the rest of an async function.
Closure(c) ==
    [view |-> c.view, config |-> c.config, saved |-> c.saved, draft |-> c.draft,
     picked |-> c.picked, tab |-> c.tab, sprint |-> c.sprint, project |-> c.project]

IsList(r) == r.kind = "projects"

InvalidatedKept(b) == [b EXCEPT !.reading = {}]

\* invalidateEpmRollupRequest, and the next number of a rollup: what was asked
\* before is void.
Invalidated(b) ==
    [b EXCEPT !.asked = SelectSeq(@, IsList), !.reading = {}]

Cleared(b) == [b EXCEPT !.shown = Empty, !.loading = FALSE]

\* refreshEpmProjects; view says that refreshEpmView waits for it.
RefreshProjects(c, b, view) ==
    LET late == [i \in DOMAIN b.asked |->
                    IF IsList(b.asked[i]) THEN [b.asked[i] EXCEPT !.late = TRUE] ELSE b.asked[i]]
    IN  [b EXCEPT !.asked = Append(late, [kind |-> "projects", late |-> FALSE,
                                          view |-> view, by |-> Closure(c)]),
                  !.listing = TRUE]

AskRollup(b, kind, scope) ==
    [b EXCEPT !.asked = Append(@, [kind |-> kind, scope |-> scope]),
              !.loading = TRUE, !.shown = Empty]

\* refreshEpmRollup.  The state listing stands for the mark that projects are
\* pending as well, which is set and taken away with it.
RefreshRollup(c, b, project) ==
    LET fresh == Invalidated([b EXCEPT !.retry = FALSE])
    IN  CASE c.view # "epm" \/ (c.config /\ ~Scoped(c)) -> Cleared(Invalidated(b))
          [] c.view = "epm" /\ ~c.config -> [b EXCEPT !.loading = FALSE]
          [] c.view = "epm" /\ c.config /\ Scoped(c) ->
                IF c.tab = "active" /\ c.sprint = None
                THEN IF b.retry THEN b ELSE [b EXCEPT !.loading = FALSE]
                ELSE IF b.listing THEN [b EXCEPT !.retry = TRUE, !.loading = TRUE]
                ELSE IF c.project = None THEN AskRollup(fresh, "all", Scope(c, None))
                ELSE IF project = None THEN Cleared(fresh)
                ELSE IF project \notin Labelled
                     THEN [Cleared(fresh) EXCEPT !.shown = MetadataOnly(c)]
                ELSE AskRollup(fresh, "one", Scope(c, project))

Listed(b, projects) == [b EXCEPT !.list = projects, !.newList = TRUE]

RefreshView(c, b) ==
    IF ~c.config THEN [b EXCEPT !.listing = FALSE, !.loading = FALSE]
    ELSE IF ~Scoped(c) THEN Cleared(Listed(b, {}))
    ELSE RefreshProjects(c, b, TRUE)

\* The answer to a list of projects, {} when it failed, and the rollup after it.
LandProjects(b, r, projects) ==
    LET landed == IF r.late THEN b ELSE [Listed(b, projects) EXCEPT !.listing = FALSE]
        known  == IF r.late THEN {} ELSE Visible(projects, r.by.tab)
    IN  IF ~r.view THEN landed
        ELSE RefreshRollup(r.by, landed, IF r.by.project \in known THEN r.by.project ELSE None)

-----------------------------------------------------------------------------
(* Effects.                                                                *)

\* The arrays of sub-goals and the projects are new objects with every load,
\* also when they say the same.
ScopeChanged(p, c) ==
    \/ p.view # c.view \/ p.config # c.config \/ Scoped(p) # Scoped(c)
    \/ p.project # c.project \/ p.tab # c.tab \/ c.newGoals

SelectedChanged(p, c) ==
    SelectedProject(p) # SelectedProject(c) \/ (c.newList /\ SelectedProject(c) # None)

RollupChanged(p, c) == ScopeChanged(p, c) \/ SelectedChanged(p, c) \/ p.sprint # c.sprint

\* Chosen sub-goals that are no longer offered are dropped.
PruneEffect(c, b) ==
    IF c.picked \subseteq c.draft THEN b
    ELSE [b EXCEPT !.picked = @ \cap c.draft, !.newGoals = TRUE]

ViewEffect(p, c, b) ==
    IF ~ScopeChanged(p, c) \/ c.view # "epm" \/ ~c.config THEN b
    ELSE IF ~Scoped(c) THEN Listed(b, {})
    ELSE RefreshView(c, b)

DeselectEffect(p, c, b) ==
    LET changed == p.view # c.view \/ p.project # c.project \/ SelectedChanged(p, c)
    IN  IF /\ changed /\ c.view = "epm" /\ c.project # None
           /\ ~b.listing /\ SelectedProject(c) = None
        THEN [b EXCEPT !.project = None]
        ELSE b

RollupEffect(p, c, b) ==
    IF RollupChanged(p, c) THEN RefreshRollup(c, b, SelectedProject(c)) ELSE b

RetryEffect(p, c, b) ==
    IF /\ p.view # c.view \/ p.listing # c.listing \/ RollupChanged(p, c)
       /\ b.retry /\ c.view = "epm" /\ ~c.listing /\ ~b.listing
    THEN RefreshRollup(c, b, SelectedProject(c))
    ELSE b

\* Boards start collapsed, whenever others are shown.
ShownBoards(c) ==
    IF c.view = "epm" /\ c.project = None /\ AllBoards(c) THEN c.shown.projects ELSE {}

CollapseEffect(p, c, b) ==
    IF /\ \/ p.view # c.view \/ p.project # c.project \/ p.tab # c.tab
          \/ ShownBoards(p) # ShownBoards(c)
       /\ ShownBoards(c) # {}
    THEN [b EXCEPT !.folded = @ \cup ShownBoards(c)]
    ELSE b

\* The effects of one render, in the order they stand in.
Flushed(p, c) ==
    LET start == [c EXCEPT !.newGoals = FALSE, !.newList = FALSE]
        asked == DeselectEffect(p, c, ViewEffect(p, c, PruneEffect(c, start)))
    IN  CollapseEffect(p, c, RetryEffect(p, c, RollupEffect(p, c, asked)))

Rounds == 6

\* Renders until nothing is left to do, at most so often.
Settled(p, c) ==
    LET rests(two)   == two.was = two.is /\ ~two.is.newGoals /\ ~two.is.newList
        step(two, i) == IF rests(two) THEN two
                        ELSE [was |-> two.is, is |-> Flushed(two.was, two.is)]
    IN  FoldLeft(step, [was |-> p, is |-> c], [i \in 1..Rounds |-> i]).is

-----------------------------------------------------------------------------
(* The page.                                                               *)

\* The first render has the view of the teams, and the tab and the project of
\* the preferences; the view of the preferences is there when the connection to
\* Home is known.
FirstRender(tab, project, sprint) ==
    [view |-> "eng", config |-> FALSE, saved |-> {}, draft |-> {}, picked |-> {},
     newGoals |-> FALSE, newList |-> FALSE,
     sprint |-> sprint, tab |-> tab, project |-> project, list |-> {},
     listing |-> FALSE, retry |-> FALSE, loading |-> FALSE,
     shown |-> Empty, reading |-> {}, folded |-> {}, asked |-> <<>>]

Init ==
    /\ \E tab \in Tabs, project \in Projects \cup {None}, sprint \in Sprints \cup {None} :
           LET first == FirstRender(tab, project, sprint)
           IN  page \in {first, Settled(first, [first EXCEPT !.view = "epm"])}
    /\ moved = FALSE /\ failed = {}
    /\ turns = 0 /\ fails = 0

Rendered(c) == page' = Settled(page, c)
Turn == turns < MaxTurns /\ turns' = turns + 1 /\ UNCHANGED <<fails, moved>>
Kept == UNCHANGED <<turns, fails, moved, failed>>

\* loadConfig, and loadEpmSettings when the settings are opened, which brings
\* back what is saved; when it fails the view is left without a scope.
ApplySaved(c, goals) ==
    [c EXCEPT !.config = TRUE, !.saved = goals, !.draft = goals, !.newGoals = TRUE]

LoadConfig(goals) ==
    /\ ~page.config
    /\ Rendered(ApplySaved(page, goals))
    /\ Kept

OpenSettings(goals) ==
    /\ Turn
    /\ page.config
    /\ goals \in {page.saved, {}}
    /\ Rendered(ApplySaved(page, goals))
    /\ UNCHANGED failed

\* selectEpmSubGoal, clearEpmSubGoal.  Discarding the draft closes the dialog
\* and leaves the draft.
EditGoals(g) ==
    /\ Turn
    /\ page.config
    /\ Rendered([page EXCEPT !.draft = IF g \in @ THEN @ \ {g} ELSE @ \cup {g},
                             !.newGoals = TRUE])
    /\ UNCHANGED failed

\* saveEpmConfig.  The list is asked for by the render that saves.
SaveConfig ==
    /\ Turn
    /\ page.draft # page.saved
    /\ LET kept == ApplySaved(page, page.draft)
       IN  Rendered(IF Scoped(kept) THEN RefreshProjects(page, kept, FALSE)
                    ELSE Listed(kept, {}))
    /\ UNCHANGED failed

SelectView(view) ==
    /\ Turn
    /\ view # page.view
    /\ Rendered([page EXCEPT !.view = view])
    /\ UNCHANGED failed

SelectTab(tab) ==
    /\ Turn
    /\ page.view = "epm" /\ tab # page.tab
    /\ Rendered([page EXCEPT !.tab = tab])
    /\ UNCHANGED failed

SelectSprint(sprint) ==
    /\ Turn
    /\ page.view = "epm" => page.tab = "active"
    /\ sprint # page.sprint
    /\ Rendered([page EXCEPT !.sprint = sprint])
    /\ UNCHANGED failed

SelectProject(project) ==
    /\ Turn
    /\ page.view = "epm"
    /\ project \in Visible(page.list, page.tab) \cup {None}
    /\ project # page.project
    /\ Rendered([page EXCEPT !.project = project])
    /\ UNCHANGED failed

\* getNextEpmSubGoalSelection.  No choice is the choice of all.
PickGoal(g) ==
    LET on  == IF page.picked = {} THEN page.draft ELSE page.picked
        new == IF g \in on THEN on \ {g} ELSE on \cup {g}
    IN  /\ Turn
        /\ page.view = "epm" /\ g \in page.draft
        /\ Rendered([page EXCEPT !.picked = IF new = page.draft THEN {} ELSE new,
                                 !.newGoals = TRUE])
        /\ UNCHANGED failed

\* retryServerConnection, and the page that comes back after a long absence.
Refresh ==
    /\ Turn
    /\ page.view = "epm"
    /\ Rendered(RefreshView(page, page))
    /\ UNCHANGED failed

\* toggleCollapsed and loadArchivedEpmProjectRollup.
ReadTree(c, b, p) ==
    IF \/ c.tab # "archived" \/ p \notin Labelled \/ p \in c.reading
       \/ \E t \in c.shown.trees : t.project = p
    THEN b
    ELSE [b EXCEPT !.reading = @ \cup {p},
                   !.asked = Append(@, [kind |-> "board", scope |-> Scope(c, p)])]

ToggleBoard(p) ==
    /\ Turn
    /\ p \in ShownBoards(page)
    /\ Rendered(IF p \in page.folded
                THEN ReadTree(page, [page EXCEPT !.folded = @ \ {p}], p)
                ELSE [page EXCEPT !.folded = @ \cup {p}])
    /\ failed' = failed \ {p}

\* toggleAllVisibleEpmProjectsCollapsed
ToggleAll ==
    LET boards == ShownBoards(page)
        opened == [page EXCEPT !.folded = @ \ boards]
    IN  /\ Turn
        /\ Cardinality(boards) > 1
        /\ Rendered(IF boards \subseteq page.folded
                    THEN FoldSet(LAMBDA p, b : ReadTree(page, b, p), opened, boards)
                    ELSE [page EXCEPT !.folded = @ \cup boards])
        /\ failed' = failed \ boards

-----------------------------------------------------------------------------
(* Answers.                                                                *)

\* The server lists the projects of the tab and of the sub-goals, of those
\* saved when it is not told any.
Served(tab, goals) ==
    {p \in Projects : tab \in TabsOf[p]
                      /\ GoalsOf[p] \cap (IF goals = {} THEN page.saved ELSE goals) # {}}

\* A request fails, or fails for want of a Home token, which closes the view.
Fail(b, token) == IF token THEN [b EXCEPT !.view = "eng"] ELSE b

Answered(i) == [page EXCEPT !.asked = RemoveAt(@, i)]

AnswerProjects(i) ==
    LET r    == page.asked[i]
        told == Served(r.by.tab, RuntimeGoals(r.by))
    IN  /\ IsList(r)
        /\ Rendered(LandProjects(Answered(i), r, told))
        /\ moved' = (moved \/ r.by # Closure(page))
        /\ UNCHANGED <<turns, fails, failed>>

FailProjects(i, token) ==
    LET r == page.asked[i]
    IN  /\ IsList(r) /\ ~r.late
        /\ fails < MaxFails /\ fails' = fails + 1
        /\ Rendered(LandProjects(Fail(Answered(i), token), r, {}))
        /\ moved' = (moved \/ r.by # Closure(page))
        /\ UNCHANGED <<turns, failed>>

LandRollup(b, r) ==
    CASE r.kind = "all" ->
            [b EXCEPT !.loading = FALSE,
                      !.shown = Boards(r.scope, Served(r.scope.tab, r.scope.goals))]
      [] r.kind = "one" -> [b EXCEPT !.loading = FALSE, !.shown = Tree(r.scope)]
      [] r.kind = "board" ->
            [b EXCEPT !.reading = @ \ {r.scope.project},
                      !.shown = IF AllBoards(b) /\ r.scope.project \in b.shown.projects
                                THEN [b.shown EXCEPT !.trees = @ \cup {r.scope}]
                                ELSE b.shown]

AnswerRollup(i) ==
    /\ ~IsList(page.asked[i])
    /\ Rendered(LandRollup(Answered(i), page.asked[i]))
    /\ Kept

FailRollup(i, token) ==
    LET r == page.asked[i]
        b == Fail(Answered(i), token)
    IN  /\ ~IsList(r)
        /\ fails < MaxFails /\ fails' = fails + 1
        /\ Rendered(IF r.kind = "board" THEN [b EXCEPT !.reading = @ \ {r.scope.project}]
                    ELSE Cleared(b))
        /\ failed' = IF r.kind = "board" THEN failed \cup {r.scope.project} ELSE failed
        /\ UNCHANGED <<turns, moved>>

User ==
    \/ SaveConfig \/ Refresh \/ ToggleAll
    \/ \E goals \in SUBSET Goals : OpenSettings(goals)
    \/ \E g \in Goals : EditGoals(g) \/ PickGoal(g)
    \/ \E view \in {"eng", "epm"} : SelectView(view)
    \/ \E tab \in Tabs : SelectTab(tab)
    \/ \E sprint \in Sprints : SelectSprint(sprint)
    \/ \E project \in Projects \cup {None} : SelectProject(project)
    \/ \E p \in Projects : ToggleBoard(p)

Network ==
    \/ \E goals \in SUBSET Goals : LoadConfig(goals)
    \/ \E i \in DOMAIN page.asked :
           \/ AnswerProjects(i) \/ AnswerRollup(i)
           \/ \E token \in BOOLEAN : FailProjects(i, token) \/ FailRollup(i, token)

Next == User \/ Network

Spec == Init /\ [][Next]_vars

-----------------------------------------------------------------------------
(* Properties.                                                             *)

ListsOnTheWay == {i \in DOMAIN page.asked : IsList(page.asked[i]) /\ ~page.asked[i].late}
RollupsOnTheWay == {i \in DOMAIN page.asked : page.asked[i].kind \in {"all", "one"}}

Wanted == Scope(page, SelectedProject(page))

\* The page comes to rest after every turn, with as many requests on their way
\* as its marks say.
TypeOK ==
    /\ page = Flushed(page, page)
    /\ page.list \subseteq Projects /\ page.picked \subseteq page.draft
    /\ page.listing <=> ListsOnTheWay # {}
    /\ Cardinality(ListsOnTheWay) <= 1 /\ Cardinality(RollupsOnTheWay) <= 1
    /\ turns \in 0..MaxTurns /\ fails \in 0..MaxFails

\* While the view says that it loads, a rollup is on its way, or one will be
\* asked for when the projects are there: no order of answers, failures and
\* clicks leaves the reader in front of a board that loads for ever.
LoadingEnds ==
    page.loading =>
        \/ RollupsOnTheWay # {}
        \/ page.retry /\ (page.listing \/ page.view # "epm")
        \/ page.retry /\ page.tab = "active" /\ page.sprint = None

\* What the view shows when it has stopped loading is for the tab, sprint,
\* sub-goals and project chosen, as long as the projects were never answered to a
\* page that had moved on: no late rollup, failure, collapsed board or change of
\* the settings brings in another.
RowsOfScope ==
    /\ ~moved /\ page.view = "epm" /\ page.config /\ Scoped(page)
    /\ ~page.listing /\ ~page.loading
    /\ (page.tab = "active" => page.sprint # None)
    /\ page.shown.kind # "none"
    => page.shown.scope = Wanted

\* A board that is open in the archive has the stories of its project in the
\* scope shown, is reading them, or could not: an answer to boards that were
\* replaced since neither fills the new ones nor leaves them without.
OpenBoardIsRead ==
    /\ ~moved /\ page.tab = "archived" /\ ~page.listing
    => \A p \in (ShownBoards(page) \cap Labelled) \ page.folded :
           \/ [page.shown.scope EXCEPT !.project = p] \in page.shown.trees
           \/ p \in failed
           \/ \E i \in DOMAIN page.asked :
                  page.asked[i].kind = "board" /\ page.asked[i].scope.project = p

\* The view (useEpmViewData.js) ends every load it shows, and nothing in it
\* belongs to another scope than the one chosen.
EpmSound == LoadingEnds /\ RowsOfScope /\ OpenBoardIsRead
=============================================================================
