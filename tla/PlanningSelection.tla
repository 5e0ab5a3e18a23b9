-------------------------- MODULE PlanningSelection --------------------------
(***************************************************************************)
(* What is selected on the Planning surface: the stories, whether "all" is *)
(* the default, and the teams the board is filtered by.  All of it is kept *)
(* for each sprint and group in the storage of the browser                 *)
(* (planningSelectionState.mjs, teamSelectionPersistence.mjs), once more   *)
(* for each group while the page is open, and brought together by five     *)
(* effects of dashboard.jsx that read and write each other's state.        *)
(*                                                                         *)
(* page is the React state, the refs and the storage between two turns of  *)
(* the event loop.  Effects run with the values of their render, c, after  *)
(* the render p before it, and change b; setting state renders again.      *)
(* SprintBoard has the loading of the board in detail; here it is one list *)
(* of stories for a scope, and what an aborted request leaves behind.      *)
(***************************************************************************)
EXTENDS Naturals, SequencesExt

CONSTANTS Sprints,
          Future,     \* sprints that have not started
          Groups,
          Teams, TeamsOf,
          Tasks, TeamOf,
          Accepted,   \* tasks that are accepted or in progress, the others wait
          Matching,   \* tasks the text of the search field matches
          FirstSprint, FirstGroup,
          None,
          MaxTurns,   \* bound on changes of sprint, group and page
          MaxClicks,  \* bound on clicks
          MaxLoads    \* bound on refreshes, and on moves of a task in Jira

ASSUME SelectionAssumption ==
    /\ Future \subseteq Sprints
    /\ TeamsOf \in [Groups -> SUBSET Teams]
    /\ TeamOf \in [Tasks -> Teams]
    /\ Accepted \subseteq Tasks /\ Matching \subseteq Tasks
    /\ FirstSprint \in Sprints /\ FirstGroup \in Groups
    /\ None \notin Sprints
    /\ \A ts \in SUBSET Teams : None # ts
    /\ \A mark \in [scope : Sprints \X Groups, teams : SUBSET Teams] : None # mark
    /\ MaxTurns \in Nat /\ MaxClicks \in Nat /\ MaxLoads \in Nat

VARIABLES page,
          sprintOf,   \* Jira: the sprint of each task
          turns, clicks, loads

vars == <<page, sprintOf, turns, clicks, loads>>

\* buildPlanningScopeKey and buildTeamSelectionScopeKey.
Scope(c) == <<c.sprint, c.group>>

\* isFutureSprintSelected: false until the list of sprints is there.
IsFuture(c) == c.listed /\ c.sprint \in Future

\* ['all'], which is the selection of no team in particular.
AllTeams == {}

\* selectionTasks: the loaded tasks the filters leave.
SelectionTasks(c) ==
    {t \in c.rows : /\ c.teams = AllTeams \/ TeamOf[t] \in c.teams
                    /\ c.search => t \in Matching}

\* buildTeamOptionsForScope: the teams of the group, whatever was loaded.
TeamOptions(group) == TeamsOf[group]

\* reconcileTeamSelectionState and sanitizeSelectedTeamsForScope: where no team
\* is left it is all of them.
TeamsInScope(teams, group) == teams \cap TeamOptions(group)

\* savePlanningSelection of the handlers, which set a new map of tasks as well.
SavePlan(b, scope, tasks, mode, teams) ==
    [b EXCEPT !.plans[scope] = [tasks |-> tasks, mode |-> mode, teams |-> teams],
              !.renewed = TRUE]

-----------------------------------------------------------------------------
(* What is kept for a group.                                               *)

Snapshot(c) ==
    [sprint |-> c.sprint, rows |-> c.rows, fetched |-> c.fetched,
     teams |-> c.teams, tasks |-> c.tasks, mode |-> c.mode,
     planning |-> c.planning, search |-> c.search]

\* buildDefaultGroupState.
DefaultState(c, b) ==
    LET plan == b.plans[Scope(c)]
        kept == b.teamPlans[Scope(c)]
    IN  [sprint |-> c.sprint, rows |-> {}, fetched |-> FALSE,
         teams |-> IF plan # None THEN plan.teams
                   ELSE IF kept # None THEN kept ELSE c.teams,
         tasks |-> IF plan # None THEN plan.tasks ELSE {},
         mode |-> IF plan # None THEN plan.mode
                  ELSE IF IsFuture(c) THEN "default_all" ELSE "manual",
         planning |-> c.planning, search |-> c.prefs.search]

\* applyGroupState.
Apply(b, s) ==
    [b EXCEPT !.rows = s.rows, !.touched = TRUE, !.fetched = s.fetched,
              !.teams = s.teams, !.tasks = s.tasks, !.mode = s.mode,
              !.undo = FALSE, !.planning = s.planning, !.search = s.search]

Fits(c, s) == s # None /\ s.sprint = c.sprint

ApplyDefault(c, b) ==
    LET s == DefaultState(c, b) IN Apply([b EXCEPT !.cache[c.group] = s], s)

-----------------------------------------------------------------------------
(* The effects, in their order in dashboard.jsx.                           *)

\* groupStateRef keeps what is shown.
SnapshotEffect(p, c, b) ==
    IF /\ <<c.group, Snapshot(c)>> # <<p.group, Snapshot(p)>>
       /\ b.groupShown = c.group
       /\ b.hydrated = Scope(c)
    THEN [b EXCEPT !.cache[c.group] = Snapshot(c)]
    ELSE b

GroupEffect(c, b) ==
    CASE b.groupShown = c.group -> b
      [] b.groupShown # c.group /\ Fits(c, b.cache[c.group]) ->
             [Apply(b, b.cache[c.group]) EXCEPT !.groupShown = c.group]
      [] OTHER -> [ApplyDefault(c, b) EXCEPT !.groupShown = c.group]

HydrationEffect(c, b) ==
    CASE b.hydrated = Scope(c) -> b
      [] b.hydrated # Scope(c) /\ Fits(c, b.cache[c.group]) ->
             [b EXCEPT !.hydrated = Scope(c)]
      [] OTHER -> [ApplyDefault(c, b) EXCEPT !.hydrated = Scope(c)]

\* With the scope of the render before.
IncludeEffectLate(p, c, b) ==
    IF <<c.planning, IsFuture(c)>> # <<p.planning, IsFuture(p)>> /\ c.planning /\ ~IsFuture(c)
    THEN LET tasks == b.tasks \cup (SelectionTasks(c) \cap Accepted)
         IN  [b EXCEPT !.tasks = tasks, !.mode = "manual",
                       !.late = [scope |-> Scope(p), tasks |-> tasks, teams |-> c.teams]]
    ELSE b

\* Opening Planning on a sprint that runs includes what is accepted.  The
\* updater saves, when the page is rendered again.
IncludeEffect(p, c, b) ==
    IF <<c.planning, IsFuture(c)>> # <<p.planning, IsFuture(p)>> /\ c.planning /\ ~IsFuture(c)
    THEN LET tasks == b.tasks \cup (SelectionTasks(c) \cap Accepted)
         IN  [b EXCEPT !.tasks = tasks, !.mode = "manual",
                       !.late = [scope |-> Scope(c), tasks |-> tasks, teams |-> c.teams]]
    ELSE b

SprintEffect(p, c, b) ==
    IF c.sprint # p.sprint
    THEN [b EXCEPT !.fetched = FALSE, !.rows = {}, !.touched = TRUE, !.lastLoaded = None]
    ELSE b

LoadEffect(p, c, b) ==
    LET s == b.cache[c.group]
        skips == Fits(c, s) /\ s.fetched /\ b.lastLoaded = c.sprint /\ s.rows # {}
    IN  IF Scope(c) # Scope(p) /\ ~skips
        THEN [b EXCEPT !.loading = TRUE, !.asked = Append(@, Scope(c))]
        ELSE b

\* What the browser stored for the scope, else what the preferences say.
TeamsToHydrateStored(c, b) ==
    LET kept == b.teamPlans[Scope(c)] IN IF kept # None THEN kept ELSE c.prefs.teams

\* resolveTeamSelectionHydrationState.
TeamsToHydrate(c, b) ==
    IF b.carried # None /\ b.carried.scope = Scope(c)
    THEN b.carried.teams
    ELSE TeamsToHydrateStored(c, b)

\* Runs again whenever lists arrive, because the options are built from them.
TeamHydrationEffect(p, c, b) ==
    LET next == TeamsInScope(TeamsToHydrate(c, b), c.group)
    IN  IF (c.touched \/ <<Scope(c), c.fetched>> # <<Scope(p), p.fetched>>) /\ c.fetched
        THEN [b EXCEPT !.teams = next, !.teamPlans[Scope(c)] = next,
                       !.teamsHydrated = Scope(c),
                       !.hydratedTeams = [scope |-> Scope(c), teams |-> next],
                       !.skipPersist = Scope(c),
                       !.carried = IF @ # None /\ @.scope = Scope(c) THEN None ELSE @]
        ELSE b

TeamPersistEffect(p, c, b) ==
    IF <<Scope(c), c.teams>> = <<Scope(p), p.teams>> \/ b.teamsHydrated # Scope(c)
    THEN b
    ELSE IF b.skipPersist = Scope(c)
         THEN [b EXCEPT !.skipPersist = None]
         ELSE [b EXCEPT !.teamPlans[Scope(c)] = c.teams]

\* resolvePlanningSelectionForDashboard.
Resolved(c) ==
    IF IsFuture(c) /\ c.mode = "default_all"
    THEN SelectionTasks(c)
    ELSE c.tasks \cap SelectionTasks(c)

Baseline(c, b) ==
    IF b.baseline # None /\ b.baseline.scope = Scope(c)
    THEN b
    ELSE [b EXCEPT !.baseline = [scope |-> Scope(c), tasks |-> Resolved(c), mode |-> c.mode],
                   !.undo = FALSE]

\* The updater leaves the queued selection when it is the same on these tasks.
Reconciled(c, b) ==
    LET next == Resolved(c)
        teams == TeamsInScope(c.teams, c.group)
    IN  [b EXCEPT !.tasks = IF @ \cap SelectionTasks(c) = next THEN @ ELSE next,
                  !.teams = teams, !.mode = c.mode,
                  !.plans[Scope(c)] = [tasks |-> next, mode |-> c.mode, teams |-> teams]]

Settling(c, b) ==
    /\ b.hydratedTeams # None
    /\ b.hydratedTeams.scope = Scope(c)
    /\ b.hydratedTeams.teams # c.teams

\* Without what the search leaves of the tasks.
WatchedUnfiltered(c) == <<Scope(c), IsFuture(c), c.fetched, c.loading, c.rows,
                          c.tasks, c.teams, c.mode>>

\* The dependencies of the effect.
Watched(c) == <<Scope(c), IsFuture(c), c.fetched, c.loading, c.rows, c.search,
                c.tasks, c.teams, c.mode>>

ReconcileEffect(p, c, b) ==
    IF /\ c.touched \/ c.renewed \/ Watched(c) # Watched(p)
       /\ c.fetched /\ ~c.loading
       /\ b.lastLoaded = c.sprint
       /\ ~Settling(c, b)
    THEN Baseline(c, Reconciled(c, [b EXCEPT !.hydratedTeams =
                     IF @ # None /\ @.scope = Scope(c) THEN None ELSE @]))
    ELSE b

SavedLate(b) ==
    IF b.late = None THEN b
    ELSE [SavePlan(b, b.late.scope, b.late.tasks, "manual", b.late.teams) EXCEPT !.late = None]

\* The effects of one render.
Flushed(p, c) ==
    LET start  == [c EXCEPT !.touched = FALSE, !.renewed = FALSE]
        shown  == IncludeEffect(p, c, HydrationEffect(c, GroupEffect(c,
                      SnapshotEffect(p, c, start))))
        loaded == LoadEffect(p, c, SprintEffect(p, c, shown))
        teams  == TeamPersistEffect(p, c, TeamHydrationEffect(p, c, loaded))
    IN  SavedLate(ReconcileEffect(p, c, teams))

\* Every render is followed by the next while it has changed anything, or its
\* objects are new.
Rendered(two) ==
    IF two.was = two.is /\ ~two.is.touched /\ ~two.is.renewed
    THEN two
    ELSE [was |-> two.is, is |-> Flushed(two.was, two.is)]

\* Renders until nothing is left to do, at most six times.
Settled(p, c) ==
    Rendered(Rendered(Rendered(Rendered(Rendered(Rendered([was |-> p, is |-> c])))))).is

-----------------------------------------------------------------------------
(* The page.                                                               *)

NoScope == [s \in Sprints \X Groups |-> None]

\* The state of the first render.  Nothing is selected but what the preferences
\* of the page say, and the storage has what it had.
FirstRender(sprint, group, planning, prefs, plans, teamPlans) ==
    [sprint |-> sprint, group |-> group, listed |-> FALSE,
     rows |-> {}, touched |-> FALSE, renewed |-> FALSE, fetched |-> FALSE, loading |-> FALSE,
     lastLoaded |-> None, asked |-> <<>>,
     teams |-> prefs.teams, tasks |-> {}, mode |-> "manual", undo |-> FALSE,
     planning |-> planning, search |-> prefs.search, prefs |-> prefs,
     groupShown |-> None, hydrated |-> None,
     teamsHydrated |-> None, hydratedTeams |-> None, carried |-> None,
     skipPersist |-> None, baseline |-> None, late |-> None,
     cache |-> [g \in Groups |-> None], plans |-> plans, teamPlans |-> teamPlans]

\* Every effect runs after the first render.
NothingRendered(c) == [c EXCEPT !.sprint = None, !.group = None, !.planning = FALSE]

Opened(c) == Settled(NothingRendered(c), c)

Init ==
    /\ page = Opened(FirstRender(FirstSprint, FirstGroup, FALSE,
                                [teams |-> AllTeams, search |-> FALSE], NoScope, NoScope))
    /\ sprintOf \in [Tasks -> Sprints]
    /\ turns = 0 /\ clicks = 0 /\ loads = 0

Turn == turns < MaxTurns /\ turns' = turns + 1 /\ UNCHANGED <<sprintOf, clicks, loads>>
Click == clicks < MaxClicks /\ clicks' = clicks + 1 /\ UNCHANGED <<sprintOf, turns, loads>>
Load == loads < MaxLoads /\ loads' = loads + 1 /\ UNCHANGED <<turns, clicks>>

Landed(b, scope, rows) ==
    [b EXCEPT !.rows = rows, !.touched = TRUE, !.fetched = TRUE, !.loading = FALSE,
              !.lastLoaded = scope[1]]

\* The option of the sprint menu.
ChosenSprint(s) ==
    [page EXCEPT !.sprint = s,
                 !.carried = [scope |-> <<s, page.group>>, teams |-> page.teams]]

\* Aborted requests answer with an empty list, one after the other.
Aborted(b, asked) == IF asked = <<>> THEN b ELSE Landed(b, Last(asked), {})

\* The requests of the sprint before are aborted.
SelectSprint(s) ==
    /\ Turn
    /\ s # page.sprint
    /\ LET c == ChosenSprint(s)
           b == Flushed(page, [c EXCEPT !.asked = <<>>])
       IN  page' = Settled(c, Aborted(b, page.asked))

SelectGroup(g) ==
    /\ Turn
    /\ g # page.group
    /\ page' = Settled(page, [page EXCEPT !.group = g])

Reload ==
    /\ Turn
    /\ page' = Opened(FirstRender(page.sprint, page.group, page.planning,
                                 [teams |-> page.teams, search |-> page.search],
                                 page.plans, page.teamPlans))

\* loadSprints.
SprintsListed ==
    /\ ~page.listed
    /\ page' = Settled(page, [page EXCEPT !.listed = TRUE])
    /\ UNCHANGED <<sprintOf, turns, clicks, loads>>

\* The button, or the list is read again after a change of status or priority.
Refresh ==
    /\ Load
    /\ ~page.loading
    /\ page' = Settled(page, [page EXCEPT !.loading = TRUE, !.asked = Append(@, Scope(page)),
                                         !.cache[page.group] = None])
    /\ UNCHANGED sprintOf

RowsInJira(scope) ==
    {t \in Tasks : sprintOf[t] = scope[1] /\ TeamOf[t] \in TeamsOf[scope[2]]}

Answer(i) ==
    LET scope == page.asked[i]
    IN  /\ page' = Settled(page, Landed([page EXCEPT !.asked = RemoveAt(@, i)],
                                       scope, RowsInJira(scope)))
        /\ UNCHANGED <<sprintOf, turns, clicks, loads>>

MoveTask(t, s) ==
    /\ Load
    /\ sprintOf' = [sprintOf EXCEPT ![t] = s]
    /\ sprintOf' # sprintOf
    /\ UNCHANGED page

-----------------------------------------------------------------------------
(* Clicks.                                                                 *)

TogglePlanning ==
    /\ Click
    /\ page' = Settled(page, [page EXCEPT !.planning = ~@])

Search ==
    /\ Click
    /\ page' = Settled(page, [page EXCEPT !.search = ~@])

\* toggleTeamSelection.
ToggleTeam(t) ==
    /\ Click
    /\ t \in TeamOptions(page.group)
    /\ page' = Settled(page, [page EXCEPT !.teams = SymDiff(@, {t})])

\* createPlanningSelectionHandlers: what each of them sets and saves.
Selected(tasks, mode) ==
    SavePlan([page EXCEPT !.tasks = tasks, !.mode = mode], Scope(page), tasks, mode, page.teams)

\* markPlanningBulkSelectionChanged.
Marked(b) ==
    IF b.baseline # None /\ b.baseline.scope = Scope(b) THEN [b EXCEPT !.undo = TRUE] ELSE b

PlanningClick(b) ==
    /\ Click
    /\ page.planning
    /\ page' = Settled(page, b)

ToggleTask(t) ==
    /\ t \in SelectionTasks(page)
    /\ PlanningClick(Selected(SymDiff(page.tasks, {t}), "manual"))

ClearSelected ==
    /\ page.tasks \cap SelectionTasks(page) # {}
    /\ PlanningClick(Marked(Selected({}, "manual")))

SelectAllVisible ==
    /\ SelectionTasks(page) # {}
    /\ PlanningClick(Marked(Selected(SelectionTasks(page),
                                    IF IsFuture(page) THEN "default_all" ELSE "manual")))

ToggleIncludeByStatus(status) ==
    LET matching == SelectionTasks(page) \cap status
        every == matching # {} /\ matching \subseteq page.tasks
    IN  /\ SelectionTasks(page) # {}
        /\ PlanningClick(Marked(Selected(
               IF every THEN page.tasks \ matching ELSE page.tasks \cup matching, "manual")))

\* Each Undo follows a click that it can take back.
Undo ==
    /\ page.planning /\ page.undo
    /\ LET base == page.baseline
       IN  IF base # None /\ base.scope = Scope(page)
           THEN page' = Settled(page, [Selected(base.tasks, base.mode) EXCEPT !.undo = FALSE])
           ELSE UNCHANGED page
    /\ UNCHANGED <<sprintOf, turns, clicks, loads>>

-----------------------------------------------------------------------------
Next ==
    \/ \E s \in Sprints : SelectSprint(s) \/ \E t \in Tasks : MoveTask(t, s)
    \/ \E g \in Groups : SelectGroup(g)
    \/ Reload
    \/ SprintsListed
    \/ Refresh
    \/ \E i \in DOMAIN page.asked : Answer(i)
    \/ TogglePlanning
    \/ Search
    \/ \E t \in Teams : ToggleTeam(t)
    \/ \E t \in Tasks : ToggleTask(t)
    \/ ClearSelected
    \/ SelectAllVisible
    \/ \E status \in {Accepted, Tasks \ Accepted} : ToggleIncludeByStatus(status)
    \/ Undo

Spec == Init /\ [][Next]_vars

-----------------------------------------------------------------------------
(* Properties.                                                             *)

Scopes == Sprints \X Groups
Modes == {"manual", "default_all"}
Plans == [tasks : SUBSET Tasks, mode : Modes, teams : SUBSET Teams]

\* Types of the selection and of what is stored and kept for each scope.
TypeOK ==
    /\ Scope(page) \in Scopes
    /\ page.tasks \subseteq Tasks /\ page.teams \subseteq Teams /\ page.mode \in Modes
    /\ page.rows \subseteq Tasks
    /\ page.plans \in [Scopes -> Plans \cup {None}]
    /\ page.teamPlans \in [Scopes -> (SUBSET Teams) \cup {None}]
    /\ \A i \in DOMAIN page.asked : page.asked[i] \in Scopes

Loaded(b) == b.fetched /\ ~b.loading /\ b.lastLoaded = b.sprint

\* The effects set each other's state but come to rest: rendering the page
\* again changes nothing.
Rests == ~page.touched /\ ~page.renewed /\ Flushed(page, page) = page

\* Once the board is loaded, what is stored for its scope is what it shows.
StoredIsShown ==
    Loaded(page) =>
        page.plans[Scope(page)] = [tasks |-> page.tasks \cap SelectionTasks(page),
                                   mode |-> page.mode, teams |-> page.teams]

\* While all is the default of a sprint of the future, every story on the board
\* is selected, those that came later too; only teams of the group filter it.
AllByDefault ==
    Loaded(page) =>
        /\ IsFuture(page) /\ page.mode = "default_all" => SelectionTasks(page) \subseteq page.tasks
        /\ page.teams \subseteq TeamsOf[page.group]

\* Undo is offered only where it has a selection of this scope to go back to.
UndoReaches == page.undo => page.baseline # None /\ page.baseline.scope = Scope(page)

\* What is stored, what is shown and what Undo goes back to are one selection,
\* of one scope, and no render changes it by itself.
SelectionConsistent == TypeOK /\ Rests /\ StoredIsShown /\ AllByDefault /\ UndoReaches

\* What is stored for a scope changes only while that scope is shown.
OtherScopesKept ==
    [][\A s \in Scopes : s # Scope(page)' =>
           page'.plans[s] = page.plans[s] /\ page'.teamPlans[s] = page.teamPlans[s]]_vars

\* The teams the board is filtered by go along to another sprint.
SprintKeepsTeams ==
    [][page'.sprint # page.sprint /\ page.fetched => page'.teams = page.teams]_vars
=============================================================================
