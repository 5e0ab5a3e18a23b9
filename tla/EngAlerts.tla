------------------------------ MODULE EngAlerts ------------------------------
(***************************************************************************)
(* The alerts of the board (dashboard.jsx, EngAlertsPanel.jsx): ten cards  *)
(* computed from what was loaded for the selected sprint, the teams chosen,*)
(* the search and what the user has dismissed.  Epics of a future sprint   *)
(* go through a chain of planning cards, each of which takes what the      *)
(* earlier ones have left.                                                 *)
(*                                                                         *)
(* What Jira holds and what the page has loaded of it are different things *)
(* here: rows are patched when a field is changed on the page, while the   *)
(* numbers the server counted for an epic, and its list of incomplete      *)
(* stories, are those of the last load.  SprintBoard has the order of the  *)
(* requests of a load; here one step brings all lists.  Names of sprints   *)
(* do not contain one another, and there is one roadmap project.           *)
(***************************************************************************)
EXTENDS Integers, FiniteSetsExt, Functions

CONSTANTS Epics, Stories, None,
          GroupTeams,    \* teams of the group
          LabelledTeams, \* those with a label for planning
          EpicKinds,     \* status, team, labels (of teams), marked (labels of sprints), sprint
          StoryKinds,    \* status, team, points, epic, sprint
          Statuses,      \* a status menu offers
          MaxActs, MaxLosses

VARIABLE page

Active == 1
Future == 2

Cards == {"missing", "blocked", "followup", "backlog", "missingTeam", "missingLabels",
          "needsStories", "waiting", "empty", "done"}

Terminal == {"done", "killed", "incomplete"}

-----------------------------------------------------------------------------
(* What the server tells of a sprint.                                      *)

Children(p, e) == {k \in Stories : p.stories[k].epic = e}

\* is_actionable_selected_status
Actionable(r) == r.status \notin Terminal \union {"blocked"}

\* epicMatchesSelectedSprint, issueMatchesSelectedSprint: by the sprint field,
\* or for an epic by a label.
IssueMatches(r, sprint) == sprint # None /\ r.sprint = sprint
EpicMatches(r, sprint) == sprint # None /\ (r.sprint = sprint \/ sprint \in r.marked)

\* fetch_story_counts_for_epics, fetch_story_distribution_for_epics: a query
\* that fails counts nothing.
Counted(p, e, sprint, lost) ==
    LET known == IF lost THEN {} ELSE Children(p, e)
        chosen == {k \in known : p.stories[k].sprint = sprint}
        acting == {k \in chosen : Actionable(p.stories[k])}
        open == {k \in known : p.stories[k].status \notin Terminal}
    IN [total |-> Cardinality(known), selected |-> Cardinality(chosen),
        acting |-> Cardinality(acting),
        byTeam |-> [t \in GroupTeams |-> Cardinality({k \in acting : p.stories[k].team = t})],
        future |-> Cardinality({k \in open : p.stories[k].sprint = Future}),
        outside |-> Cardinality(open \ chosen), open |-> Cardinality(open)]

\* filterTasksForTeamSet
OfGroup(r) == r.team \in GroupTeams

\* get_missing_info: of stories of epics that are in the sprint and not closed.
MissingFields(r) ==
    (IF r.sprint = None THEN {"sprint"} ELSE {}) \union (IF r.points THEN {} ELSE {"points"})
    \union (IF r.team = None THEN {"team"} ELSE {})

Incomplete(p, sprint) ==
    LET epics == {e \in Epics : p.epics[e].sprint = sprint /\ p.epics[e].status \notin Terminal}
    IN {k \in Stories : p.stories[k].epic \in epics /\ p.stories[k].status # "postponed"
                        /\ MissingFields(p.stories[k]) # {}}

\* fetch_epics_for_empty_alert with filterEpicsInScopeForTeamSet
InScope(r, sprint) ==
    EpicMatches(r, sprint) /\ (r.team \in GroupTeams \union {None} \/ r.labels # {})

\* The lists a load brings.  The backlog comes without labels.
Loaded(p, sprint, lost) ==
    LET mine(k) == p.stories[k].sprint = sprint /\ OfGroup(p.stories[k])
        tasks == {k \in Stories : mine(k)}
        parents == {p.stories[k].epic : k \in tasks} \ {None}
        scope == {e \in Epics : InScope(p.epics[e], sprint)}
        backlog == {e \in Epics : sprint = Future /\ p.epics[e].sprint = None
                                  /\ p.epics[e].team \in GroupTeams}
    IN [sprint |-> sprint,
        tasks |-> [k \in tasks |-> p.stories[k]],
        incomplete |-> [k \in Incomplete(p, sprint) |-> p.stories[k]],
        scope |-> [e \in scope |-> p.epics[e]],
        counts |-> [e \in scope |-> Counted(p, e, sprint, lost)],
        ready |-> [e \in parents |-> p.epics[e]],
        openChildren |-> [e \in parents |-> Counted(p, e, None, lost).open],
        children |-> [k \in {c \in Stories : p.stories[c].epic \in parents
                                             /\ OfGroup(p.stories[c])} |-> p.stories[k]],
        backlog |-> [e \in backlog |-> [p.epics[e] EXCEPT !.labels = {}, !.marked = {}]],
        complete |-> ~lost, fresh |-> TRUE]

\* Rows of two lists, those of the first where both have one.
Over(f, g) == [k \in DOMAIN f \union DOMAIN g |-> IF k \in DOMAIN f THEN f[k] ELSE g[k]]

-----------------------------------------------------------------------------
(* Who sees what.                                                          *)

AllTeams(p) == p.teams = {}
IsFuture(p) == p.data.sprint = Future

\* A story by its team; an epic that has none is shown to all.
StoryOfTeams(p, r) == AllTeams(p) \/ r.team \in p.teams
EpicOfTeams(p, r) == AllTeams(p) \/ r.team = None \/ r.team \in p.teams

\* getMatchedPlanningTeamIds
MatchedTeams(r) == r.labels \intersect LabelledTeams

\* epicMatchesFuturePlanningTeamSelection
PlannedByTeams(p, r) == AllTeams(p) \/ ({r.team} \union MatchedTeams(r)) \intersect p.teams # {}

\* getFuturePlanningEpicTeamInfos
PlanningTeams(p, r) ==
    LET seen == IF Cardinality(p.teams) > 1 THEN MatchedTeams(r) \intersect p.teams
                ELSE MatchedTeams(r)
    IN CASE Cardinality(p.teams) = 1 -> p.teams
         [] Cardinality(p.teams) # 1 /\ seen # {} -> seen
         [] OTHER -> {r.team}

\* getFuturePlanningExpectedTeamLabel: the team whose label is expected.
ExpectedLabels(p, r) ==
    CASE Cardinality(p.teams) = 1 -> p.teams \intersect LabelledTeams
      [] Cardinality(p.teams) # 1 /\ r.team \in LabelledTeams -> {r.team}
      [] OTHER -> MatchedTeams(r)

\* visibleTasks: killed stories are hidden.
Visible(p) ==
    {k \in DOMAIN p.data.tasks : /\ k \in p.found /\ StoryOfTeams(p, p.data.tasks[k])
                                 /\ p.data.tasks[k].status # "killed"}

-----------------------------------------------------------------------------
(* What is on the cards.                                                   *)

Settled(r) == r.status \in {"killed", "done", "postponed"}

\* consolidatedMissingStories: what the server found in the sprint, and what
\* is seen on the page.
MissingStories(p) ==
    LET told == {k \in DOMAIN p.data.incomplete :
                    LET r == p.data.incomplete[k]
                    IN ~Settled(r) /\ (r.team = None \/ StoryOfTeams(p, r))
                       /\ IssueMatches(r, p.data.sprint)}
        seen == {k \in Visible(p) :
                    LET r == p.data.tasks[k]
                    IN ~Settled(r) /\ (~r.points \/ r.epic = None)}
    IN (told \union seen) \ p.dismissed

BlockedTasks(p) ==
    {k \in Visible(p) \ p.dismissed : p.data.tasks[k].status = "blocked"}

PostponedTasks(p) ==
    {k \in DOMAIN p.data.tasks \ p.dismissed :
        p.data.tasks[k].status = "postponed" /\ StoryOfTeams(p, p.data.tasks[k])}

\* emptyEpics, futureRoutedEpics
EmptyEpics(p) ==
    {e \in DOMAIN p.data.scope \ p.dismissed :
        /\ p.data.scope[e].status \notin Terminal \union {"progress"}
        /\ EpicOfTeams(p, p.data.scope[e])
        /\ p.data.counts[e].total = 0}
FutureRouted(p) ==
    {e \in EmptyEpics(p) : p.data.counts[e].selected = 0 /\ p.data.counts[e].future > 0}

\* planningCandidateEpics
Candidates(p) ==
    {e \in DOMAIN p.data.scope \ p.dismissed :
        p.data.scope[e].status \notin Terminal /\ PlannedByTeams(p, p.data.scope[e])}

\* filterExplicitBacklogEpics
ExplicitBacklog(p, r) == ~EpicMatches(r, p.data.sprint) /\ r.sprint = None

\* backlogEpics: the server's, and candidates without a sprint.
BacklogEpics(p) ==
    LET remote == {e \in DOMAIN p.data.backlog \ p.dismissed :
                      LET r == p.data.backlog[e]
                      IN ExplicitBacklog(p, r) /\ PlannedByTeams(p, r) /\ r.status \notin Terminal}
    IN IF IsFuture(p)
         THEN remote \union {e \in Candidates(p) : ExplicitBacklog(p, p.data.scope[e])}
         ELSE {}

MissingTeamEpics(p) ==
    IF IsFuture(p) THEN {e \in Candidates(p) \ BacklogEpics(p) : p.data.scope[e].team = None}
    ELSE {}

HasLabel(p, r) == ExpectedLabels(p, r) \intersect r.labels # {}

\* The next card in the chain, without looking at the ones before.
MissingLabelEpicsUnchained(p) ==
    IF IsFuture(p)
      THEN {e \in Candidates(p) : EpicMatches(p.data.scope[e], p.data.sprint)
                                  /\ ~HasLabel(p, p.data.scope[e])}
      ELSE {}

MissingLabelEpics(p) ==
    IF IsFuture(p)
      THEN {e \in Candidates(p) \ (BacklogEpics(p) \union MissingTeamEpics(p)) :
               EpicMatches(p.data.scope[e], p.data.sprint) /\ ~HasLabel(p, p.data.scope[e])}
      ELSE {}

\* storiesByEpicKey
StoriesOf(p, e) ==
    {k \in DOMAIN p.data.tasks : p.data.tasks[k].epic = e /\ StoryOfTeams(p, p.data.tasks[k])}

\* classifyFuturePlanningNeedsStories
EpicReason(p, e) ==
    LET n == p.data.counts[e]
        stories == StoriesOf(p, e)
        open == {k \in stories : p.data.tasks[k].status \notin Terminal}
    IN CASE n.acting > 0 -> "ready"
         [] n.acting = 0 /\ n.outside > 0 -> "elsewhere"
         [] n.acting = 0 /\ n.outside = 0 /\ n.total > 0 /\ stories = {} -> "closed"
         [] n.acting = 0 /\ n.outside = 0 /\ n.total = 0 /\ stories = {} -> "none"
         [] n.acting = 0 /\ n.outside = 0 /\ stories # {} /\ open = {} -> "closed"
         [] OTHER -> IF \E k \in open : IssueMatches(p.data.tasks[k], p.data.sprint)
                       THEN "ready" ELSE "elsewhere"

\* classifyFuturePlanningTeamNeedsStories
TeamReason(p, e, t) ==
    LET n == p.data.counts[e]
    IN CASE t \in GroupTeams /\ n.byTeam[t] > 0 -> "ready"
         [] n.acting > 0 /\ ~(t \in GroupTeams /\ n.byTeam[t] > 0) -> "team"
         [] OTHER -> EpicReason(p, e)

\* needsStoriesEntries, buildNeedsStoriesTeamEntries: pairs of epic and team.
NeedsStories(p) ==
    LET earlier == BacklogEpics(p) \union MissingTeamEpics(p) \union MissingLabelEpics(p)
        labelled == {e \in Candidates(p) \ earlier :
                        EpicMatches(p.data.scope[e], p.data.sprint)
                        /\ HasLabel(p, p.data.scope[e])}
    IN IF ~IsFuture(p) THEN {}
       ELSE UNION {{<<e, t>> : t \in {u \in PlanningTeams(p, p.data.scope[e]) :
                                         TeamReason(p, e, u) # "ready"}} : e \in labelled}
NeedsStoriesEpics(p) == {n[1] : n \in NeedsStories(p)}

\* analysisWaitingEpics.  The stories stand where the selected sprint is asked
\* for, so that no sprint is compared with.
AnalysisWaiting(p) ==
    LET all == Over(p.data.ready, p.data.scope)
        stories(e) == {k \in DOMAIN p.data.children :
                          p.data.children[k].epic = e /\ StoryOfTeams(p, p.data.children[k])}
    IN {e \in DOMAIN all \ p.dismissed :
           /\ all[e].status \notin Terminal \union {"progress", "accepted"}
           /\ EpicOfTeams(p, all[e]) /\ EpicMatches(all[e], None)
           /\ stories(e) # {} /\ \A k \in stories(e) : p.data.children[k].status \in Terminal}

\* waitingForStoriesEpics with postponedEmptyEpics
WaitingEpics(p) ==
    LET postponed == {e \in EmptyEpics(p) : /\ p.data.scope[e].status = "postponed" /\ IsFuture(p)
                                            /\ EpicMatches(p.data.scope[e], p.data.sprint)}
    IN IF IsFuture(p) THEN {} ELSE AnalysisWaiting(p) \union postponed

\* emptyEpicsForAlert with epicsWithActionableStoriesInSelectedSprint
EmptyForAlert(p) ==
    LET busy == {p.data.tasks[k].epic : k \in {j \in Visible(p) : Actionable(p.data.tasks[j])}}
    IN IF IsFuture(p) THEN {}
       ELSE {e \in EmptyEpics(p) \ (busy \union FutureRouted(p)) : p.data.counts[e].acting = 0}

\* doneStoryEpics
DoneEpics(p) ==
    {e \in DOMAIN p.data.ready \ p.dismissed :
        /\ p.data.ready[e].status \in {"progress", "accepted"}
        /\ EpicOfTeams(p, p.data.ready[e])
        /\ StoriesOf(p, e) # {}
        /\ \/ EpicMatches(p.data.ready[e], p.data.sprint)
           \/ \E k \in StoriesOf(p, e) : IssueMatches(p.data.tasks[k], p.data.sprint)
        /\ p.data.openChildren[e] = 0}

-----------------------------------------------------------------------------
(* The cards: their items with the teams under which each is listed        *)
(* (groupAlertsByTeam), and the issues the chip in the header opens.       *)

ByTeam(rows, items) == [k \in items |-> {rows[k].team}]
ByPlanning(p, rows, items) == [e \in items |-> PlanningTeams(p, rows[e])]

MissingCard(p) ==
    LET items == MissingStories(p)
    IN [teams |-> ByTeam(Over(p.data.incomplete, p.data.tasks), items), chip |-> items]

BlockedCard(p) ==
    LET items == BlockedTasks(p) IN [teams |-> ByTeam(p.data.tasks, items), chip |-> items]

\* Two sections; the header has no link.
FollowupCard(p) ==
    [teams |-> Over(ByTeam(p.data.tasks, PostponedTasks(p)), ByTeam(p.data.scope, FutureRouted(p))),
     chip |-> {}]

BacklogCard(p) ==
    LET items == BacklogEpics(p)
    IN [teams |-> ByPlanning(p, Over(p.data.backlog, p.data.scope), items), chip |-> items]

MissingTeamCard(p) == [teams |-> ByTeam(p.data.scope, MissingTeamEpics(p)), chip |-> {}]

MissingLabelsCard(p) ==
    [teams |-> ByPlanning(p, p.data.scope, MissingLabelEpics(p)), chip |-> {}]

NeedsStoriesCard(p) ==
    [teams |-> [e \in NeedsStoriesEpics(p) |-> {n[2] : n \in {m \in NeedsStories(p) : m[1] = e}}],
     chip |-> {}]

WaitingCard(p) ==
    LET items == WaitingEpics(p)
    IN [teams |-> ByTeam(Over(p.data.ready, p.data.scope), items), chip |-> items]

\* The header opens all epics without stories.
EmptyCard(p) == [teams |-> ByTeam(p.data.scope, EmptyForAlert(p)), chip |-> EmptyEpics(p)]

DoneCard(p) ==
    LET items == DoneEpics(p) IN [teams |-> ByTeam(p.data.ready, items), chip |-> items]

Card(p, c) ==
    CASE c = "missing" -> MissingCard(p) [] c = "blocked" -> BlockedCard(p)
      [] c = "followup" -> FollowupCard(p) [] c = "backlog" -> BacklogCard(p)
      [] c = "missingTeam" -> MissingTeamCard(p) [] c = "missingLabels" -> MissingLabelsCard(p)
      [] c = "needsStories" -> NeedsStoriesCard(p) [] c = "waiting" -> WaitingCard(p)
      [] c = "empty" -> EmptyCard(p) [] OTHER -> DoneCard(p)

Items(p, c) == DOMAIN Card(p, c).teams

\* alertSummaryItems, alertItemCount: an issue on two cards counts twice.
Summary(p) == {c \in Cards : Items(p, c) # {}}
AlertItemCount(p) == SumFunction([c \in Cards |-> Cardinality(Items(p, c))])

\* What is on the page and not folded away.
OnView(p, c) == p.panel /\ c \in Summary(p) /\ c \notin p.folded

-----------------------------------------------------------------------------
(* Actions.                                                                *)

Init ==
    \E epics \in [Epics -> EpicKinds], stories \in [Stories -> StoryKinds] :
       LET p == [epics |-> epics, stories |-> stories]
       IN page = [epics |-> epics, stories |-> stories, data |-> Loaded(p, Active, FALSE),
                  teams |-> {}, found |-> Stories, dismissed |-> {},
                  panel |-> TRUE, folded |-> {},
                  party |-> {}, \* cards celebrated
                  acts |-> MaxActs, losses |-> MaxLosses]

Act == page.acts > 0

\* Another sprint is selected, or the same one loaded again.
Load(sprint, lost) ==
    /\ Act
    /\ lost => page.losses > 0
    /\ page' = [page EXCEPT !.data = Loaded(page, sprint, lost), !.acts = @ - 1,
                            !.party = IF sprint = page.data.sprint THEN @ ELSE {},
                            !.losses = IF lost THEN @ - 1 ELSE @]

\* toggleTeamSelection: the last team taken away leaves all.
ToggleTeam(t) ==
    /\ Act
    /\ page' = [page EXCEPT !.teams = SymDiff(@, {t}), !.party = {}, !.acts = @ - 1]

\* A search is what it finds.
Search(found) ==
    /\ Act
    /\ found # page.found
    /\ page' = [page EXCEPT !.found = found, !.acts = @ - 1]

\* applyLocalIssueFieldUpdate
Patched(rows, k, status) ==
    IF k \in DOMAIN rows THEN [rows EXCEPT ![k].status = status] ELSE rows

\* A status changed from the page: in Jira and in the rows, but not in what
\* the server has counted or found.
PatchStory(k, status) ==
    /\ Act
    /\ k \in Visible(page) /\ page.data.tasks[k].status # status
    /\ page' = [page EXCEPT !.stories[k].status = status, !.acts = @ - 1,
                            !.data.tasks = Patched(@, k, status),
                            !.data.children = Patched(@, k, status), !.data.fresh = FALSE]

PatchEpic(e, status) ==
    /\ Act
    /\ e \in DOMAIN page.data.scope /\ page.data.scope[e].status # status
    /\ page' = [page EXCEPT !.epics[e].status = status, !.acts = @ - 1,
                            !.data.scope = Patched(@, e, status),
                            !.data.ready = Patched(@, e, status), !.data.fresh = FALSE]

\* The sets of keys dismissAlertItem looks at, with the cards it celebrates.
Celebrated(p, k) ==
    LET as(c) == IF c = "needsStories" THEN "waiting" ELSE c
    IN {as(c) : c \in {d \in Cards \ {"backlog", "missingTeam", "missingLabels"} :
                          Items(p, d) = {k}}}

\* The keys are only hidden in this group, and for as long as the page is open.
Dismiss(k) ==
    /\ Act
    /\ \E c \in Cards : OnView(page, c) /\ k \in Items(page, c)
    /\ page' = [page EXCEPT !.dismissed = @ \union {k}, !.acts = @ - 1,
                            !.party = IF Celebrated(page, k) = {} THEN @ ELSE Celebrated(page, k)]

\* The end of a celebration
PartyOver ==
    /\ page.party # {}
    /\ page' = [page EXCEPT !.party = {}]

TogglePanel ==
    /\ Act
    /\ AlertItemCount(page) > 0
    /\ page' = [page EXCEPT !.panel = ~@, !.acts = @ - 1]

ToggleCard(c) ==
    /\ Act
    /\ page.panel /\ c \in Summary(page)
    /\ page' = [page EXCEPT !.folded = SymDiff(@, {c}), !.acts = @ - 1]

\* handleAlertSummaryClick
OpenCard(c) ==
    /\ Act
    /\ c \in Summary(page)
    /\ page' = [page EXCEPT !.panel = TRUE, !.folded = @ \ {c}, !.acts = @ - 1]

Next ==
    \/ \E s \in {Active, Future}, lost \in BOOLEAN : Load(s, lost)
    \/ \E t \in GroupTeams : ToggleTeam(t)
    \/ \E found \in SUBSET Stories : Search(found)
    \/ \E k \in Stories, v \in Statuses : PatchStory(k, v)
    \/ \E e \in Epics, v \in Statuses : PatchEpic(e, v)
    \/ \E k \in Stories \union Epics : Dismiss(k)
    \/ \E c \in Cards : ToggleCard(c) \/ OpenCard(c)
    \/ TogglePanel \/ PartyOver

Spec == Init /\ [][Next]_page
-----------------------------------------------------------------------------
\* Only teams of the group keep a label (normalize_group_team_labels).
AlertsAssumption ==
    /\ IsFiniteSet(Stories) /\ IsFiniteSet(GroupTeams) /\ LabelledTeams \subseteq GroupTeams
    /\ MaxActs \in Nat /\ MaxLosses \in Nat

TypeOK ==
    /\ DOMAIN page.epics = Epics /\ DOMAIN page.stories = Stories
    /\ page.data.sprint \in {Active, Future}
    /\ page.teams \subseteq GroupTeams /\ page.found \subseteq Stories
    /\ page.dismissed \subseteq Epics \union Stories
    /\ page.folded \union page.party \subseteq Cards
    /\ page.acts \in 0 .. MaxActs /\ page.losses \in 0 .. MaxLosses

Planning == {"backlog", "missingTeam", "missingLabels", "needsStories"}

\* What is counted can be reached: under a team, and by the header's link.
EverythingListed ==
    \A c \in Cards :
        /\ \A i \in Items(page, c) : Card(page, c).teams[i] # {} /\ i \notin page.dismissed
        /\ Card(page, c).chip # {} => Items(page, c) \subseteq Card(page, c).chip

\* An epic is on one of the planning cards at most.
OnePlanningCard ==
    \A c, d \in Planning : c # d => Items(page, c) \intersect Items(page, d) = {}

OpenIn(e, sprint) ==
    {k \in Children(page, e) : /\ page.stories[k].status \notin Terminal
                               /\ page.stories[k].sprint = sprint}

\* An epic planned for the future sprint is on a card until every team it is
\* planned with has a story in that sprint, or one has that is blocked; and a
\* team that is asked for stories has none there.
PlanningComplete ==
    page.data.fresh /\ page.data.complete /\ IsFuture(page) =>
        /\ \A e \in Candidates(page) \ UNION {Items(page, c) : c \in Planning} :
               \A t \in PlanningTeams(page, page.data.scope[e]) :
                   \E k \in OpenIn(e, Future) :
                       page.stories[k].team = t \/ page.stories[k].status = "blocked"
        /\ \A n \in NeedsStories(page) :
               \A k \in OpenIn(n[1], Future) :
                   page.stories[k].team = n[2] => page.stories[k].status = "blocked"

\* Epics to close have no open story in any sprint, also not one of another
\* team, and epics said to be empty have no story at all.
HygieneIsTrue ==
    page.data.fresh /\ page.data.complete =>
        /\ \A e \in DoneEpics(page) : \A k \in Children(page, e) : page.stories[k].status \in Terminal
        /\ \A e \in EmptyForAlert(page) : Children(page, e) = {}

\* Postponed stories are not asked to be completed or unblocked.
PostponedApart ==
    page.data.fresh =>
        PostponedTasks(page) \intersect (MissingStories(page) \union BlockedTasks(page)) = {}

(* Over loads, searches, choices of teams, changes of status and alerts       *)
(* dismissed, the cards say what is the case: each alert can be reached and   *)
(* none that was dismissed comes back, an epic is routed to one planning card *)
(* and leaves the chain only when its teams are ready, and what the cards     *)
(* of the current sprint say of an epic is true of all of its stories in Jira,*)
(* as long as the numbers they rest on were read.                             *)
AlertsSound ==
    /\ EverythingListed /\ OnePlanningCard /\ PlanningComplete
    /\ HygieneIsTrue /\ PostponedApart
=============================================================================
