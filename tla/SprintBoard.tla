----------------------------- MODULE SprintBoard -----------------------------
(***************************************************************************)
(* Loading the ENG board: useEngSprintData.js and the effects, caches and  *)
(* refs of dashboard.jsx around it.  A sprint and a group of teams select  *)
(* a scope; two lists of tasks are loaded for it, then the lists behind    *)
(* the "ready to close" alert, and for a future sprint the backlog.  What  *)
(* a group showed is kept and restored when the user comes back to it.     *)
(*                                                                         *)
(* page is the React state and the refs between two turns of the event     *)
(* loop; an operator on a page is what an effect or the end of a request   *)
(* does to it.  Where code runs with the values of the render it was       *)
(* created in, the operator takes that render, c, as well.                 *)
(***************************************************************************)
EXTENDS Naturals, SequencesExt

CONSTANTS Sprints,
          Future,      \* sprints that have not started
          Groups,
          Teamless,    \* groups without teams
          PageSprint,  \* the sprint chosen when the page was opened
          FirstGroup,
          None,
          MaxTurns,    \* bound on changes of sprint, group and view
          MaxEvents,   \* bound on refreshes, saves, batches, stale sessions
          MaxAsked     \* bound on requests under way

ASSUME BoardAssumption ==
    /\ Future \subseteq Sprints
    /\ Teamless \subseteq Groups
    /\ PageSprint \in Sprints
    /\ FirstGroup \in Groups
    /\ None \notin Sprints
    /\ None \notin [sprint : Sprints, group : Groups, teams : 0..MaxEvents]
    /\ MaxTurns \in Nat /\ MaxEvents \in Nat

VARIABLES page,
          batch,        \* the scope in which a Planning batch was submitted
          sprintsAsked, \* loadSprints of a refresh is under way
          saving,       \* settings are stored, /api/config is read again
          strayed,      \* history: the group or its teams changed while lists
                        \* were under way, or one came for another scope
          turns, events

vars == <<page, batch, sprintsAsked, saving, strayed, turns, events>>

Projects == {"product", "tech"}

Scope(b) == [sprint |-> b.sprint, group |-> b.group, teams |-> b.teams[b.group]]

-----------------------------------------------------------------------------
(* Lists: "rows" came from Jira, "none" is an empty or failed answer,      *)
(* "dropped" the empty list an aborted request answers with.               *)

Blank == [scope |-> None, as |-> "blank", how |-> "prompt"]

BlankLists == [p \in Projects |-> Blank]

\* how (history): whether the scope was still selected when the answer came,
\* and, if not, who had asked.
List(b, r, as) ==
    [scope |-> r.scope, as |-> as,
     how |-> IF r.scope = Scope(b) THEN "prompt" ELSE r.by]

NothingMarked(sprint) == [sprint |-> sprint, done |-> {}]

\* sprintLoadRef and lastLoadedSprintRef when a list of a sprint is there.
Marked(b, p, sprint) ==
    LET kept == IF b.mark.sprint = sprint THEN b.mark.done ELSE {}
    IN  [b EXCEPT !.mark = [sprint |-> sprint, done |-> kept \cup {p}],
                  !.lastLoaded = IF kept \cup {p} = Projects THEN sprint ELSE @]

\* loadProductTasks, loadTechTasks and the loaders of the ready-to-close lists
\* after fetchTasks.  The two ready-to-close lists are loaded alike, with one
\* request standing for both.
Landed(b, r, as) ==
    IF r.list = "preload"
    THEN [b EXCEPT !.preload = List(b, r, as)]
    ELSE Marked([b EXCEPT !.rows[r.list] = List(b, r, as),
                          !.fetched = TRUE,
                          !.loading[r.list] = FALSE], r.list, r.scope.sprint)

\* Without its finally.
FinishedBusy(b, r, as) == Landed(b, r, as)

\* The end of fetchTasks: only task lists switch the page to loading.
Finished(b, r, as) ==
    Landed([b EXCEPT !.busy = @ /\ r.list = "preload"], r, as)

Request(list, scope, by) ==
    [list |-> list, scope |-> scope, by |-> by,
     at |-> "jira", again |-> FALSE, aborted |-> FALSE]

LoadTasks(b, p, scope, by) ==
    IF scope.group \in Teamless
    THEN Landed(b, Request(p, scope, by), "empty")
    ELSE [b EXCEPT !.loading[p] = TRUE, !.busy = TRUE,
                   !.asked = Append(@, Request(p, scope, by))]

LoadBoth(b, scope, by) ==
    LoadTasks(LoadTasks(b, "product", scope, by), "tech", scope, by)

HasRows(rows) == \E p \in Projects : rows[p].as = "rows"

\* The epics are those of the lists of the render the loader belongs to.
LoadPreload(b, scope, withEpics, by) ==
    IF scope.group \in Teamless \/ ~withEpics
    THEN Landed(b, Request("preload", scope, by), "empty")
    ELSE [b EXCEPT !.asked = Append(@, Request("preload", scope, by))]

\* Without it.
AbortedNot(b) == b

\* abortSprintFetches.  A request at Jira answers as soon as the effects are
\* through; one that waits for the session to be refreshed, not before that.
Aborted(b) ==
    [b EXCEPT !.asked = [i \in DOMAIN @ |-> [@[i] EXCEPT !.aborted = TRUE]]]

Aborting(r) == r.aborted /\ r.at = "jira"

\* What becomes of one of them.
Dropped(b, r) ==
    IF Aborting(r) THEN Finished(b, r, "dropped") ELSE [b EXCEPT !.asked = Append(@, r)]

LandAborted(b) ==
    LET land[n \in 0..Len(b.asked)] ==
            IF n = 0 THEN [b EXCEPT !.asked = <<>>] ELSE Dropped(land[n - 1], b.asked[n])
    IN  land[Len(b.asked)]

-----------------------------------------------------------------------------
(* What is kept for each group.                                            *)

Snapshot(b) ==
    [sprint |-> b.sprint, teams |-> b.teams[b.group], rows |-> b.rows,
     fetched |-> b.fetched, preload |-> b.preload, statsOnly |-> b.statsOnly]

\* buildDefaultGroupState keeps the view.
DefaultState(b) ==
    [Snapshot(b) EXCEPT !.rows = BlankLists, !.fetched = FALSE, !.preload = Blank]

\* applyGroupState.
Apply(b, s) ==
    [b EXCEPT !.rows = s.rows, !.fetched = s.fetched, !.preload = s.preload,
              !.statsOnly = s.statsOnly, !.busy = FALSE]

\* The effect on groupStateSnapshot.
Remember(b) == [b EXCEPT !.cache[b.group] = Snapshot(b)]

Fits(b, s) == s # None /\ s.sprint = b.sprint /\ s.teams = b.teams[b.group]

\* The effects that show the group, from what is kept or empty.
ShowGroup(b) ==
    LET s == IF Fits(b, b.cache[b.group]) THEN b.cache[b.group] ELSE DefaultState(b)
    IN  [Apply(b, s) EXCEPT !.cache[b.group] = s]

-----------------------------------------------------------------------------
(* Effects, in their order in dashboard.jsx.                               *)

\* shouldSkipLoad.
Skips(c, b) ==
    LET s == b.cache[c.group]
    IN  /\ Fits(c, s)
        /\ s.fetched
        /\ b.lastLoaded = c.sprint
        /\ HasRows(s.rows)

LoadEffect(c, b, force) ==
    IF ~c.epm /\ ~c.statsOnly /\ (force \/ ~Skips(c, b))
    THEN LoadBoth(b, Scope(c), "page")
    ELSE b

PreloadEffect(c, b) ==
    IF /\ ~c.epm
       /\ b.lastLoaded = c.sprint
       /\ c.fetched
       /\ \A p \in Projects : ~c.loading[p]
       /\ b.preloadOf # Scope(c)
    THEN LoadPreload([b EXCEPT !.preloadOf = Scope(c)], Scope(c), HasRows(c.rows), "page")
    ELSE b

\* Its clean-up cancels the loading of the render before.
BacklogEffect(c, b) ==
    CASE c.epm -> [b EXCEPT !.backlogAsked = None]
      [] ~c.epm /\ (c.sprint \notin Future \/ c.group \in Teamless) ->
             [b EXCEPT !.backlogAsked = None, !.backlog = None]
      [] OTHER -> [b EXCEPT !.backlogAsked = Scope(c)]

ScopeEffects(c, b, force) ==
    BacklogEffect(c, PreloadEffect(c, LoadEffect(c, b, force)))

\* The effects of a render that follows an answer or another effect.
Rendered(b) == Remember(PreloadEffect(b, Remember(b)))

\* With isStatsSourceOnlyStatsView missing among the dependencies of the load.
StatsEffectsWithoutLoad(was, b) ==
    IF b.statsOnly /\ ~was THEN LandAborted(Aborted(b)) ELSE b

\* Entering a Statistics view that has its own source aborts, leaving it
\* loads; showing a group can do either.
StatsEffects(was, b) ==
    CASE b.statsOnly = was -> b
      [] b.statsOnly /\ ~was -> LandAborted(Aborted(b))
      [] OTHER -> LoadEffect(b, Remember(b), FALSE)

\* setSelectedSprint and the effects of the sprint.
ToSprint(b, s) ==
    LET c == [b EXCEPT !.sprint = s]
        cleared == [Aborted(ShowGroup(c)) EXCEPT
                       !.rows = BlankLists, !.fetched = FALSE, !.backlog = None,
                       !.mark = NothingMarked(s), !.lastLoaded = None]
    IN  Rendered(LandAborted(ScopeEffects(c, cleared, FALSE)))

\* setActiveGroupId and the effects of the group.
ToGroup(b, g) ==
    LET c == [b EXCEPT !.group = g]
    IN  Rendered(StatsEffects(c.statsOnly, ScopeEffects(c, ShowGroup(c), FALSE)))

-----------------------------------------------------------------------------
(* The page.                                                               *)

OpenedPage ==
    LET b == [sprint |-> PageSprint, group |-> FirstGroup,
              teams |-> [g \in Groups |-> 0], epm |-> FALSE, statsOnly |-> FALSE,
              rows |-> BlankLists, fetched |-> FALSE,
              loading |-> [p \in Projects |-> FALSE], busy |-> FALSE,
              mark |-> NothingMarked(PageSprint), lastLoaded |-> None,
              preload |-> Blank, preloadOf |-> None,
              backlog |-> None, backlogAsked |-> None,
              cache |-> [g \in Groups |-> None], asked |-> <<>>]
    IN  Rendered(ScopeEffects(b, ShowGroup(b), FALSE))

Init ==
    /\ page = OpenedPage
    /\ batch = None
    /\ sprintsAsked = FALSE
    /\ saving = FALSE
    /\ strayed = FALSE
    /\ turns = 0 /\ events = 0

Turn ==
    /\ turns < MaxTurns
    /\ turns' = turns + 1
    /\ UNCHANGED events

Event ==
    /\ events < MaxEvents
    /\ events' = events + 1
    /\ UNCHANGED turns

Room == Len(page'.asked) <= MaxAsked

SelectSprint(s) ==
    /\ Turn
    /\ s # page.sprint
    /\ page' = ToSprint(page, s)
    /\ Room
    /\ UNCHANGED <<batch, sprintsAsked, saving, strayed>>

ListsUnderWay == \E i \in DOMAIN page.asked : page.asked[i].list \in Projects

SelectGroup(g) ==
    /\ Turn
    /\ ~page.epm
    /\ g # page.group
    /\ page' = ToGroup(page, g)
    /\ Room
    /\ strayed' = (strayed \/ ListsUnderWay)
    /\ UNCHANGED <<batch, sprintsAsked, saving>>

ToggleStats ==
    /\ Turn
    /\ ~page.epm
    /\ page' = Rendered(StatsEffects(page.statsOnly,
                                     [page EXCEPT !.statsOnly = ~@]))
    /\ Room
    /\ UNCHANGED <<batch, sprintsAsked, saving, strayed>>

ToggleEpm ==
    /\ Turn
    /\ LET c == [page EXCEPT !.epm = ~@]
       IN  page' = Rendered(ScopeEffects(c, c, FALSE))
    /\ Room
    /\ UNCHANGED <<batch, sprintsAsked, saving, strayed>>

\* refreshActiveViewFromJira: the button, or the return after a long absence.
Refresh ==
    /\ Event
    /\ ~page.epm
    /\ ~page.busy
    /\ LET c == [page EXCEPT !.cache[page.group] = None]
           d == LoadPreload(LoadBoth(c, Scope(c), "page"), Scope(c), HasRows(c.rows), "page")
       IN  page' = CASE c.statsOnly -> c
                     [] ~c.statsOnly /\ Snapshot(d) # Snapshot(c) -> Remember(d)
                     [] OTHER -> d
    /\ Room
    /\ sprintsAsked' = TRUE
    /\ UNCHANGED <<batch, saving, strayed>>

\* loadSprints selects the sprint the page was opened with.
SprintsListed ==
    /\ sprintsAsked
    /\ sprintsAsked' = FALSE
    /\ page' = IF page.sprint = PageSprint THEN page ELSE ToSprint(page, PageSprint)
    /\ Room
    /\ UNCHANGED <<batch, saving, strayed, turns, events>>

SprintsNotListed ==
    /\ sprintsAsked
    /\ sprintsAsked' = FALSE
    /\ UNCHANGED <<page, batch, saving, strayed, turns, events>>

-----------------------------------------------------------------------------
(* saveGroupsConfig.  The teams of a group change at once; after another   *)
(* request the page is emptied and loaded again.  A conflict adopts the    *)
(* stored teams and ends there.                                            *)

AdoptTeams(b, g) ==
    LET c == [b EXCEPT !.teams[g] = @ + 1]
    IN  IF g = b.group
        THEN Rendered(ScopeEffects(c, Remember(c), FALSE))
        ELSE c

SaveTeams(g) ==
    /\ Event
    /\ ~saving
    /\ page' = AdoptTeams(page, g)
    /\ Room
    /\ \E stored \in BOOLEAN : saving' = stored
    /\ strayed' = (strayed \/ ListsUnderWay)
    /\ UNCHANGED <<batch, sprintsAsked>>

SaveSettings ==
    /\ Event
    /\ ~saving
    /\ saving' = TRUE
    /\ page' = [page EXCEPT !.cache = [g \in Groups |-> None]]
    /\ UNCHANGED <<batch, sprintsAsked, strayed>>

\* invalidateSprintDataForConfigSave.  The aborted requests answer before the
\* page is rendered again.
Invalidated(b) ==
    LandAborted([Aborted(b) EXCEPT
        !.cache[b.group] = None,
        !.rows = BlankLists, !.fetched = FALSE, !.preload = Blank,
        !.mark = NothingMarked(b.sprint), !.lastLoaded = None,
        !.preloadOf = None, !.backlog = None])

\* queueConfigSaveRefresh forces the load.
FinishSave ==
    /\ saving
    /\ saving' = FALSE
    /\ LET c == Invalidated(page)
       IN  page' = Rendered(ScopeEffects(c, Remember(c), TRUE))
    /\ Room
    /\ UNCHANGED <<batch, sprintsAsked, strayed, turns, events>>

-----------------------------------------------------------------------------
(* A batch of the Planning surface calls the loaders of the render it was  *)
(* submitted in (onTransitionSuccessRefresh).  Its targets were shown then,*)
(* so that render had the epics of the ready-to-close lists.               *)

SubmitBatch ==
    /\ Event
    /\ ~page.epm
    /\ ~page.statsOnly
    /\ batch = None
    /\ HasRows(page.rows)
    /\ batch' = Scope(page)
    /\ UNCHANGED <<page, sprintsAsked, saving, strayed>>

FinishBatch ==
    /\ batch # None
    /\ batch' = None
    /\ LET d == LoadPreload(LoadBoth(page, batch, "batch"), batch, TRUE, "batch")
       IN  page' = IF Snapshot(d) # Snapshot(page) THEN Rendered(d) ELSE d
    /\ Room
    /\ UNCHANGED <<sprintsAsked, saving, strayed, turns, events>>

RefuseBatch ==
    /\ batch # None
    /\ batch' = None
    /\ UNCHANGED <<page, sprintsAsked, saving, strayed, turns, events>>

-----------------------------------------------------------------------------
(* Answers.                                                                *)

Without(b, i) == [b EXCEPT !.asked = RemoveAt(@, i)]

Stray(i) ==
    \/ strayed
    \/ page.asked[i].list \in Projects /\ page.asked[i].scope # Scope(page)

\* Nothing depends on whether a ready-to-close list is empty.
Answer(i, as) ==
    /\ page.asked[i].at = "jira"
    /\ page.asked[i].list = "preload" => as = "rows"
    /\ page' = Rendered(Finished(Without(page, i), page.asked[i], as))
    /\ strayed' = Stray(i)
    /\ UNCHANGED <<batch, sprintsAsked, saving, turns, events>>

\* 401 auth_connection_stale: the session is refreshed without the signal.
SessionStale(i) ==
    /\ Event
    /\ page.asked[i].at = "jira"
    /\ ~page.asked[i].again
    /\ page' = [page EXCEPT !.asked[i].at = "session"]
    /\ UNCHANGED <<batch, sprintsAsked, saving, strayed>>

SessionAnswered(i, ok) ==
    LET r == page.asked[i]
    IN  /\ r.at = "session"
        /\ strayed' = IF ok /\ ~r.aborted THEN strayed ELSE Stray(i)
        /\ page' = CASE ok /\ ~r.aborted ->
                            [page EXCEPT !.asked[i] = [r EXCEPT !.at = "jira", !.again = TRUE]]
                     [] ok /\ r.aborted -> Rendered(Finished(Without(page, i), r, "dropped"))
                     [] OTHER -> Rendered(Finished(Without(page, i), r, "none"))
        /\ UNCHANGED <<batch, sprintsAsked, saving, turns, events>>

BacklogAnswer(ok) ==
    /\ page.backlogAsked # None
    /\ page' = [page EXCEPT !.backlogAsked = None,
                            !.backlog = IF ok THEN page.backlogAsked ELSE None]
    /\ UNCHANGED <<batch, sprintsAsked, saving, strayed, turns, events>>

-----------------------------------------------------------------------------
Answering(i) ==
    \/ \E as \in {"rows", "none"} : Answer(i, as)
    \/ \E ok \in BOOLEAN : SessionAnswered(i, ok)

Network ==
    \/ \E i \in DOMAIN page.asked : Answering(i)
    \/ \E ok \in BOOLEAN : BacklogAnswer(ok)
    \/ SprintsListed
    \/ SprintsNotListed
    \/ FinishSave
    \/ FinishBatch
    \/ RefuseBatch

User ==
    \/ \E s \in Sprints : SelectSprint(s)
    \/ \E g \in Groups : SelectGroup(g) \/ SaveTeams(g)
    \/ ToggleStats
    \/ ToggleEpm
    \/ Refresh
    \/ SaveSettings
    \/ SubmitBatch
    \/ \E i \in DOMAIN page.asked : SessionStale(i)

Next == Network \/ User

Waiting ==
    \/ page.asked # <<>>
    \/ page.backlogAsked # None
    \/ batch # None
    \/ sprintsAsked
    \/ saving

\* Every request is answered in the end: weak fairness of Network, which is
\* enabled whenever something is waited for.
Fairness == []<>~Waiting \/ []<><<Network>>_vars

Spec == Init /\ [][Next]_vars /\ Fairness

-----------------------------------------------------------------------------
(* Properties.                                                             *)

Scopes == [sprint : Sprints, group : Groups, teams : 0..MaxEvents]

Lists == [scope : Scopes \cup {None},
          as : {"blank", "rows", "none", "empty", "dropped"}, how : {"prompt", "page", "batch"}]

Snapshots == [sprint : Sprints, teams : 0..MaxEvents, rows : [Projects -> Lists],
              fetched : BOOLEAN, preload : Lists, statsOnly : BOOLEAN]

\* Types of the page and of what the requests under way were asked for.
TypeOK ==
    /\ Scope(page) \in Scopes
    /\ Snapshot(page) \in Snapshots
    /\ page.lastLoaded \in Sprints \cup {None}
    /\ page.mark.sprint \in Sprints /\ page.mark.done \subseteq Projects
    /\ \A g \in Groups : page.cache[g] # None => page.cache[g] \in Snapshots
    /\ \A i \in DOMAIN page.asked : page.asked[i].scope \in Scopes
    /\ page.backlog \in Scopes \cup {None} /\ page.backlogAsked \in Scopes \cup {None}
    /\ <<saving, sprintsAsked>> \in BOOLEAN \X BOOLEAN

\* A list with rows shown or kept under a sprint and a group.  One that came
\* while its scope was selected ("prompt") is of the sprint and of the group.  One
\* the page asked for that came later ("page") is of the sprint; nothing is said of
\* its group, as a change of group aborts no request.  Of one a Planning batch
\* asked for that came when another scope was selected ("batch") nothing is said:
\* it can be of another sprint.  The teams of the group are not compared: a list
\* stays when they are edited.
Fresh(list, sprint, group) ==
    list.as = "rows" /\ list.how # "batch" =>
        /\ list.scope.sprint = sprint
        /\ list.how = "prompt" => list.scope.group = group

\* What is shown, and what is kept for a group to be shown later, is Fresh.
ListsOfSprint ==
    /\ \A p \in Projects : Fresh(page.rows[p], page.sprint, page.group)
    /\ Fresh(page.preload, page.sprint, page.group)
    /\ \A g \in Groups : page.cache[g] # None =>
           /\ \A p \in Projects : Fresh(page.cache[g].rows[p], page.cache[g].sprint, g)
           /\ Fresh(page.cache[g].preload, page.cache[g].sprint, g)

Quiet ==
    /\ page.asked = <<>>
    /\ ~page.epm /\ ~page.statsOnly

\* With no request under way, both lists have been answered for, and the
\* refs that keep the other requests waiting name the selected sprint.
NothingForgotten ==
    Quiet /\ ~strayed =>
             /\ page.fetched
             /\ \A p \in Projects : page.rows[p].as # "blank"
             /\ page.group \notin Teamless => page.lastLoaded = page.sprint

\* A page that is loading waits for a request.
LoadingHasRequest ==
    /\ \A p \in Projects : page.loading[p] =>
           \E i \in DOMAIN page.asked : page.asked[i].list = p
    /\ page.busy => \E i \in DOMAIN page.asked : page.asked[i].list # "preload"

\* The backlog shown on the ENG view is the selected scope's, or is on its way.
BacklogOfScope ==
    ~page.epm =>
        /\ page.backlogAsked \in {None, Scope(page)}
        /\ page.backlog # None /\ page.backlogAsked = None => page.backlog = Scope(page)

\* Whatever is switched, saved, refreshed or aborted, no answer to the page's own
\* requests brings a list of another sprint, or brings one into another group while
\* its scope is selected, or is kept for one; the backlog is of the whole scope
\* (types included).  Left out, see Fresh: lists a batch had loaded for a scope no
\* longer selected, the group of late lists, and teams.
ShownOfSprint == TypeOK /\ ListsOfSprint /\ BacklogOfScope

\* Nothing on the page waits for what nobody will ask for.
LoadsComplete == LoadingHasRequest /\ NothingForgotten

\* The effects do not start requests for ever.
Settles == <>[](page.asked = <<>> /\ ~page.busy /\ page.backlogAsked = None)
=============================================================================
