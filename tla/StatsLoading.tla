------------------------------ MODULE StatsLoading ------------------------------
(***************************************************************************)
(* The requests behind the Statistics views (dashboard.jsx): Burndown,     *)
(* Lead Times, the source of Excluded Capacity, Mono vs Cross and Project  *)
(* Track, which comes sprint by sprint from a small pool of workers        *)
(* (loadExcludedCapacityStatsSourceChunks), and the time in phase of the   *)
(* epics that source has named so far.                                     *)
(*                                                                         *)
(* Each is an effect: when one of its dependencies changes, the request    *)
(* the last run has under way is cancelled, and the effect empties the     *)
(* panel, takes what its cache holds, or waits a moment and asks.  Caches  *)
(* are dropped by Refresh, by a saved configuration and by the switch of   *)
(* an excluded epic, which reach only some of the effects.  StatsTables    *)
(* has what is computed from the answers.                                  *)
(***************************************************************************)
EXTENDS Integers, FiniteSets

CONSTANTS Scopes,    \* choices of teams
          LastSprint,
          EpicsIn,   \* per sprint: the epics of its stories
          Workers,   \* EXCLUDED_CAPACITY_STATS_SOURCE_CONCURRENCY
          None, Lost,
          MaxTurns, MaxFails, MaxNow

VARIABLE page

Sprints == 1..LastSprint
Panels == {"burnout", "cohort", "capacity", "phase"}
CapacityViews == {"excludedCapacity", "monoCrossShare", "projectTrack"}
Views == {"hidden", "burnout", "cohort"} \union CapacityViews

\* Is the view of the panel open?
Open(p, panel) ==
    CASE panel \in {"burnout", "cohort"} -> p.view = panel
      [] panel = "capacity" -> p.view \in CapacityViews
      [] panel = "phase" -> p.view = "projectTrack" /\ p.mode = "epic"

\* excludedCapacitySprintRange
RangeOf(p) ==
    {s \in Sprints : /\ p.start # None
                     /\ (p.start <= s /\ s <= p.end) \/ (p.end <= s /\ s <= p.start)}

\* projectTrackPhaseEpicKeys: the epics of the chunks that have come.
PhaseKeys(p) ==
    IF ~p.at["capacity"].data.known \/ p.mode # "epic" THEN {}
    ELSE LET got == p.at["capacity"].data.got
         IN UNION {EpicsIn[s] : s \in {t \in DOMAIN got : got[t] # Lost /\ t \in RangeOf(p)}}

\* burnoutQueryKey, cohortQueryKey, excludedCapacityQueryKey, projectTrackPhaseSignature
Key(p, panel) ==
    CASE panel = "burnout" -> <<p.sprint, p.scope, p.tasks>>
      [] panel = "cohort" -> <<p.quarters, p.scope, p.config.adHoc>>
      [] panel = "capacity" -> <<RangeOf(p), p.scope>>
      [] panel = "phase" -> PhaseKeys(p)

\* What a run of the effect depends on.  The lists of a group's configuration
\* are new whenever the configuration is (ident), though they say the same.
Deps(p, panel) ==
    CASE panel = "burnout" -> <<p.view, p.sprint, p.fetched, Key(p, panel), p.gate>>
      [] panel = "cohort" -> <<p.view, Key(p, panel), p.ident, p.gate>>
      [] panel = "capacity" ->
             <<p.view, Key(p, panel), p.ident, p.config, p.nonce, p.gate>>
      [] panel = "phase" -> <<p.view, p.mode, Key(p, panel)>>

-----------------------------------------------------------------------------
(* One run of an effect.                                                   *)

\* What a panel holds: an answer and the key it was asked under, or nothing.
Data(key, got) == [known |-> TRUE, key |-> key, got |-> got]
NoData == [known |-> FALSE, key |-> None, got |-> <<>>]

Show(p, panel, data, error) ==
    [p EXCEPT !.at[panel] = [data |-> data, error |-> error, loading |-> FALSE]]

\* A request is live from the run of the effect that made it until it is
\* answered or cancelled.
NewJob(key, force, range) ==
    [live |-> TRUE, key |-> key, force |-> force, asking |-> FALSE,
     todo |-> range, out |-> {}, got |-> <<>>]
NoJob ==
    [live |-> FALSE, key |-> None, force |-> FALSE, asking |-> FALSE,
     todo |-> {}, out |-> {}, got |-> <<>>]

\* A cache or a list of chunks with one more.
With(f, k, v) == [x \in {k} \union DOMAIN f |-> IF x = k THEN v ELSE f[x]]

\* The cleanup of the last run: nothing of it is used any more.
Cancelled(p, panel) == [p EXCEPT !.job[panel] = NoJob, !.emptied = @ \ {panel}]

\* Why the effect asks nothing, if it does not: each with the words shown.
Refused(p, panel) ==
    CASE panel # "phase" /\ p.gate -> "gate"
      [] panel = "burnout" /\ ~p.gate /\ p.sprint = None -> "no sprint"
      [] panel = "burnout" /\ ~p.gate /\ p.sprint # None /\ p.fetched /\ p.tasks = 0 -> "no tasks"
      [] panel = "capacity" /\ ~p.gate /\ p.view = "excludedCapacity"
             /\ ~p.config.excluded /\ ~p.config.adHoc -> "no epics"
      [] panel = "capacity" /\ ~p.gate
             /\ ~(p.view = "excludedCapacity" /\ ~p.config.excluded /\ ~p.config.adHoc)
             /\ RangeOf(p) = {} -> "no range"
      [] panel = "phase" /\ PhaseKeys(p) = {} -> "no epics"
      [] OTHER -> "none"

\* The refusals that are shown as errors.
Spoken(p, panel) ==
    IF Refused(p, panel) \in {"no tasks", "no range"}
       \/ (panel = "capacity" /\ Refused(p, panel) = "no epics")
    THEN Refused(p, panel) ELSE "none"

\* The chunks of a range, or the answer, as kept under the key.
IsKept(p, panel) == Key(p, panel) \in DOMAIN p.cache[panel]
Kept(p, panel) == Data(Key(p, panel), p.cache[panel][Key(p, panel)])

Asks(p, panel) ==
    LET forced == panel = "capacity" /\ p.force
        q == [p EXCEPT !.force = @ /\ panel # "capacity"]
        stale == IF panel = "capacity" /\ ~forced THEN [q EXCEPT !.since = 0] ELSE q
    IN IF IsKept(p, panel) /\ ~forced
       THEN Show(stale, panel, Kept(p, panel), "none")
       ELSE [stale EXCEPT !.job[panel] =
                NewJob(Key(p, panel), forced, IF panel = "capacity" THEN RangeOf(p) ELSE {})]

\* The effect: also of a panel that is closed, whose last run is cancelled and
\* which is otherwise left as it is.
Effect(p, panel) ==
    LET q == Cancelled(p, panel)
    IN CASE ~Open(p, panel) -> [p EXCEPT !.job[panel] = NoJob]
         [] Open(p, panel) /\ Refused(p, panel) # "none" ->
                Show(q, panel, NoData, Spoken(p, panel))
         [] Open(p, panel) /\ Refused(p, panel) = "none" /\ panel = "burnout" /\ ~p.fetched ->
                [q EXCEPT !.at[panel].loading = TRUE, !.at[panel].error = "none"]
         [] OTHER -> Asks(q, panel)

\* A plausible slip: the phases are asked for once per visit of the view, not
\* again when more epics are known.
DueOnVisit(p, q, panel) ==
    IF panel = "phase" THEN p.view # q.view \/ p.mode # q.mode
    ELSE Deps(p, panel) # Deps(q, panel)

\* Does the effect run when the page comes from one rendering to another?
Due(p, q, panel) == Deps(p, panel) # Deps(q, panel)

\* The effects that are due, with the values of that rendering.
EffectsOf(p, q) ==
    LET run(r, panel) == IF Due(p, q, panel) THEN Effect(r, panel) ELSE r
    IN run(run(run(run(q, "phase"), "burnout"), "cohort"), "capacity")

\* What the effects have set is rendered in its turn: the phases depend on
\* the source.
Become(q) ==
    LET r == EffectsOf(page, q) IN page' = EffectsOf(q, r)

-----------------------------------------------------------------------------
(* The requests.                                                           *)

NoPanel == [data |-> NoData, error |-> "none", loading |-> FALSE]

Empty == [panel \in Panels \union {"chunk"} |-> <<>>]

Init ==
    \E view \in {"burnout", "cohort", "projectTrack"}, config \in [excluded : BOOLEAN, adHoc : BOOLEAN],
       gate \in BOOLEAN :
        page = [view |-> "hidden", next |-> view, mode |-> "epic", gate |-> gate,
                scope |-> CHOOSE s \in Scopes : TRUE, sprint |-> None,
                start |-> None, end |-> None, quarters |-> 1, config |-> config, ident |-> 0,
                nonce |-> 0, force |-> FALSE, fetched |-> FALSE, tasks |-> 0,
                at |-> [panel \in Panels |-> NoPanel], job |-> [panel \in Panels |-> NoJob],
                cache |-> Empty, emptied |-> {}, since |-> 0, now |-> 1, turns |-> 0, fails |-> 0]

Turn(q) ==
    /\ page.turns < MaxTurns
    /\ Become([q EXCEPT !.turns = @ + 1])

\* The statistics are shown with the view they were left in.
ShowStats == page.view = "hidden" /\ Turn([page EXCEPT !.view = page.next])

SetView ==
    /\ page.view # "hidden"
    /\ \E v \in Views \ {page.view} : Turn([page EXCEPT !.view = v])

SetMode == \E m \in {"epic", "team"} \ {page.mode} : Turn([page EXCEPT !.mode = m])
ChooseTeams == \E s \in Scopes \ {page.scope} : Turn([page EXCEPT !.scope = s])
SetQuarters == \E n \in {1, 2} \ {page.quarters} : Turn([page EXCEPT !.quarters = n])

SetRange ==
    /\ page.start # None
    /\ \E s \in Sprints : \/ s # page.start /\ Turn([page EXCEPT !.start = s])
                          \/ s # page.end /\ Turn([page EXCEPT !.end = s])

\* The list of sprints comes: the range starts with the one selected.
SprintsListed ==
    /\ page.sprint = None
    /\ Become([page EXCEPT !.sprint = 1, !.start = 1, !.end = 1])

\* Another sprint: its tasks are to be loaded.  The range stays.
SelectSprint ==
    /\ page.sprint # None
    /\ \E s \in Sprints \ {page.sprint} :
           Turn([page EXCEPT !.sprint = s, !.fetched = FALSE, !.tasks = 0])

\* The tasks of the sprint, none of which may be of the teams chosen.  They are
\* not loaded while the views of the source are open.
TasksLoaded ==
    /\ page.sprint # None /\ ~page.fetched /\ page.view \notin CapacityViews
    /\ \E t \in {0, 1} : Become([page EXCEPT !.fetched = TRUE, !.tasks = t])

FinishOnboarding == page.gate /\ Become([page EXCEPT !.gate = FALSE])

JiraMoves == page.now < MaxNow /\ page' = [page EXCEPT !.now = @ + 1]

Dropped(p) == [p EXCEPT !.cache = [panel \in DOMAIN @ |-> IF panel = "phase" THEN @[panel] ELSE <<>>]]

\* refreshActiveViewFromJira, in the views of the source and in the others
\* (whose tasks are loaded again, without a change the effects would see).
Refresh ==
    /\ page.sprint # None
    /\ page.view \in CapacityViews \/ page.fetched
    /\ Turn(IF page.view \in CapacityViews
            THEN [Dropped(page) EXCEPT !.force = TRUE, !.since = page.now, !.nonce = @ + 1,
                                       !.at["capacity"].data = NoData,
                                       !.at["capacity"].error = "none"]
            ELSE Dropped(page))

\* applySavedGroupsConfig: the groups as saved, or as somebody else saved them.
SaveGroups ==
    \E c \in [excluded : BOOLEAN, adHoc : BOOLEAN] :
        Turn([page EXCEPT !.config = c, !.ident = 1 - @])

\* saveSharedExcludedCapacityToggle: only the source is dropped.
ToggleExcluded ==
    Turn([page EXCEPT !.config.excluded = ~@, !.ident = 1 - @,
                      !.cache["capacity"] = <<>>, !.cache["chunk"] = <<>>])

\* invalidateSprintDataForConfigSave: the panels are emptied, whether or not
\* their effects will run again.
Invalidate ==
    /\ page.sprint # None
    /\ Turn([Dropped(page) EXCEPT
                !.fetched = FALSE, !.tasks = 0,
                !.at = [panel \in Panels |-> IF panel = "phase" THEN @[panel] ELSE NoPanel],
                !.emptied = {"burnout", "cohort", "capacity"}])

\* What the workers take on: chunks that are kept, and as many others as there
\* are workers free.
Taken(p, job) ==
    LET kept(s) == ~job.force /\ <<s, p.scope>> \in DOMAIN p.cache["chunk"]
        before(s) == {t \in job.todo : t < s /\ ~kept(t)}
        taken == {s \in job.todo : Cardinality(job.out) + Cardinality(before(s)) < Workers}
        had == {s \in taken : kept(s)}
    IN [job EXCEPT !.todo = @ \ taken, !.out = @ \union (taken \ had),
                   !.got = [s \in had \union DOMAIN @ |->
                               IF s \in had THEN p.cache["chunk"][<<s, p.scope>>] ELSE @[s]]]

\* The source has changed: what has come is shown, and with the last chunk the
\* whole is kept, unless every one was lost.
Progress(p, job) ==
    LET shown == Data(job.key, job.got)
        done == job.out = {} /\ job.todo = {}
        lost == \A s \in DOMAIN job.got : job.got[s] = Lost
        some == IF DOMAIN job.got = {} THEN p ELSE [p EXCEPT !.at["capacity"].data = shown]
    IN CASE done /\ lost -> Show([p EXCEPT !.job["capacity"] = NoJob], "capacity", NoData, "failed")
         [] done /\ ~lost ->
                Show([p EXCEPT !.job["capacity"] = NoJob,
                               !.cache["capacity"] = With(@, job.key, job.got)],
                     "capacity", shown, "none")
         [] OTHER -> [some EXCEPT !.job["capacity"] = job]

\* The moment has passed and the request is sent.
Send ==
    \E panel \in Panels :
        LET job == page.job[panel]
            q == [page EXCEPT !.at[panel].loading = TRUE, !.at[panel].error = "none",
                              !.job[panel].asking = TRUE]
        IN /\ job.live /\ ~job.asking
           /\ Become(IF panel = "capacity" THEN Progress(q, Taken(q, q.job[panel])) ELSE q)

\* An answer is kept and shown.
Answer ==
    \E panel \in Panels \ {"capacity"} :
        LET job == page.job[panel]
        IN /\ job.live /\ job.asking
           /\ Become(Show([page EXCEPT !.job[panel] = NoJob,
                                       !.cache[panel] = With(@, job.key, <<>>)],
                          panel, Data(job.key, <<>>), "none"))

\* It fails, or takes thirty seconds.
Fail ==
    /\ page.fails < MaxFails
    /\ \E panel \in Panels \ {"capacity"} :
           /\ page.job[panel].live /\ page.job[panel].asking
           /\ Become(Show([page EXCEPT !.job[panel] = NoJob, !.fails = @ + 1],
                          panel, NoData, "failed"))

\* A chunk comes: of Jira as it is, or as the server has kept it when it was
\* not told to ask anew.
ChunkArrives ==
    LET job == page.job["capacity"]
    IN /\ job.live
       /\ \E s \in job.out, v \in 1..page.now :
              LET q == [page EXCEPT !.cache["chunk"] = With(@, <<s, page.scope>>, v)]
                  had == [job EXCEPT !.out = @ \ {s}, !.got = With(@, s, v)]
              IN /\ job.force => v = page.now
                 /\ Become(Progress(q, Taken(q, had)))

\* A chunk is lost; the others are waited for.
ChunkLost ==
    LET job == page.job["capacity"]
    IN /\ page.fails < MaxFails /\ job.live
       /\ \E s \in job.out :
              Become(Progress([page EXCEPT !.fails = @ + 1],
                              Taken(page, [job EXCEPT !.out = @ \ {s}, !.got = With(@, s, Lost)])))

Next == \/ ShowStats \/ SetView \/ SetMode \/ ChooseTeams \/ SetQuarters \/ SetRange
        \/ SprintsListed \/ SelectSprint \/ TasksLoaded \/ FinishOnboarding \/ JiraMoves
        \/ Refresh \/ SaveGroups \/ ToggleExcluded \/ Invalidate
        \/ Send \/ Answer \/ Fail \/ ChunkArrives \/ ChunkLost

Spec == Init /\ [][Next]_page

-----------------------------------------------------------------------------
StatsAssumption ==
    /\ Scopes # {} /\ LastSprint \in Nat \ {0} /\ Workers \in Nat /\ Lost \notin Int
    /\ MaxNow \in Nat \ {0}

\* Type correctness of the page's state.
TypeOK ==
    /\ page.view \in Views /\ page.mode \in {"epic", "team"}
    /\ page.scope \in Scopes /\ page.sprint \in Sprints \union {None}
    /\ page.start \in Sprints \union {None} /\ page.end \in Sprints \union {None}
    /\ page.force \in BOOLEAN /\ page.fetched \in BOOLEAN /\ page.gate \in BOOLEAN
    /\ \A panel \in Panels :
           /\ page.at[panel].loading \in BOOLEAN
           /\ page.job[panel].asking \in BOOLEAN
    /\ page.emptied \subseteq Panels /\ page.since \in 0..MaxNow

Settled(p, panel) ==
    /\ Open(p, panel) /\ ~p.job[panel].live /\ ~p.at[panel].loading
    /\ p.at[panel].error = "none"

\* A panel that says it is loading has a request of its own under way, or
\* waits for the tasks of the board.
LoadingHasRequest(p) ==
    \A panel \in Panels :
        Open(p, panel) /\ p.at[panel].loading
            => p.job[panel].live \/ (panel = "burnout" /\ ~p.fetched)

\* What a panel shows at rest is what was asked for last: no answer to an
\* earlier choice is left in it, and it is empty only when nothing can be
\* asked or a saved configuration has emptied it.
ShownIsAsked(p) ==
    \A panel \in Panels :
        Settled(p, panel) =>
            IF p.at[panel].data.known
            THEN p.at[panel].data.key = Key(p, panel)
            ELSE Refused(p, panel) # "none" \/ panel \in p.emptied

\* At rest every sprint of the range is accounted for, loaded or lost, and
\* not all of them are lost; the workers never have more than their number of
\* requests, and ask for no chunk twice in a load.
SprintsAccounted(p) ==
    /\ Settled(p, "capacity") /\ p.at["capacity"].data.known
           => LET got == p.at["capacity"].data.got
              IN DOMAIN got = RangeOf(p) /\ \E s \in DOMAIN got : got[s] # Lost
    /\ p.job["capacity"].live =>
           LET job == p.job["capacity"]
           IN /\ Cardinality(job.out) <= Workers
              /\ job.out \intersect DOMAIN job.got = {}
              /\ job.out \union job.todo \union DOMAIN job.got = job.key[1]

\* After Refresh the source is Jira's of that moment or a later one, until a
\* run of the effect that was not forced replaces it.
RefreshIsFresh(p) ==
    Settled(p, "capacity") /\ p.at["capacity"].data.known =>
        \A s \in DOMAIN p.at["capacity"].data.got :
            p.at["capacity"].data.got[s] \in Int => p.at["capacity"].data.got[s] >= p.since

\* The statistics at rest are those of the filters shown, and a panel at work
\* has work: the four effects of dashboard.jsx, their caches and cancellations
\* under any order of answers.
StatsSound ==
    /\ LoadingHasRequest(page) /\ ShownIsAsked(page)
    /\ SprintsAccounted(page) /\ RefreshIsFresh(page)
=============================================================================
