----------------------- MODULE PlanningSelectionProofs -----------------------
(***************************************************************************)
(* That what is selected on the Planning surface stays the selection of    *)
(* its sprint and group, for any sprints, groups, teams, tasks and bounds. *)
(***************************************************************************)
EXTENDS PlanningSelection, SequenceTheorems, TLAPS

Snapshots ==
    [sprint : Sprints, rows : SUBSET Tasks, fetched : BOOLEAN, teams : SUBSET Teams,
     tasks : SUBSET Tasks, mode : Modes, planning : BOOLEAN, search : BOOLEAN]

TeamMarks == [scope : Scopes, teams : SUBSET Teams]
Baselines == [scope : Scopes, tasks : SUBSET Tasks, mode : Modes]
LateSaves == [scope : Scopes, tasks : SUBSET Tasks, teams : SUBSET Teams]
Prefs == [teams : SUBSET Teams, search : BOOLEAN]

Fields ==
    {"sprint", "group", "listed", "rows", "touched", "renewed", "fetched", "loading",
     "lastLoaded", "asked", "teams", "tasks", "mode", "undo", "planning", "search", "prefs",
     "groupShown", "hydrated", "teamsHydrated", "hydratedTeams", "carried", "skipPersist",
     "baseline", "late", "cache", "plans", "teamPlans"}

Shape(b) == DOMAIN b = Fields /\ b = [f \in Fields |-> b[f]]

(* The type of a page, field by field, in parts that effects change together. *)

PlaceTyped(b) ==
    b.sprint \in Sprints /\ b.group \in Groups /\ b.listed \in BOOLEAN /\ b.prefs \in Prefs

LoadTyped(b) ==
    /\ b.fetched \in BOOLEAN /\ b.loading \in BOOLEAN /\ b.lastLoaded \in Sprints \cup {None}
    /\ b.asked \in Seq(Scopes) /\ b.rows \in SUBSET Tasks /\ b.touched \in BOOLEAN

ChoiceTyped(b) == b.tasks \in SUBSET Tasks /\ b.mode \in Modes /\ b.teams \in SUBSET Teams

ViewTyped(b) == b.undo \in BOOLEAN /\ b.planning \in BOOLEAN /\ b.search \in BOOLEAN

ShownTyped(b) == b.groupShown \in Groups \cup {None} /\ b.hydrated \in Scopes \cup {None}

MarksTyped(b) ==
    /\ b.teamsHydrated \in Scopes \cup {None} /\ b.hydratedTeams \in TeamMarks \cup {None}
    /\ b.carried \in TeamMarks \cup {None} /\ b.skipPersist \in Scopes \cup {None}

RestTyped(b) ==
    /\ b.baseline \in Baselines \cup {None} /\ b.late \in LateSaves \cup {None}
    /\ b.renewed \in BOOLEAN

StoredTyped(b) ==
    /\ b.plans \in [Scopes -> Plans \cup {None}]
    /\ b.teamPlans \in [Scopes -> (SUBSET Teams) \cup {None}]

CacheTyped(b) == b.cache \in [Groups -> Snapshots \cup {None}]

Page(b) ==
    /\ Shape(b) /\ PlaceTyped(b) /\ LoadTyped(b) /\ ChoiceTyped(b) /\ ViewTyped(b)
    /\ ShownTyped(b) /\ MarksTyped(b) /\ RestTyped(b) /\ StoredTyped(b) /\ CacheTyped(b)

(* The parts of a page that an effect leaves alone together.               *)

SamePlace(b, r) ==
    r.sprint = b.sprint /\ r.group = b.group /\ r.listed = b.listed /\ r.prefs = b.prefs

SameLoad(b, r) ==
    /\ r.fetched = b.fetched /\ r.loading = b.loading /\ r.lastLoaded = b.lastLoaded
    /\ r.asked = b.asked /\ r.rows = b.rows /\ r.touched = b.touched

SameChoice(b, r) == r.tasks = b.tasks /\ r.mode = b.mode /\ r.teams = b.teams

SameView(b, r) == r.undo = b.undo /\ r.planning = b.planning /\ r.search = b.search

SameShown(b, r) == r.groupShown = b.groupShown /\ r.hydrated = b.hydrated

SameMarks(b, r) ==
    /\ r.teamsHydrated = b.teamsHydrated /\ r.hydratedTeams = b.hydratedTeams
    /\ r.carried = b.carried /\ r.skipPersist = b.skipPersist

SameRest(b, r) == r.baseline = b.baseline /\ r.late = b.late /\ r.renewed = b.renewed

SameStored(b, r) == r.plans = b.plans /\ r.teamPlans = b.teamPlans

-----------------------------------------------------------------------------
(* The effects: what they change, and into what.                           *)

LEMMA ScopeTyped ==
  ASSUME NEW c, Page(c)
  PROVE  Scope(c) \in Scopes /\ c.sprint \in Sprints /\ c.group \in Groups
BY DEF Page, PlaceTyped, Scope, Scopes

LEMMA TasksTyped ==
  ASSUME NEW c, Page(c)
  PROVE  SelectionTasks(c) \subseteq Tasks /\ Resolved(c) \subseteq SelectionTasks(c)
BY DEF Page, PlaceTyped, LoadTyped, ChoiceTyped, SelectionTasks, Resolved

LEMMA SnapshotTyped ==
  ASSUME NEW c, Page(c)
  PROVE  Snapshot(c) \in Snapshots
BY DEF Page, PlaceTyped, LoadTyped, ChoiceTyped, ViewTyped, Snapshot, Snapshots

LEMMA DefaultTyped ==
  ASSUME NEW c, Page(c), NEW b, Page(b)
  PROVE  DefaultState(c, b) \in Snapshots /\ DefaultState(c, b).sprint = c.sprint
         /\ ~DefaultState(c, b).fetched
<1>1. Scope(c) \in Scopes
  BY ScopeTyped
<1> DEFINE plan == b.plans[Scope(c)]
           kept == b.teamPlans[Scope(c)]
<1>2. plan \in Plans \cup {None} /\ kept \in (SUBSET Teams) \cup {None}
  BY <1>1 DEF Page, StoredTyped
<1>3. c.sprint \in Sprints /\ c.teams \in SUBSET Teams /\ c.planning \in BOOLEAN
      /\ c.prefs.search \in BOOLEAN
  BY DEF Page, PlaceTyped, ChoiceTyped, ViewTyped, Prefs
<1>4. plan # None => plan.teams \in SUBSET Teams /\ plan.tasks \in SUBSET Tasks /\ plan.mode \in Modes
  BY <1>2 DEF Plans
<1>5. "default_all" \in Modes /\ "manual" \in Modes
  BY DEF Modes
<1> HIDE DEF plan, kept
<1> QED
  BY <1>2, <1>3, <1>4, <1>5 DEF DefaultState, Snapshots, plan, kept

(* A page with some fields changed is a page.                              *)

LEMMA GroupShownSet ==
  ASSUME NEW b, Page(b), NEW g \in Groups,
         NEW r, r = [b EXCEPT !.groupShown = g]
  PROVE  Page(r)
<1>1. DOMAIN b = Fields
  BY DEF Page, Shape
<1>2. Shape(r)
  BY <1>1 DEF Shape
<1>3. /\ SamePlace(b, r) /\ SameLoad(b, r) /\ SameChoice(b, r) /\ SameView(b, r)
      /\ SameMarks(b, r) /\ SameRest(b, r) /\ SameStored(b, r) /\ r.hydrated = b.hydrated
      /\ r.cache = b.cache /\ r.groupShown = g
  BY <1>1 DEF Fields, SamePlace, SameLoad, SameChoice, SameView, SameMarks, SameRest, SameStored
<1>4. /\ PlaceTyped(r) /\ LoadTyped(r) /\ ChoiceTyped(r) /\ ViewTyped(r) /\ MarksTyped(r)
      /\ RestTyped(r) /\ StoredTyped(r) /\ CacheTyped(r)
  BY <1>3 DEF Page, SamePlace, SameLoad, SameChoice, SameView, SameMarks, SameRest, SameStored, PlaceTyped, LoadTyped, ChoiceTyped, ViewTyped, MarksTyped, RestTyped, StoredTyped, CacheTyped
<1>5. /\ ShownTyped(r)
  BY <1>3 DEF Page, ShownTyped
<1> QED
  BY <1>2, <1>4, <1>5 DEF Page

LEMMA HydratedSet ==
  ASSUME NEW b, Page(b), NEW k \in Scopes,
         NEW r, r = [b EXCEPT !.hydrated = k]
  PROVE  Page(r)
<1>1. DOMAIN b = Fields
  BY DEF Page, Shape
<1>2. Shape(r)
  BY <1>1 DEF Shape
<1>3. /\ SamePlace(b, r) /\ SameLoad(b, r) /\ SameChoice(b, r) /\ SameView(b, r)
      /\ SameMarks(b, r) /\ SameRest(b, r) /\ SameStored(b, r)
      /\ r.groupShown = b.groupShown /\ r.cache = b.cache /\ r.hydrated = k
  BY <1>1 DEF Fields, SamePlace, SameLoad, SameChoice, SameView, SameMarks, SameRest, SameStored
<1>4. /\ PlaceTyped(r) /\ LoadTyped(r) /\ ChoiceTyped(r) /\ ViewTyped(r) /\ MarksTyped(r)
      /\ RestTyped(r) /\ StoredTyped(r) /\ CacheTyped(r)
  BY <1>3 DEF Page, SamePlace, SameLoad, SameChoice, SameView, SameMarks, SameRest, SameStored, PlaceTyped, LoadTyped, ChoiceTyped, ViewTyped, MarksTyped, RestTyped, StoredTyped, CacheTyped
<1>5. /\ ShownTyped(r)
  BY <1>3 DEF Page, ShownTyped
<1> QED
  BY <1>2, <1>4, <1>5 DEF Page

LEMMA SprintSet ==
  ASSUME NEW b, Page(b),
         NEW r, r = [b EXCEPT !.fetched = FALSE, !.rows = {}, !.touched = TRUE, !.lastLoaded = None]
  PROVE  Page(r)
<1>1. DOMAIN b = Fields
  BY DEF Page, Shape
<1>2. Shape(r)
  BY <1>1 DEF Shape
<1>3. /\ SamePlace(b, r) /\ SameChoice(b, r) /\ SameView(b, r) /\ SameShown(b, r)
      /\ SameMarks(b, r) /\ SameRest(b, r) /\ SameStored(b, r) /\ r.loading = b.loading
      /\ r.asked = b.asked /\ r.cache = b.cache /\ r.fetched = FALSE /\ r.rows = {}
      /\ r.touched = TRUE /\ r.lastLoaded = None
  BY <1>1 DEF Fields, SamePlace, SameChoice, SameView, SameShown, SameMarks, SameRest, SameStored
<1>4. /\ PlaceTyped(r) /\ ChoiceTyped(r) /\ ViewTyped(r) /\ ShownTyped(r)
      /\ MarksTyped(r) /\ RestTyped(r) /\ StoredTyped(r) /\ CacheTyped(r)
  BY <1>3 DEF Page, SamePlace, SameChoice, SameView, SameShown, SameMarks, SameRest, SameStored, PlaceTyped, ChoiceTyped, ViewTyped, ShownTyped, MarksTyped, RestTyped, StoredTyped, CacheTyped
<1>5. /\ LoadTyped(r)
  BY <1>3 DEF Page, LoadTyped
<1> QED
  BY <1>2, <1>4, <1>5 DEF Page

LEMMA LoadingSet ==
  ASSUME NEW b, Page(b), NEW a \in Seq(Scopes),
         NEW r, r = [b EXCEPT !.loading = TRUE, !.asked = a]
  PROVE  Page(r)
<1>1. DOMAIN b = Fields
  BY DEF Page, Shape
<1>2. Shape(r)
  BY <1>1 DEF Shape
<1>3. /\ SamePlace(b, r) /\ SameChoice(b, r) /\ SameView(b, r) /\ SameShown(b, r)
      /\ SameMarks(b, r) /\ SameRest(b, r) /\ SameStored(b, r) /\ r.fetched = b.fetched
      /\ r.lastLoaded = b.lastLoaded /\ r.rows = b.rows /\ r.touched = b.touched
      /\ r.cache = b.cache /\ r.loading = TRUE /\ r.asked = a
  BY <1>1 DEF Fields, SamePlace, SameChoice, SameView, SameShown, SameMarks, SameRest, SameStored
<1>4. /\ PlaceTyped(r) /\ ChoiceTyped(r) /\ ViewTyped(r) /\ ShownTyped(r)
      /\ MarksTyped(r) /\ RestTyped(r) /\ StoredTyped(r) /\ CacheTyped(r)
  BY <1>3 DEF Page, SamePlace, SameChoice, SameView, SameShown, SameMarks, SameRest, SameStored, PlaceTyped, ChoiceTyped, ViewTyped, ShownTyped, MarksTyped, RestTyped, StoredTyped, CacheTyped
<1>5. /\ LoadTyped(r)
  BY <1>3 DEF Page, LoadTyped
<1> QED
  BY <1>2, <1>4, <1>5 DEF Page

LEMMA CacheTo ==
  ASSUME NEW b, Page(b), NEW k \in [Groups -> Snapshots \cup {None}],
         NEW r, r = [b EXCEPT !.cache = k]
  PROVE  Page(r)
<1>1. DOMAIN b = Fields
  BY DEF Page, Shape
<1>2. Shape(r)
  BY <1>1 DEF Shape
<1>3. /\ SamePlace(b, r) /\ SameLoad(b, r) /\ SameChoice(b, r) /\ SameView(b, r)
      /\ SameShown(b, r) /\ SameMarks(b, r) /\ SameRest(b, r) /\ SameStored(b, r)
      /\ r.cache = k
  BY <1>1 DEF Fields, SamePlace, SameLoad, SameChoice, SameView, SameShown, SameMarks, SameRest, SameStored
<1>4. /\ PlaceTyped(r) /\ LoadTyped(r) /\ ChoiceTyped(r) /\ ViewTyped(r) /\ ShownTyped(r)
      /\ MarksTyped(r) /\ RestTyped(r) /\ StoredTyped(r)
  BY <1>3 DEF Page, SamePlace, SameLoad, SameChoice, SameView, SameShown, SameMarks, SameRest, SameStored, PlaceTyped, LoadTyped, ChoiceTyped, ViewTyped, ShownTyped, MarksTyped, RestTyped, StoredTyped
<1>5. /\ CacheTyped(r)
  BY <1>3 DEF Page, CacheTyped
<1> QED
  BY <1>2, <1>4, <1>5 DEF Page

\* Coming to another group or sprint: a state is applied.
LEMMA ApplyWorks ==
  ASSUME NEW b, Page(b), NEW s \in Snapshots, NEW r, r = Apply(b, s)
  PROVE  /\ Page(r) /\ SamePlace(b, r) /\ SameShown(b, r) /\ SameMarks(b, r)
         /\ SameRest(b, r) /\ SameStored(b, r)
         /\ r.cache = b.cache /\ r.loading = b.loading /\ r.lastLoaded = b.lastLoaded
         /\ r.asked = b.asked
         /\ r.touched /\ ~r.undo /\ r.fetched = s.fetched /\ r.rows = s.rows
         /\ r.planning = s.planning /\ r.teams = s.teams
<1>1. /\ s.rows \in SUBSET Tasks /\ s.fetched \in BOOLEAN /\ s.teams \in SUBSET Teams
      /\ s.tasks \in SUBSET Tasks /\ s.mode \in Modes /\ s.planning \in BOOLEAN
      /\ s.search \in BOOLEAN
  BY DEF Snapshots
<1>2. DOMAIN b = Fields
  BY DEF Page, Shape
<1>3. Shape(r)
  BY <1>2 DEF Shape, Apply
<1>4. /\ SamePlace(b, r) /\ SameShown(b, r) /\ SameMarks(b, r) /\ SameRest(b, r)
      /\ SameStored(b, r) /\ r.cache = b.cache
      /\ r.loading = b.loading /\ r.lastLoaded = b.lastLoaded /\ r.asked = b.asked
      /\ r.touched = TRUE /\ r.undo = FALSE /\ r.fetched = s.fetched /\ r.rows = s.rows
      /\ r.planning = s.planning /\ r.teams = s.teams
      /\ r.tasks = s.tasks /\ r.mode = s.mode /\ r.search = s.search
  BY <1>2 DEF Apply, Fields, SamePlace, SameShown, SameMarks, SameRest, SameStored
<1>5. /\ PlaceTyped(r) /\ ShownTyped(r) /\ MarksTyped(r) /\ RestTyped(r) /\ StoredTyped(r)
      /\ CacheTyped(r)
  BY <1>4 DEF Page, SamePlace, SameShown, SameMarks, SameRest, SameStored, PlaceTyped,
              ShownTyped, MarksTyped, RestTyped, StoredTyped, CacheTyped
<1>6. LoadTyped(r) /\ ChoiceTyped(r) /\ ViewTyped(r)
  BY <1>1, <1>4 DEF Page, LoadTyped, ChoiceTyped, ViewTyped
<1> QED
  BY <1>3, <1>4, <1>5, <1>6 DEF Page

\* A page with another cache.
LEMMA CacheSet ==
  ASSUME NEW b, Page(b), NEW k \in [Groups -> Snapshots \cup {None}],
         NEW r, r = [b EXCEPT !.cache = k]
  PROVE  /\ Page(r) /\ SamePlace(b, r) /\ SameLoad(b, r) /\ SameChoice(b, r)
         /\ SameView(b, r) /\ SameShown(b, r) /\ SameMarks(b, r) /\ SameRest(b, r)
         /\ SameStored(b, r) /\ r.cache = k
<1>1. Page(r)
  BY CacheTo
<1>2. DOMAIN b = Fields
  BY DEF Page, Shape
<1> QED
  BY <1>1, <1>2 DEF Fields, SamePlace, SameLoad, SameChoice, SameView, SameShown,
                    SameMarks, SameRest, SameStored

LEMMA SnapshotWorks ==
  ASSUME NEW p, NEW c, Page(c), NEW b, Page(b), NEW r, r = SnapshotEffect(p, c, b)
  PROVE  /\ Page(r) /\ SamePlace(b, r) /\ SameLoad(b, r) /\ SameChoice(b, r)
         /\ SameView(b, r) /\ SameShown(b, r) /\ SameMarks(b, r) /\ SameRest(b, r)
         /\ SameStored(b, r)
         /\ \/ r.cache = b.cache
            \/ /\ b.groupShown = c.group /\ b.hydrated = Scope(c)
               /\ r.cache = [b.cache EXCEPT ![c.group] = Snapshot(c)]
<1> DEFINE k == [b.cache EXCEPT ![c.group] = Snapshot(c)]
<1>1. Snapshot(c) \in Snapshots /\ c.group \in Groups
  BY SnapshotTyped, ScopeTyped
<1>2. k \in [Groups -> Snapshots \cup {None}]
  BY <1>1 DEF Page, CacheTyped
<1>3. CASE /\ <<c.group, Snapshot(c)>> # <<p.group, Snapshot(p)>>
           /\ b.groupShown = c.group /\ b.hydrated = Scope(c)
  <2>1. r = [b EXCEPT !.cache = k]
    BY <1>3 DEF SnapshotEffect
  <2> HIDE DEF k
  <2>2. /\ Page(r) /\ SamePlace(b, r) /\ SameLoad(b, r) /\ SameChoice(b, r)
        /\ SameView(b, r) /\ SameShown(b, r) /\ SameMarks(b, r) /\ SameRest(b, r)
        /\ SameStored(b, r) /\ r.cache = k
    BY <1>2, <2>1, CacheSet
  <2> QED
    BY <1>3, <2>2 DEF k
<1>4. CASE ~(/\ <<c.group, Snapshot(c)>> # <<p.group, Snapshot(p)>>
             /\ b.groupShown = c.group /\ b.hydrated = Scope(c))
  <2>1. r = b
    BY <1>4 DEF SnapshotEffect
  <2> QED
    BY <1>4, <2>1 DEF SamePlace, SameLoad, SameChoice, SameView, SameShown, SameMarks,
                      SameRest, SameStored
<1> QED
  BY <1>3, <1>4

\* What the effects of group and hydration leave alone.
BesidesApplied(b, r) ==
    /\ SamePlace(b, r) /\ SameMarks(b, r) /\ SameRest(b, r) /\ SameStored(b, r)
    /\ r.loading = b.loading /\ r.lastLoaded = b.lastLoaded /\ r.asked = b.asked

\* All that they may change.
Unapplied(b, r) ==
    SameLoad(b, r) /\ SameChoice(b, r) /\ SameView(b, r) /\ r.cache = b.cache

LEMMA ApplyDefaultWorks ==
  ASSUME NEW c, Page(c), NEW b, Page(b), NEW r, r = ApplyDefault(c, b)
  PROVE  /\ Page(r) /\ BesidesApplied(b, r) /\ SameShown(b, r)
         /\ r.touched /\ ~r.undo /\ ~r.fetched
         /\ r.cache[c.group] # None => r.cache[c.group].sprint = c.sprint
<1> DEFINE s == DefaultState(c, b)
           k == [b.cache EXCEPT ![c.group] = s]
<1>1. s \in Snapshots /\ s.sprint = c.sprint /\ ~s.fetched /\ c.group \in Groups
  BY DefaultTyped, ScopeTyped
<1>2. k \in [Groups -> Snapshots \cup {None}] /\ k[c.group] = s
  BY <1>1 DEF Page, CacheTyped
<1> HIDE DEF k
<1>3. PICK q : q = [b EXCEPT !.cache = k]
  OBVIOUS
<1>4. Page(q) /\ SamePlace(b, q) /\ SameShown(b, q) /\ SameMarks(b, q) /\ SameRest(b, q)
      /\ SameStored(b, q) /\ SameLoad(b, q) /\ q.cache = k
  BY <1>2, <1>3, CacheSet
<1>5. r = Apply(q, s)
  BY <1>3 DEF ApplyDefault, k
<1> HIDE DEF s
<1>6. /\ Page(r) /\ SamePlace(q, r) /\ SameShown(q, r) /\ SameMarks(q, r)
      /\ SameRest(q, r) /\ SameStored(q, r)
      /\ r.cache = q.cache /\ r.loading = q.loading /\ r.lastLoaded = q.lastLoaded
      /\ r.asked = q.asked /\ r.touched /\ ~r.undo /\ r.fetched = s.fetched
  BY <1>1, <1>4, <1>5, ApplyWorks
<1>7. BesidesApplied(b, r) /\ SameShown(b, r)
  BY <1>4, <1>6 DEF BesidesApplied, SamePlace, SameShown, SameMarks, SameRest, SameStored, SameLoad
<1> QED
  BY <1>1, <1>2, <1>4, <1>6, <1>7

LEMMA GroupWorks ==
  ASSUME NEW c, Page(c), NEW b, Page(b), NEW r, r = GroupEffect(c, b)
  PROVE  /\ Page(r) /\ BesidesApplied(b, r)
         /\ r.groupShown = c.group /\ r.hydrated = b.hydrated
         /\ b.groupShown = c.group => r = b
         /\ b.groupShown # c.group =>
               r.touched /\ ~r.undo /\ (r.cache[c.group] # None => r.cache[c.group].sprint = c.sprint)
<1>1. CASE b.groupShown = c.group
  BY <1>1 DEF GroupEffect, BesidesApplied, SamePlace, SameMarks, SameRest, SameStored
<1>2. ASSUME b.groupShown # c.group, NEW q, Page(q), BesidesApplied(b, q), SameShown(b, q),
             q.touched, ~q.undo, q.cache[c.group] # None => q.cache[c.group].sprint = c.sprint,
             r = [q EXCEPT !.groupShown = c.group]
      PROVE  /\ Page(r) /\ BesidesApplied(b, r)
             /\ r.groupShown = c.group /\ r.hydrated = b.hydrated
             /\ r.touched /\ ~r.undo
             /\ r.cache[c.group] # None => r.cache[c.group].sprint = c.sprint
  <2>1. c.group \in Groups
    BY ScopeTyped
  <2>2. Page(r)
    BY <1>2, <2>1, GroupShownSet
  <2>3. DOMAIN q = Fields
    BY <1>2 DEF Page, Shape
  <2>4. BesidesApplied(b, r) /\ r.groupShown = c.group /\ r.hydrated = q.hydrated
        /\ r.touched = q.touched /\ r.undo = q.undo /\ r.cache = q.cache
    BY <1>2, <2>3 DEF Fields, BesidesApplied, SamePlace, SameMarks, SameRest, SameStored
  <2> QED
    BY <1>2, <2>2, <2>4 DEF SameShown
<1> DEFINE s == b.cache[c.group]
<1>3. CASE b.groupShown # c.group /\ Fits(c, s)
  <2>1. s \in Snapshots /\ s.sprint = c.sprint
    BY <1>3, ScopeTyped DEF Fits, Page, CacheTyped
  <2>2. PICK q : q = Apply(b, s)
    OBVIOUS
  <2>3. /\ Page(q) /\ SamePlace(b, q) /\ SameShown(b, q) /\ SameMarks(b, q)
        /\ SameRest(b, q) /\ SameStored(b, q)
        /\ q.cache = b.cache /\ q.loading = b.loading /\ q.lastLoaded = b.lastLoaded
        /\ q.asked = b.asked /\ q.touched /\ ~q.undo
    BY <2>1, <2>2, ApplyWorks
  <2>4. r = [q EXCEPT !.groupShown = c.group]
    BY <1>3, <2>2 DEF GroupEffect
  <2>5. BesidesApplied(b, q)
    BY <2>3 DEF BesidesApplied
  <2> QED
    BY <1>2, <1>3, <2>1, <2>3, <2>4, <2>5
<1>4. CASE b.groupShown # c.group /\ ~Fits(c, s)
  <2>1. PICK q : q = ApplyDefault(c, b)
    OBVIOUS
  <2>2. /\ Page(q) /\ BesidesApplied(b, q) /\ SameShown(b, q) /\ q.touched /\ ~q.undo
        /\ q.cache[c.group] # None => q.cache[c.group].sprint = c.sprint
    BY <2>1, ApplyDefaultWorks
  <2>3. r = [q EXCEPT !.groupShown = c.group]
    BY <1>4, <2>1 DEF GroupEffect
  <2> QED
    BY <1>2, <1>4, <2>2, <2>3
<1> QED
  BY <1>1, <1>3, <1>4

LEMMA HydrationWorks ==
  ASSUME NEW c, Page(c), NEW b, Page(b), NEW r, r = HydrationEffect(c, b)
  PROVE  /\ Page(r) /\ BesidesApplied(b, r)
         /\ r.hydrated = Scope(c) /\ r.groupShown = b.groupShown
         /\ b.hydrated = Scope(c) => r = b
         /\ b.hydrated # Scope(c) =>
               /\ r.cache[c.group] # None => r.cache[c.group].sprint = c.sprint
               /\ \/ Fits(c, b.cache[c.group]) /\ Unapplied(b, r)
                  \/ ~Fits(c, b.cache[c.group]) /\ r.touched /\ ~r.undo
<1>1. CASE b.hydrated = Scope(c)
  BY <1>1 DEF HydrationEffect, BesidesApplied, SamePlace, SameMarks, SameRest, SameStored
<1>2. ASSUME NEW q, Page(q), r = [q EXCEPT !.hydrated = Scope(c)]
      PROVE  /\ Page(r) /\ BesidesApplied(q, r) /\ Unapplied(q, r)
             /\ r.hydrated = Scope(c) /\ r.groupShown = q.groupShown
  <2>1. Scope(c) \in Scopes
    BY ScopeTyped
  <2>3. Page(r)
    BY <1>2, <2>1, HydratedSet
  <2>4. DOMAIN q = Fields
    BY <1>2 DEF Page, Shape
  <2> QED
    BY <1>2, <2>3, <2>4 DEF Fields, BesidesApplied, Unapplied, SamePlace, SameMarks, SameRest,
                            SameStored, SameLoad, SameChoice, SameView
<1> DEFINE s == b.cache[c.group]
<1>3. CASE b.hydrated # Scope(c) /\ Fits(c, s)
  <2>1. r = [b EXCEPT !.hydrated = Scope(c)]
    BY <1>3 DEF HydrationEffect
  <2>2. /\ Page(r) /\ BesidesApplied(b, r) /\ Unapplied(b, r)
        /\ r.hydrated = Scope(c) /\ r.groupShown = b.groupShown
    BY <1>2, <2>1
  <2>3. s.sprint = c.sprint /\ r.cache = b.cache
    BY <1>3, <2>2 DEF Fits, Unapplied
  <2> QED
    BY <1>3, <2>2, <2>3
<1>4. CASE b.hydrated # Scope(c) /\ ~Fits(c, s)
  <2>1. PICK q : q = ApplyDefault(c, b)
    OBVIOUS
  <2>2. /\ Page(q) /\ BesidesApplied(b, q) /\ SameShown(b, q) /\ q.touched /\ ~q.undo
        /\ q.cache[c.group] # None => q.cache[c.group].sprint = c.sprint
    BY <2>1, ApplyDefaultWorks
  <2>3. r = [q EXCEPT !.hydrated = Scope(c)]
    BY <1>4, <2>1 DEF HydrationEffect
  <2>4. /\ Page(r) /\ BesidesApplied(q, r) /\ Unapplied(q, r)
        /\ r.hydrated = Scope(c) /\ r.groupShown = q.groupShown
    BY <1>2, <2>2, <2>3
  <2>5. BesidesApplied(b, r)
    BY <2>2, <2>4 DEF BesidesApplied, SamePlace, SameMarks, SameRest, SameStored
  <2>6. r.touched /\ ~r.undo /\ r.cache = q.cache /\ r.groupShown = b.groupShown
    BY <2>2, <2>4 DEF Unapplied, SameLoad, SameView, SameShown
  <2> QED
    BY <1>4, <2>2, <2>4, <2>5, <2>6
<1> QED
  BY <1>1, <1>3, <1>4

\* Does Planning open in this render, on a sprint that is not of the future?
Includes(p, c) ==
    <<c.planning, IsFuture(c)>> # <<p.planning, IsFuture(p)>> /\ c.planning /\ ~IsFuture(c)

LEMMA IncludeWorks ==
  ASSUME NEW p, NEW c, Page(c), NEW b, Page(b), NEW r, r = IncludeEffect(p, c, b)
  PROVE  /\ Page(r) /\ SamePlace(b, r) /\ SameLoad(b, r) /\ SameView(b, r) /\ SameShown(b, r)
         /\ SameMarks(b, r) /\ SameStored(b, r)
         /\ r.cache = b.cache /\ r.teams = b.teams /\ r.baseline = b.baseline
         /\ r.renewed = b.renewed
         /\ ~Includes(p, c) => r = b
         /\ Includes(p, c) => /\ r.late \in LateSaves
                              /\ r.late.scope = Scope(c) /\ r.late.teams = c.teams
                              /\ r.late.tasks = r.tasks /\ r.mode = "manual"
<1>1. CASE ~Includes(p, c)
  BY <1>1 DEF IncludeEffect, Includes, SamePlace, SameLoad, SameView, SameShown, SameMarks, SameStored
<1>2. CASE Includes(p, c)
  <2> DEFINE t == b.tasks \cup (SelectionTasks(c) \cap Accepted)
             l == [scope |-> Scope(c), tasks |-> t, teams |-> c.teams]
             m == "manual"
  <2>1. r = [b EXCEPT !.tasks = t, !.mode = m, !.late = l]
    BY <1>2 DEF IncludeEffect, Includes
  <2>2. t \in SUBSET Tasks /\ c.teams \in SUBSET Teams /\ m \in Modes
    BY TasksTyped DEF Page, ChoiceTyped, Modes
  <2>3. l \in LateSaves /\ l.scope = Scope(c) /\ l.teams = c.teams /\ l.tasks = t
    BY <2>2, ScopeTyped DEF LateSaves
  <2> HIDE DEF t, l, m
  <2>4. DOMAIN b = Fields
    BY DEF Page, Shape
  <2>5. Shape(r)
    BY <2>1, <2>4 DEF Shape
  <2>6. /\ SamePlace(b, r) /\ SameLoad(b, r) /\ SameView(b, r) /\ SameShown(b, r)
        /\ SameMarks(b, r) /\ SameStored(b, r)
        /\ r.cache = b.cache /\ r.teams = b.teams /\ r.baseline = b.baseline
        /\ r.renewed = b.renewed /\ r.late = l /\ r.tasks = t /\ r.mode = m
    BY <2>1, <2>4 DEF Fields, SamePlace, SameLoad, SameView, SameShown, SameMarks, SameStored
  <2>7. /\ PlaceTyped(r) /\ LoadTyped(r) /\ ViewTyped(r) /\ ShownTyped(r) /\ MarksTyped(r)
        /\ StoredTyped(r) /\ CacheTyped(r)
    BY <2>6 DEF Page, SamePlace, SameLoad, SameView, SameShown, SameMarks, SameStored, PlaceTyped,
                LoadTyped, ViewTyped, ShownTyped, MarksTyped, StoredTyped, CacheTyped
  <2>8. ChoiceTyped(r) /\ RestTyped(r)
    BY <2>2, <2>3, <2>6 DEF Page, ChoiceTyped, RestTyped
  <2>9. Page(r)
    BY <2>5, <2>7, <2>8 DEF Page
  <2> QED
    BY <1>2, <2>3, <2>6, <2>9 DEF m
<1> QED
  BY <1>1, <1>2

LEMMA SprintWorks ==
  ASSUME NEW p, NEW c, Page(c), NEW b, Page(b), NEW r, r = SprintEffect(p, c, b)
  PROVE  /\ Page(r) /\ SamePlace(b, r) /\ SameChoice(b, r) /\ SameView(b, r) /\ SameShown(b, r)
         /\ SameMarks(b, r) /\ SameRest(b, r) /\ SameStored(b, r) /\ r.cache = b.cache
         /\ r.loading = b.loading /\ r.asked = b.asked
         /\ c.sprint = p.sprint => r = b
         /\ c.sprint # p.sprint => ~r.fetched /\ r.touched /\ r.lastLoaded = None
<1>1. CASE c.sprint = p.sprint
  BY <1>1 DEF SprintEffect, SamePlace, SameChoice, SameView, SameShown, SameMarks, SameRest, SameStored
<1>2. CASE c.sprint # p.sprint
  <2>1. r = [b EXCEPT !.fetched = FALSE, !.rows = {}, !.touched = TRUE, !.lastLoaded = None]
    BY <1>2 DEF SprintEffect
  <2>2. Page(r)
    BY <2>1, SprintSet
  <2>3. DOMAIN b = Fields
    BY DEF Page, Shape
  <2> QED
    BY <1>2, <2>1, <2>2, <2>3 DEF Fields, SamePlace, SameChoice, SameView, SameShown, SameMarks,
                                  SameRest, SameStored
<1> QED
  BY <1>1, <1>2

LEMMA LoadWorks ==
  ASSUME NEW p, NEW c, Page(c), NEW b, Page(b), NEW r, r = LoadEffect(p, c, b)
  PROVE  /\ Page(r) /\ SamePlace(b, r) /\ SameChoice(b, r) /\ SameView(b, r) /\ SameShown(b, r)
         /\ SameMarks(b, r) /\ SameRest(b, r) /\ SameStored(b, r) /\ r.cache = b.cache
         /\ r.fetched = b.fetched /\ r.lastLoaded = b.lastLoaded /\ r.rows = b.rows
         /\ r.touched = b.touched
         /\ Scope(c) = Scope(p) => r = b
         /\ r = b \/ r.loading
<1>1. CASE r = b
  BY <1>1 DEF SamePlace, SameChoice, SameView, SameShown, SameMarks, SameRest, SameStored
<1>2. CASE Scope(c) # Scope(p) /\ r # b
  <2> DEFINE a == Append(b.asked, Scope(c))
  <2>1. r = [b EXCEPT !.loading = TRUE, !.asked = a]
    BY <1>2 DEF LoadEffect
  <2>2. b.asked \in Seq(Scopes) /\ Scope(c) \in Scopes
    BY ScopeTyped DEF Page, LoadTyped
  <2>3. a \in Seq(Scopes)
    BY <2>2
  <2> HIDE DEF a
  <2>4. Page(r)
    BY <2>1, <2>3, LoadingSet
  <2>5. DOMAIN b = Fields
    BY DEF Page, Shape
  <2> QED
    BY <1>2, <2>1, <2>4, <2>5 DEF Fields, SamePlace, SameChoice, SameView, SameShown, SameMarks,
                                  SameRest, SameStored
<1>3. Scope(c) = Scope(p) => r = b
  BY DEF LoadEffect
<1> QED
  BY <1>1, <1>2, <1>3

\* Are the teams of the scope hydrated in this render?
Hydrates(p, c) == (c.touched \/ <<Scope(c), c.fetched>> # <<Scope(p), p.fetched>>) /\ c.fetched

\* What they are hydrated with.
Hydrated(c, b) == TeamsInScope(TeamsToHydrate(c, b), c.group)

LEMMA OptionsTyped ==
  ASSUME NEW c, Page(c), NEW teams
  PROVE  /\ TeamsInScope(teams, c.group) \subseteq TeamOptions(c.group)
         /\ TeamOptions(c.group) \subseteq Teams
BY ScopeTyped, SelectionAssumption DEF TeamsInScope, TeamOptions

LEMMA TeamHydrationWorks ==
  ASSUME NEW p, NEW c, Page(c), NEW b, Page(b), NEW r, r = TeamHydrationEffect(p, c, b)
  PROVE  /\ Page(r) /\ SamePlace(b, r) /\ SameLoad(b, r) /\ SameView(b, r) /\ SameShown(b, r)
         /\ SameRest(b, r) /\ r.plans = b.plans /\ r.cache = b.cache
         /\ r.tasks = b.tasks /\ r.mode = b.mode
         /\ ~Hydrates(p, c) => r = b
         /\ Hydrates(p, c) =>
               /\ r.teams = Hydrated(c, b)
               /\ r.teamPlans = [b.teamPlans EXCEPT ![Scope(c)] = Hydrated(c, b)]
               /\ r.hydratedTeams \in TeamMarks /\ r.hydratedTeams.scope = Scope(c)
               /\ r.hydratedTeams.teams = Hydrated(c, b)
               /\ r.teamsHydrated = Scope(c) /\ r.skipPersist = Scope(c)
               /\ r.carried = None \/ (r.carried = b.carried /\ b.carried.scope # Scope(c))
<1>1. CASE ~Hydrates(p, c)
  BY <1>1 DEF TeamHydrationEffect, Hydrates, SamePlace, SameLoad, SameView, SameShown, SameRest
<1>2. CASE Hydrates(p, c)
  <2> DEFINE n == Hydrated(c, b)
             k == Scope(c)
             tp == [b.teamPlans EXCEPT ![k] = n]
             h == [scope |-> k, teams |-> n]
             d == IF b.carried # None /\ b.carried.scope = Scope(c) THEN None ELSE b.carried
  <2>1. r = [b EXCEPT !.teams = n, !.teamPlans = tp, !.teamsHydrated = k,
                      !.hydratedTeams = h, !.skipPersist = k, !.carried = d]
    BY <1>2 DEF TeamHydrationEffect, Hydrates, Hydrated
  <2>2. n \in SUBSET Teams /\ k \in Scopes
    BY OptionsTyped, ScopeTyped DEF Hydrated
  <2>3. tp \in [Scopes -> (SUBSET Teams) \cup {None}]
    <3> HIDE DEF n, k
    <3> QED
      BY <2>2 DEF Page, StoredTyped
  <2>4. h \in TeamMarks /\ h.scope = k /\ h.teams = n
    <3> HIDE DEF n, k
    <3> QED
      BY <2>2 DEF TeamMarks
  <2>5. d \in TeamMarks \cup {None} /\ (d = None \/ (d = b.carried /\ b.carried.scope # Scope(c)))
    BY DEF Page, MarksTyped
  <2> HIDE DEF n, k, tp, h, d
  <2>6. DOMAIN b = Fields
    BY DEF Page, Shape
  <2>7. Shape(r)
    BY <2>1, <2>6 DEF Shape
  <2>8. /\ SamePlace(b, r) /\ SameLoad(b, r) /\ SameView(b, r) /\ SameShown(b, r)
        /\ SameRest(b, r) /\ r.tasks = b.tasks /\ r.mode = b.mode /\ r.plans = b.plans
        /\ r.cache = b.cache /\ r.teams = n /\ r.teamPlans = tp /\ r.teamsHydrated = k
        /\ r.hydratedTeams = h /\ r.skipPersist = k /\ r.carried = d
    BY <2>1, <2>6 DEF Fields, SamePlace, SameLoad, SameView, SameShown, SameRest
  <2>9. /\ PlaceTyped(r) /\ LoadTyped(r) /\ ViewTyped(r) /\ ShownTyped(r)
        /\ RestTyped(r) /\ CacheTyped(r)
    BY <2>8 DEF Page, SamePlace, SameLoad, SameView, SameShown, SameRest, PlaceTyped,
                LoadTyped, ViewTyped, ShownTyped, RestTyped, CacheTyped
  <2>10. /\ ChoiceTyped(r) /\ MarksTyped(r) /\ StoredTyped(r)
    BY <2>2, <2>3, <2>4, <2>5, <2>8 DEF Page, ChoiceTyped, MarksTyped, StoredTyped
  <2>11. Page(r)
    BY <2>7, <2>9, <2>10 DEF Page
  <2> QED
    BY <1>2, <2>4, <2>5, <2>8, <2>11 DEF n, k, tp
<1> QED
  BY <1>1, <1>2

LEMMA TeamPersistWorks ==
  ASSUME NEW p, NEW c, Page(c), NEW b, Page(b), NEW r, r = TeamPersistEffect(p, c, b)
  PROVE  /\ Page(r) /\ SamePlace(b, r) /\ SameLoad(b, r) /\ SameChoice(b, r) /\ SameView(b, r)
         /\ SameShown(b, r) /\ SameRest(b, r) /\ r.plans = b.plans /\ r.cache = b.cache
         /\ r.carried = b.carried /\ r.hydratedTeams = b.hydratedTeams
         /\ r.teamsHydrated = b.teamsHydrated
         /\ <<Scope(c), c.teams>> = <<Scope(p), p.teams>> => r = b
         /\ \/ r.teamPlans = b.teamPlans
            \/ r.teamPlans = [b.teamPlans EXCEPT ![Scope(c)] = c.teams]
<1>1. CASE r = b
  BY <1>1 DEF SamePlace, SameLoad, SameChoice, SameView, SameShown, SameRest
<1>2. CASE r = [b EXCEPT !.skipPersist = None] /\ <<Scope(c), c.teams>> # <<Scope(p), p.teams>>
  <2>1. DOMAIN b = Fields
    BY DEF Page, Shape
  <2>2. Shape(r)
    BY <1>2, <2>1 DEF Shape
  <2>3. /\ SamePlace(b, r) /\ SameLoad(b, r) /\ SameChoice(b, r) /\ SameView(b, r)
        /\ SameShown(b, r) /\ SameRest(b, r) /\ SameStored(b, r)
        /\ r.teamsHydrated = b.teamsHydrated /\ r.hydratedTeams = b.hydratedTeams
        /\ r.carried = b.carried /\ r.cache = b.cache /\ r.skipPersist = None
    BY <1>2, <2>1 DEF Fields, SamePlace, SameLoad, SameChoice, SameView, SameShown,
                      SameRest, SameStored
  <2>4. /\ PlaceTyped(r) /\ LoadTyped(r) /\ ChoiceTyped(r) /\ ViewTyped(r)
        /\ ShownTyped(r) /\ RestTyped(r) /\ StoredTyped(r) /\ CacheTyped(r)
    BY <2>3 DEF Page, SamePlace, SameLoad, SameChoice, SameView, SameShown, SameRest,
                SameStored, PlaceTyped, LoadTyped, ChoiceTyped, ViewTyped, ShownTyped,
                RestTyped, StoredTyped, CacheTyped
  <2>5. /\ MarksTyped(r)
    BY <2>3 DEF Page, MarksTyped
  <2>6. Page(r)
    BY <2>2, <2>4, <2>5 DEF Page
  <2> QED
    BY <1>2, <2>3, <2>6
<1>3. CASE /\ r = [b EXCEPT !.teamPlans[Scope(c)] = c.teams]
           /\ <<Scope(c), c.teams>> # <<Scope(p), p.teams>>
  <2> DEFINE tp == [b.teamPlans EXCEPT ![Scope(c)] = c.teams]
  <2>1. r = [b EXCEPT !.teamPlans = tp]
    BY <1>3
  <2>2. tp \in [Scopes -> (SUBSET Teams) \cup {None}]
    BY ScopeTyped DEF Page, StoredTyped, ChoiceTyped
  <2> HIDE DEF tp
  <2>3. DOMAIN b = Fields
    BY DEF Page, Shape
  <2>4. Shape(r)
    BY <2>1, <2>3 DEF Shape
  <2>5. /\ SamePlace(b, r) /\ SameLoad(b, r) /\ SameChoice(b, r) /\ SameView(b, r)
        /\ SameShown(b, r) /\ SameMarks(b, r) /\ SameRest(b, r) /\ r.plans = b.plans
        /\ r.cache = b.cache /\ r.teamPlans = tp
    BY <2>1, <2>3 DEF Fields, SamePlace, SameLoad, SameChoice, SameView, SameShown,
                      SameMarks, SameRest
  <2>6. /\ PlaceTyped(r) /\ LoadTyped(r) /\ ChoiceTyped(r) /\ ViewTyped(r)
        /\ ShownTyped(r) /\ MarksTyped(r) /\ RestTyped(r) /\ CacheTyped(r)
    BY <2>5 DEF Page, SamePlace, SameLoad, SameChoice, SameView, SameShown, SameMarks,
                SameRest, PlaceTyped, LoadTyped, ChoiceTyped, ViewTyped, ShownTyped,
                MarksTyped, RestTyped, CacheTyped
  <2>7. /\ StoredTyped(r)
    BY <2>2, <2>5 DEF Page, StoredTyped
  <2>8. Page(r)
    BY <2>4, <2>6, <2>7 DEF Page
  <2> QED
    BY <1>3, <2>5, <2>8 DEF tp
<1>4. CASE <<Scope(c), c.teams>> # <<Scope(p), p.teams>> /\ b.teamsHydrated = Scope(c)
  <2>1. CASE b.skipPersist = Scope(c)
    <3>1. r = [b EXCEPT !.skipPersist = None]
      BY <1>4, <2>1 DEF TeamPersistEffect
    <3> QED
      BY <1>2, <1>4, <3>1
  <2>2. CASE b.skipPersist # Scope(c)
    <3>1. r = [b EXCEPT !.teamPlans[Scope(c)] = c.teams]
      BY <1>4, <2>2 DEF TeamPersistEffect
    <3> QED
      BY <1>3, <1>4, <3>1
  <2> QED
    BY <2>1, <2>2
<1>5. CASE <<Scope(c), c.teams>> = <<Scope(p), p.teams>> \/ b.teamsHydrated # Scope(c)
  <2>1. r = b
    BY <1>5 DEF TeamPersistEffect
  <2> QED
    BY <1>1, <2>1
<1> QED
  BY <1>4, <1>5

LEMMA SavedLateWorks ==
  ASSUME NEW b, Page(b), NEW r, r = SavedLate(b)
  PROVE  /\ Page(r) /\ SamePlace(b, r) /\ SameLoad(b, r) /\ SameChoice(b, r) /\ SameView(b, r)
         /\ SameShown(b, r) /\ SameMarks(b, r) /\ r.baseline = b.baseline
         /\ r.teamPlans = b.teamPlans /\ r.cache = b.cache
         /\ r.late = None
         /\ b.late = None => r = b
         /\ b.late # None =>
               /\ r.renewed
               /\ r.plans = [b.plans EXCEPT ![b.late.scope] =
                                [tasks |-> b.late.tasks, mode |-> "manual", teams |-> b.late.teams]]
<1>1. CASE b.late = None
  BY <1>1 DEF SavedLate, SamePlace, SameLoad, SameChoice, SameView, SameShown, SameMarks
<1>2. CASE b.late # None
  <2> DEFINE q == [tasks |-> b.late.tasks, mode |-> "manual", teams |-> b.late.teams]
             k == b.late.scope
             pl == [b.plans EXCEPT ![k] = q]
             s == SavePlan(b, b.late.scope, b.late.tasks, "manual", b.late.teams)
  <2>1. b.late \in LateSaves
    BY <1>2 DEF Page, RestTyped
  <2>2. k \in Scopes /\ q \in Plans
    BY <2>1 DEF LateSaves, Plans, Modes
  <2>3. pl \in [Scopes -> Plans \cup {None}]
    <3> HIDE DEF k, q
    <3> QED
      BY <2>2 DEF Page, StoredTyped
  <2>4. s = [b EXCEPT !.plans = pl, !.renewed = TRUE]
    BY DEF SavePlan
  <2>5. r = [s EXCEPT !.late = None]
    BY <1>2 DEF SavedLate
  <2>6. r = [b EXCEPT !.plans = pl, !.renewed = TRUE, !.late = None]
    <3> HIDE DEF pl, s
    <3> QED
      BY <2>4, <2>5
  <2> HIDE DEF k, q, pl, s
  <2>7. DOMAIN b = Fields
    BY DEF Page, Shape
  <2>8. Shape(r)
    BY <2>6, <2>7 DEF Shape
  <2>9. /\ SamePlace(b, r) /\ SameLoad(b, r) /\ SameChoice(b, r) /\ SameView(b, r)
        /\ SameShown(b, r) /\ SameMarks(b, r) /\ r.baseline = b.baseline
        /\ r.teamPlans = b.teamPlans /\ r.cache = b.cache /\ r.plans = pl
        /\ r.renewed = TRUE /\ r.late = None
    BY <2>6, <2>7 DEF Fields, SamePlace, SameLoad, SameChoice, SameView, SameShown,
                      SameMarks
  <2>10. /\ PlaceTyped(r) /\ LoadTyped(r) /\ ChoiceTyped(r) /\ ViewTyped(r)
        /\ ShownTyped(r) /\ MarksTyped(r) /\ CacheTyped(r)
    BY <2>9 DEF Page, SamePlace, SameLoad, SameChoice, SameView, SameShown, SameMarks,
                PlaceTyped, LoadTyped, ChoiceTyped, ViewTyped, ShownTyped, MarksTyped,
                CacheTyped
  <2>11. /\ RestTyped(r) /\ StoredTyped(r)
    BY <2>3, <2>9 DEF Page, RestTyped, StoredTyped
  <2>12. Page(r)
    BY <2>8, <2>10, <2>11 DEF Page
  <2> QED
    BY <1>2, <2>9, <2>12 DEF k, q, pl
<1> QED
  BY <1>1, <1>2

\* Does the render ask for the selection to be reconciled?
WillReconcile(p, c) == c.touched \/ c.renewed \/ Watched(c) # Watched(p)

\* It is, where the board is loaded and its teams are those that were hydrated.
Fires(p, c, b) ==
    WillReconcile(p, c) /\ c.fetched /\ ~c.loading /\ b.lastLoaded = c.sprint /\ ~Settling(c, b)

LEMMA ResolvedTyped ==
  ASSUME NEW c, Page(c)
  PROVE  [tasks |-> Resolved(c), mode |-> c.mode, teams |-> TeamsInScope(c.teams, c.group)] \in Plans
<1>1. Resolved(c) \in SUBSET Tasks
  BY TasksTyped
<1>2. TeamsInScope(c.teams, c.group) \in SUBSET Teams
  BY OptionsTyped
<1>3. c.mode \in Modes
  BY DEF Page, ChoiceTyped
<1> QED
  BY <1>1, <1>2, <1>3 DEF Plans

\* What reconciling leaves alone.
BesidesReconciled(b, r) ==
    /\ SamePlace(b, r) /\ SameLoad(b, r) /\ SameShown(b, r)
    /\ r.planning = b.planning /\ r.search = b.search /\ r.late = b.late
    /\ r.renewed = b.renewed /\ r.teamPlans = b.teamPlans /\ r.cache = b.cache
    /\ r.carried = b.carried

\* What it puts in place.
SelectionReconciled(c, b, r) ==
    /\ r.tasks \cap SelectionTasks(c) = Resolved(c)
    /\ b.tasks \cap SelectionTasks(c) = Resolved(c) => r.tasks = b.tasks
    /\ r.teams = TeamsInScope(c.teams, c.group) /\ r.mode = c.mode
    /\ r.plans = [b.plans EXCEPT ![Scope(c)] =
                     [tasks |-> Resolved(c), mode |-> c.mode,
                      teams |-> TeamsInScope(c.teams, c.group)]]
    /\ r.hydratedTeams = None \/ r.hydratedTeams.scope # Scope(c)

LEMMA ReconcileWorks ==
  ASSUME NEW p, NEW c, Page(c), NEW b, Page(b), NEW r, r = ReconcileEffect(p, c, b)
  PROVE  /\ Page(r) /\ BesidesReconciled(b, r)
         /\ ~Fires(p, c, b) => r = b
         /\ Fires(p, c, b) => SelectionReconciled(c, b, r)
         /\ r.undo => b.undo
         /\ r.undo => r.baseline = b.baseline
<1>1. CASE ~Fires(p, c, b)
  <2>1. r = b
    BY <1>1 DEF ReconcileEffect, Fires, WillReconcile
  <2> QED
    BY <1>1, <2>1 DEF BesidesReconciled, SamePlace, SameLoad, SameShown
<1>2. CASE Fires(p, c, b)
  <2> DEFINE n == Resolved(c)
             ts == TeamsInScope(c.teams, c.group)
             t == IF b.tasks \cap SelectionTasks(c) = n THEN b.tasks ELSE n
             m == c.mode
             q == [tasks |-> n, mode |-> m, teams |-> ts]
             pl == [b.plans EXCEPT ![Scope(c)] = q]
             h == IF b.hydratedTeams # None /\ b.hydratedTeams.scope = Scope(c)
                  THEN None ELSE b.hydratedTeams
             kept == b.baseline # None /\ b.baseline.scope = Scope(c)
             bl == IF kept THEN b.baseline ELSE [scope |-> Scope(c), tasks |-> n, mode |-> m]
             u == IF kept THEN b.undo ELSE FALSE
  <2>1. r = [b EXCEPT !.tasks = t, !.teams = ts, !.mode = m, !.plans = pl, !.hydratedTeams = h,
                      !.baseline = bl, !.undo = u]
    <3>1. PICK x : x = [b EXCEPT !.hydratedTeams = h]
      OBVIOUS
    <3>2. DOMAIN b = Fields
      BY DEF Page, Shape
    <3>3. /\ DOMAIN x = Fields /\ x.tasks = b.tasks /\ x.plans = b.plans
          /\ x.baseline = b.baseline /\ x.undo = b.undo
      BY <3>1, <3>2 DEF Fields
    <3>4. PICK y : y = Reconciled(c, x)
      OBVIOUS
    <3>5. y = [x EXCEPT !.tasks = t, !.teams = ts, !.mode = m, !.plans = pl]
      BY <3>3, <3>4 DEF Reconciled
    <3>6. r = Baseline(c, y)
      BY <1>2, <3>1, <3>4 DEF ReconcileEffect, Fires, WillReconcile
    <3> HIDE DEF n, ts, t, m, q, pl, h
    <3>7. DOMAIN y = Fields /\ y.baseline = b.baseline /\ y.undo = b.undo
      BY <3>3, <3>5 DEF Fields
    <3>8. CASE kept
      <4>1. r = y
        BY <3>6, <3>7, <3>8 DEF Baseline
      <4>2. bl = b.baseline /\ u = b.undo
        BY <3>8
      <4> HIDE DEF bl, u, kept
      <4>3. [b EXCEPT !.tasks = t, !.teams = ts, !.mode = m, !.plans = pl, !.hydratedTeams = h,
                      !.baseline = b.baseline, !.undo = b.undo] = y
        <5>1. Shape(b)
          BY DEF Page
        <5> QED
          BY <3>1, <3>2, <3>5, <5>1 DEF Fields, Shape
      <4> QED
        BY <4>1, <4>2, <4>3
    <3>9. CASE ~kept
      <4>1. r = [y EXCEPT !.baseline = bl, !.undo = u]
        BY <3>6, <3>7, <3>9 DEF Baseline, n, m
      <4> HIDE DEF bl, u, kept
      <4> QED
        BY <3>1, <3>5, <4>1
    <3> QED
      BY <3>8, <3>9
  <2>2. t \in SUBSET Tasks /\ ts \in SUBSET Teams /\ m \in Modes
    BY TasksTyped, OptionsTyped DEF Page, ChoiceTyped
  <2>3. pl \in [Scopes -> Plans \cup {None}]
    <3>1. q \in Plans /\ Scope(c) \in Scopes
      BY ResolvedTyped, ScopeTyped
    <3> HIDE DEF q
    <3> QED
      BY <3>1 DEF Page, StoredTyped
  <2>4. h \in TeamMarks \cup {None} /\ (h = None \/ h.scope # Scope(c))
    BY DEF Page, MarksTyped
  <2>5. bl \in Baselines \cup {None} /\ u \in BOOLEAN /\ (u => b.undo /\ bl = b.baseline)
    <3>1. n \in SUBSET Tasks /\ m \in Modes /\ Scope(c) \in Scopes
      BY <2>2, TasksTyped, ScopeTyped
    <3> HIDE DEF n, m
    <3>2. [scope |-> Scope(c), tasks |-> n, mode |-> m] \in Baselines
      BY <3>1 DEF Baselines
    <3>3. b.baseline \in Baselines \cup {None} /\ b.undo \in BOOLEAN
      BY DEF Page, RestTyped, ViewTyped
    <3> QED
      BY <3>2, <3>3
  <2>6. /\ t \cap SelectionTasks(c) = n
        /\ b.tasks \cap SelectionTasks(c) = n => t = b.tasks
    BY TasksTyped
  <2> HIDE DEF n, ts, t, m, q, pl, h, kept, bl, u
  <2>7. DOMAIN b = Fields
    BY DEF Page, Shape
  <2>8. Shape(r)
    BY <2>1, <2>7 DEF Shape
  <2>9. /\ SamePlace(b, r) /\ SameLoad(b, r) /\ SameShown(b, r)
        /\ r.planning = b.planning /\ r.search = b.search
        /\ r.teamsHydrated = b.teamsHydrated /\ r.carried = b.carried
        /\ r.skipPersist = b.skipPersist /\ r.late = b.late /\ r.renewed = b.renewed
        /\ r.teamPlans = b.teamPlans /\ r.cache = b.cache /\ r.tasks = t
        /\ r.teams = ts /\ r.mode = m /\ r.plans = pl /\ r.hydratedTeams = h
        /\ r.baseline = bl /\ r.undo = u
    BY <2>1, <2>7 DEF Fields, SamePlace, SameLoad, SameShown
  <2>10. /\ PlaceTyped(r) /\ LoadTyped(r) /\ ShownTyped(r) /\ CacheTyped(r)
    BY <2>9 DEF Page, SamePlace, SameLoad, SameShown, PlaceTyped, LoadTyped, ShownTyped,
                CacheTyped
  <2>11. /\ ChoiceTyped(r) /\ ViewTyped(r) /\ MarksTyped(r) /\ RestTyped(r)
        /\ StoredTyped(r)
    BY <2>2, <2>3, <2>4, <2>5, <2>9 DEF Page, ChoiceTyped, ViewTyped, MarksTyped, RestTyped, StoredTyped
  <2>12. Page(r)
    BY <2>8, <2>10, <2>11 DEF Page
  <2> QED
    BY <1>2, <2>4, <2>5, <2>6, <2>9, <2>12
       DEF n, ts, m, q, pl, SelectionReconciled, BesidesReconciled, SamePlace, SameLoad, SameShown
<1> QED
  BY <1>1, <1>2

-----------------------------------------------------------------------------
(* The effects of one render together.                                     *)

Started(c) == [c EXCEPT !.touched = FALSE, !.renewed = FALSE]

Displayed(p, c) ==
    IncludeEffect(p, c, HydrationEffect(c, GroupEffect(c, SnapshotEffect(p, c, Started(c)))))

\* What the last two steps of a render start from.
Ready(p, c) ==
    TeamPersistEffect(p, c, TeamHydrationEffect(p, c,
        LoadEffect(p, c, SprintEffect(p, c, Displayed(p, c)))))

LEMMA FlushedSteps ==
  ASSUME NEW p, NEW c
  PROVE  Flushed(p, c) = SavedLate(ReconcileEffect(p, c, Ready(p, c)))
BY DEF Flushed, Ready, Displayed, Started

LEMMA StartWorks ==
  ASSUME NEW b, Page(b), NEW r, r = Started(b)
  PROVE  /\ Page(r) /\ SamePlace(b, r) /\ SameChoice(b, r) /\ SameView(b, r) /\ SameShown(b, r)
         /\ SameMarks(b, r) /\ SameStored(b, r) /\ r.cache = b.cache
         /\ r.fetched = b.fetched /\ r.loading = b.loading /\ r.lastLoaded = b.lastLoaded
         /\ r.asked = b.asked /\ r.rows = b.rows /\ r.baseline = b.baseline /\ r.late = b.late
         /\ ~r.touched /\ ~r.renewed
<1>1. r = [b EXCEPT !.touched = FALSE, !.renewed = FALSE]
  BY DEF Started
<1>2. DOMAIN b = Fields
  BY DEF Page, Shape
<1>3. Shape(r)
  BY <1>1, <1>2 DEF Shape
<1>4. /\ SamePlace(b, r) /\ SameChoice(b, r) /\ SameView(b, r) /\ SameShown(b, r)
      /\ SameMarks(b, r) /\ SameStored(b, r) /\ r.fetched = b.fetched
      /\ r.loading = b.loading /\ r.lastLoaded = b.lastLoaded /\ r.asked = b.asked
      /\ r.rows = b.rows /\ r.baseline = b.baseline /\ r.late = b.late
      /\ r.cache = b.cache /\ r.touched = FALSE /\ r.renewed = FALSE
  BY <1>1, <1>2 DEF Fields, SamePlace, SameChoice, SameView, SameShown, SameMarks,
                    SameStored
<1>5. /\ PlaceTyped(r) /\ ChoiceTyped(r) /\ ViewTyped(r) /\ ShownTyped(r)
      /\ MarksTyped(r) /\ StoredTyped(r) /\ CacheTyped(r)
  BY <1>4 DEF Page, SamePlace, SameChoice, SameView, SameShown, SameMarks, SameStored,
              PlaceTyped, ChoiceTyped, ViewTyped, ShownTyped, MarksTyped, StoredTyped,
              CacheTyped
<1>6. /\ LoadTyped(r) /\ RestTyped(r)
  BY <1>4 DEF Page, LoadTyped, RestTyped
<1>7. Page(r)
  BY <1>3, <1>5, <1>6 DEF Page
<1> QED
  BY <1>4, <1>7

\* Where another group's state is on the page, or another sprint's and nothing
\* of this one is kept, it is replaced.
Unshown(c) ==
    c.groupShown # c.group \/ (c.hydrated # Scope(c) /\ ~Fits(c, c.cache[c.group]))

Shown(c) == c.groupShown = c.group /\ c.hydrated = Scope(c)

\* What is kept for the group is of the sprint.
Current(c) == c.cache[c.group] # None => c.cache[c.group].sprint = c.sprint

LEMMA DisplayedWorks ==
  ASSUME NEW p, NEW c, Page(c), c.late = None, NEW b, b = Displayed(p, c)
  PROVE  /\ Page(b) /\ SamePlace(c, b) /\ SameMarks(c, b) /\ SameStored(c, b) /\ Shown(b)
         /\ b.loading = c.loading /\ b.lastLoaded = c.lastLoaded /\ b.asked = c.asked
         /\ b.baseline = c.baseline /\ ~b.renewed
         /\ Unshown(c) => b.touched /\ ~b.undo
         /\ Shown(c) => ~b.touched
         /\ b.undo => c.undo
         /\ b.touched \/ /\ b.fetched = c.fetched /\ b.rows = c.rows /\ b.teams = c.teams
                         /\ SameView(c, b)
                         /\ ~Includes(p, c) => SameChoice(c, b)
         /\ (Shown(c) => Current(c)) => Current(b)
         /\ ~Includes(p, c) => b.late = None
         /\ Includes(p, c) => b.late \in LateSaves /\ b.late.scope = Scope(c)
<1>1. PICK w : w = Started(c)
  OBVIOUS
<1>2. PICK x : x = SnapshotEffect(p, c, w)
  OBVIOUS
<1>3. PICK y : y = GroupEffect(c, x)
  OBVIOUS
<1>4. PICK z : z = HydrationEffect(c, y)
  OBVIOUS
<1>5. b = IncludeEffect(p, c, z)
  BY <1>1, <1>2, <1>3, <1>4 DEF Displayed
<1>6. /\ Page(w) /\ SamePlace(c, w) /\ SameChoice(c, w) /\ SameView(c, w) /\ SameShown(c, w)
      /\ SameMarks(c, w) /\ SameStored(c, w) /\ w.cache = c.cache
      /\ w.fetched = c.fetched /\ w.loading = c.loading /\ w.lastLoaded = c.lastLoaded
      /\ w.asked = c.asked /\ w.rows = c.rows /\ w.baseline = c.baseline /\ w.late = None
      /\ ~w.touched /\ ~w.renewed
  BY <1>1, StartWorks
<1>7. /\ Page(x) /\ SamePlace(w, x) /\ SameLoad(w, x) /\ SameChoice(w, x)
      /\ SameView(w, x) /\ SameShown(w, x) /\ SameMarks(w, x) /\ SameRest(w, x)
      /\ SameStored(w, x)
      /\ \/ x.cache = w.cache
         \/ /\ w.groupShown = c.group /\ w.hydrated = Scope(c)
            /\ x.cache = [w.cache EXCEPT ![c.group] = Snapshot(c)]
  <2>1. Page(w)
    BY <1>6
  <2> QED
    BY <1>2, <2>1, SnapshotWorks
<1>8. /\ ~Shown(c) => x.cache = c.cache
      /\ Shown(c) => x.cache = c.cache \/ x.cache = [c.cache EXCEPT ![c.group] = Snapshot(c)]
  <2>1. w.groupShown = c.groupShown /\ w.hydrated = c.hydrated /\ w.cache = c.cache
    BY <1>6 DEF SameShown
  <2> QED
    BY <1>7, <2>1 DEF Shown
<1>9. /\ Page(y) /\ BesidesApplied(x, y)
      /\ y.groupShown = c.group /\ y.hydrated = x.hydrated
      /\ x.groupShown = c.group => y = x
      /\ x.groupShown # c.group =>
            y.touched /\ ~y.undo /\ (y.cache[c.group] # None => y.cache[c.group].sprint = c.sprint)
  BY <1>3, <1>7, GroupWorks
<1>10. /\ Page(z) /\ BesidesApplied(y, z)
       /\ z.hydrated = Scope(c) /\ z.groupShown = y.groupShown
       /\ y.hydrated = Scope(c) => z = y
       /\ y.hydrated # Scope(c) =>
             /\ z.cache[c.group] # None => z.cache[c.group].sprint = c.sprint
             /\ \/ Fits(c, y.cache[c.group]) /\ Unapplied(y, z)
                \/ ~Fits(c, y.cache[c.group]) /\ z.touched /\ ~z.undo
  BY <1>4, <1>9, HydrationWorks
<1>11. /\ Page(b) /\ SamePlace(z, b) /\ SameLoad(z, b) /\ SameView(z, b) /\ SameShown(z, b)
       /\ SameMarks(z, b) /\ SameStored(z, b)
       /\ b.cache = z.cache /\ b.teams = z.teams /\ b.baseline = z.baseline
       /\ b.renewed = z.renewed
       /\ ~Includes(p, c) => b = z
       /\ Includes(p, c) => b.late \in LateSaves /\ b.late.scope = Scope(c)
  <2>1. Page(z)
    BY <1>10
  <2> QED
    BY <1>5, <2>1, IncludeWorks
<1>12. /\ SamePlace(c, b) /\ SameMarks(c, b) /\ SameStored(c, b)
       /\ b.loading = c.loading /\ b.lastLoaded = c.lastLoaded /\ b.asked = c.asked
       /\ b.baseline = c.baseline /\ ~b.renewed /\ z.late = None
  BY <1>6, <1>7, <1>9, <1>10, <1>11 DEF BesidesApplied, SamePlace, SameMarks, SameStored, SameRest, SameLoad
<1>13. Shown(b)
  <2>1. Scope(b) = Scope(c) /\ b.group = c.group
    BY <1>12 DEF SamePlace, Scope
  <2> QED
    BY <1>9, <1>10, <1>11, <2>1 DEF Shown, SameShown
<1>14. x.groupShown = c.groupShown /\ x.hydrated = c.hydrated
  BY <1>6, <1>7 DEF SameShown
<1>15. Current(b) <=> (z.cache[c.group] # None => z.cache[c.group].sprint = c.sprint)
  BY <1>11, <1>12 DEF Current, SamePlace
<1>16. CASE Shown(c)
  <2>1. z = x
    BY <1>9, <1>10, <1>14, <1>16 DEF Shown
  <2>2. ~Unshown(c)
    BY <1>16 DEF Shown, Unshown
  <2>3. /\ z.touched = c.touched \/ ~z.touched
        /\ ~z.touched /\ z.fetched = c.fetched /\ z.rows = c.rows /\ SameChoice(c, z)
        /\ SameView(c, z)
    BY <1>6, <1>7, <2>1 DEF SameLoad, SameChoice, SameView
  <2>4. b.fetched = c.fetched /\ b.rows = c.rows /\ b.teams = c.teams /\ SameView(c, b) /\ ~b.touched
    BY <1>11, <2>3 DEF SameLoad, SameView, SameChoice
  <2>5. ~Includes(p, c) => SameChoice(c, b)
    BY <1>11, <2>3
  <2>6. Current(c) => Current(b)
    <3>1. CASE x.cache = c.cache
      BY <1>15, <2>1, <3>1 DEF Current
    <3>2. CASE x.cache = [c.cache EXCEPT ![c.group] = Snapshot(c)]
      <4>1. x.cache[c.group] = Snapshot(c)
        BY <3>2, ScopeTyped DEF Page, CacheTyped
      <4> QED
        BY <1>15, <2>1, <4>1 DEF Snapshot
    <3> QED
      BY <1>8, <1>16, <3>1, <3>2
  <2>7. b.undo => c.undo
    BY <2>4 DEF SameView
  <2> QED
    BY <1>11, <1>12, <1>13, <1>16, <2>2, <2>4, <2>5, <2>6, <2>7
<1>17. CASE c.groupShown # c.group
  <2>1. y.touched /\ ~y.undo /\ (y.cache[c.group] # None => y.cache[c.group].sprint = c.sprint)
    BY <1>9, <1>14, <1>17
  <2>2. z.touched /\ ~z.undo /\ (z.cache[c.group] # None => z.cache[c.group].sprint = c.sprint)
    BY <1>10, <2>1 DEF Unapplied, SameLoad, SameView
  <2>3. b.touched /\ ~b.undo
    BY <1>11, <2>2 DEF SameLoad, SameView
  <2>4. ~Shown(c)
    BY <1>17 DEF Shown
  <2> QED
    BY <1>11, <1>12, <1>13, <1>15, <2>2, <2>3, <2>4
<1>18. CASE c.groupShown = c.group /\ c.hydrated # Scope(c)
  <2>1. y = x /\ x.cache = c.cache /\ ~Shown(c) /\ y.hydrated # Scope(c)
    BY <1>8, <1>9, <1>14, <1>18 DEF Shown
  <2>2. z.cache[c.group] # None => z.cache[c.group].sprint = c.sprint
    BY <1>10, <2>1
  <2>3. CASE Fits(c, c.cache[c.group]) /\ Unapplied(y, z)
    <3>1. /\ ~z.touched /\ z.fetched = c.fetched /\ z.rows = c.rows /\ SameChoice(c, z)
          /\ SameView(c, z)
      BY <1>6, <1>7, <2>1, <2>3 DEF Unapplied, SameLoad, SameChoice, SameView
    <3>2. b.fetched = c.fetched /\ b.rows = c.rows /\ b.teams = c.teams /\ SameView(c, b) /\ ~b.touched
      BY <1>11, <3>1 DEF SameLoad, SameView, SameChoice
    <3>3. ~Includes(p, c) => SameChoice(c, b)
      BY <1>11, <3>1
    <3>4. ~Unshown(c)
      BY <1>18, <2>3 DEF Unshown
    <3>5. b.undo => c.undo
      BY <3>2 DEF SameView
    <3> QED
      BY <1>11, <1>12, <1>13, <1>15, <2>1, <2>2, <3>2, <3>3, <3>4, <3>5
  <2>4. CASE ~Fits(c, c.cache[c.group]) /\ z.touched /\ ~z.undo
    <3>1. b.touched /\ ~b.undo
      BY <1>11, <2>4 DEF SameLoad, SameView
    <3> QED
      BY <1>11, <1>12, <1>13, <1>15, <2>1, <2>2, <3>1
  <2> QED
    BY <1>10, <2>1, <2>3, <2>4
<1> QED
  BY <1>16, <1>17, <1>18 DEF Shown

LEMMA HydratedSame ==
  ASSUME NEW c, NEW b, b.carried = c.carried, b.teamPlans = c.teamPlans
  PROVE  Hydrated(c, b) = Hydrated(c, c)
BY DEF Hydrated, TeamsToHydrate, TeamsToHydrateStored

LEMMA ReadyWorks ==
  ASSUME NEW p, NEW c, Page(c), c.late = None, NEW b, b = Ready(p, c)
  PROVE  /\ Page(b) /\ SamePlace(c, b) /\ Shown(b)
         /\ b.plans = c.plans /\ b.baseline = c.baseline /\ ~b.renewed
         /\ Unshown(c) \/ c.sprint # p.sprint => b.touched
         /\ Shown(c) /\ c.sprint = p.sprint => ~b.touched
         /\ Unshown(c) => ~b.undo
         /\ b.undo => c.undo
         /\ b.touched \/ /\ b.fetched = c.fetched /\ b.rows = c.rows
                         /\ b.lastLoaded = c.lastLoaded /\ SameView(c, b)
                         /\ ~Includes(p, c) => b.tasks = c.tasks /\ b.mode = c.mode
         /\ b.loading = c.loading \/ b.loading
         /\ Scope(c) = Scope(p) => b.loading = c.loading /\ b.asked = c.asked
         /\ (Shown(c) => Current(c)) => Current(b)
         /\ ~Includes(p, c) => b.late = None
         /\ Includes(p, c) => b.late \in LateSaves /\ b.late.scope = Scope(c)
         /\ Hydrates(p, c) =>
               /\ b.teams = Hydrated(c, c)
               /\ b.hydratedTeams.scope = Scope(c) /\ b.hydratedTeams.teams = b.teams
               /\ b.carried = None \/ (b.carried = c.carried /\ c.carried.scope # Scope(c))
         /\ ~Hydrates(p, c) =>
               /\ b.hydratedTeams = c.hydratedTeams /\ b.carried = c.carried
               /\ Shown(c) \/ ~b.touched => b.teams = c.teams
         /\ \A s \in Scopes : s # Scope(c) => b.teamPlans[s] = c.teamPlans[s]
         /\ b.teamPlans[Scope(c)] \in {c.teams, IF Hydrates(p, c) THEN Hydrated(c, c)
                                                ELSE c.teamPlans[Scope(c)]}
<1>1. PICK d : d = Displayed(p, c)
  OBVIOUS
<1>2. PICK e : e = SprintEffect(p, c, d)
  OBVIOUS
<1>3. PICK f : f = LoadEffect(p, c, e)
  OBVIOUS
<1>4. PICK g : g = TeamHydrationEffect(p, c, f)
  OBVIOUS
<1>5. b = TeamPersistEffect(p, c, g)
  BY <1>1, <1>2, <1>3, <1>4 DEF Ready
<1>6. /\ Page(d) /\ SamePlace(c, d) /\ SameMarks(c, d) /\ SameStored(c, d) /\ Shown(d)
      /\ d.loading = c.loading /\ d.lastLoaded = c.lastLoaded /\ d.asked = c.asked
      /\ d.baseline = c.baseline /\ ~d.renewed
      /\ Unshown(c) => d.touched /\ ~d.undo
      /\ Shown(c) => ~d.touched
      /\ d.undo => c.undo
      /\ d.touched \/ /\ d.fetched = c.fetched /\ d.rows = c.rows /\ d.teams = c.teams
                      /\ SameView(c, d)
                      /\ ~Includes(p, c) => SameChoice(c, d)
      /\ (Shown(c) => Current(c)) => Current(d)
      /\ ~Includes(p, c) => d.late = None
      /\ Includes(p, c) => d.late \in LateSaves /\ d.late.scope = Scope(c)
  BY <1>1, DisplayedWorks
<1>7. /\ Page(e) /\ SamePlace(d, e) /\ SameChoice(d, e) /\ SameView(d, e) /\ SameShown(d, e)
      /\ SameMarks(d, e) /\ SameRest(d, e) /\ SameStored(d, e) /\ e.cache = d.cache
      /\ e.loading = d.loading /\ e.asked = d.asked
      /\ c.sprint = p.sprint => e = d
      /\ c.sprint # p.sprint => ~e.fetched /\ e.touched /\ e.lastLoaded = None
  BY <1>2, <1>6, SprintWorks
<1>8. /\ Page(f) /\ SamePlace(e, f) /\ SameChoice(e, f) /\ SameView(e, f) /\ SameShown(e, f)
      /\ SameMarks(e, f) /\ SameRest(e, f) /\ SameStored(e, f) /\ f.cache = e.cache
      /\ f.fetched = e.fetched /\ f.lastLoaded = e.lastLoaded /\ f.rows = e.rows
      /\ f.touched = e.touched
      /\ Scope(c) = Scope(p) => f = e
      /\ f = e \/ f.loading
  <2>1. Page(e)
    BY <1>7
  <2> QED
    BY <1>3, <2>1, LoadWorks
<1>9. /\ Page(g) /\ SamePlace(f, g) /\ SameLoad(f, g) /\ SameView(f, g) /\ SameShown(f, g)
      /\ SameRest(f, g) /\ g.plans = f.plans /\ g.cache = f.cache
      /\ g.tasks = f.tasks /\ g.mode = f.mode
      /\ ~Hydrates(p, c) => g = f
      /\ Hydrates(p, c) =>
            /\ g.teams = Hydrated(c, f)
            /\ g.teamPlans = [f.teamPlans EXCEPT ![Scope(c)] = Hydrated(c, f)]
            /\ g.hydratedTeams.scope = Scope(c)
            /\ g.hydratedTeams.teams = Hydrated(c, f)
            /\ g.carried = None \/ (g.carried = f.carried /\ f.carried.scope # Scope(c))
  BY <1>4, <1>8, TeamHydrationWorks
<1>10. /\ Page(b) /\ SamePlace(g, b) /\ SameLoad(g, b) /\ SameChoice(g, b) /\ SameView(g, b)
       /\ SameShown(g, b) /\ SameRest(g, b) /\ b.plans = g.plans /\ b.cache = g.cache
       /\ b.carried = g.carried /\ b.hydratedTeams = g.hydratedTeams
       /\ \/ b.teamPlans = g.teamPlans
          \/ b.teamPlans = [g.teamPlans EXCEPT ![Scope(c)] = c.teams]
  BY <1>5, <1>9, TeamPersistWorks
<1>11. /\ SamePlace(c, b) /\ b.plans = c.plans /\ b.baseline = c.baseline /\ ~b.renewed
       /\ b.late = d.late /\ b.cache = d.cache /\ SameShown(d, b) /\ SameView(d, b)
  BY <1>6, <1>7, <1>8, <1>9, <1>10
     DEF SamePlace, SameRest, SameShown, SameView, SameStored
<1>12. Shown(b) /\ (Current(d) => Current(b))
  BY <1>6, <1>11 DEF Shown, SameShown, SamePlace, Scope, Current
<1>13. /\ b.touched = e.touched /\ b.fetched = e.fetched /\ b.rows = e.rows
       /\ b.lastLoaded = e.lastLoaded /\ b.tasks = d.tasks /\ b.mode = d.mode
  BY <1>7, <1>8, <1>9, <1>10 DEF SameLoad, SameChoice
<1>14. /\ Unshown(c) \/ c.sprint # p.sprint => b.touched
       /\ Shown(c) /\ c.sprint = p.sprint => ~b.touched
       /\ Unshown(c) => ~b.undo
       /\ b.undo => c.undo
  <2>1. b.undo = d.undo
    BY <1>11 DEF SameView
  <2>2. d.touched => e.touched
    BY <1>7
  <2> QED
    BY <1>6, <1>7, <1>13, <2>1, <2>2
<1>15. b.touched \/ /\ b.fetched = c.fetched /\ b.rows = c.rows
                    /\ b.lastLoaded = c.lastLoaded /\ SameView(c, b)
                    /\ ~Includes(p, c) => b.tasks = c.tasks /\ b.mode = c.mode
  <2>1. CASE e = d /\ ~d.touched
    BY <1>6, <1>11, <1>13, <2>1 DEF SameView, SameChoice
  <2>2. CASE e # d \/ d.touched
    BY <1>7, <1>13, <2>2
  <2> QED
    BY <2>1, <2>2
<1>16. /\ b.loading = f.loading /\ b.asked = f.asked /\ (f.loading = c.loading \/ f.loading)
       /\ Scope(c) = Scope(p) => f.loading = c.loading /\ f.asked = c.asked
  BY <1>6, <1>7, <1>8, <1>9, <1>10 DEF SameLoad
<1>17. /\ f.carried = c.carried /\ f.teamPlans = c.teamPlans /\ f.hydratedTeams = c.hydratedTeams
       /\ f.teams = d.teams
  BY <1>6, <1>7, <1>8 DEF SameMarks, SameStored, SameChoice
<1>18. Hydrated(c, f) = Hydrated(c, c)
  BY <1>17, HydratedSame
<1>19. Hydrates(p, c) =>
          /\ b.teams = Hydrated(c, c)
          /\ b.hydratedTeams.scope = Scope(c) /\ b.hydratedTeams.teams = b.teams
          /\ b.carried = None \/ (b.carried = c.carried /\ c.carried.scope # Scope(c))
  BY <1>9, <1>10, <1>17, <1>18 DEF SameChoice
<1>20. ~Hydrates(p, c) =>
          /\ b.hydratedTeams = c.hydratedTeams /\ b.carried = c.carried
          /\ Shown(c) \/ ~b.touched => b.teams = c.teams
  <2>1. Shown(c) \/ ~b.touched => d.teams = c.teams
    BY <1>6, <1>7, <1>13
  <2> QED
    BY <1>9, <1>10, <1>17, <2>1 DEF SameChoice
<1>21. /\ \A s \in Scopes : s # Scope(c) => b.teamPlans[s] = c.teamPlans[s]
       /\ b.teamPlans[Scope(c)] \in {c.teams, IF Hydrates(p, c) THEN Hydrated(c, c)
                                              ELSE c.teamPlans[Scope(c)]}
  <2>1. Scope(c) \in Scopes /\ DOMAIN c.teamPlans = Scopes /\ DOMAIN g.teamPlans = Scopes
    BY <1>9, ScopeTyped DEF Page, StoredTyped
  <2>2. /\ \A s \in Scopes : s # Scope(c) => g.teamPlans[s] = c.teamPlans[s]
        /\ g.teamPlans[Scope(c)] = IF Hydrates(p, c) THEN Hydrated(c, c)
                                   ELSE c.teamPlans[Scope(c)]
    BY <1>9, <1>17, <1>18, <2>1
  <2> QED
    BY <1>10, <2>1, <2>2
<1> QED
  BY <1>6, <1>10, <1>11, <1>12, <1>14, <1>15, <1>16, <1>19, <1>20, <1>21

\* A render changes what is stored for its own scope, and no other.
Elsewhere(c, r) ==
    \A s \in Scopes : s # Scope(c) => r.plans[s] = c.plans[s] /\ r.teamPlans[s] = c.teamPlans[s]

LEMMA FlushedWorks ==
  ASSUME NEW p, NEW c, Page(c), c.late = None, NEW r, r = Flushed(p, c)
  PROVE  /\ Page(r) /\ SamePlace(c, r) /\ r.late = None /\ Shown(r) /\ Elsewhere(c, r)
         /\ (Shown(c) => Current(c)) => Current(r)
         /\ r.undo => c.undo /\ ~Unshown(c) /\ r.baseline = c.baseline
         /\ Scope(r) = Scope(c)
<1>1. PICK b : b = Ready(p, c)
  OBVIOUS
<1>2. PICK q : q = ReconcileEffect(p, c, b)
  OBVIOUS
<1>3. r = SavedLate(q)
  BY <1>1, <1>2, FlushedSteps
<1>4. /\ Page(b) /\ SamePlace(c, b) /\ Shown(b)
      /\ b.plans = c.plans /\ b.baseline = c.baseline /\ ~b.renewed
      /\ Unshown(c) => ~b.undo
      /\ b.undo => c.undo
      /\ (Shown(c) => Current(c)) => Current(b)
      /\ ~Includes(p, c) => b.late = None
      /\ Includes(p, c) => b.late \in LateSaves /\ b.late.scope = Scope(c)
      /\ \A s \in Scopes : s # Scope(c) => b.teamPlans[s] = c.teamPlans[s]
  BY <1>1, ReadyWorks
<1>5. /\ Page(q) /\ BesidesReconciled(b, q)
      /\ ~Fires(p, c, b) => q = b
      /\ Fires(p, c, b) => SelectionReconciled(c, b, q)
      /\ q.undo => b.undo /\ q.baseline = b.baseline
  BY <1>2, <1>4, ReconcileWorks
<1>6. /\ Page(r) /\ SamePlace(q, r) /\ SameView(q, r) /\ SameShown(q, r)
      /\ r.baseline = q.baseline /\ r.teamPlans = q.teamPlans /\ r.cache = q.cache
      /\ r.late = None
      /\ q.late = None => r = q
      /\ q.late # None =>
            r.plans = [q.plans EXCEPT ![q.late.scope] =
                         [tasks |-> q.late.tasks, mode |-> "manual", teams |-> q.late.teams]]
  BY <1>3, <1>5, SavedLateWorks
<1>7. SamePlace(c, r) /\ Scope(r) = Scope(c) /\ r.groupShown = b.groupShown /\ r.hydrated = b.hydrated
  BY <1>4, <1>5, <1>6 DEF BesidesReconciled, SamePlace, Scope, SameShown
<1>8. Shown(r)
  BY <1>4, <1>7 DEF Shown, SamePlace, Scope
<1>9. Current(b) => Current(r)
  BY <1>4, <1>5, <1>6 DEF BesidesReconciled, Current, SamePlace
<1>10. \A s \in Scopes : s # Scope(c) => q.plans[s] = c.plans[s]
  <2>1. DOMAIN b.plans = Scopes
    BY <1>4 DEF Page, StoredTyped
  <2> QED
    BY <1>4, <1>5, <2>1 DEF SelectionReconciled
<1>11. \A s \in Scopes : s # Scope(c) => r.plans[s] = c.plans[s]
  <2>1. q.late # None => q.late.scope = Scope(c)
    BY <1>4, <1>5 DEF BesidesReconciled
  <2>2. DOMAIN q.plans = Scopes
    BY <1>5 DEF Page, StoredTyped
  <2> QED
    BY <1>6, <1>10, <2>1, <2>2
<1>12. Elsewhere(c, r)
  BY <1>4, <1>5, <1>6, <1>11 DEF BesidesReconciled, Elsewhere
<1>13. r.undo => c.undo /\ ~Unshown(c) /\ r.baseline = c.baseline
  BY <1>4, <1>5, <1>6 DEF SameView
<1> QED
  BY <1>4, <1>6, <1>7, <1>8, <1>9, <1>12, <1>13

-----------------------------------------------------------------------------
(* What holds from one render to the next.                                 *)

Unmarked(c) == c.hydratedTeams = None \/ c.hydratedTeams.scope # Scope(c)

Stored(c) ==
    c.plans[Scope(c)] = [tasks |-> c.tasks \cap SelectionTasks(c), mode |-> c.mode,
                         teams |-> c.teams]

EveryTask(c) == IsFuture(c) /\ c.mode = "default_all" => SelectionTasks(c) \subseteq c.tasks

TeamsFit(p, c) == c.fetched /\ ~Hydrates(p, c) => c.teams \subseteq TeamOptions(c.group)

TeamsSettled(p, c) ==
    Loaded(c) /\ ~Hydrates(p, c) => Unmarked(c) \/ c.hydratedTeams.teams = c.teams

StoredSettled(p, c) ==
    Loaded(c) /\ ~WillReconcile(p, c) => Unmarked(c) /\ Stored(c) /\ EveryTask(c)

UndoFits(c) ==
    c.undo => Unshown(c) \/ (c.baseline # None /\ c.baseline.scope = Scope(c))

\* Render c, after p: what is left to be done where the page is not right yet.
Pair(p, c) ==
    /\ Page(c) /\ c.late = None
    /\ TeamsFit(p, c) /\ TeamsSettled(p, c) /\ StoredSettled(p, c)
    /\ UndoFits(c) /\ (Shown(c) => Current(c))

LEMMA PairKept ==
  ASSUME NEW p, NEW c, Pair(p, c), NEW r, r = Flushed(p, c)
  PROVE  Pair(c, r) /\ Shown(r) /\ SamePlace(c, r)
<1>1. PICK b : b = Ready(p, c)
  OBVIOUS
<1>2. PICK q : q = ReconcileEffect(p, c, b)
  OBVIOUS
<1>3. r = SavedLate(q)
  BY <1>1, <1>2, FlushedSteps
<1>4. Page(c) /\ c.late = None /\ (Shown(c) => Current(c))
  BY DEF Pair
<1>5. /\ Page(r) /\ SamePlace(c, r) /\ r.late = None /\ Shown(r)
      /\ (Shown(c) => Current(c)) => Current(r)
      /\ r.undo => c.undo /\ ~Unshown(c) /\ r.baseline = c.baseline
      /\ Scope(r) = Scope(c)
  BY <1>4, FlushedWorks
<1>6. UndoFits(r)
  BY <1>5 DEF Pair, UndoFits
<1>7. /\ Page(b)
      /\ Unshown(c) \/ c.sprint # p.sprint => b.touched
      /\ b.touched \/ /\ b.fetched = c.fetched /\ b.rows = c.rows
                      /\ b.lastLoaded = c.lastLoaded /\ SameView(c, b)
                      /\ ~Includes(p, c) => b.tasks = c.tasks /\ b.mode = c.mode
      /\ b.loading = c.loading \/ b.loading
      /\ b.plans = c.plans /\ ~b.renewed
      /\ ~Includes(p, c) => b.late = None
      /\ Includes(p, c) => b.late \in LateSaves
      /\ Hydrates(p, c) =>
            /\ b.teams = Hydrated(c, c)
            /\ b.hydratedTeams.scope = Scope(c) /\ b.hydratedTeams.teams = b.teams
      /\ ~Hydrates(p, c) =>
            /\ b.hydratedTeams = c.hydratedTeams
            /\ Shown(c) \/ ~b.touched => b.teams = c.teams
  BY <1>1, <1>4, ReadyWorks
<1>8. /\ Page(q) /\ BesidesReconciled(b, q)
      /\ ~Fires(p, c, b) => q = b
      /\ Fires(p, c, b) => SelectionReconciled(c, b, q)
  BY <1>2, <1>4, <1>7, ReconcileWorks
<1>9. /\ SameLoad(q, r) /\ SameChoice(q, r) /\ SameView(q, r) /\ SameMarks(q, r)
      /\ q.late = None => r = q
      /\ q.late # None => r.renewed
  BY <1>3, <1>8, SavedLateWorks
<1>10. /\ r.touched = b.touched /\ r.fetched = b.fetched /\ r.rows = b.rows
       /\ r.loading = b.loading /\ r.lastLoaded = b.lastLoaded /\ r.search = b.search
       /\ r.teams = q.teams /\ r.tasks = q.tasks /\ r.mode = q.mode
       /\ r.hydratedTeams = q.hydratedTeams
  BY <1>8, <1>9 DEF BesidesReconciled, SameLoad, SameChoice, SameView, SameMarks
<1>11. r.group = c.group /\ r.sprint = c.sprint /\ IsFuture(r) = IsFuture(c)
  BY <1>5 DEF SamePlace, IsFuture
<1>12. Fires(p, c, b) => /\ r.teams \subseteq TeamOptions(c.group) /\ Unmarked(r)
  <2>1. TeamsInScope(c.teams, c.group) \subseteq TeamOptions(c.group)
    BY DEF TeamsInScope
  <2> QED
    BY <1>5, <1>8, <1>10, <2>1 DEF SelectionReconciled, Unmarked
<1>13. Hydrates(p, c) /\ ~Fires(p, c, b) =>
          r.teams \subseteq TeamOptions(c.group) /\ r.hydratedTeams.teams = r.teams
  <2>1. Hydrated(c, c) \subseteq TeamOptions(c.group)
    BY DEF Hydrated, TeamsInScope
  <2> QED
    BY <1>7, <1>8, <1>10, <2>1
<1>14. ASSUME ~b.touched, ~Hydrates(p, c), ~Fires(p, c, b)
       PROVE  r.teams = c.teams /\ r.hydratedTeams = c.hydratedTeams
  BY <1>7, <1>8, <1>10, <1>14
<1>15. Hydrates(c, r) <=> (b.touched \/ b.fetched # c.fetched) /\ b.fetched
  BY <1>5, <1>10 DEF Hydrates
<1>16. TeamsFit(c, r)
  <2> SUFFICES ASSUME r.fetched, ~Hydrates(c, r)
               PROVE  r.teams \subseteq TeamOptions(r.group)
    BY DEF TeamsFit
  <2>1. ~b.touched /\ c.fetched
    BY <1>10, <1>15
  <2>2. CASE ~Hydrates(p, c) /\ ~Fires(p, c, b)
    BY <1>11, <1>14, <2>1, <2>2 DEF Pair, TeamsFit
  <2> QED
    BY <1>11, <1>12, <1>13, <2>2
<1>17. ASSUME Loaded(r), ~b.touched
       PROVE  Loaded(c)
  BY <1>7, <1>10, <1>11, <1>17 DEF Loaded
<1>18. TeamsSettled(c, r)
  <2> SUFFICES ASSUME Loaded(r), ~Hydrates(c, r)
               PROVE  Unmarked(r) \/ r.hydratedTeams.teams = r.teams
    BY DEF TeamsSettled
  <2>1. ~b.touched /\ c.fetched
    BY <1>10, <1>15 DEF Loaded
  <2>2. CASE ~Hydrates(p, c) /\ ~Fires(p, c, b)
    <3>1. Unmarked(c) \/ c.hydratedTeams.teams = c.teams
      BY <1>17, <2>1, <2>2 DEF Pair, TeamsSettled
    <3> QED
      BY <1>5, <1>14, <2>1, <2>2, <3>1 DEF Unmarked
  <2> QED
    BY <1>12, <1>13, <2>2
<1>19. StoredSettled(c, r)
  <2> SUFFICES ASSUME Loaded(r), ~WillReconcile(c, r)
               PROVE  Unmarked(r) /\ Stored(r) /\ EveryTask(r)
    BY DEF StoredSettled
  <2>1. /\ ~r.touched /\ ~r.renewed /\ r.fetched = c.fetched /\ r.loading = c.loading
        /\ r.rows = c.rows /\ r.search = c.search /\ r.tasks = c.tasks /\ r.teams = c.teams
        /\ r.mode = c.mode
    BY DEF WillReconcile, Watched
  <2>2. q.late = None /\ r = q
    BY <1>9, <2>1
  <2>3. ~Includes(p, c) => b.late = None
    BY <1>7
  <2>4. SelectionTasks(r) = SelectionTasks(c)
    BY <2>1 DEF SelectionTasks
  <2>5. Loaded(c) /\ ~b.touched
    BY <1>10, <1>17, <2>1
  <2>6. CASE Fires(p, c, b)
    <3>1. r.teams = TeamsInScope(c.teams, c.group) /\ r.tasks \cap SelectionTasks(c) = Resolved(c)
      BY <1>8, <1>10, <2>6 DEF SelectionReconciled
    <3>2. r.plans[Scope(c)] = [tasks |-> Resolved(c), mode |-> c.mode,
                               teams |-> TeamsInScope(c.teams, c.group)]
      BY <1>4, <1>7, <1>8, <2>2, <2>6, ScopeTyped DEF SelectionReconciled, Page, StoredTyped
    <3>3. Stored(r)
      BY <1>5, <2>1, <2>4, <3>1, <3>2 DEF Stored
    <3>4. EveryTask(r)
      <4>1. IsFuture(c) /\ c.mode = "default_all" => Resolved(c) = SelectionTasks(c)
        BY DEF Resolved
      <4> QED
        BY <1>11, <2>1, <2>4, <3>1, <4>1 DEF EveryTask
    <3> QED
      BY <1>12, <2>6, <3>3, <3>4
  <2>7. CASE ~Fires(p, c, b)
    <3>1. r = b
      BY <1>8, <2>2, <2>7
    <3>2. b.lastLoaded = c.sprint /\ c.fetched /\ ~c.loading
      BY <1>7, <2>5 DEF Loaded
    <3>3. ~WillReconcile(p, c)
      <4>1. SUFFICES ASSUME Settling(c, b) PROVE FALSE
        BY <2>7, <3>2 DEF Fires
      <4>2. b.hydratedTeams.scope = Scope(c) /\ b.hydratedTeams.teams # c.teams
            /\ b.hydratedTeams # None
        BY <4>1 DEF Settling
      <4>3. ~Hydrates(p, c)
        BY <1>7, <2>1, <3>1, <4>2
      <4>4. Unmarked(c) \/ c.hydratedTeams.teams = c.teams
        BY <2>5, <4>3 DEF Pair, TeamsSettled
      <4> QED
        BY <1>7, <4>2, <4>3, <4>4 DEF Unmarked
    <3>4. Unmarked(c) /\ Stored(c) /\ EveryTask(c)
      BY <2>5, <3>3 DEF Pair, StoredSettled
    <3>5. ~Hydrates(p, c)
      BY <3>3 DEF WillReconcile, Watched, Hydrates
    <3>6. r.plans = c.plans /\ r.hydratedTeams = c.hydratedTeams
      BY <1>7, <3>1, <3>5
    <3>7. Unmarked(r)
      BY <1>5, <3>4, <3>6 DEF Unmarked
    <3>8. Stored(r)
      BY <1>5, <2>1, <2>4, <3>4, <3>6 DEF Stored
    <3>9. EveryTask(r)
      BY <1>11, <2>1, <2>4, <3>4 DEF EveryTask
    <3> QED
      BY <3>7, <3>8, <3>9
  <2> QED
    BY <2>6, <2>7
<1> QED
  BY <1>4, <1>5, <1>6, <1>16, <1>18, <1>19 DEF Pair

-----------------------------------------------------------------------------
(* One render after another: they come to rest within six.                 *)

Quiet(c) == Page(c) /\ Shown(c) /\ c.late = None /\ ~c.touched /\ ~c.renewed

LEMMA NothingToDo ==
  ASSUME NEW p, NEW c, Quiet(c), Watched(c) = Watched(p), c.planning = p.planning
  PROVE  Flushed(p, c) = c
<1>1. Page(c) /\ c.late = None /\ ~c.touched /\ ~c.renewed
      /\ c.groupShown = c.group /\ c.hydrated = Scope(c)
  BY DEF Quiet, Shown
<1>2. /\ Scope(c) = Scope(p) /\ IsFuture(c) = IsFuture(p) /\ c.fetched = p.fetched
      /\ c.rows = p.rows /\ c.search = p.search /\ c.tasks = p.tasks /\ c.teams = p.teams
      /\ c.mode = p.mode
  BY DEF Watched
<1>3. c.sprint = p.sprint /\ c.group = p.group
  BY <1>2 DEF Scope
<1>4. Started(c) = c
  <2>1. c.touched = FALSE /\ c.renewed = FALSE
    BY <1>1 DEF Page, LoadTyped, RestTyped
  <2>2. DOMAIN c = Fields /\ c = [f \in Fields |-> c[f]]
    BY <1>1 DEF Page, Shape
  <2> QED
    BY <2>1, <2>2 DEF Started, Fields
<1>5. SnapshotEffect(p, c, c) = c
  BY <1>2, <1>3 DEF SnapshotEffect, Snapshot
<1>6. GroupEffect(c, c) = c
  BY <1>1 DEF GroupEffect
<1>7. HydrationEffect(c, c) = c
  BY <1>1 DEF HydrationEffect
<1>8. IncludeEffect(p, c, c) = c
  BY <1>2 DEF IncludeEffect
<1>9. SprintEffect(p, c, c) = c
  BY <1>3 DEF SprintEffect
<1>10. LoadEffect(p, c, c) = c
  BY <1>2 DEF LoadEffect
<1>11. TeamHydrationEffect(p, c, c) = c
  BY <1>1, <1>2 DEF TeamHydrationEffect
<1>12. TeamPersistEffect(p, c, c) = c
  BY <1>2 DEF TeamPersistEffect
<1>13. ReconcileEffect(p, c, c) = c
  BY <1>1 DEF ReconcileEffect
<1>14. SavedLate(c) = c
  BY <1>1 DEF SavedLate
<1>15. Displayed(p, c) = c
  BY <1>4, <1>5, <1>6, <1>7, <1>8 DEF Displayed
<1>16. Ready(p, c) = c
  BY <1>9, <1>10, <1>11, <1>12, <1>15 DEF Ready
<1> QED
  BY <1>13, <1>14, <1>16, FlushedSteps

\* No effect loads, hydrates or includes anything in render c.
Calm(p, c) ==
    /\ Page(c) /\ Shown(c) /\ c.late = None /\ ~c.touched
    /\ Scope(c) = Scope(p) /\ IsFuture(c) = IsFuture(p) /\ c.planning = p.planning
    /\ c.fetched = p.fetched /\ c.loading = p.loading /\ c.lastLoaded = p.lastLoaded
    /\ c.rows = p.rows /\ c.search = p.search

LEMMA SecondIsCalm ==
  ASSUME NEW p, NEW c, Page(c), c.late = None, Shown(c), Scope(p) = Scope(c),
         NEW r, r = Flushed(p, c)
  PROVE  Calm(c, r)
<1>1. PICK b : b = Ready(p, c)
  OBVIOUS
<1>2. PICK q : q = ReconcileEffect(p, c, b)
  OBVIOUS
<1>3. r = SavedLate(q)
  BY <1>1, <1>2, FlushedSteps
<1>4. Page(r) /\ SamePlace(c, r) /\ r.late = None /\ Shown(r) /\ Scope(r) = Scope(c)
  BY FlushedWorks
<1>5. c.sprint = p.sprint
  BY DEF Scope
<1>6. /\ Page(b) /\ ~b.touched /\ b.fetched = c.fetched /\ b.rows = c.rows
      /\ b.lastLoaded = c.lastLoaded /\ SameView(c, b) /\ b.loading = c.loading
  BY <1>1, <1>5, ReadyWorks
<1>7. Page(q) /\ BesidesReconciled(b, q)
  <2>1. Page(b)
    BY <1>6
  <2> QED
    BY <1>2, <2>1, ReconcileWorks
<1>8. SameLoad(q, r) /\ SameView(q, r)
  BY <1>3, <1>7, SavedLateWorks
<1>9. /\ ~r.touched /\ r.planning = c.planning /\ r.fetched = c.fetched
      /\ r.loading = c.loading /\ r.lastLoaded = c.lastLoaded /\ r.rows = c.rows
      /\ r.search = c.search
  BY <1>6, <1>7, <1>8 DEF BesidesReconciled, SameLoad, SameView
<1>10. IsFuture(r) = IsFuture(c)
  BY <1>4 DEF SamePlace, IsFuture
<1> QED
  BY <1>4, <1>9, <1>10 DEF Calm

LEMMA CalmWorks ==
  ASSUME NEW p, NEW c, Calm(p, c), NEW r, r = Flushed(p, c)
  PROVE  /\ Calm(c, r) /\ ~r.renewed
         /\ \/ r.tasks = c.tasks /\ r.teams = c.teams /\ r.mode = c.mode
            \/ /\ Fires(p, c, c)
               /\ r.teams = TeamsInScope(c.teams, c.group) /\ r.mode = c.mode
               /\ r.tasks \cap SelectionTasks(c) = Resolved(c)
               /\ c.tasks \cap SelectionTasks(c) = Resolved(c) => r.tasks = c.tasks
               /\ Unmarked(r)
<1>1. PICK b : b = Ready(p, c)
  OBVIOUS
<1>2. PICK q : q = ReconcileEffect(p, c, b)
  OBVIOUS
<1>3. r = SavedLate(q)
  BY <1>1, <1>2, FlushedSteps
<1>4. Page(c) /\ c.late = None /\ Shown(c) /\ Scope(p) = Scope(c) /\ ~c.touched
      /\ c.fetched = p.fetched
  BY DEF Calm
<1>5. Calm(c, r)
  BY <1>4, SecondIsCalm
<1>6. ~Hydrates(p, c) /\ ~Includes(p, c) /\ c.sprint = p.sprint
  BY DEF Calm, Hydrates, Includes, Scope
<1>7. /\ Page(b) /\ b.tasks = c.tasks /\ b.mode = c.mode /\ b.teams = c.teams
      /\ b.lastLoaded = c.lastLoaded /\ b.hydratedTeams = c.hydratedTeams
      /\ b.late = None /\ ~b.renewed
  BY <1>1, <1>4, <1>6, ReadyWorks
<1>8. Fires(p, c, b) <=> Fires(p, c, c)
  BY <1>7 DEF Fires, Settling
<1>9. /\ Page(q) /\ BesidesReconciled(b, q)
      /\ ~Fires(p, c, b) => q = b
      /\ Fires(p, c, b) => SelectionReconciled(c, b, q)
  <2>1. Page(c) /\ Page(b)
    BY <1>4, <1>7
  <2> QED
    BY <1>2, <2>1, ReconcileWorks
<1>10. r = q
  <2>1. Page(q) /\ q.late = None
    BY <1>7, <1>9 DEF BesidesReconciled
  <2> QED
    BY <1>3, <2>1, SavedLateWorks
<1>11. Scope(r) = Scope(c)
  BY <1>5 DEF Calm
<1> QED
  BY <1>5, <1>7, <1>8, <1>9, <1>10, <1>11 
     DEF BesidesReconciled, SelectionReconciled, Unmarked

\* The render left everything as it was.
LastRender(p, c) == Calm(p, c) /\ ~c.renewed /\ Watched(c) = Watched(p)

\* The render reconciled the selection, once and then twice.
Reconciled1(p, c) ==
    Calm(p, c) /\ ~c.renewed /\ Unmarked(c) /\ c.teams \subseteq TeamOptions(c.group)

Reconciled2(p, c) ==
    /\ Reconciled1(p, c) /\ c.teams = p.teams /\ c.mode = p.mode
    /\ c.tasks \cap SelectionTasks(c) = Resolved(c)

LEMMA WatchedSame ==
  ASSUME NEW p, NEW c, Calm(p, c), c.tasks = p.tasks, c.teams = p.teams, c.mode = p.mode
  PROVE  Watched(c) = Watched(p)
BY DEF Calm, Watched

LEMMA LastRests ==
  ASSUME NEW p, NEW c, LastRender(p, c)
  PROVE  Flushed(p, c) = c /\ Quiet(c)
<1>1. Quiet(c) /\ c.planning = p.planning /\ Watched(c) = Watched(p)
  BY DEF LastRender, Calm, Quiet
<1> QED
  BY <1>1, NothingToDo

LEMMA ThirdRender ==
  ASSUME NEW p, NEW c, Calm(p, c), NEW r, r = Flushed(p, c)
  PROVE  LastRender(c, r) \/ Reconciled1(c, r)
<1>1. Calm(c, r) /\ ~r.renewed
  BY CalmWorks
<1>2. \/ r.tasks = c.tasks /\ r.teams = c.teams /\ r.mode = c.mode
      \/ r.teams = TeamsInScope(c.teams, c.group) /\ Unmarked(r)
  BY CalmWorks
<1>3. r.group = c.group
  BY <1>1 DEF Calm, Scope
<1>4. CASE r.tasks = c.tasks /\ r.teams = c.teams /\ r.mode = c.mode
  BY <1>1, <1>4, WatchedSame DEF LastRender
<1>5. CASE r.teams = TeamsInScope(c.teams, c.group) /\ Unmarked(r)
  BY <1>1, <1>3, <1>5 DEF Reconciled1, TeamsInScope
<1> QED
  BY <1>2, <1>4, <1>5

LEMMA FourthRender ==
  ASSUME NEW p, NEW c, Reconciled1(p, c), NEW r, r = Flushed(p, c)
  PROVE  LastRender(c, r) \/ Reconciled2(c, r)
<1>1. Calm(p, c) /\ c.teams \subseteq TeamOptions(c.group)
  BY DEF Reconciled1
<1>2. /\ Calm(c, r) /\ ~r.renewed
      /\ \/ r.tasks = c.tasks /\ r.teams = c.teams /\ r.mode = c.mode
         \/ /\ r.teams = TeamsInScope(c.teams, c.group) /\ r.mode = c.mode
            /\ r.tasks \cap SelectionTasks(c) = Resolved(c)
            /\ Unmarked(r)
  BY <1>1, CalmWorks
<1>3. r.group = c.group /\ IsFuture(r) = IsFuture(c) /\ r.rows = c.rows /\ r.search = c.search
  BY <1>2 DEF Calm, Scope
<1>4. CASE r.tasks = c.tasks /\ r.teams = c.teams /\ r.mode = c.mode
  BY <1>2, <1>4, WatchedSame DEF LastRender
<1>5. CASE /\ r.teams = TeamsInScope(c.teams, c.group) /\ r.mode = c.mode
           /\ r.tasks \cap SelectionTasks(c) = Resolved(c)
           /\ Unmarked(r)
  <2>1. r.teams = c.teams
    BY <1>1, <1>5 DEF TeamsInScope
  <2>2. SelectionTasks(r) = SelectionTasks(c)
    BY <1>3, <2>1 DEF SelectionTasks
  <2>3. r.tasks \cap SelectionTasks(r) = Resolved(r)
    BY <1>3, <1>5, <2>2 DEF Resolved
  <2> QED
    BY <1>1, <1>2, <1>3, <1>5, <2>1, <2>3 DEF Reconciled1, Reconciled2
<1> QED
  BY <1>2, <1>4, <1>5

LEMMA FifthRender ==
  ASSUME NEW p, NEW c, Reconciled2(p, c), NEW r, r = Flushed(p, c)
  PROVE  LastRender(c, r)
<1>1. /\ Calm(p, c) /\ c.teams \subseteq TeamOptions(c.group)
      /\ c.tasks \cap SelectionTasks(c) = Resolved(c)
  BY DEF Reconciled1, Reconciled2
<1>2. /\ Calm(c, r) /\ ~r.renewed
      /\ \/ r.tasks = c.tasks /\ r.teams = c.teams /\ r.mode = c.mode
         \/ /\ r.teams = TeamsInScope(c.teams, c.group) /\ r.mode = c.mode
            /\ c.tasks \cap SelectionTasks(c) = Resolved(c) => r.tasks = c.tasks
  BY <1>1, CalmWorks
<1>3. r.tasks = c.tasks /\ r.teams = c.teams /\ r.mode = c.mode
  BY <1>1, <1>2 DEF TeamsInScope
<1> QED
  BY <1>2, <1>3, WatchedSame DEF LastRender

\* A round of renders that is over.
Done(two) == two.was = two.is /\ Quiet(two.is)

\* The rounds that began with page c keep its place and what is stored elsewhere.
Follows(c, two) ==
    Page(two.is) /\ two.is.late = None /\ SamePlace(c, two.is) /\ Elsewhere(c, two.is)

LEMMA RenderedIs ==
  ASSUME NEW two, NEW x, x = Rendered(two)
  PROVE  \/ x = two /\ two.was = two.is /\ ~two.is.touched /\ ~two.is.renewed
         \/ x.was = two.is /\ x.is = Flushed(two.was, two.is)
BY DEF Rendered

LEMMA SameScope ==
  ASSUME NEW c, NEW r, SamePlace(c, r)
  PROVE  Scope(r) = Scope(c)
BY DEF SamePlace, Scope

LEMMA RenderedFollows ==
  ASSUME NEW c, NEW two, Follows(c, two), NEW x, x = Rendered(two)
  PROVE  Follows(c, x)
<1>1. CASE x = two
  BY <1>1
<1>2. CASE x.was = two.is /\ x.is = Flushed(two.was, two.is)
  <2>1. PICK d : d = two.is
    OBVIOUS
  <2>2. Page(d) /\ d.late = None /\ SamePlace(c, d) /\ Elsewhere(c, d)
    BY <2>1 DEF Follows
  <2>3. PICK r : r = Flushed(two.was, d)
    OBVIOUS
  <2>4. Page(r) /\ SamePlace(d, r) /\ r.late = None /\ Elsewhere(d, r)
    BY <2>2, <2>3, FlushedWorks
  <2>5. SamePlace(c, r) /\ Scope(d) = Scope(c)
    BY <2>2, <2>4, SameScope DEF SamePlace
  <2>6. Elsewhere(c, r)
    BY <2>2, <2>4, <2>5 DEF Elsewhere
  <2> QED
    BY <1>2, <2>1, <2>3, <2>4, <2>5, <2>6 DEF Follows
<1> QED
  BY <1>1, <1>2, RenderedIs

LEMMA DoneStays ==
  ASSUME NEW two, Done(two), NEW x, x = Rendered(two)
  PROVE  Done(x)
BY DEF Done, Quiet, Rendered

LEMMA StopIsDone ==
  ASSUME NEW c, NEW two, Follows(c, two), two.was = two.is, ~two.is.touched, ~two.is.renewed,
         Shown(two.is)
  PROVE  Done(two)
BY DEF Follows, Done, Quiet

LEMMA RendersRest ==
  ASSUME NEW c, NEW two, Follows(c, two), two.was = two.is => Shown(two.is),
         NEW x1, x1 = Rendered(two), NEW x2, x2 = Rendered(x1), NEW x3, x3 = Rendered(x2),
         NEW x4, x4 = Rendered(x3), NEW x5, x5 = Rendered(x4), NEW x6, x6 = Rendered(x5)
  PROVE  Done(x6) /\ Follows(c, x6)
<1>1. /\ Follows(c, x1) /\ Follows(c, x2) /\ Follows(c, x3) /\ Follows(c, x4) /\ Follows(c, x5)
      /\ Follows(c, x6)
  <2>1. Follows(c, x1)
    BY RenderedFollows
  <2>2. Follows(c, x2)
    BY <2>1, RenderedFollows
  <2>3. Follows(c, x3)
    BY <2>2, RenderedFollows
  <2>4. Follows(c, x4)
    BY <2>3, RenderedFollows
  <2>5. Follows(c, x5)
    BY <2>4, RenderedFollows
  <2>6. Follows(c, x6)
    BY <2>5, RenderedFollows
  <2> QED
    BY <2>1, <2>2, <2>3, <2>4, <2>5, <2>6
<1>2. Done(x1) \/ (Shown(x1.is) /\ Scope(x1.is) = Scope(x1.was))
  <2>1. CASE x1 = two /\ two.was = two.is /\ ~two.is.touched /\ ~two.is.renewed
    BY <2>1, StopIsDone
  <2>2. CASE x1.was = two.is /\ x1.is = Flushed(two.was, two.is)
    <3>1. Page(two.is) /\ two.is.late = None
      BY DEF Follows
    <3> QED
      BY <2>2, <3>1, FlushedWorks
  <2> QED
    BY <2>1, <2>2, RenderedIs
<1>3. Done(x2) \/ Calm(x2.was, x2.is)
  <2>1. CASE Done(x1)
    BY <2>1, DoneStays
  <2>2. CASE Shown(x1.is) /\ Scope(x1.is) = Scope(x1.was)
    <3>1. Page(x1.is) /\ x1.is.late = None
      BY <1>1 DEF Follows
    <3>2. CASE x2 = x1 /\ x1.was = x1.is /\ ~x1.is.touched /\ ~x1.is.renewed
      BY <1>1, <2>2, <3>2, StopIsDone
    <3>3. CASE x2.was = x1.is /\ x2.is = Flushed(x1.was, x1.is)
      BY <2>2, <3>1, <3>3, SecondIsCalm
    <3> QED
      BY <3>2, <3>3, RenderedIs
  <2> QED
    BY <1>2, <2>1, <2>2
<1>4. ASSUME NEW y, Follows(c, y), Calm(y.was, y.is), NEW z, z = Rendered(y)
      PROVE  Done(z) \/ (z.was = y.is /\ z.is = Flushed(y.was, y.is))
  <2>1. Shown(y.is)
    BY <1>4 DEF Calm
  <2> QED
    BY <1>4, <2>1, RenderedIs, StopIsDone
<1>5. Done(x3) \/ LastRender(x3.was, x3.is) \/ Reconciled1(x3.was, x3.is)
  <2>1. CASE Done(x2)
    BY <2>1, DoneStays
  <2>2. CASE Calm(x2.was, x2.is)
    BY <1>1, <1>4, <2>2, ThirdRender
  <2> QED
    BY <1>3, <2>1, <2>2
<1>6. ASSUME NEW y, LastRender(y.was, y.is), Follows(c, y), NEW z, z = Rendered(y)
      PROVE  Done(z)
  <2>1. Flushed(y.was, y.is) = y.is /\ Quiet(y.is)
    BY <1>6, LastRests
  <2>2. Calm(y.was, y.is)
    BY <1>6 DEF LastRender
  <2> QED
    BY <1>4, <1>6, <2>1, <2>2 DEF Done
<1>7. Done(x4) \/ LastRender(x4.was, x4.is) \/ Reconciled2(x4.was, x4.is)
  <2>1. CASE Done(x3)
    BY <2>1, DoneStays
  <2>2. CASE LastRender(x3.was, x3.is)
    BY <1>1, <1>6, <2>2
  <2>3. CASE Reconciled1(x3.was, x3.is)
    <3>1. Calm(x3.was, x3.is)
      BY <2>3 DEF Reconciled1
    <3> QED
      BY <1>1, <1>4, <2>3, <3>1, FourthRender
  <2> QED
    BY <1>5, <2>1, <2>2, <2>3
<1>8. Done(x5) \/ LastRender(x5.was, x5.is)
  <2>1. CASE Done(x4)
    BY <2>1, DoneStays
  <2>2. CASE LastRender(x4.was, x4.is)
    BY <1>1, <1>6, <2>2
  <2>3. CASE Reconciled2(x4.was, x4.is)
    <3>1. Calm(x4.was, x4.is)
      BY <2>3 DEF Reconciled1, Reconciled2
    <3> QED
      BY <1>1, <1>4, <2>3, <3>1, FifthRender
  <2> QED
    BY <1>7, <2>1, <2>2, <2>3
<1>9. Done(x6)
  BY <1>1, <1>6, <1>8, DoneStays
<1> QED
  BY <1>1, <1>9

LEMMA ElsewhereSelf ==
  ASSUME NEW c
  PROVE  SamePlace(c, c) /\ Elsewhere(c, c)
BY DEF SamePlace, Elsewhere

\* However a page was changed, its renders come to rest, at its own place.
LEMMA SettledWorks ==
  ASSUME NEW p, NEW c, Page(c), c.late = None, p = c => Shown(c), NEW r, r = Settled(p, c)
  PROVE  Quiet(r) /\ SamePlace(c, r) /\ Elsewhere(c, r)
<1>1. PICK two : two = [was |-> p, is |-> c]
  OBVIOUS
<1>2. PICK x1 : x1 = Rendered(two)
  OBVIOUS
<1>3. PICK x2 : x2 = Rendered(x1)
  OBVIOUS
<1>4. PICK x3 : x3 = Rendered(x2)
  OBVIOUS
<1>5. PICK x4 : x4 = Rendered(x3)
  OBVIOUS
<1>6. PICK x5 : x5 = Rendered(x4)
  OBVIOUS
<1>7. PICK x6 : x6 = Rendered(x5)
  OBVIOUS
<1>8. r = x6.is
  BY <1>1, <1>2, <1>3, <1>4, <1>5, <1>6, <1>7 DEF Settled
<1>9. two.was = p /\ two.is = c
  BY <1>1
<1>10. Follows(c, two)
  BY <1>9, ElsewhereSelf DEF Follows
<1>11. two.was = two.is => Shown(two.is)
  BY <1>9
<1>12. Done(x6) /\ Follows(c, x6)
  BY <1>2, <1>3, <1>4, <1>5, <1>6, <1>7, <1>10, <1>11, RendersRest
<1> QED
  BY <1>8, <1>12 DEF Done, Follows

LEMMA RenderedPair ==
  ASSUME NEW two, Pair(two.was, two.is), NEW x, x = Rendered(two)
  PROVE  Pair(x.was, x.is)
<1>1. CASE x = two
  BY <1>1
<1>2. CASE x.was = two.is /\ x.is = Flushed(two.was, two.is)
  BY <1>2, PairKept
<1> QED
  BY <1>1, <1>2, RenderedIs

\* At rest nothing is left to be put right.
LEMMA SettledPair ==
  ASSUME NEW p, NEW c, Pair(p, c), p = c => Shown(c), NEW r, r = Settled(p, c)
  PROVE  Pair(r, r) /\ Quiet(r) /\ SamePlace(c, r) /\ Elsewhere(c, r)
<1>1. PICK two : two = [was |-> p, is |-> c]
  OBVIOUS
<1>2. PICK x1 : x1 = Rendered(two)
  OBVIOUS
<1>3. PICK x2 : x2 = Rendered(x1)
  OBVIOUS
<1>4. PICK x3 : x3 = Rendered(x2)
  OBVIOUS
<1>5. PICK x4 : x4 = Rendered(x3)
  OBVIOUS
<1>6. PICK x5 : x5 = Rendered(x4)
  OBVIOUS
<1>7. PICK x6 : x6 = Rendered(x5)
  OBVIOUS
<1>8. r = x6.is
  BY <1>1, <1>2, <1>3, <1>4, <1>5, <1>6, <1>7 DEF Settled
<1>9. two.was = p /\ two.is = c
  BY <1>1
<1>10. Page(c) /\ c.late = None
  BY DEF Pair
<1>11. Quiet(r) /\ SamePlace(c, r) /\ Elsewhere(c, r)
  BY <1>10, SettledWorks
<1>12. Follows(c, two)
  BY <1>9, <1>10, ElsewhereSelf DEF Follows
<1>13. two.was = two.is => Shown(two.is)
  BY <1>9
<1>14. Done(x6)
  BY <1>2, <1>3, <1>4, <1>5, <1>6, <1>7, <1>12, <1>13, RendersRest
<1>15. Pair(x1.was, x1.is)
  BY <1>2, <1>9, RenderedPair
<1>16. Pair(x2.was, x2.is)
  BY <1>3, <1>15, RenderedPair
<1>17. Pair(x3.was, x3.is)
  BY <1>4, <1>16, RenderedPair
<1>18. Pair(x4.was, x4.is)
  BY <1>5, <1>17, RenderedPair
<1>19. Pair(x5.was, x5.is)
  BY <1>6, <1>18, RenderedPair
<1>20. Pair(x6.was, x6.is)
  BY <1>7, <1>19, RenderedPair
<1> QED
  BY <1>8, <1>11, <1>14, <1>20 DEF Done

-----------------------------------------------------------------------------
(* What the actions change before the page is rendered again.              *)

LEMMA GroupSet ==
  ASSUME NEW b, Page(b), NEW g \in Groups, NEW r, r = [b EXCEPT !.group = g]
  PROVE  /\ Page(r)
         /\ SameLoad(b, r) /\ SameChoice(b, r) /\ SameView(b, r) /\ SameShown(b, r)
         /\ SameMarks(b, r) /\ SameRest(b, r) /\ SameStored(b, r)
         /\ r.sprint = b.sprint /\ r.listed = b.listed /\ r.prefs = b.prefs
         /\ r.cache = b.cache /\ r.group = g
<1>1. DOMAIN b = Fields
  BY DEF Page, Shape
<1>2. Shape(r)
  BY <1>1 DEF Shape
<1>3. /\ SameLoad(b, r) /\ SameChoice(b, r) /\ SameView(b, r) /\ SameShown(b, r)
      /\ SameMarks(b, r) /\ SameRest(b, r) /\ SameStored(b, r) /\ r.sprint = b.sprint
      /\ r.listed = b.listed /\ r.prefs = b.prefs /\ r.cache = b.cache /\ r.group = g
  BY <1>1 DEF Fields, SameLoad, SameChoice, SameView, SameShown, SameMarks, SameRest,
                    SameStored
<1>4. /\ LoadTyped(r) /\ ChoiceTyped(r) /\ ViewTyped(r) /\ ShownTyped(r)
      /\ MarksTyped(r) /\ RestTyped(r) /\ StoredTyped(r) /\ CacheTyped(r)
  BY <1>3 DEF Page, SameLoad, SameChoice, SameView, SameShown, SameMarks, SameRest,
              SameStored, LoadTyped, ChoiceTyped, ViewTyped, ShownTyped, MarksTyped,
              RestTyped, StoredTyped, CacheTyped
<1>5. /\ PlaceTyped(r)
  BY <1>3 DEF Page, PlaceTyped
<1>6. Page(r)
  BY <1>2, <1>4, <1>5 DEF Page
<1> QED
  BY <1>3, <1>6

LEMMA ListedSet ==
  ASSUME NEW b, Page(b), NEW r, r = [b EXCEPT !.listed = TRUE]
  PROVE  /\ Page(r)
         /\ SameLoad(b, r) /\ SameChoice(b, r) /\ SameView(b, r) /\ SameShown(b, r)
         /\ SameMarks(b, r) /\ SameRest(b, r) /\ SameStored(b, r)
         /\ r.sprint = b.sprint /\ r.group = b.group /\ r.prefs = b.prefs
         /\ r.cache = b.cache /\ r.listed = TRUE
<1>1. DOMAIN b = Fields
  BY DEF Page, Shape
<1>2. Shape(r)
  BY <1>1 DEF Shape
<1>3. /\ SameLoad(b, r) /\ SameChoice(b, r) /\ SameView(b, r) /\ SameShown(b, r)
      /\ SameMarks(b, r) /\ SameRest(b, r) /\ SameStored(b, r) /\ r.sprint = b.sprint
      /\ r.group = b.group /\ r.prefs = b.prefs /\ r.cache = b.cache /\ r.listed = TRUE
  BY <1>1 DEF Fields, SameLoad, SameChoice, SameView, SameShown, SameMarks, SameRest,
                    SameStored
<1>4. /\ LoadTyped(r) /\ ChoiceTyped(r) /\ ViewTyped(r) /\ ShownTyped(r)
      /\ MarksTyped(r) /\ RestTyped(r) /\ StoredTyped(r) /\ CacheTyped(r)
  BY <1>3 DEF Page, SameLoad, SameChoice, SameView, SameShown, SameMarks, SameRest,
              SameStored, LoadTyped, ChoiceTyped, ViewTyped, ShownTyped, MarksTyped,
              RestTyped, StoredTyped, CacheTyped
<1>5. /\ PlaceTyped(r)
  BY <1>3 DEF Page, PlaceTyped
<1>6. Page(r)
  BY <1>2, <1>4, <1>5 DEF Page
<1> QED
  BY <1>3, <1>6

LEMMA PlanningSet ==
  ASSUME NEW b, Page(b), NEW v \in BOOLEAN, NEW r, r = [b EXCEPT !.planning = v]
  PROVE  /\ Page(r)
         /\ SamePlace(b, r) /\ SameLoad(b, r) /\ SameChoice(b, r) /\ SameShown(b, r)
         /\ SameMarks(b, r) /\ SameRest(b, r) /\ SameStored(b, r) /\ r.undo = b.undo
         /\ r.search = b.search /\ r.cache = b.cache /\ r.planning = v
<1>1. DOMAIN b = Fields
  BY DEF Page, Shape
<1>2. Shape(r)
  BY <1>1 DEF Shape
<1>3. /\ SamePlace(b, r) /\ SameLoad(b, r) /\ SameChoice(b, r) /\ SameShown(b, r)
      /\ SameMarks(b, r) /\ SameRest(b, r) /\ SameStored(b, r) /\ r.undo = b.undo
      /\ r.search = b.search /\ r.cache = b.cache /\ r.planning = v
  BY <1>1 DEF Fields, SamePlace, SameLoad, SameChoice, SameShown, SameMarks,
                    SameRest, SameStored
<1>4. /\ PlaceTyped(r) /\ LoadTyped(r) /\ ChoiceTyped(r) /\ ShownTyped(r)
      /\ MarksTyped(r) /\ RestTyped(r) /\ StoredTyped(r) /\ CacheTyped(r)
  BY <1>3 DEF Page, SamePlace, SameLoad, SameChoice, SameShown, SameMarks, SameRest,
              SameStored, PlaceTyped, LoadTyped, ChoiceTyped, ShownTyped, MarksTyped,
              RestTyped, StoredTyped, CacheTyped
<1>5. /\ ViewTyped(r)
  BY <1>3 DEF Page, ViewTyped
<1>6. Page(r)
  BY <1>2, <1>4, <1>5 DEF Page
<1> QED
  BY <1>3, <1>6

LEMMA SearchSet ==
  ASSUME NEW b, Page(b), NEW v \in BOOLEAN, NEW r, r = [b EXCEPT !.search = v]
  PROVE  /\ Page(r)
         /\ SamePlace(b, r) /\ SameLoad(b, r) /\ SameChoice(b, r) /\ SameShown(b, r)
         /\ SameMarks(b, r) /\ SameRest(b, r) /\ SameStored(b, r) /\ r.undo = b.undo
         /\ r.planning = b.planning /\ r.cache = b.cache /\ r.search = v
<1>1. DOMAIN b = Fields
  BY DEF Page, Shape
<1>2. Shape(r)
  BY <1>1 DEF Shape
<1>3. /\ SamePlace(b, r) /\ SameLoad(b, r) /\ SameChoice(b, r) /\ SameShown(b, r)
      /\ SameMarks(b, r) /\ SameRest(b, r) /\ SameStored(b, r) /\ r.undo = b.undo
      /\ r.planning = b.planning /\ r.cache = b.cache /\ r.search = v
  BY <1>1 DEF Fields, SamePlace, SameLoad, SameChoice, SameShown, SameMarks,
                    SameRest, SameStored
<1>4. /\ PlaceTyped(r) /\ LoadTyped(r) /\ ChoiceTyped(r) /\ ShownTyped(r)
      /\ MarksTyped(r) /\ RestTyped(r) /\ StoredTyped(r) /\ CacheTyped(r)
  BY <1>3 DEF Page, SamePlace, SameLoad, SameChoice, SameShown, SameMarks, SameRest,
              SameStored, PlaceTyped, LoadTyped, ChoiceTyped, ShownTyped, MarksTyped,
              RestTyped, StoredTyped, CacheTyped
<1>5. /\ ViewTyped(r)
  BY <1>3 DEF Page, ViewTyped
<1>6. Page(r)
  BY <1>2, <1>4, <1>5 DEF Page
<1> QED
  BY <1>3, <1>6

LEMMA TeamsSet ==
  ASSUME NEW b, Page(b), NEW ts \in SUBSET Teams, NEW r, r = [b EXCEPT !.teams = ts]
  PROVE  /\ Page(r)
         /\ SamePlace(b, r) /\ SameLoad(b, r) /\ SameView(b, r) /\ SameShown(b, r)
         /\ SameMarks(b, r) /\ SameRest(b, r) /\ SameStored(b, r) /\ r.tasks = b.tasks
         /\ r.mode = b.mode /\ r.cache = b.cache /\ r.teams = ts
<1>1. DOMAIN b = Fields
  BY DEF Page, Shape
<1>2. Shape(r)
  BY <1>1 DEF Shape
<1>3. /\ SamePlace(b, r) /\ SameLoad(b, r) /\ SameView(b, r) /\ SameShown(b, r)
      /\ SameMarks(b, r) /\ SameRest(b, r) /\ SameStored(b, r) /\ r.tasks = b.tasks
      /\ r.mode = b.mode /\ r.cache = b.cache /\ r.teams = ts
  BY <1>1 DEF Fields, SamePlace, SameLoad, SameView, SameShown, SameMarks, SameRest,
                    SameStored
<1>4. /\ PlaceTyped(r) /\ LoadTyped(r) /\ ViewTyped(r) /\ ShownTyped(r)
      /\ MarksTyped(r) /\ RestTyped(r) /\ StoredTyped(r) /\ CacheTyped(r)
  BY <1>3 DEF Page, SamePlace, SameLoad, SameView, SameShown, SameMarks, SameRest,
              SameStored, PlaceTyped, LoadTyped, ViewTyped, ShownTyped, MarksTyped,
              RestTyped, StoredTyped, CacheTyped
<1>5. /\ ChoiceTyped(r)
  BY <1>3 DEF Page, ChoiceTyped
<1>6. Page(r)
  BY <1>2, <1>4, <1>5 DEF Page
<1> QED
  BY <1>3, <1>6

LEMMA UndoSet ==
  ASSUME NEW b, Page(b), NEW v \in BOOLEAN, NEW r, r = [b EXCEPT !.undo = v]
  PROVE  /\ Page(r)
         /\ SamePlace(b, r) /\ SameLoad(b, r) /\ SameChoice(b, r) /\ SameShown(b, r)
         /\ SameMarks(b, r) /\ SameRest(b, r) /\ SameStored(b, r)
         /\ r.planning = b.planning /\ r.search = b.search /\ r.cache = b.cache
         /\ r.undo = v
<1>1. DOMAIN b = Fields
  BY DEF Page, Shape
<1>2. Shape(r)
  BY <1>1 DEF Shape
<1>3. /\ SamePlace(b, r) /\ SameLoad(b, r) /\ SameChoice(b, r) /\ SameShown(b, r)
      /\ SameMarks(b, r) /\ SameRest(b, r) /\ SameStored(b, r)
      /\ r.planning = b.planning /\ r.search = b.search /\ r.cache = b.cache
      /\ r.undo = v
  BY <1>1 DEF Fields, SamePlace, SameLoad, SameChoice, SameShown, SameMarks,
                    SameRest, SameStored
<1>4. /\ PlaceTyped(r) /\ LoadTyped(r) /\ ChoiceTyped(r) /\ ShownTyped(r)
      /\ MarksTyped(r) /\ RestTyped(r) /\ StoredTyped(r) /\ CacheTyped(r)
  BY <1>3 DEF Page, SamePlace, SameLoad, SameChoice, SameShown, SameMarks, SameRest,
              SameStored, PlaceTyped, LoadTyped, ChoiceTyped, ShownTyped, MarksTyped,
              RestTyped, StoredTyped, CacheTyped
<1>5. /\ ViewTyped(r)
  BY <1>3 DEF Page, ViewTyped
<1>6. Page(r)
  BY <1>2, <1>4, <1>5 DEF Page
<1> QED
  BY <1>3, <1>6

\* The clicks that change how a page is shown, and what it has selected.
LEMMA SamePair ==
  ASSUME NEW p, Pair(p, p), Quiet(p),
         NEW c, Page(c), c.late = None, ~c.touched, Scope(c) = Scope(p), c.group = p.group,
         c.sprint = p.sprint, c.fetched = p.fetched, c.lastLoaded = p.lastLoaded,
         c.loading = p.loading \/ c.loading, c.hydratedTeams = p.hydratedTeams,
         c.renewed \/ c.plans = p.plans,
         c.teams = p.teams \/ c.teams \subseteq TeamOptions(p.group),
         UndoFits(c), Shown(c) => Current(c)
  PROVE  Pair(p, c)
<1>1. ~Hydrates(p, p) /\ ~WillReconcile(p, p)
  BY DEF Quiet, Hydrates, WillReconcile
<1>2. TeamsFit(p, c)
  BY <1>1 DEF Pair, TeamsFit
<1>3. Loaded(c) => Loaded(p) /\ Unmarked(p) /\ Stored(p) /\ EveryTask(p)
  BY <1>1 DEF Pair, StoredSettled, Loaded, Quiet, Page, LoadTyped
<1>4. TeamsSettled(p, c)
  BY <1>3 DEF TeamsSettled, Unmarked
<1>5. StoredSettled(p, c)
  <2> SUFFICES ASSUME Loaded(c), ~WillReconcile(p, c)
               PROVE  Unmarked(c) /\ Stored(c) /\ EveryTask(c)
    BY DEF StoredSettled
  <2>1. /\ ~c.renewed /\ IsFuture(c) = IsFuture(p) /\ c.rows = p.rows /\ c.search = p.search
        /\ c.tasks = p.tasks /\ c.teams = p.teams /\ c.mode = p.mode
    BY DEF WillReconcile, Watched
  <2>2. SelectionTasks(c) = SelectionTasks(p) /\ c.plans = p.plans
    BY <2>1 DEF SelectionTasks
  <2> QED
    BY <1>3, <2>1, <2>2 DEF Unmarked, Stored, EveryTask
<1> QED
  BY <1>2, <1>4, <1>5 DEF Pair

\* What brings another place or other stories.
LEMMA UnsettledPair ==
  ASSUME NEW p, NEW c, Page(c), c.late = None,
         c.fetched => Hydrates(p, c) /\ WillReconcile(p, c),
         UndoFits(c), Shown(c) => Current(c)
  PROVE  Pair(p, c)
BY DEF Pair, TeamsFit, TeamsSettled, StoredSettled, Loaded

\* The page between two turns of the event loop.
Resting(p) == Pair(p, p) /\ Quiet(p)

Others(p, r) ==
    \A s \in Scopes : s # Scope(r) => r.plans[s] = p.plans[s] /\ r.teamPlans[s] = p.teamPlans[s]

LEMMA RestingFacts ==
  ASSUME NEW p, Resting(p)
  PROVE  /\ Page(p) /\ p.late = None /\ Shown(p) /\ ~p.touched /\ ~p.renewed /\ Current(p)
         /\ p.undo => p.baseline # None /\ p.baseline.scope = Scope(p)
         /\ p.fetched => p.teams \subseteq TeamOptions(p.group)
<1>1. Page(p) /\ p.late = None /\ Shown(p) /\ ~p.touched /\ ~p.renewed /\ Current(p)
  BY DEF Resting, Pair, Quiet
<1>2. ~Unshown(p)
  BY <1>1 DEF Shown, Unshown
<1>3. p.undo => p.baseline # None /\ p.baseline.scope = Scope(p)
  BY <1>2 DEF Resting, Pair, UndoFits
<1>4. ~Hydrates(p, p)
  BY <1>1 DEF Hydrates
<1> QED
  BY <1>1, <1>3, <1>4 DEF Resting, Pair, TeamsFit

\* An action that changes the page into c before it is rendered.
LEMMA ActionWorks ==
  ASSUME NEW p, Resting(p), NEW c, Pair(p, c), Others(p, c), NEW r, r = Settled(p, c)
  PROVE  Resting(r) /\ SamePlace(c, r) /\ Others(p, r)
<1>1. p = c => Shown(c)
  BY RestingFacts
<1>2. Pair(r, r) /\ Quiet(r) /\ SamePlace(c, r) /\ Elsewhere(c, r)
  BY <1>1, SettledPair
<1>3. Scope(r) = Scope(c)
  BY <1>2, SameScope
<1>4. Others(p, r)
  BY <1>2, <1>3 DEF Others, Elsewhere
<1> QED
  BY <1>2, <1>4 DEF Resting

\* An action that leaves the page where it is.
Acted(p, r) == Resting(r) /\ Others(p, r) /\ r.sprint = p.sprint

LEMMA SameAction ==
  ASSUME NEW p, Resting(p),
         NEW c, Page(c), c.late = None, ~c.touched, Scope(c) = Scope(p), c.group = p.group,
         c.sprint = p.sprint, c.fetched = p.fetched, c.lastLoaded = p.lastLoaded,
         c.loading = p.loading \/ c.loading, c.hydratedTeams = p.hydratedTeams,
         c.renewed \/ c.plans = p.plans,
         c.teams = p.teams \/ c.teams \subseteq TeamOptions(p.group),
         c.undo => p.undo \/ (c.baseline # None /\ c.baseline.scope = Scope(c)),
         c.baseline = p.baseline,
         Current(c), Others(p, c),
         NEW r, r = Settled(p, c)
  PROVE  Acted(p, r)
<1>1. p.undo => p.baseline # None /\ p.baseline.scope = Scope(p)
  BY RestingFacts
<1>2. UndoFits(c)
  BY <1>1 DEF UndoFits
<1>3. Pair(p, p) /\ Quiet(p)
  BY DEF Resting
<1>4. Pair(p, c)
  BY <1>2, <1>3, SamePair
<1>5. Resting(r) /\ SamePlace(c, r) /\ Others(p, r)
  BY <1>4, ActionWorks
<1> QED
  BY <1>5 DEF Acted, SamePlace

LEMMA SelectGroupActs ==
  ASSUME NEW p, Resting(p), NEW g \in Groups, g # p.group,
         NEW r, r = Settled(p, [p EXCEPT !.group = g])
  PROVE  Acted(p, r)
<1>1. PICK c : c = [p EXCEPT !.group = g]
  OBVIOUS
<1>2. Page(p) /\ p.late = None /\ Shown(p)
  BY RestingFacts
<1>3. /\ Page(c) /\ SameRest(p, c) /\ SameShown(p, c) /\ SameStored(p, c)
      /\ c.sprint = p.sprint /\ c.group = g
  BY <1>1, <1>2, GroupSet
<1>4. r = Settled(p, c)
  BY <1>1
<1>5. Scope(c) # Scope(p)
  BY <1>3 DEF Scope
<1>6. Hydrates(p, c) \/ ~c.fetched
  BY <1>5 DEF Hydrates
<1>7. WillReconcile(p, c)
  BY <1>5 DEF WillReconcile, Watched
<1>8. c.groupShown # c.group
  BY <1>2, <1>3 DEF Shown, SameShown
<1>9. Unshown(c) /\ ~Shown(c)
  BY <1>8 DEF Unshown, Shown
<1>10. c.late = None
  BY <1>2, <1>3 DEF SameRest
<1>11. Pair(p, c)
  BY <1>3, <1>6, <1>7, <1>9, <1>10, UnsettledPair DEF UndoFits
<1>12. Others(p, c)
  BY <1>3 DEF Others, SameStored
<1>13. Resting(r) /\ SamePlace(c, r) /\ Others(p, r)
  BY <1>4, <1>11, <1>12, ActionWorks
<1> QED
  BY <1>3, <1>13 DEF Acted, SamePlace

LEMMA ListedActs ==
  ASSUME NEW p, Resting(p), NEW r, r = Settled(p, [p EXCEPT !.listed = TRUE])
  PROVE  Acted(p, r)
<1>1. PICK c : c = [p EXCEPT !.listed = TRUE]
  OBVIOUS
<1>2. Page(p) /\ p.late = None /\ Shown(p) /\ ~p.touched /\ Current(p)
  BY RestingFacts
<1>3. Page(c) /\ SameLoad(p, c) /\ SameChoice(p, c) /\ SameView(p, c) /\ SameMarks(p, c)
      /\ SameRest(p, c) /\ SameStored(p, c) /\ c.sprint = p.sprint /\ c.group = p.group
      /\ c.cache = p.cache
  BY <1>1, <1>2, ListedSet
<1>4. r = Settled(p, c)
  BY <1>1
<1>5. Scope(c) = Scope(p) /\ Current(c) /\ Others(p, c)
  BY <1>2, <1>3 DEF Scope, Current, Others, SameStored
<1>6. /\ c.late = None /\ ~c.touched /\ c.fetched = p.fetched /\ c.lastLoaded = p.lastLoaded
      /\ c.loading = p.loading /\ c.hydratedTeams = p.hydratedTeams /\ c.plans = p.plans
      /\ c.teams = p.teams /\ c.undo = p.undo /\ c.baseline = p.baseline
  BY <1>2, <1>3 DEF SameLoad, SameChoice, SameView, SameMarks, SameRest, SameStored
<1> QED
  BY <1>3, <1>4, <1>5, <1>6, SameAction

LEMMA PlanningActs ==
  ASSUME NEW p, Resting(p), NEW r, r = Settled(p, [p EXCEPT !.planning = ~@])
  PROVE  Acted(p, r)
<1>1. PICK v : v = ~p.planning
  OBVIOUS
<1>2. PICK c : c = [p EXCEPT !.planning = v]
  OBVIOUS
<1>3. Page(p) /\ p.late = None /\ Shown(p) /\ ~p.touched /\ Current(p)
  BY RestingFacts
<1>4. v \in BOOLEAN
  BY <1>1, <1>3 DEF Page, ViewTyped
<1>5. /\ Page(c) /\ SamePlace(p, c) /\ SameLoad(p, c) /\ SameChoice(p, c) /\ SameMarks(p, c)
      /\ SameRest(p, c) /\ SameStored(p, c) /\ c.undo = p.undo /\ c.cache = p.cache
  BY <1>2, <1>3, <1>4, PlanningSet
<1>6. r = Settled(p, c)
  BY <1>1, <1>2
<1>7. /\ Scope(c) = Scope(p) /\ c.group = p.group /\ c.sprint = p.sprint /\ Current(c)
      /\ Others(p, c)
  BY <1>3, <1>5 DEF Scope, SamePlace, Current, Others, SameStored
<1>8. /\ c.late = None /\ ~c.touched /\ c.fetched = p.fetched /\ c.lastLoaded = p.lastLoaded
      /\ c.loading = p.loading /\ c.hydratedTeams = p.hydratedTeams /\ c.plans = p.plans
      /\ c.teams = p.teams /\ c.baseline = p.baseline
  BY <1>3, <1>5 DEF SameLoad, SameChoice, SameMarks, SameRest, SameStored
<1> QED
  BY <1>5, <1>6, <1>7, <1>8, SameAction

LEMMA SearchActs ==
  ASSUME NEW p, Resting(p), NEW r, r = Settled(p, [p EXCEPT !.search = ~@])
  PROVE  Acted(p, r)
<1>1. PICK v : v = ~p.search
  OBVIOUS
<1>2. PICK c : c = [p EXCEPT !.search = v]
  OBVIOUS
<1>3. Page(p) /\ p.late = None /\ Shown(p) /\ ~p.touched /\ Current(p)
  BY RestingFacts
<1>4. v \in BOOLEAN
  BY <1>1, <1>3 DEF Page, ViewTyped
<1>5. /\ Page(c) /\ SamePlace(p, c) /\ SameLoad(p, c) /\ SameChoice(p, c) /\ SameMarks(p, c)
      /\ SameRest(p, c) /\ SameStored(p, c) /\ c.undo = p.undo /\ c.cache = p.cache
  BY <1>2, <1>3, <1>4, SearchSet
<1>6. r = Settled(p, c)
  BY <1>1, <1>2
<1>7. /\ Scope(c) = Scope(p) /\ c.group = p.group /\ c.sprint = p.sprint /\ Current(c)
      /\ Others(p, c)
  BY <1>3, <1>5 DEF Scope, SamePlace, Current, Others, SameStored
<1>8. /\ c.late = None /\ ~c.touched /\ c.fetched = p.fetched /\ c.lastLoaded = p.lastLoaded
      /\ c.loading = p.loading /\ c.hydratedTeams = p.hydratedTeams /\ c.plans = p.plans
      /\ c.teams = p.teams /\ c.baseline = p.baseline
  BY <1>3, <1>5 DEF SameLoad, SameChoice, SameMarks, SameRest, SameStored
<1> QED
  BY <1>5, <1>6, <1>7, <1>8, SameAction

LEMMA TeamActs ==
  ASSUME NEW p, Resting(p), NEW t \in TeamOptions(p.group),
         NEW r, r = Settled(p, [p EXCEPT !.teams = SymDiff(@, {t})])
  PROVE  Acted(p, r)
<1>1. PICK ts : ts = SymDiff(p.teams, {t})
  OBVIOUS
<1>2. PICK c : c = [p EXCEPT !.teams = ts]
  OBVIOUS
<1>3. /\ Page(p) /\ p.late = None /\ Shown(p) /\ ~p.touched /\ Current(p)
      /\ p.fetched => p.teams \subseteq TeamOptions(p.group)
  BY RestingFacts
<1>4. ts \in SUBSET Teams /\ (p.fetched => ts \subseteq TeamOptions(p.group))
  <2>1. p.teams \in SUBSET Teams /\ TeamOptions(p.group) \subseteq Teams
    BY <1>3, OptionsTyped DEF Page, ChoiceTyped
  <2> QED
    BY <1>1, <1>3, <2>1 DEF SymDiff
<1>5. /\ Page(c) /\ SamePlace(p, c) /\ SameLoad(p, c) /\ SameView(p, c) /\ SameMarks(p, c)
      /\ SameShown(p, c) /\ SameRest(p, c) /\ SameStored(p, c) /\ c.cache = p.cache
      /\ c.teams = ts
  BY <1>2, <1>3, <1>4, TeamsSet
<1>6. r = Settled(p, c)
  BY <1>1, <1>2
<1>7. /\ Scope(c) = Scope(p) /\ c.group = p.group /\ c.sprint = p.sprint /\ Current(c)
      /\ Others(p, c)
  BY <1>3, <1>5 DEF Scope, SamePlace, Current, Others, SameStored
<1>8. /\ c.late = None /\ ~c.touched /\ c.fetched = p.fetched /\ c.lastLoaded = p.lastLoaded
      /\ c.loading = p.loading /\ c.hydratedTeams = p.hydratedTeams /\ c.plans = p.plans
      /\ c.undo = p.undo /\ c.baseline = p.baseline
  BY <1>3, <1>5 DEF SameLoad, SameView, SameMarks, SameRest, SameStored
<1>9. CASE p.fetched
  BY <1>4, <1>5, <1>6, <1>7, <1>8, <1>9, SameAction
<1>10. CASE ~p.fetched
  <2>1. UndoFits(c)
    <3>1. p.undo => p.baseline # None /\ p.baseline.scope = Scope(p)
      BY RestingFacts
    <3> QED
      BY <1>7, <1>8, <3>1 DEF UndoFits
  <2>2. Pair(p, c)
    BY <1>5, <1>7, <1>8, <1>10, <2>1, UnsettledPair
  <2>3. Resting(r) /\ SamePlace(c, r) /\ Others(p, r)
    BY <1>6, <1>7, <2>2, ActionWorks
  <2> QED
    BY <1>7, <2>3 DEF Acted, SamePlace
<1> QED
  BY <1>9, <1>10

LEMMA RefreshActs ==
  ASSUME NEW p, Resting(p),
         NEW r, r = Settled(p, [p EXCEPT !.loading = TRUE, !.asked = Append(@, Scope(p)),
                                         !.cache[p.group] = None])
  PROVE  Acted(p, r)
<1>1. PICK a : a = Append(p.asked, Scope(p))
  OBVIOUS
<1>2. PICK k : k = [p.cache EXCEPT ![p.group] = None]
  OBVIOUS
<1>3. PICK c : c = [p EXCEPT !.loading = TRUE, !.asked = a, !.cache = k]
  OBVIOUS
<1>4. Page(p) /\ p.late = None /\ ~p.touched
  BY RestingFacts
<1>5. a \in Seq(Scopes)
  BY <1>1, <1>4, ScopeTyped DEF Page, LoadTyped
<1>6. k \in [Groups -> Snapshots \cup {None}] /\ k[p.group] = None
  BY <1>2, <1>4, ScopeTyped DEF Page, CacheTyped
<1>7. /\ Page(c) /\ SamePlace(p, c) /\ SameChoice(p, c) /\ SameView(p, c) /\ SameMarks(p, c)
      /\ SameRest(p, c) /\ SameStored(p, c) /\ c.cache = k /\ c.loading = TRUE
      /\ c.fetched = p.fetched /\ c.lastLoaded = p.lastLoaded /\ c.touched = p.touched
  <2>1. DOMAIN p = Fields
    BY <1>4 DEF Page, Shape
  <2>2. Shape(c)
    BY <1>3, <2>1 DEF Shape
  <2>3. /\ SamePlace(p, c) /\ SameChoice(p, c) /\ SameView(p, c) /\ SameShown(p, c)
        /\ SameMarks(p, c) /\ SameRest(p, c) /\ SameStored(p, c)
        /\ c.fetched = p.fetched /\ c.lastLoaded = p.lastLoaded /\ c.rows = p.rows
        /\ c.touched = p.touched /\ c.loading = TRUE /\ c.asked = a /\ c.cache = k
    BY <1>3, <2>1 DEF Fields, SamePlace, SameChoice, SameView, SameShown, SameMarks,
                      SameRest, SameStored
  <2>4. /\ PlaceTyped(c) /\ ChoiceTyped(c) /\ ViewTyped(c) /\ ShownTyped(c)
        /\ MarksTyped(c) /\ RestTyped(c) /\ StoredTyped(c)
    BY <1>4, <2>3 DEF Page, SamePlace, SameChoice, SameView, SameShown, SameMarks, SameRest,
                SameStored, PlaceTyped, ChoiceTyped, ViewTyped, ShownTyped, MarksTyped,
                RestTyped, StoredTyped
  <2>5. /\ LoadTyped(c) /\ CacheTyped(c)
    BY <1>5, <1>4, <1>6, <2>3 DEF Page, LoadTyped, CacheTyped
  <2>6. Page(c)
    BY <2>2, <2>4, <2>5 DEF Page
  <2> QED
    BY <2>3, <2>6
<1>8. r = Settled(p, c)
  BY <1>1, <1>2, <1>3
<1>9. /\ Scope(c) = Scope(p) /\ c.group = p.group /\ c.sprint = p.sprint /\ Current(c)
      /\ Others(p, c)
  BY <1>6, <1>7 DEF Scope, SamePlace, Current, Others, SameStored
<1>10. /\ c.late = None /\ c.hydratedTeams = p.hydratedTeams /\ c.plans = p.plans
       /\ c.teams = p.teams /\ c.undo = p.undo /\ c.baseline = p.baseline
  BY <1>4, <1>7 DEF SameChoice, SameView, SameMarks, SameRest, SameStored
<1> QED
  BY <1>4, <1>7, <1>8, <1>9, <1>10, SameAction

\* The page after the answer of a load that was made for sprint s.
WithAnswer(b, a, rows, s) ==
    [b EXCEPT !.asked = a, !.rows = rows, !.touched = TRUE, !.fetched = TRUE,
              !.loading = FALSE, !.lastLoaded = s]

\* What the answer of a load writes, and what it leaves alone.
LEMMA LandedSet ==
  ASSUME NEW b, Page(b), NEW a \in Seq(Scopes), NEW rows \in SUBSET Tasks, NEW s \in Sprints,
         NEW c, c = WithAnswer(b, a, rows, s)
  PROVE  /\ Page(c) /\ SamePlace(b, c) /\ SameChoice(b, c) /\ SameView(b, c) /\ SameShown(b, c)
         /\ SameMarks(b, c) /\ SameRest(b, c) /\ SameStored(b, c) /\ c.cache = b.cache
         /\ c.touched = TRUE /\ c.fetched = TRUE
<1>1. DOMAIN b = Fields
  BY DEF Page, Shape
<1>2. Shape(c)
  BY <1>1 DEF Shape, WithAnswer
<1>3. /\ SamePlace(b, c) /\ SameChoice(b, c) /\ SameView(b, c) /\ SameShown(b, c)
      /\ SameMarks(b, c) /\ SameRest(b, c) /\ SameStored(b, c) /\ c.cache = b.cache
      /\ c.asked = a /\ c.rows = rows /\ c.touched = TRUE /\ c.fetched = TRUE
      /\ c.loading = FALSE /\ c.lastLoaded = s
  BY <1>1 DEF WithAnswer, Fields, SamePlace, SameChoice, SameView, SameShown, SameMarks,
                SameRest, SameStored
<1>4. /\ PlaceTyped(c) /\ ChoiceTyped(c) /\ ViewTyped(c) /\ ShownTyped(c)
      /\ MarksTyped(c) /\ RestTyped(c) /\ StoredTyped(c) /\ CacheTyped(c)
  BY <1>3 DEF Page, SamePlace, SameChoice, SameView, SameShown, SameMarks, SameRest,
              SameStored, PlaceTyped, ChoiceTyped, ViewTyped, ShownTyped, MarksTyped,
              RestTyped, StoredTyped, CacheTyped
<1>5. /\ LoadTyped(c)
  BY <1>3 DEF Page, LoadTyped
<1>6. Page(c)
  BY <1>2, <1>4, <1>5 DEF Page
<1> QED
  BY <1>3, <1>6

\* Stories that arrive are hydrated and reconciled.
LEMMA LandedPair ==
  ASSUME NEW b, Page(b), b.late = None, b.undo => b.baseline # None /\ b.baseline.scope = Scope(b),
         Current(b), NEW a \in Seq(Scopes), NEW rows \in SUBSET Tasks, NEW scope \in Scopes,
         NEW p, Others(p, b),
         NEW c, c = Landed([b EXCEPT !.asked = a], scope, rows)
  PROVE  Pair(p, c) /\ Others(p, c) /\ SamePlace(b, c) /\ SameStored(b, c) /\ SameShown(b, c)
         /\ SameMarks(b, c) /\ SameChoice(b, c)
<1>1. PICK s : s = scope[1]
  OBVIOUS
<1>2. s \in Sprints
  BY <1>1 DEF Scopes
<1>3. c = WithAnswer(b, a, rows, s)
  BY <1>1 DEF Landed, WithAnswer
<1>4. /\ Page(c) /\ SamePlace(b, c) /\ SameChoice(b, c) /\ SameView(b, c) /\ SameShown(b, c)
      /\ SameMarks(b, c) /\ SameRest(b, c) /\ SameStored(b, c) /\ c.cache = b.cache
      /\ c.touched = TRUE /\ c.fetched = TRUE
  BY <1>2, <1>3, LandedSet
<1>5. Scope(c) = Scope(b) /\ Current(c)
  BY <1>4 DEF Scope, SamePlace, Current
<1>6. c.late = None /\ UndoFits(c)
  BY <1>4, <1>5 DEF SameRest, SameView, UndoFits
<1>7. Hydrates(p, c) /\ WillReconcile(p, c)
  BY <1>4 DEF Hydrates, WillReconcile
<1>8. Others(p, c)
  BY <1>4, <1>5 DEF Others, SameStored
<1> QED
  BY <1>4, <1>5, <1>6, <1>7, <1>8, UnsettledPair

LEMMA AnswerActs ==
  ASSUME NEW p, Resting(p), NEW i \in DOMAIN p.asked, NEW rows \in SUBSET Tasks,
         NEW r, r = Settled(p, Landed([p EXCEPT !.asked = RemoveAt(@, i)], p.asked[i], rows))
  PROVE  Acted(p, r)
<1>1. PICK a : a = RemoveAt(p.asked, i)
  OBVIOUS
<1>2. PICK scope : scope = p.asked[i]
  OBVIOUS
<1>3. PICK c : c = Landed([p EXCEPT !.asked = a], scope, rows)
  OBVIOUS
<1>4. /\ Page(p) /\ p.late = None /\ Current(p)
      /\ p.undo => p.baseline # None /\ p.baseline.scope = Scope(p)
  BY RestingFacts
<1>5. p.asked \in Seq(Scopes)
  BY <1>4 DEF Page, LoadTyped
<1>6. scope \in Scopes /\ i \in 1 .. Len(p.asked)
  BY <1>2, <1>5
<1>7. a \in Seq(Scopes)
  <2>1. SubSeq(p.asked, 1, i - 1) \in Seq(Scopes) /\ SubSeq(p.asked, i + 1, Len(p.asked)) \in Seq(Scopes)
    BY <1>5, <1>6
  <2> QED
    BY <1>1, <2>1 DEF RemoveAt
<1>8. r = Settled(p, c)
  BY <1>1, <1>2, <1>3
<1>9. Others(p, p)
  BY DEF Others
<1>10. Pair(p, c) /\ Others(p, c) /\ SamePlace(p, c)
  BY <1>3, <1>4, <1>6, <1>7, <1>9, LandedPair
<1>11. Resting(r) /\ SamePlace(c, r) /\ Others(p, r)
  BY <1>8, <1>10, ActionWorks
<1> QED
  BY <1>10, <1>11 DEF Acted, SamePlace

\* What a click on stories leaves alone: all but the selection of this scope.
Selects(p, c) ==
    /\ Page(c) /\ SamePlace(p, c) /\ SameLoad(p, c) /\ SameMarks(p, c) /\ c.teams = p.teams
    /\ c.cache = p.cache /\ c.teamPlans = p.teamPlans /\ c.renewed
    /\ c.late = p.late /\ c.baseline = p.baseline
    /\ \A s \in Scopes : s # Scope(p) => c.plans[s] = p.plans[s]

Picked(p, ts, m) ==
    SavePlan([p EXCEPT !.tasks = ts, !.mode = m], Scope(p), ts, m, p.teams)

LEMMA SelectedWorks ==
  ASSUME NEW p, Page(p), NEW ts \in SUBSET Tasks, NEW m \in Modes,
         NEW c, c = Picked(p, ts, m)
  PROVE  Selects(p, c) /\ c.undo = p.undo
<1>0. c = SavePlan([p EXCEPT !.tasks = ts, !.mode = m], Scope(p), ts, m, p.teams)
  BY DEF Picked
<1>1. PICK x : x = [tasks |-> ts, mode |-> m, teams |-> p.teams]
  OBVIOUS
<1>2. PICK pl : pl = [p.plans EXCEPT ![Scope(p)] = x]
  OBVIOUS
<1>3. x \in Plans
  BY <1>1 DEF Page, ChoiceTyped, Plans
<1>4. /\ pl \in [Scopes -> Plans \cup {None}]
      /\ \A s \in Scopes : s # Scope(p) => pl[s] = p.plans[s]
  BY <1>2, <1>3 DEF Page, StoredTyped
<1>5. c = [p EXCEPT !.tasks = ts, !.mode = m, !.plans = pl, !.renewed = TRUE]
  <2>1. PICK q : q = [p EXCEPT !.tasks = ts, !.mode = m]
    OBVIOUS
  <2>2. DOMAIN p = Fields
    BY DEF Page, Shape
  <2>3. q.plans = p.plans
    BY <2>1, <2>2 DEF Fields
  <2>4. c = [q EXCEPT !.plans = pl, !.renewed = TRUE]
    BY <1>0, <1>1, <1>2, <2>1, <2>3 DEF SavePlan
  <2> QED
    BY <2>1, <2>4
<1>6. DOMAIN p = Fields
  BY DEF Page, Shape
<1>7. Shape(c)
  BY <1>5, <1>6 DEF Shape
<1>8. /\ SamePlace(p, c) /\ SameLoad(p, c) /\ SameView(p, c) /\ SameShown(p, c)
      /\ SameMarks(p, c) /\ c.teams = p.teams /\ c.baseline = p.baseline
      /\ c.late = p.late /\ c.teamPlans = p.teamPlans /\ c.cache = p.cache
      /\ c.tasks = ts /\ c.mode = m /\ c.plans = pl /\ c.renewed = TRUE
  BY <1>5, <1>6 DEF Fields, SamePlace, SameLoad, SameView, SameShown, SameMarks
<1>9. /\ PlaceTyped(c) /\ LoadTyped(c) /\ ViewTyped(c) /\ ShownTyped(c)
      /\ MarksTyped(c) /\ CacheTyped(c)
  BY <1>8 DEF Page, SamePlace, SameLoad, SameView, SameShown, SameMarks, PlaceTyped,
              LoadTyped, ViewTyped, ShownTyped, MarksTyped, CacheTyped
<1>10. /\ ChoiceTyped(c) /\ RestTyped(c) /\ StoredTyped(c)
  BY <1>4, <1>8 DEF Page, ChoiceTyped, RestTyped, StoredTyped
<1>11. Page(c)
  BY <1>7, <1>9, <1>10 DEF Page
<1> QED
  BY <1>4, <1>8, <1>11 DEF Selects, SameView

LEMMA SelectsUndo ==
  ASSUME NEW p, NEW b, Selects(p, b), NEW v \in BOOLEAN, NEW c, c = [b EXCEPT !.undo = v]
  PROVE  Selects(p, c) /\ c.undo = v
<1>1. Page(b)
  BY DEF Selects
<1>2. /\ Page(c) /\ SamePlace(b, c) /\ SameLoad(b, c) /\ SameChoice(b, c) /\ SameShown(b, c)
      /\ SameMarks(b, c) /\ SameRest(b, c) /\ SameStored(b, c) /\ c.cache = b.cache
      /\ c.undo = v
  BY <1>1, UndoSet
<1>3. /\ b.plans = c.plans /\ b.teamPlans = c.teamPlans /\ b.renewed = c.renewed /\ b.late = c.late
      /\ b.baseline = c.baseline /\ b.teams = c.teams /\ b.cache = c.cache
  BY <1>2 DEF SameChoice, SameRest, SameStored
<1>4. SamePlace(p, c) /\ SameLoad(p, c) /\ SameMarks(p, c)
  BY <1>2 DEF Selects, SamePlace, SameLoad, SameMarks
<1> QED
  BY <1>2, <1>3, <1>4 DEF Selects

LEMMA MarkedWorks ==
  ASSUME NEW p, NEW b, Selects(p, b), b.undo = p.undo, NEW c, c = Marked(b)
  PROVE  /\ Selects(p, c)
         /\ c.undo => p.undo \/ (c.baseline # None /\ c.baseline.scope = Scope(c))
<1>1. CASE b.baseline # None /\ b.baseline.scope = Scope(b)
  <2>1. c = [b EXCEPT !.undo = TRUE]
    BY <1>1 DEF Marked
  <2>2. Selects(p, c)
    BY <2>1, SelectsUndo
  <2>3. c.baseline = b.baseline /\ Scope(c) = Scope(b)
    BY <2>2 DEF Selects, SamePlace, Scope
  <2> QED
    BY <1>1, <2>2, <2>3
<1>2. CASE ~(b.baseline # None /\ b.baseline.scope = Scope(b))
  BY <1>2 DEF Marked
<1> QED
  BY <1>1, <1>2

LEMMA SelectsActs ==
  ASSUME NEW p, Resting(p), NEW c, Selects(p, c),
         c.undo => p.undo \/ (c.baseline # None /\ c.baseline.scope = Scope(c)),
         NEW r, r = Settled(p, c)
  PROVE  Acted(p, r)
<1>1. p.late = None /\ ~p.touched /\ Current(p)
  BY RestingFacts
<1>2. /\ Scope(c) = Scope(p) /\ c.group = p.group /\ c.sprint = p.sprint /\ Current(c)
      /\ Others(p, c)
  BY <1>1 DEF Selects, Scope, SamePlace, Current, Others
<1>3. /\ Page(c) /\ c.late = None /\ ~c.touched /\ c.fetched = p.fetched
      /\ c.lastLoaded = p.lastLoaded /\ c.loading = p.loading
      /\ c.hydratedTeams = p.hydratedTeams /\ c.renewed /\ c.teams = p.teams
      /\ c.baseline = p.baseline
  BY <1>1 DEF Selects, SameLoad, SameMarks
<1> QED
  BY <1>2, <1>3, SameAction

-----------------------------------------------------------------------------
(* The teams that are carried to another sprint.                           *)

Kept(T, c) ==
    /\ Page(c) /\ c.late = None /\ Shown(c) /\ c.carried = None
    /\ c.teams = T /\ c.teamPlans[Scope(c)] = T /\ T \subseteq TeamOptions(c.group)

LEMMA FlushKeepsTeams ==
  ASSUME NEW p, NEW c, Page(c), c.late = None, NEW T, c.teams = T,
         T \subseteq TeamOptions(c.group),
         c.carried = None \/ c.carried.scope = Scope(c),
         Hydrates(p, c) => Hydrated(c, c) = T,
         ~Hydrates(p, c) => Shown(c) /\ c.carried = None /\ c.teamPlans[Scope(c)] = T,
         NEW r, r = Flushed(p, c)
  PROVE  Kept(T, r)
<1>1. PICK b : b = Ready(p, c)
  OBVIOUS
<1>2. PICK q : q = ReconcileEffect(p, c, b)
  OBVIOUS
<1>3. r = SavedLate(q)
  BY <1>1, <1>2, FlushedSteps
<1>4. Page(r) /\ SamePlace(c, r) /\ r.late = None /\ Shown(r) /\ Scope(r) = Scope(c)
  BY FlushedWorks
<1>5. /\ Page(b)
      /\ Hydrates(p, c) =>
            /\ b.teams = Hydrated(c, c)
            /\ b.carried = None \/ (b.carried = c.carried /\ c.carried.scope # Scope(c))
      /\ ~Hydrates(p, c) =>
            /\ b.carried = c.carried
            /\ Shown(c) \/ ~b.touched => b.teams = c.teams
      /\ b.teamPlans[Scope(c)] \in {c.teams, IF Hydrates(p, c) THEN Hydrated(c, c)
                                             ELSE c.teamPlans[Scope(c)]}
  BY <1>1, ReadyWorks
<1>6. b.teams = T /\ b.carried = None /\ b.teamPlans[Scope(c)] = T
  BY <1>5
<1>7. /\ Page(q) /\ BesidesReconciled(b, q)
      /\ ~Fires(p, c, b) => q = b
      /\ Fires(p, c, b) => SelectionReconciled(c, b, q)
  <2>1. Page(b)
    BY <1>5
  <2> QED
    BY <1>2, <2>1, ReconcileWorks
<1>8. TeamsInScope(c.teams, c.group) = T
  BY DEF TeamsInScope
<1>9. q.teams = T /\ q.carried = None /\ q.teamPlans[Scope(c)] = T
  BY <1>6, <1>7, <1>8 DEF BesidesReconciled, SelectionReconciled
<1>10. SameChoice(q, r) /\ SameMarks(q, r) /\ r.teamPlans = q.teamPlans
  BY <1>3, <1>7, SavedLateWorks
<1>11. r.group = c.group
  BY <1>4 DEF SamePlace
<1> QED
  BY <1>4, <1>9, <1>10, <1>11 DEF Kept, SameChoice, SameMarks

LEMMA KeptFlushed ==
  ASSUME NEW p, NEW T, NEW c, Kept(T, c), NEW r, r = Flushed(p, c)
  PROVE  Kept(T, r)
<1>1. /\ Page(c) /\ c.late = None /\ Shown(c) /\ c.carried = None
      /\ c.teams = T /\ c.teamPlans[Scope(c)] = T /\ T \subseteq TeamOptions(c.group)
  BY DEF Kept
<1>2. T # None
  BY <1>1, SelectionAssumption DEF Page, ChoiceTyped
<1>3. Hydrated(c, c) = T
  BY <1>1, <1>2 DEF Hydrated, TeamsToHydrate, TeamsToHydrateStored, TeamsInScope
<1> QED
  BY <1>1, <1>3, FlushKeepsTeams

LEMMA KeptRendered ==
  ASSUME NEW T, NEW two, Kept(T, two.is), NEW x, x = Rendered(two)
  PROVE  Kept(T, x.is)
<1>1. CASE x = two
  BY <1>1
<1>2. CASE x.was = two.is /\ x.is = Flushed(two.was, two.is)
  BY <1>2, KeptFlushed
<1> QED
  BY <1>1, <1>2, RenderedIs

LEMMA KeptSettled ==
  ASSUME NEW p, NEW T, NEW c, Kept(T, c), NEW r, r = Settled(p, c)
  PROVE  r.teams = T
<1>1. PICK two : two = [was |-> p, is |-> c]
  OBVIOUS
<1>2. PICK x1 : x1 = Rendered(two)
  OBVIOUS
<1>3. PICK x2 : x2 = Rendered(x1)
  OBVIOUS
<1>4. PICK x3 : x3 = Rendered(x2)
  OBVIOUS
<1>5. PICK x4 : x4 = Rendered(x3)
  OBVIOUS
<1>6. PICK x5 : x5 = Rendered(x4)
  OBVIOUS
<1>7. PICK x6 : x6 = Rendered(x5)
  OBVIOUS
<1>8. r = x6.is
  BY <1>1, <1>2, <1>3, <1>4, <1>5, <1>6, <1>7 DEF Settled
<1>9. Kept(T, two.is)
  BY <1>1
<1>10. Kept(T, x1.is)
  BY <1>2, <1>9, KeptRendered
<1>11. Kept(T, x2.is)
  BY <1>3, <1>10, KeptRendered
<1>12. Kept(T, x3.is)
  BY <1>4, <1>11, KeptRendered
<1>13. Kept(T, x4.is)
  BY <1>5, <1>12, KeptRendered
<1>14. Kept(T, x5.is)
  BY <1>6, <1>13, KeptRendered
<1>15. Kept(T, x6.is)
  BY <1>7, <1>14, KeptRendered
<1> QED
  BY <1>8, <1>15 DEF Kept

\* The page with another sprint chosen.
ChosenPage(p, c) ==
    /\ Page(c) /\ c.late = None /\ c.group = p.group /\ c.sprint # p.sprint
    /\ c.carried \in TeamMarks /\ c.carried.scope = Scope(c) /\ c.carried.teams = p.teams
    /\ SameStored(p, c) /\ SameShown(p, c) /\ c.cache = p.cache /\ c.fetched = p.fetched
    /\ c.teams = p.teams

Carry(p, s) == [scope |-> <<s, p.group>>, teams |-> p.teams]

Chosen(p, s, a) == [p EXCEPT !.sprint = s, !.carried = Carry(p, s), !.asked = a]

LEMMA ChosenWorks ==
  ASSUME NEW p, Page(p), p.late = None, NEW s \in Sprints, s # p.sprint, NEW a \in Seq(Scopes),
         NEW c, c = Chosen(p, s, a)
  PROVE  ChosenPage(p, c) /\ c.sprint = s
<1> DEFINE k == Carry(p, s)
<1>1. <<s, p.group>> \in Scopes /\ p.teams \in SUBSET Teams
  BY DEF Scopes, Page, PlaceTyped, ChoiceTyped
<1>2. k \in TeamMarks /\ k.scope = <<s, p.group>> /\ k.teams = p.teams
  BY <1>1 DEF TeamMarks, Carry
<1> HIDE DEF k
<1>0. c = [p EXCEPT !.sprint = s, !.carried = k, !.asked = a]
  BY DEF Chosen, k
<1>3. DOMAIN p = Fields
  BY DEF Page, Shape
<1>4. Shape(c)
  BY <1>0, <1>3 DEF Shape
<1>5. /\ SameChoice(p, c) /\ SameView(p, c) /\ SameShown(p, c) /\ SameRest(p, c)
      /\ SameStored(p, c) /\ c.group = p.group /\ c.listed = p.listed
      /\ c.prefs = p.prefs /\ c.fetched = p.fetched /\ c.loading = p.loading
      /\ c.lastLoaded = p.lastLoaded /\ c.rows = p.rows /\ c.touched = p.touched
      /\ c.teamsHydrated = p.teamsHydrated /\ c.hydratedTeams = p.hydratedTeams
      /\ c.skipPersist = p.skipPersist /\ c.cache = p.cache /\ c.sprint = s
      /\ c.carried = k /\ c.asked = a
  BY <1>0, <1>3 DEF Fields, SameChoice, SameView, SameShown, SameRest, SameStored
<1>6. /\ ChoiceTyped(c) /\ ViewTyped(c) /\ ShownTyped(c) /\ RestTyped(c)
      /\ StoredTyped(c) /\ CacheTyped(c)
  BY <1>5 DEF Page, SameChoice, SameView, SameShown, SameRest, SameStored, ChoiceTyped,
              ViewTyped, ShownTyped, RestTyped, StoredTyped, CacheTyped
<1>7. /\ PlaceTyped(c) /\ LoadTyped(c) /\ MarksTyped(c)
  BY <1>2, <1>5 DEF Page, PlaceTyped, LoadTyped, MarksTyped
<1>8. Page(c)
  BY <1>4, <1>6, <1>7 DEF Page
<1> QED
  BY <1>2, <1>5, <1>8
     DEF ChosenPage, SameRest, SameStored, SameShown, SameChoice, Scope

LEMMA ChosenPair ==
  ASSUME NEW p, Resting(p), NEW c, ChosenPage(p, c), NEW b, b = Flushed(p, c)
  PROVE  /\ Pair(c, b) /\ Shown(b) /\ SamePlace(c, b) /\ Others(p, b)
         /\ p.fetched => Kept(p.teams, b)
<1>1. /\ Page(p) /\ Shown(p) /\ Current(p)
      /\ p.fetched => p.teams \subseteq TeamOptions(p.group)
  BY RestingFacts
<1>2. /\ Page(c) /\ c.late = None /\ c.group = p.group /\ c.sprint # p.sprint
      /\ c.carried \in TeamMarks /\ c.carried.scope = Scope(c) /\ c.carried.teams = p.teams
      /\ SameStored(p, c) /\ SameShown(p, c) /\ c.cache = p.cache /\ c.fetched = p.fetched
      /\ c.teams = p.teams
  BY DEF ChosenPage
<1>3. Scope(c) # Scope(p)
  BY <1>2 DEF Scope
<1>4. Unshown(c) /\ ~Shown(c)
  BY <1>1, <1>2, <1>3 DEF Unshown, Shown, SameShown, Fits, Current
<1>5. (c.fetched => Hydrates(p, c)) /\ WillReconcile(p, c)
  BY <1>3 DEF Hydrates, WillReconcile, Watched
<1>6. Pair(p, c)
  BY <1>2, <1>4, <1>5, UnsettledPair DEF UndoFits
<1>7. Pair(c, b) /\ Shown(b) /\ SamePlace(c, b)
  BY <1>6, PairKept
<1>8. Elsewhere(c, b) /\ Scope(b) = Scope(c)
  BY <1>2, FlushedWorks
<1>9. Others(p, b)
  BY <1>2, <1>8 DEF Others, Elsewhere, SameStored
<1>10. ASSUME p.fetched PROVE Kept(p.teams, b)
  <2>1. c.carried # None
    BY <1>2, SelectionAssumption DEF TeamMarks, Scopes
  <2>2. Hydrated(c, c) = p.teams
    BY <1>1, <1>2, <1>10, <2>1 DEF Hydrated, TeamsToHydrate, TeamsInScope
  <2>3. Hydrates(p, c)
    BY <1>2, <1>5, <1>10
  <2> QED
    BY <1>1, <1>2, <1>10, <2>2, <2>3, FlushKeepsTeams
<1> QED
  BY <1>7, <1>9, <1>10

Toward(p, s) == [p EXCEPT !.sprint = s, !.carried = Carry(p, s)]

Emptied(c) == [c EXCEPT !.asked = <<>>]

LEMMA SelectSprintActs ==
  ASSUME NEW p, Resting(p), NEW s \in Sprints, s # p.sprint,
         NEW c, c = Toward(p, s), NEW b, b = Flushed(p, Emptied(c)),
         NEW r, r = Settled(c, Aborted(b, p.asked))
  PROVE  /\ Resting(r) /\ Others(p, r) /\ r.sprint = s
         /\ p.fetched => r.teams = p.teams
<1>1. Page(p) /\ p.late = None
  BY RestingFacts
<1>2. PICK e : e = Emptied(c)
  OBVIOUS
<1>3. PICK a : a = <<>>
  OBVIOUS
<1>4. e = Chosen(p, s, a)
  BY <1>2, <1>3 DEF Chosen, Emptied, Toward
<1>5. a \in Seq(Scopes)
  BY <1>3
<1>6. ChosenPage(p, e) /\ e.sprint = s
  BY <1>1, <1>4, <1>5, ChosenWorks
<1>7. b = Flushed(p, e)
  BY <1>2
<1>8. PICK d : d = Aborted(b, p.asked)
  OBVIOUS
<1>9. r = Settled(c, d)
  BY <1>8
<1>10. /\ Pair(e, b) /\ Shown(b) /\ SamePlace(e, b) /\ Others(p, b)
       /\ p.fetched => Kept(p.teams, b)
  BY <1>6, <1>7, ChosenPair
<1>11. /\ Page(b) /\ b.late = None /\ Current(b)
       /\ b.undo => b.baseline # None /\ b.baseline.scope = Scope(b)
  <2>1. ~Unshown(b)
    BY <1>10 DEF Shown, Unshown
  <2> QED
    BY <1>10, <2>1 DEF Pair, UndoFits
<1>12. /\ Pair(c, d) /\ Shown(d) /\ d.sprint = s /\ Others(p, d)
       /\ p.fetched => Kept(p.teams, d)
  <2>1. CASE p.asked = <<>>
    <3>1. d = b
      BY <1>8, <2>1 DEF Aborted
    <3>2. DOMAIN p = Fields /\ p = [f \in Fields |-> p[f]]
      BY <1>1 DEF Page, Shape
    <3>3. e = c
      BY <1>2, <2>1, <3>2 DEF Fields, Emptied, Toward
    <3> QED
      BY <1>6, <1>10, <3>1, <3>3 DEF SamePlace
  <2>2. CASE p.asked # <<>>
    <3>1. PICK scope : scope = Last(p.asked)
      OBVIOUS
    <3>2. p.asked \in Seq(Scopes)
      BY <1>1 DEF Page, LoadTyped
    <3>3. scope \in Scopes
      BY <2>2, <3>1, <3>2 DEF Last
    <3>4. PICK ba : ba = b.asked
      OBVIOUS
    <3>5. ba \in Seq(Scopes)
      BY <1>11, <3>4 DEF Page, LoadTyped
    <3>6. [b EXCEPT !.asked = ba] = b
      <4>1. DOMAIN b = Fields /\ b = [f \in Fields |-> b[f]]
        BY <1>11 DEF Page, Shape
      <4> QED
        BY <3>4, <4>1 DEF Fields
    <3>7. d = Landed([b EXCEPT !.asked = ba], scope, {})
      BY <1>8, <2>2, <3>1, <3>6 DEF Aborted
    <3>8. Others(c, b)
      <4>1. Scope(b) = Scope(e) /\ c.plans = p.plans /\ c.teamPlans = p.teamPlans
        <5>1. DOMAIN p = Fields
          BY <1>1 DEF Page, Shape
        <5> QED
          BY <1>10, <5>1, SameScope DEF Fields, Toward
      <4> QED
        BY <1>10, <4>1 DEF Others
    <3>9. {} \in SUBSET Tasks
      OBVIOUS
    <3>10. Pair(c, d) /\ SamePlace(b, d) /\ SameStored(b, d) /\ SameShown(b, d)
           /\ SameMarks(b, d) /\ SameChoice(b, d)
      BY <1>11, <3>3, <3>5, <3>7, <3>8, <3>9, LandedPair
    <3>11. Scope(d) = Scope(b) /\ d.group = b.group /\ d.sprint = b.sprint
      BY <3>10 DEF SamePlace, Scope
    <3>12. Shown(d) /\ d.sprint = s
      BY <1>6, <1>10, <3>10, <3>11 DEF Shown, SameShown, SamePlace
    <3>13. Others(p, d)
      BY <1>10, <3>10, <3>11 DEF Others, SameStored
    <3>14. Kept(p.teams, b) => Kept(p.teams, d)
      BY <3>10, <3>11, <3>12 DEF Kept, SameStored, SameMarks, SameChoice, Pair
    <3> QED
      BY <1>10, <3>10, <3>12, <3>13, <3>14
  <2> QED
    BY <2>1, <2>2
<1>13. Pair(r, r) /\ Quiet(r) /\ SamePlace(d, r) /\ Elsewhere(d, r)
  BY <1>9, <1>12, SettledPair
<1>14. Resting(r)
  BY <1>13 DEF Resting
<1>15. Others(p, r)
  <2>1. Scope(r) = Scope(d)
    BY <1>13, SameScope
  <2> QED
    BY <1>12, <1>13, <2>1 DEF Others, Elsewhere
<1>16. p.fetched => r.teams = p.teams
  BY <1>9, <1>12, KeptSettled
<1>17. r.sprint = s
  BY <1>12, <1>13 DEF SamePlace
<1> QED
  BY <1>14, <1>15, <1>16, <1>17

-----------------------------------------------------------------------------
(* The first render.                                                       *)

LEMMA FirstPage ==
  ASSUME NEW s \in Sprints, NEW g \in Groups, NEW v \in BOOLEAN, NEW prefs \in Prefs,
         NEW plans \in [Scopes -> Plans \cup {None}],
         NEW teamPlans \in [Scopes -> (SUBSET Teams) \cup {None}],
         NEW c, c = FirstRender(s, g, v, prefs, plans, teamPlans)
  PROVE  /\ Page(c) /\ c.late = None /\ ~c.fetched /\ ~c.undo /\ c.cache[c.group] = None
         /\ c.sprint = s /\ c.group = g /\ c.plans = plans /\ c.teamPlans = teamPlans
<1>1. PICK k : k = [x \in Groups |-> None]
  OBVIOUS
<1>2. k \in [Groups -> Snapshots \cup {None}] /\ k[g] = None
  BY <1>1
<1>3. Shape(c)
  BY DEF FirstRender, Shape, Fields
<1>4. /\ c.sprint = s /\ c.group = g /\ c.listed = FALSE /\ c.prefs = prefs
      /\ c.fetched = FALSE /\ c.loading = FALSE /\ c.lastLoaded = None /\ c.asked = <<>>
      /\ c.rows = {} /\ c.touched = FALSE
  BY DEF FirstRender
<1>5. /\ c.tasks = {} /\ c.mode = "manual" /\ c.teams = prefs.teams
      /\ c.undo = FALSE /\ c.planning = v /\ c.search = prefs.search
      /\ c.groupShown = None /\ c.hydrated = None
  BY DEF FirstRender
<1>6. /\ c.teamsHydrated = None /\ c.hydratedTeams = None /\ c.carried = None
      /\ c.skipPersist = None /\ c.baseline = None /\ c.late = None /\ c.renewed = FALSE
      /\ c.plans = plans /\ c.teamPlans = teamPlans
  BY DEF FirstRender
<1>7. c.cache = k
  BY <1>1 DEF FirstRender
<1>8. PlaceTyped(c) /\ LoadTyped(c)
  <2>1. {} \in SUBSET Tasks /\ <<>> \in Seq(Scopes)
    OBVIOUS
  <2>2. PlaceTyped(c)
    BY <1>4 DEF PlaceTyped
  <2> QED
    BY <1>4, <2>1, <2>2 DEF LoadTyped
<1>9. ChoiceTyped(c) /\ ViewTyped(c) /\ ShownTyped(c)
  BY <1>5 DEF ChoiceTyped, ViewTyped, ShownTyped, Prefs, Modes
<1>10. MarksTyped(c) /\ RestTyped(c) /\ StoredTyped(c)
  BY <1>6 DEF MarksTyped, RestTyped, StoredTyped
<1>11. CacheTyped(c)
  BY <1>2, <1>7 DEF CacheTyped
<1>12. Page(c)
  BY <1>3, <1>8, <1>9, <1>10, <1>11 DEF Page
<1> QED
  BY <1>2, <1>4, <1>5, <1>6, <1>7, <1>12

LEMMA OpenedRests ==
  ASSUME NEW s \in Sprints, NEW g \in Groups, NEW v \in BOOLEAN, NEW prefs \in Prefs,
         NEW plans \in [Scopes -> Plans \cup {None}],
         NEW teamPlans \in [Scopes -> (SUBSET Teams) \cup {None}],
         NEW r, r = Opened(FirstRender(s, g, v, prefs, plans, teamPlans))
  PROVE  /\ Resting(r) /\ r.sprint = s /\ r.group = g
         /\ \A x \in Scopes : x # Scope(r) => /\ r.plans[x] = plans[x]
                                              /\ r.teamPlans[x] = teamPlans[x]
<1>1. PICK c : c = FirstRender(s, g, v, prefs, plans, teamPlans)
  OBVIOUS
<1>2. /\ Page(c) /\ c.late = None /\ ~c.fetched /\ ~c.undo /\ c.cache[c.group] = None
      /\ c.sprint = s /\ c.group = g /\ c.plans = plans /\ c.teamPlans = teamPlans
  BY <1>1, FirstPage
<1>3. PICK p : p = NothingRendered(c)
  OBVIOUS
<1>4. r = Settled(p, c)
  BY <1>1, <1>3 DEF Opened
<1>5. p # c
  <2>1. DOMAIN c = Fields
    BY <1>2 DEF Page, Shape
  <2>2. p.sprint = None
    BY <1>3, <2>1 DEF NothingRendered, Fields
  <2> QED
    BY <1>2, <2>2, SelectionAssumption
<1>6. UndoFits(c) /\ Current(c)
  BY <1>2 DEF UndoFits, Current
<1>7. Pair(p, c)
  BY <1>2, <1>6, UnsettledPair
<1>8. Pair(r, r) /\ Quiet(r) /\ SamePlace(c, r) /\ Elsewhere(c, r)
  BY <1>4, <1>5, <1>7, SettledPair
<1>9. Scope(r) = Scope(c)
  BY <1>8, SameScope
<1> QED
  BY <1>2, <1>8, <1>9 DEF Resting, SamePlace, Elsewhere

LEMMA ReloadActs ==
  ASSUME NEW p, Resting(p),
         NEW r, r = Opened(FirstRender(p.sprint, p.group, p.planning,
                                      [teams |-> p.teams, search |-> p.search],
                                      p.plans, p.teamPlans))
  PROVE  Acted(p, r)
<1>1. Page(p)
  BY RestingFacts
<1>2. PICK prefs : prefs = [teams |-> p.teams, search |-> p.search]
  OBVIOUS
<1>3. prefs \in Prefs
  BY <1>1, <1>2 DEF Page, ChoiceTyped, ViewTyped, Prefs
<1>4. PICK s, g, v, plans, teamPlans :
          /\ s = p.sprint /\ g = p.group /\ v = p.planning
          /\ plans = p.plans /\ teamPlans = p.teamPlans
  OBVIOUS
<1>5. s \in Sprints /\ g \in Groups /\ v \in BOOLEAN
  BY <1>1, <1>4 DEF Page, PlaceTyped, ViewTyped
<1>6. /\ plans \in [Scopes -> Plans \cup {None}]
      /\ teamPlans \in [Scopes -> (SUBSET Teams) \cup {None}]
  BY <1>1, <1>4 DEF Page, StoredTyped
<1>7. r = Opened(FirstRender(s, g, v, prefs, plans, teamPlans))
  BY <1>2, <1>4
<1>8. /\ Resting(r) /\ r.sprint = s
      /\ \A x \in Scopes : x # Scope(r) => r.plans[x] = plans[x] /\ r.teamPlans[x] = teamPlans[x]
  BY <1>3, <1>5, <1>6, <1>7, OpenedRests
<1> QED
  BY <1>4, <1>8 DEF Acted, Others

-----------------------------------------------------------------------------
(* The actions.                                                            *)

\* What a step makes of the page.
Moved(p, r) ==
    /\ Resting(r) /\ Others(p, r)
    /\ r.sprint # p.sprint /\ p.fetched => r.teams = p.teams

LEMMA ActedMoved ==
  ASSUME NEW p, NEW r, Acted(p, r)
  PROVE  Moved(p, r)
BY DEF Acted, Moved

LEMMA SelectSprintStep ==
  ASSUME Resting(page), NEW s \in Sprints, SelectSprint(s)
  PROVE  Moved(page, page')
<1>1. PICK c : c = ChosenSprint(s)
  OBVIOUS
<1>2. PICK b : b = Flushed(page, Emptied(c))
  OBVIOUS
<1>3. s # page.sprint /\ page' = Settled(c, Aborted(b, page.asked))
  BY <1>1, <1>2 DEF SelectSprint, Emptied
<1>4. c = Toward(page, s)
  BY <1>1 DEF ChosenSprint, Toward, Carry
<1>5. PICK p : p = page
  OBVIOUS
<1>6. PICK r : r = page'
  OBVIOUS
<1>7. /\ Resting(p) /\ s # p.sprint /\ c = Toward(p, s)
      /\ b = Flushed(p, Emptied(c)) /\ r = Settled(c, Aborted(b, p.asked))
  BY <1>2, <1>3, <1>4, <1>5, <1>6
<1>8. Resting(r) /\ Others(p, r) /\ (p.fetched => r.teams = p.teams)
  BY <1>7, SelectSprintActs
<1> QED
  BY <1>5, <1>6, <1>8 DEF Moved

LEMMA AnswerStep ==
  ASSUME Resting(page), NEW i \in DOMAIN page.asked, Answer(i)
  PROVE  Moved(page, page')
<1>1. RowsInJira(page.asked[i]) \in SUBSET Tasks
  BY DEF RowsInJira
<1>2. PICK rows : rows = RowsInJira(page.asked[i])
  OBVIOUS
<1>3. page' = Settled(page, Landed([page EXCEPT !.asked = RemoveAt(@, i)], page.asked[i], rows))
  BY <1>2 DEF Answer
<1>4. rows \in SUBSET Tasks
  BY <1>1, <1>2
<1>5. Acted(page, page')
  BY <1>3, <1>4, AnswerActs
<1> QED
  BY <1>5, ActedMoved

LEMMA SelectedPage ==
  ASSUME Resting(page), NEW ts \in SUBSET Tasks, NEW m \in Modes
  PROVE  /\ Selects(page, Selected(ts, m)) /\ Selected(ts, m).undo = page.undo
         /\ Selects(page, Marked(Selected(ts, m)))
<1>1. Page(page)
  BY RestingFacts
<1>2. PICK c : c = Selected(ts, m)
  OBVIOUS
<1>3. Selects(page, c) /\ c.undo = page.undo
  <2>1. c = Picked(page, ts, m)
    BY <1>2 DEF Selected, Picked
  <2> QED
    BY <1>1, <2>1, SelectedWorks
<1>4. Selects(page, Marked(c))
  BY <1>3, MarkedWorks
<1> QED
  BY <1>2, <1>3, <1>4

LEMMA ClickStep ==
  ASSUME Resting(page), NEW ts \in SUBSET Tasks, NEW m \in Modes,
         NEW c, c = Selected(ts, m) \/ c = Marked(Selected(ts, m)), PlanningClick(c)
  PROVE  Moved(page, page')
<1>1. PICK b : b = Selected(ts, m)
  OBVIOUS
<1>2. Selects(page, b) /\ b.undo = page.undo
  BY <1>1, SelectedPage
<1>3. /\ Selects(page, c)
      /\ c.undo => page.undo \/ (c.baseline # None /\ c.baseline.scope = Scope(c))
  <2>1. CASE c = b
    BY <1>2, <2>1
  <2>2. CASE c = Marked(b)
    BY <1>2, <2>2, MarkedWorks
  <2> QED
    BY <1>1, <2>1, <2>2
<1>4. page' = Settled(page, c)
  BY DEF PlanningClick
<1>5. Acted(page, page')
  BY <1>3, <1>4, SelectsActs
<1> QED
  BY <1>5, ActedMoved

LEMMA UndoStep ==
  ASSUME Resting(page), Undo
  PROVE  Moved(page, page')
<1>1. /\ Page(page)
      /\ page.undo => page.baseline # None /\ page.baseline.scope = Scope(page)
  BY RestingFacts
<1>2. PICK base : base = page.baseline
  OBVIOUS
<1>3. base # None /\ base.scope = Scope(page)
  <2>1. page.undo
    BY DEF Undo
  <2> QED
    BY <1>1, <1>2, <2>1
<1>4. base \in Baselines
  <2>1. Page(page)
    BY <1>1
  <2> QED
    BY <1>2, <1>3, <2>1 DEF Page, RestTyped
<1>5. PICK ts, m : ts = base.tasks /\ m = base.mode
  OBVIOUS
<1>6. ts \in SUBSET Tasks /\ m \in Modes
  BY <1>4, <1>5 DEF Baselines
<1>7. PICK b : b = Selected(ts, m)
  OBVIOUS
<1>8. PICK c : c = [b EXCEPT !.undo = FALSE]
  OBVIOUS
<1>9. page' = Settled(page, c)
  BY <1>2, <1>3, <1>5, <1>7, <1>8 DEF Undo
<1>10. Selects(page, b)
  BY <1>6, <1>7, SelectedPage
<1>11. FALSE \in BOOLEAN
  OBVIOUS
<1>12. Selects(page, c) /\ c.undo = FALSE
  BY <1>8, <1>10, <1>11, SelectsUndo
<1>13. Acted(page, page')
  BY <1>9, <1>12, SelectsActs
<1> QED
  BY <1>13, ActedMoved

LEMMA SamePage ==
  ASSUME Resting(page), UNCHANGED page
  PROVE  Moved(page, page')
BY DEF Moved, Others

\* The first page, of the first sprint and group and an empty storage.
LEMMA InitRests ==
  ASSUME Init
  PROVE  Resting(page)
<1>1. PICK s, g, v : s = FirstSprint /\ g = FirstGroup /\ v = FALSE
  OBVIOUS
<1>2. s \in Sprints /\ g \in Groups /\ v \in BOOLEAN
  BY <1>1, SelectionAssumption
<1>3. PICK prefs : prefs = [teams |-> AllTeams, search |-> FALSE]
  OBVIOUS
<1>4. prefs \in Prefs
  BY <1>3 DEF Prefs, AllTeams
<1>5. PICK plans, teamPlans : plans = NoScope /\ teamPlans = NoScope
  OBVIOUS
<1>6. /\ plans \in [Scopes -> Plans \cup {None}]
      /\ teamPlans \in [Scopes -> (SUBSET Teams) \cup {None}]
  BY <1>5 DEF NoScope, Scopes
<1>7. page = Opened(FirstRender(s, g, v, prefs, plans, teamPlans))
  BY <1>1, <1>3, <1>5 DEF Init
<1> QED
  BY <1>2, <1>4, <1>6, <1>7, OpenedRests

LEMMA NextMoves ==
  ASSUME Resting(page), [Next]_vars
  PROVE  Moved(page, page')
<1>1. Page(page)
  BY RestingFacts
<1>2. /\ SelectionTasks(page) \subseteq Tasks /\ page.tasks \subseteq Tasks
      /\ "manual" \in Modes /\ "default_all" \in Modes
  BY <1>1, TasksTyped DEF Page, ChoiceTyped, Modes
<1>3. ASSUME NEW s \in Sprints, SelectSprint(s) PROVE Moved(page, page')
  BY <1>3, SelectSprintStep
<1>4. ASSUME NEW s \in Sprints, NEW t \in Tasks, MoveTask(t, s) PROVE Moved(page, page')
  BY <1>4, SamePage DEF MoveTask
<1>5. ASSUME NEW g \in Groups, SelectGroup(g) PROVE Moved(page, page')
  <2>1. g # page.group /\ page' = Settled(page, [page EXCEPT !.group = g])
    BY <1>5 DEF SelectGroup
  <2> QED
    BY <2>1, SelectGroupActs, ActedMoved
<1>6. CASE Reload
  BY <1>6, ReloadActs, ActedMoved DEF Reload
<1>7. CASE SprintsListed
  BY <1>7, ListedActs, ActedMoved DEF SprintsListed
<1>8. CASE Refresh
  BY <1>8, RefreshActs, ActedMoved DEF Refresh
<1>9. ASSUME NEW i \in DOMAIN page.asked, Answer(i) PROVE Moved(page, page')
  BY <1>9, AnswerStep
<1>10. CASE TogglePlanning
  BY <1>10, PlanningActs, ActedMoved DEF TogglePlanning
<1>11. CASE Search
  BY <1>11, SearchActs, ActedMoved DEF Search
<1>12. ASSUME NEW t \in Teams, ToggleTeam(t) PROVE Moved(page, page')
  <2>1. /\ t \in TeamOptions(page.group)
        /\ page' = Settled(page, [page EXCEPT !.teams = SymDiff(@, {t})])
    BY <1>12 DEF ToggleTeam
  <2> QED
    BY <2>1, TeamActs, ActedMoved
<1>13. ASSUME NEW t \in Tasks, ToggleTask(t) PROVE Moved(page, page')
  <2>1. PICK ts : ts = SymDiff(page.tasks, {t})
    OBVIOUS
  <2>2. ts \in SUBSET Tasks
    BY <1>2, <2>1 DEF SymDiff
  <2>3. PlanningClick(Selected(ts, "manual"))
    BY <1>13, <2>1 DEF ToggleTask
  <2> QED
    BY <1>2, <2>2, <2>3, ClickStep
<1>14. CASE ClearSelected
  <2>1. PlanningClick(Marked(Selected({}, "manual")))
    BY <1>14 DEF ClearSelected
  <2>2. {} \in SUBSET Tasks
    OBVIOUS
  <2> QED
    BY <1>2, <2>1, <2>2, ClickStep
<1>15. CASE SelectAllVisible
  <2>1. PICK m : m = IF IsFuture(page) THEN "default_all" ELSE "manual"
    OBVIOUS
  <2>2. PlanningClick(Marked(Selected(SelectionTasks(page), m)))
    BY <1>15, <2>1 DEF SelectAllVisible
  <2>3. m \in Modes /\ SelectionTasks(page) \in SUBSET Tasks
    BY <1>2, <2>1
  <2> QED
    BY <2>2, <2>3, ClickStep
<1>16. ASSUME NEW status, ToggleIncludeByStatus(status) PROVE Moved(page, page')
  <2>1. PICK matching : matching = SelectionTasks(page) \cap status
    OBVIOUS
  <2>2. PICK ts : ts = IF matching # {} /\ matching \subseteq page.tasks
                       THEN page.tasks \ matching ELSE page.tasks \cup matching
    OBVIOUS
  <2>3. ts \in SUBSET Tasks
    BY <1>2, <2>1, <2>2
  <2>4. PlanningClick(Marked(Selected(ts, "manual")))
    BY <1>16, <2>1, <2>2 DEF ToggleIncludeByStatus
  <2> QED
    BY <1>2, <2>3, <2>4, ClickStep
<1>17. CASE Undo
  BY <1>17, UndoStep
<1>18. CASE UNCHANGED vars
  BY <1>18, SamePage DEF vars
<1> QED
  BY <1>3, <1>4, <1>5, <1>6, <1>7, <1>8, <1>9, <1>10, <1>11, <1>12, <1>13, <1>14, <1>15,
     <1>16, <1>17, <1>18 DEF Next

-----------------------------------------------------------------------------
(* What holds of every page at rest.                                       *)

LEMMA RestingConsistent ==
  ASSUME Resting(page)
  PROVE  SelectionConsistent
<1>1. /\ Page(page) /\ page.late = None /\ Shown(page) /\ ~page.touched /\ ~page.renewed
      /\ page.undo => page.baseline # None /\ page.baseline.scope = Scope(page)
      /\ page.fetched => page.teams \subseteq TeamOptions(page.group)
  BY RestingFacts
<1>2. TypeOK
  <2>1. Scope(page) \in Scopes
    BY <1>1, ScopeTyped
  <2>2. page.asked \in Seq(Scopes)
    BY <1>1 DEF Page, LoadTyped
  <2>3. \A i \in DOMAIN page.asked : page.asked[i] \in Scopes
    BY <2>2
  <2> QED
    BY <1>1, <2>1, <2>3 DEF TypeOK, Page, ChoiceTyped, LoadTyped, StoredTyped
<1>3. Rests
  <2>1. Quiet(page)
    BY DEF Resting
  <2>2. Flushed(page, page) = page
    BY <2>1, NothingToDo
  <2> QED
    BY <1>1, <2>2 DEF Rests
<1>4. ~WillReconcile(page, page)
  BY <1>1 DEF WillReconcile
<1>5. Loaded(page) => Stored(page) /\ EveryTask(page)
  BY <1>4 DEF Resting, Pair, StoredSettled
<1>6. StoredIsShown
  BY <1>5 DEF StoredIsShown, Stored
<1>7. AllByDefault
  BY <1>1, <1>5 DEF AllByDefault, EveryTask, TeamOptions, Loaded
<1>8. UndoReaches
  BY <1>1 DEF UndoReaches
<1> QED
  BY <1>2, <1>3, <1>6, <1>7, <1>8 DEF SelectionConsistent

-----------------------------------------------------------------------------
(* Theorems.                                                               *)

\* Between two turns of the event loop the page is at rest: a render of it, after
\* itself, would leave every mark, cache and stored selection as it is.  It is
\* the inductive invariant, kept through the six renders that dashboard.jsx needs
\* at most for any change of its state.
THEOREM PageAlwaysRests == Spec => []Resting(page)
<1>1. Init => Resting(page)
  BY InitRests
<1>2. Resting(page) /\ [Next]_vars => Resting(page)'
  BY NextMoves DEF Moved
<1> QED
  BY <1>1, <1>2, PTL DEF Spec

\* What is stored for a scope, what the board of it shows and what Undo goes back
\* to are one selection, and the five effects of dashboard.jsx that write it
\* neither loop nor leave it half done.
THEOREM SelectionAlwaysConsistent == Spec => []SelectionConsistent
<1>1. Resting(page) => SelectionConsistent
  BY RestingConsistent
<1> QED
  BY <1>1, PageAlwaysRests, PTL

\* No step stores anything for another scope than the one shown after it, however
\* late an answer or an updater is.
THEOREM OtherScopesAlwaysKept == Spec => OtherScopesKept
<1>1. Resting(page) /\ [Next]_vars =>
          [\A s \in Scopes : s # Scope(page)' =>
               page'.plans[s] = page.plans[s] /\ page'.teamPlans[s] = page.teamPlans[s]]_vars
  BY NextMoves DEF Moved, Others, Scope
<1> QED
  BY <1>1, PageAlwaysRests, PTL DEF Spec, OtherScopesKept

\* A filter of teams goes along to the sprint that is chosen next, where what the
\* browser stored for that sprint says otherwise too.
THEOREM SprintAlwaysKeepsTeams == Spec => SprintKeepsTeams
<1>1. Resting(page) /\ [Next]_vars =>
          [page'.sprint # page.sprint /\ page.fetched => page'.teams = page.teams]_vars
  BY NextMoves DEF Moved
<1> QED
  BY <1>1, PageAlwaysRests, PTL DEF Spec, SprintKeepsTeams
=============================================================================
