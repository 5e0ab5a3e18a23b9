# Formal verification of the Jira execution planner

TLA+ models of the parts of the planner whose correctness depends on the order
in which things happen, or on many pieces of state agreeing with each other,
the TLC configurations that check them on small instances, and theorems proved
with TLAPS for all instances. Every definition is translated from the source;
`PROJECT.json` names the lines each one models, the runs, one mutant for every
checked property, the hazards and the findings. Paths below are relative to the
repository's root.

Run inside this directory: `tlc -config MCX.cfg MCX` for a run, `tlapm
XProofs.tla` for the proofs.

## 1. The system

A Flask server (`jira_server.py`, `backend/`, `planning/`) stands between Jira
Cloud and a React single-page client (`frontend/src/`). The server keeps
OAuth connections, tokens, settings and scenario drafts in PostgreSQL (or, in
local mode, sessions in memory and settings in JSON files), and several
in-process caches of Jira data. Requests are served by threads; each database
request runs in one `session_scope` transaction (READ COMMITTED) that commits
at the end or rolls back on any exception. A browser tab runs one handler at a
time, but its requests overlap, and it can have many of them in flight while
the user switches scope, surface, group or sprint. Most of the client is one
component, `dashboard.jsx`: some hundred pieces of React state, refs and
caches, and effects that run after the renders in which what they depend on
has changed.

| component | state | operations | what is hard | what makes it correct |
|---|---|---|---|---|
| DB OAuth tokens (`backend/auth/db_tokens.py`) | connection row, two token rows, Atlassian's rotating refresh tokens | load, serve, refresh under row lock, revoke, upsert from a callback | single-use refresh tokens, stale reads before the lock, rollback of a revocation, a rotation lost before the commit | concurrency never gets a refresh token refused; no newer token is overwritten |
| Scenario draft service (`backend/scenario_drafts.py`) | draft, versions, events of a scope | save, roll back, reload from Jira, append event, import legacy, page of events | optimistic revisions, `max()+1` numbers, a slow fetch between check and write | no lost update; history, draft and feed agree |
| Advisory locks of a draft (same file, `scenario_draft_routes.py`) | lock rows with expiry | acquire, refresh, release, invalidate | unlocked read then write by primary key, expiry between the two | who is told to hold an issue does |
| Draft editor (`dashboard.jsx`) | scope, timeline, overrides, draft metadata, undo, requests | edit, undo, discard, save, run, load, history, old version, rollback, reload | answers after a scope switch, edits during a save | what is called saved is stored; draft and timeline are of one scope |
| Event feed (`dashboard.jsx`, `get_events_page`) | cursor, polls in flight, stream | poll, stream, apply | pages, cancelled polls, a cursor shared by two readers | nothing is skipped, everything arrives |
| Queue of Jira writes (`engIssueMutationQueue.js`) | pending jobs, active count and keys | enqueue, drain, finish | cap and per-issue order together | bounded, serial and in order per issue |
| Catch Up changes (three `useEng*Transitions.js` hooks, `jira_issue_*.py`) | rows, pending keys, menus | open, submit, answer, switch surface | optimistic rows, late, partial and lost answers | rows end up showing what Jira has |
| Menus and batches of Planning (the same hooks, `useStorySubtasks.js`) | menu, options, caches, batch, subtask panel | open, close, load options, submit, retry, toggle panel | superseded requests, batches that fail in part, panels loading meanwhile | options of the issue shown, no control stuck, rows and panels show Jira |
| Scenario scheduler (`planning/scheduler.py`) | schedule under construction, slots, assignees | classify, place active work, sort, cut cycles, place | cycles, missing issues, two bookkeepings of one lane, day rounding | every issue once, dependencies first, nobody booked twice |
| Scenario timeline (`dashboard.jsx`, `scenario/`) | lanes, rows, collapse, focus, range | change lanes, focus, edit, search, rerun, export | effects that collapse and restore, stacking, several sums over the same bars | no bar hidden or lost; the focus leads back |
| ENG board (`useEngSprintData.js`, `dashboard.jsx`) | lists shown, kept per group, controllers, marks | change sprint, group, view; refresh, save, batch | late and aborted answers, one mark for all groups | what is shown is of what is selected; all of it is asked for |
| Planning selection (`planningSelection*.js/mjs`, `dashboard.jsx`) | stories, mode, teams; their storage by scope | click, include, undo, change scope | five effects that read and write each other's state | stored, shown and undoable selection are one |
| Alerts (`EngAlertsPanel.jsx`, `dashboard.jsx`) | lists of ten cards, dismissals | load, dismiss, patch, filter | a chain of cards that exclude each other; counts that may be missing | an epic on one planning card until it is planned |
| Dependencies (`dependencyFocusUtils.js`, `dashboard.jsx`) | links, lookups, focus, hover | load, point, click, filter, patch | three sources of one status; lookups superseded | chips, dimming and lists agree with Jira |
| Statistics (`dashboard.jsx`, `stats/`, `cohort/`) | four requests with caches; filters | choose range, view, filters; Refresh; save settings | chunks in parallel, debounce, caches only some of which are dropped; the same stories counted many ways | what is shown was asked for; totals agree |
| EPM view (`useEpmViewData.js`, `epm/`) | projects, rollup, boards, sub-goals | choose tab, project, goals, sprint; open boards | requests that wait for another, late answers | nothing shown of another scope; no load for ever |
| Shared groups (`shared_group_config.py`, `dashboard.jsx`) | catalog with revision, preference rows, settings dialog | load, edit, save, import, choose, toggle | insert race, compare-and-set, drafts of two dialogs | no save undoes another; who has not chosen sees nothing |
| Settings sections (`dashboard.jsx`, `settings_routes.py`) | drafts, baselines in refs, memos of what is dirty; one stored configuration | open, load, edit, save, retry, close, discard | nine sections saved one by one, partial failure, memos that a save does not renew, whole configuration written for each | nothing chosen is lost without a question; nothing unedited is sent |
| Searches of the settings (`dashboard.jsx`, `EpmSettings.jsx`) | query, timer, request, list, highlight of each; a cache of labels | type, choose, take back, show, change the prefix | answers out of order, three ways to make them late | what is offered was found for what is typed |
| Local sessions, focus refresh, status cache, server caches, credentials, views | rows, timestamps | replace, revoke, invalidate | see section 6 | |

How they interact: the routes obtain a token through *DB OAuth tokens* before
every call to Jira; the *editor* reads and writes drafts through the *draft
service*, is told of others' changes by the *event feed*, whose numbers are
assigned inside the service's transactions, and starts from the timeline that
the *scheduler* computes and the *scenario timeline* draws; *reload from Jira*
deletes the *advisory locks* of its draft. Catch Up changes share one *queue*.
The *board* loads the rows that *selection*, *alerts*, *dependencies*, *menus*
and the *Teams* view of Statistics work on, for the groups that *shared groups*
lets the user see; menus and batches patch those rows and have them read again.

## 2. Modules

In the order in which they were written, the most important behaviour first.

| module | models | composes | proofs |
|---|---|---|---|
| `TokenRefresh` | DB OAuth tokens | | `TokenRefreshProofs` |
| `DraftHistory` | abstract: append-only history with informed writers | | |
| `ScenarioDrafts` | draft service | implements `DraftHistory` | `ScenarioDraftsProofs` |
| `DraftLocks` | advisory locks of one issue | | `DraftCollaborationProofs` |
| `DraftEvents` | polling and stream of one draft | the feed of `ScenarioDrafts`; in `MCTokensAndFeed` with `TokenRefresh` | `DraftCollaborationProofs` |
| `DraftEditor` | one tab and its requests | the history of `DraftHistory`, one for each scope | `DraftCollaborationProofs` |
| `IssueMutationQueue` | queue of Jira writes | | in the next |
| `CatchUpStatus` | status, priority and track changes of single issues | extends `IssueMutationQueue` | `PageProofs` |
| `Scheduler` | `schedule_issues` | | `SchedulerProofs` |
| `SprintBoard` | loading of the ENG board | | `SprintBoardProofs` |
| `PlanningSelection` | what is selected for planning | | `PlanningSelectionProofs` |
| `GroupsConfig` | shared groups, server and client | in `MCSettings` | `GroupsConfigProofs` |
| `EpmView` | loading of the EPM view | in `MCPageParts` | |
| `SettingsDrafts` | the administrator's sections of the settings, page and server | in `MCSettings` | |
| `SettingsSearch` | the searches of the settings | in `MCSettings` | |
| `IssueMenus` | menus and batches of Planning, subtasks | in `PageParts` | `PageProofs` |
| `ScenarioTimeline` | lanes, bars, focus | in `PageParts` | `PageProofs` |
| `EngAlerts` | the cards of the board's alerts | in `PageParts` | `PageProofs` |
| `DependencyFocus` | links and the focus on them | in `PageParts` | `PageProofs` |
| `PageParts` | a page with one of six of these | `IssueMenus`, `DependencyFocus`, `StatsLoading`, `EngAlerts`, `ScenarioTimeline`, `Burndown`; extended by `MCPageParts` | |
| `StatsLoading` | requests of Statistics | in `PageParts` | `PageProofs` |
| `StatsTables` | numbers of Statistics | in `MCPageParts` | |
| `LeadTimes` | the chart of lead times | in `MCPageParts` | |
| `Burndown` | the chart of open work | in `PageParts` | `PageProofs` |

`MCPageParts` instantiates (six of them through `PageParts`, for any constants)
the nine parts of the page that work on what the
board or a request of their own has loaded. They share two variables; a
behaviour follows one part from its initial states (`part` never changes). What
the parts have in common, the sprint, the group and the rows, is state of
`SprintBoard`, and an input of theirs: each of them lets it change under its
feet. TLC's statistics of that run therefore name one action per part; each
part was also checked alone with the same constants, and fires all its actions.
`MCSettings` does the same with the settings: the groups, the sections twice,
with other constants, and the searches twice. `MCTokensAndFeed` does it with the
refresh of tokens and the feed of a draft, which have nothing in common but that
other threads go on meanwhile.

Worth adding next: one "latest request wins" specification that `SprintBoard`,
`EpmView` and `StatsLoading` are each compared with; one lease that
`DraftLocks` would implement but for take-overs of expired locks.

## 3. What each module models

### TokenRefresh

`conn`, `access` and `refresh` are the rows of `auth_connections` and
`auth_tokens`; `issued` and `live` are Atlassian's side: tokens are numbered
by answer, a rotating refresh token stays good until it is used. `txn[t]` is
what a thread's session holds. A request loads the connection without a lock
(`LoadConnection`), serves it or sees it expired (`ServeStored`,
`NeedRefresh`), waits for `SELECT ... FOR UPDATE` (`LockConnection`), posts
the refresh token and is refused, granted (with or without a new refresh
token) or fails (`RefreshRefused`, `RefreshGranted`, `RefreshFails`), and
commits or rolls back. A callback exchanges a code, reads, writes and commits
(`ExchangeCode` ... `CommitCallback`). Details that decide the outcome are
kept: the locking SELECT returns the object already in the identity map, so
expiry and version are those of the first read, while the token rows are read
afresh; an exception undoes everything, the revocation included.

### ScenarioDrafts and DraftHistory

One scope. Each request is one call of the service with a base revision and
contents of its own. Its steps are the points at which another transaction can
get in between: the first read and stale check, the `UPDATE ... WHERE
draft_revision = base`, the `max()+1` reads, the commit. The lock is the row
lock of the draft, taken by `UPDATE`, `FOR UPDATE` or the unique insert. A
request can fail at any step and rolls back. `DraftHistory` is what clients
rely on: a history that only grows, in which every writer but the first had
seen the version it follows, and one answer for each request.

### DraftLocks

The lock row of one issue, named by the request that inserted it. `acquire`
reads, then inserts (retrying once on the unique constraint, with the time of
the first attempt) or updates by primary key; `release` reads, checks the
holder, deletes by primary key. `granted` is what the users were told. Reload
deletes the row; rollback does nothing to it. Time is a counter.

### DraftEvents

The feed is a sequence of event types. A poll remembers the cursor it asked
from; an answer is a page of at most `PageLimit`. Moving the cursor re-runs
the effects that depend on it, which cancels older polls and closes the
stream. The stream can end after any event.

### DraftEditor

One tab. The server is one history for each scope. A request is `sent`, then
answered (`ok` or `conflict`) by the server at any later moment, then handled;
handlers of different requests come in any order. Guards such as
`isScenarioScopeDraftCurrent`, the disabled state of the Save button, and the
question asked about unsaved changes are the actions' guards. Left out: the
write-back preview, presence, the display of locks. The undo stack is empty or
not. History: `crossed` remembers whether an answer that no guard stops was
handled after another scope was loaded (`"everything"`), or a history was, which
renames the draft only (`"draft"`).

### IssueMutationQueue and CatchUpStatus

`drain()` runs without interruption; `draining` keeps every other action away
while it does. A job is pending, running or done. The three hooks (`Fields`)
have a menu and pending keys each and share the queue and the surface; a cell
is a field of an issue. A change patches the row, waits for a slot, is served
by Jira (success, refused, failed, or lost: applied or not and no answer), and
its answer confirms or restores the row unless the surface changed in between:
for a status to what Jira said it was, for the other fields to the value the
menu was opened with. `unseen` remembers the cells for which no correct answer
ever reached the rows: after those the row may differ, and the code does not
promise otherwise.

### Scheduler

`schedule_issues` whole: classification, work in progress around today,
`topo_sort`, the loop that cuts cycles open, the main pass. The input (issues,
graph, lane mode) is chosen in the initial state. Abstractions:

* time in ticks, `DayTicks` to a day; a point is two ticks; the assignee
  factor is 1 and the team size is `Slots`;
* a dependency and a block between the same issues are one edge;
* the order of issues that the code takes from Python sets is any order, and
  so are ties in a round of cutting;
* an "Incomplete" issue is a "todo": the pass after the main one that the
  comment at `planning/scheduler.py:371` announces finds nothing to do.

`pc = "failed"` is the AttributeError of a sort that meets an issue which is
not in the list.

### The page: how React is modelled

In `SprintBoard`, `PlanningSelection`, `EpmView`, `GroupsConfig` and the other
parts of the page, `page` is a record: the React state, the refs, the caches
and the requests under way between two turns of the event loop. What an event
handler or the end of a request does is an operator from a page to a page, and
so is an effect, which takes the render `p` before and the render `c` it closes
over, and changes `b`. Setting state renders again; `Settled` (or `Flushed`)
runs the effects until none of their dependencies changes. A closure that reads
a value of its own render is modelled as doing so: that is where most of the
hazards are. An aborted request is one whose answer is dropped, or answered with
an empty list where the code's `catch` does that.

### SprintBoard

Two lists (product, tech) for the selected sprint and group, the lists behind
"ready to close" after them, the backlog of a future sprint. `mark` and
`lastLoaded` are `sprintLoadRef` and `lastLoadedSprintRef`, one for all groups;
`cache` is what each group showed. `batch` is the scope of the render a Planning
batch was submitted in, which its reload closes over; its targets were on the
page then, so a batch is submitted only while rows are shown. History: `strayed` (the group or
its teams changed while lists were under way, or one came for another scope)
and, on each list, `how` it came.

### PlanningSelection

`plans` and `teamPlans` are the storage of the browser by sprint and group
(`planningSelectionState.mjs`, `teamSelectionPersistence.mjs`), `tasks`,
`mode`, `teams` the state, `baseline` what Undo goes back to. The actions are
clicks, Undo, changes of sprint, group and page, a refresh, and a story moved in
Jira. The effects restore, prune, apply the default of a future sprint, and
reconcile the teams. `Settled` stops after six renders, which a proof shows are
enough (section 5); `Aborted` is what the requests of the sprint left answer
when they are aborted, all of them at once and with no story.

### EpmView

A list of projects, then a rollup of all or of one, then the stories of archived
boards on demand; `retry` is `epmRollupRetryAfterProjectsRef`. Sub-goals are
`draft` (being edited), `saved` and `picked`. A request for projects that a
newer one overtook is marked `late`. History: `moved`, a list of projects was
answered to another scope than the one that asked.

### GroupsConfig

`catalog` is the row with its `config_revision`; a version remembers (`origin`)
which one its content was made from. The page has the configuration it works
with, the draft of the settings dialog and its baseline, the preferences and
their draft, and the first-run dialog. `Colleague` changes the catalog as the
server lets others. A save, a choice of groups or a load is a request on
`wire`, handled by the server and answered in two steps, each of which can fail.

### SettingsDrafts

`Order` are the sections in the order of `saveGroupsConfig`, of which
`Lists`, `Echoed`, `Releasing`, `Required` and `AtStart` say what their code does
differently: the projects, for one, are an array, required, read at the start, and their
save sets `groupSaving` to false. `page.base` are the `...BaselineRef`s,
`page.dirty` the `is...Dirty` memos, which `Set` renews and a moved ref does not.
A save (`saves`) has what it still has to send, as it was in the render it was
pressed in; a request (`posts`) is read, written and answered in three steps,
because the handlers load and write the whole configuration without a lock.
`Teams` are the groups of a server without a database. `want` is what the user
counts on.

### SettingsSearch

`field[s]` is one search. A picker's effect is `Searching`, its cleanup
`Aborted`, and both are in every action that changes what the effect depends on
(`Rerun`). Rows and menus number their requests (`latest`). `Found` is what the
server answers, the same at any time.

### IssueMenus

One hook at a time (`page.hook`). Options are represented by the signature they
were loaded for, so that showing options of another issue is visible. A batch
has up to `MaxTargets` issues, of which Jira changes any subset; the answer
names them, and the subtasks panel of a changed story is read again
(`RetrySubtasks`); a panel holds the values of its subtasks as of that moment. The sprint can change at any moment. `unseen` collects what
no answer told of.

### ScenarioTimeline

A plan is a function from issues to kinds (epic, team, person, days); a run of
the planner replaces it. `Stacking` is the assignment of bars to rows in a lane,
free capacity and excluded work included, `Edges` what the page connects,
`Export` what it writes out. Collapse and focus have the code's refs (`restore`,
`skip`, `init`, `pending`); days stand for pixels.

### EngAlerts

`Card(p, c)` computes the items of a card, with their teams and the chip of the
header, from the loaded rows, the server's counts and the dismissals. `fresh`
and `complete` are history: nothing was patched since the load, and no count
failed.

### DependencyFocus

`links` is Jira's, `deps` what the last answer said, `lookups` the details read
one by one, `board` and `rollup` the rows. Chips are computed per card;
`focus` is that of the last click, with the lists of missing and off-screen
issues made at that moment. `foreign` and `patched` are history: statuses
changed by others and on the page.

### StatsLoading and StatsTables

`StatsLoading` has four panels with the request (`job`), answer, loading flag
and cache of each; `Deps` are the dependencies of its effect, `Key` the
cache key. A job waits for the debounce, then asks; the source of the capacity
views is a pool of `Workers` over the sprints of the range, each of which may be
lost. `now` counts what Jira would answer at a moment, so that an answer is
known to be older than a Refresh. `StatsTables` computes the numbers: the time
series, effort split, modes, tracks, team and priority tables from the chunks
loaded so far.

### LeadTimes and Burndown

The filters, grids and bars of `cohortUtils.js`, with months for dates, and the
model of `burnoutChartUtils.js`, with days from the start of the sprint. In
both, an answer replaces the data while filters, a selected row or the filter
of a clicked day are set, and the effects of the page put those right. The
Burndown keeps its former answer, and shows its chart, until the debounce of
the next request is over; another group brings back what it was left with. Its
teams are all that a story may have been of: the one it had at the start need not
be of those selected, and is charted all the same. The average lead time is left
out; the median is in.

## 4. What is checked

| run | properties | bounds | states |
|---|---|---|---|
| `tokens_and_feed` | `TypeOK`, `ReuseOnlyAfterLoss`, `NoStaleOverwrite`, `RequestsEnd`, `NothingHeardSkipped`, `EverythingHeardArrives` | tokens: 2 requests, 2 callbacks, 3 answers with tokens; feed: 4 events, pages of 2, 2 polls | 60 thousand |
| `scenario_drafts` | `NoLostUpdate`, `HistoryConsistent`, `ImplementsHistory`, `RequestsEnd` | 4 requests of any kind | 570 thousand |
| `draft_locks` | `GrantedIsStored` | 2 users, 4 requests, lifetime 2, 4 ticks, 1 reset | 1.8 million |
| `draft_editor` | `EditsKept`, `TimelineMatchesDraft` | 2 scopes, 1 edit, 2 versions, 2 requests in flight | 3.2 million |
| `catch_up_status` | `BoundedAndSerial`, `InOrderPerIssue`, `RowShowsJira` | 3 issues, 2 fields, 2 values, 3 writes, 2 slots | 1.6 million |
| `scheduler` | `ExactlyOnce`, `TimelineFeasible`, `NoDoubleBooking`, `Returns` | 3 issues of 10 kinds, all 64 graphs between them and 3 with an outside issue, both modes | 1.7 million |
| `sprint_board` | `ShownOfSprint`, `LoadsComplete`, `Settles` | 2 sprints (1 future), 3 groups (1 without teams), 2 changes of scope or view, 1 refresh, save or batch, 3 requests under way | 740 thousand |
| `planning_selection` | `SelectionConsistent`, `OtherScopesKept`, `SprintKeepsTeams` | 2 sprints (1 future), 2 groups that share a team, 3 stories, 2 changes of scope, 2 clicks and Undo, 1 refresh or move | 1.1 million |
| `settings` | `NoLostUpdate`, `FirstRunGate`, `DraftsSafe`, `SearchSafe` | in `MCSettings`, see below | 2.0 million |
| `page_parts` | `MenusSound`, `TimelineSound`, `LanesComeBack`, `AlertsSound`, `DependenciesSound`, `TablesAgree`, `StatsSound`, `LeadTimesSound`, `BurndownSound`, `EpmSound` | in `MCPageParts`, see below | 1.05 million |
| `reuse_revokes` | `ReuseRevokesConnection` (violated) | as `tokens_and_feed`, 4 answers with tokens | |
| `settings_other_sections` | `OtherSectionsPreserved` (violated) | the sections of `settings`, 3 edits | |

Several properties are conjunctions of named parts, each stated in its module:

* `HistoryConsistent`: the draft is its last version, events follow the order
  of revisions, every version is announced, numbers are free when taken.
* `EditsKept`: what counts as saved is stored, and one save is in flight.
* `TimelineFeasible`: dependents follow, lanes stay within their slots,
  priority comes first. A dependent starts no earlier than the length of what it
  waits for after the day on which that begins, which is up to a day less one
  tick before it has ended; issues on a cycle, behind one or outside
  the main pass are not promised it.
* `ShownOfSprint`: the lists shown and those kept of the groups are of the sprint
  selected. A Planning batch may have loaded one for the sprint of its own
  request, a late list may be of the group left, and rows say nothing of teams:
  these are exempt.
* `DraftsSafe`: once the dialog is closed and no save runs, what the user chose
  last is stored, unless they said Discard; a section is sent only if it was
  edited; and a dialog that is blocked by a save has one. Not promised, because the code does not keep it, are edits made
  while the section is being read (the answer replaces the draft) or while a save
  runs (it closes the dialog), edits of a section that could not be read (it never
  counts as dirty), and sections that an overlapping save writes back.
* `SearchSafe`: at rest everything listed was found for what is typed, or for
  the prefix and mode of a menu; "Searching" ends; the highlight is in the list.
  Exempt are rows that were answered from the cache while a request was under
  way (`overtaken`), whose list is replaced by the older answer. Before rest,
  while a timer runs, the old list stays and Enter chooses from it.
* `MenusSound`: options are of the issue shown, no control is stuck, rows and
  panels show Jira, a batch is within the backend's limit.
* `TimelineSound`: rows are readable, nothing is lost, edges have ends, who is
  overbooked is warned of, sums agree, the export is what is drawn, the focus
  is temporary.
* `AlertsSound`: everything counted can be reached, an epic is on one planning
  card, the planning cards are complete, hygiene cards are true, postponed
  stories are apart.
* `DependenciesSound`: chips are Jira's links, mirrored on both cards,
  UNBLOCKED is true, a focus is explained, one lookup, one focus.
* `TablesAgree`: a group is the sum of its teams, the split shares out every
  point, mono and cross agree, tracks agree, teams add up, an isolated series
  is drawn.
* `StatsSound`: a panel that loads has a request, shows what was asked for,
  accounts for its sprints, and is fresh after Refresh.
* `LeadTimesSound`: filters are among those offered, every epic is counted,
  groupings agree, bars are the row's, the median is in the middle.
* `BurndownSound`: the chart counts what is open, cards add up, nothing is cut
  off, the filtered list is the chart's.
* `EpmSound`: every load shown ends, rows are of the scope chosen, an open
  board is read.

Bounds of the parts of the page: menus: an epic, two stories, a subtask, two
values, batches of at most 2, two menus opened, one write, one change of sprint,
one failure. Timeline: three issues out of six kinds in ten combinations, three
steps and one new run. Alerts: an epic of seven kinds, two stories of nine, two
teams, two actions, one lost answer. Dependencies: three issues with three links,
two sprints, three actions, one lost answer. Tables: two stories of eight kinds,
two epics, three sprints, two configurations, two clicks. Requests of
Statistics: three sprints for two workers, two choices of teams, two turns, one
failure. Lead Times: three epics of five kinds in two quarters. Burndown: two
stories of seven kinds over three days, two teams selected and one that is not,
two clicks. EPM: three projects in two tabs, two
sub-goals, two sprints, two turns, one failure. With one bound larger (four
steps of the timeline, three clicks on the Burndown, three turns of the EPM
view) they were checked alone.

Bounds of `settings`: the groups with two groups, two versions of others, two
edits or one and a failure, settings opened once, page loaded twice. The sections twice:
projects, weights (an array that the answer replaces), board (a string that is
read with the dialog only) and the team groups, opened once, with two edits, two
saves and a failure, where two saves are a retry, or two that overlap since the
projects' save ends the mark; and without weights or failures, opened twice, with
one save. A picker of each of four kinds with three queries typed, three choices or
moves and a failure; two label rows and an EPM menu with three prefixes, three
queries or prefixes typed, two choices or moves and a failure: three queries are
one asked, another, and the first again, now in the cache or with its answer
still to come.

Why the bounds suffice: two of each token thread show every pair of
overlapping refreshes and a callback on either side, and three answers allow a
rotation, its loss and a recovery. Four draft requests let two writers race
while a third holds the row and a fourth has read an older revision. Two users
with four lock requests can acquire, refresh, release and take over, with one
tick beyond the lifetime to let it expire. Two requests in flight and two
scopes show one request answered after a switch and another handler in between;
that more of them do no harm is proved. Four events are two pages.
Three writes through two slots give a full queue and a second write of a running
issue. Three issues contain every shape of cycle, an issue behind a cycle, and
a queue of three in one lane. On the page, two turns are "away and back", which
is what a comparison of scopes can miss, and a failure or refresh between them
finds every request in every state. The kinds of the tables and charts are
chosen so that each branch of the computations is taken by one of them and each
pair of branches by two. `CHECK_DEADLOCK FALSE` is set where all bounded turns
can be over.

Symmetry is used only for interchangeable names, and in no run with a liveness
property.

### Fairness

* `TokenRefresh!FairSpec`: a thread that started goes on (WF on the steps that
  end a request or callback; the post to Atlassian has a timeout), and
  PostgreSQL serves the waiters of a row lock (SF on `LockConnection`). Nothing
  obliges a thread to start, or Atlassian to answer with tokens.
* `ScenarioDrafts!LiveSpec`: WF on the next step of a started request. The Jira
  fetch of a reload has a timeout.
* `DraftEvents!FeedLiveSpec`: the timer fires (WF on `SendPoll`), cancelled polls
  are dropped (WF), and of polls that are sent again and again some are
  answered and handled (SF). No fairness of the stream: it is optional and may
  break for ever.
* `Scheduler!FairSpec`: a function call goes on until it returns.
* `SprintBoard!Spec`: as long as something is under way the network goes on
  answering; answers come in any order. No fairness of the user.

`MCTokensAndFeed!MCSpec` states the first and the third of these, each for the
behaviours that follow its part.

The other specifications state no fairness and have only safety properties;
"no load for ever" is there an invariant: what says it is loading has a
request, or an event that will start one.

Of type invariants only that of the tokens is among the properties, as it says
which rows belong together; those of the other modules are proved (section 5),
or part of the property of their module.

Each property of a passing run has a mutant: a plausible bug in one mapped
definition under which TLC finds that property violated.

### Findings

`reuse_revokes`: a refused refresh token revokes the connection
(`docs/plans/DONE-01-db-auth-foundation.md:491`); the code writes the
revocation and raises, and `session_scope` rolls it back.

`settings_other_sections`: the groups are saved "preserving other sections"
(`save_groups_config`); the handler writes back all of them as it read them,
over what another request has stored meanwhile.

The properties above leave out, each by a named history variable or premise,
what the code does not do. Those exceptions, and what else was seen while
modelling, are:

* *Tokens.* Two concurrent requests can both post a refresh, as the recheck
  under the lock looks at the object loaded before the wait
  (`tests/test_token_refresh_race.py:336` says one). `token_version` is counted
  from the version read before the lock; overlapping writers store different
  tokens under one version.
* *Drafts.* The body of a 409 is built from the ORM object on which the failed
  UPDATE was evaluated: it shows revision base+1 and the refused caller.
* *Locks.* Two requests that read the same expired lock both update it and both
  answer 200. A release started before the expiry deletes the lock of whoever
  took it over. Rollback does not invalidate locks although
  `docs/plans/DONE-scenario-planner-quarter-drafts-03-collaboration-writeback-gate.md:63`
  says so. The event of a lock is appended in a transaction after that of the
  lock, so events of two users can be in the other order.
* *Events.* The stream has no listener for `draft.reloaded_from_jira`, and the
  cursor moves past it (the same document, line 132: the stream emits what
  polling does).
* *Editor.* Answers of run, load and save are applied without the scope check
  (`...-02-frontend-history.md:92`). Edits made while a load, reload, old
  version or rollback is on its way are replaced by its answer ("Silent discard
  is forbidden", the same, line 86). The abort of a history refresh by a scope
  change leaves `loadingHistory` set and Save disabled. The answer to a save
  clears the notice of a still newer draft. `runScenario` keeps the undo stack
  of the scope before, and a late save keeps the cursor of another draft. A
  history asked for while there is no draft passes `isScenarioScopeDraftCurrent`
  in its own scope even after a run answered for the group left before: its
  answer replaces the draft but not base and scope (`dashboard.jsx:8252`), and a
  later rollback or reload from Jira writes to that draft with the base of the
  other. It takes three requests.
* *Catch Up.* A write refused after the surface was left is not put back in
  the rows (`docs/plans/DONE-eng-targeted-task-updates.md:71`). After a lost
  answer, or a refused priority or track, the row goes back to the value the
  menu was opened with, which may be older than one written since. A worker
  that exceeds its budget is reported as failed though Jira may have changed.
* *Menus.* A batch's result or error is shown in the sprint entered meanwhile,
  and its retry asks for subtasks of the old one
  (`useEngStatusTransitions.js:102`); `submitting` blocks the new sprint's menus.
  A menu opened by keyboard over another keeps the other's options when its own
  load fails. The controller of a finished options request is never cleared, so
  the same signature opened again without closing loads nothing. Toggling a
  panel between an answer and its render writes back the older entry. Clearing
  the cache of priorities during a fetch lets its end drop a newer promise.
  Planning's direct writes bypass the queue of Catch Up.
* *Scheduler.* Edges of excluded issues stay in, and the sort reads
  `story_points` of None (`jira_server.py:3964` says they are separate). The
  post-pass for incomplete tasks is dead code. Rounding to days can date a
  dependent one day before its prerequisite ends when points are fractions. An
  issue behind a cycle, but not on it, can be placed before its prerequisite. A
  second issue in progress of an assignee overwrites the first one's end. An
  assignee who works in two lanes in team mode is not levelled. Finished issues
  without points are listed as unschedulable too. The summary counts issues in
  progress as unschedulable (`jira_server.py:4070`).
* *Timeline.* Editing in the focus ends it but keeps its range, with no way back
  until sprint or group changes. The first search or drag after a run in team
  mode collapses lanes the user has opened; in epic mode any edit or search
  does. A lane with free capacity only counts one row too few and hides its last
  bar. Killed issues have no bar but occupy row 0, get edges and are exported.
  Bars split at capacity bounds have keys without edges. With "Conflicts Only"
  edges lead to bars not shown. Conflicts compare neighbours only. A click on a
  card of an issue in a collapsed lane opens the lane without scrolling.
* *Board.* A change of group during a load lets lists of the other group appear
  and leaves a group half loaded, which is then skipped on return
  (`dashboard.jsx:5484`). A Statistics view opened during a load leaves an empty
  list that counts as loaded. A request that waits for a new session lands over
  the mark of another sprint. A refused save of groups adopts its teams without
  a reload. A refresh of the list of sprints selects the one saved when the page
  was opened. A batch reloads the sprint it was submitted in, also when that was
  left.
* *Selection.* Coming to another group can change the stored selection of
  stories; it is pruned to what filter and search leave (`README.md:317`). A
  refresh of a loaded board changes the teams it is filtered by
  (`docs/plans/DONE-priority-refresh-preserve-team-filter.md:46`). The default
  of a future sprint becomes manual when the page opens with Planning shown
  before the sprints are listed.
* *Groups.* A refused save replaces the user's draft by the conflicting catalog
  and clears its message (`docs/plans/DONE-shared-department-groups.md:805`); its
  answer has no preferences, so that all groups are shown and the first-run gate
  opens. The loser of the first insert gets a 500. Import has no revision and is
  refused with a database. The last group cannot be deleted. If the preferences
  fail after the shared save, the choice of groups is reset (the same, line
  804). Edits during a save are lost. Two quick toggles of excluded capacity
  conflict with themselves.
* *Settings.* A section is saved "if changed" (the comments in
  `saveGroupsConfig`, from "Save project selection if changed" on). The memo
  that says so is of the draft alone; a save moves the baseline, a ref. The
  section is sent again by the next save, also, for the board, capacity and the
  fields, after the dialog was opened anew, over what others saved since.
* *Alerts.* "Waiting for Stories" is always empty: the array of stories is
  passed where the sprint is expected (`dashboard.jsx:11970`). "Empty Epic"
  shows only epics without any child. A failed count (`jira_server.py:3291`)
  makes an epic empty or ready to close. The remote backlog has no labels. A
  story patched to done or postponed stays in Missing Info until the reload. An
  epic routed by its future label is in Postponed and in the chain at once. The
  chip of the empty card opens all empty epics. Dismissing celebrates every card
  it empties, some under another's name, some never.
* *Dependencies.* "Loading issue details…" stays when a lookup is superseded by
  a focus whose issues are known, or by the end of the focus. An issue the
  server does not return is asked for again at once, for ever. Lookups are not
  renewed within a sprint and outweigh a fresher status in the links. A late
  answer for the other view overwrites newer links. After a reload the lists of
  a focus are those of the click. A focused issue can be filtered away.
* *Statistics.* With the same keys Refresh changes nothing in Burndown and Lead
  Times, and a request in flight stores its older answer in the emptied cache. A
  saved configuration empties the panels after their effects have run: Lead
  Times and Excluded Capacity stay empty until a filter changes, and loading is
  set false under a running request. A partly failed range is cached under its
  key. The forced reload is lost when its effect is superseded within the
  debounce. Each chunk restarts the request for phases, whose cache Refresh
  keeps. Names of sprints match by inclusion either way. No epic selected equals
  all selected. Points of the Teams view may be negative, those of capacity not.
* *Lead Times.* An epic closed at an unknown date has a lead time of null, which
  counts as 0 in average, median and bars (`dashboard.jsx:6970`;
  `docs/features/statistics.md:92`: the mean of those "with numeric lead time").
  Saved filters of project and assignee never survive opening the view. Epics
  beyond the last column are in none, though in "Created". `CohortGrid.jsx`
  returns before one of its hooks when it has no rows: emptied while shown, it
  makes React throw.
* *Burndown.* A story closed by another team stays on the chart and in
  "Remaining" (`docs/features/statistics.md:29`). One closed on the board after
  the chart was loaded vanishes from its whole history. A reopened story counts
  as closed from its first closing. A click within the debounce of a new request
  leaves a filter with the old sprint's keys.
* *EPM.* A late list of projects has the rollup read for the sprint, tab and
  sub-goals of the render that asked for it (`docs/features/epm-view.md:9`), or
  cancels the current one and leaves the view empty. A project that is not in the
  tab entered stays selected. A failed list deselects the project. "Discard
  changes?" keeps the edited draft. A subset equal to the draft counts as all.
  Editing sub-goals reloads the view before any save.

## 5. What is proved

For all values of the constants, from the named assumptions in each module
(sets of threads are disjoint from the null values, counts and bounds are
natural numbers, inputs are of their types). Each proof goes through an
inductive invariant that TLC checked first.

* **TokenRefreshProofs**: `TypeCorrect`, `TokenSafety` (`ReuseOnlyAfterLoss`
  and `ExpiryMatchesAccess`), `NoStaleOverwriteHolds`. That a stored token is
  good (`StoredTokenGood`) is only inductive with three facts: the thread past
  its locking statement is the one that holds the row and the token it
  presented is the stored one (`LockDiscipline`), a rotation that is not stored
  yet is still accepted and unlike any other (`UnstoredTokens`), and only a
  stored connection has requests (`ConnectionStored`).
* **ScenarioDraftsProofs**: `TypeCorrect`, `DraftSafety` (no lost update and
  the parts of `HistoryConsistent`), `RowsAgree` (`HistoryConsistent` itself),
  `Refinement` of `DraftHistory`. `OneWriter` makes numbering and commit a
  critical section; `SessionConsistent` says that the base which the UPDATE
  compared is still the revision until the commit.
* **DraftCollaborationProofs**: of the locks, `TypeCorrect` and
  `GrantsAreStored`. A session writes by primary key what it read before;
  `CopiesAgree` says that as long as nobody took over another's lock a row which
  is still there has the holder the session read. Of the feed, `FeedFollowed`
  (`NothingHeardSkipped`). No poll was sent from beyond the cursor and an answer
  is a page that begins where it was asked for (`PollsBehind`); what a stream
  still holds comes after the cursor, without gaps but for events nobody listens
  for (`StreamAhead`). Of the editor, `EditsAreKept` (`EditsKept`) and
  `TimelineOfDraft` (`TimelineMatchesDraft`), for any number of requests in
  flight. `Sound` says that what a request asks for and was answered is a stored
  version, `Based` that the active draft is that of the scope saved to; a guarded
  answer that comes late is handled only if it names that draft. The proof does
  not go through without the exception for late histories, which is how that
  case was found (section 4). The three share no variable; their modules are
  extended by one.
* **PageProofs**: of the queue, `QueueBounded`, `QueueInOrder`, `QueueNoIdleSlot`
  for `IssueMutationQueue`, carried over to `CatchUpStatus` by `UsesQueue`:
  every step of the changes is a step of the queue or leaves it alone; and
  `RowsShowJira` (`RowShowsJira`). `RowsInv` adds to it that a write begun
  holds a complete record (`WritesComplete`), that the answer a job holds says
  what Jira did with it (`AnswersHold`), and that the keys of a surface are
  forgotten with it. That no write of the same issue comes between a write and
  its answer is the queue's `BoundedAndSerial`.
  Of the menus, `MenusAlwaysSound` (`MenusSound`). `MenuPage` is the page in
  parts that read different fields, so that an action disturbs few of them: of
  the requests for options one is waited for, and it is that of the open menu
  (`OptionsHeld`); a row differs from Jira only where the answer under way will
  say so, nobody ever does, or the tasks are about to be read again (`RowsHeld`),
  and a panel likewise (`PanelHeld`). A write that ends after a change of sprint
  (`late`) is the exception it needs: it marks the rows of its own sprint.
  Of the links, `DependenciesAlwaysSound` (`DependenciesSound`). The entries the
  page holds are those of one moment, at which the statuses of Jira were some
  `j` (`Snapshot`): cards mirror one another because they are of the same one,
  and what neither another user nor the page changed since is still true
  (`StatusesHeld`). The newest request asks for every row (`AskedWhole`), so that
  entries said to be current are whole (`EntriesWhole`); the effects of a render
  restore that whatever an action did (`EffectsWorks`).
  Of Statistics, `StatsAlwaysSound` (`StatsSound`). A panel is `Good` if its
  request is one that its effect would make again and what it shows at rest is
  what that asks for (`RequestHeld`), and for the source of the capacity views,
  if every sprint of its range is waiting, asked for or there, and none is older
  than the last Refresh (`ChunksHeld`, `WholeHeld`). The dependencies of an effect
  say all that it decides by (`DepsDecide`): so an action has to leave good only
  the panels whose dependencies it does not change (`BecomeHeld`), and an effect
  makes its own panel good and leaves the others alone (`EffectHeld`,
  `GoodBeside`). The phases depend on what the source shows, which is why the
  effects of the next render are followed too (`EffectsWork`). That no more
  requests are out than there are workers is counted from the last sprint taken
  (`FewTaken`).
  Of the alerts, `AlertsAlwaysSound` (`AlertsSound`). The cards are computed from
  the page, so that the invariant has one fact about it: lists nobody has patched
  are those the server sends of what Jira holds now (`AsLoaded`). Cards and chain
  are then facts about operators (`CardsListed`, `PlanningApart`); that a count of
  zero means that there is no such story (`CountedRight`) gives what they say of
  epics. Why an epic is left out (`ReadyCounted`) goes back through both
  classifiers; that a team asked for stories has none in the sprint needs teams of
  the group only (`PlannedInGroup`), and so the assumption that labels are kept for
  these alone, which is what `normalize_group_team_labels` (`team_catalog.py:45`)
  makes of a configuration.
  Of the timeline, `LanesAlwaysComeBack` (`LanesComeBack`): only lanes of epics are
  left for the focus (`TimelinePage`), so that leaving it always sets the mark that
  keeps the collapse effect from running, in the render that needs it
  (`RebuiltKeeps`); what else opens a lane is the effect that scrolls.
  Of the Burndown, `BurndownAlwaysSound` (`BurndownSound`), for any number of
  stories, teams and days. What the chart draws is a recursive function of the
  day and a sum over the stories of each team. The induction is over sets, of
  days or of stories, that have the property (`UpTo`, `SetInduction`, both from
  the least element of a set of numbers, `LeastOf`), which needs no operator as a
  parameter; `SumStep` unfolds the community modules' sum by one element, and
  the lemmas on sums follow: of two functions, of disjoint sets, of the parts of
  a set (`SumOfParts`). `Exact` is what was begun less what was closed under a
  team: it changes by the delta of each day (`ExactStep`), so that the chart,
  cut off at zero, is never below it (`RunAtLeast`), and over all teams it is
  what is open (`OpenOfAll`). With every story closed by its own team it is what
  is open of each team too, hence never negative, and nothing is ever cut off
  (`RunIsOpen`). It assumes that no story is closed before it is created. For
  the filtered list `BurndownPage` adds that a filter which outlives its answer
  was set before the request for the next (`early`), and is gone with the view.
* **SchedulerProofs**: `TypeCorrect` (no issue starts before the sprint),
  `NobodyDoubleBooked`, `AnsweredExactlyOnce`. `BusyAhead` says that the lane
  knows until when its assignees are busy, `Phases` what each phase has left:
  in the main pass every waiting issue is still in the order.
  `TimelineIsFeasible` (`TimelineFeasible`: in the main pass an issue starts no
  earlier than what it waits for, counted from the day that begins on, not than
  its end; no more at a time than a lane has slots, priority kept) does without a theory of the
  sort: `OrderInv` says of the order only that what is due before an issue
  stands before it or waits no longer, which one step of the sort keeps;
  `PlacedInv` that an issue free to start did so before every slot of its lane
  is free again, and that slots can be named such that those of one slot
  follow each other. The witness is extended with the slot that was taken.
* **GroupsConfigProofs**: `NoUpdateIsLost` (`NoLostUpdate`). Every version that a
  page may send carries the revision of the one its content was made from, in
  its configuration, in the draft of the settings and in requests under way
  (`Held`, `SoundPage`, `SoundRequest`), whatever a refused save left there.
  `NoGroupBeforeChoice` (`FirstRunGate`): without a preference row no answer
  under way says there is a choice (`Told`), so that what the page holds gives
  it no group (`Unchosen`) and every effect resolves to none (`GateInv`).
* **SprintBoardProofs**: `ShownListsAreOfTheSprint` (`ShownOfSprint`, with its exemptions: lists of
  a batch, and the group of a late list). A page is
  `Good` if what it shows and keeps is of its sprint and group, as far as it was
  not loaded by a batch, and what it asked
  for, and did not abort, is of its sprint; every effect makes of a good page a
  good one of the same scope (`Works`), so that a turn of the event loop is
  followed effect by effect. A change of sprint is the exception: between the
  change and the abortion the page waits for the sprint left, and its lists are
  emptied. What the aborted requests leave behind (`LandAborted`) is a recursive
  function: that it exists, and that its values are good, is shown by the least
  request for which it would not be (`LeastOf`).
  `NothingIsForgotten` (`LoadsComplete`) needs a second invariant, `LInv`,
  because a load may be skipped (`shouldSkipLoad`): what is blank on a page that
  somebody loads for has a request (`Coming`), the mark of the sprint is set, or
  every list has its part of it or a request (`Marking`), a page that has rows
  or wishes for some is on its way to all of them in every view (`Steady`), and
  what is kept is what was shown (`KeepsItself`) and whole (`Others`), so that a
  group shown from it may be left alone. The proof follows each effect twice:
  what it carries over (`Bears`) and what it asks for (`Loaded`).

* **PlanningSelectionProofs**: `SelectionAlwaysConsistent`
  (`SelectionConsistent`), `OtherScopesAlwaysKept` (`OtherScopesKept`),
  `SprintAlwaysKeepsTeams` (`SprintKeepsTeams`), from `PageAlwaysRests`. What is
  inductive here is not a predicate of the page but one of two renders that
  follow each other: `Pair(p, c)` says, of everything that is not right yet on
  render `c`, that an effect which compares it with render `p` is due to put it
  right. The effects of a render keep it (`PairKept`), each followed on its own
  (`SnapshotWorks` ... `SavedLateWorks`), and every action begins with it. That
  the effects come to rest is a count: after the first render nothing is loaded,
  hydrated or included any more (`SecondIsCalm`), so that what is left is to
  reconcile, once for the teams and once for the stories (`ThirdRender`,
  `FourthRender`), and to store the outcome (`FifthRender`); the last render finds
  nothing to do (`RendersRest`), so that the six of `Settled` are all that any
  change of state takes. Pages at rest (`Resting`)
  are those that follow themselves. For the teams carried to another sprint,
  `Kept` says which copies of them the next renders may still read.

Only model-checked: the liveness properties (`RequestsEnd`,
`EverythingHeardArrives`, `Returns`, `Settles`: liveness under fairness is beyond
the prover); the rows, sums and exports of the timeline (`TimelineSound`) and the other
three parts of the page in `MCPageParts` (tables, lead times and EPM); the settings
(`SettingsDrafts`, `SettingsSearch`). What the
tables and the timeline compute takes sorting, nested folds and sums over sums,
for which the lemmas on sums above do not suffice.

## 6. What is not modelled

* Sessions without a database (`local_oauth_store.py`), in which dropping a
  session drops a lock that may be held; the focus refresh of tabs
  (`authFocusRefresh.js`), whose time is recorded before it succeeds and which
  two tabs may both do; the status cache (`db_context.py`), filled again between
  invalidation and commit for at most its thirty seconds; the server's caches of
  Jira data, in which a fetch is stored after the invalidation that came while
  it ran. Each is a small race with a bounded consequence.
* Credentials of Home, views, presence and administration: one transaction on
  one row each; two first heartbeats insert one presence row.
* Other tabs and users who save settings at the same time: two overlapping saves
  of one page show what their requests do to each other. Which of the answers to
  concurrent loads is the older is not told apart; "Discard" while a save goes
  on is modelled, the refusal of groups by their revision is in `GroupsConfig`.
  Fields that narrow what the page already has (teams, capacity, issue types)
  ask nobody. Whether a searched list is dropped down, and its limit of ten or
  twenty entries, are left out.
* The backend's queries and trees (`eng_routes.py`, `backend/epm/`): they turn
  answers of Jira into payloads; what the page does with them is modelled.
* Missing planning information and capacity of the board, restoring of a group's
  dependencies, the critical path (`planning/analysis.py`).
* Token encryption and key rotation (cryptography without state of its own),
  request policy (decisions per request), migrations, markup, layout and styles,
  analytics and the update check (nothing depends on them), Jira and Atlassian
  beyond what the code assumes of their answers.
