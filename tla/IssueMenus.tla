----------------------------- MODULE IssueMenus -----------------------------
(***************************************************************************)
(* The menus of the Planning surface that change a field of issues: the    *)
(* status of all selected stories and marked epics and subtasks at once,   *)
(* the priority of one issue, the project track of one epic.  The hooks    *)
(* are those of CatchUpStatus, which models what they do on the other      *)
(* surface; here writes go to Jira directly, one at a time, and the rows   *)
(* are read again after them.  Added are the options of the menus, which   *)
(* are cached by the kind of issue (for a status, also by the status it    *)
(* has), and the panels with the subtasks of a story (useStorySubtasks.js).*)
(*                                                                         *)
(* page is the state between two turns of the event loop together with the *)
(* requests under way and what Jira holds.  A behaviour follows one hook,  *)
(* page.hook; they share nothing but the rows.  Options are represented by *)
(* the signature they were loaded for.                                     *)
(***************************************************************************)
EXTENDS Naturals, FiniteSets

CONSTANTS Epics, Stories, Subtasks, \* of the first story
          Values,      \* of the field
          Initial,     \* value of every issue at first
          None,
          MaxTargets,  \* MAX_STATUS_TRANSITION_ISSUES
          MaxOpens, MaxWrites, MaxSwitches, MaxFails, MaxToggles \* bounds

VARIABLE page

Issues == Epics \union Stories \union Subtasks
Hooks == {"status", "priority", "track"}

Kind(k) == CASE k \in Epics -> "Epic" [] k \in Stories -> "Story" [] OTHER -> "Subtask"

\* transitionOptionCacheKey, priorityOptionCacheKey; tracks are not cached.
Signature(p, k) ==
    CASE p.hook = "status" -> <<Kind(k), p.menu.value>>
      [] p.hook = "priority" -> <<Kind(k), "any">>
      [] OTHER -> <<k, "any">>

NoMenu == [key |-> None, value |-> None]
NoPanel == [expanded |-> FALSE, loading |-> FALSE, loaded |-> FALSE, failed |-> FALSE,
            items |-> None, sprint |-> None]
NoWrite == [targets |-> <<>>, value |-> None, sprint |-> None,
            answer |-> "none", done |-> {}]

Init ==
    \E hook \in Hooks :
       page = [hook |-> hook, sprint |-> 1,
               jira |-> [k \in Issues |-> Initial],
               rows |-> [k \in Issues |-> Initial],
               selected |-> {}, marked |-> {},
               menu |-> NoMenu, options |-> None, loading |-> FALSE, error |-> FALSE,
               ref |-> None,       \* optionsRequestRef, or the request's token
               asked |-> {},       \* requests for options
               cache |-> {},
               submitting |-> FALSE, write |-> NoWrite,
               result |-> None,    \* the sprint of the write it is about
               refreshes |-> {},   \* sprints whose tasks are read again
               panel |-> NoPanel,
               panelAsked |-> {},  \* sprints of requests for subtasks
               over |-> FALSE,     \* history: a menu was opened over another
               late |-> FALSE,     \* history: a write ended in another sprint
               unseen |-> {},      \* history: Jira changed and did not say so
               left |-> [opens |-> MaxOpens, writes |-> MaxWrites,
                         switches |-> MaxSwitches, fails |-> MaxFails,
                         toggles |-> MaxToggles]]

-----------------------------------------------------------------------------
(* Options                                                                 *)

\* abortInFlightOptionsRequest.  What was aborted may have come already.
Abort(p) == [p EXCEPT !.ref = None,
                      !.asked = {[r EXCEPT !.live = FALSE] : r \in p.asked}]

Ask(p, sig) ==
    [Abort(p) EXCEPT !.ref = sig, !.loading = TRUE, !.error = FALSE,
                     !.asked = @ \union {[sig |-> sig, live |-> TRUE]}]

\* loadTransitionOptions.  The controller of a request that has ended is
\* still there.
LoadTransitionOptions(p, sig) ==
    IF p.ref = sig THEN p
    ELSE IF sig \in p.cache
         THEN [Abort(p) EXCEPT !.options = sig, !.loading = FALSE, !.error = FALSE]
         ELSE Ask(p, sig)

\* loadPriorityOptionsForTuple: a request for the same kind is joined.
JoinRequest(p, sig) == Ask([p EXCEPT !.asked = {r \in @ : r.sig # sig}], sig)

\* openPriorityControl: the options of before are dropped.
LoadPriorityOptions(p, sig) ==
    IF sig \in p.cache
      THEN [Abort(p) EXCEPT !.options = sig, !.loading = FALSE, !.error = FALSE]
      ELSE [JoinRequest(p, sig) EXCEPT !.options = None]

\* openProjectTrackControl: every open asks.
LoadTrackOptions(p, sig) == [Ask(p, sig) EXCEPT !.options = None]

LoadOptions(p) ==
    LET sig == Signature(p, p.menu.key)
    IN CASE p.hook = "status" -> LoadTransitionOptions(p, sig)
         [] p.hook = "priority" -> LoadPriorityOptions(p, sig)
         [] OTHER -> LoadTrackOptions(p, sig)

\* A row's value; that of a subtask is in its panel.
RowValue(p, k) == IF k \in Subtasks THEN p.panel.items[k] ELSE p.rows[k]

\* Issues whose menu is on the page.
Shown(p) ==
    CASE p.hook = "status" ->
            Epics \union Stories
            \union (IF p.panel.expanded /\ ~p.panel.loading /\ ~p.panel.failed
                       /\ p.panel.items # None
                      THEN Subtasks ELSE {})
      [] p.hook = "priority" -> Epics \union Stories
      [] OTHER -> Epics

\* The trigger of a closed menu is disabled while a write is under way.  A
\* click closes another menu first; the keyboard does not.
Open(k) ==
    /\ page.left.opens > 0
    /\ k \in Shown(page) /\ page.menu.key # k
    /\ ~page.submitting
    /\ LET p == [page EXCEPT !.menu = [key |-> k, value |-> RowValue(page, k)],
                             !.over = page.menu # NoMenu,
                             !.result = None, !.left.opens = @ - 1]
       IN page' = LoadOptions(p)

\* closeSingleIssueStatusControl; the other hooks keep their options, hidden.
Closed(p) ==
    [Abort(p) EXCEPT !.menu = NoMenu, !.loading = FALSE, !.error = FALSE, !.over = FALSE,
                     !.options = IF p.hook = "status" THEN None ELSE @]

\* The trigger, Escape, or a press outside of the menu.
Close ==
    /\ page.menu # NoMenu
    /\ page' = Closed(page)

\* The rest of loadTransitionOptions and its siblings.  A superseded answer
\* is dropped; the priorities' shared promise caches it all the same.
Taken(p, r, ok) ==
    LET q == IF r.live /\ p.hook # "status" THEN [p EXCEPT !.ref = None] ELSE p
    IN CASE r.live /\ ok -> [q EXCEPT !.options = r.sig, !.loading = FALSE,
                                      !.cache = IF p.hook = "track" THEN @ ELSE @ \union {r.sig}]
         [] r.live /\ ~ok -> [q EXCEPT !.error = TRUE, !.loading = FALSE]
         [] ~r.live /\ ok /\ p.hook = "priority" -> [q EXCEPT !.cache = @ \union {r.sig}]
         [] OTHER -> q

AnswerOptions(r, ok) ==
    /\ r \in page.asked
    /\ ok \/ page.left.fails > 0
    /\ page' = Taken([page EXCEPT !.asked = @ \ {r},
                                  !.left.fails = IF ok THEN @ ELSE @ - 1], r, ok)

-----------------------------------------------------------------------------
(* Targets                                                                 *)

\* The card's checkbox, toggleTaskSelection.
SelectStory(k) ==
    /\ page.hook = "status" /\ page.left.toggles > 0
    /\ page' = [page EXCEPT !.selected = IF k \in @ THEN @ \ {k} ELSE @ \union {k},
                            !.left.toggles = @ - 1]

\* toggleEpicStatusTarget and toggleSubtaskStatusTarget, from the open menu.
ToggleTarget(k) ==
    /\ page.hook = "status" /\ page.left.toggles > 0
    /\ page.menu.key = k /\ k \in Shown(page) \ Stories
    /\ page' = [page EXCEPT !.marked = IF k \in @ THEN @ \ {k} ELSE @ \union {k},
                            !.left.toggles = @ - 1]

\* buildEngStatusTargets.  The keys of the kinds are different ones.
StatusTargets(p) == p.selected \union p.marked

\* What a menu offers: nothing while the options load, and never the value
\* the row shows.  Options of a status lead to other statuses.
Offered(p) ==
    IF p.loading \/ p.options = None \/ p.menu = NoMenu \/ p.menu.key \notin Shown(p) THEN {}
    ELSE Values \ ({RowValue(p, p.menu.key)}
                   \union (IF p.hook = "status" THEN {p.options[2]} ELSE {}))

\* optionDisabled of the menu.
OptionDisabled(p) ==
    \/ p.submitting
    \/ /\ p.hook = "status"
       /\ Cardinality(StatusTargets(p)) \notin 1 .. MaxTargets

-----------------------------------------------------------------------------
(* Writes                                                                  *)

\* A target is kept with the value its row shows.
Written(p, targets, value) ==
    [p EXCEPT !.submitting = TRUE, !.error = FALSE, !.left.writes = @ - 1,
              !.write = [targets |-> [k \in targets |-> RowValue(p, k)], value |-> value,
                         sprint |-> p.sprint, answer |-> "none", done |-> {}]]

\* handleSubmitStatusTransition and submitStatusTransition for the batch.
SubmitBatch(value) ==
    /\ page.hook = "status" /\ page.left.writes > 0
    /\ value \in Offered(page) /\ ~OptionDisabled(page)
    /\ page' = Written(page, StatusTargets(page), value)

\* submitPriorityChange: of the issue of the menu.
SubmitPriority(value) ==
    /\ page.hook = "priority" /\ page.left.writes > 0
    /\ value \in Offered(page) /\ ~OptionDisabled(page)
    /\ page' = Written(page, {page.menu.key}, value)

\* submitProjectTrackChange.
SubmitTrack(value) ==
    /\ page.hook = "track" /\ page.left.writes > 0
    /\ value \in Offered(page) /\ ~OptionDisabled(page)
    /\ page' = Written(page, {page.menu.key}, value)

\* The route: made is what Jira changed, done what the answer reports so.
\* Issues that have the value already are reported as done.
Serve(made, done, lost) ==
    LET w == page.write
        already == {k \in DOMAIN w.targets : page.jira[k] = w.value} IN
    /\ w # NoWrite /\ w.answer = "none"
    /\ already \subseteq made /\ done \subseteq made
    /\ IF lost THEN page.left.fails > 0 /\ done = {} ELSE already \subseteq done
    /\ done = made \/ page.left.fails > 0
    /\ page' = [page EXCEPT
          !.jira = [k \in Issues |-> IF k \in made THEN w.value ELSE @[k]],
          !.write.answer = IF lost THEN "lost" ELSE "results", !.write.done = done,
          !.unseen = @ \union (made \ done),
          !.left.fails = IF lost \/ done # made THEN @ - 1 ELSE @]

\* The request was lost; a track that is refused is an error too.
Failed(p, w) == w.answer = "lost" \/ (p.hook = "track" /\ w.done = {})

Landed(p) ==
    [p EXCEPT !.submitting = FALSE, !.write = NoWrite,
              !.late = @ \/ p.write.sprint # p.sprint,
              !.result = IF Failed(p, p.write) THEN @ ELSE p.write.sprint,
              !.error = @ \/ Failed(p, p.write)]

\* The subtasks that changed are left as they are.
RetryNone(p, w) == p

\* retryStorySubtasks, in the render of the write: it finds the stories of the
\* subtasks among the panels of then, asks for the sprint of then and opens
\* the panel.
RetrySubtasks(p, w) ==
    IF w.done \intersect Subtasks # {}
      THEN [p EXCEPT !.panel = [@ EXCEPT !.expanded = TRUE, !.loading = TRUE, !.loaded = FALSE,
                                         !.failed = FALSE],
                     !.panelAsked = {w.sprint}]
      ELSE p

\* The rest of submitStatusTransition: the options that applied to what has
\* changed are forgotten, and the tasks and subtasks are read again.
BatchLanded(p) ==
    LET w == p.write
        q == Landed(p)
    IN IF w.done = {} THEN q
       ELSE RetrySubtasks([q EXCEPT !.cache = @ \ {<<Kind(k), w.targets[k]>> : k \in w.done},
                                    !.refreshes = @ \union {w.sprint}], w)

\* applyLocalIssueFieldUpdate
Patched(p, w) ==
    [p EXCEPT !.rows = [k \in Issues |-> IF k \in w.done THEN w.value ELSE @[k]]]

\* The rest of submitPriorityChange: the row is patched, then read again.
PriorityLanded(p) ==
    LET w == p.write
    IN IF w.done = {} THEN Landed(p)
       ELSE [Patched(Landed(p), w) EXCEPT !.refreshes = @ \union {w.sprint}]

\* The rest of submitProjectTrackChange: the row is patched, and that is all.
TrackLanded(p) ==
    LET w == p.write
    IN IF w.done = {} \/ w.sprint # p.sprint THEN Landed(p)
       ELSE Patched(Landed(p), w)

AnswerWrite ==
    /\ page.write.answer # "none"
    /\ page' = CASE page.hook = "status" -> BatchLanded(page)
                 [] page.hook = "priority" -> PriorityLanded(page)
                 [] OTHER -> TrackLanded(page)

\* The tasks read again; SprintBoard has how the lists of a sprint are kept.
AnswerRefresh(sprint) ==
    /\ sprint \in page.refreshes
    /\ page' = IF sprint = page.sprint
                 THEN [page EXCEPT !.refreshes = @ \ {sprint},
                          !.rows = [k \in Issues |-> IF k \in Subtasks THEN @[k] ELSE page.jira[k]],
                          !.unseen = @ \intersect Subtasks]
                 ELSE [page EXCEPT !.refreshes = @ \ {sprint}]

-----------------------------------------------------------------------------
(* Subtasks                                                                *)

\* loadStorySubtasks: a request of before is aborted.
PanelLoading(p) ==
    [p EXCEPT !.panel = [@ EXCEPT !.expanded = TRUE, !.loading = TRUE, !.failed = FALSE],
              !.panelAsked = {p.sprint}]

\* toggleStorySubtasks
ToggleSubtasks ==
    /\ page.hook = "status" /\ page.left.toggles > 0
    /\ LET p == [page EXCEPT !.left.toggles = @ - 1]
           open == [p EXCEPT !.panel.expanded = TRUE]
       IN page' = CASE p.panel.expanded -> [p EXCEPT !.panel.expanded = FALSE]
                    [] ~p.panel.expanded /\ p.panel.loaded -> open
                    [] ~p.panel.expanded /\ ~p.panel.loaded /\ p.panel.loading -> open
                    [] OTHER -> PanelLoading(p)

\* The button of a panel that shows an error.
RetryPanel ==
    /\ page.panel.expanded /\ page.panel.failed /\ ~page.panel.loading
    /\ page' = [PanelLoading(page) EXCEPT !.panel.loaded = FALSE]

AnswerPanel(sprint, ok) ==
    /\ sprint \in page.panelAsked
    /\ ok \/ page.left.fails > 0
    /\ page' = IF ok
                 THEN [page EXCEPT !.panelAsked = {},
                         !.panel = [expanded |-> TRUE, loading |-> FALSE, loaded |-> TRUE,
                                    failed |-> FALSE, items |-> [k \in Subtasks |-> page.jira[k]],
                                    sprint |-> sprint],
                         !.unseen = @ \ Subtasks]
                 ELSE [page EXCEPT !.panelAsked = {}, !.left.fails = @ - 1,
                         !.panel = [@ EXCEPT !.expanded = TRUE, !.loading = FALSE,
                                             !.failed = TRUE]]

\* Another sprint: the hooks' effects, clearStorySubtasks, and the tasks of
\* that sprint, which are read from Jira.  No story of it is selected yet.
SwitchSprint ==
    /\ page.left.switches > 0
    /\ page' = [Closed(page) EXCEPT
          !.sprint = 3 - @, !.left.switches = @ - 1,
          !.options = None, !.marked = {}, !.selected = {}, !.result = None,
          !.panel = NoPanel, !.panelAsked = {},
          !.rows = [k \in Issues |-> IF k \in Subtasks THEN @[k] ELSE page.jira[k]],
          !.unseen = {}, !.late = FALSE]

Next ==
    \/ \E k \in Issues : Open(k) \/ ToggleTarget(k)
    \/ Close
    \/ \E r \in page.asked, ok \in BOOLEAN : AnswerOptions(r, ok)
    \/ \E k \in Stories : SelectStory(k)
    \/ \E v \in Values : SubmitBatch(v) \/ SubmitPriority(v) \/ SubmitTrack(v)
    \/ \E made, done \in SUBSET DOMAIN page.write.targets, lost \in BOOLEAN : Serve(made, done, lost)
    \/ AnswerWrite
    \/ \E s \in {1, 2} : AnswerRefresh(s) \/ \E ok \in BOOLEAN : AnswerPanel(s, ok)
    \/ ToggleSubtasks \/ RetryPanel \/ SwitchSprint

Spec == Init /\ [][Next]_page
-----------------------------------------------------------------------------
Signatures == {"Epic", "Story", "Subtask"} \X (Values \union {"any"}) \union Epics \X {"any"}

\* The kinds have no issue in common, and None is none of the values it is
\* told apart from.
MenusAssumption ==
    /\ Epics \intersect Stories = {} /\ Subtasks \intersect (Epics \union Stories) = {}
    /\ Initial \in Values /\ MaxTargets \in Nat
    /\ None \notin Values /\ None \notin {1, 2}
    /\ \A k \in Issues : None # k
    /\ \A sig \in Signatures : None # sig
    /\ \A items \in [Subtasks -> Values] : None # items

TypeOK ==
    /\ page.hook \in Hooks /\ page.sprint \in {1, 2}
    /\ page.jira \in [Issues -> Values] /\ page.rows \in [Issues -> Values]
    /\ page.selected \subseteq Stories /\ page.marked \subseteq Epics \union Subtasks
    /\ page.menu \in [key : Issues, value : Values] \union {NoMenu}
    /\ {page.options, page.ref} \subseteq Signatures \union {None}
    /\ page.asked \subseteq [sig : Signatures, live : BOOLEAN]
    /\ page.cache \subseteq Signatures
    /\ DOMAIN page.write.targets \subseteq Issues
    /\ page.result \in {None, 1, 2} /\ page.refreshes \subseteq {1, 2}
    /\ page.panel.items \in [Subtasks -> Values] \union {None}
    /\ page.panelAsked \subseteq {1, 2} /\ page.unseen \subseteq Issues

\* What can be clicked are options of the issue whose menu is open.  A menu
\* opened over another by keyboard keeps the other's options if its own fail.
OptionsOfIssue ==
    page.options # None /\ ~page.loading /\ page.menu # NoMenu /\ ~page.over
    => page.options = Signature(page, page.menu.key)

\* Whatever waits has a request: no spinner and no disabled control stays.
NoControlStuck ==
    /\ page.loading => \E r \in page.asked : r.live /\ r.sig = page.ref
    /\ page.panel.loading => page.panelAsked # {}
    /\ page.submitting <=> page.write # NoWrite

\* Between writes rows and panels show what Jira has.  An issue that Jira
\* changed and reported as failed is excepted until it is read again, and so
\* is a sprint entered while a write made in the other was under way.
RowsShowJira ==
    page.write = NoWrite /\ ~page.late =>
        /\ page.sprint \notin page.refreshes =>
              \A k \in (Epics \union Stories) \ page.unseen : page.rows[k] = page.jira[k]
        /\ page.panel.loaded /\ ~page.panel.loading =>
              /\ page.panel.sprint = page.sprint
              /\ \A k \in Subtasks \ page.unseen : page.panel.items[k] = page.jira[k]
        /\ page.result \in {None, page.sprint}

(* Menus offer what their issue can change to, nothing waits for an answer *)
(* that will not come, a batch is never larger than the backend takes, and *)
(* after a write the page shows what Jira made of it, subtasks included:   *)
(* over menus opened, closed and superseded, batches that fail in part,    *)
(* panels that load meanwhile, and changes of sprint.                      *)
MenusSound ==
    /\ OptionsOfIssue /\ NoControlStuck /\ RowsShowJira
    /\ page.hook = "status" => Cardinality(DOMAIN page.write.targets) <= MaxTargets
=============================================================================
