--------------------------- MODULE DependencyFocus ---------------------------
(***************************************************************************)
(* Links between issues on the board (dashboard.jsx,                       *)
(* issues/dependencyFocusUtils.js, issues/IssueDependencies.jsx): the page *)
(* asks for the links of the issues it shows, puts chips on their cards,   *)
(* and when a chip is clicked dims everything else and lists under the     *)
(* card the linked issues that cannot be seen.  For those that are not     *)
(* loaded it looks details up in Jira.                                     *)
(*                                                                         *)
(* The status of an issue is then known from three places that were read   *)
(* at three times: its row, the lookup and the answer with the links.      *)
(* Links are always shown (nothing sets showDependencies to false).  Jira  *)
(* changes statuses, but no links.                                         *)
(***************************************************************************)
EXTENDS Integers, FiniteSets

CONSTANTS Linked,       \* issues
          LinkSets,     \* links Jira may hold: [category, from, to]
          OnBoard,      \* sprint -> the issues its lists may bring
          OnRollup,     \* the issues of the EPM rollup
          None, MaxLinkActs, MaxLost

VARIABLE page

Sprints == DOMAIN OnBoard
Views == {"eng", "epm"}
Chips == {"blocked-by", "blocks", "depends-on", "dependents"}

-----------------------------------------------------------------------------
(* The server.                                                             *)

\* collect_dependencies with resolve_link_direction: a link is an entry of
\* both its issues, with the status of the other one.
EntriesOf(links, jira, k) ==
    LET entry(l, other, direction) ==
            [key |-> other, direction |-> direction, category |-> l.category,
             prereq |-> IF l.category = "block" THEN l.from ELSE l.to,
             dependent |-> IF l.category = "block" THEN l.to ELSE l.from,
             status |-> jira[other]]
    IN {entry(l, l.to, "outward") : l \in {m \in links : m.from = k}}
       \union {entry(l, l.from, "inward") : l \in {m \in links : m.to = k}}

\* The issues read from Jira are those of the batches that did not fail
\* (fetch_issues_by_keys); of them, those without links are left out.
Collected(p, keys) ==
    [k \in {i \in keys : EntriesOf(p.links, p.jira, i) # {}} |-> EntriesOf(p.links, p.jira, k)]

\* lookup_issues; what was looked up before is kept.
LookedUp(p, keys) ==
    [k \in keys \union DOMAIN p.lookups |-> IF k \in keys THEN p.jira[k] ELSE p.lookups[k]]

-----------------------------------------------------------------------------
(* What the page makes of the entries.                                     *)

\* dependencyTasks, issueByKey: the rows of the view.
Rows(p) == IF p.view = "eng" THEN p.board ELSE p.rollup
Visible(p) == DOMAIN Rows(p) \intersect p.found

Entries(p, k) == IF k \in DOMAIN p.deps THEN p.deps[k] ELSE {}

\* buildBlockLinkBuckets, buildDependencyKeys: the issues behind a chip.  Jira
\* links no issue to itself.
Behind(d, k, chip) ==
    CASE chip = "blocked-by" -> d.category = "block" /\ d.dependent = k
      [] chip = "blocks" -> d.category = "block" /\ d.prereq = k
      [] chip = "depends-on" -> d.category = "dependency" /\ d.direction = "outward"
      [] chip = "dependents" -> d.category = "dependency" /\ d.direction = "inward"

FocusKeys(p, k, chip) == {d.key : d \in {x \in Entries(p, k) : Behind(x, k, chip)}}

StatusOfLookupFirst(p, d) ==
    CASE d.key \in DOMAIN p.lookups -> p.lookups[d.key]
      [] d.key \notin DOMAIN p.lookups /\ d.key \in DOMAIN Rows(p) -> Rows(p)[d.key]
      [] OTHER -> d.status

\* The row, then the lookup, then the entry.
StatusOf(p, d) ==
    CASE d.key \in DOMAIN Rows(p) -> Rows(p)[d.key]
      [] d.key \notin DOMAIN Rows(p) /\ d.key \in DOMAIN p.lookups -> p.lookups[d.key]
      [] OTHER -> d.status

\* isBlockedByDone: the chip reads UNBLOCKED.
Unblocked(p, k) ==
    /\ FocusKeys(p, k, "blocked-by") # {}
    /\ \A d \in Entries(p, k) :
          d.category = "block" /\ d.dependent = k => StatusOf(p, d) = "done"

\* buildDependencyFocusPayload with the issues below or above the window.
FocusOn(p, k, chip, offscreen) ==
    LET keys == FocusKeys(p, k, chip)
    IN [task |-> k, chip |-> chip, keys |-> keys, missing |-> keys \ DOMAIN Rows(p),
        offscreen |-> keys \intersect offscreen]

\* activeDependencyFocus; only a focus lists issues.
Active(p) == IF p.focus # None THEN p.focus ELSE p.hover

\* hiddenLines: loaded, but filtered out by now.
HiddenLines(p) ==
    IF p.focus = None THEN {} ELSE p.focus.keys \intersect (DOMAIN Rows(p) \ Visible(p))

\* missingLines, hiddenLines and offscreenLines under the card in focus.
Lines(p) ==
    IF p.focus = None THEN {} ELSE p.focus.missing \union p.focus.offscreen \union HiddenLines(p)

Dimmed(p) ==
    IF Active(p) = None THEN {} ELSE Visible(p) \ ({Active(p).task} \union Active(p).keys)

-----------------------------------------------------------------------------
(* Effects of React, run after each step that changed what they depend on. *)

\* The links of the rows are asked for when the view, the sprint or the set
\* of rows has changed and when a load has ended.
Watched(p) == <<p.view, DOMAIN Rows(p), p.sprint, p.loading>>

AskLinks(p) ==
    CASE p.view = "eng" /\ p.loading -> p
      [] ~(p.view = "eng" /\ p.loading) /\ Rows(p) = <<>> -> [p EXCEPT !.deps = <<>>]
      [] OTHER -> [p EXCEPT !.asked = {[keys |-> r.keys, newest |-> FALSE] : r \in @}
                                        \union {[keys |-> DOMAIN Rows(p), newest |-> TRUE]},
                            !.current = FALSE]

\* The lookup of issues in focus that were never looked up in this sprint.
\* The one before is dropped when the focus or the lookups have changed; its
\* end does not clear the note that details are being loaded.
AskLookup(p) ==
    LET keys == IF p.focus = None THEN {} ELSE p.focus.missing \ DOMAIN p.lookups
    IN IF keys = {} THEN [p EXCEPT !.lookup = None]
       ELSE [p EXCEPT !.lookup = keys, !.note = TRUE]

Effects(p, q, again) ==
    LET linked == IF Watched(p) # Watched(q) THEN AskLinks(q) ELSE q
        single == IF linked.focus # None THEN [linked EXCEPT !.hover = None] ELSE linked
    IN IF p.focus # q.focus \/ again THEN AskLookup(single) ELSE single

Become(q) == page' = Effects(page, q, FALSE)

-----------------------------------------------------------------------------
(* Actions.                                                                *)

Read(p, keys) == [k \in keys |-> p.jira[k]]

Init ==
    \E links \in LinkSets, jira \in [Linked -> {"todo", "done"}], s \in Sprints :
       \E rows \in OnBoard[s] :
          LET p == [links |-> links, jira |-> jira, sprint |-> s, loading |-> FALSE,
                    view |-> "eng",
                    board |-> [k \in rows |-> jira[k]],
                    rollup |-> <<>>,
                    found |-> Linked,
                    deps |-> <<>>, asked |-> {}, current |-> FALSE,
                    focus |-> None, hover |-> None,
                    lookups |-> <<>>, lookup |-> None, note |-> FALSE,
                    foreign |-> {}, patched |-> {}, \* changed in Jira, on the page
                    acts |-> MaxLinkActs, lost |-> MaxLost]
          IN page = AskLinks(p)

Acting == page.acts > 0
Acted(q) == Become([q EXCEPT !.acts = @ - 1])

\* resetSprintScopedState: the requests are aborted.
SelectSprint(s) ==
    /\ Acting
    /\ s # page.sprint
    /\ Acted([page EXCEPT !.sprint = s, !.loading = TRUE, !.board = <<>>, !.deps = <<>>,
                          !.asked = {}, !.current = FALSE, !.focus = None, !.lookups = <<>>,
                          !.lookup = None, !.note = FALSE])

\* Refresh: the rows stay until the new ones arrive.
Refresh ==
    /\ Acting
    /\ ~page.loading /\ page.view = "eng"
    /\ Acted([page EXCEPT !.loading = TRUE])

RowsArrive(rows) ==
    /\ page.loading
    /\ Become([page EXCEPT !.loading = FALSE, !.board = Read(page, rows)])

\* The rollup is there when it is entered.
SwitchView ==
    /\ Acting
    /\ Acted([page EXCEPT !.view = IF @ = "eng" THEN "epm" ELSE "eng",
                          !.rollup = IF page.view = "eng" THEN Read(page, OnRollup) ELSE @])

Filter(found) ==
    /\ Acting
    /\ found # page.found
    /\ Acted([page EXCEPT !.found = found])

\* Another user changes a status.
JiraChanges(k) ==
    /\ Acting
    /\ page' = [page EXCEPT !.jira[k] = IF @ = "done" THEN "todo" ELSE "done", !.acts = @ - 1,
                            !.foreign = @ \union {k}]

\* applyLocalIssueFieldUpdate: a status changed on the board.
PatchRow(k) ==
    LET status == IF page.board[k] = "done" THEN "todo" ELSE "done"
    IN /\ Acting
       /\ page.view = "eng" /\ k \in Visible(page)
       /\ Acted([page EXCEPT !.jira[k] = status, !.board[k] = status,
                             !.patched = @ \union {k}])

\* fetchDependencies: an answer replaces all entries, whichever request it is
\* for; one that fails changes nothing.  An answer may lack what the server
\* could not read.
LinksArrive(r, keys) ==
    /\ keys # r.keys => page.lost > 0
    /\ page' = [page EXCEPT !.asked = @ \ {r}, !.deps = Collected(page, keys),
                            !.current = r.newest /\ keys = r.keys,
                            !.lost = IF keys = r.keys THEN @ ELSE @ - 1]

LinksLost(r) ==
    /\ page.lost > 0
    /\ page' = [page EXCEPT !.asked = @ \ {r}, !.lost = @ - 1]

\* handleDependencyFocusClick
HasChip(k, chip) == k \in Visible(page) /\ FocusKeys(page, k, chip) # {}

ClickChip(k, chip, offscreen) ==
    LET again == page.focus # None /\ page.focus.task = k /\ page.focus.chip = chip
    IN /\ Acting
       /\ HasChip(k, chip)
       /\ again => offscreen = {}
       /\ Acted([page EXCEPT !.focus = IF again THEN None ELSE FocusOn(page, k, chip, offscreen)])

\* A click beside the cards, or Escape
EndFocus ==
    /\ Acting
    /\ page.focus # None
    /\ Acted([page EXCEPT !.focus = None])

HoverEnter(k, chip) ==
    /\ Acting
    /\ HasChip(k, chip) /\ page.focus = None
    /\ Acted([page EXCEPT !.hover = FocusOn(page, k, chip, {})])

HoverLeave ==
    /\ page.hover # None
    /\ Become([page EXCEPT !.hover = None])

\* The effect runs again whether or not anything was found, and at once asks
\* once more for what was not.
LookupArrives(keys) ==
    /\ page.lookup # None
    /\ keys # page.lookup => page.lost > 0
    /\ page' = Effects(page, [page EXCEPT !.lookups = LookedUp(page, keys),
                                          !.lookup = None, !.note = FALSE,
                                          !.lost = IF keys = page.lookup THEN @ ELSE @ - 1], TRUE)

LookupLost ==
    /\ page.lookup # None /\ page.lost > 0
    /\ page' = [page EXCEPT !.lookup = None, !.note = FALSE, !.lost = @ - 1]

Next ==
    \/ \E s \in Sprints : SelectSprint(s)
    \/ Refresh \/ SwitchView
    \/ \E rows \in OnBoard[page.sprint] : RowsArrive(rows)
    \/ \E found \in SUBSET Linked : Filter(found)
    \/ \E k \in Linked : JiraChanges(k) \/ PatchRow(k)
    \/ \E r \in page.asked : LinksLost(r) \/ \E keys \in {{}, r.keys} : LinksArrive(r, keys)
    \/ \E k \in Linked, chip \in Chips :
          \/ \E offscreen \in {{}, Linked \ {k}} : ClickChip(k, chip, offscreen)
          \/ HoverEnter(k, chip)
    \/ EndFocus \/ HoverLeave
    \/ \E keys \in {{}, page.lookup} : LookupArrives(keys)
    \/ LookupLost

Spec == Init /\ [][Next]_page
-----------------------------------------------------------------------------
\* Links join issues that the model has, and so do the lists.
LinksAssumption ==
    /\ LinkSets \subseteq SUBSET [category : {"block", "dependency"}, from : Linked, to : Linked]
    /\ \A s \in Sprints : OnBoard[s] \subseteq SUBSET Linked
    /\ OnRollup \subseteq Linked
    /\ MaxLinkActs \in Nat /\ MaxLost \in Nat

TypeOK ==
    /\ page.view \in Views /\ page.sprint \in Sprints
    /\ page.jira \in [Linked -> {"todo", "done"}]
    /\ page.found \subseteq Linked
    /\ DOMAIN Rows(page) \union DOMAIN page.deps \union DOMAIN page.lookups \subseteq Linked
    /\ page.focus # None => page.focus.chip \in Chips /\ page.focus.missing \subseteq page.focus.keys
    /\ page.acts \in 0 .. MaxLinkActs /\ page.lost \in 0 .. MaxLost

\* When the last request is answered and no list of the board is on its way,
\* the chips of each row are the links Jira holds.
LinksComplete ==
    page.current /\ ~(page.view = "eng" /\ page.loading) =>
        \A k \in DOMAIN Rows(page) :
            /\ FocusKeys(page, k, "blocks") = {l.to : l \in {m \in page.links : m.category = "block" /\ m.from = k}}
            /\ FocusKeys(page, k, "blocked-by") = {l.from : l \in {m \in page.links : m.category = "block" /\ m.to = k}}
            /\ FocusKeys(page, k, "depends-on") = {l.to : l \in {m \in page.links : m.category = "dependency" /\ m.from = k}}
            /\ FocusKeys(page, k, "dependents") = {l.from : l \in {m \in page.links : m.category = "dependency" /\ m.to = k}}

\* Two cards say the same of a link between them, current or not.
LinksMirrored ==
    \A k, m \in DOMAIN page.deps :
        /\ m \in FocusKeys(page, k, "blocked-by") <=> k \in FocusKeys(page, m, "blocks")
        /\ m \in FocusKeys(page, k, "depends-on") <=> k \in FocusKeys(page, m, "dependents")

\* UNBLOCKED says that all blockers are done in Jira, where nobody else has
\* changed one and those changed on the page are on the board: an older answer
\* or lookup does not outweigh a row.
UnblockedIsTrue ==
    \A k \in Visible(page) :
        LET blockers == FocusKeys(page, k, "blocked-by")
        IN /\ page.view = "eng" /\ blockers \intersect page.foreign = {}
           /\ blockers \intersect page.patched \subseteq DOMAIN page.board
           /\ blockers # {}
           => (Unblocked(page, k) <=> \A b \in blockers : page.jira[b] = "done")

\* As long as the same rows are loaded, each issue in focus is on the page or
\* listed, whatever is filtered meanwhile, and none is said to be missing that
\* is there.
FocusExplained ==
    page.focus # None /\ page.focus.missing = page.focus.keys \ DOMAIN Rows(page) =>
        /\ page.focus.keys \subseteq Visible(page) \union Lines(page)
        /\ Lines(page) \intersect Visible(page) \subseteq page.focus.offscreen
        /\ Dimmed(page) \intersect page.focus.keys = {}

\* Details are asked for one focus at a time, once, and say so.
LookupOfFocus ==
    page.lookup # None =>
        /\ page.focus # None /\ page.note
        /\ page.lookup \subseteq page.focus.missing \ DOMAIN page.lookups

\* A chip that is pointed at does not compete with one that was clicked.
OneFocus == page.focus = None \/ page.hover = None

(* Over sprints, views, refreshes and lost or late answers: the chips of the  *)
(* rows are the links of Jira once the last request is answered, cards agree  *)
(* with one another, a blocker's status is that of its row before any other,  *)
(* and what a focus does not show on the board it lists.                      *)
DependenciesSound ==
    /\ LinksComplete /\ LinksMirrored /\ UnblockedIsTrue
    /\ FocusExplained /\ LookupOfFocus /\ OneFocus
=============================================================================
