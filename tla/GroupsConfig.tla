---------------------------- MODULE GroupsConfig ----------------------------
(***************************************************************************)
(* The department groups of a workspace and the groups each user wants to  *)
(* see: the shared catalog and the preference rows in the database         *)
(* (shared_group_config.py, settings_routes.py) and the settings dialog    *)
(* that edits both (dashboard.jsx, useGroupVisibilityPreferences.js).      *)
(*                                                                         *)
(* One user's page is modelled whole; the others appear as Colleague, who  *)
(* changes the catalog the way the same server code lets them.  As in      *)
(* PlanningSelection, page is the state between two turns of the event     *)
(* loop, and Settled renders and runs the effects until nothing changes.   *)
(* A catalog is a set of groups (their order is left out), the default     *)
(* among them, and the marked ones, which stand for whatever an edit       *)
(* changes inside a group: its teams, its epics, its labels.               *)
(***************************************************************************)
EXTENDS Naturals, FiniteSets

CONSTANTS Group,
          None,
          Legacy,      \* what the workspace's first load imports
          MaxRevision, \* bound on the versions that others save
          MaxEdits,    \* bound on what the user changes
          MaxOpens,    \* bound on the times the settings are opened
          MaxLoads,    \* bound on the times the page is loaded
          MaxFails     \* bound on requests that fail

Contents == [groups: SUBSET Group, default: Group \cup {None}, marked: SUBSET Group]

ASSUME GroupsAssumption ==
    /\ None \notin Group
    /\ Legacy \in Contents
    /\ Legacy.default \in Legacy.groups \cup {None} /\ Legacy.marked \subseteq Legacy.groups
    /\ {MaxRevision, MaxLoads} \subseteq Nat \ {0}
    /\ {MaxEdits, MaxOpens, MaxFails} \subseteq Nat

VARIABLES catalog,  \* the row of workspace_group_configs; revision 0 for no row
          row,      \* the user's row of user_group_preferences
          page,
          wire,     \* requests of the page that the server or the network holds
          edits, opens, loads, fails

vars == <<catalog, row, page, wire, edits, opens, loads, fails>>

\* A version of the catalog.  origin is a history variable: the version its
\* content was made from.
Version(content, revision, origin) ==
    [groups |-> content.groups, default |-> content.default, marked |-> content.marked,
     revision |-> revision, origin |-> origin]

Nothing == [groups |-> {}, default |-> None, marked |-> {}]
NoCatalog == Version(Nothing, 0, 0)
NoRow == [visible |-> {None}, active |-> None]

\* buildSharedGroupsPayload, as far as JSON.stringify sees it
Signature(version) ==
    <<version.groups, version.default, version.marked, version.revision>>

-----------------------------------------------------------------------------
(* Preferences, on the server and on the page. *)

NoPreferences ==
    [customized |-> FALSE, onboarding |-> FALSE, visible |-> {}, active |-> None]

Effective(content, preferences) ==
    IF preferences.onboarding THEN {}
    ELSE IF preferences.customized
         THEN (preferences.visible \cup {content.default}) \cap content.groups
         ELSE content.groups

Resolved(content, visible, current) ==
    CASE current \in visible -> current
      [] current \notin visible /\ content.default \in visible -> content.default
      [] OTHER -> IF visible = {} THEN None ELSE CHOOSE g \in visible : TRUE

\* normalize_group_preferences
Normalized(content, stored) ==
    IF stored = NoRow
    THEN [NoPreferences EXCEPT !.onboarding = TRUE]
    ELSE LET chosen == [customized |-> TRUE, onboarding |-> FALSE,
                        visible |-> stored.visible \cap content.groups, active |-> None]
             asked == [chosen EXCEPT !.onboarding = content.groups # {} /\ chosen.visible = {}]
         IN  [asked EXCEPT !.active = Resolved(content, Effective(content, asked), stored.active)]

-----------------------------------------------------------------------------
(* The page: its renders and effects. *)

VisibilitySignature(p) == [visible |-> p.seen, active |-> p.active]

\* isGroupVisibilityDraftDirty is a memo of the signature alone: a new
\* baseline does not renew it.
Rendered(p) ==
    IF VisibilitySignature(p) = p.signed THEN p
    ELSE [p EXCEPT !.signed = VisibilitySignature(p),
                   !.seenDirty = VisibilitySignature(p) # p.seenBase]

ActiveEffect(b, c) ==
    IF c.loading THEN b
    ELSE [b EXCEPT !.active = Resolved(c.config, Effective(c.config, c.preferences), c.active)]

\* initializeGroupPreferencesDraft, with the preferences of the render
SeenAtStart(c) ==
    IF c.preferences.customized THEN c.preferences.visible ELSE c.config.groups

\* The effect of [showGroupManage, groupsConfig].
DraftEffect(b, c) ==
    IF ~c.renewed THEN b
    ELSE IF ~c.open THEN [b EXCEPT !.renewed = FALSE]
    ELSE [b EXCEPT !.renewed = FALSE, !.draft = c.config, !.base = Signature(c.config),
                   !.seen = SeenAtStart(c),
                   !.seenBase = [visible |-> SeenAtStart(c),
                                 active |-> IF c.preferences.active # None
                                            THEN c.preferences.active ELSE c.active],
                   !.message = "none"]

Effects(p) == DraftEffect(ActiveEffect(p, p), p)

\* Two rounds: the first may set the active group and the draft, and the
\* second finds both as they should be.
Settled(p) == Rendered(Effects(Rendered(Effects(Rendered(p)))))

-----------------------------------------------------------------------------
(* Requests. *)

NoChoice == [visible |-> {}, active |-> None]
NoReply == [status |-> "none", version |-> NoCatalog, preferences |-> NoPreferences]

Request(kind, version, choice, also) ==
    [kind |-> kind, step |-> "sent", version |-> version, choice |-> choice,
     also |-> also,   \* the preferences are to be saved after it
     heard |-> TRUE,  \* the page that sent it is still there
     reply |-> NoReply]

Reply(status, version, preferences) ==
    [status |-> status, version |-> version, preferences |-> preferences]

Moved(r, step) == wire' = (wire \ {r}) \cup {[r EXCEPT !.step = step]}
\* There is no answer for a page that was left.
Answered(r, reply) ==
    wire' = (wire \ {r}) \cup
              {q \in {[r EXCEPT !.step = "answered", !.version = NoCatalog, !.reply = reply]} :
                   r.heard}

\* The page as it is loaded, with the active group that the browser stored.
\* No signature equals the first baseline.
FreshPage(active) ==
    [config |-> NoCatalog, preferences |-> NoPreferences, active |-> active,
     loading |-> TRUE, open |-> FALSE, renewed |-> FALSE,
     draft |-> NoCatalog, base |-> Signature(NoCatalog), seen |-> {},
     seenBase |-> NoRow, seenDirty |-> TRUE, signed |-> [NoChoice EXCEPT !.active = active],
     saving |-> FALSE, choosing |-> FALSE, message |-> "none",
     conflicted |-> FALSE]   \* history: a save was refused, and the preferences lost

LoadRequest == Request("load", NoCatalog, NoChoice, FALSE)

Init ==
    /\ catalog \in {NoCatalog, Version(Nothing, 1, 0), Version(Legacy, 1, 0)}
    /\ row \in {NoRow} \cup
              {[visible |-> {g}, active |-> g] : g \in catalog.groups}
    /\ \E active \in Legacy.groups \cup {None} : page = FreshPage(active)
    /\ wire = {LoadRequest}
    /\ edits = 0 /\ opens = 0 /\ loads = 1 /\ fails = 0

-----------------------------------------------------------------------------
(* The server. *)

\* Every request about groups first loads the catalog (load_shared_groups), in
\* a transaction of its own, and finds no row only once in a workspace's life.
FindNoCatalog(r) ==
    /\ r \in wire /\ r.step = "sent" /\ catalog.revision = 0
    /\ Moved(r, "creating")
    /\ UNCHANGED <<catalog, row, page, edits, opens, loads, fails>>

\* The same transaction creates the row from the configuration file; the
\* unique constraint stops the second creator, whose request ends in an
\* error, and the first goes on with what it stored.
CreateCatalog(r) ==
    /\ r \in wire /\ r.step = "creating"
    /\ IF catalog.revision = 0
       THEN catalog' = Version(Legacy, 1, 0) /\ Moved(r, "sent")
       ELSE /\ Answered(r, Reply("failed", NoCatalog, NoPreferences))
            /\ UNCHANGED catalog
    /\ UNCHANGED <<row, page, edits, opens, loads, fails>>

Loads(r, kinds) ==
    r \in wire /\ r.kind \in kinds /\ r.step = "sent" /\ catalog.revision > 0

\* get_groups_config
ReadCatalog(r) ==
    /\ Loads(r, {"load"})
    /\ Answered(r, Reply("ok", catalog, Normalized(catalog, row)))
    /\ UNCHANGED <<catalog, row, page, edits, opens, loads, fails>>

\* save_groups_config
CheckSave(r) ==
    /\ Loads(r, {"save", "toggle"})
    /\ IF r.version.groups = {} /\ catalog.groups # {}
       THEN Answered(r, Reply("refused", NoCatalog, NoPreferences))
       ELSE Moved(r, "checked")
    /\ UNCHANGED <<catalog, row, page, edits, opens, loads, fails>>

\* Mutant of StoreSave: the revision is compared by CheckSave's reading only.
StoreSaveUnconditionally(r) ==
    /\ r \in wire /\ r.kind \in {"save", "toggle"} /\ r.step = "checked"
    /\ IF r.version.revision < 1
       THEN /\ Answered(r, Reply("refused", NoCatalog, NoPreferences))
            /\ UNCHANGED catalog
       ELSE /\ catalog' = [r.version EXCEPT !.revision = catalog.revision + 1]
            /\ Answered(r, Reply("ok", catalog', Normalized(catalog', row)))
    /\ UNCHANGED <<row, page, edits, opens, loads, fails>>

\* save_shared_groups: one conditional update.  The current catalog that a
\* conflict returns comes without the user's preferences.
StoreSave(r) ==
    /\ r \in wire /\ r.kind \in {"save", "toggle"} /\ r.step = "checked"
    /\ \/ /\ r.version.revision < 1
          /\ Answered(r, Reply("refused", NoCatalog, NoPreferences))
          /\ UNCHANGED catalog
       \/ /\ r.version.revision >= 1 /\ r.version.revision = catalog.revision
          /\ catalog' = [r.version EXCEPT !.revision = @ + 1]
          /\ Answered(r, Reply("ok", catalog', Normalized(catalog', row)))
       \/ /\ r.version.revision >= 1 /\ r.version.revision # catalog.revision
          /\ Answered(r, Reply("conflict", catalog, NoPreferences))
          /\ UNCHANGED catalog
    /\ UNCHANGED <<row, page, edits, opens, loads, fails>>

\* save_groups_preferences: the choice is normalized with the catalog as it
\* was loaded, and stored in another transaction.
ReadForPreferences(r) ==
    /\ Loads(r, {"prefs", "first"})
    /\ wire' = (wire \ {r}) \cup {[r EXCEPT !.step = "checked", !.version = catalog]}
    /\ UNCHANGED <<catalog, row, page, edits, opens, loads, fails>>

\* save_group_preferences
StorePreferences(r) ==
    /\ r \in wire /\ r.kind \in {"prefs", "first"} /\ r.step = "checked"
    /\ LET preferences == Normalized(r.version, r.choice)
       IN  IF r.version.groups # {} /\ Effective(r.version, preferences) = {}
           THEN /\ Answered(r, Reply("refused", NoCatalog, NoPreferences))
                /\ UNCHANGED row
           ELSE /\ row' = [visible |-> preferences.visible, active |-> preferences.active]
                /\ Answered(r, Reply("ok", NoCatalog, preferences))
    /\ UNCHANGED <<catalog, page, edits, opens, loads, fails>>

\* The request is lost before the server has done anything, or its answer.
Fail(r) ==
    /\ r \in wire /\ fails < MaxFails
    /\ fails' = fails + 1
    /\ \/ r.step = "sent"
       \/ r.step = "answered" /\ r.reply.status # "failed"
    /\ Answered(r, Reply("failed", NoCatalog, NoPreferences))
    /\ UNCHANGED <<catalog, row, page, edits, opens, loads>>

\* What one edit of the settings makes of a catalog: add or remove a group,
\* make one the default or none, change something inside one.
Added(c, g)     == [c EXCEPT !.groups = @ \cup {g}]
Removed(c, g)   == [c EXCEPT !.groups = @ \ {g}, !.marked = @ \ {g},
                             !.default = IF @ = g THEN None ELSE @]
Defaulted(c, g) == [c EXCEPT !.default = IF @ = g THEN None ELSE g]
Marked(c, g)    == [c EXCEPT !.marked = IF g \in @ THEN @ \ {g} ELSE @ \cup {g}]

Edited(c) ==
    {Added(c, g) : g \in Group \ c.groups} \cup {Removed(c, g) : g \in c.groups}
        \cup {Defaulted(c, g) : g \in c.groups} \cup {Marked(c, g) : g \in c.groups}

\* Another user's page loads or saves the catalog.
Colleague ==
    /\ \/ catalog.revision = 0 /\ catalog' = Version(Legacy, 1, 0)
       \/ /\ catalog.revision \in 1..(MaxRevision - 1)
          /\ \E next \in Edited(catalog) :
                /\ next.groups # {}
                /\ catalog' = [next EXCEPT !.revision = @ + 1, !.origin = catalog.revision]
    /\ UNCHANGED <<row, page, wire, edits, opens, loads, fails>>

-----------------------------------------------------------------------------
(* The page: answers. *)

Configured(p, version, preferences) ==
    [p EXCEPT !.config = [version EXCEPT !.origin = version.revision],
              !.preferences = preferences, !.renewed = TRUE]

\* applySavedGroupsConfig
AppliedSaved(p, version, preferences) ==
    LET q == Configured(p, version, preferences)
    IN  [q EXCEPT !.draft = q.config, !.base = Signature(q.config),
                  !.active = Resolved(q.config, Effective(q.config, preferences), p.active)]

\* What the answer to a save of the preferences sets.
AppliedPreferences(p, preferences) ==
    [p EXCEPT !.preferences = preferences, !.seen = preferences.visible,
              !.seenBase = [visible |-> preferences.visible, active |-> preferences.active],
              !.active = Resolved(p.config, Effective(p.config, preferences),
                                  IF preferences.active # None THEN preferences.active
                                  ELSE p.active)]

Closed(p) == [p EXCEPT !.open = FALSE, !.message = "none"]
Ended(p, message) == [p EXCEPT !.saving = FALSE, !.message = message]

Arrives(r, kind) == r \in wire /\ r.kind = kind /\ r.step = "answered" /\ r.heard

\* loadGroupsConfig
ReceiveLoad(r) ==
    /\ Arrives(r, "load")
    /\ wire' = wire \ {r}
    /\ LET ready == [page EXCEPT !.loading = FALSE]
           q == Configured(ready, r.reply.version, r.reply.preferences)
           preferred == IF q.preferences.active # None THEN q.preferences.active ELSE page.active
       IN  page' = Settled(
             IF r.reply.status = "ok"
             THEN [q EXCEPT !.active =
                       Resolved(q.config, Effective(q.config, q.preferences), preferred)]
             ELSE ready)
    /\ UNCHANGED <<catalog, row, edits, opens, loads, fails>>

\* saveGroupsConfig after the answer to the save of the catalog: next the
\* preferences, with what was ticked when Save was pressed.
ReceiveSave(r) ==
    /\ Arrives(r, "save")
    /\ wire' = (wire \ {r}) \cup
               (IF r.reply.status = "ok" /\ r.also
                THEN {Request("prefs", NoCatalog, r.choice, FALSE)} ELSE {})
    /\ LET saved == AppliedSaved(page, r.reply.version, r.reply.preferences)
       IN  page' = Settled(
             CASE r.reply.status = "ok" ->
                    IF r.also THEN saved ELSE Closed(Ended(saved, "none"))
               [] r.reply.status = "conflict" -> [Ended(saved, "conflict") EXCEPT !.conflicted = TRUE]
               [] OTHER -> Ended(page, "failed"))
    /\ UNCHANGED <<catalog, row, edits, opens, loads, fails>>

\* persistGroupPreferences, and the end of saveGroupsConfig
ReceivePreferences(r) ==
    /\ Arrives(r, "prefs")
    /\ wire' = wire \ {r}
    /\ page' = Settled(
         IF r.reply.status = "ok"
         THEN Closed(Ended(AppliedPreferences(page, r.reply.preferences), "none"))
         ELSE Ended(page, "failed"))
    /\ UNCHANGED <<catalog, row, edits, opens, loads, fails>>

\* saveFirstRunGroupPreferences
ReceiveFirstRun(r) ==
    /\ Arrives(r, "first")
    /\ wire' = wire \ {r}
    /\ LET ready == [page EXCEPT !.choosing = FALSE]
       IN  page' = Settled(
             IF r.reply.status = "ok"
             THEN AppliedPreferences(ready, r.reply.preferences)
             ELSE ready)
    /\ UNCHANGED <<catalog, row, edits, opens, loads, fails>>

\* saveSharedExcludedCapacityToggle
ReceiveToggle(r) ==
    /\ Arrives(r, "toggle")
    /\ wire' = wire \ {r}
    /\ LET saved == AppliedSaved(page, r.reply.version, r.reply.preferences)
       IN  page' = Settled(
             CASE r.reply.status = "ok" -> saved
               [] r.reply.status = "conflict" -> [saved EXCEPT !.message = "conflict",
                                                                 !.conflicted = TRUE]
               [] OTHER -> [page EXCEPT !.message = "failed"])
    /\ UNCHANGED <<catalog, row, edits, opens, loads, fails>>

-----------------------------------------------------------------------------
(* The user. *)

SharedDirty(p) == Signature(p.draft) # p.base
Dirty(p) == SharedDirty(p) \/ p.seenDirty

\* The dialog of the first run covers the page.
Blocked == page.preferences.onboarding /\ ~page.open

OpenSettings ==
    /\ ~page.open /\ ~Blocked /\ opens < MaxOpens
    /\ opens' = opens + 1
    /\ page' = Settled([page EXCEPT !.open = TRUE, !.renewed = TRUE])
    /\ UNCHANGED <<catalog, row, wire, edits, loads, fails>>

\* Mutant of AddFirstGroup: the button is there although there are groups.
AddFirstGroupAnyway ==
    /\ Blocked /\ opens < MaxOpens
    /\ opens' = opens + 1
    /\ page' = Settled([page EXCEPT !.open = TRUE, !.renewed = TRUE,
                                    !.preferences.onboarding = FALSE])
    /\ UNCHANGED <<catalog, row, wire, edits, loads, fails>>

\* openFirstRunAddGroup
AddFirstGroup ==
    /\ Blocked /\ page.config.groups = {} /\ opens < MaxOpens
    /\ opens' = opens + 1
    /\ page' = Settled([page EXCEPT !.open = TRUE, !.renewed = TRUE,
                                    !.preferences.onboarding = FALSE])
    /\ UNCHANGED <<catalog, row, wire, edits, loads, fails>>

\* requestCloseGroupManage, and "Discard changes?"
CloseSettings ==
    /\ page.open /\ ~page.saving
    /\ page' = Settled(Closed(page))
    /\ UNCHANGED <<catalog, row, wire, edits, opens, loads, fails>>

Edit(p) ==
    /\ page.open /\ edits < MaxEdits
    /\ edits' = edits + 1
    /\ page' = Settled(p)
    /\ UNCHANGED <<catalog, row, wire, opens, loads, fails>>

\* addGroupDraftRow, duplicateGroupDraft: React may run the updater that
\* names the new group only after the handler has looked for the name, and
\* then the group is not ticked.
AddGroup(g) ==
    /\ g \notin page.draft.groups
    /\ \E named, copied \in BOOLEAN :
          /\ copied => page.draft.marked # {}
          /\ Edit([page EXCEPT !.draft = IF copied THEN Marked(Added(@, g), g) ELSE Added(@, g),
                               !.seen = IF named THEN @ \cup {g} ELSE @])

RemoveGroup(g) ==
    /\ g \in page.draft.groups
    /\ Edit([page EXCEPT !.draft = Removed(@, g), !.seen = @ \ {g}])

ToggleDefault(g) ==
    g \in page.draft.groups /\ Edit([page EXCEPT !.draft = Defaulted(@, g)])

ChangeGroup(g) ==
    g \in page.draft.groups /\ Edit([page EXCEPT !.draft = Marked(@, g)])

\* toggleGroupVisibleInControls
ToggleVisible(g) ==
    /\ g \in page.draft.groups /\ page.draft.default # g
    /\ Edit([page EXCEPT !.seen = IF g \in @ THEN @ \ {g} ELSE @ \cup {g}])

\* importGroupsConfig: what exportGroupsConfig wrote has no revision.
Import(g) == Edit([page EXCEPT !.draft = Version(Added(Nothing, g), 0, 0)])

\* saveAllSettings, saveGroupsConfig
Save ==
    /\ page.open /\ ~page.saving /\ Dirty(page)
    /\ page' = Settled([page EXCEPT !.saving = TRUE, !.message = "none"])
    /\ LET choice == VisibilitySignature(page)
       IN  wire' = wire \cup
             {IF SharedDirty(page) THEN Request("save", page.draft, choice, page.seenDirty)
              ELSE Request("prefs", NoCatalog, choice, FALSE)}
    /\ UNCHANGED <<catalog, row, edits, opens, loads, fails>>

\* buildGroupsConfigWithExcludedCapacityToggle, with the config of the page
Toggled(p) == Marked(p.config, p.active)

\* toggleSharedGroupExcludedCapacityEpic, from the board or the statistics
ToggleEpic ==
    /\ page.active \in page.config.groups /\ ~Blocked
    /\ ~(page.open /\ Dirty(page)) /\ edits < MaxEdits
    /\ edits' = edits + 1
    /\ LET request == Request("toggle", Toggled(page), NoChoice, FALSE)
       IN  request \notin wire /\ wire' = wire \cup {request}
    /\ page' = Settled([page EXCEPT !.message = "none"])
    /\ UNCHANGED <<catalog, row, opens, loads, fails>>

\* The first-run dialog: any choice of groups, the default always in.
ContinueFirstRun ==
    /\ Blocked /\ ~page.choosing
    /\ \E chosen \in (SUBSET page.config.groups) \ {{}} :
          LET first == CHOOSE g \in chosen : TRUE
          IN  wire' = wire \cup
                {Request("first", NoCatalog,
                         [visible |-> chosen \cup ({page.config.default} \ {None}),
                          active |-> first], FALSE)}
    /\ page' = [page EXCEPT !.choosing = TRUE]
    /\ UNCHANGED <<catalog, row, edits, opens, loads, fails>>

\* The groups of the controls; one of them is chosen.
SelectGroup(g) ==
    /\ g \in Effective(page.config, page.preferences) /\ g # page.active
    /\ ~page.loading /\ ~page.open
    /\ page' = Settled([page EXCEPT !.active = g])
    /\ UNCHANGED <<catalog, row, wire, edits, opens, loads, fails>>

\* The page is loaded anew; the server still does what it was asked for.
Reload ==
    /\ loads < MaxLoads
    /\ loads' = loads + 1
    /\ page' = FreshPage(page.active)
    /\ wire' = {[r EXCEPT !.heard = FALSE] : r \in {q \in wire : q.step # "answered"}}
                 \cup {LoadRequest}
    /\ UNCHANGED <<catalog, row, edits, opens, fails>>

-----------------------------------------------------------------------------
Server(r) == FindNoCatalog(r) \/ CreateCatalog(r) \/ ReadCatalog(r) \/ CheckSave(r)
                 \/ StoreSave(r) \/ ReadForPreferences(r) \/ StorePreferences(r)

Receive(r) == ReceiveLoad(r) \/ ReceiveSave(r) \/ ReceivePreferences(r)
                  \/ ReceiveFirstRun(r) \/ ReceiveToggle(r)

User == \/ OpenSettings \/ AddFirstGroup \/ CloseSettings \/ Save \/ ToggleEpic
        \/ ContinueFirstRun \/ Reload
        \/ \E g \in Group : \/ AddGroup(g) \/ RemoveGroup(g) \/ ToggleDefault(g)
                            \/ ChangeGroup(g) \/ ToggleVisible(g) \/ Import(g)
                            \/ SelectGroup(g)

Next == \/ \E r \in wire : Server(r) \/ Receive(r) \/ Fail(r)
        \/ Colleague
        \/ User

Spec == Init /\ [][Next]_vars
-----------------------------------------------------------------------------
Versions ==
    [groups: SUBSET Group, default: Group \cup {None}, marked: SUBSET Group,
     revision: Nat, origin: Nat]
Signatures == (SUBSET Group) \X (Group \cup {None}) \X (SUBSET Group) \X Nat
Choices == [visible: SUBSET Group, active: Group \cup {None}]
Preferences ==
    [customized: BOOLEAN, onboarding: BOOLEAN, visible: SUBSET Group,
     active: Group \cup {None}]
Requests ==
    [kind: {"load", "save", "toggle", "prefs", "first"},
     step: {"sent", "creating", "checked", "answered"}, version: Versions, choice: Choices,
     also: BOOLEAN, heard: BOOLEAN,
     reply: [status: {"none", "ok", "conflict", "refused", "failed"},
             version: Versions, preferences: Preferences]]

Coherent(v) == v.default \in v.groups \cup {None} /\ v.marked \subseteq v.groups

\* Every state is well typed; the default and the marked groups of every
\* catalog, stored, shown or being edited, are groups of it
\* (shared_group_config.py, saveGroupsConfig, removeGroupDraft).
TypeOK ==
    /\ catalog \in Versions /\ Coherent(catalog)
    /\ row = NoRow \/ row \in Choices
    /\ page \in [config: Versions, preferences: Preferences, active: Group \cup {None},
                 loading: BOOLEAN, open: BOOLEAN, renewed: {FALSE}, draft: Versions,
                 base: Signatures, seen: SUBSET Group,
                 seenBase: Choices \cup {NoRow}, seenDirty: BOOLEAN,
                 signed: {VisibilitySignature(page)},
                 saving: BOOLEAN, choosing: BOOLEAN,
                 message: {"none", "conflict", "failed"}, conflicted: BOOLEAN]
    /\ Coherent(page.config) /\ Coherent(page.draft)
    /\ wire \subseteq Requests
    /\ edits \in 0..MaxEdits /\ opens \in 0..MaxOpens
    /\ loads \in 1..MaxLoads /\ fails \in 0..MaxFails

\* Whatever is stored was made from the version it replaces, so no save
\* undoes what another user saved meanwhile: the conditional update of
\* save_shared_groups, and the revision that stays with the content in the
\* settings, the board's toggle and after a refused save.
NoLostUpdate == catalog.revision > 1 => catalog.origin = catalog.revision - 1

\* A user who has not yet chosen groups is shown none: as long as no save was
\* refused, a group is active only once there is a preference row
\* (normalize_group_preferences, openFirstRunAddGroup, onboardingRequired).
FirstRunGate ==
    /\ TypeOK
    /\ page.active # None /\ ~page.loading /\ ~page.conflicted => row # NoRow
=============================================================================
