----------------------------- MODULE DraftEditor -----------------------------
(***************************************************************************)
(* The scenario planner of one browser tab, as far as its draft goes: the  *)
(* handlers of frontend/src/dashboard.jsx that edit, save, reload and roll *)
(* back the overrides of a scope while their requests are in flight, the   *)
(* user switches scopes and other users store versions.                    *)
(*                                                                         *)
(* The server is the append-only history of DraftHistory.tla, one for each *)
(* scope (the service behind it is ScenarioDrafts.tla): version n of a     *)
(* draft is its revision n, and a draft is named by its scope.  A request  *)
(* is sent, answered by the server, and handled when its answer arrives;   *)
(* the requests overtake each other.  A computed timeline and an old       *)
(* version do not depend on when the server answers: they have no answer   *)
(* step of their own.                                                      *)
(***************************************************************************)
EXTENDS Naturals, Sequences, FiniteSets

CONSTANTS Scopes,       \* sprint and group of a draft
          None,         \* no scope
          Overrides,    \* the maps of local edits
          NoOverrides,  \* the empty one
          MaxVersions,  \* bound on the stored versions, of all scopes together
          MaxInFlight   \* bound on the requests in flight

ASSUME NoneAssumption == None \notin Scopes
ASSUME OverridesAssumption == NoOverrides \in Overrides

VARIABLES server,    \* the stored versions of each scope's draft
          selected,  \* scenarioScopeKey, the scope the controls name
          shown,     \* scope of scenarioData, the timeline on the screen
          loading,   \* scenarioLoading
          overrides, \* scenarioOverrides, the edits on the screen
          meta,      \* scenarioDraftMeta
          undo,      \* scenarioUndoStack has something to undo or redo
          lastEvent, \* scenarioDraftLastEventNumber, counting draft events
          requests,  \* in flight, or answered and not yet handled
          crossed    \* history: what an unguarded answer has moved to another scope

editorVars ==
    <<server, selected, shown, loading, overrides, meta, undo, lastEvent, requests, crossed>>

Optional == Scopes \union {None}
Meta == [scope: Optional, draft: Optional,    \* scopeKey, activeDraft
         base: Nat, saved: Overrides,         \* baseDraftRevision, savedOverrides
         busy: SUBSET {"saving", "loadingHistory"},
         stale: Nat, conflict: Optional]      \* staleDraft, conflict

Loads == {"load", "history", "reload"}           \* fetchScenarioDraft
Actions == {"version", "fetch", "rollback", "jira"}  \* one history action at a time
Kind == {"run", "save"} \union Loads \union Actions

Request == [kind: Kind, scope: Scopes, draft: Optional, base: Nat,
            target: Nat,           \* version asked for
            overrides: Overrides,  \* sent, and answered
            revision: Nat,         \* answered revision
            step: {"sent", "ok", "conflict"}]

\* With what the handlers use of it: a read names no base and sends no edits.
NewRequest(kind, scope, draft) ==
    [kind |-> kind, scope |-> scope, draft |-> draft,
     base |-> IF kind \in {"save", "fetch", "jira"} THEN meta.base ELSE 0,
     target |-> 0,
     overrides |-> IF kind = "save" THEN overrides ELSE NoOverrides,
     revision |-> 0, step |-> "sent"]

NoDraft(scope) ==
    [scope |-> scope, draft |-> None, base |-> 0, saved |-> NoOverrides, busy |-> {},
     stale |-> 0, conflict |-> None]

EditorInit ==
    /\ server = [s \in Scopes |-> <<>>]
    /\ selected \in Scopes
    /\ shown = None /\ loading = FALSE
    /\ overrides = NoOverrides
    /\ meta = NoDraft(None)
    /\ undo = FALSE /\ lastEvent = 0
    /\ requests = {}
    /\ crossed = "nothing"

VersionsOf(s) == 1 .. Len(server[s])

Dirty == overrides # meta.saved     \* scenarioHasUnsavedChanges

\* isScenarioScopeDraftCurrent missing from a handler.
CurrentForAnyDraft(r) == TRUE

\* isScenarioScopeDraftCurrent.
IsCurrent(r) ==
    /\ selected = r.scope
    /\ r.draft # None => meta.draft = r.draft

\* The effect on the active draft's id aborts history and its actions.
Surviving(rs, draft) ==
    IF draft = meta.draft THEN rs ELSE {r \in rs : r.kind \notin Actions \union {"history"}}

Send(r) ==
    /\ Cardinality(requests) < MaxInFlight
    /\ requests' = requests \union {r}

-----------------------------------------------------------------------------
(* The user, outside requests                                              *)

\* The timeline goes.  A new sprint aborts the run and its load; a new group
\* only lets the next run start.  Both change the scope key, which aborts the
\* history requests.
SelectScope(s) ==
    /\ s # selected
    /\ selected' = s
    /\ shown' = None
    /\ \E aborted \in {{}, {"run", "load"}} :
         requests' = {r \in requests : r.kind \notin Actions \union {"history"} \union aborted}
    /\ loading' = FALSE
    /\ UNCHANGED <<server, overrides, meta, undo, lastEvent, crossed>>

\* Another set of teams: the timeline is to be computed again.
SelectTeams ==
    /\ shown # None
    /\ shown' = None
    /\ UNCHANGED <<server, selected, loading, overrides, meta, undo, lastEvent, requests, crossed>>

\* A drag on the timeline.
Edit(o) ==
    /\ shown # None
    /\ overrides' = o
    /\ undo' = TRUE
    /\ UNCHANGED <<server, selected, shown, loading, meta, lastEvent, requests, crossed>>

\* Undo and redo, by keyboard without a timeline too.
UndoOrRedo(o) ==
    /\ undo
    /\ overrides' = o
    /\ UNCHANGED <<server, selected, shown, loading, meta, undo, lastEvent, requests, crossed>>

Discard ==
    /\ Dirty
    /\ overrides' = meta.saved
    /\ meta' = [meta EXCEPT !.stale = 0, !.conflict = None]
    /\ undo' = FALSE
    /\ UNCHANGED <<server, selected, shown, loading, lastEvent, requests, crossed>>

\* "Keep editing locally" of the newer-draft notice, "Keep Editing" of the
\* conflict.
KeepEditing ==
    /\ \/ meta.stale # 0 /\ meta' = [meta EXCEPT !.stale = 0]
       \/ meta.conflict # None /\ meta' = [meta EXCEPT !.conflict = None]
    /\ UNCHANGED <<server, selected, shown, loading, overrides, undo, lastEvent, requests, crossed>>

-----------------------------------------------------------------------------
(* Asking                                                                  *)

Asks(r) ==
    /\ Send(r)
    /\ UNCHANGED <<server, selected, shown, overrides, undo, lastEvent, crossed>>

\* runScenario, refused while there are unsaved changes.
RunScenario ==
    /\ ~loading /\ ~Dirty
    /\ loading' = TRUE
    /\ Asks(NewRequest("run", selected, None))
    /\ UNCHANGED meta

\* scenarioCanSaveDraft; unsaved changes imply a stored scope.
CanSave == Dirty /\ meta.busy = {} /\ meta.conflict = None

SaveDraft ==
    /\ CanSave
    /\ meta' = [meta EXCEPT !.busy = @ \union {"saving"}]
    /\ Asks(NewRequest("save", meta.scope, meta.draft))
    /\ UNCHANGED loading

AskedScope == IF meta.scope = None THEN selected ELSE meta.scope

\* openScenarioDraftHistory, by its button or from a notice, aborts the refresh
\* it replaces.  Before anything was run there is no draft to look at.
OpenHistory ==
    /\ meta.scope # None
    /\ "loadingHistory" \in meta.busy => meta.stale # 0 \/ meta.conflict # None
    /\ meta' = [meta EXCEPT !.busy = @ \union {"loadingHistory"}]
    /\ Cardinality(requests) < MaxInFlight
    /\ requests' = {r \in requests : r.kind # "history"}
                     \union {NewRequest("history", AskedScope, meta.draft)}
    /\ UNCHANGED <<server, selected, shown, loading, overrides, undo, lastEvent, crossed>>

\* runReloadActiveDraft, from the newer-draft notice; with unsaved changes
\* only after the user has confirmed.
ReloadActive ==
    /\ meta.stale # 0
    /\ Asks(NewRequest("reload", AskedScope, meta.draft))
    /\ UNCHANGED <<loading, meta>>

\* activeDraft, else the draft of the conflict.
ActionDraft == IF meta.draft # None THEN meta.draft ELSE meta.conflict

\* runScenarioHistoryAction and runScenarioReloadFromJira, confirmed like the
\* reload; one aborts the other.
HistoryAction(kind, target) ==
    /\ kind = "jira" => meta.base # 0
    /\ Cardinality(requests) < MaxInFlight
    /\ requests' = {r \in requests : r.kind \notin Actions} \union
         {[NewRequest(kind, AskedScope, ActionDraft) EXCEPT !.target = target]}
    /\ UNCHANGED <<server, selected, shown, loading, overrides, meta, undo, lastEvent, crossed>>

ListedVersions == IF ActionDraft = None THEN {} ELSE VersionsOf(ActionDraft)

OpenVersion == \E n \in ListedVersions : HistoryAction("version", n)
Rollback == \E n \in ListedVersions : HistoryAction("fetch", n)
RequestReload == ActionDraft # None /\ HistoryAction("jira", 0)

-----------------------------------------------------------------------------
(* The server                                                              *)

Stores(s, o) ==
    /\ Cardinality(UNION {{t} \X VersionsOf(t) : t \in Scopes}) < MaxVersions
    /\ server' = [server EXCEPT ![s] = Append(@, o)]

\* Another user's save, or an aborted rollback or reload of this tab.
OtherSave(s, o) ==
    /\ Stores(s, o)
    /\ UNCHANGED <<selected, shown, loading, overrides, meta, undo, lastEvent, requests, crossed>>

AnsweredWith(r, step, o, revision) ==
    requests' = (requests \ {r}) \union
                  {[r EXCEPT !.step = step, !.overrides = o, !.revision = revision]}

Latest(s) == IF server[s] = <<>> THEN NoOverrides ELSE server[s][Len(server[s])]

AnswerLoad(r) ==
    /\ r.step = "sent"
    /\ r.kind \in Loads
    /\ AnsweredWith(r, "ok", Latest(r.scope), Len(server[r.scope]))
    /\ UNCHANGED server

\* What a write stores: the edits, the old version, or the draft again.
Stored(r) ==
    CASE r.kind = "save" -> r.overrides
      [] r.kind = "rollback" -> server[r.draft][r.target]
      [] OTHER -> Latest(r.draft)

\* A write whose base is not the last revision conflicts; a rollback without
\* base is refused, like any failure.
AnswerWrite(r) ==
    LET s == IF r.kind = "save" THEN r.scope ELSE r.draft
    IN  /\ r.step = "sent"
        /\ r.kind \in {"save", "rollback", "jira"}
        /\ r.kind = "rollback" => r.base # 0
        /\ IF r.base = Len(server[s])
             THEN /\ Stores(s, Stored(r))
                  /\ AnsweredWith(r, "ok", Stored(r), r.base + 1)
             ELSE AnsweredWith(r, "conflict", NoOverrides, 0) /\ UNCHANGED server

Server(r) ==
    /\ AnswerLoad(r) \/ AnswerWrite(r)
    /\ UNCHANGED <<selected, shown, loading, overrides, meta, undo, lastEvent, crossed>>

\* A poll of the draft's events that has got as far as some event; the timeline
\* must show the draft.  An event above the base sets the notice.
PollEvents ==
    /\ shown # None /\ meta.draft # None /\ meta.scope = selected
    /\ \E n \in VersionsOf(meta.draft) :
         /\ n > lastEvent
         /\ lastEvent' = n
         /\ meta' = [meta EXCEPT !.stale = IF n > meta.base THEN n ELSE @]
    /\ UNCHANGED <<server, selected, shown, loading, overrides, undo, requests, crossed>>

-----------------------------------------------------------------------------
(* Handling answers                                                        *)

Drop(r) == requests' = requests \ {r}

\* A save goes on whatever is loaded.
Saving == meta.busy \intersect {"saving"}

\* Answers handled whatever scope was loaded since.
Crossing(r) ==
    crossed' = CASE meta.scope = r.scope \/ crossed = "draft" -> crossed
                 [] meta.scope # r.scope /\ r.kind = "history" -> "draft"
                 [] OTHER -> "everything"

\* runScenario's first answer: a timeline without draft; the draft is asked for.
RunDone(r) ==
    /\ r.kind = "run"
    /\ shown' = r.scope
    /\ overrides' = NoOverrides
    /\ lastEvent' = 0
    /\ meta' = [NoDraft(r.scope) EXCEPT !.busy = Saving \union {"loadingHistory"}]
    /\ requests' = Surviving(requests \ {r}, None) \union
         {[r EXCEPT !.kind = "load", !.step = "sent", !.overrides = NoOverrides]}
    /\ UNCHANGED <<server, selected, loading, undo, crossed>>

\* The draft of the scope, if it has one.
Loaded(r) ==
    [NoDraft(r.scope) EXCEPT !.busy = Saving, !.base = r.revision, !.saved = r.overrides,
                             !.draft = IF r.revision = 0 THEN None ELSE r.scope]

\* runScenario's second answer, for whatever scope the tab is at by now.
LoadDone(r) ==
    /\ r.kind = "load" /\ r.step = "ok"
    /\ loading' = FALSE
    /\ overrides' = r.overrides
    /\ meta' = Loaded(r)
    /\ requests' = Surviving(requests \ {r}, meta'.draft)
    /\ Crossing(r)
    /\ UNCHANGED <<server, selected, shown, undo, lastEvent>>

\* The edits on the screen by now taken for the saved ones.
SavedFromScreen(r) ==
    [meta EXCEPT !.draft = r.scope, !.scope = r.scope, !.base = r.revision, !.saved = overrides,
                 !.busy = @ \ {"saving"}, !.stale = 0, !.conflict = None]

Saved(r) ==
    [meta EXCEPT !.draft = r.scope, !.scope = r.scope, !.base = r.revision,
                 !.saved = r.overrides, !.busy = @ \ {"saving"}, !.stale = 0, !.conflict = None]

\* saveScenarioDraft's answer has no check of the scope either.
SaveDone(r) ==
    /\ r.kind = "save" /\ r.step = "ok"
    /\ undo' = FALSE
    /\ meta' = Saved(r)
    /\ requests' = Surviving(requests \ {r}, r.scope)
    /\ Crossing(r)
    /\ UNCHANGED <<server, selected, shown, loading, overrides, lastEvent>>

\* A conflict keeps the edits and blocks the next save until it is read.
Conflicted(r) ==
    /\ r.step = "conflict"
    /\ r.kind # "save" => IsCurrent(r)
    /\ meta' = [meta EXCEPT !.conflict = IF r.kind = "save" THEN r.scope ELSE r.draft,
                            !.busy = IF r.kind = "save" THEN @ \ {"saving"} ELSE @]
    /\ Drop(r)
    /\ UNCHANGED <<server, selected, shown, loading, overrides, undo, lastEvent, crossed>>

\* The refresh of the history replaces the active draft, not the base.
HistoryDone(r) ==
    /\ r.kind = "history" /\ r.step = "ok" /\ IsCurrent(r)
    /\ LET draft == IF r.revision = 0 THEN meta.draft ELSE r.scope
       IN  /\ meta' = [meta EXCEPT !.draft = draft, !.busy = @ \ {"loadingHistory"},
                        !.stale = IF @ # 0 /\ r.revision # 0 THEN r.revision ELSE @]
           /\ requests' = Surviving(requests \ {r}, draft)
    /\ Crossing(r)
    /\ UNCHANGED <<server, selected, shown, loading, overrides, undo, lastEvent>>

\* runReloadActiveDraft's answer: the draft of a notice exists.
ReloadDone(r) ==
    /\ r.kind = "reload" /\ r.step = "ok" /\ IsCurrent(r)
    /\ overrides' = r.overrides
    /\ undo' = FALSE
    /\ meta' = Loaded(r)
    /\ requests' = Surviving(requests \ {r}, r.scope)
    /\ UNCHANGED <<server, selected, shown, loading, lastEvent, crossed>>

\* An old version becomes local edits; for a rollback it is only looked at.
VersionDone(r) ==
    /\ IsCurrent(r)
    /\ \/ /\ r.kind = "version"
          /\ overrides' = server[r.draft][r.target]
          /\ undo' = FALSE
          /\ meta' = [meta EXCEPT !.conflict = None]
          /\ Drop(r)
       \/ /\ r.kind = "fetch"
          /\ requests' = (requests \ {r}) \union {[r EXCEPT !.kind = "rollback"]}
          /\ UNCHANGED <<overrides, undo, meta>>
    /\ UNCHANGED <<server, selected, shown, loading, lastEvent, crossed>>

\* The new version of a rollback or a reload from Jira replaces the edits.
WriteDone(r) ==
    /\ r.kind \in {"rollback", "jira"} /\ r.step = "ok" /\ IsCurrent(r)
    /\ overrides' = r.overrides
    /\ undo' = FALSE
    /\ meta' = [meta EXCEPT !.base = r.revision, !.saved = r.overrides, !.stale = 0,
                            !.conflict = None]
    /\ Drop(r)
    /\ UNCHANGED <<server, selected, shown, loading, lastEvent, crossed>>

\* Handlers that check the scope ignore an answer for another one.
Ignored(r) ==
    /\ r.kind \notin {"run", "load", "save"}
    /\ r.kind \in {"version", "fetch"} \/ r.step # "sent"
    /\ ~IsCurrent(r)
    /\ Drop(r)
    /\ UNCHANGED <<server, selected, shown, loading, overrides, meta, undo, lastEvent, crossed>>

\* The request or its answer is lost, or the server fails.  A load that fails
\* leaves a scope without draft.
Fails(r) ==
    /\ \/ r.kind = "run" /\ loading' = FALSE /\ Drop(r) /\ UNCHANGED <<overrides, meta, crossed>>
       \/ /\ r.kind = "load"
          /\ loading' = FALSE
          /\ overrides' = NoOverrides
          /\ meta' = [NoDraft(r.scope) EXCEPT !.busy = Saving]
          /\ requests' = Surviving(requests \ {r}, None)
          /\ Crossing(r)
       \/ /\ r.kind = "save" /\ meta' = [meta EXCEPT !.busy = @ \ {"saving"}]
          /\ Drop(r)
          /\ UNCHANGED <<loading, overrides, crossed>>
       \/ /\ r.kind = "history"
          /\ meta' = [meta EXCEPT !.busy = IF IsCurrent(r) THEN @ \ {"loadingHistory"} ELSE @]
          /\ Drop(r)
          /\ UNCHANGED <<loading, overrides, crossed>>
       \/ r.kind \in Actions \union {"reload"} /\ Drop(r)
          /\ UNCHANGED <<loading, overrides, meta, crossed>>
    /\ UNCHANGED <<server, selected, shown, undo, lastEvent>>

Handle(r) ==
    \/ RunDone(r) \/ LoadDone(r) \/ SaveDone(r) \/ Conflicted(r) \/ HistoryDone(r)
    \/ ReloadDone(r) \/ VersionDone(r) \/ WriteDone(r) \/ Ignored(r)

User ==
    \/ \E s \in Scopes : SelectScope(s)
    \/ SelectTeams \/ Discard \/ KeepEditing
    \/ \E o \in Overrides : Edit(o) \/ UndoOrRedo(o)
    \/ RunScenario \/ SaveDraft \/ OpenHistory \/ ReloadActive
    \/ OpenVersion \/ Rollback \/ RequestReload

EditorNext ==
    \/ User
    \/ \E s \in Scopes, o \in Overrides : OtherSave(s, o)
    \/ PollEvents
    \/ \E r \in requests : Server(r) \/ Handle(r) \/ Fails(r)

EditorSpec == EditorInit /\ [][EditorNext]_editorVars

-----------------------------------------------------------------------------
(* Properties                                                              *)

EditorTypeOK ==
    /\ server \in [Scopes -> Seq(Overrides)]
    /\ selected \in Scopes
    /\ shown \in Optional
    /\ loading \in BOOLEAN
    /\ overrides \in Overrides
    /\ meta \in Meta
    /\ undo \in BOOLEAN
    /\ lastEvent \in Nat
    /\ requests \subseteq Request
    /\ crossed \in {"nothing", "everything", "draft"}

\* The clean state of the editor is a stored version of the scope it is saved
\* to: whatever answers overtake each other, the edits compared as saved are
\* those of the base revision that the next save names, so a save never
\* stores edits of one version on top of another that the user has not seen.
\* Except for a history answered after another scope was loaded: it names the
\* draft of its own scope and leaves the base, and with three requests in
\* flight a rollback or a reload from Jira then writes to that draft.
SavedIsStored ==
    crossed # "draft" /\ meta.base # 0 =>
        /\ meta.scope # None
        /\ meta.base <= Len(server[meta.scope])
        /\ meta.saved = server[meta.scope][meta.base]

\* At most one save is on its way, and the Save button waits for exactly it,
\* whatever was switched, loaded or refused meanwhile.
OneSaveInFlight ==
    LET saves == {r \in requests : r.kind = "save"}
    IN  IF "saving" \in meta.busy THEN Cardinality(saves) = 1 ELSE saves = {}

\* No edit is taken for saved that is not, and none is saved twice, in a state
\* of the right types (the handlers of dashboard.jsx).
EditsKept == EditorTypeOK /\ SavedIsStored /\ OneSaveInFlight

\* The draft being edited, its history included, is that of the timeline on
\* the screen, as long as no save, load or history is answered after a switch:
\* reloads, rollbacks and old versions that come late are ignored.
TimelineMatchesDraft ==
    crossed = "nothing" => shown \in {None, meta.scope} /\ meta.draft \in {None, meta.scope}
=============================================================================
