--------------------------- MODULE ScenarioDrafts ---------------------------
(***************************************************************************)
(* The draft of one scenario scope in the database, with its version       *)
(* history and its event feed, from backend/scenario_drafts.py as the      *)
(* routes of backend/routes/scenario_draft_routes.py call it.  A request   *)
(* is one call of the service, run by one server thread inside             *)
(* session_scope (commit at the end, rollback on any exception):           *)
(*                                                                         *)
(*   save_draft          create the draft, or compare-and-set its revision *)
(*   rollback_to_version the same update with an old version's contents    *)
(*   reload_from_jira    a check, a slow Jira fetch, a locked update       *)
(*   append_event        number an event under the draft's row lock        *)
(*   get_active_draft    import a legacy draft the first time it is asked  *)
(*                                                                         *)
(* The database is READ COMMITTED: an unlocked read sees the last commit,  *)
(* and an UPDATE, SELECT ... FOR UPDATE or INSERT of a unique key waits    *)
(* for the open transaction that wrote the row.  The advisory issue locks  *)
(* that reload_from_jira deletes are in DraftLocks.tla.                    *)
(***************************************************************************)
EXTENDS Naturals, Sequences

CONSTANTS Requests,   \* calls of the service
          NoRequest,  \* the draft row is not locked
          Legacy      \* the contents of the legacy JSON draft of the scope

ASSUME RequestsAssumption == NoRequest \notin Requests /\ Legacy \notin Requests

VARIABLES draft,      \* the active scenario_drafts row; revision 0: no row
          versions,   \* scenario_draft_versions rows, by version_number
          events,     \* scenario_draft_events rows, by event_number
          lock,       \* the request whose open transaction has locked the row
          txn         \* what each request's session holds, and its answer

stored == <<draft, versions, events>>
vars == <<stored, lock, txn>>

Contents == Requests \union {Legacy}   \* the overrides a request supplies
Writers == Requests \union {NoRequest}
Op == {"save", "rollback", "reload", "event", "import"}
Source == {"user", "rollback", "reload_from_jira", "legacy_json"}
Phase == {"idle", "loaded", "inserting", "fetching", "written", "numbered",
          "clash", "done"}
Result == {"none", "saved", "conflict", "appended", "error"}

Draft == [revision: Nat, contents: Contents, by: Writers]
Version == [revision: Nat, contents: Contents, by: Requests, source: Source,
            base: Nat]                 \* history: the base its request named
Event == [revision: Nat, kind: {"draft", "activity"}]
Txn == [pc: Phase, op: Op,
        base: Nat,          \* baseDraftRevision of the request, 0: null
        contents: Contents, \* what it stores
        revision: Nat,      \* draft_revision in the session's object
        version: Nat,       \* version_number read for its version
        event: Nat,         \* event_number read for its event
        result: Result,     \* the answer
        shown: Nat, author: Writers]  \* the draft a conflict answer shows

IdleTxn(r) == [pc |-> "idle", op |-> "save", base |-> 0, contents |-> r,
               revision |-> 0, version |-> 0, event |-> 0, result |-> "none",
               shown |-> 0, author |-> NoRequest]

Go(r, record) == txn' = [txn EXCEPT ![r] = record]

Init ==
    /\ draft = [revision |-> 0, contents |-> Legacy, by |-> NoRequest]
    /\ versions = <<>>
    /\ events = <<>>
    /\ lock = NoRequest
    /\ txn = [r \in Requests |-> IdleTxn(r)]

\* The request is over and its transaction, if any, is rolled back.
Answered(r, result) ==
    Go(r, [txn[r] EXCEPT !.pc = "done", !.result = result])

\* _raise_if_stale: the conflict shows the draft object of the session.
ConflictShowing(r, request, revision, author) ==
    Go(r, [request EXCEPT !.pc = "done", !.result = "conflict",
                          !.shown = revision, !.author = author])

-----------------------------------------------------------------------------
(* save_draft and rollback_to_version                                      *)

\* An existing draft: refused at once when the base is not the revision read.
LoadDraft(r, op, base, contents) ==
    LET request == [txn[r] EXCEPT !.op = op, !.base = base, !.contents = contents]
    IN  /\ txn[r].pc = "idle"
        /\ draft.revision # 0
        /\ IF base = draft.revision
             THEN Go(r, [request EXCEPT !.pc = "loaded", !.revision = draft.revision])
             ELSE ConflictShowing(r, request, draft.revision, draft.by)
        /\ UNCHANGED <<stored, lock>>

LoadForSave(r) == \E base \in 0 .. draft.revision : LoadDraft(r, "save", base, r)

LoadForRollback(r) ==
    \E base \in 1 .. draft.revision, target \in 1 .. Len(versions) :
        LoadDraft(r, "rollback", base, versions[target].contents)

\* No draft: save_draft and the legacy import insert one.
LoadNothing(r) ==
    /\ txn[r].pc = "idle"
    /\ draft.revision = 0
    /\ \/ Go(r, [txn[r] EXCEPT !.pc = "inserting"])
       \/ Go(r, [txn[r] EXCEPT !.pc = "inserting", !.op = "import", !.contents = Legacy])
    /\ UNCHANGED <<stored, lock>>

\* flush() of the INSERT: it waits for another open insert of the scope.
InsertDraft(r) ==
    /\ txn[r].pc = "inserting"
    /\ lock = NoRequest
    /\ draft.revision = 0
    /\ lock' = r
    /\ Go(r, [txn[r] EXCEPT !.pc = "written", !.revision = 1])
    /\ UNCHANGED stored

\* The unique index on the active scope refuses a second draft.  save_draft
\* answers with a conflict read in a new session; the import lets it escape.
InsertRefused(r) ==
    /\ txn[r].pc = "inserting"
    /\ lock = NoRequest
    /\ draft.revision # 0
    /\ IF txn[r].op = "save" THEN Go(r, [txn[r] EXCEPT !.pc = "clash"])
                             ELSE Answered(r, "error")
    /\ UNCHANGED <<stored, lock>>

ConflictForScope(r) ==
    /\ txn[r].pc = "clash"
    /\ ConflictShowing(r, txn[r], draft.revision, draft.by)
    /\ UNCHANGED <<stored, lock>>

\* The revision left out of the WHERE clause.
BaseIgnored(r) == TRUE

\* WHERE draft_revision == base_draft_revision.
BaseIsCurrent(r) == draft.revision = txn[r].base

\* The UPDATE: it waits for an open transaction that wrote the row.
UpdateDraft(r) ==
    /\ txn[r].pc = "loaded"
    /\ lock = NoRequest
    /\ BaseIsCurrent(r)
    /\ lock' = r
    /\ Go(r, [txn[r] EXCEPT !.pc = "written", !.revision = txn[r].revision + 1])
    /\ UNCHANGED stored

\* The UPDATE matched no row.  The ORM evaluates it on the session's object
\* all the same, and re-reading the draft does not refresh an object that is
\* already in the session: the conflict shows the values that were not stored.
UpdateMatchedNothing(r) ==
    /\ txn[r].pc = "loaded"
    /\ lock = NoRequest
    /\ ~BaseIsCurrent(r)
    /\ ConflictShowing(r, txn[r], txn[r].revision + 1, r)
    /\ UNCHANGED <<stored, lock>>

-----------------------------------------------------------------------------
(* reload_from_jira                                                        *)

\* First transaction: the stale check, before the scenario is fetched.
SnapshotForReload(r) ==
    /\ txn[r].pc = "idle"
    /\ draft.revision # 0
    /\ \E base \in 1 .. draft.revision :
         LET request == [txn[r] EXCEPT !.op = "reload", !.base = base]
         IN  IF base = draft.revision
               THEN Go(r, [request EXCEPT !.pc = "fetching"])
               ELSE ConflictShowing(r, request, draft.revision, draft.by)
    /\ UNCHANGED <<stored, lock>>

\* Second transaction: SELECT ... FOR UPDATE, then the same update; the
\* overrides are kept, the source hash is new.
LockForReload(r) ==
    /\ txn[r].pc = "fetching"
    /\ lock = NoRequest
    /\ IF BaseIsCurrent(r)
         THEN /\ lock' = r
              /\ Go(r, [txn[r] EXCEPT !.pc = "written", !.contents = draft.contents,
                                      !.revision = draft.revision + 1])
         ELSE /\ ConflictShowing(r, txn[r], draft.revision, draft.by)
              /\ UNCHANGED lock
    /\ UNCHANGED stored

-----------------------------------------------------------------------------
(* append_event, called by the presence and lock routes                    *)

\* The draft read without FOR UPDATE.
LockForEventUnlocked(r) ==
    /\ txn[r].pc = "idle"
    /\ draft.revision # 0
    /\ Go(r, [txn[r] EXCEPT !.pc = "written", !.op = "event", !.revision = draft.revision])
    /\ UNCHANGED <<stored, lock>>

LockForEvent(r) ==
    /\ txn[r].pc = "idle"
    /\ draft.revision # 0
    /\ lock = NoRequest
    /\ lock' = r
    /\ Go(r, [txn[r] EXCEPT !.pc = "written", !.op = "event", !.revision = draft.revision])
    /\ UNCHANGED stored

-----------------------------------------------------------------------------
(* _append_version, _append_event_in_session and the end of session_scope  *)

\* max(version_number) + 1 and max(event_number) + 1.
NumberRows(r) ==
    /\ txn[r].pc = "written"
    /\ Go(r, [txn[r] EXCEPT !.pc = "numbered", !.version = Len(versions) + 1,
                            !.event = Len(events) + 1])
    /\ UNCHANGED <<stored, lock>>

\* The operation's own name as the source, which the CHECK constraint refuses.
SourceIsOp(op) == op

SourceOf(op) ==
    CASE op = "save" -> "user"
      [] op = "rollback" -> "rollback"
      [] op = "reload" -> "reload_from_jira"
      [] OTHER -> "legacy_json"

NewVersion(r) == [revision |-> txn[r].revision, contents |-> txn[r].contents, by |-> r,
                  source |-> SourceOf(txn[r].op), base |-> txn[r].base]

\* draft.saved, draft.rolled_back or draft.reloaded_from_jira; an import
\* appends no event.
EventsWithDraft(r) ==
    IF txn[r].op = "import" THEN events
    ELSE Append(events, [revision |-> txn[r].revision, kind |-> "draft"])

\* The draft, its version and its event become visible together.
CommitDraft(r) ==
    /\ txn[r].pc = "numbered"
    /\ txn[r].op # "event"
    /\ txn[r].version = Len(versions) + 1
    /\ txn[r].op # "import" => txn[r].event = Len(events) + 1
    /\ draft' = [revision |-> txn[r].revision, contents |-> txn[r].contents, by |-> r]
    /\ versions' = Append(versions, NewVersion(r))
    /\ events' = EventsWithDraft(r)
    /\ lock' = NoRequest
    /\ Answered(r, "saved")

CommitEvent(r) ==
    /\ txn[r].pc = "numbered"
    /\ txn[r].op = "event"
    /\ txn[r].event = Len(events) + 1
    /\ events' = Append(events, [revision |-> txn[r].revision, kind |-> "activity"])
    /\ lock' = NoRequest
    /\ Answered(r, "appended")
    /\ UNCHANGED <<draft, versions>>

\* A rollback that is never reached: the session stays open.
RequestFailsLocked(r) ==
    /\ txn[r].pc \in {"loaded", "inserting", "fetching", "written", "numbered", "clash"}
    /\ Answered(r, "error")
    /\ UNCHANGED <<stored, lock>>

\* The database, the worker or the Jira fetch (timeout, planner failure)
\* fails before the commit: session_scope rolls back.
RequestFails(r) ==
    /\ txn[r].pc \in {"loaded", "inserting", "fetching", "written", "numbered", "clash"}
    /\ Answered(r, "error")
    /\ lock' = IF lock = r THEN NoRequest ELSE lock
    /\ UNCHANGED stored

-----------------------------------------------------------------------------
Begin(r) ==
    \/ LoadForSave(r) \/ LoadForRollback(r) \/ LoadNothing(r)
    \/ SnapshotForReload(r) \/ LockForEvent(r)

Continue(r) ==
    \/ InsertDraft(r) \/ InsertRefused(r) \/ ConflictForScope(r)
    \/ UpdateDraft(r) \/ UpdateMatchedNothing(r) \/ LockForReload(r)
    \/ NumberRows(r) \/ CommitDraft(r) \/ CommitEvent(r)

Next == \E r \in Requests : Begin(r) \/ Continue(r) \/ RequestFails(r)

Spec == Init /\ [][Next]_vars

\* A thread keeps running its request, and the database grants a row lock
\* that is free.  Nothing has to fail for a request to end.
Fairness == \A r \in Requests : WF_vars(Continue(r))
LiveSpec == Spec /\ Fairness

-----------------------------------------------------------------------------
(* Invariants                                                              *)

\* Every variable has its type: rows hold what the columns and the CHECK
\* constraint on scenario_draft_versions.source allow.
TypeOK ==
    /\ draft \in Draft
    /\ versions \in Seq(Version)
    /\ events \in Seq(Event)
    /\ lock \in Requests \union {NoRequest}
    /\ txn \in [Requests -> Txn]

Holding == {"written", "numbered"}

\* A transaction that has written or locked the draft row is the only one.
OneWriter == \A r \in Requests : txn[r].pc \in Holding <=> lock = r

\* The draft row is the last version: revision n has one snapshot, version n,
\* and no commit changes one without the other.
DraftIsLastVersion ==
    /\ draft.revision = Len(versions)
    /\ \A n \in 1 .. Len(versions) : versions[n].revision = n
    /\ versions # <<>> => /\ draft.contents = versions[Len(versions)].contents
                          /\ draft.by = versions[Len(versions)].by

\* No lost update: whoever wrote version n had been editing revision n - 1,
\* so no stored change was overwritten unseen (optimistic concurrency of save,
\* rollback and reload, however long the Jira fetch took).
NoLostUpdate ==
    \A n \in 2 .. Len(versions) : versions[n].base = n - 1

\* The event feed follows the history: events are numbered in the order of
\* the revisions they report, so a reader that goes by event_number never
\* sees the draft go back.
EventsFollowRevisions ==
    \A i, j \in 1 .. Len(events) : i < j => events[i].revision <= events[j].revision

\* Every version but an imported one is announced by an event of its revision
\* that became visible with it.
EveryVersionAnnounced ==
    \A n \in 1 .. Len(versions) :
        versions[n].source # "legacy_json" =>
            \E i \in 1 .. Len(events) : events[i].kind = "draft" /\ events[i].revision = n

\* The three rows that a commit writes agree in every state a client can read:
\* the draft is the last version, and each version but an imported one was
\* announced by an event, in the order of the revisions.
HistoryConsistent == DraftIsLastVersion /\ EventsFollowRevisions /\ EveryVersionAnnounced

\* max() + 1 never collides: the row lock covers the read of the numbers and
\* the insert, so the IntegrityError handlers of the update and event paths
\* are never needed.
NumbersAreFree ==
    \A r \in Requests : txn[r].pc = "numbered" =>
        /\ txn[r].op # "event" => txn[r].version = Len(versions) + 1
        /\ txn[r].event = Len(events) + 1

\* What a session holds at each point of its request: the part of the
\* inductive invariant that ties the sessions to the stored rows.
SessionConsistent ==
    \A r \in Requests :
        /\ txn[r].pc = "idle" => txn[r] = IdleTxn(r)
        /\ txn[r].pc = "loaded" => /\ txn[r].op \in {"save", "rollback"}
                                  /\ txn[r].revision = txn[r].base
        /\ txn[r].pc = "inserting" => txn[r].op \in {"save", "import"} /\ txn[r].base = 0
        /\ txn[r].pc = "fetching" => txn[r].op = "reload"
        /\ txn[r].pc \in Holding =>
             IF txn[r].op = "event" THEN txn[r].revision = draft.revision
             ELSE /\ txn[r].base = draft.revision
                  /\ txn[r].revision = draft.revision + 1
        /\ txn[r].pc # "done" => txn[r].result = "none"

EventsBounded == \A i \in 1 .. Len(events) : events[i].revision <= draft.revision

\* Inductive: OneWriter makes the numbering and the commit of one request a
\* critical section, SessionConsistent says the base it compared still holds.
IInv ==
    /\ TypeOK
    /\ OneWriter
    /\ SessionConsistent
    /\ DraftIsLastVersion
    /\ NoLostUpdate
    /\ EventsBounded
    /\ EventsFollowRevisions
    /\ EveryVersionAnnounced
    /\ NumbersAreFree

\* Every call of the service ends, whoever holds or wants the row lock.
RequestsEnd == \A r \in Requests : txn[r].pc # "idle" ~> txn[r].pc = "done"

-----------------------------------------------------------------------------
(* The service implements DraftHistory.                                    *)

writes == [n \in 1 .. Len(versions) |-> [by |-> versions[n].by, base |-> versions[n].base]]
answers == [r \in Requests |-> txn[r].result]

History == INSTANCE DraftHistory WITH
    Outcomes <- Result, history <- writes, outcome <- answers

\* Each step of the transactions is a step of DraftHistory or changes nothing
\* a client can see (property of the runs and of the refinement theorem).
ImplementsHistory == History!Init /\ [][History!Next]_<<writes, answers>>
=============================================================================
