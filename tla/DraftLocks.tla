----------------------------- MODULE DraftLocks -----------------------------
(***************************************************************************)
(* The advisory lock of one issue of a scenario draft: acquire_lock and    *)
(* release_lock of backend/scenario_drafts.py, called by the lock route    *)
(* when a user starts, continues or ends a drag, and the reload and        *)
(* rollback of the draft.  Each request reads the lock row without locking *)
(* it and writes afterwards, in one transaction that commits at the write; *)
(* a user's requests are sent without waiting for each other.              *)
(*                                                                         *)
(* Time is a counter.  The insert of the row is protected by the unique    *)
(* constraint, the ORM's UPDATE and DELETE only by the row's primary key.  *)
(***************************************************************************)
EXTENDS Naturals

CONSTANTS Users, Requests,
          Ttl,            \* ISSUE_LOCK_TTL_SECONDS, in ticks
          MaxClock,       \* bound on time
          MaxResets       \* bound on rollbacks and reloads of the draft

ASSUME TtlAssumption == Ttl \in Nat \ {0}

VARIABLES locks,     \* rows of scenario_draft_locks for the issue
          clock,     \* the time
          txn,       \* what each request has read, and its answer
          granted,   \* expiry of the lock each user was last granted, 0: none
          replaced,  \* history: some request took over another user's lock
          resets     \* rollbacks and reloads so far

vars == <<locks, clock, txn, granted, replaced, resets>>

\* The request that inserted a row stands for its primary key.
Lock == [id: Requests, holder: Users, expires: Nat]

Phase == {"idle", "acquiring", "taking", "releasing", "deleting", "done"}
Result == {"none", "held", "refused", "released", "not_held", "error"}
Txn == [pc: Phase, user: Users, now: Nat, tries: 0 .. 2, seen: SUBSET Lock, result: Result]

IdleTxns == {[pc |-> "idle", user |-> u, now |-> 0, tries |-> 2, seen |-> {},
              result |-> "none"] : u \in Users}

\* Each request belongs to some user.
Init ==
    /\ locks = {}
    /\ clock = 1
    /\ txn \in [Requests -> IdleTxns]
    /\ granted = [u \in Users |-> 0]
    /\ replaced = FALSE
    /\ resets = 0

Go(r, record) == txn' = [txn EXCEPT ![r] = record]
Answered(r, result) == Go(r, [txn[r] EXCEPT !.pc = "done", !.result = result])

\* _lock_is_active, for a lock somebody else holds.
HeldByOther(lock, user, now) == lock.holder # user /\ lock.expires > now

-----------------------------------------------------------------------------
(* acquire_lock                                                            *)

\* now is read once, for both attempts.
StartAcquire(r) ==
    /\ txn[r].pc = "idle"
    /\ Go(r, [txn[r] EXCEPT !.pc = "acquiring", !.now = clock])
    /\ UNCHANGED <<locks, clock, granted, replaced, resets>>

ReadForAcquire(r) ==
    /\ txn[r].pc = "acquiring"
    /\ IF \E lock \in locks : HeldByOther(lock, txn[r].user, txn[r].now)
         THEN Answered(r, "refused")
         ELSE Go(r, [txn[r] EXCEPT !.pc = "taking", !.seen = locks])
    /\ UNCHANGED <<locks, clock, granted, replaced, resets>>

\* The answer promises the lock until now + TTL.
Grant(r) ==
    /\ granted' = [granted EXCEPT ![txn[r].user] = txn[r].now + Ttl]
    /\ Answered(r, "held")

\* Without uq_scenario_draft_locks_resource.
UniqueIgnored == TRUE

NoRowYet == locks = {}

InsertLock(r) ==
    /\ txn[r].pc = "taking"
    /\ txn[r].seen = {}
    /\ NoRowYet
    /\ locks' = locks \union
         {[id |-> r, holder |-> txn[r].user, expires |-> txn[r].now + Ttl]}
    /\ Grant(r)
    /\ UNCHANGED <<clock, replaced, resets>>

\* The unique constraint refuses a second row: one more attempt.
InsertClashes(r) ==
    /\ txn[r].pc = "taking"
    /\ txn[r].seen = {}
    /\ ~NoRowYet
    /\ IF txn[r].tries > 1
         THEN Go(r, [txn[r] EXCEPT !.pc = "acquiring", !.tries = @ - 1])
         ELSE Answered(r, "error")
    /\ UNCHANGED <<locks, clock, granted, replaced, resets>>

\* The UPDATE taken for an upsert: a row that is gone is stored again.
RowToUpdateOrMake(seen) == {seen}

\* UPDATE ... WHERE id: the row that was read, whoever holds it by now.
RowToUpdate(seen) == {lock \in locks : lock.id = seen.id}

\* The ORM sets only what changed in the object it read: the holder is left
\* alone when it read its own user there.
UpdateLock(r) ==
    /\ txn[r].pc = "taking"
    /\ \E seen \in txn[r].seen : \E lock \in RowToUpdate(seen) :
         LET holder == IF seen.holder = txn[r].user THEN lock.holder ELSE txn[r].user
         IN  /\ locks' = {[lock EXCEPT !.holder = holder, !.expires = txn[r].now + Ttl]}
             /\ replaced' = (replaced \/ seen.holder # txn[r].user)
    /\ Grant(r)
    /\ UNCHANGED <<clock, resets>>

\* StaleDataError, which nothing catches: the row was deleted meanwhile.
UpdateFindsNothing(r) ==
    /\ txn[r].pc = "taking"
    /\ txn[r].seen # {}
    /\ \A seen \in txn[r].seen : RowToUpdate(seen) = {}
    /\ Answered(r, "error")
    /\ UNCHANGED <<locks, clock, granted, replaced, resets>>

-----------------------------------------------------------------------------
(* release_lock                                                            *)

StartRelease(r) ==
    /\ txn[r].pc = "idle"
    /\ Go(r, [txn[r] EXCEPT !.pc = "releasing"])
    /\ UNCHANGED <<locks, clock, granted, replaced, resets>>

\* Another user's active lock is a conflict, an expired one is left alone.
ReadForRelease(r) ==
    /\ txn[r].pc = "releasing"
    /\ \/ /\ \E lock \in locks : lock.holder = txn[r].user
          /\ Go(r, [txn[r] EXCEPT !.pc = "deleting", !.seen = locks])
       \/ /\ \E lock \in locks : HeldByOther(lock, txn[r].user, clock)
          /\ Answered(r, "refused")
       \/ /\ \A lock \in locks : lock.holder # txn[r].user /\ lock.expires <= clock
          /\ Answered(r, "not_held")
    /\ UNCHANGED <<locks, clock, granted, replaced, resets>>

\* DELETE ... WHERE id; a row that is gone is only a warning.
DeleteLock(r) ==
    /\ txn[r].pc = "deleting"
    /\ locks' = {lock \in locks : \A seen \in txn[r].seen : lock.id # seen.id}
    /\ granted' = [granted EXCEPT ![txn[r].user] = 0]
    /\ Answered(r, "released")
    /\ UNCHANGED <<clock, replaced, resets>>

-----------------------------------------------------------------------------
(* The draft and time                                                      *)

\* The DELETE of the draft's locks in reload_from_jira's transaction.
ReloadFromJira ==
    /\ resets < MaxResets
    /\ resets' = resets + 1
    /\ locks' = {}
    /\ granted' = [u \in Users |-> 0]
    /\ UNCHANGED <<clock, txn, replaced>>

\* rollback_to_version has no statement about locks.
RollbackToVersion ==
    /\ resets < MaxResets
    /\ resets' = resets + 1
    /\ UNCHANGED <<locks, clock, txn, granted, replaced>>

Tick ==
    /\ clock < MaxClock
    /\ clock' = clock + 1
    /\ UNCHANGED <<locks, txn, granted, replaced, resets>>

Acquire(r) ==
    \/ StartAcquire(r) \/ ReadForAcquire(r) \/ InsertLock(r) \/ InsertClashes(r)
    \/ UpdateLock(r) \/ UpdateFindsNothing(r)
Release(r) == StartRelease(r) \/ ReadForRelease(r) \/ DeleteLock(r)

Next ==
    \/ \E r \in Requests : Acquire(r) \/ Release(r)
    \/ ReloadFromJira \/ RollbackToVersion \/ Tick

Spec == Init /\ [][Next]_vars

-----------------------------------------------------------------------------
(* Properties                                                              *)

\* Every variable has its type, and the issue has at most one row.
TypeOK ==
    /\ locks \subseteq Lock /\ \A l, m \in locks : l = m
    /\ clock \in Nat
    /\ txn \in [Requests -> Txn]
    /\ granted \in [Users -> Nat]
    /\ replaced \in BOOLEAN
    /\ resets \in Nat

\* Until a lock left to expire is taken over, every user who was granted the
\* lock and has not released it owns the row, to the promised time: inserts
\* race, refreshes overtake releases and reloads delete the row under them,
\* yet no two users are told at once that they hold the issue.
GrantedIsStored ==
    ~replaced => \A u \in Users :
        granted[u] > clock => \E lock \in locks : lock.holder = u /\ lock.expires = granted[u]

\* A row's key is that of a request that is over; a session's copy of a row
\* that is still there agrees on its holder, unless somebody took it over; a
\* release deletes what its own user held.
CopiesAgree ==
    /\ \A lock \in locks : txn[lock.id].pc = "done"
    /\ \A r \in Requests : \A seen \in txn[r].seen :
         /\ txn[seen.id].pc = "done"
         /\ txn[r].pc = "deleting" => seen.holder = txn[r].user
         /\ ~replaced => \A lock \in locks : lock.id = seen.id => lock.holder = seen.holder

\* Inductive: GrantedIsStored needs to know that the row a session updates or
\* deletes by its key still has the holder the session read.
IInv == TypeOK /\ CopiesAgree /\ GrantedIsStored
=============================================================================
