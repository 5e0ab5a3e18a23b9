---------------------------- MODULE TokenRefresh ----------------------------
(***************************************************************************)
(* The database-backed Atlassian OAuth connection of one user, from        *)
(* backend/auth/db_tokens.py as jira_server.py calls it:                   *)
(*                                                                         *)
(*   - request threads read the connection without a lock, and when its    *)
(*     access token has expired lock the row (SELECT ... FOR UPDATE), post *)
(*     the stored refresh token to Atlassian and replace the token rows;   *)
(*   - OAuth callback threads (sign-in, reconnect) exchange a code for a   *)
(*     new grant and upsert the connection;                                *)
(*   - every one of them runs inside session_scope: commit at the end,     *)
(*     rollback on any exception.                                          *)
(*                                                                         *)
(* The database is READ COMMITTED: a statement sees what is committed when *)
(* it runs, and a row written by an open transaction is locked until that  *)
(* transaction ends.  Tokens are numbered by the provider's answers: token *)
(* n stands for the access token and the refresh token of answer n.        *)
(***************************************************************************)
EXTENDS Naturals

CONSTANTS Requests,   \* server threads that need a usable access token
          Callbacks,  \* server threads that handle the OAuth callback
          NoThread,   \* the row lock is free
          MaxIssued   \* bound: answers with tokens that Atlassian gives

Threads == Requests \union Callbacks

ASSUME ThreadsAssumption == /\ NoThread \notin Threads
                            /\ Requests \intersect Callbacks = {}
ASSUME MaxIssuedAssumption == MaxIssued \in Nat

VARIABLES conn,     \* the auth_connections row
          access,   \* token in the access_token row of auth_tokens, 0: no row
          refresh,  \* token in the refresh_token row of auth_tokens, 0: no row
          lock,     \* the thread whose open transaction has locked the row
          txn,      \* what each thread's session holds
          issued,   \* Atlassian: answers given so far
          live,     \* Atlassian: refresh tokens it still accepts
          expired,  \* access tokens 1..expired are past their lifetime
          lost      \* history: a rotation Atlassian made was never committed

dbVars == <<conn, access, refresh>>
providerVars == <<issued, live>>
vars == <<dbVars, lock, txn, providerVars, expired, lost>>

Phase == {"idle", "loaded", "waiting", "locked", "replied", "raising",
          "granted", "read", "written"}
Answer == {"none", "access_only", "rotated"}
Cause == {"none", "error", "missing_refresh_token", "refresh_reuse_detected"}

Txn == [pc: Phase,
        version: Nat,      \* connection.token_version as first loaded
        expires: Nat,      \* connection.expires_at as first loaded
        presented: Nat,    \* refresh token posted to Atlassian
        new: Nat,          \* tokens in Atlassian's answer, 0: none yet
        answer: Answer,    \* whether the answer replaces the refresh token
        cause: Cause]      \* why the transaction is raising

IdleTxn == [pc |-> "idle", version |-> 0, expires |-> 0, presented |-> 0,
            new |-> 0, answer |-> "none", cause |-> "none"]

Go(t, record) == txn' = [txn EXCEPT ![t] = record]

\* The token whose lifetime connection.expires_at records is over.
Expired(token) == token <= expired

Init ==
    /\ conn = [status |-> "absent", version |-> 0, expires |-> 0]
    /\ access = 0
    /\ refresh = 0
    /\ lock = NoThread
    /\ txn = [t \in Threads |-> IdleTxn]
    /\ issued = 0
    /\ live = {}
    /\ expired = 0
    /\ lost = FALSE

-----------------------------------------------------------------------------
(* Request threads: db_oauth_session_data and refresh_db_oauth_token.      *)

\* session.get(AuthConnection): an unlocked read.  A connection that is not
\* active raises before anything changes.
LoadConnection(r) ==
    /\ txn[r].pc = "idle"
    /\ conn.status = "active"
    /\ Go(r, [IdleTxn EXCEPT !.pc = "loaded",
                             !.version = conn.version,
                             !.expires = conn.expires])
    /\ UNCHANGED <<dbVars, lock, providerVars, expired, lost>>

\* The access row is read by a later statement.  Without a row the request
\* fails, with an unexpired token it is served; either way its session ends.
ServeStored(r) ==
    /\ txn[r].pc = "loaded"
    /\ access = 0 \/ ~Expired(txn[r].expires)
    /\ Go(r, IdleTxn)
    /\ UNCHANGED <<dbVars, lock, providerVars, expired, lost>>

NeedRefresh(r) ==
    /\ txn[r].pc = "loaded"
    /\ access # 0 /\ Expired(txn[r].expires)
    /\ Go(r, [txn[r] EXCEPT !.pc = "waiting"])
    /\ UNCHANGED <<dbVars, lock, providerVars, expired, lost>>

\* What the locking SELECT gives the caller.  The row is already in the
\* session's identity map and the statement has no populate_existing, so the
\* object keeps the attributes loaded before the wait.
LockedRow(r) == [version |-> txn[r].version, expires |-> txn[r].expires]

\* Mutant of LockConnection: a plain SELECT, which takes no row lock.
LockConnectionUnlocked(r) ==
    /\ txn[r].pc = "waiting"
    /\ Go(r, [txn[r] EXCEPT !.pc = "locked", !.presented = refresh])
    /\ lock' = r
    /\ UNCHANGED <<dbVars, providerVars, expired, lost>>

\* SELECT ... FOR UPDATE, then the recheck, then the refresh_token row.
LockConnection(r) ==
    /\ txn[r].pc = "waiting"
    /\ lock = NoThread
    /\ LET fresh == access # 0 /\ ~Expired(LockedRow(r).expires)
       IN  /\ lock' = IF fresh THEN NoThread ELSE r
           /\ Go(r, IF fresh THEN IdleTxn
                    ELSE [txn[r] EXCEPT !.pc = "locked", !.presented = refresh])
    /\ UNCHANGED <<dbVars, providerVars, expired, lost>>

Raise(r, cause) == Go(r, [txn[r] EXCEPT !.pc = "raising", !.cause = cause])

\* No refresh row, or Atlassian answers invalid_grant for a token it has
\* already rotated: _revoke_for_refresh_reuse writes the revocation into the
\* session (tokens deleted, status revoked, audit event) and raises.
RefreshRefused(r) ==
    /\ txn[r].pc = "locked"
    /\ txn[r].presented \notin live
    /\ Raise(r, IF txn[r].presented = 0 THEN "missing_refresh_token"
                                        ELSE "refresh_reuse_detected")
    /\ UNCHANGED <<dbVars, lock, providerVars, expired, lost>>

\* Atlassian accepts the refresh token.  An answer may leave out the new
\* refresh token, and then the presented one stays good.
RefreshGranted(r) ==
    /\ txn[r].pc = "locked"
    /\ txn[r].presented \in live
    /\ issued < MaxIssued
    /\ issued' = issued + 1
    /\ \E answer \in {"access_only", "rotated"} :
        /\ Go(r, [txn[r] EXCEPT !.pc = "replied", !.new = issued + 1, !.answer = answer])
        /\ live' = IF answer = "rotated" THEN (live \ {txn[r].presented}) \union {issued + 1}
                 ELSE live
    /\ UNCHANGED <<dbVars, lock, expired, lost>>

\* The post times out or is refused for another reason, or the answer is lost
\* or unusable, or the commit fails: all of them raise.  A rotation that
\* Atlassian has already made is lost.
RefreshFails(r) ==
    /\ txn[r].pc \in {"locked", "replied"}
    /\ Raise(r, "error")
    /\ lost' = (lost \/ txn[r].answer = "rotated")
    /\ UNCHANGED <<dbVars, lock, providerVars, expired>>

\* Mutant of CommitRefresh: the status keeps the value of an earlier expiry.
CommitRefreshExpiredStatus(r) ==
    /\ txn[r].pc = "replied"
    /\ conn' = [conn EXCEPT !.version = LockedRow(r).version + 1, !.status = "expired"]
    /\ access' = txn[r].new
    /\ refresh' = txn[r].new
    /\ lock' = NoThread
    /\ Go(r, IdleTxn)
    /\ UNCHANGED <<providerVars, expired, lost>>

\* The connection update and the replaced rows become visible at the commit.
\* The UPDATE writes the version counted from the loaded one.
CommitRefresh(r) ==
    /\ txn[r].pc = "replied"
    /\ conn' = [conn EXCEPT !.version = LockedRow(r).version + 1,
                            !.expires = txn[r].new]
    /\ access' = txn[r].new
    /\ refresh' = IF txn[r].answer = "rotated" THEN txn[r].new ELSE refresh
    /\ lock' = NoThread
    /\ Go(r, IdleTxn)
    /\ UNCHANGED <<providerVars, expired, lost>>

\* Mutant of Rollback: the session is dropped with its transaction open.
RollbackKeepsLock(r) ==
    /\ txn[r].pc = "raising"
    /\ Go(r, IdleTxn)
    /\ UNCHANGED <<dbVars, lock, providerVars, expired, lost>>

\* session_scope's except branch: everything the transaction wrote is undone,
\* the revocation included, and the row lock is released.
Rollback(r) ==
    /\ txn[r].pc = "raising"
    /\ lock' = NoThread
    /\ Go(r, IdleTxn)
    /\ UNCHANGED <<dbVars, providerVars, expired, lost>>

-----------------------------------------------------------------------------
(* Callback threads: store_oauth_callback_tokens.                          *)

\* The authorization code is exchanged for a new grant.
ExchangeCode(c) ==
    /\ txn[c].pc = "idle"
    /\ issued < MaxIssued
    /\ issued' = issued + 1
    /\ live' = live \union {issued + 1}
    /\ Go(c, [IdleTxn EXCEPT !.pc = "granted", !.new = issued + 1])
    /\ UNCHANGED <<dbVars, lock, expired, lost>>

\* _upsert_connection selects the connection without a lock.
ReadConnection(c) ==
    /\ txn[c].pc = "granted"
    /\ Go(c, [txn[c] EXCEPT !.pc = "read", !.version = conn.version])
    /\ UNCHANGED <<dbVars, lock, providerVars, expired, lost>>

\* The flush runs the UPDATE, or the INSERT when no row was found, which waits
\* for the open transaction that holds the row.  An INSERT that finds the row
\* of another callback violates the unique index: see CallbackFails.
WriteConnection(c) ==
    /\ txn[c].pc = "read"
    /\ lock = NoThread
    /\ txn[c].version = conn.version \/ txn[c].version # 0
    /\ lock' = c
    /\ Go(c, [txn[c] EXCEPT !.pc = "written"])
    /\ UNCHANGED <<dbVars, providerVars, expired, lost>>

CommitCallback(c) ==
    /\ txn[c].pc = "written"
    /\ conn' = [status |-> "active", version |-> txn[c].version + 1, expires |-> txn[c].new]
    /\ access' = txn[c].new
    /\ refresh' = txn[c].new
    /\ lock' = NoThread
    /\ Go(c, IdleTxn)
    /\ UNCHANGED <<providerVars, expired, lost>>

\* An exception anywhere after the exchange: the site is not accessible, the
\* insert conflicts, the database fails.  The new grant is forgotten.
CallbackFails(c) ==
    /\ txn[c].pc \in {"granted", "read", "written"}
    /\ lock' = IF lock = c THEN NoThread ELSE lock
    /\ Go(c, IdleTxn)
    /\ UNCHANGED <<dbVars, providerVars, expired, lost>>

-----------------------------------------------------------------------------
\* Time passes: is_oauth_token_expired becomes true of older tokens.
TokensExpire ==
    /\ \E n \in (expired + 1)..issued : expired' = n
    /\ UNCHANGED <<dbVars, lock, txn, providerVars, lost>>

RequestNext(r) ==
    \/ LoadConnection(r) \/ ServeStored(r) \/ NeedRefresh(r) \/ LockConnection(r)
    \/ RefreshRefused(r) \/ RefreshGranted(r) \/ RefreshFails(r)
    \/ CommitRefresh(r) \/ Rollback(r)

CallbackNext(c) ==
    \/ ExchangeCode(c) \/ ReadConnection(c) \/ WriteConnection(c)
    \/ CommitCallback(c) \/ CallbackFails(c)

Next == \/ \E r \in Requests : RequestNext(r)
        \/ \E c \in Callbacks : CallbackNext(c)
        \/ TokensExpire

Spec == Init /\ [][Next]_vars

\* Threads run, PostgreSQL queues the waiters of a row lock, and the post to
\* Atlassian has a timeout: a started request keeps taking steps and is not
\* overtaken at the lock for ever.  Nothing obliges a thread to start.
RequestEnds(r) ==
    \/ ServeStored(r) \/ NeedRefresh(r) \/ RefreshFails(r) \/ Rollback(r)

Fairness ==
    /\ \A r \in Requests : WF_vars(RequestEnds(r)) /\ SF_vars(LockConnection(r))
    /\ \A c \in Callbacks : WF_vars(CallbackFails(c))

FairSpec == Spec /\ Fairness

-----------------------------------------------------------------------------
\* The types of the variables.
TypeOK ==
    /\ conn \in [status: {"absent", "active", "revoked"}, version: Nat, expires: Nat]
    /\ access \in Nat
    /\ refresh \in Nat
    /\ lock \in Threads \union {NoThread}
    /\ txn \in [Threads -> Txn]
    /\ issued \in Nat
    /\ live \subseteq 1..issued
    /\ expired \in Nat
    /\ lost \in BOOLEAN

\* The expiry kept on the connection is the expiry of the stored access token,
\* although the two live in different tables and are written by refreshes and
\* callbacks that overlap.
ExpiryMatchesAccess == conn.expires = access

\* Exactly the thread whose transaction is past its locking statement holds the
\* row, and what it has read under the lock is still the stored refresh token.
LockDiscipline ==
    \A t \in Threads :
        /\ txn[t].pc \in {"locked", "replied", "raising", "written"} <=> lock = t
        /\ txn[t].pc \in {"locked", "replied"} => txn[t].presented = refresh

\* A connection's first version is 1, and only a stored one has requests.
ConnectionStored ==
    /\ conn.status = "absent" <=> conn.version = 0
    /\ \A r \in Requests : txn[r].pc # "idle" => conn.status # "absent"

\* The tokens of an answer that is not stored yet are still accepted by
\* Atlassian; a new grant's are also unlike those of any other answer.
UnstoredTokens ==
    /\ refresh <= issued
    /\ \A t \in Threads : txn[t].new <= issued
    /\ \A r \in Requests : txn[r].pc = "replied" /\ txn[r].answer = "rotated" => txn[r].new \in live
    /\ \A c \in Callbacks :
         txn[c].new # 0 => /\ txn[c].new \in live
                           /\ txn[c].new # refresh
                           /\ \A t \in Threads \ {c} : txn[t].new # txn[c].new
    /\ \A c \in Callbacks : txn[c].pc \in {"granted", "read", "written"} => txn[c].new # 0

\* The stored refresh token is good, or its rotation is lost or in flight.
StoredTokenGood ==
    \/ refresh = 0 \/ refresh \in live \/ lost
    \/ \E r \in Requests : txn[r].pc = "replied" /\ txn[r].answer = "rotated"

\* Concurrency alone never gets a stored refresh token refused as reused: a
\* request meets refresh_reuse_detected only when an earlier rotation by
\* Atlassian was lost before its commit.
ReuseOnlyAfterLoss ==
    \A r \in Requests :
        txn[r].pc = "raising" /\ txn[r].cause = "refresh_reuse_detected" => lost

\* The inductive invariant behind ExpiryMatchesAccess and ReuseOnlyAfterLoss.
IInv == /\ TypeOK
        /\ ConnectionStored
        /\ LockDiscipline
        /\ UnstoredTokens
        /\ StoredTokenGood
        /\ ExpiryMatchesAccess
        /\ ReuseOnlyAfterLoss

\* A refresh only ever replaces the rows whose refresh token it presented, so
\* an answer that arrives late cannot overwrite newer tokens.
NoStaleOverwrite ==
    [][\A r \in Requests : CommitRefresh(r) => refresh = txn[r].presented]_vars

\* A request that has started ends, whatever the other threads and Atlassian
\* do: no failure path keeps the row lock.
RequestsEnd == \A r \in Requests : txn[r].pc # "idle" ~> txn[r].pc = "idle"

\* The plan's rule for a refused refresh token: the connection is revoked and
\* its tokens are deleted by the time the request has failed.
ReuseRevokesConnection ==
    [][\A r \in Requests :
         /\ txn[r].cause = "refresh_reuse_detected"
         /\ txn'[r].pc = "idle"
         => conn'.status = "revoked" /\ access' = 0 /\ refresh' = 0]_vars
=============================================================================
