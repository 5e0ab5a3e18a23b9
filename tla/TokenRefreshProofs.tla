------------------------- MODULE TokenRefreshProofs -------------------------
(***************************************************************************)
(* What holds of TokenRefresh for every set of threads and every bound.    *)
(* IInv is inductive: the row lock makes the read of the refresh token, the *)
(* post to Atlassian and the commit one critical section, so a rotation can *)
(* only be missed by the database when it is lost between the two.         *)
(***************************************************************************)
EXTENDS TokenRefresh, TLAPS

USE ThreadsAssumption, MaxIssuedAssumption

\* The initial state: no connection, no tokens.
LEMMA InitIInv == Init => IInv
<1> SUFFICES ASSUME Init PROVE IInv
  OBVIOUS
<1>1. TypeOK
  BY DEF Init, TypeOK, IdleTxn, Txn, Phase, Answer, Cause, Threads
<1>2. QED
  BY <1>1 DEF Init, IInv, ConnectionStored, LockDiscipline, UnstoredTokens, StoredTokenGood,
         ExpiryMatchesAccess, ReuseOnlyAfterLoss, IdleTxn, Threads

\* Types are preserved by every step.
LEMMA TypeStep == TypeOK /\ [Next]_vars => TypeOK'
<1> SUFFICES ASSUME TypeOK, [Next]_vars PROVE TypeOK'
  OBVIOUS
<1> USE DEF TypeOK, Threads, Go, dbVars, providerVars
<1>1. ASSUME NEW r \in Requests, RequestNext(r) PROVE TypeOK'
  <2> DEFINE x == txn[r]
  <2>0. x \in Txn /\ IdleTxn \in Txn
    BY DEF Txn, IdleTxn, Phase, Answer, Cause
  <2>1. CASE LoadConnection(r)
    BY <2>1 DEF LoadConnection, Txn, IdleTxn, Phase, Answer, Cause
  <2>2. CASE ServeStored(r)
    BY <2>0, <2>2 DEF ServeStored
  <2>3. CASE NeedRefresh(r)
    BY <2>3 DEF NeedRefresh, Txn, Phase
  <2>4. CASE LockConnection(r)
    <3>1. [x EXCEPT !.pc = "locked", !.presented = refresh] \in Txn
      BY <2>0 DEF Txn, Phase
    <3>2. QED BY <2>0, <2>4, <3>1 DEF LockConnection
  <2>5. CASE RefreshRefused(r)
    <3>1. \A cause \in Cause : [x EXCEPT !.pc = "raising", !.cause = cause] \in Txn
      BY <2>0 DEF Txn, Phase
    <3>2. QED BY <2>0, <2>5, <3>1 DEF RefreshRefused, Raise, Cause
  <2>6. CASE RefreshGranted(r)
    <3>1. PICK answer \in {"access_only", "rotated"} :
            /\ txn' = [txn EXCEPT ![r] = [x EXCEPT !.pc = "replied", !.new = issued + 1,
                                                  !.answer = answer]]
            /\ live' = IF answer = "rotated" THEN (live \ {x.presented}) \union {issued + 1} ELSE live
      BY <2>6 DEF RefreshGranted
    <3>2. [x EXCEPT !.pc = "replied", !.new = issued + 1, !.answer = answer] \in Txn
      <4>1. \A n \in Nat : [x EXCEPT !.pc = "replied", !.new = n, !.answer = answer] \in Txn
        BY <2>0, <3>1 DEF Txn, Phase, Answer
      <4>2. issued + 1 \in Nat
        OBVIOUS
      <4>3. QED BY <4>1, <4>2
    <3>3. txn' \in [Threads -> Txn]
      BY <3>1, <3>2
    <3>4. issued' = issued + 1 /\ UNCHANGED <<dbVars, lock, expired, lost>>
      BY <2>6 DEF RefreshGranted
    <3>5. live' \subseteq 1..issued'
      BY <3>1, <3>4
    <3>6. QED BY <3>3, <3>4, <3>5
  <2>7. CASE RefreshFails(r)
    <3>1. [x EXCEPT !.pc = "raising", !.cause = "error"] \in Txn
      BY <2>0 DEF Txn, Phase, Answer, Cause
    <3>2. QED BY <2>0, <2>7, <3>1 DEF RefreshFails, Raise
  <2>8. CASE CommitRefresh(r)
    <3>1. x.new \in Nat /\ x.version \in Nat
      BY <2>0 DEF Txn
    <3>2. conn' = [conn EXCEPT !.version = x.version + 1, !.expires = x.new]
      BY <2>8 DEF CommitRefresh, LockedRow
    <3>3. conn' \in [status: {"absent", "active", "revoked"}, version: Nat, expires: Nat]
      <4>1. \A m, n \in Nat : [conn EXCEPT !.version = m, !.expires = n] \in
                 [status: {"absent", "active", "revoked"}, version: Nat, expires: Nat]
        OBVIOUS
      <4>2. x.version + 1 \in Nat
        BY <3>1
      <4>3. QED BY <3>1, <3>2, <4>1, <4>2
    <3>4. refresh' \in Nat /\ access' \in Nat
      BY <2>8, <3>1 DEF CommitRefresh
    <3>5. txn' \in [Threads -> Txn] /\ lock' \in Threads \union {NoThread}
      BY <2>0, <2>8 DEF CommitRefresh
    <3>6. UNCHANGED <<providerVars, expired, lost>>
      BY <2>8 DEF CommitRefresh
    <3>7. QED BY <3>3, <3>4, <3>5, <3>6
  <2>9. CASE Rollback(r)
    BY <2>0, <2>9 DEF Rollback
  <2>10. QED
    BY <1>1, <2>1, <2>2, <2>3, <2>4, <2>5, <2>6, <2>7, <2>8, <2>9 DEF RequestNext
<1>2. ASSUME NEW c \in Callbacks, CallbackNext(c) PROVE TypeOK'
  <2> DEFINE x == txn[c]
  <2>0. x \in Txn /\ IdleTxn \in Txn
    BY DEF Txn, IdleTxn, Phase, Answer, Cause
  <2>1. CASE ExchangeCode(c)
    <3>1. [IdleTxn EXCEPT !.pc = "granted", !.new = issued + 1] \in Txn
      <4>1. \A n \in Nat : [IdleTxn EXCEPT !.pc = "granted", !.new = n] \in Txn
        BY DEF Txn, IdleTxn, Phase, Answer, Cause
      <4>2. issued + 1 \in Nat
        OBVIOUS
      <4>3. QED BY <4>1, <4>2
    <3>2. txn' \in [Threads -> Txn]
      BY <2>1, <3>1 DEF ExchangeCode
    <3>3. live' \subseteq 1..issued'
      BY <2>1 DEF ExchangeCode
    <3>4. QED BY <2>1, <3>2, <3>3 DEF ExchangeCode
  <2>2. CASE ReadConnection(c)
    <3>1. [x EXCEPT !.pc = "read", !.version = conn.version] \in Txn
      BY <2>0 DEF Txn, Phase
    <3>2. QED BY <2>0, <2>2, <3>1 DEF ReadConnection
  <2>3. CASE WriteConnection(c)
    <3>1. [x EXCEPT !.pc = "written"] \in Txn
      BY <2>0 DEF Txn, Phase
    <3>2. QED BY <2>0, <2>3, <3>1 DEF WriteConnection
  <2>4. CASE CommitCallback(c)
    <3>1. x.new \in Nat /\ x.version \in Nat
      BY <2>0 DEF Txn
    <3>2. QED BY <2>0, <2>4, <3>1 DEF CommitCallback
  <2>5. CASE CallbackFails(c)
    BY <2>0, <2>5 DEF CallbackFails
  <2>6. QED BY <1>2, <2>1, <2>2, <2>3, <2>4, <2>5 DEF CallbackNext
<1>3. CASE TokensExpire BY <1>3 DEF TokensExpire
<1>4. CASE UNCHANGED vars BY <1>4 DEF vars
<1>5. QED BY <1>1, <1>2, <1>3, <1>4 DEF Next

-----------------------------------------------------------------------------
(* The invariant, one action at a time.                                    *)

\* A step of a request preserves everything but the types.
LEMMA RequestStep ==
  ASSUME IInv, TypeOK', NEW r \in Requests, RequestNext(r)
  PROVE  IInv'
<1> DEFINE x == txn[r]
<1> USE DEF IInv, Threads, dbVars, providerVars, Go
<1>0. x \in Txn /\ txn \in [Threads -> Txn] /\ r \in Threads /\ r \notin Callbacks
  BY DEF TypeOK
<1>1. CASE LoadConnection(r)
  BY <1>0, <1>1 DEF LoadConnection, IdleTxn, ConnectionStored, LockDiscipline, UnstoredTokens,
     StoredTokenGood, ExpiryMatchesAccess, ReuseOnlyAfterLoss, Txn, TypeOK
<1>2. CASE ServeStored(r)
  BY <1>0, <1>2 DEF ServeStored, IdleTxn, ConnectionStored, LockDiscipline, UnstoredTokens,
     StoredTokenGood, ExpiryMatchesAccess, ReuseOnlyAfterLoss, Txn, TypeOK
<1>3. CASE NeedRefresh(r)
  BY <1>0, <1>3 DEF NeedRefresh, ConnectionStored, LockDiscipline, UnstoredTokens,
     StoredTokenGood, ExpiryMatchesAccess, ReuseOnlyAfterLoss, Txn
<1>4. CASE LockConnection(r)
  BY <1>0, <1>4 DEF LockConnection, IdleTxn, ConnectionStored, LockDiscipline, UnstoredTokens,
     StoredTokenGood, ExpiryMatchesAccess, ReuseOnlyAfterLoss, Txn, TypeOK
<1>5. CASE RefreshRefused(r)
  BY <1>0, <1>5 DEF RefreshRefused, Raise, ConnectionStored, LockDiscipline, UnstoredTokens,
     StoredTokenGood, ExpiryMatchesAccess, ReuseOnlyAfterLoss, Txn
<1>6. CASE RefreshGranted(r)
  BY <1>0, <1>6 DEF RefreshGranted, ConnectionStored, LockDiscipline, UnstoredTokens,
     StoredTokenGood, ExpiryMatchesAccess, ReuseOnlyAfterLoss, Txn, TypeOK
<1>7. CASE RefreshFails(r)
  BY <1>0, <1>7 DEF RefreshFails, Raise, ConnectionStored, LockDiscipline, UnstoredTokens,
     StoredTokenGood, ExpiryMatchesAccess, ReuseOnlyAfterLoss, Txn
<1>8. CASE CommitRefresh(r)
  BY <1>0, <1>8 DEF CommitRefresh, LockedRow, IdleTxn, ConnectionStored, LockDiscipline, UnstoredTokens,
     StoredTokenGood, ExpiryMatchesAccess, ReuseOnlyAfterLoss, Txn, TypeOK
<1>9. CASE Rollback(r)
  BY <1>0, <1>9 DEF Rollback, IdleTxn, ConnectionStored, LockDiscipline, UnstoredTokens,
     StoredTokenGood, ExpiryMatchesAccess, ReuseOnlyAfterLoss, Txn, TypeOK
<1>10. QED
  BY <1>1, <1>2, <1>3, <1>4, <1>5, <1>6, <1>7, <1>8, <1>9 DEF RequestNext

\* A step of a callback preserves everything but the types.
LEMMA CallbackStep ==
  ASSUME IInv, TypeOK', NEW c \in Callbacks, CallbackNext(c)
  PROVE  IInv'
<1> DEFINE x == txn[c]
<1> USE DEF IInv, Threads, dbVars, providerVars, Go
<1>0. x \in Txn /\ txn \in [Threads -> Txn] /\ c \in Threads /\ c \notin Requests
  BY DEF TypeOK
<1>1. CASE ExchangeCode(c)
  BY <1>0, <1>1 DEF ExchangeCode, IdleTxn, ConnectionStored, LockDiscipline, UnstoredTokens,
     StoredTokenGood, ExpiryMatchesAccess, ReuseOnlyAfterLoss, Txn, TypeOK
<1>2. CASE ReadConnection(c)
  BY <1>0, <1>2 DEF ReadConnection, ConnectionStored, LockDiscipline, UnstoredTokens,
     StoredTokenGood, ExpiryMatchesAccess, ReuseOnlyAfterLoss, Txn, TypeOK
<1>3. CASE WriteConnection(c)
  BY <1>0, <1>3 DEF WriteConnection, ConnectionStored, LockDiscipline, UnstoredTokens,
     StoredTokenGood, ExpiryMatchesAccess, ReuseOnlyAfterLoss, Txn, TypeOK
<1>4. CASE CommitCallback(c)
  BY <1>0, <1>4 DEF CommitCallback, IdleTxn, ConnectionStored, LockDiscipline, UnstoredTokens,
     StoredTokenGood, ExpiryMatchesAccess, ReuseOnlyAfterLoss, Txn, TypeOK
<1>5. CASE CallbackFails(c)
  BY <1>0, <1>5 DEF CallbackFails, IdleTxn, ConnectionStored, LockDiscipline, UnstoredTokens,
     StoredTokenGood, ExpiryMatchesAccess, ReuseOnlyAfterLoss, Txn, TypeOK
<1>6. QED
  BY <1>1, <1>2, <1>3, <1>4, <1>5 DEF CallbackNext

\* The invariant is inductive.
LEMMA NextIInv == IInv /\ [Next]_vars => IInv'
<1> SUFFICES ASSUME IInv, [Next]_vars PROVE IInv'
  OBVIOUS
<1>1. TypeOK'
  BY TypeStep DEF IInv
<1>2. CASE \E r \in Requests : RequestNext(r)
  BY <1>1, <1>2, RequestStep
<1>3. CASE \E c \in Callbacks : CallbackNext(c)
  BY <1>1, <1>3, CallbackStep
<1>4. CASE TokensExpire
  BY <1>1, <1>4 DEF TokensExpire, dbVars, providerVars, IInv, ConnectionStored,
     LockDiscipline, UnstoredTokens, StoredTokenGood, ExpiryMatchesAccess, ReuseOnlyAfterLoss
<1>5. CASE UNCHANGED vars
  BY <1>1, <1>5 DEF vars, dbVars, providerVars, IInv, ConnectionStored,
     LockDiscipline, UnstoredTokens, StoredTokenGood, ExpiryMatchesAccess, ReuseOnlyAfterLoss
<1>6. QED
  BY <1>2, <1>3, <1>4, <1>5 DEF Next

\* Every reachable state satisfies the inductive invariant.
THEOREM Invariance == Spec => []IInv
  BY InitIInv, NextIInv, PTL DEF Spec

\* Type correctness of the connection, the token rows and the sessions.
THEOREM TypeCorrect == Spec => []TypeOK
<1>1. IInv => TypeOK
  BY DEF IInv
<1>2. QED
  BY <1>1, Invariance, PTL

\* However requests and callbacks overlap, the expiry on the connection row is
\* that of the access token in the token row (ExpiryMatchesAccess), and a
\* request is told that its refresh token was reused only when Atlassian's
\* rotation had been lost before (ReuseOnlyAfterLoss).
THEOREM TokenSafety == Spec => [](ExpiryMatchesAccess /\ ReuseOnlyAfterLoss)
<1>1. IInv => ExpiryMatchesAccess /\ ReuseOnlyAfterLoss
  BY DEF IInv
<1>2. QED
  BY <1>1, Invariance, PTL

\* A refresh replaces exactly the rows it presented (NoStaleOverwrite).
THEOREM NoStaleOverwriteHolds == Spec => NoStaleOverwrite
<1>1. IInv => \A r \in Requests : CommitRefresh(r) => refresh = txn[r].presented
  BY DEF IInv, LockDiscipline, CommitRefresh, Threads
<1>2. QED
  BY <1>1, Invariance, PTL DEF NoStaleOverwrite
=============================================================================
