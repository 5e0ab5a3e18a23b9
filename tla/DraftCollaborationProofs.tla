---------------------- MODULE DraftCollaborationProofs -----------------------
(***************************************************************************)
(* What the users who work on one draft can rely on: of its advisory locks *)
(* (DraftLocks), for every set of users and requests and every lifetime of *)
(* a lock, of its event feed (DraftEvents), for any page size and number   *)
(* of polls, and of the tab one of them edits it in (DraftEditor), for any *)
(* scopes, any number of versions and however many requests overtake each  *)
(* other.  The three share no variable.                                    *)
(***************************************************************************)
EXTENDS DraftLocks, DraftEvents, DraftEditor, SequenceTheorems, FiniteSetTheorems, TLAPS

-----------------------------------------------------------------------------
(* The locks.                                                              *)

USE TtlAssumption

\* The initial state: no lock, nothing granted.
LEMMA InitIInv == Init => IInv
<1> SUFFICES ASSUME Init PROVE IInv
  OBVIOUS
<1>1. \A x \in IdleTxns : x \in Txn /\ x.seen = {} /\ x.pc = "idle"
  BY DEF IdleTxns, Txn, Phase, Result
<1>2. \A r \in Requests : txn[r] \in IdleTxns
  BY DEF Init
<1>3. txn \in [Requests -> Txn]
  BY <1>1 DEF Init
<1>4. TypeOK
  BY <1>3 DEF Init, TypeOK, Lock
<1>5. CopiesAgree
  BY <1>1, <1>2 DEF Init, CopiesAgree
<1>6. GrantedIsStored
  BY DEF Init, GrantedIsStored
<1>7. QED BY <1>4, <1>5, <1>6 DEF IInv

\* What is common to the steps of one request: which session it changes.
LEMMA SessionTypes ==
  ASSUME TypeOK, NEW r \in Requests
  PROVE  /\ txn \in [Requests -> Txn] /\ txn[r] \in Txn /\ txn[r].user \in Users
         /\ txn[r].now \in Nat /\ txn[r].now + Ttl \in Nat /\ txn[r].seen \subseteq Lock
         /\ clock \in Nat /\ granted \in [Users -> Nat] /\ locks \subseteq Lock
BY DEF TypeOK, Txn

\* A step of a session that is not over and touches no lock: its copy of the
\* rows is empty or what is stored now.
LEMMA ReadStep ==
  ASSUME IInv, NEW r \in Requests, NEW x \in Txn, txn' = [txn EXCEPT ![r] = x],
         txn[r].pc # "done", x.seen \in {txn[r].seen, locks},
         x.user = txn[r].user,
         x.pc = "deleting" => \A l \in x.seen : l.holder = x.user,
         UNCHANGED <<locks, clock, granted, replaced, resets>>
  PROVE  IInv'
<1>1. TypeOK'
  BY DEF IInv, TypeOK
<1>2. CopiesAgree'
  <2>1. \A l \in locks : txn'[l.id].pc = "done"
    BY SessionTypes DEF IInv, CopiesAgree, TypeOK, Lock
  <2>2. ASSUME NEW q \in Requests, NEW s \in txn'[q].seen
        PROVE  /\ txn'[s.id].pc = "done"
               /\ txn'[q].pc = "deleting" => s.holder = txn'[q].user
               /\ ~replaced => \A l \in locks : l.id = s.id => l.holder = s.holder
    <3>1. CASE q # r
      <4>1. txn'[q] = txn[q]
        BY <3>1, SessionTypes DEF IInv
      <4>2. txn[s.id].pc = "done" /\ s.id \in Requests
        BY <2>2, <4>1, SessionTypes DEF IInv, CopiesAgree, Lock
      <4>3. txn'[s.id].pc = "done"
        BY <4>2, SessionTypes DEF IInv
      <4>4. QED BY <2>2, <4>1, <4>3 DEF IInv, CopiesAgree
    <3>2. CASE q = r
      <4>1. txn'[q] = x /\ s \in x.seen
        BY <2>2, <3>2, SessionTypes DEF IInv
      <4>2. s \in txn[r].seen \/ s \in locks
        BY <4>1
      <4>3. txn[s.id].pc = "done" /\ s.id \in Requests
        BY <4>2, SessionTypes DEF IInv, CopiesAgree, Lock
      <4>4. txn'[s.id].pc = "done"
        BY <4>3, SessionTypes DEF IInv
      <4>5. ~replaced => \A l \in locks : l.id = s.id => l.holder = s.holder
        BY <4>2 DEF IInv, CopiesAgree, TypeOK
      <4>6. QED BY <3>2, <4>1, <4>4, <4>5
    <3>3. QED BY <3>1, <3>2
  <2>3. QED BY <2>1, <2>2 DEF CopiesAgree
<1>3. GrantedIsStored'
  BY DEF IInv, GrantedIsStored
<1>4. QED BY <1>1, <1>2, <1>3 DEF IInv

\* The requests that are over stay over.
LEMMA DoneStays ==
  ASSUME IInv, NEW r \in Requests, NEW x, txn' = [txn EXCEPT ![r] = x], x.pc = "done"
  PROVE  /\ \A q \in Requests : txn[q].pc = "done" => txn'[q].pc = "done"
         /\ txn'[r] = x /\ \A q \in Requests : q # r => txn'[q] = txn[q]
BY SessionTypes DEF IInv

\* The inserted row is the only one, and its user the only one granted it.
LEMMA InsertStep ==
  ASSUME IInv, NEW r \in Requests, InsertLock(r)
  PROVE  IInv'
<1> DEFINE new == [id |-> r, holder |-> txn[r].user, expires |-> txn[r].now + Ttl]
           y == [txn[r] EXCEPT !.pc = "done", !.result = "held"]
<1>1. y \in Txn /\ y.pc = "done" /\ y.seen = {}
  BY SessionTypes DEF IInv, InsertLock, Txn, Phase, Result
<1>2. txn' = [txn EXCEPT ![r] = y] /\ UNCHANGED <<clock, replaced, resets>>
  BY DEF InsertLock, Grant, Answered, Go
<1>3. locks = {} /\ locks' = {new}
  BY DEF InsertLock, NoRowYet
<1>4. granted' = [granted EXCEPT ![txn[r].user] = txn[r].now + Ttl]
  BY DEF InsertLock, Grant
<1>5. new \in Lock /\ new.id = r /\ new.holder = txn[r].user /\ new.expires = txn[r].now + Ttl
  BY SessionTypes DEF IInv, Lock
<1> HIDE DEF new, y
<1>6. TypeOK'
  BY <1>1, <1>2, <1>3, <1>4, <1>5, SessionTypes DEF IInv, TypeOK
<1>7. CopiesAgree'
  <2>1. txn'[r] = y /\ \A q \in Requests : q # r => txn'[q] = txn[q]
    BY <1>1, <1>2, DoneStays
  <2>2. \A l \in locks' : txn'[l.id].pc = "done"
    BY <1>1, <1>3, <1>5, <2>1
  <2>3. \A q \in Requests : \A s \in txn'[q].seen : s \in txn[q].seen /\ q # r
    BY <1>1, <2>1
  <2>4. \A q \in Requests : \A s \in txn[q].seen : txn[s.id].pc = "done" /\ s.id \in Requests
    BY SessionTypes DEF IInv, CopiesAgree, Lock, TypeOK, Txn
  <2>5. txn[r].pc = "taking"
    BY DEF InsertLock
  <2>6. QED BY <1>2, <1>3, <1>5, <2>1, <2>2, <2>3, <2>4, <2>5 DEF IInv, CopiesAgree
<1>8. GrantedIsStored'
  BY <1>2, <1>3, <1>4, <1>5, SessionTypes DEF IInv, GrantedIsStored
<1>9. QED BY <1>6, <1>7, <1>8 DEF IInv

\* A refresh keeps the holder; anything else counts as taking over.
LEMMA UpdateStep ==
  ASSUME IInv, NEW r \in Requests, UpdateLock(r)
  PROVE  IInv'
<1> DEFINE y == [txn[r] EXCEPT !.pc = "done", !.result = "held"]
<1>1. y \in Txn /\ y.pc = "done" /\ y.seen = txn[r].seen
  BY SessionTypes DEF IInv, Txn, Phase, Result
<1>2. txn' = [txn EXCEPT ![r] = y] /\ UNCHANGED <<clock, resets>>
  BY DEF UpdateLock, Grant, Answered, Go
<1>3. granted' = [granted EXCEPT ![txn[r].user] = txn[r].now + Ttl]
  BY DEF UpdateLock, Grant
<1>b. PICK seen \in txn[r].seen : \E old \in RowToUpdate(seen) :
        LET holder == IF seen.holder = txn[r].user THEN old.holder ELSE txn[r].user
        IN  /\ locks' = {[old EXCEPT !.holder = holder, !.expires = txn[r].now + Ttl]}
            /\ replaced' = (replaced \/ seen.holder # txn[r].user)
  BY DEF UpdateLock
<1>4. PICK old \in RowToUpdate(seen) :
        LET holder == IF seen.holder = txn[r].user THEN old.holder ELSE txn[r].user
        IN  /\ locks' = {[old EXCEPT !.holder = holder, !.expires = txn[r].now + Ttl]}
            /\ replaced' = (replaced \/ seen.holder # txn[r].user)
  BY <1>b
<1> DEFINE holder == IF seen.holder = txn[r].user THEN old.holder ELSE txn[r].user
           new == [old EXCEPT !.holder = holder, !.expires = txn[r].now + Ttl]
<1>5. locks' = {new} /\ replaced' = (replaced \/ seen.holder # txn[r].user)
  BY <1>4
<1>6. old \in locks /\ old \in Lock /\ \A l \in locks : l = old
  BY SessionTypes DEF IInv, TypeOK, RowToUpdate
<1>a. old.id = seen.id
  BY DEF RowToUpdate
<1>7. holder \in Users
  BY <1>6, SessionTypes DEF IInv, Lock
<1> HIDE DEF holder
<1>8. new \in Lock /\ new.id = old.id /\ new.holder = holder /\ new.expires = txn[r].now + Ttl
  BY <1>6, <1>7, SessionTypes DEF IInv, Lock
<1> HIDE DEF new, y
<1>9. TypeOK'
  BY <1>1, <1>2, <1>3, <1>5, <1>8, SessionTypes DEF IInv, TypeOK
<1>10. ~replaced' => ~replaced /\ holder = txn[r].user /\ old.holder = holder
  <2>1. ~replaced' => ~replaced /\ seen.holder = txn[r].user
    BY <1>5
  <2>2. ~replaced => old.holder = seen.holder
    BY <1>6, <1>a DEF IInv, CopiesAgree
  <2>3. QED BY <2>1, <2>2 DEF holder
<1>11. CopiesAgree'
  <2>1. txn'[r] = y /\ \A q \in Requests : q # r => txn'[q] = txn[q]
    BY <1>1, <1>2, DoneStays
  <2>2. txn[old.id].pc = "done" /\ old.id \in Requests
    BY <1>6 DEF IInv, CopiesAgree, Lock
  <2>3. txn'[new.id].pc = "done"
    BY <1>1, <1>2, <1>8, <2>2, DoneStays
  <2>4. \A q \in Requests : txn'[q].seen = txn[q].seen
    BY <1>1, <2>1
  <2>5. \A q \in Requests : \A s \in txn[q].seen : txn[s.id].pc = "done" /\ s.id \in Requests
    BY SessionTypes DEF IInv, CopiesAgree, Lock, TypeOK, Txn
  <2>6. \A q \in Requests : \A s \in txn[q].seen : txn'[s.id].pc = "done"
    BY <1>1, <1>2, <2>5, DoneStays
  <2>7. \A q \in Requests : \A s \in txn[q].seen :
          txn'[q].pc = "deleting" => s.holder = txn'[q].user
    BY <1>1, <2>1 DEF IInv, CopiesAgree
  <2>8. \A q \in Requests : \A s \in txn[q].seen :
          ~replaced' => (new.id = s.id => new.holder = s.holder)
    BY <1>6, <1>8, <1>10 DEF IInv, CopiesAgree
  <2>9. QED BY <1>5, <2>3, <2>4, <2>6, <2>7, <2>8 DEF CopiesAgree
<1>12. GrantedIsStored'
  BY <1>2, <1>3, <1>5, <1>6, <1>8, <1>10, SessionTypes DEF IInv, GrantedIsStored
<1>13. QED BY <1>9, <1>11, <1>12 DEF IInv

\* A release deletes what its own user held, and the user asked for it.
LEMMA DeleteStep ==
  ASSUME IInv, NEW r \in Requests, DeleteLock(r)
  PROVE  IInv'
<1> DEFINE y == [txn[r] EXCEPT !.pc = "done", !.result = "released"]
<1>1. y \in Txn /\ y.pc = "done" /\ y.seen = txn[r].seen
  BY SessionTypes DEF IInv, Txn, Phase, Result
<1>2. txn' = [txn EXCEPT ![r] = y] /\ UNCHANGED <<clock, replaced, resets>>
  BY DEF DeleteLock, Answered, Go
<1> HIDE DEF y
<1>3. /\ locks' = {lock \in locks : \A seen \in txn[r].seen : lock.id # seen.id}
      /\ granted' = [granted EXCEPT ![txn[r].user] = 0]
      /\ txn[r].pc = "deleting"
  BY DEF DeleteLock
<1>4. TypeOK'
  BY <1>1, <1>2, <1>3, SessionTypes DEF IInv, TypeOK
<1>5. CopiesAgree'
  <2>1. txn'[r] = y /\ \A q \in Requests : q # r => txn'[q] = txn[q]
    BY <1>1, <1>2, DoneStays
  <2>2. /\ \A q \in Requests : \A s \in txn[q].seen : txn[s.id].pc = "done" /\ s.id \in Requests
        /\ \A l \in locks : txn[l.id].pc = "done" /\ l.id \in Requests
    BY SessionTypes DEF IInv, CopiesAgree, Lock, TypeOK, Txn
  <2>3. /\ \A q \in Requests : \A s \in txn[q].seen : txn'[s.id].pc = "done"
        /\ \A l \in locks : txn'[l.id].pc = "done"
    BY <1>1, <1>2, <2>2, DoneStays
  <2>4. \A q \in Requests : txn'[q].seen = txn[q].seen
    BY <1>1, <2>1
  <2>5. \A q \in Requests : txn'[q].pc = "deleting" => txn'[q] = txn[q]
    BY <1>1, <2>1
  <2>6. QED BY <1>2, <1>3, <2>3, <2>4, <2>5 DEF IInv, CopiesAgree
<1>6. GrantedIsStored'
  <2>1. \A l \in locks : ~replaced /\ l \notin locks' => l.holder = txn[r].user
    BY <1>3 DEF IInv, CopiesAgree
  <2>2. QED BY <1>2, <1>3, <2>1, SessionTypes DEF IInv, GrantedIsStored
<1>7. QED BY <1>4, <1>5, <1>6 DEF IInv

\* Any step of a request.
LEMMA RequestStep ==
  ASSUME IInv, NEW r \in Requests, Acquire(r) \/ Release(r)
  PROVE  IInv'
<1>1. txn[r] \in Txn /\ clock \in Nat /\ locks \subseteq Lock
  BY SessionTypes DEF IInv
<1> DEFINE Quiet(x) == /\ txn' = [txn EXCEPT ![r] = x] /\ x \in Txn
                       /\ x.seen \in {txn[r].seen, locks} /\ x.user = txn[r].user
                       /\ x.pc = "deleting" => \A l \in x.seen : l.holder = x.user
                       /\ txn[r].pc # "done"
                       /\ UNCHANGED <<locks, clock, granted, replaced, resets>>
<1> USE DEF Go, Answered, Txn, Phase, Result
<1>2. CASE StartAcquire(r) \/ StartRelease(r)
  <2>1. \/ Quiet([txn[r] EXCEPT !.pc = "acquiring", !.now = clock])
        \/ Quiet([txn[r] EXCEPT !.pc = "releasing"])
    BY <1>1, <1>2 DEF StartAcquire, StartRelease
  <2> HIDE DEF Go, Answered, Txn, Phase, Result
  <2>2. QED BY <2>1, ReadStep
<1>3. CASE ReadForAcquire(r)
  <2>1. \/ Quiet([txn[r] EXCEPT !.pc = "done", !.result = "refused"])
        \/ Quiet([txn[r] EXCEPT !.pc = "taking", !.seen = locks])
    BY <1>1, <1>3 DEF ReadForAcquire
  <2> HIDE DEF Go, Answered, Txn, Phase, Result
  <2>2. QED BY <2>1, ReadStep
<1>4. CASE InsertClashes(r)
  <2>0. txn[r].tries > 1 => txn[r].tries - 1 \in 0 .. 2
    BY <1>1
  <2>1. \/ Quiet([txn[r] EXCEPT !.pc = "acquiring", !.tries = @ - 1])
        \/ Quiet([txn[r] EXCEPT !.pc = "done", !.result = "error"])
    BY <1>1, <1>4, <2>0 DEF InsertClashes
  <2> HIDE DEF Go, Answered, Txn, Phase, Result
  <2>2. QED BY <2>1, ReadStep
<1>5. CASE UpdateFindsNothing(r)
  <2>1. Quiet([txn[r] EXCEPT !.pc = "done", !.result = "error"])
    BY <1>1, <1>5 DEF UpdateFindsNothing
  <2> HIDE DEF Go, Answered, Txn, Phase, Result
  <2>2. QED BY <2>1, ReadStep
<1>6. CASE ReadForRelease(r)
  <2>1. (\E l \in locks : l.holder = txn[r].user) => \A l \in locks : l.holder = txn[r].user
    BY DEF IInv, TypeOK
  <2>2. \/ Quiet([txn[r] EXCEPT !.pc = "deleting", !.seen = locks])
        \/ Quiet([txn[r] EXCEPT !.pc = "done", !.result = "refused"])
        \/ Quiet([txn[r] EXCEPT !.pc = "done", !.result = "not_held"])
    BY <1>1, <1>6, <2>1 DEF ReadForRelease
  <2> HIDE DEF Go, Answered, Txn, Phase, Result
  <2>3. QED BY <2>2, ReadStep
<1> HIDE DEF Go, Answered, Txn, Phase, Result
<1>7. QED
  BY <1>2, <1>3, <1>4, <1>5, <1>6, InsertStep, UpdateStep, DeleteStep DEF Acquire, Release

\* IInv is inductive.
LEMMA NextIInv == IInv /\ [Next]_vars => IInv'
<1> SUFFICES ASSUME IInv, [Next]_vars PROVE IInv'
  OBVIOUS
<1>1. CASE ReloadFromJira
  BY <1>1 DEF ReloadFromJira, IInv, TypeOK, CopiesAgree, GrantedIsStored
<1>2. CASE RollbackToVersion
  BY <1>2 DEF RollbackToVersion, IInv, TypeOK, CopiesAgree, GrantedIsStored
<1>3. CASE Tick
  BY <1>3 DEF Tick, IInv, TypeOK, CopiesAgree, GrantedIsStored
<1>4. CASE UNCHANGED vars
  BY <1>4 DEF vars, IInv, TypeOK, CopiesAgree, GrantedIsStored
<1>5. QED BY <1>1, <1>2, <1>3, <1>4, RequestStep DEF Next

\* Type correctness, at most one row for the issue included (TypeOK).
THEOREM TypeCorrect == Spec => []TypeOK
<1>1. IInv => TypeOK
  BY DEF IInv
<1>2. QED BY <1>1, InitIInv, NextIInv, PTL DEF Spec

\* Until an expired lock is taken over, whoever was granted the lock owns it.
THEOREM GrantsAreStored == Spec => []GrantedIsStored
<1>1. IInv => GrantedIsStored
  BY DEF IInv
<1>2. QED BY <1>1, InitIInv, NextIInv, PTL DEF Spec

-----------------------------------------------------------------------------
(* The feed: the cursor that polling and the stream share skips nothing.   *)

HIDE TtlAssumption

\* Nothing is in flight for an event the cursor has not reached, and an
\* answer is a page of the feed that begins where it was asked for.
PollsBehind ==
    \A i \in DOMAIN polls :
        /\ polls[i].since <= cursor
        /\ polls[i].state = "answered" =>
              polls[i].since <= polls[i].last /\ polls[i].last <= Len(feed)

\* The stream goes on after the cursor, without gaps but for events nobody
\* listens for.
StreamAhead ==
    /\ \A j \in DOMAIN stream : cursor < stream[j] /\ stream[j] <= Len(feed)
    /\ \A j \in DOMAIN stream, n \in 1 .. Len(feed) :
          cursor < n /\ n < stream[j] =>
              feed[n] \notin Heard \/ \E k \in 1 .. j - 1 : stream[k] = n

FeedInv ==
    /\ FeedTypeOK
    /\ cursor <= Len(feed)
    /\ \A n \in 1 .. cursor : feed[n] \in Heard => n \in applied
    /\ \A n \in applied : n <= cursor
    /\ PollsBehind
    /\ StreamAhead

\* What the type invariant says of the parts arithmetic is done on.
LEMMA TypedParts ==
  ASSUME FeedTypeOK
  PROVE  /\ cursor \in Nat /\ Len(feed) \in Nat /\ DOMAIN feed = 1 .. Len(feed)
         /\ Len(polls) \in Nat /\ DOMAIN polls = 1 .. Len(polls)
         /\ Len(stream) \in Nat /\ DOMAIN stream = 1 .. Len(stream)
         /\ \A n \in applied : n \in Nat /\ n <= Len(feed)
         /\ \A j \in DOMAIN stream : stream[j] \in Nat
         /\ \A i \in DOMAIN polls :
               polls[i] \in Poll /\ polls[i].since \in Nat /\ polls[i].last \in Nat
<1>1. /\ cursor \in Nat /\ Len(feed) \in Nat /\ DOMAIN feed = 1 .. Len(feed)
      /\ Len(polls) \in Nat /\ DOMAIN polls = 1 .. Len(polls)
      /\ Len(stream) \in Nat /\ DOMAIN stream = 1 .. Len(stream)
  BY DEF FeedTypeOK
<1>2. \A n \in applied : n \in Nat /\ n <= Len(feed)
  BY <1>1 DEF FeedTypeOK
<1>3. \A j \in DOMAIN stream : stream[j] \in Nat
  BY DEF FeedTypeOK
<1>4. \A i \in DOMAIN polls : polls[i] \in Poll
  BY DEF FeedTypeOK
<1>5. \A q \in Poll : q.since \in Nat /\ q.last \in Nat
  BY DEF Poll
<1> QED
  BY <1>1, <1>2, <1>3, <1>4, <1>5

LEMMA InitFeedInv == FeedInit => FeedInv
<1> SUFFICES ASSUME FeedInit PROVE FeedInv
  OBVIOUS
<1>1. Len(feed) = 0 /\ cursor = 0 /\ DOMAIN polls = {} /\ DOMAIN stream = {} /\ applied = {}
  BY DEF FeedInit
<1>2. feed \in Seq(Types) /\ polls \in Seq(Poll) /\ stream \in Seq(Nat)
  BY DEF FeedInit
<1>3. opened \in BOOLEAN
  BY DEF FeedInit
<1>4. FeedTypeOK
  BY <1>1, <1>2, <1>3 DEF FeedTypeOK
<1> QED
  BY <1>1, <1>4 DEF FeedInv, PollsBehind, StreamAhead

\* A page ends in the feed and, asked for an event of the feed, not before it.
LEMMA PageBounds ==
  ASSUME FeedTypeOK, NEW since \in Nat, since <= Len(feed)
  PROVE  /\ PageEnd(since) \in Nat
         /\ since <= PageEnd(since) /\ PageEnd(since) <= Len(feed)
BY LimitAssumption DEF FeedTypeOK, PageEnd

\* Taking a poll out leaves the others as they were.
LEMMA WithoutOne ==
  ASSUME FeedTypeOK, NEW i \in DOMAIN polls
  PROVE  /\ Without(i) \in Seq(Poll)
         /\ \A j \in DOMAIN Without(i) : \E k \in DOMAIN polls : Without(i)[j] = polls[k]
<1>1. polls \in Seq(Poll) /\ DOMAIN polls = 1 .. Len(polls) /\ Len(polls) \in Nat
  BY DEF FeedTypeOK
<1>2. i \in 1 .. Len(polls) /\ Len(polls) - 1 \in Nat
  BY <1>1
<1>3. \A j \in 1 .. Len(polls) - 1 :
         \E k \in 1 .. Len(polls) : Without(i)[j] = polls[k]
  <2> SUFFICES ASSUME NEW j \in 1 .. Len(polls) - 1
               PROVE  \E k \in 1 .. Len(polls) : Without(i)[j] = polls[k]
    OBVIOUS
  <2>1. Without(i)[j] = IF j < i THEN polls[j] ELSE polls[j + 1]
    BY DEF Without
  <2>2. j \in 1 .. Len(polls) /\ j + 1 \in 1 .. Len(polls)
    BY <1>1
  <2> QED
    BY <2>1, <2>2
<1>4. DOMAIN Without(i) = 1 .. Len(polls) - 1
  BY DEF Without
<1>5. \A j \in 1 .. Len(polls) - 1 : Without(i)[j] \in Poll
  BY <1>1, <1>3, ElementOfSeq
<1>6. Without(i) \in [1 .. Len(polls) - 1 -> Poll]
  BY <1>5 DEF Without
<1>7. Without(i) \in Seq(Poll)
  BY <1>2, <1>6
<1> QED
  BY <1>1, <1>3, <1>4, <1>7

\* Steps that move neither the cursor nor the feed, and only drop polls.
LEMMA DropStep ==
  ASSUME FeedInv, NEW i \in DOMAIN polls, DropPoll(i)
  PROVE  FeedInv'
<1>1. polls' \in Seq(Poll) /\ PollsBehind'
  BY WithoutOne DEF FeedInv, DropPoll, PollsBehind
<1> QED
  BY <1>1 DEF FeedInv, FeedTypeOK, DropPoll, StreamAhead

LEMMA AppendStep ==
  ASSUME FeedInv, NEW type \in Types, AppendEvent(type)
  PROVE  FeedInv'
<1>1. /\ feed' \in Seq(Types) /\ Len(feed') = Len(feed) + 1
      /\ \A n \in 1 .. Len(feed) : feed'[n] = feed[n]
  BY AppendProperties DEF FeedInv, FeedTypeOK, AppendEvent
<1>2. FeedTypeOK' /\ Len(feed) \in Nat
  BY <1>1 DEF FeedInv, FeedTypeOK, AppendEvent
<1>3. PollsBehind'
  BY <1>1, <1>2, TypedParts DEF FeedInv, PollsBehind, AppendEvent
<1>4. StreamAhead'
  <2>1. \A j \in DOMAIN stream : stream[j] \in Nat
    BY DEF FeedInv, FeedTypeOK
  <2>2. \A j \in DOMAIN stream : cursor < stream[j] /\ stream[j] <= Len(feed)
    BY DEF FeedInv, StreamAhead
  <2> QED
    BY <1>1, <1>2, <2>1, <2>2 DEF FeedInv, FeedTypeOK, StreamAhead, AppendEvent
<1> QED
  BY <1>1, <1>2, <1>3, <1>4 DEF FeedInv, FeedTypeOK, AppendEvent

LEMMA SendStep ==
  ASSUME FeedInv, SendPoll
  PROVE  FeedInv'
<1> DEFINE p == [since |-> cursor, state |-> "sent", last |-> 0]
<1>1. p \in Poll
  BY DEF FeedInv, FeedTypeOK, Poll
<1>2. /\ polls' \in Seq(Poll) /\ Len(polls') = Len(polls) + 1
      /\ \A j \in 1 .. Len(polls) : polls'[j] = polls[j]
      /\ polls'[Len(polls) + 1] = p
  BY <1>1, AppendProperties DEF FeedInv, FeedTypeOK, SendPoll
<1>3. PollsBehind'
  <2> SUFFICES ASSUME NEW j \in DOMAIN polls'
               PROVE  /\ polls'[j].since <= cursor
                      /\ polls'[j].state = "answered" =>
                            polls'[j].since <= polls'[j].last /\ polls'[j].last <= Len(feed)
    BY DEF PollsBehind, SendPoll
  <2>1. CASE j \in 1 .. Len(polls)
    BY <2>1, <1>2 DEF FeedInv, FeedTypeOK, PollsBehind
  <2>2. CASE j = Len(polls) + 1
    BY <2>2, <1>2 DEF FeedInv, FeedTypeOK
  <2>3. j \in 1 .. Len(polls) + 1 /\ Len(polls) \in Nat
    BY <1>2 DEF FeedInv, FeedTypeOK
  <2> QED
    BY <2>1, <2>2, <2>3
<1> QED
  BY <1>2, <1>3 DEF FeedInv, FeedTypeOK, SendPoll, StreamAhead

LEMMA AnswerStep ==
  ASSUME FeedInv, NEW i \in DOMAIN polls, AnswerPoll(i)
  PROVE  FeedInv'
<1> DEFINE q == [since |-> polls[i].since, state |-> "answered", last |-> PageEnd(polls[i].since)]
<1>1. polls[i] \in Poll /\ polls[i].since \in Nat /\ polls[i].since <= Len(feed)
      /\ polls[i].since <= cursor
  BY TypedParts DEF FeedInv, PollsBehind
<1>2. q \in Poll /\ q.since <= q.last /\ q.last <= Len(feed)
  BY <1>1, PageBounds DEF FeedInv, Poll
<1>3. polls' = [polls EXCEPT ![i] = q]
  BY DEF AnswerPoll
<1> HIDE DEF q
<1>4. /\ polls' \in Seq(Poll) /\ DOMAIN polls' = DOMAIN polls
      /\ \A j \in DOMAIN polls : polls'[j] = IF j = i THEN q ELSE polls[j]
  BY <1>2, <1>3, ExceptSeq DEF FeedInv, FeedTypeOK
<1>5. PollsBehind'
  BY <1>1, <1>2, <1>4 DEF FeedInv, PollsBehind, AnswerPoll, q
<1> QED
  BY <1>4, <1>5 DEF FeedInv, FeedTypeOK, AnswerPoll, StreamAhead

\* Applying a page and moving to its end.
LEMMA HandleStep ==
  ASSUME FeedInv, NEW i \in DOMAIN polls, HandlePoll(i)
  PROVE  FeedInv'
<1> DEFINE last == polls[i].last
<1>1. /\ polls[i] \in Poll /\ polls[i].since = cursor /\ last \in Nat
      /\ cursor <= last /\ last <= Len(feed) /\ cursor' = last
      /\ applied' = applied \union (cursor + 1 .. last)
  BY TypedParts DEF FeedInv, PollsBehind, HandlePoll, MoveTo, EventsOf
<1>2. polls' \in Seq(Poll) /\ \A j \in DOMAIN polls' : \E k \in DOMAIN polls : polls'[j] = polls[k]
  BY WithoutOne DEF FeedInv, HandlePoll
<1>3. feed' = feed /\ Len(feed) \in Nat /\ cursor \in Nat
  BY DEF FeedInv, FeedTypeOK, HandlePoll
<1>4. stream' \in Seq(Nat) /\ opened' \in BOOLEAN
  <2>1. CASE last = cursor
    BY <2>1 DEF HandlePoll, MoveTo, FeedInv, FeedTypeOK
  <2>2. CASE last # cursor
    <3>1. stream' \in Seq(Nat)
      BY <2>2 DEF HandlePoll, MoveTo
    <3>2. opened' \in BOOLEAN
      BY <2>2 DEF HandlePoll, MoveTo
    <3> QED
      BY <3>1, <3>2
  <2> QED
    BY <2>1, <2>2
<1>5. FeedTypeOK'
  <2>1. applied \subseteq 1 .. Len(feed)
    BY DEF FeedInv, FeedTypeOK
  <2>2. cursor + 1 .. last \subseteq 1 .. Len(feed)
    BY <1>1, <1>3
  <2> QED
    BY <1>1, <1>2, <1>3, <1>4, <2>1, <2>2 DEF FeedInv, FeedTypeOK
<1>6. PollsBehind'
  <2>1. \A k \in DOMAIN polls : polls[k].since \in Nat /\ polls[k].since <= cursor
    BY TypedParts DEF FeedInv, PollsBehind
  <2> QED
    BY <1>1, <1>2, <1>3, <2>1 DEF FeedInv, PollsBehind
<1>7. StreamAhead'
  <2>1. CASE last = cursor
    BY <2>1, <1>1, <1>3 DEF HandlePoll, MoveTo, FeedInv, StreamAhead
  <2>2. CASE last # cursor
    BY <2>2, <1>1 DEF HandlePoll, MoveTo, StreamAhead
  <2> QED
    BY <2>1, <2>2
<1>8. \A n \in 1 .. cursor' : feed'[n] \in Heard => n \in applied'
  BY <1>1, <1>3 DEF FeedInv
<1>9. \A n \in applied' : n <= cursor'
  <2>1. \A n \in applied : n \in Nat /\ n <= cursor
    BY DEF FeedInv, FeedTypeOK
  <2> QED
    BY <1>1, <1>3, <2>1
<1> QED
  BY <1>1, <1>3, <1>5, <1>6, <1>7, <1>8, <1>9 DEF FeedInv

LEMMA OpenStep ==
  ASSUME FeedInv, OpenStream
  PROVE  FeedInv'
<1>1. /\ PageEnd(cursor) \in Nat /\ cursor \in Nat /\ Len(feed) \in Nat
      /\ cursor <= PageEnd(cursor) /\ PageEnd(cursor) <= Len(feed)
  BY PageBounds DEF FeedInv, FeedTypeOK
<1> DEFINE size == PageEnd(cursor) - cursor
<1>2. size \in Nat
  BY <1>1
<1>3. /\ stream' \in [1 .. size -> Nat] /\ DOMAIN stream' = 1 .. size
      /\ \A j \in 1 .. size : stream'[j] = cursor + j
  BY <1>1, <1>2 DEF OpenStream
<1>4. stream' \in Seq(Nat)
  BY <1>2, <1>3
<1>5. FeedTypeOK'
  BY <1>4 DEF FeedInv, FeedTypeOK, OpenStream
<1>6. StreamAhead'
  <2>1. \A j \in 1 .. size : cursor < stream'[j] /\ stream'[j] <= Len(feed)
    BY <1>1, <1>3
  <2>2. \A j \in 1 .. size, n \in 1 .. Len(feed) :
           cursor < n /\ n < stream'[j] => \E k \in 1 .. j - 1 : stream'[k] = n
    <3> SUFFICES ASSUME NEW j \in 1 .. size, NEW n \in 1 .. Len(feed), cursor < n, n < stream'[j]
                 PROVE  \E k \in 1 .. j - 1 : stream'[k] = n
      OBVIOUS
    <3>1. n - cursor \in 1 .. j - 1 /\ n - cursor \in 1 .. size
      BY <1>1, <1>2, <1>3
    <3>2. stream'[n - cursor] = n
      BY <1>1, <1>3, <3>1
    <3> QED
      BY <3>1, <3>2
  <2> QED
    BY <1>3, <2>1, <2>2 DEF StreamAhead, OpenStream
<1> QED
  BY <1>5, <1>6 DEF FeedInv, OpenStream, PollsBehind

\* An event of the stream: applied, or passed over with no listener for it.
LEMMA StreamStep ==
  ASSUME FeedInv, StreamEvent
  PROVE  FeedInv'
<1> DEFINE h == Head(stream)
<1>1. /\ stream \in Seq(Nat) /\ stream # <<>> /\ h = stream[1] /\ 1 \in DOMAIN stream
      /\ h \in Nat /\ cursor \in Nat /\ Len(feed) \in Nat /\ feed' = feed /\ polls' = polls
  BY EmptySeq, HeadTailProperties DEF FeedInv, FeedTypeOK, StreamEvent
<1>2. cursor < h /\ h <= Len(feed) /\ h \in 1 .. Len(feed)
  BY <1>1 DEF FeedInv, StreamAhead
<1>3. \A n \in 1 .. Len(feed) : cursor < n /\ n < h => feed[n] \notin Heard
  BY <1>1, <1>2 DEF FeedInv, StreamAhead
<1>4. CASE feed[h] \in Heard
  <2>1. applied' = applied \union {h} /\ cursor' = h /\ stream' = <<>> /\ opened' = FALSE
    BY <1>1, <1>2, <1>4 DEF StreamEvent, MoveTo
  <2>2. FeedTypeOK'
    <3>1. applied' \subseteq 1 .. Len(feed')
      BY <1>1, <1>2, <2>1 DEF FeedInv, FeedTypeOK
    <3>2. stream' \in Seq(Nat) /\ cursor' \in Nat
      BY <1>1, <2>1
    <3>3. opened' \in BOOLEAN
      BY <2>1
    <3> QED
      BY <1>1, <3>1, <3>2, <3>3 DEF FeedInv, FeedTypeOK
  <2>6. StreamAhead'
    BY <2>1 DEF StreamAhead
  <2>3. PollsBehind'
    BY <1>1, <1>2, <2>1, TypedParts DEF FeedInv, PollsBehind
  <2>4. \A n \in applied' : n <= cursor'
    BY <1>1, <1>2, <2>1 DEF FeedInv, FeedTypeOK
  <2>5. \A n \in 1 .. cursor' : feed'[n] \in Heard => n \in applied'
    BY <1>1, <1>2, <1>3, <2>1 DEF FeedInv
  <2> QED
    BY <1>1, <1>2, <2>1, <2>2, <2>3, <2>4, <2>5, <2>6 DEF FeedInv
<1>5. CASE feed[h] \notin Heard
  <2>1. stream' = Tail(stream) /\ UNCHANGED <<applied, cursor, opened>>
    BY <1>5 DEF StreamEvent
  <2>2. /\ stream' \in Seq(Nat) /\ Len(stream') = Len(stream) - 1
        /\ \A j \in 1 .. Len(stream') : stream'[j] = stream[j + 1]
    BY <1>1, <2>1, HeadTailProperties
  <2>3. \A j \in DOMAIN stream' : j + 1 \in DOMAIN stream /\ stream'[j] = stream[j + 1] /\ j \in Nat \ {0}
    <3>1. DOMAIN stream' = 1 .. Len(stream')
      BY <2>2
    <3> QED
      BY <2>2, <3>1, TypedParts DEF FeedInv
  <2>4. FeedTypeOK'
    <3>1. opened' \in BOOLEAN
      BY <2>1 DEF FeedInv, FeedTypeOK
    <3> QED
      BY <1>1, <2>1, <2>2, <3>1 DEF FeedInv, FeedTypeOK
  <2>5. StreamAhead'
    <3>1. \A j \in DOMAIN stream' : cursor < stream'[j] /\ stream'[j] <= Len(feed)
      BY <2>3 DEF FeedInv, StreamAhead
    <3>2. ASSUME NEW j \in DOMAIN stream', NEW n \in 1 .. Len(feed), cursor < n, n < stream'[j],
                 feed[n] \in Heard
          PROVE  \E k \in 1 .. j - 1 : stream'[k] = n
      <4>1. PICK k \in 1 .. j : stream[k] = n
        BY <2>3, <3>2 DEF FeedInv, StreamAhead
      <4>2. k # 1
        BY <1>1, <1>5, <3>2, <4>1
      <4>3. k - 1 \in 1 .. j - 1 /\ k - 1 \in DOMAIN stream'
        BY <2>2, <2>3, <4>1, <4>2
      <4>4. stream'[k - 1] = n
        BY <2>2, <2>3, <4>1, <4>3
      <4> QED
        BY <4>3, <4>4
    <3>3. \A j \in DOMAIN stream', n \in 1 .. Len(feed) :
             cursor < n /\ n < stream'[j] =>
                 feed[n] \notin Heard \/ \E k \in 1 .. j - 1 : stream'[k] = n
      BY <3>2
    <3>4. feed' = feed /\ cursor' = cursor
      BY <1>1, <2>1
    <3> QED
      BY <3>1, <3>3, <3>4 DEF StreamAhead
  <2> QED
    BY <1>1, <2>1, <2>4, <2>5 DEF FeedInv, PollsBehind
<1> QED
  BY <1>4, <1>5

LEMMA NextFeedInv == FeedInv /\ [FeedNext]_feedVars => FeedInv'
<1> SUFFICES ASSUME FeedInv, [FeedNext]_feedVars PROVE FeedInv'
  OBVIOUS
<1>0. 1 .. Len(polls) = DOMAIN polls
  BY DEF FeedInv, FeedTypeOK
<1>1. ASSUME NEW type \in Types, AppendEvent(type) PROVE FeedInv'
  BY <1>1, AppendStep
<1>2. CASE SendPoll
  BY <1>2, SendStep
<1>3. CASE AnswerPolls
  BY <1>0, <1>3, AnswerStep DEF AnswerPolls
<1>4. CASE HandlePolls
  BY <1>0, <1>4, HandleStep DEF HandlePolls
<1>5. ASSUME NEW i \in 1 .. Len(polls), DropPoll(i) PROVE FeedInv'
  BY <1>0, <1>5, DropStep
<1>6. CASE OpenStream
  BY <1>6, OpenStep
<1>7. CASE StreamEvent
  BY <1>7, StreamStep
<1>8. CASE StreamBreaks
  BY <1>8 DEF FeedInv, FeedTypeOK, PollsBehind, StreamAhead, StreamBreaks
<1>9. CASE UNCHANGED feedVars
  BY <1>9 DEF FeedInv, FeedTypeOK, PollsBehind, StreamAhead, feedVars
<1> QED
  BY <1>1, <1>2, <1>3, <1>4, <1>5, <1>6, <1>7, <1>8, <1>9 DEF FeedNext

\* However long the pages, however many polls overlap and wherever the stream
\* breaks, the cursor passes no event with a listener that was not applied
\* (NothingHeardSkipped; the two effects of dashboard.jsx that move it).
THEOREM FeedFollowed == FeedSpec => []NothingHeardSkipped
<1>1. FeedInv => NothingHeardSkipped
  BY DEF FeedInv, NothingHeardSkipped
<1> QED
  BY <1>1, InitFeedInv, NextFeedInv, PTL DEF FeedSpec

-----------------------------------------------------------------------------
(* The editor.                                                             *)

\* EditorTypeOK but for the two flags.
Typed ==
    /\ server \in [Scopes -> Seq(Overrides)]
    /\ selected \in Scopes
    /\ shown \in Optional
    /\ overrides \in Overrides
    /\ meta \in Meta
    /\ lastEvent \in Nat
    /\ requests \subseteq Request
    /\ crossed \in {"nothing", "everything", "draft"}

Flags == loading \in BOOLEAN /\ undo \in BOOLEAN

\* Until something was run there is nothing to edit, to save or to ask for.
Untouched ==
    meta.scope = None =>
        /\ shown = None /\ overrides = NoOverrides
        /\ meta.draft = None /\ meta.base = 0 /\ meta.saved = NoOverrides
        /\ meta.stale = 0 /\ meta.conflict = None
        /\ \A r \in requests : r.kind = "run"

NothingToUndo == meta.scope = None => undo = FALSE

OneSave ==
    /\ "saving" \notin meta.busy => \A r \in requests : r.kind # "save"
    /\ "saving" \in meta.busy =>
          \E r \in requests :
             r.kind = "save" /\ \A q \in requests : q.kind = "save" => q = r

\* o is what version n of a scope's draft holds; there is no version 0.
Holds(s, n, o) == n # 0 => n <= Len(server[s]) /\ o = server[s][n]

\* What a request asks for is there, and what it is answered was stored.
Sound(r) ==
    /\ r.kind \in {"run", "version", "fetch"} => r.step = "sent"
    /\ r.kind \in Actions => r.draft \in Scopes
    /\ r.kind \in {"version", "fetch", "rollback"} => r.target \in 1 .. Len(server[r.draft])
    /\ r.kind = "reload" => r.draft # None /\ (crossed = "nothing" => r.draft = r.scope)
    /\ r.kind \in Loads \union {"save"} /\ r.step = "ok" => Holds(r.scope, r.revision, r.overrides)
    /\ r.kind \in {"rollback", "jira"} /\ r.step = "ok" => Holds(r.draft, r.revision, r.overrides)

\* A notice is about the active draft.
Noticed == meta.stale # 0 => meta.draft # None

\* The active draft is that of the scope saved to, and the base one of its
\* versions.
Based ==
    crossed # "draft" =>
        /\ meta.draft \in {None, meta.scope}
        /\ meta.base # 0 => meta.scope # None /\ Holds(meta.scope, meta.base, meta.saved)

OnScreen == crossed = "nothing" => shown \in {None, meta.scope}

EditorInv ==
    /\ Typed /\ Untouched /\ NothingToUndo /\ OneSave
    /\ \A r \in requests : Sound(r)
    /\ Noticed /\ Based /\ OnScreen

-----------------------------------------------------------------------------
(* Requests and versions.                                                  *)

LEMMA MetaParts ==
  ASSUME Typed
  PROVE  /\ meta.scope \in Optional /\ meta.draft \in Optional /\ meta.base \in Nat
         /\ meta.saved \in Overrides /\ meta.busy \subseteq {"saving", "loadingHistory"}
         /\ meta.stale \in Nat /\ meta.conflict \in Optional
BY DEF Typed, Meta

LEMMA RequestParts ==
  ASSUME NEW r \in Request
  PROVE  /\ r.kind \in Kind /\ r.scope \in Scopes /\ r.draft \in Optional /\ r.base \in Nat
         /\ r.target \in Nat /\ r.overrides \in Overrides /\ r.revision \in Nat
         /\ r.step \in {"sent", "ok", "conflict"}
BY DEF Request

LEMMA NoDraftTyped ==
  ASSUME NEW s \in Optional
  PROVE  /\ NoDraft(s) \in Meta /\ NoDraft(s).scope = s /\ NoDraft(s).draft = None
         /\ NoDraft(s).base = 0 /\ NoDraft(s).saved = NoOverrides /\ NoDraft(s).busy = {}
         /\ NoDraft(s).stale = 0 /\ NoDraft(s).conflict = None
BY OverridesAssumption DEF NoDraft, Meta, Optional

LEMMA Histories ==
  ASSUME Typed, NEW s \in Scopes
  PROVE  /\ server[s] \in Seq(Overrides) /\ Len(server[s]) \in Nat
         /\ VersionsOf(s) = 1 .. Len(server[s])
         /\ \A n \in VersionsOf(s) : server[s][n] \in Overrides
         /\ Latest(s) \in Overrides /\ Holds(s, Len(server[s]), Latest(s))
<1>1. server[s] \in Seq(Overrides)
  BY DEF Typed
<1>2. Len(server[s]) \in Nat /\ \A n \in 1 .. Len(server[s]) : server[s][n] \in Overrides
  BY <1>1
<1>3. CASE server[s] = <<>>
  BY <1>1, <1>2, <1>3, OverridesAssumption DEF Latest, Holds, VersionsOf
<1>4. CASE server[s] # <<>>
  <2>1. Len(server[s]) # 0
    BY <1>1, <1>4
  <2> QED
    BY <1>1, <1>2, <1>4, <2>1 DEF Latest, Holds, VersionsOf
<1> QED
  BY <1>3, <1>4

\* Versions are only added.
Grows ==
    \A s \in Scopes :
        /\ Len(server'[s]) \in Nat /\ Len(server[s]) <= Len(server'[s])
        /\ \A n \in 1 .. Len(server[s]) : server'[s][n] = server[s][n]

LEMMA HoldsStill ==
  ASSUME Typed, Grows, NEW s \in Scopes, NEW n \in Nat, NEW o, Holds(s, n, o)
  PROVE  Holds(s, n, o)'
BY Histories DEF Grows, Holds

LEMMA SameGrows == Typed /\ server' = server => Grows
BY Histories DEF Grows

LEMMA SoundStill ==
  ASSUME Typed, Grows, crossed' = "nothing" => crossed = "nothing",
         NEW r \in Request, Sound(r)
  PROVE  Sound(r)'
<1> USE RequestParts
<1>1. r.kind \in {"run", "version", "fetch"} => r.step = "sent"
  BY DEF Sound
<1>2. r.kind \in Actions => r.draft \in Scopes
  BY DEF Sound
<1>3. r.kind \in {"version", "fetch", "rollback"} => r.target \in 1 .. Len(server'[r.draft])
  <2>1. \A s \in Scopes : Len(server[s]) \in Nat
    BY Histories
  <2> QED
    BY <2>1 DEF Sound, Grows, Actions
<1>4. r.kind = "reload" => r.draft # None /\ (crossed' = "nothing" => r.draft = r.scope)
  BY DEF Sound
<1>5. r.kind \in Loads \union {"save"} /\ r.step = "ok" => Holds(r.scope, r.revision, r.overrides)'
  BY HoldsStill DEF Sound
<1>6. r.kind \in {"rollback", "jira"} /\ r.step = "ok" => Holds(r.draft, r.revision, r.overrides)'
  BY HoldsStill DEF Sound, Actions
<1> QED
  BY <1>1, <1>2, <1>3, <1>4, <1>5, <1>6 DEF Sound

\* The requests after a step, if each was there or is new and sound.
LEMMA RequestsKept ==
  ASSUME EditorInv, Grows, crossed' = "nothing" => crossed = "nothing",
         \A q \in requests' : q \in requests \/ (q \in Request /\ Sound(q)')
  PROVE  requests' \subseteq Request /\ \A q \in requests' : Sound(q)'
<1>1. \A q \in requests : q \in Request /\ Sound(q)
  BY DEF EditorInv, Typed
<1>2. \A q \in requests : Sound(q)'
  BY <1>1, SoundStill DEF EditorInv
<1> QED
  BY <1>1, <1>2

\* The saves on their way, if a step touches none.
LEMMA SaveKept ==
  ASSUME OneSave, "saving" \in meta'.busy <=> "saving" \in meta.busy,
         \A q : q.kind = "save" => (q \in requests' <=> q \in requests)
  PROVE  OneSave'
BY DEF OneSave

LEMMA Survivors ==
  ASSUME NEW rs, NEW draft
  PROVE  /\ Surviving(rs, draft) \subseteq rs
         /\ \A q : q.kind = "save" => (q \in Surviving(rs, draft) <=> q \in rs)
         /\ draft # meta.draft => \A q \in Surviving(rs, draft) : q.kind \notin Actions \union {"history"}
BY DEF Surviving, Actions

-----------------------------------------------------------------------------
(* The user and the polls.                                                 *)

LEMMA InitEditorInv == EditorInit => EditorInv
<1> SUFFICES ASSUME EditorInit PROVE EditorInv
  OBVIOUS
<1>1. meta \in Meta /\ meta = NoDraft(None) /\ meta.busy = {} /\ meta.stale = 0
      /\ meta.draft = None /\ meta.base = 0 /\ meta.saved = NoOverrides /\ meta.conflict = None
  BY NoDraftTyped DEF EditorInit, Optional
<1>2. server \in [Scopes -> Seq(Overrides)] /\ selected \in Scopes /\ shown = None
      /\ overrides = NoOverrides /\ lastEvent = 0 /\ requests = {} /\ crossed = "nothing"
  BY DEF EditorInit
<1>3. Typed
  BY <1>1, <1>2, OverridesAssumption DEF Typed, Optional
<1>4. NothingToUndo
  BY DEF EditorInit, NothingToUndo
<1> QED
  BY <1>1, <1>2, <1>3, <1>4 DEF EditorInv, Untouched, OneSave, Noticed, Based, OnScreen

\* Steps that leave the requests and the server alone.
LEMMA QuietRequests ==
  ASSUME EditorInv, UNCHANGED <<server, requests, crossed>>
  PROVE  \A r \in requests' : Sound(r)'
BY SameGrows, RequestsKept DEF EditorInv

LEMMA TimelineStep ==
  ASSUME EditorInv, NEW o \in Overrides, SelectTeams \/ Edit(o) \/ UndoOrRedo(o)
  PROVE  EditorInv'
<1>1. UNCHANGED <<server, selected, meta, lastEvent, requests, crossed>>
  BY DEF SelectTeams, Edit, UndoOrRedo
<1>2. overrides' \in Overrides /\ shown' \in {shown, None}
  BY DEF SelectTeams, Edit, UndoOrRedo, EditorInv, Typed
<1>3. meta.scope = None => overrides' = overrides
  BY DEF SelectTeams, Edit, UndoOrRedo, EditorInv, Untouched, NothingToUndo
<1>4. NothingToUndo'
  <2>1. meta'.scope = None => undo' = undo
    BY <1>1 DEF SelectTeams, Edit, UndoOrRedo, EditorInv, Untouched
  <2> QED
    BY <1>1, <2>1 DEF EditorInv, NothingToUndo
<1>5. Typed'
  BY <1>1, <1>2 DEF EditorInv, Typed, Optional
<1>6. Untouched' /\ OneSave'
  BY <1>1, <1>2, <1>3 DEF EditorInv, Untouched, OneSave
<1>7. Noticed' /\ Based' /\ OnScreen'
  BY <1>1, <1>2 DEF EditorInv, Noticed, Based, OnScreen, Holds
<1> QED
  BY <1>1, <1>4, <1>5, <1>6, <1>7, QuietRequests DEF EditorInv

\* Dismissing notices, and a poll that raises one.
LEMMA NoticeStep ==
  ASSUME EditorInv, Discard \/ KeepEditing \/ PollEvents
  PROVE  EditorInv'
<1>1. UNCHANGED <<server, selected, shown, requests, crossed>>
  BY DEF Discard, KeepEditing, PollEvents
<1>2. meta.scope # None
  BY DEF Discard, KeepEditing, PollEvents, EditorInv, Untouched, Dirty
<1>3. overrides' \in Overrides /\ lastEvent' \in Nat /\ meta' \in Meta
      /\ meta'.scope = meta.scope /\ meta'.draft = meta.draft /\ meta'.base = meta.base
      /\ meta'.saved = meta.saved /\ meta'.busy = meta.busy
      /\ (meta'.stale # 0 => meta.draft # None)
  <2>1. CASE Discard
    <3>1. meta' = [meta EXCEPT !.stale = 0, !.conflict = None] /\ overrides' = meta.saved
          /\ lastEvent' = lastEvent
      BY <2>1 DEF Discard
    <3>2. meta \in Meta /\ lastEvent \in Nat
      BY DEF EditorInv, Typed
    <3> QED
      BY <3>1, <3>2 DEF Meta, Optional
  <2>2. CASE KeepEditing
    <3>1. overrides' = overrides /\ lastEvent' = lastEvent /\ overrides \in Overrides /\ lastEvent \in Nat
          /\ meta \in Meta /\ (meta.stale # 0 => meta.draft # None)
      BY <2>2 DEF KeepEditing, EditorInv, Typed, Noticed
    <3>2. CASE meta' = [meta EXCEPT !.stale = 0]
      BY <3>1, <3>2 DEF Meta
    <3>3. CASE meta' = [meta EXCEPT !.conflict = None]
      BY <3>1, <3>3 DEF Meta, Optional
    <3> QED
      BY <2>2, <3>2, <3>3 DEF KeepEditing
  <2>3. CASE PollEvents
    <3>1. PICK n \in VersionsOf(meta.draft) :
             /\ lastEvent' = n
             /\ meta' = [meta EXCEPT !.stale = IF n > meta.base THEN n ELSE @]
      BY <2>3 DEF PollEvents
    <3>2. meta.draft # None /\ overrides' = overrides
      BY <2>3 DEF PollEvents
    <3>3. n \in Nat
      BY <3>1 DEF VersionsOf
    <3> QED
      BY <3>1, <3>2, <3>3 DEF EditorInv, Typed, Meta
  <2> QED
    BY <2>1, <2>2, <2>3
<1>4. Typed'
  BY <1>1, <1>3 DEF EditorInv, Typed
<1>5. Untouched' /\ NothingToUndo'
  BY <1>2, <1>3 DEF Untouched, NothingToUndo
<1>6. OneSave' /\ Noticed' /\ Based' /\ OnScreen'
  BY <1>1, <1>3 DEF EditorInv, OneSave, Noticed, Based, OnScreen, Holds
<1> QED
  BY <1>1, <1>4, <1>5, <1>6, QuietRequests DEF EditorInv

\* Another scope: the timeline goes, and requests with it, but no save.
LEMMA SelectStep ==
  ASSUME EditorInv, NEW s \in Scopes, SelectScope(s)
  PROVE  EditorInv'
<1>1. UNCHANGED <<server, overrides, meta, undo, lastEvent, crossed>> /\ selected' = s /\ shown' = None
  BY DEF SelectScope
<1>2. requests' \subseteq requests /\ \A q : q.kind = "save" => (q \in requests' <=> q \in requests)
  BY DEF SelectScope, Actions
<1>3. requests' \subseteq Request /\ \A q \in requests' : Sound(q)'
  BY <1>1, <1>2, SameGrows, RequestsKept DEF EditorInv
<1>4. Typed'
  BY <1>1, <1>3 DEF EditorInv, Typed, Optional
<1>5. OneSave'
  BY <1>1, <1>2, SaveKept DEF EditorInv
<1>6. Untouched' /\ NothingToUndo' /\ Noticed' /\ Based' /\ OnScreen'
  BY <1>1, <1>2 DEF EditorInv, Untouched, NothingToUndo, Noticed, Based, OnScreen, Holds
<1> QED
  BY <1>3, <1>4, <1>5, <1>6 DEF EditorInv

-----------------------------------------------------------------------------
(* Asking.                                                                 *)

LEMMA NewRequestTyped ==
  ASSUME Typed, NEW kind \in Kind, NEW s \in Scopes, NEW draft \in Optional
  PROVE  LET r == NewRequest(kind, s, draft)
         IN  /\ r \in Request /\ r.kind = kind /\ r.scope = s /\ r.draft = draft
             /\ r.step = "sent"
BY MetaParts, OverridesAssumption DEF NewRequest, Request, Typed

\* A step that sends r and may abort others, no save among them.
LEMMA AskingStep ==
  ASSUME EditorInv, UNCHANGED <<server, selected, shown, overrides, undo, lastEvent, crossed>>,
         NEW r \in Request, Sound(r),
         r \in requests', requests' \subseteq requests \union {r},
         \A q \in requests \ requests' : q.kind # "save",
         NEW busy \in SUBSET {"saving", "loadingHistory"}, meta' = [meta EXCEPT !.busy = busy],
         r.kind # "run" => meta.scope # None,
         r.kind # "save" => ("saving" \in busy <=> "saving" \in meta.busy),
         r.kind = "save" => "saving" \in busy /\ "saving" \notin meta.busy
  PROVE  EditorInv'
<1>1. /\ meta \in Meta /\ meta' \in Meta /\ meta'.busy = busy
      /\ meta'.scope = meta.scope /\ meta'.draft = meta.draft /\ meta'.base = meta.base
      /\ meta'.saved = meta.saved /\ meta'.stale = meta.stale /\ meta'.conflict = meta.conflict
  BY DEF EditorInv, Typed, Meta
<1>2. Sound(r)'
  BY SameGrows, SoundStill DEF EditorInv
<1>3. requests' \subseteq Request /\ \A q \in requests' : Sound(q)'
  BY <1>2, SameGrows, RequestsKept DEF EditorInv
<1>4. Typed'
  BY <1>1, <1>3 DEF EditorInv, Typed
<1>5. OneSave'
  <2>1. CASE r.kind = "save"
    BY <1>1, <2>1 DEF EditorInv, OneSave
  <2>2. CASE r.kind # "save"
    BY <1>1, <2>2, SaveKept DEF EditorInv
  <2> QED
    BY <2>1, <2>2
<1>6. Untouched' /\ NothingToUndo' /\ Noticed' /\ Based' /\ OnScreen'
  BY <1>1 DEF EditorInv, Untouched, NothingToUndo, Noticed, Based, OnScreen, Holds
<1> QED
  BY <1>3, <1>4, <1>5, <1>6 DEF EditorInv

LEMMA AskedScopeTyped ==
  ASSUME EditorInv
  PROVE  AskedScope \in Scopes /\ (meta.scope # None => AskedScope = meta.scope)
BY MetaParts DEF EditorInv, Typed, AskedScope, Optional

\* meta with the flags it has.
LEMMA SameBusy == Typed => meta = [meta EXCEPT !.busy = meta.busy]
BY DEF Typed, Meta

LEMMA RunStep ==
  ASSUME EditorInv, RunScenario
  PROVE  EditorInv'
<1> DEFINE r == NewRequest("run", selected, None)
<1>1. r \in Request /\ r.kind = "run" /\ r.step = "sent"
  BY NewRequestTyped DEF EditorInv, Typed, Kind, Optional
<1>2. Sound(r)
  BY <1>1 DEF Sound, Actions, Loads
<1>3. requests' = requests \union {r} /\ meta' = meta
      /\ UNCHANGED <<server, selected, shown, overrides, undo, lastEvent, crossed>>
  BY DEF RunScenario, Asks, Send
<1>4. meta' = [meta EXCEPT !.busy = meta.busy] /\ meta.busy \in SUBSET {"saving", "loadingHistory"}
  BY <1>3, SameBusy, MetaParts DEF EditorInv
<1> HIDE DEF r
<1> QED
  BY <1>1, <1>2, <1>3, <1>4, AskingStep

LEMMA SaveStep ==
  ASSUME EditorInv, SaveDraft
  PROVE  EditorInv'
<1> DEFINE r == NewRequest("save", meta.scope, meta.draft)
           busy == meta.busy \union {"saving"}
<1>1. meta.scope \in Scopes /\ meta.scope # None /\ meta.draft \in Optional
  BY MetaParts DEF SaveDraft, CanSave, Dirty, EditorInv, Untouched, Optional
<1>2. r \in Request /\ r.kind = "save" /\ r.step = "sent"
  BY <1>1, NewRequestTyped DEF EditorInv, Kind
<1>3. Sound(r)
  BY <1>2 DEF Sound, Actions, Loads
<1>4. requests' = requests \union {r} /\ meta' = [meta EXCEPT !.busy = busy]
      /\ UNCHANGED <<server, selected, shown, overrides, undo, lastEvent, crossed>>
  BY DEF SaveDraft, Asks, Send
<1>5. meta.busy = {} /\ busy \in SUBSET {"saving", "loadingHistory"}
  BY DEF SaveDraft, CanSave
<1>6. "saving" \in busy /\ "saving" \notin meta.busy
  BY <1>5
<1> HIDE DEF r, busy
<1> QED
  BY <1>1, <1>2, <1>3, <1>4, <1>5, <1>6, AskingStep

LEMMA OpenHistoryStep ==
  ASSUME EditorInv, OpenHistory
  PROVE  EditorInv'
<1> DEFINE r == NewRequest("history", AskedScope, meta.draft)
           busy == meta.busy \union {"loadingHistory"}
<1>1. r \in Request /\ r.kind = "history" /\ r.step = "sent"
  BY AskedScopeTyped, MetaParts, NewRequestTyped DEF EditorInv, Kind, Loads
<1>2. Sound(r)
  BY <1>1 DEF Sound, Actions, Loads
<1>3. /\ requests' = {q \in requests : q.kind # "history"} \union {r}
      /\ meta' = [meta EXCEPT !.busy = busy] /\ meta.scope # None
      /\ UNCHANGED <<server, selected, shown, overrides, undo, lastEvent, crossed>>
  BY DEF OpenHistory
<1>4. busy \in SUBSET {"saving", "loadingHistory"} /\ ("saving" \in busy <=> "saving" \in meta.busy)
  BY MetaParts DEF EditorInv
<1> HIDE DEF r, busy
<1> QED
  BY <1>1, <1>2, <1>3, <1>4, AskingStep

LEMMA ReloadActiveStep ==
  ASSUME EditorInv, ReloadActive
  PROVE  EditorInv'
<1> DEFINE r == NewRequest("reload", AskedScope, meta.draft)
<1>1. meta.scope # None /\ meta.draft # None
  BY DEF ReloadActive, EditorInv, Untouched, Noticed
<1>2. r \in Request /\ r.kind = "reload" /\ r.step = "sent" /\ r.draft = meta.draft /\ r.scope = meta.scope
  BY <1>1, AskedScopeTyped, MetaParts, NewRequestTyped DEF EditorInv, Kind, Loads
<1>3. crossed = "nothing" => meta.draft = meta.scope
  BY <1>1 DEF EditorInv, Based
<1>4. Sound(r)
  BY <1>1, <1>2, <1>3 DEF Sound, Actions, Loads
<1>5. requests' = requests \union {r} /\ meta' = meta
      /\ UNCHANGED <<server, selected, shown, overrides, undo, lastEvent, crossed>>
  BY DEF ReloadActive, Asks, Send
<1>6. meta' = [meta EXCEPT !.busy = meta.busy] /\ meta.busy \in SUBSET {"saving", "loadingHistory"}
  BY <1>5, SameBusy, MetaParts DEF EditorInv
<1> HIDE DEF r
<1> QED
  BY <1>1, <1>2, <1>5, <1>4, <1>6, AskingStep

LEMMA ActionStep ==
  ASSUME EditorInv, NEW kind \in {"version", "fetch", "jira"}, NEW target \in Nat,
         HistoryAction(kind, target), ActionDraft # None,
         kind # "jira" => target \in VersionsOf(ActionDraft)
  PROVE  EditorInv'
<1> DEFINE n == NewRequest(kind, AskedScope, ActionDraft)
           r == [n EXCEPT !.target = target]
<1>1. ActionDraft \in Scopes /\ meta.scope # None
  BY MetaParts DEF ActionDraft, EditorInv, Untouched, Optional
<1>2. n \in Request /\ n.kind = kind /\ n.step = "sent" /\ n.draft = ActionDraft
  <2>1. kind \in Kind /\ ActionDraft \in Optional /\ AskedScope \in Scopes /\ Typed
    BY <1>1, AskedScopeTyped DEF EditorInv, Kind, Actions, Optional
  <2> QED
    BY <2>1, NewRequestTyped
<1> HIDE DEF n
<1>3. r \in Request /\ r.kind = kind /\ r.step = "sent" /\ r.draft = ActionDraft /\ r.target = target
  BY <1>2 DEF Request
<1>4. /\ requests' = {q \in requests : q.kind \notin Actions} \union {r} /\ meta' = meta
      /\ UNCHANGED <<server, selected, shown, overrides, undo, lastEvent, crossed>>
  BY DEF HistoryAction, n
<1> HIDE DEF r
<1>5. Sound(r)
  BY <1>1, <1>3 DEF Sound, Actions, Loads, VersionsOf
<1>6. meta' = [meta EXCEPT !.busy = meta.busy] /\ meta.busy \in SUBSET {"saving", "loadingHistory"}
  BY <1>4, SameBusy, MetaParts DEF EditorInv
<1>7. \A q \in requests \ requests' : q.kind # "save"
  BY <1>4 DEF Actions
<1> QED
  BY <1>1, <1>3, <1>4, <1>5, <1>6, <1>7, AskingStep

LEMMA ActionsStep ==
  ASSUME EditorInv, OpenVersion \/ Rollback \/ RequestReload
  PROVE  EditorInv'
<1>1. \A m \in ListedVersions : ActionDraft # None /\ m \in VersionsOf(ActionDraft) /\ m \in Nat
  BY DEF ListedVersions, VersionsOf
<1>2. CASE OpenVersion
  BY <1>1, <1>2, ActionStep DEF OpenVersion
<1>3. CASE Rollback
  BY <1>1, <1>3, ActionStep DEF Rollback
<1>4. CASE RequestReload
  BY <1>4, ActionStep DEF RequestReload
<1> QED
  BY <1>2, <1>3, <1>4

-----------------------------------------------------------------------------
(* The server.                                                             *)

LEMMA StoresGrows ==
  ASSUME Typed, NEW s \in Scopes, NEW o \in Overrides, Stores(s, o)
  PROVE  /\ server' \in [Scopes -> Seq(Overrides)] /\ Grows
         /\ Len(server'[s]) = Len(server[s]) + 1 /\ server'[s][Len(server[s]) + 1] = o
<1>1. server[s] \in Seq(Overrides) /\ Len(server[s]) \in Nat
  BY Histories
<1> DEFINE longer == Append(server[s], o)
<1>2. /\ longer \in Seq(Overrides) /\ Len(longer) = Len(server[s]) + 1
      /\ longer[Len(server[s]) + 1] = o
      /\ \A n \in 1 .. Len(server[s]) : longer[n] = server[s][n]
  BY <1>1
<1> HIDE DEF longer
<1>3. server' = [server EXCEPT ![s] = longer] /\ server \in [Scopes -> Seq(Overrides)]
  BY DEF Stores, Typed, longer
<1>4. server' \in [Scopes -> Seq(Overrides)] /\ server'[s] = longer
      /\ \A t \in Scopes : t # s => server'[t] = server[t]
  BY <1>2, <1>3
<1>5. Grows
  <2> SUFFICES ASSUME NEW t \in Scopes
               PROVE  /\ Len(server'[t]) \in Nat /\ Len(server[t]) <= Len(server'[t])
                      /\ \A n \in 1 .. Len(server[t]) : server'[t][n] = server[t][n]
    BY DEF Grows
  <2>1. Len(server[t]) \in Nat
    BY Histories
  <2>2. CASE t = s
    BY <1>1, <1>2, <1>4, <2>2
  <2>3. CASE t # s
    BY <1>4, <2>1, <2>3
  <2> QED
    BY <2>2, <2>3
<1> QED
  BY <1>2, <1>4, <1>5

\* A new version leaves what the tab holds as it was.
LEMMA BasedStill ==
  ASSUME EditorInv, Grows, UNCHANGED <<meta, crossed>>
  PROVE  Based'
<1>1. meta.base \in Nat /\ meta.scope \in Optional
  BY MetaParts DEF EditorInv
<1>2. ASSUME crossed # "draft", meta.base # 0
      PROVE  Holds(meta.scope, meta.base, meta.saved)'
  <2>1. meta.scope \in Scopes /\ Holds(meta.scope, meta.base, meta.saved)
    BY <1>1, <1>2 DEF EditorInv, Based, Optional
  <2> QED
    BY <1>1, <2>1, HoldsStill DEF EditorInv, Holds
<1> QED
  BY <1>2 DEF EditorInv, Based

LEMMA OtherStep ==
  ASSUME EditorInv, NEW s \in Scopes, NEW o \in Overrides, OtherSave(s, o)
  PROVE  EditorInv'
<1>1. /\ server' \in [Scopes -> Seq(Overrides)] /\ Grows
      /\ UNCHANGED <<selected, shown, overrides, meta, undo, lastEvent, requests, crossed>>
  BY StoresGrows DEF OtherSave, EditorInv
<1>2. \A q \in requests' : Sound(q)'
  BY <1>1, RequestsKept
<1>3. Typed' /\ Based'
  BY <1>1, BasedStill DEF EditorInv, Typed
<1>4. Untouched' /\ NothingToUndo' /\ OneSave' /\ Noticed' /\ OnScreen'
  BY <1>1 DEF EditorInv, Untouched, NothingToUndo, OneSave, Noticed, OnScreen
<1> QED
  BY <1>2, <1>3, <1>4 DEF EditorInv

\* The server answers r with n.
LEMMA AnsweredStep ==
  ASSUME EditorInv, server' \in [Scopes -> Seq(Overrides)], Grows,
         UNCHANGED <<selected, shown, overrides, meta, undo, lastEvent, crossed>>,
         NEW r \in requests, NEW n \in Request, n.kind = r.kind, Sound(n)',
         requests' = (requests \ {r}) \union {n}
  PROVE  EditorInv'
<1>1. requests' \subseteq Request /\ \A q \in requests' : Sound(q)'
  BY RequestsKept
<1>2. Typed' /\ Based'
  BY <1>1, BasedStill DEF EditorInv, Typed
<1>3. OneSave'
  BY DEF EditorInv, OneSave
<1>4. Untouched' /\ NothingToUndo' /\ Noticed' /\ OnScreen'
  BY DEF EditorInv, Untouched, NothingToUndo, Noticed, OnScreen
<1> QED
  BY <1>1, <1>2, <1>3, <1>4 DEF EditorInv

LEMMA LoadAnswerStep ==
  ASSUME EditorInv, NEW r \in requests, AnswerLoad(r),
         UNCHANGED <<selected, shown, overrides, meta, undo, lastEvent, crossed>>
  PROVE  EditorInv'
<1>1. r \in Request /\ Sound(r) /\ r.kind \in Loads /\ r.scope \in Scopes /\ Typed
  BY RequestParts DEF EditorInv, Typed, AnswerLoad
<1>2. /\ Latest(r.scope) \in Overrides /\ Len(server[r.scope]) \in Nat
      /\ Holds(r.scope, Len(server[r.scope]), Latest(r.scope))
  BY <1>1, Histories
<1>3. PICK n \in Request :
         /\ n = [r EXCEPT !.step = "ok", !.overrides = Latest(r.scope),
                         !.revision = Len(server[r.scope])]
         /\ n.kind = r.kind /\ n.scope = r.scope /\ n.draft = r.draft
         /\ n.overrides = Latest(r.scope) /\ n.revision = Len(server[r.scope])
  <2> DEFINE m == [r EXCEPT !.step = "ok", !.overrides = Latest(r.scope),
                            !.revision = Len(server[r.scope])]
  <2>1. /\ m \in Request /\ m.kind = r.kind /\ m.scope = r.scope /\ m.draft = r.draft
        /\ m.overrides = Latest(r.scope) /\ m.revision = Len(server[r.scope])
    BY <1>1, <1>2 DEF Request
  <2> QED
    BY <2>1
<1>4. requests' = (requests \ {r}) \union {n} /\ server' = server
  BY <1>3 DEF AnswerLoad, AnsweredWith
<1>5. Sound(n)
  BY <1>1, <1>2, <1>3 DEF Sound, Loads, Actions
<1>6. Grows /\ Sound(n)' /\ server' \in [Scopes -> Seq(Overrides)]
  <2>1. Grows /\ server' \in [Scopes -> Seq(Overrides)]
    BY <1>1, <1>4, SameGrows DEF Typed
  <2> QED
    BY <1>1, <1>3, <1>5, <2>1, SoundStill
<1> QED
  BY <1>3, <1>4, <1>6, AnsweredStep

LEMMA WriteAnswerStep ==
  ASSUME EditorInv, NEW r \in requests, AnswerWrite(r),
         UNCHANGED <<selected, shown, overrides, meta, undo, lastEvent, crossed>>
  PROVE  EditorInv'
<1> DEFINE s == IF r.kind = "save" THEN r.scope ELSE r.draft
<1>1. /\ r \in Request /\ Sound(r) /\ r.kind \in {"save", "rollback", "jira"}
      /\ r.base \in Nat /\ r.overrides \in Overrides /\ Typed
  BY RequestParts DEF EditorInv, Typed, AnswerWrite
<1>2. s \in Scopes
  BY <1>1, RequestParts DEF Sound, Actions
<1>3. Stored(r) \in Overrides
  <2>1. CASE r.kind = "save"
    BY <1>1, <2>1 DEF Stored
  <2>2. CASE r.kind = "rollback"
    <3>1. r.draft \in Scopes /\ r.target \in VersionsOf(r.draft)
      BY <1>1, <2>2 DEF Sound, Actions, VersionsOf
    <3> QED
      BY <1>1, <2>2, <3>1, Histories DEF Stored
  <2>3. CASE r.kind = "jira"
    <3>1. r.draft \in Scopes
      BY <1>1, <2>3 DEF Sound, Actions
    <3> QED
      BY <1>1, <2>3, <3>1, Histories DEF Stored
  <2> QED
    BY <1>1, <2>1, <2>2, <2>3
<1>4. CASE r.base = Len(server[s])
  <2>1. PICK n \in Request :
           /\ n = [r EXCEPT !.step = "ok", !.overrides = Stored(r), !.revision = r.base + 1]
           /\ n.kind = r.kind /\ n.scope = r.scope /\ n.draft = r.draft /\ n.target = r.target
           /\ n.step = "ok" /\ n.overrides = Stored(r) /\ n.revision = r.base + 1
    <3>1. r.base + 1 \in Nat
      BY <1>1
    <3> DEFINE m == [r EXCEPT !.step = "ok", !.overrides = Stored(r), !.revision = r.base + 1]
    <3>2. /\ m \in Request /\ m.kind = r.kind /\ m.scope = r.scope /\ m.draft = r.draft
          /\ m.target = r.target /\ m.step = "ok" /\ m.overrides = Stored(r)
          /\ m.revision = r.base + 1
      BY <1>1, <1>3, <3>1 DEF Request
    <3> QED
      BY <3>2
  <2>2. Stores(s, Stored(r)) /\ requests' = (requests \ {r}) \union {n}
    BY <1>4, <2>1 DEF AnswerWrite, AnsweredWith
  <2>3. /\ server' \in [Scopes -> Seq(Overrides)] /\ Grows
        /\ Len(server'[s]) = r.base + 1 /\ server'[s][r.base + 1] = Stored(r)
    BY <1>1, <1>2, <1>3, <1>4, <2>2, StoresGrows
  <2>4. Holds(s, n.revision, n.overrides)'
    BY <1>1, <2>1, <2>3 DEF Holds
  <2>5. Sound(r)'
    BY <1>1, <2>3, SoundStill
  <2>6. Sound(n)'
    BY <1>1, <2>1, <2>4, <2>5 DEF Sound, Loads, Actions
  <2> QED
    BY <2>1, <2>2, <2>3, <2>6, AnsweredStep
<1>5. CASE r.base # Len(server[s])
  <2>1. PICK n \in Request :
           /\ n = [r EXCEPT !.step = "conflict", !.overrides = NoOverrides, !.revision = 0]
           /\ n.kind = r.kind /\ n.scope = r.scope /\ n.draft = r.draft /\ n.target = r.target
           /\ n.step = "conflict"
    <3> DEFINE m == [r EXCEPT !.step = "conflict", !.overrides = NoOverrides, !.revision = 0]
    <3>1. /\ m \in Request /\ m.kind = r.kind /\ m.scope = r.scope /\ m.draft = r.draft
          /\ m.target = r.target /\ m.step = "conflict"
      BY <1>1, OverridesAssumption DEF Request
    <3> QED
      BY <3>1
  <2>2. requests' = (requests \ {r}) \union {n} /\ server' = server
    BY <1>5, <2>1 DEF AnswerWrite, AnsweredWith
  <2>3. Grows /\ server' \in [Scopes -> Seq(Overrides)]
    BY <1>1, <2>2, SameGrows DEF Typed
  <2>4. Sound(n)
    BY <1>1, <2>1 DEF Sound, Loads, Actions
  <2>5. Sound(n)'
    BY <1>1, <2>1, <2>3, <2>4, SoundStill
  <2> QED
    BY <2>1, <2>2, <2>3, <2>5, AnsweredStep
<1> QED
  BY <1>4, <1>5

-----------------------------------------------------------------------------
(* Answers.                                                                *)

\* What every handler has to leave: r is done with, no other save is.
LEMMA HandledStep ==
  ASSUME EditorInv, NEW r \in requests, r.kind # "run" \/ meta'.scope # None,
         UNCHANGED <<server, selected>>,
         shown' \in Optional, overrides' \in Overrides, meta' \in Meta, lastEvent' \in Nat,
         crossed' \in {"nothing", "everything", "draft"}, crossed' = "nothing" => crossed = "nothing",
         \A q \in requests' : q \in requests \/ (q \in Request /\ Sound(q)' /\ q.kind # "save"),
         \A q \in requests : q.kind = "save" /\ q # r => q \in requests',
         r.kind = "save" => r \notin requests' /\ "saving" \notin meta'.busy,
         r.kind # "save" => ("saving" \in meta'.busy <=> "saving" \in meta.busy),
         meta'.scope = None => meta.scope = None,
         Noticed', Based', OnScreen'
  PROVE  EditorInv'
<1>1. requests' \subseteq Request /\ \A q \in requests' : Sound(q)'
  BY SameGrows, RequestsKept DEF EditorInv
<1>2. Typed'
  BY <1>1 DEF EditorInv, Typed
<1>3. OneSave'
  <2>1. CASE r.kind = "save"
    BY <2>1 DEF EditorInv, OneSave
  <2>2. CASE r.kind # "save"
    BY <2>2, SaveKept DEF EditorInv
  <2> QED
    BY <2>1, <2>2
<1>4. meta'.scope # None
  BY DEF EditorInv, Untouched
<1>5. Untouched' /\ NothingToUndo'
  BY <1>4 DEF Untouched, NothingToUndo
<1> QED
  BY <1>1, <1>2, <1>3, <1>5 DEF EditorInv

\* What is known of a request when its answer is handled.
LEMMA Handled ==
  ASSUME EditorInv, NEW r \in requests
  PROVE  /\ Typed /\ meta \in Meta /\ r \in Request /\ Sound(r) /\ r.scope \in Scopes /\ r.scope # None
         /\ r.draft \in Optional /\ r.overrides \in Overrides /\ r.revision \in Nat
         /\ (r.kind # "run" => meta.scope # None)
BY RequestParts, NoneAssumption DEF EditorInv, Typed, Untouched

LEMMA CrossingFacts ==
  ASSUME EditorInv, NEW r, Crossing(r)
  PROVE  /\ crossed' \in {"nothing", "everything", "draft"}
         /\ crossed' = "nothing" => crossed = "nothing" /\ meta.scope = r.scope
         /\ crossed' # "draft" => crossed # "draft" /\ (r.kind = "history" => meta.scope = r.scope)
BY DEF EditorInv, Typed, Crossing

LEMMA LoadedTyped ==
  ASSUME EditorInv, NEW r \in requests
  PROVE  /\ Loaded(r) \in Meta /\ Loaded(r).scope = r.scope /\ Loaded(r).draft \in {None, r.scope}
         /\ Loaded(r).base = r.revision /\ Loaded(r).saved = r.overrides /\ Loaded(r).stale = 0
         /\ ("saving" \in Loaded(r).busy <=> "saving" \in meta.busy)
<1> DEFINE d == NoDraft(r.scope)
           draft == IF r.revision = 0 THEN None ELSE r.scope
<1>1. d \in Meta /\ d.scope = r.scope /\ d.stale = 0
  BY Handled, NoDraftTyped DEF Optional
<1>2. Saving \subseteq {"saving", "loadingHistory"} /\ ("saving" \in Saving <=> "saving" \in meta.busy)
  BY DEF Saving
<1>3. draft \in {None, r.scope} /\ draft \in Optional
  BY Handled DEF Optional
<1>4. Loaded(r) = [d EXCEPT !.busy = Saving, !.base = r.revision, !.saved = r.overrides, !.draft = draft]
  BY DEF Loaded
<1> HIDE DEF d, draft
<1> QED
  BY <1>1, <1>2, <1>3, <1>4, Handled DEF Meta

LEMMA RunDoneStep ==
  ASSUME EditorInv, NEW r \in requests, RunDone(r)
  PROVE  EditorInv'
<1> DEFINE q == [r EXCEPT !.kind = "load", !.step = "sent", !.overrides = NoOverrides]
           d == NoDraft(r.scope)
           busy == Saving \union {"loadingHistory"}
<1>1. q \in Request /\ q.kind = "load" /\ q.step = "sent"
  BY Handled, OverridesAssumption DEF Request, Kind, Loads
<1>2. requests' = Surviving(requests \ {r}, None) \union {q} /\ meta' = [d EXCEPT !.busy = busy]
      /\ UNCHANGED <<server, selected, crossed>>
      /\ shown' = r.scope /\ overrides' = NoOverrides /\ lastEvent' = 0 /\ r.kind = "run"
  BY DEF RunDone
<1>3. d \in Meta /\ d.scope = r.scope /\ d.draft = None /\ d.base = 0 /\ d.stale = 0
  BY Handled, NoDraftTyped DEF Optional
<1>4. busy \subseteq {"saving", "loadingHistory"} /\ ("saving" \in busy <=> "saving" \in meta.busy)
  BY DEF Saving
<1> HIDE DEF q, d, busy
<1>5. meta' \in Meta /\ meta'.scope = r.scope /\ meta'.draft = None /\ meta'.base = 0 /\ meta'.stale = 0
      /\ meta'.busy = busy
  BY <1>2, <1>3, <1>4 DEF Meta
<1>6. Sound(q)'
  BY <1>1 DEF Sound, Actions, q
<1>7. \A p \in requests' : p \in requests \/ p = q
  BY <1>2, Survivors
<1>8. \A p \in requests : p.kind = "save" /\ p # r => p \in requests'
  BY <1>2, Survivors
<1>9. Noticed' /\ Based' /\ OnScreen'
  BY <1>2, <1>5 DEF Noticed, Based, OnScreen
<1>10. shown' \in Optional /\ overrides' \in Overrides /\ lastEvent' \in Nat /\ meta'.scope # None
       /\ crossed' \in {"nothing", "everything", "draft"}
  BY <1>2, <1>5, Handled, OverridesAssumption DEF Optional, Typed
<1> QED
  BY <1>1, <1>2, <1>4, <1>5, <1>6, <1>7, <1>8, <1>9, <1>10, HandledStep

LEMMA LoadDoneStep ==
  ASSUME EditorInv, NEW r \in requests, LoadDone(r)
  PROVE  EditorInv'
<1>1. /\ r.kind = "load" /\ r.step = "ok" /\ overrides' = r.overrides /\ meta' = Loaded(r)
      /\ requests' = Surviving(requests \ {r}, meta'.draft) /\ Crossing(r)
      /\ UNCHANGED <<server, selected, shown, lastEvent>>
  BY DEF LoadDone
<1>2. /\ meta' \in Meta /\ meta'.scope = r.scope /\ meta'.draft \in {None, r.scope}
      /\ meta'.base = r.revision /\ meta'.saved = r.overrides /\ meta'.stale = 0
      /\ ("saving" \in meta'.busy <=> "saving" \in meta.busy)
  BY <1>1, LoadedTyped
<1>3. Holds(r.scope, r.revision, r.overrides)'
  BY <1>1, Handled DEF Sound, Loads, Holds
<1>4. Noticed' /\ Based' /\ OnScreen'
  <2>1. crossed' = "nothing" => crossed = "nothing" /\ meta.scope = r.scope
    BY <1>1, CrossingFacts
  <2> QED
    BY <1>1, <1>2, <1>3, <2>1, Handled DEF EditorInv, Noticed, Based, OnScreen
<1>5. shown' \in Optional /\ overrides' \in Overrides /\ lastEvent' \in Nat /\ meta'.scope # None
  BY <1>1, <1>2, Handled DEF Typed
<1>6. crossed' \in {"nothing", "everything", "draft"} /\ (crossed' = "nothing" => crossed = "nothing")
  BY <1>1, CrossingFacts
<1>7. requests' \subseteq requests
      /\ \A q \in requests : q.kind = "save" /\ q # r => q \in requests'
  BY <1>1, Survivors
<1> QED
  BY <1>1, <1>2, <1>4, <1>5, <1>6, <1>7, HandledStep

LEMMA SaveDoneStep ==
  ASSUME EditorInv, NEW r \in requests, SaveDone(r)
  PROVE  EditorInv'
<1>1. /\ r.kind = "save" /\ r.step = "ok" /\ meta' = Saved(r)
      /\ requests' = Surviving(requests \ {r}, r.scope) /\ Crossing(r)
      /\ UNCHANGED <<server, selected, shown, overrides, lastEvent>>
  BY DEF SaveDone
<1>2. /\ meta' \in Meta /\ meta'.scope = r.scope /\ meta'.draft = r.scope
      /\ meta'.base = r.revision /\ meta'.saved = r.overrides /\ meta'.stale = 0
      /\ "saving" \notin meta'.busy
  BY <1>1, Handled DEF Saved, Meta, Optional
<1>3. Holds(r.scope, r.revision, r.overrides)'
  BY <1>1, Handled DEF Sound, Loads, Holds
<1>4. Noticed' /\ Based' /\ OnScreen'
  <2>1. crossed' = "nothing" => crossed = "nothing" /\ meta.scope = r.scope
    BY <1>1, CrossingFacts
  <2> QED
    BY <1>1, <1>2, <1>3, <2>1, Handled DEF EditorInv, Noticed, Based, OnScreen
<1>5. shown' \in Optional /\ overrides' \in Overrides /\ lastEvent' \in Nat /\ meta'.scope # None
  BY <1>1, <1>2, Handled DEF Typed
<1>6. crossed' \in {"nothing", "everything", "draft"} /\ (crossed' = "nothing" => crossed = "nothing")
  BY <1>1, CrossingFacts
<1>7. requests' \subseteq requests /\ r \notin requests'
      /\ \A q \in requests : q.kind = "save" /\ q # r => q \in requests'
  BY <1>1, Survivors
<1> QED
  BY <1>1, <1>2, <1>4, <1>5, <1>6, <1>7, HandledStep

\* Answers that leave the draft, its scope and its base as they are.
LEMMA SameDraftStep ==
  ASSUME EditorInv, NEW r \in requests, r.kind # "run",
         requests' = requests \ {r},
         UNCHANGED <<server, selected, shown, lastEvent, crossed>>,
         overrides' \in Overrides, meta' \in Meta,
         meta'.scope = meta.scope, meta'.draft = meta.draft, meta'.base = meta.base,
         meta'.saved = meta.saved, meta'.stale = meta.stale,
         r.kind = "save" => "saving" \notin meta'.busy,
         r.kind # "save" => ("saving" \in meta'.busy <=> "saving" \in meta.busy)
  PROVE  EditorInv'
<1>1. Noticed' /\ Based' /\ OnScreen'
  BY DEF EditorInv, Noticed, Based, OnScreen, Holds
<1>2. shown' \in Optional /\ lastEvent' \in Nat /\ crossed' \in {"nothing", "everything", "draft"}
  BY DEF EditorInv, Typed
<1> QED
  BY <1>1, <1>2, HandledStep

LEMMA ConflictedStep ==
  ASSUME EditorInv, NEW r \in requests, Conflicted(r)
  PROVE  EditorInv'
<1> DEFINE conflict == IF r.kind = "save" THEN r.scope ELSE r.draft
           busy == IF r.kind = "save" THEN meta.busy \ {"saving"} ELSE meta.busy
<1>1. /\ r.step = "conflict" /\ meta' = [meta EXCEPT !.conflict = conflict, !.busy = busy]
      /\ requests' = requests \ {r}
      /\ UNCHANGED <<server, selected, shown, overrides, lastEvent, crossed>>
  BY Handled DEF Conflicted, Drop, Meta
<1>2. conflict \in Optional /\ busy \subseteq {"saving", "loadingHistory"} /\ r.kind # "run"
      /\ meta \in Meta /\ overrides \in Overrides
  BY <1>1, Handled, MetaParts DEF Optional, Sound, Typed
<1>3. r.kind = "save" => "saving" \notin busy
  OBVIOUS
<1>4. r.kind # "save" => ("saving" \in busy <=> "saving" \in meta.busy)
  OBVIOUS
<1> HIDE DEF conflict, busy
<1>5. /\ meta' \in Meta /\ meta'.scope = meta.scope /\ meta'.draft = meta.draft
      /\ meta'.base = meta.base /\ meta'.saved = meta.saved /\ meta'.stale = meta.stale
      /\ meta'.busy = busy
  BY <1>1, <1>2 DEF Meta
<1> QED
  BY <1>1, <1>2, <1>3, <1>4, <1>5, SameDraftStep

LEMMA HistoryDoneStep ==
  ASSUME EditorInv, NEW r \in requests, HistoryDone(r)
  PROVE  EditorInv'
<1> DEFINE draft == IF r.revision = 0 THEN meta.draft ELSE r.scope
           busy == meta.busy \ {"loadingHistory"}
           stale == IF meta.stale # 0 /\ r.revision # 0 THEN r.revision ELSE meta.stale
<1>1. /\ r.kind = "history"
      /\ meta' = [meta EXCEPT !.draft = draft, !.busy = busy, !.stale = stale]
      /\ requests' = Surviving(requests \ {r}, draft) /\ Crossing(r)
      /\ UNCHANGED <<server, selected, shown, overrides, lastEvent>>
  BY Handled DEF HistoryDone, Meta
<1>2. /\ draft \in {meta.draft, r.scope} /\ draft \in Optional
      /\ busy \subseteq {"saving", "loadingHistory"} /\ stale \in Nat /\ meta \in Meta
      /\ ("saving" \in busy <=> "saving" \in meta.busy)
  BY Handled, MetaParts DEF Optional
<1>3. stale # 0 => draft # None
  BY Handled DEF EditorInv, Noticed
<1> HIDE DEF draft, busy, stale
<1>4. /\ meta' \in Meta /\ meta'.scope = meta.scope /\ meta'.draft = draft
      /\ meta'.base = meta.base /\ meta'.saved = meta.saved /\ meta'.stale = stale
      /\ meta'.busy = busy
  BY <1>1, <1>2 DEF Meta
<1>5. /\ crossed' \in {"nothing", "everything", "draft"}
      /\ crossed' = "nothing" => crossed = "nothing"
      /\ crossed' # "draft" => crossed # "draft" /\ meta.scope = r.scope
  BY <1>1, CrossingFacts
<1>6. Noticed' /\ OnScreen'
  BY <1>1, <1>3, <1>4, <1>5 DEF EditorInv, Noticed, OnScreen
<1>7. Based'
  BY <1>1, <1>2, <1>4, <1>5 DEF EditorInv, Based, Holds
<1>8. shown' \in Optional /\ overrides' \in Overrides /\ lastEvent' \in Nat
  BY <1>1 DEF EditorInv, Typed
<1>9. requests' \subseteq requests
      /\ \A q \in requests : q.kind = "save" /\ q # r => q \in requests'
  BY <1>1, Survivors
<1> QED
  BY <1>1, <1>2, <1>4, <1>5, <1>6, <1>7, <1>8, <1>9, HandledStep

LEMMA ReloadDoneStep ==
  ASSUME EditorInv, NEW r \in requests, ReloadDone(r)
  PROVE  EditorInv'
<1>1. /\ r.kind = "reload" /\ r.step = "ok" /\ IsCurrent(r)
      /\ overrides' = r.overrides /\ meta' = Loaded(r)
      /\ requests' = Surviving(requests \ {r}, r.scope)
      /\ UNCHANGED <<server, selected, shown, lastEvent, crossed>>
  BY DEF ReloadDone
<1>2. /\ meta' \in Meta /\ meta'.scope = r.scope /\ meta'.draft \in {None, r.scope}
      /\ meta'.base = r.revision /\ meta'.saved = r.overrides /\ meta'.stale = 0
      /\ ("saving" \in meta'.busy <=> "saving" \in meta.busy)
  BY <1>1, LoadedTyped
<1>3. Holds(r.scope, r.revision, r.overrides)'
  BY <1>1, Handled DEF Sound, Loads, Holds
<1>4. crossed = "nothing" => meta.scope = r.scope
  BY <1>1, Handled DEF EditorInv, Based, IsCurrent, Sound
<1>5. Noticed' /\ Based' /\ OnScreen'
  BY <1>1, <1>2, <1>3, <1>4, Handled DEF EditorInv, Noticed, Based, OnScreen
<1>6. /\ shown' \in Optional /\ overrides' \in Overrides /\ lastEvent' \in Nat /\ meta'.scope # None
      /\ crossed' \in {"nothing", "everything", "draft"}
  BY <1>1, <1>2, Handled DEF Typed
<1>7. requests' \subseteq requests
      /\ \A q \in requests : q.kind = "save" /\ q # r => q \in requests'
  BY <1>1, Survivors
<1> QED
  BY <1>1, <1>2, <1>5, <1>6, <1>7, HandledStep

LEMMA VersionDoneStep ==
  ASSUME EditorInv, NEW r \in requests, VersionDone(r)
  PROVE  EditorInv'
<1>1. CASE /\ r.kind = "version" /\ overrides' = server[r.draft][r.target]
           /\ meta' = [meta EXCEPT !.conflict = None] /\ Drop(r)
  <2>1. r.draft \in Scopes /\ r.target \in VersionsOf(r.draft)
    BY <1>1, Handled DEF Sound, Actions, VersionsOf
  <2>2. overrides' \in Overrides
    BY <1>1, <2>1, Handled, Histories
  <2>3. /\ meta' \in Meta /\ meta'.scope = meta.scope /\ meta'.draft = meta.draft
        /\ meta'.base = meta.base /\ meta'.saved = meta.saved /\ meta'.stale = meta.stale
        /\ meta'.busy = meta.busy
    BY <1>1, Handled DEF Meta, Optional
  <2>4. UNCHANGED <<server, selected, shown, lastEvent, crossed>> /\ requests' = requests \ {r}
    BY <1>1 DEF VersionDone, Drop
  <2> QED
    BY <1>1, <2>2, <2>3, <2>4, SameDraftStep
<1>2. CASE /\ r.kind = "fetch" /\ UNCHANGED <<overrides, undo, meta>>
           /\ requests' = (requests \ {r}) \union {[r EXCEPT !.kind = "rollback"]}
  <2>1. PICK q \in Request :
           /\ q = [r EXCEPT !.kind = "rollback"] /\ q.kind = "rollback" /\ q.draft = r.draft
           /\ q.target = r.target /\ q.step = r.step
    <3> DEFINE m == [r EXCEPT !.kind = "rollback"]
    <3>1. /\ m \in Request /\ m.kind = "rollback" /\ m.draft = r.draft
          /\ m.target = r.target /\ m.step = r.step
      BY Handled DEF Request, Kind, Actions
    <3> QED
      BY <3>1
  <2>2. Sound(q)
    BY <1>2, <2>1, Handled DEF Sound, Loads, Actions
  <2>3. UNCHANGED <<server, selected, shown, overrides, meta, lastEvent, crossed>>
        /\ requests' = (requests \ {r}) \union {q}
    BY <1>2, <2>1 DEF VersionDone
  <2>4. Sound(q)'
    BY <2>1, <2>2, <2>3, SameGrows, SoundStill, Handled
  <2>5. Noticed' /\ Based' /\ OnScreen'
    BY <2>3 DEF EditorInv, Noticed, Based, OnScreen, Holds
  <2>6. /\ shown' \in Optional /\ overrides' \in Overrides /\ lastEvent' \in Nat /\ meta' \in Meta
        /\ crossed' \in {"nothing", "everything", "draft"}
    BY <2>3, Handled DEF Typed
  <2> QED
    BY <1>2, <2>1, <2>3, <2>4, <2>5, <2>6, HandledStep
<1> QED
  BY <1>1, <1>2 DEF VersionDone

LEMMA WriteDoneStep ==
  ASSUME EditorInv, NEW r \in requests, WriteDone(r)
  PROVE  EditorInv'
<1>1. /\ r.kind \in {"rollback", "jira"} /\ r.step = "ok" /\ IsCurrent(r)
      /\ overrides' = r.overrides /\ requests' = requests \ {r}
      /\ meta' = [meta EXCEPT !.base = r.revision, !.saved = r.overrides, !.stale = 0,
                              !.conflict = None]
      /\ UNCHANGED <<server, selected, shown, lastEvent, crossed>>
  BY DEF WriteDone, Drop
<1>2. /\ meta' \in Meta /\ meta'.scope = meta.scope /\ meta'.draft = meta.draft
      /\ meta'.base = r.revision /\ meta'.saved = r.overrides /\ meta'.stale = 0
      /\ meta'.busy = meta.busy
  BY <1>1, Handled DEF Meta, Optional
<1>3. r.draft \in Scopes /\ r.draft # None /\ meta.draft = r.draft
  BY <1>1, Handled, NoneAssumption DEF Sound, Actions, IsCurrent
<1>4. Holds(r.draft, r.revision, r.overrides)'
  BY <1>1, Handled DEF Sound, Holds
<1>5. crossed # "draft" => meta.scope = r.draft
  BY <1>3 DEF EditorInv, Based
<1>6. Noticed' /\ Based' /\ OnScreen'
  BY <1>1, <1>2, <1>3, <1>4, <1>5 DEF EditorInv, Noticed, Based, OnScreen
<1>7. /\ shown' \in Optional /\ overrides' \in Overrides /\ lastEvent' \in Nat /\ meta'.scope # None
      /\ crossed' \in {"nothing", "everything", "draft"}
  BY <1>1, <1>2, Handled DEF Typed
<1> QED
  BY <1>1, <1>2, <1>6, <1>7, HandledStep

LEMMA IgnoredStep ==
  ASSUME EditorInv, NEW r \in requests, Ignored(r)
  PROVE  EditorInv'
<1>1. /\ r.kind \notin {"run", "load", "save"} /\ requests' = requests \ {r}
      /\ UNCHANGED <<server, selected, shown, overrides, meta, lastEvent, crossed>>
  BY DEF Ignored, Drop
<1> QED
  BY <1>1, SameDraftStep, Handled DEF Typed

\* A load that fails leaves its scope without draft.
LEMMA LoadFailsStep ==
  ASSUME EditorInv, NEW r \in requests, r.kind = "load", overrides' = NoOverrides,
         meta' = [NoDraft(r.scope) EXCEPT !.busy = Saving],
         requests' = Surviving(requests \ {r}, None), Crossing(r),
         UNCHANGED <<server, selected, shown, lastEvent>>
  PROVE  EditorInv'
<1> DEFINE d == NoDraft(r.scope)
<1>1. d \in Meta /\ d.scope = r.scope /\ d.draft = None /\ d.base = 0 /\ d.stale = 0
  BY Handled, NoDraftTyped DEF Optional
<1>2. Saving \subseteq {"saving", "loadingHistory"} /\ ("saving" \in Saving <=> "saving" \in meta.busy)
  BY DEF Saving
<1>3. meta' = [d EXCEPT !.busy = Saving]
  OBVIOUS
<1> HIDE DEF d
<1>4. /\ meta' \in Meta /\ meta'.scope = r.scope /\ meta'.draft = None /\ meta'.base = 0
      /\ meta'.stale = 0 /\ ("saving" \in meta'.busy <=> "saving" \in meta.busy)
  BY <1>1, <1>2, <1>3 DEF Meta
<1>5. /\ crossed' \in {"nothing", "everything", "draft"}
      /\ crossed' = "nothing" => crossed = "nothing" /\ meta.scope = r.scope
  BY CrossingFacts
<1>6. Noticed' /\ Based' /\ OnScreen'
  BY <1>4, <1>5 DEF EditorInv, Noticed, Based, OnScreen
<1>7. shown' \in Optional /\ overrides' \in Overrides /\ lastEvent' \in Nat /\ meta'.scope # None
  BY <1>4, Handled, OverridesAssumption DEF Typed
<1>8. requests' \subseteq requests
      /\ \A q \in requests : q.kind = "save" /\ q # r => q \in requests'
  BY Survivors
<1> QED
  BY <1>4, <1>5, <1>6, <1>7, <1>8, HandledStep

\* A run that fails, perhaps before anything was run.
LEMMA RunFailsStep ==
  ASSUME EditorInv, NEW r \in requests, r.kind = "run", requests' = requests \ {r},
         UNCHANGED <<server, selected, shown, overrides, meta, undo, lastEvent, crossed>>
  PROVE  EditorInv'
<1>1. requests' \subseteq Request /\ \A q \in requests' : Sound(q)'
  BY SameGrows, RequestsKept DEF EditorInv
<1>2. Typed' /\ OneSave'
  BY <1>1, SaveKept DEF EditorInv, Typed
<1>3. Untouched' /\ NothingToUndo' /\ Noticed' /\ Based' /\ OnScreen'
  BY DEF EditorInv, Untouched, NothingToUndo, Noticed, Based, OnScreen, Holds
<1> QED
  BY <1>1, <1>2, <1>3 DEF EditorInv

LEMMA FailsStep ==
  ASSUME EditorInv, NEW r \in requests, Fails(r)
  PROVE  EditorInv'
<1>1. UNCHANGED <<server, selected, shown, undo, lastEvent>>
  BY DEF Fails
<1>2. CASE r.kind = "run"
  BY <1>1, <1>2, RunFailsStep DEF Fails, Drop, Actions
<1>3. CASE r.kind = "load"
  BY <1>1, <1>3, LoadFailsStep DEF Fails, Actions
<1>4. CASE r.kind = "save"
  <2>1. /\ meta' = [meta EXCEPT !.busy = @ \ {"saving"}] /\ requests' = requests \ {r}
        /\ UNCHANGED <<overrides, crossed>>
    BY <1>4 DEF Fails, Drop, Actions
  <2>2. /\ meta' \in Meta /\ meta'.scope = meta.scope /\ meta'.draft = meta.draft
        /\ meta'.base = meta.base /\ meta'.saved = meta.saved /\ meta'.stale = meta.stale
        /\ "saving" \notin meta'.busy
    BY <2>1, Handled DEF Meta
  <2> QED
    BY <1>1, <1>4, <2>1, <2>2, SameDraftStep, Handled DEF Typed
<1>5. CASE r.kind = "history"
  <2> DEFINE busy == IF IsCurrent(r) THEN meta.busy \ {"loadingHistory"} ELSE meta.busy
  <2>1. /\ meta' = [meta EXCEPT !.busy = busy] /\ requests' = requests \ {r}
        /\ UNCHANGED <<overrides, crossed>>
    BY <1>5, Handled DEF Fails, Drop, Actions, Meta
  <2>2. busy \subseteq {"saving", "loadingHistory"} /\ ("saving" \in busy <=> "saving" \in meta.busy)
    BY Handled, MetaParts
  <2> HIDE DEF busy
  <2>3. /\ meta' \in Meta /\ meta'.scope = meta.scope /\ meta'.draft = meta.draft
        /\ meta'.base = meta.base /\ meta'.saved = meta.saved /\ meta'.stale = meta.stale
        /\ meta'.busy = busy
    BY <2>1, <2>2, Handled DEF Meta
  <2> QED
    BY <1>1, <1>5, <2>1, <2>2, <2>3, SameDraftStep, Handled DEF Typed
<1>6. CASE r.kind \in Actions \union {"reload"}
  <2>1. requests' = requests \ {r} /\ UNCHANGED <<overrides, meta, crossed>>
    BY <1>6 DEF Fails, Drop, Actions
  <2>2. r.kind # "run" /\ r.kind # "save"
    BY <1>6 DEF Actions
  <2> QED
    BY <1>1, <2>1, <2>2, SameDraftStep, Handled DEF Typed
<1> QED
  BY <1>2, <1>3, <1>4, <1>5, <1>6 DEF Fails

LEMMA ResponseStep ==
  ASSUME EditorInv, NEW r \in requests, Handle(r)
  PROVE  EditorInv'
BY RunDoneStep, LoadDoneStep, SaveDoneStep, ConflictedStep, HistoryDoneStep, ReloadDoneStep,
   VersionDoneStep, WriteDoneStep, IgnoredStep DEF Handle

-----------------------------------------------------------------------------
(* Every step.                                                             *)

LEMMA UserStep ==
  ASSUME EditorInv, User
  PROVE  EditorInv'
<1>1. CASE \E s \in Scopes : SelectScope(s)
  BY <1>1, SelectStep
<1>2. CASE SelectTeams \/ Discard \/ KeepEditing
  BY <1>2, TimelineStep, NoticeStep, OverridesAssumption
<1>3. CASE \E o \in Overrides : Edit(o) \/ UndoOrRedo(o)
  BY <1>3, TimelineStep
<1>4. CASE RunScenario \/ SaveDraft \/ OpenHistory \/ ReloadActive
  BY <1>4, RunStep, SaveStep, OpenHistoryStep, ReloadActiveStep
<1>5. CASE OpenVersion \/ Rollback \/ RequestReload
  BY <1>5, ActionsStep
<1> QED
  BY <1>1, <1>2, <1>3, <1>4, <1>5 DEF User

LEMMA ServerStep ==
  ASSUME EditorInv, NEW r \in requests, Server(r)
  PROVE  EditorInv'
<1>1. CASE AnswerLoad(r)
  BY <1>1, LoadAnswerStep DEF Server
<1>2. CASE AnswerWrite(r)
  BY <1>2, WriteAnswerStep DEF Server
<1> QED
  BY <1>1, <1>2 DEF Server

LEMMA NextEditorInv == EditorInv /\ [EditorNext]_editorVars => EditorInv'
<1> SUFFICES ASSUME EditorInv, [EditorNext]_editorVars PROVE EditorInv'
  OBVIOUS
<1>1. CASE User
  BY <1>1, UserStep
<1>2. CASE \E s \in Scopes, o \in Overrides : OtherSave(s, o)
  BY <1>2, OtherStep
<1>3. CASE PollEvents
  BY <1>3, NoticeStep
<1>4. CASE \E r \in requests : Server(r) \/ Handle(r) \/ Fails(r)
  BY <1>4, ServerStep, ResponseStep, FailsStep
<1>5. CASE UNCHANGED editorVars
  <2>1. UNCHANGED <<server, selected, shown, overrides, meta, undo, lastEvent, requests, crossed>>
    BY <1>5 DEF editorVars
  <2>2. Typed' /\ OneSave' /\ \A q \in requests' : Sound(q)'
    BY <2>1, QuietRequests DEF EditorInv, Typed, OneSave
  <2>3. Untouched' /\ NothingToUndo' /\ Noticed' /\ Based' /\ OnScreen'
    BY <2>1 DEF EditorInv, Untouched, NothingToUndo, Noticed, Based, OnScreen, Holds
  <2> QED
    BY <2>2, <2>3 DEF EditorInv
<1> QED
  BY <1>1, <1>2, <1>3, <1>4, <1>5 DEF EditorNext

\* loading and undo are set to truth values only.
LEMMA NextFlags == Flags /\ [EditorNext]_editorVars => Flags'
<1> SUFFICES ASSUME Flags, [EditorNext]_editorVars PROVE Flags'
  OBVIOUS
<1>1. CASE User
  <2>1. CASE \E s \in Scopes : SelectScope(s)
    BY <2>1, Zenon DEF Flags, SelectScope
  <2>2. CASE SelectTeams \/ Discard \/ KeepEditing
    BY <2>2, Zenon DEF Flags, SelectTeams, Discard, KeepEditing
  <2>3. CASE \E o \in Overrides : Edit(o) \/ UndoOrRedo(o)
    BY <2>3, Zenon DEF Flags, Edit, UndoOrRedo
  <2>4. CASE RunScenario \/ SaveDraft \/ OpenHistory \/ ReloadActive
    BY <2>4, Zenon DEF Flags, RunScenario, SaveDraft, OpenHistory, ReloadActive, Asks
  <2>5. CASE OpenVersion \/ Rollback \/ RequestReload
    BY <2>5, Zenon DEF Flags, OpenVersion, Rollback, RequestReload, HistoryAction
  <2> QED
    BY <1>1, <2>1, <2>2, <2>3, <2>4, <2>5, Zenon DEF User
<1>2. CASE \E s \in Scopes, o \in Overrides : OtherSave(s, o)
  BY <1>2, Zenon DEF Flags, OtherSave
<1>3. CASE PollEvents
  BY <1>3, Zenon DEF Flags, PollEvents
<1>4. CASE \E r \in requests : Server(r) \/ Handle(r) \/ Fails(r)
  <2> SUFFICES ASSUME NEW r \in requests, Server(r) \/ Handle(r) \/ Fails(r)
               PROVE  Flags'
    BY <1>4
  <2>1. CASE Server(r)
    BY <2>1, Zenon DEF Flags, Server
  <2>2. CASE Handle(r)
    <3>1. undo' \in {undo, FALSE} /\ loading' \in {loading, FALSE}
      <4>1. CASE RunDone(r) \/ LoadDone(r) \/ SaveDone(r)
        BY <4>1, Zenon DEF RunDone, LoadDone, SaveDone
      <4>2. CASE Conflicted(r) \/ HistoryDone(r) \/ ReloadDone(r)
        BY <4>2, Zenon DEF Conflicted, HistoryDone, ReloadDone
      <4>3. CASE VersionDone(r) \/ WriteDone(r) \/ Ignored(r)
        BY <4>3, Zenon DEF VersionDone, WriteDone, Ignored
      <4> QED
        BY <2>2, <4>1, <4>2, <4>3, Zenon DEF Handle
    <3> QED
      BY <3>1, Zenon DEF Flags
  <2>3. CASE Fails(r)
    BY <2>3, Zenon DEF Flags, Fails
  <2> QED
    BY <2>1, <2>2, <2>3
<1>5. CASE UNCHANGED editorVars
  BY <1>5, Zenon DEF Flags, editorVars
<1> QED
  BY <1>1, <1>2, <1>3, <1>4, <1>5 DEF EditorNext

LEMMA OneSaveCounted == Typed /\ OneSave => OneSaveInFlight
<1> SUFFICES ASSUME Typed, OneSave PROVE OneSaveInFlight
  OBVIOUS
<1> DEFINE saves == {r \in requests : r.kind = "save"}
<1>1. CASE "saving" \in meta.busy
  <2>1. PICK r \in requests : r.kind = "save" /\ \A q \in requests : q.kind = "save" => q = r
    BY <1>1 DEF OneSave
  <2>2. saves = {r}
    BY <2>1
  <2> QED
    BY <1>1, <2>2, FS_Singleton DEF OneSaveInFlight
<1>2. CASE "saving" \notin meta.busy
  BY <1>2 DEF OneSave, OneSaveInFlight
<1> QED
  BY <1>1, <1>2

LEMMA KeptEdits == EditorInv /\ Flags => EditsKept
<1> SUFFICES ASSUME EditorInv, Flags PROVE EditsKept
  OBVIOUS
<1>1. EditorTypeOK
  <2>1. Typed
    BY DEF EditorInv
  <2>2. loading \in BOOLEAN /\ undo \in BOOLEAN
    BY Zenon DEF Flags
  <2> QED
    BY <2>1, <2>2, Zenon DEF Typed, EditorTypeOK
<1>2. SavedIsStored
  BY DEF EditorInv, Based, Holds, SavedIsStored
<1>3. OneSaveInFlight
  BY OneSaveCounted DEF EditorInv
<1> QED
  BY <1>1, <1>2, <1>3 DEF EditsKept

LEMMA InitFlags == EditorInit => Flags
BY Zenon DEF EditorInit, Flags

(* Whatever is edited, switched, saved, reloaded and rolled back, and       *)
(* however the answers overtake each other: what the editor compares its    *)
(* edits with is a version of the draft that the next save is based on, and *)
(* the Save button waits for exactly the one save on its way.               *)
THEOREM EditsAreKept == EditorSpec => []EditsKept
<1>1. EditorSpec => []EditorInv
  BY InitEditorInv, NextEditorInv, PTL DEF EditorSpec
<1>2. EditorSpec => []Flags
  BY InitFlags, NextFlags, PTL DEF EditorSpec
<1> QED
  BY <1>1, <1>2, KeptEdits, PTL

(* As long as no save, load or history is answered after a switch, the      *)
(* timeline on the screen, the edits and the history are of one draft.      *)
THEOREM TimelineOfDraft == EditorSpec => []TimelineMatchesDraft
<1>1. EditorSpec => []EditorInv
  BY InitEditorInv, NextEditorInv, PTL DEF EditorSpec
<1>2. EditorInv => TimelineMatchesDraft
  BY DEF EditorInv, Based, OnScreen, TimelineMatchesDraft
<1> QED
  BY <1>1, <1>2, PTL
==============================================================================
