------------------------ MODULE ScenarioDraftsProofs ------------------------
(***************************************************************************)
(* What holds of ScenarioDrafts for every set of requests, and that it     *)
(* implements DraftHistory.  IInv is inductive: only one request at a time *)
(* has written the draft row (OneWriter), so between its UPDATE and its    *)
(* commit neither the revision it compared nor the numbers it read change. *)
(***************************************************************************)
EXTENDS ScenarioDrafts, SequenceTheorems, TLAPS

USE RequestsAssumption

\* The initial state: no draft, no rows, no request begun.
LEMMA InitIInv == Init => IInv
<1> SUFFICES ASSUME Init PROVE IInv
  OBVIOUS
<1>1. TypeOK
  BY DEF Init, TypeOK, IdleTxn, Txn, Phase, Op, Result, Contents, Writers, Draft, Version, Event
<1>2. OneWriter
  BY DEF Init, OneWriter, IdleTxn, Holding
<1>3. SessionConsistent
  BY DEF Init, SessionConsistent, IdleTxn, Holding
<1>4. DraftIsLastVersion /\ NoLostUpdate /\ EveryVersionAnnounced
  BY DEF Init, DraftIsLastVersion, NoLostUpdate, EveryVersionAnnounced
<1>5. EventsBounded /\ EventsFollowRevisions /\ NumbersAreFree
  BY DEF Init, EventsBounded, EventsFollowRevisions, NumbersAreFree, IdleTxn
<1>6. QED BY <1>1, <1>2, <1>3, <1>4, <1>5 DEF IInv

\* Types are preserved by every step.
LEMMA TypeStep == TypeOK /\ [Next]_vars => TypeOK'
<1> SUFFICES ASSUME TypeOK, [Next]_vars PROVE TypeOK'
  OBVIOUS
<1> USE DEF TypeOK, Go, Answered, ConflictShowing, stored
<1>0. ASSUME NEW r \in Requests
      PROVE  /\ txn[r] \in Txn /\ r \in Contents /\ r \in Writers /\ Legacy \in Contents
             /\ draft.revision \in Nat /\ draft.contents \in Contents /\ draft.by \in Writers
             /\ txn[r].revision \in Nat /\ txn[r].contents \in Contents /\ txn[r].base \in Nat
             /\ txn[r].op \in Op
  BY DEF Contents, Writers, Draft, Txn
<1>1. ASSUME NEW r \in Requests, Begin(r) PROVE TypeOK'
  <2>a. /\ txn[r] \in Txn /\ r \in Contents /\ r \in Writers /\ Legacy \in Contents
        /\ draft.revision \in Nat /\ draft.contents \in Contents /\ draft.by \in Writers
        /\ txn[r].revision \in Nat /\ txn[r].contents \in Contents /\ txn[r].base \in Nat
        /\ txn[r].op \in Op
    BY <1>0
  <2>1. ASSUME NEW op \in {"save", "rollback"}, NEW base \in 0 .. draft.revision,
               NEW contents \in Contents, LoadDraft(r, op, base, contents)
        PROVE  TypeOK'
    <3> DEFINE request == [txn[r] EXCEPT !.op = op, !.base = base, !.contents = contents]
    <3>0. base \in Nat
      BY <2>a
    <3>1. request \in Txn
      BY <2>a, <3>0 DEF Txn, Op
    <3> HIDE DEF request
    <3>2. /\ [request EXCEPT !.pc = "loaded", !.revision = draft.revision] \in Txn
          /\ [request EXCEPT !.pc = "done", !.result = "conflict", !.shown = draft.revision,
                             !.author = draft.by] \in Txn
      BY <2>a, <3>1 DEF Txn, Phase, Result
    <3>3. QED BY <2>1, <3>2 DEF LoadDraft, request
  <2>2. CASE LoadForSave(r)
    BY <2>a, <2>1, <2>2 DEF LoadForSave
  <2>3. CASE LoadForRollback(r)
    <3>0. \A n \in 1 .. Len(versions) : versions[n] \in Version
      OBVIOUS
    <3>1. \A n \in 1 .. Len(versions) : versions[n].contents \in Contents
      BY <3>0 DEF Version
    <3>2. QED BY <2>a, <2>1, <2>3, <3>1 DEF LoadForRollback
  <2>4. CASE LoadNothing(r)
    <3>1. /\ [txn[r] EXCEPT !.pc = "inserting"] \in Txn
          /\ [txn[r] EXCEPT !.pc = "inserting", !.op = "import", !.contents = Legacy] \in Txn
      BY <2>a DEF Txn, Op, Phase, Result
    <3>2. QED BY <2>4, <3>1 DEF LoadNothing
  <2>5. CASE SnapshotForReload(r)
    <3>0. \A base \in 1 .. draft.revision : base \in Nat
      BY <2>a
    <3>1. ASSUME NEW base \in 1 .. draft.revision
          PROVE  [txn[r] EXCEPT !.op = "reload", !.base = base] \in Txn
      BY <2>a, <3>0 DEF Txn, Op
    <3>2. ASSUME NEW request \in Txn
          PROVE  /\ [request EXCEPT !.pc = "fetching"] \in Txn
                 /\ [request EXCEPT !.pc = "done", !.result = "conflict",
                                    !.shown = draft.revision, !.author = draft.by] \in Txn
      BY <2>a DEF Txn, Op, Phase, Result
    <3>3. QED BY <2>5, <3>1, <3>2 DEF SnapshotForReload
  <2>6. CASE LockForEvent(r)
    <3>1. [txn[r] EXCEPT !.pc = "written", !.op = "event", !.revision = draft.revision] \in Txn
      BY <2>a DEF Txn, Op, Phase, Result
    <3>2. QED BY <2>6, <3>1 DEF LockForEvent
  <2>7. QED BY <1>1, <2>2, <2>3, <2>4, <2>5, <2>6 DEF Begin
<1>2. ASSUME NEW r \in Requests, Continue(r) \/ RequestFails(r) PROVE TypeOK'
  <2>a. /\ txn[r] \in Txn /\ r \in Contents /\ r \in Writers /\ Legacy \in Contents
        /\ draft.revision \in Nat /\ draft.contents \in Contents /\ draft.by \in Writers
        /\ txn[r].revision \in Nat /\ txn[r].contents \in Contents /\ txn[r].base \in Nat
        /\ txn[r].op \in Op
    BY <1>0
  <2>0. \A n \in Nat : n + 1 \in Nat
    OBVIOUS
  <2>1. CASE InsertDraft(r)
    <3>1. [txn[r] EXCEPT !.pc = "written", !.revision = 1] \in Txn
      BY <2>a DEF Txn, Op, Phase, Result
    <3>2. QED BY <2>1, <3>1 DEF InsertDraft
  <2>2. CASE InsertRefused(r)
    <3>1. /\ [txn[r] EXCEPT !.pc = "clash"] \in Txn
          /\ [txn[r] EXCEPT !.pc = "done", !.result = "error"] \in Txn
      BY <2>a DEF Txn, Op, Phase, Result
    <3>2. QED BY <2>2, <3>1 DEF InsertRefused
  <2>3. CASE ConflictForScope(r) \/ LockForReload(r) \/ UpdateMatchedNothing(r)
    <3>1. \A n \in Nat : \A a \in Writers :
            [txn[r] EXCEPT !.pc = "done", !.result = "conflict", !.shown = n, !.author = a] \in Txn
      BY <2>a DEF Txn, Op, Phase, Result
    <3>2. \A n \in Nat :
            [txn[r] EXCEPT !.pc = "written", !.contents = draft.contents, !.revision = n] \in Txn
      BY <2>a DEF Txn, Op, Phase, Result
    <3>3. CASE LockForReload(r)
      BY <2>a, <2>0, <3>1, <3>2, <3>3 DEF LockForReload
    <3>4. CASE ConflictForScope(r)
      BY <2>a, <3>1, <3>4 DEF ConflictForScope
    <3>5. CASE UpdateMatchedNothing(r)
      BY <2>a, <2>0, <3>1, <3>5 DEF UpdateMatchedNothing
    <3>6. QED BY <2>3, <3>3, <3>4, <3>5
  <2>4. CASE UpdateDraft(r)
    <3>1. \A n \in Nat : [txn[r] EXCEPT !.pc = "written", !.revision = n] \in Txn
      BY <2>a DEF Txn, Op, Phase, Result
    <3>2. QED BY <2>a, <2>0, <2>4, <3>1 DEF UpdateDraft
  <2>5. CASE NumberRows(r)
    <3>1. \A n, m \in Nat : [txn[r] EXCEPT !.pc = "numbered", !.version = n, !.event = m] \in Txn
      BY <2>a DEF Txn, Op, Phase, Result
    <3>2. Len(versions) + 1 \in Nat /\ Len(events) + 1 \in Nat
      OBVIOUS
    <3>3. QED BY <2>5, <3>1, <3>2 DEF NumberRows
  <2>6. CASE CommitDraft(r)
    <3>1. [txn[r] EXCEPT !.pc = "done", !.result = "saved"] \in Txn
      BY <2>a DEF Txn, Op, Phase, Result
    <3>2. NewVersion(r) \in Version
      BY <2>a DEF NewVersion, SourceOf, Version, Source
    <3>3. [revision |-> txn[r].revision, kind |-> "draft"] \in Event
      BY <2>a DEF Event
    <3>4. [revision |-> txn[r].revision, contents |-> txn[r].contents, by |-> r] \in Draft
      BY <2>a DEF Draft
    <3>5. versions' \in Seq(Version) /\ events' \in Seq(Event)
      BY <2>6, <3>2, <3>3 DEF CommitDraft, EventsWithDraft
    <3>6. QED BY <2>6, <3>1, <3>4, <3>5 DEF CommitDraft
  <2>7. CASE CommitEvent(r)
    <3>1. [txn[r] EXCEPT !.pc = "done", !.result = "appended"] \in Txn
      BY <2>a DEF Txn, Op, Phase, Result
    <3>2. [revision |-> txn[r].revision, kind |-> "activity"] \in Event
      BY <2>a DEF Event
    <3>3. events' \in Seq(Event)
      BY <2>7, <3>2 DEF CommitEvent
    <3>4. QED BY <2>7, <3>1, <3>3 DEF CommitEvent
  <2>8. CASE RequestFails(r)
    <3>1. [txn[r] EXCEPT !.pc = "done", !.result = "error"] \in Txn
      BY <2>a DEF Txn, Op, Phase, Result
    <3>2. QED BY <2>8, <3>1 DEF RequestFails
  <2>9. QED BY <1>2, <2>1, <2>2, <2>3, <2>4, <2>5, <2>6, <2>7, <2>8 DEF Continue
<1>3. CASE UNCHANGED vars
  BY <1>3 DEF vars
<1>4. QED BY <1>1, <1>2, <1>3 DEF Next

-----------------------------------------------------------------------------
(* The invariant, one action at a time.                                    *)

\* What ties the sessions to the rows; the rest of IInv is about rows only.
SessionsInv == OneWriter /\ SessionConsistent /\ NumbersAreFree

\* A step that stores nothing has only the sessions' part to preserve.
LEMMA StoredKept ==
  ASSUME IInv, TypeOK', UNCHANGED stored, SessionsInv'
  PROVE  IInv'
BY DEF IInv, SessionsInv, stored, DraftIsLastVersion, NoLostUpdate, EventsBounded,
       EventsFollowRevisions, EveryVersionAnnounced

\* What a session that has not written the draft row may hold.
Waiting(x) ==
    /\ x.pc \notin {"idle", "written", "numbered"}
    /\ x.pc = "loaded" => x.op \in {"save", "rollback"} /\ x.revision = x.base
    /\ x.pc = "inserting" => x.op \in {"save", "import"} /\ x.base = 0
    /\ x.pc = "fetching" => x.op = "reload"
    /\ x.pc # "done" => x.result = "none"

\* A step from and to such a session disturbs no other one.
LEMMA WaitingStep ==
  ASSUME IInv, TypeOK', UNCHANGED <<stored, lock>>, NEW r \in Requests, NEW x, Waiting(x),
         Go(r, x), txn[r].pc \notin Holding
  PROVE  IInv'
<1>1. txn \in [Requests -> Txn]
  BY DEF IInv, TypeOK
<1>2. SessionsInv'
  BY <1>1 DEF IInv, SessionsInv, OneWriter, SessionConsistent, NumbersAreFree, Holding, stored,
     Waiting, Go
<1>3. QED BY <1>2, StoredKept

\* A request that ends so, with a conflict or an error.
LEMMA EndStep ==
  ASSUME IInv, TypeOK', UNCHANGED <<stored, lock>>, NEW r \in Requests, txn[r].pc \notin Holding,
         \/ Answered(r, "error")
         \/ \E x \in Txn, n \in Nat, a \in Writers : ConflictShowing(r, x, n, a)
  PROVE  IInv'
<1>0. txn[r] \in Txn
  BY DEF IInv, TypeOK
<1>1. CASE Answered(r, "error")
  <2> DEFINE y == [txn[r] EXCEPT !.pc = "done", !.result = "error"]
  <2>1. Waiting(y)
    BY <1>0 DEF Waiting, Txn
  <2>2. Go(r, y)
    BY <1>1 DEF Answered
  <2> HIDE DEF y
  <2>3. QED BY <2>1, <2>2, WaitingStep
<1>2. CASE \E x \in Txn, n \in Nat, a \in Writers : ConflictShowing(r, x, n, a)
  <2>0. PICK x \in Txn, n \in Nat, a \in Writers : ConflictShowing(r, x, n, a)
    BY <1>2
  <2> DEFINE y == [x EXCEPT !.pc = "done", !.result = "conflict", !.shown = n, !.author = a]
  <2>1. Waiting(y)
    BY DEF Waiting, Txn
  <2>2. Go(r, y)
    BY <2>0 DEF ConflictShowing
  <2> HIDE DEF y
  <2>3. QED BY <2>1, <2>2, WaitingStep
<1>3. QED BY <1>1, <1>2

\* Writing or locking the free draft row.
LEMMA LockStep ==
  ASSUME IInv, TypeOK', UNCHANGED stored, lock = NoRequest, NEW r \in Requests, lock' = r, NEW y,
         txn' = [txn EXCEPT ![r] = y], y.pc = "written", y.result = "none",
         IF y.op = "event" THEN y.revision = draft.revision
         ELSE y.base = draft.revision /\ y.revision = draft.revision + 1
  PROVE  IInv'
<1>1. txn \in [Requests -> Txn] /\ \A q \in Requests : txn[q].pc \notin Holding
  BY RequestsAssumption DEF IInv, TypeOK, OneWriter
<1>2. OneWriter' /\ NumbersAreFree'
  BY <1>1 DEF OneWriter, NumbersAreFree, Holding
<1>3. SessionConsistent'
  BY <1>1 DEF IInv, SessionConsistent, Holding, stored
<1>4. QED BY <1>2, <1>3, StoredKept DEF SessionsInv

\* The first step of a request.
LEMMA BeginStep ==
  ASSUME IInv, TypeOK', NEW r \in Requests, Begin(r)
  PROVE  IInv'
<1>0. /\ txn[r] \in Txn /\ draft.revision \in Nat /\ draft.by \in Writers
      /\ \A n \in 1 .. Len(versions) : versions[n].contents \in Contents
  <2>1. \A n \in 1 .. Len(versions) : versions[n] \in Version
    BY DEF IInv, TypeOK
  <2>2. QED BY <2>1 DEF IInv, TypeOK, Draft, Version
<1>1. txn[r].pc = "idle"
  BY DEF Begin, LoadForSave, LoadForRollback, LoadDraft, LoadNothing, SnapshotForReload, LockForEvent
<1>2. txn[r] = IdleTxn(r) /\ txn[r].pc \notin Holding
  BY <1>1 DEF IInv, SessionConsistent, Holding
<1>a. txn[r].result = "none"
  BY <1>2 DEF IdleTxn
<1>3. ASSUME NEW op \in {"save", "rollback"}, NEW base \in 0 .. draft.revision,
             NEW contents \in Contents, LoadDraft(r, op, base, contents)
      PROVE  IInv'
  <2> DEFINE x == [txn[r] EXCEPT !.op = op, !.base = base, !.contents = contents]
  <2>0. base \in Nat
    BY <1>0
  <2>1. x \in Txn /\ x.op = op /\ x.base = base /\ x.result = "none"
    BY <1>0, <1>a, <2>0 DEF Txn, Op
  <2>2. UNCHANGED <<stored, lock>>
    BY <1>3 DEF LoadDraft
  <2>3. CASE base = draft.revision
    <3> DEFINE y == [x EXCEPT !.pc = "loaded", !.revision = draft.revision]
    <3>1. Go(r, y)
      BY <1>3, <2>3 DEF LoadDraft
    <3> HIDE DEF x
    <3>2. Waiting(y)
      BY <2>1, <2>3 DEF Txn, Waiting
    <3> HIDE DEF y
    <3>3. QED BY <1>2, <2>2, <3>1, <3>2, WaitingStep
  <2>4. CASE base # draft.revision
    <3>1. ConflictShowing(r, x, draft.revision, draft.by)
      BY <1>3, <2>4 DEF LoadDraft
    <3> HIDE DEF x
    <3>2. QED BY <1>0, <1>2, <2>1, <2>2, <3>1, EndStep
  <2>5. QED BY <2>3, <2>4
<1>4. CASE LoadForSave(r)
  BY <1>3, <1>4 DEF LoadForSave, Contents
<1>5. CASE LoadForRollback(r)
  <2>1. PICK base \in 1 .. draft.revision, target \in 1 .. Len(versions) :
          LoadDraft(r, "rollback", base, versions[target].contents)
    BY <1>5 DEF LoadForRollback
  <2>2. base \in 0 .. draft.revision /\ versions[target].contents \in Contents
    BY <1>0
  <2>3. QED BY <1>3, <2>1, <2>2
<1>6. CASE LoadNothing(r)
  <2> DEFINE x == [txn[r] EXCEPT !.pc = "inserting"]
             y == [txn[r] EXCEPT !.pc = "inserting", !.op = "import", !.contents = Legacy]
  <2>1. Waiting(x) /\ Waiting(y)
    BY <1>0, <1>2 DEF Txn, Waiting, IdleTxn
  <2>2. (Go(r, x) \/ Go(r, y)) /\ UNCHANGED <<stored, lock>>
    BY <1>6 DEF LoadNothing
  <2> HIDE DEF x, y
  <2>3. QED BY <1>2, <2>1, <2>2, WaitingStep
<1>7. CASE SnapshotForReload(r)
  <2>0. PICK base \in 1 .. draft.revision :
          LET request == [txn[r] EXCEPT !.op = "reload", !.base = base]
          IN  IF base = draft.revision
                THEN Go(r, [request EXCEPT !.pc = "fetching"])
                ELSE ConflictShowing(r, request, draft.revision, draft.by)
    BY <1>7 DEF SnapshotForReload
  <2> DEFINE x == [txn[r] EXCEPT !.op = "reload", !.base = base]
  <2>a. base \in Nat
    BY <1>0
  <2>1. x \in Txn /\ x.op = "reload" /\ x.result = "none"
    BY <1>0, <1>a, <2>a DEF Txn, Op
  <2>2. UNCHANGED <<stored, lock>>
    BY <1>7 DEF SnapshotForReload
  <2>3. CASE base = draft.revision
    <3> DEFINE y == [x EXCEPT !.pc = "fetching"]
    <3>1. Go(r, y)
      BY <2>0, <2>3
    <3> HIDE DEF x
    <3>2. Waiting(y)
      BY <2>1 DEF Txn, Waiting
    <3> HIDE DEF y
    <3>3. QED BY <1>2, <2>2, <3>1, <3>2, WaitingStep
  <2>4. CASE base # draft.revision
    <3>1. ConflictShowing(r, x, draft.revision, draft.by)
      BY <2>0, <2>4
    <3> HIDE DEF x
    <3>2. QED BY <1>0, <1>2, <2>1, <2>2, <3>1, EndStep
  <2>5. QED BY <2>3, <2>4
<1>8. CASE LockForEvent(r)
  <2> DEFINE y == [txn[r] EXCEPT !.pc = "written", !.op = "event", !.revision = draft.revision]
  <2>1. txn' = [txn EXCEPT ![r] = y] /\ lock = NoRequest /\ lock' = r /\ UNCHANGED stored
    BY <1>8 DEF LockForEvent, Go
  <2>2. /\ y.pc = "written" /\ y.op = "event" /\ y.revision = draft.revision
        /\ y.result = "none"
    BY <1>0, <1>2 DEF Txn, IdleTxn
  <2> HIDE DEF y
  <2>3. QED BY <2>1, <2>2, LockStep
<1>9. QED BY <1>4, <1>5, <1>6, <1>7, <1>8 DEF Begin

\* The middle of a request.
LEMMA MiddleStep ==
  ASSUME IInv, TypeOK', NEW r \in Requests,
         \/ InsertDraft(r) \/ InsertRefused(r) \/ ConflictForScope(r) \/ UpdateDraft(r)
         \/ UpdateMatchedNothing(r) \/ LockForReload(r)
  PROVE  IInv'
<1>0. txn[r] \in Txn /\ draft.revision \in Nat /\ draft.by \in Writers /\ r \in Writers
  BY DEF IInv, TypeOK, Draft, Writers
<1>a. /\ txn[r].pc \in {"loaded", "inserting", "fetching", "clash"} /\ txn[r].pc \notin Holding
      /\ txn[r].result = "none"
  BY DEF InsertDraft, InsertRefused, ConflictForScope, UpdateDraft, UpdateMatchedNothing,
         LockForReload, IInv, SessionConsistent, Holding
<1>1. CASE InsertDraft(r)
  <2> DEFINE y == [txn[r] EXCEPT !.pc = "written", !.revision = 1]
  <2>1. /\ txn' = [txn EXCEPT ![r] = y] /\ lock = NoRequest /\ lock' = r /\ UNCHANGED stored
        /\ draft.revision = 0 /\ txn[r].op # "event" /\ txn[r].base = 0
    BY <1>1 DEF InsertDraft, Go, IInv, SessionConsistent
  <2>2. /\ y.pc = "written" /\ y.op # "event" /\ y.base = 0 /\ y.revision = 0 + 1
        /\ y.result = "none"
    BY <1>0, <1>a, <2>1 DEF Txn
  <2> HIDE DEF y
  <2>3. QED BY <2>1, <2>2, LockStep
<1>2. CASE InsertRefused(r)
  <2> DEFINE y == [txn[r] EXCEPT !.pc = "clash"]
  <2>1. UNCHANGED <<stored, lock>> /\ (Go(r, y) \/ Answered(r, "error"))
    BY <1>2 DEF InsertRefused
  <2>2. Waiting(y)
    BY <1>0, <1>a DEF Txn, Waiting
  <2> HIDE DEF y
  <2>3. QED BY <1>a, <2>1, <2>2, WaitingStep, EndStep
<1>3. CASE ConflictForScope(r)
  BY <1>0, <1>3, <1>a, EndStep DEF ConflictForScope
<1>4. CASE UpdateDraft(r)
  <2> DEFINE y == [txn[r] EXCEPT !.pc = "written", !.revision = txn[r].revision + 1]
  <2>1. /\ txn' = [txn EXCEPT ![r] = y] /\ lock = NoRequest /\ lock' = r /\ UNCHANGED stored
        /\ txn[r].base = draft.revision /\ txn[r].revision = txn[r].base /\ txn[r].op # "event"
    BY <1>4 DEF UpdateDraft, BaseIsCurrent, Go, IInv, SessionConsistent
  <2>2. /\ y.pc = "written" /\ y.op # "event" /\ y.base = draft.revision
        /\ y.revision = draft.revision + 1 /\ y.result = "none"
    BY <1>0, <1>a, <2>1 DEF Txn
  <2> HIDE DEF y
  <2>3. QED BY <2>1, <2>2, LockStep
<1>5. CASE UpdateMatchedNothing(r)
  <2>1. txn[r].revision + 1 \in Nat
    BY <1>0 DEF Txn
  <2>2. QED BY <1>0, <1>5, <1>a, <2>1, EndStep DEF UpdateMatchedNothing
<1>6. CASE LockForReload(r)
  <2>1. CASE BaseIsCurrent(r)
    <3> DEFINE y == [txn[r] EXCEPT !.pc = "written", !.contents = draft.contents,
                                   !.revision = draft.revision + 1]
    <3>1. /\ txn' = [txn EXCEPT ![r] = y] /\ lock = NoRequest /\ lock' = r /\ UNCHANGED stored
          /\ txn[r].base = draft.revision /\ txn[r].op # "event"
      BY <1>6, <2>1 DEF LockForReload, BaseIsCurrent, Go, IInv, SessionConsistent
    <3>2. /\ y.pc = "written" /\ y.op # "event" /\ y.base = draft.revision
          /\ y.revision = draft.revision + 1 /\ y.result = "none"
      BY <1>0, <1>a, <3>1 DEF Txn
    <3> HIDE DEF y
    <3>3. QED BY <3>1, <3>2, LockStep
  <2>2. CASE ~BaseIsCurrent(r)
    BY <1>0, <1>6, <1>a, <2>2, EndStep DEF LockForReload
  <2>3. QED BY <2>1, <2>2
<1>7. QED BY <1>1, <1>2, <1>3, <1>4, <1>5, <1>6

\* The numbers are read and the rows committed under the lock.
LEMMA NumberStep ==
  ASSUME IInv, TypeOK', NEW r \in Requests, NumberRows(r)
  PROVE  IInv'
<1>1. txn \in [Requests -> Txn] /\ txn[r] \in Txn
  BY DEF IInv, TypeOK
<1> DEFINE y == [txn[r] EXCEPT !.pc = "numbered", !.version = Len(versions) + 1,
                               !.event = Len(events) + 1]
<1>2. /\ y.pc = "numbered" /\ y.version = Len(versions) + 1 /\ y.event = Len(events) + 1
      /\ y.op = txn[r].op /\ y.revision = txn[r].revision /\ y.base = txn[r].base
      /\ y.result = txn[r].result
  BY <1>1 DEF Txn
<1>3. txn[r].pc = "written" /\ txn' = [txn EXCEPT ![r] = y] /\ UNCHANGED <<stored, lock>>
  BY DEF NumberRows, Go
<1> HIDE DEF y
<1>4. SessionsInv'
  BY <1>1, <1>2, <1>3 DEF SessionsInv, IInv, OneWriter, SessionConsistent, NumbersAreFree, Holding,
     stored
<1>5. QED BY <1>3, <1>4, StoredKept

\* Any failure gives the row back.
LEMMA FailStep ==
  ASSUME IInv, TypeOK', NEW r \in Requests, RequestFails(r)
  PROVE  IInv'
<1>1. txn \in [Requests -> Txn] /\ txn[r] \in Txn
  BY DEF IInv, TypeOK
<1> DEFINE y == [txn[r] EXCEPT !.pc = "done", !.result = "error"]
<1>2. y.pc = "done"
  BY <1>1 DEF Txn
<1>3. /\ txn' = [txn EXCEPT ![r] = y] /\ UNCHANGED stored
      /\ lock' = IF lock = r THEN NoRequest ELSE lock
  BY DEF RequestFails, Answered, Go
<1> HIDE DEF y
<1>4. SessionsInv'
  BY <1>1, <1>2, <1>3, RequestsAssumption DEF SessionsInv, IInv, OneWriter, SessionConsistent,
     NumbersAreFree, Holding, stored
<1>5. QED BY <1>3, <1>4, StoredKept

\* The commit of the row's holder: nobody else is between its reads and its
\* commit, so the other sessions keep what they hold.
LEMMA CommitSessions ==
  ASSUME IInv, NEW r \in Requests, lock = r, lock' = NoRequest, NEW y, y.pc = "done",
         txn' = [txn EXCEPT ![r] = y]
  PROVE  SessionsInv'
<1>1. txn \in [Requests -> Txn] /\ \A q \in Requests : q # r => txn[q].pc \notin Holding
  BY DEF IInv, TypeOK, OneWriter
<1>2. OneWriter' /\ NumbersAreFree'
  BY <1>1, RequestsAssumption DEF OneWriter, NumbersAreFree, Holding
<1>3. SessionConsistent'
  BY <1>1 DEF IInv, SessionConsistent, Holding
<1>4. QED BY <1>2, <1>3 DEF SessionsInv

\* A version: the draft, its history and its event move on together.
LEMMA CommitDraftStep ==
  ASSUME IInv, TypeOK', NEW r \in Requests, CommitDraft(r)
  PROVE  IInv'
<1> DEFINE n == Len(versions)
           m == Len(events)
           v == NewVersion(r)
           e == [revision |-> txn[r].revision, kind |-> "draft"]
<1>0. /\ versions \in Seq(Version) /\ events \in Seq(Event) /\ n \in Nat /\ m \in Nat
      /\ txn[r] \in Txn /\ draft.revision \in Nat
  BY DEF IInv, TypeOK, Draft
<1>1. /\ txn[r].pc = "numbered" /\ txn[r].op # "event" /\ lock = r
      /\ draft.revision = n /\ txn[r].base = n /\ txn[r].revision = n + 1
  BY DEF CommitDraft, IInv, OneWriter, SessionConsistent, DraftIsLastVersion, Holding
<1>2. /\ v.revision = n + 1 /\ v.base = n /\ v.contents = txn[r].contents /\ v.by = r
      /\ v.source = SourceOf(txn[r].op) /\ e.revision = n + 1 /\ e.kind = "draft"
  BY <1>1 DEF NewVersion
<1>3. versions' = Append(versions, v)
  BY DEF CommitDraft
<1>4. events' = IF txn[r].op = "import" THEN events ELSE Append(events, e)
  BY DEF CommitDraft, EventsWithDraft
<1>5. draft' = [revision |-> n + 1, contents |-> txn[r].contents, by |-> r]
  BY <1>1 DEF CommitDraft
<1>6. SessionsInv'
  <2> DEFINE y == [txn[r] EXCEPT !.pc = "done", !.result = "saved"]
  <2>1. y.pc = "done"
    BY <1>0 DEF Txn
  <2>2. txn' = [txn EXCEPT ![r] = y] /\ lock' = NoRequest
    BY DEF CommitDraft, Answered, Go
  <2> HIDE DEF y
  <2>3. QED BY <1>1, <2>1, <2>2, CommitSessions
<1>7. v.source # "legacy_json" => txn[r].op # "import"
  BY <1>2 DEF SourceOf
<1> HIDE DEF v, e
<1>8. /\ Len(versions') = n + 1 /\ versions'[n + 1] = v
      /\ \A i \in 1 .. n : versions'[i] = versions[i]
  BY <1>0, <1>3
<1>9. /\ Len(events') \in {m, m + 1}
      /\ Len(events') = m + 1 => events'[m + 1] = e
      /\ \A i \in 1 .. m : events'[i] = events[i]
      /\ txn[r].op # "import" => Len(events') = m + 1
  BY <1>0, <1>4
<1>10. DraftIsLastVersion' /\ NoLostUpdate'
  BY <1>0, <1>2, <1>3, <1>5, <1>8 DEF IInv, DraftIsLastVersion, NoLostUpdate
<1>11. \A i \in 1 .. m : events[i].revision <= n
  BY <1>1 DEF IInv, EventsBounded
<1>12. \A i \in 1 .. m : events[i] \in Event
  BY <1>0
<1>13. \A i \in 1 .. m : events[i].revision \in Nat
  BY <1>12 DEF Event
<1>14. EventsBounded' /\ EventsFollowRevisions'
  BY <1>0, <1>2, <1>5, <1>9, <1>11, <1>13 DEF IInv, EventsBounded, EventsFollowRevisions
<1>15. EveryVersionAnnounced'
  <2>1. ASSUME NEW k \in 1 .. n, versions[k].source # "legacy_json"
        PROVE  \E i \in 1 .. Len(events') : events'[i].kind = "draft" /\ events'[i].revision = k
    BY <1>0, <1>9, <2>1 DEF IInv, EveryVersionAnnounced
  <2>2. ASSUME v.source # "legacy_json"
        PROVE  \E i \in 1 .. Len(events') : events'[i].kind = "draft" /\ events'[i].revision = n + 1
    BY <1>0, <1>2, <1>7, <1>9, <2>2
  <2>3. QED BY <1>0, <1>8, <2>1, <2>2 DEF EveryVersionAnnounced
<1>16. QED BY <1>6, <1>10, <1>14, <1>15 DEF IInv, SessionsInv

\* An event of the current revision.
LEMMA CommitEventStep ==
  ASSUME IInv, TypeOK', NEW r \in Requests, CommitEvent(r)
  PROVE  IInv'
<1> DEFINE m == Len(events)
           e == [revision |-> txn[r].revision, kind |-> "activity"]
<1>0. events \in Seq(Event) /\ m \in Nat /\ txn[r] \in Txn /\ draft.revision \in Nat
  BY DEF IInv, TypeOK, Draft
<1>1. lock = r /\ e.revision = draft.revision
  BY DEF CommitEvent, IInv, OneWriter, SessionConsistent, Holding
<1>2. events' = Append(events, e) /\ UNCHANGED <<draft, versions>>
  BY DEF CommitEvent
<1>3. SessionsInv'
  <2> DEFINE y == [txn[r] EXCEPT !.pc = "done", !.result = "appended"]
  <2>1. y.pc = "done"
    BY <1>0 DEF Txn
  <2>2. txn' = [txn EXCEPT ![r] = y] /\ lock' = NoRequest
    BY DEF CommitEvent, Answered, Go
  <2> HIDE DEF y
  <2>3. QED BY <1>1, <2>1, <2>2, CommitSessions
<1> HIDE DEF e
<1>4. /\ Len(events') = m + 1 /\ events'[m + 1] = e
      /\ \A i \in 1 .. m : events'[i] = events[i]
  BY <1>0, <1>2
<1>5. \A i \in 1 .. m : events[i] \in Event
  BY <1>0
<1>6. \A i \in 1 .. m : events[i].revision \in Nat
  BY <1>5 DEF Event
<1>7. EventsBounded' /\ EventsFollowRevisions'
  BY <1>0, <1>1, <1>2, <1>4, <1>6 DEF IInv, EventsBounded, EventsFollowRevisions
<1>8. EveryVersionAnnounced'
  BY <1>0, <1>2, <1>4 DEF IInv, EveryVersionAnnounced
<1>9. DraftIsLastVersion' /\ NoLostUpdate'
  BY <1>2 DEF IInv, DraftIsLastVersion, NoLostUpdate
<1>10. QED BY <1>3, <1>7, <1>8, <1>9 DEF IInv, SessionsInv

\* IInv is inductive.
LEMMA NextIInv == IInv /\ [Next]_vars => IInv'
<1> SUFFICES ASSUME IInv, [Next]_vars PROVE IInv'
  OBVIOUS
<1>1. TypeOK'
  BY TypeStep DEF IInv
<1>2. ASSUME NEW r \in Requests, Continue(r) \/ RequestFails(r) PROVE IInv'
  BY <1>1, <1>2, MiddleStep, NumberStep, FailStep, CommitDraftStep, CommitEventStep DEF Continue
<1>3. CASE UNCHANGED vars
  BY <1>1, <1>3 DEF vars, stored, IInv, OneWriter, SessionConsistent, DraftIsLastVersion,
     NoLostUpdate, EventsBounded, EventsFollowRevisions, EveryVersionAnnounced, NumbersAreFree
<1>4. QED BY <1>1, <1>2, <1>3, BeginStep DEF Next

\* IInv holds in every reachable state.
THEOREM Invariance == Spec => []IInv
<1>1. QED BY InitIInv, NextIInv, PTL DEF Spec

\* Type correctness (TypeOK).
THEOREM TypeCorrect == Spec => []TypeOK
<1>1. IInv => TypeOK
  BY DEF IInv
<1>2. QED BY <1>1, Invariance, PTL

\* The stored draft: history without gaps or lost updates, and an event feed
\* that follows it, announces every version and never clashes on a number.
THEOREM DraftSafety ==
    Spec => [](/\ DraftIsLastVersion /\ NoLostUpdate /\ EventsFollowRevisions
               /\ EveryVersionAnnounced /\ NumbersAreFree)
<1>1. IInv => /\ DraftIsLastVersion /\ NoLostUpdate /\ EventsFollowRevisions
              /\ EveryVersionAnnounced /\ NumbersAreFree
  BY DEF IInv
<1>2. QED BY <1>1, Invariance, PTL

\* The three kinds of row agree in every state (HistoryConsistent): what the
\* runs check with four requests holds for any number of them.
THEOREM RowsAgree == Spec => []HistoryConsistent
<1>1. IInv => HistoryConsistent
  BY DEF IInv, HistoryConsistent
<1>2. QED BY <1>1, Invariance, PTL

-----------------------------------------------------------------------------
(* The refinement.                                                         *)

\* A function on 1..k is a sequence of length k.
LEMMA FunctionIsSequence ==
  ASSUME NEW k \in Nat, NEW W, NEW f \in [1 .. k -> W]
  PROVE  f \in Seq(W) /\ Len(f) = k
OBVIOUS

\* A commit of a version appends one write to the history.
LEMMA WritesAppend ==
  ASSUME NEW v \in Version, versions \in Seq(Version), versions' = Append(versions, v)
  PROVE  writes' = Append(writes, [by |-> v.by, base |-> v.base]) /\ Len(writes) = Len(versions)
<1> DEFINE n == Len(versions)
           w == [by |-> v.by, base |-> v.base]
           Write == [by : Requests, base : Nat]
<1>1. n \in Nat /\ Len(versions') = n + 1 /\ versions'[n + 1] = v
      /\ \A i \in 1 .. n : versions'[i] = versions[i] /\ versions[i] \in Version
  OBVIOUS
<1>2. w \in Write /\ \A i \in 1 .. n : [by |-> versions[i].by, base |-> versions[i].base] \in Write
  BY <1>1 DEF Version
<1>3. writes = [i \in 1 .. n |-> [by |-> versions[i].by, base |-> versions[i].base]]
  BY DEF writes
<1> HIDE DEF w, Write
<1>4. writes \in Seq(Write) /\ Len(writes) = n
  BY <1>1, <1>2, <1>3
<1>5. writes' = [i \in 1 .. n + 1 |-> [by |-> versions'[i].by, base |-> versions'[i].base]]
  BY <1>1 DEF writes
<1>6. \A i \in 1 .. n + 1 :
        [by |-> versions'[i].by, base |-> versions'[i].base] = IF i = n + 1 THEN w ELSE writes[i]
  BY <1>1, <1>3 DEF w
<1>7. writes' \in Seq(Write) /\ Len(writes') = n + 1
  <2>1. ASSUME NEW i \in 1 .. n + 1
        PROVE  [by |-> versions'[i].by, base |-> versions'[i].base] \in Write
    <3>1. CASE i = n + 1
      BY <1>2, <1>6, <3>1
    <3>2. CASE i # n + 1
      BY <1>1, <1>2, <1>3, <1>6, <3>2
    <3>3. QED BY <3>1, <3>2
  <2>2. writes' \in [1 .. n + 1 -> Write] /\ n + 1 \in Nat
    BY <1>1, <1>5, <2>1
  <2>3. QED BY <2>2, FunctionIsSequence
<1>8. /\ Append(writes, w) \in Seq(Write) /\ Len(Append(writes, w)) = n + 1
      /\ \A i \in 1 .. n + 1 : Append(writes, w)[i] = IF i = n + 1 THEN w ELSE writes[i]
  BY <1>1, <1>2, <1>4, AppendProperties
<1>9. writes' = Append(writes, w)
  <2>1. \A i \in 1 .. Len(writes') : writes'[i] = Append(writes, w)[i]
    BY <1>5, <1>6, <1>7, <1>8
  <2>2. Len(writes') = Len(Append(writes, w))
    BY <1>7, <1>8
  <2>3. QED BY <1>7, <1>8, <2>1, <2>2, SeqEqual
<1>10. QED BY <1>4, <1>9 DEF w

\* The answer a step gives.
LEMMA AnswerStep ==
  ASSUME IInv, NEW r \in Requests, NEW y, txn' = [txn EXCEPT ![r] = y]
  PROVE  /\ answers[r] = txn[r].result /\ answers' = [answers EXCEPT ![r] = y.result]
         /\ y.result = txn[r].result => UNCHANGED answers
BY DEF IInv, TypeOK, answers

\* Only the commit of a version answers "saved".
LEMMA QuietAnswers ==
  ASSUME IInv, NEW r \in Requests, Begin(r) \/ Continue(r) \/ RequestFails(r), ~CommitDraft(r)
  PROVE  /\ txn' = [txn EXCEPT ![r] = txn'[r]]
         /\ txn[r].result = "none" /\ txn'[r].result # "saved"
<1>1. txn \in [Requests -> Txn] /\ txn[r] \in Txn
  BY DEF IInv, TypeOK
<1>2. txn[r].result = "none"
  BY DEF Begin, Continue, LoadForSave, LoadForRollback, LoadDraft, LoadNothing,
     SnapshotForReload, LockForEvent, InsertDraft, InsertRefused, ConflictForScope, UpdateDraft,
     UpdateMatchedNothing, LockForReload, NumberRows, CommitDraft, CommitEvent, RequestFails,
     IInv, SessionConsistent
<1>3. ASSUME NEW y, Go(r, y)
      PROVE  txn' = [txn EXCEPT ![r] = txn'[r]] /\ txn'[r] = y
  BY <1>1, <1>3 DEF Go
<1>4. ASSUME NEW x \in Txn, NEW n, NEW a, ConflictShowing(r, x, n, a)
      PROVE  txn' = [txn EXCEPT ![r] = txn'[r]] /\ txn'[r].result # "saved"
  <2> DEFINE y == [x EXCEPT !.pc = "done", !.result = "conflict", !.shown = n, !.author = a]
  <2>1. Go(r, y)
    BY <1>4 DEF ConflictShowing
  <2>2. y.result = "conflict"
    BY DEF Txn
  <2> HIDE DEF y
  <2>3. QED BY <1>3, <2>1, <2>2
<1> DEFINE Goal == txn' = [txn EXCEPT ![r] = txn'[r]] /\ txn'[r].result # "saved"
<1>5. CASE Begin(r)
  <2>1. ASSUME NEW op, NEW base, NEW contents, LoadDraft(r, op, base, contents)
        PROVE  Goal
    BY <1>1, <1>2, <2>1 DEF LoadDraft, Go, ConflictShowing, Txn
  <2>2. CASE LoadNothing(r) \/ SnapshotForReload(r) \/ LockForEvent(r)
    BY <1>1, <1>2, <2>2 DEF LoadNothing, SnapshotForReload, LockForEvent, Go, ConflictShowing, Txn
  <2>3. CASE LoadForSave(r)
    <3>1. PICK base : LoadDraft(r, "save", base, r)
      BY <2>3 DEF LoadForSave
    <3>2. QED BY <1>2, <2>1, <3>1
  <2>4. CASE LoadForRollback(r)
    <3>1. PICK base, target : LoadDraft(r, "rollback", base, versions[target].contents)
      BY <2>4 DEF LoadForRollback
    <3>2. QED BY <1>2, <2>1, <3>1
  <2>5. QED BY <1>5, <2>2, <2>3, <2>4 DEF Begin
<1>6. CASE Continue(r) \/ RequestFails(r)
  BY <1>1, <1>2, <1>6 DEF Continue, InsertDraft, InsertRefused, ConflictForScope, UpdateDraft,
     UpdateMatchedNothing, LockForReload, NumberRows, CommitEvent, RequestFails, Go, Answered,
     ConflictShowing, Txn
<1>7. QED BY <1>2, <1>5, <1>6

\* Every step of the service is a step of DraftHistory or changes nothing its
\* clients see.
LEMMA StepImplements == IInv /\ [Next]_vars => [History!Next]_<<writes, answers>>
<1> SUFFICES ASSUME IInv, [Next]_vars PROVE [History!Next]_<<writes, answers>>
  OBVIOUS
<1>0. versions \in Seq(Version) /\ txn \in [Requests -> Txn]
  BY DEF IInv, TypeOK
<1>1. ASSUME UNCHANGED versions, NEW r \in Requests, NEW y, Go(r, y), txn[r].result = "none",
             y.result \in Result \ {"saved"}
      PROVE  [History!Next]_<<writes, answers>>
  <2>1. UNCHANGED writes
    BY <1>1 DEF writes
  <2>2. /\ answers[r] = "none" /\ answers' = [answers EXCEPT ![r] = y.result]
        /\ y.result = "none" => UNCHANGED answers
    BY <1>1, AnswerStep DEF Go
  <2>3. y.result # "none" => History!Answer(r, y.result)
    BY <2>1, <2>2 DEF History!Answer
  <2>4. QED BY <1>1, <2>1, <2>2, <2>3 DEF History!Next
<1>2. ASSUME NEW r \in Requests, CommitDraft(r)
      PROVE  History!Next
  <2> DEFINE y == [txn[r] EXCEPT !.pc = "done", !.result = "saved"]
             v == NewVersion(r)
  <2>1. /\ txn[r].pc = "numbered" /\ txn[r].op # "event" /\ txn[r].result = "none"
        /\ txn[r].base = Len(versions)
    BY <1>2 DEF CommitDraft, IInv, SessionConsistent, DraftIsLastVersion, Holding
  <2>2. v \in Version /\ v.by = r /\ v.base = Len(versions)
    BY <1>0, <2>1 DEF NewVersion, Version, Txn, Source, SourceOf, Op
  <2>3. versions' = Append(versions, v) /\ Go(r, y)
    BY <1>2 DEF CommitDraft, Answered
  <2>4. y.result = "saved"
    BY <1>0 DEF Txn
  <2> HIDE DEF y, v
  <2>5. writes' = Append(writes, [by |-> r, base |-> Len(versions)]) /\ Len(writes) = Len(versions)
    BY <1>0, <2>2, <2>3, WritesAppend
  <2>6. answers[r] = "none" /\ answers' = [answers EXCEPT ![r] = "saved"]
    <3>1. txn' = [txn EXCEPT ![r] = y]
      BY <2>3 DEF Go
    <3>2. answers[r] = txn[r].result /\ answers' = [answers EXCEPT ![r] = y.result]
      BY <3>1, AnswerStep
    <3>3. QED BY <2>1, <2>4, <3>2
  <2>7. Len(writes) \in 0 .. Len(writes)
    BY <1>0, <2>5
  <2>a. History!Write(r, Len(writes))
    BY <2>5, <2>6 DEF History!Write
  <2>8. QED BY <2>7, <2>a DEF History!Next
<1>3. CASE UNCHANGED vars
  BY <1>3 DEF vars, stored, writes, answers
<1>4. ASSUME NEW r \in Requests, Begin(r) \/ Continue(r) \/ RequestFails(r), ~CommitDraft(r)
      PROVE  [History!Next]_<<writes, answers>>
  <2>1. UNCHANGED versions
    BY <1>4 DEF Begin, Continue, LoadForSave, LoadForRollback, LoadDraft, LoadNothing,
       SnapshotForReload, LockForEvent, InsertDraft, InsertRefused, ConflictForScope, UpdateDraft,
       UpdateMatchedNothing, LockForReload, NumberRows, CommitEvent, RequestFails, stored
  <2>2. /\ Go(r, txn'[r]) /\ txn[r].result = "none" /\ txn'[r].result # "saved"
    BY <1>4, QuietAnswers DEF Go
  <2>3. txn'[r].result \in Result
    <3>1. TypeOK'
      BY TypeStep DEF IInv
    <3>2. QED BY <3>1 DEF TypeOK, Txn
  <2>4. QED BY <1>1, <2>1, <2>2, <2>3
<1>5. QED BY <1>2, <1>3, <1>4 DEF Next

\* The draft service implements DraftHistory.
THEOREM Refinement == Spec => ImplementsHistory
<1>1. Init => History!Init
  BY DEF Init, History!Init, writes, answers, IdleTxn
<1>2. QED BY <1>1, StepImplements, Invariance, PTL DEF Spec, ImplementsHistory
=============================================================================
