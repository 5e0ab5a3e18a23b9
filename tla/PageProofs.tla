------------------------------- MODULE PageProofs -------------------------------
(* For any issues, number of slots and number of writes the queue of writes *)
(* keeps its bookkeeping, its order and its slots; the changes of Catch Up  *)
(* use it by its own rules, and their rows end up showing what Jira has.    *)
(* The menus of Planning, which write without the queue, show what Jira has *)
(* by reading it again; the links between issues agree with Jira as far as  *)
(* the page has been told; Statistics shows what its filters ask for; the   *)
(* alerts say of epics what is true of their stories; the focus on an epic  *)
(* gives the lanes of the timeline back; and the Burndown counts what is    *)
(* open, for which there are lemmas on sums over finite sets.               *)
EXTENDS CatchUpStatus, PageParts, TLAPS, FiniteSetTheorems, SequenceTheorems,
        WellFoundedInduction

Job == [key : Issues, state : {"pending", "running", "done"}]

(* The inductive invariant of the queue.                                    *)
QueueInv ==
    /\ QueueTypeOK
    /\ IsFiniteSet(activeKeys)
    /\ BoundedAndSerial
    /\ InOrderPerIssue
    /\ NoIdleSlot

(* A job that gets another state keeps its issue and its place.             *)
LEMMA StateChange ==
    ASSUME NEW s \in Seq(Job), NEW j \in DOMAIN s,
           NEW st \in {"pending", "running", "done"}
    PROVE  LET t == [s EXCEPT ![j].state = st] IN
           /\ t \in Seq(Job)
           /\ DOMAIN t = DOMAIN s
           /\ \A i \in DOMAIN s : t[i].key = s[i].key
           /\ t[j].state = st
           /\ \A i \in DOMAIN s \ {j} : t[i] = s[i]
<1> DEFINE t == [s EXCEPT ![j].state = st]
<1>1. \A i \in DOMAIN s : s[i] \in Job
  BY ElementOfSeq
<1>2. t = [i \in DOMAIN s |-> IF i = j THEN [s[j] EXCEPT !.state = st] ELSE s[i]]
  OBVIOUS
<1>3. [s[j] EXCEPT !.state = st] \in Job /\ [s[j] EXCEPT !.state = st].key = s[j].key
      /\ [s[j] EXCEPT !.state = st].state = st
  BY <1>1 DEF Job
<1>4. t \in Seq(Job)
  BY <1>1, <1>2, <1>3, Len(s) \in Nat, DOMAIN s = 1 .. Len(s), LenProperties, IsASeq
<1> QED
  BY <1>1, <1>2, <1>3, <1>4

LEMMA QueueInitInv == QueueInit => QueueInv
<1> SUFFICES ASSUME QueueInit PROVE QueueInv
  OBVIOUS
<1> USE DEF QueueInit
<1>0. jobs = <<>> /\ jobs \in Seq(Job) /\ Len(jobs) = 0
  BY EmptySeq
<1>1. QueueTypeOK /\ jobs = <<>> /\ DOMAIN jobs = {}
  <2>1. DOMAIN jobs = 1 .. 0
    BY <1>0
  <2>2. 1 .. 0 = {}
    OBVIOUS
  <2>3. QueueTypeOK
    BY <1>0 DEF QueueTypeOK, Job
  <2> QED
    BY <1>0, <2>1, <2>2, <2>3
<1>2. IsFiniteSet(activeKeys) /\ Cardinality(activeKeys) = 0
  BY FS_EmptySet
<1>3. In("running") = {} /\ In("pending") = {}
  BY <1>1 DEF In
<1>4. BoundedAndSerial
  BY <1>2, <1>3, ConcurrencyAssumption DEF BoundedAndSerial
<1> QED
  BY <1>1, <1>2, <1>3, <1>4 DEF QueueInv, InOrderPerIssue, NoIdleSlot, Startable

(* A new job waits at the end.                                              *)
LEMMA EnqueueKeeps ==
  ASSUME QueueInv, NEW k \in Issues, Enqueue(k)
  PROVE  QueueInv'
<1> DEFINE new == [key |-> k, state |-> "pending"]
<1>1. jobs \in Seq(Job) /\ new \in Job
  BY DEF QueueInv, QueueTypeOK, Job
<1>2. /\ jobs' = Append(jobs, new)
      /\ jobs' \in Seq(Job)
      /\ DOMAIN jobs' = DOMAIN jobs \union {Len(jobs) + 1}
      /\ jobs'[Len(jobs) + 1] = new
      /\ \A i \in DOMAIN jobs : i < Len(jobs) + 1 /\ jobs'[i] = jobs[i]
      /\ Len(jobs) + 1 \notin DOMAIN jobs
  BY <1>1, AppendProperties DEF Enqueue
<1>3. QueueTypeOK'
  BY <1>2 DEF QueueInv, QueueTypeOK, Enqueue, Job
<1>4. In("running")' = In("running")
  BY <1>2 DEF In
<1>5. \A i \in In("running") : i \in DOMAIN jobs /\ jobs'[i] = jobs[i]
  BY <1>2 DEF In
<1>6. BoundedAndSerial'
  <2>1. {jobs'[j].key : j \in In("running")} = {jobs[j].key : j \in In("running")}
    BY <1>5
  <2>2. activeCount' = activeCount /\ activeKeys' = activeKeys
    BY DEF Enqueue
  <2>3. (activeKeys = {jobs[j].key : j \in In("running")})'
    <3>1. activeKeys = {jobs[j].key : j \in In("running")}
      BY DEF QueueInv, BoundedAndSerial
    <3> QED
      BY <1>4, <2>1, <2>2, <3>1
  <2>4. (\A i, j \in In("running") : jobs[i].key = jobs[j].key => i = j)'
    <3>1. \A i, j \in In("running") : jobs[i].key = jobs[j].key => i = j
      BY DEF QueueInv, BoundedAndSerial
    <3> QED
      BY <1>4, <1>5, <3>1
  <2>5. (activeCount = Cardinality(activeKeys) /\ activeCount <= Concurrency)'
    BY <2>2 DEF QueueInv, BoundedAndSerial
  <2> QED
    BY <2>3, <2>4, <2>5 DEF BoundedAndSerial
<1>7. InOrderPerIssue'
  <2> SUFFICES ASSUME NEW i \in DOMAIN jobs', NEW j \in DOMAIN jobs', i < j,
                      jobs'[i].key = jobs'[j].key, jobs'[j].state # "pending"
               PROVE  jobs'[i].state = "done"
    BY DEF InOrderPerIssue
  <2>1. j \in DOMAIN jobs
    BY <1>2
  <2>2. i \in DOMAIN jobs
    BY <1>1, <1>2, <2>1, Len(jobs) \in Nat, DOMAIN jobs = 1 .. Len(jobs)
  <2> QED
    BY <1>2, <2>1, <2>2 DEF QueueInv, InOrderPerIssue
<1>8. NoIdleSlot'
  BY DEF NoIdleSlot, Enqueue
<1> QED
  BY <1>3, <1>6, <1>7, <1>8 DEF QueueInv, Enqueue

(* The job that starts is the oldest of its issue, and no job of its issue  *)
(* runs: what came before it has ended.                                     *)
LEMMA StartKeeps ==
  ASSUME QueueInv, NEW j \in DOMAIN jobs, Start(j)
  PROVE  QueueInv'
<1> DEFINE k == jobs[j].key
<1>1. /\ jobs \in Seq(Job)
      /\ jobs[j] \in Job /\ jobs[j].state = "pending" /\ k \in Issues
      /\ k \notin activeKeys
      /\ \A i \in DOMAIN jobs : jobs[i].state = "pending" /\ jobs[i].key = k => j <= i
  <2>1. jobs \in Seq(Job)
    BY DEF QueueInv, QueueTypeOK, Job
  <2>2. jobs[j] \in Job
    BY <2>1, ElementOfSeq
  <2>3. j \in In("pending") /\ k \notin activeKeys /\ \A i \in Startable : j <= i
    BY DEF Start, NextJob, Startable
  <2>4. \A i \in DOMAIN jobs : jobs[i].state = "pending" /\ jobs[i].key = k => i \in Startable
    BY <2>3 DEF Startable, In
  <2> QED
    BY <2>1, <2>2, <2>3, <2>4 DEF In, Job
<1>2. /\ jobs' \in Seq(Job)
      /\ DOMAIN jobs' = DOMAIN jobs
      /\ \A i \in DOMAIN jobs : jobs'[i].key = jobs[i].key
      /\ jobs'[j].state = "running"
      /\ \A i \in DOMAIN jobs \ {j} : jobs'[i] = jobs[i]
  BY <1>1, StateChange DEF Start
<1>3. QueueTypeOK'
  BY <1>1, <1>2 DEF QueueInv, QueueTypeOK, Start, Job
<1>4. In("running")' = In("running") \union {j} /\ j \notin In("running")
  BY <1>1, <1>2 DEF In
<1>5. In("running") \subseteq DOMAIN jobs
  BY DEF In
<1>6. activeKeys' = {jobs'[i].key : i \in In("running")'}
  BY <1>2, <1>4, <1>5 DEF QueueInv, BoundedAndSerial, Start
<1>7. /\ IsFiniteSet(activeKeys')
      /\ activeCount' = Cardinality(activeKeys')
  BY <1>1, FS_AddElement DEF QueueInv, BoundedAndSerial, Start
<1>8. activeCount' <= Concurrency
  BY ConcurrencyAssumption DEF QueueInv, QueueTypeOK, Start, HasSlot
<1>9. \A a, b \in In("running")' : jobs'[a].key = jobs'[b].key => a = b
  <2>1. \A a \in In("running") : jobs[a].key # k
    BY <1>1 DEF QueueInv, BoundedAndSerial
  <2> QED
    BY <1>2, <1>4, <1>5, <2>1 DEF QueueInv, BoundedAndSerial
<1>10. InOrderPerIssue'
  <2> SUFFICES ASSUME NEW a \in DOMAIN jobs, NEW b \in DOMAIN jobs, a < b,
                      jobs[a].key = jobs[b].key, jobs'[b].state # "pending"
               PROVE  jobs'[a].state = "done"
    BY <1>2 DEF InOrderPerIssue
  <2>1. CASE b = j
    <3>1. jobs[a].state # "pending"
      BY <1>1, <2>1, DOMAIN jobs = 1 .. Len(jobs), Len(jobs) \in Nat
    <3>2. jobs[a].state # "running"
      BY <1>1, <2>1 DEF QueueInv, BoundedAndSerial, In
    <3>3. jobs[a].state = "done" /\ a # j
      <4>1. jobs[a] \in Job
        BY <1>1, ElementOfSeq
      <4>2. a # j
        BY <2>1, <1>1, DOMAIN jobs = 1 .. Len(jobs), Len(jobs) \in Nat
      <4> QED
        BY <3>1, <3>2, <4>1, <4>2 DEF Job
    <3> QED
      BY <1>2, <3>3
  <2>2. CASE b # j
    <3>1. jobs[a].state = "done"
      BY <1>2, <2>2 DEF QueueInv, InOrderPerIssue
    <3> QED
      BY <1>1, <1>2, <3>1
  <2> QED
    BY <2>1, <2>2
<1>11. BoundedAndSerial'
  BY <1>6, <1>7, <1>8, <1>9 DEF BoundedAndSerial
<1>12. NoIdleSlot'
  BY DEF NoIdleSlot, Start
<1> QED
  BY <1>3, <1>7, <1>10, <1>11, <1>12 DEF QueueInv

(* The job that ends gives back exactly one slot and its own issue.         *)
LEMMA FinishKeeps ==
  ASSUME QueueInv, NEW j \in DOMAIN jobs, Finish(j)
  PROVE  QueueInv'
<1> DEFINE k == jobs[j].key
<1>1. /\ jobs \in Seq(Job)
      /\ jobs[j].state = "running" /\ j \in In("running")
      /\ k \in activeKeys
  BY DEF QueueInv, QueueTypeOK, Job, Finish, In, BoundedAndSerial
<1>2. /\ jobs' \in Seq(Job)
      /\ DOMAIN jobs' = DOMAIN jobs
      /\ \A i \in DOMAIN jobs : jobs'[i].key = jobs[i].key
      /\ jobs'[j].state = "done"
      /\ \A i \in DOMAIN jobs \ {j} : jobs'[i] = jobs[i]
  BY <1>1, StateChange DEF Finish
<1>3. /\ IsFiniteSet(activeKeys')
      /\ activeCount' = Cardinality(activeKeys')
      /\ activeCount \in Nat \ {0}
  BY <1>1, FS_RemoveElement, FS_EmptySet, FS_CardinalityType
     DEF QueueInv, QueueTypeOK, BoundedAndSerial, Finish
<1>4. QueueTypeOK'
  BY <1>2, <1>3 DEF QueueInv, QueueTypeOK, Finish, Job
<1>5. In("running")' = In("running") \ {j} /\ In("running") \subseteq DOMAIN jobs
  BY <1>1, <1>2 DEF In
<1>6. \A a, b \in In("running") : jobs[a].key = jobs[b].key => a = b
  BY DEF QueueInv, BoundedAndSerial
<1>7. activeKeys' = {jobs'[i].key : i \in In("running")'}
  <2>1. activeKeys' = {jobs[i].key : i \in In("running")} \ {k}
    BY DEF QueueInv, BoundedAndSerial, Finish
  <2>2. \A i \in In("running") : jobs[i].key = k <=> i = j
    BY <1>1, <1>6
  <2> QED
    BY <1>2, <1>5, <2>1, <2>2
<1>8. BoundedAndSerial'
  <2>1. activeCount' <= Concurrency
    <3>1. activeCount <= Concurrency /\ activeCount' = activeCount - 1
      BY DEF QueueInv, BoundedAndSerial, Finish
    <3> QED
      BY <1>3, <3>1, ConcurrencyAssumption
  <2>2. \A a, b \in In("running")' : jobs'[a].key = jobs'[b].key => a = b
    BY <1>2, <1>5, <1>6
  <2> QED
    BY <1>3, <1>7, <2>1, <2>2 DEF BoundedAndSerial
<1>9. InOrderPerIssue'
  <2> SUFFICES ASSUME NEW a \in DOMAIN jobs, NEW b \in DOMAIN jobs, a < b,
                      jobs[a].key = jobs[b].key, jobs'[b].state # "pending"
               PROVE  jobs'[a].state = "done"
    BY <1>2 DEF InOrderPerIssue
  <2>1. jobs[b].state # "pending"
    BY <1>1, <1>2
  <2>2. jobs[a].state = "done"
    BY <2>1 DEF QueueInv, InOrderPerIssue
  <2> QED
    BY <1>2, <2>2
<1>10. NoIdleSlot'
  BY DEF NoIdleSlot, Finish
<1> QED
  BY <1>3, <1>4, <1>8, <1>9, <1>10 DEF QueueInv

(* Only the jobs and their records matter to the invariant.                 *)
LEMMA SameJobs ==
  ASSUME QueueInv, UNCHANGED <<jobs, activeKeys, activeCount>>,
         draining' \in BOOLEAN, NoIdleSlot'
  PROVE  QueueInv'
<1>1. QueueTypeOK' /\ IsFiniteSet(activeKeys')
  BY DEF QueueInv, QueueTypeOK
<1>2. BoundedAndSerial'
  BY DEF QueueInv, BoundedAndSerial, In
<1>3. InOrderPerIssue'
  BY DEF QueueInv, InOrderPerIssue
<1> QED
  BY <1>1, <1>2, <1>3 DEF QueueInv

LEMMA QueueNextKeeps == QueueInv /\ [QueueNext]_queueVars => QueueInv'
<1> SUFFICES ASSUME QueueInv, [QueueNext]_queueVars PROVE QueueInv'
  OBVIOUS
<1>1. CASE \E k \in Issues : Enqueue(k)
  BY <1>1, EnqueueKeeps
<1>2. CASE \E j \in DOMAIN jobs : Start(j)
  BY <1>2, StartKeeps
<1>3. CASE \E j \in DOMAIN jobs : Finish(j)
  BY <1>3, FinishKeeps
<1>4. CASE DrainEnd
  <2>1. UNCHANGED <<jobs, activeKeys, activeCount>> /\ draining' \in BOOLEAN
    BY <1>4 DEF DrainEnd
  <2>2. NoIdleSlot'
    BY <1>4, <2>1 DEF DrainEnd, NoIdleSlot, HasSlot, Startable, In
  <2> QED
    BY <2>1, <2>2, SameJobs
<1>5. CASE UNCHANGED queueVars
  <2>1. UNCHANGED <<jobs, activeKeys, activeCount>> /\ draining' = draining
    BY <1>5 DEF queueVars
  <2>2. draining' \in BOOLEAN
    BY <2>1 DEF QueueInv, QueueTypeOK
  <2>3. NoIdleSlot'
    BY <2>1 DEF QueueInv, NoIdleSlot, HasSlot, Startable, In
  <2> QED
    BY <2>1, <2>2, <2>3, SameJobs
<1> QED
  BY <1>1, <1>2, <1>3, <1>4, <1>5 DEF QueueNext

(* Every step of Catch Up is a step of the queue or leaves it alone.        *)
LEMMA StepUsesQueue == [Next]_vars => [QueueNext]_queueVars
<1> SUFFICES ASSUME [Next]_vars PROVE [QueueNext]_queueVars
  OBVIOUS
<1>1. CASE \E k \in Issues, f \in Fields : Open(k, f)
  BY <1>1 DEF Open
<1>2. CASE \E k \in Issues, f \in Fields, v \in Values : Submit(k, f, v)
  BY <1>2 DEF Submit, QueueNext
<1>3. CASE \E f \in Fields : Close(f)
  BY <1>3 DEF Close
<1>4. CASE \E j \in DOMAIN jobs, answer \in Answers, applied \in BOOLEAN :
               Serve(j, answer, applied)
  BY <1>4 DEF Serve
<1>5. CASE \E j \in DOMAIN jobs : Answer(j)
  BY <1>5 DEF Answer, QueueNext
<1>6. CASE SwitchSurface
  BY <1>6 DEF SwitchSurface
<1>7. CASE Turn
  BY <1>7 DEF Turn, QueueNext
<1>8. CASE UNCHANGED vars
  BY <1>8 DEF vars
<1> QED
  BY <1>1, <1>2, <1>3, <1>4, <1>5, <1>6, <1>7, <1>8 DEF Next

(* The changes of Catch Up implement the specification of the queue.    *)
THEOREM UsesQueue == Spec => QueueSpec
<1>1. Init => QueueInit
  BY DEF Init
<1> QED
  BY <1>1, StepUsesQueue, PTL DEF Spec, QueueSpec

(* Whatever is enqueued and however the writes end: at most Concurrency run *)
(* at once, never two of one issue, and the three records of it agree.      *)
THEOREM QueueBounded == Spec => []BoundedAndSerial
<1>1. QueueSpec => []QueueInv
  BY QueueInitInv, QueueNextKeeps, PTL DEF QueueSpec
<1>2. QueueInv => BoundedAndSerial
  BY DEF QueueInv
<1> QED
  BY <1>1, <1>2, UsesQueue, PTL

(* The writes of one issue are sent in the order they were asked for, each  *)
(* after the one before it has ended.                                       *)
THEOREM QueueInOrder == Spec => []InOrderPerIssue
<1>1. QueueSpec => []QueueInv
  BY QueueInitInv, QueueNextKeeps, PTL DEF QueueSpec
<1>2. QueueInv => InOrderPerIssue
  BY DEF QueueInv
<1> QED
  BY <1>1, <1>2, UsesQueue, PTL

(* No slot stays empty while a write could use it.                          *)
THEOREM QueueNoIdleSlot == Spec => []NoIdleSlot
<1>1. QueueSpec => []QueueInv
  BY QueueInitInv, QueueNextKeeps, PTL DEF QueueSpec
<1>2. QueueInv => NoIdleSlot
  BY DEF QueueInv
<1> QED
  BY <1>1, <1>2, UsesQueue, PTL

-----------------------------------------------------------------------------
(* The rows.                                                                *)

Write == [field : Fields, target : Values, prior : Values,
          current : Values \union {"none"}, answer : Answers \union {"none"}]

(* A write that has not ended is complete.                                  *)
WritesComplete ==
    \A j \in DOMAIN jobs : jobs[j].state # "done" => writes[j] \in Write

(* A write that waits was not answered; of one that was, the answer still   *)
(* says what Jira has, because no other write of its issue runs.            *)
AnswersHold ==
    \A j \in DOMAIN jobs :
        /\ jobs[j].state = "pending" => writes[j].answer = "none"
        /\ jobs[j].state = "running" =>
              /\ writes[j].answer = "success" => jira[Cell(j)] = writes[j].target
              /\ writes[j].answer = "refused" => jira[Cell(j)] = writes[j].current
              /\ writes[j].answer \in {"refused", "failed"} => writes[j].current \in Values

(* The keys of the surface left are forgotten with it.                      *)
KeysOfSurface == surface # "catch_up" => pendingKeys = {}

RowsInv ==
    /\ QueueInv
    /\ RowShowsJira
    /\ WritesComplete
    /\ AnswersHold
    /\ KeysOfSurface

(* What the jobs and writes are made of.                                    *)
LEMMA WriteParts ==
  ASSUME RowsInv, NEW j \in DOMAIN jobs
  PROVE  /\ jobs \in Seq(Job) /\ jobs[j] \in Job /\ jobs[j].key \in Issues
         /\ DOMAIN writes = DOMAIN jobs
         /\ jobs[j].state # "done" =>
              /\ writes[j] \in Write /\ Cell(j) \in Cells
              /\ writes[j].target \in Values /\ writes[j].prior \in Values
<1>1. jobs \in Seq(Job)
  BY DEF RowsInv, QueueInv, QueueTypeOK, Job
<1>2. jobs[j] \in Job
  BY <1>1, ElementOfSeq
<1>3. DOMAIN writes = DOMAIN jobs
  <2>1. writes \in Seq(Write \union {NoWrite}) /\ Len(writes) = Len(jobs)
    BY DEF RowsInv, RowShowsJira, TypeOK, Write
  <2> QED
    BY <1>1, <2>1
<1>4. jobs[j].state # "done" => writes[j] \in Write
  BY DEF RowsInv, WritesComplete
<1> QED
  BY <1>1, <1>2, <1>3, <1>4 DEF Job, Write, Cell, Cells

(* An entry of a sequence replaced.                                         *)
LEMMA Replaced ==
  ASSUME NEW S, NEW s \in Seq(S), NEW j \in DOMAIN s, NEW x \in S
  PROVE  LET t == [s EXCEPT ![j] = x] IN
         /\ t \in Seq(S) /\ Len(t) = Len(s) /\ DOMAIN t = DOMAIN s /\ t[j] = x
         /\ \A i \in DOMAIN s \ {j} : t[i] = s[i]
BY ExceptSeq

(* Steps that leave jobs, writes and Jira alone, and no row changes.        *)
LEMMA QuietStep ==
  ASSUME RowsInv, QueueInv', UNCHANGED <<jobs, jira, shown, writes, unseen>>,
         surface' \in {"catch_up", "planning"},
         menu' \in [Fields -> [key : Issues, current : Values] \union {NoMenu}],
         pendingKeys' \subseteq pendingKeys, KeysOfSurface'
  PROVE  RowsInv'
<1>1. \A j \in DOMAIN jobs : Cell(j)' = Cell(j)
  BY DEF Cell
<1>2. \A c : Unfinished(c)' = Unfinished(c)
  BY <1>1 DEF Unfinished
<1>3. TypeOK'
  BY DEF RowsInv, RowShowsJira, TypeOK, QueueInv
<1>4. RowShowsJira'
  BY <1>2, <1>3 DEF RowsInv, RowShowsJira
<1>5. WritesComplete' /\ AnswersHold'
  BY <1>1 DEF RowsInv, WritesComplete, AnswersHold
<1> QED
  BY <1>4, <1>5 DEF RowsInv

LEMMA MenuStep ==
  ASSUME RowsInv, QueueInv',
         \/ \E k \in Issues, f \in Fields : Open(k, f)
         \/ \E f \in Fields : Close(f)
         \/ SwitchSurface
         \/ Turn /\ UNCHANGED jobs
  PROVE  RowsInv'
<1>1. /\ menu \in [Fields -> [key : Issues, current : Values] \union {NoMenu}]
      /\ shown \in [Cells -> Values] /\ surface \in {"catch_up", "planning"}
  BY DEF RowsInv, RowShowsJira, TypeOK
<1>2. CASE \E k \in Issues, f \in Fields : Open(k, f)
  <2>1. PICK k \in Issues, f \in Fields : Open(k, f)
    BY <1>2
  <2>2. shown[<<k, f>>] \in Values
    BY <1>1 DEF Cells
  <2>3. [key |-> k, current |-> shown[<<k, f>>]] \in [key : Issues, current : Values]
    BY <2>2
  <2>4. menu' \in [Fields -> [key : Issues, current : Values] \union {NoMenu}]
    BY <1>1, <2>1, <2>3 DEF Open
  <2>5. UNCHANGED <<jobs, jira, shown, surface, pendingKeys, writes, unseen>>
    BY <2>1 DEF Open, queueVars
  <2> QED
    BY <1>1, <2>4, <2>5, QuietStep DEF RowsInv, KeysOfSurface
<1>3. CASE \E f \in Fields : Close(f)
  <2>1. menu' \in [Fields -> [key : Issues, current : Values] \union {NoMenu}]
    BY <1>1, <1>3 DEF Close
  <2>2. UNCHANGED <<jobs, jira, shown, surface, pendingKeys, writes, unseen>>
    BY <1>3 DEF Close, queueVars
  <2> QED
    BY <1>1, <2>1, <2>2, QuietStep DEF RowsInv, KeysOfSurface
<1>4. CASE SwitchSurface
  <2>1. /\ menu' \in [Fields -> [key : Issues, current : Values] \union {NoMenu}]
        /\ surface' \in {"catch_up", "planning"} /\ pendingKeys' = {}
        /\ UNCHANGED <<jobs, jira, shown, writes, unseen>>
    BY <1>4 DEF SwitchSurface, queueVars
  <2> QED
    BY <2>1, QuietStep DEF KeysOfSurface
<1>5. CASE Turn /\ UNCHANGED jobs
  <2>1. UNCHANGED <<jobs, jira, shown, surface, menu, pendingKeys, writes, unseen>>
    BY <1>5 DEF Turn
  <2> QED
    BY <1>1, <2>1, QuietStep DEF RowsInv, KeysOfSurface
<1> QED
  BY <1>2, <1>3, <1>4, <1>5

(* A job that starts is one that waited: its write has no answer yet.       *)
LEMMA StartStep ==
  ASSUME RowsInv, QueueInv', NEW j \in DOMAIN jobs, Start(j),
         UNCHANGED <<jira, shown, surface, menu, pendingKeys, writes, unseen>>
  PROVE  RowsInv'
<1>1. /\ jobs \in Seq(Job) /\ jobs[j].state = "pending"
      /\ jobs' = [jobs EXCEPT ![j].state = "running"]
  BY WriteParts DEF Start, NextJob, Startable, In
<1>2. /\ jobs' \in Seq(Job) /\ DOMAIN jobs' = DOMAIN jobs
      /\ \A i \in DOMAIN jobs : jobs'[i].key = jobs[i].key
      /\ jobs'[j].state = "running"
      /\ \A i \in DOMAIN jobs \ {j} : jobs'[i] = jobs[i]
  BY <1>1, StateChange
<1>3. Len(jobs') = Len(jobs)
  BY <1>1, <1>2
<1>4. \A i \in DOMAIN jobs : Cell(i)' = Cell(i)
  BY <1>2 DEF Cell
<1>5. \A c : Unfinished(c)' = Unfinished(c)
  <2>1. \A i \in DOMAIN jobs : jobs'[i].state # "done" <=> jobs[i].state # "done"
    BY <1>1, <1>2
  <2> QED
    BY <1>2, <1>4, <2>1 DEF Unfinished
<1>6. TypeOK'
  BY <1>3 DEF RowsInv, RowShowsJira, TypeOK, QueueInv
<1>7. RowShowsJira'
  BY <1>5, <1>6 DEF RowsInv, RowShowsJira
<1>8. WritesComplete' /\ AnswersHold'
  BY <1>1, <1>2, <1>4 DEF RowsInv, WritesComplete, AnswersHold
<1> QED
  BY <1>7, <1>8 DEF RowsInv, KeysOfSurface

(* A change: the row shows the new value, and its write waits.              *)
LEMMA SubmitStep ==
  ASSUME RowsInv, QueueInv', NEW k \in Issues, NEW f \in Fields, NEW v \in Values, Submit(k, f, v)
  PROVE  RowsInv'
<1> DEFINE new == [key |-> k, state |-> "pending"]
           w == [field |-> f, target |-> v, prior |-> menu[f].current,
                 current |-> "none", answer |-> "none"]
<1>1. /\ jobs' = Append(jobs, new) /\ writes' = Append(writes, w)
      /\ shown' = [shown EXCEPT ![<<k, f>>] = v]
      /\ pendingKeys' = pendingKeys \union {<<k, f>>}
      /\ surface = "catch_up" /\ UNCHANGED <<jira, surface, menu, unseen>>
  BY DEF Submit, Enqueue
<1>2. menu[f].current \in Values
  <2>1. menu[f] \in [key : Issues, current : Values] \union {NoMenu} /\ menu[f].key = k
    BY DEF RowsInv, RowShowsJira, TypeOK, Submit
  <2> QED
    BY <2>1, NoIssueAssumption DEF NoMenu
<1>3. w \in Write /\ w.field = f /\ w.answer = "none"
  BY <1>2 DEF Write, Answers
<1>4. /\ jobs \in Seq(Job) /\ new \in Job
      /\ writes \in Seq(Write \union {NoWrite}) /\ Len(writes) = Len(jobs)
  BY DEF RowsInv, RowShowsJira, TypeOK, QueueTypeOK, Job, Write
<1> HIDE DEF new, w
<1> PICK n \in Nat : n = Len(jobs) + 1
  BY <1>4
<1>5. /\ jobs' \in Seq(Job) /\ DOMAIN jobs' = DOMAIN jobs \union {n} /\ n \notin DOMAIN jobs
      /\ Len(jobs') = n /\ jobs'[n] = new /\ \A i \in DOMAIN jobs : jobs'[i] = jobs[i]
  BY <1>1, <1>4, AppendProperties
<1>6. /\ writes' \in Seq(Write \union {NoWrite}) /\ DOMAIN writes = DOMAIN jobs
      /\ Len(writes') = n /\ writes'[n] = w /\ \A i \in DOMAIN jobs : writes'[i] = writes[i]
  BY <1>1, <1>3, <1>4, AppendProperties
<1>7. /\ new.key = k /\ new.state = "pending"
  BY DEF new
<1>8. Cell(n)' = <<k, f>> /\ \A i \in DOMAIN jobs : Cell(i)' = Cell(i)
  BY <1>3, <1>5, <1>6, <1>7 DEF Cell
<1>9. /\ n \in Unfinished(<<k, f>>)'
      /\ \A c : Unfinished(c) \subseteq Unfinished(c)'
      /\ \A c : c # <<k, f>> => Unfinished(c)' = Unfinished(c)
  BY <1>5, <1>7, <1>8 DEF Unfinished
<1>10. <<k, f>> \in Cells /\ shown \in [Cells -> Values]
  BY DEF Cells, RowsInv, RowShowsJira, TypeOK
<1>11. TypeOK'
  BY <1>1, <1>5, <1>6, <1>10 DEF RowsInv, RowShowsJira, TypeOK, QueueInv, Write
<1>12. RowShowsJira'
  <2>1. \A c \in Cells \ unseen : Unfinished(c)' = {} => shown'[c] = jira[c]
    BY <1>1, <1>9, <1>10 DEF RowsInv, RowShowsJira
  <2>2. \A c \in pendingKeys' : Unfinished(c)' # {}
    BY <1>1, <1>9 DEF RowsInv, RowShowsJira
  <2> QED
    BY <1>1, <1>11, <2>1, <2>2 DEF RowShowsJira
<1>13. WritesComplete' /\ AnswersHold'
  BY <1>1, <1>3, <1>5, <1>6, <1>7, <1>8 DEF RowsInv, WritesComplete, AnswersHold
<1> QED
  BY <1>1, <1>12, <1>13 DEF RowsInv, KeysOfSurface

(* Jira answers a running write: only that cell changes, and no other write *)
(* that runs is of its issue.                                               *)
LEMMA ServeStep ==
  ASSUME RowsInv, QueueInv', NEW j \in DOMAIN jobs, NEW answer \in Answers,
         NEW applied \in BOOLEAN, Serve(j, answer, applied)
  PROVE  RowsInv'
<1>1. /\ j \in In("running") /\ writes[j].answer = "none"
      /\ UNCHANGED <<jobs, activeKeys, activeCount, draining>>
      /\ UNCHANGED <<shown, surface, menu, pendingKeys, unseen>>
  BY DEF Serve, queueVars
<1>2. /\ jobs \in Seq(Job) /\ jobs[j].state = "running" /\ DOMAIN writes = DOMAIN jobs
      /\ writes[j] \in Write /\ Cell(j) \in Cells
      /\ writes[j].target \in Values /\ writes[j].prior \in Values
  BY <1>1, WriteParts DEF In
<1>3. /\ jira \in [Cells -> Values] /\ jira[Cell(j)] \in Values
      /\ writes \in Seq(Write \union {NoWrite}) /\ Len(writes) = Len(jobs)
  BY <1>2 DEF RowsInv, RowShowsJira, TypeOK, Write
<1> PICK c \in Cells : c = Cell(j)
  BY <1>2
<1> PICK had \in Values \union {"none"} :
        had = IF answer \in {"refused", "failed"} THEN jira[c] ELSE "none"
  BY <1>3
<1> PICK w \in Write : w = [writes[j] EXCEPT !.answer = answer, !.current = had]
  BY <1>2, <1>3 DEF Write
<1>4. /\ w.field = writes[j].field /\ w.target = writes[j].target /\ w.prior = writes[j].prior
      /\ w.answer = answer /\ w.current = had
  BY <1>2 DEF Write
<1>5. writes' = [writes EXCEPT ![j] = w]
  BY <1>2, <1>3 DEF Serve
<1>6. /\ writes' \in Seq(Write \union {NoWrite}) /\ Len(writes') = Len(jobs)
      /\ DOMAIN writes' = DOMAIN jobs /\ writes'[j] = w
      /\ \A i \in DOMAIN jobs \ {j} : writes'[i] = writes[i]
  BY <1>2, <1>3, <1>5, Replaced
<1>7. \A i \in DOMAIN jobs : Cell(i)' = Cell(i)
  BY <1>1, <1>4, <1>6 DEF Cell
<1>8. \A d : Unfinished(d)' = Unfinished(d)
  BY <1>1, <1>7 DEF Unfinished
<1>9. /\ jira' \in [Cells -> Values]
      /\ \A d \in Cells \ {c} : jira'[d] = jira[d]
      /\ answer = "success" => jira'[c] = w.target
      /\ answer = "refused" => jira'[c] = jira[c]
  BY <1>2, <1>3, <1>4 DEF Serve
<1>10. j \in Unfinished(c)
  BY <1>2 DEF Unfinished
<1>11. TypeOK'
  BY <1>1, <1>6, <1>9 DEF RowsInv, RowShowsJira, TypeOK, QueueInv, Write
<1>12. RowShowsJira'
  BY <1>1, <1>8, <1>9, <1>10, <1>11 DEF RowsInv, RowShowsJira
<1>13. WritesComplete'
  BY <1>1, <1>6 DEF RowsInv, WritesComplete
<1>14. AnswersHold'
  <2> SUFFICES ASSUME NEW i \in DOMAIN jobs
               PROVE  /\ jobs[i].state = "pending" => writes'[i].answer = "none"
                      /\ jobs[i].state = "running" =>
                           /\ writes'[i].answer = "success" => jira'[Cell(i)] = writes'[i].target
                           /\ writes'[i].answer = "refused" => jira'[Cell(i)] = writes'[i].current
                           /\ writes'[i].answer \in {"refused", "failed"} =>
                                writes'[i].current \in Values
    BY <1>1, <1>7 DEF AnswersHold
  <2>1. CASE i = j
    BY <1>2, <1>3, <1>4, <1>6, <1>9, <2>1
  <2>2. CASE i # j
    <3>1. jobs[i].state = "running" => jobs[i].key # jobs[j].key
      BY <1>1, <2>2 DEF RowsInv, QueueInv, BoundedAndSerial, In
    <3>2. jobs[i].state = "running" => Cell(i) # c /\ Cell(i) \in Cells
      BY <3>1, WriteParts DEF Cell
    <3> QED
      BY <1>6, <1>9, <2>2, <3>2 DEF RowsInv, AnswersHold
  <2> QED
    BY <2>1, <2>2
<1> QED
  BY <1>1, <1>12, <1>13, <1>14 DEF RowsInv, KeysOfSurface

(* The answer reaches the rows, or the surface was left: where it can be    *)
(* trusted the row shows what Jira has.                                     *)
LEMMA AnswerStep ==
  ASSUME RowsInv, QueueInv', NEW j \in DOMAIN jobs, Answer(j)
  PROVE  RowsInv'
<1>1. /\ jobs[j].state = "running" /\ jobs' = [jobs EXCEPT ![j].state = "done"]
      /\ writes[j].answer # "none" /\ writes' = [writes EXCEPT ![j] = NoWrite]
      /\ UNCHANGED <<jira, surface, menu>>
  BY DEF Answer, Finish, In
<1>2. /\ jobs \in Seq(Job) /\ DOMAIN writes = DOMAIN jobs
      /\ writes[j] \in Write /\ Cell(j) \in Cells
      /\ writes[j].target \in Values /\ writes[j].prior \in Values
  BY <1>1, WriteParts
<1> PICK c \in Cells : c = Cell(j)
  BY <1>2
<1>3. /\ jira \in [Cells -> Values] /\ shown \in [Cells -> Values]
      /\ writes \in Seq(Write \union {NoWrite}) /\ Len(writes) = Len(jobs)
      /\ unseen \subseteq Cells /\ pendingKeys \subseteq Cells
      /\ surface \in {"catch_up", "planning"}
  BY DEF RowsInv, RowShowsJira, TypeOK, Write
<1>4. /\ jobs' \in Seq(Job) /\ DOMAIN jobs' = DOMAIN jobs
      /\ \A i \in DOMAIN jobs : jobs'[i].key = jobs[i].key
      /\ jobs'[j].state = "done"
      /\ \A i \in DOMAIN jobs \ {j} : jobs'[i] = jobs[i]
  BY <1>1, <1>2, StateChange
<1>5. Len(jobs') = Len(jobs)
  BY <1>2, <1>4
<1>6. /\ writes' \in Seq(Write \union {NoWrite}) /\ Len(writes') = Len(jobs)
      /\ \A i \in DOMAIN jobs \ {j} : writes'[i] = writes[i]
  BY <1>1, <1>2, <1>3, Replaced
<1>7. \A i \in DOMAIN jobs \ {j} : Cell(i)' = Cell(i)
  BY <1>4, <1>6 DEF Cell
<1>8. \A d : d # c => Unfinished(d)' = Unfinished(d)
  <2> SUFFICES ASSUME NEW d, d # c PROVE Unfinished(d)' = Unfinished(d)
    OBVIOUS
  <2>1. j \notin Unfinished(d) /\ j \notin Unfinished(d)'
    BY <1>4 DEF Unfinished
  <2>2. \A i \in DOMAIN jobs \ {j} : i \in Unfinished(d)' <=> i \in Unfinished(d)
    BY <1>4, <1>7 DEF Unfinished
  <2> QED
    BY <1>4, <2>1, <2>2 DEF Unfinished
<1>9. Reconciled(j) \in Values
  BY <1>1, <1>2 DEF Reconciled, RowsInv, AnswersHold
<1>10. shown' \in [Cells -> Values] /\ \A d \in Cells \ {c} : shown'[d] = shown[d]
  BY <1>3, <1>9 DEF Answer
<1>11. Trusted(j) => shown'[c] = jira[c]
  <2> SUFFICES ASSUME Trusted(j) PROVE shown'[c] = jira[c]
    OBVIOUS
  <2>1. shown'[c] = Reconciled(j)
    BY <1>3 DEF Answer, Trusted
  <2>2. CASE writes[j].answer = "success"
    BY <1>1, <2>1, <2>2 DEF Reconciled, RowsInv, AnswersHold
  <2>3. CASE writes[j].answer = "refused" /\ writes[j].field = "status"
    BY <1>1, <2>1, <2>3 DEF Reconciled, RowsInv, AnswersHold
  <2>4. CASE /\ writes[j].answer = "refused" /\ writes[j].field # "status"
             /\ writes[j].prior = writes[j].current
    BY <1>1, <2>1, <2>4 DEF Reconciled, RowsInv, AnswersHold
  <2> QED
    BY <2>2, <2>3, <2>4 DEF Trusted
<1>12. /\ unseen' \subseteq Cells /\ unseen \ {c} \subseteq unseen'
       /\ c \notin unseen' => Trusted(j)
       /\ pendingKeys' \subseteq pendingKeys /\ c \notin pendingKeys'
       /\ surface # "catch_up" => pendingKeys' = {}
  BY <1>3 DEF Answer, SameScope, RowsInv, KeysOfSurface
<1>13. TypeOK'
  BY <1>1, <1>3, <1>5, <1>6, <1>10, <1>12 DEF RowsInv, RowShowsJira, TypeOK, QueueInv, Write
<1>14. RowShowsJira'
  <2>1. \A d \in Cells \ unseen' : Unfinished(d)' = {} => shown'[d] = jira[d]
    BY <1>8, <1>10, <1>11, <1>12 DEF RowsInv, RowShowsJira
  <2>2. \A d \in pendingKeys' : Unfinished(d)' # {}
    BY <1>8, <1>12 DEF RowsInv, RowShowsJira
  <2> QED
    BY <1>1, <1>13, <2>1, <2>2 DEF RowShowsJira
<1>15. WritesComplete' /\ AnswersHold'
  BY <1>1, <1>4, <1>6, <1>7 DEF RowsInv, WritesComplete, AnswersHold
<1> QED
  BY <1>1, <1>12, <1>14, <1>15 DEF RowsInv, KeysOfSurface

LEMMA NextRowsInv == RowsInv /\ [Next]_vars => RowsInv'
<1> SUFFICES ASSUME RowsInv, [Next]_vars PROVE RowsInv'
  OBVIOUS
<1>0. QueueInv'
  BY StepUsesQueue, QueueNextKeeps DEF RowsInv
<1>1. CASE \E k \in Issues, f \in Fields : Open(k, f)
  BY <1>0, <1>1, MenuStep
<1>2. CASE \E k \in Issues, f \in Fields, v \in Values : Submit(k, f, v)
  BY <1>0, <1>2, SubmitStep
<1>3. CASE \E f \in Fields : Close(f)
  BY <1>0, <1>3, MenuStep
<1>4. CASE \E j \in DOMAIN jobs, answer \in Answers, applied \in BOOLEAN :
               Serve(j, answer, applied)
  BY <1>0, <1>4, ServeStep
<1>5. CASE \E j \in DOMAIN jobs : Answer(j)
  BY <1>0, <1>5, AnswerStep
<1>6. CASE SwitchSurface
  BY <1>0, <1>6, MenuStep
<1>7. CASE Turn
  <2>1. CASE UNCHANGED jobs
    BY <1>0, <1>7, <2>1, MenuStep
  <2>2. CASE \E j \in DOMAIN jobs : Start(j)
    BY <1>0, <1>7, <2>2, StartStep DEF Turn
  <2> QED
    BY <1>7, <2>1, <2>2 DEF Turn, DrainEnd
<1>8. CASE UNCHANGED vars
  BY <1>0, <1>8, QuietStep DEF vars, queueVars, RowsInv, RowShowsJira, TypeOK, KeysOfSurface
<1> QED
  BY <1>1, <1>2, <1>3, <1>4, <1>5, <1>6, <1>7, <1>8 DEF Next

LEMMA InitRowsInv == Init => RowsInv
<1> SUFFICES ASSUME Init PROVE RowsInv
  OBVIOUS
<1>1. QueueInv
  BY QueueInitInv DEF Init
<1>2. jobs = <<>> /\ DOMAIN jobs = {} /\ Len(jobs) = 0
  BY EmptySeq DEF Init, QueueInit
<1>3. \A c : Unfinished(c) = {}
  BY <1>2 DEF Unfinished
<1>4. TypeOK
  <2>1. writes \in Seq(Write \union {NoWrite}) /\ Len(writes) = 0
    BY EmptySeq DEF Init
  <2>2. \A f \in Fields : NoMenu \in {NoMenu}
    OBVIOUS
  <2> QED
    BY <1>1, <1>2, <2>1, InitialAssumption DEF Init, TypeOK, QueueInv, Write
<1>5. RowShowsJira
  BY <1>3, <1>4 DEF Init, RowShowsJira
<1> QED
  BY <1>1, <1>2, <1>5 DEF Init, RowsInv, WritesComplete, AnswersHold, KeysOfSurface

(* Whatever the user does, however Jira answers and whatever else is being  *)
(* written: a cell that has no write under way shows what Jira has, unless  *)
(* its last answer did not get to the rows or did not say what Jira did; a  *)
(* control that is disabled has a write under way.                          *)
THEOREM RowsShowJira == Spec => []RowShowsJira
<1>1. RowsInv => RowShowsJira
  BY DEF RowsInv
<1> QED
  BY <1>1, InitRowsInv, NextRowsInv, PTL DEF Spec
-----------------------------------------------------------------------------
(* The menus: the page and its invariant, in parts that read different       *)
(* fields of it, so that an action disturbs few of them.                     *)

MenuFields ==
    {"hook", "sprint", "jira", "rows", "selected", "marked", "menu", "options", "loading",
     "error", "ref", "asked", "cache", "submitting", "write", "result", "refreshes", "panel",
     "panelAsked", "over", "late", "unseen", "left"}

SameMarked(b, r) == r.selected = b.selected /\ r.marked = b.marked

SameOptions(b, r) ==
    /\ r.menu = b.menu /\ r.options = b.options /\ r.loading = b.loading /\ r.ref = b.ref
    /\ r.asked = b.asked /\ r.cache = b.cache /\ r.over = b.over

SameRows(b, r) ==
    /\ r.jira = b.jira /\ r.rows = b.rows /\ r.refreshes = b.refreshes /\ r.late = b.late
    /\ r.unseen = b.unseen /\ r.sprint = b.sprint

SameWrite(b, r) == r.write = b.write /\ r.submitting = b.submitting

SamePanel(b, r) == r.panel = b.panel /\ r.panelAsked = b.panelAsked

\* All that the options have nothing to do with.
SameBeyond(b, r) ==
    r.hook = b.hook /\ SameMarked(b, r) /\ SameRows(b, r) /\ SameWrite(b, r) /\ SamePanel(b, r)

Requested == [sig : Menus!Signatures, live : BOOLEAN]

MarksTyped(p) == p.selected \subseteq Stories /\ p.marked \subseteq Epics \union Subtasks

OptionsTyped(p) ==
    /\ p.menu \in [key : Menus!Issues, value : MenuValues] \union {Menus!NoMenu}
    /\ p.options \in Menus!Signatures \union {None} /\ p.ref \in Menus!Signatures \union {None}
    /\ p.asked \subseteq Requested /\ p.cache \subseteq Menus!Signatures
    /\ p.loading \in BOOLEAN /\ p.over \in BOOLEAN

\* The request that is waited for is that of the open menu, and the only one
\* that still counts.
OptionsHeld(p) ==
    /\ OptionsTyped(p)
    /\ p.menu = Menus!NoMenu =>
          p.ref = None /\ ~p.loading /\ ~p.over /\ (p.hook = "status" => p.options = None)
    /\ p.ref # None => p.ref = Menus!Signature(p, p.menu.key)
    /\ \A r \in p.asked : r.live => p.loading /\ r.sig = p.ref
    /\ p.loading => \E r \in p.asked : r.live /\ r.sig = p.ref
    /\ p.loading /\ ~p.over => p.options = None
    /\ p.options # None /\ ~p.loading /\ p.menu # Menus!NoMenu /\ ~p.over
       => p.options = Menus!Signature(p, p.menu.key)

\* What Jira changed and the answer under way will report.
Reported(p, k) == p.write.answer # "none" /\ k \in p.write.done

WriteTyped(p) ==
    \/ p.write = Menus!NoWrite
    \/ /\ DOMAIN p.write = {"targets", "value", "sprint", "answer", "done"}
       /\ DOMAIN p.write.targets \subseteq Menus!Issues
       /\ p.write.value \in MenuValues /\ p.write.sprint \in {1, 2}
       /\ p.write.answer \in {"none", "lost", "results"}
       /\ p.write.done \subseteq DOMAIN p.write.targets

WriteHeld(p) ==
    /\ WriteTyped(p)
    /\ p.submitting <=> p.write # Menus!NoWrite
    /\ p.hook = "status" => Cardinality(DOMAIN p.write.targets) <= MaxTargets
    /\ p.hook # "status" => Subtasks \intersect DOMAIN p.write.targets = {}

RowsHeld(p) ==
    /\ p.jira \in [Menus!Issues -> MenuValues] /\ p.rows \in [Menus!Issues -> MenuValues]
    /\ p.refreshes \subseteq {1, 2} /\ p.unseen \subseteq Menus!Issues /\ p.late \in BOOLEAN
    /\ p.sprint \in {1, 2}
    /\ \A k \in Menus!Issues : Reported(p, k) => p.jira[k] = p.write.value
    /\ ~p.late /\ p.sprint \notin p.refreshes =>
          \A k \in (Epics \union Stories) \ p.unseen : p.rows[k] = p.jira[k] \/ Reported(p, k)

ResultHeld(p) == p.result \in {None, 1, 2} /\ (~p.late => p.result \in {None, p.sprint})

PanelHeld(p) ==
    /\ DOMAIN p.panel = {"expanded", "loading", "loaded", "failed", "items", "sprint"}
    /\ p.panel.loading \in BOOLEAN /\ p.panel.loaded \in BOOLEAN
    /\ p.panel.items \in [Subtasks -> MenuValues] \union {None}
    /\ p.panelAsked \subseteq {1, 2}
    /\ p.panel.loading <=> p.panelAsked # {}
    /\ p.panel.loading => ~p.panel.loaded
    /\ p.panel.loaded => p.panel.items # None
    /\ ~p.late => p.panelAsked \subseteq {p.sprint}
    /\ ~p.late /\ p.panel.loaded =>
          /\ p.panel.sprint = p.sprint
          /\ \A k \in Subtasks \ p.unseen : p.panel.items[k] = p.jira[k] \/ Reported(p, k)

MenuPage(p) ==
    /\ DOMAIN p = MenuFields /\ p.hook \in Menus!Hooks
    /\ MarksTyped(p) /\ OptionsHeld(p) /\ WriteHeld(p) /\ RowsHeld(p) /\ ResultHeld(p)
    /\ PanelHeld(p)

LEMMA NoneApart ==
  /\ \A sig \in Menus!Signatures : sig # None
  /\ \A k \in Menus!Issues : k # None
  /\ None \notin MenuValues
BY MenusConstants DEF Menus!MenusAssumption

\* Who keeps the fields keeps what is said of them.
LEMMA OptionsKept ==
  ASSUME NEW b, OptionsHeld(b), NEW r, r.hook = b.hook, SameOptions(b, r)
  PROVE  OptionsHeld(r)
BY DEF OptionsHeld, OptionsTyped, SameOptions, Menus!Signature

LEMMA WriteKept ==
  ASSUME NEW b, WriteHeld(b), NEW r, r.hook = b.hook, SameWrite(b, r)
  PROVE  WriteHeld(r)
BY DEF WriteHeld, WriteTyped, SameWrite

LEMMA RowsKept ==
  ASSUME NEW b, RowsHeld(b), NEW r, SameRows(b, r), r.write = b.write
  PROVE  RowsHeld(r)
BY DEF RowsHeld, SameRows, Reported

LEMMA PanelKept ==
  ASSUME NEW b, PanelHeld(b), NEW r, SameRows(b, r), SamePanel(b, r), r.write = b.write
  PROVE  PanelHeld(r)
BY DEF PanelHeld, SameRows, SamePanel, Reported

LEMMA BeyondKept ==
  ASSUME NEW b, MenuPage(b), NEW r, DOMAIN r = MenuFields, SameBeyond(b, r), ResultHeld(r),
         OptionsHeld(r)
  PROVE  MenuPage(r)
BY WriteKept, RowsKept, PanelKept DEF MenuPage, SameBeyond, MarksTyped, SameMarked, SameWrite

-----------------------------------------------------------------------------
(* Options.                                                                  *)

LEMMA AbortWorks ==
  ASSUME NEW b, DOMAIN b = MenuFields, b.asked \subseteq Requested, NEW r, r = Menus!Abort(b)
  PROVE  /\ DOMAIN r = MenuFields /\ SameBeyond(b, r) /\ r.result = b.result
         /\ r.menu = b.menu /\ r.options = b.options /\ r.loading = b.loading
         /\ r.cache = b.cache /\ r.over = b.over
         /\ r.ref = None /\ r.asked \subseteq Requested /\ \A x \in r.asked : ~x.live
<1>1. PICK a : a = {[x EXCEPT !.live = FALSE] : x \in b.asked}
  OBVIOUS
<1>2. r = [b EXCEPT !.ref = None, !.asked = a]
  BY <1>1 DEF Menus!Abort
<1>3. a \subseteq Requested /\ \A x \in a : ~x.live
  BY <1>1 DEF Requested
<1> QED
  BY <1>2, <1>3 DEF MenuFields, SameBeyond, SameMarked, SameRows, SameWrite, SamePanel

\* A page whose menu has just been opened for an issue the signature is of.
Asking(p, sig) ==
    /\ DOMAIN p = MenuFields /\ OptionsTyped(p)
    /\ p.menu # Menus!NoMenu /\ sig = Menus!Signature(p, p.menu.key) /\ sig \in Menus!Signatures

LEMMA CachedWorks ==
  ASSUME NEW p, NEW sig, Asking(p, sig),
         NEW r, r = [Menus!Abort(p) EXCEPT !.options = sig, !.loading = FALSE, !.error = FALSE]
  PROVE  DOMAIN r = MenuFields /\ SameBeyond(p, r) /\ r.result = p.result /\ OptionsHeld(r)
<1>1. PICK a : a = Menus!Abort(p)
  OBVIOUS
<1>2. /\ DOMAIN a = MenuFields /\ SameBeyond(p, a) /\ a.result = p.result
      /\ a.menu = p.menu /\ a.cache = p.cache /\ a.over = p.over
      /\ a.ref = None /\ a.asked \subseteq Requested /\ \A x \in a.asked : ~x.live
  BY <1>1, AbortWorks DEF Asking, OptionsTyped
<1>3. r = [a EXCEPT !.options = sig, !.loading = FALSE, !.error = FALSE]
  BY <1>1
<1>4. /\ DOMAIN r = MenuFields /\ SameBeyond(a, r) /\ r.result = a.result
      /\ r.menu = a.menu /\ r.cache = a.cache /\ r.over = a.over /\ r.ref = a.ref
      /\ r.asked = a.asked /\ r.options = sig /\ r.loading = FALSE
  BY <1>2, <1>3 DEF MenuFields, SameBeyond, SameMarked, SameRows, SameWrite, SamePanel
<1>5. SameBeyond(p, r) /\ r.hook = p.hook
  BY <1>2, <1>4 DEF SameBeyond, SameMarked, SameRows, SameWrite, SamePanel
<1>6. OptionsHeld(r)
  BY <1>2, <1>4, <1>5 DEF Asking, OptionsTyped, OptionsHeld, Menus!Signature
<1> QED
  BY <1>2, <1>4, <1>5, <1>6

LEMMA AskWorks ==
  ASSUME NEW p, NEW sig, Asking(p, sig), NEW o, o \in {p.options, None},
         p.over \/ o = None,
         NEW r, r = [Menus!Ask(p, sig) EXCEPT !.options = o]
  PROVE  DOMAIN r = MenuFields /\ SameBeyond(p, r) /\ r.result = p.result /\ OptionsHeld(r)
<1>1. PICK a : a = Menus!Abort(p)
  OBVIOUS
<1>2. /\ DOMAIN a = MenuFields /\ SameBeyond(p, a) /\ a.result = p.result
      /\ a.menu = p.menu /\ a.options = p.options /\ a.cache = p.cache /\ a.over = p.over
      /\ a.asked \subseteq Requested /\ \A x \in a.asked : ~x.live
  BY <1>1, AbortWorks DEF Asking, OptionsTyped
<1>3. PICK x : x = [sig |-> sig, live |-> TRUE]
  OBVIOUS
<1>4. x \in Requested /\ x.live /\ x.sig = sig
  BY <1>3 DEF Requested, Asking
<1>5. PICK n : n = [a EXCEPT !.ref = sig, !.loading = TRUE, !.error = FALSE,
                             !.asked = @ \union {x}]
  OBVIOUS
<1>6. r = [n EXCEPT !.options = o]
  BY <1>1, <1>3, <1>5 DEF Menus!Ask
<1>61. /\ DOMAIN n = MenuFields /\ SameBeyond(a, n) /\ n.result = a.result
      /\ n.menu = a.menu /\ n.cache = a.cache /\ n.over = a.over /\ n.ref = sig
      /\ n.asked = a.asked \union {x} /\ n.loading = TRUE
  BY <1>2, <1>5 DEF MenuFields, SameBeyond, SameMarked, SameRows, SameWrite, SamePanel
<1>7. /\ DOMAIN r = MenuFields /\ SameBeyond(a, r) /\ r.result = a.result
      /\ r.menu = a.menu /\ r.cache = a.cache /\ r.over = a.over /\ r.ref = sig
      /\ r.asked = a.asked \union {x} /\ r.options = o /\ r.loading = TRUE
  BY <1>6, <1>61 DEF MenuFields, SameBeyond, SameMarked, SameRows, SameWrite, SamePanel
<1>8. SameBeyond(p, r) /\ r.hook = p.hook
  BY <1>2, <1>7 DEF SameBeyond, SameMarked, SameRows, SameWrite, SamePanel
<1>9. OptionsHeld(r)
  <2>1. sig = Menus!Signature(r, r.menu.key) /\ r.menu # Menus!NoMenu
    BY <1>2, <1>7, <1>8 DEF Asking, Menus!Signature
  <2>2. OptionsTyped(r)
    BY <1>2, <1>4, <1>7, <1>8 DEF Asking, OptionsTyped
  <2> QED
    BY <1>2, <1>4, <1>7, <1>8, <2>1, <2>2 DEF OptionsHeld
<1> QED
  BY <1>2, <1>7, <1>8, <1>9

LEMMA AskEmptyWorks ==
  ASSUME NEW p, NEW sig, Asking(p, sig),
         NEW r, r = [Menus!Ask(p, sig) EXCEPT !.options = None]
  PROVE  DOMAIN r = MenuFields /\ SameBeyond(p, r) /\ r.result = p.result /\ OptionsHeld(r)
<1>1. PICK o : o = None
  OBVIOUS
<1>2. r = [Menus!Ask(p, sig) EXCEPT !.options = o] /\ o \in {p.options, None}
  BY <1>1
<1> QED
  BY <1>1, <1>2, AskWorks

\* A menu opens on an issue that is on the page, and asks or finds its options.
LEMMA OpenHeld ==
  ASSUME MenuPage(page), NEW k, Menus!Open(k)
  PROVE  MenuPage(page')
<1>1. PICK value : value = Menus!RowValue(page, k)
  OBVIOUS
<1>2. PICK m : m = [key |-> k, value |-> value]
  OBVIOUS
<1>3. PICK over \in BOOLEAN : over <=> page.menu # Menus!NoMenu
  OBVIOUS
<1>4. PICK left : left = [page.left EXCEPT !.opens = @ - 1]
  OBVIOUS
<1>5. PICK p : p = [page EXCEPT !.menu = m, !.over = over, !.result = None, !.left = left]
  OBVIOUS
<1>6. page' = Menus!LoadOptions(p) /\ k \in Menus!Shown(page)
  BY <1>1, <1>2, <1>3, <1>4, <1>5 DEF Menus!Open
<1>7. /\ DOMAIN p = MenuFields /\ SameBeyond(page, p) /\ p.result = None
      /\ p.menu = m /\ p.over = over /\ p.options = page.options /\ p.loading = page.loading
      /\ p.ref = page.ref /\ p.asked = page.asked /\ p.cache = page.cache
  BY <1>5 DEF MenuPage, MenuFields, SameBeyond, SameMarked, SameRows, SameWrite, SamePanel
<1>8. k \in Menus!Issues /\ value \in MenuValues
  <2>1. CASE k \in Subtasks
    BY <1>1, <1>6, <2>1, MenusConstants 
    DEF Menus!RowValue, Menus!Shown, Menus!Issues, Menus!MenusAssumption,
       MenuPage, PanelHeld, Menus!Hooks
  <2>2. CASE k \notin Subtasks
    BY <1>1, <1>6, <2>2
    DEF Menus!RowValue, Menus!Shown, Menus!Issues, MenuPage, RowsHeld, Menus!Hooks
  <2> QED
    BY <2>1, <2>2
<1>9. m # Menus!NoMenu /\ m.key = k /\ m.value = value
  BY <1>2, <1>8, NoneApart DEF Menus!NoMenu
<1>10. PICK sig : sig = Menus!Signature(p, k)
  OBVIOUS
<1>11. sig \in Menus!Signatures
  <2>1. Menus!Kind(k) \in {"Epic", "Story", "Subtask"}
    BY DEF Menus!Kind
  <2>2. p.hook \in Menus!Hooks /\ (p.hook = "track" => k \in Epics)
    BY <1>6, <1>7 DEF MenuPage, SameBeyond, Menus!Shown, Menus!Hooks
  <2> QED
    BY <1>7, <1>8, <1>9, <1>10, <2>1, <2>2 DEF Menus!Signature, Menus!Signatures, Menus!Hooks
<1>12. Asking(p, sig)
  <2>1. OptionsTyped(p)
    BY <1>2, <1>7, <1>8 DEF MenuPage, OptionsHeld, OptionsTyped
  <2> QED
    BY <1>7, <1>9, <1>10, <1>11, <2>1 DEF Asking
<1>13. page.menu = Menus!NoMenu =>
          ~p.over /\ p.ref = None /\ (page.hook = "status" => p.options = None)
  BY <1>3, <1>7 DEF MenuPage, OptionsHeld
<1>14. PICK q : q = page'
  OBVIOUS
<1>15. DOMAIN q = MenuFields /\ SameBeyond(p, q) /\ q.result = p.result /\ OptionsHeld(q)
  <2>1. CASE p.hook = "status"
    <3>1. q = Menus!LoadTransitionOptions(p, sig)
      BY <1>6, <1>7, <1>9, <1>10, <1>14, <2>1 DEF Menus!LoadOptions
    <3>2. CASE p.ref = sig
      <4>1. q = p
        BY <3>1, <3>2 DEF Menus!LoadTransitionOptions
      <4>2. page.menu # Menus!NoMenu /\ p.over
        BY <1>3, <1>7, <1>11, <1>13, <3>2, NoneApart
      <4>3. OptionsHeld(p)
        BY <1>7, <1>9, <1>10, <1>12, <3>2, <4>2 DEF OptionsHeld, MenuPage, Asking
      <4> QED
        BY <1>7, <4>1, <4>3 DEF SameBeyond, SameMarked, SameRows, SameWrite, SamePanel
    <3>3. CASE p.ref # sig /\ sig \in p.cache
      <4>1. q = [Menus!Abort(p) EXCEPT !.options = sig, !.loading = FALSE, !.error = FALSE]
        BY <3>1, <3>3 DEF Menus!LoadTransitionOptions
      <4> QED
        BY <1>12, <4>1, CachedWorks
    <3>4. CASE p.ref # sig /\ sig \notin p.cache
      <4>1. PICK a : a = Menus!Ask(p, sig)
        OBVIOUS
      <4>2. q = a
        BY <3>1, <3>4, <4>1 DEF Menus!LoadTransitionOptions
      <4>3. a = [a EXCEPT !.options = p.options]
        <5>1. a = [Menus!Abort(p) EXCEPT !.ref = sig, !.loading = TRUE, !.error = FALSE,
                                         !.asked = @ \union {[sig |-> sig, live |-> TRUE]}]
          BY <4>1 DEF Menus!Ask
        <5>2. DOMAIN Menus!Abort(p) = MenuFields /\ Menus!Abort(p).options = p.options
          BY <1>12, AbortWorks DEF Asking, OptionsTyped
        <5>3. DOMAIN a = MenuFields /\ a.options = p.options /\ a = [f \in MenuFields |-> a[f]]
          BY <5>1, <5>2 DEF MenuFields
        <5> QED
          BY <5>3
      <4>4. p.over \/ p.options = None
        BY <1>3, <1>7, <1>13, <2>1 DEF SameBeyond
      <4> QED
        BY <1>12, <4>1, <4>2, <4>3, <4>4, AskWorks
    <3> QED
      BY <3>2, <3>3, <3>4
  <2>2. CASE p.hook = "priority"
    <3>1. q = Menus!LoadPriorityOptions(p, sig)
      BY <1>6, <1>7, <1>9, <1>10, <1>14, <2>2 DEF Menus!LoadOptions
    <3>2. CASE sig \in p.cache
      <4>1. q = [Menus!Abort(p) EXCEPT !.options = sig, !.loading = FALSE, !.error = FALSE]
        BY <3>1, <3>2 DEF Menus!LoadPriorityOptions
      <4> QED
        BY <1>12, <4>1, CachedWorks
    <3>3. CASE sig \notin p.cache
      <4>1. PICK others : others = {r \in p.asked : r.sig # sig}
        OBVIOUS
      <4>2. PICK j : j = [p EXCEPT !.asked = others]
        OBVIOUS
      <4>3. q = [Menus!Ask(j, sig) EXCEPT !.options = None]
        BY <3>1, <3>3, <4>1, <4>2 DEF Menus!LoadPriorityOptions, Menus!JoinRequest
      <4>4. /\ DOMAIN j = MenuFields /\ SameBeyond(p, j) /\ j.result = p.result
            /\ j.menu = p.menu /\ j.options = p.options /\ j.loading = p.loading
            /\ j.ref = p.ref /\ j.asked = others /\ j.cache = p.cache /\ j.over = p.over
        BY <1>7, <4>2 DEF MenuFields, SameBeyond, SameMarked, SameRows, SameWrite, SamePanel
      <4>5. Asking(j, sig)
        BY <1>12, <4>1, <4>4 DEF Asking, OptionsTyped, Menus!Signature, SameBeyond
      <4>6. DOMAIN q = MenuFields /\ SameBeyond(j, q) /\ q.result = j.result /\ OptionsHeld(q)
        BY <4>3, <4>5, AskEmptyWorks
      <4> QED
        BY <4>4, <4>6 DEF SameBeyond, SameMarked, SameRows, SameWrite, SamePanel
    <3> QED
      BY <3>2, <3>3
  <2>3. CASE p.hook = "track"
    <3>1. q = Menus!LoadTrackOptions(p, sig)
      BY <1>6, <1>7, <1>9, <1>10, <1>14, <2>3 DEF Menus!LoadOptions
    <3>2. q = [Menus!Ask(p, sig) EXCEPT !.options = None]
      BY <3>1 DEF Menus!LoadTrackOptions
    <3> QED
      BY <1>12, <3>2, AskEmptyWorks
  <2>4. p.hook \in {"status", "priority", "track"}
    BY <1>7 DEF MenuPage, SameBeyond, Menus!Hooks
  <2> QED
    BY <2>1, <2>2, <2>3, <2>4
<1>16. SameBeyond(page, q) /\ ResultHeld(q)
  BY <1>7, <1>15 DEF SameBeyond, SameMarked, SameRows, SameWrite, SamePanel, ResultHeld
<1> QED
  BY <1>14, <1>15, <1>16, BeyondKept

LEMMA ClosedWorks ==
  ASSUME NEW p, MenuPage(p), NEW r, r = Menus!Closed(p)
  PROVE  DOMAIN r = MenuFields /\ SameBeyond(p, r) /\ r.result = p.result /\ OptionsHeld(r)
<1>1. PICK a : a = Menus!Abort(p)
  OBVIOUS
<1>2. /\ DOMAIN a = MenuFields /\ SameBeyond(p, a) /\ a.result = p.result
      /\ a.options = p.options /\ a.cache = p.cache
      /\ a.ref = None /\ a.asked \subseteq Requested /\ \A x \in a.asked : ~x.live
  BY <1>1, AbortWorks DEF MenuPage, OptionsHeld, OptionsTyped
<1>3. PICK o : o = IF p.hook = "status" THEN None ELSE a.options
  OBVIOUS
<1>4. r = [a EXCEPT !.menu = Menus!NoMenu, !.loading = FALSE, !.error = FALSE, !.over = FALSE,
                    !.options = o]
  BY <1>1, <1>3 DEF Menus!Closed
<1>5. /\ DOMAIN r = MenuFields /\ SameBeyond(a, r) /\ r.result = a.result
      /\ r.menu = Menus!NoMenu /\ r.cache = a.cache /\ r.over = FALSE /\ r.ref = None
      /\ r.asked = a.asked /\ r.options = o /\ r.loading = FALSE
  BY <1>2, <1>4 DEF MenuFields, SameBeyond, SameMarked, SameRows, SameWrite, SamePanel
<1>6. SameBeyond(p, r) /\ r.hook = p.hook
  BY <1>2, <1>5 DEF SameBeyond, SameMarked, SameRows, SameWrite, SamePanel
<1>7. OptionsHeld(r)
  BY <1>2, <1>3, <1>5, <1>6 DEF MenuPage, OptionsHeld, OptionsTyped
<1> QED
  BY <1>2, <1>5, <1>6, <1>7

LEMMA CloseHeld ==
  ASSUME MenuPage(page), Menus!Close
  PROVE  MenuPage(page')
<1>1. PICK q : q = page'
  OBVIOUS
<1>2. DOMAIN q = MenuFields /\ SameBeyond(page, q) /\ q.result = page.result /\ OptionsHeld(q)
  BY <1>1, ClosedWorks DEF Menus!Close
<1>3. ResultHeld(q)
  BY <1>2 DEF MenuPage, SameBeyond, SameRows, ResultHeld
<1> QED
  BY <1>1, <1>2, <1>3, BeyondKept

\* Of the requests for options one counts: its answer is for the open menu.
LEMMA AnswerOptionsHeld ==
  ASSUME MenuPage(page), NEW r \in page.asked, NEW ok \in BOOLEAN, Menus!AnswerOptions(r, ok)
  PROVE  MenuPage(page')
<1>1. PICK asked : asked = page.asked \ {r}
  OBVIOUS
<1>2. PICK left : left = [page.left EXCEPT !.fails = IF ok THEN @ ELSE @ - 1]
  OBVIOUS
<1>3. PICK p : p = [page EXCEPT !.asked = asked, !.left = left]
  OBVIOUS
<1>4. page' = Menus!Taken(p, r, ok)
  BY <1>1, <1>2, <1>3 DEF Menus!AnswerOptions
<1>5. /\ DOMAIN p = MenuFields /\ SameBeyond(page, p) /\ p.result = page.result
      /\ p.menu = page.menu /\ p.options = page.options /\ p.loading = page.loading
      /\ p.ref = page.ref /\ p.asked = asked /\ p.cache = page.cache /\ p.over = page.over
  BY <1>3 DEF MenuPage, MenuFields, SameBeyond, SameMarked, SameRows, SameWrite, SamePanel
<1>6. r \in Requested /\ r.sig \in Menus!Signatures /\ r.live \in BOOLEAN
  BY DEF MenuPage, OptionsHeld, OptionsTyped, Requested
<1>7. r.live => \A x \in asked : ~x.live
  BY <1>1, <1>6 DEF MenuPage, OptionsHeld, OptionsTyped, Requested
<1>8. /\ r.live => /\ page.loading /\ r.sig = page.ref /\ page.menu # Menus!NoMenu
                   /\ r.sig = Menus!Signature(page, page.menu.key)
      /\ \A x \in asked : x.live => page.loading /\ x.sig = page.ref
      /\ ~r.live /\ page.loading => \E x \in asked : x.live /\ x.sig = page.ref
  BY <1>1, <1>6, NoneApart DEF MenuPage, OptionsHeld
<1>9. PICK ref : ref = IF r.live /\ p.hook # "status" THEN None ELSE p.ref
  OBVIOUS
<1>10. PICK b : b = IF r.live /\ p.hook # "status" THEN [p EXCEPT !.ref = None] ELSE p
  OBVIOUS
<1>11. /\ DOMAIN b = MenuFields /\ SameBeyond(page, b) /\ b.result = page.result
       /\ b.menu = page.menu /\ b.options = page.options /\ b.loading = page.loading
       /\ b.ref = ref /\ b.asked = asked /\ b.cache = page.cache /\ b.over = page.over
  BY <1>5, <1>9, <1>10 DEF MenuFields, SameBeyond, SameMarked, SameRows, SameWrite, SamePanel
<1>12. PICK q : q = page'
  OBVIOUS
<1>13. DOMAIN q = MenuFields /\ SameBeyond(page, q) /\ q.result = page.result /\ OptionsHeld(q)
  <2>1. CASE r.live /\ ok
    <3>1. PICK cache : cache = IF p.hook = "track" THEN b.cache ELSE b.cache \union {r.sig}
      OBVIOUS
    <3>2. q = [b EXCEPT !.options = r.sig, !.loading = FALSE, !.cache = cache]
      BY <1>4, <1>10, <1>12, <2>1, <3>1 DEF Menus!Taken
    <3>3. /\ DOMAIN q = MenuFields /\ SameBeyond(page, q) /\ q.result = page.result
          /\ q.menu = page.menu /\ q.options = r.sig /\ q.loading = FALSE
          /\ q.ref = ref /\ q.asked = asked /\ q.cache = cache /\ q.over = page.over
      BY <1>11, <3>2 DEF MenuFields, SameBeyond, SameMarked, SameRows, SameWrite, SamePanel
    <3>4. OptionsTyped(q)
      BY <1>1, <1>5, <1>6, <1>9, <1>11, <3>1, <3>3
      DEF MenuPage, OptionsHeld, OptionsTyped, Requested
    <3>5. Menus!Signature(q, q.menu.key) = Menus!Signature(page, page.menu.key)
      BY <3>3 DEF Menus!Signature, SameBeyond
    <3>6. OptionsHeld(q)
      BY <1>5, <1>7, <1>8, <1>9, <2>1, <3>3, <3>4, <3>5 DEF MenuPage, OptionsHeld
    <3> QED
      BY <3>3, <3>6
  <2>2. CASE r.live /\ ~ok
    <3>1. q = [b EXCEPT !.error = TRUE, !.loading = FALSE]
      BY <1>4, <1>10, <1>12, <2>2 DEF Menus!Taken
    <3>2. /\ DOMAIN q = MenuFields /\ SameBeyond(page, q) /\ q.result = page.result
          /\ q.menu = page.menu /\ q.options = page.options /\ q.loading = FALSE
          /\ q.ref = ref /\ q.asked = asked /\ q.cache = page.cache /\ q.over = page.over
      BY <1>11, <3>1 DEF MenuFields, SameBeyond, SameMarked, SameRows, SameWrite, SamePanel
    <3>3. OptionsTyped(q)
      BY <1>1, <1>5, <1>6, <1>9, <1>11, <3>2 DEF MenuPage, OptionsHeld, OptionsTyped
    <3>4. Menus!Signature(q, q.menu.key) = Menus!Signature(page, page.menu.key)
      BY <3>2 DEF Menus!Signature, SameBeyond
    <3>5. OptionsHeld(q)
      BY <1>5, <1>7, <1>8, <1>9, <2>2, <3>2, <3>3, <3>4 DEF MenuPage, OptionsHeld
    <3> QED
      BY <3>2, <3>5
  <2>3. CASE ~r.live
    <3>1. PICK cache : cache = IF ok /\ p.hook = "priority" THEN b.cache \union {r.sig} ELSE b.cache
      OBVIOUS
    <3>2. /\ DOMAIN q = MenuFields /\ SameBeyond(page, q) /\ q.result = page.result
          /\ q.menu = page.menu /\ q.options = page.options /\ q.loading = page.loading
          /\ q.ref = page.ref /\ q.asked = asked /\ q.cache = cache /\ q.over = page.over
      <4>1. CASE ok /\ p.hook = "priority"
        <5>1. q = [b EXCEPT !.cache = cache]
          BY <1>4, <1>10, <1>12, <2>3, <3>1, <4>1 DEF Menus!Taken
        <5> QED
          BY <1>5, <1>9, <1>11, <2>3, <5>1
          DEF MenuFields, SameBeyond, SameMarked, SameRows, SameWrite, SamePanel
      <4>2. CASE ~(ok /\ p.hook = "priority")
        <5>1. q = b
          BY <1>4, <1>10, <1>12, <2>3, <4>2 DEF Menus!Taken
        <5> QED
          BY <1>5, <1>9, <1>11, <2>3, <3>1, <4>2, <5>1
      <4> QED
        BY <4>1, <4>2
    <3>3. OptionsTyped(q)
      BY <1>1, <1>5, <1>6, <1>11, <3>1, <3>2 DEF MenuPage, OptionsHeld, OptionsTyped
    <3>4. Menus!Signature(q, q.menu.key) = Menus!Signature(page, page.menu.key)
      BY <3>2 DEF Menus!Signature, SameBeyond
    <3>5. OptionsHeld(q)
      BY <1>8, <2>3, <3>2, <3>3, <3>4 DEF MenuPage, OptionsHeld, SameBeyond
    <3> QED
      BY <3>2, <3>5
  <2> QED
    BY <1>6, <2>1, <2>2, <2>3
<1>14. ResultHeld(q)
  BY <1>13 DEF MenuPage, SameBeyond, SameRows, ResultHeld
<1> QED
  BY <1>12, <1>13, <1>14, BeyondKept

-----------------------------------------------------------------------------
(* Targets and writes.                                                       *)

LEMMA MarksChangedHeld ==
  ASSUME NEW b, MenuPage(b), NEW r, DOMAIN r = MenuFields, r.hook = b.hook,
         SameOptions(b, r), SameRows(b, r), SameWrite(b, r), SamePanel(b, r),
         r.result = b.result, MarksTyped(r)
  PROVE  MenuPage(r)
<1>1. ResultHeld(r) /\ r.write = b.write
  BY DEF MenuPage, ResultHeld, SameRows, SameWrite
<1> QED
  BY <1>1, OptionsKept, WriteKept, RowsKept, PanelKept DEF MenuPage

LEMMA SelectStoryHeld ==
  ASSUME MenuPage(page), NEW k \in Stories, Menus!SelectStory(k)
  PROVE  MenuPage(page')
<1>1. PICK s : s = IF k \in page.selected THEN page.selected \ {k} ELSE page.selected \union {k}
  OBVIOUS
<1>2. PICK left : left = [page.left EXCEPT !.toggles = @ - 1]
  OBVIOUS
<1>3. page' = [page EXCEPT !.selected = s, !.left = left]
  BY <1>1, <1>2 DEF Menus!SelectStory
<1>4. PICK q : q = page'
  OBVIOUS
<1>5. /\ DOMAIN q = MenuFields /\ q.hook = page.hook
      /\ SameOptions(page, q) /\ SameRows(page, q) /\ SameWrite(page, q) /\ SamePanel(page, q)
      /\ q.result = page.result /\ q.selected = s /\ q.marked = page.marked
  BY <1>3, <1>4 DEF MenuPage, MenuFields, SameOptions, SameRows, SameWrite, SamePanel
<1>6. MarksTyped(q)
  BY <1>1, <1>5 DEF MenuPage, MarksTyped
<1> QED
  BY <1>4, <1>5, <1>6, MarksChangedHeld

LEMMA ToggleTargetHeld ==
  ASSUME MenuPage(page), NEW k \in Menus!Issues, Menus!ToggleTarget(k)
  PROVE  MenuPage(page')
<1>1. PICK m : m = IF k \in page.marked THEN page.marked \ {k} ELSE page.marked \union {k}
  OBVIOUS
<1>2. PICK left : left = [page.left EXCEPT !.toggles = @ - 1]
  OBVIOUS
<1>3. page' = [page EXCEPT !.marked = m, !.left = left] /\ k \notin Stories
  BY <1>1, <1>2 DEF Menus!ToggleTarget
<1>4. PICK q : q = page'
  OBVIOUS
<1>5. /\ DOMAIN q = MenuFields /\ q.hook = page.hook
      /\ SameOptions(page, q) /\ SameRows(page, q) /\ SameWrite(page, q) /\ SamePanel(page, q)
      /\ q.result = page.result /\ q.marked = m /\ q.selected = page.selected
  BY <1>3, <1>4 DEF MenuPage, MenuFields, SameOptions, SameRows, SameWrite, SamePanel
<1>6. MarksTyped(q)
  BY <1>1, <1>3, <1>5 DEF MenuPage, MarksTyped, Menus!Issues
<1> QED
  BY <1>4, <1>5, <1>6, MarksChangedHeld

\* No write is under way when one is made, so that all rows show what Jira has.
LEMMA WrittenHeld ==
  ASSUME MenuPage(page), ~page.submitting,
         NEW targets, targets \subseteq Menus!Issues, NEW value \in MenuValues,
         page.hook = "status" => Cardinality(targets) <= MaxTargets,
         page.hook # "status" => Subtasks \intersect targets = {},
         page' = Menus!Written(page, targets, value)
  PROVE  MenuPage(page')
<1>1. PICK t : t = [k \in targets |-> Menus!RowValue(page, k)]
  OBVIOUS
<1>2. PICK w : w = [targets |-> t, value |-> value, sprint |-> page.sprint,
                    answer |-> "none", done |-> {}]
  OBVIOUS
<1>3. PICK left : left = [page.left EXCEPT !.writes = @ - 1]
  OBVIOUS
<1>4. page' = [page EXCEPT !.submitting = TRUE, !.error = FALSE, !.left = left, !.write = w]
  BY <1>1, <1>2, <1>3 DEF Menus!Written
<1>5. PICK q : q = page'
  OBVIOUS
<1>6. /\ DOMAIN q = MenuFields /\ q.hook = page.hook
      /\ SameOptions(page, q) /\ SameRows(page, q) /\ SameMarked(page, q) /\ SamePanel(page, q)
      /\ q.result = page.result /\ q.write = w /\ q.submitting = TRUE
  BY <1>4, <1>5 DEF MenuPage, MenuFields, SameOptions, SameRows, SameMarked, SamePanel
<1>7. /\ DOMAIN w = {"targets", "value", "sprint", "answer", "done"} /\ DOMAIN w.targets = targets
      /\ w.value = value /\ w.sprint = page.sprint /\ w.answer = "none" /\ w.done = {}
  BY <1>1, <1>2
<1>8. w # Menus!NoWrite
  BY <1>7, NoneApart DEF Menus!NoWrite
<1>9. page.write = Menus!NoWrite /\ page.write.answer = "none"
  BY DEF MenuPage, WriteHeld, Menus!NoWrite
<1>10. WriteHeld(q)
  BY <1>6, <1>7, <1>8 DEF MenuPage, RowsHeld, WriteHeld, WriteTyped
<1>11. RowsHeld(q)
  BY <1>6, <1>7, <1>9 DEF MenuPage, RowsHeld, SameRows, Reported
<1>12. PanelHeld(q)
  BY <1>6, <1>7, <1>9 DEF MenuPage, PanelHeld, SameRows, SamePanel, Reported
<1>13. MarksTyped(q) /\ ResultHeld(q)
  BY <1>6 DEF MenuPage, MarksTyped, SameMarked, ResultHeld, SameRows
<1>14. OptionsHeld(q)
  BY <1>6, OptionsKept DEF MenuPage
<1> QED
  BY <1>5, <1>6, <1>10, <1>11, <1>12, <1>13, <1>14 DEF MenuPage

\* The instance has an operator of its own.
LEMMA MenusCardinality == \A S : Menus!Cardinality(S) = Cardinality(S)
BY DEF Menus!Cardinality, Cardinality

LEMMA SubmitBatchHeld ==
  ASSUME MenuPage(page), NEW value, Menus!SubmitBatch(value)
  PROVE  MenuPage(page')
<1>1. PICK targets : targets = Menus!StatusTargets(page)
  OBVIOUS
<1>2. targets \subseteq Menus!Issues
  BY <1>1 DEF Menus!StatusTargets, MenuPage, MarksTyped, Menus!Issues
<1>3. ~page.submitting /\ page.hook = "status" /\ Cardinality(targets) \in 1 .. MaxTargets
  BY <1>1, MenusCardinality DEF Menus!SubmitBatch, Menus!OptionDisabled
<1>4. Cardinality(targets) <= MaxTargets
  BY <1>3
<1>5. value \in MenuValues
  BY DEF Menus!SubmitBatch, Menus!Offered
<1>6. page' = Menus!Written(page, targets, value)
  BY <1>1 DEF Menus!SubmitBatch
<1> QED
  BY <1>2, <1>3, <1>4, <1>5, <1>6, WrittenHeld

LEMMA SubmitOneHeld ==
  ASSUME MenuPage(page), NEW value, Menus!SubmitPriority(value) \/ Menus!SubmitTrack(value)
  PROVE  MenuPage(page')
<1>1. PICK targets : targets = {page.menu.key}
  OBVIOUS
<1>2. /\ ~page.submitting /\ page.hook \in {"priority", "track"}
      /\ value \in Menus!Offered(page) /\ page' = Menus!Written(page, targets, value)
  BY <1>1 DEF Menus!SubmitPriority, Menus!SubmitTrack, Menus!OptionDisabled
<1>3. value \in MenuValues /\ page.menu.key \in Menus!Shown(page)
  BY <1>2 DEF Menus!Offered
<1>4. page.menu.key \in Epics \union Stories
  BY <1>2, <1>3 DEF Menus!Shown
<1>5. targets \subseteq Menus!Issues /\ Subtasks \intersect targets = {}
  BY <1>1, <1>4, MenusConstants DEF Menus!MenusAssumption, Menus!Issues
<1> QED
  BY <1>2, <1>3, <1>5, WrittenHeld

\* Jira changes issues, and the answer to come reports those that are not
\* unseen from now on.
LEMMA ServeHeld ==
  ASSUME MenuPage(page), NEW made \in SUBSET DOMAIN page.write.targets,
         NEW done \in SUBSET DOMAIN page.write.targets, NEW lost \in BOOLEAN,
         Menus!Serve(made, done, lost)
  PROVE  MenuPage(page')
<1>1. PICK answer : answer = IF lost THEN "lost" ELSE "results"
  OBVIOUS
<1>2. PICK w : w = [page.write EXCEPT !.answer = answer, !.done = done]
  OBVIOUS
<1>3. PICK now : now = [k \in Menus!Issues |->
                       IF k \in made THEN page.write.value ELSE page.jira[k]]
  OBVIOUS
<1>4. PICK hidden : hidden = page.unseen \union (made \ done)
  OBVIOUS
<1>5. PICK left : left = [page.left EXCEPT !.fails = IF lost \/ done # made THEN @ - 1 ELSE @]
  OBVIOUS
<1>6. /\ page' = [page EXCEPT !.jira = now, !.write = w, !.unseen = hidden, !.left = left]
      /\ page.write # Menus!NoWrite /\ page.write.answer = "none" /\ done \subseteq made
  BY <1>1, <1>2, <1>3, <1>4, <1>5 DEF Menus!Serve
<1>7. /\ DOMAIN page.write = {"targets", "value", "sprint", "answer", "done"}
      /\ DOMAIN page.write.targets \subseteq Menus!Issues
      /\ page.write.value \in MenuValues /\ page.write.sprint \in {1, 2}
  BY <1>6 DEF MenuPage, WriteHeld, WriteTyped
<1>8. /\ DOMAIN w = DOMAIN page.write /\ w.targets = page.write.targets
      /\ w.value = page.write.value /\ w.sprint = page.write.sprint
      /\ w.answer = answer /\ w.done = done /\ answer \in {"lost", "results"}
  BY <1>1, <1>2, <1>7
<1>9. w # Menus!NoWrite
  BY <1>7, <1>8, NoneApart DEF Menus!NoWrite
<1>10. PICK q : q = page'
  OBVIOUS
<1>11. /\ DOMAIN q = MenuFields /\ q.hook = page.hook
       /\ SameOptions(page, q) /\ SameMarked(page, q) /\ SamePanel(page, q)
       /\ q.rows = page.rows /\ q.refreshes = page.refreshes /\ q.late = page.late
       /\ q.sprint = page.sprint /\ q.result = page.result /\ q.submitting = page.submitting
       /\ q.jira = now /\ q.write = w /\ q.unseen = hidden
  BY <1>6, <1>10 DEF MenuPage, MenuFields, SameOptions, SameMarked, SamePanel
<1>12. WriteHeld(q)
  BY <1>6, <1>7, <1>8, <1>9, <1>11 DEF MenuPage, WriteHeld, WriteTyped
<1>13. \A k \in Menus!Issues : k \notin hidden =>
          k \notin page.unseen /\ (now[k] = page.jira[k] \/ Reported(q, k))
  BY <1>3, <1>4, <1>8, <1>11 DEF Reported
<1>14. RowsHeld(q)
  <2>1. now \in [Menus!Issues -> MenuValues] /\ hidden \subseteq Menus!Issues
    BY <1>3, <1>4, <1>7 DEF MenuPage, RowsHeld
  <2>2. \A k \in Menus!Issues : Reported(q, k) => q.jira[k] = q.write.value
    BY <1>3, <1>6, <1>8, <1>11 DEF Reported
  <2>3. \A k \in Epics \union Stories : k \in Menus!Issues /\ ~Reported(page, k)
    BY <1>6 DEF Menus!Issues, Reported
  <2> QED
    BY <1>11, <1>13, <2>1, <2>2, <2>3 DEF MenuPage, RowsHeld
<1>15. PanelHeld(q)
  <2>1. \A k \in Subtasks : k \in Menus!Issues /\ ~Reported(page, k)
    BY <1>6 DEF Menus!Issues, Reported
  <2> QED
    BY <1>11, <1>13, <2>1 DEF MenuPage, PanelHeld, SamePanel
<1>16. MarksTyped(q) /\ ResultHeld(q)
  BY <1>11 DEF MenuPage, MarksTyped, SameMarked, ResultHeld
<1>17. OptionsHeld(q)
  BY <1>11, OptionsKept DEF MenuPage
<1> QED
  BY <1>10, <1>11, <1>12, <1>14, <1>15, <1>16, <1>17 DEF MenuPage

\* A write that has ended: what it changed in this sprint is still to be shown.
LEMMA LandedWorks ==
  ASSUME NEW p, MenuPage(p), p.write # Menus!NoWrite, NEW r, r = Menus!Landed(p)
  PROVE  /\ DOMAIN r = MenuFields /\ r.hook = p.hook
         /\ SameMarked(p, r) /\ SameOptions(p, r) /\ SamePanel(p, r) /\ WriteHeld(r)
         /\ ResultHeld(r)
         /\ r.jira = p.jira /\ r.rows = p.rows /\ r.refreshes = p.refreshes
         /\ r.unseen = p.unseen /\ r.sprint = p.sprint /\ r.late \in BOOLEAN
         /\ r.write = Menus!NoWrite
         /\ ~r.late <=> ~p.late /\ p.write.sprint = p.sprint
<1>1. PICK late : late = (p.late \/ p.write.sprint # p.sprint)
  OBVIOUS
<1>2. PICK result : result = IF Menus!Failed(p, p.write) THEN p.result ELSE p.write.sprint
  OBVIOUS
<1>3. PICK error : error = (p.error \/ Menus!Failed(p, p.write))
  OBVIOUS
<1>4. r = [p EXCEPT !.submitting = FALSE, !.write = Menus!NoWrite, !.late = late,
                    !.result = result, !.error = error]
  BY <1>1, <1>2, <1>3 DEF Menus!Landed
<1>5. /\ DOMAIN r = MenuFields /\ r.hook = p.hook
      /\ SameMarked(p, r) /\ SameOptions(p, r) /\ SamePanel(p, r)
      /\ r.jira = p.jira /\ r.rows = p.rows /\ r.refreshes = p.refreshes
      /\ r.unseen = p.unseen /\ r.sprint = p.sprint
      /\ r.submitting = FALSE /\ r.write = Menus!NoWrite /\ r.late = late /\ r.result = result
  BY <1>4 DEF MenuPage, MenuFields, SameMarked, SameOptions, SamePanel
<1>6. late \in BOOLEAN /\ (~late <=> ~p.late /\ p.write.sprint = p.sprint)
  BY <1>1 DEF MenuPage, RowsHeld
<1>7. WriteHeld(r)
  <2>1. DOMAIN Menus!NoWrite.targets = {}
    BY DEF Menus!NoWrite
  <2>2. Cardinality({}) <= MaxTargets
    BY FS_EmptySet, MenusConstants DEF Menus!MenusAssumption
  <2> QED
    BY <1>5, <2>1, <2>2 DEF WriteHeld, WriteTyped
<1>8. ResultHeld(r)
  BY <1>2, <1>5, <1>6 DEF MenuPage, ResultHeld, WriteHeld, WriteTyped
<1> QED
  BY <1>5, <1>6, <1>7, <1>8

\* The rows are in order when they need no more than another reading, or show
\* the write's value.
LEMMA RowsLanded ==
  ASSUME NEW p, MenuPage(p), NEW r, r.jira = p.jira, r.unseen = p.unseen, r.sprint = p.sprint,
         r.late \in BOOLEAN, r.refreshes \subseteq {1, 2}, p.refreshes \subseteq r.refreshes,
         r.rows \in [Menus!Issues -> MenuValues], r.write = Menus!NoWrite,
         ~r.late => ~p.late,
         ~r.late /\ r.sprint \notin r.refreshes =>
            \A k \in Epics \union Stories :
               IF Reported(p, k) THEN r.rows[k] = p.jira[k] ELSE r.rows[k] = p.rows[k]
  PROVE  RowsHeld(r)
<1>1. \A k \in Menus!Issues : ~Reported(r, k)
  BY DEF Reported, Menus!NoWrite
<1> QED
  BY <1>1 DEF MenuPage, RowsHeld

LEMMA PanelLanded ==
  ASSUME NEW p, MenuPage(p), NEW r, SamePanel(p, r), r.jira = p.jira, r.unseen = p.unseen,
         r.sprint = p.sprint, r.write = Menus!NoWrite, ~r.late => ~p.late,
         ~r.late => \A k \in Subtasks : ~Reported(p, k)
  PROVE  PanelHeld(r)
BY DEF MenuPage, PanelHeld, SamePanel

\* The tasks are read again, and the subtasks if one of them changed.
LEMMA BatchLandedHeld ==
  ASSUME MenuPage(page), page.write.answer # "none", page.hook = "status",
         page' = Menus!BatchLanded(page)
  PROVE  MenuPage(page')
<1>1. PICK w : w = page.write
  OBVIOUS
<1>2. PICK l : l = Menus!Landed(page)
  OBVIOUS
<1>3. page.write # Menus!NoWrite
  BY DEF Menus!NoWrite
<1>4. /\ DOMAIN l = MenuFields /\ l.hook = page.hook
      /\ SameMarked(page, l) /\ SameOptions(page, l) /\ SamePanel(page, l) /\ WriteHeld(l)
      /\ ResultHeld(l)
      /\ l.jira = page.jira /\ l.rows = page.rows /\ l.refreshes = page.refreshes
      /\ l.unseen = page.unseen /\ l.sprint = page.sprint /\ l.late \in BOOLEAN
      /\ l.write = Menus!NoWrite
      /\ ~l.late <=> ~page.late /\ w.sprint = page.sprint
  BY <1>1, <1>2, <1>3, LandedWorks
<1>5. OptionsHeld(l) /\ MarksTyped(l)
  BY <1>4, OptionsKept DEF MenuPage, MarksTyped, SameMarked
<1>6. w.sprint \in {1, 2}
  BY <1>1, <1>3 DEF MenuPage, WriteHeld, WriteTyped
<1>7. \A k : Reported(page, k) <=> k \in w.done
  BY <1>1 DEF Reported
<1>8. CASE w.done = {}
  <2>1. page' = l
    BY <1>1, <1>2, <1>8 DEF Menus!BatchLanded
  <2>2. RowsHeld(l)
    BY <1>4, <1>7, <1>8, RowsLanded DEF MenuPage, RowsHeld
  <2>3. PanelHeld(l)
    BY <1>4, <1>7, <1>8, PanelLanded
  <2> QED
    BY <1>4, <1>5, <2>1, <2>2, <2>3 DEF MenuPage
<1>9. CASE w.done # {}
  <2>1. PICK gone : gone = {<<Menus!Kind(k), w.targets[k]>> : k \in w.done}
    OBVIOUS
  <2>2. PICK cache : cache = l.cache \ gone
    OBVIOUS
  <2>3. PICK refreshes : refreshes = l.refreshes \union {w.sprint}
    OBVIOUS
  <2>4. PICK f : f = [l EXCEPT !.cache = cache, !.refreshes = refreshes]
    OBVIOUS
  <2>5. page' = Menus!RetrySubtasks(f, w)
    BY <1>1, <1>2, <1>9, <2>1, <2>2, <2>3, <2>4 DEF Menus!BatchLanded
  <2>6. /\ DOMAIN f = MenuFields /\ f.hook = l.hook /\ SameMarked(l, f) /\ SamePanel(l, f)
        /\ SameWrite(l, f) /\ f.result = l.result
        /\ f.menu = l.menu /\ f.options = l.options /\ f.loading = l.loading /\ f.ref = l.ref
        /\ f.asked = l.asked /\ f.cache = cache /\ f.over = l.over
        /\ f.jira = l.jira /\ f.rows = l.rows /\ f.refreshes = refreshes /\ f.late = l.late
        /\ f.unseen = l.unseen /\ f.sprint = l.sprint
    BY <1>4, <2>4 DEF MenuFields, SameMarked, SamePanel, SameWrite
  <2>7. OptionsHeld(f)
    BY <1>5, <2>2, <2>6 DEF OptionsHeld, OptionsTyped, Menus!Signature
  <2>8. MarksTyped(f) /\ ResultHeld(f) /\ WriteHeld(f)
    BY <1>4, <1>5, <2>6, WriteKept DEF MarksTyped, SameMarked, ResultHeld
  <2>9. RowsHeld(f)
    <3>1. f.write = Menus!NoWrite /\ f.jira = page.jira /\ f.unseen = page.unseen
          /\ f.sprint = page.sprint /\ f.late \in BOOLEAN /\ (~f.late => ~page.late)
      BY <1>4, <2>6 DEF SameWrite
    <3>2. f.refreshes \subseteq {1, 2} /\ page.refreshes \subseteq f.refreshes
          /\ f.rows \in [Menus!Issues -> MenuValues]
      BY <1>4, <1>6, <2>3, <2>6 DEF MenuPage, RowsHeld
    <3>3. ~f.late => f.sprint \in f.refreshes
      BY <1>4, <2>3, <2>6
    <3> QED
      BY <3>1, <3>2, <3>3, RowsLanded
  <2>10. CASE w.done \intersect Subtasks = {}
    <3>1. page' = f
      BY <2>5, <2>10 DEF Menus!RetrySubtasks
    <3>2. f.write = Menus!NoWrite /\ SamePanel(page, f)
      BY <1>4, <2>6 DEF SameWrite, SamePanel
    <3>3. PanelHeld(f)
      BY <1>4, <1>7, <2>6, <2>10, <3>2, PanelLanded
    <3> QED
      BY <1>4, <2>6, <2>7, <2>8, <2>9, <3>1, <3>3 DEF MenuPage
  <2>11. CASE w.done \intersect Subtasks # {}
    <3>1. PICK panel : panel = [f.panel EXCEPT !.expanded = TRUE, !.loading = TRUE,
                                               !.loaded = FALSE, !.failed = FALSE]
      OBVIOUS
    <3>2. page' = [f EXCEPT !.panel = panel, !.panelAsked = {w.sprint}]
      BY <2>5, <2>11, <3>1 DEF Menus!RetrySubtasks
    <3>3. PICK q : q = page'
      OBVIOUS
    <3>4. /\ DOMAIN q = MenuFields /\ q.hook = f.hook /\ SameMarked(f, q) /\ SameOptions(f, q)
          /\ SameWrite(f, q) /\ SameRows(f, q) /\ q.result = f.result
          /\ q.panel = panel /\ q.panelAsked = {w.sprint}
      BY <2>6, <3>2, <3>3 DEF MenuFields, SameMarked, SameOptions, SameWrite, SameRows
    <3>5. OptionsHeld(q) /\ WriteHeld(q) /\ RowsHeld(q)
      BY <2>7, <2>8, <2>9, <3>4, OptionsKept, WriteKept, RowsKept DEF SameWrite
    <3>6. MarksTyped(q) /\ ResultHeld(q)
      BY <2>8, <3>4 DEF MarksTyped, SameMarked, ResultHeld, SameRows
    <3>7. PanelHeld(page) /\ f.panel = page.panel
      BY <1>4, <2>6 DEF MenuPage, SamePanel
    <3>8. /\ DOMAIN panel = {"expanded", "loading", "loaded", "failed", "items", "sprint"}
          /\ panel.loading = TRUE /\ panel.loaded = FALSE /\ panel.items = page.panel.items
      BY <3>1, <3>7 DEF PanelHeld
    <3>9. ~q.late => w.sprint = q.sprint
      BY <1>4, <2>6, <3>4 DEF SameRows
    <3>10. PanelHeld(q)
      BY <1>6, <3>4, <3>7, <3>8, <3>9 DEF PanelHeld
    <3> QED
      BY <1>4, <2>6, <3>3, <3>4, <3>5, <3>6, <3>10 DEF MenuPage
  <2> QED
    BY <2>10, <2>11
<1> QED
  BY <1>8, <1>9

\* The row is patched; that of a priority is read again as well.
LEMMA OneLandedHeld ==
  ASSUME MenuPage(page), page.write.answer # "none", page.hook # "status",
         NEW reads \in BOOLEAN,
         \/ /\ page.write.done = {} \/ (~reads /\ page.write.sprint # page.sprint)
            /\ page' = Menus!Landed(page)
         \/ /\ page.write.done # {} /\ (reads \/ page.write.sprint = page.sprint)
            /\ page' = [Menus!Patched(Menus!Landed(page), page.write) EXCEPT
                           !.refreshes = IF reads THEN @ \union {page.write.sprint} ELSE @]
  PROVE  MenuPage(page')
<1>1. PICK w : w = page.write
  OBVIOUS
<1>2. PICK l : l = Menus!Landed(page)
  OBVIOUS
<1>3. page.write # Menus!NoWrite
  BY DEF Menus!NoWrite
<1>4. /\ DOMAIN l = MenuFields /\ l.hook = page.hook
      /\ SameMarked(page, l) /\ SameOptions(page, l) /\ SamePanel(page, l) /\ WriteHeld(l)
      /\ ResultHeld(l)
      /\ l.jira = page.jira /\ l.rows = page.rows /\ l.refreshes = page.refreshes
      /\ l.unseen = page.unseen /\ l.sprint = page.sprint /\ l.late \in BOOLEAN
      /\ l.write = Menus!NoWrite
      /\ ~l.late <=> ~page.late /\ w.sprint = page.sprint
  BY <1>1, <1>2, <1>3, LandedWorks
<1>5. OptionsHeld(l) /\ MarksTyped(l)
  BY <1>4, OptionsKept DEF MenuPage, MarksTyped, SameMarked
<1>6. /\ w.sprint \in {1, 2} /\ w.value \in MenuValues
      /\ w.done \intersect Subtasks = {} /\ w.done \subseteq Menus!Issues
  BY <1>1, <1>3 DEF MenuPage, WriteHeld, WriteTyped
<1>7. \A k : Reported(page, k) <=> k \in w.done
  BY <1>1 DEF Reported
<1>8. PanelHeld(l)
  BY <1>4, <1>6, <1>7, PanelLanded
<1>9. CASE page' = l /\ (w.done = {} \/ w.sprint # page.sprint)
  <2>1. RowsHeld(l)
    BY <1>4, <1>7, <1>9, RowsLanded DEF MenuPage, RowsHeld
  <2> QED
    BY <1>4, <1>5, <1>8, <1>9, <2>1 DEF MenuPage
<1>10. CASE page' = [Menus!Patched(l, w) EXCEPT
                        !.refreshes = IF reads THEN @ \union {w.sprint} ELSE @]
  <2>1. PICK rows : rows = [k \in Menus!Issues |-> IF k \in w.done THEN w.value ELSE l.rows[k]]
    OBVIOUS
  <2>2. PICK f : f = [l EXCEPT !.rows = rows]
    OBVIOUS
  <2>3. PICK refreshes : refreshes = IF reads THEN f.refreshes \union {w.sprint} ELSE f.refreshes
    OBVIOUS
  <2>4. page' = [f EXCEPT !.refreshes = refreshes]
    BY <1>10, <2>1, <2>2, <2>3 DEF Menus!Patched
  <2>5. PICK q : q = page'
    OBVIOUS
  <2>6. /\ DOMAIN f = MenuFields /\ f.refreshes = l.refreshes /\ f.rows = rows
        /\ f.hook = l.hook /\ SameMarked(l, f) /\ SameOptions(l, f) /\ SamePanel(l, f)
        /\ SameWrite(l, f) /\ f.result = l.result /\ f.late = l.late
        /\ f.jira = l.jira /\ f.unseen = l.unseen /\ f.sprint = l.sprint
    BY <1>4, <2>2 DEF MenuFields, SameMarked, SameOptions, SamePanel, SameWrite
  <2>7. /\ DOMAIN q = MenuFields /\ q.refreshes = refreshes /\ q.rows = rows
        /\ q.hook = l.hook /\ SameMarked(l, q) /\ SameOptions(l, q) /\ SamePanel(l, q)
        /\ SameWrite(l, q) /\ q.result = l.result /\ q.late = l.late
        /\ q.jira = l.jira /\ q.unseen = l.unseen /\ q.sprint = l.sprint
    BY <2>4, <2>5, <2>6 DEF MenuFields, SameMarked, SameOptions, SamePanel, SameWrite
  <2>8. OptionsHeld(q) /\ WriteHeld(q) /\ MarksTyped(q) /\ ResultHeld(q)
    BY <1>4, <1>5, <2>7, OptionsKept, WriteKept DEF MarksTyped, SameMarked, ResultHeld
  <2>9. q.write = Menus!NoWrite /\ SamePanel(page, q)
    BY <1>4, <2>7 DEF SameWrite, SamePanel
  <2>10. PanelHeld(q)
    BY <1>4, <1>6, <1>7, <2>7, <2>9, PanelLanded
  <2>11. /\ rows \in [Menus!Issues -> MenuValues]
         /\ refreshes \subseteq {1, 2} /\ page.refreshes \subseteq refreshes
    BY <1>4, <1>6, <2>1, <2>3, <2>6 DEF MenuPage, RowsHeld
  <2>12. \A k \in Epics \union Stories :
            IF Reported(page, k) THEN rows[k] = page.jira[k] ELSE rows[k] = page.rows[k]
    BY <1>1, <1>4, <1>7, <2>1 DEF MenuPage, RowsHeld, Menus!Issues
  <2>13. RowsHeld(q)
    BY <1>4, <2>7, <2>9, <2>11, <2>12, RowsLanded
  <2> QED
    BY <1>4, <2>5, <2>7, <2>8, <2>10, <2>13 DEF MenuPage
<1> QED
  BY <1>1, <1>2, <1>9, <1>10

LEMMA AnswerWriteHeld ==
  ASSUME MenuPage(page), Menus!AnswerWrite
  PROVE  MenuPage(page')
<1>1. page.write.answer # "none"
  BY DEF Menus!AnswerWrite
<1>2. CASE page.hook = "status"
  <2>1. page' = Menus!BatchLanded(page)
    BY <1>2 DEF Menus!AnswerWrite
  <2> QED
    BY <1>1, <1>2, <2>1, BatchLandedHeld
<1>3. CASE page.hook = "priority"
  <2>1. page' = Menus!PriorityLanded(page)
    BY <1>3 DEF Menus!AnswerWrite
  <2>2. PICK reads \in BOOLEAN : reads = TRUE
    OBVIOUS
  <2>3. \/ page.write.done = {} /\ page' = Menus!Landed(page)
        \/ /\ page.write.done # {}
           /\ page' = [Menus!Patched(Menus!Landed(page), page.write) EXCEPT
                           !.refreshes = IF reads THEN @ \union {page.write.sprint} ELSE @]
    BY <2>1, <2>2 DEF Menus!PriorityLanded
  <2> QED
    BY <1>1, <1>3, <2>2, <2>3, OneLandedHeld
<1>4. CASE page.hook = "track"
  <2>1. page' = Menus!TrackLanded(page)
    BY <1>4 DEF Menus!AnswerWrite
  <2>2. PICK reads \in BOOLEAN : reads = FALSE
    OBVIOUS
  <2>3. PICK f : f = Menus!Patched(Menus!Landed(page), page.write)
    OBVIOUS
  <2>4. f = [f EXCEPT !.refreshes = IF reads THEN @ \union {page.write.sprint} ELSE @]
    <3>1. DOMAIN Menus!Landed(page) = MenuFields
      BY <1>1, LandedWorks DEF Menus!NoWrite
    <3>2. DOMAIN f = MenuFields /\ f = [x \in MenuFields |-> f[x]]
      BY <2>3, <3>1 DEF Menus!Patched
    <3> QED
      BY <2>2, <3>2
  <2>5. \/ /\ page.write.done = {} \/ page.write.sprint # page.sprint
           /\ page' = Menus!Landed(page)
        \/ page.write.done # {} /\ page.write.sprint = page.sprint /\ page' = f
    BY <2>1, <2>3 DEF Menus!TrackLanded
  <2> QED
    BY <1>1, <1>4, <2>2, <2>3, <2>4, <2>5, OneLandedHeld
<1> QED
  BY <1>2, <1>3, <1>4 DEF MenuPage, Menus!Hooks

-----------------------------------------------------------------------------
(* What is read again.                                                       *)

LEMMA AnswerRefreshHeld ==
  ASSUME MenuPage(page), NEW sprint \in {1, 2}, Menus!AnswerRefresh(sprint)
  PROVE  MenuPage(page')
<1>1. PICK here \in BOOLEAN : here <=> sprint = page.sprint
  OBVIOUS
<1>2. PICK refreshes : refreshes = page.refreshes \ {sprint}
  OBVIOUS
<1>3. PICK rows : rows = IF here THEN [k \in Menus!Issues |-> IF k \in Subtasks THEN page.rows[k]
                                                              ELSE page.jira[k]]
                                 ELSE page.rows
  OBVIOUS
<1>4. PICK hidden : hidden = IF here THEN page.unseen \intersect Subtasks ELSE page.unseen
  OBVIOUS
<1>5. PICK q : q = page'
  OBVIOUS
<1>6. /\ DOMAIN q = MenuFields /\ q.hook = page.hook /\ SameMarked(page, q)
      /\ SameOptions(page, q) /\ SameWrite(page, q) /\ SamePanel(page, q)
      /\ q.result = page.result /\ q.late = page.late /\ q.jira = page.jira
      /\ q.sprint = page.sprint
      /\ q.refreshes = refreshes /\ q.rows = rows /\ q.unseen = hidden
  <2>1. CASE here
    <3>1. q = [page EXCEPT !.refreshes = refreshes, !.rows = rows, !.unseen = hidden]
      BY <1>1, <1>2, <1>3, <1>4, <1>5, <2>1 DEF Menus!AnswerRefresh
    <3> QED
      BY <3>1 DEF MenuPage, MenuFields, SameMarked, SameOptions, SameWrite, SamePanel
  <2>2. CASE ~here
    <3>1. q = [page EXCEPT !.refreshes = refreshes]
      BY <1>1, <1>2, <1>5, <2>2 DEF Menus!AnswerRefresh
    <3> QED
      BY <1>3, <1>4, <2>2, <3>1
      DEF MenuPage, MenuFields, SameMarked, SameOptions, SameWrite, SamePanel
  <2> QED
    BY <2>1, <2>2
<1>7. \A k : Reported(q, k) <=> Reported(page, k)
  BY <1>6 DEF Reported, SameWrite
<1>8. RowsHeld(q)
  BY <1>1, <1>2, <1>3, <1>4, <1>6, <1>7, MenusConstants
  DEF MenuPage, RowsHeld, SameWrite, Menus!Issues, Menus!MenusAssumption
<1>9. PanelHeld(q)
  BY <1>1, <1>4, <1>6, <1>7 DEF MenuPage, PanelHeld, SamePanel
<1>10. MarksTyped(q) /\ ResultHeld(q) /\ OptionsHeld(q) /\ WriteHeld(q)
  BY <1>6, OptionsKept, WriteKept DEF MenuPage, MarksTyped, SameMarked, ResultHeld
<1> QED
  BY <1>5, <1>6, <1>8, <1>9, <1>10 DEF MenuPage

LEMMA PanelChangedHeld ==
  ASSUME NEW b, MenuPage(b), NEW r, DOMAIN r = MenuFields, r.hook = b.hook, SameMarked(b, r),
         SameOptions(b, r), SameRows(b, r), SameWrite(b, r), r.result = b.result, PanelHeld(r)
  PROVE  MenuPage(r)
<1>1. MarksTyped(r) /\ ResultHeld(r) /\ r.write = b.write
  BY DEF MenuPage, MarksTyped, SameMarked, ResultHeld, SameRows, SameWrite
<1> QED
  BY <1>1, OptionsKept, WriteKept, RowsKept DEF MenuPage

\* A panel loads for the sprint of the page.
LEMMA PanelLoadingHeld ==
  ASSUME NEW p, MenuPage(p), NEW loaded \in BOOLEAN, ~loaded,
         NEW panel, panel = [p.panel EXCEPT !.expanded = TRUE, !.loading = TRUE, !.failed = FALSE,
                                            !.loaded = loaded],
         NEW r, r = [p EXCEPT !.panel = panel, !.panelAsked = {p.sprint}]
  PROVE  MenuPage(r)
<1>1. /\ DOMAIN r = MenuFields /\ r.hook = p.hook /\ SameMarked(p, r)
      /\ SameOptions(p, r) /\ SameRows(p, r) /\ SameWrite(p, r) /\ r.result = p.result
      /\ r.panel = panel /\ r.panelAsked = {p.sprint}
  BY DEF MenuPage, MenuFields, SameMarked, SameOptions, SameRows, SameWrite
<1>2. /\ DOMAIN panel = {"expanded", "loading", "loaded", "failed", "items", "sprint"}
      /\ panel.loading = TRUE /\ panel.loaded = FALSE /\ panel.items = p.panel.items
  BY DEF MenuPage, PanelHeld
<1>3. PanelHeld(r)
  BY <1>1, <1>2 DEF MenuPage, RowsHeld, PanelHeld, SameRows
<1> QED
  BY <1>1, <1>3, PanelChangedHeld

LEMMA ToggleSubtasksHeld ==
  ASSUME MenuPage(page), Menus!ToggleSubtasks
  PROVE  MenuPage(page')
<1>1. PICK left : left = [page.left EXCEPT !.toggles = @ - 1]
  OBVIOUS
<1>2. PICK p : p = [page EXCEPT !.left = left]
  OBVIOUS
<1>3. /\ DOMAIN p = MenuFields /\ p.hook = page.hook /\ SameMarked(page, p)
      /\ SameOptions(page, p) /\ SameRows(page, p) /\ SameWrite(page, p) /\ SamePanel(page, p)
      /\ p.result = page.result
  BY <1>2 DEF MenuPage, MenuFields, SameMarked, SameOptions, SameRows, SameWrite, SamePanel
<1>4. MenuPage(p)
  <2>1. PanelHeld(p)
    BY <1>3, PanelKept DEF MenuPage, SameWrite
  <2> QED
    BY <1>3, <2>1, PanelChangedHeld
<1>5. CASE p.panel.expanded \/ p.panel.loaded \/ p.panel.loading
  <2>1. PICK expanded : expanded = IF p.panel.expanded THEN FALSE ELSE TRUE
    OBVIOUS
  <2>2. PICK opened : opened = [p.panel EXCEPT !.expanded = expanded]
    OBVIOUS
  <2>3. page' = [p EXCEPT !.panel = opened]
    <3>1. p.panel.loaded \in BOOLEAN /\ p.panel.loading \in BOOLEAN
      BY <1>4 DEF MenuPage, PanelHeld
    <3> QED
      BY <1>1, <1>2, <1>5, <2>1, <2>2, <3>1 DEF Menus!ToggleSubtasks
  <2>4. PICK q : q = page'
    OBVIOUS
  <2>5. /\ DOMAIN q = MenuFields /\ q.hook = p.hook /\ SameMarked(p, q)
        /\ SameOptions(p, q) /\ SameRows(p, q) /\ SameWrite(p, q)
        /\ q.result = p.result /\ q.panel = opened /\ q.panelAsked = p.panelAsked
    BY <1>3, <2>3, <2>4 DEF MenuFields, SameMarked, SameOptions, SameRows, SameWrite
  <2>6. PanelHeld(p)
    BY <1>4 DEF MenuPage
  <2>7. /\ DOMAIN opened = DOMAIN p.panel /\ opened.loading = p.panel.loading
        /\ opened.loaded = p.panel.loaded /\ opened.items = p.panel.items
        /\ opened.sprint = p.panel.sprint
    BY <2>2, <2>6 DEF PanelHeld
  <2>8. PanelHeld(q)
    BY <2>5, <2>6, <2>7 DEF PanelHeld, SameRows, SameWrite, Reported
  <2> QED
    BY <1>4, <2>4, <2>5, <2>8, PanelChangedHeld
<1>6. CASE ~p.panel.expanded /\ ~p.panel.loaded /\ ~p.panel.loading
  <2>1. page' = Menus!PanelLoading(p)
    BY <1>1, <1>2, <1>6 DEF Menus!ToggleSubtasks
  <2>2. /\ p.panel.loaded = FALSE
        /\ DOMAIN p.panel = {"expanded", "loading", "loaded", "failed", "items", "sprint"}
    BY <1>4, <1>6 DEF MenuPage, PanelHeld
  <2>3. PICK open : open = [p.panel EXCEPT !.expanded = TRUE, !.loading = TRUE, !.failed = FALSE]
    OBVIOUS
  <2>4. open = [p.panel EXCEPT !.expanded = TRUE, !.loading = TRUE, !.failed = FALSE,
                               !.loaded = FALSE]
    BY <2>2, <2>3
  <2>5. page' = [p EXCEPT !.panel = open, !.panelAsked = {p.sprint}]
    BY <2>1, <2>3 DEF Menus!PanelLoading
  <2> QED
    BY <1>4, <2>4, <2>5, PanelLoadingHeld
<1> QED
  BY <1>5, <1>6

LEMMA RetryPanelHeld ==
  ASSUME MenuPage(page), Menus!RetryPanel
  PROVE  MenuPage(page')
<1>1. PICK o : o = [page.panel EXCEPT !.expanded = TRUE, !.loading = TRUE, !.failed = FALSE]
  OBVIOUS
<1>2. PICK l : l = [page EXCEPT !.panel = o, !.panelAsked = {page.sprint}]
  OBVIOUS
<1>3. PICK panel : panel = [o EXCEPT !.loaded = FALSE]
  OBVIOUS
<1>4. page' = [l EXCEPT !.panel.loaded = FALSE]
  BY <1>1, <1>2 DEF Menus!RetryPanel, Menus!PanelLoading
<1>5. l.panel = o /\ DOMAIN l = MenuFields
  BY <1>2 DEF MenuPage, MenuFields
<1>6. page' = [l EXCEPT !.panel = panel]
  BY <1>3, <1>4, <1>5
<1>7. page' = [page EXCEPT !.panel = panel, !.panelAsked = {page.sprint}]
  BY <1>2, <1>6
<1>8. panel = [page.panel EXCEPT !.expanded = TRUE, !.loading = TRUE, !.failed = FALSE,
                                 !.loaded = FALSE]
  BY <1>1, <1>3
<1> QED
  BY <1>7, <1>8, PanelLoadingHeld

\* The subtasks read are those of the sprint of the page, or else late.
LEMMA AnswerPanelHeld ==
  ASSUME MenuPage(page), NEW sprint \in {1, 2}, NEW ok \in BOOLEAN,
         Menus!AnswerPanel(sprint, ok)
  PROVE  MenuPage(page')
<1>1. PICK q : q = page'
  OBVIOUS
<1>2. page.panel.loading /\ ~page.panel.loaded /\ (~page.late => sprint = page.sprint)
  BY DEF Menus!AnswerPanel, MenuPage, PanelHeld
<1>3. CASE ok
  <2>1. PICK items : items = [k \in Subtasks |-> page.jira[k]]
    OBVIOUS
  <2>2. PICK panel : panel = [expanded |-> TRUE, loading |-> FALSE, loaded |-> TRUE,
                              failed |-> FALSE, items |-> items, sprint |-> sprint]
    OBVIOUS
  <2>3. PICK hidden : hidden = page.unseen \ Subtasks
    OBVIOUS
  <2>4. q = [page EXCEPT !.panelAsked = {}, !.panel = panel, !.unseen = hidden]
    BY <1>1, <1>3, <2>1, <2>2, <2>3 DEF Menus!AnswerPanel
  <2>5. /\ DOMAIN q = MenuFields /\ q.hook = page.hook /\ SameMarked(page, q)
        /\ SameOptions(page, q) /\ SameWrite(page, q)
        /\ q.jira = page.jira /\ q.rows = page.rows /\ q.refreshes = page.refreshes
        /\ q.late = page.late /\ q.sprint = page.sprint /\ q.unseen = hidden
        /\ q.result = page.result /\ q.panel = panel /\ q.panelAsked = {}
    BY <2>4 DEF MenuPage, MenuFields, SameMarked, SameOptions, SameWrite
  <2>6. RowsHeld(q)
    <3>1. \A k : Reported(q, k) <=> Reported(page, k)
      BY <2>5 DEF Reported, SameWrite
    <3> QED
      BY <2>3, <2>5, <3>1, MenusConstants
      DEF MenuPage, RowsHeld, SameWrite, Menus!MenusAssumption
  <2>7. PanelHeld(q)
    <3>1. items \in [Subtasks -> MenuValues]
      BY <2>1 DEF MenuPage, RowsHeld, Menus!Issues
    <3>2. /\ DOMAIN panel = {"expanded", "loading", "loaded", "failed", "items", "sprint"}
          /\ panel.loading = FALSE /\ panel.loaded = TRUE /\ panel.items = items
          /\ panel.sprint = sprint
      BY <2>2
    <3>3. items # None
      BY <3>1, MenusConstants DEF Menus!MenusAssumption
    <3> QED
      BY <1>2, <2>1, <2>5, <3>1, <3>2, <3>3 DEF PanelHeld
  <2>8. MarksTyped(q) /\ ResultHeld(q) /\ OptionsHeld(q) /\ WriteHeld(q)
    BY <2>5, OptionsKept, WriteKept DEF MenuPage, MarksTyped, SameMarked, ResultHeld
  <2> QED
    BY <1>1, <2>5, <2>6, <2>7, <2>8 DEF MenuPage
<1>4. CASE ~ok
  <2>1. PICK left : left = [page.left EXCEPT !.fails = @ - 1]
    OBVIOUS
  <2>2. PICK panel : panel = [page.panel EXCEPT !.expanded = TRUE, !.loading = FALSE,
                                                !.failed = TRUE]
    OBVIOUS
  <2>3. q = [page EXCEPT !.panelAsked = {}, !.left = left, !.panel = panel]
    BY <1>1, <1>4, <2>1, <2>2 DEF Menus!AnswerPanel
  <2>4. /\ DOMAIN q = MenuFields /\ q.hook = page.hook /\ SameMarked(page, q)
        /\ SameOptions(page, q) /\ SameRows(page, q) /\ SameWrite(page, q)
        /\ q.result = page.result /\ q.panel = panel /\ q.panelAsked = {}
    BY <2>3 DEF MenuPage, MenuFields, SameMarked, SameOptions, SameRows, SameWrite
  <2>5. /\ DOMAIN panel = DOMAIN page.panel /\ panel.loading = FALSE
        /\ panel.loaded = page.panel.loaded /\ panel.items = page.panel.items
    BY <2>2 DEF MenuPage, PanelHeld
  <2>6. PanelHeld(q)
    BY <1>2, <2>4, <2>5 DEF MenuPage, PanelHeld
  <2> QED
    BY <1>1, <2>4, <2>6, PanelChangedHeld
<1> QED
  BY <1>3, <1>4

\* The other sprint is read from Jira; a write under way stays one of before.
LEMMA SwitchSprintHeld ==
  ASSUME MenuPage(page), Menus!SwitchSprint
  PROVE  MenuPage(page')
<1>1. PICK c : c = Menus!Closed(page)
  OBVIOUS
<1>2. DOMAIN c = MenuFields /\ SameBeyond(page, c) /\ c.result = page.result /\ OptionsHeld(c)
      /\ c.menu = Menus!NoMenu
  <2>1. c.menu = Menus!NoMenu
    <3>1. DOMAIN Menus!Abort(page) = MenuFields
      BY AbortWorks DEF MenuPage, OptionsHeld, OptionsTyped
    <3> QED
      BY <1>1, <3>1 DEF Menus!Closed, MenuFields
  <2> QED
    BY <1>1, <2>1, ClosedWorks
<1>3. PICK sprint : sprint = 3 - c.sprint
  OBVIOUS
<1>4. PICK left : left = [c.left EXCEPT !.switches = @ - 1]
  OBVIOUS
<1>5. PICK rows : rows = [k \in Menus!Issues |-> IF k \in Subtasks THEN c.rows[k] ELSE page.jira[k]]
  OBVIOUS
<1>6. PICK q : q = page'
  OBVIOUS
<1>7. q = [c EXCEPT !.sprint = sprint, !.left = left, !.options = None, !.marked = {},
                    !.selected = {}, !.result = None, !.panel = Menus!NoPanel,
                    !.panelAsked = {}, !.rows = rows, !.unseen = {}, !.late = FALSE]
  BY <1>1, <1>3, <1>4, <1>5, <1>6 DEF Menus!SwitchSprint
<1>8. /\ DOMAIN q = MenuFields /\ q.hook = c.hook /\ SameWrite(c, q)
      /\ q.menu = c.menu /\ q.loading = c.loading /\ q.ref = c.ref /\ q.asked = c.asked
      /\ q.cache = c.cache /\ q.over = c.over /\ q.options = None
      /\ q.sprint = sprint /\ q.rows = rows /\ q.unseen = {} /\ q.late = FALSE
      /\ q.jira = c.jira /\ q.refreshes = c.refreshes
      /\ q.selected = {} /\ q.marked = {} /\ q.result = None
      /\ q.panel = Menus!NoPanel /\ q.panelAsked = {}
  BY <1>2, <1>7 DEF MenuFields, SameWrite
<1>9. /\ q.hook = page.hook /\ SameWrite(page, q) /\ q.jira = page.jira
      /\ q.refreshes = page.refreshes /\ c.rows = page.rows /\ c.sprint = page.sprint
  BY <1>2, <1>8 DEF SameBeyond, SameWrite, SameRows
<1>10. OptionsHeld(q)
  BY <1>2, <1>8, NoneApart DEF OptionsHeld, OptionsTyped
<1>11. RowsHeld(q)
  <2>1. \A k : Reported(q, k) <=> Reported(page, k)
    BY <1>9 DEF Reported, SameWrite
  <2>2. sprint \in {1, 2}
    BY <1>3, <1>9 DEF MenuPage, RowsHeld
  <2>3. rows \in [Menus!Issues -> MenuValues]
    BY <1>5, <1>9 DEF MenuPage, RowsHeld
  <2>4. \A k \in Epics \union Stories : rows[k] = page.jira[k]
    BY <1>5, MenusConstants DEF Menus!Issues, Menus!MenusAssumption
  <2> QED
    BY <1>8, <1>9, <2>1, <2>2, <2>3, <2>4 DEF MenuPage, RowsHeld, SameWrite
<1>12. PanelHeld(q)
  BY <1>8 DEF PanelHeld, Menus!NoPanel
<1>13. MarksTyped(q) /\ ResultHeld(q) /\ WriteHeld(q)
  BY <1>8, <1>9, WriteKept DEF MenuPage, MarksTyped, ResultHeld
<1> QED
  BY <1>6, <1>8, <1>9, <1>10, <1>11, <1>12, <1>13 DEF MenuPage

-----------------------------------------------------------------------------
LEMMA MenuPageInit ==
  ASSUME Menus!Init
  PROVE  MenuPage(page)
<1>1. PICK hook \in Menus!Hooks :
         page = [hook |-> hook, sprint |-> 1,
               jira |-> [k \in Menus!Issues |-> MenuInitial],
               rows |-> [k \in Menus!Issues |-> MenuInitial],
               selected |-> {}, marked |-> {},
               menu |-> Menus!NoMenu, options |-> None, loading |-> FALSE, error |-> FALSE,
               ref |-> None, asked |-> {}, cache |-> {},
               submitting |-> FALSE, write |-> Menus!NoWrite, result |-> None,
               refreshes |-> {}, panel |-> Menus!NoPanel, panelAsked |-> {},
               over |-> FALSE, late |-> FALSE, unseen |-> {},
               left |-> [opens |-> MaxOpens, writes |-> MaxWrites, switches |-> MaxSwitches,
                         fails |-> MaxFails, toggles |-> MaxToggles]]
  BY DEF Menus!Init
<1>2. DOMAIN page = MenuFields
  BY <1>1 DEF MenuFields
<1>3. /\ page.hook \in Menus!Hooks /\ page.sprint = 1
      /\ page.jira = [k \in Menus!Issues |-> MenuInitial] /\ page.rows = page.jira
      /\ page.selected = {} /\ page.marked = {} /\ page.menu = Menus!NoMenu
      /\ page.options = None /\ page.loading = FALSE /\ page.ref = None /\ page.asked = {}
      /\ page.cache = {} /\ page.submitting = FALSE /\ page.write = Menus!NoWrite
      /\ page.result = None /\ page.refreshes = {} /\ page.panel = Menus!NoPanel
      /\ page.panelAsked = {} /\ page.over = FALSE /\ page.late = FALSE /\ page.unseen = {}
  BY <1>1
<1>4. MenuInitial \in MenuValues /\ MaxTargets \in Nat
  BY MenusConstants DEF Menus!MenusAssumption
<1>5. OptionsHeld(page) /\ MarksTyped(page) /\ ResultHeld(page)
  BY <1>3 DEF OptionsHeld, OptionsTyped, MarksTyped, ResultHeld
<1>6. WriteHeld(page)
  <2>1. DOMAIN Menus!NoWrite.targets = {}
    BY DEF Menus!NoWrite
  <2>2. Cardinality({}) <= MaxTargets
    BY <1>4, FS_EmptySet
  <2> QED
    BY <1>3, <2>1, <2>2 DEF WriteHeld, WriteTyped
<1>7. \A k : ~Reported(page, k)
  BY <1>3 DEF Reported, Menus!NoWrite
<1>8. RowsHeld(page)
  BY <1>3, <1>4, <1>7 DEF RowsHeld
<1>9. PanelHeld(page)
  BY <1>3 DEF PanelHeld, Menus!NoPanel
<1> QED
  BY <1>2, <1>3, <1>5, <1>6, <1>8, <1>9 DEF MenuPage

LEMMA MenuPageStep ==
  ASSUME MenuPage(page), Menus!Next
  PROVE  MenuPage(page')
<1>1. CASE \E k \in Menus!Issues : Menus!Open(k) \/ Menus!ToggleTarget(k)
  BY <1>1, OpenHeld, ToggleTargetHeld
<1>2. CASE Menus!Close
  BY <1>2, CloseHeld
<1>3. CASE \E r \in page.asked, ok \in BOOLEAN : Menus!AnswerOptions(r, ok)
  BY <1>3, AnswerOptionsHeld
<1>4. CASE \E k \in Stories : Menus!SelectStory(k)
  BY <1>4, SelectStoryHeld
<1>5. CASE \E v \in MenuValues :
              Menus!SubmitBatch(v) \/ Menus!SubmitPriority(v) \/ Menus!SubmitTrack(v)
  BY <1>5, SubmitBatchHeld, SubmitOneHeld
<1>6. CASE \E made, done \in SUBSET DOMAIN page.write.targets, lost \in BOOLEAN :
              Menus!Serve(made, done, lost)
  BY <1>6, ServeHeld
<1>7. CASE Menus!AnswerWrite
  BY <1>7, AnswerWriteHeld
<1>8. CASE \E s \in {1, 2} :
              Menus!AnswerRefresh(s) \/ \E ok \in BOOLEAN : Menus!AnswerPanel(s, ok)
  BY <1>8, AnswerRefreshHeld, AnswerPanelHeld
<1>9. CASE Menus!ToggleSubtasks \/ Menus!RetryPanel \/ Menus!SwitchSprint
  BY <1>9, ToggleSubtasksHeld, RetryPanelHeld, SwitchSprintHeld
<1> QED
  BY <1>1, <1>2, <1>3, <1>4, <1>5, <1>6, <1>7, <1>8, <1>9 DEF Menus!Next

\* The invariant says what is claimed of the page.
LEMMA MenuPageSound ==
  ASSUME MenuPage(page)
  PROVE  Menus!TypeOK /\ Menus!MenusSound
<1>1. /\ page.hook \in Menus!Hooks /\ MarksTyped(page) /\ OptionsHeld(page) /\ WriteHeld(page)
      /\ RowsHeld(page) /\ ResultHeld(page) /\ PanelHeld(page)
  BY DEF MenuPage
<1>2. DOMAIN page.write.targets \subseteq Menus!Issues
  BY <1>1 DEF WriteHeld, WriteTyped, Menus!NoWrite
<1>3. Menus!TypeOK
  BY <1>1, <1>2
  DEF Menus!TypeOK, MarksTyped, OptionsHeld, OptionsTyped, RowsHeld, ResultHeld, PanelHeld,
      Requested
<1>4. Menus!OptionsOfIssue
  BY <1>1 DEF Menus!OptionsOfIssue, OptionsHeld
<1>5. Menus!NoControlStuck
  BY <1>1 DEF Menus!NoControlStuck, OptionsHeld, PanelHeld, WriteHeld
<1>6. Menus!RowsShowJira
  <2>1. SUFFICES ASSUME page.write = Menus!NoWrite, ~page.late
                 PROVE  /\ page.sprint \notin page.refreshes =>
                             \A k \in (Epics \union Stories) \ page.unseen :
                                page.rows[k] = page.jira[k]
                        /\ page.panel.loaded /\ ~page.panel.loading =>
                             /\ page.panel.sprint = page.sprint
                             /\ \A k \in Subtasks \ page.unseen :
                                   page.panel.items[k] = page.jira[k]
                        /\ page.result \in {None, page.sprint}
    BY DEF Menus!RowsShowJira
  <2>2. \A k : ~Reported(page, k)
    BY <2>1 DEF Reported, Menus!NoWrite
  <2> QED
    BY <1>1, <2>1, <2>2 DEF RowsHeld, PanelHeld, ResultHeld
<1>7. page.hook = "status" => Menus!Cardinality(DOMAIN page.write.targets) <= MaxTargets
  BY <1>1, MenusCardinality DEF WriteHeld
<1> QED
  BY <1>3, <1>4, <1>5, <1>6, <1>7 DEF Menus!MenusSound

MenuInv == part = "menus" => MenuPage(page)

(* For any issues, values and numbers of menus opened, writes, failures and  *)
(* changes of sprint: what a menu offers is of the issue it is open for, all *)
(* that waits has a request, no batch is too large, and between writes the   *)
(* rows and subtasks on the page are those of Jira, or are to be read again. *)
THEOREM MenusAlwaysSound == PartsSpec => []MenusSound
<1>1. PartsInit => MenuInv
  BY MenuPageInit DEF PartsInit, MenuInv
<1>2. MenuInv /\ [PartsNext]_partVars => MenuInv'
  <2>1. SUFFICES ASSUME MenuInv, [PartsNext]_partVars, part' = "menus"
                 PROVE  MenuPage(page')
    BY DEF MenuInv
  <2>2. CASE MenusNext
    BY <2>1, <2>2, MenuPageStep DEF MenusNext, MenuInv
  <2>3. CASE DependenciesNext
    BY <2>1, <2>3 DEF DependenciesNext
  <2>4. CASE StatsNext
    BY <2>1, <2>4 DEF StatsNext
  <2>5. CASE AlertsNext
    BY <2>1, <2>5 DEF AlertsNext
  <2>6. CASE TimelineNext
    BY <2>1, <2>6 DEF TimelineNext
  <2>7. CASE BurndownNext
    BY <2>1, <2>7 DEF BurndownNext
  <2>8. CASE UNCHANGED partVars
    BY <2>1, <2>8 DEF partVars, MenuInv
  <2> QED
    BY <2>1, <2>2, <2>3, <2>4, <2>5, <2>6, <2>7, <2>8 DEF PartsNext
<1>3. MenuInv => MenusSound
  BY MenuPageSound DEF MenuInv, MenusSound
<1> QED
  BY <1>1, <1>2, <1>3, PTL DEF PartsSpec

-----------------------------------------------------------------------------
(* The links: the page and its invariant.                                    *)

LinkFields ==
    {"links", "jira", "sprint", "loading", "view", "board", "rollup", "found", "deps", "asked",
     "current", "focus", "hover", "lookups", "lookup", "note", "foreign", "patched", "acts",
     "lost"}

LinkStatus == {"todo", "done"}

SameLinks(b, r) ==
    r.links = b.links /\ r.deps = b.deps /\ r.asked = b.asked /\ r.current = b.current

\* No links are asked for while the lists of the board are on their way.
Awaiting(p) == p.view = "eng" /\ p.loading

LinksTyped(p) ==
    /\ DOMAIN p = LinkFields
    /\ p.view \in Links!Views /\ p.sprint \in Links!Sprints /\ p.loading \in BOOLEAN
    /\ p.links \in LinkSets /\ p.jira \in [Linked -> LinkStatus] /\ p.found \subseteq Linked
    /\ DOMAIN p.board \subseteq Linked /\ DOMAIN p.rollup \subseteq Linked
    /\ DOMAIN p.deps \subseteq Linked /\ DOMAIN p.lookups \subseteq Linked
    /\ \A r \in p.asked : r.keys \subseteq Linked
    /\ p.acts \in 0 .. MaxLinkActs /\ p.lost \in 0 .. MaxLost

FocusTyped(p) ==
    p.focus # None =>
        /\ p.focus.chip \in Links!Chips
        /\ p.focus.missing \subseteq p.focus.keys /\ p.focus.keys \subseteq Linked

\* What another user changed is wrong wherever it is; what was changed on the
\* page is right on the board.
StatusesHeld(p) ==
    /\ \A b \in DOMAIN p.board : b \notin p.foreign => p.board[b] = p.jira[b]
    /\ \A b \in DOMAIN p.lookups :
          b \notin p.foreign /\ b \notin p.patched => p.lookups[b] = p.jira[b]

\* The entries are those of one moment, at which Jira's statuses were j.
Snapshot(p, j) ==
    /\ j \in [Linked -> LinkStatus]
    /\ \A b \in Linked : b \notin p.foreign /\ b \notin p.patched => j[b] = p.jira[b]
    /\ \A k \in DOMAIN p.deps : p.deps[k] = Links!EntriesOf(p.links, j, k)

LinksBase(p, j) == LinksTyped(p) /\ FocusTyped(p) /\ StatusesHeld(p) /\ Snapshot(p, j)

\* Entries said to be current are all there are, and the newest request asks
\* for no less.
EntriesWhole(p, j) ==
    p.current /\ ~Awaiting(p) =>
        \A k \in DOMAIN Links!Rows(p) : Links!Entries(p, k) = Links!EntriesOf(p.links, j, k)

AskedWhole(p) ==
    \A r \in p.asked : r.newest => Awaiting(p) \/ DOMAIN Links!Rows(p) \subseteq r.keys

LookupHeld(p) ==
    p.lookup # None =>
        /\ p.focus # None /\ p.note
        /\ p.lookup \subseteq p.focus.missing \ DOMAIN p.lookups

LinksHeld(p, j) ==
    /\ LinksBase(p, j) /\ EntriesWhole(p, j) /\ AskedWhole(p) /\ LookupHeld(p)
    /\ p.focus = None \/ p.hover = None

LinksPage(p) == \E j : LinksHeld(p, j)

-----------------------------------------------------------------------------
(* Entries.                                                                  *)

LEMMA LinkTyped ==
  ASSUME NEW links \in LinkSets, NEW l \in links
  PROVE  l.from \in Linked /\ l.to \in Linked
BY LinksConstants DEF Links!LinksAssumption

\* What a chip is made of, and which links it stands for.
LEMMA EntryOfLink ==
  ASSUME NEW links, NEW j, NEW k, NEW d \in Links!EntriesOf(links, j, k)
  PROVE  \E l \in links :
            /\ d.category = l.category /\ d.status = j[d.key]
            /\ \/ d.direction = "outward" /\ l.from = k /\ d.key = l.to
               \/ d.direction = "inward" /\ l.to = k /\ d.key = l.from
            /\ l.category = "block" => d.prereq = l.from /\ d.dependent = l.to
<1>1. CASE \E l \in links : l.from = k /\
              d = [key |-> l.to, direction |-> "outward", category |-> l.category,
                   prereq |-> IF l.category = "block" THEN l.from ELSE l.to,
                   dependent |-> IF l.category = "block" THEN l.to ELSE l.from,
                   status |-> j[l.to]]
  BY <1>1
<1>2. CASE \E l \in links : l.to = k /\
              d = [key |-> l.from, direction |-> "inward", category |-> l.category,
                   prereq |-> IF l.category = "block" THEN l.from ELSE l.to,
                   dependent |-> IF l.category = "block" THEN l.to ELSE l.from,
                   status |-> j[l.from]]
  BY <1>2
<1> QED
  BY <1>1, <1>2 DEF Links!EntriesOf

LEMMA LinkHasEntries ==
  ASSUME NEW links, NEW j, NEW l \in links
  PROVE  /\ \E d \in Links!EntriesOf(links, j, l.from) :
               /\ d.category = l.category /\ d.direction = "outward" /\ d.key = l.to
               /\ l.category = "block" => d.prereq = l.from /\ d.dependent = l.to
         /\ \E d \in Links!EntriesOf(links, j, l.to) :
               /\ d.category = l.category /\ d.direction = "inward" /\ d.key = l.from
               /\ l.category = "block" => d.prereq = l.from /\ d.dependent = l.to
<1>1. PICK d : d = [key |-> l.to, direction |-> "outward", category |-> l.category,
                    prereq |-> IF l.category = "block" THEN l.from ELSE l.to,
                    dependent |-> IF l.category = "block" THEN l.to ELSE l.from,
                    status |-> j[l.to]]
  OBVIOUS
<1>2. PICK e : e = [key |-> l.from, direction |-> "inward", category |-> l.category,
                    prereq |-> IF l.category = "block" THEN l.from ELSE l.to,
                    dependent |-> IF l.category = "block" THEN l.to ELSE l.from,
                    status |-> j[l.from]]
  OBVIOUS
<1>3. d \in Links!EntriesOf(links, j, l.from)
  BY <1>1 DEF Links!EntriesOf
<1>4. e \in Links!EntriesOf(links, j, l.to)
  BY <1>2 DEF Links!EntriesOf
<1> QED
  BY <1>1, <1>2, <1>3, <1>4

LEMMA ChipsOfLinks ==
  ASSUME NEW links, NEW j, NEW k, NEW p, Links!Entries(p, k) = Links!EntriesOf(links, j, k)
  PROVE  \A m :
           /\ m \in Links!FocusKeys(p, k, "blocks") <=>
                 \E l \in links : l.category = "block" /\ l.from = k /\ l.to = m
           /\ m \in Links!FocusKeys(p, k, "blocked-by") <=>
                 \E l \in links : l.category = "block" /\ l.to = k /\ l.from = m
           /\ m \in Links!FocusKeys(p, k, "depends-on") <=>
                 \E l \in links : l.category = "dependency" /\ l.from = k /\ l.to = m
           /\ m \in Links!FocusKeys(p, k, "dependents") <=>
                 \E l \in links : l.category = "dependency" /\ l.to = k /\ l.from = m
<1> TAKE m
<1> DEFINE E == Links!EntriesOf(links, j, k)
<1>1. /\ m \in Links!FocusKeys(p, k, "blocks") <=>
            \E d \in E : d.category = "block" /\ d.prereq = k /\ d.key = m
      /\ m \in Links!FocusKeys(p, k, "blocked-by") <=>
            \E d \in E : d.category = "block" /\ d.dependent = k /\ d.key = m
      /\ m \in Links!FocusKeys(p, k, "depends-on") <=>
            \E d \in E : d.category = "dependency" /\ d.direction = "outward" /\ d.key = m
      /\ m \in Links!FocusKeys(p, k, "dependents") <=>
            \E d \in E : d.category = "dependency" /\ d.direction = "inward" /\ d.key = m
  BY DEF Links!FocusKeys, Links!Behind
<1>2. \A d \in E : \E l \in links :
            /\ d.category = l.category
            /\ \/ d.direction = "outward" /\ l.from = k /\ d.key = l.to
               \/ d.direction = "inward" /\ l.to = k /\ d.key = l.from
            /\ l.category = "block" => d.prereq = l.from /\ d.dependent = l.to
  BY EntryOfLink
<1>3. \A l \in links :
         /\ l.from = k => \E d \in E :
               /\ d.category = l.category /\ d.direction = "outward" /\ d.key = l.to
               /\ l.category = "block" => d.prereq = l.from /\ d.dependent = l.to
         /\ l.to = k => \E d \in E :
               /\ d.category = l.category /\ d.direction = "inward" /\ d.key = l.from
               /\ l.category = "block" => d.prereq = l.from /\ d.dependent = l.to
  BY LinkHasEntries
<1> HIDE DEF E
<1>4. m \in Links!FocusKeys(p, k, "blocks") <=>
         \E l \in links : l.category = "block" /\ l.from = k /\ l.to = m
  BY <1>1, <1>2, <1>3
<1>5. m \in Links!FocusKeys(p, k, "blocked-by") <=>
         \E l \in links : l.category = "block" /\ l.to = k /\ l.from = m
  BY <1>1, <1>2, <1>3
<1>6. m \in Links!FocusKeys(p, k, "depends-on") <=>
         \E l \in links : l.category = "dependency" /\ l.from = k /\ l.to = m
  BY <1>1, <1>2, <1>3
<1>7. m \in Links!FocusKeys(p, k, "dependents") <=>
         \E l \in links : l.category = "dependency" /\ l.to = k /\ l.from = m
  BY <1>1, <1>2, <1>3
<1> QED
  BY <1>4, <1>5, <1>6, <1>7

LEMMA FocusKeysLinked ==
  ASSUME NEW p, NEW j, LinksBase(p, j), NEW k, NEW chip
  PROVE  Links!FocusKeys(p, k, chip) \subseteq Linked
<1>1. \A d \in Links!Entries(p, k) : d.key \in Linked
  <2>1. CASE k \notin DOMAIN p.deps
    BY <2>1 DEF Links!Entries
  <2>2. CASE k \in DOMAIN p.deps
    <3>1. Links!Entries(p, k) = Links!EntriesOf(p.links, j, k)
      BY <2>2 DEF Links!Entries, LinksBase, Snapshot
    <3>2. \A d \in Links!EntriesOf(p.links, j, k) : \E l \in p.links : d.key \in {l.from, l.to}
      BY EntryOfLink
    <3> QED
      BY <3>1, <3>2, LinkTyped DEF LinksBase, LinksTyped
  <2> QED
    BY <2>1, <2>2
<1> QED
  BY <1>1 DEF Links!FocusKeys

-----------------------------------------------------------------------------
(* Effects.                                                                  *)

LEMMA AskLinksWorks ==
  ASSUME NEW q, NEW j, LinksBase(q, j), NEW r, r = Links!AskLinks(q)
  PROVE  /\ LinksBase(r, j)
         /\ ~Awaiting(q) => EntriesWhole(r, j) /\ AskedWhole(r)
         /\ Awaiting(q) => r = q
         /\ r.focus = q.focus /\ r.hover = q.hover /\ r.lookups = q.lookups
         /\ r.lookup = q.lookup /\ r.note = q.note
<1>1. CASE Awaiting(q)
  BY <1>1 DEF Links!AskLinks, Awaiting
<1>2. CASE ~Awaiting(q) /\ Links!Rows(q) = <<>>
  <2>1. r = [q EXCEPT !.deps = <<>>]
    BY <1>2 DEF Links!AskLinks, Awaiting
  <2>2. /\ DOMAIN r = LinkFields /\ r.deps = <<>> /\ DOMAIN r.deps = {}
        /\ r.links = q.links /\ r.jira = q.jira /\ r.sprint = q.sprint /\ r.loading = q.loading
        /\ r.view = q.view /\ r.board = q.board /\ r.rollup = q.rollup /\ r.found = q.found
        /\ r.asked = q.asked /\ r.current = q.current /\ r.focus = q.focus /\ r.hover = q.hover
        /\ r.lookups = q.lookups /\ r.lookup = q.lookup /\ r.note = q.note
        /\ r.foreign = q.foreign /\ r.patched = q.patched /\ r.acts = q.acts /\ r.lost = q.lost
    BY <2>1 DEF LinksBase, LinksTyped, LinkFields
  <2>3. LinksTyped(r) /\ FocusTyped(r) /\ StatusesHeld(r) /\ Snapshot(r, j)
    BY <2>2 DEF LinksBase, LinksTyped, FocusTyped, StatusesHeld, Snapshot
  <2>4. DOMAIN Links!Rows(r) = {}
    BY <1>2, <2>2 DEF Links!Rows
  <2> QED
    BY <2>2, <2>3, <2>4, <1>2 DEF LinksBase, EntriesWhole, AskedWhole
<1>3. CASE ~Awaiting(q) /\ Links!Rows(q) # <<>>
  <2>1. PICK old : old = {[keys |-> x.keys, newest |-> FALSE] : x \in q.asked}
    OBVIOUS
  <2>2. PICK n : n = [keys |-> DOMAIN Links!Rows(q), newest |-> TRUE]
    OBVIOUS
  <2>3. r = [q EXCEPT !.asked = old \union {n}, !.current = FALSE]
    BY <1>3, <2>1, <2>2 DEF Links!AskLinks, Awaiting
  <2>4. /\ DOMAIN r = LinkFields /\ r.deps = q.deps
        /\ r.links = q.links /\ r.jira = q.jira /\ r.sprint = q.sprint /\ r.loading = q.loading
        /\ r.view = q.view /\ r.board = q.board /\ r.rollup = q.rollup /\ r.found = q.found
        /\ r.asked = old \union {n} /\ r.current = FALSE /\ r.focus = q.focus
        /\ r.hover = q.hover
        /\ r.lookups = q.lookups /\ r.lookup = q.lookup /\ r.note = q.note
        /\ r.foreign = q.foreign /\ r.patched = q.patched /\ r.acts = q.acts /\ r.lost = q.lost
    BY <2>3 DEF LinksBase, LinksTyped, LinkFields
  <2>5. Links!Rows(r) = Links!Rows(q) /\ DOMAIN Links!Rows(q) \subseteq Linked
    BY <2>4 DEF Links!Rows, LinksBase, LinksTyped
  <2>6. \A x \in r.asked : x.keys \subseteq Linked /\ (x.newest => x.keys = DOMAIN Links!Rows(r))
    <3>1. \A x \in old : ~x.newest /\ x.keys \subseteq Linked
      BY <2>1 DEF LinksBase, LinksTyped
    <3>2. n.keys = DOMAIN Links!Rows(r)
      BY <2>2, <2>5
    <3> QED
      BY <2>4, <2>5, <3>1, <3>2
  <2>7. LinksTyped(r) /\ FocusTyped(r) /\ StatusesHeld(r) /\ Snapshot(r, j)
    BY <2>4, <2>6 DEF LinksBase, LinksTyped, FocusTyped, StatusesHeld, Snapshot
  <2> QED
    BY <2>4, <2>6, <2>7, <1>3 DEF LinksBase, EntriesWhole, AskedWhole
<1> QED
  BY <1>1, <1>2, <1>3

LEMMA EntriesSame ==
  ASSUME NEW p, NEW j, EntriesWhole(p, j), AskedWhole(p), NEW q, SameLinks(p, q),
         Links!Watched(p) = Links!Watched(q)
  PROVE  EntriesWhole(q, j) /\ AskedWhole(q)
<1>1. Awaiting(p) <=> Awaiting(q)
  BY DEF Links!Watched, Awaiting
<1>2. DOMAIN Links!Rows(p) = DOMAIN Links!Rows(q)
  BY DEF Links!Watched
<1>3. \A k : Links!Entries(p, k) = Links!Entries(q, k)
  BY DEF Links!Entries, SameLinks
<1> QED
  BY <1>1, <1>2, <1>3 DEF EntriesWhole, AskedWhole, SameLinks

\* Whatever an action makes of the page, its effects put in order again.
LEMMA EffectsWorks ==
  ASSUME NEW p, NEW j, LinksHeld(p, j), NEW q, LinksBase(q, j),
         Links!Watched(p) # Links!Watched(q) \/ SameLinks(p, q),
         NEW again \in BOOLEAN,
         p.focus # q.focus \/ again \/ LookupHeld(q),
         NEW r, r = Links!Effects(p, q, again)
  PROVE  LinksHeld(r, j)
<1>1. PICK l : l = IF Links!Watched(p) # Links!Watched(q) THEN Links!AskLinks(q) ELSE q
  OBVIOUS
<1>2. /\ LinksBase(l, j) /\ EntriesWhole(l, j) /\ AskedWhole(l)
      /\ l.focus = q.focus /\ l.hover = q.hover /\ l.lookups = q.lookups
      /\ l.lookup = q.lookup /\ l.note = q.note
  <2>1. CASE Links!Watched(p) # Links!Watched(q)
    <3>1. l = Links!AskLinks(q)
      BY <1>1, <2>1
    <3>2. CASE Awaiting(q)
      <4>1. l = q
        BY <3>1, <3>2, AskLinksWorks
      <4> QED
        BY <3>2, <4>1 DEF EntriesWhole, AskedWhole
    <3>3. CASE ~Awaiting(q)
      BY <3>1, <3>3, AskLinksWorks
    <3> QED
      BY <3>2, <3>3
  <2>2. CASE Links!Watched(p) = Links!Watched(q)
    <3>1. l = q
      BY <1>1, <2>2
    <3> QED
      BY <2>2, <3>1, EntriesSame DEF LinksHeld
  <2> QED
    BY <2>1, <2>2
<1>3. PICK s : s = IF l.focus # None THEN [l EXCEPT !.hover = None] ELSE l
  OBVIOUS
<1>4. /\ DOMAIN s = LinkFields /\ s.deps = l.deps /\ SameLinks(l, s)
      /\ s.links = l.links /\ s.jira = l.jira /\ s.sprint = l.sprint /\ s.loading = l.loading
      /\ s.view = l.view /\ s.board = l.board /\ s.rollup = l.rollup /\ s.found = l.found
      /\ s.asked = l.asked /\ s.current = l.current /\ s.focus = l.focus
      /\ s.lookups = l.lookups /\ s.lookup = l.lookup /\ s.note = l.note
      /\ s.foreign = l.foreign /\ s.patched = l.patched /\ s.acts = l.acts /\ s.lost = l.lost
      /\ s.focus = None \/ s.hover = None
  <2>1. DOMAIN l = LinkFields
    BY <1>2 DEF LinksBase, LinksTyped
  <2>2. CASE l.focus # None
    <3>1. s = [l EXCEPT !.hover = None]
      BY <1>3, <2>2
    <3> QED
      BY <2>1, <3>1 DEF LinkFields, SameLinks
  <2>3. CASE l.focus = None
    <3>1. s = l
      BY <1>3, <2>3
    <3> QED
      BY <2>1, <2>3, <3>1 DEF SameLinks
  <2> QED
    BY <2>2, <2>3
<1>5. PICK look \in BOOLEAN : look <=> p.focus # q.focus \/ again
  OBVIOUS
<1>6. r = IF look THEN Links!AskLookup(s) ELSE s
  BY <1>1, <1>3, <1>5 DEF Links!Effects
<1>7. /\ DOMAIN r = LinkFields /\ r.deps = s.deps /\ SameLinks(s, r)
      /\ r.links = s.links /\ r.jira = s.jira /\ r.sprint = s.sprint /\ r.loading = s.loading
      /\ r.view = s.view /\ r.board = s.board /\ r.rollup = s.rollup /\ r.found = s.found
      /\ r.asked = s.asked /\ r.current = s.current /\ r.focus = s.focus /\ r.hover = s.hover
      /\ r.lookups = s.lookups
      /\ r.foreign = s.foreign /\ r.patched = s.patched /\ r.acts = s.acts /\ r.lost = s.lost
      /\ LookupHeld(r)
  <2>1. CASE ~look
    <3>1. r = s
      BY <1>6, <2>1
    <3>2. LookupHeld(q)
      BY <1>5, <2>1
    <3> QED
      BY <1>2, <1>4, <3>1, <3>2 DEF SameLinks, LookupHeld
  <2>2. CASE look
    <3>1. PICK keys : keys = IF s.focus = None THEN {} ELSE s.focus.missing \ DOMAIN s.lookups
      OBVIOUS
    <3>2. CASE keys = {}
      <4>1. r = [s EXCEPT !.lookup = None]
        BY <1>6, <2>2, <3>1, <3>2 DEF Links!AskLookup
      <4> QED
        BY <1>4, <4>1 DEF LinkFields, SameLinks, LookupHeld
    <3>3. CASE keys # {}
      <4>1. r = [s EXCEPT !.lookup = keys, !.note = TRUE]
        BY <1>6, <2>2, <3>1, <3>3 DEF Links!AskLookup
      <4>2. s.focus # None /\ keys = s.focus.missing \ DOMAIN s.lookups
        BY <3>1, <3>3
      <4> QED
        BY <1>4, <4>1, <4>2 DEF LinkFields, SameLinks, LookupHeld
    <3> QED
      BY <3>2, <3>3
  <2> QED
    BY <2>1, <2>2
<1>8. LinksBase(r, j)
  <2>1. LinksTyped(r)
    BY <1>2, <1>4, <1>7 DEF LinksBase, LinksTyped
  <2>2. FocusTyped(r)
    BY <1>2, <1>4, <1>7 DEF LinksBase, FocusTyped
  <2>3. StatusesHeld(r) /\ Snapshot(r, j)
    BY <1>2, <1>4, <1>7 DEF LinksBase, StatusesHeld, Snapshot
  <2> QED
    BY <2>1, <2>2, <2>3 DEF LinksBase
<1>9. EntriesWhole(r, j) /\ AskedWhole(r)
  <2>1. SameLinks(l, r) /\ Links!Watched(l) = Links!Watched(r)
    BY <1>4, <1>7 DEF SameLinks, Links!Watched, Links!Rows
  <2> QED
    BY <1>2, <2>1, EntriesSame
<1>10. r.focus = None \/ r.hover = None
  BY <1>4, <1>7
<1> QED
  BY <1>7, <1>8, <1>9, <1>10 DEF LinksHeld

-----------------------------------------------------------------------------
(* Actions.                                                                  *)

\* What links and statuses are known by.
SameData(b, r) ==
    /\ SameLinks(b, r) /\ r.jira = b.jira /\ r.board = b.board /\ r.rollup = b.rollup
    /\ r.lookups = b.lookups /\ r.foreign = b.foreign /\ r.patched = b.patched

LEMMA DataKept ==
  ASSUME NEW b, NEW j, LinksBase(b, j), NEW r, DOMAIN r = LinkFields, SameData(b, r),
         r.view \in Links!Views, r.sprint \in Links!Sprints, r.loading \in BOOLEAN,
         r.found \subseteq Linked, r.acts \in 0 .. MaxLinkActs, r.lost \in 0 .. MaxLost,
         FocusTyped(r)
  PROVE  LinksBase(r, j)
BY DEF LinksBase, LinksTyped, StatusesHeld, Snapshot, SameData, SameLinks

LEMMA ActsLeft ==
  /\ \A n \in 0 .. MaxLinkActs : n > 0 => n - 1 \in 0 .. MaxLinkActs
  /\ \A n \in 0 .. MaxLost : n > 0 => n - 1 \in 0 .. MaxLost
BY LinksConstants DEF Links!LinksAssumption

\* An action that leaves the data alone.
LEMMA ActedHeld ==
  ASSUME NEW j, LinksHeld(page, j), page.acts > 0, NEW a, DOMAIN a = LinkFields,
         SameData(page, a), a.view \in Links!Views, a.sprint = page.sprint,
         a.loading \in BOOLEAN, a.found \subseteq Linked, a.acts = page.acts,
         a.lost = page.lost, FocusTyped(a), a.lookup = page.lookup, a.note = page.note,
         Links!Acted(a)
  PROVE  LinksHeld(page', j)
<1>1. PICK q : q = [a EXCEPT !.acts = @ - 1]
  OBVIOUS
<1>2. page' = Links!Effects(page, q, FALSE)
  BY <1>1 DEF Links!Acted, Links!Become
<1>3. /\ DOMAIN q = LinkFields /\ SameData(page, q) /\ SameLinks(page, q)
      /\ q.view = a.view /\ q.sprint = page.sprint
      /\ q.loading = a.loading /\ q.found = a.found /\ q.acts = page.acts - 1
      /\ q.lost = page.lost /\ q.focus = a.focus /\ q.lookup = page.lookup
      /\ q.note = page.note /\ q.lookups = page.lookups
  BY <1>1 DEF LinkFields, SameData, SameLinks
<1>4. LinksBase(q, j)
  <2>1. q.acts \in 0 .. MaxLinkActs /\ q.lost \in 0 .. MaxLost /\ q.sprint \in Links!Sprints
    BY <1>3, ActsLeft DEF LinksHeld, LinksBase, LinksTyped
  <2>2. FocusTyped(q)
    BY <1>3 DEF FocusTyped
  <2> QED
    BY <1>3, <2>1, <2>2, DataKept DEF LinksHeld
<1>5. page.focus # q.focus \/ LookupHeld(q)
  BY <1>3 DEF LinksHeld, LookupHeld
<1> QED
  BY <1>2, <1>3, <1>4, <1>5, EffectsWorks

LEMMA RefreshHeld ==
  ASSUME NEW j, LinksHeld(page, j), Links!Refresh
  PROVE  LinksHeld(page', j)
<1>1. PICK a : a = [page EXCEPT !.loading = TRUE]
  OBVIOUS
<1>2. Links!Acted(a) /\ page.acts > 0
  BY <1>1 DEF Links!Refresh, Links!Acting
<1>3. /\ DOMAIN a = LinkFields /\ SameData(page, a) /\ a.view = page.view
      /\ a.sprint = page.sprint /\ a.loading = TRUE /\ a.found = page.found
      /\ a.acts = page.acts /\ a.lost = page.lost /\ a.focus = page.focus
      /\ a.lookup = page.lookup /\ a.note = page.note
  BY <1>1 DEF LinksHeld, LinksBase, LinksTyped, LinkFields, SameData, SameLinks
<1>4. FocusTyped(a) /\ a.view \in Links!Views /\ a.found \subseteq Linked
  BY <1>3 DEF LinksHeld, LinksBase, LinksTyped, FocusTyped
<1> QED
  BY <1>2, <1>3, <1>4, ActedHeld

LEMMA FilterHeld ==
  ASSUME NEW j, LinksHeld(page, j), NEW found \in SUBSET Linked, Links!Filter(found)
  PROVE  LinksHeld(page', j)
<1>1. PICK a : a = [page EXCEPT !.found = found]
  OBVIOUS
<1>2. Links!Acted(a) /\ page.acts > 0
  BY <1>1 DEF Links!Filter, Links!Acting
<1>3. /\ DOMAIN a = LinkFields /\ SameData(page, a) /\ a.view = page.view
      /\ a.sprint = page.sprint /\ a.loading = page.loading /\ a.found = found
      /\ a.acts = page.acts /\ a.lost = page.lost /\ a.focus = page.focus
      /\ a.lookup = page.lookup /\ a.note = page.note
  BY <1>1 DEF LinksHeld, LinksBase, LinksTyped, LinkFields, SameData, SameLinks
<1>4. FocusTyped(a) /\ a.view \in Links!Views /\ a.loading \in BOOLEAN
  BY <1>3 DEF LinksHeld, LinksBase, LinksTyped, FocusTyped
<1> QED
  BY <1>2, <1>3, <1>4, ActedHeld

\* Another focus, or none.
LEMMA FocusChangedHeld ==
  ASSUME NEW j, LinksHeld(page, j), page.acts > 0, NEW focus,
         NEW a, a = [page EXCEPT !.focus = focus], FocusTyped(a), Links!Acted(a)
  PROVE  LinksHeld(page', j)
<1>1. /\ DOMAIN a = LinkFields /\ SameData(page, a) /\ a.view = page.view
      /\ a.sprint = page.sprint /\ a.loading = page.loading /\ a.found = page.found
      /\ a.acts = page.acts /\ a.lost = page.lost
      /\ a.lookup = page.lookup /\ a.note = page.note
  BY DEF LinksHeld, LinksBase, LinksTyped, LinkFields, SameData, SameLinks
<1>2. a.view \in Links!Views /\ a.loading \in BOOLEAN /\ a.found \subseteq Linked
  BY <1>1 DEF LinksHeld, LinksBase, LinksTyped
<1> QED
  BY <1>1, <1>2, ActedHeld

LEMMA ClickChipHeld ==
  ASSUME NEW j, LinksHeld(page, j), NEW k \in Linked, NEW chip \in Links!Chips, NEW offscreen,
         Links!ClickChip(k, chip, offscreen)
  PROVE  LinksHeld(page', j)
<1>1. PICK again \in BOOLEAN :
         again <=> page.focus # None /\ page.focus.task = k /\ page.focus.chip = chip
  OBVIOUS
<1>2. PICK focus : focus = IF again THEN None ELSE Links!FocusOn(page, k, chip, offscreen)
  OBVIOUS
<1>3. PICK a : a = [page EXCEPT !.focus = focus]
  OBVIOUS
<1>4. Links!Acted(a) /\ page.acts > 0
  BY <1>1, <1>2, <1>3 DEF Links!ClickChip, Links!Acting
<1>5. FocusTyped(a)
  <2>1. a.focus = focus
    BY <1>3 DEF LinksHeld, LinksBase, LinksTyped, LinkFields
  <2>2. CASE again
    BY <1>2, <2>1, <2>2 DEF FocusTyped
  <2>3. CASE ~again
    <3>1. PICK keys : keys = Links!FocusKeys(page, k, chip)
      OBVIOUS
    <3>2. keys \subseteq Linked
      BY <3>1, FocusKeysLinked DEF LinksHeld
    <3>3. focus.chip = chip /\ focus.keys = keys /\ focus.missing = keys \ DOMAIN Links!Rows(page)
      BY <1>2, <2>3, <3>1 DEF Links!FocusOn
    <3> QED
      BY <2>1, <3>2, <3>3 DEF FocusTyped
  <2> QED
    BY <2>2, <2>3
<1> QED
  BY <1>3, <1>4, <1>5, FocusChangedHeld

LEMMA EndFocusHeld ==
  ASSUME NEW j, LinksHeld(page, j), Links!EndFocus
  PROVE  LinksHeld(page', j)
<1>1. PICK a : a = [page EXCEPT !.focus = None]
  OBVIOUS
<1>2. Links!Acted(a) /\ page.acts > 0
  BY <1>1 DEF Links!EndFocus, Links!Acting
<1>3. FocusTyped(a)
  BY <1>1 DEF LinksHeld, LinksBase, LinksTyped, LinkFields, FocusTyped
<1> QED
  BY <1>1, <1>2, <1>3, FocusChangedHeld

LEMMA HoverEnterHeld ==
  ASSUME NEW j, LinksHeld(page, j), NEW k, NEW chip, Links!HoverEnter(k, chip)
  PROVE  LinksHeld(page', j)
<1>1. PICK hover : hover = Links!FocusOn(page, k, chip, {})
  OBVIOUS
<1>2. PICK a : a = [page EXCEPT !.hover = hover]
  OBVIOUS
<1>3. Links!Acted(a) /\ page.acts > 0
  BY <1>1, <1>2 DEF Links!HoverEnter, Links!Acting
<1>4. /\ DOMAIN a = LinkFields /\ SameData(page, a) /\ a.view = page.view
      /\ a.sprint = page.sprint /\ a.loading = page.loading /\ a.found = page.found
      /\ a.acts = page.acts /\ a.lost = page.lost /\ a.focus = page.focus
      /\ a.lookup = page.lookup /\ a.note = page.note
  BY <1>2 DEF LinksHeld, LinksBase, LinksTyped, LinkFields, SameData, SameLinks
<1>5. FocusTyped(a) /\ a.view \in Links!Views /\ a.loading \in BOOLEAN /\ a.found \subseteq Linked
  BY <1>4 DEF LinksHeld, LinksBase, LinksTyped, FocusTyped
<1> QED
  BY <1>3, <1>4, <1>5, ActedHeld

LEMMA HoverLeaveHeld ==
  ASSUME NEW j, LinksHeld(page, j), Links!HoverLeave
  PROVE  LinksHeld(page', j)
<1>1. PICK q : q = [page EXCEPT !.hover = None]
  OBVIOUS
<1>2. page' = Links!Effects(page, q, FALSE)
  BY <1>1 DEF Links!HoverLeave, Links!Become
<1>3. /\ DOMAIN q = LinkFields /\ SameData(page, q) /\ SameLinks(page, q)
      /\ q.view = page.view /\ q.sprint = page.sprint /\ q.loading = page.loading
      /\ q.found = page.found /\ q.acts = page.acts /\ q.lost = page.lost
      /\ q.focus = page.focus /\ q.lookup = page.lookup /\ q.note = page.note
      /\ q.lookups = page.lookups
  BY <1>1 DEF LinksHeld, LinksBase, LinksTyped, LinkFields, SameData, SameLinks
<1>4. LinksBase(q, j)
  <2>1. FocusTyped(q) /\ q.view \in Links!Views /\ q.loading \in BOOLEAN /\ q.found \subseteq Linked
        /\ q.sprint \in Links!Sprints /\ q.acts \in 0 .. MaxLinkActs /\ q.lost \in 0 .. MaxLost
    BY <1>3 DEF LinksHeld, LinksBase, LinksTyped, FocusTyped
  <2> QED
    BY <1>3, <2>1, DataKept DEF LinksHeld
<1>5. LookupHeld(q)
  BY <1>3 DEF LinksHeld, LookupHeld
<1> QED
  BY <1>2, <1>3, <1>4, <1>5, EffectsWorks

\* Another sprint begins with nothing of the one before.
LEMMA SelectSprintHeld ==
  ASSUME NEW j, LinksHeld(page, j), NEW s \in Links!Sprints, Links!SelectSprint(s)
  PROVE  LinksHeld(page', j)
<1>1. PICK a : a = [page EXCEPT !.sprint = s, !.loading = TRUE, !.board = <<>>, !.deps = <<>>,
                          !.asked = {}, !.current = FALSE, !.focus = None, !.lookups = <<>>,
                          !.lookup = None, !.note = FALSE]
  OBVIOUS
<1>2. PICK q : q = [a EXCEPT !.acts = @ - 1]
  OBVIOUS
<1>3. page' = Links!Effects(page, q, FALSE) /\ page.acts > 0 /\ s # page.sprint
  BY <1>1, <1>2 DEF Links!SelectSprint, Links!Acted, Links!Become, Links!Acting
<1>4. /\ DOMAIN q = LinkFields /\ q.sprint = s /\ q.loading = TRUE /\ q.board = <<>>
      /\ q.deps = <<>> /\ q.asked = {} /\ q.current = FALSE /\ q.focus = None
      /\ q.lookups = <<>> /\ q.lookup = None /\ q.acts = page.acts - 1
      /\ q.links = page.links /\ q.jira = page.jira /\ q.view = page.view
      /\ q.rollup = page.rollup /\ q.found = page.found /\ q.foreign = page.foreign
      /\ q.patched = page.patched /\ q.lost = page.lost
  BY <1>1, <1>2 DEF LinksHeld, LinksBase, LinksTyped, LinkFields
<1>5. DOMAIN q.board = {} /\ DOMAIN q.deps = {} /\ DOMAIN q.lookups = {}
  BY <1>4
<1>6. LinksTyped(q)
  <2>1. q.acts \in 0 .. MaxLinkActs
    BY <1>3, <1>4, ActsLeft DEF LinksHeld, LinksBase, LinksTyped
  <2> QED
    BY <1>4, <1>5, <2>1 DEF LinksHeld, LinksBase, LinksTyped
<1>7. FocusTyped(q) /\ StatusesHeld(q) /\ Snapshot(q, j)
  BY <1>4, <1>5 DEF LinksHeld, LinksBase, FocusTyped, StatusesHeld, Snapshot
<1>8. LookupHeld(q)
  BY <1>4 DEF LookupHeld
<1>9. Links!Watched(page) # Links!Watched(q)
  BY <1>3, <1>4 DEF Links!Watched
<1> QED
  BY <1>3, <1>6, <1>7, <1>8, <1>9, EffectsWorks DEF LinksBase

LEMMA RowsArriveHeld ==
  ASSUME NEW j, LinksHeld(page, j), NEW rows \in OnBoard[page.sprint], Links!RowsArrive(rows)
  PROVE  LinksHeld(page', j)
<1>1. PICK board : board = [k \in rows |-> page.jira[k]]
  OBVIOUS
<1>2. PICK q : q = [page EXCEPT !.loading = FALSE, !.board = board]
  OBVIOUS
<1>3. page' = Links!Effects(page, q, FALSE) /\ page.loading
  BY <1>1, <1>2 DEF Links!RowsArrive, Links!Become, Links!Read
<1>4. /\ DOMAIN q = LinkFields /\ q.loading = FALSE /\ q.board = board /\ SameLinks(page, q)
      /\ q.sprint = page.sprint /\ q.deps = page.deps
      /\ q.asked = page.asked /\ q.focus = page.focus
      /\ q.lookups = page.lookups /\ q.lookup = page.lookup /\ q.note = page.note
      /\ q.acts = page.acts
      /\ q.links = page.links /\ q.jira = page.jira /\ q.view = page.view
      /\ q.rollup = page.rollup /\ q.found = page.found /\ q.foreign = page.foreign
      /\ q.patched = page.patched /\ q.lost = page.lost
  BY <1>2 DEF LinksHeld, LinksBase, LinksTyped, LinkFields, SameLinks
<1>5. rows \subseteq Linked
  BY LinksConstants DEF Links!LinksAssumption, LinksHeld, LinksBase, LinksTyped
<1>6. LinksTyped(q)
  BY <1>1, <1>4, <1>5 DEF LinksHeld, LinksBase, LinksTyped
<1>7. FocusTyped(q) /\ StatusesHeld(q) /\ Snapshot(q, j)
  BY <1>1, <1>4 DEF LinksHeld, LinksBase, FocusTyped, StatusesHeld, Snapshot
<1>8. LookupHeld(q)
  BY <1>4 DEF LinksHeld, LookupHeld
<1> QED
  BY <1>3, <1>4, <1>6, <1>7, <1>8, EffectsWorks DEF LinksBase

LEMMA SwitchViewHeld ==
  ASSUME NEW j, LinksHeld(page, j), Links!SwitchView
  PROVE  LinksHeld(page', j)
<1>1. PICK rollup : rollup = IF page.view = "eng" THEN [k \in OnRollup |-> page.jira[k]]
                                                  ELSE page.rollup
  OBVIOUS
<1>2. PICK view : view = IF page.view = "eng" THEN "epm" ELSE "eng"
  OBVIOUS
<1>3. PICK a : a = [page EXCEPT !.view = view, !.rollup = rollup]
  OBVIOUS
<1>4. PICK q : q = [a EXCEPT !.acts = @ - 1]
  OBVIOUS
<1>5. page' = Links!Effects(page, q, FALSE) /\ page.acts > 0
  BY <1>1, <1>2, <1>3, <1>4
  DEF Links!SwitchView, Links!Acted, Links!Become, Links!Read, Links!Acting
<1>6. /\ DOMAIN q = LinkFields /\ q.view = view /\ q.rollup = rollup /\ SameLinks(page, q)
      /\ q.sprint = page.sprint /\ q.deps = page.deps /\ q.loading = page.loading
      /\ q.asked = page.asked /\ q.focus = page.focus /\ q.board = page.board
      /\ q.lookups = page.lookups /\ q.lookup = page.lookup /\ q.note = page.note
      /\ q.acts = page.acts - 1
      /\ q.links = page.links /\ q.jira = page.jira
      /\ q.found = page.found /\ q.foreign = page.foreign
      /\ q.patched = page.patched /\ q.lost = page.lost
  BY <1>3, <1>4 DEF LinksHeld, LinksBase, LinksTyped, LinkFields, SameLinks
<1>7. DOMAIN rollup \subseteq Linked /\ view \in Links!Views
  BY <1>1, <1>2, LinksConstants
  DEF Links!LinksAssumption, LinksHeld, LinksBase, LinksTyped, Links!Views
<1>8. q.acts \in 0 .. MaxLinkActs
  BY <1>5, <1>6, ActsLeft DEF LinksHeld, LinksBase, LinksTyped
<1>9. LinksTyped(q)
  BY <1>6, <1>7, <1>8 DEF LinksHeld, LinksBase, LinksTyped
<1>10. FocusTyped(q) /\ StatusesHeld(q) /\ Snapshot(q, j)
  BY <1>6 DEF LinksHeld, LinksBase, FocusTyped, StatusesHeld, Snapshot
<1>11. LookupHeld(q)
  BY <1>6 DEF LinksHeld, LookupHeld
<1> QED
  BY <1>5, <1>6, <1>9, <1>10, <1>11, EffectsWorks DEF LinksBase

LEMMA JiraChangesHeld ==
  ASSUME NEW j, LinksHeld(page, j), NEW k \in Linked, Links!JiraChanges(k)
  PROVE  LinksHeld(page', j)
<1>1. PICK status : status = IF page.jira[k] = "done" THEN "todo" ELSE "done"
  OBVIOUS
<1>2. PICK now : now = [page.jira EXCEPT ![k] = status]
  OBVIOUS
<1>3. PICK foreign : foreign = page.foreign \union {k}
  OBVIOUS
<1>4. PICK q : q = page'
  OBVIOUS
<1>5. q = [page EXCEPT !.jira = now, !.acts = @ - 1, !.foreign = foreign] /\ page.acts > 0
  BY <1>1, <1>2, <1>3, <1>4 DEF Links!JiraChanges, Links!Acting
<1>6. /\ DOMAIN q = LinkFields /\ q.jira = now /\ q.foreign = foreign /\ SameLinks(page, q)
      /\ q.view = page.view /\ q.rollup = page.rollup
      /\ q.sprint = page.sprint /\ q.deps = page.deps /\ q.loading = page.loading
      /\ q.asked = page.asked /\ q.focus = page.focus /\ q.hover = page.hover
      /\ q.board = page.board
      /\ q.lookups = page.lookups /\ q.lookup = page.lookup /\ q.note = page.note
      /\ q.acts = page.acts - 1 /\ q.links = page.links
      /\ q.found = page.found /\ q.patched = page.patched /\ q.lost = page.lost
  BY <1>5 DEF LinksHeld, LinksBase, LinksTyped, LinkFields, SameLinks
<1>7. /\ now \in [Linked -> LinkStatus]
      /\ \A b \in Linked : b \notin foreign => now[b] = page.jira[b]
  BY <1>1, <1>2, <1>3 DEF LinksHeld, LinksBase, LinksTyped, LinkStatus
<1>8. q.acts \in 0 .. MaxLinkActs
  BY <1>5, <1>6, ActsLeft DEF LinksHeld, LinksBase, LinksTyped
<1>9. LinksTyped(q)
  BY <1>6, <1>7, <1>8 DEF LinksHeld, LinksBase, LinksTyped
<1>10. FocusTyped(q) /\ StatusesHeld(q) /\ Snapshot(q, j)
  BY <1>3, <1>6, <1>7 DEF LinksHeld, LinksBase, LinksTyped, FocusTyped, StatusesHeld, Snapshot
<1>11. LookupHeld(q)
  BY <1>6 DEF LinksHeld, LookupHeld
<1>12. EntriesWhole(q, j) /\ AskedWhole(q)
  <2>1. Links!Watched(page) = Links!Watched(q)
    BY <1>6 DEF Links!Watched, Links!Rows
  <2> QED
    BY <1>6, <2>1, EntriesSame DEF LinksHeld
<1> QED
  BY <1>4, <1>6, <1>9, <1>10, <1>11, <1>12 DEF LinksBase, LinksHeld

LEMMA PatchRowHeld ==
  ASSUME NEW j, LinksHeld(page, j), NEW k \in Linked, Links!PatchRow(k)
  PROVE  LinksHeld(page', j)
<1>1. PICK status : status = IF page.board[k] = "done" THEN "todo" ELSE "done"
  OBVIOUS
<1>2. PICK now : now = [page.jira EXCEPT ![k] = status]
  OBVIOUS
<1>3. PICK board : board = [page.board EXCEPT ![k] = status]
  OBVIOUS
<1>4. PICK patched : patched = page.patched \union {k}
  OBVIOUS
<1>5. PICK a : a = [page EXCEPT !.jira = now, !.board = board, !.patched = patched]
  OBVIOUS
<1>6. PICK q : q = [a EXCEPT !.acts = @ - 1]
  OBVIOUS
<1>7. a = [page EXCEPT !.jira[k] = status, !.board[k] = status, !.patched = @ \union {k}]
  BY <1>2, <1>3, <1>4, <1>5
<1>8. Links!Acted(a) /\ page.acts > 0 /\ k \in DOMAIN page.board
  BY <1>1, <1>7 DEF Links!PatchRow, Links!Acting, Links!Visible, Links!Rows
<1>9. page' = Links!Effects(page, q, FALSE)
  BY <1>6, <1>8 DEF Links!Acted, Links!Become
<1>10. /\ DOMAIN q = LinkFields /\ q.jira = now /\ q.board = board /\ q.patched = patched
       /\ SameLinks(page, q)
       /\ q.view = page.view /\ q.rollup = page.rollup
       /\ q.sprint = page.sprint /\ q.deps = page.deps /\ q.loading = page.loading
       /\ q.asked = page.asked /\ q.focus = page.focus /\ q.hover = page.hover
       /\ q.lookups = page.lookups /\ q.lookup = page.lookup /\ q.note = page.note
       /\ q.acts = page.acts - 1 /\ q.links = page.links
       /\ q.found = page.found /\ q.foreign = page.foreign /\ q.lost = page.lost
  BY <1>5, <1>6 DEF LinksHeld, LinksBase, LinksTyped, LinkFields, SameLinks
<1>11. /\ now \in [Linked -> LinkStatus] /\ now[k] = status
       /\ \A b \in Linked : b # k => now[b] = page.jira[b]
  BY <1>1, <1>2 DEF LinksHeld, LinksBase, LinksTyped, LinkStatus
<1>12. /\ DOMAIN board = DOMAIN page.board /\ board[k] = status
       /\ \A b \in DOMAIN board : b # k => board[b] = page.board[b]
  BY <1>3, <1>8
<1>13. q.acts \in 0 .. MaxLinkActs
  BY <1>8, <1>10, ActsLeft DEF LinksHeld, LinksBase, LinksTyped
<1>14. LinksTyped(q)
  BY <1>10, <1>11, <1>12, <1>13 DEF LinksHeld, LinksBase, LinksTyped
<1>15. FocusTyped(q) /\ StatusesHeld(q) /\ Snapshot(q, j)
  BY <1>4, <1>10, <1>11, <1>12
  DEF LinksHeld, LinksBase, LinksTyped, FocusTyped, StatusesHeld, Snapshot
<1>16. LookupHeld(q)
  BY <1>10 DEF LinksHeld, LookupHeld
<1> QED
  BY <1>9, <1>10, <1>14, <1>15, <1>16, EffectsWorks DEF LinksBase

\* An answer is a snapshot of its own moment.
LEMMA LinksArriveHeld ==
  ASSUME NEW j, LinksHeld(page, j), NEW r \in page.asked, NEW keys \in {{}, r.keys},
         Links!LinksArrive(r, keys)
  PROVE  LinksHeld(page', page.jira)
<1>1. PICK asked : asked = page.asked \ {r}
  OBVIOUS
<1>2. PICK deps : deps = Links!Collected(page, keys)
  OBVIOUS
<1>3. PICK current \in BOOLEAN : current <=> r.newest /\ keys = r.keys
  OBVIOUS
<1>4. PICK lost : lost = IF keys = r.keys THEN page.lost ELSE page.lost - 1
  OBVIOUS
<1>5. PICK q : q = page'
  OBVIOUS
<1>6. /\ DOMAIN q = LinkFields /\ q.jira = page.jira /\ q.asked = asked /\ q.deps = deps
      /\ q.view = page.view /\ q.rollup = page.rollup /\ q.board = page.board
      /\ q.sprint = page.sprint /\ q.loading = page.loading
      /\ q.focus = page.focus /\ q.hover = page.hover
      /\ q.lookups = page.lookups /\ q.lookup = page.lookup /\ q.note = page.note
      /\ q.acts = page.acts /\ q.links = page.links /\ q.patched = page.patched
      /\ q.found = page.found /\ q.foreign = page.foreign /\ q.lost = lost
      /\ q.current => current
  <2>1. q = [page EXCEPT !.asked = asked, !.deps = deps,
                         !.current = r.newest /\ keys = r.keys, !.lost = lost]
    BY <1>1, <1>2, <1>4, <1>5 DEF Links!LinksArrive
  <2> QED
    BY <1>3, <2>1 DEF LinksHeld, LinksBase, LinksTyped, LinkFields
<1>7. lost \in 0 .. MaxLost
  BY <1>4, ActsLeft DEF Links!LinksArrive, LinksHeld, LinksBase, LinksTyped
<1>8. keys \subseteq Linked
  BY DEF LinksHeld, LinksBase, LinksTyped
<1>9. /\ DOMAIN deps = {i \in keys : Links!EntriesOf(page.links, page.jira, i) # {}}
      /\ \A k \in DOMAIN deps : deps[k] = Links!EntriesOf(page.links, page.jira, k)
  BY <1>2 DEF Links!Collected
<1>10. LinksTyped(q)
  BY <1>1, <1>6, <1>7, <1>8, <1>9 DEF LinksHeld, LinksBase, LinksTyped
<1>11. FocusTyped(q) /\ StatusesHeld(q) /\ Snapshot(q, page.jira)
  BY <1>6, <1>9 DEF LinksHeld, LinksBase, LinksTyped, FocusTyped, StatusesHeld, Snapshot
<1>12. Links!Rows(q) = Links!Rows(page) /\ (Awaiting(q) <=> Awaiting(page))
  BY <1>6 DEF Links!Rows, Awaiting
<1>13. EntriesWhole(q, page.jira)
  <2>1. SUFFICES ASSUME q.current, ~Awaiting(q), NEW k \in DOMAIN Links!Rows(q)
                 PROVE  Links!Entries(q, k) = Links!EntriesOf(q.links, page.jira, k)
    BY DEF EntriesWhole
  <2>2. k \in keys
    BY <1>3, <1>6, <1>12, <2>1 DEF LinksHeld, AskedWhole
  <2> QED
    BY <1>6, <1>9, <2>2 DEF Links!Entries
<1>14. AskedWhole(q)
  BY <1>1, <1>6, <1>12 DEF LinksHeld, AskedWhole
<1>15. LookupHeld(q) /\ (q.focus = None \/ q.hover = None)
  BY <1>6 DEF LinksHeld, LookupHeld
<1> QED
  BY <1>5, <1>10, <1>11, <1>13, <1>14, <1>15 DEF LinksBase, LinksHeld

LEMMA LinksLostHeld ==
  ASSUME NEW j, LinksHeld(page, j), NEW r \in page.asked, Links!LinksLost(r)
  PROVE  LinksHeld(page', j)
<1>1. PICK asked : asked = page.asked \ {r}
  OBVIOUS
<1>2. PICK q : q = page'
  OBVIOUS
<1>3. q = [page EXCEPT !.asked = asked, !.lost = @ - 1] /\ page.lost > 0
  BY <1>1, <1>2 DEF Links!LinksLost
<1>4. /\ DOMAIN q = LinkFields /\ q.jira = page.jira /\ q.asked = asked /\ q.deps = page.deps
      /\ q.view = page.view /\ q.rollup = page.rollup /\ q.board = page.board
      /\ q.sprint = page.sprint /\ q.loading = page.loading /\ q.current = page.current
      /\ q.focus = page.focus /\ q.hover = page.hover
      /\ q.lookups = page.lookups /\ q.lookup = page.lookup /\ q.note = page.note
      /\ q.acts = page.acts /\ q.links = page.links /\ q.patched = page.patched
      /\ q.found = page.found /\ q.foreign = page.foreign /\ q.lost = page.lost - 1
  BY <1>3 DEF LinksHeld, LinksBase, LinksTyped, LinkFields
<1>5. q.lost \in 0 .. MaxLost
  BY <1>3, <1>4, ActsLeft DEF LinksHeld, LinksBase, LinksTyped
<1>6. LinksTyped(q)
  BY <1>1, <1>4, <1>5 DEF LinksHeld, LinksBase, LinksTyped
<1>7. FocusTyped(q) /\ StatusesHeld(q) /\ Snapshot(q, j)
  BY <1>4 DEF LinksHeld, LinksBase, LinksTyped, FocusTyped, StatusesHeld, Snapshot
<1>8. /\ Links!Rows(q) = Links!Rows(page) /\ (Awaiting(q) <=> Awaiting(page))
      /\ \A k : Links!Entries(q, k) = Links!Entries(page, k)
  BY <1>4 DEF Links!Rows, Awaiting, Links!Entries
<1>9. EntriesWhole(q, j) /\ AskedWhole(q)
  BY <1>1, <1>4, <1>8 DEF LinksHeld, EntriesWhole, AskedWhole
<1>10. LookupHeld(q) /\ (q.focus = None \/ q.hover = None)
  BY <1>4 DEF LinksHeld, LookupHeld
<1> QED
  BY <1>2, <1>6, <1>7, <1>9, <1>10 DEF LinksBase, LinksHeld

\* What a lookup brings is what Jira has; what it asks for next is no part of it.
LEMMA LookupArrivesHeld ==
  ASSUME NEW j, LinksHeld(page, j), NEW keys \in {{}, page.lookup}, Links!LookupArrives(keys)
  PROVE  LinksHeld(page', j)
<1>1. PICK lookups : lookups = Links!LookedUp(page, keys)
  OBVIOUS
<1>2. PICK lost : lost = IF keys = page.lookup THEN page.lost ELSE page.lost - 1
  OBVIOUS
<1>3. PICK q : q = [page EXCEPT !.lookups = lookups, !.lookup = None, !.note = FALSE,
                                !.lost = lost]
  OBVIOUS
<1>4. page' = Links!Effects(page, q, TRUE) /\ page.lookup # None
  BY <1>1, <1>2, <1>3 DEF Links!LookupArrives
<1>5. /\ DOMAIN q = LinkFields /\ q.jira = page.jira /\ q.deps = page.deps
      /\ SameLinks(page, q) /\ q.asked = page.asked
      /\ q.view = page.view /\ q.rollup = page.rollup /\ q.board = page.board
      /\ q.sprint = page.sprint /\ q.loading = page.loading
      /\ q.focus = page.focus /\ q.lookups = lookups /\ q.lookup = None
      /\ q.acts = page.acts /\ q.links = page.links /\ q.patched = page.patched
      /\ q.found = page.found /\ q.foreign = page.foreign /\ q.lost = lost
  BY <1>3 DEF LinksHeld, LinksBase, LinksTyped, LinkFields, SameLinks
<1>6. lost \in 0 .. MaxLost
  BY <1>2, ActsLeft DEF Links!LookupArrives, LinksHeld, LinksBase, LinksTyped
<1>7. keys \subseteq Linked
  BY <1>4 DEF LinksHeld, LookupHeld, LinksBase, FocusTyped
<1>8. /\ DOMAIN lookups = keys \union DOMAIN page.lookups
      /\ \A b \in DOMAIN lookups :
            lookups[b] = page.jira[b] \/ (b \in DOMAIN page.lookups /\ lookups[b] = page.lookups[b])
  BY <1>1 DEF Links!LookedUp
<1>9. LinksTyped(q)
  BY <1>5, <1>6, <1>7, <1>8 DEF LinksHeld, LinksBase, LinksTyped
<1>10. FocusTyped(q) /\ StatusesHeld(q) /\ Snapshot(q, j)
  BY <1>5, <1>8 DEF LinksHeld, LinksBase, FocusTyped, StatusesHeld, Snapshot
<1> QED
  BY <1>4, <1>5, <1>9, <1>10, EffectsWorks DEF LinksBase

LEMMA LookupLostHeld ==
  ASSUME NEW j, LinksHeld(page, j), Links!LookupLost
  PROVE  LinksHeld(page', j)
<1>1. PICK q : q = page'
  OBVIOUS
<1>2. q = [page EXCEPT !.lookup = None, !.note = FALSE, !.lost = @ - 1] /\ page.lost > 0
  BY <1>1 DEF Links!LookupLost
<1>3. /\ DOMAIN q = LinkFields /\ q.jira = page.jira /\ q.asked = page.asked
      /\ q.deps = page.deps /\ SameLinks(page, q)
      /\ q.view = page.view /\ q.rollup = page.rollup /\ q.board = page.board
      /\ q.sprint = page.sprint /\ q.loading = page.loading /\ q.current = page.current
      /\ q.focus = page.focus /\ q.hover = page.hover
      /\ q.lookups = page.lookups /\ q.lookup = None
      /\ q.acts = page.acts /\ q.links = page.links /\ q.patched = page.patched
      /\ q.found = page.found /\ q.foreign = page.foreign /\ q.lost = page.lost - 1
  BY <1>2 DEF LinksHeld, LinksBase, LinksTyped, LinkFields, SameLinks
<1>4. q.lost \in 0 .. MaxLost
  BY <1>2, <1>3, ActsLeft DEF LinksHeld, LinksBase, LinksTyped
<1>5. LinksTyped(q)
  BY <1>3, <1>4 DEF LinksHeld, LinksBase, LinksTyped
<1>6. FocusTyped(q) /\ StatusesHeld(q) /\ Snapshot(q, j)
  BY <1>3 DEF LinksHeld, LinksBase, LinksTyped, FocusTyped, StatusesHeld, Snapshot
<1>7. Links!Watched(page) = Links!Watched(q)
  BY <1>3 DEF Links!Watched, Links!Rows
<1>8. EntriesWhole(q, j) /\ AskedWhole(q)
  BY <1>3, <1>7, EntriesSame DEF LinksHeld
<1>9. LookupHeld(q) /\ (q.focus = None \/ q.hover = None)
  BY <1>3 DEF LinksHeld, LookupHeld
<1> QED
  BY <1>1, <1>5, <1>6, <1>8, <1>9 DEF LinksBase, LinksHeld

-----------------------------------------------------------------------------
LEMMA LinksPageInit ==
  ASSUME Links!Init
  PROVE  LinksPage(page)
<1>1. PICK links, now, s, rows, p :
         /\ links \in LinkSets /\ now \in [Linked -> LinkStatus] /\ s \in Links!Sprints
         /\ rows \in OnBoard[s]
         /\ p = [links |-> links, jira |-> now, sprint |-> s, loading |-> FALSE,
                 view |-> "eng", board |-> [k \in rows |-> now[k]], rollup |-> <<>>,
                 found |-> Linked, deps |-> <<>>, asked |-> {}, current |-> FALSE,
                 focus |-> None, hover |-> None, lookups |-> <<>>, lookup |-> None,
                 note |-> FALSE, foreign |-> {}, patched |-> {},
                 acts |-> MaxLinkActs, lost |-> MaxLost]
         /\ page = Links!AskLinks(p)
  BY DEF Links!Init, LinkStatus
<1>2. rows \subseteq Linked /\ MaxLinkActs \in 0 .. MaxLinkActs /\ MaxLost \in 0 .. MaxLost
  BY <1>1, LinksConstants DEF Links!LinksAssumption
<1>3. /\ DOMAIN p = LinkFields /\ p.links = links /\ p.jira = now /\ p.sprint = s
      /\ p.loading = FALSE /\ p.view = "eng" /\ p.board = [k \in rows |-> now[k]]
      /\ p.rollup = <<>> /\ p.found = Linked /\ p.deps = <<>> /\ p.asked = {}
      /\ p.current = FALSE /\ p.focus = None /\ p.hover = None /\ p.lookups = <<>>
      /\ p.lookup = None /\ p.foreign = {} /\ p.patched = {} /\ p.acts = MaxLinkActs
      /\ p.lost = MaxLost
  BY <1>1 DEF LinkFields
<1>4. /\ DOMAIN p.board = rows /\ DOMAIN p.rollup = {} /\ DOMAIN p.deps = {}
      /\ DOMAIN p.lookups = {}
  BY <1>3
<1>5. LinksTyped(p)
  BY <1>1, <1>2, <1>3, <1>4 DEF LinksTyped, Links!Views
<1>6. FocusTyped(p) /\ StatusesHeld(p) /\ Snapshot(p, now)
  BY <1>1, <1>3, <1>4 DEF FocusTyped, StatusesHeld, Snapshot
<1>7. LinksBase(p, now) /\ ~Awaiting(p)
  BY <1>3, <1>5, <1>6 DEF LinksBase, Awaiting
<1>8. /\ LinksBase(page, now) /\ EntriesWhole(page, now) /\ AskedWhole(page)
      /\ page.focus = None /\ page.lookup = None
  BY <1>1, <1>3, <1>7, AskLinksWorks
<1>9. LinksHeld(page, now)
  BY <1>8 DEF LinksHeld, LookupHeld
<1> QED
  BY <1>9 DEF LinksPage

LEMMA LinksPageStep ==
  ASSUME LinksPage(page), Links!Next
  PROVE  LinksPage(page')
<1>1. PICK j : LinksHeld(page, j)
  BY DEF LinksPage
<1>2. \E i : LinksHeld(page', i)
  <2>1. CASE \E s \in Links!Sprints : Links!SelectSprint(s)
    BY <1>1, <2>1, SelectSprintHeld
  <2>2. CASE Links!Refresh \/ Links!SwitchView
    BY <1>1, <2>2, RefreshHeld, SwitchViewHeld
  <2>3. CASE \E rows \in OnBoard[page.sprint] : Links!RowsArrive(rows)
    BY <1>1, <2>3, RowsArriveHeld
  <2>4. CASE \E found \in SUBSET Linked : Links!Filter(found)
    BY <1>1, <2>4, FilterHeld
  <2>5. CASE \E k \in Linked : Links!JiraChanges(k) \/ Links!PatchRow(k)
    BY <1>1, <2>5, JiraChangesHeld, PatchRowHeld
  <2>6. CASE \E r \in page.asked :
                Links!LinksLost(r) \/ \E keys \in {{}, r.keys} : Links!LinksArrive(r, keys)
    BY <1>1, <2>6, LinksLostHeld, LinksArriveHeld
  <2>7. CASE \E k \in Linked, chip \in Links!Chips :
                \/ \E offscreen \in {{}, Linked \ {k}} : Links!ClickChip(k, chip, offscreen)
                \/ Links!HoverEnter(k, chip)
    BY <1>1, <2>7, ClickChipHeld, HoverEnterHeld
  <2>8. CASE Links!EndFocus \/ Links!HoverLeave
    BY <1>1, <2>8, EndFocusHeld, HoverLeaveHeld
  <2>9. CASE \E keys \in {{}, page.lookup} : Links!LookupArrives(keys)
    BY <1>1, <2>9, LookupArrivesHeld
  <2>10. CASE Links!LookupLost
    BY <1>1, <2>10, LookupLostHeld
  <2> QED
    BY <2>1, <2>2, <2>3, <2>4, <2>5, <2>6, <2>7, <2>8, <2>9, <2>10 DEF Links!Next
<1> QED
  BY <1>2 DEF LinksPage

\* Chips that say the same links, whole or not, mirror each other.
LEMMA MirroredAndComplete ==
  ASSUME NEW j, LinksHeld(page, j)
  PROVE  Links!LinksComplete /\ Links!LinksMirrored
<1>1. Links!LinksComplete
  <2>1. SUFFICES ASSUME page.current, ~Awaiting(page), NEW k \in DOMAIN Links!Rows(page)
                 PROVE
            /\ Links!FocusKeys(page, k, "blocks")
                 = {l.to : l \in {m \in page.links : m.category = "block" /\ m.from = k}}
            /\ Links!FocusKeys(page, k, "blocked-by")
                 = {l.from : l \in {m \in page.links : m.category = "block" /\ m.to = k}}
            /\ Links!FocusKeys(page, k, "depends-on")
                 = {l.to : l \in {m \in page.links : m.category = "dependency" /\ m.from = k}}
            /\ Links!FocusKeys(page, k, "dependents")
                 = {l.from : l \in {m \in page.links : m.category = "dependency" /\ m.to = k}}
    BY DEF Links!LinksComplete, Awaiting
  <2>2. Links!Entries(page, k) = Links!EntriesOf(page.links, j, k)
    BY <2>1 DEF LinksHeld, EntriesWhole
  <2>3. \A m :
           /\ m \in Links!FocusKeys(page, k, "blocks") <=>
                 \E l \in page.links : l.category = "block" /\ l.from = k /\ l.to = m
           /\ m \in Links!FocusKeys(page, k, "blocked-by") <=>
                 \E l \in page.links : l.category = "block" /\ l.to = k /\ l.from = m
           /\ m \in Links!FocusKeys(page, k, "depends-on") <=>
                 \E l \in page.links : l.category = "dependency" /\ l.from = k /\ l.to = m
           /\ m \in Links!FocusKeys(page, k, "dependents") <=>
                 \E l \in page.links : l.category = "dependency" /\ l.to = k /\ l.from = m
    BY <2>2, ChipsOfLinks
  <2>4. Links!FocusKeys(page, k, "blocks")
           = {l.to : l \in {m \in page.links : m.category = "block" /\ m.from = k}}
    BY <2>3
  <2>5. Links!FocusKeys(page, k, "blocked-by")
           = {l.from : l \in {m \in page.links : m.category = "block" /\ m.to = k}}
    BY <2>3
  <2>6. Links!FocusKeys(page, k, "depends-on")
           = {l.to : l \in {m \in page.links : m.category = "dependency" /\ m.from = k}}
    BY <2>3
  <2>7. Links!FocusKeys(page, k, "dependents")
           = {l.from : l \in {m \in page.links : m.category = "dependency" /\ m.to = k}}
    BY <2>3
  <2> QED
    BY <2>4, <2>5, <2>6, <2>7
<1>2. Links!LinksMirrored
  <2>1. SUFFICES ASSUME NEW k \in DOMAIN page.deps, NEW m \in DOMAIN page.deps
                 PROVE
            /\ m \in Links!FocusKeys(page, k, "blocked-by")
                 <=> k \in Links!FocusKeys(page, m, "blocks")
            /\ m \in Links!FocusKeys(page, k, "depends-on")
                 <=> k \in Links!FocusKeys(page, m, "dependents")
    BY DEF Links!LinksMirrored
  <2>2. /\ Links!Entries(page, k) = Links!EntriesOf(page.links, j, k)
        /\ Links!Entries(page, m) = Links!EntriesOf(page.links, j, m)
    BY DEF Links!Entries, LinksHeld, LinksBase, Snapshot
  <2>3. /\ m \in Links!FocusKeys(page, k, "blocked-by") <=>
             \E l \in page.links : l.category = "block" /\ l.to = k /\ l.from = m
        /\ m \in Links!FocusKeys(page, k, "depends-on") <=>
             \E l \in page.links : l.category = "dependency" /\ l.from = k /\ l.to = m
    BY <2>2, ChipsOfLinks
  <2>4. /\ k \in Links!FocusKeys(page, m, "blocks") <=>
             \E l \in page.links : l.category = "block" /\ l.from = m /\ l.to = k
        /\ k \in Links!FocusKeys(page, m, "dependents") <=>
             \E l \in page.links : l.category = "dependency" /\ l.to = m /\ l.from = k
    BY <2>2, ChipsOfLinks
  <2> QED
    BY <2>3, <2>4
<1> QED
  BY <1>1, <1>2

\* Wherever a blocker's status is taken from, it is that of Jira.
LEMMA UnblockedHeld ==
  ASSUME NEW j, LinksHeld(page, j)
  PROVE  Links!UnblockedIsTrue
<1>1. SUFFICES ASSUME NEW k \in Links!Visible(page), NEW blockers,
                      blockers = Links!FocusKeys(page, k, "blocked-by"),
                      page.view = "eng", blockers \intersect page.foreign = {},
                      blockers \intersect page.patched \subseteq DOMAIN page.board,
                      blockers # {}
               PROVE  Links!Unblocked(page, k) <=> \A b \in blockers : page.jira[b] = "done"
  BY DEF Links!UnblockedIsTrue
<1>2. \A d \in Links!Entries(page, k) : d.key \in Linked /\ d.status = j[d.key]
  <2>1. CASE k \notin DOMAIN page.deps
    BY <2>1 DEF Links!Entries
  <2>2. CASE k \in DOMAIN page.deps
    <3>1. Links!Entries(page, k) = Links!EntriesOf(page.links, j, k)
      BY <2>2 DEF Links!Entries, LinksHeld, LinksBase, Snapshot
    <3>2. \A d \in Links!EntriesOf(page.links, j, k) :
             d.status = j[d.key] /\ \E l \in page.links : d.key \in {l.from, l.to}
      BY EntryOfLink
    <3> QED
      BY <3>1, <3>2, LinkTyped DEF LinksHeld, LinksBase, LinksTyped
  <2> QED
    BY <2>1, <2>2
<1>3. \A d : Links!Behind(d, k, "blocked-by") <=> d.category = "block" /\ d.dependent = k
  BY DEF Links!Behind
<1>4. \A b : b \in blockers <=>
         \E d \in Links!Entries(page, k) : d.category = "block" /\ d.dependent = k /\ d.key = b
  BY <1>1, <1>3 DEF Links!FocusKeys
<1>5. \A d \in Links!Entries(page, k) :
         d.key \in blockers => Links!StatusOf(page, d) = page.jira[d.key]
  <2>1. SUFFICES ASSUME NEW d \in Links!Entries(page, k), d.key \in blockers
                 PROVE  Links!StatusOf(page, d) = page.jira[d.key]
    OBVIOUS
  <2>2. Links!Rows(page) = page.board /\ d.key \notin page.foreign /\ d.key \in Linked
    BY <1>1, <1>2, <2>1 DEF Links!Rows
  <2>3. CASE d.key \in DOMAIN page.board
    <3>1. Links!StatusOf(page, d) = page.board[d.key]
      BY <2>2, <2>3 DEF Links!StatusOf
    <3> QED
      BY <2>2, <2>3, <3>1 DEF LinksHeld, LinksBase, StatusesHeld
  <2>4. CASE d.key \notin DOMAIN page.board /\ d.key \in DOMAIN page.lookups
    <3>1. Links!StatusOf(page, d) = page.lookups[d.key]
      BY <2>2, <2>4 DEF Links!StatusOf
    <3>2. d.key \notin page.patched
      BY <1>1, <2>1, <2>4
    <3> QED
      BY <2>2, <2>4, <3>1, <3>2 DEF LinksHeld, LinksBase, StatusesHeld
  <2>5. CASE d.key \notin DOMAIN page.board /\ d.key \notin DOMAIN page.lookups
    <3>1. Links!StatusOf(page, d) = d.status
      BY <2>2, <2>5 DEF Links!StatusOf
    <3>2. d.key \notin page.patched
      BY <1>1, <2>1, <2>5
    <3> QED
      BY <1>2, <2>2, <3>1, <3>2 DEF LinksHeld, LinksBase, Snapshot
  <2> QED
    BY <2>3, <2>4, <2>5
<1>6. Links!Unblocked(page, k) <=>
         \A d \in Links!Entries(page, k) :
            d.category = "block" /\ d.dependent = k => Links!StatusOf(page, d) = "done"
  BY <1>1 DEF Links!Unblocked
<1> QED
  BY <1>4, <1>5, <1>6

LEMMA LinksPageSound ==
  ASSUME LinksPage(page)
  PROVE  Links!TypeOK /\ Links!DependenciesSound
<1>1. PICK j : LinksHeld(page, j)
  BY DEF LinksPage
<1>2. Links!TypeOK
  <2>1. DOMAIN Links!Rows(page) \subseteq Linked
    BY <1>1 DEF LinksHeld, LinksBase, LinksTyped, Links!Rows
  <2> QED
    BY <1>1, <2>1 DEF LinksHeld, LinksBase, LinksTyped, FocusTyped, LinkStatus, Links!TypeOK
<1>3. Links!FocusExplained
  BY DEF Links!FocusExplained, Links!Lines, Links!HiddenLines, Links!Dimmed, Links!Active,
         Links!Visible
<1>4. Links!LookupOfFocus /\ Links!OneFocus
  BY <1>1 DEF LinksHeld, LookupHeld, Links!LookupOfFocus, Links!OneFocus
<1> QED
  BY <1>1, <1>2, <1>3, <1>4, MirroredAndComplete, UnblockedHeld DEF Links!DependenciesSound

LinksInv == part = "dependencies" => LinksPage(page)

(* For any issues, links, lists of rows and numbers of late or lost answers: *)
(* chips are the links of Jira once the newest request is answered, two      *)
(* cards agree at any time, a blocker shown as done is done, and what a      *)
(* focus does not show on the board it lists.                                *)
THEOREM DependenciesAlwaysSound == PartsSpec => []DependenciesSound
<1>1. PartsInit => LinksInv
  BY LinksPageInit DEF PartsInit, LinksInv
<1>2. LinksInv /\ [PartsNext]_partVars => LinksInv'
  <2>1. SUFFICES ASSUME LinksInv, [PartsNext]_partVars, part' = "dependencies"
                 PROVE  LinksPage(page')
    BY DEF LinksInv
  <2>2. CASE MenusNext
    BY <2>1, <2>2 DEF MenusNext
  <2>3. CASE DependenciesNext
    BY <2>1, <2>3, LinksPageStep DEF DependenciesNext, LinksInv
  <2>4. CASE StatsNext
    BY <2>1, <2>4 DEF StatsNext
  <2>5. CASE AlertsNext
    BY <2>1, <2>5 DEF AlertsNext
  <2>6. CASE TimelineNext
    BY <2>1, <2>6 DEF TimelineNext
  <2>7. CASE BurndownNext
    BY <2>1, <2>7 DEF BurndownNext
  <2>8. CASE UNCHANGED partVars
    BY <2>1, <2>8 DEF partVars, LinksInv
  <2> QED
    BY <2>1, <2>2, <2>3, <2>4, <2>5, <2>6, <2>7, <2>8 DEF PartsNext
<1>3. LinksInv => DependenciesSound
  BY LinksPageSound DEF LinksInv, DependenciesSound
<1> QED
  BY <1>1, <1>2, <1>3, PTL DEF PartsSpec

-----------------------------------------------------------------------------
(* The statistics: the page and its invariant.                               *)

StatsFields ==
    {"view", "next", "mode", "gate", "scope", "sprint", "start", "end", "quarters", "config",
     "ident", "nonce", "force", "fetched", "tasks", "at", "job", "cache", "emptied", "since",
     "now", "turns", "fails"}

JobFields == {"live", "key", "force", "asking", "todo", "out", "got"}

ChoicesTyped(p) ==
    /\ p.view \in Stats!Views /\ p.next \in Stats!Views /\ p.mode \in {"epic", "team"}
    /\ p.scope \in Scopes /\ p.sprint \in Stats!Sprints \union {None}
    /\ p.start \in Stats!Sprints \union {None} /\ p.end \in Stats!Sprints \union {None}
    /\ p.gate \in BOOLEAN /\ p.fetched \in BOOLEAN /\ p.nonce \in Nat

AtTyped(at) == DOMAIN at = {"data", "error", "loading"} /\ at.loading \in BOOLEAN

JobTyped(job) == DOMAIN job = JobFields /\ job.asking \in BOOLEAN

PanelsTyped(p) ==
    /\ DOMAIN p.at = Stats!Panels /\ DOMAIN p.job = Stats!Panels
    /\ \A panel \in Stats!Panels : AtTyped(p.at[panel]) /\ JobTyped(p.job[panel])

StatsTyped(p) ==
    /\ DOMAIN p = StatsFields
    /\ ChoicesTyped(p) /\ PanelsTyped(p)
    /\ DOMAIN p.cache = Stats!Panels \union {"chunk"}
    /\ p.force \in BOOLEAN /\ p.emptied \subseteq Stats!Panels \ {"phase"}
    /\ p.now \in 1..MaxNow /\ p.since \in 0..p.now

\* Chunks are of Jira at some moment, and no older than the last refresh.
NotBefore(got, since) == \A s \in DOMAIN got : got[s] \in Int => got[s] >= since

\* What is kept is of the range it is kept for, and not lost altogether.
CachesHeld(p) ==
    /\ \A k \in DOMAIN p.cache["chunk"] : p.cache["chunk"][k] \in Nat
    /\ \A k \in DOMAIN p.cache["capacity"] :
          LET got == p.cache["capacity"][k]
          IN DOMAIN got = k[1] /\ NotBefore(got, 0) /\ \E s \in DOMAIN got : got[s] # Lost

\* A request is one that the effect would make again; what is shown at rest is
\* what it asked for.
RequestHeld(p, panel) ==
    /\ p.job[panel].live =>
          /\ Stats!Open(p, panel) /\ Stats!Refused(p, panel) = "none"
          /\ p.job[panel].key = Stats!Key(p, panel) /\ (panel = "burnout" => p.fetched)
    /\ Stats!Open(p, panel) /\ p.at[panel].loading
          => p.job[panel].live \/ (panel = "burnout" /\ ~p.fetched)
    /\ Stats!Settled(p, panel) =>
          IF p.at[panel].data.known
          THEN p.at[panel].data.key = Stats!Key(p, panel)
          ELSE Stats!Refused(p, panel) # "none" \/ panel \in p.emptied

\* The chunks of a request: each of the range is to be asked for, asked for or
\* there, and after a refresh none of them is an old one.
ChunksHeld(p, job) ==
    /\ JobTyped(job) /\ job.live /\ job.key = Stats!Key(p, "capacity")
    /\ IsFiniteSet(job.out) /\ Cardinality(job.out) <= StatsWorkers
    /\ job.todo \subseteq Stats!Sprints
    /\ job.todo \intersect (job.out \union DOMAIN job.got) = {}
    /\ job.out \intersect DOMAIN job.got = {}
    /\ job.out \union job.todo \union DOMAIN job.got = job.key[1]
    /\ job.force \/ p.since = 0
    /\ NotBefore(job.got, p.since)

WholeHeld(p) ==
    Stats!Settled(p, "capacity") /\ p.at["capacity"].data.known =>
        LET got == p.at["capacity"].data.got
        IN /\ DOMAIN got = Stats!RangeOf(p) /\ NotBefore(got, p.since)
           /\ \E s \in DOMAIN got : got[s] # Lost

CapacityHeld(p) ==
    /\ p.job["capacity"].live => ChunksHeld(p, p.job["capacity"])
    /\ WholeHeld(p)

StatsPage(p) ==
    /\ StatsTyped(p) /\ CachesHeld(p)
    /\ \A panel \in Stats!Panels : RequestHeld(p, panel)
    /\ CapacityHeld(p)

-----------------------------------------------------------------------------
(* What an effect depends on.                                                *)

SameChoices(b, r) ==
    /\ r.view = b.view /\ r.mode = b.mode /\ r.gate = b.gate /\ r.scope = b.scope
    /\ r.sprint = b.sprint /\ r.start = b.start /\ r.end = b.end /\ r.quarters = b.quarters
    /\ r.config = b.config /\ r.ident = b.ident /\ r.nonce = b.nonce /\ r.fetched = b.fetched
    /\ r.tasks = b.tasks

SameRequest(b, r, panel) ==
    /\ r.at[panel] = b.at[panel] /\ r.job[panel] = b.job[panel]
    /\ panel \in r.emptied <=> panel \in b.emptied

LEMMA DepsOfChoices ==
  ASSUME NEW b, NEW r, SameChoices(b, r), NEW panel \in Stats!Panels,
         panel = "phase" => Stats!PhaseKeys(b) = Stats!PhaseKeys(r)
  PROVE  Stats!Deps(b, panel) = Stats!Deps(r, panel)
<1>1. Stats!RangeOf(b) = Stats!RangeOf(r)
  BY DEF Stats!RangeOf, SameChoices
<1>2. Stats!Key(b, panel) = Stats!Key(r, panel)
  BY <1>1 DEF Stats!Key, SameChoices, Stats!Panels
<1> QED
  BY <1>2 DEF Stats!Deps, SameChoices, Stats!Panels

LEMMA PhaseKeysSame ==
  ASSUME NEW b, NEW r, SameChoices(b, r), r.at["capacity"].data = b.at["capacity"].data
  PROVE  Stats!PhaseKeys(b) = Stats!PhaseKeys(r)
<1>1. Stats!RangeOf(b) = Stats!RangeOf(r)
  BY DEF Stats!RangeOf, SameChoices
<1> QED
  BY <1>1 DEF Stats!PhaseKeys, SameChoices

\* The dependencies of an effect say all that it decides by.
LEMMA DepsDecide ==
  ASSUME NEW b, NEW r, NEW panel \in Stats!Panels, Stats!Deps(b, panel) = Stats!Deps(r, panel)
  PROVE  /\ Stats!Open(b, panel) <=> Stats!Open(r, panel)
         /\ Stats!Refused(b, panel) = Stats!Refused(r, panel)
         /\ Stats!Key(b, panel) = Stats!Key(r, panel)
         /\ panel = "burnout" => r.fetched = b.fetched
         /\ panel = "capacity" => Stats!RangeOf(b) = Stats!RangeOf(r)
<1>1. CASE panel = "burnout"
  <2>1. <<b.view, b.sprint, b.fetched, <<b.sprint, b.scope, b.tasks>>, b.gate>>
           = <<r.view, r.sprint, r.fetched, <<r.sprint, r.scope, r.tasks>>, r.gate>>
    BY <1>1 DEF Stats!Deps, Stats!Key
  <2>2. r.view = b.view /\ r.sprint = b.sprint /\ r.fetched = b.fetched /\ r.gate = b.gate
        /\ r.scope = b.scope /\ r.tasks = b.tasks
    BY <2>1
  <2> QED
    BY <1>1, <2>2 DEF Stats!Open, Stats!Refused, Stats!Key
<1>2. CASE panel = "cohort"
  <2>1. r.view = b.view /\ r.gate = b.gate /\ Stats!Key(b, panel) = Stats!Key(r, panel)
    BY <1>2 DEF Stats!Deps
  <2> QED
    BY <1>2, <2>1 DEF Stats!Open, Stats!Refused
<1>3. CASE panel = "capacity"
  <2>1. r.view = b.view /\ r.gate = b.gate /\ r.config = b.config /\ Stats!Key(b, panel) = Stats!Key(r, panel)
    BY <1>3 DEF Stats!Deps
  <2>2. Stats!RangeOf(b) = Stats!RangeOf(r)
    BY <1>3, <2>1 DEF Stats!Key
  <2> QED
    BY <1>3, <2>1, <2>2 DEF Stats!Open, Stats!Refused
<1>4. CASE panel = "phase"
  <2>1. r.view = b.view /\ r.mode = b.mode /\ Stats!PhaseKeys(b) = Stats!PhaseKeys(r)
    BY <1>4 DEF Stats!Deps, Stats!Key
  <2> QED
    BY <1>4, <2>1 DEF Stats!Open, Stats!Refused, Stats!Key
<1> QED
  BY <1>1, <1>2, <1>3, <1>4 DEF Stats!Panels

LEMMA RequestKept ==
  ASSUME NEW b, NEW r, NEW panel \in Stats!Panels, Stats!Deps(b, panel) = Stats!Deps(r, panel),
         SameRequest(b, r, panel), RequestHeld(b, panel)
  PROVE  RequestHeld(r, panel)
BY DepsDecide DEF RequestHeld, SameRequest, Stats!Settled

LEMMA CapacityKept ==
  ASSUME NEW b, NEW r, Stats!Deps(b, "capacity") = Stats!Deps(r, "capacity"),
         SameRequest(b, r, "capacity"), r.since = b.since, CapacityHeld(b)
  PROVE  CapacityHeld(r)
<1>1. /\ Stats!Open(b, "capacity") <=> Stats!Open(r, "capacity")
      /\ Stats!Key(b, "capacity") = Stats!Key(r, "capacity") /\ Stats!RangeOf(b) = Stats!RangeOf(r)
  BY DepsDecide DEF Stats!Panels
<1>2. Stats!Settled(b, "capacity") <=> Stats!Settled(r, "capacity")
  BY <1>1 DEF Stats!Settled, SameRequest
<1> QED
  BY <1>1, <1>2 DEF CapacityHeld, ChunksHeld, WholeHeld, SameRequest

-----------------------------------------------------------------------------
(* One effect.                                                               *)

\* What an effect of a panel leaves alone.
SameBeside(b, r, panel) ==
    /\ SameChoices(b, r)
    /\ \A x \in Stats!Panels \ {panel} : SameRequest(b, r, x)
    /\ r.cache = b.cache /\ (panel # "capacity" => r.since = b.since)

LEMMA ShowFields ==
  ASSUME NEW p, StatsTyped(p), NEW panel \in Stats!Panels, NEW data, NEW error,
         NEW r, r = Stats!Show(p, panel, data, error)
  PROVE  /\ StatsTyped(r) /\ SameBeside(p, r, panel) /\ r.since = p.since
         /\ r.job = p.job /\ r.emptied = p.emptied /\ r.force = p.force
         /\ r.at[panel].data = data /\ r.at[panel].error = error /\ ~r.at[panel].loading
<1>1. PICK at : at = [p.at EXCEPT ![panel] = [data |-> data, error |-> error, loading |-> FALSE]]
  OBVIOUS
<1>2. r = [p EXCEPT !.at = at]
  BY <1>1 DEF Stats!Show
<1>3. /\ DOMAIN at = Stats!Panels /\ at[panel] = [data |-> data, error |-> error, loading |-> FALSE]
      /\ \A x \in Stats!Panels \ {panel} : at[x] = p.at[x]
  BY <1>1 DEF StatsTyped, PanelsTyped
<1>4. /\ DOMAIN r = StatsFields /\ r.at = at /\ r.view = p.view /\ r.next = p.next
      /\ r.mode = p.mode /\ r.gate = p.gate /\ r.scope = p.scope /\ r.sprint = p.sprint
      /\ r.start = p.start /\ r.end = p.end /\ r.quarters = p.quarters /\ r.config = p.config
      /\ r.ident = p.ident /\ r.nonce = p.nonce /\ r.force = p.force /\ r.fetched = p.fetched
      /\ r.tasks = p.tasks /\ r.job = p.job /\ r.cache = p.cache /\ r.emptied = p.emptied
      /\ r.since = p.since /\ r.now = p.now
  BY <1>2 DEF StatsTyped, StatsFields
<1>5. SameChoices(p, r)
  BY <1>4 DEF SameChoices
<1>6. SameBeside(p, r, panel)
  BY <1>3, <1>4, <1>5 DEF SameBeside, SameRequest
<1>7. StatsTyped(r)
  <2>1. ChoicesTyped(r)
    BY <1>4 DEF StatsTyped, ChoicesTyped
  <2>2. AtTyped(at[panel])
    BY <1>3 DEF AtTyped
  <2>3. PanelsTyped(r)
    BY <1>3, <1>4, <2>2 DEF StatsTyped, PanelsTyped
  <2> QED
    BY <1>4, <2>1, <2>3 DEF StatsTyped
<1> QED
  BY <1>3, <1>4, <1>6, <1>7

LEMMA CancelledFields ==
  ASSUME NEW p, StatsTyped(p), NEW panel \in Stats!Panels,
         NEW r \in {[p EXCEPT !.job[panel] = Stats!NoJob], Stats!Cancelled(p, panel)}
  PROVE  /\ StatsTyped(r) /\ SameBeside(p, r, panel) /\ r.since = p.since
         /\ r.at = p.at /\ r.job[panel] = Stats!NoJob /\ r.force = p.force
<1>1. PICK job : job = [p.job EXCEPT ![panel] = Stats!NoJob]
  OBVIOUS
<1>2. PICK emptied : emptied = r.emptied
  OBVIOUS
<1>3. /\ DOMAIN r = StatsFields /\ r.at = p.at /\ r.view = p.view /\ r.next = p.next
      /\ r.mode = p.mode /\ r.gate = p.gate /\ r.scope = p.scope /\ r.sprint = p.sprint
      /\ r.start = p.start /\ r.end = p.end /\ r.quarters = p.quarters /\ r.config = p.config
      /\ r.ident = p.ident /\ r.nonce = p.nonce /\ r.force = p.force /\ r.fetched = p.fetched
      /\ r.tasks = p.tasks /\ r.job = job /\ r.cache = p.cache /\ r.emptied = emptied
      /\ r.since = p.since /\ r.now = p.now
      /\ emptied \in {p.emptied, p.emptied \ {panel}}
  <2>1. CASE r = [p EXCEPT !.job[panel] = Stats!NoJob]
    <3>1. r = [p EXCEPT !.job = job]
      BY <1>1, <2>1
    <3> QED
      BY <1>2, <2>1, <3>1 DEF StatsTyped, StatsFields
  <2>2. CASE r = Stats!Cancelled(p, panel)
    <3>1. r = [p EXCEPT !.job = job, !.emptied = p.emptied \ {panel}]
      BY <1>1, <2>2 DEF Stats!Cancelled
    <3> QED
      BY <1>2, <2>2, <3>1 DEF StatsTyped, StatsFields
  <2> QED
    BY <2>1, <2>2
<1>4. /\ DOMAIN job = Stats!Panels /\ job[panel] = Stats!NoJob /\ \A x \in Stats!Panels \ {panel} : job[x] = p.job[x]
  BY <1>1 DEF StatsTyped, PanelsTyped
<1>5. SameBeside(p, r, panel)
  BY <1>3, <1>4 DEF SameBeside, SameRequest, SameChoices
<1>6. StatsTyped(r)
  <2>1. ChoicesTyped(r)
    BY <1>3 DEF StatsTyped, ChoicesTyped
  <2>2. PanelsTyped(r)
    <3>1. JobTyped(Stats!NoJob)
      BY DEF Stats!NoJob, JobFields, JobTyped
    <3> QED
      BY <1>3, <1>4, <3>1 DEF StatsTyped, PanelsTyped
  <2>3. emptied \subseteq Stats!Panels \ {"phase"}
    BY <1>3 DEF StatsTyped
  <2> QED
    BY <1>3, <2>1, <2>2, <2>3 DEF StatsTyped
<1> QED
  BY <1>3, <1>4, <1>5, <1>6

LEMMA BesideTwice ==
  ASSUME NEW b, NEW c, NEW r, NEW panel, SameBeside(b, c, panel), SameBeside(c, r, panel)
  PROVE  SameBeside(b, r, panel)
BY DEF SameBeside, SameRequest, SameChoices

LEMMA ChoicesDecide ==
  ASSUME NEW b, NEW r, SameChoices(b, r), NEW panel \in Stats!Panels,
         panel = "phase" => Stats!PhaseKeys(b) = Stats!PhaseKeys(r)
  PROVE  /\ Stats!Open(b, panel) <=> Stats!Open(r, panel)
         /\ Stats!Refused(b, panel) = Stats!Refused(r, panel)
         /\ Stats!Key(b, panel) = Stats!Key(r, panel)
         /\ Stats!RangeOf(b) = Stats!RangeOf(r)
<1>1. Stats!Deps(b, panel) = Stats!Deps(r, panel)
  BY DepsOfChoices
<1>2. Stats!RangeOf(b) = Stats!RangeOf(r)
  BY DEF Stats!RangeOf, SameChoices
<1> QED
  BY <1>1, <1>2, DepsDecide

LEMMA PhaseKeysBeside ==
  ASSUME NEW b, NEW r, NEW panel \in Stats!Panels, SameBeside(b, r, panel),
         panel = "capacity" => r.at["capacity"].data = b.at["capacity"].data
  PROVE  Stats!PhaseKeys(b) = Stats!PhaseKeys(r)
<1>1. SameChoices(b, r) /\ r.at["capacity"].data = b.at["capacity"].data
  BY DEF SameBeside, SameRequest, Stats!Panels
<1> QED
  BY <1>1, PhaseKeysSame

LEMMA KeysOfPanels ==
  ASSUME NEW p
  PROVE  /\ Stats!Key(p, "capacity") = <<Stats!RangeOf(p), p.scope>> /\ Stats!Key(p, "capacity")[1] = Stats!RangeOf(p)
         /\ Stats!RangeOf(p) \subseteq Stats!Sprints
BY DEF Stats!Key, Stats!RangeOf

\* The effect asks, or takes what is kept.
LEMMA AsksHeld ==
  ASSUME NEW q, StatsTyped(q), CachesHeld(q), NEW panel \in Stats!Panels,
         Stats!Open(q, panel), Stats!Refused(q, panel) = "none", panel = "burnout" => q.fetched,
         q.job[panel] = Stats!NoJob, NEW e, e = Stats!Asks(q, panel)
  PROVE  /\ StatsTyped(e) /\ SameBeside(q, e, panel) /\ RequestHeld(e, panel)
         /\ panel = "capacity" => CapacityHeld(e)
<1>1. PICK forced \in BOOLEAN : forced <=> (panel = "capacity" /\ q.force)
  OBVIOUS
<1>2. PICK force \in BOOLEAN : force <=> (q.force /\ panel # "capacity")
  OBVIOUS
<1>3. PICK since : since = IF panel = "capacity" /\ ~forced THEN 0 ELSE q.since
  OBVIOUS
<1>4. PICK stale : stale = [q EXCEPT !.force = force, !.since = since]
  OBVIOUS
<1>5. e = IF Stats!IsKept(q, panel) /\ ~forced
          THEN Stats!Show(stale, panel, Stats!Kept(q, panel), "none")
          ELSE [stale EXCEPT !.job[panel] =
                   Stats!NewJob(Stats!Key(q, panel), forced, IF panel = "capacity" THEN Stats!RangeOf(q) ELSE {})]
  <2>1. [q EXCEPT !.force = @ /\ panel # "capacity"] = [q EXCEPT !.force = force]
    BY <1>2 DEF StatsTyped, StatsFields
  <2>2. (panel = "capacity" /\ q.force) = forced
    BY <1>1
  <2>3. stale = IF panel = "capacity" /\ ~forced
                THEN [[q EXCEPT !.force = force] EXCEPT !.since = 0] ELSE [q EXCEPT !.force = force]
    BY <1>3, <1>4 DEF StatsTyped, StatsFields
  <2> QED
    BY <1>1, <2>1, <2>2, <2>3 DEF Stats!Asks
<1>6. /\ DOMAIN stale = StatsFields /\ stale.at = q.at /\ stale.view = q.view /\ stale.next = q.next
      /\ stale.mode = q.mode /\ stale.gate = q.gate /\ stale.scope = q.scope
      /\ stale.sprint = q.sprint /\ stale.start = q.start /\ stale.end = q.end
      /\ stale.quarters = q.quarters /\ stale.config = q.config /\ stale.ident = q.ident
      /\ stale.nonce = q.nonce /\ stale.fetched = q.fetched /\ stale.tasks = q.tasks
      /\ stale.job = q.job /\ stale.cache = q.cache /\ stale.emptied = q.emptied
      /\ stale.now = q.now /\ stale.force = force /\ stale.since = since
  BY <1>4 DEF StatsTyped, StatsFields
<1>7. SameBeside(q, stale, panel)
  BY <1>3, <1>6 DEF SameBeside, SameChoices, SameRequest
<1>8. StatsTyped(stale)
  <2>1. since \in 0..q.now
    BY <1>3 DEF StatsTyped
  <2>2. ChoicesTyped(stale) /\ PanelsTyped(stale)
    BY <1>6 DEF StatsTyped, ChoicesTyped, PanelsTyped
  <2> QED
    BY <1>6, <2>1, <2>2 DEF StatsTyped
<1>9. Stats!PhaseKeys(q) = Stats!PhaseKeys(stale)
  BY <1>6, <1>7, PhaseKeysBeside
<1>10. CASE Stats!IsKept(q, panel) /\ ~forced
  <2>1. e = Stats!Show(stale, panel, Stats!Kept(q, panel), "none")
    BY <1>5, <1>10
  <2>2. /\ StatsTyped(e) /\ SameBeside(stale, e, panel) /\ e.since = since
        /\ e.job = q.job /\ e.at[panel].data = Stats!Kept(q, panel) /\ e.at[panel].error = "none"
        /\ ~e.at[panel].loading
    <3>1. /\ StatsTyped(e) /\ SameBeside(stale, e, panel) /\ e.since = stale.since
          /\ e.job = stale.job /\ e.at[panel].data = Stats!Kept(q, panel)
          /\ e.at[panel].error = "none" /\ ~e.at[panel].loading
      <4>1. PICK kept : kept = Stats!Kept(q, panel)
        OBVIOUS
      <4>2. PICK error : error = "none"
        OBVIOUS
      <4>3. e = Stats!Show(stale, panel, kept, error)
        BY <2>1, <4>1, <4>2
      <4>4. /\ StatsTyped(e) /\ SameBeside(stale, e, panel) /\ e.since = stale.since
            /\ e.job = stale.job /\ e.at[panel].data = kept
            /\ e.at[panel].error = error /\ ~e.at[panel].loading
        BY <1>8, <4>3, ShowFields
      <4> QED
        BY <4>1, <4>2, <4>4
    <3> QED
      BY <1>6, <3>1
  <2>3. SameBeside(q, e, panel)
    BY <1>7, <2>2, BesideTwice
  <2>4. Stats!Kept(q, panel).known = TRUE /\ Stats!Kept(q, panel).key = Stats!Key(q, panel)
        /\ Stats!Kept(q, panel).got = q.cache[panel][Stats!Key(q, panel)]
    BY DEF Stats!Kept, Stats!Data
  <2>5. panel # "capacity" => Stats!PhaseKeys(q) = Stats!PhaseKeys(e)
    BY <2>3, PhaseKeysBeside
  <2>6. Stats!Key(e, panel) = Stats!Key(q, panel) /\ Stats!RangeOf(e) = Stats!RangeOf(q)
    BY <2>3, <2>5, ChoicesDecide DEF SameBeside
  <2>7. e.job[panel].live = FALSE
    BY <2>2 DEF Stats!NoJob
  <2>8. RequestHeld(e, panel)
    BY <2>2, <2>4, <2>6, <2>7 DEF RequestHeld
  <2>9. ASSUME panel = "capacity" PROVE CapacityHeld(e)
    <3>1. since = 0 /\ e.since = 0
      BY <1>3, <1>10, <2>2, <2>9
    <3>2. PICK k : k = Stats!Key(q, "capacity")
      OBVIOUS
    <3>3. k \in DOMAIN q.cache["capacity"] /\ k[1] = Stats!RangeOf(q)
      BY <1>10, <2>9, <3>2, KeysOfPanels DEF Stats!IsKept
    <3>4. PICK got : got = q.cache["capacity"][k]
      OBVIOUS
    <3>5. DOMAIN got = k[1] /\ NotBefore(got, 0) /\ \E s \in DOMAIN got : got[s] # Lost
      BY <3>3, <3>4 DEF CachesHeld
    <3>6. e.at["capacity"].data.got = got
      BY <2>2, <2>4, <2>9, <3>2, <3>4
    <3> QED
      BY <2>6, <2>7, <2>9, <3>1, <3>3, <3>5, <3>6 DEF CapacityHeld, WholeHeld
  <2> QED
    BY <2>2, <2>3, <2>8, <2>9
<1>11. CASE ~(Stats!IsKept(q, panel) /\ ~forced)
  <2>1. PICK new : new = Stats!NewJob(Stats!Key(q, panel), forced, IF panel = "capacity" THEN Stats!RangeOf(q) ELSE {})
    OBVIOUS
  <2>2. PICK job : job = [q.job EXCEPT ![panel] = new]
    OBVIOUS
  <2>3. e = [stale EXCEPT !.job = job]
    BY <1>5, <1>6, <1>11, <2>1, <2>2
  <2>4. /\ DOMAIN e = StatsFields /\ e.at = q.at /\ e.view = q.view /\ e.next = q.next
        /\ e.mode = q.mode /\ e.gate = q.gate /\ e.scope = q.scope
        /\ e.sprint = q.sprint /\ e.start = q.start /\ e.end = q.end
        /\ e.quarters = q.quarters /\ e.config = q.config /\ e.ident = q.ident
        /\ e.nonce = q.nonce /\ e.fetched = q.fetched /\ e.tasks = q.tasks
        /\ e.job = job /\ e.cache = q.cache /\ e.emptied = q.emptied
        /\ e.now = q.now /\ e.force = force /\ e.since = since
    BY <1>6, <2>3 DEF StatsFields
  <2>5. /\ DOMAIN job = Stats!Panels /\ job[panel] = new
        /\ \A x \in Stats!Panels \ {panel} : job[x] = q.job[x]
    BY <2>2 DEF StatsTyped, PanelsTyped
  <2>6. /\ DOMAIN new = JobFields /\ new.live = TRUE /\ new.key = Stats!Key(q, panel)
        /\ new.force = forced /\ new.asking = FALSE /\ new.out = {} /\ new.got = <<>>
        /\ new.todo = IF panel = "capacity" THEN Stats!RangeOf(q) ELSE {}
    BY <2>1 DEF Stats!NewJob, JobFields
  <2>7. SameBeside(q, e, panel)
    BY <1>3, <2>4, <2>5 DEF SameBeside, SameChoices, SameRequest
  <2>8. StatsTyped(e)
    <3>1. since \in 0..q.now
      BY <1>3 DEF StatsTyped
    <3>2. ChoicesTyped(e)
      BY <2>4 DEF StatsTyped, ChoicesTyped
    <3>3. JobTyped(new)
      BY <2>6 DEF JobTyped
    <3>4. PanelsTyped(e)
      BY <2>4, <2>5, <3>3 DEF StatsTyped, PanelsTyped
    <3> QED
      BY <2>4, <3>1, <3>2, <3>4 DEF StatsTyped
  <2>9. Stats!PhaseKeys(q) = Stats!PhaseKeys(e)
    BY <2>4, <2>7, PhaseKeysBeside
  <2>10. /\ Stats!Open(e, panel) /\ Stats!Refused(e, panel) = "none" /\ Stats!Key(e, panel) = Stats!Key(q, panel)
         /\ Stats!RangeOf(e) = Stats!RangeOf(q)
    BY <2>7, <2>9, ChoicesDecide DEF SameBeside
  <2>11. RequestHeld(e, panel)
    BY <2>4, <2>5, <2>6, <2>10 DEF RequestHeld, Stats!Settled
  <2>12. ASSUME panel = "capacity" PROVE CapacityHeld(e)
    <3>1. IsFiniteSet(new.out) /\ Cardinality(new.out) = 0 /\ DOMAIN new.got = {}
      BY <2>6, FS_EmptySet
    <3>2. new.key = Stats!Key(e, "capacity") /\ new.key[1] = Stats!RangeOf(e) /\ Stats!RangeOf(e) \subseteq Stats!Sprints
      BY <2>6, <2>10, <2>12, KeysOfPanels
    <3>3. new.todo = Stats!RangeOf(e)
      BY <2>6, <2>10, <2>12
    <3>4. new.force \/ e.since = 0
      BY <1>3, <2>4, <2>6, <2>12
    <3>5. StatsWorkers \in Nat
      BY StatsConstants DEF Stats!StatsAssumption
    <3>6. ChunksHeld(e, new)
      <4>1. JobTyped(new) /\ new.live /\ new.key = Stats!Key(e, "capacity")
        BY <2>6, <3>2 DEF JobTyped
      <4>2. IsFiniteSet(new.out) /\ Cardinality(new.out) <= StatsWorkers /\ new.todo \subseteq Stats!Sprints
        BY <3>1, <3>2, <3>3, <3>5
      <4>3. /\ new.todo \intersect (new.out \union DOMAIN new.got) = {}
            /\ new.out \intersect DOMAIN new.got = {}
            /\ new.out \union new.todo \union DOMAIN new.got = new.key[1]
        BY <2>6, <3>1, <3>2, <3>3
      <4>4. NotBefore(new.got, e.since)
        BY <3>1 DEF NotBefore
      <4> QED
        BY <3>4, <4>1, <4>2, <4>3, <4>4 DEF ChunksHeld
    <3>7. e.job["capacity"] = new
      BY <2>4, <2>5, <2>12
    <3> QED
      BY <2>6, <3>6, <3>7 DEF CapacityHeld, WholeHeld, Stats!Settled
  <2> QED
    BY <2>7, <2>8, <2>11, <2>12
<1> QED
  BY <1>10, <1>11

LEMMA EffectHeld ==
  ASSUME NEW p, StatsTyped(p), CachesHeld(p), NEW panel \in Stats!Panels, NEW e, e = Stats!Effect(p, panel)
  PROVE  /\ StatsTyped(e) /\ SameBeside(p, e, panel) /\ RequestHeld(e, panel)
         /\ panel = "capacity" => CapacityHeld(e)
<1>1. PICK q \in {[p EXCEPT !.job[panel] = Stats!NoJob], Stats!Cancelled(p, panel)} :
         q = IF Stats!Open(p, panel) THEN Stats!Cancelled(p, panel) ELSE [p EXCEPT !.job[panel] = Stats!NoJob]
  OBVIOUS
<1>3. /\ StatsTyped(q) /\ SameBeside(p, q, panel) /\ q.since = p.since
      /\ q.at = p.at /\ q.job[panel] = Stats!NoJob /\ q.force = p.force
  BY <1>1, CancelledFields
<1>4. CachesHeld(q)
  BY <1>3 DEF CachesHeld, SameBeside
<1>5. Stats!PhaseKeys(p) = Stats!PhaseKeys(q)
  BY <1>3, PhaseKeysBeside
<1>6. /\ Stats!Open(p, panel) <=> Stats!Open(q, panel)
      /\ Stats!Refused(p, panel) = Stats!Refused(q, panel)
      /\ Stats!Key(p, panel) = Stats!Key(q, panel) /\ Stats!RangeOf(p) = Stats!RangeOf(q)
  BY <1>3, <1>5, ChoicesDecide DEF SameBeside
<1>7. q.fetched = p.fetched /\ ~q.job[panel].live
  BY <1>3 DEF SameBeside, SameChoices, Stats!NoJob
<1>8. CASE ~Stats!Open(p, panel)
  <2>1. e = q
    BY <1>1, <1>8 DEF Stats!Effect
  <2>2. RequestHeld(q, panel) /\ ~Stats!Settled(q, panel)
    BY <1>6, <1>7, <1>8 DEF RequestHeld, Stats!Settled
  <2>3. panel = "capacity" => CapacityHeld(q)
    BY <1>7, <2>2 DEF CapacityHeld, WholeHeld
  <2> QED
    BY <1>3, <2>1, <2>2, <2>3
<1>9. CASE Stats!Open(p, panel) /\ Stats!Refused(p, panel) # "none"
  <2>1. e = Stats!Show(q, panel, Stats!NoData, Stats!Spoken(p, panel))
    BY <1>1, <1>9 DEF Stats!Effect
  <2>2. PICK spoken : spoken = Stats!Spoken(p, panel)
    OBVIOUS
  <2>3. PICK none : none = Stats!NoData
    OBVIOUS
  <2>4. e = Stats!Show(q, panel, none, spoken)
    BY <2>1, <2>2, <2>3
  <2>5. /\ StatsTyped(e) /\ SameBeside(q, e, panel) /\ e.job = q.job /\ e.emptied = q.emptied
        /\ e.at[panel].data = none /\ e.at[panel].error = spoken /\ ~e.at[panel].loading
    BY <1>3, <2>4, ShowFields
  <2>6. panel # "capacity" => Stats!PhaseKeys(q) = Stats!PhaseKeys(e)
    BY <2>5, PhaseKeysBeside
  <2>7. Stats!Refused(e, panel) # "none"
    BY <1>6, <1>9, <2>5, <2>6, ChoicesDecide DEF SameBeside
  <2>8. ~none.known
    BY <2>3 DEF Stats!NoData
  <2>9. RequestHeld(e, panel)
    BY <1>7, <2>5, <2>7, <2>8 DEF RequestHeld
  <2>10. panel = "capacity" => CapacityHeld(e)
    BY <1>7, <2>5, <2>8 DEF CapacityHeld, WholeHeld
  <2> QED
    BY <1>3, <2>5, <2>9, <2>10, BesideTwice
<1>10. CASE Stats!Open(p, panel) /\ Stats!Refused(p, panel) = "none" /\ panel = "burnout" /\ ~p.fetched
  <2>1. e = [q EXCEPT !.at[panel].loading = TRUE, !.at[panel].error = "none"]
    BY <1>1, <1>10 DEF Stats!Effect
  <2>2. PICK at : at = [[q.at EXCEPT ![panel].loading = TRUE] EXCEPT ![panel].error = "none"]
    OBVIOUS
  <2>3. e = [q EXCEPT !.at = at]
    BY <1>3, <2>1, <2>2 DEF StatsTyped, StatsFields
  <2>4. /\ DOMAIN at = Stats!Panels /\ at[panel].loading /\ AtTyped(at[panel])
        /\ \A x \in Stats!Panels \ {panel} : at[x] = q.at[x]
    BY <1>3, <2>2 DEF StatsTyped, PanelsTyped, AtTyped
  <2>5. /\ DOMAIN e = StatsFields /\ e.at = at /\ e.view = q.view /\ e.next = q.next
        /\ e.mode = q.mode /\ e.gate = q.gate /\ e.scope = q.scope /\ e.sprint = q.sprint
        /\ e.start = q.start /\ e.end = q.end /\ e.quarters = q.quarters /\ e.config = q.config
        /\ e.ident = q.ident /\ e.nonce = q.nonce /\ e.force = q.force /\ e.fetched = q.fetched
        /\ e.tasks = q.tasks /\ e.job = q.job /\ e.cache = q.cache /\ e.emptied = q.emptied
        /\ e.since = q.since /\ e.now = q.now
    BY <1>3, <2>3 DEF StatsTyped, StatsFields
  <2>6. SameBeside(q, e, panel)
    BY <2>4, <2>5 DEF SameBeside, SameRequest, SameChoices
  <2>7. StatsTyped(e)
    <3>1. ChoicesTyped(e)
      BY <1>3, <2>5 DEF StatsTyped, ChoicesTyped
    <3>2. PanelsTyped(e)
      BY <1>3, <2>4, <2>5 DEF StatsTyped, PanelsTyped
    <3> QED
      BY <1>3, <2>5, <3>1, <3>2 DEF StatsTyped
  <2>8. RequestHeld(e, panel)
    BY <1>7, <1>10, <2>4, <2>5 DEF RequestHeld, Stats!Settled
  <2>9. panel # "capacity"
    BY <1>10
  <2> QED
    BY <1>3, <2>6, <2>7, <2>8, <2>9, BesideTwice
<1>11. CASE Stats!Open(p, panel) /\ Stats!Refused(p, panel) = "none" /\ ~(panel = "burnout" /\ ~p.fetched)
  <2>1. e = Stats!Asks(q, panel)
    BY <1>1, <1>11 DEF Stats!Effect
  <2>2. /\ StatsTyped(e) /\ SameBeside(q, e, panel) /\ RequestHeld(e, panel)
        /\ panel = "capacity" => CapacityHeld(e)
    BY <1>3, <1>4, <1>6, <1>7, <1>11, <2>1, AsksHeld
  <2> QED
    BY <1>3, <2>2, BesideTwice
<1> QED
  BY <1>8, <1>9, <1>10, <1>11

-----------------------------------------------------------------------------
(* All effects.                                                              *)

\* What is said of a panel holds once its effect has run, or has no need to.
Good(p, panel) == RequestHeld(p, panel) /\ (panel = "capacity" => CapacityHeld(p))

\* Steps of an effect that is due by the dependencies of b and c.
LEMMA RunHeld ==
  ASSUME NEW b, NEW c, NEW r, StatsTyped(r), CachesHeld(r), NEW panel \in Stats!Panels,
         Stats!Deps(b, panel) = Stats!Deps(c, panel) => Good(r, panel),
         NEW e, e = IF Stats!Due(b, c, panel) THEN Stats!Effect(r, panel) ELSE r
  PROVE  /\ StatsTyped(e) /\ CachesHeld(e) /\ SameBeside(r, e, panel) /\ Good(e, panel)
         /\ ~Stats!Due(b, c, panel) => e = r
<1>1. CASE Stats!Due(b, c, panel)
  <2>1. /\ StatsTyped(e) /\ SameBeside(r, e, panel) /\ Good(e, panel)
    BY <1>1, EffectHeld DEF Good
  <2> QED
    BY <1>1, <2>1 DEF CachesHeld, SameBeside
<1>2. CASE ~Stats!Due(b, c, panel)
  BY <1>2 DEF Stats!Due, SameBeside, SameRequest, SameChoices
<1> QED
  BY <1>1, <1>2

\* The effect of another panel leaves a panel as it was.
LEMMA GoodBeside ==
  ASSUME NEW b, NEW r, NEW panel \in Stats!Panels, SameBeside(b, r, panel),
         NEW x \in Stats!Panels \ {panel}, x = "phase" => Stats!PhaseKeys(b) = Stats!PhaseKeys(r), Good(b, x)
  PROVE  Good(r, x)
<1>1. Stats!Deps(b, x) = Stats!Deps(r, x) /\ SameRequest(b, r, x)
  BY DepsOfChoices DEF SameBeside
<1>2. RequestHeld(r, x)
  BY <1>1, RequestKept DEF Good
<1>3. x = "capacity" => CapacityHeld(r)
  BY <1>1, CapacityKept DEF Good, SameBeside
<1> QED
  BY <1>2, <1>3 DEF Good

\* Whatever an action makes of the page, its effects put right again.
LEMMA EffectsWork ==
  ASSUME NEW p, NEW q, StatsTyped(q), CachesHeld(q),
         \A x \in Stats!Panels : Stats!Deps(p, x) = Stats!Deps(q, x) => Good(q, x),
         NEW r, r = Stats!EffectsOf(p, q), NEW s, s = Stats!EffectsOf(q, r)
  PROVE  StatsPage(s)
<1>0. "phase" \in Stats!Panels /\ "burnout" \in Stats!Panels /\ "cohort" \in Stats!Panels /\ "capacity" \in Stats!Panels
  BY DEF Stats!Panels
<1>1. PICK a : a = IF Stats!Due(p, q, "phase") THEN Stats!Effect(q, "phase") ELSE q
  OBVIOUS
<1>2. PICK b : b = IF Stats!Due(p, q, "burnout") THEN Stats!Effect(a, "burnout") ELSE a
  OBVIOUS
<1>3. PICK c : c = IF Stats!Due(p, q, "cohort") THEN Stats!Effect(b, "cohort") ELSE b
  OBVIOUS
<1>4. r = IF Stats!Due(p, q, "capacity") THEN Stats!Effect(c, "capacity") ELSE c
  BY <1>1, <1>2, <1>3 DEF Stats!EffectsOf
<1>5. /\ StatsTyped(a) /\ CachesHeld(a) /\ SameBeside(q, a, "phase") /\ Good(a, "phase")
  BY <1>0, <1>1, RunHeld
<1>6. \A x \in {"burnout", "cohort", "capacity"} : Stats!Deps(p, x) = Stats!Deps(q, x) => Good(a, x)
  BY <1>0, <1>5, GoodBeside DEF Stats!Panels
<1>7. /\ StatsTyped(b) /\ CachesHeld(b) /\ SameBeside(a, b, "burnout") /\ Good(b, "burnout")
  BY <1>0, <1>2, <1>5, <1>6, RunHeld
<1>8. Stats!PhaseKeys(q) = Stats!PhaseKeys(a) /\ Stats!PhaseKeys(a) = Stats!PhaseKeys(b)
  BY <1>0, <1>5, <1>7, PhaseKeysBeside
<1>9. Good(b, "phase") /\ \A x \in {"cohort", "capacity"} : Stats!Deps(p, x) = Stats!Deps(q, x) => Good(b, x)
  BY <1>0, <1>5, <1>6, <1>7, <1>8, GoodBeside DEF Stats!Panels
<1>10. /\ StatsTyped(c) /\ CachesHeld(c) /\ SameBeside(b, c, "cohort") /\ Good(c, "cohort")
  BY <1>0, <1>3, <1>7, <1>9, RunHeld
<1>11. Stats!PhaseKeys(b) = Stats!PhaseKeys(c)
  BY <1>0, <1>10, PhaseKeysBeside
<1>12. /\ Good(c, "phase") /\ Good(c, "burnout")
       /\ Stats!Deps(p, "capacity") = Stats!Deps(q, "capacity") => Good(c, "capacity")
  BY <1>0, <1>7, <1>9, <1>10, <1>11, GoodBeside DEF Stats!Panels
<1>13. /\ StatsTyped(r) /\ CachesHeld(r) /\ SameBeside(c, r, "capacity") /\ Good(r, "capacity")
  BY <1>0, <1>4, <1>10, <1>12, RunHeld
<1>14. Good(r, "burnout") /\ Good(r, "cohort")
  BY <1>0, <1>10, <1>12, <1>13, GoodBeside DEF Stats!Panels
<1>15. Stats!PhaseKeys(c) = Stats!PhaseKeys(r) => Good(r, "phase")
  BY <1>0, <1>12, <1>13, GoodBeside DEF Stats!Panels
<1>16. SameChoices(q, r)
  BY <1>5, <1>7, <1>10, <1>13 DEF SameBeside, SameChoices
<1>17. \A x \in Stats!Panels \ {"phase"} : Stats!Deps(q, x) = Stats!Deps(r, x)
  BY <1>16, DepsOfChoices
<1>18. ~Stats!Due(q, r, "burnout") /\ ~Stats!Due(q, r, "cohort") /\ ~Stats!Due(q, r, "capacity")
  BY <1>0, <1>17 DEF Stats!Due
<1>19. s = IF Stats!Due(q, r, "phase") THEN Stats!Effect(r, "phase") ELSE r
  BY <1>18 DEF Stats!EffectsOf
<1>20. Stats!Deps(q, "phase") = Stats!Deps(r, "phase") => Good(r, "phase")
  <2>1. Stats!Deps(q, "phase") = Stats!Deps(r, "phase") => Stats!Key(q, "phase") = Stats!Key(r, "phase")
    BY <1>0, DepsDecide
  <2> QED
    BY <1>8, <1>11, <1>15, <2>1 DEF Stats!Key
<1>21. /\ StatsTyped(s) /\ CachesHeld(s) /\ SameBeside(r, s, "phase") /\ Good(s, "phase")
  BY <1>0, <1>13, <1>19, <1>20, RunHeld
<1>22. Good(s, "burnout") /\ Good(s, "cohort") /\ Good(s, "capacity")
  BY <1>0, <1>13, <1>14, <1>21, GoodBeside DEF Stats!Panels
<1> QED
  BY <1>21, <1>22 DEF StatsPage, Good, Stats!Panels

-----------------------------------------------------------------------------
(* Choices and configuration.                                                *)

LEMMA BecomeHeld ==
  ASSUME NEW q, StatsTyped(q), CachesHeld(q),
         \A x \in Stats!Panels : Stats!Deps(page, x) = Stats!Deps(q, x) => Good(q, x), Stats!Become(q)
  PROVE  StatsPage(page')
<1>1. PICK r : r = Stats!EffectsOf(page, q)
  OBVIOUS
<1>2. page' = Stats!EffectsOf(q, r)
  BY <1>1 DEF Stats!Become
<1> QED
  BY <1>1, <1>2, EffectsWork

SameRequests(b, r) ==
    r.at = b.at /\ r.job = b.job /\ r.emptied = b.emptied /\ r.since = b.since

\* A step that leaves panels and requests to the effects.
LEMMA LeftToEffects ==
  ASSUME StatsPage(page), NEW q, StatsTyped(q), CachesHeld(q), SameRequests(page, q), Stats!Become(q)
  PROVE  StatsPage(page')
<1>1. ASSUME NEW x \in Stats!Panels, Stats!Deps(page, x) = Stats!Deps(q, x)
      PROVE  Good(q, x)
  <2>1. SameRequest(page, q, x)
    BY DEF SameRequests, SameRequest
  <2>2. RequestHeld(q, x)
    BY <1>1, <2>1, RequestKept DEF StatsPage
  <2>3. x = "capacity" => CapacityHeld(q)
    BY <1>1, <2>1, CapacityKept DEF StatsPage, SameRequests
  <2> QED
    BY <2>2, <2>3 DEF Good
<1> QED
  BY <1>1, BecomeHeld

LEMMA TurnFields ==
  ASSUME NEW a, DOMAIN a = StatsFields, Stats!Turn(a)
  PROVE  \E q : /\ Stats!Become(q) /\ DOMAIN q = StatsFields
                /\ q.at = a.at /\ q.view = a.view /\ q.next = a.next /\ q.mode = a.mode
                /\ q.gate = a.gate /\ q.scope = a.scope /\ q.sprint = a.sprint
                /\ q.start = a.start /\ q.end = a.end /\ q.quarters = a.quarters
                /\ q.config = a.config /\ q.ident = a.ident /\ q.nonce = a.nonce
                /\ q.force = a.force /\ q.fetched = a.fetched /\ q.tasks = a.tasks
                /\ q.job = a.job /\ q.cache = a.cache /\ q.emptied = a.emptied
                /\ q.since = a.since /\ q.now = a.now
<1>1. PICK q : q = [a EXCEPT !.turns = @ + 1]
  OBVIOUS
<1>2. Stats!Become(q)
  BY <1>1 DEF Stats!Turn
<1> QED
  BY <1>1, <1>2 DEF StatsFields

\* A choice, whether or not it is counted.
LEMMA ChoiceHeld ==
  ASSUME StatsPage(page), NEW a, DOMAIN a = StatsFields, ChoicesTyped(a), SameRequests(page, a),
         a.now = page.now, a.force = page.force,
         DOMAIN a.cache = DOMAIN page.cache, CachesHeld(a), Stats!Turn(a) \/ Stats!Become(a)
  PROVE  StatsPage(page')
<1>1. StatsTyped(a)
  <2>1. PanelsTyped(a)
    BY DEF StatsPage, StatsTyped, PanelsTyped, SameRequests
  <2> QED
    BY <2>1 DEF StatsPage, StatsTyped, SameRequests
<1>2. CASE Stats!Become(a)
  BY <1>1, <1>2, LeftToEffects
<1>3. CASE Stats!Turn(a)
  <2>1. PICK q : /\ Stats!Become(q) /\ DOMAIN q = StatsFields
                 /\ q.at = a.at /\ q.view = a.view /\ q.next = a.next /\ q.mode = a.mode
                 /\ q.gate = a.gate /\ q.scope = a.scope /\ q.sprint = a.sprint
                 /\ q.start = a.start /\ q.end = a.end /\ q.quarters = a.quarters
                 /\ q.config = a.config /\ q.ident = a.ident /\ q.nonce = a.nonce
                 /\ q.force = a.force /\ q.fetched = a.fetched /\ q.tasks = a.tasks
                 /\ q.job = a.job /\ q.cache = a.cache /\ q.emptied = a.emptied
                 /\ q.since = a.since /\ q.now = a.now
    BY <1>3, TurnFields
  <2>2. StatsTyped(q)
    <3>1. ChoicesTyped(q) /\ PanelsTyped(q)
      BY <1>1, <2>1 DEF StatsTyped, ChoicesTyped, PanelsTyped
    <3> QED
      BY <1>1, <2>1, <3>1 DEF StatsTyped
  <2>3. CachesHeld(q) /\ SameRequests(page, q)
    BY <2>1 DEF CachesHeld, SameRequests
  <2> QED
    BY <2>1, <2>2, <2>3, LeftToEffects
<1> QED
  BY <1>2, <1>3

\* The fields a choice leaves alone.
SameStats(b, a) ==
    /\ DOMAIN a = StatsFields /\ SameRequests(b, a) /\ a.next = b.next
    /\ a.now = b.now /\ a.force = b.force /\ a.cache = b.cache

LEMMA OnlyChoices ==
  ASSUME StatsPage(page), NEW a, SameStats(page, a), ChoicesTyped(a), Stats!Turn(a) \/ Stats!Become(a)
  PROVE  StatsPage(page')
<1>1. CachesHeld(a)
  BY DEF SameStats, StatsPage, CachesHeld
<1> QED
  BY <1>1, ChoiceHeld DEF SameStats

LEMMA ShowStatsHeld == ASSUME StatsPage(page), Stats!ShowStats PROVE StatsPage(page')
<1>1. PICK a : a = [page EXCEPT !.view = page.next]
  OBVIOUS
<1>2. Stats!Turn(a)
  BY <1>1 DEF Stats!ShowStats
<1>3. SameStats(page, a) /\ ChoicesTyped(a)
  BY <1>1 DEF StatsPage, StatsTyped, StatsFields, SameStats, SameRequests, ChoicesTyped
<1> QED
  BY <1>2, <1>3, OnlyChoices

LEMMA SetViewHeld == ASSUME StatsPage(page), Stats!SetView PROVE StatsPage(page')
<1>1. PICK v \in Stats!Views : Stats!Turn([page EXCEPT !.view = v])
  BY DEF Stats!SetView
<1>2. PICK a : a = [page EXCEPT !.view = v]
  OBVIOUS
<1>3. SameStats(page, a) /\ ChoicesTyped(a)
  BY <1>2 DEF StatsPage, StatsTyped, StatsFields, SameStats, SameRequests, ChoicesTyped
<1> QED
  BY <1>1, <1>2, <1>3, OnlyChoices

LEMMA SetModeHeld == ASSUME StatsPage(page), Stats!SetMode PROVE StatsPage(page')
<1>1. PICK m \in {"epic", "team"} : Stats!Turn([page EXCEPT !.mode = m])
  BY DEF Stats!SetMode
<1>2. PICK a : a = [page EXCEPT !.mode = m]
  OBVIOUS
<1>3. SameStats(page, a) /\ ChoicesTyped(a)
  BY <1>2 DEF StatsPage, StatsTyped, StatsFields, SameStats, SameRequests, ChoicesTyped
<1> QED
  BY <1>1, <1>2, <1>3, OnlyChoices

LEMMA ChooseTeamsHeld == ASSUME StatsPage(page), Stats!ChooseTeams PROVE StatsPage(page')
<1>1. PICK s \in Scopes : Stats!Turn([page EXCEPT !.scope = s])
  BY DEF Stats!ChooseTeams
<1>2. PICK a : a = [page EXCEPT !.scope = s]
  OBVIOUS
<1>3. SameStats(page, a) /\ ChoicesTyped(a)
  BY <1>2 DEF StatsPage, StatsTyped, StatsFields, SameStats, SameRequests, ChoicesTyped
<1> QED
  BY <1>1, <1>2, <1>3, OnlyChoices

LEMMA SetQuartersHeld == ASSUME StatsPage(page), Stats!SetQuarters PROVE StatsPage(page')
<1>1. PICK n : Stats!Turn([page EXCEPT !.quarters = n])
  BY DEF Stats!SetQuarters
<1>2. PICK a : a = [page EXCEPT !.quarters = n]
  OBVIOUS
<1>3. SameStats(page, a) /\ ChoicesTyped(a)
  BY <1>2 DEF StatsPage, StatsTyped, StatsFields, SameStats, SameRequests, ChoicesTyped
<1> QED
  BY <1>1, <1>2, <1>3, OnlyChoices

LEMMA SetRangeHeld == ASSUME StatsPage(page), Stats!SetRange PROVE StatsPage(page')
<1>1. PICK s \in Stats!Sprints : Stats!Turn([page EXCEPT !.start = s]) \/ Stats!Turn([page EXCEPT !.end = s])
  BY DEF Stats!SetRange
<1>2. CASE Stats!Turn([page EXCEPT !.start = s])
  <2>1. PICK a : a = [page EXCEPT !.start = s]
    OBVIOUS
  <2>2. SameStats(page, a) /\ ChoicesTyped(a)
    BY <2>1 DEF StatsPage, StatsTyped, StatsFields, SameStats, SameRequests, ChoicesTyped
  <2> QED
    BY <1>2, <2>1, <2>2, OnlyChoices
<1>3. CASE Stats!Turn([page EXCEPT !.end = s])
  <2>1. PICK a : a = [page EXCEPT !.end = s]
    OBVIOUS
  <2>2. SameStats(page, a) /\ ChoicesTyped(a)
    BY <2>1 DEF StatsPage, StatsTyped, StatsFields, SameStats, SameRequests, ChoicesTyped
  <2> QED
    BY <1>3, <2>1, <2>2, OnlyChoices
<1> QED
  BY <1>1, <1>2, <1>3

LEMMA SprintsListedHeld == ASSUME StatsPage(page), Stats!SprintsListed PROVE StatsPage(page')
<1>1. PICK a : a = [page EXCEPT !.sprint = 1, !.start = 1, !.end = 1]
  OBVIOUS
<1>2. Stats!Become(a)
  BY <1>1 DEF Stats!SprintsListed
<1>3. 1 \in Stats!Sprints
  BY StatsConstants DEF Stats!StatsAssumption, Stats!Sprints
<1>4. SameStats(page, a) /\ ChoicesTyped(a)
  BY <1>1, <1>3 DEF StatsPage, StatsTyped, StatsFields, SameStats, SameRequests, ChoicesTyped
<1> QED
  BY <1>2, <1>4, OnlyChoices

LEMMA SelectStatsSprintHeld == ASSUME StatsPage(page), Stats!SelectSprint PROVE StatsPage(page')
<1>1. PICK s \in Stats!Sprints : Stats!Turn([page EXCEPT !.sprint = s, !.fetched = FALSE, !.tasks = 0])
  BY DEF Stats!SelectSprint
<1>2. PICK a : a = [page EXCEPT !.sprint = s, !.fetched = FALSE, !.tasks = 0]
  OBVIOUS
<1>3. SameStats(page, a) /\ ChoicesTyped(a)
  BY <1>2 DEF StatsPage, StatsTyped, StatsFields, SameStats, SameRequests, ChoicesTyped
<1> QED
  BY <1>1, <1>2, <1>3, OnlyChoices

LEMMA TasksLoadedHeld == ASSUME StatsPage(page), Stats!TasksLoaded PROVE StatsPage(page')
<1>1. PICK t : Stats!Become([page EXCEPT !.fetched = TRUE, !.tasks = t])
  BY DEF Stats!TasksLoaded
<1>2. PICK a : a = [page EXCEPT !.fetched = TRUE, !.tasks = t]
  OBVIOUS
<1>3. SameStats(page, a) /\ ChoicesTyped(a)
  BY <1>2 DEF StatsPage, StatsTyped, StatsFields, SameStats, SameRequests, ChoicesTyped
<1> QED
  BY <1>1, <1>2, <1>3, OnlyChoices

LEMMA FinishOnboardingHeld == ASSUME StatsPage(page), Stats!FinishOnboarding PROVE StatsPage(page')
<1>1. PICK a : a = [page EXCEPT !.gate = FALSE]
  OBVIOUS
<1>2. Stats!Become(a)
  BY <1>1 DEF Stats!FinishOnboarding
<1>3. SameStats(page, a) /\ ChoicesTyped(a)
  BY <1>1 DEF StatsPage, StatsTyped, StatsFields, SameStats, SameRequests, ChoicesTyped
<1> QED
  BY <1>2, <1>3, OnlyChoices

LEMMA SaveGroupsHeld == ASSUME StatsPage(page), Stats!SaveGroups PROVE StatsPage(page')
<1>1. PICK c : Stats!Turn([page EXCEPT !.config = c, !.ident = 1 - @])
  BY DEF Stats!SaveGroups
<1>2. PICK a : a = [page EXCEPT !.config = c, !.ident = 1 - @]
  OBVIOUS
<1>3. SameStats(page, a) /\ ChoicesTyped(a)
  BY <1>2 DEF StatsPage, StatsTyped, StatsFields, SameStats, SameRequests, ChoicesTyped
<1> QED
  BY <1>1, <1>2, <1>3, OnlyChoices

LEMMA ToggleExcludedHeld == ASSUME StatsPage(page), Stats!ToggleExcluded PROVE StatsPage(page')
<1>1. PICK a : a = [page EXCEPT !.config.excluded = ~@, !.ident = 1 - @,
                               !.cache["capacity"] = <<>>, !.cache["chunk"] = <<>>]
  OBVIOUS
<1>2. Stats!Turn(a)
  BY <1>1 DEF Stats!ToggleExcluded
<1>3. /\ DOMAIN a = StatsFields /\ SameRequests(page, a) /\ ChoicesTyped(a)
      /\ a.now = page.now /\ a.force = page.force
  BY <1>1 DEF StatsPage, StatsTyped, StatsFields, SameRequests, ChoicesTyped
<1>4. PICK cache : cache = [[page.cache EXCEPT !["capacity"] = <<>>] EXCEPT !["chunk"] = <<>>]
  OBVIOUS
<1>5. a.cache = cache
  BY <1>1, <1>4 DEF StatsPage, StatsTyped, StatsFields
<1>6. DOMAIN cache = DOMAIN page.cache /\ cache["capacity"] = <<>> /\ cache["chunk"] = <<>>
  BY <1>4 DEF StatsPage, StatsTyped, Stats!Panels
<1>7. CachesHeld(a)
  BY <1>5, <1>6 DEF CachesHeld
<1> QED
  BY <1>2, <1>3, <1>5, <1>6, <1>7, ChoiceHeld

LEMMA JiraMovesHeld == ASSUME StatsPage(page), Stats!JiraMoves PROVE StatsPage(page')
<1>1. /\ page' = [page EXCEPT !.now = @ + 1] /\ page.now + 1 \in 1..MaxNow
  BY StatsConstants DEF Stats!JiraMoves, Stats!StatsAssumption, StatsPage, StatsTyped
<1>2. /\ DOMAIN page' = StatsFields /\ SameRequests(page, page') /\ SameChoices(page, page')
      /\ page'.cache = page.cache /\ page'.force = page.force /\ page'.now = page.now + 1
      /\ page'.next = page.next
  BY <1>1 DEF StatsPage, StatsTyped, StatsFields, SameRequests, SameChoices
<1>3. StatsTyped(page')
  <2>1. ChoicesTyped(page') /\ PanelsTyped(page')
    BY <1>2 DEF StatsPage, StatsTyped, ChoicesTyped, PanelsTyped, SameRequests, SameChoices
  <2>2. page'.since \in 0..page'.now
    BY <1>2, StatsConstants DEF StatsPage, StatsTyped, SameRequests, Stats!StatsAssumption
  <2> QED
    BY <1>1, <1>2, <2>1, <2>2 DEF StatsPage, StatsTyped, SameRequests
<1>4. Stats!PhaseKeys(page) = Stats!PhaseKeys(page')
  BY <1>2, PhaseKeysSame DEF SameRequests
<1>5. \A x \in Stats!Panels : Stats!Deps(page, x) = Stats!Deps(page', x) /\ SameRequest(page, page', x)
  BY <1>2, <1>4, DepsOfChoices DEF SameRequest, SameRequests
<1>6. \A x \in Stats!Panels : RequestHeld(page', x)
  BY <1>5, RequestKept DEF StatsPage
<1>7. CapacityHeld(page')
  BY <1>2, <1>5, CapacityKept DEF StatsPage, SameRequests, Stats!Panels
<1>8. CachesHeld(page')
  BY <1>2 DEF StatsPage, CachesHeld
<1> QED
  BY <1>3, <1>6, <1>7, <1>8 DEF StatsPage

\* A turn that does more than choose.
LEMMA TurnHeld ==
  ASSUME NEW a, StatsTyped(a), CachesHeld(a), Stats!Turn(a),
         \A x \in Stats!Panels : Stats!Deps(page, x) = Stats!Deps(a, x) => Good(a, x)
  PROVE  StatsPage(page')
<1>1. PICK q : /\ Stats!Become(q) /\ DOMAIN q = StatsFields
               /\ q.at = a.at /\ q.view = a.view /\ q.next = a.next /\ q.mode = a.mode
               /\ q.gate = a.gate /\ q.scope = a.scope /\ q.sprint = a.sprint
               /\ q.start = a.start /\ q.end = a.end /\ q.quarters = a.quarters
               /\ q.config = a.config /\ q.ident = a.ident /\ q.nonce = a.nonce
               /\ q.force = a.force /\ q.fetched = a.fetched /\ q.tasks = a.tasks
               /\ q.job = a.job /\ q.cache = a.cache /\ q.emptied = a.emptied
               /\ q.since = a.since /\ q.now = a.now
  BY TurnFields DEF StatsTyped
<1>2. StatsTyped(q)
  <2>1. ChoicesTyped(q) /\ PanelsTyped(q)
    BY <1>1 DEF StatsTyped, ChoicesTyped, PanelsTyped
  <2> QED
    BY <1>1, <2>1 DEF StatsTyped
<1>3. CachesHeld(q) /\ SameChoices(a, q) /\ SameRequests(a, q)
  BY <1>1 DEF CachesHeld, SameChoices, SameRequests
<1>4. Stats!PhaseKeys(a) = Stats!PhaseKeys(q)
  BY <1>3, PhaseKeysSame DEF SameRequests
<1>5. \A x \in Stats!Panels : Stats!Deps(a, x) = Stats!Deps(q, x) /\ SameRequest(a, q, x)
  BY <1>3, <1>4, DepsOfChoices DEF SameRequest, SameRequests
<1>6. ASSUME NEW x \in Stats!Panels, Stats!Deps(page, x) = Stats!Deps(q, x)
      PROVE  Good(q, x)
  <2>1. Good(a, x)
    BY <1>5, <1>6
  <2>2. RequestHeld(q, x)
    BY <1>5, <2>1, RequestKept DEF Good
  <2>3. x = "capacity" => CapacityHeld(q)
    BY <1>3, <1>5, <2>1, CapacityKept DEF Good, SameRequests
  <2> QED
    BY <2>2, <2>3 DEF Good
<1> QED
  BY <1>1, <1>2, <1>3, <1>6, BecomeHeld

LEMMA DroppedFields ==
  ASSUME NEW p, StatsTyped(p), NEW r, r = Stats!Dropped(p)
  PROVE  /\ SameRequests(p, r) /\ SameChoices(p, r) /\ DOMAIN r = StatsFields
         /\ r.now = p.now /\ r.force = p.force /\ r.next = p.next
         /\ DOMAIN r.cache = DOMAIN p.cache
         /\ r.cache["capacity"] = <<>> /\ r.cache["chunk"] = <<>>
<1>1. PICK cache : cache = [x \in DOMAIN p.cache |-> IF x = "phase" THEN p.cache[x] ELSE <<>>]
  OBVIOUS
<1>2. r = [p EXCEPT !.cache = cache]
  BY <1>1 DEF Stats!Dropped
<1>3. DOMAIN cache = DOMAIN p.cache /\ cache["capacity"] = <<>> /\ cache["chunk"] = <<>>
  BY <1>1 DEF StatsTyped, Stats!Panels
<1>4. /\ SameRequests(p, r) /\ SameChoices(p, r) /\ DOMAIN r = StatsFields
      /\ r.now = p.now /\ r.force = p.force /\ r.next = p.next /\ r.cache = cache
  BY <1>2 DEF StatsTyped, StatsFields, SameRequests, SameChoices
<1> QED
  BY <1>3, <1>4

LEMMA RefreshStatsHeld == ASSUME StatsPage(page), Stats!Refresh PROVE StatsPage(page')
<1>1. PICK d : d = Stats!Dropped(page)
  OBVIOUS
<1>2. /\ SameRequests(page, d) /\ SameChoices(page, d) /\ DOMAIN d = StatsFields
      /\ d.now = page.now /\ d.force = page.force /\ d.next = page.next
      /\ DOMAIN d.cache = DOMAIN page.cache
      /\ d.cache["capacity"] = <<>> /\ d.cache["chunk"] = <<>>
  BY <1>1, DroppedFields DEF StatsPage
<1>3. CachesHeld(d)
  BY <1>2 DEF CachesHeld
<1>4. ChoicesTyped(d)
  BY <1>2 DEF StatsPage, StatsTyped, ChoicesTyped, SameChoices
<1>5. CASE page.view \notin Stats!CapacityViews
  <2>1. Stats!Turn(d)
    BY <1>1, <1>5 DEF Stats!Refresh
  <2> QED
    BY <1>2, <1>3, <1>4, <2>1, ChoiceHeld
<1>6. CASE page.view \in Stats!CapacityViews
  <2>1. PICK at : at = [[d.at EXCEPT !["capacity"].data = Stats!NoData]
                           EXCEPT !["capacity"].error = "none"]
    OBVIOUS
  <2>2. PICK a : a = [d EXCEPT !.force = TRUE, !.since = page.now, !.nonce = @ + 1, !.at = at]
    OBVIOUS
  <2>3. Stats!Turn(a)
    <3>1. a = [d EXCEPT !.force = TRUE, !.since = page.now, !.nonce = @ + 1,
                        !.at["capacity"].data = Stats!NoData, !.at["capacity"].error = "none"]
      <4>1. PICK b : b = [d EXCEPT !.force = TRUE, !.since = page.now, !.nonce = @ + 1]
        OBVIOUS
      <4>2. b.at = d.at /\ DOMAIN b = StatsFields
        BY <1>2, <4>1 DEF StatsFields
      <4>3. a = [b EXCEPT !.at = at]
        BY <1>2, <2>2, <4>1 DEF StatsFields
      <4>4. [b EXCEPT !.at = at]
               = [b EXCEPT !.at["capacity"].data = Stats!NoData, !.at["capacity"].error = "none"]
        BY <2>1, <4>2 DEF StatsFields
      <4> QED
        BY <4>1, <4>3, <4>4
    <3> QED
      BY <1>1, <1>6, <3>1 DEF Stats!Refresh
  <2>4. /\ DOMAIN a = StatsFields /\ a.job = page.job /\ a.emptied = page.emptied /\ a.at = at
        /\ a.since = page.now /\ a.now = page.now /\ a.force = TRUE /\ a.nonce = page.nonce + 1
        /\ a.cache = d.cache /\ a.next = page.next
        /\ a.view = page.view /\ a.mode = page.mode /\ a.gate = page.gate /\ a.scope = page.scope
        /\ a.sprint = page.sprint /\ a.start = page.start /\ a.end = page.end
        /\ a.quarters = page.quarters /\ a.config = page.config /\ a.ident = page.ident
        /\ a.fetched = page.fetched /\ a.tasks = page.tasks
    BY <1>2, <2>2 DEF StatsFields, SameRequests, SameChoices
  <2>5. /\ DOMAIN at = Stats!Panels /\ \A x \in Stats!Panels \ {"capacity"} : at[x] = page.at[x]
        /\ AtTyped(at["capacity"])
    BY <1>2, <2>1 DEF StatsPage, StatsTyped, PanelsTyped, AtTyped, Stats!Panels, SameRequests
  <2>6. page.nonce \in Nat /\ page.now \in 1..MaxNow
    BY DEF StatsPage, StatsTyped, ChoicesTyped
  <2>7. StatsTyped(a)
    <3>1. ChoicesTyped(a)
      BY <2>4, <2>6 DEF StatsPage, StatsTyped, ChoicesTyped
    <3>2. PanelsTyped(a)
      BY <2>4, <2>5 DEF StatsPage, StatsTyped, PanelsTyped
    <3>3. a.since \in 0..a.now
      BY <2>4, <2>6, StatsConstants DEF Stats!StatsAssumption
    <3> QED
      BY <1>2, <2>4, <3>1, <3>2, <3>3 DEF StatsPage, StatsTyped
  <2>8. CachesHeld(a)
    BY <1>3, <2>4 DEF CachesHeld
  <2>9. Stats!Deps(page, "capacity") # Stats!Deps(a, "capacity")
    <3>1. Stats!Deps(page, "capacity") = <<page.view, Stats!Key(page, "capacity"), page.ident, page.config,
                                     page.nonce, page.gate>>
          /\ Stats!Deps(a, "capacity") = <<a.view, Stats!Key(a, "capacity"), a.ident, a.config,
                                     a.nonce, a.gate>>
      BY DEF Stats!Deps
    <3>2. page.nonce # a.nonce
      BY <2>4, <2>6
    <3> QED
      BY <3>1, <3>2
  <2>10. ASSUME NEW x \in Stats!Panels, Stats!Deps(page, x) = Stats!Deps(a, x)
         PROVE  Good(a, x)
    <3>1. x # "capacity"
      BY <2>9, <2>10
    <3>2. SameRequest(page, a, x)
      BY <2>4, <2>5, <3>1 DEF SameRequest
    <3>3. RequestHeld(a, x)
      BY <2>10, <3>2, RequestKept DEF StatsPage
    <3> QED
      BY <3>1, <3>3 DEF Good
  <2> QED
    BY <2>3, <2>7, <2>8, <2>10, TurnHeld
<1> QED
  BY <1>5, <1>6

LEMMA InvalidateHeld == ASSUME StatsPage(page), Stats!Invalidate PROVE StatsPage(page')
<1>1. PICK d : d = Stats!Dropped(page)
  OBVIOUS
<1>2. /\ SameRequests(page, d) /\ SameChoices(page, d) /\ DOMAIN d = StatsFields
      /\ d.now = page.now /\ d.force = page.force /\ d.next = page.next
      /\ DOMAIN d.cache = DOMAIN page.cache
      /\ d.cache["capacity"] = <<>> /\ d.cache["chunk"] = <<>>
  BY <1>1, DroppedFields DEF StatsPage
<1>3. PICK at : at = [panel \in Stats!Panels |-> IF panel = "phase" THEN d.at[panel] ELSE Stats!NoPanel]
  OBVIOUS
<1>4. PICK a : a = [d EXCEPT !.fetched = FALSE, !.tasks = 0, !.at = at,
                             !.emptied = {"burnout", "cohort", "capacity"}]
  OBVIOUS
<1>5. Stats!Turn(a)
  <2>1. a = [Stats!Dropped(page) EXCEPT
                !.fetched = FALSE, !.tasks = 0,
                !.at = [panel \in Stats!Panels |-> IF panel = "phase" THEN @[panel] ELSE Stats!NoPanel],
                !.emptied = {"burnout", "cohort", "capacity"}]
    BY <1>1, <1>2, <1>3, <1>4 DEF StatsFields
  <2> QED
    BY <2>1 DEF Stats!Invalidate
<1>6. /\ DOMAIN a = StatsFields /\ a.job = page.job /\ a.at = at
      /\ a.emptied = {"burnout", "cohort", "capacity"}
      /\ a.since = page.since /\ a.now = page.now /\ a.force = page.force /\ a.nonce = page.nonce
      /\ a.cache = d.cache /\ a.next = page.next
      /\ a.view = page.view /\ a.mode = page.mode /\ a.gate = page.gate /\ a.scope = page.scope
      /\ a.sprint = page.sprint /\ a.start = page.start /\ a.end = page.end
      /\ a.quarters = page.quarters /\ a.config = page.config /\ a.ident = page.ident
      /\ a.fetched = FALSE /\ a.tasks = 0
  BY <1>2, <1>4 DEF StatsFields, SameRequests, SameChoices
<1>7. Stats!NoPanel.data = Stats!NoData /\ ~Stats!NoPanel.loading /\ AtTyped(Stats!NoPanel) /\ ~Stats!NoData.known
  BY DEF Stats!NoPanel, AtTyped, Stats!NoData
<1>8. /\ DOMAIN at = Stats!Panels /\ at["phase"] = page.at["phase"]
      /\ \A x \in Stats!Panels \ {"phase"} : at[x] = Stats!NoPanel
  BY <1>2, <1>3 DEF Stats!Panels, SameRequests
<1>9. StatsTyped(a)
  <2>1. ChoicesTyped(a)
    BY <1>6 DEF StatsPage, StatsTyped, ChoicesTyped
  <2>2. PanelsTyped(a)
    BY <1>6, <1>7, <1>8 DEF StatsPage, StatsTyped, PanelsTyped
  <2>3. a.emptied \subseteq Stats!Panels \ {"phase"}
    BY <1>6 DEF Stats!Panels
  <2> QED
    BY <1>2, <1>6, <2>1, <2>2, <2>3 DEF StatsPage, StatsTyped
<1>10. CachesHeld(a)
  BY <1>2, <1>6 DEF CachesHeld
<1>11. ASSUME NEW x \in Stats!Panels, Stats!Deps(page, x) = Stats!Deps(a, x)
       PROVE  Good(a, x)
  <2>1. CASE x = "phase"
    <3>1. SameRequest(page, a, x)
      BY <1>6, <1>8, <2>1 DEF SameRequest, StatsPage, StatsTyped
    <3> QED
      BY <1>11, <2>1, <3>1, RequestKept DEF Good, StatsPage
  <2>2. CASE x # "phase"
    <3>1. /\ a.at[x] = Stats!NoPanel /\ x \in a.emptied /\ a.job[x] = page.job[x]
      BY <1>6, <1>8, <2>2 DEF Stats!Panels
    <3>2. RequestHeld(a, x)
      <4>1. RequestHeld(page, x)
        BY DEF StatsPage
      <4> QED
        BY <1>7, <1>11, <3>1, <4>1, DepsDecide DEF RequestHeld
    <3>3. ASSUME x = "capacity" PROVE CapacityHeld(a)
      <4>1. Stats!Key(page, "capacity") = Stats!Key(a, "capacity")
        BY <1>11, <3>3, DepsDecide
      <4>2. a.job["capacity"].live => ChunksHeld(a, a.job["capacity"])
        BY <1>6, <4>1 DEF StatsPage, CapacityHeld, ChunksHeld
      <4>3. WholeHeld(a)
        BY <1>7, <3>1, <3>3 DEF WholeHeld
      <4> QED
        BY <4>2, <4>3 DEF CapacityHeld
    <3> QED
      BY <3>2, <3>3 DEF Good
  <2> QED
    BY <2>1, <2>2
<1> QED
  BY <1>5, <1>9, <1>10, <1>11, TurnHeld

-----------------------------------------------------------------------------
(* The chunks the workers take on.                                           *)

LEMMA LeastOf ==
  ASSUME NEW T, T \subseteq Nat, T # {}
  PROVE  \E n \in T : \A m \in T : n <= m
<1> DEFINE R == OpToRel(<, Nat)
<1>1. IsWellFoundedOn(R, Nat)
  BY NatLessThanWellFounded
<1>2. PICK n \in T : \A m \in T : ~(<<m, n>> \in R)
  <2> HIDE DEF R
  <2> QED
    BY <1>1, WFMin
<1>3. \A m \in Nat : m < n => <<m, n>> \in R
  BY DEF OpToRel
<1>4. \A m \in T : ~(m < n)
  <2> HIDE DEF R
  <2> QED
    BY <1>2, <1>3
<1> QED
  BY <1>4

LEMMA GreatestOf ==
  ASSUME NEW T, T \subseteq Stats!Sprints, T # {}
  PROVE  \E n \in T : \A m \in T : m <= n
<1>0. LastSprint \in Nat
  BY StatsConstants DEF Stats!StatsAssumption
<1> DEFINE D == {LastSprint - n : n \in T}
<1>1. D \subseteq Nat /\ D # {}
  <2>1. \A n \in T : n \in Int /\ n <= LastSprint
    BY <1>0 DEF Stats!Sprints
  <2>2. \A n \in T : LastSprint - n \in Nat
    BY <1>0, <2>1
  <2>3. D \subseteq Nat
    BY <2>2
  <2>4. PICK n : n \in T
    OBVIOUS
  <2>5. LastSprint - n \in D
    BY <2>4
  <2> QED
    BY <2>3, <2>5
<1>2. PICK k \in D : \A j \in D : k <= j
  <2> HIDE DEF D
  <2> QED
    BY <1>1, LeastOf
<1>3. PICK n \in T : k = LastSprint - n
  OBVIOUS
<1>4. ASSUME NEW m \in T PROVE m <= n
  <2>1. k <= LastSprint - m
    BY <1>2
  <2> QED
    BY <1>0, <1>3, <2>1 DEF Stats!Sprints
<1> QED
  BY <1>4

\* Each of those taken had fewer before it than there were workers free.
LEMMA FewTaken ==
  ASSUME NEW S, S \subseteq Stats!Sprints, NEW c \in Nat, c <= StatsWorkers,
         NEW A, A = {s \in S : c + Cardinality({t \in S : t < s}) < StatsWorkers}
  PROVE  IsFiniteSet(A) /\ c + Cardinality(A) <= StatsWorkers
<1>0. LastSprint \in Nat /\ StatsWorkers \in Nat
  BY StatsConstants DEF Stats!StatsAssumption
<1>1. IsFiniteSet(Stats!Sprints)
  BY <1>0, FS_Interval DEF Stats!Sprints
<1>2. IsFiniteSet(S) /\ IsFiniteSet(A)
  BY <1>1, FS_Subset
<1>3. CASE A = {}
  <2>1. Cardinality(A) = 0
    BY <1>3, FS_EmptySet
  <2>2. c + 0 <= StatsWorkers
    BY <1>0
  <2> QED
    BY <1>2, <2>1, <2>2
<1>4. CASE A # {}
  <2>1. A \subseteq Stats!Sprints
    OBVIOUS
  <2>2. PICK m \in A : \A n \in A : n <= m
    BY <1>4, <2>1, GreatestOf
  <2>3. PICK B : B = {t \in S : t < m}
    OBVIOUS
  <2>4. IsFiniteSet(B) /\ Cardinality(B) \in Nat /\ c + Cardinality(B) < StatsWorkers
    <3>1. IsFiniteSet(B)
      BY <1>2, <2>3, FS_Subset
    <3> QED
      BY <2>2, <2>3, <3>1, FS_CardinalityType
  <2>5. m \notin B
    BY <2>1, <2>2, <2>3 DEF Stats!Sprints
  <2>6. IsFiniteSet(B \union {m}) /\ Cardinality(B \union {m}) = Cardinality(B) + 1
    BY <2>4, <2>5, FS_AddElement
  <2>7. A \subseteq B \union {m}
    BY <2>1, <2>2, <2>3 DEF Stats!Sprints
  <2>8. Cardinality(A) <= Cardinality(B) + 1 /\ Cardinality(A) \in Nat
    BY <1>2, <2>6, <2>7, FS_Subset, FS_CardinalityType
  <2> QED
    BY <1>0, <1>2, <2>4, <2>8
<1> QED
  BY <1>3, <1>4

LEMMA StatsCardinality == \A S : Stats!Cardinality(S) = Cardinality(S)
BY DEF Stats!Cardinality, Cardinality

LEMMA TakenHeld ==
  ASSUME NEW p, StatsTyped(p), CachesHeld(p), NEW job, ChunksHeld(p, job),
         NEW r, r = Stats!Taken(p, job)
  PROVE  ChunksHeld(p, r)
<1> DEFINE kept(s) == ~job.force /\ <<s, p.scope>> \in DOMAIN p.cache["chunk"]
           before(s) == {t \in job.todo : t < s /\ ~kept(t)}
<1>1. PICK taken : taken = {s \in job.todo : Cardinality(job.out) + Cardinality(before(s)) < StatsWorkers}
  OBVIOUS
<1>2. PICK had : had = {s \in taken : kept(s)}
  OBVIOUS
<1>3. PICK got : got = [s \in had \union DOMAIN job.got |->
                            IF s \in had THEN p.cache["chunk"][<<s, p.scope>>] ELSE job.got[s]]
  OBVIOUS
<1>4. r = [job EXCEPT !.todo = @ \ taken, !.out = @ \union (taken \ had), !.got = got]
  BY <1>1, <1>2, <1>3, StatsCardinality DEF Stats!Taken, ChunksHeld, JobTyped, JobFields
<1>5. /\ DOMAIN r = JobFields /\ r.live = job.live /\ r.key = job.key /\ r.force = job.force
      /\ r.asking = job.asking /\ r.todo = job.todo \ taken /\ r.out = job.out \union (taken \ had)
      /\ r.got = got
  BY <1>4 DEF ChunksHeld, JobTyped, JobFields
<1>6. PICK S : S = {s \in job.todo : ~kept(s)}
  OBVIOUS
<1>7. taken \ had = {s \in S : Cardinality(job.out) + Cardinality({t \in S : t < s}) < StatsWorkers}
  <2>1. \A s : before(s) = {t \in S : t < s}
    BY <1>6
  <2> HIDE DEF kept, before
  <2>2. taken \ had = {s \in S : Cardinality(job.out) + Cardinality(before(s)) < StatsWorkers}
    BY <1>1, <1>2, <1>6
  <2> QED
    BY <2>1, <2>2
<1>8. IsFiniteSet(taken \ had) /\ Cardinality(job.out) + Cardinality(taken \ had) <= StatsWorkers
  <2>1. Cardinality(job.out) \in Nat /\ Cardinality(job.out) <= StatsWorkers /\ S \subseteq Stats!Sprints
    BY <1>6, FS_CardinalityType DEF ChunksHeld
  <2> QED
    BY <1>7, <2>1, FewTaken
<1>9. IsFiniteSet(r.out) /\ Cardinality(r.out) <= StatsWorkers
  <2>1. /\ IsFiniteSet(job.out \union (taken \ had))
        /\ Cardinality(job.out \union (taken \ had))
              = Cardinality(job.out) + Cardinality(taken \ had)
                   - Cardinality(job.out \intersect (taken \ had))
    BY <1>8, FS_Union DEF ChunksHeld
  <2>2. /\ Cardinality(job.out) \in Nat /\ Cardinality(taken \ had) \in Nat
        /\ Cardinality(job.out \intersect (taken \ had)) \in Nat
    BY <1>8, FS_CardinalityType, FS_Intersection DEF ChunksHeld
  <2>3. StatsWorkers \in Nat
    BY StatsConstants DEF Stats!StatsAssumption
  <2> QED
    BY <1>5, <1>8, <2>1, <2>2, <2>3
<1>10. taken \subseteq job.todo /\ had \subseteq taken /\ DOMAIN got = had \union DOMAIN job.got
  BY <1>1, <1>2, <1>3
<1> HIDE DEF kept, before
<1>11. /\ r.todo \subseteq Stats!Sprints
       /\ r.todo \intersect (r.out \union DOMAIN r.got) = {}
       /\ r.out \intersect DOMAIN r.got = {}
       /\ r.out \union r.todo \union DOMAIN r.got = r.key[1]
  BY <1>5, <1>10 DEF ChunksHeld
<1>12. NotBefore(r.got, p.since)
  <2>1. ASSUME NEW s \in had PROVE got[s] >= p.since
    <3>1. kept(s)
      BY <1>2, <2>1
    <3>2. ~job.force /\ <<s, p.scope>> \in DOMAIN p.cache["chunk"]
      BY <3>1 DEF kept
    <3>3. p.since = 0
      BY <3>2 DEF ChunksHeld
    <3>4. got[s] \in Nat
      BY <1>3, <2>1, <3>2 DEF CachesHeld
    <3> QED
      BY <3>3, <3>4
  <2>2. \A s \in DOMAIN job.got \ had : got[s] = job.got[s]
    BY <1>3
  <2> QED
    BY <1>5, <1>10, <2>1, <2>2 DEF ChunksHeld, NotBefore
<1>13. JobTyped(r) /\ r.live /\ r.key = Stats!Key(p, "capacity") /\ (r.force \/ p.since = 0)
  BY <1>5 DEF ChunksHeld, JobTyped
<1> QED
  BY <1>9, <1>11, <1>12, <1>13 DEF ChunksHeld

-----------------------------------------------------------------------------
(* Requests and answers.                                                     *)

\* What a step of one panel's request leaves alone.
Apart(b, r, panel) ==
    /\ SameChoices(b, r) /\ r.since = b.since
    /\ \A x \in Stats!Panels \ {panel} : SameRequest(b, r, x)

LEMMA OnePanelHeld ==
  ASSUME StatsPage(page), NEW panel \in Stats!Panels, NEW r, StatsTyped(r), CachesHeld(r),
         Apart(page, r, panel), Stats!Deps(page, panel) = Stats!Deps(r, panel) => Good(r, panel), Stats!Become(r)
  PROVE  StatsPage(page')
<1>1. ASSUME NEW x \in Stats!Panels, Stats!Deps(page, x) = Stats!Deps(r, x)
      PROVE  Good(r, x)
  <2>1. CASE x = panel
    BY <1>1, <2>1
  <2>2. CASE x # panel
    <3>1. SameRequest(page, r, x)
      BY <2>2 DEF Apart
    <3>2. RequestHeld(r, x)
      BY <1>1, <3>1, RequestKept DEF StatsPage
    <3>3. x = "capacity" => CapacityHeld(r)
      BY <1>1, <3>1, CapacityKept DEF StatsPage, Apart
    <3> QED
      BY <3>2, <3>3 DEF Good
  <2> QED
    BY <2>1, <2>2
<1> QED
  BY <1>1, BecomeHeld

LEMMA CacheFields ==
  ASSUME NEW p, StatsTyped(p), NEW k \in DOMAIN p.cache, NEW f,
         NEW r, r = [p EXCEPT !.cache[k] = f]
  PROVE  /\ StatsTyped(r) /\ SameChoices(p, r) /\ SameRequests(p, r) /\ r.now = p.now
         /\ r.cache[k] = f /\ \A x \in DOMAIN p.cache \ {k} : r.cache[x] = p.cache[x]
<1>1. PICK cache : cache = [p.cache EXCEPT ![k] = f]
  OBVIOUS
<1>2. r = [p EXCEPT !.cache = cache]
  BY <1>1
<1>3. /\ SameChoices(p, r) /\ SameRequests(p, r) /\ DOMAIN r = StatsFields
      /\ r.now = p.now /\ r.force = p.force /\ r.next = p.next /\ r.cache = cache
  BY <1>2 DEF StatsTyped, StatsFields, SameRequests, SameChoices
<1>4. DOMAIN cache = DOMAIN p.cache /\ cache[k] = f
      /\ \A x \in DOMAIN p.cache \ {k} : cache[x] = p.cache[x]
  BY <1>1
<1>5. ChoicesTyped(r) /\ PanelsTyped(r)
  BY <1>3 DEF StatsTyped, ChoicesTyped, PanelsTyped, SameRequests, SameChoices
<1> QED
  BY <1>3, <1>4, <1>5 DEF StatsTyped, SameRequests

LEMMA FailsFields ==
  ASSUME NEW p, StatsTyped(p), CachesHeld(p), NEW n, NEW r, r = [p EXCEPT !.fails = n]
  PROVE  StatsTyped(r) /\ CachesHeld(r) /\ SameChoices(p, r) /\ SameRequests(p, r)
<1>1. /\ SameChoices(p, r) /\ SameRequests(p, r) /\ DOMAIN r = StatsFields
      /\ r.now = p.now /\ r.force = p.force /\ r.next = p.next /\ r.cache = p.cache
  BY DEF StatsTyped, StatsFields, SameRequests, SameChoices
<1>2. ChoicesTyped(r) /\ PanelsTyped(r)
  BY <1>1 DEF StatsTyped, ChoicesTyped, PanelsTyped, SameRequests, SameChoices
<1> QED
  BY <1>1, <1>2 DEF StatsTyped, CachesHeld, SameRequests

LEMMA ApartSame ==
  ASSUME NEW b, NEW r, SameChoices(b, r), SameRequests(b, r), NEW panel
  PROVE  Apart(b, r, panel)
BY DEF Apart, SameRequests, SameRequest

LEMMA ApartTwice ==
  ASSUME NEW b, NEW c, NEW r, NEW panel, Apart(b, c, panel), Apart(c, r, panel)
  PROVE  Apart(b, r, panel)
BY DEF Apart, SameRequest, SameChoices

LEMMA ApartBeside ==
  ASSUME NEW b, NEW r, NEW panel, SameBeside(b, r, panel), r.since = b.since
  PROVE  Apart(b, r, panel)
BY DEF Apart, SameBeside

\* One panel's job ends, and its panel shows how.
LEMMA EndedFields ==
  ASSUME NEW p, StatsTyped(p), CachesHeld(p), NEW panel \in Stats!Panels, NEW data, NEW error,
         NEW c, c = [p EXCEPT !.job[panel] = Stats!NoJob],
         NEW d, StatsTyped(d), SameChoices(c, d), SameRequests(c, d),
         NEW r, r = Stats!Show(d, panel, data, error)
  PROVE  /\ StatsTyped(r) /\ Apart(p, r, panel) /\ r.cache = d.cache
         /\ ~r.job[panel].live /\ r.at[panel].data = data /\ r.at[panel].error = error
         /\ ~r.at[panel].loading
<1>1. /\ StatsTyped(c) /\ SameBeside(p, c, panel) /\ c.since = p.since /\ c.job[panel] = Stats!NoJob
  BY CancelledFields
<1>2. Apart(p, c, panel) /\ Apart(c, d, panel)
  BY <1>1, ApartBeside, ApartSame
<1>3. /\ StatsTyped(r) /\ SameBeside(d, r, panel) /\ r.since = d.since /\ r.job = d.job
      /\ r.at[panel].data = data /\ r.at[panel].error = error /\ ~r.at[panel].loading
  BY ShowFields
<1>4. Apart(d, r, panel)
  BY <1>3, ApartBeside
<1>5. Apart(p, r, panel)
  BY <1>2, <1>4, ApartTwice
<1>6. ~r.job[panel].live
  BY <1>1, <1>3 DEF SameRequests, Stats!NoJob
<1> QED
  BY <1>3, <1>5, <1>6 DEF SameBeside

LEMMA PhaseKeysApart ==
  ASSUME NEW b, NEW r, NEW panel \in Stats!Panels \ {"capacity"}, Apart(b, r, panel)
  PROVE  Stats!PhaseKeys(b) = Stats!PhaseKeys(r)
<1>1. "capacity" \in Stats!Panels \ {panel}
  BY DEF Stats!Panels
<1>2. r.at["capacity"].data = b.at["capacity"].data
  BY <1>1 DEF Apart, SameRequest
<1> QED
  BY <1>2, PhaseKeysSame DEF Apart

LEMMA AnswerHeld == ASSUME StatsPage(page), Stats!Answer PROVE StatsPage(page')
<1>1. PICK panel \in Stats!Panels \ {"capacity"} :
        /\ page.job[panel].live
        /\ Stats!Become(Stats!Show([page EXCEPT !.job[panel] = Stats!NoJob,
                                    !.cache[panel] = Stats!With(@, page.job[panel].key, <<>>)],
                       panel, Stats!Data(page.job[panel].key, <<>>), "none"))
  BY DEF Stats!Answer
<1>2. PICK key : key = page.job[panel].key
  OBVIOUS
<1>3. PICK c : c = [page EXCEPT !.job[panel] = Stats!NoJob]
  OBVIOUS
<1>4. PICK f : f = Stats!With(page.cache[panel], key, <<>>)
  OBVIOUS
<1>5. PICK d : d = [c EXCEPT !.cache[panel] = f]
  OBVIOUS
<1>6. PICK data : data = Stats!Data(key, <<>>)
  OBVIOUS
<1>7. PICK error : error = "none"
  OBVIOUS
<1>8. PICK r : r = Stats!Show(d, panel, data, error)
  OBVIOUS
<1>9. Stats!Become(r)
  <2>1. d = [page EXCEPT !.job[panel] = Stats!NoJob, !.cache[panel] = Stats!With(@, page.job[panel].key, <<>>)]
    BY <1>2, <1>3, <1>4, <1>5 DEF StatsPage, StatsTyped, StatsFields
  <2>2. r = Stats!Show([page EXCEPT !.job[panel] = Stats!NoJob,
                              !.cache[panel] = Stats!With(@, page.job[panel].key, <<>>)],
                 panel, Stats!Data(page.job[panel].key, <<>>), "none")
    BY <1>2, <1>6, <1>7, <1>8, <2>1
  <2> QED
    BY <1>1, <2>2
<1>10. StatsTyped(page) /\ CachesHeld(page) /\ RequestHeld(page, panel)
  BY DEF StatsPage
<1>11. StatsTyped(c) /\ SameBeside(page, c, panel)
  BY <1>3, <1>10, CancelledFields
<1>12. panel \in DOMAIN c.cache
  BY <1>11 DEF StatsTyped
<1>13. /\ StatsTyped(d) /\ SameChoices(c, d) /\ SameRequests(c, d)
       /\ \A x \in DOMAIN c.cache \ {panel} : d.cache[x] = c.cache[x]
  BY <1>5, <1>11, <1>12, CacheFields
<1>14. /\ StatsTyped(r) /\ Apart(page, r, panel) /\ r.cache = d.cache
       /\ ~r.job[panel].live /\ r.at[panel].data = data /\ r.at[panel].error = error
       /\ ~r.at[panel].loading
  BY <1>3, <1>8, <1>10, <1>13, EndedFields
<1>15. CachesHeld(r)
  <2>1. r.cache["capacity"] = page.cache["capacity"] /\ r.cache["chunk"] = page.cache["chunk"]
    BY <1>11, <1>13, <1>14 DEF StatsTyped, SameBeside, Stats!Panels
  <2> QED
    BY <1>10, <2>1 DEF CachesHeld
<1>16. Good(r, panel)
  <2>1. Stats!PhaseKeys(page) = Stats!PhaseKeys(r)
    BY <1>14, PhaseKeysApart
  <2>2. Stats!Key(page, panel) = Stats!Key(r, panel)
    BY <1>14, <2>1, ChoicesDecide DEF Apart
  <2>3. key = Stats!Key(r, panel) /\ data.known /\ data.key = key
    BY <1>1, <1>2, <1>6, <1>10, <2>2 DEF RequestHeld, Stats!Data
  <2> QED
    BY <1>14, <2>3 DEF Good, RequestHeld
<1> QED
  BY <1>9, <1>14, <1>15, <1>16, OnePanelHeld

LEMMA FailHeld == ASSUME StatsPage(page), Stats!Fail PROVE StatsPage(page')
<1>1. PICK panel \in Stats!Panels \ {"capacity"} :
        Stats!Become(Stats!Show([page EXCEPT !.job[panel] = Stats!NoJob, !.fails = @ + 1], panel, Stats!NoData, "failed"))
  BY DEF Stats!Fail
<1>2. PICK n : n = page.fails + 1
  OBVIOUS
<1>3. PICK c : c = [page EXCEPT !.job[panel] = Stats!NoJob]
  OBVIOUS
<1>4. PICK d : d = [c EXCEPT !.fails = n]
  OBVIOUS
<1>5. PICK data : data = Stats!NoData
  OBVIOUS
<1>6. PICK error : error = "failed"
  OBVIOUS
<1>7. PICK r : r = Stats!Show(d, panel, data, error)
  OBVIOUS
<1>8. Stats!Become(r)
  <2>1. d = [page EXCEPT !.job[panel] = Stats!NoJob, !.fails = @ + 1]
    BY <1>2, <1>3, <1>4 DEF StatsPage, StatsTyped, StatsFields
  <2>2. r = Stats!Show([page EXCEPT !.job[panel] = Stats!NoJob, !.fails = @ + 1], panel, Stats!NoData, "failed")
    BY <1>5, <1>6, <1>7, <2>1
  <2> QED
    BY <1>1, <2>2
<1>9. StatsTyped(page) /\ CachesHeld(page)
  BY DEF StatsPage
<1>10. StatsTyped(c) /\ SameBeside(page, c, panel) /\ CachesHeld(c)
  BY <1>3, <1>9, CancelledFields DEF CachesHeld, SameBeside
<1>11. /\ StatsTyped(d) /\ CachesHeld(d) /\ SameChoices(c, d) /\ SameRequests(c, d)
  BY <1>4, <1>10, FailsFields
<1>12. /\ StatsTyped(r) /\ Apart(page, r, panel) /\ r.cache = d.cache
       /\ ~r.job[panel].live /\ r.at[panel].error = error /\ ~r.at[panel].loading
  BY <1>3, <1>7, <1>9, <1>11, EndedFields
<1>13. Good(r, panel)
  BY <1>6, <1>12 DEF Good, RequestHeld, Stats!Settled
<1>14. CachesHeld(r)
  BY <1>11, <1>12 DEF CachesHeld
<1> QED
  BY <1>8, <1>12, <1>13, <1>14, OnePanelHeld

-----------------------------------------------------------------------------
(* The source, chunk by chunk.                                               *)

LEMMA RangeApart ==
  ASSUME NEW b, NEW r, SameChoices(b, r)
  PROVE  /\ Stats!Open(b, "capacity") <=> Stats!Open(r, "capacity")
         /\ Stats!Refused(b, "capacity") = Stats!Refused(r, "capacity")
         /\ Stats!Key(b, "capacity") = Stats!Key(r, "capacity") /\ Stats!RangeOf(b) = Stats!RangeOf(r)
<1>1. "capacity" \in Stats!Panels /\ "capacity" # "phase"
  BY DEF Stats!Panels
<1> QED
  BY <1>1, ChoicesDecide

\* The source has changed: every chunk lost, the last one there, or others due.
LEMMA ProgressHeld ==
  ASSUME StatsPage(page), NEW q, StatsTyped(q), CachesHeld(q), Apart(page, q, "capacity"),
         page.job["capacity"].live, NEW job, ChunksHeld(q, job), Stats!Become(Stats!Progress(q, job))
  PROVE  StatsPage(page')
<1>0. "capacity" \in Stats!Panels
  BY DEF Stats!Panels
<1>1. PICK whole : whole = Stats!Data(job.key, job.got)
  OBVIOUS
<1>2. PICK c : c = [q EXCEPT !.job["capacity"] = Stats!NoJob]
  OBVIOUS
<1>3. /\ Stats!Open(q, "capacity") /\ Stats!Refused(q, "capacity") = "none"
      /\ job.key = Stats!Key(q, "capacity") /\ job.key[1] = Stats!RangeOf(q)
  <2>1. SameChoices(page, q) /\ RequestHeld(page, "capacity")
    BY <1>0 DEF StatsPage, Apart
  <2> QED
    BY <2>1, RangeApart, KeysOfPanels DEF RequestHeld, ChunksHeld
<1>4. StatsTyped(c) /\ SameBeside(q, c, "capacity")
  BY <1>0, <1>2, CancelledFields
<1>5. CachesHeld(c)
  BY <1>4 DEF CachesHeld, SameBeside
<1>6. ASSUME job.out = {} /\ job.todo = {}, \A s \in DOMAIN job.got : job.got[s] = Lost
      PROVE  StatsPage(page')
  <2>1. PICK data : data = Stats!NoData
    OBVIOUS
  <2>2. PICK error : error = "failed"
    OBVIOUS
  <2>0. PICK d : d = c
    OBVIOUS
  <2>3. PICK r : r = Stats!Show(d, "capacity", data, error)
    OBVIOUS
  <2>4. Stats!Progress(q, job) = Stats!Show(c, "capacity", Stats!NoData, "failed")
    BY <1>2, <1>6 DEF Stats!Progress
  <2>5. Stats!Become(r)
    BY <2>0, <2>1, <2>2, <2>3, <2>4
  <2>6. SameChoices(c, d) /\ SameRequests(c, d) /\ StatsTyped(d)
    BY <1>4, <2>0 DEF SameChoices, SameRequests
  <2>7. /\ StatsTyped(r) /\ Apart(q, r, "capacity") /\ r.cache = c.cache
        /\ ~r.job["capacity"].live /\ r.at["capacity"].error = error /\ ~r.at["capacity"].loading
    <3>1. r.cache = d.cache => r.cache = c.cache
      BY <2>0
    <3> QED
      BY <1>0, <1>2, <2>3, <2>6, <3>1, EndedFields
  <2>8. Good(r, "capacity")
    BY <2>2, <2>7 DEF Good, RequestHeld, Stats!Settled, CapacityHeld, WholeHeld
  <2>9. CachesHeld(r) /\ Apart(page, r, "capacity")
    BY <1>5, <2>7, ApartTwice DEF CachesHeld
  <2> QED
    BY <1>0, <2>5, <2>7, <2>8, <2>9, OnePanelHeld
<1>7. ASSUME job.out = {} /\ job.todo = {}, ~\A s \in DOMAIN job.got : job.got[s] = Lost
      PROVE  StatsPage(page')
  <2>1. PICK f : f = Stats!With(q.cache["capacity"], job.key, job.got)
    OBVIOUS
  <2>2. PICK d : d = [c EXCEPT !.cache["capacity"] = f]
    OBVIOUS
  <2>3. PICK error : error = "none"
    OBVIOUS
  <2>4. PICK r : r = Stats!Show(d, "capacity", whole, error)
    OBVIOUS
  <2>5. Stats!Become(r)
    <3>1. d = [q EXCEPT !.job["capacity"] = Stats!NoJob,
                        !.cache["capacity"] = Stats!With(@, job.key, job.got)]
      BY <1>2, <2>1, <2>2 DEF StatsTyped, StatsFields
    <3>2. Stats!Progress(q, job) = Stats!Show(d, "capacity", whole, "none")
      BY <1>1, <1>7, <3>1 DEF Stats!Progress
    <3> QED
      BY <2>3, <2>4, <3>2
  <2>6. "capacity" \in DOMAIN c.cache
    BY <1>0, <1>4 DEF StatsTyped
  <2>7. /\ StatsTyped(d) /\ SameChoices(c, d) /\ SameRequests(c, d)
        /\ d.cache["capacity"] = f /\ d.cache["chunk"] = c.cache["chunk"]
    <3>1. \A x \in DOMAIN c.cache \ {"capacity"} : d.cache[x] = c.cache[x]
      BY <1>4, <2>2, <2>6, CacheFields
    <3>2. "chunk" \in DOMAIN c.cache \ {"capacity"}
      BY <1>4 DEF StatsTyped
    <3> QED
      BY <1>4, <2>2, <2>6, <3>1, <3>2, CacheFields
  <2>8. /\ StatsTyped(r) /\ Apart(q, r, "capacity") /\ r.cache = d.cache
        /\ ~r.job["capacity"].live /\ r.at["capacity"].data = whole
        /\ r.at["capacity"].error = error /\ ~r.at["capacity"].loading
    BY <1>0, <1>2, <2>4, <2>7, EndedFields
  <2>9. /\ DOMAIN job.got = Stats!RangeOf(q) /\ NotBefore(job.got, q.since)
        /\ \E s \in DOMAIN job.got : job.got[s] # Lost
    BY <1>3, <1>7 DEF ChunksHeld
  <2>10. CachesHeld(r)
    <3>1. q.since \in Nat
      BY StatsConstants DEF StatsTyped, Stats!StatsAssumption
    <3>2. NotBefore(job.got, 0)
      BY <2>9, <3>1 DEF NotBefore
    <3>3. /\ DOMAIN f = {job.key} \union DOMAIN q.cache["capacity"] /\ f[job.key] = job.got
          /\ \A k \in DOMAIN q.cache["capacity"] : k # job.key => f[k] = q.cache["capacity"][k]
      BY <2>1 DEF Stats!With
    <3>4. c.cache = q.cache
      BY <1>4 DEF SameBeside
    <3>5. ASSUME NEW k \in DOMAIN f
          PROVE  DOMAIN f[k] = k[1] /\ NotBefore(f[k], 0) /\ \E s \in DOMAIN f[k] : f[k][s] # Lost
      <4>1. CASE k = job.key
        BY <1>3, <2>9, <3>2, <3>3, <4>1
      <4>2. CASE k # job.key
        BY <3>3, <3>5, <4>2 DEF CachesHeld
      <4> QED
        BY <4>1, <4>2
    <3>6. \A k \in DOMAIN r.cache["chunk"] : r.cache["chunk"][k] \in Nat
      BY <2>7, <2>8, <3>4 DEF CachesHeld
    <3> QED
      BY <2>7, <2>8, <3>5, <3>6 DEF CachesHeld
  <2>11. Good(r, "capacity")
    <3>1. Stats!Key(r, "capacity") = Stats!Key(q, "capacity") /\ Stats!RangeOf(r) = Stats!RangeOf(q) /\ r.since = q.since
      BY <2>8, RangeApart DEF Apart
    <3>2. whole.known /\ whole.key = job.key /\ whole.got = job.got
      BY <1>1 DEF Stats!Data
    <3>3. RequestHeld(r, "capacity")
      BY <1>3, <2>8, <3>1, <3>2 DEF RequestHeld
    <3>4. CapacityHeld(r)
      BY <2>8, <2>9, <3>1, <3>2 DEF CapacityHeld, WholeHeld
    <3> QED
      BY <3>3, <3>4 DEF Good
  <2>12. Apart(page, r, "capacity")
    BY <2>8, ApartTwice
  <2> QED
    BY <1>0, <2>5, <2>8, <2>10, <2>11, <2>12, OnePanelHeld
<1>8. ASSUME ~(job.out = {} /\ job.todo = {}) PROVE StatsPage(page')
  <2>1. PICK at : at = IF DOMAIN job.got = {} THEN q.at
                       ELSE [q.at EXCEPT !["capacity"].data = whole]
    OBVIOUS
  <2>2. PICK held : held = [q.job EXCEPT !["capacity"] = job]
    OBVIOUS
  <2>3. PICK r : r = [q EXCEPT !.at = at, !.job = held]
    OBVIOUS
  <2>4. Stats!Become(r)
    <3>1. DOMAIN q = StatsFields
      BY DEF StatsTyped
    <3>2. CASE DOMAIN job.got = {}
      <4>1. Stats!Progress(q, job) = [q EXCEPT !.job["capacity"] = job]
        BY <1>1, <1>8, <3>2 DEF Stats!Progress
      <4>2. r = [q EXCEPT !.job = held]
        BY <2>1, <2>3, <3>1, <3>2 DEF StatsFields
      <4> QED
        BY <2>2, <4>1, <4>2
    <3>3. CASE DOMAIN job.got # {}
      <4>1. PICK some : some = [q EXCEPT !.at = at]
        OBVIOUS
      <4>2. some = [q EXCEPT !.at["capacity"].data = whole]
        BY <2>1, <3>3, <4>1
      <4>3. Stats!Progress(q, job) = [some EXCEPT !.job["capacity"] = job]
        BY <1>1, <1>8, <3>3, <4>2 DEF Stats!Progress
      <4>4. r = [some EXCEPT !.job["capacity"] = job]
        BY <2>2, <2>3, <3>1, <4>1 DEF StatsFields
      <4> QED
        BY <4>3, <4>4
    <3> QED
      BY <3>2, <3>3
  <2>5. /\ DOMAIN at = Stats!Panels /\ AtTyped(at["capacity"])
        /\ \A x \in Stats!Panels \ {"capacity"} : at[x] = q.at[x]
    BY <1>0, <2>1 DEF StatsTyped, PanelsTyped, AtTyped
  <2>6. /\ DOMAIN held = Stats!Panels /\ held["capacity"] = job
        /\ \A x \in Stats!Panels \ {"capacity"} : held[x] = q.job[x]
    BY <1>0, <2>2 DEF StatsTyped, PanelsTyped
  <2>7. /\ DOMAIN r = StatsFields /\ SameChoices(q, r) /\ r.next = q.next /\ r.at = at
        /\ r.job = held /\ r.force = q.force /\ r.cache = q.cache /\ r.emptied = q.emptied
        /\ r.since = q.since /\ r.now = q.now
    BY <2>3 DEF StatsTyped, StatsFields, SameChoices
  <2>8. StatsTyped(r)
    <3>1. ChoicesTyped(r)
      BY <2>7 DEF StatsTyped, ChoicesTyped, SameChoices
    <3>2. JobTyped(job)
      BY DEF ChunksHeld
    <3>3. PanelsTyped(r)
      BY <2>5, <2>6, <2>7, <3>2 DEF StatsTyped, PanelsTyped
    <3> QED
      BY <2>7, <3>1, <3>3 DEF StatsTyped
  <2>9. Apart(q, r, "capacity") /\ CachesHeld(r)
    BY <2>5, <2>6, <2>7 DEF Apart, SameRequest, CachesHeld
  <2>10. Good(r, "capacity")
    <3>1. /\ Stats!Open(r, "capacity") /\ Stats!Refused(r, "capacity") = "none"
          /\ Stats!Key(r, "capacity") = Stats!Key(q, "capacity")
      BY <1>3, <2>7, RangeApart
    <3>2. job.live /\ r.job["capacity"] = job
      BY <2>6, <2>7 DEF ChunksHeld
    <3>3. RequestHeld(r, "capacity")
      BY <1>3, <3>1, <3>2 DEF RequestHeld, Stats!Settled
    <3>4. ChunksHeld(r, job)
      BY <2>7, <3>1 DEF ChunksHeld
    <3>5. CapacityHeld(r)
      BY <3>2, <3>4 DEF CapacityHeld, WholeHeld, Stats!Settled
    <3> QED
      BY <3>3, <3>5 DEF Good
  <2>11. Apart(page, r, "capacity")
    BY <2>9, ApartTwice
  <2> QED
    BY <1>0, <2>4, <2>8, <2>9, <2>10, <2>11, OnePanelHeld
<1> QED
  BY <1>6, <1>7, <1>8

\* A chunk is no longer asked for: it has come, or is lost.
LEMMA HadHeld ==
  ASSUME NEW p, NEW job, ChunksHeld(p, job), NEW s \in job.out,
         NEW v, v \in Int => v >= p.since,
         NEW had, had = [job EXCEPT !.out = @ \ {s}, !.got = Stats!With(@, s, v)]
  PROVE  ChunksHeld(p, had)
<1>1. PICK got : got = Stats!With(job.got, s, v)
  OBVIOUS
<1>2. /\ DOMAIN had = JobFields /\ had.live = job.live /\ had.key = job.key
      /\ had.force = job.force /\ had.asking = job.asking /\ had.todo = job.todo
      /\ had.out = job.out \ {s} /\ had.got = got
  BY <1>1 DEF ChunksHeld, JobTyped, JobFields
<1>3. /\ DOMAIN got = {s} \union DOMAIN job.got /\ got[s] = v
      /\ \A t \in DOMAIN job.got : t # s => got[t] = job.got[t]
  BY <1>1 DEF Stats!With
<1>4. IsFiniteSet(had.out) /\ Cardinality(had.out) <= StatsWorkers
  <2>1. StatsWorkers \in Nat /\ Cardinality(job.out) \in Nat /\ Cardinality(job.out) <= StatsWorkers
    BY StatsConstants, FS_CardinalityType DEF Stats!StatsAssumption, ChunksHeld
  <2>2. IsFiniteSet(job.out \ {s}) /\ Cardinality(job.out \ {s}) = Cardinality(job.out) - 1
    BY FS_RemoveElement DEF ChunksHeld
  <2> QED
    BY <1>2, <2>1, <2>2
<1>5. NotBefore(had.got, p.since)
  BY <1>2, <1>3 DEF NotBefore, ChunksHeld
<1>6. /\ had.todo \subseteq Stats!Sprints
      /\ had.todo \intersect (had.out \union DOMAIN had.got) = {}
      /\ had.out \intersect DOMAIN had.got = {}
      /\ had.out \union had.todo \union DOMAIN had.got = had.key[1]
  BY <1>2, <1>3 DEF ChunksHeld
<1>7. JobTyped(had) /\ had.live /\ had.key = Stats!Key(p, "capacity") /\ (had.force \/ p.since = 0)
  BY <1>2 DEF ChunksHeld, JobTyped
<1> QED
  BY <1>4, <1>5, <1>6, <1>7 DEF ChunksHeld

LEMMA ChunksOf ==
  ASSUME StatsPage(page), page.job["capacity"].live
  PROVE  ChunksHeld(page, page.job["capacity"])
BY DEF StatsPage, CapacityHeld

LEMMA ChunksKept ==
  ASSUME NEW b, NEW r, SameChoices(b, r), r.since = b.since, NEW job, ChunksHeld(b, job)
  PROVE  ChunksHeld(r, job)
BY RangeApart DEF ChunksHeld

LEMMA ChunkArrivesHeld == ASSUME StatsPage(page), Stats!ChunkArrives PROVE StatsPage(page')
<1>1. PICK job : job = page.job["capacity"]
  OBVIOUS
<1>2. PICK s \in job.out, v \in 1..page.now :
        LET q == [page EXCEPT !.cache["chunk"] = Stats!With(@, <<s, page.scope>>, v)]
            had == [job EXCEPT !.out = @ \ {s}, !.got = Stats!With(@, s, v)]
        IN /\ job.force => v = page.now
           /\ Stats!Become(Stats!Progress(q, Stats!Taken(q, had)))
  BY <1>1 DEF Stats!ChunkArrives
<1>3. PICK f : f = Stats!With(page.cache["chunk"], <<s, page.scope>>, v)
  OBVIOUS
<1>4. PICK q : q = [page EXCEPT !.cache["chunk"] = f]
  OBVIOUS
<1>5. PICK had : had = [job EXCEPT !.out = @ \ {s}, !.got = Stats!With(@, s, v)]
  OBVIOUS
<1>6. PICK r : r = Stats!Taken(q, had)
  OBVIOUS
<1>7. (job.force => v = page.now) /\ Stats!Become(Stats!Progress(q, r))
  <2>1. q = [page EXCEPT !.cache["chunk"] = Stats!With(@, <<s, page.scope>>, v)]
    BY <1>3, <1>4 DEF StatsPage, StatsTyped, StatsFields
  <2> QED
    BY <1>2, <1>5, <1>6, <2>1
<1>8. StatsTyped(page) /\ CachesHeld(page) /\ job.live /\ ChunksHeld(page, job)
  BY <1>1, ChunksOf DEF StatsPage, Stats!ChunkArrives
<1>9. "chunk" \in DOMAIN page.cache /\ "capacity" \in DOMAIN page.cache \ {"chunk"}
  BY <1>8 DEF StatsTyped, Stats!Panels
<1>10. /\ StatsTyped(q) /\ SameChoices(page, q) /\ SameRequests(page, q) /\ q.cache["chunk"] = f
       /\ \A x \in DOMAIN page.cache \ {"chunk"} : q.cache[x] = page.cache[x]
  BY <1>4, <1>8, <1>9, CacheFields
<1>11. v \in Nat /\ (v \in Int => v >= page.since)
  <2>1. page.now \in Nat /\ page.since \in 0..page.now /\ v \in 1..page.now
    BY <1>8, StatsConstants DEF StatsTyped, Stats!StatsAssumption
  <2>2. job.force \/ page.since = 0
    BY <1>8 DEF ChunksHeld
  <2> QED
    BY <1>7, <2>1, <2>2
<1>12. CachesHeld(q)
  <2>1. \A k \in DOMAIN f : f[k] \in Nat
    BY <1>3, <1>8, <1>11 DEF Stats!With, CachesHeld
  <2> QED
    BY <1>8, <1>9, <1>10, <2>1 DEF CachesHeld
<1>13. ChunksHeld(page, had)
  BY <1>5, <1>8, <1>11, HadHeld
<1>14. ChunksHeld(q, had)
  BY <1>10, <1>13, ChunksKept DEF SameRequests
<1>15. ChunksHeld(q, r)
  BY <1>6, <1>10, <1>12, <1>14, TakenHeld
<1>16. Apart(page, q, "capacity")
  BY <1>10, ApartSame
<1> QED
  BY <1>1, <1>7, <1>8, <1>10, <1>12, <1>15, <1>16, ProgressHeld

LEMMA ChunkLostHeld == ASSUME StatsPage(page), Stats!ChunkLost PROVE StatsPage(page')
<1>1. PICK job : job = page.job["capacity"]
  OBVIOUS
<1>2. PICK s \in job.out :
        Stats!Become(Stats!Progress([page EXCEPT !.fails = @ + 1],
                        Stats!Taken(page, [job EXCEPT !.out = @ \ {s}, !.got = Stats!With(@, s, Lost)])))
  BY <1>1 DEF Stats!ChunkLost
<1>3. PICK n : n = page.fails + 1
  OBVIOUS
<1>4. PICK q : q = [page EXCEPT !.fails = n]
  OBVIOUS
<1>5. PICK had : had = [job EXCEPT !.out = @ \ {s}, !.got = Stats!With(@, s, Lost)]
  OBVIOUS
<1>6. PICK r : r = Stats!Taken(page, had)
  OBVIOUS
<1>7. Stats!Become(Stats!Progress(q, r))
  <2>1. q = [page EXCEPT !.fails = @ + 1]
    BY <1>3, <1>4 DEF StatsPage, StatsTyped, StatsFields
  <2> QED
    BY <1>2, <1>5, <1>6, <2>1
<1>8. StatsTyped(page) /\ CachesHeld(page) /\ job.live /\ ChunksHeld(page, job)
  BY <1>1, ChunksOf DEF StatsPage, Stats!ChunkLost
<1>9. StatsTyped(q) /\ CachesHeld(q) /\ SameChoices(page, q) /\ SameRequests(page, q)
  BY <1>4, <1>8, FailsFields
<1>10. Lost \in Int => Lost >= page.since
  BY StatsConstants DEF Stats!StatsAssumption
<1>11. ChunksHeld(page, had)
  BY <1>5, <1>8, <1>10, HadHeld
<1>12. ChunksHeld(page, r)
  BY <1>6, <1>8, <1>11, TakenHeld
<1>13. ChunksHeld(q, r)
  BY <1>9, <1>12, ChunksKept DEF SameRequests
<1>14. Apart(page, q, "capacity")
  BY <1>9, ApartSame
<1> QED
  BY <1>1, <1>7, <1>8, <1>9, <1>13, <1>14, ProgressHeld

LEMMA SendHeld == ASSUME StatsPage(page), Stats!Send PROVE StatsPage(page')
<1>1. PICK panel \in Stats!Panels :
        LET job == page.job[panel]
            q == [page EXCEPT !.at[panel].loading = TRUE, !.at[panel].error = "none",
                              !.job[panel].asking = TRUE]
        IN /\ job.live /\ ~job.asking
           /\ Stats!Become(IF panel = "capacity" THEN Stats!Progress(q, Stats!Taken(q, q.job[panel])) ELSE q)
  BY DEF Stats!Send
<1>2. PICK at : at = [[page.at EXCEPT ![panel].loading = TRUE] EXCEPT ![panel].error = "none"]
  OBVIOUS
<1>3. PICK job : job = [page.job[panel] EXCEPT !.asking = TRUE]
  OBVIOUS
<1>4. PICK held : held = [page.job EXCEPT ![panel] = job]
  OBVIOUS
<1>5. PICK q : q = [page EXCEPT !.at = at, !.job = held]
  OBVIOUS
<1>6. StatsTyped(page) /\ CachesHeld(page) /\ RequestHeld(page, panel)
  BY DEF StatsPage
<1>7. /\ page.job[panel].live
      /\ Stats!Become(IF panel = "capacity" THEN Stats!Progress(q, Stats!Taken(q, q.job[panel])) ELSE q)
  <2>1. q = [page EXCEPT !.at[panel].loading = TRUE, !.at[panel].error = "none",
                         !.job[panel].asking = TRUE]
    <3>0. DOMAIN page = StatsFields
      BY <1>6 DEF StatsTyped
    <3>1. PICK b : b = [page EXCEPT !.at = at]
      OBVIOUS
    <3>2. b = [page EXCEPT !.at[panel].loading = TRUE, !.at[panel].error = "none"]
      <4>1. PICK first : first = [page.at EXCEPT ![panel].loading = TRUE]
        OBVIOUS
      <4>2. PICK a : a = [page EXCEPT !.at = first]
        OBVIOUS
      <4>3. a = [page EXCEPT !.at[panel].loading = TRUE]
        BY <4>1, <4>2
      <4>4. a.at = first
        BY <3>0, <4>2 DEF StatsFields
      <4>5. b = [a EXCEPT !.at = at]
        BY <3>0, <3>1, <4>2 DEF StatsFields
      <4>6. b = [a EXCEPT !.at[panel].error = "none"]
        BY <1>2, <4>1, <4>4, <4>5
      <4> QED
        BY <4>3, <4>6
    <3>3. q = [b EXCEPT !.job[panel].asking = TRUE]
      BY <1>3, <1>4, <1>5, <1>6, <3>1 DEF StatsTyped, StatsFields
    <3> QED
      BY <3>2, <3>3
  <2> QED
    BY <1>1, <2>1
<1>8. /\ DOMAIN at = Stats!Panels /\ AtTyped(at[panel]) /\ at[panel].data = page.at[panel].data
      /\ \A x \in Stats!Panels \ {panel} : at[x] = page.at[x]
  BY <1>2, <1>6 DEF StatsTyped, PanelsTyped, AtTyped
<1>9. /\ DOMAIN held = Stats!Panels /\ held[panel] = job
      /\ \A x \in Stats!Panels \ {panel} : held[x] = page.job[x]
  BY <1>4, <1>6 DEF StatsTyped, PanelsTyped
<1>10. /\ DOMAIN job = JobFields /\ job.live = page.job[panel].live /\ job.key = page.job[panel].key
       /\ job.force = page.job[panel].force /\ job.asking = TRUE /\ job.todo = page.job[panel].todo
       /\ job.out = page.job[panel].out /\ job.got = page.job[panel].got
  BY <1>3, <1>6 DEF StatsTyped, PanelsTyped, JobTyped, JobFields
<1>11. /\ DOMAIN q = StatsFields /\ SameChoices(page, q) /\ q.next = page.next /\ q.at = at
       /\ q.job = held /\ q.force = page.force /\ q.cache = page.cache
       /\ q.emptied = page.emptied /\ q.since = page.since /\ q.now = page.now
  BY <1>5, <1>6 DEF StatsTyped, StatsFields, SameChoices
<1>12. StatsTyped(q)
  <2>1. ChoicesTyped(q)
    BY <1>6, <1>11 DEF StatsTyped, ChoicesTyped, SameChoices
  <2>2. JobTyped(job)
    BY <1>10 DEF JobTyped
  <2>3. PanelsTyped(q)
    BY <1>6, <1>8, <1>9, <1>11, <2>2 DEF StatsTyped, PanelsTyped
  <2> QED
    BY <1>6, <1>11, <2>1, <2>3 DEF StatsTyped
<1>13. CachesHeld(q) /\ Apart(page, q, panel)
  BY <1>6, <1>8, <1>9, <1>11 DEF CachesHeld, Apart, SameRequest
<1>14. CASE panel = "capacity"
  <2>1. Stats!Become(Stats!Progress(q, Stats!Taken(q, job)))
    BY <1>7, <1>9, <1>11, <1>14
  <2>2. ChunksHeld(page, page.job["capacity"])
    BY <1>7, <1>14, ChunksOf
  <2>3. ChunksHeld(page, job)
    BY <1>10, <1>14, <2>2 DEF ChunksHeld, JobTyped
  <2>4. ChunksHeld(q, job)
    BY <1>11, <2>3, ChunksKept
  <2>5. PICK r : r = Stats!Taken(q, job)
    OBVIOUS
  <2>6. ChunksHeld(q, r)
    BY <1>12, <1>13, <2>4, <2>5, TakenHeld
  <2> QED
    BY <1>7, <1>12, <1>13, <1>14, <2>1, <2>5, <2>6, ProgressHeld
<1>15. CASE panel # "capacity"
  <2>1. Stats!PhaseKeys(page) = Stats!PhaseKeys(q)
    BY <1>13, <1>15, PhaseKeysApart
  <2>2. /\ Stats!Open(page, panel) <=> Stats!Open(q, panel)
        /\ Stats!Refused(page, panel) = Stats!Refused(q, panel) /\ Stats!Key(page, panel) = Stats!Key(q, panel)
    BY <1>11, <2>1, ChoicesDecide
  <2>3. q.fetched = page.fetched
    BY <1>11 DEF SameChoices
  <2>4. RequestHeld(q, panel)
    BY <1>6, <1>7, <1>9, <1>10, <1>11, <2>2, <2>3 DEF RequestHeld, Stats!Settled
  <2>5. Good(q, panel) /\ Stats!Become(q)
    BY <1>7, <1>15, <2>4 DEF Good
  <2> QED
    BY <1>12, <1>13, <2>5, OnePanelHeld
<1> QED
  BY <1>14, <1>15

-----------------------------------------------------------------------------

LEMMA StatsPageInit == Stats!Init => StatsPage(page)
<1> SUFFICES ASSUME Stats!Init PROVE StatsPage(page)
  OBVIOUS
<1>1. PICK view \in {"burnout", "cohort", "projectTrack"}, config \in [excluded : BOOLEAN, adHoc : BOOLEAN],
           gate \in BOOLEAN :
        page = [view |-> "hidden", next |-> view, mode |-> "epic", gate |-> gate,
                scope |-> CHOOSE s \in Scopes : TRUE, sprint |-> None,
                start |-> None, end |-> None, quarters |-> 1, config |-> config, ident |-> 0,
                nonce |-> 0, force |-> FALSE, fetched |-> FALSE, tasks |-> 0,
                at |-> [panel \in Stats!Panels |-> Stats!NoPanel], job |-> [panel \in Stats!Panels |-> Stats!NoJob],
                cache |-> Stats!Empty, emptied |-> {}, since |-> 0, now |-> 1, turns |-> 0, fails |-> 0]
  BY DEF Stats!Init
<1>2. PICK scope \in Scopes : scope = CHOOSE s \in Scopes : TRUE
  BY StatsConstants DEF Stats!StatsAssumption
<1>3. /\ page.view = "hidden" /\ page.next \in Stats!Views /\ page.mode = "epic" /\ page.gate \in BOOLEAN
      /\ page.scope \in Scopes /\ page.sprint = None /\ page.start = None /\ page.end = None
      /\ page.force = FALSE /\ page.fetched = FALSE /\ page.nonce = 0 /\ page.emptied = {}
      /\ page.since = 0 /\ page.now = 1 /\ DOMAIN page = StatsFields
      /\ page.at = [panel \in Stats!Panels |-> Stats!NoPanel] /\ page.job = [panel \in Stats!Panels |-> Stats!NoJob]
      /\ page.cache = Stats!Empty
  <2>1. view \in Stats!Views
    BY DEF Stats!Views, Stats!CapacityViews
  <2> QED
    BY <1>1, <1>2, <2>1 DEF StatsFields
<1>4. AtTyped(Stats!NoPanel) /\ JobTyped(Stats!NoJob) /\ ~Stats!NoJob.live
  BY DEF AtTyped, JobTyped, Stats!NoPanel, Stats!NoJob, JobFields
<1>5. StatsTyped(page)
  <2>1. ChoicesTyped(page)
    <3>1. "hidden" \in Stats!Views /\ 0 \in Nat
      BY DEF Stats!Views
    <3> QED
      BY <1>3, <3>1 DEF ChoicesTyped
  <2>2. PanelsTyped(page)
    BY <1>3, <1>4 DEF PanelsTyped
  <2>3. page.now \in 1..MaxNow /\ page.since \in 0..page.now
    BY <1>3, StatsConstants DEF Stats!StatsAssumption
  <2> QED
    BY <1>3, <2>1, <2>2, <2>3 DEF StatsTyped, Stats!Empty
<1>6. CachesHeld(page)
  <2>1. page.cache["chunk"] = <<>> /\ page.cache["capacity"] = <<>>
    BY <1>3 DEF Stats!Empty, Stats!Panels
  <2> QED
    BY <2>1 DEF CachesHeld
<1>7. \A panel \in Stats!Panels : ~Stats!Open(page, panel) /\ ~page.job[panel].live
  BY <1>3, <1>4 DEF Stats!Open, Stats!Panels, Stats!CapacityViews
<1>8. \A panel \in Stats!Panels : RequestHeld(page, panel)
  BY <1>7 DEF RequestHeld, Stats!Settled
<1>9. CapacityHeld(page)
  BY <1>7 DEF CapacityHeld, WholeHeld, Stats!Settled, Stats!Panels
<1> QED
  BY <1>5, <1>6, <1>8, <1>9 DEF StatsPage

LEMMA StatsPageStep == ASSUME StatsPage(page), Stats!Next PROVE StatsPage(page')
BY ShowStatsHeld, SetViewHeld, SetModeHeld, ChooseTeamsHeld, SetQuartersHeld, SetRangeHeld,
   SprintsListedHeld, SelectStatsSprintHeld, TasksLoadedHeld, FinishOnboardingHeld, JiraMovesHeld,
   RefreshStatsHeld, SaveGroupsHeld, ToggleExcludedHeld, InvalidateHeld, SendHeld, AnswerHeld,
   FailHeld, ChunkArrivesHeld, ChunkLostHeld DEF Stats!Next

LEMMA StatsPageSound == StatsPage(page) => Stats!TypeOK /\ Stats!StatsSound
<1> SUFFICES ASSUME StatsPage(page) PROVE Stats!TypeOK /\ Stats!StatsSound
  OBVIOUS
<1>1. Stats!TypeOK
  <2>1. page.since \in 0..MaxNow
    BY StatsConstants DEF StatsPage, StatsTyped, Stats!StatsAssumption
  <2>2. page.emptied \subseteq Stats!Panels
    BY DEF StatsPage, StatsTyped
  <2>3. \A panel \in Stats!Panels : page.at[panel].loading \in BOOLEAN /\ page.job[panel].asking \in BOOLEAN
    BY DEF StatsPage, StatsTyped, PanelsTyped, AtTyped, JobTyped
  <2> QED
    BY <2>1, <2>2, <2>3 DEF StatsPage, StatsTyped, ChoicesTyped, Stats!TypeOK
<1>2. Stats!LoadingHasRequest(page) /\ Stats!ShownIsAsked(page)
  BY DEF StatsPage, RequestHeld, Stats!LoadingHasRequest, Stats!ShownIsAsked
<1>3. Stats!SprintsAccounted(page)
  BY StatsCardinality DEF StatsPage, CapacityHeld, WholeHeld, ChunksHeld, Stats!SprintsAccounted
<1>4. Stats!RefreshIsFresh(page)
  BY DEF StatsPage, CapacityHeld, WholeHeld, NotBefore, Stats!RefreshIsFresh
<1> QED
  BY <1>1, <1>2, <1>3, <1>4 DEF Stats!StatsSound

StatsInv == part = "stats" => StatsPage(page)

(* For any teams, sprints, epics, number of workers and order of choices,    *)
(* answers and failures: a panel of Statistics that loads has a request of   *)
(* its own, what it shows at rest is of the filters shown, the workers keep  *)
(* to their number, every sprint of the range is accounted for, and after    *)
(* Refresh no chunk is older than it.                                        *)
THEOREM StatsAlwaysSound == PartsSpec => []StatsSound
<1>1. PartsInit => StatsInv
  BY StatsPageInit DEF PartsInit, StatsInv
<1>2. StatsInv /\ [PartsNext]_partVars => StatsInv'
  <2>1. SUFFICES ASSUME StatsInv, [PartsNext]_partVars, part' = "stats"
                 PROVE  StatsPage(page')
    BY DEF StatsInv
  <2>2. CASE MenusNext
    BY <2>1, <2>2 DEF MenusNext
  <2>3. CASE DependenciesNext
    BY <2>1, <2>3 DEF DependenciesNext
  <2>4. CASE StatsNext
    BY <2>1, <2>4, StatsPageStep DEF StatsNext, StatsInv
  <2>5. CASE AlertsNext
    BY <2>1, <2>5 DEF AlertsNext
  <2>6. CASE TimelineNext
    BY <2>1, <2>6 DEF TimelineNext
  <2>7. CASE BurndownNext
    BY <2>1, <2>7 DEF BurndownNext
  <2>8. CASE UNCHANGED partVars
    BY <2>1, <2>8 DEF partVars, StatsInv
  <2> QED
    BY <2>1, <2>2, <2>3, <2>4, <2>5, <2>6, <2>7, <2>8 DEF PartsNext
<1>3. StatsInv => StatsSound
  BY StatsPageSound DEF StatsInv, StatsSound
<1> QED
  BY <1>1, <1>2, <1>3, PTL DEF PartsSpec

-----------------------------------------------------------------------------
(* The alerts: the page and its invariant.                                   *)

AlertFields ==
    {"epics", "stories", "data", "teams", "found", "dismissed", "panel", "folded", "party",
     "acts", "losses"}

ListsOf ==
    {"sprint", "tasks", "incomplete", "scope", "counts", "ready", "openChildren", "children",
     "backlog", "complete", "fresh"}

\* Lists that nobody has patched are those the server sends of what Jira holds,
\* and say whether it could count.
AsLoaded(p) ==
    \E lost \in BOOLEAN : p.data = Alerts!Loaded(p, p.data.sprint, lost)

AlertsPage(p) ==
    /\ DOMAIN p = AlertFields /\ DOMAIN p.data = ListsOf
    /\ DOMAIN p.epics = Epics /\ DOMAIN p.stories = Stories
    /\ p.data.sprint \in {Alerts!Active, Alerts!Future}
    /\ p.teams \subseteq GroupTeams /\ p.found \subseteq Stories
    /\ p.dismissed \subseteq Epics \union Stories
    /\ p.folded \subseteq Alerts!Cards /\ p.party \subseteq Alerts!Cards
    /\ p.acts \in 0 .. MaxActs /\ p.losses \in 0 .. MaxLosses
    /\ p.data.fresh => AsLoaded(p)

-----------------------------------------------------------------------------
(* What is loaded.                                                           *)

LEMMA AlertsCardinality == \A S : Alerts!Cardinality(S) = Cardinality(S)
BY DEF Alerts!Cardinality, Cardinality

LEMMA AlertsFinite == \A S : Alerts!IsFiniteSet(S) <=> IsFiniteSet(S)
BY DEF Alerts!IsFiniteSet, IsFiniteSet

LEMMA LoadedSame ==
  ASSUME NEW b, NEW r, r.epics = b.epics, r.stories = b.stories, NEW sprint, NEW lost
  PROVE  Alerts!Loaded(b, sprint, lost) = Alerts!Loaded(r, sprint, lost)
<1>1. \A e : Alerts!Children(b, e) = Alerts!Children(r, e)
  BY DEF Alerts!Children
<1>2. ASSUME NEW e, NEW s PROVE Alerts!Counted(b, e, s, lost) = Alerts!Counted(r, e, s, lost)
  <2>1. PICK known : known = (IF lost THEN {} ELSE Alerts!Children(b, e))
    OBVIOUS
  <2>2. known = (IF lost THEN {} ELSE Alerts!Children(r, e))
    BY <1>1, <2>1
  <2>3. PICK chosen : chosen = {k \in known : b.stories[k].sprint = s}
    OBVIOUS
  <2>4. chosen = {k \in known : r.stories[k].sprint = s}
    BY <2>3
  <2>5. PICK acting : acting = {k \in chosen : Alerts!Actionable(b.stories[k])}
    OBVIOUS
  <2>6. acting = {k \in chosen : Alerts!Actionable(r.stories[k])}
    BY <2>5
  <2>7. PICK open : open = {k \in known : b.stories[k].status \notin Alerts!Terminal}
    OBVIOUS
  <2>8. open = {k \in known : r.stories[k].status \notin Alerts!Terminal}
    BY <2>7
  <2>9. PICK later : later = {k \in open : b.stories[k].sprint = Alerts!Future}
    OBVIOUS
  <2>10. later = {k \in open : r.stories[k].sprint = Alerts!Future}
    BY <2>9
  <2>11. PICK byTeam :
           byTeam = [t \in GroupTeams |-> Alerts!Cardinality({k \in acting : b.stories[k].team = t})]
    OBVIOUS
  <2>12. \A t : {k \in acting : b.stories[k].team = t} = {k \in acting : r.stories[k].team = t}
    OBVIOUS
  <2>13. byTeam = [t \in GroupTeams |-> Alerts!Cardinality({k \in acting : r.stories[k].team = t})]
    BY <2>11, <2>12
  <2>14. PICK n : n = [total |-> Alerts!Cardinality(known), selected |-> Alerts!Cardinality(chosen),
                       acting |-> Alerts!Cardinality(acting), byTeam |-> byTeam,
                       future |-> Alerts!Cardinality(later),
                       outside |-> Alerts!Cardinality(open \ chosen), open |-> Alerts!Cardinality(open)]
    OBVIOUS
  <2>15. Alerts!Counted(b, e, s, lost) = n
    BY <2>1, <2>3, <2>5, <2>7, <2>9, <2>11, <2>14, Zenon DEF Alerts!Counted
  <2>16. Alerts!Counted(r, e, s, lost) = n
    BY <2>2, <2>4, <2>6, <2>8, <2>10, <2>13, <2>14, Zenon DEF Alerts!Counted
  <2> QED
    BY <2>15, <2>16
<1>3. Alerts!Incomplete(b, sprint) = Alerts!Incomplete(r, sprint)
  BY DEF Alerts!Incomplete
<1>4. PICK tasks : tasks = {k \in Stories : b.stories[k].sprint = sprint /\ Alerts!OfGroup(b.stories[k])}
  OBVIOUS
<1> QED
  BY <1>2, <1>3 DEF Alerts!Loaded

LEMMA LoadedFields ==
  ASSUME NEW p, NEW sprint, NEW lost \in BOOLEAN, NEW d, d = Alerts!Loaded(p, sprint, lost)
  PROVE  /\ DOMAIN d = ListsOf /\ d.sprint = sprint /\ d.fresh /\ (d.complete <=> ~lost)
         /\ DOMAIN d.tasks = {k \in Stories : p.stories[k].sprint = sprint /\ Alerts!OfGroup(p.stories[k])}
         /\ \A k \in DOMAIN d.tasks : d.tasks[k] = p.stories[k]
         /\ DOMAIN d.incomplete \subseteq Stories
         /\ \A k \in DOMAIN d.incomplete : d.incomplete[k] = p.stories[k]
         /\ DOMAIN d.scope \subseteq Epics
         /\ \A e \in DOMAIN d.scope : d.scope[e] = p.epics[e] /\ Alerts!EpicMatches(p.epics[e], sprint)
         /\ \A e \in DOMAIN d.scope : d.counts[e] = Alerts!Counted(p, e, sprint, lost)
         /\ \A e \in DOMAIN d.ready : d.openChildren[e] = Alerts!Counted(p, e, None, lost).open
<1> DEFINE mine(k) == p.stories[k].sprint = sprint /\ Alerts!OfGroup(p.stories[k])
           tasks == {k \in Stories : mine(k)}
           parents == {p.stories[k].epic : k \in tasks} \ {None}
           scope == {e \in Epics : Alerts!InScope(p.epics[e], sprint)}
<1>1. PICK backlog, children :
        d = [sprint |-> sprint,
             tasks |-> [k \in tasks |-> p.stories[k]],
             incomplete |-> [k \in Alerts!Incomplete(p, sprint) |-> p.stories[k]],
             scope |-> [e \in scope |-> p.epics[e]],
             counts |-> [e \in scope |-> Alerts!Counted(p, e, sprint, lost)],
             ready |-> [e \in parents |-> p.epics[e]],
             openChildren |-> [e \in parents |-> Alerts!Counted(p, e, None, lost).open],
             children |-> children, backlog |-> backlog,
             complete |-> ~lost, fresh |-> TRUE]
  BY DEF Alerts!Loaded
<1>2. tasks = {k \in Stories : p.stories[k].sprint = sprint /\ Alerts!OfGroup(p.stories[k])}
  OBVIOUS
<1>3. scope \subseteq Epics /\ \A e \in scope : Alerts!EpicMatches(p.epics[e], sprint)
  BY DEF Alerts!InScope
<1>4. Alerts!Incomplete(p, sprint) \subseteq Stories
  BY DEF Alerts!Incomplete
<1> HIDE DEF tasks, parents, scope
<1>5. DOMAIN d = ListsOf /\ d.sprint = sprint
  BY <1>1 DEF ListsOf
<1>6. d.fresh
  BY <1>1
<1>7. d.complete <=> ~lost
  <2>1. d.complete = ~lost
    BY <1>1
  <2> QED
    BY <2>1, Zenon
<1> QED
  BY <1>1, <1>2, <1>3, <1>4, <1>5, <1>6, <1>7

\* Nothing is counted exactly when there is nothing.
LEMMA NoneOfStories ==
  ASSUME NEW S, S \subseteq Stories
  PROVE  Alerts!Cardinality(S) \in Nat /\ (Alerts!Cardinality(S) = 0 <=> S = {})
<1>1. IsFiniteSet(S)
  BY AlertsConstants, AlertsFinite, FS_Subset DEF Alerts!AlertsAssumption
<1> QED
  BY <1>1, AlertsCardinality, FS_CardinalityType, FS_EmptySet

LEMMA CountedRight ==
  ASSUME NEW p, NEW e, NEW sprint, NEW lost \in BOOLEAN, ~lost,
         NEW n, n = Alerts!Counted(p, e, sprint, lost)
  PROVE  /\ n.total \in Nat /\ (n.total = 0 <=> Alerts!Children(p, e) = {})
         /\ n.acting \in Nat
         /\ n.acting = 0 <=> \A k \in Alerts!Children(p, e) :
                ~(p.stories[k].sprint = sprint /\ Alerts!Actionable(p.stories[k]))
         /\ \A t \in GroupTeams :
               /\ n.byTeam[t] \in Nat
               /\ n.byTeam[t] = 0 <=> \A k \in Alerts!Children(p, e) :
                     ~(p.stories[k].sprint = sprint /\ Alerts!Actionable(p.stories[k])
                       /\ p.stories[k].team = t)
         /\ n.outside \in Nat /\ n.open \in Nat
         /\ n.open = 0 <=> \A k \in Alerts!Children(p, e) : p.stories[k].status \in Alerts!Terminal
<1>1. PICK known : known = Alerts!Children(p, e)
  OBVIOUS
<1>2. PICK chosen : chosen = {k \in known : p.stories[k].sprint = sprint}
  OBVIOUS
<1>3. PICK acting : acting = {k \in chosen : Alerts!Actionable(p.stories[k])}
  OBVIOUS
<1>4. PICK open : open = {k \in known : p.stories[k].status \notin Alerts!Terminal}
  OBVIOUS
<1>5. /\ n.total = Alerts!Cardinality(known) /\ n.acting = Alerts!Cardinality(acting)
      /\ \A t \in GroupTeams : n.byTeam[t] = Alerts!Cardinality({k \in acting : p.stories[k].team = t})
      /\ n.outside = Alerts!Cardinality(open \ chosen) /\ n.open = Alerts!Cardinality(open)
  BY <1>1, <1>2, <1>3, <1>4 DEF Alerts!Counted
<1>6. known \subseteq Stories /\ acting \subseteq known /\ open \subseteq known
  BY <1>1, <1>2, <1>3, <1>4 DEF Alerts!Children
<1>7. ASSUME NEW t \in GroupTeams
      PROVE  /\ n.byTeam[t] \in Nat
             /\ n.byTeam[t] = 0 <=> \A k \in Alerts!Children(p, e) :
                   ~(p.stories[k].sprint = sprint /\ Alerts!Actionable(p.stories[k])
                     /\ p.stories[k].team = t)
  <2>1. PICK theirs : theirs = {k \in acting : p.stories[k].team = t}
    OBVIOUS
  <2>2. theirs \subseteq Stories /\ n.byTeam[t] = Alerts!Cardinality(theirs)
    BY <1>5, <1>6, <2>1
  <2>3. n.byTeam[t] \in Nat /\ (n.byTeam[t] = 0 <=> theirs = {})
    BY <2>2, NoneOfStories
  <2>4. theirs = {} <=> \A k \in Alerts!Children(p, e) :
                   ~(p.stories[k].sprint = sprint /\ Alerts!Actionable(p.stories[k])
                     /\ p.stories[k].team = t)
    BY <1>1, <1>2, <1>3, <2>1
  <2> QED
    BY <2>3, <2>4
<1>8. n.total \in Nat /\ (n.total = 0 <=> known = {})
  BY <1>5, <1>6, NoneOfStories
<1>9. n.acting \in Nat /\ (n.acting = 0 <=> acting = {})
  BY <1>5, <1>6, NoneOfStories
<1>10. n.open \in Nat /\ (n.open = 0 <=> open = {}) /\ n.outside \in Nat
  BY <1>5, <1>6, NoneOfStories
<1>11. acting = {} <=> \A k \in Alerts!Children(p, e) :
                ~(p.stories[k].sprint = sprint /\ Alerts!Actionable(p.stories[k]))
  BY <1>1, <1>2, <1>3
<1>12. open = {} <=> \A k \in Alerts!Children(p, e) : p.stories[k].status \in Alerts!Terminal
  BY <1>1, <1>4
<1> QED
  BY <1>1, <1>7, <1>8, <1>9, <1>10, <1>11, <1>12

-----------------------------------------------------------------------------
(* The steps.                                                                *)

LEMMA AlertsInit == Alerts!Init => AlertsPage(page)
<1> SUFFICES ASSUME Alerts!Init PROVE AlertsPage(page)
  OBVIOUS
<1>1. PICK epics \in [Epics -> EpicKinds], stories \in [Stories -> StoryKinds] :
        LET p == [epics |-> epics, stories |-> stories]
        IN page = [epics |-> epics, stories |-> stories, data |-> Alerts!Loaded(p, Alerts!Active, FALSE),
                   teams |-> {}, found |-> Stories, dismissed |-> {},
                   panel |-> TRUE, folded |-> {}, party |-> {},
                   acts |-> MaxActs, losses |-> MaxLosses]
  BY DEF Alerts!Init
<1>2. PICK p : p = [epics |-> epics, stories |-> stories]
  OBVIOUS
<1>3. PICK lost \in BOOLEAN : lost = FALSE
  OBVIOUS
<1> DEFINE d == Alerts!Loaded(p, Alerts!Active, lost)
<1> HIDE DEF d
<1>4. /\ DOMAIN page = AlertFields /\ page.epics = epics /\ page.stories = stories
      /\ page.data = d /\ page.teams = {} /\ page.found = Stories /\ page.dismissed = {}
      /\ page.folded = {} /\ page.party = {} /\ page.acts = MaxActs /\ page.losses = MaxLosses
  BY <1>1, <1>2, <1>3 DEF AlertFields, d
<1>5. DOMAIN d = ListsOf /\ d.sprint = Alerts!Active
  BY <1>3, LoadedFields DEF d
<1>6. AsLoaded(page)
  <2>1. p.epics = page.epics /\ p.stories = page.stories
    BY <1>2, <1>4
  <2>2. d = Alerts!Loaded(page, Alerts!Active, lost)
    BY <2>1, LoadedSame DEF d
  <2> QED
    BY <1>4, <1>5, <2>2 DEF AsLoaded
<1>7. page.acts \in 0 .. MaxActs /\ page.losses \in 0 .. MaxLosses
  BY <1>4, AlertsConstants DEF Alerts!AlertsAssumption
<1> QED
  BY <1>4, <1>5, <1>6, <1>7 DEF AlertsPage

LEMMA OneAct ==
  ASSUME AlertsPage(page), Alerts!Act
  PROVE  page.acts - 1 \in 0 .. MaxActs
BY AlertsConstants DEF Alerts!AlertsAssumption, AlertsPage, Alerts!Act

\* Lists and what Jira holds stay as they are.
LEMMA SameLists ==
  ASSUME AlertsPage(page), NEW r, r.data = page.data, r.epics = page.epics,
         r.stories = page.stories
  PROVE  r.data.fresh => AsLoaded(r)
<1>1. \A lost : Alerts!Loaded(page, page.data.sprint, lost) = Alerts!Loaded(r, page.data.sprint, lost)
  BY LoadedSame
<1> QED
  BY <1>1 DEF AlertsPage, AsLoaded

LEMMA LoadHeld ==
  ASSUME AlertsPage(page), NEW sprint \in {Alerts!Active, Alerts!Future}, NEW lost \in BOOLEAN,
         Alerts!Load(sprint, lost)
  PROVE  AlertsPage(page')
<1>1. PICK d : d = Alerts!Loaded(page, sprint, lost)
  OBVIOUS
<1>2. PICK party : party = IF sprint = page.data.sprint THEN page.party ELSE {}
  OBVIOUS
<1>3. PICK losses : losses = IF lost THEN page.losses - 1 ELSE page.losses
  OBVIOUS
<1>4. page' = [page EXCEPT !.data = d, !.acts = @ - 1, !.party = party, !.losses = losses]
  BY <1>1, <1>2, <1>3 DEF Alerts!Load, AlertsPage, AlertFields
<1>5. /\ DOMAIN page' = AlertFields /\ page'.data = d /\ page'.acts = page.acts - 1
      /\ page'.party = party /\ page'.losses = losses /\ page'.epics = page.epics
      /\ page'.stories = page.stories /\ page'.teams = page.teams /\ page'.found = page.found
      /\ page'.dismissed = page.dismissed /\ page'.folded = page.folded
  BY <1>4 DEF AlertsPage, AlertFields
<1>6. DOMAIN d = ListsOf /\ d.sprint = sprint
  BY <1>1, LoadedFields
<1>7. AsLoaded(page')
  <2>1. d = Alerts!Loaded(page', sprint, lost)
    BY <1>1, <1>5, LoadedSame
  <2> QED
    BY <1>5, <1>6, <2>1 DEF AsLoaded
<1>8. page'.acts \in 0 .. MaxActs
  BY <1>5, OneAct DEF Alerts!Load
<1>9. losses \in 0 .. MaxLosses
  BY <1>3, AlertsConstants DEF Alerts!AlertsAssumption, Alerts!Load, AlertsPage
<1>10. party \subseteq Alerts!Cards
  BY <1>2 DEF AlertsPage
<1> QED
  BY <1>5, <1>6, <1>7, <1>8, <1>9, <1>10 DEF AlertsPage

LEMMA ToggleTeamHeld ==
  ASSUME AlertsPage(page), NEW t \in GroupTeams, Alerts!ToggleTeam(t)
  PROVE  AlertsPage(page')
<1>1. PICK teams : teams = Alerts!SymDiff(page.teams, {t})
  OBVIOUS
<1>2. page' = [page EXCEPT !.teams = teams, !.party = {}, !.acts = @ - 1]
  BY <1>1 DEF Alerts!ToggleTeam, AlertsPage, AlertFields
<1>3. /\ DOMAIN page' = AlertFields /\ page'.data = page.data /\ page'.acts = page.acts - 1
      /\ page'.party = {} /\ page'.losses = page.losses /\ page'.epics = page.epics
      /\ page'.stories = page.stories /\ page'.teams = teams /\ page'.found = page.found
      /\ page'.dismissed = page.dismissed /\ page'.folded = page.folded
  BY <1>2 DEF AlertsPage, AlertFields
<1>4. teams \subseteq GroupTeams
  BY <1>1 DEF Alerts!SymDiff, AlertsPage
<1>5. page'.data.fresh => AsLoaded(page')
  BY <1>3, SameLists
<1>6. page'.acts \in 0 .. MaxActs
  BY <1>3, OneAct DEF Alerts!ToggleTeam
<1> QED
  BY <1>3, <1>4, <1>5, <1>6 DEF AlertsPage

LEMMA SearchHeld ==
  ASSUME AlertsPage(page), NEW found \in SUBSET Stories, Alerts!Search(found)
  PROVE  AlertsPage(page')
<1>1. /\ DOMAIN page' = AlertFields /\ page'.data = page.data /\ page'.acts = page.acts - 1
      /\ page'.party = page.party /\ page'.losses = page.losses /\ page'.epics = page.epics
      /\ page'.stories = page.stories /\ page'.teams = page.teams /\ page'.found = found
      /\ page'.dismissed = page.dismissed /\ page'.folded = page.folded
  BY DEF Alerts!Search, AlertsPage, AlertFields
<1>2. page'.data.fresh => AsLoaded(page')
  BY <1>1, SameLists
<1>3. page'.acts \in 0 .. MaxActs
  BY <1>1, OneAct DEF Alerts!Search
<1> QED
  BY <1>1, <1>2, <1>3 DEF AlertsPage

\* Patched lists are not those of a load any more.
LEMMA PatchStoryHeld ==
  ASSUME AlertsPage(page), NEW k, NEW status, Alerts!PatchStory(k, status)
  PROVE  AlertsPage(page')
<1>1. PICK tasks : tasks = Alerts!Patched(page.data.tasks, k, status)
  OBVIOUS
<1>2. PICK children : children = Alerts!Patched(page.data.children, k, status)
  OBVIOUS
<1>3. PICK d : d = [page.data EXCEPT !.tasks = tasks, !.children = children, !.fresh = FALSE]
  OBVIOUS
<1>4. PICK stories : stories = [page.stories EXCEPT ![k].status = status]
  OBVIOUS
<1>5. page' = [page EXCEPT !.stories = stories, !.acts = @ - 1, !.data = d]
  <2>1. DOMAIN page = AlertFields /\ DOMAIN page.data = ListsOf
    BY DEF AlertsPage
  <2>2. page' = [page EXCEPT !.stories[k].status = status, !.acts = @ - 1,
                             !.data.tasks = Alerts!Patched(@, k, status),
                             !.data.children = Alerts!Patched(@, k, status), !.data.fresh = FALSE]
    BY DEF Alerts!PatchStory
  <2>3. page' = [page EXCEPT !.stories = stories, !.acts = @ - 1, !.data.tasks = tasks,
                             !.data.children = children, !.data.fresh = FALSE]
    BY <1>1, <1>2, <1>4, <2>1, <2>2 DEF AlertFields, ListsOf
  <2> QED
    BY <1>3, <2>1, <2>3 DEF AlertFields, ListsOf
<1>6. /\ DOMAIN page' = AlertFields /\ page'.data = d /\ page'.acts = page.acts - 1
      /\ page'.party = page.party /\ page'.losses = page.losses /\ page'.epics = page.epics
      /\ page'.stories = stories /\ page'.teams = page.teams /\ page'.found = page.found
      /\ page'.dismissed = page.dismissed /\ page'.folded = page.folded
  BY <1>5 DEF AlertsPage, AlertFields
<1>7. DOMAIN d = ListsOf /\ d.sprint = page.data.sprint /\ d.fresh = FALSE
  BY <1>3 DEF AlertsPage, ListsOf
<1>8. DOMAIN stories = Stories
  BY <1>4 DEF AlertsPage
<1>9. page'.acts \in 0 .. MaxActs
  BY <1>6, OneAct DEF Alerts!PatchStory
<1> QED
  BY <1>6, <1>7, <1>8, <1>9 DEF AlertsPage

LEMMA PatchEpicHeld ==
  ASSUME AlertsPage(page), NEW e, NEW status, Alerts!PatchEpic(e, status)
  PROVE  AlertsPage(page')
<1>1. PICK scope : scope = Alerts!Patched(page.data.scope, e, status)
  OBVIOUS
<1>2. PICK ready : ready = Alerts!Patched(page.data.ready, e, status)
  OBVIOUS
<1>3. PICK d : d = [page.data EXCEPT !.scope = scope, !.ready = ready, !.fresh = FALSE]
  OBVIOUS
<1>4. PICK epics : epics = [page.epics EXCEPT ![e].status = status]
  OBVIOUS
<1>5. page' = [page EXCEPT !.epics = epics, !.acts = @ - 1, !.data = d]
  <2>1. DOMAIN page = AlertFields /\ DOMAIN page.data = ListsOf
    BY DEF AlertsPage
  <2>2. page' = [page EXCEPT !.epics[e].status = status, !.acts = @ - 1,
                             !.data.scope = Alerts!Patched(@, e, status),
                             !.data.ready = Alerts!Patched(@, e, status), !.data.fresh = FALSE]
    BY DEF Alerts!PatchEpic
  <2>3. page' = [page EXCEPT !.epics = epics, !.acts = @ - 1, !.data.scope = scope,
                             !.data.ready = ready, !.data.fresh = FALSE]
    BY <1>1, <1>2, <1>4, <2>1, <2>2 DEF AlertFields, ListsOf
  <2> QED
    BY <1>3, <2>1, <2>3 DEF AlertFields, ListsOf
<1>6. /\ DOMAIN page' = AlertFields /\ page'.data = d /\ page'.acts = page.acts - 1
      /\ page'.party = page.party /\ page'.losses = page.losses /\ page'.epics = epics
      /\ page'.stories = page.stories /\ page'.teams = page.teams /\ page'.found = page.found
      /\ page'.dismissed = page.dismissed /\ page'.folded = page.folded
  BY <1>5 DEF AlertsPage, AlertFields
<1>7. DOMAIN d = ListsOf /\ d.sprint = page.data.sprint /\ d.fresh = FALSE
  BY <1>3 DEF AlertsPage, ListsOf
<1>8. DOMAIN epics = Epics
  BY <1>4 DEF AlertsPage
<1>9. page'.acts \in 0 .. MaxActs
  BY <1>6, OneAct DEF Alerts!PatchEpic
<1> QED
  BY <1>6, <1>7, <1>8, <1>9 DEF AlertsPage

\* What is looked at, folded or dismissed.
LEMMA LookHeld ==
  ASSUME AlertsPage(page),
         NEW dismissed, dismissed \subseteq Epics \union Stories,
         NEW folded, folded \subseteq Alerts!Cards, NEW party, party \subseteq Alerts!Cards,
         NEW acts \in 0 .. MaxActs, NEW panel,
         page' = [page EXCEPT !.dismissed = dismissed, !.folded = folded, !.party = party,
                              !.acts = acts, !.panel = panel]
  PROVE  AlertsPage(page')
<1>1. /\ DOMAIN page' = AlertFields /\ page'.data = page.data /\ page'.acts = acts
      /\ page'.party = party /\ page'.losses = page.losses /\ page'.epics = page.epics
      /\ page'.stories = page.stories /\ page'.teams = page.teams /\ page'.found = page.found
      /\ page'.dismissed = dismissed /\ page'.folded = folded
  BY DEF AlertsPage, AlertFields
<1>2. page'.data.fresh => AsLoaded(page')
  BY <1>1, SameLists
<1> QED
  BY <1>1, <1>2 DEF AlertsPage

LEMMA DismissHeld ==
  ASSUME AlertsPage(page), NEW k \in Stories \union Epics, Alerts!Dismiss(k)
  PROVE  AlertsPage(page')
<1>1. PICK party : party = IF Alerts!Celebrated(page, k) = {} THEN page.party ELSE Alerts!Celebrated(page, k)
  OBVIOUS
<1>2. PICK dismissed : dismissed = page.dismissed \union {k}
  OBVIOUS
<1>3. PICK acts : acts = page.acts - 1
  OBVIOUS
<1>4. page' = [page EXCEPT !.dismissed = dismissed, !.folded = page.folded, !.party = party,
                           !.acts = acts, !.panel = page.panel]
  BY <1>1, <1>2, <1>3 DEF Alerts!Dismiss, AlertsPage, AlertFields
<1>5. party \subseteq Alerts!Cards
  <2>1. Alerts!Celebrated(page, k) \subseteq Alerts!Cards
    BY DEF Alerts!Celebrated, Alerts!Cards
  <2> QED
    BY <1>1, <2>1 DEF AlertsPage
<1>6. acts \in 0 .. MaxActs /\ dismissed \subseteq Epics \union Stories
  BY <1>2, <1>3, OneAct DEF Alerts!Dismiss, AlertsPage
<1>7. page.folded \subseteq Alerts!Cards
  BY DEF AlertsPage
<1> QED
  BY <1>4, <1>5, <1>6, <1>7, LookHeld

LEMMA PartyOverHeld == ASSUME AlertsPage(page), Alerts!PartyOver PROVE AlertsPage(page')
<1>1. page' = [page EXCEPT !.dismissed = page.dismissed, !.folded = page.folded, !.party = {},
                           !.acts = page.acts, !.panel = page.panel]
  BY DEF Alerts!PartyOver, AlertsPage, AlertFields
<1>2. /\ page.dismissed \subseteq Epics \union Stories /\ page.folded \subseteq Alerts!Cards
      /\ page.acts \in 0 .. MaxActs
  BY DEF AlertsPage
<1> QED
  BY <1>1, <1>2, LookHeld

LEMMA TogglePanelHeld == ASSUME AlertsPage(page), Alerts!TogglePanel PROVE AlertsPage(page')
<1>1. PICK panel : panel = ~page.panel
  OBVIOUS
<1>2. PICK acts : acts = page.acts - 1
  OBVIOUS
<1>3. page' = [page EXCEPT !.dismissed = page.dismissed, !.folded = page.folded,
                           !.party = page.party, !.acts = acts, !.panel = panel]
  BY <1>1, <1>2 DEF Alerts!TogglePanel, AlertsPage, AlertFields
<1>4. /\ page.dismissed \subseteq Epics \union Stories /\ page.folded \subseteq Alerts!Cards
      /\ page.party \subseteq Alerts!Cards
  BY DEF AlertsPage
<1>5. acts \in 0 .. MaxActs
  BY <1>2, OneAct DEF Alerts!TogglePanel
<1> QED
  BY <1>3, <1>4, <1>5, LookHeld

LEMMA CardHeld ==
  ASSUME AlertsPage(page), NEW c \in Alerts!Cards, Alerts!ToggleCard(c) \/ Alerts!OpenCard(c)
  PROVE  AlertsPage(page')
<1>1. PICK panel, folded :
        folded \subseteq Alerts!Cards /\ page' = [page EXCEPT !.dismissed = page.dismissed, !.folded = folded,
                             !.party = page.party, !.acts = page.acts - 1, !.panel = panel]
  <2>1. CASE Alerts!ToggleCard(c)
    <3>1. PICK folded : folded = Alerts!SymDiff(page.folded, {c})
      OBVIOUS
    <3>2. page' = [page EXCEPT !.dismissed = page.dismissed, !.folded = folded,
                               !.party = page.party, !.acts = page.acts - 1,
                               !.panel = page.panel]
      BY <2>1, <3>1 DEF Alerts!ToggleCard, AlertsPage, AlertFields
    <3>3. folded \subseteq Alerts!Cards
      BY <3>1 DEF Alerts!SymDiff, AlertsPage
    <3> QED
      BY <3>2, <3>3
  <2>2. CASE Alerts!OpenCard(c)
    <3>1. PICK folded : folded = page.folded \ {c}
      OBVIOUS
    <3>2. page' = [page EXCEPT !.dismissed = page.dismissed, !.folded = folded,
                               !.party = page.party, !.acts = page.acts - 1, !.panel = TRUE]
      BY <2>2, <3>1 DEF Alerts!OpenCard, AlertsPage, AlertFields
    <3>3. folded \subseteq Alerts!Cards
      BY <3>1 DEF AlertsPage
    <3> QED
      BY <3>2, <3>3
  <2> QED
    BY <2>1, <2>2
<1>2. /\ page.dismissed \subseteq Epics \union Stories /\ folded \subseteq Alerts!Cards
      /\ page.party \subseteq Alerts!Cards
  BY <1>1 DEF AlertsPage
<1>3. PICK acts : acts = page.acts - 1
  OBVIOUS
<1>4. acts \in 0 .. MaxActs
  BY <1>3, OneAct DEF Alerts!ToggleCard, Alerts!OpenCard
<1> QED
  BY <1>1, <1>2, <1>3, <1>4, LookHeld

LEMMA AlertsStep == ASSUME AlertsPage(page), Alerts!Next PROVE AlertsPage(page')
<1>1. CASE \E s \in {Alerts!Active, Alerts!Future}, lost \in BOOLEAN : Alerts!Load(s, lost)
  BY <1>1, LoadHeld
<1>2. CASE \E t \in GroupTeams : Alerts!ToggleTeam(t)
  BY <1>2, ToggleTeamHeld
<1>3. CASE \E found \in SUBSET Stories : Alerts!Search(found)
  BY <1>3, SearchHeld
<1>4. CASE \E k \in Stories, v \in OfferedStatuses : Alerts!PatchStory(k, v)
  BY <1>4, PatchStoryHeld
<1>5. CASE \E e \in Epics, v \in OfferedStatuses : Alerts!PatchEpic(e, v)
  BY <1>5, PatchEpicHeld
<1>6. CASE \E k \in Stories \union Epics : Alerts!Dismiss(k)
  BY <1>6, DismissHeld
<1>7. CASE \E c \in Alerts!Cards : Alerts!ToggleCard(c) \/ Alerts!OpenCard(c)
  BY <1>7, CardHeld
<1> QED
  BY <1>1, <1>2, <1>3, <1>4, <1>5, <1>6, <1>7, TogglePanelHeld, PartyOverHeld DEF Alerts!Next

-----------------------------------------------------------------------------
(* What the cards say.                                                       *)

\* Each item of a card is under a team, was not dismissed, and is opened by the
\* link in the header, if there is one.
Listed(p, card) ==
    /\ \A i \in DOMAIN card.teams : card.teams[i] # {} /\ i \notin p.dismissed
    /\ card.chip # {} => DOMAIN card.teams \subseteq card.chip

LEMMA SomePlanningTeam == ASSUME NEW p, NEW r PROVE Alerts!PlanningTeams(p, r) # {}
<1>1. PICK seen : seen = (IF Alerts!Cardinality(p.teams) > 1 THEN Alerts!MatchedTeams(r) \intersect p.teams
                          ELSE Alerts!MatchedTeams(r))
  OBVIOUS
<1>2. PICK n : n = Alerts!Cardinality(p.teams)
  OBVIOUS
<1>3. Alerts!PlanningTeams(p, r) = CASE n = 1 -> p.teams [] n # 1 /\ seen # {} -> seen
                              [] OTHER -> {r.team}
  BY <1>1, <1>2, Zenon DEF Alerts!PlanningTeams
<1>4. ASSUME p.teams = {} PROVE n # 1
  <2>1. n = Cardinality({})
    BY <1>2, <1>4, AlertsCardinality
  <2> QED
    BY <2>1, FS_EmptySet
<1> QED
  BY <1>3, <1>4

LEMMA BacklogApart ==
  ASSUME NEW p
  PROVE  \A e \in Alerts!BacklogEpics(p) : e \notin p.dismissed
BY DEF Alerts!BacklogEpics, Alerts!Candidates

LEMMA NeedsStoriesEpicsOf ==
  ASSUME NEW p, NEW n \in Alerts!NeedsStories(p)
  PROVE  /\ Alerts!IsFuture(p) /\ n = <<n[1], n[2]>> /\ n[1] \in Alerts!Candidates(p)
         /\ n[1] \notin Alerts!BacklogEpics(p) /\ n[1] \notin Alerts!MissingTeamEpics(p)
         /\ n[1] \notin Alerts!MissingLabelEpics(p)
         /\ Alerts!HasLabel(p, p.data.scope[n[1]]) /\ n[2] \in Alerts!PlanningTeams(p, p.data.scope[n[1]])
         /\ Alerts!TeamReason(p, n[1], n[2]) # "ready"
<1>1. PICK earlier :
        earlier = Alerts!BacklogEpics(p) \union Alerts!MissingTeamEpics(p) \union Alerts!MissingLabelEpics(p)
  OBVIOUS
<1>2. PICK labelled :
        labelled = {e \in Alerts!Candidates(p) \ earlier : Alerts!EpicMatches(p.data.scope[e], p.data.sprint)
                                                    /\ Alerts!HasLabel(p, p.data.scope[e])}
  OBVIOUS
<1>3. /\ Alerts!IsFuture(p)
      /\ n \in UNION {{<<e, t>> : t \in {u \in Alerts!PlanningTeams(p, p.data.scope[e]) :
                                            Alerts!TeamReason(p, e, u) # "ready"}} : e \in labelled}
  BY <1>1, <1>2 DEF Alerts!NeedsStories
<1>4. PICK e \in labelled :
        n \in {<<e, t>> : t \in {u \in Alerts!PlanningTeams(p, p.data.scope[e]) :
                                    Alerts!TeamReason(p, e, u) # "ready"}}
  BY <1>3
<1>5. PICK t \in Alerts!PlanningTeams(p, p.data.scope[e]) : n = <<e, t>> /\ Alerts!TeamReason(p, e, t) # "ready"
  BY <1>4
<1> QED
  BY <1>1, <1>2, <1>3, <1>5

LEMMA CardsListed == ASSUME NEW p, NEW c \in Alerts!Cards PROVE Listed(p, Alerts!Card(p, c))
<1>1. CASE c = "missing"
  <2>1. PICK items : items = Alerts!MissingStories(p)
    OBVIOUS
  <2>2. PICK card : card = Alerts!Card(p, c)
    OBVIOUS
  <2>3. card = Alerts!MissingCard(p)
    BY <1>1, <2>2 DEF Alerts!Card
  <2>4. DOMAIN card.teams = items /\ card.chip = items
    BY <2>1, <2>3 DEF Alerts!MissingCard, Alerts!ByTeam
  <2>5. \A i \in items : card.teams[i] # {}
    BY <2>1, <2>3 DEF Alerts!MissingCard, Alerts!ByTeam
  <2>6. \A i \in items : i \notin p.dismissed
    BY <2>1 DEF Alerts!MissingStories
  <2> QED
    BY <2>2, <2>4, <2>5, <2>6 DEF Listed
<1>2. CASE c = "blocked"
  <2>1. PICK items : items = Alerts!BlockedTasks(p)
    OBVIOUS
  <2>2. PICK card : card = Alerts!Card(p, c)
    OBVIOUS
  <2>3. card = Alerts!BlockedCard(p)
    BY <1>2, <2>2 DEF Alerts!Card
  <2>4. DOMAIN card.teams = items /\ card.chip = items
    BY <2>1, <2>3 DEF Alerts!BlockedCard, Alerts!ByTeam
  <2>5. \A i \in items : card.teams[i] # {}
    BY <2>1, <2>3 DEF Alerts!BlockedCard, Alerts!ByTeam
  <2>6. \A i \in items : i \notin p.dismissed
    BY <2>1 DEF Alerts!BlockedTasks
  <2> QED
    BY <2>2, <2>4, <2>5, <2>6 DEF Listed
<1>3. CASE c = "followup"
  <2>1. PICK stories : stories = Alerts!ByTeam(p.data.tasks, Alerts!PostponedTasks(p))
    OBVIOUS
  <2>2. PICK epics : epics = Alerts!ByTeam(p.data.scope, Alerts!FutureRouted(p))
    OBVIOUS
  <2>3. PICK card : card = Alerts!Card(p, c)
    OBVIOUS
  <2>4. card = [teams |-> Alerts!Over(stories, epics), chip |-> {}]
    BY <1>3, <2>1, <2>2, <2>3 DEF Alerts!Card, Alerts!FollowupCard
  <2>5. DOMAIN stories = Alerts!PostponedTasks(p) /\ \A i \in DOMAIN stories : stories[i] # {}
    BY <2>1 DEF Alerts!ByTeam
  <2>6. DOMAIN epics = Alerts!FutureRouted(p) /\ \A i \in DOMAIN epics : epics[i] # {}
    BY <2>2 DEF Alerts!ByTeam
  <2>7. card.chip = {} /\ card.teams = Alerts!Over(stories, epics)
    BY <2>4
  <2>8. /\ DOMAIN card.teams = Alerts!PostponedTasks(p) \union Alerts!FutureRouted(p)
        /\ \A i \in DOMAIN card.teams : card.teams[i] # {}
    BY <2>5, <2>6, <2>7 DEF Alerts!Over
  <2>9. \A i \in Alerts!PostponedTasks(p) \union Alerts!FutureRouted(p) : i \notin p.dismissed
    BY DEF Alerts!PostponedTasks, Alerts!FutureRouted, Alerts!EmptyEpics
  <2> QED
    BY <2>3, <2>7, <2>8, <2>9 DEF Listed
<1>4. CASE c = "backlog"
  <2>1. PICK items : items = Alerts!BacklogEpics(p)
    OBVIOUS
  <2>2. PICK card : card = Alerts!Card(p, c)
    OBVIOUS
  <2>3. card = Alerts!BacklogCard(p)
    BY <1>4, <2>2 DEF Alerts!Card
  <2>4. DOMAIN card.teams = items /\ card.chip = items
    BY <2>1, <2>3 DEF Alerts!BacklogCard, Alerts!ByPlanning
  <2>5. \A i \in items : card.teams[i] # {}
    BY <2>1, <2>3, SomePlanningTeam DEF Alerts!BacklogCard, Alerts!ByPlanning
  <2>6. \A i \in items : i \notin p.dismissed
    BY <2>1, BacklogApart
  <2> QED
    BY <2>2, <2>4, <2>5, <2>6 DEF Listed
<1>5. CASE c = "missingTeam"
  <2>1. PICK items : items = Alerts!MissingTeamEpics(p)
    OBVIOUS
  <2>2. PICK card : card = Alerts!Card(p, c)
    OBVIOUS
  <2>3. card = Alerts!MissingTeamCard(p)
    BY <1>5, <2>2 DEF Alerts!Card
  <2>4. DOMAIN card.teams = items /\ card.chip = {}
    BY <2>1, <2>3 DEF Alerts!MissingTeamCard, Alerts!ByTeam
  <2>5. \A i \in items : card.teams[i] # {}
    BY <2>1, <2>3 DEF Alerts!MissingTeamCard, Alerts!ByTeam
  <2>6. \A i \in items : i \notin p.dismissed
    BY <2>1 DEF Alerts!MissingTeamEpics, Alerts!Candidates
  <2> QED
    BY <2>2, <2>4, <2>5, <2>6 DEF Listed
<1>6. CASE c = "missingLabels"
  <2>1. PICK items : items = Alerts!MissingLabelEpics(p)
    OBVIOUS
  <2>2. PICK card : card = Alerts!Card(p, c)
    OBVIOUS
  <2>3. card = Alerts!MissingLabelsCard(p)
    BY <1>6, <2>2 DEF Alerts!Card
  <2>4. DOMAIN card.teams = items /\ card.chip = {}
    BY <2>1, <2>3 DEF Alerts!MissingLabelsCard, Alerts!ByPlanning
  <2>5. \A i \in items : card.teams[i] # {}
    BY <2>1, <2>3, SomePlanningTeam DEF Alerts!MissingLabelsCard, Alerts!ByPlanning
  <2>6. \A i \in items : i \notin p.dismissed
    BY <2>1 DEF Alerts!MissingLabelEpics, Alerts!Candidates
  <2> QED
    BY <2>2, <2>4, <2>5, <2>6 DEF Listed
<1>7. CASE c = "needsStories"
  <2>1. PICK card : card = Alerts!Card(p, c)
    OBVIOUS
  <2>2. card = Alerts!NeedsStoriesCard(p)
    BY <1>7, <2>1 DEF Alerts!Card
  <2>3. DOMAIN card.teams = Alerts!NeedsStoriesEpics(p) /\ card.chip = {}
    BY <2>2 DEF Alerts!NeedsStoriesCard
  <2>4. ASSUME NEW e \in Alerts!NeedsStoriesEpics(p) PROVE card.teams[e] # {} /\ e \notin p.dismissed
    <3>1. PICK n \in Alerts!NeedsStories(p) : n[1] = e
      BY DEF Alerts!NeedsStoriesEpics
    <3>2. card.teams[e] = {m[2] : m \in {k \in Alerts!NeedsStories(p) : k[1] = e}}
      BY <2>2 DEF Alerts!NeedsStoriesCard
    <3>3. n[2] \in card.teams[e]
      BY <3>1, <3>2
    <3>4. e \in Alerts!Candidates(p)
      BY <3>1, NeedsStoriesEpicsOf
    <3> QED
      BY <3>3, <3>4 DEF Alerts!Candidates
  <2> QED
    BY <2>1, <2>3, <2>4 DEF Listed
<1>8. CASE c = "waiting"
  <2>1. PICK items : items = Alerts!WaitingEpics(p)
    OBVIOUS
  <2>2. PICK card : card = Alerts!Card(p, c)
    OBVIOUS
  <2>3. card = Alerts!WaitingCard(p)
    BY <1>8, <2>2 DEF Alerts!Card
  <2>4. DOMAIN card.teams = items /\ card.chip = items
    BY <2>1, <2>3 DEF Alerts!WaitingCard, Alerts!ByTeam
  <2>5. \A i \in items : card.teams[i] # {}
    BY <2>1, <2>3 DEF Alerts!WaitingCard, Alerts!ByTeam
  <2>6. \A i \in items : i \notin p.dismissed
    BY <2>1 DEF Alerts!WaitingEpics, Alerts!AnalysisWaiting, Alerts!EmptyEpics
  <2> QED
    BY <2>2, <2>4, <2>5, <2>6 DEF Listed
<1>9. CASE c = "empty"
  <2>1. PICK items : items = Alerts!EmptyForAlert(p)
    OBVIOUS
  <2>2. PICK card : card = Alerts!Card(p, c)
    OBVIOUS
  <2>3. card = Alerts!EmptyCard(p)
    BY <1>9, <2>2 DEF Alerts!Card
  <2>4. DOMAIN card.teams = items /\ card.chip = Alerts!EmptyEpics(p)
    BY <2>1, <2>3 DEF Alerts!EmptyCard, Alerts!ByTeam
  <2>5. \A i \in items : card.teams[i] # {}
    BY <2>1, <2>3 DEF Alerts!EmptyCard, Alerts!ByTeam
  <2>6. items \subseteq Alerts!EmptyEpics(p)
    BY <2>1 DEF Alerts!EmptyForAlert
  <2>7. \A i \in Alerts!EmptyEpics(p) : i \notin p.dismissed
    BY DEF Alerts!EmptyEpics
  <2> QED
    BY <2>2, <2>4, <2>5, <2>6, <2>7 DEF Listed
<1>10. CASE c = "done"
  <2>1. PICK items : items = Alerts!DoneEpics(p)
    OBVIOUS
  <2>2. PICK card : card = Alerts!Card(p, c)
    OBVIOUS
  <2>3. card = Alerts!DoneCard(p)
    BY <1>10, <2>2 DEF Alerts!Card
  <2>4. DOMAIN card.teams = items /\ card.chip = items
    BY <2>1, <2>3 DEF Alerts!DoneCard, Alerts!ByTeam
  <2>5. \A i \in items : card.teams[i] # {}
    BY <2>1, <2>3 DEF Alerts!DoneCard, Alerts!ByTeam
  <2>6. \A i \in items : i \notin p.dismissed
    BY <2>1 DEF Alerts!DoneEpics
  <2> QED
    BY <2>2, <2>4, <2>5, <2>6 DEF Listed
<1> QED
  BY <1>1, <1>2, <1>3, <1>4, <1>5, <1>6, <1>7, <1>8, <1>9, <1>10 DEF Alerts!Cards

LEMMA PlanningItems ==
  ASSUME NEW p
  PROVE  /\ Alerts!Items(p, "backlog") = Alerts!BacklogEpics(p)
         /\ Alerts!Items(p, "missingTeam") = Alerts!MissingTeamEpics(p)
         /\ Alerts!Items(p, "missingLabels") = Alerts!MissingLabelEpics(p)
         /\ Alerts!Items(p, "needsStories") = Alerts!NeedsStoriesEpics(p)
<1>1. Alerts!Items(p, "backlog") = Alerts!BacklogEpics(p)
  BY DEF Alerts!Items, Alerts!Card, Alerts!BacklogCard, Alerts!ByPlanning
<1>2. Alerts!Items(p, "missingTeam") = Alerts!MissingTeamEpics(p)
  BY DEF Alerts!Items, Alerts!Card, Alerts!MissingTeamCard, Alerts!ByTeam
<1>3. Alerts!Items(p, "missingLabels") = Alerts!MissingLabelEpics(p)
  BY DEF Alerts!Items, Alerts!Card, Alerts!MissingLabelsCard, Alerts!ByPlanning
<1>4. Alerts!Items(p, "needsStories") = Alerts!NeedsStoriesEpics(p)
  BY DEF Alerts!Items, Alerts!Card, Alerts!NeedsStoriesCard
<1> QED
  BY <1>1, <1>2, <1>3, <1>4

LEMMA PlanningApart == Alerts!OnePlanningCard
<1>1. \A e \in Alerts!MissingTeamEpics(page) : e \notin Alerts!BacklogEpics(page)
  BY DEF Alerts!MissingTeamEpics
<1>2. \A e \in Alerts!MissingLabelEpics(page) :
         e \notin Alerts!BacklogEpics(page) /\ e \notin Alerts!MissingTeamEpics(page)
  BY DEF Alerts!MissingLabelEpics
<1>3. \A e \in Alerts!NeedsStoriesEpics(page) :
         /\ e \notin Alerts!BacklogEpics(page) /\ e \notin Alerts!MissingTeamEpics(page)
         /\ e \notin Alerts!MissingLabelEpics(page)
  BY NeedsStoriesEpicsOf DEF Alerts!NeedsStoriesEpics
<1> QED
  BY <1>1, <1>2, <1>3, PlanningItems DEF Alerts!OnePlanningCard, Alerts!Planning


-----------------------------------------------------------------------------
(* What is planned, and what the cards say of epics and stories.             *)

LEMMA ReadyCounted ==
  ASSUME NEW p, NEW e, NEW t, Alerts!TeamReason(p, e, t) = "ready",
         NEW n, n = p.data.counts[e], n.acting \in Nat
  PROVE  \/ t \in GroupTeams /\ n.byTeam[t] > 0
         \/ /\ n.acting = 0
            /\ \E k \in Alerts!StoriesOf(p, e) : /\ p.data.tasks[k].status \notin Alerts!Terminal
                                          /\ Alerts!IssueMatches(p.data.tasks[k], p.data.sprint)
<1> SUFFICES ASSUME ~(t \in GroupTeams /\ n.byTeam[t] > 0)
             PROVE  /\ n.acting = 0
                    /\ \E k \in Alerts!StoriesOf(p, e) : /\ p.data.tasks[k].status \notin Alerts!Terminal
                                                  /\ Alerts!IssueMatches(p.data.tasks[k], p.data.sprint)
  OBVIOUS
<1>1. n.acting = 0 /\ Alerts!EpicReason(p, e) = "ready"
  BY DEF Alerts!TeamReason
<1>2. PICK stories : stories = Alerts!StoriesOf(p, e)
  OBVIOUS
<1>3. PICK open : open = {k \in stories : p.data.tasks[k].status \notin Alerts!Terminal}
  OBVIOUS
<1>4. PICK matching \in BOOLEAN :
        matching <=> \E k \in open : Alerts!IssueMatches(p.data.tasks[k], p.data.sprint)
  OBVIOUS
<1>5. Alerts!EpicReason(p, e) =
        CASE n.acting > 0 -> "ready"
          [] n.acting = 0 /\ n.outside > 0 -> "elsewhere"
          [] n.acting = 0 /\ n.outside = 0 /\ n.total > 0 /\ stories = {} -> "closed"
          [] n.acting = 0 /\ n.outside = 0 /\ n.total = 0 /\ stories = {} -> "none"
          [] n.acting = 0 /\ n.outside = 0 /\ stories # {} /\ open = {} -> "closed"
          [] OTHER -> IF matching THEN "ready" ELSE "elsewhere"
  BY <1>2, <1>3, <1>4 DEF Alerts!EpicReason
<1>6. matching
  BY <1>1, <1>5
<1> QED
  BY <1>1, <1>2, <1>3, <1>4, <1>6

LEMMA TeamCounted ==
  ASSUME NEW p, NEW e, NEW t \in GroupTeams, p.data.counts[e].byTeam[t] > 0
  PROVE  Alerts!TeamReason(p, e, t) = "ready"
BY DEF Alerts!TeamReason

\* An epic with a label that is expected of it is planned with teams of the group.
LEMMA PlannedInGroup ==
  ASSUME NEW p, p.teams \subseteq GroupTeams, NEW r, Alerts!PlannedByTeams(p, r), Alerts!HasLabel(p, r),
         NEW t \in Alerts!PlanningTeams(p, r)
  PROVE  t \in GroupTeams
<1>1. PICK seen : seen = (IF Alerts!Cardinality(p.teams) > 1 THEN Alerts!MatchedTeams(r) \intersect p.teams
                          ELSE Alerts!MatchedTeams(r))
  OBVIOUS
<1>2. PICK n : n = Alerts!Cardinality(p.teams)
  OBVIOUS
<1>3. Alerts!PlanningTeams(p, r) = CASE n = 1 -> p.teams [] n # 1 /\ seen # {} -> seen
                              [] OTHER -> {r.team}
  BY <1>1, <1>2, Zenon DEF Alerts!PlanningTeams
<1>4. Alerts!MatchedTeams(r) \subseteq GroupTeams /\ LabelledTeams \subseteq GroupTeams
  BY AlertsConstants DEF Alerts!MatchedTeams, Alerts!AlertsAssumption
<1>5. seen \subseteq GroupTeams
  BY <1>1, <1>4
<1>6. CASE n # 1 /\ seen = {}
  <2>1. t = r.team
    BY <1>3, <1>6
  <2>2. r.team \in LabelledTeams \/ Alerts!MatchedTeams(r) # {}
    BY <1>2, <1>6 DEF Alerts!HasLabel, Alerts!ExpectedLabels
  <2>3. CASE r.team \in LabelledTeams
    BY <2>1, <2>3, <1>4
  <2>4. CASE Alerts!MatchedTeams(r) # {}
    <3>1. n > 1 /\ Alerts!MatchedTeams(r) \intersect p.teams = {}
      BY <1>1, <1>2, <1>6, <2>4
    <3>2. p.teams # {}
      <4>1. SUFFICES ASSUME p.teams = {} PROVE FALSE
        OBVIOUS
      <4>2. n = Cardinality({})
        BY <1>2, <4>1, AlertsCardinality
      <4> QED
        BY <3>1, <4>2, FS_EmptySet
    <3>3. r.team \in p.teams
      BY <3>1, <3>2 DEF Alerts!PlannedByTeams, Alerts!AllTeams
    <3> QED
      BY <2>1, <3>3
  <2> QED
    BY <2>2, <2>3, <2>4
<1> QED
  BY <1>2, <1>3, <1>5, <1>6

\* What lists that nobody has patched say of stories and epics.
LEMMA FreshLists ==
  ASSUME AlertsPage(page), page.data.fresh
  PROVE  /\ \A k \in DOMAIN page.data.tasks :
               k \in Stories /\ page.data.tasks[k] = page.stories[k]
         /\ \A k \in DOMAIN page.data.incomplete : page.data.incomplete[k] = page.stories[k]
         /\ \A e \in DOMAIN page.data.scope : /\ page.data.scope[e] = page.epics[e]
                                              /\ Alerts!EpicMatches(page.epics[e], page.data.sprint)
<1>1. PICK lost \in BOOLEAN : page.data = Alerts!Loaded(page, page.data.sprint, lost)
  BY DEF AlertsPage, AsLoaded
<1>2. PICK d, sprint : d = page.data /\ sprint = page.data.sprint
  OBVIOUS
<1>3. d = Alerts!Loaded(page, sprint, lost)
  BY <1>1, <1>2
<1>4. /\ DOMAIN d.tasks = {k \in Stories : /\ page.stories[k].sprint = sprint
                                           /\ Alerts!OfGroup(page.stories[k])}
      /\ \A k \in DOMAIN d.tasks : d.tasks[k] = page.stories[k]
      /\ \A k \in DOMAIN d.incomplete : d.incomplete[k] = page.stories[k]
      /\ \A e \in DOMAIN d.scope : d.scope[e] = page.epics[e] /\ Alerts!EpicMatches(page.epics[e], sprint)
  BY <1>3, LoadedFields
<1> QED
  BY <1>1, <1>2, <1>4

\* And what was counted of them.
LEMMA FreshCounts ==
  ASSUME AlertsPage(page), page.data.fresh, page.data.complete
  PROVE  \E lost \in BOOLEAN :
            /\ ~lost
            /\ \A e \in DOMAIN page.data.scope :
                  page.data.counts[e] = Alerts!Counted(page, e, page.data.sprint, lost)
            /\ \A e \in DOMAIN page.data.ready :
                  page.data.openChildren[e] = Alerts!Counted(page, e, None, lost).open
<1>1. PICK lost \in BOOLEAN : page.data = Alerts!Loaded(page, page.data.sprint, lost)
  BY DEF AlertsPage, AsLoaded
<1>2. PICK d, sprint : d = page.data /\ sprint = page.data.sprint
  OBVIOUS
<1>3. d = Alerts!Loaded(page, sprint, lost)
  BY <1>1, <1>2
<1>4. /\ d.complete <=> ~lost
      /\ \A e \in DOMAIN d.scope : d.counts[e] = Alerts!Counted(page, e, sprint, lost)
      /\ \A e \in DOMAIN d.ready : d.openChildren[e] = Alerts!Counted(page, e, None, lost).open
  BY <1>3, LoadedFields
<1>5. ~lost
  BY <1>2, <1>4
<1> QED
  BY <1>1, <1>2, <1>4, <1>5

LEMMA TrueHygiene == ASSUME AlertsPage(page) PROVE Alerts!HygieneIsTrue
<1> SUFFICES ASSUME page.data.fresh, page.data.complete
             PROVE  /\ \A e \in Alerts!DoneEpics(page) : \A k \in Alerts!Children(page, e) :
                          page.stories[k].status \in Alerts!Terminal
                    /\ \A e \in Alerts!EmptyForAlert(page) : Alerts!Children(page, e) = {}
  BY DEF Alerts!HygieneIsTrue
<1>1. PICK lost \in BOOLEAN :
        /\ ~lost
        /\ \A e \in DOMAIN page.data.scope :
              page.data.counts[e] = Alerts!Counted(page, e, page.data.sprint, lost)
        /\ \A e \in DOMAIN page.data.ready :
              page.data.openChildren[e] = Alerts!Counted(page, e, None, lost).open
  BY FreshCounts
<1>2. ASSUME NEW e \in Alerts!DoneEpics(page), NEW k \in Alerts!Children(page, e)
      PROVE  page.stories[k].status \in Alerts!Terminal
  <2>1. PICK n : n = Alerts!Counted(page, e, None, lost)
    OBVIOUS
  <2>2. e \in DOMAIN page.data.ready /\ page.data.openChildren[e] = 0
    BY <1>2 DEF Alerts!DoneEpics
  <2>3. n.open = 0
    BY <1>1, <2>1, <2>2
  <2>4. n.open = 0 <=> \A j \in Alerts!Children(page, e) : page.stories[j].status \in Alerts!Terminal
    BY <1>1, <2>1, CountedRight
  <2> QED
    BY <1>2, <2>3, <2>4
<1>3. ASSUME NEW e \in Alerts!EmptyForAlert(page) PROVE Alerts!Children(page, e) = {}
  <2>1. PICK n : n = Alerts!Counted(page, e, page.data.sprint, lost)
    OBVIOUS
  <2>2. e \in Alerts!EmptyEpics(page)
    BY <1>3 DEF Alerts!EmptyForAlert
  <2>3. e \in DOMAIN page.data.scope /\ page.data.counts[e].total = 0
    BY <2>2 DEF Alerts!EmptyEpics
  <2>4. n.total = 0
    BY <1>1, <2>1, <2>3
  <2> QED
    BY <1>1, <2>1, <2>4, CountedRight
<1> QED
  BY <1>2, <1>3

LEMMA TruePostponed == ASSUME AlertsPage(page) PROVE Alerts!PostponedApart
<1> SUFFICES ASSUME page.data.fresh, NEW k \in Alerts!PostponedTasks(page)
             PROVE  k \notin Alerts!MissingStories(page) /\ k \notin Alerts!BlockedTasks(page)
  BY DEF Alerts!PostponedApart
<1>1. k \in DOMAIN page.data.tasks /\ page.data.tasks[k].status = "postponed"
  BY DEF Alerts!PostponedTasks
<1>2. k \in DOMAIN page.data.incomplete => page.data.incomplete[k].status = "postponed"
  BY <1>1, FreshLists
<1>3. k \notin Alerts!BlockedTasks(page)
  BY <1>1 DEF Alerts!BlockedTasks
<1>4. ASSUME k \in Alerts!MissingStories(page) PROVE FALSE
  BY <1>1, <1>2, <1>4 DEF Alerts!MissingStories, Alerts!Settled
<1> QED
  BY <1>3, <1>4

LEMMA TruePlanning == ASSUME AlertsPage(page) PROVE Alerts!PlanningComplete
<1> SUFFICES ASSUME page.data.fresh, page.data.complete, Alerts!IsFuture(page)
             PROVE  /\ \A e \in Alerts!Candidates(page) \ UNION {Alerts!Items(page, c) : c \in Alerts!Planning} :
                          \A t \in Alerts!PlanningTeams(page, page.data.scope[e]) :
                             \E k \in Alerts!OpenIn(e, Alerts!Future) :
                                page.stories[k].team = t \/ page.stories[k].status = "blocked"
                    /\ \A n \in Alerts!NeedsStories(page) :
                          \A k \in Alerts!OpenIn(n[1], Alerts!Future) :
                             page.stories[k].team = n[2] => page.stories[k].status = "blocked"
  BY DEF Alerts!PlanningComplete
<1>1. PICK lost \in BOOLEAN :
        /\ ~lost
        /\ \A e \in DOMAIN page.data.scope :
              page.data.counts[e] = Alerts!Counted(page, e, page.data.sprint, lost)
  BY FreshCounts
<1>2. page.data.sprint = Alerts!Future
  BY DEF Alerts!IsFuture
<1>3. ASSUME NEW e \in Alerts!Candidates(page), e \notin UNION {Alerts!Items(page, c) : c \in Alerts!Planning},
             NEW t \in Alerts!PlanningTeams(page, page.data.scope[e])
      PROVE  \E k \in Alerts!OpenIn(e, Alerts!Future) :
                page.stories[k].team = t \/ page.stories[k].status = "blocked"
  <2>1. /\ e \notin Alerts!BacklogEpics(page) /\ e \notin Alerts!MissingTeamEpics(page)
        /\ e \notin Alerts!MissingLabelEpics(page) /\ e \notin Alerts!NeedsStoriesEpics(page)
    BY <1>3, PlanningItems DEF Alerts!Planning
  <2>2. e \in DOMAIN page.data.scope
    BY DEF Alerts!Candidates
  <2>3. Alerts!EpicMatches(page.data.scope[e], page.data.sprint)
    BY <2>2, FreshLists
  <2>4. Alerts!HasLabel(page, page.data.scope[e])
    BY <2>1, <2>3 DEF Alerts!MissingLabelEpics
  <2>5. Alerts!TeamReason(page, e, t) = "ready"
    <3> SUFFICES ASSUME Alerts!TeamReason(page, e, t) # "ready" PROVE FALSE
      OBVIOUS
    <3>1. PICK earlier : earlier = Alerts!BacklogEpics(page) \union Alerts!MissingTeamEpics(page)
                                     \union Alerts!MissingLabelEpics(page)
      OBVIOUS
    <3>2. PICK labelled :
            labelled = {c \in Alerts!Candidates(page) \ earlier :
                           Alerts!EpicMatches(page.data.scope[c], page.data.sprint)
                           /\ Alerts!HasLabel(page, page.data.scope[c])}
      OBVIOUS
    <3>3. e \in labelled
      BY <2>1, <2>3, <2>4, <3>1, <3>2
    <3>4. Alerts!NeedsStories(page) =
            UNION {{<<c, u>> : u \in {v \in Alerts!PlanningTeams(page, page.data.scope[c]) :
                                         Alerts!TeamReason(page, c, v) # "ready"}} : c \in labelled}
      BY <3>1, <3>2 DEF Alerts!NeedsStories
    <3>5. <<e, t>> \in {<<e, u>> : u \in {v \in Alerts!PlanningTeams(page, page.data.scope[e]) :
                                             Alerts!TeamReason(page, e, v) # "ready"}}
      OBVIOUS
    <3>6. <<e, t>> \in Alerts!NeedsStories(page)
      BY <3>3, <3>4, <3>5
    <3>7. e \in Alerts!NeedsStoriesEpics(page)
      BY <3>6 DEF Alerts!NeedsStoriesEpics
    <3> QED
      BY <2>1, <3>7
  <2>6. PICK n : n = page.data.counts[e]
    OBVIOUS
  <2>7. n = Alerts!Counted(page, e, Alerts!Future, lost)
    BY <1>1, <1>2, <2>2, <2>6
  <2>8. /\ n.acting \in Nat
        /\ n.acting = 0 <=> \A k \in Alerts!Children(page, e) :
              ~(page.stories[k].sprint = Alerts!Future /\ Alerts!Actionable(page.stories[k]))
        /\ \A u \in GroupTeams :
              n.byTeam[u] = 0 <=> \A k \in Alerts!Children(page, e) :
                 ~(page.stories[k].sprint = Alerts!Future /\ Alerts!Actionable(page.stories[k])
                   /\ page.stories[k].team = u)
    BY <1>1, <2>7, CountedRight
  <2>9. CASE t \in GroupTeams /\ n.byTeam[t] > 0
    <3>1. n.byTeam[t] # 0
      BY <2>9
    <3>2. PICK k \in Alerts!Children(page, e) :
            /\ page.stories[k].sprint = Alerts!Future /\ Alerts!Actionable(page.stories[k])
            /\ page.stories[k].team = t
      BY <2>8, <2>9, <3>1
    <3>3. k \in Alerts!OpenIn(e, Alerts!Future)
      BY <3>2 DEF Alerts!OpenIn, Alerts!Actionable
    <3> QED
      BY <3>2, <3>3
  <2>10. CASE /\ n.acting = 0
              /\ \E k \in Alerts!StoriesOf(page, e) :
                    /\ page.data.tasks[k].status \notin Alerts!Terminal
                    /\ Alerts!IssueMatches(page.data.tasks[k], page.data.sprint)
    <3>1. PICK k \in Alerts!StoriesOf(page, e) :
            /\ page.data.tasks[k].status \notin Alerts!Terminal
            /\ Alerts!IssueMatches(page.data.tasks[k], page.data.sprint)
      BY <2>10
    <3>2. k \in DOMAIN page.data.tasks /\ page.data.tasks[k].epic = e
      BY DEF Alerts!StoriesOf
    <3>3. k \in Stories /\ page.data.tasks[k] = page.stories[k]
      BY <3>2, FreshLists
    <3>4. k \in Alerts!Children(page, e)
      BY <3>2, <3>3 DEF Alerts!Children
    <3>5. page.stories[k].sprint = Alerts!Future /\ page.stories[k].status \notin Alerts!Terminal
      BY <1>2, <3>1, <3>3 DEF Alerts!IssueMatches
    <3>6. page.stories[k].status = "blocked"
      BY <2>8, <2>10, <3>4, <3>5 DEF Alerts!Actionable
    <3>7. k \in Alerts!OpenIn(e, Alerts!Future)
      BY <3>4, <3>5 DEF Alerts!OpenIn
    <3> QED
      BY <3>6, <3>7
  <2> QED
    BY <2>5, <2>6, <2>8, <2>9, <2>10, ReadyCounted
<1>4. ASSUME NEW n \in Alerts!NeedsStories(page), NEW k \in Alerts!OpenIn(n[1], Alerts!Future),
             page.stories[k].team = n[2], page.stories[k].status # "blocked"
      PROVE  FALSE
  <2>1. PICK e, t : e = n[1] /\ t = n[2]
    OBVIOUS
  <2>2. /\ e \in Alerts!Candidates(page) /\ Alerts!HasLabel(page, page.data.scope[e])
        /\ t \in Alerts!PlanningTeams(page, page.data.scope[e]) /\ Alerts!TeamReason(page, e, t) # "ready"
    BY <2>1, NeedsStoriesEpicsOf
  <2>3. e \in DOMAIN page.data.scope /\ Alerts!PlannedByTeams(page, page.data.scope[e])
    BY <2>2 DEF Alerts!Candidates
  <2>4. t \in GroupTeams
    <3>1. page.teams \subseteq GroupTeams
      BY DEF AlertsPage
    <3> QED
      BY <2>2, <2>3, <3>1, PlannedInGroup
  <2>5. PICK c : c = page.data.counts[e]
    OBVIOUS
  <2>6. c = Alerts!Counted(page, e, Alerts!Future, lost)
    BY <1>1, <1>2, <2>3, <2>5
  <2>7. /\ c.byTeam[t] \in Nat
        /\ c.byTeam[t] = 0 <=> \A j \in Alerts!Children(page, e) :
              ~(page.stories[j].sprint = Alerts!Future /\ Alerts!Actionable(page.stories[j])
                /\ page.stories[j].team = t)
    BY <1>1, <2>4, <2>6, CountedRight
  <2>8. /\ k \in Alerts!Children(page, e) /\ page.stories[k].sprint = Alerts!Future
        /\ Alerts!Actionable(page.stories[k]) /\ page.stories[k].team = t
    BY <1>4, <2>1 DEF Alerts!OpenIn, Alerts!Actionable
  <2>9. c.byTeam[t] > 0
    BY <2>7, <2>8
  <2> QED
    BY <2>2, <2>4, <2>5, <2>9, TeamCounted
<1> QED
  BY <1>3, <1>4

LEMMA AlertsSoundOf == ASSUME AlertsPage(page) PROVE Alerts!TypeOK /\ Alerts!AlertsSound
<1>1. Alerts!EverythingListed
  BY CardsListed DEF Alerts!EverythingListed, Alerts!Items, Listed
<1>2. Alerts!TypeOK
  BY DEF AlertsPage, Alerts!TypeOK
<1> QED
  BY <1>1, <1>2, PlanningApart, TruePlanning, TrueHygiene, TruePostponed DEF Alerts!AlertsSound

AlertsInv == part = "alerts" => AlertsPage(page)

(* For any epics, stories, teams and labels, and any order of loads,         *)
(* searches, choices, changes of status and dismissals: each alert is listed *)
(* under a team and none comes back that was dismissed, an epic is on one    *)
(* planning card at most and leaves the chain only when its teams are ready, *)
(* and what the cards say of epics is true of their stories in Jira, as long *)
(* as nothing was patched since they were counted.                           *)
THEOREM AlertsAlwaysSound == PartsSpec => []AlertsSound
<1>1. PartsInit => AlertsInv
  BY AlertsInit DEF PartsInit, AlertsInv
<1>2. AlertsInv /\ [PartsNext]_partVars => AlertsInv'
  <2>1. SUFFICES ASSUME AlertsInv, [PartsNext]_partVars, part' = "alerts"
                 PROVE  AlertsPage(page')
    BY DEF AlertsInv
  <2>2. CASE MenusNext
    BY <2>1, <2>2 DEF MenusNext
  <2>3. CASE DependenciesNext
    BY <2>1, <2>3 DEF DependenciesNext
  <2>4. CASE StatsNext
    BY <2>1, <2>4 DEF StatsNext
  <2>5. CASE AlertsNext
    BY <2>1, <2>5, AlertsStep DEF AlertsNext, AlertsInv
  <2>6. CASE TimelineNext
    BY <2>1, <2>6 DEF TimelineNext
  <2>7. CASE BurndownNext
    BY <2>1, <2>7 DEF BurndownNext
  <2>8. CASE UNCHANGED partVars
    BY <2>1, <2>8 DEF partVars, AlertsInv
  <2> QED
    BY <2>1, <2>2, <2>3, <2>4, <2>5, <2>6, <2>7, <2>8 DEF PartsNext
<1>3. AlertsInv => AlertsSound
  BY AlertsSoundOf DEF AlertsInv, AlertsSound
<1> QED
  BY <1>1, <1>2, <1>3, PTL DEF PartsSpec

-----------------------------------------------------------------------------
(* The timeline: the focus on an epic and the lanes it is left for.          *)

TimelineFields ==
    {"plan", "moved", "all", "mode", "collapsed", "focus", "range", "restore", "skip", "init",
     "pending", "at", "hover", "search", "only", "edit", "kept", "left"}

\* Only lanes of epics are left for the focus, and returned to.
TimelinePage(p) ==
    /\ DOMAIN p = TimelineFields /\ p.edit \in BOOLEAN
    /\ p.focus # None => p.restore.mode = "epic"

\* What the effects of a render leave alone.
SameFrame(p, q) ==
    /\ DOMAIN q = TimelineFields
    /\ q.plan = p.plan /\ q.mode = p.mode /\ q.focus = p.focus
    /\ q.restore = p.restore /\ q.edit = p.edit

\* Lanes are those of p but for that of the issue scrolled to, or to be.
LanesBut(p, q) ==
    LET scrolled == {q.plan[i].epic : i \in {q.at, q.pending} \ {None}}
    IN q.collapsed \ scrolled = p.collapsed \ scrolled

LEMMA FrameKept ==
  ASSUME NEW p, NEW q, SameFrame(p, q), TimelinePage(p)
  PROVE  TimelinePage(q)
BY DEF SameFrame, TimelinePage

LEMMA CollapseKeeps ==
  ASSUME NEW p, DOMAIN p = TimelineFields, NEW q, q = Timeline!Collapse(p)
  PROVE  /\ SameFrame(p, q)
         /\ p.skip => q.collapsed = p.collapsed /\ q.pending = p.pending /\ q.at = p.at
<1>1. PICK all : all = Timeline!Lanes(p)
  OBVIOUS
<1>2. PICK some : some = all \ {Timeline!LaneForIssue(p, i) : i \in IF FocusSet = {} THEN Timeline!Keys ELSE FocusSet}
  OBVIOUS
<1>3. q = CASE p.skip -> [p EXCEPT !.skip = FALSE]
            [] ~p.skip /\ p.mode = "team" /\ p.all ->
                  IF p.init THEN p ELSE [p EXCEPT !.collapsed = all, !.init = TRUE]
            [] ~p.skip /\ p.mode = "epic" -> [p EXCEPT !.init = FALSE, !.collapsed = some]
            [] OTHER -> [p EXCEPT !.init = FALSE, !.collapsed = {}]
  BY <1>1, <1>2, Zenon DEF Timeline!Collapse
<1>4. CASE p.skip
  <2>1. q = [p EXCEPT !.skip = FALSE]
    BY <1>3, <1>4
  <2> QED
    BY <2>1 DEF SameFrame, TimelineFields
<1>5. CASE ~p.skip
  <2>1. \/ q = p \/ q = [p EXCEPT !.collapsed = all, !.init = TRUE]
        \/ q = [p EXCEPT !.init = FALSE, !.collapsed = some]
        \/ q = [p EXCEPT !.init = FALSE, !.collapsed = {}]
    BY <1>3, <1>5
  <2> QED
    BY <1>5, <2>1 DEF SameFrame, TimelineFields
<1> QED
  BY <1>4, <1>5

LEMMA ScrolledKeeps ==
  ASSUME NEW v, NEW p, DOMAIN p = TimelineFields, NEW q, q = Timeline!Scrolled(v, p)
  PROVE  /\ SameFrame(p, q)
         /\ \/ q = p
            \/ /\ p.pending # None /\ q.pending = None /\ q.at = p.pending
               /\ v.focus = None
               /\ v.mode = "epic" => q.collapsed = p.collapsed \ {v.plan[p.pending].epic}
<1>1. CASE v.focus = None /\ p.pending # None /\ Timeline!Findable(v, p.pending)
  <2>1. PICK i : i = p.pending
    OBVIOUS
  <2>2. PICK lane : lane = Timeline!LaneForIssue(v, i)
    OBVIOUS
  <2>3. PICK r : r = [p EXCEPT !.pending = None]
    OBVIOUS
  <2>4. PICK collapsed : collapsed = IF v.mode = "epic" THEN p.collapsed \ {lane} ELSE p.collapsed
    OBVIOUS
  <2>5. q = Timeline!ScrollToIssue(v, r, i, TRUE)
    BY <1>1, <2>1, <2>3 DEF Timeline!Scrolled
  <2>6. DOMAIN r = TimelineFields /\ r.collapsed = p.collapsed
    BY <2>3 DEF TimelineFields
  <2>7. q = [r EXCEPT !.collapsed = collapsed, !.at = i]
    BY <2>2, <2>4, <2>5, <2>6 DEF Timeline!ScrollToIssue, TimelineFields
  <2>8. /\ DOMAIN q = TimelineFields /\ q.plan = p.plan /\ q.mode = p.mode /\ q.focus = p.focus
        /\ q.restore = p.restore /\ q.edit = p.edit /\ q.pending = None /\ q.at = i
        /\ q.collapsed = collapsed
    BY <2>3, <2>6, <2>7 DEF TimelineFields
  <2>9. v.mode = "epic" => lane = v.plan[i].epic
    BY <1>1, <2>2 DEF Timeline!LaneForIssue
  <2> QED
    BY <1>1, <2>1, <2>4, <2>8, <2>9 DEF SameFrame
<1>2. CASE ~(v.focus = None /\ p.pending # None /\ Timeline!Findable(v, p.pending))
  BY <1>2 DEF Timeline!Scrolled, SameFrame
<1> QED
  BY <1>1, <1>2

LEMMA RenderedKeeps ==
  ASSUME NEW p, DOMAIN p = TimelineFields, NEW q, q = Timeline!Rendered(p)
  PROVE  SameFrame(p, q)
BY ScrolledKeeps DEF Timeline!Rendered

LEMMA RebuiltKeeps ==
  ASSUME NEW p, DOMAIN p = TimelineFields, NEW q, q = Timeline!Rebuilt(p)
  PROVE  /\ SameFrame(p, q)
         /\ p.skip /\ p.focus = None /\ p.mode = "epic" => LanesBut(p, q)
<1>1. PICK c : c = Timeline!Collapse(p)
  OBVIOUS
<1>2. PICK s : s = Timeline!Scrolled(p, c)
  OBVIOUS
<1>3. q = Timeline!Scrolled(s, s)
  BY <1>1, <1>2 DEF Timeline!Rebuilt, Timeline!Rendered
<1>4. /\ SameFrame(p, c)
      /\ p.skip => c.collapsed = p.collapsed /\ c.pending = p.pending /\ c.at = p.at
  BY <1>1, CollapseKeeps
<1>5. /\ SameFrame(c, s)
      /\ \/ s = c
         \/ /\ c.pending # None /\ s.pending = None /\ s.at = c.pending
            /\ p.focus = None
            /\ p.mode = "epic" => s.collapsed = c.collapsed \ {p.plan[c.pending].epic}
  BY <1>2, <1>4, ScrolledKeeps DEF SameFrame
<1>6. /\ SameFrame(s, q)
      /\ \/ q = s
         \/ /\ s.pending # None /\ q.pending = None /\ q.at = s.pending
            /\ s.focus = None
            /\ s.mode = "epic" => q.collapsed = s.collapsed \ {s.plan[s.pending].epic}
  BY <1>3, <1>5, ScrolledKeeps DEF SameFrame
<1>7. SameFrame(p, q)
  BY <1>4, <1>5, <1>6 DEF SameFrame
<1>8. ASSUME p.skip, p.focus = None, p.mode = "epic" PROVE LanesBut(p, q)
  <2>1. PICK scrolled : scrolled = {q.plan[i].epic : i \in {q.at, q.pending} \ {None}}
    OBVIOUS
  <2>2. q.plan = p.plan /\ s.plan = p.plan /\ s.mode = "epic"
    BY <1>4, <1>5, <1>7, <1>8 DEF SameFrame
  <2>3. q.collapsed = p.collapsed \/ \E e \in scrolled : q.collapsed = p.collapsed \ {e}
    <3>1. CASE s = c /\ q = s
      BY <1>4, <1>8, <3>1
    <3>2. CASE s # c /\ q = s
      <4>1. /\ c.pending # None /\ q.at = c.pending
            /\ q.collapsed = p.collapsed \ {p.plan[c.pending].epic}
        BY <1>4, <1>5, <1>8, <3>2
      <4>2. p.plan[c.pending].epic \in scrolled
        BY <2>1, <2>2, <4>1
      <4> QED
        BY <4>1, <4>2
    <3>3. CASE q # s
      <4>1. /\ s.pending # None /\ q.at = s.pending
            /\ q.collapsed = s.collapsed \ {p.plan[s.pending].epic}
        BY <1>6, <2>2, <3>3
      <4>2. s = c
        BY <1>5, <4>1
      <4>3. q.collapsed = p.collapsed \ {p.plan[s.pending].epic}
        BY <1>4, <1>8, <4>1, <4>2
      <4>4. p.plan[s.pending].epic \in scrolled
        BY <2>1, <2>2, <4>1
      <4> QED
        BY <4>3, <4>4
    <3> QED
      BY <3>1, <3>2, <3>3
  <2>4. q.collapsed \ scrolled = p.collapsed \ scrolled
    BY <2>3
  <2> QED
    BY <2>1, <2>4 DEF LanesBut
<1> QED
  BY <1>7, <1>8

LEMMA TimelineStepKeeps ==
  ASSUME NEW p, DOMAIN p = TimelineFields, NEW q, q = Timeline!Step(p)
  PROVE  /\ SameFrame(p, q)
         /\ q.skip = p.skip /\ q.collapsed = p.collapsed /\ q.pending = p.pending /\ q.at = p.at
<1>1. PICK left : left = [p.left EXCEPT !.steps = p.left.steps - 1]
  OBVIOUS
<1>2. q = [p EXCEPT !.left = left]
  BY <1>1 DEF Timeline!Step, TimelineFields
<1> QED
  BY <1>2 DEF SameFrame, TimelineFields

LEMMA ClearedKeeps ==
  ASSUME NEW p, TimelinePage(p), p.focus # None, NEW r, r = Timeline!Cleared(p)
  PROVE  /\ DOMAIN r = TimelineFields /\ r.edit = p.edit /\ r.focus = None /\ r.mode = "epic"
         /\ r.skip /\ r.collapsed = p.restore.collapsed
BY DEF TimelinePage, TimelineFields, Timeline!Cleared

\* A page the focus was left for, whatever else the user asked for with it.
LEMMA LeftKeeps ==
  ASSUME TimelinePage(page), NEW s, DOMAIN s = TimelineFields,
         s.edit \in BOOLEAN, s.focus = None,
         s.mode = "epic" => s.skip /\ s.collapsed = page.restore.collapsed,
         page' = Timeline!Rebuilt(Timeline!Step(s))
  PROVE  TimelinePage(page') /\ Timeline!LanesComeBack
<1>1. PICK r : r = Timeline!Step(s)
  OBVIOUS
<1>2. /\ DOMAIN r = TimelineFields /\ r.edit = s.edit /\ r.focus = None /\ r.mode = s.mode
      /\ r.skip = s.skip /\ r.collapsed = s.collapsed
  BY <1>1, TimelineStepKeeps DEF SameFrame
<1>3. PICK q : q = page'
  OBVIOUS
<1>4. q = Timeline!Rebuilt(r)
  BY <1>1, <1>3
<1>5. SameFrame(r, q) /\ (r.skip /\ r.focus = None /\ r.mode = "epic" => LanesBut(r, q))
  BY <1>2, <1>4, RebuiltKeeps
<1>6. TimelinePage(q)
  BY <1>2, <1>5 DEF SameFrame, TimelinePage
<1>7. ASSUME q.mode = "epic"
      PROVE  LET scrolled == {q.plan[i].epic : i \in {q.at, q.pending} \ {None}}
             IN q.collapsed \ scrolled = page.restore.collapsed \ scrolled
  <2>1. s.mode = "epic"
    BY <1>2, <1>5, <1>7 DEF SameFrame
  <2>2. r.skip /\ r.collapsed = page.restore.collapsed
    BY <1>2, <2>1
  <2>3. LanesBut(r, q)
    BY <1>2, <1>5, <2>1, <2>2
  <2> QED
    BY <2>2, <2>3 DEF LanesBut
<1> QED
  BY <1>3, <1>6, <1>7 DEF Timeline!LanesComeBack

\* A page whose focus is as it was.
LEMMA FocusLeft ==
  ASSUME NEW q, q = page', q.focus = page.focus \/ page.focus = None
  PROVE  Timeline!LanesComeBack
BY DEF Timeline!LanesComeBack

LEMMA ClearFocusHeld ==
  ASSUME TimelinePage(page), Timeline!ClearFocus
  PROVE  TimelinePage(page') /\ Timeline!LanesComeBack
<1>1. PICK s : s = Timeline!Cleared(page)
  OBVIOUS
<1>2. page.focus # None /\ page' = Timeline!Rebuilt(Timeline!Step(s))
  BY <1>1 DEF Timeline!ClearFocus
<1>3. /\ DOMAIN s = TimelineFields /\ s.edit = page.edit /\ s.focus = None
      /\ s.skip /\ s.collapsed = page.restore.collapsed
  BY <1>1, <1>2, ClearedKeeps
<1>4. page.edit \in BOOLEAN
  BY DEF TimelinePage
<1> QED
  BY <1>2, <1>3, <1>4, LeftKeeps

LEMMA FocusEpicHeld ==
  ASSUME TimelinePage(page), NEW epic, Timeline!FocusEpic(epic)
  PROVE  TimelinePage(page') /\ Timeline!LanesComeBack
<1>1. PICK range : range = Timeline!FocusRange(page, epic)
  OBVIOUS
<1>2. PICK restore : restore = [mode |-> page.mode, collapsed |-> page.collapsed,
                                range |-> page.range]
  OBVIOUS
<1>3. PICK s : s = [page EXCEPT !.restore = restore, !.focus = epic, !.range = range]
  OBVIOUS
<1>4. page.mode = "epic" /\ page.focus = None /\ page' = Timeline!Rebuilt(Timeline!Step(s))
  BY <1>1, <1>2, <1>3 DEF Timeline!FocusEpic, Timeline!HasEpicBar
<1>5. /\ DOMAIN s = TimelineFields /\ s.edit \in BOOLEAN
      /\ s.restore.mode = "epic"
  BY <1>2, <1>3, <1>4 DEF TimelinePage, TimelineFields
<1>6. PICK r : r = Timeline!Step(s)
  OBVIOUS
<1>7. DOMAIN r = TimelineFields /\ r.edit = s.edit /\ r.restore = s.restore
  BY <1>5, <1>6, TimelineStepKeeps DEF SameFrame
<1>8. SameFrame(r, page')
  BY <1>4, <1>6, <1>7, RebuiltKeeps
<1>9. TimelinePage(page')
  BY <1>5, <1>7, <1>8 DEF SameFrame, TimelinePage
<1> QED
  BY <1>4, <1>9, FocusLeft

LEMMA SetLaneModeHeld ==
  ASSUME TimelinePage(page), NEW mode, Timeline!SetLaneMode(mode)
  PROVE  TimelinePage(page') /\ Timeline!LanesComeBack
<1>1. PICK p : p = IF page.focus # None THEN Timeline!Cleared(page) ELSE page
  OBVIOUS
<1>2. PICK s : s = [p EXCEPT !.mode = mode]
  OBVIOUS
<1>3. page' = Timeline!Rebuilt(Timeline!Step(s))
  BY <1>1, <1>2 DEF Timeline!SetLaneMode
<1>4. DOMAIN p = TimelineFields /\ p.edit = page.edit /\ p.focus = None
  BY <1>1, ClearedKeeps DEF TimelinePage
<1>5. DOMAIN s = TimelineFields /\ s.edit = page.edit /\ s.focus = None
      /\ s.skip = p.skip /\ s.collapsed = p.collapsed
  BY <1>2, <1>4 DEF TimelineFields
<1>6. page.edit \in BOOLEAN
  BY DEF TimelinePage
<1>7. CASE page.focus # None
  <2>1. p.skip /\ p.collapsed = page.restore.collapsed
    BY <1>1, <1>7, ClearedKeeps
  <2> QED
    BY <1>3, <1>5, <1>6, <2>1, LeftKeeps
<1>8. CASE page.focus = None
  <2>1. PICK r : r = Timeline!Step(s)
    OBVIOUS
  <2>2. DOMAIN r = TimelineFields /\ r.edit = s.edit /\ r.focus = None
    BY <1>5, <2>1, TimelineStepKeeps DEF SameFrame
  <2>3. SameFrame(r, page')
    BY <1>3, <2>1, <2>2, RebuiltKeeps
  <2>4. TimelinePage(page')
    BY <1>5, <1>6, <2>2, <2>3 DEF SameFrame, TimelinePage
  <2> QED
    BY <1>8, <2>4, FocusLeft
<1> QED
  BY <1>7, <1>8

\* What leaves the focus and the way back alone.
LEMMA StayKeeps ==
  ASSUME TimelinePage(page), NEW s, SameFrame(page, s),
         page' \in {s, Timeline!Step(s), Timeline!Rendered(Timeline!Step(s)), Timeline!Rebuilt(Timeline!Step(s))}
  PROVE  TimelinePage(page') /\ Timeline!LanesComeBack
<1>1. PICK q : q = page'
  OBVIOUS
<1>2. PICK r : r = Timeline!Step(s)
  OBVIOUS
<1>3. DOMAIN s = TimelineFields
  BY DEF SameFrame
<1>4. SameFrame(page, r)
  BY <1>2, <1>3, TimelineStepKeeps DEF SameFrame
<1>5. q \in {s, r, Timeline!Rendered(r), Timeline!Rebuilt(r)}
  BY <1>1, <1>2
<1>6. DOMAIN r = TimelineFields
  BY <1>4 DEF SameFrame
<1>7. SameFrame(r, Timeline!Rendered(r)) /\ SameFrame(r, Timeline!Rebuilt(r))
  BY <1>6, RenderedKeeps, RebuiltKeeps
<1>8. SameFrame(page, q)
  BY <1>4, <1>5, <1>7 DEF SameFrame
<1>9. TimelinePage(q) /\ q.focus = page.focus
  BY <1>8, FrameKept DEF SameFrame
<1> QED
  BY <1>1, <1>9, FocusLeft

LEMMA ToggleLaneHeld ==
  ASSUME TimelinePage(page), NEW lane, Timeline!ToggleLane(lane)
  PROVE  TimelinePage(page') /\ Timeline!LanesComeBack
<1>1. PICK collapsed :
        collapsed = IF lane \in page.collapsed THEN page.collapsed \ {lane}
                    ELSE page.collapsed \union {lane}
  OBVIOUS
<1>2. PICK s : s = [page EXCEPT !.collapsed = collapsed]
  OBVIOUS
<1>3. page' = Timeline!Rendered(Timeline!Step(s))
  BY <1>1, <1>2 DEF Timeline!ToggleLane, TimelinePage, TimelineFields
<1>4. SameFrame(page, s)
  BY <1>2 DEF SameFrame, TimelinePage, TimelineFields
<1> QED
  BY <1>3, <1>4, StayKeeps

LEMMA ClickCardHeld ==
  ASSUME TimelinePage(page), NEW i, Timeline!ClickCard(i)
  PROVE  TimelinePage(page') /\ Timeline!LanesComeBack
<1>1. CASE page.focus # None
  <2>1. PICK p : p = Timeline!Cleared(page)
    OBVIOUS
  <2>2. PICK s : s = [p EXCEPT !.pending = i]
    OBVIOUS
  <2>3. page' = Timeline!Rebuilt(Timeline!Step(s))
    BY <1>1, <2>1, <2>2 DEF Timeline!ClickCard
  <2>4. /\ DOMAIN p = TimelineFields /\ p.edit = page.edit /\ p.focus = None
        /\ p.skip /\ p.collapsed = page.restore.collapsed
    BY <1>1, <2>1, ClearedKeeps
  <2>5. /\ DOMAIN s = TimelineFields /\ s.edit = page.edit /\ s.focus = None
        /\ s.skip /\ s.collapsed = page.restore.collapsed
    BY <2>2, <2>4 DEF TimelineFields
  <2>6. page.edit \in BOOLEAN
    BY DEF TimelinePage
  <2> QED
    BY <2>3, <2>5, <2>6, LeftKeeps
<1>2. CASE page.focus = None
  <2>1. PICK placed : placed = Timeline!Findable(page, i)
    OBVIOUS
  <2>2. PICK s : s = Timeline!ScrollToIssue(page, page, i, placed)
    OBVIOUS
  <2>3. page' = Timeline!Rendered(Timeline!Step(s))
    BY <1>2, <2>1, <2>2 DEF Timeline!ClickCard
  <2>4. PICK collapsed, at : s = [page EXCEPT !.collapsed = collapsed, !.at = at]
    BY <2>2 DEF Timeline!ScrollToIssue
  <2>5. SameFrame(page, s)
    BY <2>4 DEF SameFrame, TimelinePage, TimelineFields
  <2> QED
    BY <2>3, <2>5, StayKeeps
<1> QED
  BY <1>1, <1>2

LEMMA SearchTimelineHeld ==
  ASSUME TimelinePage(page), Timeline!Search \/ Timeline!ConflictsOnly
  PROVE  TimelinePage(page') /\ Timeline!LanesComeBack
<1>1. PICK search, only : search = ~page.search /\ only = ~page.only
  OBVIOUS
<1>2. PICK s, t : s = [page EXCEPT !.search = search] /\ t = [page EXCEPT !.only = only]
  OBVIOUS
<1>3. page' = Timeline!Rebuilt(Timeline!Step(s)) \/ page' = Timeline!Step(t)
  BY <1>1, <1>2 DEF Timeline!Search, Timeline!ConflictsOnly, TimelinePage, TimelineFields
<1>4. SameFrame(page, s) /\ SameFrame(page, t)
  BY <1>2 DEF SameFrame, TimelinePage, TimelineFields
<1> QED
  BY <1>3, <1>4, StayKeeps

LEMMA MoveIssueHeld ==
  ASSUME TimelinePage(page), NEW i, Timeline!MoveIssue(i)
  PROVE  TimelinePage(page') /\ Timeline!LanesComeBack
<1>1. PICK moved : moved = IF i \in page.moved THEN page.moved \ {i} ELSE page.moved \union {i}
  OBVIOUS
<1>2. PICK s : s = [page EXCEPT !.moved = moved]
  OBVIOUS
<1>3. page' = Timeline!Rebuilt(Timeline!Step(s))
  BY <1>1, <1>2 DEF Timeline!MoveIssue, TimelinePage, TimelineFields
<1>4. SameFrame(page, s)
  BY <1>2 DEF SameFrame, TimelinePage, TimelineFields
<1> QED
  BY <1>3, <1>4, StayKeeps

LEMMA PointerHeld ==
  ASSUME TimelinePage(page), NEW i, Timeline!Hover(i) \/ Timeline!Leave
  PROVE  TimelinePage(page') /\ Timeline!LanesComeBack
<1>1. PICK s, t : s = [page EXCEPT !.hover = i] /\ t = [page EXCEPT !.hover = None]
  OBVIOUS
<1>2. page' = Timeline!Step(s) \/ page' = t
  BY <1>1 DEF Timeline!Hover, Timeline!Leave
<1>3. SameFrame(page, s) /\ SameFrame(page, t)
  BY <1>1 DEF SameFrame, TimelinePage, TimelineFields
<1> QED
  BY <1>2, <1>3, StayKeeps

LEMMA ToggleEditModeHeld ==
  ASSUME TimelinePage(page), Timeline!ToggleEditMode
  PROVE  TimelinePage(page') /\ Timeline!LanesComeBack
<1>1. PICK leaves \in BOOLEAN : leaves <=> ~page.edit /\ page.focus # None
  OBVIOUS
<1>2. PICK edit \in BOOLEAN : edit <=> ~page.edit
  OBVIOUS
<1>3. PICK kept : kept = (leaves \/ page.kept)
  OBVIOUS
<1>4. PICK focus : focus = IF page.edit THEN page.focus ELSE None
  OBVIOUS
<1>5. PICK s : s = [page EXCEPT !.edit = edit, !.focus = focus, !.kept = kept]
  OBVIOUS
<1>6. page' = Timeline!Rebuilt(Timeline!Step(s)) \/ page' = Timeline!Step(s)
  BY <1>1, <1>2, <1>3, <1>4, <1>5 DEF Timeline!ToggleEditMode, TimelinePage, TimelineFields
<1>7. /\ DOMAIN s = TimelineFields /\ s.edit = edit /\ s.focus = focus
      /\ s.restore = page.restore
  BY <1>5 DEF TimelinePage, TimelineFields
<1>8. PICK q : q = page'
  OBVIOUS
<1>9. DOMAIN q = TimelineFields /\ q.edit = edit /\ q.focus = focus /\ q.restore = page.restore
  <2>1. PICK r : r = Timeline!Step(s)
    OBVIOUS
  <2>2. SameFrame(s, r) /\ DOMAIN r = TimelineFields
    BY <1>7, <2>1, TimelineStepKeeps DEF SameFrame
  <2>3. q = r \/ q = Timeline!Rebuilt(r)
    BY <1>6, <1>8, <2>1
  <2>4. SameFrame(r, Timeline!Rebuilt(r))
    BY <2>2, RebuiltKeeps
  <2> QED
    BY <1>7, <2>2, <2>3, <2>4 DEF SameFrame
<1>10. TimelinePage(q)
  BY <1>4, <1>9 DEF TimelinePage
<1>11. page.focus # None /\ q.focus = None => q.edit
  BY <1>2, <1>4, <1>9 DEF TimelinePage
<1> QED
  BY <1>8, <1>10, <1>11 DEF Timeline!LanesComeBack

LEMMA RunScenarioHeld ==
  ASSUME TimelinePage(page), NEW kind, Timeline!RunScenario(kind)
  PROVE  TimelinePage(page') /\ Timeline!LanesComeBack
<1>1. PICK plan : plan = [page.plan EXCEPT ![1] = kind]
  OBVIOUS
<1>2. PICK left : left = [page.left EXCEPT !.runs = page.left.runs - 1]
  OBVIOUS
<1>3. PICK p : p = [page EXCEPT !.plan = plan, !.left = left]
  OBVIOUS
<1>4. PICK c : c = Timeline!Collapse(p)
  OBVIOUS
<1>5. PICK q : q = Timeline!Scrolled(p, c)
  OBVIOUS
<1>6. PICK r : r = [q EXCEPT !.init = FALSE]
  OBVIOUS
<1>7. page' = Timeline!Rendered(r)
  BY <1>1, <1>2, <1>3, <1>4, <1>5, <1>6 DEF Timeline!RunScenario, TimelinePage, TimelineFields
<1>8. /\ DOMAIN p = TimelineFields /\ p.focus = page.focus /\ p.restore = page.restore
      /\ p.edit = page.edit
  BY <1>3 DEF TimelinePage, TimelineFields
<1>9. SameFrame(p, c)
  BY <1>4, <1>8, CollapseKeeps
<1>10. SameFrame(c, q)
  BY <1>5, <1>9, ScrolledKeeps DEF SameFrame
<1>11. SameFrame(q, r) /\ DOMAIN r = TimelineFields
  BY <1>6, <1>10 DEF SameFrame, TimelineFields
<1>12. SameFrame(r, page')
  BY <1>7, <1>11, RenderedKeeps
<1>13. TimelinePage(page') /\ page'.focus = page.focus
  BY <1>8, <1>9, <1>10, <1>11, <1>12 DEF SameFrame, TimelinePage
<1> QED
  BY <1>13, FocusLeft

LEMMA TimelineInit == Timeline!Init => TimelinePage(page)
<1> SUFFICES ASSUME Timeline!Init PROVE TimelinePage(page)
  OBVIOUS
<1>1. PICK plan, all, mode : page = [Timeline!Collapse(Timeline!NewPage(plan, all, mode)) EXCEPT !.init = FALSE]
  BY DEF Timeline!Init
<1>2. PICK p : p = Timeline!NewPage(plan, all, mode)
  OBVIOUS
<1>3. DOMAIN p = TimelineFields /\ p.focus = None /\ p.edit \in BOOLEAN
  BY <1>2 DEF Timeline!NewPage, TimelineFields
<1>4. PICK c : c = Timeline!Collapse(p)
  OBVIOUS
<1>5. SameFrame(p, c)
  BY <1>3, <1>4, CollapseKeeps
<1>6. page = [c EXCEPT !.init = FALSE]
  BY <1>1, <1>2, <1>4
<1> QED
  BY <1>3, <1>5, <1>6 DEF SameFrame, TimelinePage, TimelineFields

LEMMA TimelineStep == ASSUME TimelinePage(page), Timeline!Next PROVE TimelinePage(page') /\ Timeline!LanesComeBack
BY ClearFocusHeld, SearchTimelineHeld, ToggleEditModeHeld, PointerHeld, FocusEpicHeld,
   SetLaneModeHeld, ToggleLaneHeld, ClickCardHeld, MoveIssueHeld, RunScenarioHeld DEF Timeline!Next

TimelineInv == part = "timeline" => TimelinePage(page)

(* For any plans, lanes, edits, runs and searches: whoever leaves the focus  *)
(* on an epic for epic lanes finds them collapsed as they were, but for that *)
(* of the issue scrolled to, or asked for and not on the timeline yet.       *)
THEOREM LanesAlwaysComeBack == PartsSpec => LanesComeBack
<1>1. PartsInit => TimelineInv
  BY TimelineInit DEF PartsInit, TimelineInv
<1>2. TimelineInv /\ [PartsNext]_partVars => TimelineInv'
  <2>1. SUFFICES ASSUME TimelineInv, [PartsNext]_partVars, part' = "timeline"
                 PROVE  TimelinePage(page')
    BY DEF TimelineInv
  <2>2. CASE MenusNext
    BY <2>1, <2>2 DEF MenusNext
  <2>3. CASE DependenciesNext
    BY <2>1, <2>3 DEF DependenciesNext
  <2>4. CASE StatsNext
    BY <2>1, <2>4 DEF StatsNext
  <2>5. CASE AlertsNext
    BY <2>1, <2>5 DEF AlertsNext
  <2>6. CASE TimelineNext
    BY <2>1, <2>6, TimelineStep DEF TimelineNext, TimelineInv
  <2>7. CASE BurndownNext
    BY <2>1, <2>7 DEF BurndownNext
  <2>8. CASE UNCHANGED partVars
    BY <2>1, <2>8 DEF partVars, TimelineInv
  <2> QED
    BY <2>1, <2>2, <2>3, <2>4, <2>5, <2>6, <2>7, <2>8 DEF PartsNext
<1>3. TimelineInv /\ [PartsNext]_partVars => [part = "timeline" => Timeline!LanesComeBack]_partVars
  <2>1. SUFFICES ASSUME TimelineInv, PartsNext, part = "timeline"
                 PROVE  Timeline!LanesComeBack
    OBVIOUS
  <2>2. TimelineNext
    BY <2>1 DEF PartsNext, MenusNext, DependenciesNext, StatsNext, AlertsNext, BurndownNext
  <2> QED
    BY <2>1, <2>2, TimelineStep DEF TimelineNext, TimelineInv
<1> QED
  BY <1>1, <1>2, <1>3, PTL DEF PartsSpec, LanesComeBack

-----------------------------------------------------------------------------
(* Induction, of which the set of the numbers, or of the parts of a set, that *)
(* have the property is the parameter.                                       *)
LEMMA NatSetInduction ==
  ASSUME NEW F, 0 \in F, \A n \in Nat : n \in F => n + 1 \in F
  PROVE  Nat \subseteq F
<1> SUFFICES ASSUME Nat \ F # {} PROVE FALSE
  OBVIOUS
<1>1. PICK n \in Nat \ F : \A m \in Nat \ F : n <= m
  BY LeastOf
<1>2. n # 0 /\ n - 1 \in Nat
  BY <1>1
<1>3. n - 1 \in F
  BY <1>1, <1>2
<1>4. (n - 1) + 1 = n
  BY <1>1
<1> QED
  BY <1>1, <1>2, <1>3, <1>4

LEMMA SubsetInduction ==
  ASSUME NEW S, IsFiniteSet(S), NEW F,
         \A s \in SUBSET S : (\A x \in s : s \ {x} \in F) => s \in F
  PROVE  S \in F
<1> DEFINE G == {n \in Nat : \A s \in SUBSET S : IsFiniteSet(s) /\ Cardinality(s) = n => s \in F}
<1>1. 0 \in G
  <2>1. {} \in F
    OBVIOUS
  <2> QED
    BY <2>1, FS_EmptySet
<1>2. ASSUME NEW n \in Nat, n \in G PROVE n + 1 \in G
  <2>1. SUFFICES ASSUME NEW s \in SUBSET S, IsFiniteSet(s), Cardinality(s) = n + 1 PROVE s \in F
    OBVIOUS
  <2>2. ASSUME NEW x \in s PROVE s \ {x} \in F
    <3>1. IsFiniteSet(s \ {x}) /\ Cardinality(s \ {x}) = Cardinality(s) - 1
      BY <2>1, FS_RemoveElement
    <3>2. Cardinality(s) - 1 = n
      BY <2>1
    <3> QED
      BY <1>2, <3>1, <3>2
  <2> HIDE DEF G
  <2> QED
    BY <2>2
<1>3. Nat \subseteq G
  <2> HIDE DEF G
  <2> QED
    BY <1>1, <1>2, NatSetInduction
<1>4. Cardinality(S) \in Nat
  BY FS_CardinalityType
<1> QED
  BY <1>3, <1>4

LEMMA SetInduction ==
  ASSUME NEW S, IsFiniteSet(S), NEW F, {} \in F,
         \A s \in SUBSET S : \A x \in S \ s : s \in F => s \union {x} \in F
  PROVE  S \in F
<1>1. ASSUME NEW s \in SUBSET S, \A x \in s : s \ {x} \in F PROVE s \in F
  <2>1. CASE s = {}
    BY <2>1
  <2>2. CASE s # {}
    <3>1. PICK x \in s : TRUE
      BY <2>2
    <3>2. s \ {x} \in SUBSET S /\ x \in S \ (s \ {x}) /\ s \ {x} \in F
      BY <1>1, <3>1
    <3>3. (s \ {x}) \union {x} = s
      BY <3>1
    <3>4. (s \ {x}) \union {x} \in F
      BY <3>2
    <3> QED
      BY <3>3, <3>4
  <2> QED
    BY <2>1, <2>2
<1> QED
  BY <1>1, SubsetInduction

LEMMA ImageFinite ==
  ASSUME NEW f, NEW S, IsFiniteSet(S)
  PROVE  IsFiniteSet({f[x] : x \in S})
<1> DEFINE F == {s \in SUBSET S : IsFiniteSet({f[x] : x \in s})}
<1>1. {} \in F
  BY FS_EmptySet
<1>2. ASSUME NEW s \in SUBSET S, NEW x \in S \ s, s \in F PROVE s \union {x} \in F
  <2>1. PICK t : t = {f[y] : y \in s}
    OBVIOUS
  <2>2. {f[y] : y \in s \union {x}} = t \union {f[x]}
    BY <2>1
  <2>3. IsFiniteSet(t \union {f[x]})
    BY <1>2, <2>1, FS_AddElement
  <2> QED
    BY <2>2, <2>3
<1>3. S \in F
  <2> HIDE DEF F
  <2> QED
    BY <1>1, <1>2, SetInduction
<1> QED
  BY <1>3

-----------------------------------------------------------------------------
(* Sums over finite sets.                                                    *)

SumBody(f, g, s) == IF s = {} THEN 0
                    ELSE f[CHOOSE x \in s : TRUE] + g[s \ {CHOOSE x \in s : TRUE}]

LEMMA SumUnfold ==
  ASSUME NEW f, NEW S
  PROVE  Burn!SumFunctionOnSet(f, S) = (CHOOSE g : g = [s \in SUBSET S |-> SumBody(f, g, s)])[S]
BY Zenon DEF Burn!SumFunctionOnSet, Burn!FoldFunctionOnSet, Burn!MapThenFoldSet, SumBody

\* There is such a function.
LEMMA SumExists ==
  ASSUME NEW f, NEW S, IsFiniteSet(S)
  PROVE  \E g : g = [s \in SUBSET S |-> SumBody(f, g, s)]
<1> DEFINE Small(n) == {s \in SUBSET S : Cardinality(s) <= n}
           F == {n \in Nat : \E g : g = [s \in Small(n) |-> SumBody(f, g, s)]}
<1>0. \A s \in SUBSET S : IsFiniteSet(s) /\ Cardinality(s) \in Nat
  BY FS_Subset, FS_CardinalityType
<1>1. 0 \in F
  <2>1. \A s \in Small(0) : s = {}
    BY <1>0, FS_EmptySet
  <2>2. PICK g : g = [s \in Small(0) |-> 0]
    OBVIOUS
  <2>3. \A s \in Small(0) : SumBody(f, g, s) = 0
    BY <2>1 DEF SumBody
  <2>4. g = [s \in Small(0) |-> SumBody(f, g, s)]
    BY <2>2, <2>3
  <2> QED
    BY <2>4
<1>2. ASSUME NEW n \in Nat, n \in F PROVE n + 1 \in F
  <2>1. PICK g : g = [s \in Small(n) |-> SumBody(f, g, s)]
    BY <1>2
  <2>2. PICK h : h = [s \in Small(n + 1) |-> IF s \in Small(n) THEN g[s] ELSE SumBody(f, g, s)]
    OBVIOUS
  <2>3. ASSUME NEW s \in Small(n + 1) PROVE SumBody(f, g, s) = SumBody(f, h, s)
    <3>1. CASE s = {}
      BY <3>1 DEF SumBody
    <3>2. CASE s # {}
      <4>1. PICK x : x = (CHOOSE y \in s : TRUE)
        OBVIOUS
      <4>2. x \in s
        BY <3>2, <4>1
      <4>3. Cardinality(s \ {x}) = Cardinality(s) - 1
        BY <1>0, <4>2, FS_RemoveElement
      <4>4. s \ {x} \in Small(n) /\ s \ {x} \in Small(n + 1)
        BY <1>0, <4>3
      <4>5. h[s \ {x}] = g[s \ {x}]
        BY <2>2, <4>4
      <4>6. SumBody(f, g, s) = f[x] + g[s \ {x}] /\ SumBody(f, h, s) = f[x] + h[s \ {x}]
        BY <3>2, <4>1 DEF SumBody
      <4> QED
        BY <4>5, <4>6
    <3> QED
      BY <3>1, <3>2
  <2>4. \A s \in Small(n + 1) : h[s] = SumBody(f, h, s)
    <3>1. ASSUME NEW s \in Small(n + 1) PROVE h[s] = SumBody(f, h, s)
      <4>1. CASE s \in Small(n)
        <5>1. h[s] = g[s] /\ g[s] = SumBody(f, g, s)
          BY <2>1, <2>2, <4>1
        <5> QED
          BY <2>3, <5>1
      <4>2. CASE s \notin Small(n)
        <5>1. h[s] = SumBody(f, g, s)
          BY <2>2, <4>2
        <5> QED
          BY <2>3, <5>1
      <4> QED
        BY <4>1, <4>2
    <3> QED
      BY <3>1
  <2>5. h = [s \in Small(n + 1) |-> SumBody(f, h, s)]
    <3>1. h = [s \in Small(n + 1) |-> h[s]]
      BY <2>2
    <3> HIDE DEF Small
    <3> QED
      BY <2>4, <3>1
  <2> QED
    BY <2>5
<1>3. Cardinality(S) \in F
  <2>1. Nat \subseteq F
    <3> HIDE DEF F
    <3> QED
      BY <1>1, <1>2, NatSetInduction
  <2> QED
    BY <1>0, <2>1
<1>4. Small(Cardinality(S)) = SUBSET S
  <2>1. \A s \in SUBSET S : Cardinality(s) <= Cardinality(S)
    BY FS_Subset
  <2> QED
    BY <2>1
<1> QED
  BY <1>3, <1>4

\* The sum of a set is that of the set without the element chosen, and that.
LEMMA SumStep ==
  ASSUME NEW f, NEW S, IsFiniteSet(S)
  PROVE  /\ S = {} => Burn!SumFunctionOnSet(f, S) = 0
         /\ S # {} => \E x \in S : /\ x = (CHOOSE y \in S : TRUE)
                                   /\ Burn!SumFunctionOnSet(f, S) = f[x] + Burn!SumFunctionOnSet(f, S \ {x})
<1>0. \A s \in SUBSET S : IsFiniteSet(s)
  BY FS_Subset
<1>1. PICK g : g = [s \in SUBSET S |-> SumBody(f, g, s)]
  BY SumExists
<1> DEFINE F == {s \in SUBSET S : Burn!SumFunctionOnSet(f, s) = g[s]}
<1>2. ASSUME NEW s \in SUBSET S PROVE s \in F
  <2>1. PICK h : h = (CHOOSE k : k = [t \in SUBSET s |-> SumBody(f, k, t)])
    OBVIOUS
  <2>2. h = [t \in SUBSET s |-> SumBody(f, h, t)]
    <3>1. \E k : k = [t \in SUBSET s |-> SumBody(f, k, t)]
      BY <1>0, SumExists
    <3> QED
      BY <2>1, <3>1
  <2>3. Burn!SumFunctionOnSet(f, s) = h[s]
    BY <2>1, SumUnfold
  <2> DEFINE H == {t \in SUBSET s : h[t] = g[t]}
  <2>4. ASSUME NEW t \in SUBSET s, \A x \in t : t \ {x} \in H PROVE t \in H
    <3>1. h[t] = SumBody(f, h, t) /\ g[t] = SumBody(f, g, t)
      BY <1>1, <2>2
    <3>2. SumBody(f, h, t) = SumBody(f, g, t)
      <4>1. CASE t = {}
        BY <4>1 DEF SumBody
      <4>2. CASE t # {}
        <5>1. PICK x : x = (CHOOSE y \in t : TRUE)
          OBVIOUS
        <5>2. x \in t
          BY <4>2, <5>1
        <5>3. h[t \ {x}] = g[t \ {x}]
          BY <2>4, <5>2
        <5>4. SumBody(f, h, t) = f[x] + h[t \ {x}] /\ SumBody(f, g, t) = f[x] + g[t \ {x}]
          BY <4>2, <5>1 DEF SumBody
        <5> QED
          BY <5>3, <5>4
      <4> QED
        BY <4>1, <4>2
    <3> QED
      BY <3>1, <3>2
  <2>5. s \in H
    <3> HIDE DEF H
    <3> QED
      BY <1>0, <2>4, SubsetInduction
  <2> QED
    BY <2>3, <2>5
<1>3. g[S] = SumBody(f, g, S)
  BY <1>1
<1>4. S = {} => Burn!SumFunctionOnSet(f, S) = 0
  BY <1>2, <1>3 DEF SumBody
<1>5. ASSUME S # {}
      PROVE  \E x \in S : /\ x = (CHOOSE y \in S : TRUE)
                          /\ Burn!SumFunctionOnSet(f, S) = f[x] + Burn!SumFunctionOnSet(f, S \ {x})
  <2>1. PICK x : x = (CHOOSE y \in S : TRUE)
    OBVIOUS
  <2>2. x \in S
    BY <1>5, <2>1
  <2>3. g[S] = f[x] + g[S \ {x}]
    BY <1>3, <1>5, <2>1 DEF SumBody
  <2>4. Burn!SumFunctionOnSet(f, S) = g[S] /\ Burn!SumFunctionOnSet(f, S \ {x}) = g[S \ {x}]
    BY <1>2
  <2>5. Burn!SumFunctionOnSet(f, S) = f[x] + Burn!SumFunctionOnSet(f, S \ {x})
    BY <2>3, <2>4
  <2> QED
    BY <2>1, <2>2, <2>5
<1> QED
  BY <1>4, <1>5

LEMMA SumInt ==
  ASSUME NEW f, NEW S, IsFiniteSet(S), \A x \in S : f[x] \in Int
  PROVE  Burn!SumFunctionOnSet(f, S) \in Int
<1> DEFINE F == {s \in SUBSET S : Burn!SumFunctionOnSet(f, s) \in Int}
<1>1. ASSUME NEW s \in SUBSET S, \A x \in s : s \ {x} \in F PROVE s \in F
  <2>1. IsFiniteSet(s)
    BY FS_Subset
  <2>2. CASE s = {}
    BY <2>1, <2>2, SumStep
  <2>3. CASE s # {}
    <3>1. PICK x \in s : Burn!SumFunctionOnSet(f, s) = f[x] + Burn!SumFunctionOnSet(f, s \ {x})
      BY <2>1, <2>3, SumStep
    <3>2. f[x] \in Int /\ Burn!SumFunctionOnSet(f, s \ {x}) \in Int
      BY <1>1
    <3> QED
      BY <3>1, <3>2
  <2> QED
    BY <2>2, <2>3
<1>2. S \in F
  <2> HIDE DEF F
  <2> QED
    BY <1>1, SubsetInduction
<1> QED
  BY <1>2

\* Any element may be taken first, of integers.
LEMMA SumRemove ==
  ASSUME NEW f, NEW S, IsFiniteSet(S), \A x \in S : f[x] \in Int
  PROVE  /\ Burn!SumFunctionOnSet(f, S) \in Int
         /\ \A x \in S : Burn!SumFunctionOnSet(f, S) = f[x] + Burn!SumFunctionOnSet(f, S \ {x})
<1> DEFINE Sum(s) == Burn!SumFunctionOnSet(f, s)
           F == {s \in SUBSET S : Sum(s) \in Int /\ \A x \in s : Sum(s) = f[x] + Sum(s \ {x})}
<1>0. \A s \in SUBSET S : IsFiniteSet(s)
  BY FS_Subset
<1> HIDE DEF Sum
<1>1. ASSUME NEW s \in SUBSET S, \A x \in s : s \ {x} \in F PROVE s \in F
  <2>1. CASE s = {}
    <3>1. Sum(s) = 0
      BY <1>0, <2>1, SumStep DEF Sum
    <3> QED
      BY <2>1, <3>1
  <2>2. CASE s # {}
    <3>1. PICK c \in s : Sum(s) = f[c] + Sum(s \ {c})
      BY <1>0, <2>2, SumStep DEF Sum
    <3>2. \A x \in s : Sum(s \ {x}) \in Int /\ f[x] \in Int
      BY <1>1
    <3>3. Sum(s) \in Int
      BY <3>1, <3>2
    <3>4. ASSUME NEW x \in s, x # c PROVE Sum(s) = f[x] + Sum(s \ {x})
      <4>1. Sum(s \ {c}) = f[x] + Sum((s \ {c}) \ {x})
        BY <1>1, <3>4
      <4>2. Sum(s \ {x}) = f[c] + Sum((s \ {x}) \ {c})
        BY <1>1, <3>4
      <4>3. (s \ {c}) \ {x} = (s \ {x}) \ {c}
        OBVIOUS
      <4>4. Sum((s \ {x}) \ {c}) \in Int
        BY <1>0, SumInt DEF Sum
      <4>5. PICK n : n = Sum((s \ {x}) \ {c})
        OBVIOUS
      <4>6. f[x] \in Int /\ f[c] \in Int /\ n \in Int
        BY <3>2, <4>4, <4>5
      <4>7. Sum(s) = f[c] + (f[x] + n) /\ Sum(s \ {x}) = f[c] + n
        BY <3>1, <4>1, <4>2, <4>3, <4>5
      <4> QED
        BY <4>6, <4>7
    <3> QED
      BY <3>1, <3>3, <3>4
  <2> QED
    BY <2>1, <2>2
<1>2. S \in F
  <2> HIDE DEF F
  <2> QED
    BY <1>1, SubsetInduction
<1> QED
  BY <1>2 DEF Sum

LEMMA SumEmpty == \A f : Burn!SumFunctionOnSet(f, {}) = 0
BY SumStep, FS_EmptySet

LEMMA SumAdd ==
  ASSUME NEW f, NEW S, IsFiniteSet(S), NEW x, x \notin S, f[x] \in Int, \A y \in S : f[y] \in Int
  PROVE  Burn!SumFunctionOnSet(f, S \union {x}) = f[x] + Burn!SumFunctionOnSet(f, S)
<1>1. PICK T : T = S \union {x}
  OBVIOUS
<1>2. IsFiniteSet(T) /\ x \in T /\ \A y \in T : f[y] \in Int
  BY <1>1, FS_AddElement
<1>3. T \ {x} = S
  BY <1>1
<1> QED
  BY <1>1, <1>2, <1>3, SumRemove

\* Functions that agree on a set have one sum on it.
LEMMA SumSame ==
  ASSUME NEW f, NEW g, NEW S, IsFiniteSet(S), \A x \in S : f[x] = g[x]
  PROVE  Burn!SumFunctionOnSet(f, S) = Burn!SumFunctionOnSet(g, S)
<1> DEFINE F == {s \in SUBSET S : Burn!SumFunctionOnSet(f, s) = Burn!SumFunctionOnSet(g, s)}
<1>1. ASSUME NEW s \in SUBSET S, \A x \in s : s \ {x} \in F PROVE s \in F
  <2>1. IsFiniteSet(s)
    BY FS_Subset
  <2>2. CASE s = {}
    BY <2>1, <2>2, SumStep
  <2>3. CASE s # {}
    <3>1. PICK x \in s : x = (CHOOSE y \in s : TRUE)
                        /\ Burn!SumFunctionOnSet(f, s) = f[x] + Burn!SumFunctionOnSet(f, s \ {x})
      BY <2>1, <2>3, SumStep
    <3>2. Burn!SumFunctionOnSet(g, s) = g[x] + Burn!SumFunctionOnSet(g, s \ {x})
      <4>1. PICK z \in s : z = (CHOOSE y \in s : TRUE)
                          /\ Burn!SumFunctionOnSet(g, s) = g[z] + Burn!SumFunctionOnSet(g, s \ {z})
        BY <2>1, <2>3, SumStep
      <4>2. z = x
        BY <3>1, <4>1
      <4> QED
        BY <4>1, <4>2
    <3>3. f[x] = g[x] /\ Burn!SumFunctionOnSet(f, s \ {x}) = Burn!SumFunctionOnSet(g, s \ {x})
      BY <1>1
    <3> QED
      BY <3>1, <3>2, <3>3
  <2> QED
    BY <2>2, <2>3
<1>2. S \in F
  <2> HIDE DEF F
  <2> QED
    BY <1>1, SubsetInduction
<1> QED
  BY <1>2

\* The sum of two functions, of their difference, and of parts.
LEMMA SumPlus ==
  ASSUME NEW f, NEW g, NEW h, NEW S, IsFiniteSet(S),
         \A x \in S : f[x] \in Int /\ g[x] \in Int /\ h[x] = f[x] + g[x]
  PROVE  Burn!SumFunctionOnSet(h, S) = Burn!SumFunctionOnSet(f, S) + Burn!SumFunctionOnSet(g, S)
<1> DEFINE F == {s \in SUBSET S : Burn!SumFunctionOnSet(h, s) = Burn!SumFunctionOnSet(f, s) + Burn!SumFunctionOnSet(g, s)}
<1>0. \A s \in SUBSET S : IsFiniteSet(s)
  BY FS_Subset
<1>1. {} \in F
  BY SumEmpty
<1>2. ASSUME NEW s \in SUBSET S, NEW x \in S \ s, s \in F PROVE s \union {x} \in F
  <2>1. \A y \in s : f[y] \in Int /\ g[y] \in Int /\ h[y] \in Int
    OBVIOUS
  <2>2. f[x] \in Int /\ g[x] \in Int /\ h[x] = f[x] + g[x] /\ h[x] \in Int
    OBVIOUS
  <2>3. Burn!SumFunctionOnSet(f, s) \in Int /\ Burn!SumFunctionOnSet(g, s) \in Int
    BY <1>0, <2>1, SumInt
  <2>4. Burn!SumFunctionOnSet(f, s \union {x}) = f[x] + Burn!SumFunctionOnSet(f, s)
    BY <1>0, <2>1, <2>2, SumAdd
  <2>5. Burn!SumFunctionOnSet(g, s \union {x}) = g[x] + Burn!SumFunctionOnSet(g, s)
    BY <1>0, <2>1, <2>2, SumAdd
  <2>6. Burn!SumFunctionOnSet(h, s \union {x}) = h[x] + Burn!SumFunctionOnSet(h, s)
    BY <1>0, <2>1, <2>2, SumAdd
  <2>7. Burn!SumFunctionOnSet(h, s) = Burn!SumFunctionOnSet(f, s) + Burn!SumFunctionOnSet(g, s)
    BY <1>2
  <2>8. Burn!SumFunctionOnSet(h, s \union {x}) = Burn!SumFunctionOnSet(f, s \union {x}) + Burn!SumFunctionOnSet(g, s \union {x})
    BY <2>2, <2>3, <2>4, <2>5, <2>6, <2>7
  <2> QED
    BY <2>8
<1>3. S \in F
  <2> HIDE DEF F
  <2> QED
    BY <1>1, <1>2, SetInduction
<1> QED
  BY <1>3

LEMMA SumUnion ==
  ASSUME NEW f, NEW S, NEW T, IsFiniteSet(S), IsFiniteSet(T), S \intersect T = {},
         \A x \in S \union T : f[x] \in Int
  PROVE  Burn!SumFunctionOnSet(f, S \union T) = Burn!SumFunctionOnSet(f, S) + Burn!SumFunctionOnSet(f, T)
<1> DEFINE F == {t \in SUBSET T : Burn!SumFunctionOnSet(f, S \union t) = Burn!SumFunctionOnSet(f, S) + Burn!SumFunctionOnSet(f, t)}
<1>0. (\A t \in SUBSET T : IsFiniteSet(t) /\ IsFiniteSet(S \union t)) /\ Burn!SumFunctionOnSet(f, S) \in Int
  BY FS_Subset, FS_Union, SumInt
<1>1. {} \in F
  <2>1. S \union {} = S
    OBVIOUS
  <2> QED
    BY <1>0, <2>1, SumEmpty
<1>2. ASSUME NEW t \in SUBSET T, NEW x \in T \ t, t \in F PROVE t \union {x} \in F
  <2>1. (S \union t) \union {x} = S \union (t \union {x}) /\ x \notin S \union t
    OBVIOUS
  <2>2. Burn!SumFunctionOnSet(f, t) \in Int /\ f[x] \in Int
    BY <1>0, SumInt
  <2>3. Burn!SumFunctionOnSet(f, t \union {x}) = f[x] + Burn!SumFunctionOnSet(f, t)
    BY <1>0, <2>2, SumAdd
  <2>4. PICK u : u = S \union t
    OBVIOUS
  <2>5. Burn!SumFunctionOnSet(f, u \union {x}) = f[x] + Burn!SumFunctionOnSet(f, u)
    BY <1>0, <2>1, <2>2, <2>4, SumAdd
  <2>6. Burn!SumFunctionOnSet(f, u) = Burn!SumFunctionOnSet(f, S) + Burn!SumFunctionOnSet(f, t)
    BY <1>2, <2>4
  <2>7. Burn!SumFunctionOnSet(f, u \union {x}) = Burn!SumFunctionOnSet(f, S) + Burn!SumFunctionOnSet(f, t \union {x})
    BY <1>0, <2>2, <2>3, <2>5, <2>6
  <2>8. Burn!SumFunctionOnSet(f, S \union (t \union {x})) = Burn!SumFunctionOnSet(f, S) + Burn!SumFunctionOnSet(f, t \union {x})
    <3>1. PICK v : v = t \union {x}
      OBVIOUS
    <3>2. u \union {x} = S \union v
      BY <2>4, <3>1
    <3> QED
      BY <2>7, <3>1, <3>2
  <2> QED
    BY <2>8
<1>3. T \in F
  <2> HIDE DEF F
  <2> QED
    BY <1>1, <1>2, SetInduction
<1> QED
  BY <1>3

LEMMA SumAtMost ==
  ASSUME NEW f, NEW g, NEW S, IsFiniteSet(S),
         \A x \in S : f[x] \in Int /\ g[x] \in Int /\ f[x] <= g[x]
  PROVE  Burn!SumFunctionOnSet(f, S) <= Burn!SumFunctionOnSet(g, S)
<1> DEFINE F == {s \in SUBSET S : Burn!SumFunctionOnSet(f, s) <= Burn!SumFunctionOnSet(g, s)}
<1>0. \A s \in SUBSET S : IsFiniteSet(s)
  BY FS_Subset
<1>1. {} \in F
  BY SumEmpty
<1>2. ASSUME NEW s \in SUBSET S, NEW x \in S \ s, s \in F PROVE s \union {x} \in F
  <2>1. Burn!SumFunctionOnSet(f, s) \in Int /\ Burn!SumFunctionOnSet(g, s) \in Int
    BY <1>0, SumInt
  <2>2. Burn!SumFunctionOnSet(f, s \union {x}) = f[x] + Burn!SumFunctionOnSet(f, s)
    BY <1>0, SumAdd
  <2>3. Burn!SumFunctionOnSet(g, s \union {x}) = g[x] + Burn!SumFunctionOnSet(g, s)
    BY <1>0, SumAdd
  <2>4. Burn!SumFunctionOnSet(f, s \union {x}) <= Burn!SumFunctionOnSet(g, s \union {x})
    BY <1>2, <2>1, <2>2, <2>3
  <2> QED
    BY <2>4
<1>3. S \in F
  <2> HIDE DEF F
  <2> QED
    BY <1>1, <1>2, SetInduction
<1> QED
  BY <1>3

LEMMA SumZero ==
  ASSUME NEW f, NEW S, IsFiniteSet(S), \A x \in S : f[x] = 0
  PROVE  Burn!SumFunctionOnSet(f, S) = 0
<1> DEFINE F == {s \in SUBSET S : Burn!SumFunctionOnSet(f, s) = 0}
<1>0. \A s \in SUBSET S : IsFiniteSet(s)
  BY FS_Subset
<1>1. {} \in F
  BY SumEmpty
<1>2. ASSUME NEW s \in SUBSET S, NEW x \in S \ s, s \in F PROVE s \union {x} \in F
  <2>1. Burn!SumFunctionOnSet(f, s \union {x}) = f[x] + Burn!SumFunctionOnSet(f, s)
    BY <1>0, SumAdd
  <2>2. Burn!SumFunctionOnSet(f, s \union {x}) = 0
    BY <1>2, <2>1
  <2> QED
    BY <2>2
<1>3. S \in F
  <2> HIDE DEF F
  <2> QED
    BY <1>1, <1>2, SetInduction
<1> QED
  BY <1>3

LEMMA SumNat ==
  ASSUME NEW f, NEW S, IsFiniteSet(S), \A x \in S : f[x] \in Nat
  PROVE  Burn!SumFunctionOnSet(f, S) \in Nat /\ \A x \in S : f[x] <= Burn!SumFunctionOnSet(f, S)
<1> DEFINE F == {s \in SUBSET S : Burn!SumFunctionOnSet(f, s) \in Nat}
<1>0. \A s \in SUBSET S : IsFiniteSet(s)
  BY FS_Subset
<1>1. {} \in F
  BY SumEmpty
<1>2. ASSUME NEW s \in SUBSET S, NEW x \in S \ s, s \in F PROVE s \union {x} \in F
  <2>1. Burn!SumFunctionOnSet(f, s \union {x}) = f[x] + Burn!SumFunctionOnSet(f, s)
    BY <1>0, SumAdd
  <2>2. Burn!SumFunctionOnSet(f, s \union {x}) \in Nat
    BY <1>2, <2>1
  <2> QED
    BY <2>2
<1>3. \A s \in SUBSET S : s \in F
  <2>1. ASSUME NEW s \in SUBSET S PROVE s \in F
    <3>1. \A t \in SUBSET s : \A x \in s \ t : t \in F => t \union {x} \in F
      BY <1>2
    <3> HIDE DEF F
    <3> QED
      BY <1>0, <1>1, <3>1, SetInduction
  <2> QED
    BY <2>1
<1>4. ASSUME NEW x \in S PROVE f[x] <= Burn!SumFunctionOnSet(f, S)
  <2>1. Burn!SumFunctionOnSet(f, S) = f[x] + Burn!SumFunctionOnSet(f, S \ {x})
    BY SumRemove
  <2>2. Burn!SumFunctionOnSet(f, S \ {x}) \in Nat
    BY <1>3
  <2> QED
    BY <2>1, <2>2
<1> QED
  BY <1>3, <1>4

\* How many there are.
LEMMA SumOnes ==
  ASSUME NEW f, NEW S, IsFiniteSet(S), \A x \in S : f[x] = 1
  PROVE  Burn!SumFunctionOnSet(f, S) = Cardinality(S)
<1> DEFINE F == {s \in SUBSET S : Burn!SumFunctionOnSet(f, s) = Cardinality(s)}
<1>0. \A s \in SUBSET S : IsFiniteSet(s) /\ Cardinality(s) \in Nat
  BY FS_Subset, FS_CardinalityType
<1>1. {} \in F
  BY SumEmpty, FS_EmptySet
<1>2. ASSUME NEW s \in SUBSET S, NEW x \in S \ s, s \in F PROVE s \union {x} \in F
  <2>1. Burn!SumFunctionOnSet(f, s \union {x}) = f[x] + Burn!SumFunctionOnSet(f, s)
    BY <1>0, SumAdd
  <2>2. Cardinality(s \union {x}) = Cardinality(s) + 1
    BY <1>0, FS_AddElement
  <2>3. Burn!SumFunctionOnSet(f, s \union {x}) = Cardinality(s \union {x})
    BY <1>0, <1>2, <2>1, <2>2
  <2> QED
    BY <2>3
<1>3. S \in F
  <2> HIDE DEF F
  <2> QED
    BY <1>1, <1>2, SetInduction
<1> QED
  BY <1>3

\* The sums of the parts of a set, one for each of some indices, make its sum.
LEMMA SumOfParts ==
  ASSUME NEW f, NEW g, NEW slice, NEW S, NEW T, IsFiniteSet(S), IsFiniteSet(T),
         \A x \in S : f[x] \in Int,
         \A t \in T : slice[t] \subseteq S /\ g[t] = Burn!SumFunctionOnSet(f, slice[t]),
         \A t, u \in T : t # u => slice[t] \intersect slice[u] = {},
         \A x \in S : \E t \in T : x \in slice[t]
  PROVE  Burn!SumFunctionOnSet(g, T) = Burn!SumFunctionOnSet(f, S)
<1> DEFINE Of(s) == UNION {slice[t] : t \in s}
           F == {s \in SUBSET T : Burn!SumFunctionOnSet(g, s) = Burn!SumFunctionOnSet(f, Of(s))}
<1>0. \A s \in SUBSET T : IsFiniteSet(s) /\ IsFiniteSet(Of(s)) /\ Of(s) \subseteq S
  BY FS_Subset
<1>1. \A t \in T : IsFiniteSet(slice[t]) /\ g[t] \in Int
  <2>1. ASSUME NEW t \in T PROVE IsFiniteSet(slice[t]) /\ g[t] \in Int
    <3>1. IsFiniteSet(slice[t]) /\ \A x \in slice[t] : f[x] \in Int
      BY FS_Subset
    <3> QED
      BY <3>1, SumInt
  <2> QED
    BY <2>1
<1>2. {} \in F
  <2>1. Of({}) = {}
    OBVIOUS
  <2> QED
    BY <2>1, SumEmpty
<1>3. ASSUME NEW s \in SUBSET T, NEW t \in T \ s, s \in F PROVE s \union {t} \in F
  <2>1. PICK a : a = Of(s)
    OBVIOUS
  <2>2. PICK b : b = slice[t]
    OBVIOUS
  <2>3. IsFiniteSet(a) /\ IsFiniteSet(b) /\ \A x \in a \union b : f[x] \in Int
    BY <1>0, <1>1, <2>1, <2>2
  <2>4. a \intersect b = {}
    <3>1. \A u \in s : u \in T /\ u # t
      OBVIOUS
    <3>2. \A u \in s : slice[u] \intersect b = {}
      BY <2>2, <3>1
    <3> QED
      BY <2>1, <3>2
  <2>5. Of(s \union {t}) = a \union b
    BY <2>1, <2>2
  <2>6. Burn!SumFunctionOnSet(f, a \union b) = Burn!SumFunctionOnSet(f, a) + Burn!SumFunctionOnSet(f, b)
    BY <2>3, <2>4, SumUnion
  <2>7. Burn!SumFunctionOnSet(g, s \union {t}) = g[t] + Burn!SumFunctionOnSet(g, s)
    BY <1>0, <1>1, SumAdd
  <2>8. Burn!SumFunctionOnSet(g, s) = Burn!SumFunctionOnSet(f, a) /\ g[t] = Burn!SumFunctionOnSet(f, b)
    BY <1>3, <2>1, <2>2
  <2>9. Burn!SumFunctionOnSet(f, a) \in Int /\ Burn!SumFunctionOnSet(f, b) \in Int
    BY <2>3, SumInt
  <2>10. PICK u : u = Of(s \union {t})
    OBVIOUS
  <2>11. Burn!SumFunctionOnSet(g, s \union {t}) = Burn!SumFunctionOnSet(f, u)
    <3>1. u = a \union b
      BY <2>5, <2>10
    <3>2. Burn!SumFunctionOnSet(f, u) = Burn!SumFunctionOnSet(f, a) + Burn!SumFunctionOnSet(f, b)
      BY <2>6, <3>1
    <3> QED
      BY <2>7, <2>8, <2>9, <3>2
  <2> QED
    BY <2>10, <2>11
<1>4. T \in F
  <2> HIDE DEF F
  <2> QED
    BY <1>2, <1>3, SetInduction
<1>5. Of(T) = S
  OBVIOUS
<1>6. Burn!SumFunctionOnSet(g, T) = Burn!SumFunctionOnSet(f, Of(T))
  BY <1>4
<1> HIDE DEF Of
<1> QED
  BY <1>5, <1>6

\* The greatest of a finite set, and of two.
LEMMA MaxOf ==
  ASSUME NEW S, IsFiniteSet(S), S \subseteq Int, S # {}
  PROVE  Burn!Max(S) \in S /\ \A y \in S : y <= Burn!Max(S)
<1> DEFINE F == {s \in SUBSET S : s = {} \/ \E m \in s : \A y \in s : y <= m}
<1>1. {} \in F
  OBVIOUS
<1>2. ASSUME NEW s \in SUBSET S, NEW x \in S \ s, s \in F PROVE s \union {x} \in F
  <2>1. \E m \in s \union {x} : \A y \in s \union {x} : y <= m
    <3>1. CASE s = {}
      BY <3>1
    <3>2. CASE s # {}
      <4>1. PICK m \in s : \A y \in s : y <= m
        BY <1>2, <3>2
      <4>2. m \in Int /\ x \in Int /\ s \subseteq Int
        OBVIOUS
      <4>3. CASE x <= m
        BY <4>1, <4>2, <4>3
      <4>4. CASE m <= x
        <5>1. \A y \in s : y <= x
          BY <4>1, <4>2, <4>4
        <5> QED
          BY <4>2, <5>1
      <4> QED
        BY <4>2, <4>3, <4>4
    <3> QED
      BY <3>1, <3>2
  <2> QED
    BY <2>1
<1>3. S \in F
  <2> HIDE DEF F
  <2> QED
    BY <1>1, <1>2, SetInduction
<1>4. \E m \in S : \A y \in S : m >= y
  BY <1>3
<1> QED
  BY <1>4 DEF Burn!Max

LEMMA MaxOfTwo ==
  ASSUME NEW a \in Int, NEW b \in Int
  PROVE  Burn!Max({a, b}) = (IF a <= b THEN b ELSE a)
<1>1. PICK m \in {a, b} : a <= m /\ b <= m
  OBVIOUS
<1>2. \E k \in {a, b} : \A y \in {a, b} : k >= y
  BY <1>1
<1>3. PICK n : n = Burn!Max({a, b})
  OBVIOUS
<1>4. n \in {a, b} /\ n >= a /\ n >= b
  BY <1>2, <1>3 DEF Burn!Max
<1> QED
  BY <1>3, <1>4

\* Induction up to a number.
LEMMA UpTo ==
  ASSUME NEW last \in Nat, NEW F, 0 \in F, \A n \in Nat : n < last /\ n \in F => n + 1 \in F
  PROVE  0 .. last \subseteq F
<1> DEFINE G == {n \in Nat : n <= last => n \in F}
<1>1. 0 \in G
  OBVIOUS
<1>2. ASSUME NEW n \in Nat, n \in G PROVE n + 1 \in G
  <2>1. CASE n + 1 <= last
    <3>1. n < last /\ n \in F
      BY <1>2, <2>1
    <3> QED
      BY <2>1, <3>1
  <2>2. CASE ~(n + 1 <= last)
    BY <2>2
  <2> QED
    BY <2>1, <2>2
<1>3. Nat \subseteq G
  <2> HIDE DEF G
  <2> QED
    BY <1>1, <1>2, NatSetInduction
<1>4. \A n \in 0 .. last : n \in Nat /\ n <= last
  OBVIOUS
<1> QED
  BY <1>3, <1>4

\* A running sum that never falls below zero.
Runs(run, start, change, last) ==
    run = [d \in 0 .. last |-> Burn!Max({0, (IF d = 0 THEN start ELSE run[d - 1]) + change[d]})]

LEMMA RunExists ==
  ASSUME NEW start, NEW change, NEW last \in Nat
  PROVE  \E run : Runs(run, start, change, last)
<1> DEFINE Below(run, d) == Burn!Max({0, (IF d = 0 THEN start ELSE run[d - 1]) + change[d]})
           F == {n \in 0 .. last : \E run : run = [d \in 0 .. n |-> Below(run, d)]}
<1>1. 0 \in F
  <2>1. PICK run : run = [d \in 0 .. 0 |-> Burn!Max({0, start + change[d]})]
    OBVIOUS
  <2>2. \A d \in 0 .. 0 : Below(run, d) = Burn!Max({0, start + change[d]})
    OBVIOUS
  <2>3. run = [d \in 0 .. 0 |-> Below(run, d)]
    <3> HIDE DEF Below
    <3> QED
      BY <2>1, <2>2
  <2>4. 0 \in 0 .. last
    OBVIOUS
  <2> HIDE DEF Below
  <2> QED
    BY <2>3, <2>4
<1>2. ASSUME NEW n \in Nat, n < last, n \in F PROVE n + 1 \in F
  <2>1. PICK run : run = [d \in 0 .. n |-> Below(run, d)]
    BY <1>2
  <2>2. PICK new : new = [d \in 0 .. n + 1 |-> IF d \in 0 .. n THEN run[d] ELSE Below(run, d)]
    OBVIOUS
  <2>3. ASSUME NEW d \in 0 .. n + 1 PROVE Below(new, d) = Below(run, d)
    <3>1. CASE d = 0
      BY <3>1
    <3>2. CASE d # 0
      <4>1. d - 1 \in 0 .. n /\ d - 1 \in 0 .. n + 1
        BY <3>2
      <4>2. new[d - 1] = run[d - 1]
        BY <2>2, <4>1
      <4> QED
        BY <4>2
    <3> QED
      BY <3>1, <3>2
  <2> HIDE DEF Below
  <2>4. ASSUME NEW d \in 0 .. n + 1 PROVE new[d] = Below(new, d)
    <3>1. CASE d \in 0 .. n
      BY <2>1, <2>2, <2>3, <3>1
    <3>2. CASE d \notin 0 .. n
      BY <2>2, <2>3, <3>2
    <3> QED
      BY <3>1, <3>2
  <2>5. new = [d \in 0 .. n + 1 |-> Below(new, d)]
    BY <2>2, <2>4
  <2>6. n + 1 \in 0 .. last
    BY <1>2
  <2> QED
    BY <2>5, <2>6
<1>3. last \in F
  <2> HIDE DEF F
  <2>1. 0 .. last \subseteq F
    BY <1>1, <1>2, UpTo
  <2> QED
    BY <2>1
<1>4. PICK run : run = [d \in 0 .. last |-> Below(run, d)]
  BY <1>3
<1>5. Runs(run, start, change, last)
  BY <1>4 DEF Runs
<1> QED
  BY <1>5

--------------------
(* The burndown: what is known of the stories of an answer.                  *)

StoriesKnown(p) == p.kind \in [Stories -> BurnKinds \union {None}]

LEMMA BurnFinite == \A S : Burn!IsFiniteSet(S) <=> IsFiniteSet(S)
BY DEF Burn!IsFiniteSet, IsFiniteSet

LEMMA StoriesOfKinds ==
  ASSUME NEW p, StoriesKnown(p)
  PROVE  /\ IsFiniteSet(Burn!Chosen(p)) /\ Burn!InChart(p) \subseteq Burn!Chosen(p)
         /\ \A s \in Burn!Chosen(p) : p.kind[s] \in BurnKinds
         /\ \A s \in Burn!InChart(p) : p.kind[s].created <= SprintEnd
         /\ \A S \in SUBSET Burn!Chosen(p) : IsFiniteSet(S)
<1>1. Burn!Chosen(p) \subseteq Stories /\ IsFiniteSet(Stories)
  BY BurndownConstants, BurnFinite DEF Burn!Chosen, Burn!BurndownAssumption
<1>2. \A S \in SUBSET Burn!Chosen(p) : IsFiniteSet(S)
  BY <1>1, FS_Subset
<1> QED
  BY <1>2 DEF Burn!Chosen, Burn!InChart, StoriesKnown

LEMMA KindsOf ==
  ASSUME NEW k \in BurnKinds
  PROVE  /\ k.created \in Nat /\ k.points \in Nat
         /\ k.start \in ChartTeams /\ k.opened \in ChartTeams
         /\ \A c \in k.closings : /\ c.team \in ChartTeams /\ c.day \in Int /\ c.day <= LastDay
                                  /\ (c.day >= 0 => c.day >= k.created)
BY BurndownConstants DEF Burn!BurndownAssumption

LEMMA BurndownDays == SprintEnd \in Nat /\ LastDay \in Nat /\ SprintEnd <= LastDay /\ None \notin ChartTeams
              /\ IsFiniteSet(ChartTeams)
BY BurndownConstants, BurnFinite DEF Burn!BurndownAssumption

LEMMA StoryValues ==
  ASSUME NEW p, StoriesKnown(p)
  PROVE  /\ \A s \in Burn!Chosen(p) : Burn!Value(p)[s] \in Nat
         /\ \A S \in SUBSET Burn!Chosen(p) : Burn!ValueOf(p, S) \in Nat
<1>1. \A s \in Burn!Chosen(p) : Burn!Value(p)[s] \in Nat
  BY StoriesOfKinds, KindsOf DEF Burn!Value
<1>2. ASSUME NEW S \in SUBSET Burn!Chosen(p) PROVE Burn!ValueOf(p, S) \in Nat
  BY <1>1, StoriesOfKinds, SumNat DEF Burn!ValueOf
<1> QED
  BY <1>1, <1>2

\* The closing that counts is the first the server tells of.
LEMMA FirstClosing ==
  ASSUME NEW p, StoriesKnown(p), NEW s \in Burn!Chosen(p), Burn!Closing(p, s) # None
  PROVE  /\ Burn!Closing(p, s).day \in Nat /\ Burn!Closing(p, s).day <= LastDay
         /\ Burn!Closing(p, s).team \in ChartTeams
         /\ p.kind[s].created <= Burn!Closing(p, s).day
         /\ p.completed \/ Burn!Closing(p, s).day <= SprintEnd
<1>1. p.kind[s] \in BurnKinds
  BY StoriesOfKinds
<1>2. PICK told : told = Burn!Told(p, s)
  OBVIOUS
<1>3. \A c \in told : /\ c \in p.kind[s].closings /\ c.day >= 0
                      /\ c.day <= SprintEnd \/ p.completed
  BY <1>2 DEF Burn!Told
<1>4. \A c \in told : c.day \in Nat /\ c.day <= LastDay /\ c.team \in ChartTeams /\ p.kind[s].created <= c.day
  BY <1>1, <1>3, KindsOf
<1>5. told # {}
  BY <1>2 DEF Burn!Closing
<1>6. \E c \in told : \A d \in told : c.day <= d.day
  <2>1. PICK days : days = {c.day : c \in told}
    OBVIOUS
  <2>2. days \subseteq Nat /\ days # {}
    BY <1>4, <1>5, <2>1
  <2>3. PICK n \in days : \A m \in days : n <= m
    BY <2>2, LeastOf
  <2> QED
    BY <2>1, <2>3
<1>7. Burn!Closing(p, s) \in told
  BY <1>2, <1>5, <1>6 DEF Burn!Closing
<1> QED
  BY <1>3, <1>4, <1>7

\* The chart's days.
LEMMA ChartDays ==
  ASSUME NEW p, StoriesKnown(p)
  PROVE  /\ Burn!FullEnd(p) \in Nat /\ SprintEnd <= Burn!FullEnd(p) /\ Burn!FullEnd(p) <= LastDay
         /\ Burn!ChartEnd(p) \in Nat /\ Burn!ChartEnd(p) <= Burn!FullEnd(p)
         /\ \A s \in Burn!Chosen(p) : Burn!Closing(p, s) # None =>
                Burn!Closing(p, s).day <= Burn!ChartEnd(p) /\ Burn!Closing(p, s).day <= Burn!FullEnd(p)
<1>1. PICK closed : closed = {s \in Burn!Chosen(p) : Burn!Closing(p, s) # None}
  OBVIOUS
<1>2. PICK day : day = [s \in closed |-> Burn!Closing(p, s).day]
  OBVIOUS
<1>3. \A s \in closed : day[s] = Burn!Closing(p, s).day /\ day[s] \in Nat /\ day[s] <= LastDay
                        /\ (p.completed \/ day[s] <= SprintEnd)
  BY <1>1, <1>2, FirstClosing
<1>4. PICK days : days = {0} \union {Burn!Closing(p, s).day : s \in closed}
  OBVIOUS
<1>5. IsFiniteSet(days)
  <2>1. IsFiniteSet(closed)
    BY <1>1, StoriesOfKinds
  <2>2. IsFiniteSet({day[s] : s \in closed})
    BY <2>1, ImageFinite
  <2>3. {day[s] : s \in closed} = {Burn!Closing(p, s).day : s \in closed}
    BY <1>3
  <2> QED
    BY <1>4, <2>2, <2>3, FS_Singleton, FS_Union
<1>6. days \subseteq Nat /\ \A n \in days : n <= LastDay
  BY <1>3, <1>4, BurndownDays
<1>7. PICK last : last = Burn!LastClosing(p)
  OBVIOUS
<1>8. last = Burn!Max(days)
  BY <1>1, <1>4, <1>7 DEF Burn!LastClosing
<1>9. last \in days /\ \A n \in days : n <= last
  <2>1. days \subseteq Int /\ days # {}
    BY <1>4, <1>6
  <2> QED
    BY <1>5, <1>8, <2>1, MaxOf
<1>10. last \in Nat /\ last <= LastDay /\ \A s \in closed : Burn!Closing(p, s).day <= last
  BY <1>4, <1>6, <1>9
<1>11. Burn!FullEnd(p) = IF p.completed /\ last > SprintEnd THEN last ELSE SprintEnd
  BY <1>7 DEF Burn!FullEnd
<1>12. Burn!ChartEnd(p) = IF p.completed /\ closed # {} THEN last ELSE SprintEnd
  BY <1>1, <1>7 DEF Burn!ChartEnd
<1> HIDE DEF StoriesKnown
<1>13. \A s \in closed : Burn!Closing(p, s).day \in Nat /\ (p.completed \/ Burn!Closing(p, s).day <= SprintEnd)
  BY <1>3
<1>14. \A s \in Burn!Chosen(p) : Burn!Closing(p, s) # None => s \in closed
  BY <1>1
<1>15. \A s \in closed : Burn!Closing(p, s).day <= Burn!ChartEnd(p) /\ Burn!Closing(p, s).day <= Burn!FullEnd(p)
  BY <1>10, <1>11, <1>12, <1>13, BurndownDays
<1> QED
  BY <1>10, <1>11, <1>12, <1>14, <1>15, BurndownDays

-----------------------------------------------------------------------------
(* The chart.                                                                *)

LEMMA ChartSets ==
  ASSUME NEW p, StoriesKnown(p), NEW d, NEW t
  PROVE  /\ Burn!AddedOn(p, d, t) \in SUBSET Burn!Chosen(p) /\ Burn!ClosedOn(p, d, t) \in SUBSET Burn!Chosen(p)
         /\ Burn!Baseline(p, t) \in Nat /\ Burn!Delta(p, d, t) \in Int
<1>1. /\ Burn!AddedOn(p, d, t) \in SUBSET Burn!Chosen(p) /\ Burn!ClosedOn(p, d, t) \in SUBSET Burn!Chosen(p)
      /\ {s \in Burn!AtStart(p) : p.kind[s].start = t} \in SUBSET Burn!Chosen(p)
  BY StoriesOfKinds DEF Burn!AddedOn, Burn!ClosedOn, Burn!AtStart
<1>2. Burn!Baseline(p, t) \in Nat
  BY <1>1, StoryValues DEF Burn!Baseline
<1>3. Burn!ValueOf(p, Burn!AddedOn(p, d, t)) \in Nat /\ Burn!ValueOf(p, Burn!ClosedOn(p, d, t)) \in Nat
  BY <1>1, StoryValues
<1> QED
  BY <1>1, <1>2, <1>3 DEF Burn!Delta

\* What runs, day by day.
LEMMA RunOK ==
  ASSUME NEW p, StoriesKnown(p), NEW t
  PROVE  \A d \in 0 .. Burn!FullEnd(p) :
             /\ Burn!Running(p, t)[d] =
                    Burn!Max({0, (IF d = 0 THEN Burn!Baseline(p, t) ELSE Burn!Running(p, t)[d - 1]) + Burn!Delta(p, d, t)})
             /\ Burn!Running(p, t)[d] \in Nat
<1>1. PICK last : last = Burn!FullEnd(p)
  OBVIOUS
<1>2. last \in Nat
  BY <1>1, ChartDays
<1>3. PICK start : start = Burn!Baseline(p, t)
  OBVIOUS
<1>4. PICK change : change = [d \in 0 .. last |-> Burn!Delta(p, d, t)]
  OBVIOUS
<1>5. PICK run : Runs(run, start, change, last)
  BY <1>2, RunExists
<1>6. run = [d \in 0 .. last |-> Burn!Max({0, (IF d = 0 THEN start ELSE run[d - 1]) + Burn!Delta(p, d, t)})]
  <2>1. \A d \in 0 .. last : Burn!Max({0, (IF d = 0 THEN start ELSE run[d - 1]) + change[d]})
                             = Burn!Max({0, (IF d = 0 THEN start ELSE run[d - 1]) + Burn!Delta(p, d, t)})
    BY <1>4
  <2>2. \A d \in 0 .. last : run[d] = Burn!Max({0, (IF d = 0 THEN start ELSE run[d - 1]) + change[d]})
    BY <1>5 DEF Runs
  <2>3. DOMAIN run = 0 .. last /\ run = [d \in 0 .. last |-> run[d]]
    BY <1>5 DEF Runs
  <2>4. \A d \in 0 .. last : run[d] = Burn!Max({0, (IF d = 0 THEN start ELSE run[d - 1]) + Burn!Delta(p, d, t)})
    BY <2>1, <2>2
  <2> QED
    BY <2>3, <2>4, Zenon
<1>7. PICK r : r = Burn!Running(p, t)
  OBVIOUS
<1>8. r = [d \in 0 .. Burn!FullEnd(p) |-> Burn!Max({0, (IF d = 0 THEN Burn!Baseline(p, t) ELSE r[d - 1]) + Burn!Delta(p, d, t)})]
  <2>1. run = [d \in 0 .. Burn!FullEnd(p) |-> Burn!Max({0, (IF d = 0 THEN Burn!Baseline(p, t) ELSE run[d - 1]) + Burn!Delta(p, d, t)})]
    BY <1>1, <1>3, <1>6, Zenon
  <2>2. \E f : f = [d \in 0 .. Burn!FullEnd(p) |-> Burn!Max({0, (IF d = 0 THEN Burn!Baseline(p, t) ELSE f[d - 1]) + Burn!Delta(p, d, t)})]
    BY <2>1, Zenon
  <2> QED
    BY <1>7, <2>2, Zenon DEF Burn!Running
<1>9. \A d \in 0 .. last : r[d] = Burn!Max({0, (IF d = 0 THEN start ELSE r[d - 1]) + Burn!Delta(p, d, t)})
  BY <1>1, <1>3, <1>8
<1> DEFINE F == {d \in 0 .. last : r[d] \in Nat}
<1>10. start \in Nat /\ \A d : Burn!Delta(p, d, t) \in Int
  BY <1>3, ChartSets
<1>11. 0 \in F
  <2>1. r[0] = Burn!Max({0, start + Burn!Delta(p, 0, t)})
    BY <1>2, <1>9
  <2>2. start + Burn!Delta(p, 0, t) \in Int
    BY <1>10
  <2>3. r[0] \in Nat
    BY <2>1, <2>2, MaxOfTwo
  <2> QED
    BY <1>2, <2>3
<1>12. ASSUME NEW n \in Nat, n < last, n \in F PROVE n + 1 \in F
  <2>1. n + 1 \in 0 .. last /\ n + 1 # 0 /\ (n + 1) - 1 = n
    BY <1>2, <1>12
  <2>2. r[n + 1] = Burn!Max({0, r[n] + Burn!Delta(p, n + 1, t)})
    BY <1>9, <2>1
  <2>3. r[n] + Burn!Delta(p, n + 1, t) \in Int
    BY <1>10, <1>12
  <2>4. r[n + 1] \in Nat
    BY <2>2, <2>3, MaxOfTwo
  <2> QED
    BY <2>1, <2>4
<1>13. 0 .. last \subseteq F
  <2> HIDE DEF F
  <2> QED
    BY <1>2, <1>11, <1>12, UpTo
<1>14. \A d \in 0 .. last : r[d] \in Nat
  BY <1>13
<1> QED
  BY <1>1, <1>3, <1>7, <1>9, <1>14

\* What has begun and what was closed by a day, under a team.
Begun(p, d, t) == {s \in Burn!InChart(p) : p.kind[s].created <= d /\ Burn!OpenTeam(p, s) = t}
Ended(p, d, t) ==
    {s \in Burn!InChart(p) : /\ Burn!Closing(p, s) # None
                             /\ Burn!Closing(p, s).day <= d /\ Burn!Closing(p, s).team = t}
Exact(p, d, t) == Burn!ValueOf(p, Begun(p, d, t)) - Burn!ValueOf(p, Ended(p, d, t))

LEMMA ValueUnion ==
  ASSUME NEW p, StoriesKnown(p), NEW S \in SUBSET Burn!Chosen(p), NEW T \in SUBSET Burn!Chosen(p), S \intersect T = {}
  PROVE  Burn!ValueOf(p, S \union T) = Burn!ValueOf(p, S) + Burn!ValueOf(p, T)
<1>1. \A s \in Burn!Chosen(p) : Burn!Value(p)[s] \in Int
  BY StoryValues
<1>2. IsFiniteSet(S) /\ IsFiniteSet(T)
  BY StoriesOfKinds
<1> QED
  BY <1>1, <1>2, SumUnion DEF Burn!ValueOf

LEMMA ExactStart ==
  ASSUME NEW p, StoriesKnown(p), NEW t
  PROVE  Exact(p, 0, t) = Burn!Baseline(p, t) + Burn!Delta(p, 0, t)
<1>1. \A s \in Burn!InChart(p) : /\ s \in Burn!Chosen(p) /\ p.kind[s].created \in Nat
                                 /\ Burn!Closing(p, s) # None => Burn!Closing(p, s).day \in Nat
  BY StoriesOfKinds, KindsOf, FirstClosing
<1>2. Begun(p, 0, t) = {s \in Burn!AtStart(p) : p.kind[s].start = t}
  BY <1>1 DEF Begun, Burn!AtStart, Burn!Added, Burn!OpenTeam
<1>3. Burn!AddedOn(p, 0, t) = {}
  BY <1>1 DEF Burn!AddedOn, Burn!Added
<1>4. Ended(p, 0, t) = Burn!ClosedOn(p, 0, t)
  BY <1>1 DEF Ended, Burn!ClosedOn
<1>5. Burn!ValueOf(p, Burn!AddedOn(p, 0, t)) = 0
  BY <1>3, SumEmpty DEF Burn!ValueOf
<1>6. Burn!ValueOf(p, Burn!ClosedOn(p, 0, t)) \in Nat
  BY ChartSets, StoryValues
<1>7. Burn!Baseline(p, t) \in Nat
  BY ChartSets
<1>8. Exact(p, 0, t) = Burn!Baseline(p, t) - Burn!ValueOf(p, Burn!ClosedOn(p, 0, t))
  BY <1>2, <1>4 DEF Exact, Burn!Baseline
<1>9. Burn!Delta(p, 0, t) = 0 - Burn!ValueOf(p, Burn!ClosedOn(p, 0, t))
  BY <1>5 DEF Burn!Delta
<1> QED
  BY <1>6, <1>7, <1>8, <1>9

LEMMA ExactStep ==
  ASSUME NEW p, StoriesKnown(p), NEW t, NEW d \in Nat
  PROVE  Exact(p, d + 1, t) = Exact(p, d, t) + Burn!Delta(p, d + 1, t)
<1>1. \A s \in Burn!InChart(p) : /\ s \in Burn!Chosen(p) /\ p.kind[s].created \in Nat
                                 /\ Burn!Closing(p, s) # None => Burn!Closing(p, s).day \in Nat
  BY StoriesOfKinds, KindsOf, FirstClosing
<1>2. \A n \in Nat : n <= d + 1 <=> n <= d \/ n = d + 1
  OBVIOUS
<1>3. PICK b : b = Begun(p, d, t)
  OBVIOUS
<1>4. PICK a : a = Burn!AddedOn(p, d + 1, t)
  OBVIOUS
<1>5. PICK e : e = Ended(p, d, t)
  OBVIOUS
<1>6. PICK c : c = Burn!ClosedOn(p, d + 1, t)
  OBVIOUS
<1>7. Begun(p, d + 1, t) = b \union a /\ b \intersect a = {}
  BY <1>1, <1>2, <1>3, <1>4 DEF Begun, Burn!AddedOn, Burn!Added, Burn!OpenTeam
<1>8. Ended(p, d + 1, t) = e \union c /\ e \intersect c = {}
  BY <1>1, <1>2, <1>5, <1>6 DEF Ended, Burn!ClosedOn
<1>9. b \in SUBSET Burn!Chosen(p) /\ a \in SUBSET Burn!Chosen(p) /\ e \in SUBSET Burn!Chosen(p) /\ c \in SUBSET Burn!Chosen(p)
  BY <1>1, <1>3, <1>4, <1>5, <1>6 DEF Begun, Burn!AddedOn, Ended, Burn!ClosedOn
<1>10. /\ Burn!ValueOf(p, b \union a) = Burn!ValueOf(p, b) + Burn!ValueOf(p, a)
       /\ Burn!ValueOf(p, e \union c) = Burn!ValueOf(p, e) + Burn!ValueOf(p, c)
  BY <1>7, <1>8, <1>9, ValueUnion
<1>11. /\ Burn!ValueOf(p, b) \in Nat /\ Burn!ValueOf(p, a) \in Nat
       /\ Burn!ValueOf(p, e) \in Nat /\ Burn!ValueOf(p, c) \in Nat
  BY <1>9, StoryValues
<1>12. Exact(p, d, t) = Burn!ValueOf(p, b) - Burn!ValueOf(p, e)
  BY <1>3, <1>5 DEF Exact
<1>13. Burn!Delta(p, d + 1, t) = Burn!ValueOf(p, a) - Burn!ValueOf(p, c)
  BY <1>4, <1>6 DEF Burn!Delta
<1>14. Exact(p, d + 1, t) = Burn!ValueOf(p, b \union a) - Burn!ValueOf(p, e \union c)
  BY <1>7, <1>8 DEF Exact
<1> QED
  BY <1>10, <1>11, <1>12, <1>13, <1>14

LEMMA ExactInt ==
  ASSUME NEW p, StoriesKnown(p), NEW d, NEW t
  PROVE  /\ Exact(p, d, t) \in Int
         /\ Begun(p, d, t) \in SUBSET Burn!Chosen(p) /\ Ended(p, d, t) \in SUBSET Burn!Chosen(p)
<1>1. Begun(p, d, t) \in SUBSET Burn!Chosen(p) /\ Ended(p, d, t) \in SUBSET Burn!Chosen(p)
  BY StoriesOfKinds DEF Begun, Ended
<1>2. Burn!ValueOf(p, Begun(p, d, t)) \in Nat /\ Burn!ValueOf(p, Ended(p, d, t)) \in Nat
  BY <1>1, StoryValues
<1> QED
  BY <1>1, <1>2 DEF Exact

\* The chart is never below what is open.
LEMMA RunAtLeast ==
  ASSUME NEW p, StoriesKnown(p), NEW t
  PROVE  \A d \in 0 .. Burn!FullEnd(p) : Exact(p, d, t) <= Burn!Running(p, t)[d]
<1>1. PICK last : last = Burn!FullEnd(p)
  OBVIOUS
<1>2. last \in Nat
  BY <1>1, ChartDays
<1>3. PICK r : r = Burn!Running(p, t)
  OBVIOUS
<1>4. \A d \in 0 .. last : /\ r[d] = Burn!Max({0, (IF d = 0 THEN Burn!Baseline(p, t) ELSE r[d - 1]) + Burn!Delta(p, d, t)})
                           /\ r[d] \in Nat
  BY <1>1, <1>3, RunOK
<1> DEFINE F == {d \in 0 .. last : Exact(p, d, t) <= r[d]}
<1>5. Burn!Baseline(p, t) \in Nat /\ \A d : Burn!Delta(p, d, t) \in Int /\ Exact(p, d, t) \in Int
  BY ChartSets, ExactInt
<1>6. 0 \in F
  <2>1. r[0] = Burn!Max({0, Exact(p, 0, t)})
    BY <1>2, <1>4, ExactStart
  <2>2. Exact(p, 0, t) <= r[0]
    BY <1>5, <2>1, MaxOfTwo
  <2> QED
    BY <1>2, <2>2
<1>7. ASSUME NEW n \in Nat, n < last, n \in F PROVE n + 1 \in F
  <2>1. n + 1 \in 0 .. last /\ n + 1 # 0 /\ (n + 1) - 1 = n
    BY <1>2, <1>7
  <2>2. r[n + 1] = Burn!Max({0, r[n] + Burn!Delta(p, n + 1, t)})
    BY <1>4, <2>1
  <2>3. r[n] \in Nat /\ Exact(p, n, t) <= r[n]
    BY <1>4, <1>7
  <2>4. Exact(p, n + 1, t) = Exact(p, n, t) + Burn!Delta(p, n + 1, t)
    BY ExactStep
  <2>5. Exact(p, n + 1, t) <= r[n + 1]
    <3>1. r[n] + Burn!Delta(p, n + 1, t) \in Int
      BY <1>5, <2>3
    <3>2. r[n] + Burn!Delta(p, n + 1, t) <= r[n + 1]
      BY <2>2, <3>1, MaxOfTwo
    <3>3. Exact(p, n + 1, t) <= r[n] + Burn!Delta(p, n + 1, t)
      BY <1>5, <2>3, <2>4
    <3>4. r[n + 1] \in Nat /\ Exact(p, n + 1, t) \in Int
      BY <1>4, <1>5, <2>1
    <3>5. PICK x \in Int : x = r[n] + Burn!Delta(p, n + 1, t)
      BY <3>1
    <3> QED
      BY <3>2, <3>3, <3>4, <3>5
  <2> QED
    BY <2>1, <2>5
<1>8. 0 .. last \subseteq F
  <2> HIDE DEF F
  <2> QED
    BY <1>2, <1>6, <1>7, UpTo
<1> QED
  BY <1>1, <1>3, <1>8

\* Nor above it, when every story is closed by its own team.
LEMMA OpenIsExact ==
  ASSUME NEW p, StoriesKnown(p), Burn!NobodyMoved(p), NEW d \in Int, NEW t \in ChartTeams
  PROVE  /\ Exact(p, d, t) = Burn!OpenValue(p, d, t) /\ Burn!OpenValue(p, d, t) \in Nat
<1>1. \A s \in Burn!InChart(p) : /\ s \in Burn!Chosen(p) /\ p.kind[s].created \in Nat
                                 /\ Burn!Closing(p, s) # None => /\ Burn!Closing(p, s).day \in Nat
                                                                 /\ p.kind[s].created <= Burn!Closing(p, s).day
                                                                 /\ Burn!Closing(p, s).team = Burn!OpenTeam(p, s)
  BY StoriesOfKinds, KindsOf, FirstClosing DEF Burn!NobodyMoved
<1>2. PICK o : o = Burn!OpenOn(p, d, t)
  OBVIOUS
<1>3. PICK e : e = Ended(p, d, t)
  OBVIOUS
<1>4. o \in SUBSET Burn!Chosen(p) /\ e \in SUBSET Burn!Chosen(p) /\ o \intersect e = {}
  BY <1>1, <1>2, <1>3 DEF Burn!OpenOn, Ended
<1>5. Begun(p, d, t) = o \union e
  BY <1>1, <1>2, <1>3, BurndownDays DEF Burn!OpenOn, Begun, Ended
<1>6. Burn!ValueOf(p, Begun(p, d, t)) = Burn!ValueOf(p, o) + Burn!ValueOf(p, e)
  BY <1>4, <1>5, ValueUnion
<1>7. Burn!ValueOf(p, o) \in Nat /\ Burn!ValueOf(p, e) \in Nat
  BY <1>4, StoryValues
<1> QED
  BY <1>2, <1>3, <1>6, <1>7 DEF Exact, Burn!OpenValue

LEMMA RunIsOpen ==
  ASSUME NEW p, StoriesKnown(p), Burn!NobodyMoved(p), NEW t \in ChartTeams
  PROVE  \A d \in 0 .. Burn!FullEnd(p) : Burn!Running(p, t)[d] = Burn!OpenValue(p, d, t)
<1>1. PICK last : last = Burn!FullEnd(p)
  OBVIOUS
<1>2. last \in Nat
  BY <1>1, ChartDays
<1>3. PICK r : r = Burn!Running(p, t)
  OBVIOUS
<1>4. \A d \in 0 .. last : r[d] = Burn!Max({0, (IF d = 0 THEN Burn!Baseline(p, t) ELSE r[d - 1]) + Burn!Delta(p, d, t)})
  BY <1>1, <1>3, RunOK
<1> DEFINE F == {d \in 0 .. last : r[d] = Exact(p, d, t)}
<1>5. \A d \in 0 .. last : Exact(p, d, t) \in Nat
  <2>1. \A d \in 0 .. last : d \in Int
    BY <1>2
  <2> QED
    BY <2>1, OpenIsExact
<1>6. 0 \in F
  <2>1. r[0] = Burn!Max({0, Exact(p, 0, t)})
    BY <1>2, <1>4, ExactStart
  <2>2. Exact(p, 0, t) \in Nat
    BY <1>2, <1>5
  <2>3. r[0] = Exact(p, 0, t)
    BY <2>1, <2>2, MaxOfTwo
  <2> QED
    BY <1>2, <2>3
<1>7. ASSUME NEW n \in Nat, n < last, n \in F PROVE n + 1 \in F
  <2>1. n + 1 \in 0 .. last /\ n + 1 # 0 /\ (n + 1) - 1 = n
    BY <1>2, <1>7
  <2>2. r[n + 1] = Burn!Max({0, r[n] + Burn!Delta(p, n + 1, t)})
    BY <1>4, <2>1
  <2>3. r[n] + Burn!Delta(p, n + 1, t) = Exact(p, n + 1, t)
    BY <1>7, ExactStep
  <2>4. Exact(p, n + 1, t) \in Nat
    BY <1>5, <2>1
  <2>5. r[n + 1] = Exact(p, n + 1, t)
    BY <2>2, <2>3, <2>4, MaxOfTwo
  <2> QED
    BY <2>1, <2>5
<1>8. 0 .. last \subseteq F
  <2> HIDE DEF F
  <2> QED
    BY <1>2, <1>6, <1>7, UpTo
<1>9. \A d \in 0 .. last : d \in Int /\ r[d] = Exact(p, d, t)
  BY <1>2, <1>8
<1> QED
  BY <1>1, <1>3, <1>9, OpenIsExact

\* Over all teams, every story counts once.
LEMMA SumOfTeams ==
  ASSUME NEW p, StoriesKnown(p), NEW S \in SUBSET Burn!Chosen(p), NEW f, NEW slice,
         \A t \in ChartTeams : slice[t] \subseteq S /\ f[t] = Burn!ValueOf(p, slice[t]),
         \A t, u \in ChartTeams : t # u => slice[t] \intersect slice[u] = {},
         \A s \in S : \E t \in ChartTeams : s \in slice[t]
  PROVE  Burn!SumFunctionOnSet(f, ChartTeams) = Burn!ValueOf(p, S)
<1>1. IsFiniteSet(S) /\ IsFiniteSet(ChartTeams)
  BY StoriesOfKinds, BurndownDays
<1>2. PICK v : v = Burn!Value(p)
  OBVIOUS
<1>3. \A s \in S : v[s] \in Int
  BY <1>2, StoryValues
<1>4. \A t \in ChartTeams : slice[t] \subseteq S /\ f[t] = Burn!SumFunctionOnSet(v, slice[t])
  BY <1>2 DEF Burn!ValueOf
<1>5. Burn!SumFunctionOnSet(f, ChartTeams) = Burn!SumFunctionOnSet(v, S)
  BY <1>1, <1>3, <1>4, SumOfParts
<1> QED
  BY <1>2, <1>5 DEF Burn!ValueOf

\* What is open on a day is what has begun without what was closed.
LEMMA OpenOfAll ==
  ASSUME NEW p, StoriesKnown(p), NEW d \in Int
  PROVE  /\ Burn!OpenValue(p, d, None) = Burn!SumFunctionOnSet([t \in ChartTeams |-> Exact(p, d, t)], ChartTeams)
         /\ Burn!OpenValue(p, d, None) \in Nat
<1>1. \A s \in Burn!InChart(p) : /\ s \in Burn!Chosen(p) /\ p.kind[s].created \in Nat /\ Burn!OpenTeam(p, s) \in ChartTeams
                                 /\ Burn!Closing(p, s) # None => /\ Burn!Closing(p, s).day \in Nat
                                                                 /\ p.kind[s].created <= Burn!Closing(p, s).day
                                                                 /\ Burn!Closing(p, s).team \in ChartTeams
  BY StoriesOfKinds, KindsOf, FirstClosing DEF Burn!OpenTeam
<1>2. PICK b : b = {s \in Burn!InChart(p) : p.kind[s].created <= d}
  OBVIOUS
<1>3. PICK e : e = {s \in Burn!InChart(p) : Burn!Closing(p, s) # None /\ Burn!Closing(p, s).day <= d}
  OBVIOUS
<1>4. PICK o : o = Burn!OpenOn(p, d, None)
  OBVIOUS
<1>5. o \in SUBSET Burn!Chosen(p) /\ e \in SUBSET Burn!Chosen(p) /\ b \in SUBSET Burn!Chosen(p)
      /\ o \intersect e = {} /\ b = o \union e
  BY <1>1, <1>2, <1>3, <1>4 DEF Burn!OpenOn
<1>6. Burn!ValueOf(p, b) = Burn!ValueOf(p, o) + Burn!ValueOf(p, e)
  BY <1>5, ValueUnion
<1>7. Burn!ValueOf(p, o) \in Nat /\ Burn!ValueOf(p, e) \in Nat /\ Burn!ValueOf(p, b) \in Nat
  BY <1>5, StoryValues
<1>8. PICK fb : fb = [t \in ChartTeams |-> Burn!ValueOf(p, Begun(p, d, t))]
  OBVIOUS
<1>9. PICK fe : fe = [t \in ChartTeams |-> Burn!ValueOf(p, Ended(p, d, t))]
  OBVIOUS
<1>10. Burn!SumFunctionOnSet(fb, ChartTeams) = Burn!ValueOf(p, b)
  <2>1. PICK slice : slice = [t \in ChartTeams |-> Begun(p, d, t)]
    OBVIOUS
  <2>2. \A t \in ChartTeams : slice[t] = Begun(p, d, t)
    BY <2>1
  <2>3. \A t \in ChartTeams : slice[t] \subseteq b /\ \A s \in slice[t] : Burn!OpenTeam(p, s) = t
    BY <1>2, <2>2 DEF Begun
  <2>4. \A t \in ChartTeams : fb[t] = Burn!ValueOf(p, slice[t])
    BY <1>8, <2>2
  <2>5. \A t, u \in ChartTeams : t # u => slice[t] \intersect slice[u] = {}
    BY <2>3
  <2>6. \A s \in b : \E t \in ChartTeams : s \in slice[t]
    BY <1>1, <1>2, <2>2 DEF Begun
  <2> QED
    BY <1>5, <2>3, <2>4, <2>5, <2>6, SumOfTeams
<1>11. Burn!SumFunctionOnSet(fe, ChartTeams) = Burn!ValueOf(p, e)
  <2>1. PICK slice : slice = [t \in ChartTeams |-> Ended(p, d, t)]
    OBVIOUS
  <2>2. \A t \in ChartTeams : slice[t] = Ended(p, d, t)
    BY <2>1
  <2>3. \A t \in ChartTeams : slice[t] \subseteq e /\ \A s \in slice[t] : Burn!Closing(p, s).team = t
    BY <1>3, <2>2 DEF Ended
  <2>4. \A t \in ChartTeams : fe[t] = Burn!ValueOf(p, slice[t])
    BY <1>9, <2>2
  <2>5. \A t, u \in ChartTeams : t # u => slice[t] \intersect slice[u] = {}
    BY <2>3
  <2>6. \A s \in e : \E t \in ChartTeams : s \in slice[t]
    BY <1>1, <1>3, <2>2 DEF Ended
  <2> QED
    BY <1>5, <2>3, <2>4, <2>5, <2>6, SumOfTeams
<1>12. PICK fx : fx = [t \in ChartTeams |-> Exact(p, d, t)]
  OBVIOUS
<1>13. \A t \in ChartTeams : fb[t] \in Int /\ fe[t] \in Int /\ fx[t] \in Int /\ fb[t] = fx[t] + fe[t]
  <2>1. ASSUME NEW t \in ChartTeams PROVE fb[t] \in Int /\ fe[t] \in Int /\ fx[t] \in Int /\ fb[t] = fx[t] + fe[t]
    <3>1. fb[t] \in Nat /\ fe[t] \in Nat
      BY <1>8, <1>9, ExactInt, StoryValues
    <3>2. fx[t] = fb[t] - fe[t]
      BY <1>8, <1>9, <1>12 DEF Exact
    <3> QED
      BY <3>1, <3>2
  <2> QED
    BY <2>1
<1>14. Burn!SumFunctionOnSet(fb, ChartTeams) = Burn!SumFunctionOnSet(fx, ChartTeams) + Burn!SumFunctionOnSet(fe, ChartTeams)
  BY <1>13, BurndownDays, SumPlus
<1>15. Burn!SumFunctionOnSet(fx, ChartTeams) \in Int
  BY <1>13, BurndownDays, SumInt
<1>16. Burn!ValueOf(p, o) = Burn!SumFunctionOnSet(fx, ChartTeams)
  BY <1>6, <1>7, <1>10, <1>11, <1>14, <1>15
<1> QED
  BY <1>4, <1>7, <1>12, <1>16 DEF Burn!OpenValue

LEMMA TotalAsSum ==
  ASSUME NEW p, StoriesKnown(p), NEW d
  PROVE  \E f : /\ Burn!TotalOf(Burn!Timeline(p), d) = Burn!SumFunctionOnSet(f, ChartTeams)
                /\ f = [t \in ChartTeams |-> Burn!Running(p, t)[d]]
<1>1. PICK f : f = [t \in ChartTeams |-> Burn!Timeline(p)[t][d]]
  OBVIOUS
<1>2. f = [t \in ChartTeams |-> Burn!Running(p, t)[d]]
  BY <1>1 DEF Burn!Timeline
<1>3. Burn!TotalOf(Burn!Timeline(p), d) = Burn!SumFunctionOnSet(f, ChartTeams)
  BY <1>1 DEF Burn!TotalOf, Burn!SumFunction
<1> QED
  BY <1>2, <1>3

LEMMA ChartCounts == ASSUME NEW p, StoriesKnown(p) PROVE Burn!ChartCountsOpen(p)
<1>1. ASSUME NEW d \in 0 .. Burn!FullEnd(p) PROVE Burn!TotalOf(Burn!Timeline(p), d) >= Burn!OpenValue(p, d, None)
  <2>1. d \in Int
    BY ChartDays
  <2>2. PICK f : /\ Burn!TotalOf(Burn!Timeline(p), d) = Burn!SumFunctionOnSet(f, ChartTeams)
                 /\ f = [t \in ChartTeams |-> Burn!Running(p, t)[d]]
    BY TotalAsSum
  <2>3. PICK g : g = [t \in ChartTeams |-> Exact(p, d, t)]
    OBVIOUS
  <2>4. \A t \in ChartTeams : f[t] \in Int /\ g[t] \in Int /\ g[t] <= f[t]
    <3>1. ASSUME NEW t \in ChartTeams PROVE f[t] \in Int /\ g[t] \in Int /\ g[t] <= f[t]
      <4>1. Burn!Running(p, t)[d] \in Nat /\ Exact(p, d, t) <= Burn!Running(p, t)[d]
        BY RunOK, RunAtLeast
      <4>2. Exact(p, d, t) \in Int
        BY ExactInt
      <4>3. f[t] = Burn!Running(p, t)[d] /\ g[t] = Exact(p, d, t)
        BY <2>2, <2>3
      <4> QED
        BY <4>1, <4>2, <4>3
    <3> QED
      BY <3>1
  <2>5. Burn!SumFunctionOnSet(g, ChartTeams) <= Burn!SumFunctionOnSet(f, ChartTeams)
    BY <2>4, BurndownDays, SumAtMost
  <2>6. Burn!OpenValue(p, d, None) = Burn!SumFunctionOnSet(g, ChartTeams)
    BY <2>1, <2>3, OpenOfAll
  <2>7. Burn!SumFunctionOnSet(g, ChartTeams) \in Int /\ Burn!SumFunctionOnSet(f, ChartTeams) \in Int
    BY <2>4, BurndownDays, SumInt
  <2> QED
    BY <2>2, <2>5, <2>6, <2>7
<1>2. ASSUME NEW d \in 0 .. Burn!FullEnd(p), Burn!NobodyMoved(p), NEW t \in ChartTeams
      PROVE  Burn!Timeline(p)[t][d] = Burn!OpenValue(p, d, t)
  BY <1>2, RunIsOpen DEF Burn!Timeline
<1> QED
  BY <1>1, <1>2 DEF Burn!ChartCountsOpen

\* The start of the sprint, by team and in all.
LEMMA StartOfAll ==
  ASSUME NEW p, StoriesKnown(p)
  PROVE  Burn!Summary(p).start = Burn!ValueOf(p, Burn!AtStart(p)) /\ Burn!AtStart(p) \in SUBSET Burn!Chosen(p)
<1>1. PICK b : b = Burn!AtStart(p)
  OBVIOUS
<1>2. \A s \in b : s \in Burn!InChart(p) /\ s \in Burn!Chosen(p) /\ p.kind[s].start \in ChartTeams
  BY <1>1, StoriesOfKinds, KindsOf DEF Burn!AtStart
<1>3. PICK slice : slice = [t \in ChartTeams |-> {s \in b : p.kind[s].start = t}]
  OBVIOUS
<1>4. PICK f : f = [t \in ChartTeams |-> Burn!Baseline(p, t)]
  OBVIOUS
<1>5. \A t \in ChartTeams : f[t] = Burn!ValueOf(p, slice[t])
  BY <1>1, <1>3, <1>4 DEF Burn!Baseline
<1>6. \A t \in ChartTeams : slice[t] \subseteq b /\ \A s \in slice[t] : p.kind[s].start = t
  BY <1>3
<1>7. \A t, u \in ChartTeams : t # u => slice[t] \intersect slice[u] = {}
  BY <1>6
<1>8. \A s \in b : \E t \in ChartTeams : s \in slice[t]
  BY <1>2, <1>3
<1>9. b \in SUBSET Burn!Chosen(p)
  BY <1>2
<1>10. Burn!SumFunctionOnSet(f, ChartTeams) = Burn!ValueOf(p, b)
  BY <1>5, <1>6, <1>7, <1>8, <1>9, SumOfTeams
<1>11. Burn!Summary(p).start = Burn!SumFunctionOnSet(f, ChartTeams)
  BY <1>4 DEF Burn!Summary, Burn!SumFunction
<1> QED
  BY <1>1, <1>9, <1>10, <1>11

LEMMA CardsRight == ASSUME NEW p, StoriesKnown(p) PROVE Burn!CardsAddUp(p)
<1> SUFFICES ASSUME Burn!NobodyMoved(p)
             PROVE  Burn!Summary(p).start + Burn!Summary(p).added - Burn!Summary(p).closed
                        = Burn!TotalOf(Burn!Timeline(p), Burn!FullEnd(p))
  BY DEF Burn!CardsAddUp
<1>1. PICK last : last = Burn!FullEnd(p)
  OBVIOUS
<1>2. last \in Nat /\ SprintEnd <= last /\ last \in 0 .. Burn!FullEnd(p)
  BY <1>1, ChartDays
<1>3. PICK b : b = Burn!AtStart(p)
  OBVIOUS
<1>4. PICK a : a = {s \in Burn!InChart(p) : Burn!Added(p, s)}
  OBVIOUS
<1>5. PICK c : c = {s \in Burn!InChart(p) : Burn!Closing(p, s) # None}
  OBVIOUS
<1>6. PICK o : o = Burn!OpenOn(p, last, None)
  OBVIOUS
<1>7. \A s \in Burn!InChart(p) : /\ s \in Burn!Chosen(p) /\ p.kind[s].created <= last
                                 /\ Burn!Closing(p, s) # None => Burn!Closing(p, s).day <= last
  <2>1. \A s \in Burn!InChart(p) : s \in Burn!Chosen(p) /\ p.kind[s].created <= SprintEnd /\ p.kind[s].created \in Nat
    BY StoriesOfKinds, KindsOf
  <2>2. \A s \in Burn!Chosen(p) : Burn!Closing(p, s) # None => Burn!Closing(p, s).day <= last
    BY <1>1, ChartDays
  <2> QED
    BY <1>2, <2>1, <2>2, BurndownDays
<1>8. b \union a = Burn!InChart(p) /\ b \intersect a = {}
  BY <1>3, <1>4 DEF Burn!AtStart
<1>9. o \union c = Burn!InChart(p) /\ o \intersect c = {}
  BY <1>5, <1>6, <1>7 DEF Burn!OpenOn
<1>10. b \in SUBSET Burn!Chosen(p) /\ a \in SUBSET Burn!Chosen(p) /\ o \in SUBSET Burn!Chosen(p) /\ c \in SUBSET Burn!Chosen(p)
  BY <1>7, <1>8, <1>9
<1>11. /\ Burn!ValueOf(p, Burn!InChart(p)) = Burn!ValueOf(p, b) + Burn!ValueOf(p, a)
       /\ Burn!ValueOf(p, Burn!InChart(p)) = Burn!ValueOf(p, o) + Burn!ValueOf(p, c)
  <2>1. Burn!ValueOf(p, b \union a) = Burn!ValueOf(p, b) + Burn!ValueOf(p, a)
    BY <1>8, <1>10, ValueUnion
  <2>2. Burn!ValueOf(p, o \union c) = Burn!ValueOf(p, o) + Burn!ValueOf(p, c)
    BY <1>9, <1>10, ValueUnion
  <2> QED
    BY <1>8, <1>9, <2>1, <2>2
<1>12. /\ Burn!ValueOf(p, b) \in Nat /\ Burn!ValueOf(p, a) \in Nat
       /\ Burn!ValueOf(p, o) \in Nat /\ Burn!ValueOf(p, c) \in Nat
  BY <1>10, StoryValues
<1>13. /\ Burn!Summary(p).start = Burn!ValueOf(p, b) /\ Burn!Summary(p).added = Burn!ValueOf(p, a)
       /\ Burn!Summary(p).closed = Burn!ValueOf(p, c)
  <2>1. Burn!Summary(p).start = Burn!ValueOf(p, b)
    BY <1>3, StartOfAll
  <2>2. Burn!Summary(p).added = Burn!ValueOf(p, a) /\ Burn!Summary(p).closed = Burn!ValueOf(p, c)
    BY <1>4, <1>5 DEF Burn!Summary
  <2> QED
    BY <2>1, <2>2
<1>14. Burn!TotalOf(Burn!Timeline(p), last) = Burn!ValueOf(p, o)
  <2>1. PICK f : /\ Burn!TotalOf(Burn!Timeline(p), last) = Burn!SumFunctionOnSet(f, ChartTeams)
                 /\ f = [t \in ChartTeams |-> Burn!Running(p, t)[last]]
    BY TotalAsSum
  <2>2. PICK g : g = [t \in ChartTeams |-> Exact(p, last, t)]
    OBVIOUS
  <2>3. ASSUME NEW t \in ChartTeams PROVE f[t] = g[t]
    <3>1. Burn!Running(p, t)[last] = Burn!OpenValue(p, last, t)
      BY <1>2, RunIsOpen
    <3>2. Exact(p, last, t) = Burn!OpenValue(p, last, t)
      BY <1>2, OpenIsExact
    <3> QED
      BY <2>1, <2>2, <3>1, <3>2
  <2>4. Burn!SumFunctionOnSet(f, ChartTeams) = Burn!SumFunctionOnSet(g, ChartTeams)
    BY <2>3, BurndownDays, SumSame
  <2>5. Burn!OpenValue(p, last, None) = Burn!SumFunctionOnSet(g, ChartTeams)
    BY <1>2, <2>2, OpenOfAll
  <2> QED
    BY <1>6, <2>1, <2>4, <2>5 DEF Burn!OpenValue
<1> QED
  BY <1>1, <1>11, <1>12, <1>13, <1>14

LEMMA AllDrawn == ASSUME NEW p, StoriesKnown(p) PROVE Burn!NothingCutOff(p)
<1>1. \A s \in Burn!InChart(p) : Burn!Closing(p, s) # None => Burn!Closing(p, s).day <= Burn!ChartEnd(p)
  BY ChartDays, StoriesOfKinds
<1>2. ASSUME NEW d \in 0 .. Burn!ChartEnd(p), NEW s \in Burn!OpenOn(p, d, None), Burn!Value(p)[s] > 0, Burn!NobodyMoved(p)
      PROVE  Burn!OpenTeam(p, s) \in Burn!Visible(p)
  <2>1. PICK t : t = Burn!OpenTeam(p, s)
    OBVIOUS
  <2>2. s \in Burn!InChart(p) /\ s \in Burn!Chosen(p) /\ p.kind[s] \in BurnKinds
    BY <1>2, StoriesOfKinds DEF Burn!OpenOn
  <2>3. t \in ChartTeams
    BY <2>1, <2>2, KindsOf DEF Burn!OpenTeam
  <2>4. d \in 0 .. Burn!FullEnd(p) /\ d \in Int
    BY ChartDays
  <2>5. s \in Burn!OpenOn(p, d, t) /\ Burn!OpenOn(p, d, t) \in SUBSET Burn!Chosen(p)
    BY <2>1, <2>2, StoriesOfKinds DEF Burn!OpenOn
  <2>6. Burn!Value(p)[s] <= Burn!OpenValue(p, d, t) /\ Burn!OpenValue(p, d, t) \in Nat /\ Burn!Value(p)[s] \in Nat
    <3>1. PICK o : o = Burn!OpenOn(p, d, t)
      OBVIOUS
    <3>2. IsFiniteSet(o) /\ \A i \in o : Burn!Value(p)[i] \in Nat
      BY <2>5, <3>1, StoriesOfKinds, StoryValues
    <3>3. PICK v : v = Burn!Value(p)
      OBVIOUS
    <3>4. Burn!SumFunctionOnSet(v, o) \in Nat /\ v[s] <= Burn!SumFunctionOnSet(v, o)
      BY <2>5, <3>1, <3>2, <3>3, SumNat
    <3> QED
      BY <2>2, <3>1, <3>3, <3>4, StoryValues DEF Burn!OpenValue, Burn!ValueOf
  <2>7. Burn!Timeline(p)[t][d] = Burn!OpenValue(p, d, t)
    BY <1>2, <2>3, <2>4, RunIsOpen DEF Burn!Timeline
  <2>8. Burn!Timeline(p)[t][d] > 0
    BY <1>2, <2>6, <2>7
  <2> QED
    BY <2>1, <2>3, <2>8 DEF Burn!Visible
<1> QED
  BY <1>1, <1>2 DEF Burn!NothingCutOff

-----------------------------------------------------------------------------
(* The page.                                                                 *)

BurndownFields == {"shown", "phase", "fresh", "kind", "post", "completed", "closed", "patched",
           "metric", "assignee", "filter", "early", "clicks"}

\* A filter is from the view that is shown, and from before the load, if there
\* is one.
BurndownPageOK(p) ==
  /\ DOMAIN p = BurndownFields
  /\ StoriesKnown(p)
  /\ p.shown \in BOOLEAN /\ p.fresh \in BOOLEAN /\ p.post \in BOOLEAN /\ p.completed \in BOOLEAN
  /\ p.patched \in BOOLEAN /\ p.early \in BOOLEAN
  /\ p.phase \in {"ready", "due", "loading"} /\ p.closed \subseteq Stories
  /\ p.metric \in {"points", "count"} /\ p.clicks \in 0 .. MaxClicks
  /\ p.filter = None
     \/ (/\ p.filter.day \in 0 .. LastDay /\ p.filter.team \in ChartTeams \union {None}
         /\ p.filter.keys \subseteq Stories
         /\ p.shown /\ (p.phase # "ready" => p.early))

BurndownPage(p) == BurndownPageOK(p) /\ p.assignee \in Burn!Offered(p) /\ Burn!FilterIsOfChart(p)

FirstOf(told) == CHOOSE c \in told : \A d \in told : c.day <= d.day

\* The same stories are open for the same answer and scope.
LEMMA SameOpen ==
  ASSUME NEW p, NEW q, q.kind = p.kind, q.assignee = p.assignee, q.closed = p.closed,
         q.post = p.post, q.completed = p.completed
  PROVE  \A d, t : Burn!OpenOn(q, d, t) = Burn!OpenOn(p, d, t)
<1>1. \A s : Burn!Told(q, s) = Burn!Told(p, s)
  BY DEF Burn!Told
<1>2. ASSUME NEW s PROVE Burn!Closing(q, s) = Burn!Closing(p, s)
  <2>1. /\ Burn!Closing(p, s) = IF Burn!Told(p, s) = {} THEN None ELSE FirstOf(Burn!Told(p, s))
        /\ Burn!Closing(q, s) = IF Burn!Told(q, s) = {} THEN None ELSE FirstOf(Burn!Told(q, s))
    BY DEF Burn!Closing, FirstOf
  <2>2. Burn!Told(q, s) = Burn!Told(p, s)
    BY <1>1
  <2>3. FirstOf(Burn!Told(q, s)) = FirstOf(Burn!Told(p, s))
    BY <2>2
  <2> QED
    BY <2>1, <2>2, <2>3
<1>3. Burn!Chosen(q) = Burn!Chosen(p)
  BY DEF Burn!Chosen
<1>4. Burn!InChart(q) = Burn!InChart(p)
  BY <1>2, <1>3 DEF Burn!InChart
<1> QED
  BY <1>2, <1>4 DEF Burn!OpenOn, Burn!OpenTeam, Burn!Added

LEMMA UnfilteredOK ==
  ASSUME NEW p, BurndownPageOK(p)
  PROVE  /\ BurndownPageOK(Burn!Unfiltered(p)) /\ Burn!Unfiltered(p).filter = None
         /\ Burn!Unfiltered(p).kind = p.kind /\ Burn!Unfiltered(p).assignee = p.assignee
         /\ Burn!Unfiltered(p).clicks = p.clicks
BY DEF Burn!Unfiltered, BurndownPageOK, BurndownFields, StoriesKnown

LEMMA EffectsOK ==
  ASSUME NEW p, BurndownPageOK(p), Burn!FilterIsOfChart(p)
  PROVE  BurndownPage(Burn!Effects(p)) /\ Burn!Effects(p).clicks = p.clicks
<1>1. CASE p.assignee \in Burn!Offered(p)
  BY <1>1 DEF Burn!Effects, BurndownPage
<1>2. CASE p.assignee \notin Burn!Offered(p)
  <2>1. PICK q : q = [p EXCEPT !.assignee = All]
    OBVIOUS
  <2>2. BurndownPageOK(q) /\ q.assignee = All /\ q.clicks = p.clicks
    BY <2>1 DEF BurndownPageOK, BurndownFields, StoriesKnown
  <2>3. Burn!Effects(p) = Burn!Unfiltered(q)
    BY <1>2, <2>1 DEF Burn!Effects
  <2>4. PICK r : r = Burn!Unfiltered(q)
    OBVIOUS
  <2>5. BurndownPageOK(r) /\ r.filter = None /\ r.assignee = All /\ r.clicks = p.clicks
    BY <2>2, <2>4, UnfilteredOK
  <2> QED
    BY <2>3, <2>4, <2>5 DEF BurndownPage, Burn!FilterIsOfChart, Burn!Offered
<1> QED
  BY <1>1, <1>2

\* A click leads to a page that is in order when the one it makes is.
LEMMA ClickHeld ==
  ASSUME BurndownPage(page), NEW q, BurndownPageOK(q), Burn!FilterIsOfChart(q), q.clicks = page.clicks, Burn!Click(q)
  PROVE  BurndownPage(page')
<1>1. PICK r : r = [q EXCEPT !.clicks = @ + 1]
  OBVIOUS
<1>2. page' = Burn!Effects(r) /\ page.clicks < MaxClicks
  BY <1>1 DEF Burn!Click
<1>3. /\ BurndownPageOK(r) /\ r.kind = q.kind /\ r.assignee = q.assignee /\ r.closed = q.closed
      /\ r.post = q.post /\ r.completed = q.completed /\ r.filter = q.filter
      /\ r.shown = q.shown /\ r.patched = q.patched /\ r.early = q.early
  <2>1. MaxClicks \in Nat
    BY BurndownConstants DEF Burn!BurndownAssumption
  <2>2. q.clicks + 1 \in 0 .. MaxClicks
    BY <1>2, <2>1 DEF BurndownPageOK
  <2> QED
    BY <1>1, <2>2 DEF BurndownPageOK, BurndownFields, StoriesKnown
<1>4. \A d, t : Burn!OpenOn(r, d, t) = Burn!OpenOn(q, d, t)
  BY <1>3, SameOpen
<1>5. Burn!FilterIsOfChart(r)
  BY <1>3, <1>4 DEF Burn!FilterIsOfChart
<1> QED
  BY <1>2, <1>3, <1>5, EffectsOK

\* Most clicks drop the filter.
LEMMA UnfilteredClick ==
  ASSUME BurndownPage(page), NEW q, BurndownPageOK(q), q.clicks = page.clicks, Burn!Click(Burn!Unfiltered(q))
  PROVE  BurndownPage(page')
<1>1. PICK r : r = Burn!Unfiltered(q)
  OBVIOUS
<1>2. BurndownPageOK(r) /\ r.filter = None /\ r.clicks = page.clicks
  BY <1>1, UnfilteredOK
<1>3. Burn!FilterIsOfChart(r)
  BY <1>2 DEF Burn!FilterIsOfChart
<1> QED
  BY <1>1, <1>2, <1>3, ClickHeld

LEMMA BurndownInit == Burn!Init => BurndownPage(page)
<1> SUFFICES ASSUME Burn!Init PROVE BurndownPage(page)
  OBVIOUS
<1>1. PICK completed \in BOOLEAN :
        page = [shown |-> TRUE, phase |-> "due", fresh |-> FALSE, kind |-> Burn!NoStories,
                post |-> FALSE, completed |-> completed, closed |-> {}, patched |-> FALSE,
                metric |-> "points", assignee |-> All, filter |-> None, early |-> FALSE,
                clicks |-> 0]
  BY DEF Burn!Init
<1>2. MaxClicks \in Nat
  BY BurndownConstants DEF Burn!BurndownAssumption
<1> QED
  BY <1>1, <1>2 DEF BurndownPage, BurndownPageOK, BurndownFields, StoriesKnown, Burn!NoStories, Burn!Offered, Burn!FilterIsOfChart

LEMMA AskHeld == ASSUME BurndownPage(page), Burn!Ask PROVE BurndownPage(page')
<1>1. page' = [page EXCEPT !.phase = "loading"] /\ page.phase = "due"
  BY DEF Burn!Ask
<1>2. BurndownPageOK(page')
  BY <1>1 DEF BurndownPage, BurndownPageOK, BurndownFields, StoriesKnown
<1>3. /\ page'.kind = page.kind /\ page'.assignee = page.assignee /\ page'.closed = page.closed
      /\ page'.post = page.post /\ page'.completed = page.completed /\ page'.filter = page.filter
      /\ page'.shown = page.shown /\ page'.patched = page.patched /\ page'.early = page.early
  BY <1>1 DEF BurndownPage, BurndownPageOK, BurndownFields
<1>4. PICK q : q = page'
  OBVIOUS
<1>5. /\ q.kind = page.kind /\ q.assignee = page.assignee /\ q.closed = page.closed
      /\ q.post = page.post /\ q.completed = page.completed /\ q.filter = page.filter
      /\ q.shown = page.shown /\ q.patched = page.patched /\ q.early = page.early /\ BurndownPageOK(q)
  BY <1>2, <1>3, <1>4
<1>6. \A d, t : Burn!OpenOn(q, d, t) = Burn!OpenOn(page, d, t)
  BY <1>5, SameOpen
<1>7. BurndownPage(q)
  BY <1>5, <1>6 DEF BurndownPage, Burn!FilterIsOfChart, Burn!Offered
<1> QED
  BY <1>4, <1>7

LEMMA BurndownLoadHeld == ASSUME BurndownPage(page), Burn!Load PROVE BurndownPage(page')
<1>1. PICK kind \in [Stories -> BurnKinds] :
           page' = Burn!Effects([page EXCEPT !.phase = "ready", !.fresh = TRUE, !.kind = kind,
                                        !.post = page.completed, !.patched = FALSE,
                                        !.closed = {s \in Stories : kind[s].closed}])
  BY DEF Burn!Load
<1>2. page.shown /\ page.phase # "ready"
  BY DEF Burn!Load
<1>3. PICK closed : closed = {s \in Stories : kind[s].closed}
  OBVIOUS
<1>4. PICK q : q = [page EXCEPT !.phase = "ready", !.fresh = TRUE, !.kind = kind,
                                !.post = page.completed, !.patched = FALSE, !.closed = closed]
  OBVIOUS
<1>5. kind \in [Stories -> BurnKinds \union {None}] /\ closed \subseteq Stories
  BY <1>3
<1>6. BurndownPageOK(q) /\ (q.filter # None => q.shown /\ q.early)
  BY <1>2, <1>4, <1>5 DEF BurndownPage, BurndownPageOK, BurndownFields, StoriesKnown
<1>7. Burn!FilterIsOfChart(q)
  BY <1>6 DEF Burn!FilterIsOfChart
<1>8. page' = Burn!Effects(q)
  BY <1>1, <1>3, <1>4
<1> QED
  BY <1>6, <1>7, <1>8, EffectsOK

LEMMA LoadFailsHeld == ASSUME BurndownPage(page), Burn!LoadFails PROVE BurndownPage(page')
<1>1. PICK q : q = [page EXCEPT !.phase = "ready", !.kind = Burn!NoStories]
  OBVIOUS
<1>2. page' = Burn!Effects(q) /\ page.shown /\ page.phase # "ready"
  BY <1>1 DEF Burn!LoadFails
<1>3. Burn!NoStories \in [Stories -> BurnKinds \union {None}]
  BY DEF Burn!NoStories
<1>4. BurndownPageOK(q) /\ (q.filter # None => q.shown /\ q.early)
  BY <1>1, <1>2, <1>3 DEF BurndownPage, BurndownPageOK, BurndownFields, StoriesKnown
<1>5. Burn!FilterIsOfChart(q)
  BY <1>4 DEF Burn!FilterIsOfChart
<1> QED
  BY <1>2, <1>4, <1>5, EffectsOK

LEMMA SetAssigneeHeld == ASSUME BurndownPage(page), Burn!SetAssignee PROVE BurndownPage(page')
<1>1. PICK a : Burn!Click(Burn!Unfiltered([page EXCEPT !.assignee = a]))
  BY DEF Burn!SetAssignee
<1>2. PICK q : q = [page EXCEPT !.assignee = a]
  OBVIOUS
<1>3. BurndownPageOK(q) /\ q.clicks = page.clicks
  BY <1>2 DEF BurndownPage, BurndownPageOK, BurndownFields, StoriesKnown
<1> QED
  BY <1>1, <1>2, <1>3, UnfilteredClick

LEMMA SetMetricHeld == ASSUME BurndownPage(page), Burn!SetMetric PROVE BurndownPage(page')
<1>1. PICK m \in {"points", "count"} : Burn!Click([page EXCEPT !.metric = m])
  BY DEF Burn!SetMetric
<1>2. PICK q : q = [page EXCEPT !.metric = m]
  OBVIOUS
<1>3. BurndownPageOK(q) /\ q.clicks = page.clicks
  BY <1>2 DEF BurndownPage, BurndownPageOK, BurndownFields, StoriesKnown
<1>4. /\ q.kind = page.kind /\ q.assignee = page.assignee /\ q.closed = page.closed
      /\ q.post = page.post /\ q.completed = page.completed /\ q.filter = page.filter
      /\ q.shown = page.shown /\ q.patched = page.patched /\ q.early = page.early
  BY <1>2 DEF BurndownPage, BurndownPageOK, BurndownFields
<1>5. \A d, t : Burn!OpenOn(q, d, t) = Burn!OpenOn(page, d, t)
  BY <1>4, SameOpen
<1>6. Burn!FilterIsOfChart(q)
  BY <1>4, <1>5 DEF BurndownPage, Burn!FilterIsOfChart
<1> QED
  BY <1>1, <1>2, <1>3, <1>6, ClickHeld

LEMMA SelectPointHeld == ASSUME BurndownPage(page), Burn!SelectPoint PROVE BurndownPage(page')
<1>1. PICK d \in 0 .. Burn!ChartEnd(page), t \in Burn!Visible(page) \union {None} :
           LET chosen == [day |-> d, team |-> t, keys |-> Burn!OpenOn(page, d, t)]
               same == page.filter # None /\ page.filter.day = d /\ page.filter.team = t
           IN /\ t # None => Burn!Timeline(page)[t][d] > 0
              /\ Burn!Click(IF same THEN Burn!Unfiltered(page)
                       ELSE [page EXCEPT !.filter = chosen, !.early = (page.phase = "due")])
  BY DEF Burn!SelectPoint
<1>2. page.shown /\ page.phase # "loading"
  BY DEF Burn!SelectPoint
<1>3. CASE page.filter # None /\ page.filter.day = d /\ page.filter.team = t
  <2>1. Burn!Click(Burn!Unfiltered(page))
    BY <1>1, <1>3
  <2> QED
    BY <2>1, UnfilteredClick DEF BurndownPage
<1>4. CASE ~(page.filter # None /\ page.filter.day = d /\ page.filter.team = t)
  <2>1. PICK keys : keys = Burn!OpenOn(page, d, t)
    OBVIOUS
  <2>2. PICK chosen : chosen = [day |-> d, team |-> t, keys |-> keys]
    OBVIOUS
  <2>3. PICK q : q = [page EXCEPT !.filter = chosen, !.early = (page.phase = "due")]
    OBVIOUS
  <2>4. Burn!Click(q)
    BY <1>1, <1>4, <2>1, <2>2, <2>3
  <2>5. chosen.day = d /\ chosen.team = t /\ chosen.keys = keys
    BY <2>2
  <2>6. d \in 0 .. LastDay /\ t \in ChartTeams \union {None} /\ keys \subseteq Stories
    <3>1. Burn!ChartEnd(page) \in Nat /\ Burn!ChartEnd(page) <= LastDay
      BY ChartDays, BurndownDays DEF BurndownPage, BurndownPageOK
    <3>2. keys \subseteq Stories
      BY <2>1 DEF Burn!OpenOn, Burn!InChart, Burn!Chosen
    <3>3. t \in ChartTeams \union {None}
      BY DEF Burn!Visible
    <3> QED
      BY <3>1, <3>2, <3>3, BurndownDays
  <2>7. BurndownPageOK(q) /\ q.clicks = page.clicks
    BY <1>2, <2>3, <2>5, <2>6 DEF BurndownPage, BurndownPageOK, BurndownFields, StoriesKnown
  <2>8. /\ q.kind = page.kind /\ q.assignee = page.assignee /\ q.closed = page.closed
        /\ q.post = page.post /\ q.completed = page.completed /\ q.filter = chosen
        /\ q.shown = page.shown
    BY <2>3 DEF BurndownPage, BurndownPageOK, BurndownFields
  <2>9. \A e, u : Burn!OpenOn(q, e, u) = Burn!OpenOn(page, e, u)
    BY <2>8, SameOpen
  <2>10. Burn!FilterIsOfChart(q)
    BY <1>2, <2>1, <2>5, <2>8, <2>9 DEF Burn!FilterIsOfChart
  <2> QED
    BY <2>4, <2>7, <2>10, ClickHeld
<1> QED
  BY <1>3, <1>4

LEMMA ClearFilterHeld == ASSUME BurndownPage(page), Burn!ClearFilter PROVE BurndownPage(page')
BY UnfilteredClick DEF Burn!ClearFilter, BurndownPage

LEMMA ChangeStatusHeld == ASSUME BurndownPage(page), Burn!ChangeStatus PROVE BurndownPage(page')
<1>1. PICK s \in Stories :
        Burn!Click([page EXCEPT !.closed = IF s \in page.closed THEN page.closed \ {s}
                                      ELSE page.closed \union {s},
                           !.patched = TRUE])
  BY DEF Burn!ChangeStatus
<1>2. PICK other : other = IF s \in page.closed THEN page.closed \ {s} ELSE page.closed \union {s}
  OBVIOUS
<1>3. PICK q : q = [page EXCEPT !.closed = other, !.patched = TRUE]
  OBVIOUS
<1>4. other \subseteq Stories
  BY <1>2 DEF BurndownPage, BurndownPageOK
<1>5. BurndownPageOK(q) /\ q.clicks = page.clicks /\ q.patched /\ (q.filter # None => q.shown)
  BY <1>3, <1>4 DEF BurndownPage, BurndownPageOK, BurndownFields, StoriesKnown
<1>6. Burn!FilterIsOfChart(q)
  BY <1>5 DEF Burn!FilterIsOfChart
<1>7. Burn!Click(q)
  BY <1>1, <1>2, <1>3
<1> QED
  BY <1>5, <1>6, <1>7, ClickHeld

\* The others leave the answer, or put in another, and drop the filter; until
\* then it need not be of what they show.
Resettable(p) == BurndownPageOK([p EXCEPT !.filter = None])

LEMMA ResetClick ==
  ASSUME BurndownPage(page), NEW q, Resettable(q), DOMAIN q = BurndownFields,
         q.clicks = page.clicks, Burn!Click(Burn!Unfiltered(q))
  PROVE  BurndownPage(page')
<1>1. PICK r : r = [q EXCEPT !.filter = None]
  OBVIOUS
<1>2. BurndownPageOK(r) /\ r.clicks = page.clicks
  BY <1>1 DEF Resettable, BurndownFields
<1>3. Burn!Unfiltered(q) = Burn!Unfiltered(r)
  BY <1>1 DEF Burn!Unfiltered, BurndownFields
<1> QED
  BY <1>2, <1>3, UnfilteredClick

LEMMA RescopeHeld == ASSUME BurndownPage(page), Burn!Rescope PROVE BurndownPage(page')
<1>1. PICK completed \in BOOLEAN, phase \in {"due", "loading"} :
        Burn!Click(Burn!Unfiltered([page EXCEPT !.completed = completed, !.fresh = FALSE,
                                      !.phase = IF page.shown THEN phase ELSE @,
                                      !.closed = IF phase = "due" THEN @ ELSE {}]))
  BY DEF Burn!Rescope
<1>2. PICK q : q = [page EXCEPT !.completed = completed, !.fresh = FALSE,
                                !.phase = IF page.shown THEN phase ELSE @,
                                !.closed = IF phase = "due" THEN @ ELSE {}]
  OBVIOUS
<1>3. DOMAIN q = BurndownFields /\ q.clicks = page.clicks
  BY <1>2 DEF BurndownPage, BurndownPageOK, BurndownFields
<1>4. Resettable(q)
  BY <1>2 DEF BurndownPage, Resettable, BurndownPageOK, BurndownFields, StoriesKnown
<1> QED
  BY <1>1, <1>2, <1>3, <1>4, ResetClick

LEMMA LeaveHeld == ASSUME BurndownPage(page), Burn!Leave PROVE BurndownPage(page')
<1>1. PICK q : q = [page EXCEPT !.shown = FALSE, !.phase = IF @ = "due" THEN "ready" ELSE @]
  OBVIOUS
<1>2. Burn!Click(Burn!Unfiltered(q))
  BY <1>1 DEF Burn!Leave
<1>3. DOMAIN q = BurndownFields /\ q.clicks = page.clicks
  BY <1>1 DEF BurndownPage, BurndownPageOK, BurndownFields
<1>4. Resettable(q)
  BY <1>1 DEF BurndownPage, Resettable, BurndownPageOK, BurndownFields, StoriesKnown
<1> QED
  BY <1>2, <1>3, <1>4, ResetClick

LEMMA ReturnHeld == ASSUME BurndownPage(page), Burn!Return PROVE BurndownPage(page')
<1>1. PICK phase \in {"ready", "due"} :
        Burn!Click([page EXCEPT !.shown = TRUE, !.phase = IF @ = "loading" THEN @ ELSE phase])
  BY DEF Burn!Return
<1>2. PICK q : q = [page EXCEPT !.shown = TRUE, !.phase = IF @ = "loading" THEN @ ELSE phase]
  OBVIOUS
<1>3. page.filter = None
  BY DEF Burn!Return, BurndownPage, BurndownPageOK
<1>4. BurndownPageOK(q) /\ q.clicks = page.clicks /\ q.filter = None
  BY <1>2, <1>3 DEF BurndownPage, BurndownPageOK, BurndownFields, StoriesKnown
<1>5. Burn!FilterIsOfChart(q)
  BY <1>4 DEF Burn!FilterIsOfChart
<1> QED
  BY <1>1, <1>2, <1>4, <1>5, ClickHeld

LEMMA ShowGroupHeld == ASSUME BurndownPage(page), Burn!ShowGroup PROVE BurndownPage(page')
<1>1. PICK kind \in [Stories -> BurnKinds] \union {Burn!NoStories}, post \in BOOLEAN :
           LET left == [page EXCEPT !.kind = kind, !.post = post, !.fresh = FALSE,
                                    !.phase = IF page.shown THEN "due" ELSE "ready",
                                    !.closed = {s \in Stories : kind # Burn!NoStories /\ kind[s].closed}]
           IN \E assignee \in Burn!Offered(left) : Burn!Click(Burn!Unfiltered([left EXCEPT !.assignee = assignee]))
  BY DEF Burn!ShowGroup
<1>2. PICK closed : closed = {s \in Stories : kind # Burn!NoStories /\ kind[s].closed}
  OBVIOUS
<1>3. PICK left : left = [page EXCEPT !.kind = kind, !.post = post, !.fresh = FALSE,
                                      !.phase = IF page.shown THEN "due" ELSE "ready",
                                      !.closed = closed]
  OBVIOUS
<1>4. PICK assignee : Burn!Click(Burn!Unfiltered([left EXCEPT !.assignee = assignee]))
  BY <1>1, <1>2, <1>3
<1>5. PICK q : q = [left EXCEPT !.assignee = assignee]
  OBVIOUS
<1>6. kind \in [Stories -> BurnKinds \union {None}] /\ closed \subseteq Stories
  BY <1>2 DEF Burn!NoStories
<1>7. DOMAIN left = BurndownFields /\ left.clicks = page.clicks /\ Resettable(left)
  <2>1. DOMAIN left = BurndownFields /\ left.clicks = page.clicks
    BY <1>3 DEF BurndownPage, BurndownPageOK, BurndownFields
  <2>2. Resettable(left)
    BY <1>3, <1>6 DEF BurndownPage, Resettable, BurndownPageOK, BurndownFields, StoriesKnown
  <2> QED
    BY <2>1, <2>2
<1>8. DOMAIN q = BurndownFields /\ q.clicks = page.clicks /\ Resettable(q)
  BY <1>5, <1>7 DEF Resettable, BurndownPageOK, BurndownFields, StoriesKnown
<1> QED
  BY <1>4, <1>5, <1>8, ResetClick

LEMMA SaveSettingsHeld == ASSUME BurndownPage(page), Burn!SaveSettings PROVE BurndownPage(page')
<1>1. PICK q : q = [page EXCEPT !.kind = Burn!NoStories, !.closed = {}, !.fresh = FALSE,
                                !.phase = IF page.shown THEN "loading" ELSE "ready"]
  OBVIOUS
<1>2. Burn!Click(Burn!Unfiltered(q))
  BY <1>1 DEF Burn!SaveSettings
<1>3. Burn!NoStories \in [Stories -> BurnKinds \union {None}]
  BY DEF Burn!NoStories
<1>4. DOMAIN q = BurndownFields /\ q.clicks = page.clicks
  BY <1>1 DEF BurndownPage, BurndownPageOK, BurndownFields
<1>5. Resettable(q)
  BY <1>1, <1>3 DEF BurndownPage, Resettable, BurndownPageOK, BurndownFields, StoriesKnown
<1> QED
  BY <1>2, <1>4, <1>5, ResetClick

LEMMA BurndownStep == ASSUME BurndownPage(page), Burn!Next PROVE BurndownPage(page')
BY AskHeld, BurndownLoadHeld, LoadFailsHeld, SetAssigneeHeld, SetMetricHeld, SelectPointHeld,
   ClearFilterHeld, ChangeStatusHeld, RescopeHeld, LeaveHeld, ReturnHeld, ShowGroupHeld,
   SaveSettingsHeld DEF Burn!Next

LEMMA BurndownSoundOf == ASSUME BurndownPage(page) PROVE Burn!BurndownSound
<1>1. StoriesKnown(page)
  BY DEF BurndownPage, BurndownPageOK
<1>2. Burn!TypeOK
  BY <1>1 DEF BurndownPage, BurndownPageOK, Burn!TypeOK, StoriesKnown
<1>3. Burn!ChartCountsOpen(page) /\ Burn!CardsAddUp(page) /\ Burn!NothingCutOff(page)
  BY <1>1, ChartCounts, CardsRight, AllDrawn
<1> QED
  BY <1>2, <1>3 DEF BurndownPage, Burn!BurndownSound

BurndownInv == part = "burndown" => BurndownPage(page)

(* For any stories, closings and teams, and any order of loads, clicks and   *)
(* changes of status: the chart never hides open work and counts it exactly, *)
(* by team, when no story was closed by another team; then its cards add up  *)
(* and no team with open work is left out; and the list a click filters is   *)
(* of the stories open in the chart that is shown.                           *)
THEOREM BurndownAlwaysSound == PartsSpec => []BurndownSound
<1>1. PartsInit => BurndownInv
  BY BurndownInit DEF PartsInit, BurndownInv
<1>2. BurndownInv /\ [PartsNext]_partVars => BurndownInv'
  <2>1. SUFFICES ASSUME BurndownInv, [PartsNext]_partVars, part' = "burndown"
                 PROVE  BurndownPage(page')
    BY DEF BurndownInv
  <2>2. CASE MenusNext
    BY <2>1, <2>2 DEF MenusNext
  <2>3. CASE DependenciesNext
    BY <2>1, <2>3 DEF DependenciesNext
  <2>4. CASE StatsNext
    BY <2>1, <2>4 DEF StatsNext
  <2>5. CASE AlertsNext
    BY <2>1, <2>5 DEF AlertsNext
  <2>6. CASE TimelineNext
    BY <2>1, <2>6 DEF TimelineNext
  <2>7. CASE BurndownNext
    BY <2>1, <2>7, BurndownStep DEF BurndownNext, BurndownInv
  <2>8. CASE UNCHANGED partVars
    BY <2>1, <2>8 DEF partVars, BurndownInv
  <2> QED
    BY <2>1, <2>2, <2>3, <2>4, <2>5, <2>6, <2>7, <2>8 DEF PartsNext
<1>3. BurndownInv => BurndownSound
  BY BurndownSoundOf DEF BurndownInv, BurndownSound
<1> QED
  BY <1>1, <1>2, <1>3, PTL DEF PartsSpec
=============================================================================
