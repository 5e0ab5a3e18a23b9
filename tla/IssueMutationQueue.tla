------------------------- MODULE IssueMutationQueue -------------------------
(***************************************************************************)
(* The queue all targeted Jira writes of a tab go through,                 *)
(* frontend/src/eng/engIssueMutationQueue.js: at most Concurrency writes   *)
(* run at once, those of one issue one after the other.  A tab runs one    *)
(* handler at a time: while drain() loops no other step is possible, which *)
(* is what draining says.  The jobs are numbered as they arrive; `pending' *)
(* of the code is always in that order, so it is the jobs in that state.   *)
(***************************************************************************)
EXTENDS Naturals, Sequences, FiniteSets

CONSTANTS Issues,       \* issue keys
          Concurrency,  \* ENG_ISSUE_MUTATION_CONCURRENCY
          MaxJobs       \* bound on the jobs

ASSUME ConcurrencyAssumption == Concurrency \in Nat \ {0}
ASSUME MaxJobsAssumption == MaxJobs \in Nat

VARIABLES jobs,        \* [key, state] of every job, in order of arrival
          activeKeys,
          activeCount,
          draining     \* drain() is running

queueVars == <<jobs, activeKeys, activeCount, draining>>

QueueInit ==
    /\ jobs = <<>>
    /\ activeKeys = {}
    /\ activeCount = 0
    /\ draining = FALSE

In(state) == {j \in DOMAIN jobs : jobs[j].state = state}

\* One slot more than there are.
HasSlotOffByOne == activeCount <= Concurrency

\* The condition of drain()'s loop.
HasSlot == activeCount < Concurrency

\* The jobs findIndex would accept.
Startable == {j \in In("pending") : jobs[j].key \notin activeKeys}

\* The last job that may start, not the first.
NewestStartable(j) == j \in Startable /\ \A i \in Startable : i <= j

\* The job findIndex returns.
NextJob(j) == j \in Startable /\ \A i \in Startable : j <= i

Enqueue(key) ==
    /\ ~draining
    /\ Len(jobs) < MaxJobs
    /\ jobs' = Append(jobs, [key |-> key, state |-> "pending"])
    /\ draining' = TRUE
    /\ UNCHANGED <<activeKeys, activeCount>>

\* One turn of drain()'s loop.
Start(j) ==
    /\ draining
    /\ HasSlot
    /\ NextJob(j)
    /\ jobs' = [jobs EXCEPT ![j].state = "running"]
    /\ activeKeys' = activeKeys \union {jobs[j].key}
    /\ activeCount' = activeCount + 1
    /\ UNCHANGED draining

DrainEnd ==
    /\ draining
    /\ ~HasSlot \/ Startable = {}
    /\ draining' = FALSE
    /\ UNCHANGED <<jobs, activeKeys, activeCount>>

\* The job's promise is settled either way: its caller goes on, and the
\* finally handler drains.
Finish(j) ==
    /\ ~draining
    /\ j \in In("running")
    /\ jobs' = [jobs EXCEPT ![j].state = "done"]
    /\ activeKeys' = activeKeys \ {jobs[j].key}
    /\ activeCount' = activeCount - 1
    /\ draining' = TRUE

QueueNext ==
    \/ \E key \in Issues : Enqueue(key)
    \/ \E j \in DOMAIN jobs : Start(j) \/ Finish(j)
    \/ DrainEnd

QueueSpec == QueueInit /\ [][QueueNext]_queueVars
-----------------------------------------------------------------------------
QueueTypeOK ==
    /\ jobs \in Seq([key : Issues, state : {"pending", "running", "done"}])
    /\ activeKeys \subseteq Issues
    /\ activeCount \in Nat
    /\ draining \in BOOLEAN

(* The counter, the set of keys and the jobs are three records of the same *)
(* thing: the running jobs are as many as activeCount says, no two of one  *)
(* issue, and no more than four.                                           *)
BoundedAndSerial ==
    /\ activeCount = Cardinality(activeKeys)
    /\ activeCount <= Concurrency
    /\ activeKeys = {jobs[j].key : j \in In("running")}
    /\ \A i, j \in In("running") : jobs[i].key = jobs[j].key => i = j

(* The writes of one issue reach Jira in the order the user made them: one *)
(* has not started before every earlier one has ended.                     *)
InOrderPerIssue ==
    \A i, j \in DOMAIN jobs :
        /\ i < j
        /\ jobs[i].key = jobs[j].key
        /\ jobs[j].state # "pending"
        => jobs[i].state = "done"

(* A job that waits has a reason to: all slots are taken or its issue has  *)
(* a running write.  No slot is lost to an end that started nobody.        *)
NoIdleSlot == draining \/ ~HasSlot \/ Startable = {}
=============================================================================
