------------------------------ MODULE Scheduler ------------------------------
(***************************************************************************)
(* schedule_issues of planning/scheduler.py: how the scenario planner puts *)
(* the issues of a sprint on the timeline.  Finished work is set aside,    *)
(* work in progress is placed around today, the rest is sorted by its      *)
(* dependencies, cycles are cut open, and every issue is then placed at    *)
(* the earliest time its prerequisites, its assignee and the slots of its  *)
(* lane allow.                                                             *)
(*                                                                         *)
(* Time is counted from the start of the sprint in ticks, DayTicks to a    *)
(* day: weeks are fractions in the code, the dates it stores whole days.   *)
(* A point of work is two ticks long.  The priority of an issue is its     *)
(* rank, 0 the highest; an issue that is "Incomplete" is a "todo".         *)
(***************************************************************************)
EXTENDS Integers, Sequences, Functions, FiniteSets

CONSTANTS Keys,       \* the issues to schedule, ordered like their keys
          Outside,    \* issues linked with them that are not to be scheduled
          Teams, Assignees, NoOne,
          Kinds,      \* the issues there can be
          Graphs,     \* the dependencies there can be
          Modes,      \* lane modes
          Slots,      \* slots of a team: its size, or 1
          Anchor,     \* today, in ticks
          DayTicks

Status == {"todo", "blocked", "active", "done"}
Issue == [team : Teams, assignee : Assignees \union {NoOne},
          points : Nat, rank : Nat, status : Status]

ASSUME KeysAssumption ==
    Keys \subseteq Nat /\ IsFiniteSet(Keys) /\ Keys \intersect Outside = {}
ASSUME KindsAssumption == Kinds \subseteq Issue /\ NoOne \notin Assignees
ASSUME GraphsAssumption ==
    \A g \in Graphs : g \subseteq (Keys \union Outside) \X (Keys \union Outside)
ASSUME ModesAssumption == Modes \subseteq {"team", "assignee"}
ASSUME SlotsAssumption == Slots \in [Teams -> Nat \ {0}]
ASSUME TimeAssumption == Anchor \in Nat /\ DayTicks \in Nat \ {0}

VARIABLES issue, needs, mode,  \* the input: needs holds <<dependent, prerequisite>>
          pc,
          how,       \* scheduled_reason of the issues in scheduled, or "open"
          start,     \* when they start
          unfit,     \* unschedulable
          order,     \* the order of topo_sort, then what is left of it
          cut,       \* remaining_order: the issues of cycles and behind them
          slotAt,    \* available_at of each lane
          busyTill   \* assignee_available_at of each lane

input == <<issue, needs, mode>>
vars == <<issue, needs, mode, pc, how, start, unfit, order, cut, slotAt, busyTill>>

Free == -1
Lanes == Teams \union Assignees
Lane(k) == IF mode = "assignee" /\ issue[k].assignee # NoOne
             THEN issue[k].assignee ELSE issue[k].team

\* build_lane_capacities: a lane of one assignee has one slot.
SlotCount(m, l) == IF m = "team" /\ l \in Teams THEN Slots[l] ELSE 1

Init ==
    /\ issue \in [Keys -> Kinds] /\ needs \in Graphs /\ mode \in Modes
    /\ pc = "classify"
    /\ how = [k \in Keys |-> "open"]
    /\ start = [k \in Keys |-> 0]
    /\ unfit = {}
    /\ order = <<>> /\ cut = <<>>
    /\ slotAt = [l \in Lanes |-> [i \in 1 .. SlotCount(mode, l) |-> 0]]
    /\ busyTill = [l \in Lanes |-> [a \in Assignees |-> Free]]

Prereqs(k) == {d \in Keys : <<k, d>> \in needs}
LacksDependency(k) == \E d \in Outside : <<k, d>> \in needs
Waiting(k) == how[k] = "open" /\ k \notin unfit

\* duration_weeks of what is scheduled.
Length(k) == IF how[k] = "done" THEN 0 ELSE 2 * issue[k].points
Finish(k) == start[k] + Length(k)

\* date + timedelta keeps the day.
DayOf(t) == (t \div DayTicks) * DayTicks

\* Only work scheduled before the main pass.
DepEndsOfFirstPass(k) ==
    {DayOf(start[d]) + Length(d) : d \in {x \in Prereqs(k) : how[x] \in {"done", "active"}}}

\* When the prerequisites end, counted from the dates they start at.
DepEnds(k) ==
    {DayOf(start[d]) + Length(d) : d \in {x \in Prereqs(k) : how[x] # "open"}}

Latest(t, times) == t \in times /\ \A u \in times : u <= t

-----------------------------------------------------------------------------
(* Finished work, and work in progress                                     *)

\* Issues without points are unschedulable; finished ones, with points or
\* not, stay at the start of the sprint.
Classify ==
    /\ pc = "classify"
    /\ unfit' = {k \in Keys : issue[k].points = 0}
    /\ how' = [k \in Keys |-> IF issue[k].status = "done" THEN "done" ELSE "open"]
    /\ pc' = "active"
    /\ UNCHANGED <<input, start, order, cut, slotAt, busyTill>>

Refuse(k) ==
    /\ LacksDependency(k)
    /\ unfit' = unfit \union {k}
    /\ UNCHANGED <<how, start, slotAt, busyTill>>

Place(k, t, reason) ==
    /\ start' = [start EXCEPT ![k] = t]
    /\ how' = [how EXCEPT ![k] = reason]
    /\ UNCHANGED unfit

\* No entry for the assignee.
KeepBusy(k, t) == UNCHANGED busyTill

\* assignee_available_at[issue.assignee] = end_week
KeepBusyTill(k, t) ==
    IF issue[k].assignee = NoOne
      THEN UNCHANGED busyTill
      ELSE busyTill' = [busyTill EXCEPT ![Lane(k)][issue[k].assignee] = t]

\* Half of it was done before today, after the prerequisites placed so far.
ActiveTimes(k) == {0, Anchor - issue[k].points} \union DepEnds(k)

\* The issues come in the order of a Python set.
PlaceActive(k) ==
    /\ pc = "active"
    /\ issue[k].status = "active" /\ Waiting(k)
    /\ \/ Refuse(k)
       \/ /\ ~LacksDependency(k)
          /\ \E t \in ActiveTimes(k) :
                /\ Latest(t, ActiveTimes(k))
                /\ Place(k, t, "active")
                /\ KeepBusyTill(k, t + 2 * issue[k].points)
          /\ UNCHANGED slotAt
    /\ UNCHANGED <<input, pc, order, cut>>

ActiveEnd ==
    /\ pc = "active"
    /\ \A k \in Keys : Waiting(k) => issue[k].status # "active"
    /\ pc' = "sort"
    /\ UNCHANGED <<input, how, start, unfit, order, cut, slotAt, busyTill>>

-----------------------------------------------------------------------------
(* topo_sort, and the issues it cannot sort                                *)

\* The order of the heap: priority, then size, then key.
Before(j, k) ==
    \/ issue[j].rank < issue[k].rank
    \/ issue[j].rank = issue[k].rank /\ issue[j].points > issue[k].points
    \/ issue[j].rank = issue[k].rank /\ issue[j].points = issue[k].points /\ j < k

Ready == {k \in Keys \ Range(order) : Prereqs(k) \subseteq Range(order)}

\* A dependent that is not among the issues gets an indegree too, and is not
\* found in them when its turn comes to be pushed.
PushesStranger(k) ==
    \E o \in Outside : k \in Prereqs(o) /\ Prereqs(o) \subseteq Range(order) \union {k}

Pop(k) ==
    /\ pc = "sort"
    /\ k \in Ready /\ \A j \in Ready \ {k} : Before(k, j)
    /\ order' = Append(order, k)
    /\ pc' = IF PushesStranger(k) THEN "failed" ELSE "sort"
    /\ UNCHANGED <<input, how, start, unfit, cut, slotAt, busyTill>>

SortEnd ==
    /\ pc = "sort"
    /\ Ready = {}
    /\ pc' = "cycle"
    /\ UNCHANGED <<input, how, start, unfit, order, cut, slotAt, busyTill>>

Left == {k \in Keys : Waiting(k)} \ (Range(order) \union Range(cut))

IsReady(d) == d \in Range(order) \union Range(cut) \/ how[d] # "open"
FreeOfCycle == {k \in Left : \A d \in Prereqs(k) : IsReady(d)}

NotAfter(j, k) ==
    \/ issue[j].rank < issue[k].rank
    \/ issue[j].rank = issue[k].rank /\ issue[j].points >= issue[k].points

TakeFree ==
    /\ pc = "cycle"
    /\ FreeOfCycle # {}
    /\ \E s \in [1 .. Cardinality(FreeOfCycle) -> FreeOfCycle] :
          /\ Range(s) = FreeOfCycle
          /\ \A i, j \in DOMAIN s : i < j => NotAfter(s[i], s[j])
          /\ cut' = cut \o s
    /\ UNCHANGED <<input, pc, how, start, unfit, order, slotAt, busyTill>>

DepsLeft(k) == Cardinality(Prereqs(k) \intersect Left)
BlockedLast(k) == IF issue[k].status = "blocked" THEN 1 ELSE 0

\* Never an issue that is blocked.
CutsUnblocked(k, j) == issue[k].status # "blocked" /\ DepsLeft(k) <= DepsLeft(j)

\* min(remaining_set, key=sort_key)
CutsNotAfter(k, j) ==
    \/ DepsLeft(k) < DepsLeft(j)
    \/ /\ DepsLeft(k) = DepsLeft(j)
       /\ \/ BlockedLast(k) < BlockedLast(j)
          \/ BlockedLast(k) = BlockedLast(j) /\ NotAfter(k, j)

TakeCyclic(k) ==
    /\ pc = "cycle"
    /\ k \in Left /\ FreeOfCycle = {}
    /\ \A j \in Left : CutsNotAfter(k, j)
    /\ cut' = Append(cut, k)
    /\ UNCHANGED <<input, pc, how, start, unfit, order, slotAt, busyTill>>

\* As soon as a round adds nothing.
NothingFree == FreeOfCycle = {}

NothingLeft == Left = {}

CycleEnd ==
    /\ pc = "cycle"
    /\ NothingLeft
    /\ pc' = "place"
    /\ order' = order \o cut /\ cut' = <<>>
    /\ UNCHANGED <<input, how, start, unfit, slotAt, busyTill>>

-----------------------------------------------------------------------------
(* The main pass: what waits is neither finished nor in progress           *)

IsBusy(k) ==
    issue[k].assignee # NoOne /\ busyTill[Lane(k)][issue[k].assignee] # Free

PlaceBehindOwnWork(k) ==
    LET times == {Anchor, busyTill[Lane(k)][issue[k].assignee]} \union DepEnds(k)
    IN  /\ IsBusy(k)
        /\ \E t \in times :
              /\ Latest(t, times)
              /\ Place(k, t, "queued")
              /\ KeepBusyTill(k, t + 2 * issue[k].points)
        /\ UNCHANGED slotAt

\* The first of the slots that are available first.
EarliestSlot(l, i) ==
    /\ i \in DOMAIN slotAt[l]
    /\ \A j \in DOMAIN slotAt[l] :
          slotAt[l][i] < slotAt[l][j] \/ (slotAt[l][i] = slotAt[l][j] /\ i <= j)

OccupySlot(l, i, t) == slotAt' = [slotAt EXCEPT ![l][i] = t]

PlaceOnSlot(k) ==
    /\ ~IsBusy(k)
    /\ \E i \in 1 .. SlotCount(mode, Lane(k)) :
          LET times == {Anchor, slotAt[Lane(k)][i]} \union DepEnds(k)
          IN  /\ EarliestSlot(Lane(k), i)
              /\ \E t \in times :
                    /\ Latest(t, times)
                    /\ Place(k, t, "queued")
                    /\ OccupySlot(Lane(k), i, t + 2 * issue[k].points)
                    /\ KeepBusyTill(k, t + 2 * issue[k].points)

PlaceNext ==
    /\ pc = "place" /\ order # <<>>
    /\ LET k == Head(order)
       IN  \/ ~Waiting(k) /\ UNCHANGED <<how, start, unfit, slotAt, busyTill>>
           \/ Waiting(k) /\ Refuse(k)
           \/ Waiting(k) /\ ~LacksDependency(k) /\ PlaceBehindOwnWork(k)
           \/ Waiting(k) /\ ~LacksDependency(k) /\ PlaceOnSlot(k)
    /\ order' = Tail(order)
    /\ UNCHANGED <<input, pc, cut>>

\* The pass over incomplete issues that follows looks for issues which are
\* neither scheduled nor unschedulable: ExactlyOnce shows there are none.
PlaceEnd ==
    /\ pc = "place" /\ order = <<>>
    /\ pc' = "end"
    /\ UNCHANGED <<input, how, start, unfit, order, cut, slotAt, busyTill>>

Next ==
    \/ Classify
    \/ \E k \in Keys : PlaceActive(k)
    \/ ActiveEnd
    \/ \E k \in Keys : Pop(k)
    \/ SortEnd
    \/ TakeFree
    \/ \E k \in Keys : TakeCyclic(k)
    \/ CycleEnd
    \/ PlaceNext \/ PlaceEnd

Spec == Init /\ [][Next]_vars

\* A function call: it goes on until it returns.
FairSpec == Spec /\ WF_vars(Next)

-----------------------------------------------------------------------------
(* Properties                                                              *)

TypeOK ==
    /\ issue \in [Keys -> Issue]
    /\ needs \subseteq (Keys \union Outside) \X (Keys \union Outside)
    /\ mode \in {"team", "assignee"}
    /\ pc \in {"classify", "active", "sort", "cycle", "place", "end", "failed"}
    /\ how \in [Keys -> {"open", "done", "active", "queued"}]
    /\ start \in [Keys -> Nat]
    /\ unfit \subseteq Keys
    /\ order \in Seq(Keys) /\ cut \in Seq(Keys)
    /\ DOMAIN slotAt = Lanes
    /\ \A l \in Lanes : slotAt[l] \in [1 .. SlotCount(mode, l) -> Nat]
    /\ busyTill \in [Lanes -> [Assignees -> Nat \union {Free}]]

\* Whatever the dependencies, cycles and missing issues included, every issue
\* ends up on the timeline or among the unschedulable ones, and not in both:
\* but for finished issues without points, which are.
ExactlyOnce ==
    pc = "end" => \A k \in Keys :
        IF issue[k].status = "done" THEN how[k] = "done"
                                    ELSE (how[k] = "open") <=> (k \in unfit)

\* The loop that cuts cycles open stops, and with it the call.
Returns == <>(pc \in {"end", "failed"})

\* An issue on no cycle and behind none: it is in a set that holds all its
\* prerequisites and no cycle.
Acyclic(S) == \A T \in SUBSET S : T # {} => \E k \in T : Prereqs(k) \intersect T = {}
Clear(k) ==
    \E S \in SUBSET Keys :
        /\ k \in S /\ Acyclic(S)
        /\ \A j \in S : Prereqs(j) \subseteq S

\* docs/architecture.md:111 "Preserve dependency ordering": every prerequisite of
\* an issue of the main pass is on the timeline or unschedulable, and the issue
\* starts no earlier than a prerequisite on the timeline ends when its length is
\* counted from the day it starts on, whatever their lanes, assignees and
\* priorities.  That is after its Finish if it starts with the day; if it
\* starts within one, the two may overlap by less than a day.  Nothing is said of
\* an issue on a cycle or behind one, which can be placed before what it waits for.
DependentsFollow ==
    \A k \in Keys : how[k] = "queued" /\ Clear(k) =>
        \A d \in Prereqs(k) :
            \/ how[d] = "open" /\ d \in unfit
            \/ how[d] # "open" /\ DayOf(start[d]) + Length(d) <= start[k]

\* No assignee is booked twice at a time in a lane: not by two issues of the
\* main pass, nor by one of them and the assignee's only issue in progress.
SameHands(j, k) ==
    /\ Lane(j) = Lane(k) /\ issue[j].assignee = issue[k].assignee
    /\ issue[k].assignee # NoOne
OnlyActive(j) ==
    \A i \in Keys \ {j} : issue[i].status = "active" => ~SameHands(i, j)
Booked(k) == how[k] = "queued" \/ (how[k] = "active" /\ OnlyActive(k))
NoDoubleBooking ==
    \A j, k \in Keys :
        /\ j # k /\ SameHands(j, k) /\ how[k] = "queued"
        /\ Booked(j)
        => Finish(j) <= start[k] \/ Finish(k) <= start[j]

\* Why: the lane knows until when its assignees are busy, and the phases of
\* the call keep finished, active and waiting issues apart.
BusyAhead ==
    \A k \in Keys : Booked(k) /\ issue[k].assignee # NoOne =>
        Finish(k) <= busyTill[Lane(k)][issue[k].assignee]
Phases ==
    /\ pc = "classify" => unfit = {} /\ \A k \in Keys : how[k] = "open"
    /\ pc = "active" => \A k \in Keys : how[k] # "queued"
    /\ pc = "place" => \A k \in Keys : Waiting(k) => k \in Range(order)
    /\ pc = "end" => \A k \in Keys : ~Waiting(k)
    /\ \A k \in Keys :
          /\ pc # "classify" => (how[k] = "done" <=> issue[k].status = "done")
          /\ how[k] = "active" => issue[k].status = "active"
          /\ how[k] \in {"active", "queued"} => k \notin unfit
IInv == TypeOK /\ Phases /\ BusyAhead /\ NoDoubleBooking

\* No more issues without an assignee run at a time in a lane than it has
\* slots, although issues with one take slots from it and give none back.
Unassigned(k) == how[k] = "queued" /\ issue[k].assignee = NoOne
LaneWithinSlots ==
    \A k \in Keys : Unassigned(k) =>
        Cardinality({j \in Keys : /\ Unassigned(j) /\ Lane(j) = Lane(k)
                                  /\ start[j] <= start[k] /\ start[k] < Finish(j)})
        <= SlotCount(mode, Lane(k))

\* tests/test_planning.py:58: of two issues for anyone of a lane, the one of
\* higher priority that waits for nothing does not start later, whatever the
\* other one and all the issues between them wait for.
PriorityFirst ==
    \A j, k \in Keys :
        /\ Unassigned(j) /\ Unassigned(k) /\ Lane(j) = Lane(k)
        /\ issue[j].rank < issue[k].rank /\ Prereqs(j) = {}
        => start[j] <= start[k]

\* The timeline can be worked through as planned, up to the day an issue may
\* overlap what it waits for and but for cycles (DependentsFollow): a lane has
\* hands for what runs in it, and priority decides between issues for anyone.
TimelineFeasible == TypeOK /\ DependentsFollow /\ LaneWithinSlots /\ PriorityFirst
=============================================================================
