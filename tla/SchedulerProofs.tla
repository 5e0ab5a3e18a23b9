--------------------------- MODULE SchedulerProofs ---------------------------
(***************************************************************************)
(* What holds of Scheduler for any issues, dependencies, teams, slots and  *)
(* lengths of a day: no assignee is booked twice at a time, every issue is *)
(* answered exactly once, and what is scheduled could be done so.          *)
(***************************************************************************)
EXTENDS Scheduler, SequenceTheorems, FiniteSetTheorems, TLAPS

USE KeysAssumption, KindsAssumption, GraphsAssumption, ModesAssumption,
    SlotsAssumption, TimeAssumption

-----------------------------------------------------------------------------
(* The operators                                                           *)

\* Every issue has a lane, and an assignee that is no one has none.
LEMMA Input ==
  ASSUME TypeOK, NEW k \in Keys
  PROVE  /\ issue[k] \in Issue /\ issue[k].points \in Nat
         /\ issue[k].team \in Teams /\ issue[k].status \in Status
         /\ issue[k].assignee # NoOne => issue[k].assignee \in Assignees
         /\ Lane(k) \in Lanes
BY DEF TypeOK, Issue, Lane, Lanes

\* Lengths are natural numbers, and so are the days.
LEMMA Lengths ==
  ASSUME TypeOK, NEW k \in Keys
  PROVE  Length(k) \in Nat /\ Finish(k) \in Nat /\ start[k] \in Nat
<1>1. Length(k) \in Nat
  BY Input DEF Length
<1>2. start[k] \in Nat
  BY DEF TypeOK
<1>3. QED BY <1>1, <1>2 DEF Finish

LEMMA Days == ASSUME NEW t \in Nat PROVE DayOf(t) \in Nat
<1>1. t \div DayTicks \in Nat
  OBVIOUS
<1>2. ASSUME NEW a \in Nat, NEW b \in Nat PROVE a * b \in Nat
  OBVIOUS
<1>3. QED BY <1>1, <1>2 DEF DayOf

LEMMA EndsAreTimes ==
  ASSUME TypeOK, NEW k \in Keys
  PROVE  DepEnds(k) \subseteq Nat
<1>1. ASSUME NEW d \in Keys PROVE DayOf(start[d]) + Length(d) \in Nat
  BY Lengths, Days
<1>2. QED BY <1>1 DEF DepEnds, Prereqs

\* Every lane has a slot.
LEMMA SlotCounts ==
  ASSUME TypeOK, NEW l \in Lanes PROVE SlotCount(mode, l) \in Nat \ {0}
BY DEF TypeOK, SlotCount

\* Head and tail hold what the sequence holds.
LEMMA RangeOfTail ==
  ASSUME NEW S, NEW s \in Seq(S), s # <<>>
  PROVE  Range(s) \subseteq {Head(s)} \union Range(Tail(s))
<1>0. Tail(s) \in Seq(S) /\ Range(s) = {s[i] : i \in 1 .. Len(s)}
  BY HeadTailProperties, RangeEquality
<1> SUFFICES ASSUME NEW i \in 1 .. Len(s)
             PROVE  s[i] = Head(s) \/ s[i] \in Range(Tail(s))
  BY <1>0
<1>1. CASE i = 1
  BY <1>1
<1>2. CASE i # 1
  <2>1. i - 1 \in 1 .. Len(Tail(s)) /\ Tail(s)[i - 1] = s[i]
    BY <1>2, HeadTailProperties
  <2>2. Range(Tail(s)) = {Tail(s)[j] : j \in 1 .. Len(Tail(s))}
    BY <1>0, RangeEquality
  <2>3. QED BY <2>1, <2>2
<1>3. QED BY <1>1, <1>2

LEMMA RangeOfConcat ==
  ASSUME NEW S, NEW s \in Seq(S), NEW t \in Seq(S)
  PROVE  Range(s) \union Range(t) \subseteq Range(s \o t)
<1>1. s \o t \in Seq(S) /\ Len(s \o t) = Len(s) + Len(t)
  BY ConcatProperties
<1> DEFINE st == s \o t
<1>a. /\ Range(st) = {st[i] : i \in 1 .. Len(st)}
      /\ Range(s) = {s[i] : i \in 1 .. Len(s)} /\ Range(t) = {t[i] : i \in 1 .. Len(t)}
  BY <1>1, RangeEquality
<1>2. ASSUME NEW i \in 1 .. Len(s) PROVE s[i] \in Range(s \o t)
  <2>1. i \in 1 .. Len(s \o t) /\ (s \o t)[i] = s[i]
    BY <1>1, ConcatProperties
  <2>2. QED BY <1>a, <2>1
<1>3. ASSUME NEW i \in 1 .. Len(t) PROVE t[i] \in Range(s \o t)
  <2>1. Len(s) + i \in 1 .. Len(s \o t) /\ (s \o t)[Len(s) + i] = t[i]
    BY <1>1, ConcatProperties
  <2>2. QED BY <1>a, <2>1
<1>4. QED BY <1>a, <1>2, <1>3

-----------------------------------------------------------------------------
(* The steps                                                               *)

LEMMA InitIInv == Init => IInv
<1> SUFFICES ASSUME Init PROVE IInv
  OBVIOUS
<1>1. TypeOK
  <2>1. issue \in [Keys -> Issue] /\ mode \in {"team", "assignee"}
    BY DEF Init
  <2>2. \A l \in Lanes : SlotCount(mode, l) \in Nat
    BY <2>1 DEF SlotCount
  <2>3. QED BY <2>1, <2>2 DEF Init, TypeOK, Free
<1>2. Phases
  BY DEF Init, Phases
<1>3. BusyAhead /\ NoDoubleBooking
  BY DEF Init, BusyAhead, NoDoubleBooking, Booked
<1>4. QED BY <1>1, <1>2, <1>3 DEF IInv

\* A step that places nothing books no one.
LEMMA NothingPlaced ==
  ASSUME IInv, UNCHANGED <<issue, mode, start, busyTill>>,
         \A k \in Keys : how'[k] \in {"active", "queued"} => how'[k] = how[k]
  PROVE  BusyAhead' /\ NoDoubleBooking'
<1>1. \A k \in Keys : Lane(k)' = Lane(k)
  BY DEF Lane
<1>2. \A j, k \in Keys : SameHands(j, k)' = SameHands(j, k)
  BY <1>1 DEF SameHands
<1>3. \A k \in Keys : OnlyActive(k)' = OnlyActive(k)
  BY <1>2 DEF OnlyActive
<1>4. \A k \in Keys : Booked(k)' => Booked(k) /\ Length(k)' = Length(k)
  BY <1>3 DEF Booked, Length
<1>5. BusyAhead'
  BY <1>1, <1>4 DEF IInv, BusyAhead, Finish
<1>6. ASSUME NEW j \in Keys, NEW k \in Keys, j # k,
             SameHands(j, k)', how'[k] = "queued", Booked(j)'
      PROVE  (Finish(j) <= start[k] \/ Finish(k) <= start[j])'
  <2>1. how[k] = "queued" /\ Booked(j) /\ SameHands(j, k)
    BY <1>2, <1>4, <1>6
  <2>2. Length(j)' = Length(j) /\ Length(k)' = Length(k)
    BY <1>4, <1>6, <2>1 DEF Length
  <2>3. QED BY <2>1, <2>2, <1>6 DEF IInv, NoDoubleBooking, Finish
<1>7. QED BY <1>5, <1>6 DEF NoDoubleBooking

\* An issue placed at a time no earlier than what its assignee is busy with,
\* where nothing but active issues is placed in the first pass.
LEMMA Placed ==
  ASSUME IInv, NEW k \in Keys, NEW t \in Nat, NEW reason \in {"active", "queued"},
         Waiting(k), Place(k, t, reason), UNCHANGED input,
         KeepBusyTill(k, t + 2 * issue[k].points),
         reason = "active" => /\ issue[k].status = "active"
                              /\ \A j \in Keys : how[j] # "queued",
         reason = "queued" /\ issue[k].assignee # NoOne =>
             busyTill[Lane(k)][issue[k].assignee] <= t
  PROVE  BusyAhead' /\ NoDoubleBooking'
<1> DEFINE end == t + 2 * issue[k].points
           busy == busyTill[Lane(k)][issue[k].assignee]
<1>0. TypeOK
  BY DEF IInv
<1>1. /\ how' = [how EXCEPT ![k] = reason] /\ start' = [start EXCEPT ![k] = t]
      /\ how \in [Keys -> {"open", "done", "active", "queued"}] /\ start \in [Keys -> Nat]
      /\ issue' = issue /\ mode' = mode /\ how[k] = "open"
  BY DEF Place, IInv, TypeOK, input, Waiting
<1>2. end \in Nat /\ t <= end
  BY <1>0, Input
<1>3. \A j \in Keys : Lane(j)' = Lane(j)
  BY <1>1 DEF Lane
<1>4. \A i, j \in Keys : SameHands(i, j)' = SameHands(i, j)
  BY <1>1, <1>3 DEF SameHands
<1>5. \A j \in Keys : OnlyActive(j)' = OnlyActive(j)
  BY <1>1, <1>4 DEF OnlyActive
<1>6. how'[k] = reason /\ start'[k] = t /\ Finish(k)' = end
  <2>1. how'[k] = reason /\ start'[k] = t
    BY <1>1
  <2>2. Length(k)' = 2 * issue[k].points
    BY <1>1, <2>1 DEF Length
  <2>3. QED BY <2>1, <2>2 DEF Finish
<1>7. ASSUME NEW j \in Keys, j # k
      PROVE  /\ how'[j] = how[j] /\ start'[j] = start[j] /\ Finish(j)' = Finish(j)
             /\ Booked(j)' = Booked(j)
  <2>1. how'[j] = how[j] /\ start'[j] = start[j]
    BY <1>1, <1>7
  <2>2. Length(j)' = Length(j)
    BY <1>1, <2>1 DEF Length
  <2>3. QED BY <1>5, <2>1, <2>2 DEF Finish, Booked
\* what the same hands are booked for ends before, or is active as well
<1>8. ASSUME NEW j \in Keys, j # k, Booked(j), SameHands(j, k)
      PROVE  reason = "queued" /\ Finish(j) <= busy /\ busy <= t
  <2>1. issue[j].assignee # NoOne /\ issue[k].assignee # NoOne
    BY <1>8 DEF SameHands
  <2>2. reason = "queued"
    <3>1. SUFFICES ASSUME reason = "active" PROVE FALSE
      OBVIOUS
    <3>2. how[j] = "active" /\ OnlyActive(j)
      BY <1>8, <3>1 DEF Booked
    <3>3. SameHands(k, j)
      BY <1>8, <2>1 DEF SameHands
    <3>4. QED BY <1>8, <3>1, <3>2, <3>3 DEF OnlyActive
  <2>3. Finish(j) <= busy
    BY <1>8, <2>1 DEF IInv, BusyAhead, SameHands
  <2>4. QED BY <2>1, <2>2, <2>3
<1> HIDE DEF end
<1>9. BusyAhead'
  <2> SUFFICES ASSUME NEW j \in Keys, Booked(j)', issue[j].assignee # NoOne
               PROVE  Finish(j)' <= busyTill'[Lane(j)][issue[j].assignee]
    BY <1>1, <1>3 DEF BusyAhead
  <2>0. /\ Lane(j) \in Lanes /\ issue[j].assignee \in Assignees
        /\ busyTill \in [Lanes -> [Assignees -> Nat \union {Free}]]
    BY <1>0, Input DEF TypeOK
  <2>1. CASE j = k
    <3>1. busyTill' = [busyTill EXCEPT ![Lane(k)][issue[k].assignee] = end]
      BY <2>1 DEF KeepBusyTill, end
    <3>2. busyTill'[Lane(k)][issue[k].assignee] = end
      BY <2>0, <2>1, <3>1
    <3>3. QED BY <1>2, <1>6, <2>1, <3>2
  <2>2. CASE j # k
    <3>1. Booked(j) /\ Finish(j)' = Finish(j) /\ Finish(j) \in Nat
      BY <1>0, <1>7, <2>2, Lengths
    <3>2. Finish(j) <= busyTill[Lane(j)][issue[j].assignee]
      BY <3>1 DEF IInv, BusyAhead
    <3>3. CASE issue[k].assignee # NoOne /\ SameHands(j, k)
      <4>1. busyTill' = [busyTill EXCEPT ![Lane(k)][issue[k].assignee] = end]
        BY <3>3 DEF KeepBusyTill, end
      <4>2. Lane(j) = Lane(k) /\ issue[j].assignee = issue[k].assignee
        BY <3>3 DEF SameHands
      <4>3. busyTill'[Lane(j)][issue[j].assignee] = end
        BY <2>0, <4>1, <4>2
      <4>4. Finish(j) <= busy /\ busy <= t
        BY <1>8, <2>2, <3>1, <3>3
      <4>5. busy \in Nat \union {Free}
        BY <2>0, <4>2
      <4>6. Finish(j) <= end
        BY <1>2, <3>1, <4>4, <4>5 DEF Free
      <4>7. QED BY <3>1, <4>3, <4>6
    <3>4. CASE ~(issue[k].assignee # NoOne /\ SameHands(j, k))
      <4>1. \/ busyTill' = busyTill
            \/ /\ busyTill' = [busyTill EXCEPT ![Lane(k)][issue[k].assignee] = end]
               /\ issue[k].assignee # NoOne
        BY DEF KeepBusyTill, end
      <4>2. issue[k].assignee # NoOne =>
              Lane(j) # Lane(k) \/ issue[j].assignee # issue[k].assignee
        BY <3>4 DEF SameHands
      <4>3. busyTill'[Lane(j)][issue[j].assignee] = busyTill[Lane(j)][issue[j].assignee]
        BY <2>0, <4>1, <4>2
      <4>4. QED BY <3>1, <3>2, <4>3
    <3>5. QED BY <3>3, <3>4
  <2>3. QED BY <2>1, <2>2
<1>10. ASSUME NEW i \in Keys, NEW j \in Keys, i # j,
              SameHands(i, j), how'[j] = "queued", Booked(i)'
       PROVE  Finish(i)' <= start'[j] \/ Finish(j)' <= start'[i]
  <2>0. /\ SameHands(j, i) /\ Finish(i) \in Nat /\ Finish(j) \in Nat
        /\ busy \in Nat \union {Free} \/ issue[k].assignee = NoOne
    <3>1. SameHands(j, i)
      BY <1>10 DEF SameHands
    <3>2. Finish(i) \in Nat /\ Finish(j) \in Nat
      BY <1>0, Lengths
    <3>3. Lane(k) \in Lanes /\ (issue[k].assignee # NoOne => issue[k].assignee \in Assignees)
      BY <1>0, Input
    <3>4. busyTill \in [Lanes -> [Assignees -> Nat \union {Free}]]
      BY <1>0 DEF TypeOK
    <3>5. QED BY <3>1, <3>2, <3>3, <3>4
  <2>1. CASE j = k
    <3>1. Finish(i) <= busy /\ busy <= t /\ Finish(i)' = Finish(i) /\ start'[j] = t
      BY <1>6, <1>7, <1>8, <1>10, <2>1
    <3>2. busy \in Nat \union {Free}
      BY <1>10, <2>0, <2>1 DEF SameHands
    <3>3. QED BY <2>0, <3>1, <3>2 DEF Free
  <2>2. CASE i = k
    <3>1. how[j] = "queued" /\ Booked(j)
      BY <1>7, <1>10, <2>2 DEF Booked
    <3>2. Finish(j) <= busy /\ busy <= t /\ Finish(j)' = Finish(j) /\ start'[i] = t
      BY <1>6, <1>7, <1>8, <1>10, <2>0, <2>2, <3>1
    <3>3. busy \in Nat \union {Free}
      BY <1>10, <2>0, <2>2 DEF SameHands
    <3>4. QED BY <2>0, <3>2, <3>3 DEF Free
  <2>3. CASE i # k /\ j # k
    <3>1. how[j] = "queued" /\ Booked(i)
      BY <1>7, <1>10, <2>3
    <3>2. Finish(i) <= start[j] \/ Finish(j) <= start[i]
      BY <1>10, <3>1 DEF IInv, NoDoubleBooking
    <3>3. QED BY <1>7, <2>3, <3>2
  <2>4. QED BY <2>1, <2>2, <2>3
<1>11. QED BY <1>4, <1>9, <1>10 DEF NoDoubleBooking

LEMMA PlaceType ==
  ASSUME TypeOK, NEW k \in Keys, NEW t \in Nat, NEW reason \in {"active", "queued"},
         Place(k, t, reason), KeepBusyTill(k, t + 2 * issue[k].points)
  PROVE  /\ how' \in [Keys -> {"open", "done", "active", "queued"}]
         /\ start' \in [Keys -> Nat] /\ unfit' \subseteq Keys
         /\ busyTill' \in [Lanes -> [Assignees -> Nat \union {Free}]]
<1> DEFINE end == t + 2 * issue[k].points
<1>1. end \in Nat
  BY Input
<1> HIDE DEF end
<1>2. busyTill' = busyTill \/ busyTill' = [busyTill EXCEPT ![Lane(k)][issue[k].assignee] = end]
  BY DEF KeepBusyTill, end
<1>3. busyTill' \in [Lanes -> [Assignees -> Nat \union {Free}]]
  <2>1. busyTill \in [Lanes -> [Assignees -> Nat \union {Free}]]
    BY DEF TypeOK
  <2>2. ASSUME NEW l \in Lanes, NEW a,
               busyTill' = [busyTill EXCEPT ![l][a] = end]
        PROVE  busyTill' \in [Lanes -> [Assignees -> Nat \union {Free}]]
    BY <1>1, <2>1, <2>2
  <2>3. Lane(k) \in Lanes
    BY Input
  <2>4. QED BY <1>2, <2>1, <2>2, <2>3
<1>4. QED BY <1>3 DEF TypeOK, Place

\* What a step that places or refuses an issue in progress keeps.
LEMMA ActiveStep ==
  ASSUME IInv, NEW k \in Keys, PlaceActive(k)
  PROVE  IInv'
<1>0. TypeOK /\ Waiting(k) /\ pc = "active" /\ issue[k].status = "active"
  BY DEF IInv, PlaceActive
<1>1. \A j \in Keys : how[j] # "queued"
  BY <1>0 DEF IInv, Phases
<1>2. CASE Refuse(k)
  <2>1. UNCHANGED <<issue, needs, mode, pc, how, start, order, cut, slotAt, busyTill>>
    BY <1>2 DEF PlaceActive, Refuse, Waiting, Place, input
  <2>2. TypeOK'
    BY <1>0, <1>2, <2>1 DEF TypeOK, Refuse, SlotCount
  <2>3. Phases'
    BY <1>0, <1>2, <2>1 DEF IInv, Phases, Refuse, Waiting
  <2>4. BusyAhead' /\ NoDoubleBooking'
    BY <2>1, NothingPlaced
  <2>5. QED BY <2>2, <2>3, <2>4 DEF IInv
<1>3. CASE ~LacksDependency(k)
  <2>1. PICK t \in ActiveTimes(k) :
            /\ Latest(t, ActiveTimes(k)) /\ Place(k, t, "active")
            /\ KeepBusyTill(k, t + 2 * issue[k].points)
    BY <1>3 DEF PlaceActive, Refuse
  <2>2. t \in Nat
    <3>1. t >= 0
      BY <2>1 DEF Latest, ActiveTimes
    <3>2. ActiveTimes(k) \subseteq Int
      <4>1. Anchor - issue[k].points \in Int
        <5>1. issue[k].points \in Nat
          BY <1>0, Input
        <5>2. QED BY <5>1
      <4>2. DepEnds(k) \subseteq Nat
        BY <1>0, EndsAreTimes
      <4>3. QED BY <4>1, <4>2 DEF ActiveTimes
    <3>3. QED BY <2>1, <3>1, <3>2
  <2>3. UNCHANGED <<input, pc, order, cut, slotAt>>
    BY <1>3 DEF PlaceActive, Refuse
  <2>4. BusyAhead' /\ NoDoubleBooking'
    BY <1>0, <1>1, <2>1, <2>2, <2>3, Placed
  <2>5. TypeOK'
    BY <1>0, <2>1, <2>2, <2>3, PlaceType DEF TypeOK, SlotCount, input
  <2>6. Phases'
    BY <1>0, <2>1, <2>2, <2>3 DEF IInv, Phases, Place, Waiting, input, TypeOK
  <2>7. QED BY <2>4, <2>5, <2>6 DEF IInv
<1>4. QED BY <1>2, <1>3 DEF PlaceActive

\* The steps that only classify and sort.
LEMMA SortSteps ==
  ASSUME IInv,
         \/ Classify \/ ActiveEnd \/ SortEnd \/ TakeFree \/ CycleEnd \/ PlaceEnd
         \/ \E k \in Keys : Pop(k) \/ TakeCyclic(k)
  PROVE  IInv'
<1>0. TypeOK
  BY DEF IInv
<1>1. UNCHANGED <<issue, needs, mode, start, slotAt, busyTill>>
  BY DEF Classify, ActiveEnd, SortEnd, TakeFree, CycleEnd, PlaceEnd, Pop, TakeCyclic, input
<1>2. CASE Classify
  <2>1. /\ \A k \in Keys : how[k] = "open"
        /\ how' \in [Keys -> {"open", "done"}]
        /\ \A k \in Keys : how'[k] = "done" <=> issue[k].status = "done"
    BY <1>2 DEF IInv, Phases, Classify
  <2>2. TypeOK'
    BY <1>0, <1>1, <1>2, <2>1 DEF TypeOK, Classify, SlotCount
  <2>3. Phases'
    BY <1>1, <1>2, <2>1 DEF Phases, Classify
  <2>4. \A k \in Keys : how'[k] \notin {"active", "queued"}
    BY <2>1
  <2>5. BusyAhead' /\ NoDoubleBooking'
    BY <1>1, <2>4, NothingPlaced
  <2>6. QED BY <2>2, <2>3, <2>5 DEF IInv
<1>3. CASE ActiveEnd \/ SortEnd \/ TakeFree \/ CycleEnd \/ PlaceEnd
           \/ \E k \in Keys : Pop(k) \/ TakeCyclic(k)
  <2>1. UNCHANGED <<how, unfit>>
    BY <1>3 DEF ActiveEnd, SortEnd, TakeFree, CycleEnd, PlaceEnd, Pop, TakeCyclic
  <2>2. BusyAhead' /\ NoDoubleBooking'
    BY <1>1, <2>1, NothingPlaced
  <2>3. order' \in Seq(Keys) /\ cut' \in Seq(Keys)
    <3>1. order \in Seq(Keys) /\ cut \in Seq(Keys)
      BY <1>0 DEF TypeOK
    <3>2. CASE ActiveEnd \/ SortEnd \/ PlaceEnd
      BY <3>1, <3>2 DEF ActiveEnd, SortEnd, PlaceEnd
    <3>3. CASE \E k \in Keys : Pop(k) \/ TakeCyclic(k)
      <4>1. PICK k \in Keys : Pop(k) \/ TakeCyclic(k)
        BY <3>3
      <4>2. \/ order' = Append(order, k) /\ cut' = cut
            \/ cut' = Append(cut, k) /\ order' = order
        BY <4>1 DEF Pop, TakeCyclic
      <4>3. Append(order, k) \in Seq(Keys) /\ Append(cut, k) \in Seq(Keys)
        BY <3>1, AppendProperties
      <4>4. QED BY <3>1, <4>2, <4>3
    <3>4. CASE CycleEnd
      BY <3>1, <3>4, ConcatProperties DEF CycleEnd
    <3>5. CASE TakeFree
      <4>1. FreeOfCycle \subseteq Keys
        BY DEF FreeOfCycle, Left
      <4>2. Cardinality(FreeOfCycle) \in Nat
        BY <4>1, FS_Subset, FS_CardinalityType
      <4>3. PICK s \in [1 .. Cardinality(FreeOfCycle) -> FreeOfCycle] : cut' = cut \o s
        BY <3>5 DEF TakeFree
      <4>4. s \in Seq(Keys)
        <5>1. \A n \in Nat : \A f \in [1 .. n -> Keys] : f \in Seq(Keys)
          OBVIOUS
        <5>2. s \in [1 .. Cardinality(FreeOfCycle) -> Keys]
          BY <4>1, <4>3
        <5>3. QED BY <4>2, <5>1, <5>2
      <4>5. cut' \in Seq(Keys)
        BY <3>1, <4>3, <4>4, ConcatProperties
      <4>6. QED BY <3>1, <3>5, <4>5 DEF TakeFree
    <3>6. QED BY <1>3, <3>2, <3>3, <3>4, <3>5
  <2>4. TypeOK'
    BY <1>0, <1>1, <1>3, <2>1, <2>3
    DEF TypeOK, SlotCount, ActiveEnd, SortEnd, TakeFree, CycleEnd, PlaceEnd, Pop, TakeCyclic
  <2>5. Phases'
    <3>1. CASE CycleEnd
      <4>1. \A k \in Keys : Waiting(k) => k \in Range(order) \union Range(cut)
        BY <3>1 DEF CycleEnd, NothingLeft, Left
      <4>2. Range(order) \union Range(cut) \subseteq Range(order')
        BY <1>0, <3>1, RangeOfConcat DEF CycleEnd, TypeOK
      <4>3. QED BY <1>1, <2>1, <3>1, <4>1, <4>2 DEF IInv, Phases, CycleEnd, Waiting
    <3>2. CASE PlaceEnd
      <4>1. Range(order) = {}
        BY <3>2 DEF PlaceEnd, Range
      <4>2. QED BY <1>1, <2>1, <3>2, <4>1 DEF IInv, Phases, PlaceEnd, Waiting
    <3>3. CASE ActiveEnd \/ SortEnd \/ TakeFree \/ \E k \in Keys : Pop(k) \/ TakeCyclic(k)
      <4>1. pc' \in {"sort", "cycle", "failed"} /\ pc # "classify"
        BY <3>3 DEF ActiveEnd, SortEnd, TakeFree, Pop, TakeCyclic
      <4>2. QED BY <1>1, <2>1, <4>1 DEF IInv, Phases
    <3>4. QED BY <1>3, <3>1, <3>2, <3>3
  <2>6. QED BY <2>2, <2>4, <2>5 DEF IInv
<1>4. QED BY <1>2, <1>3

\* The main pass: the issue at the head of the order waits no longer.
LEMMA PlaceNextStep ==
  ASSUME IInv, PlaceNext
  PROVE  IInv'
<1> DEFINE k == Head(order)
<1>0. /\ TypeOK /\ pc = "place" /\ order \in Seq(Keys) /\ order # <<>>
      /\ UNCHANGED <<input, pc, cut>> /\ order' = Tail(order)
  BY DEF IInv, PlaceNext, TypeOK
<1>1. k \in Keys /\ order' \in Seq(Keys)
  BY <1>0, HeadTailProperties
<1>2. \A j \in Keys : Waiting(j) => j = k \/ j \in Range(order')
  BY <1>0, RangeOfTail DEF IInv, Phases
<1> HIDE DEF k
<1>3. CASE UNCHANGED <<how, start, slotAt, busyTill>> /\ unfit' \in {unfit, unfit \union {k}}
           /\ (Waiting(k) => unfit' = unfit \union {k})
           /\ (unfit' # unfit => Waiting(k))
  <2>1. TypeOK'
    BY <1>0, <1>1, <1>3 DEF TypeOK, SlotCount, input
  <2>2. Phases'
    BY <1>0, <1>2, <1>3 DEF IInv, Phases, Waiting, input
  <2>3. BusyAhead' /\ NoDoubleBooking'
    BY <1>0, <1>3, NothingPlaced DEF input
  <2>4. QED BY <2>1, <2>2, <2>3 DEF IInv
<1>4. ASSUME NEW t \in Nat, Waiting(k), Place(k, t, "queued"),
             KeepBusyTill(k, t + 2 * issue[k].points),
             issue[k].assignee # NoOne => busyTill[Lane(k)][issue[k].assignee] <= t,
             DOMAIN slotAt' = Lanes,
             \A l \in Lanes : slotAt'[l] \in [1 .. SlotCount(mode, l) -> Nat]
      PROVE  IInv'
  <2>1. TypeOK'
    BY <1>0, <1>1, <1>4, PlaceType DEF TypeOK, SlotCount, input
  <2>2. Phases'
    <3>1. how'[k] = "queued" /\ \A j \in Keys \ {k} : how'[j] = how[j]
      BY <1>0, <1>1, <1>4 DEF Place, TypeOK
    <3>2. how[k] = "open" /\ k \notin unfit /\ unfit' = unfit
      BY <1>4 DEF Waiting, Place
    <3>3. issue[k].status # "done"
      BY <1>0, <1>1, <3>2 DEF IInv, Phases
    <3>4. QED BY <1>0, <1>2, <3>1, <3>2, <3>3 DEF IInv, Phases, Waiting, input
  <2>3. BusyAhead' /\ NoDoubleBooking'
    BY <1>0, <1>1, <1>4, Placed
  <2>4. QED BY <2>1, <2>2, <2>3 DEF IInv
<1>5. CASE Waiting(k) /\ PlaceBehindOwnWork(k)
  <2> DEFINE times == {Anchor, busyTill[Lane(k)][issue[k].assignee]} \union DepEnds(k)
  <2>1. PICK t \in times : /\ Latest(t, times) /\ Place(k, t, "queued")
                           /\ KeepBusyTill(k, t + 2 * issue[k].points)
    BY <1>5 DEF PlaceBehindOwnWork
  <2>2. issue[k].assignee # NoOne /\ UNCHANGED slotAt
    BY <1>5 DEF PlaceBehindOwnWork, IsBusy
  <2>3. busyTill[Lane(k)][issue[k].assignee] \in Nat \union {Free}
    BY <1>0, <1>1, <2>2, Input DEF TypeOK
  <2>4. busyTill[Lane(k)][issue[k].assignee] <= t /\ Anchor <= t
    BY <2>1 DEF Latest
  <2>5. t \in Nat
    BY <1>0, <1>1, <2>1, <2>3, <2>4, EndsAreTimes DEF Free
  <2>6. QED BY <1>0, <1>4, <1>5, <2>1, <2>2, <2>4, <2>5 DEF TypeOK
<1>6. CASE Waiting(k) /\ PlaceOnSlot(k)
  <2>1. PICK i \in 1 .. SlotCount(mode, Lane(k)) :
            \E t \in {Anchor, slotAt[Lane(k)][i]} \union DepEnds(k) :
                /\ Place(k, t, "queued")
                /\ OccupySlot(Lane(k), i, t + 2 * issue[k].points)
                /\ KeepBusyTill(k, t + 2 * issue[k].points)
    BY <1>6 DEF PlaceOnSlot
  <2>2. PICK t \in {Anchor, slotAt[Lane(k)][i]} \union DepEnds(k) :
            /\ Place(k, t, "queued")
            /\ OccupySlot(Lane(k), i, t + 2 * issue[k].points)
            /\ KeepBusyTill(k, t + 2 * issue[k].points)
    BY <2>1
  <2>3. Lane(k) \in Lanes
    BY <1>0, <1>1, Input
  <2>4. slotAt[Lane(k)][i] \in Nat
    BY <1>0, <2>1, <2>3 DEF TypeOK
  <2>5. t \in Nat
    BY <1>0, <1>1, <2>2, <2>4, EndsAreTimes
  <2>6. issue[k].assignee # NoOne => busyTill[Lane(k)][issue[k].assignee] <= t
    <3>1. issue[k].assignee # NoOne => busyTill[Lane(k)][issue[k].assignee] = Free
      BY <1>6 DEF PlaceOnSlot, IsBusy
    <3>2. Free <= t
      BY <2>5 DEF Free
    <3>3. QED BY <3>1, <3>2
  <2>7. t + 2 * issue[k].points \in Nat
    <3>1. issue[k].points \in Nat
      BY <1>0, <1>1, Input
    <3>2. QED BY <2>5, <3>1
  <2>8. DOMAIN slotAt' = Lanes /\ \A l \in Lanes : slotAt'[l] \in [1 .. SlotCount(mode, l) -> Nat]
    <3>1. /\ DOMAIN slotAt = Lanes
          /\ \A l \in Lanes : slotAt[l] \in [1 .. SlotCount(mode, l) -> Nat]
      BY <1>0 DEF TypeOK
    <3> DEFINE end == t + 2 * issue[k].points
    <3>2. end \in Nat /\ slotAt' = [slotAt EXCEPT ![Lane(k)][i] = end]
      BY <2>2, <2>7 DEF OccupySlot
    <3> HIDE DEF end
    <3>3. QED BY <2>1, <2>3, <3>1, <3>2
  <2>9. QED BY <1>4, <1>6, <2>2, <2>5, <2>6, <2>8
<1>7. QED BY <1>3, <1>5, <1>6 DEF PlaceNext, Refuse, k

-----------------------------------------------------------------------------
(* The theorems                                                            *)

LEMMA StepIInv == IInv /\ [Next]_vars => IInv'
<1> SUFFICES ASSUME IInv, [Next]_vars PROVE IInv'
  OBVIOUS
<1>1. CASE UNCHANGED vars
  <2>1. TypeOK' /\ Phases'
    BY <1>1 DEF IInv, TypeOK, Phases, Waiting, vars, SlotCount
  <2>2. BusyAhead' /\ NoDoubleBooking'
    BY <1>1, NothingPlaced DEF vars
  <2>3. QED BY <2>1, <2>2 DEF IInv
<1>2. CASE \E k \in Keys : PlaceActive(k)
  BY <1>2, ActiveStep
<1>3. CASE PlaceNext
  BY <1>3, PlaceNextStep
<1>4. CASE \/ Classify \/ ActiveEnd \/ SortEnd \/ TakeFree \/ CycleEnd \/ PlaceEnd
           \/ \E k \in Keys : Pop(k) \/ TakeCyclic(k)
  BY <1>4, SortSteps
<1>5. QED BY <1>1, <1>2, <1>3, <1>4 DEF Next

LEMMA Invariant == Spec => []IInv
<1>1. Init => IInv
  BY InitIInv
<1>2. IInv /\ [Next]_vars => IInv'
  BY StepIInv
<1>3. QED BY <1>1, <1>2, PTL DEF Spec

\* Type correctness for any issues, graphs, teams and slots.
THEOREM TypeCorrect == Spec => []TypeOK
<1>1. IInv => TypeOK
  BY DEF IInv
<1>2. QED BY <1>1, Invariant, PTL

\* No assignee is booked for two issues of the main pass, or for one and the
\* assignee's only issue in progress, at the same time in a lane.
THEOREM NobodyDoubleBooked == Spec => []NoDoubleBooking
<1>1. IInv => NoDoubleBooking
  BY DEF IInv
<1>2. QED BY <1>1, Invariant, PTL

\* When the call returns, every issue is on the timeline or unschedulable.
THEOREM AnsweredExactlyOnce == Spec => []ExactlyOnce
<1>1. IInv => ExactlyOnce
  BY DEF IInv, ExactlyOnce, Phases, Waiting, TypeOK
<1>2. QED BY <1>1, Invariant, PTL

-----------------------------------------------------------------------------
(* The order of the main pass                                              *)

\* Topological sorting puts j before k, and for some k the whole order does.
SortsFirst(j, k) ==
    \/ j \in Prereqs(k)
    \/ Prereqs(j) = {} /\ issue[j].rank < issue[k].rank
Due(j, k) ==
    \/ Clear(k) /\ j \in Prereqs(k)
    \/ Prereqs(j) = {} /\ issue[j].rank < issue[k].rank

Earlier(j, i) == \E m \in 1 .. i - 1 : order[m] = j

\* What is due before an issue stands before it in the order, or waits no
\* longer; and so it is when the issue is put in the queue of its lane.
OrderInv ==
    /\ pc \in {"classify", "active", "sort"} => cut = <<>>
    /\ pc \in {"classify", "active"} => order = <<>>
    /\ pc \in {"sort", "cycle"} =>
          \A i \in DOMAIN order, j \in Keys : SortsFirst(j, order[i]) => Earlier(j, i)
    /\ pc = "cycle" => Ready = {} /\ Range(cut) \intersect Range(order) = {}
    /\ pc = "place" =>
          \A i \in DOMAIN order, j \in Keys :
              Due(j, order[i]) => ~Waiting(j) \/ Earlier(j, i)
    /\ \A j, k \in Keys : how[k] = "queued" /\ Due(j, k) => ~Waiting(j)

\* An issue for anyone that waits for nothing starts as soon as a slot can
\* be had, so no slot is free again earlier.
StartsSoon ==
    \A j \in Keys : Unassigned(j) /\ Prereqs(j) = {} =>
        \/ start[j] <= Anchor
        \/ \A i \in DOMAIN slotAt[Lane(j)] : start[j] <= slotAt[Lane(j)][i]

\* The issues for anyone can be given slots of their lanes so that those of
\* one slot follow each other, and the slot is taken until the last ends.
Follows(slot) ==
    /\ \A j \in Keys : Unassigned(j) =>
          /\ slot[j] \in 1 .. SlotCount(mode, Lane(j))
          /\ Finish(j) <= slotAt[Lane(j)][slot[j]]
    /\ \A j, k \in Keys :
          /\ Unassigned(j) /\ Unassigned(k) /\ j # k
          /\ Lane(j) = Lane(k) /\ slot[j] = slot[k]
          => Finish(j) <= start[k] \/ Finish(k) <= start[j]
SlotsHeld == \E slot \in [Keys -> Nat] : Follows(slot)

PlacedInv == DependentsFollow /\ PriorityFirst /\ StartsSoon /\ SlotsHeld

FeasibleInv == IInv /\ OrderInv /\ PlacedInv

\* The input stays, and with it what is due before what.
LEMMA SameInput ==
  ASSUME UNCHANGED <<issue, needs>>
  PROVE  /\ \A k : Prereqs(k)' = Prereqs(k) /\ Clear(k)' = Clear(k)
         /\ \A j, k : Due(j, k)' = Due(j, k) /\ SortsFirst(j, k)' = SortsFirst(j, k)
<1>1. \A k : Prereqs(k)' = Prereqs(k)
  BY DEF Prereqs
<1>2. \A S : Acyclic(S)' = Acyclic(S)
  BY <1>1 DEF Acyclic
<1>3. \A k : Clear(k)' = Clear(k)
  BY <1>1, <1>2 DEF Clear
<1>4. \A j, k : Due(j, k)' = Due(j, k)
  BY <1>1, <1>3 DEF Due
<1>5. \A j, k : SortsFirst(j, k)' = SortsFirst(j, k)
  BY <1>1 DEF SortsFirst
<1>6. QED BY <1>1, <1>3, <1>4, <1>5

\* What the sort leaves over is on a cycle or behind one.
LEMMA ClearIsSorted ==
  ASSUME Ready = {}, NEW k \in Keys, Clear(k)
  PROVE  k \in Range(order)
<1> SUFFICES ASSUME k \notin Range(order) PROVE FALSE
  OBVIOUS
<1>1. PICK S \in SUBSET Keys :
          k \in S /\ Acyclic(S) /\ \A j \in S : Prereqs(j) \subseteq S
  BY DEF Clear
<1>2. PICK T \in SUBSET S : T = S \ Range(order)
  OBVIOUS
<1>3. PICK j \in T : Prereqs(j) \intersect T = {}
  BY <1>1, <1>2 DEF Acyclic
<1>4. j \in Ready
  BY <1>1, <1>2, <1>3 DEF Ready
<1>5. QED BY <1>4

LEMMA RangeOfSequences ==
  ASSUME NEW S, NEW s \in Seq(S), NEW t \in Seq(S)
  PROVE  /\ Range(s) \subseteq S
         /\ Range(s \o t) = Range(s) \union Range(t)
<1>1. s \o t \in Seq(S) /\ Len(s \o t) = Len(s) + Len(t)
  BY ConcatProperties
<1>2. Range(s) \subseteq S
  BY ElementOfSeq DEF Range
<1>3. ASSUME NEW x \in Range(s \o t) PROVE x \in Range(s) \union Range(t)
  <2>1. PICK i \in 1 .. Len(s) + Len(t) : x = (s \o t)[i]
    BY <1>1 DEF Range
  <2>2. CASE i <= Len(s)
    <3>1. i \in DOMAIN s /\ x = s[i]
      BY <2>1, <2>2, ConcatProperties
    <3>2. QED BY <3>1 DEF Range
  <2>3. CASE i > Len(s)
    <3>1. i - Len(s) \in DOMAIN t /\ x = t[i - Len(s)]
      BY <2>1, <2>3, ConcatProperties
    <3>2. QED BY <3>1 DEF Range
  <2>4. QED BY <2>2, <2>3
<1>4. QED BY <1>2, <1>3, RangeOfConcat

\* The issue popped is the first of those that wait for nothing unsorted.
LEMMA PopOrders ==
  ASSUME IInv, OrderInv, NEW k \in Keys, Pop(k)
  PROVE  OrderInv'
<1>1. /\ order \in Seq(Keys) /\ pc = "sort" /\ pc' \in {"sort", "failed"}
      /\ UNCHANGED <<issue, needs, mode, how, unfit, cut>>
      /\ order' = Append(order, k) /\ k \in Ready /\ \A j \in Ready \ {k} : Before(k, j)
  BY DEF Pop, IInv, TypeOK, input
<1>2. /\ DOMAIN order' = 1 .. Len(order) + 1 /\ order'[Len(order) + 1] = k
      /\ \A i \in 1 .. Len(order) : order'[i] = order[i]
      /\ Len(order) \in Nat
  BY <1>1, AppendProperties
<1>3. \A j \in Range(order) : \E m \in 1 .. Len(order) : order'[m] = j
  BY <1>1, <1>2 DEF Range
<1>4. ASSUME NEW j \in Keys, SortsFirst(j, k) PROVE j \in Range(order)
  <2>1. CASE j \in Prereqs(k)
    BY <1>1, <2>1 DEF Ready
  <2>2. CASE Prereqs(j) = {} /\ issue[j].rank < issue[k].rank
    <3>1. issue[j].rank \in Nat /\ issue[k].rank \in Nat
      BY Input DEF IInv, Issue
    <3>2. ~Before(k, j) /\ j # k
      BY <2>2, <3>1 DEF Before
    <3>3. QED BY <1>1, <2>2, <3>2 DEF Ready
  <2>3. QED BY <1>4, <2>1, <2>2 DEF SortsFirst
<1>5. ASSUME NEW i \in DOMAIN order', NEW j \in Keys, SortsFirst(j, order'[i])
      PROVE  Earlier(j, i)'
  <2>1. CASE i = Len(order) + 1
    <3>1. j \in Range(order)
      BY <1>2, <1>4, <1>5, <2>1
    <3>2. PICK m \in 1 .. Len(order) : order'[m] = j
      BY <1>3, <3>1
    <3>3. QED BY <1>2, <2>1, <3>2 DEF Earlier
  <2>2. CASE i # Len(order) + 1
    <3>1. i \in DOMAIN order /\ i \in 1 .. Len(order) /\ order'[i] = order[i]
      BY <1>1, <1>2, <2>2
    <3>2. PICK m \in 1 .. i - 1 : order[m] = j
      BY <1>1, <1>5, <3>1 DEF OrderInv, Earlier
    <3>3. m \in 1 .. Len(order)
      BY <1>2, <3>1, <3>2
    <3>4. QED BY <1>2, <3>2, <3>3 DEF Earlier
  <2>3. QED BY <2>1, <2>2
<1>6. \A j : Waiting(j)' = Waiting(j)
  BY <1>1 DEF Waiting
<1>7. QED BY <1>1, <1>5, <1>6, SameInput DEF OrderInv

\* The issues cut out of cycles come behind those that were sorted.
LEMMA CycleEndOrders ==
  ASSUME IInv, OrderInv, CycleEnd
  PROVE  OrderInv'
<1>1. /\ order \in Seq(Keys) /\ cut \in Seq(Keys) /\ pc = "cycle" /\ pc' = "place"
      /\ UNCHANGED <<issue, needs, mode, how, unfit>> /\ order' = order \o cut
      /\ Ready = {} /\ Range(cut) \intersect Range(order) = {}
  BY DEF CycleEnd, IInv, TypeOK, input, OrderInv
<1>2. /\ DOMAIN order' = 1 .. Len(order) + Len(cut) /\ Len(order) \in Nat /\ Len(cut) \in Nat
      /\ \A i \in 1 .. Len(order) : order'[i] = order[i]
      /\ \A i \in 1 .. Len(order) + Len(cut) :
            i > Len(order) => i - Len(order) \in 1 .. Len(cut)
                              /\ order'[i] = cut[i - Len(order)]
  BY <1>1, ConcatProperties
<1>3. \A j : Waiting(j)' = Waiting(j)
  BY <1>1 DEF Waiting
<1>4. ASSUME NEW i \in DOMAIN order', NEW j \in Keys, Due(j, order'[i])
      PROVE  Earlier(j, i)'
  <2>1. CASE i <= Len(order)
    <3>1. i \in DOMAIN order /\ i \in 1 .. Len(order) /\ order'[i] = order[i]
      BY <1>1, <1>2, <2>1
    <3>2. SortsFirst(j, order[i])
      BY <1>4, <3>1 DEF Due, SortsFirst
    <3>3. PICK m \in 1 .. i - 1 : order[m] = j
      BY <1>1, <3>1, <3>2 DEF OrderInv, Earlier
    <3>4. m \in 1 .. Len(order)
      BY <1>2, <3>1, <3>3
    <3>5. QED BY <1>2, <3>3, <3>4 DEF Earlier
  <2>2. CASE i > Len(order)
    <3>1. i - Len(order) \in 1 .. Len(cut) /\ order'[i] = cut[i - Len(order)]
      BY <1>2, <2>2
    <3>2. order'[i] \in Range(cut) /\ order'[i] \in Keys
      BY <1>1, <3>1, ElementOfSeq DEF Range
    <3>3. ~Clear(order'[i])
      BY <1>1, <3>2, ClearIsSorted
    <3>4. j \in Range(order)
      BY <1>1, <1>4, <3>3 DEF Due, Ready
    <3>5. PICK m \in 1 .. Len(order) : order[m] = j
      BY <1>1, <3>4 DEF Range
    <3>6. m \in 1 .. i - 1 /\ order'[m] = j
      BY <1>2, <2>2, <3>5
    <3>7. QED BY <3>6 DEF Earlier
  <2>3. QED BY <1>2, <2>1, <2>2
<1>5. QED BY <1>1, <1>3, <1>4, SameInput DEF OrderInv

\* The other steps before the main pass, and its end.
LEMMA SetUpOrders ==
  ASSUME IInv, OrderInv, IInv',
         \/ Classify \/ ActiveEnd \/ SortEnd \/ TakeFree \/ PlaceEnd
         \/ \E k \in Keys : PlaceActive(k) \/ TakeCyclic(k)
  PROVE  OrderInv'
<1>1. /\ UNCHANGED <<issue, needs, mode, order>>
      /\ order \in Seq(Keys) /\ cut \in Seq(Keys)
  BY DEF Classify, ActiveEnd, SortEnd, TakeFree, PlaceEnd, PlaceActive, TakeCyclic, input,
         IInv, TypeOK
<1>2. CASE Classify \/ \E k \in Keys : PlaceActive(k)
  <2>1. pc' = "active" /\ cut' = cut /\ pc \in {"classify", "active"}
    BY <1>2 DEF Classify, PlaceActive
  <2>2. \A k \in Keys : how'[k] # "queued"
    BY <2>1 DEF IInv, Phases
  <2>3. QED BY <1>1, <2>1, <2>2 DEF OrderInv
<1>3. ASSUME UNCHANGED <<how, unfit>>
      PROVE  \A j, k \in Keys : how'[k] = "queued" /\ Due(j, k)' => ~Waiting(j)'
  <2>1. \A j : Waiting(j)' = Waiting(j)
    BY <1>3 DEF Waiting
  <2>2. QED BY <1>1, <1>3, <2>1, SameInput DEF OrderInv
<1>4. CASE ActiveEnd
  <2>1. order' = <<>> /\ cut' = cut /\ pc = "active" /\ pc' = "sort" /\ UNCHANGED <<how, unfit>>
    BY <1>1, <1>4 DEF ActiveEnd, OrderInv
  <2>2. DOMAIN order' = {}
    BY <2>1
  <2>3. QED BY <1>3, <2>1, <2>2 DEF OrderInv
<1>5. CASE PlaceEnd
  <2>1. pc' = "end" /\ UNCHANGED <<how, unfit>>
    BY <1>5 DEF PlaceEnd
  <2>2. QED BY <1>3, <2>1 DEF OrderInv
<1>6. ASSUME pc \in {"sort", "cycle"}
      PROVE  \A i \in DOMAIN order', j \in Keys : (SortsFirst(j, order[i]) => Earlier(j, i))'
  <2>1. \A i, j : Earlier(j, i)' = Earlier(j, i)
    BY <1>1 DEF Earlier
  <2>2. \A i \in DOMAIN order, j \in Keys : SortsFirst(j, order[i]) => Earlier(j, i)
    BY <1>6 DEF OrderInv
  <2>3. order' = order /\ \A j, k : SortsFirst(j, k)' = SortsFirst(j, k)
    BY <1>1, SameInput
  <2>4. QED BY <2>1, <2>2, <2>3
<1>7. CASE SortEnd
  <2>1. /\ pc = "sort" /\ pc' = "cycle" /\ Ready = {} /\ cut' = <<>>
        /\ UNCHANGED <<how, unfit>>
    BY <1>7 DEF SortEnd, OrderInv
  <2>2. Ready' = {} /\ Range(cut') = {}
    BY <1>1, <2>1, SameInput DEF Ready, Range
  <2>3. QED BY <1>3, <1>6, <2>1, <2>2 DEF OrderInv
<1>8. CASE TakeFree \/ \E k \in Keys : TakeCyclic(k)
  <2>1. pc = "cycle" /\ pc' = "cycle" /\ UNCHANGED <<how, unfit>>
    BY <1>8 DEF TakeFree, TakeCyclic
  <2>2. Ready' = {}
    BY <1>1, <2>1, SameInput DEF Ready, OrderInv
  <2>3. \E s \in Seq(Left) : cut' = cut \o s
    <3>1. CASE TakeFree
      <4>1. FreeOfCycle \subseteq Left /\ FreeOfCycle \subseteq Keys
        BY DEF FreeOfCycle, Left
      <4>2. Cardinality(FreeOfCycle) \in Nat
        BY <4>1, FS_Subset, FS_CardinalityType
      <4>3. PICK s \in [1 .. Cardinality(FreeOfCycle) -> FreeOfCycle] : cut' = cut \o s
        BY <3>1 DEF TakeFree
      <4>4. \A n \in Nat : \A f \in [1 .. n -> Left] : f \in Seq(Left)
        OBVIOUS
      <4>5. s \in [1 .. Cardinality(FreeOfCycle) -> Left]
        BY <4>1, <4>3
      <4>6. s \in Seq(Left)
        BY <4>2, <4>4, <4>5
      <4>7. QED BY <4>3, <4>6
    <3>2. CASE \E k \in Keys : TakeCyclic(k)
      <4>1. PICK k \in Left : cut' = Append(cut, k)
        BY <3>2 DEF TakeCyclic
      <4>2. <<k>> \in Seq(Left) /\ cut' = cut \o <<k>>
        BY <1>1, <4>1, AppendIsConcat
      <4>3. QED BY <4>2
    <3>3. QED BY <1>8, <3>1, <3>2
  <2>4. PICK s \in Seq(Left) : cut' = cut \o s
    BY <2>3
  <2>5. s \in Seq(Keys) /\ Range(s) \subseteq Left
    <3>1. Left \subseteq Keys
      BY DEF Left
    <3>2. Range(s) \subseteq Left
      BY ElementOfSeq DEF Range
    <3>3. s \in [1 .. Len(s) -> Keys] /\ Len(s) \in Nat
      <4>1. s \in [1 .. Len(s) -> Left] /\ Len(s) \in Nat
        BY LenProperties
      <4>2. QED BY <3>1, <4>1
    <3>4. s \in Seq(Keys)
      BY <3>3
    <3>5. QED BY <3>2, <3>4
  <2>6. Range(cut') = Range(cut) \union Range(s)
    BY <1>1, <2>4, <2>5, RangeOfSequences
  <2>7. Range(cut') \intersect Range(order) = {}
    BY <2>1, <2>5, <2>6 DEF OrderInv, Left
  <2>8. QED BY <1>1, <1>3, <1>6, <2>1, <2>2, <2>7 DEF OrderInv
<1>9. QED BY <1>2, <1>4, <1>5, <1>7, <1>8

\* The head of the order leaves it and waits no longer.
LEMMA PlaceOrders ==
  ASSUME IInv, OrderInv, PlaceNext, NEW k, k = Head(order)
  PROVE  /\ OrderInv'
         /\ k \in Keys
         /\ \A j \in Keys : Due(j, k) => ~Waiting(j)
<1>1. /\ TypeOK /\ pc = "place" /\ pc' = "place" /\ order \in Seq(Keys) /\ order # <<>>
      /\ UNCHANGED <<issue, needs, mode, cut>> /\ order' = Tail(order)
  BY DEF IInv, PlaceNext, TypeOK, input
<1>2. /\ k \in Keys /\ order' \in Seq(Keys) /\ k = order[1] /\ 1 \in DOMAIN order
      /\ Len(order) \in Nat /\ DOMAIN order = 1 .. Len(order)
      /\ Len(order') = Len(order) - 1 /\ DOMAIN order' = 1 .. Len(order) - 1
      /\ \A i \in 1 .. Len(order) - 1 : order'[i] = order[i + 1]
  BY <1>1, HeadTailProperties
<1>3. \A j \in Keys : Due(j, k) => ~Waiting(j)
  <2> SUFFICES ASSUME NEW j \in Keys, Due(j, k) PROVE ~Waiting(j)
    OBVIOUS
  <2>1. ~Earlier(j, 1)
    BY DEF Earlier
  <2>2. QED BY <1>1, <1>2, <2>1 DEF OrderInv
<1>4. /\ ~Waiting(k)'
      /\ \A j \in Keys \ {k} : how'[j] = how[j] /\ Waiting(j)' = Waiting(j)
      /\ how'[k] = "queued" \/ how'[k] = how[k]
  <2>1. how \in [Keys -> {"open", "done", "active", "queued"}]
    BY <1>1 DEF TypeOK
  <2>2. CASE ~Waiting(k) /\ UNCHANGED <<how, unfit>>
    BY <2>2 DEF Waiting
  <2>3. CASE UNCHANGED how /\ unfit' = unfit \union {k}
    BY <2>3 DEF Waiting
  <2>4. CASE \E t : Place(k, t, "queued")
    BY <1>2, <2>1, <2>4 DEF Place, Waiting
  <2>5. QED BY <2>2, <2>3, <2>4 DEF PlaceNext, Refuse, PlaceBehindOwnWork, PlaceOnSlot
<1>5. ASSUME NEW i \in DOMAIN order', NEW j \in Keys, Due(j, order'[i]), Waiting(j)'
      PROVE  Earlier(j, i)'
  <2>1. i + 1 \in DOMAIN order /\ order[i + 1] = order'[i] /\ i \in Nat
    BY <1>2
  <2>2. j # k /\ Waiting(j)
    BY <1>4, <1>5
  <2>3. PICK m \in 1 .. (i + 1) - 1 : order[m] = j
    BY <1>1, <1>5, <2>1, <2>2 DEF OrderInv, Earlier
  <2>4. m - 1 \in 1 .. i - 1 /\ m - 1 \in 1 .. Len(order) - 1
    BY <1>2, <2>1, <2>2, <2>3
  <2>5. order'[m - 1] = j
    BY <1>2, <2>3, <2>4
  <2>6. QED BY <2>4, <2>5 DEF Earlier
<1>6. ASSUME NEW i \in Keys, NEW j \in Keys, how'[j] = "queued", Due(i, j)
      PROVE  ~Waiting(i)'
  <2>1. ~Waiting(i)
    BY <1>3, <1>4, <1>6 DEF OrderInv
  <2>2. QED BY <1>4, <2>1
<1>7. OrderInv'
  BY <1>1, <1>5, <1>6, SameInput DEF OrderInv
<1>8. QED BY <1>2, <1>3, <1>7

-----------------------------------------------------------------------------
(* The times of the main pass                                              *)

\* Before the main pass nothing is in the queue of a lane.
LEMMA NoneQueued ==
  ASSUME \A k \in Keys : how'[k] # "queued"
  PROVE  PlacedInv'
<1>1. DependentsFollow' /\ PriorityFirst' /\ StartsSoon'
  BY DEF DependentsFollow, PriorityFirst, StartsSoon, Unassigned
<1>2. SlotsHeld'
  <2>1. [k \in Keys |-> 0] \in [Keys -> Nat]
    OBVIOUS
  <2>2. \A slot : Follows(slot)'
    BY DEF Follows, Unassigned
  <2>3. QED BY <2>1, <2>2 DEF SlotsHeld
<1>3. QED BY <1>1, <1>2 DEF PlacedInv

\* Steps that place nothing.
LEMMA SameTimes ==
  ASSUME PlacedInv, UNCHANGED <<issue, needs, mode, how, start, slotAt>>,
         unfit \subseteq unfit'
  PROVE  PlacedInv'
<1>1. \A k : /\ Lane(k)' = Lane(k) /\ Finish(k)' = Finish(k) /\ Unassigned(k)' = Unassigned(k)
             /\ Length(k)' = Length(k)
  BY DEF Lane, Finish, Length, Unassigned
<1>2. \A k : Prereqs(k)' = Prereqs(k) /\ Clear(k)' = Clear(k)
  BY SameInput
<1>3. DependentsFollow'
  BY <1>1, <1>2 DEF PlacedInv, DependentsFollow, DayOf
<1>4. PriorityFirst'
  BY <1>1, <1>2 DEF PlacedInv, PriorityFirst
<1>5. StartsSoon'
  BY <1>1, <1>2 DEF PlacedInv, StartsSoon
<1>6. SlotsHeld'
  <2>1. PICK slot \in [Keys -> Nat] : Follows(slot)
    BY DEF PlacedInv, SlotsHeld
  <2>2. \A l : SlotCount(mode, l)' = SlotCount(mode, l)
    BY DEF SlotCount
  <2>3. Follows(slot)'
    BY <1>1, <2>1, <2>2 DEF Follows
  <2>4. QED BY <2>3 DEF SlotsHeld
<1>7. QED BY <1>3, <1>4, <1>5, <1>6 DEF PlacedInv

\* An issue is placed after what it waits for and after today, at the time a
\* slot can be had when it is for anyone; the slots are taken for longer only.
LEMMA QueuedPlaced ==
  ASSUME IInv, OrderInv, PlacedInv, NEW k \in Keys, NEW t \in Nat, Waiting(k),
         \A j \in Keys : Due(j, k) => ~Waiting(j),
         UNCHANGED input, Place(k, t, "queued"),
         Anchor <= t, \A u \in DepEnds(k) : u <= t,
         DOMAIN slotAt' = Lanes,
         \A l \in Lanes : slotAt'[l] \in [1 .. SlotCount(mode, l) -> Nat],
         \A l \in Lanes : \A i \in 1 .. SlotCount(mode, l) : slotAt[l][i] <= slotAt'[l][i],
         NEW n,
         issue[k].assignee = NoOne =>
             /\ n \in 1 .. SlotCount(mode, Lane(k))
             /\ slotAt[Lane(k)][n] <= t /\ t + 2 * issue[k].points <= slotAt'[Lane(k)][n]
             /\ Prereqs(k) = {} =>
                   t = Anchor \/ \A i \in 1 .. SlotCount(mode, Lane(k)) : t <= slotAt[Lane(k)][i]
  PROVE  PlacedInv'
<1>0. /\ TypeOK /\ UNCHANGED <<issue, needs, mode, unfit>>
      /\ how \in [Keys -> {"open", "done", "active", "queued"}] /\ start \in [Keys -> Nat]
      /\ how' = [how EXCEPT ![k] = "queued"] /\ start' = [start EXCEPT ![k] = t]
      /\ how[k] = "open" /\ k \notin unfit
  BY DEF IInv, TypeOK, input, Place, Waiting
<1>1. /\ \A j : Lane(j)' = Lane(j) /\ \A l : SlotCount(mode, l)' = SlotCount(mode, l)
      /\ \A j : Prereqs(j)' = Prereqs(j) /\ Clear(j)' = Clear(j)
  BY <1>0, SameInput DEF Lane, SlotCount
<1>2. /\ how'[k] = "queued" /\ start'[k] = t /\ Length(k)' = 2 * issue[k].points
      /\ Finish(k)' = t + 2 * issue[k].points
  BY <1>0 DEF Finish, Length
<1>3. \A j \in Keys \ {k} : /\ how'[j] = how[j] /\ start'[j] = start[j]
                            /\ Length(j)' = Length(j) /\ Finish(j)' = Finish(j)
                            /\ Unassigned(j)' = Unassigned(j)
  BY <1>0 DEF Finish, Length, Unassigned
<1>4. \A j \in Keys : /\ Lane(j) \in Lanes /\ Finish(j) \in Nat /\ start[j] \in Nat
                      /\ Length(j) \in Nat /\ issue[j].points \in Nat
  BY <1>0, Input, Lengths
<1>5. \A l \in Lanes : /\ slotAt[l] \in [1 .. SlotCount(mode, l) -> Nat]
                       /\ DOMAIN slotAt[l] = 1 .. SlotCount(mode, l)
                       /\ DOMAIN slotAt'[l] = 1 .. SlotCount(mode, l)
  BY <1>0 DEF TypeOK
<1>6. DependentsFollow'
  <2> SUFFICES ASSUME NEW j \in Keys, how'[j] = "queued", Clear(j), NEW d \in Prereqs(j)
               PROVE  \/ how'[d] = "open" /\ d \in unfit
                      \/ how'[d] # "open" /\ (DayOf(start[d]) + Length(d))' <= start'[j]
    BY <1>0, <1>1 DEF DependentsFollow
  <2>0. d \in Keys
    BY DEF Prereqs
  <2>1. CASE j = k
    <3>1. ~Waiting(d) /\ d # k
      BY <2>0, <2>1 DEF Due
    <3>2. CASE how[d] = "open"
      BY <1>3, <2>0, <3>1, <3>2 DEF Waiting
    <3>3. CASE how[d] # "open"
      <4>1. DayOf(start[d]) + Length(d) \in DepEnds(k)
        BY <2>1, <3>3 DEF DepEnds
      <4>2. DayOf(start[d]) + Length(d) <= t
        BY <4>1
      <4>3. /\ (DayOf(start[d]) + Length(d))' = DayOf(start[d]) + Length(d)
            /\ how'[d] # "open" /\ start'[j] = t
        BY <1>2, <1>3, <2>0, <2>1, <3>1, <3>3 DEF DayOf
      <4>4. QED BY <4>2, <4>3
    <3>4. QED BY <3>2, <3>3
  <2>2. CASE j # k
    <3>1. how[j] = "queued"
      BY <1>3, <2>2
    <3>2. \/ how[d] = "open" /\ d \in unfit
          \/ how[d] # "open" /\ DayOf(start[d]) + Length(d) <= start[j]
      BY <3>1 DEF PlacedInv, DependentsFollow
    <3>3. d # k
      BY <1>0, <3>2
    <3>4. QED BY <1>3, <2>0, <2>2, <3>2, <3>3 DEF DayOf
  <2>3. QED BY <2>1, <2>2
<1>7. StartsSoon'
  <2> SUFFICES ASSUME NEW j \in Keys, Unassigned(j)', Prereqs(j) = {}
               PROVE  \/ start'[j] <= Anchor
                      \/ \A i \in 1 .. SlotCount(mode, Lane(j)) :
                            start'[j] <= slotAt'[Lane(j)][i]
    BY <1>1, <1>4, <1>5 DEF StartsSoon
  <2>0. \A i \in 1 .. SlotCount(mode, Lane(j)) :
            /\ slotAt[Lane(j)][i] <= slotAt'[Lane(j)][i]
            /\ slotAt[Lane(j)][i] \in Nat /\ slotAt'[Lane(j)][i] \in Nat
    BY <1>4, <1>5
  <2>1. CASE j = k
    <3>1. issue[k].assignee = NoOne
      BY <1>0, <2>1 DEF Unassigned
    <3>2. t = Anchor \/ \A i \in 1 .. SlotCount(mode, Lane(k)) : t <= slotAt[Lane(k)][i]
      BY <2>1, <3>1
    <3>3. QED BY <1>2, <2>0, <2>1, <3>2
  <2>2. CASE j # k
    <3>1. \/ start[j] <= Anchor
          \/ \A i \in 1 .. SlotCount(mode, Lane(j)) : start[j] <= slotAt[Lane(j)][i]
      BY <1>3, <1>4, <1>5, <2>2 DEF PlacedInv, StartsSoon
    <3>2. start'[j] = start[j] /\ start[j] \in Nat
      BY <1>3, <1>4, <2>2
    <3>3. QED BY <2>0, <3>1, <3>2
  <2>3. QED BY <2>1, <2>2
<1>8. PriorityFirst'
  <2> SUFFICES ASSUME NEW i \in Keys, NEW j \in Keys, Unassigned(i)', Unassigned(j)',
                      Lane(i) = Lane(j), issue[i].rank < issue[j].rank, Prereqs(i) = {}
               PROVE  start'[i] <= start'[j]
    BY <1>0, <1>1 DEF PriorityFirst
  <2>0. Due(i, j)
    BY DEF Due
  <2>1. CASE j = k
    <3>1. ~Waiting(i) /\ i # k
      BY <2>0, <2>1
    <3>2. Unassigned(i)
      BY <1>3, <3>1
    <3>3. issue[k].assignee = NoOne
      BY <1>0, <2>1 DEF Unassigned
    <3>4. n \in 1 .. SlotCount(mode, Lane(i)) /\ slotAt[Lane(i)][n] <= t
      BY <2>1, <3>3
    <3>5. start[i] <= Anchor \/ start[i] <= slotAt[Lane(i)][n]
      BY <1>4, <1>5, <3>2, <3>4 DEF PlacedInv, StartsSoon
    <3>6. slotAt[Lane(i)][n] \in Nat
      <4>1. PICK l \in Lanes : l = Lane(i)
        BY <1>4
      <4>2. slotAt[l] \in [1 .. SlotCount(mode, l) -> Nat] /\ n \in 1 .. SlotCount(mode, l)
        BY <1>5, <3>4, <4>1
      <4>3. slotAt[l][n] \in Nat
        BY <4>2
      <4>4. QED BY <4>1, <4>3
    <3>7. start[i] <= t
      BY <1>4, <3>4, <3>5, <3>6
    <3>8. QED BY <1>2, <1>3, <2>1, <3>1, <3>7
  <2>2. CASE j # k
    <3>1. how[j] = "queued" /\ Unassigned(j)
      BY <1>3, <2>2 DEF Unassigned
    <3>2. ~Waiting(i)
      BY <2>0, <3>1 DEF OrderInv
    <3>3. i # k
      BY <3>2
    <3>4. QED BY <1>3, <2>2, <3>1, <3>3 DEF PlacedInv, PriorityFirst
  <2>3. QED BY <2>1, <2>2
<1>9. SlotsHeld'
  <2>1. PICK slot \in [Keys -> Nat] : Follows(slot)
    BY DEF PlacedInv, SlotsHeld
  <2>2. CASE issue[k].assignee # NoOne
    <3>1. ~Unassigned(k)'
      BY <1>0, <2>2 DEF Unassigned
    <3>2. Follows(slot)'
      <4>1. ASSUME NEW j \in Keys, Unassigned(j)'
            PROVE  slot[j] \in 1 .. SlotCount(mode, Lane(j))
                   /\ Finish(j)' <= slotAt'[Lane(j)][slot[j]]
        <5>1. /\ j # k /\ slot[j] \in 1 .. SlotCount(mode, Lane(j))
              /\ Finish(j) <= slotAt[Lane(j)][slot[j]]
          BY <1>3, <2>1, <3>1, <4>1 DEF Follows
        <5>2. /\ slotAt[Lane(j)][slot[j]] \in Nat /\ slotAt'[Lane(j)][slot[j]] \in Nat
              /\ slotAt[Lane(j)][slot[j]] <= slotAt'[Lane(j)][slot[j]]
          BY <1>4, <1>5, <5>1
        <5>3. Finish(j)' = Finish(j) /\ Finish(j) \in Nat
          BY <1>3, <1>4, <5>1
        <5>4. Finish(j)' <= slotAt'[Lane(j)][slot[j]]
          BY <5>1, <5>2, <5>3
        <5>5. QED BY <5>1, <5>4
      <4>2. ASSUME NEW i \in Keys, NEW j \in Keys, Unassigned(i)', Unassigned(j)', i # j,
                   Lane(i) = Lane(j), slot[i] = slot[j]
            PROVE  Finish(i)' <= start'[j] \/ Finish(j)' <= start'[i]
        <5>1. i # k /\ j # k
          BY <3>1, <4>2
        <5>2. QED BY <1>3, <2>1, <4>2, <5>1 DEF Follows
      <4>3. QED BY <1>1, <4>1, <4>2 DEF Follows
    <3>3. QED BY <3>2 DEF SlotsHeld
  <2>3. CASE issue[k].assignee = NoOne
    <3>0. /\ n \in 1 .. SlotCount(mode, Lane(k)) /\ n \in Nat
          /\ slotAt[Lane(k)][n] <= t /\ t + 2 * issue[k].points <= slotAt'[Lane(k)][n]
          /\ slotAt[Lane(k)][n] \in Nat
      <4>1. n \in 1 .. SlotCount(mode, Lane(k)) /\ SlotCount(mode, Lane(k)) \in Nat
        BY <1>0, <1>4, <2>3, SlotCounts
      <4>2. n \in Nat
        BY <4>1
      <4>3. PICK l \in Lanes : l = Lane(k)
        BY <1>4
      <4>4. slotAt[l] \in [1 .. SlotCount(mode, l) -> Nat] /\ n \in 1 .. SlotCount(mode, l)
        BY <1>5, <4>1, <4>3
      <4>5. slotAt[l][n] \in Nat
        BY <4>4
      <4>6. QED BY <2>3, <4>1, <4>2, <4>3, <4>5
    <3> PICK new \in [Keys -> Nat] : new = [slot EXCEPT ![k] = n]
      BY <2>1, <3>0
    <3>1. new[k] = n /\ \A j \in Keys \ {k} : new[j] = slot[j]
      BY <2>1
    <3>2. ASSUME NEW j \in Keys, Unassigned(j)', j # k
          PROVE  /\ new[j] \in 1 .. SlotCount(mode, Lane(j))
                 /\ Finish(j) <= slotAt[Lane(j)][new[j]] /\ Unassigned(j)
      BY <1>3, <2>1, <3>1, <3>2 DEF Follows
    <3>3. ASSUME NEW j \in Keys, Unassigned(j)'
          PROVE  new[j] \in 1 .. SlotCount(mode, Lane(j))
                 /\ Finish(j)' <= slotAt'[Lane(j)][new[j]]
      <4>1. CASE j = k
        BY <1>2, <3>0, <3>1, <4>1
      <4>2. CASE j # k
        <5>1. /\ slotAt[Lane(j)][new[j]] \in Nat /\ slotAt'[Lane(j)][new[j]] \in Nat
              /\ slotAt[Lane(j)][new[j]] <= slotAt'[Lane(j)][new[j]]
          BY <1>4, <1>5, <3>2, <3>3, <4>2
        <5>2. QED BY <1>3, <1>4, <3>2, <3>3, <4>2, <5>1
      <4>3. QED BY <4>1, <4>2
    <3>4. ASSUME NEW j \in Keys, Unassigned(j)', j # k, Lane(j) = Lane(k), new[j] = n
          PROVE  Finish(j)' <= start'[k]
      <4>1. Finish(j) <= slotAt[Lane(k)][n] /\ Finish(j)' = Finish(j)
        BY <1>3, <3>2, <3>4
      <4>2. Finish(j) \in Nat /\ start'[k] = t
        BY <1>2, <1>4
      <4>3. Finish(j) <= t
        BY <3>0, <4>1, <4>2
      <4>4. QED BY <4>1, <4>2, <4>3
    <3>5. ASSUME NEW i \in Keys, NEW j \in Keys, Unassigned(i)', Unassigned(j)', i # j,
                 Lane(i) = Lane(j), new[i] = new[j]
          PROVE  Finish(i)' <= start'[j] \/ Finish(j)' <= start'[i]
      <4>1. CASE i = k
        BY <3>1, <3>4, <3>5, <4>1
      <4>2. CASE j = k
        BY <3>1, <3>4, <3>5, <4>2
      <4>3. CASE i # k /\ j # k
        <5>1. Unassigned(i) /\ Unassigned(j) /\ slot[i] = slot[j]
          BY <3>1, <3>2, <3>5, <4>3
        <5>2. Finish(i) <= start[j] \/ Finish(j) <= start[i]
          BY <2>1, <3>5, <5>1 DEF Follows
        <5>3. QED BY <1>3, <4>3, <5>2
      <4>4. QED BY <4>1, <4>2, <4>3
    <3>6. Follows(new)'
      BY <1>1, <3>3, <3>5 DEF Follows
    <3>7. QED BY <3>6 DEF SlotsHeld
  <2>4. QED BY <2>2, <2>3
<1>10. QED BY <1>6, <1>7, <1>8, <1>9 DEF PlacedInv

\* The head of the order is put in the queue of its lane, or refused.
LEMMA PlaceTimes ==
  ASSUME IInv, OrderInv, PlacedInv, IInv', PlaceNext
  PROVE  PlacedInv'
<1> PICK k : k = Head(order)
  OBVIOUS
<1>1. /\ k \in Keys /\ TypeOK /\ UNCHANGED input
      /\ \A j \in Keys : Due(j, k) => ~Waiting(j)
  BY PlaceOrders DEF IInv, PlaceNext
<1>2. /\ DOMAIN slotAt' = Lanes
      /\ \A l \in Lanes : slotAt'[l] \in [1 .. SlotCount(mode, l) -> Nat]
  BY <1>1 DEF IInv, TypeOK, input, SlotCount
<1>3. /\ DOMAIN slotAt = Lanes
      /\ \A l \in Lanes : slotAt[l] \in [1 .. SlotCount(mode, l) -> Nat]
  BY <1>1 DEF TypeOK
<1>4. \/ UNCHANGED <<how, start, slotAt>> /\ unfit \subseteq unfit'
      \/ Waiting(k) /\ PlaceBehindOwnWork(k)
      \/ Waiting(k) /\ PlaceOnSlot(k)
  BY DEF PlaceNext, Refuse
<1>5. CASE UNCHANGED <<how, start, slotAt>> /\ unfit \subseteq unfit'
  BY <1>1, <1>5, SameTimes DEF input
<1>6. CASE Waiting(k) /\ PlaceBehindOwnWork(k)
  <2> DEFINE times == {Anchor, busyTill[Lane(k)][issue[k].assignee]} \union DepEnds(k)
  <2>1. PICK t \in times : Latest(t, times) /\ Place(k, t, "queued")
    BY <1>6 DEF PlaceBehindOwnWork
  <2>2. issue[k].assignee # NoOne /\ UNCHANGED slotAt
    BY <1>6 DEF PlaceBehindOwnWork, IsBusy
  <2>3. Anchor <= t /\ \A u \in DepEnds(k) : u <= t
    BY <2>1 DEF Latest
  <2>4. t \in Nat
    <3>1. busyTill[Lane(k)][issue[k].assignee] \in Nat \union {Free}
      BY <1>1, <2>2, Input DEF TypeOK
    <3>2. t \in Int
      BY <1>1, <2>1, <3>1, EndsAreTimes DEF Free
    <3>3. QED BY <2>3, <3>2
  <2>5. \A l \in Lanes : \A i \in 1 .. SlotCount(mode, l) : slotAt[l][i] <= slotAt'[l][i]
    <3>1. \A l \in Lanes : \A i \in 1 .. SlotCount(mode, l) : slotAt[l][i] \in Nat
      BY <1>3
    <3>2. QED BY <2>2, <3>1
  <2>6. QED BY <1>1, <1>2, <1>6, <2>1, <2>2, <2>3, <2>4, <2>5, QueuedPlaced
<1>7. CASE Waiting(k) /\ PlaceOnSlot(k)
  <2> PICK l \in Lanes : l = Lane(k)
    BY <1>1, Input
  <2>1. PICK n \in 1 .. SlotCount(mode, l) :
            /\ EarliestSlot(l, n)
            /\ \E t \in {Anchor, slotAt[l][n]} \union DepEnds(k) :
                  /\ Latest(t, {Anchor, slotAt[l][n]} \union DepEnds(k))
                  /\ Place(k, t, "queued")
                  /\ OccupySlot(l, n, t + 2 * issue[k].points)
    BY <1>7 DEF PlaceOnSlot
  <2>2. PICK t \in {Anchor, slotAt[l][n]} \union DepEnds(k) :
            /\ Latest(t, {Anchor, slotAt[l][n]} \union DepEnds(k))
            /\ Place(k, t, "queued")
            /\ OccupySlot(l, n, t + 2 * issue[k].points)
    BY <2>1
  <2>3. Anchor <= t /\ slotAt[l][n] <= t /\ \A u \in DepEnds(k) : u <= t
    BY <2>2 DEF Latest
  <2>4. /\ slotAt[l][n] \in Nat /\ DOMAIN slotAt[l] = 1 .. SlotCount(mode, l)
        /\ \A i \in 1 .. SlotCount(mode, l) : slotAt[l][i] \in Nat
    BY <1>3, <2>1
  <2>5. t \in Nat
    BY <1>1, <2>2, <2>4, EndsAreTimes
  <2> PICK end \in Nat : end = t + 2 * issue[k].points
    BY <1>1, <2>5, Input
  <2>6. /\ slotAt' = [slotAt EXCEPT ![l][n] = end] /\ slotAt'[l][n] = end
        /\ t <= end
    <3>1. slotAt' = [slotAt EXCEPT ![l][n] = end]
      BY <2>2 DEF OccupySlot
    <3>2. issue[k].points \in Nat
      BY <1>1, Input
    <3>3. t <= end
      BY <2>5, <3>2
    <3>4. QED BY <1>3, <2>1, <2>4, <3>1, <3>3
  <2>7. \A m \in Lanes : \A i \in 1 .. SlotCount(mode, m) : slotAt[m][i] <= slotAt'[m][i]
    <3> SUFFICES ASSUME NEW m \in Lanes, NEW i \in 1 .. SlotCount(mode, m)
                 PROVE  slotAt[m][i] <= slotAt'[m][i]
      OBVIOUS
    <3>1. slotAt[m][i] \in Nat
      BY <1>3
    <3>2. CASE m = l /\ i = n
      BY <2>3, <2>5, <2>6, <3>1, <3>2
    <3>3. CASE ~(m = l /\ i = n)
      BY <1>3, <2>6, <3>1, <3>3
    <3>4. QED BY <3>2, <3>3
  <2>8. ASSUME Prereqs(k) = {}
        PROVE  t = Anchor \/ \A i \in 1 .. SlotCount(mode, l) : t <= slotAt[l][i]
    <3>1. DepEnds(k) = {}
      BY <2>8 DEF DepEnds
    <3>2. \A i \in 1 .. SlotCount(mode, l) : slotAt[l][n] <= slotAt[l][i]
      BY <2>1, <2>4 DEF EarliestSlot
    <3>3. QED BY <2>2, <3>1, <3>2
  <2>9. issue[k].assignee = NoOne =>
             /\ n \in 1 .. SlotCount(mode, Lane(k))
             /\ slotAt[Lane(k)][n] <= t /\ t + 2 * issue[k].points <= slotAt'[Lane(k)][n]
             /\ Prereqs(k) = {} =>
                   t = Anchor \/ \A i \in 1 .. SlotCount(mode, Lane(k)) : t <= slotAt[Lane(k)][i]
    BY <2>1, <2>3, <2>6, <2>8
  <2>10. QED BY <1>1, <1>2, <1>7, <2>2, <2>3, <2>5, <2>7, <2>9, QueuedPlaced
<1>8. QED BY <1>4, <1>5, <1>6, <1>7

LEMMA InitFeasible == Init => FeasibleInv
<1> SUFFICES ASSUME Init PROVE FeasibleInv
  OBVIOUS
<1>1. IInv
  BY InitIInv
<1>2. \A k \in Keys : how[k] # "queued"
  BY DEF Init
<1>3. OrderInv
  BY <1>2 DEF Init, OrderInv
<1>4. DependentsFollow /\ PriorityFirst /\ StartsSoon
  BY <1>2 DEF DependentsFollow, PriorityFirst, StartsSoon, Unassigned
<1>5. SlotsHeld
  <2>1. [k \in Keys |-> 0] \in [Keys -> Nat]
    OBVIOUS
  <2>2. \A slot : Follows(slot)
    BY <1>2 DEF Follows, Unassigned
  <2>3. QED BY <2>1, <2>2 DEF SlotsHeld
<1>6. QED BY <1>1, <1>3, <1>4, <1>5 DEF FeasibleInv, PlacedInv

LEMMA StepFeasible == FeasibleInv /\ [Next]_vars => FeasibleInv'
<1> SUFFICES ASSUME FeasibleInv, [Next]_vars PROVE FeasibleInv'
  OBVIOUS
<1>1. IInv /\ OrderInv /\ PlacedInv /\ IInv'
  BY StepIInv DEF FeasibleInv
<1>2. CASE UNCHANGED vars
  <2>1. OrderInv'
    <3>1. \A j : Waiting(j)' = Waiting(j) /\ \A i : Earlier(j, i)' = Earlier(j, i)
      BY <1>2 DEF vars, Waiting, Earlier
    <3>2. Ready' = Ready
      BY <1>2, SameInput DEF vars, Ready
    <3>3. /\ UNCHANGED <<pc, order, cut, how>>
          /\ \A j, k : Due(j, k)' = Due(j, k) /\ SortsFirst(j, k)' = SortsFirst(j, k)
      BY <1>2, SameInput DEF vars
    <3>4. QED BY <1>1, <3>1, <3>2, <3>3 DEF OrderInv
  <2>2. PlacedInv'
    BY <1>1, <1>2, SameTimes DEF vars
  <2>3. QED BY <1>1, <2>1, <2>2 DEF FeasibleInv
<1>3. CASE Classify \/ \E k \in Keys : PlaceActive(k)
  <2>1. OrderInv'
    BY <1>1, <1>3, SetUpOrders
  <2>2. pc' = "active"
    BY <1>3 DEF Classify, PlaceActive
  <2>3. PlacedInv'
    BY <1>1, <2>2, NoneQueued DEF IInv, Phases
  <2>4. QED BY <1>1, <2>1, <2>3 DEF FeasibleInv
<1>4. CASE \/ ActiveEnd \/ SortEnd \/ TakeFree \/ CycleEnd \/ PlaceEnd
           \/ \E k \in Keys : Pop(k) \/ TakeCyclic(k)
  <2>1. OrderInv'
    BY <1>1, <1>4, SetUpOrders, PopOrders, CycleEndOrders
  <2>2. UNCHANGED <<issue, needs, mode, how, start, slotAt, unfit>>
    BY <1>4 DEF ActiveEnd, SortEnd, TakeFree, CycleEnd, PlaceEnd, Pop, TakeCyclic, input
  <2>3. PlacedInv'
    BY <1>1, <2>2, SameTimes
  <2>4. QED BY <1>1, <2>1, <2>3 DEF FeasibleInv
<1>5. CASE PlaceNext
  <2>1. OrderInv'
    BY <1>1, <1>5, PlaceOrders
  <2>2. PlacedInv'
    BY <1>1, <1>5, PlaceTimes
  <2>3. QED BY <1>1, <2>1, <2>2 DEF FeasibleInv
<1>6. QED BY <1>2, <1>3, <1>4, <1>5 DEF Next

\* Issues that run at one time have different slots.
LEMMA RunningHaveSlots ==
  ASSUME TypeOK, SlotsHeld
  PROVE  LaneWithinSlots
<1> SUFFICES ASSUME NEW k \in Keys, Unassigned(k)
             PROVE  Cardinality({j \in Keys : /\ Unassigned(j) /\ Lane(j) = Lane(k)
                                              /\ start[j] <= start[k]
                                              /\ start[k] < Finish(j)})
                    <= SlotCount(mode, Lane(k))
  BY DEF LaneWithinSlots
<1> PICK R : R = {j \in Keys : /\ Unassigned(j) /\ Lane(j) = Lane(k)
                               /\ start[j] <= start[k] /\ start[k] < Finish(j)}
  OBVIOUS
<1>1. PICK slot \in [Keys -> Nat] : Follows(slot)
  BY DEF SlotsHeld
<1>2. PICK c \in Nat \ {0} : c = SlotCount(mode, Lane(k))
  BY Input, SlotCounts
<1>3. \A i, j \in R : slot[i] = slot[j] => i = j
  <2> SUFFICES ASSUME NEW i \in R, NEW j \in R, slot[i] = slot[j], i # j PROVE FALSE
    OBVIOUS
  <2>1. Finish(i) <= start[j] \/ Finish(j) <= start[i]
    BY <1>1 DEF Follows
  <2>2. /\ start[i] <= start[k] /\ start[k] < Finish(i)
        /\ start[j] <= start[k] /\ start[k] < Finish(j)
        /\ start[i] \in Nat /\ start[j] \in Nat /\ start[k] \in Nat
        /\ Finish(i) \in Nat /\ Finish(j) \in Nat
    BY Lengths
  <2>3. QED BY <2>1, <2>2
<1>4. \A j \in R : slot[j] \in 1 .. c
  BY <1>1, <1>2 DEF Follows
<1> PICK f \in [R -> 1 .. c] : f = [j \in R |-> slot[j]]
  BY <1>4
<1>5. f \in Injection(R, 1 .. c)
  BY <1>3 DEF Injection, IsInjective
<1>6. IsFiniteSet(1 .. c) /\ Cardinality(1 .. c) = c
  BY <1>2, FS_Interval
<1>7. Cardinality(R) <= c
  BY <1>5, <1>6, FS_Injection
<1>8. QED BY <1>2, <1>7

\* Whatever the issues and their dependencies: no issue of the main pass that is
\* neither on a cycle nor behind one starts before its prerequisites on the
\* timeline end, their lengths counted from the days they start on; no lane runs
\* more issues for anyone at a time than it has slots; and of two of these the one
\* of higher priority that waits for nothing starts no later.
THEOREM TimelineIsFeasible == Spec => []TimelineFeasible
<1>1. FeasibleInv => TimelineFeasible
  BY RunningHaveSlots DEF FeasibleInv, IInv, PlacedInv, TimelineFeasible
<1>2. QED BY <1>1, InitFeasible, StepFeasible, PTL DEF Spec
=============================================================================
