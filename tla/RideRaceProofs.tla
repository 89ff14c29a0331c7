--------------------------- MODULE RideRaceProofs ---------------------------
(***************************************************************************)
(* Proof that every ride about which no session was overtaken lives the    *)
(* life of RideLifecycle, and that its trips are counted and its fee asked *)
(* for once, for any number of rides, drivers, requests and API instances  *)
(* and without any assumption on how their sessions overlap.               *)
(*                                                                         *)
(* Who may yet write such a ride has a copy that is the row, so its COMMIT *)
(* moves the row along an edge of the life cycle; that is also what makes  *)
(* the others' copies outdated, and the ride contested.                    *)
(***************************************************************************)
EXTENDS RideSystemProofs, RideRaces, FiniteSetTheorems

Moved(row, after, from, to) == row.status \in from /\ after.status = to

\* A row before and after a step of RideLifecycle, or of the retry counter.
Edge(row, after) ==
    \/ after = row
    \/ /\ after.driver = row.driver /\ after.completedAt = row.completedAt
       /\ \/ Moved(row, after, {"none"}, "requested")
          \/ Moved(row, after, {"none"}, "scheduled")
          \/ Moved(row, after, {"scheduled"}, "requested")
          \/ Moved(row, after, {"requested"}, "requested")
          \/ Moved(row, after, {"matched"}, "driver_en_route")
          \/ Moved(row, after, {"driver_en_route"}, "arrived")
          \/ Moved(row, after, {"matched", "arrived"}, "in_progress")
          \/ Moved(row, after, Lifecycle!Cancellable, "cancelled")
    \/ /\ after.driver \in Drivers /\ after.completedAt = row.completedAt
       /\ Moved(row, after, {"requested"}, "matched")
    \/ /\ after.driver = row.driver /\ after.completedAt
       /\ Moved(row, after, {"in_progress"}, "completed")

Free == Rides \ overtaken

\* At most one row is written, and a free one along an edge.
Written ==
    /\ \E r : \A x \in Rides : x # r => rides'[x] = rides[x]
    /\ \A r \in Free : Edge(rides[r], rides'[r])

\* Some session may yet write ride r.
Held(r) ==
    \/ \E q \in Requests : InTransaction(request[q]) /\ request[q].ride = r
    \/ task[r].at \in {"find", "commit"}
    \/ \E s \in Schedulers : LoopHolds(sched[s], r)

\* Copies of a free ride become outdated only by a write.
Fresh ==
    \A r \in Free : Outdated(r)' => rides'[r] # rides[r] /\ Held(r)

NoneCompleted ==
    \A r \in Free : rides'[r].completedAt = rides[r].completedAt

Completes(q) ==
    /\ At(q, "complete", "commit")
    /\ trips' = [trips EXCEPT ![request[q].by] = request[q].trips + 1]
    /\ \A r \in Free :
           rides'[r] = IF r = request[q].ride
                       THEN [rides[r] EXCEPT !.status = "completed",
                                             !.completedAt = TRUE]
                       ELSE rides[r]

\* A trip is counted by a completion, and by nothing else.
Counted ==
    \/ trips' = trips /\ NoneCompleted
    \/ \E q \in Requests : Completes(q)

\* Who is about to complete a ride drives it, or is affected.
Drives(h) ==
    InTransaction(h) /\ h.op = "complete" =>
        \/ rides'[h.ride].driver = h.by
        \/ h.by \in affected

\* What every step establishes.
RaceSound ==
    /\ Written /\ Fresh /\ Counted
    /\ HandlersMay' /\ TasksMay' /\ \A s \in Schedulers : LoopMay(sched'[s])
    /\ \A q \in Requests : Drives(request'[q])
    /\ \A r \in Free : IntentFits(r)'

-----------------------------------------------------------------------------
(* What is known of a free ride.                                           *)

LEMMA FreeFacts ==
    ASSUME HistoryInv, RaceInv, NEW r \in Free
    PROVE  /\ r \in Rides /\ rides[r] \in Row /\ Consistent(rides[r])
           /\ Orderly(rides[r]) /\ IntentFits(r)
           /\ \A q \in Requests : InTransaction(request[q])
                  /\ request[q].ride = r => request[q].copy = rides[r]
           /\ task[r].at \in {"find", "commit"} => task[r].copy = rides[r]
           /\ \A s \in Schedulers :
                  LoopHolds(sched[s], r) => sched[s].copies[r] = rides[r]
BY DEF Free, HistoryInv, HistoryConsistent, TypeOK, TableTypeOK, RaceInv,
   Overtaken, Outdated

\* A free ride that is held is neither absent nor final.
LEMMA HeldIsLive ==
    ASSUME HistoryInv, RaceInv, NEW r \in Free, Held(r)
    PROVE  rides[r].status \notin {"none", "completed", "cancelled"}
<1>1. ASSUME NEW q \in Requests, InTransaction(request[q]), request[q].ride = r
      PROVE  rides[r].status \notin {"none", "completed", "cancelled"}
  <2>1. request[q] # Idle /\ request[q].at \in {"profile", "commit"}
    BY <1>1 DEF InTransaction
  <2>2. /\ request[q].op \in {"accept", "en_route", "arrived", "start",
                              "complete", "cancel", "cancel_scheduled"}
        /\ HandlerOK(request[q], rides[request[q].ride])
    BY <2>1, HandlerFacts DEF Handler
  <2>3. request[q].copy = rides[r] /\ MayCommit(request[q])
    BY <1>1, FreeFacts DEF RaceInv, HandlersMay
  <2> QED BY <2>1, <2>2, <2>3 DEF HandlerOK, MayCommit, CannotCancel
<1>2. ASSUME task[r].at \in {"find", "commit"}
      PROVE  rides[r].status = "requested"
  BY <1>2, FreeFacts DEF RaceInv, TasksMay
<1>3. ASSUME NEW s \in Schedulers, LoopHolds(sched[s], r)
      PROVE  rides[r].status \in {"scheduled", "requested"}
  BY <1>3, FreeFacts DEF RaceInv, LoopsMay, LoopMay, LoopHolds, Free
<1> QED BY <1>1, <1>2, <1>3 DEF Held

\* A row that is written back from a copy that is the row becomes the copy.
LEMMA FlushCurrent ==
    ASSUME NEW row \in Row, NEW new \in Row
    PROVE  Flush(row, row, new) = new
BY DEF Flush, Row

\* A COMMIT of ride r by a session whose copy is the row if r is free.
LEMMA CommitWrites ==
    ASSUME HistoryInv, RaceInv, NEW r \in Rides, NEW copy, NEW new,
           r \in Free => /\ copy = rides[r] /\ new \in Row
                         /\ Edge(rides[r], new),
           rides' = [rides EXCEPT ![r] = Flush(rides[r], copy, new)]
    PROVE  /\ Written
           /\ r \in Free => rides'[r] = new
           /\ \A x \in Rides \ {r} : rides'[x] = rides[x]
           /\ (r \in Free => new.completedAt = rides[r].completedAt) =>
                  NoneCompleted
<1>1. rides \in [Rides -> Row] /\ Free \subseteq Rides
  BY DEF HistoryInv, TypeOK, TableTypeOK, Free
<1>2. rides'[r] = Flush(rides[r], copy, new)
      /\ \A x \in Rides \ {r} : rides'[x] = rides[x]
  BY <1>1
<1>3. r \in Free => rides'[r] = new
  BY <1>1, <1>2, FlushCurrent
<1> QED BY <1>1, <1>2, <1>3 DEF Written, NoneCompleted, Edge

LEMMA NothingWritten ==
    ASSUME rides' = rides
    PROVE  Written /\ NoneCompleted
BY DEF Written, NoneCompleted, Edge

\* A free row stays orderly, and a cancelled one stays what it is.
LEMMA OrderlyStays ==
    ASSUME HistoryInv, RaceInv, Written, NEW r \in Free
    PROVE  /\ Orderly(rides'[r])
           /\ rides[r].status = "cancelled" => rides'[r].status = "cancelled"
<1>1. Orderly(rides[r]) /\ Edge(rides[r], rides'[r])
  BY FreeFacts DEF Written
<1> QED BY <1>1 DEF Edge, Moved, Orderly, Early, Lifecycle!Cancellable

-----------------------------------------------------------------------------
(* What an edge means for the promise and for the books.                   *)

Status(r) == IF r \in overtaken THEN "contested" ELSE rides[r].status
Driver(r) == IF r \in overtaken THEN NoDriver ELSE rides[r].driver

Mapped == [Lifecycle!LifecycleNext]_(Lifecycle!lifecycleVars)

\* A ride becomes contested when it is written while others may write it.
LEMMA NewlyOvertaken ==
    ASSUME HistoryInv, RaceInv, Fresh, Watch, NEW r \in Free,
           r \in overtaken'
    PROVE  /\ rides'[r] # rides[r]
           /\ rides[r].status \in Lifecycle!Cancellable \union {"in_progress"}
<1>1. Outdated(r)'
  BY DEF Watch, Overtaken, Free
<1>2. rides'[r] # rides[r] /\ Held(r)
  BY <1>1 DEF Fresh
<1>3. rides[r].status \in RideStatus
           /\ rides[r].status \notin {"none", "completed", "cancelled"}
  BY <1>2, HeldIsLive, FreeFacts DEF Row
<1> QED BY <1>2, <1>3 DEF RideStatus, Lifecycle!Cancellable

\* The step changes what the promise sees of at most one ride, which is free.
LEMMA OneIsMapped ==
    ASSUME HistoryInv, RaceInv, Written, Fresh, Watch
    PROVE  \/ \A x \in Rides : Status(x)' = Status(x) /\ Driver(x)' = Driver(x)
           \/ \E r \in Free : \A x \in Rides \ {r} :
                  Status(x)' = Status(x) /\ Driver(x)' = Driver(x)
<1> PICK r : \A x \in Rides : x # r => rides'[x] = rides[x]
  BY DEF Written
<1>1. overtaken \subseteq overtaken'
  BY DEF Watch
<1>2. ASSUME NEW x \in Rides, x # r \/ x \in overtaken
      PROVE  Status(x)' = Status(x) /\ Driver(x)' = Driver(x)
  <2>1. CASE x \in overtaken
    BY <1>1, <2>1 DEF Status, Driver
  <2>2. CASE x \notin overtaken
    <3>1. x \in Free /\ rides'[x] = rides[x]
      BY <1>2, <2>2 DEF Free
    <3>2. x \notin overtaken'
      BY <3>1, NewlyOvertaken
    <3> QED BY <2>2, <3>1, <3>2 DEF Status, Driver
  <2> QED BY <2>1, <2>2
<1> QED BY <1>2 DEF Free

LEMMA MappedSame ==
    ASSUME \A x \in Rides : Status(x)' = Status(x) /\ Driver(x)' = Driver(x)
    PROVE  Mapped
BY DEF Mapped, Lifecycle!lifecycleVars, Status, Driver

\* The one ride takes a step of the life cycle, or stutters.
LEMMA RideMaps ==
    ASSUME HistoryInv, RaceInv, Written, Fresh, Watch, NEW r \in Free,
           \A x \in Rides \ {r} : Status(x)' = Status(x) /\ Driver(x)' = Driver(x),
           NEW to, NEW by, to = Status(r)', by = Driver(r)'
    PROVE  Mapped
<1> DEFINE status == [x \in Rides |-> Status(x)]
           driver == [x \in Rides |-> Driver(x)]
<1>1. /\ r \in Rides /\ r \notin overtaken
      /\ Status(r) = rides[r].status /\ Driver(r) = rides[r].driver
      /\ Edge(rides[r], rides'[r])
  BY DEF Free, Status, Driver, Written
<1>2. status' = [status EXCEPT ![r] = to]
      /\ driver' = [driver EXCEPT ![r] = by]
  BY <1>1
<1>3. /\ status = [x \in Rides |-> IF x \in overtaken THEN "contested"
                                                      ELSE rides[x].status]
      /\ driver = [x \in Rides |-> IF x \in overtaken THEN NoDriver
                                                      ELSE rides[x].driver]
      /\ status' = [x \in Rides |-> IF x \in overtaken' THEN "contested"
                                                       ELSE rides'[x].status]
      /\ driver' = [x \in Rides |-> IF x \in overtaken' THEN NoDriver
                                                       ELSE rides'[x].driver]
  BY DEF Status, Driver
<1>4. status[r] = rides[r].status /\ driver[r] = rides[r].driver
  BY <1>1
<1> HIDE DEF status, driver
<1>5. ASSUME NEW from, rides[r].status \in from
      PROVE  Lifecycle!Move(r, from, to)
  BY <1>2, <1>3, <1>4, <1>5 DEF Lifecycle!Move
<1>6. ASSUME by = rides[r].driver
      PROVE  driver' = driver
  BY <1>2, <1>4, <1>6 DEF driver
<1>7. CASE r \in overtaken'
  <2>1. /\ to = "contested" /\ by = NoDriver
        /\ rides[r].status \in Lifecycle!Cancellable \union {"in_progress"}
    BY <1>7, NewlyOvertaken DEF Status, Driver
  <2>2. Lifecycle!Contend(r)
    BY <1>2, <1>3, <1>5, <2>1 DEF Lifecycle!Contend
  <2> QED BY <1>1, <2>2 DEF Mapped, Lifecycle!LifecycleNext
<1>8. CASE r \notin overtaken'
  <2>1. to = rides'[r].status /\ by = rides'[r].driver
    BY <1>8 DEF Status, Driver
  <2>2. ASSUME NEW from, Moved(rides[r], rides'[r], from, to)
        PROVE  Lifecycle!Move(r, from, to)
    BY <1>5, <2>1, <2>2 DEF Moved
  <2>5. ASSUME rides[r].status = "requested", to = "matched"
        PROVE  Lifecycle!Match(r, by)
    <3>1. driver' = [driver EXCEPT ![r] = by]
      BY <1>2
    <3>2. Lifecycle!Move(r, {"requested"}, "matched")
      BY <1>5, <2>5
    <3> QED BY <1>3, <3>1, <3>2 DEF Lifecycle!Match
  <2> DEFINE row == rides[r]
             after == rides'[r]
  <2>3. CASE after.driver = row.driver
    <3>1. [x \in Rides |-> IF x \in overtaken' THEN NoDriver
                                               ELSE rides'[x].driver]
            = [x \in Rides |-> IF x \in overtaken THEN NoDriver
                                                  ELSE rides[x].driver]
      BY <1>3, <1>6, <2>1, <2>3 DEF driver, Driver
    <3>2. CASE after.status = row.status
      <4>1. to = rides[r].status
        BY <2>1, <3>2
      <4>2. [x \in Rides |-> IF x \in overtaken' THEN "contested"
                                                 ELSE rides'[x].status]
              = [x \in Rides |-> IF x \in overtaken THEN "contested"
                                                    ELSE rides[x].status]
        BY <1>2, <1>3, <1>4, <4>1 DEF status, Status
      <4> QED BY <3>1, <4>2 DEF Mapped, Lifecycle!lifecycleVars
    <3>3. CASE Moved(row, after, {"none"}, "requested")
               \/ Moved(row, after, {"none"}, "scheduled")
      BY <1>1, <2>1, <2>2, <3>1, <3>3
         DEF Moved, Mapped, Lifecycle!LifecycleNext, Lifecycle!Create
    <3>4. CASE Moved(row, after, {"scheduled"}, "requested")
      BY <1>1, <2>1, <2>2, <3>1, <3>4
         DEF Moved, Mapped, Lifecycle!LifecycleNext, Lifecycle!Dispatch
    <3>5. CASE \/ Moved(row, after, {"matched"}, "driver_en_route")
               \/ Moved(row, after, {"driver_en_route"}, "arrived")
               \/ Moved(row, after, {"matched", "arrived"}, "in_progress")
      BY <1>1, <2>1, <2>2, <3>1, <3>5
         DEF Moved, Mapped, Lifecycle!LifecycleNext, Lifecycle!EnRoute,
             Lifecycle!Arrive, Lifecycle!Start
    <3>6. CASE Moved(row, after, Lifecycle!Cancellable, "cancelled")
      BY <1>1, <2>1, <2>2, <3>1, <3>6
         DEF Moved, Mapped, Lifecycle!LifecycleNext, Lifecycle!Cancel
    <3>7. CASE Moved(row, after, {"in_progress"}, "completed")
      BY <1>1, <2>1, <2>2, <3>1, <3>7
         DEF Moved, Mapped, Lifecycle!LifecycleNext, Lifecycle!Complete
    <3>8. CASE Moved(row, after, {"requested"}, "matched")
               /\ after.driver \in Drivers
      <4>1. Lifecycle!Match(r, by)
        BY <2>1, <2>5, <3>8 DEF Moved
      <4> QED BY <1>1, <2>1, <3>8, <4>1 DEF Mapped, Lifecycle!LifecycleNext
    <3>9. CASE Moved(row, after, {"requested"}, "requested") \/ after = row
      BY <3>2, <3>9 DEF Moved
    <3> QED BY <1>1, <3>3, <3>4, <3>5, <3>6, <3>7, <3>8, <3>9 DEF Edge
  <2>4. CASE after.driver # row.driver
    <3>1. after.driver \in Drivers /\ Moved(row, after, {"requested"}, "matched")
      BY <1>1, <2>4 DEF Edge
    <3>2. Lifecycle!Match(r, by)
      BY <2>1, <2>5, <3>1 DEF Moved
    <3> QED BY <1>1, <2>1, <3>1, <3>2 DEF Mapped, Lifecycle!LifecycleNext
  <2> QED BY <2>3, <2>4
<1> QED BY <1>7, <1>8

\* A step is one of the life cycle, or stutters.
LEMMA StepMaps ==
    ASSUME HistoryInv, RaceInv, Written, Fresh, Watch
    PROVE  Mapped
BY OneIsMapped, MappedSame, RideMaps

\* A completed free ride is not written any more.
LEMMA CompletedStays ==
    ASSUME HistoryInv, RaceInv, Written, NEW r \in Free, rides[r].completedAt
    PROVE  rides'[r] = rides[r]
<1>1. rides[r].status = "completed" /\ Edge(rides[r], rides'[r])
  BY FreeFacts DEF Orderly, Written
<1> QED BY <1>1 DEF Edge, Moved, Lifecycle!Cancellable

\* The rides of a driver who is not affected are free.
LEMMA RidesOfUnaffected ==
    ASSUME RaceInv, Watch, NEW d \in Drivers \ affected'
    PROVE  /\ TripsFit(d)
           /\ CompletedBy(d) = {r \in Free : /\ rides[r].completedAt
                                             /\ rides[r].driver = d}
           /\ CompletedBy(d)' = {r \in Free : /\ rides'[r].completedAt
                                              /\ rides'[r].driver = d}
           /\ \A q \in Counting(d) : /\ request[q].trips = trips[d]
                                     /\ request[q].ride \notin overtaken
<1>1. d \notin affected /\ d \notin Affected /\ d \notin Affected'
      /\ overtaken \subseteq overtaken'
  BY DEF Watch, RaceInv
<1>2. /\ \A r \in overtaken : rides[r].driver # d
      /\ \A r \in overtaken' : rides'[r].driver # d
      /\ \A q \in Counting(d) : request[q].trips = trips[d]
  BY <1>1 DEF Affected
<1>3. \A q \in Counting(d) : request[q].ride \notin overtaken
  BY <1>1 DEF RaceInv, CompletersAffected, Counting, At, InTransaction
<1>4. CompletedBy(d) = {r \in Free : rides[r].completedAt /\ rides[r].driver = d}
  BY <1>2 DEF CompletedBy, Free
<1>5. CompletedBy(d)' = {r \in Free : rides'[r].completedAt /\ rides'[r].driver = d}
  BY <1>1, <1>2 DEF CompletedBy, Free
<1> QED BY <1>1, <1>2, <1>3, <1>4, <1>5 DEF RaceInv

LEMMA TripsStay ==
    ASSUME HistoryInv, RaceInv, Written, Counted, Watch,
           NEW d \in Drivers \ affected'
    PROVE  TripsFit(d)'
<1> DEFINE before == {r \in Free : rides[r].completedAt /\ rides[r].driver = d}
           after == {r \in Free : rides'[r].completedAt /\ rides'[r].driver = d}
<1>1. /\ IsFiniteSet(before) /\ trips[d] = Cardinality(before)
      /\ CompletedBy(d)' = after
      /\ trips \in [Drivers -> Nat]
  BY RidesOfUnaffected DEF TripsFit, HistoryInv, TypeOK, HandlersTypeOK
<1>2. ASSUME after = before, trips'[d] = trips[d] PROVE TripsFit(d)'
  BY <1>1, <1>2 DEF TripsFit
<1>3. CASE trips' = trips /\ NoneCompleted
  <2>1. after = before
    BY <1>3, CompletedStays DEF NoneCompleted
  <2> QED BY <1>2, <1>3, <2>1
<1>4. ASSUME NEW q \in Requests, Completes(q) PROVE TripsFit(d)'
  <2> DEFINE r  == request[q].ride
             by == request[q].by
  <2>1. /\ request[q] # Idle /\ InTransaction(request[q])
        /\ request[q].op = "complete" /\ q \in Counting(by)
    BY <1>4 DEF Completes, At, InTransaction, Counting
  <2>2. /\ r \in Rides /\ by \in Drivers /\ request[q].copy.driver = by
        /\ request[q].copy.status = "in_progress"
    BY <2>1, HandlerFacts DEF HandlerOK, RaceInv, HandlersMay, MayCommit,
       InTransaction
  <2>3. ASSUME r \in Free
        PROVE  /\ rides[r].driver = by /\ ~rides[r].completedAt
               /\ rides'[r].driver = by /\ rides'[r].completedAt
    <3>1. rides[r].driver = by /\ rides[r].status = "in_progress"
      BY <2>1, <2>2, <2>3, FreeFacts
    <3>2. ~rides[r].completedAt /\ rides[r] \in Row
      BY <2>3, <3>1, FreeFacts DEF Orderly
    <3>3. rides'[r] = [rides[r] EXCEPT !.status = "completed",
                                       !.completedAt = TRUE]
      BY <1>4, <2>3 DEF Completes
    <3> QED BY <3>1, <3>2, <3>3 DEF Row
  <2>4. \A x \in Free : x # r => rides'[x] = rides[x]
    BY <1>4 DEF Completes
  <2>5. CASE d = by
    <3>1. r \in Free /\ request[q].trips = trips[d]
      BY <2>1, <2>2, <2>5, RidesOfUnaffected DEF Free
    <3>2. after = before \union {r} /\ r \notin before
      BY <2>3, <2>4, <2>5, <3>1
    <3>3. trips'[d] = trips[d] + 1
      BY <1>1, <1>4, <2>5, <3>1 DEF Completes
    <3>4. /\ IsFiniteSet(before \union {r})
          /\ Cardinality(before \union {r}) = Cardinality(before) + 1
      BY <1>1, <3>2, FS_AddElement
    <3> QED BY <1>1, <3>2, <3>3, <3>4 DEF TripsFit
  <2>6. CASE d # by
    <3>1. after = before
      BY <2>3, <2>4, <2>6
    <3>2. trips'[d] = trips[d]
      BY <1>1, <1>4, <2>6 DEF Completes
    <3> QED BY <1>2, <3>1, <3>2
  <2> QED BY <2>5, <2>6
<1> QED BY <1>3, <1>4 DEF Counted

\* What a step of the system has established, the watch completes.
LEMMA WatchKeeps ==
    ASSUME HistoryInv, HistoryInv', RaceInv, RaceSound, Watch
    PROVE  Mapped /\ RaceInv'
<1> USE DEF RaceSound
<1>1. /\ overtaken \subseteq overtaken' /\ affected \subseteq affected'
      /\ Overtaken' \subseteq overtaken' /\ Affected' \subseteq affected'
      /\ overtaken' \subseteq Rides /\ affected' \subseteq Drivers
  BY DEF Watch, RaceInv, Overtaken, Affected
<1>2. Mapped
  BY StepMaps
<1>3. LoopsMay'
  <2> SUFFICES ASSUME NEW s \in Schedulers PROVE LoopMay(sched[s])'
    BY DEF LoopsMay
  <2> QED BY <1>1 DEF LoopMay
<1>4. CompletersAffected'
  <2> SUFFICES ASSUME NEW q \in Requests, InTransaction(request'[q]),
                      request'[q].op = "complete",
                      request'[q].ride \in overtaken'
               PROVE  request'[q].by \in affected'
    BY DEF CompletersAffected
  <2>1. request'[q].by \in Drivers
    <3>1. request'[q] # Idle
      BY DEF InTransaction
    <3> QED BY <3>1 DEF HistoryInv, HandlersOK, HandlerOK
  <2> QED BY <1>1, <2>1 DEF Drives, Affected
<1>5. \A r \in Rides \ overtaken' : Orderly(rides'[r]) /\ IntentFits(r)'
  BY <1>1, OrderlyStays DEF Free
<1>6. \A d \in Drivers \ affected' : TripsFit(d)'
  BY TripsStay
<1> QED BY <1>1, <1>2, <1>3, <1>4, <1>5, <1>6 DEF RaceInv

-----------------------------------------------------------------------------
(* The handlers.                                                           *)

LEMMA HandlerKnows ==
    ASSUME HistoryInv, RaceInv, NEW q \in Requests, InTransaction(request[q])
    PROVE  /\ request[q] \in Handler /\ request[q].ride \in Rides
           /\ request[q].copy \in Row /\ Consistent(request[q].copy)
           /\ HandlerOK(request[q], rides[request[q].ride])
           /\ MayCommit(request[q])
           /\ request[q].ride \in Free =>
                  request[q].copy = rides[request[q].ride]
<1>1. request[q] # Idle
  BY DEF InTransaction
<1> QED
  BY <1>1, HandlerFacts, FreeFacts DEF RaceInv, HandlersMay, CopyOK

\* Another step does not take the ride from who is about to complete it.
LEMMA DrivesStays ==
    ASSUME HistoryInv, RaceInv, Written, NEW q \in Requests
    PROVE  Drives(request[q])
<1> SUFFICES ASSUME InTransaction(request[q]), request[q].op = "complete",
                    request[q].by \notin affected
             PROVE  rides'[request[q].ride].driver = request[q].by
  BY DEF Drives
<1> DEFINE r == request[q].ride
<1>1. r \in Free
  BY HandlerKnows DEF Free, RaceInv, CompletersAffected
<1>2. rides[r].status = "in_progress" /\ rides[r].driver = request[q].by
  BY <1>1, HandlerKnows DEF HandlerOK, MayCommit, InTransaction
<1>3. Edge(rides[r], rides'[r])
  BY <1>1 DEF Written
<1> QED BY <1>2, <1>3 DEF Edge, Moved

\* What the handler of slot q becomes, h, has its copy from the row, or as before.
LEMMA HandlerFresh ==
    ASSUME HistoryInv, RaceInv, NEW q \in Requests, NEW h,
           request' = [request EXCEPT ![q] = h], task' = task, sched' = sched,
           InTransaction(h) =>
               \/ h.copy = rides'[h.ride]
               \/ /\ InTransaction(request[q])
                  /\ h.ride = request[q].ride /\ h.copy = request[q].copy
    PROVE  Fresh
<1> SUFFICES ASSUME NEW r \in Free, Outdated(r)'
             PROVE  rides'[r] # rides[r] /\ Held(r)
  BY DEF Fresh
<1>1. /\ request'[q] = h
      /\ \A p \in Requests \ {q} : request'[p] = request[p]
  BY DEF HistoryInv, TypeOK, HandlersTypeOK
<1>2. ASSUME NEW p \in Requests, InTransaction(request'[p]),
             request'[p].ride = r, request'[p].copy # rides'[r]
      PROVE  rides'[r] # rides[r] /\ Held(r)
  <2>1. /\ InTransaction(request[p]) /\ request[p].ride = r
        /\ request[p].copy = request'[p].copy
    BY <1>1, <1>2
  <2> QED BY <1>2, <2>1, FreeFacts DEF Held
<1>3. CASE task[r].at \in {"find", "commit"} /\ task[r].copy # rides'[r]
  BY <1>3, FreeFacts DEF Held
<1>4. ASSUME NEW s \in Schedulers, LoopHolds(sched[s], r),
             sched[s].copies[r] # rides'[r]
      PROVE  rides'[r] # rides[r] /\ Held(r)
  BY <1>4, FreeFacts DEF Held
<1> QED BY <1>2, <1>3, <1>4 DEF Outdated

\* A step that neither starts nor continues a charge keeps the fees.
LEMMA IntentsStay ==
    ASSUME HistoryInv, RaceInv, Written, NEW r \in Free,
           intents' = intents, Charging(r)' \subseteq Charging(r),
           \A q \in Charging(r)' : request'[q].at # "payment" =>
                                       request[q].at # "payment"
    PROVE  IntentFits(r)'
<1>1. rides[r].status = "cancelled" => rides'[r].status = "cancelled"
  BY OrderlyStays
<1>2. IntentFits(r)
  BY FreeFacts
<1> QED BY <1>1, <1>2 DEF IntentFits

\* The tasks and the loops go on as they are, and so may the other handlers.
LEMMA HandlerMayStep ==
    ASSUME HistoryInv, RaceInv, NEW q \in Requests, Written, Counted, NEW h,
           request' = [request EXCEPT ![q] = h], task' = task, sched' = sched,
           InTransaction(h) =>
               /\ MayCommit(h)
               /\ \/ h.copy = rides'[h.ride]
                  \/ /\ InTransaction(request[q])
                     /\ h.ride = request[q].ride /\ h.copy = request[q].copy
                     /\ h.op = request[q].op /\ h.by = request[q].by,
           \A r \in Free : IntentFits(r)'
    PROVE  RaceSound
<1>1. /\ request'[q] = h
      /\ \A p \in Requests \ {q} : request'[p] = request[p]
  BY DEF HistoryInv, TypeOK, HandlersTypeOK
<1>2. Fresh
  BY HandlerFresh
<1>3. HandlersMay'
  BY <1>1 DEF HandlersMay, RaceInv
<1>4. TasksMay' /\ \A s \in Schedulers : LoopMay(sched'[s])
  BY DEF RaceInv, TasksMay, LoopsMay
<1>5. ASSUME NEW p \in Requests PROVE Drives(request'[p])
  <2>1. Drives(request[p])
    BY DrivesStays
  <2>2. CASE p = q
    BY <1>1, <2>1, <2>2 DEF Drives, MayCommit
  <2> QED BY <1>1, <2>1, <2>2
<1> QED BY <1>2, <1>3, <1>4, <1>5 DEF RaceSound

\* A step of a handler that neither cancels for a fee, nor asks for one.
LEMMA HandlerRace ==
    ASSUME HistoryInv, RaceInv, NEW q \in Requests, Written, Counted, NEW h,
           request' = [request EXCEPT ![q] = h], task' = task, sched' = sched,
           intents' = intents,
           InTransaction(h) =>
               /\ MayCommit(h)
               /\ \/ h.copy = rides'[h.ride]
                  \/ /\ InTransaction(request[q])
                     /\ h.ride = request[q].ride /\ h.copy = request[q].copy
                     /\ h.op = request[q].op /\ h.by = request[q].by,
           h # Idle /\ h.op = "cancel" /\ ~InTransaction(h) =>
               /\ request[q] # Idle /\ ~InTransaction(request[q])
               /\ request[q].op = "cancel" /\ request[q].ride = h.ride
               /\ h.at # "payment" => request[q].at # "payment"
    PROVE  RaceSound
<1>1. /\ request'[q] = h
      /\ \A p \in Requests \ {q} : request'[p] = request[p]
  BY DEF HistoryInv, TypeOK, HandlersTypeOK
<1>2. ASSUME NEW r \in Free PROVE IntentFits(r)'
  <2>1. /\ Charging(r)' \subseteq Charging(r)
        /\ \A p \in Charging(r)' : request'[p].at # "payment" =>
                                       request[p].at # "payment"
    BY <1>1 DEF Charging
  <2> QED BY <2>1, IntentsStay
<1> QED BY <1>2, HandlerMayStep

LEMMA BeginRaces ==
    ASSUME HistoryInv, RaceInv, task' = task, sched' = sched,
           NEW q \in Requests, NEW r \in Rides,
           NEW op, NEW at \in {"profile", "commit"}, NEW by, NEW fee,
           op = "accept" => rides[r].status = "requested",
           op = "complete" => rides[r].driver = by,
           op = "cancel" => rides[r].status \notin CannotCancel,
           op = "cancel_scheduled" => rides[r].status = "scheduled",
           Begin(q, op, at, r, by, fee)
    PROVE  RaceSound
<1> DEFINE h == [op |-> op, at |-> at, ride |-> r, by |-> by,
                 copy |-> rides[r], fee |-> fee, trips |-> 0]
<1>1. /\ request' = [request EXCEPT ![q] = h]
      /\ rides' = rides /\ trips' = trips /\ intents' = intents
  BY DEF Begin, tableVars, books
<1>2. h # Idle => InTransaction(h)
  BY DEF InTransaction
<1>3. MayCommit(h) /\ h.copy = rides'[h.ride]
  BY <1>1 DEF MayCommit
<1>4. Written /\ Counted
  BY <1>1, NothingWritten DEF Counted
<1> HIDE DEF h
<1> QED BY <1>1, <1>2, <1>3, <1>4, HandlerRace

LEMMA LoadRaces ==
    ASSUME HistoryInv, RaceInv, task' = task, sched' = sched,
           NEW q \in Requests, HandlerLoad(q)
    PROVE  RaceSound
<1> PICK r \in Rides :
        \/ LoadCancelScheduled(q, r)
        \/ \E by \in Drivers \union {Rider}, graceOver \in BOOLEAN :
               LoadCancel(q, r, by, graceOver)
        \/ \E d \in Drivers :
               \/ LoadAccept(q, r, d)
               \/ LoadEnRoute(q, r, d)
               \/ LoadArrived(q, r, d)
               \/ LoadStart(q, r, d)
               \/ LoadComplete(q, r, d)
  BY DEF HandlerLoad
<1>1. CASE LoadCancelScheduled(q, r)
  BY <1>1, BeginRaces DEF LoadCancelScheduled
<1>2. ASSUME NEW by \in Drivers \union {Rider}, NEW graceOver \in BOOLEAN,
             LoadCancel(q, r, by, graceOver)
      PROVE  RaceSound
  BY <1>2, BeginRaces DEF LoadCancel
<1>3. ASSUME NEW d \in Drivers, LoadAccept(q, r, d) PROVE RaceSound
  BY <1>3, BeginRaces DEF LoadAccept
<1>4. ASSUME NEW d \in Drivers, LoadEnRoute(q, r, d) PROVE RaceSound
  BY <1>4, BeginRaces DEF LoadEnRoute
<1>5. ASSUME NEW d \in Drivers, LoadArrived(q, r, d) PROVE RaceSound
  BY <1>5, BeginRaces DEF LoadArrived
<1>6. ASSUME NEW d \in Drivers, LoadStart(q, r, d) PROVE RaceSound
  BY <1>6, BeginRaces DEF LoadStart
<1>7. ASSUME NEW d \in Drivers, LoadComplete(q, r, d) PROVE RaceSound
  BY <1>7, BeginRaces DEF LoadComplete
<1> QED BY <1>1, <1>2, <1>3, <1>4, <1>5, <1>6, <1>7

\* The slot becomes free, or is past its COMMIT without charging: nothing that
\* it still holds matters.
LEMMA DoneRaces ==
    ASSUME HistoryInv, RaceInv, task' = task, sched' = sched,
           NEW q \in Requests, NEW h, request' = [request EXCEPT ![q] = h],
           h # Idle => h.op # "cancel" /\ ~InTransaction(h),
           Written, Counted, intents' = intents
    PROVE  RaceSound
<1>1. ~InTransaction(h)
  BY DEF InTransaction
<1> QED BY <1>1, HandlerRace

\* COMMITs that move the ride on; "new" is what the copy becomes.
LEMMA ProgressRaces ==
    ASSUME HistoryInv, RaceInv, task' = task, sched' = sched,
           NEW q \in Requests, InTransaction(request[q]),
           NEW new \in Row, Edge(request[q].copy, new),
           new.completedAt = request[q].copy.completedAt,
           CommitRide(q, new), UNCHANGED books,
           \/ Finish(q)
           \/ request[q].op # "cancel" /\ Forget(q, "busy")
    PROVE  RaceSound
<1>1. Written /\ NoneCompleted
  <2> DEFINE r == request[q].ride
             copy == request[q].copy
  <2>1. r \in Rides /\ (r \in Free => copy = rides[r])
    BY HandlerKnows
  <2>2. rides' = [rides EXCEPT ![r] = Flush(rides[r], copy, new)]
    BY <2>1 DEF CommitRide, CommitRow
  <2>3. r \in Free => /\ copy = rides[r] /\ new \in Row
                        /\ Edge(rides[r], new)
    <3> USE DEF Edge
    <3> QED BY <2>1
  <2>4. r \in Free => new.completedAt = rides[r].completedAt
    BY <2>1
  <2> HIDE DEF r, copy
  <2> QED BY <2>1, <2>2, <2>3, <2>4, CommitWrites
<1>2. Counted /\ intents' = intents
  BY <1>1 DEF books, Counted
<1>3. CASE Finish(q)
  BY <1>1, <1>2, <1>3, DoneRaces DEF Finish
<1>4. CASE request[q].op # "cancel" /\ Forget(q, "busy")
  <2> DEFINE h == [request[q] EXCEPT !.at = "busy", !.copy = NoRow]
  <2>1. request[q] \in Handler
    BY HandlerKnows
  <2>2. request' = [request EXCEPT ![q] = h]
    BY <1>4, <2>1 DEF Forget, HistoryInv, TypeOK, HandlersTypeOK, Handler
  <2>3. h.op # "cancel" /\ ~InTransaction(h)
    BY <1>4, <2>1 DEF Handler, InTransaction
  <2> QED BY <1>1, <1>2, <2>2, <2>3, DoneRaces
<1> QED BY <1>3, <1>4

LEMMA CommitRaces ==
    ASSUME HistoryInv, RaceInv, task' = task, sched' = sched,
           NEW q \in Requests,
           \/ CommitAccept(q)
           \/ CommitEnRoute(q)
           \/ CommitArrived(q)
           \/ CommitStart(q)
           \/ CommitCancelScheduled(q)
    PROVE  RaceSound
<1> DEFINE copy == request[q].copy
<1>1. InTransaction(request[q])
  BY DEF CommitAccept, CommitEnRoute, CommitArrived, CommitStart,
     CommitCancelScheduled, At, InTransaction
<1>2. /\ request[q] \in Handler /\ copy \in Row /\ Consistent(copy)
      /\ HandlerOK(request[q], rides[request[q].ride])
      /\ MayCommit(request[q])
  BY <1>1, HandlerKnows
<1>3. CASE CommitAccept(q)
  <2> DEFINE new == Matched(copy, request[q].by)
  <2>1. request[q].by \in Drivers /\ copy.status = "requested"
    BY <1>2, <1>3 DEF HandlerOK, MayCommit, CommitAccept, At
  <2>2. new \in Row
    BY <1>2, <2>1, MatchedOK
  <2>3. Edge(copy, new) /\ new.completedAt = copy.completedAt
    BY <1>2, <2>1 DEF Matched, Edge, Moved, Row
  <2> QED
    BY <1>1, <1>2, <1>3, <2>2, <2>3, ProgressRaces DEF CommitAccept, At
<1>4. CASE CommitEnRoute(q)
  <2> DEFINE new == [copy EXCEPT !.status = "driver_en_route"]
  <2>1. copy.status = "matched"
    BY <1>2, <1>4 DEF HandlerOK, CommitEnRoute, At
  <2>2. new \in Row /\ Edge(copy, new) /\ new.completedAt = copy.completedAt
    BY <1>2, <2>1 DEF Edge, Moved, Row, RideStatus
  <2>3. CommitRide(q, new) /\ Finish(q) /\ UNCHANGED books
    BY <1>4 DEF CommitEnRoute, CommitAndFinish
  <2> HIDE DEF new
  <2> QED BY <1>1, <2>2, <2>3, ProgressRaces
<1>5. CASE CommitArrived(q)
  <2> DEFINE new == [copy EXCEPT !.status = "arrived"]
  <2>1. copy.status = "driver_en_route"
    BY <1>2, <1>5 DEF HandlerOK, CommitArrived, At
  <2>2. new \in Row /\ Edge(copy, new) /\ new.completedAt = copy.completedAt
    BY <1>2, <2>1 DEF Edge, Moved, Row, RideStatus
  <2>3. CommitRide(q, new) /\ Finish(q) /\ UNCHANGED books
    BY <1>5 DEF CommitArrived, CommitAndFinish
  <2> HIDE DEF new
  <2> QED BY <1>1, <2>2, <2>3, ProgressRaces
<1>6. CASE CommitStart(q)
  <2> DEFINE new == [copy EXCEPT !.status = "in_progress", !.startedAt = TRUE]
  <2>1. copy.status \in {"matched", "arrived"}
    BY <1>2, <1>6 DEF HandlerOK, CommitStart, At
  <2>2. new \in Row /\ Edge(copy, new) /\ new.completedAt = copy.completedAt
    BY <1>2, <2>1 DEF Edge, Moved, Row, RideStatus
  <2>3. CommitRide(q, new) /\ Finish(q) /\ UNCHANGED books
    BY <1>6 DEF CommitStart, CommitAndFinish
  <2> HIDE DEF new
  <2> QED BY <1>1, <2>2, <2>3, ProgressRaces
<1>7. CASE CommitCancelScheduled(q)
  <2> DEFINE new == Cancelled(copy)
  <2>1. copy.status = "scheduled"
    BY <1>2, <1>7 DEF MayCommit, CommitCancelScheduled, At
  <2>2. new \in Row /\ Edge(copy, new) /\ new.completedAt = copy.completedAt
    BY <1>2, <2>1, CancelledOK
       DEF Cancelled, Edge, Moved, Row, Lifecycle!Cancellable
  <2>3. CommitRide(q, new) /\ Finish(q) /\ UNCHANGED books
    BY <1>7 DEF CommitCancelScheduled, CommitAndFinish
  <2> HIDE DEF new
  <2> QED BY <1>1, <2>2, <2>3, ProgressRaces
<1> QED BY <1>3, <1>4, <1>5, <1>6, <1>7

LEMMA LoadProfileRaces ==
    ASSUME HistoryInv, RaceInv, task' = task, sched' = sched,
           NEW q \in Requests, LoadProfile(q)
    PROVE  RaceSound
<1> DEFINE h == [request[q] EXCEPT !.at = "commit",
                                   !.trips = trips[request[q].by]]
<1>1. /\ InTransaction(request[q]) /\ request[q].op = "complete"
      /\ rides' = rides /\ trips' = trips /\ intents' = intents
  BY DEF LoadProfile, At, InTransaction, books
<1>2. request[q] \in Handler /\ MayCommit(request[q])
  BY <1>1, HandlerKnows
<1>3. request' = [request EXCEPT ![q] = h]
  BY <1>2 DEF LoadProfile, HistoryInv, TypeOK, HandlersTypeOK, Handler
<1>4. /\ h.op = request[q].op /\ h.by = request[q].by
      /\ h.copy = request[q].copy /\ h.ride = request[q].ride
      /\ MayCommit(h) /\ InTransaction(h)
  BY <1>1, <1>2 DEF MayCommit, Handler, InTransaction, Idle
<1>5. Written /\ Counted
  BY <1>1, NothingWritten DEF Counted
<1> HIDE DEF h
<1> QED BY <1>1, <1>3, <1>4, <1>5, HandlerRace

\* The one step that completes a ride counts it, too.
LEMMA CompleteRaces ==
    ASSUME HistoryInv, RaceInv, task' = task, sched' = sched,
           NEW q \in Requests, CommitComplete(q)
    PROVE  RaceSound
<1> DEFINE r    == request[q].ride
           copy == request[q].copy
           new  == [copy EXCEPT !.status = "completed", !.completedAt = TRUE]
           h    == [request[q] EXCEPT !.at = "available", !.copy = NoRow]
<1>1. InTransaction(request[q]) /\ At(q, "complete", "commit")
  BY DEF CommitComplete, At, InTransaction
<1>2. /\ request[q] \in Handler /\ r \in Rides /\ copy \in Row
      /\ copy.status = "in_progress"
      /\ r \in Free => copy = rides[r]
  BY <1>1, HandlerKnows DEF HandlerOK, At
<1>3. new \in Row /\ Edge(copy, new)
  BY <1>2 DEF Row, RideStatus, Edge, Moved
<1>4. /\ Written
      /\ r \in Free => rides'[r] = new
      /\ \A x \in Rides \ {r} : rides'[x] = rides[x]
  <2>1. rides' = [rides EXCEPT ![r] = Flush(rides[r], copy, new)]
    BY <1>2 DEF CommitComplete
  <2> HIDE DEF new, r, copy
  <2> QED BY <1>2, <1>3, <2>1, CommitWrites
<1>5. trips' = [trips EXCEPT ![request[q].by] = request[q].trips + 1]
  BY DEF CommitComplete
<1>6. Counted
  BY <1>1, <1>2, <1>4, <1>5 DEF Counted, Completes, Free
<1>7. request' = [request EXCEPT ![q] = h]
  BY <1>2 DEF CommitComplete, Forget, HistoryInv, TypeOK, HandlersTypeOK, Handler
<1>8. h.op # "cancel" /\ ~InTransaction(h)
  BY <1>1, <1>2 DEF Handler, InTransaction, At
<1>9. intents' = intents
  BY DEF CommitComplete
<1> HIDE DEF h
<1> QED BY <1>4, <1>6, <1>7, <1>8, <1>9, DoneRaces

\* A free ride that is cancelled now was not before, so no fee has been asked
\* for.
LEMMA CancelRaces ==
    ASSUME HistoryInv, RaceInv, task' = task, sched' = sched,
           NEW q \in Requests, CommitCancel(q)
    PROVE  RaceSound
<1> DEFINE r    == request[q].ride
           copy == request[q].copy
           new  == Cancelled(copy)
           h    == [request[q] EXCEPT !.at = "release"]
<1>1. /\ InTransaction(request[q]) /\ At(q, "cancel", "commit")
      /\ trips' = trips /\ intents' = intents
  BY DEF CommitCancel, At, InTransaction, books
<1>2. /\ request[q] \in Handler /\ r \in Rides
      /\ copy \in Row /\ Consistent(copy)
      /\ copy.status \notin CannotCancel
      /\ r \in Free => copy = rides[r]
  BY <1>1, HandlerKnows DEF MayCommit, At
<1>3. /\ new \in Row /\ new.completedAt = copy.completedAt
      /\ new.status = "cancelled"
      /\ Edge(copy, new)
  BY <1>2, CancelledOK
     DEF Cancelled, Edge, Moved, Row, RideStatus, CannotCancel,
         Lifecycle!Cancellable
<1>4. Written /\ NoneCompleted /\ (r \in Free => rides'[r] = new)
  <2>1. rides' = [rides EXCEPT ![r] = Flush(rides[r], copy, new)]
    BY <1>2 DEF CommitCancel, CommitRide, CommitRow
  <2> HIDE DEF new, r, copy
  <2> QED BY ZenonT(30), <1>2, <1>3, <2>1, CommitWrites
<1>5. request' = [request EXCEPT ![q] = h]
  BY <1>2 DEF CommitCancel, Continue, HistoryInv, TypeOK, HandlersTypeOK, Handler
<1>6. /\ h.op = "cancel" /\ ~InTransaction(h) /\ h.ride = r
      /\ h.at = "release" /\ h # Idle
  BY <1>1, <1>2 DEF Handler, InTransaction, At, Idle
<1>7. /\ request'[q] = h
      /\ \A p \in Requests \ {q} : request'[p] = request[p]
  BY <1>5 DEF HistoryInv, TypeOK, HandlersTypeOK
<1>8. ASSUME NEW x \in Free PROVE IntentFits(x)'
  <2>1. IntentFits(x) /\ intents[x] \in Nat
    BY FreeFacts DEF HistoryInv, TypeOK, HandlersTypeOK
  <2>2. CASE x = r
    <3>1. Charging(r) = {} /\ intents[r] = 0
      BY <1>2, <2>1, <2>2 DEF IntentFits, CannotCancel
    <3>2. Charging(x)' = {q}
      BY <1>6, <1>7, <2>2, <3>1 DEF Charging
    <3>3. rides'[x].status = "cancelled"
      <4> HIDE DEF new
      <4> QED BY <1>3, <1>4, <2>2
    <3>4. intents'[x] = 0
      BY <1>1, <2>2, <3>1
    <3> QED BY <3>2, <3>3, <3>4 DEF IntentFits
  <2>3. CASE x # r
    <3>1. q \notin Charging(x)'
      BY <1>6, <1>7, <2>3 DEF Charging
    <3>2. /\ Charging(x)' \subseteq Charging(x)
          /\ \A p \in Charging(x)' : request'[p].at # "payment" =>
                                         request[p].at # "payment"
      BY <1>7, <3>1 DEF Charging
    <3> QED BY <1>1, <1>4, <3>2, IntentsStay
  <2> QED BY <2>2, <2>3
<1>9. Counted
  BY <1>1, <1>4 DEF Counted
<1> HIDE DEF h
<1> QED BY <1>4, <1>5, <1>6, <1>8, <1>9, HandlerMayStep

\* The intent that is made now for a free ride is the first, and its maker the
\* only one.
LEMMA IntentRaces ==
    ASSUME HistoryInv, RaceInv, task' = task, sched' = sched,
           NEW q \in Requests, CreateIntent(q)
    PROVE  RaceSound
<1> DEFINE h == [request[q] EXCEPT !.at = "payment"]
<1>1. /\ request[q] # Idle /\ request[q].op = "cancel"
      /\ request[q].at = "intent"
      /\ rides' = rides /\ trips' = trips
  BY DEF CreateIntent, At, tableVars
<1>2. request[q] \in Handler /\ request[q].ride \in Rides
  BY <1>1, HandlerFacts
<1>3. request' = [request EXCEPT ![q] = h]
  BY <1>2 DEF CreateIntent, Continue, HistoryInv, TypeOK, HandlersTypeOK, Handler
<1>4. /\ h.op = "cancel" /\ ~InTransaction(h) /\ h.ride = request[q].ride
      /\ h.at = "payment" /\ h # Idle
  BY <1>1, <1>2 DEF Handler, InTransaction, Idle
<1>5. Written /\ Counted
  BY <1>1, NothingWritten DEF Counted
<1>6. /\ request'[q] = h
      /\ \A p \in Requests \ {q} : request'[p] = request[p]
  BY <1>3 DEF HistoryInv, TypeOK, HandlersTypeOK
<1>7. ASSUME NEW x \in Free PROVE IntentFits(x)'
  <2>1. IntentFits(x) /\ intents \in [Rides -> Nat] /\ x \in Rides
    BY FreeFacts DEF HistoryInv, TypeOK, HandlersTypeOK
  <2>2. Charging(x)' = Charging(x)
    <3>1. ~InTransaction(request[q])
      BY <1>1 DEF InTransaction
    <3> HIDE DEF h
    <3> QED BY <1>1, <1>4, <1>6, <3>1 DEF Charging
  <2>3. CASE x = request[q].ride
    <3>1. q \in Charging(x)
      BY <1>1, <2>3 DEF Charging, InTransaction
    <3>2. intents[x] = 0 /\ rides[x].status = "cancelled" /\ Charging(x) = {q}
      BY <1>1, <2>1, <3>1 DEF IntentFits
    <3>3. intents'[x] = 1
      BY <2>1, <2>3, <3>2 DEF CreateIntent
    <3>4. request'[q].at = "payment" /\ rides'[x].status = "cancelled"
      BY <1>1, <1>4, <1>6, <3>2
    <3> QED BY <2>2, <3>2, <3>3, <3>4 DEF IntentFits
  <2>4. CASE x # request[q].ride
    <3>1. intents'[x] = intents[x] /\ q \notin Charging(x)
      BY <2>1, <2>4 DEF CreateIntent, Charging
    <3>2. \A p \in Charging(x) : request'[p] = request[p]
      BY <1>6, <3>1 DEF Charging
    <3> QED BY <1>1, <2>1, <2>2, <3>1, <3>2 DEF IntentFits
  <2> QED BY <2>3, <2>4
<1> HIDE DEF h
<1> QED BY <1>3, <1>4, <1>5, <1>7, HandlerMayStep

\* The other steps after a COMMIT, and a handler's death.
LEMMA AfterRaces ==
    ASSUME HistoryInv, RaceInv, task' = task, sched' = sched,
           NEW q \in Requests,
           \/ BusyAfterAccept(q)
           \/ AvailableAfterComplete(q)
           \/ ReleaseDriver(q)
           \/ LookupFee(q)
           \/ InsertFee(q)
           \/ RequestFails(q)
    PROVE  RaceSound
<1> USE DEF BusyAfterAccept, AvailableAfterComplete, ReleaseDriver, LookupFee,
        InsertFee, RequestFails
<1>1. /\ request[q] # Idle
      /\ rides' = rides /\ trips' = trips /\ intents' = intents
  BY DEF At, tableVars, books
<1>2. request[q] \in Handler
  BY <1>1, HandlerFacts
<1>3. Written /\ Counted
  BY <1>1, NothingWritten DEF Counted
<1>4. CASE Finish(q)
  BY <1>1, <1>3, <1>4, DoneRaces DEF Finish
<1>5. CASE ReleaseDriver(q) /\ Forget(q, "fee")
  <2> DEFINE h == [request[q] EXCEPT !.at = "fee", !.copy = NoRow]
  <2>1. request' = [request EXCEPT ![q] = h]
    BY <1>2, <1>5 DEF Forget, HistoryInv, TypeOK, HandlersTypeOK, Handler
  <2>2. /\ request[q].op = "cancel" /\ request[q].at = "release"
        /\ h.ride = request[q].ride /\ h.op = "cancel" /\ h.at = "fee"
    BY <1>2, <1>5 DEF Handler, At
  <2>3. ~InTransaction(h) /\ ~InTransaction(request[q])
    BY <2>2 DEF InTransaction
  <2> HIDE DEF h
  <2> QED BY <1>1, <1>3, <2>1, <2>2, <2>3, HandlerRace
<1>6. CASE LookupFee(q) /\ Continue(q, "intent")
  <2> DEFINE h == [request[q] EXCEPT !.at = "intent"]
  <2>1. request' = [request EXCEPT ![q] = h]
    BY <1>2, <1>6 DEF Continue, HistoryInv, TypeOK, HandlersTypeOK, Handler
  <2>2. /\ request[q].op = "cancel" /\ request[q].at = "fee"
        /\ h.ride = request[q].ride /\ h.op = "cancel" /\ h.at = "intent"
    BY <1>2, <1>6 DEF Handler, At
  <2>3. ~InTransaction(h) /\ ~InTransaction(request[q])
    BY <2>2 DEF InTransaction
  <2> HIDE DEF h
  <2> QED BY <1>1, <1>3, <2>1, <2>2, <2>3, HandlerRace
<1> QED BY <1>4, <1>5, <1>6

LEMMA HandlingRaces ==
    ASSUME HistoryInv, RaceInv, Handling
    PROVE  RaceSound
<1>1. task' = task /\ sched' = sched
  BY DEF Handling
<1> PICK q \in Requests :
        HandlerLoad(q) \/ HandlerContinue(q) \/ RequestFails(q)
  BY DEF Handling, HandlerStep
<1>2. CASE HandlerLoad(q)
  BY <1>1, <1>2, LoadRaces
<1>3. CASE HandlerContinue(q)
  BY <1>1, <1>3, CommitRaces, LoadProfileRaces, CompleteRaces, CancelRaces,
     IntentRaces, AfterRaces DEF HandlerContinue
<1>4. CASE RequestFails(q)
  BY <1>1, <1>4, AfterRaces
<1> QED BY <1>2, <1>3, <1>4

-----------------------------------------------------------------------------
(* The sessions that are not handlers: what they have to establish.        *)

LEMMA OthersRace ==
    ASSUME HistoryInv, RaceInv, UNCHANGED handlerVars, Written, NoneCompleted,
           \A x \in Rides : task'[x].at \in {"find", "commit"} =>
               /\ task'[x].copy.status = "requested"
               /\ \/ task'[x].copy = rides'[x]
                  \/ /\ task[x].at \in {"find", "commit"}
                     /\ task'[x].copy = task[x].copy,
           \A s \in Schedulers : LoopMay(sched'[s]),
           \A s \in Schedulers, x \in Free : LoopHolds(sched'[s], x) =>
               \/ sched'[s].copies[x] = rides'[x]
               \/ /\ LoopHolds(sched[s], x)
                  /\ sched'[s].copies[x] = sched[s].copies[x]
    PROVE  RaceSound
<1>1. request' = request /\ trips' = trips /\ intents' = intents
  BY DEF handlerVars, books
<1>2. Fresh
  <2> SUFFICES ASSUME NEW r \in Free, Outdated(r)'
               PROVE  rides'[r] # rides[r] /\ Held(r)
    BY DEF Fresh
  <2>1. ASSUME NEW q \in Requests, InTransaction(request[q]),
               request[q].ride = r, request[q].copy # rides'[r]
        PROVE  rides'[r] # rides[r] /\ Held(r)
    BY <2>1, FreeFacts DEF Held
  <2>2. CASE task'[r].at \in {"find", "commit"} /\ task'[r].copy # rides'[r]
    BY <2>2, FreeFacts DEF Held
  <2>3. ASSUME NEW s \in Schedulers, LoopHolds(sched'[s], r),
               sched'[s].copies[r] # rides'[r]
        PROVE  rides'[r] # rides[r] /\ Held(r)
    <3>1. LoopHolds(sched[s], r) /\ sched'[s].copies[r] = sched[s].copies[r]
      BY <2>3
    <3> QED BY <2>3, <3>1, FreeFacts DEF Held
  <2> QED BY <1>1, <2>1, <2>2, <2>3 DEF Outdated
<1>3. HandlersMay' /\ TasksMay'
  BY <1>1 DEF RaceInv, HandlersMay, TasksMay
<1>4. \A q \in Requests : Drives(request'[q])
  BY <1>1, DrivesStays
<1>5. ASSUME NEW r \in Free PROVE IntentFits(r)'
  <2>1. Charging(r)' = Charging(r)
    BY <1>1 DEF Charging
  <2> QED BY <1>1, <2>1, IntentsStay
<1> QED BY <1>1, <1>2, <1>3, <1>4, <1>5 DEF RaceSound, Counted

-----------------------------------------------------------------------------
(* New rides and their tasks.                                              *)

\* Nobody holds a row that is not there yet.
LEMMA NewRideRaces ==
    ASSUME HistoryInv, RaceInv, NewRide
    PROVE  RaceSound
<1> PICK r \in Rides :
        /\ \/ RequestRide(r) /\ QueueMatching(r)
           \/ ScheduleRide(r) /\ UNCHANGED task
        /\ UNCHANGED sched
  BY DEF NewRide
<1> PICK status \in {"requested", "scheduled"} :
        rides' = [rides EXCEPT ![r].status = status]
  BY DEF RequestRide, ScheduleRide
<1> DEFINE new == [NoRow EXCEPT !.status = status]
<1>1. /\ rides[r] = NoRow /\ rides \in [Rides -> Row]
      /\ UNCHANGED handlerVars /\ sched' = sched
  BY DEF RequestRide, ScheduleRide, handlerVars, HistoryInv, TypeOK, TableTypeOK
<1>2. rides' = [rides EXCEPT ![r] = new] /\ new \in Row
  BY <1>1, NoRowOK DEF Row, RideStatus
<1>3. Edge(rides[r], new) /\ new.completedAt = rides[r].completedAt
  BY <1>1 DEF Edge, Moved, NoRow
<1>4. Written /\ NoneCompleted
  <2>1. rides'[r] = new /\ \A x \in Rides \ {r} : rides'[x] = rides[x]
    BY <1>1, <1>2
  <2> HIDE DEF new
  <2> QED BY <1>3, <2>1 DEF Written, NoneCompleted, Edge, Free
<1>5. ASSUME NEW x \in Rides, task'[x].at \in {"find", "commit"}
      PROVE  task'[x] = task[x]
  BY <1>5 DEF QueueMatching, HistoryInv, TypeOK, TaskTypeOK, TaskType
<1> HIDE DEF new
<1> QED BY <1>1, <1>4, <1>5, OthersRace DEF RaceInv, TasksMay, LoopsMay

LEMMA TaskRace ==
    ASSUME HistoryInv, RaceInv, UNCHANGED handlerVars, sched' = sched,
           Written, NoneCompleted, NEW r \in Rides, NEW t,
           task' = [task EXCEPT ![r] = t],
           t.at \in {"find", "commit"} =>
               /\ t.copy.status = "requested"
               /\ \/ t.copy = rides'[r]
                  \/ task[r].at \in {"find", "commit"} /\ t.copy = task[r].copy
    PROVE  RaceSound
<1>1. task'[r] = t /\ \A x \in Rides \ {r} : task'[x] = task[x]
  BY DEF HistoryInv, TypeOK, TaskTypeOK
<1> QED BY <1>1, OthersRace DEF RaceInv, TasksMay, LoopsMay

LEMMA MatchingRaces ==
    ASSUME HistoryInv, RaceInv, Matching
    PROVE  RaceSound
<1> PICK r \in Rides : TaskStep(r)
  BY DEF Matching
<1>1. /\ UNCHANGED handlerVars /\ sched' = sched
      /\ task \in [Rides -> TaskType] /\ TaskOK(task[r], rides[r])
      /\ task[r].at \in {"find", "commit"} =>
             /\ task[r].copy.status = "requested"
             /\ r \in Free => task[r].copy = rides[r]
  BY FreeFacts DEF Matching, HistoryInv, TypeOK, TaskTypeOK, TasksOK,
     RaceInv, TasksMay
<1>2. CASE EndTask(r) /\ rides' = rides
  <2>1. NoTask.at \notin {"find", "commit"}
    BY DEF NoTask
  <2> QED BY <1>1, <1>2, <2>1, NothingWritten, TaskRace DEF EndTask
<1>3. CASE LoadForMatching(r)
  <2>1. rides' = rides
    BY <1>3 DEF LoadForMatching, tableVars
  <2>2. CASE EndTask(r)
    BY <1>2, <2>1, <2>2
  <2>3. CASE ~EndTask(r)
    <3> DEFINE t == [task[r] EXCEPT !.at = "find", !.copy = rides[r]]
    <3>1. task' = [task EXCEPT ![r] = t] /\ rides[r].status = "requested"
      BY <1>1, <1>3, <2>3 DEF LoadForMatching, TaskType
    <3>2. t.copy = rides[r]
      BY <1>1 DEF TaskType
    <3> HIDE DEF t
    <3> QED BY <1>1, <2>1, <3>1, <3>2, NothingWritten, TaskRace
  <2> QED BY <2>2, <2>3
<1>4. CASE FindDriver(r)
  <2> PICK d \in Candidates :
          task' = [task EXCEPT ![r].at = "commit", ![r].found = d]
    BY <1>4 DEF FindDriver
  <2> DEFINE t == [task[r] EXCEPT !.at = "commit", !.found = d]
  <2>1. /\ task' = [task EXCEPT ![r] = t] /\ rides' = rides
        /\ t.copy = task[r].copy /\ task[r].at = "find"
    BY <1>1, <1>4 DEF FindDriver, tableVars, TaskType
  <2>2. Written /\ NoneCompleted
    BY <2>1, NothingWritten
  <2>3. t.copy.status = "requested"
    BY <1>1, <2>1
  <2> HIDE DEF t
  <2> QED BY <1>1, <2>1, <2>2, <2>3, TaskRace
<1>5. CASE CommitMatch(r)
  <2> DEFINE copy == task[r].copy
             new == Matched(copy, task[r].found)
             t == [task[r] EXCEPT !.at = "busy", !.copy = NoRow]
  <2>1. /\ copy.status = "requested"
        /\ r \in Free => copy = rides[r]
        /\ copy \in Row /\ Consistent(copy)
        /\ task[r].found \in Drivers
    BY <1>1, <1>5 DEF CommitMatch, TaskOK, CopyOK, TaskType
  <2>2. new \in Row /\ Edge(copy, new) /\ new.completedAt = copy.completedAt
    BY <2>1, MatchedOK DEF Matched, Edge, Moved, Row
  <2>3. rides' = [rides EXCEPT ![r] = Flush(rides[r], copy, new)]
    BY <1>5 DEF CommitMatch, CommitRow
  <2>4. Written /\ NoneCompleted
    <3> HIDE DEF new, copy
    <3> QED BY ZenonT(30), <1>1, <2>1, <2>2, <2>3, CommitWrites
  <2>5. task' = [task EXCEPT ![r] = t] /\ t.at = "busy"
    BY <1>1, <1>5 DEF CommitMatch, TaskType
  <2> HIDE DEF t, new
  <2> QED BY <1>1, <2>4, <2>5, TaskRace
<1>6. CASE BusyAfterMatch(r) \/ MatchingFails(r)
  BY <1>2, <1>6 DEF BusyAfterMatch, MatchingFails, tableVars
<1> QED BY <1>3, <1>4, <1>5, <1>6 DEF TaskStep

-----------------------------------------------------------------------------
(* The schedulers.                                                         *)

\* A step of the loop of s, which becomes l.
LEMMA LoopRace ==
    ASSUME HistoryInv, RaceInv, NEW s \in Schedulers,
           UNCHANGED <<handlerVars, task>>, Written, NoneCompleted,
           NEW l, sched' = [sched EXCEPT ![s] = l], LoopMay(l),
           \A x \in Free : LoopHolds(l, x) =>
               \/ l.copies[x] = rides'[x]
               \/ /\ LoopHolds(sched[s], x)
                  /\ l.copies[x] = sched[s].copies[x]
    PROVE  RaceSound
<1>1. sched'[s] = l /\ \A z \in Schedulers \ {s} : sched'[z] = sched[z]
  BY DEF HistoryInv, TypeOK, SchedTypeOK
<1>2. \A z \in Schedulers : LoopMay(sched'[z])
  BY <1>1 DEF RaceInv, LoopsMay
<1> QED BY <1>1, <1>2, OthersRace DEF RaceInv, TasksMay

LEMMA LoopKnows ==
    ASSUME HistoryInv, RaceInv, NEW s \in Schedulers
    PROVE  /\ sched \in [Schedulers -> SchedType] /\ sched[s] \in SchedType
           /\ LoopOK(sched[s], rides)
           /\ LoopMay(sched[s])
           /\ sched[s].todo \subseteq Rides
           /\ \A r \in Free : LoopHolds(sched[s], r) =>
                  /\ sched[s].copies[r] = rides[r]
                  /\ rides[r] \in Row /\ Consistent(rides[r])
BY LoopFacts, FreeFacts DEF HistoryInv, TypeOK, SchedTypeOK, SchedType,
   RaceInv, LoopsMay

\* The loop has put ride r aside; nothing else changes but perhaps its row.
LEMMA DropRaces ==
    ASSUME HistoryInv, RaceInv, NEW s \in Schedulers,
           UNCHANGED <<handlerVars, task>>, NEW r \in Rides,
           sched[s].ride \in {r, NoRide},
           Drop(s, r), Written, NoneCompleted
    PROVE  RaceSound
<1> DEFINE l == [sched[s] EXCEPT !.at = "next", !.todo = @ \ {r},
                                 !.copies[r] = NoRow, !.ride = NoRide,
                                 !.found = NoDriver]
<1>1. /\ sched[s] \in SchedType /\ LoopMay(sched[s])
      /\ sched[s].todo \subseteq Rides
  BY LoopKnows
<1>2. sched' = [sched EXCEPT ![s] = l]
  BY <1>1, LoopKnows DEF Drop, SchedType
<1>3. /\ l.at = "next" /\ l.ride = NoRide /\ l.todo = sched[s].todo \ {r}
      /\ l.phase = sched[s].phase
      /\ \A x \in Rides \ {r} : l.copies[x] = sched[s].copies[x]
  BY <1>1 DEF SchedType
<1> HIDE DEF l
<1>4. ASSUME NEW x \in l.todo
      PROVE  /\ LoopHolds(sched[s], x) /\ sched[s].ride # x /\ l.ride # x
             /\ l.copies[x] = sched[s].copies[x]
  <2>1. x \in sched[s].todo /\ x # r /\ x \in Rides /\ x # NoRide
    BY <1>1, <1>3, <1>4, SchedulerAssumption
  <2> QED BY <1>3, <2>1 DEF LoopHolds
<1>5. LoopMay(l)
  BY <1>1, <1>3, <1>4 DEF LoopMay
<1>6. \A x \in Free : LoopHolds(l, x) =>
          LoopHolds(sched[s], x) /\ l.copies[x] = sched[s].copies[x]
  BY <1>4 DEF LoopHolds
<1> QED BY <1>2, <1>5, <1>6, LoopRace

\* The loop has committed its copy of ride r, which is now "new".
LEMMA CopyRaces ==
    ASSUME HistoryInv, RaceInv, NEW s \in Schedulers,
           UNCHANGED <<handlerVars, task>>, NEW r \in sched[s].todo,
           sched[s].at # "busy", sched[s].ride \in {r, NoRide},
           NEW new, NEW next \in {"refresh", "find", "busy"},
           r \in Free => /\ new \in Row /\ Edge(rides[r], new)
                         /\ new.completedAt = rides[r].completedAt
                         /\ next # "busy" => new.status = "requested",
           CommitCopy(s, r, new, next)
    PROVE  RaceSound
<1> DEFINE l == [sched[s] EXCEPT !.at = next, !.ride = r, !.copies[r] = new]
<1>1. /\ sched[s] \in SchedType /\ LoopMay(sched[s])
      /\ sched[s].todo \subseteq Rides /\ r \in Rides /\ r # NoRide
  BY LoopKnows, SchedulerAssumption
<1>2. r \in Free => sched[s].copies[r] = rides[r]
  <2>1. LoopHolds(sched[s], r)
    BY DEF LoopHolds
  <2> QED BY <2>1, LoopKnows
<1>3. rides' = [rides EXCEPT ![r] = Flush(rides[r], sched[s].copies[r], new)]
  BY DEF CommitCopy, CommitRow
<1>4. Written /\ NoneCompleted /\ (r \in Free => rides'[r] = new)
  <2> DEFINE copy == sched[s].copies[r]
  <2>1. /\ r \in Rides
        /\ rides' = [rides EXCEPT ![r] = Flush(rides[r], copy, new)]
    BY <1>1, <1>3
  <2>2. r \in Free => copy = rides[r] /\ new \in Row /\ Edge(rides[r], new)
    BY <1>2
  <2>3. r \in Free => new.completedAt = rides[r].completedAt
    OBVIOUS
  <2> HIDE DEF copy, l
  <2> QED BY ONLY HistoryInv, RaceInv, <2>1, <2>2, <2>3, CommitWrites
<1>5. sched' = [sched EXCEPT ![s] = l]
  BY <1>1, LoopKnows DEF CommitCopy, SchedType
<1>6. /\ l.at = next /\ l.ride = r /\ l.todo = sched[s].todo
      /\ l.phase = sched[s].phase /\ l.copies[r] = new
      /\ \A x \in Rides \ {r} : l.copies[x] = sched[s].copies[x]
  BY <1>1 DEF SchedType
<1> HIDE DEF l
<1>7. ASSUME NEW x \in l.todo, x # r
      PROVE  /\ LoopHolds(sched[s], x) /\ sched[s].ride # x
             /\ l.copies[x] = sched[s].copies[x]
  <2>1. x \in Rides /\ x # NoRide
    BY <1>1, <1>6, <1>7, SchedulerAssumption
  <2> QED BY <1>6, <1>7, <2>1 DEF LoopHolds
<1>8. LoopMay(l)
  BY <1>1, <1>6, <1>7 DEF LoopMay, LoopHolds, Free
<1>9. \A x \in Free : LoopHolds(l, x) =>
          \/ l.copies[x] = rides'[x]
          \/ LoopHolds(sched[s], x) /\ l.copies[x] = sched[s].copies[x]
  BY <1>4, <1>6, <1>7 DEF LoopHolds
<1> QED BY <1>4, <1>5, <1>8, <1>9, LoopRace

LEMMA SkipRaces ==
    ASSUME HistoryInv, RaceInv, NEW s \in Schedulers,
           UNCHANGED <<handlerVars, task>>, rides' = rides, NEW r \in Rides,
           sched[s].ride \in {r, NoRide}, Drop(s, r)
    PROVE  RaceSound
BY NothingWritten, DropRaces

LEMMA QueryRaces ==
    ASSUME HistoryInv, RaceInv, NEW s \in Schedulers,
           UNCHANGED <<handlerVars, task>>,
           QueryScheduled(s) \/ QueryUnmatched(s)
    PROVE  RaceSound
<1> PICK phase \in {"dispatch", "retry"}, wanted \in SUBSET Rides :
        /\ Query(s, phase, wanted)
        /\ \A r \in wanted :
               rides[r].status = IF phase = "dispatch" THEN "scheduled"
                                                       ELSE "requested"
  BY DEF QueryScheduled, QueryUnmatched, Rows
<1> DEFINE copies == [r \in Rides |-> IF r \in wanted THEN rides[r] ELSE NoRow]
           l == [sched[s] EXCEPT !.at = "next", !.todo = wanted,
                                 !.copies = copies]
<1>1. /\ sched[s] \in SchedType /\ rides' = rides
      /\ sched[s].ride = NoRide /\ sched[s].phase = phase
  BY LoopKnows DEF Query, tableVars, LoopMay
<1>2. sched' = [sched EXCEPT ![s] = l]
  BY <1>1, LoopKnows DEF Query, SchedType
<1>3. /\ l.at = "next" /\ l.todo = wanted /\ l.copies = copies
      /\ l.ride = NoRide /\ l.phase = phase
  BY <1>1 DEF SchedType
<1>4. \A r \in wanted : copies[r] = rides[r] /\ r # NoRide
  BY SchedulerAssumption
<1> HIDE DEF l, copies
<1>5. LoopMay(l)
  BY <1>3, <1>4 DEF LoopMay
<1>6. \A x \in Free : LoopHolds(l, x) => l.copies[x] = rides'[x]
  BY <1>1, <1>3, <1>4 DEF LoopHolds
<1> QED BY <1>1, <1>2, <1>5, <1>6, NothingWritten, LoopRace

LEMMA TakeRideRaces ==
    ASSUME HistoryInv, RaceInv, NEW s \in Schedulers,
           UNCHANGED <<handlerVars, task>>, NEW r \in Rides, TakeRide(s, r)
    PROVE  RaceSound
<1> DEFINE copy == sched[s].copies[r]
<1>1. /\ sched[s] \in SchedType /\ LoopMay(sched[s])
      /\ r \in sched[s].todo /\ sched[s].at = "next"
      /\ sched[s].ride = NoRide /\ r # NoRide
  BY LoopKnows, SchedulerAssumption
     DEF TakeRide, SkipNotDue, SkipBackoff, DispatchRide, CountRetry,
         CancelExhausted, Takes, LoopMay
<1>2. LoopHolds(sched[s], r)
  BY <1>1 DEF LoopHolds
<1>3. r \in Free =>
          /\ copy = rides[r] /\ rides[r] \in Row /\ Consistent(rides[r])
          /\ rides[r].status = IF sched[s].phase = "dispatch"
                               THEN "scheduled" ELSE "requested"
  BY <1>1, <1>2, LoopKnows DEF LoopMay, Free
<1>4. CASE SkipNotDue(s, r) \/ SkipBackoff(s, r)
  BY <1>1, <1>4, SkipRaces DEF SkipNotDue, SkipBackoff, Skip, tableVars
<1>5. CASE DispatchRide(s, r)
  <2> DEFINE new == [copy EXCEPT !.status = "requested"]
  <2>1. r \in Free =>
            /\ new \in Row /\ Edge(rides[r], new) /\ new.status = "requested"
            /\ new.completedAt = rides[r].completedAt
    BY <1>3, <1>5 DEF DispatchRide, Takes, Edge, Moved, Row, RideStatus
  <2>2. CommitCopy(s, r, new, "refresh")
    BY <1>5 DEF DispatchRide
  <2> HIDE DEF new
  <2> QED BY <1>1, <2>1, <2>2, CopyRaces
<1>6. CASE CountRetry(s, r)
  <2> DEFINE new == [copy EXCEPT !.retries = @ + 1]
  <2>1. r \in Free => rides[r].retries + 1 \in 0 .. MaxRetries
    BY <1>3, <1>6, TableAssumption DEF CountRetry, Exhausted, Row
  <2>2. r \in Free =>
            /\ new \in Row /\ Edge(rides[r], new) /\ new.status = "requested"
            /\ new.completedAt = rides[r].completedAt
    BY <1>3, <1>6, <2>1 DEF CountRetry, Takes, Edge, Moved, Row
  <2>3. CommitCopy(s, r, new, "find")
    BY <1>6 DEF CountRetry
  <2> HIDE DEF new
  <2> QED BY <1>1, <2>2, <2>3, CopyRaces
<1>7. CASE CancelExhausted(s, r)
  <2> DEFINE new == Cancelled(copy)
  <2>1. r \in Free =>
            /\ copy = rides[r] /\ new \in Row /\ Edge(rides[r], new)
            /\ new.completedAt = rides[r].completedAt
    BY <1>3, <1>7, CancelledOK
       DEF CancelExhausted, Takes, Cancelled, Edge, Moved, Row,
           Lifecycle!Cancellable
  <2>2. rides' = [rides EXCEPT ![r] = Flush(rides[r], copy, new)]
    BY <1>7 DEF CancelExhausted, CommitRow
  <2> HIDE DEF new, copy
  <2>3. Written /\ NoneCompleted
    BY <2>1, <2>2, CommitWrites
  <2> QED BY <1>1, <1>7, <2>3, DropRaces DEF CancelExhausted
<1> QED BY <1>4, <1>5, <1>6, <1>7 DEF TakeRide

\* What the loop does with the ride it is busy with.
LEMMA RideStepRaces ==
    ASSUME HistoryInv, RaceInv, NEW s \in Schedulers,
           UNCHANGED <<handlerVars, task>>,
           \/ RefreshRide(s)
           \/ ScheduledFind(s)
           \/ ScheduledMatch(s)
           \/ ScheduledBusy(s)
           \/ ScheduledFails(s)
    PROVE  RaceSound
<1> DEFINE r == sched[s].ride
<1>1. /\ sched[s] \in SchedType /\ LoopMay(sched[s])
      /\ LoopOK(sched[s], rides)
      /\ sched[s].at \in {"refresh", "find", "commit", "busy"}
      /\ r \in Rides /\ r # NoRide
  BY LoopKnows, SchedulerAssumption
     DEF RefreshRide, ScheduledFind, ScheduledMatch, ScheduledBusy,
         ScheduledFails, LoopOK
<1>2. ASSUME sched[s].at # "busy"
      PROVE  /\ r \in sched[s].todo
             /\ r \in Free =>
                  /\ Copy(s) = rides[r] /\ rides[r].status = "requested"
                  /\ rides[r] \in Row /\ Consistent(rides[r])
  <2>1. r \in sched[s].todo /\ LoopHolds(sched[s], r)
    BY <1>1, <1>2 DEF LoopMay, LoopHolds
  <2> QED BY <1>1, <2>1, LoopKnows DEF LoopMay, Free, Copy
<1>3. ASSUME NEW at \in {"find", "commit"}, NEW found, NEW copy,
             r \in Free => copy = rides[r],
             sched[s].at # "busy", rides' = rides,
             sched' = [sched EXCEPT ![s] = [sched[s] EXCEPT
                           !.at = at, !.found = found, !.copies[r] = copy]]
      PROVE  RaceSound
  <2> DEFINE l == [sched[s] EXCEPT !.at = at, !.found = found,
                                   !.copies[r] = copy]
  <2>1. /\ l.at = at /\ l.ride = r /\ l.todo = sched[s].todo
        /\ l.phase = sched[s].phase /\ l.copies[r] = copy
        /\ \A x \in Rides \ {r} : l.copies[x] = sched[s].copies[x]
    BY <1>1 DEF SchedType
  <2>2. \A x \in l.todo : LoopHolds(l, x) => LoopHolds(sched[s], x)
    BY <1>3, <2>1 DEF LoopHolds
  <2>3. sched' = [sched EXCEPT ![s] = l]
    BY <1>3
  <2> HIDE DEF l
  <2>4. LoopMay(l)
    <3>1. l.ride \in l.todo /\ l.at \in {"find", "commit"}
      BY <1>2, <1>3, <2>1
    <3>2. ASSUME NEW x \in l.todo \ overtaken, LoopHolds(l, x)
          PROVE  l.copies[x].status = IF l.phase = "dispatch" /\ l.ride # x
                                      THEN "scheduled" ELSE "requested"
      <4>1. x \in Rides /\ x \in Free /\ LoopHolds(sched[s], x)
        BY <2>1, <2>2, <3>2, LoopKnows DEF Free
      <4>2. CASE x = r
        BY <1>2, <1>3, <2>1, <4>1, <4>2
      <4>3. CASE x # r
        BY <1>1, <2>1, <3>2, <4>1, <4>3 DEF LoopMay
      <4> QED BY <4>2, <4>3
    <3> QED BY <3>1, <3>2 DEF LoopMay
  <2>5. ASSUME NEW x \in Free, LoopHolds(l, x)
        PROVE  \/ l.copies[x] = rides'[x]
               \/ LoopHolds(sched[s], x) /\ l.copies[x] = sched[s].copies[x]
    <3>1. x \in Rides /\ LoopHolds(sched[s], x)
      BY <2>2, <2>5 DEF LoopHolds, Free
    <3> QED BY <1>3, <2>1, <2>5, <3>1
  <2> QED BY <1>3, <2>3, <2>4, <2>5, NothingWritten, LoopRace
<1>4. CASE RefreshRide(s)
  <2>1. sched' = [sched EXCEPT ![s] = [sched[s] EXCEPT
                      !.at = "find", !.found = sched[s].found,
                      !.copies[r] = rides[r]]]
    BY <1>1, <1>4, LoopKnows DEF RefreshRide, SchedType
  <2> QED BY <1>3, <1>4, <2>1 DEF RefreshRide, tableVars
<1>5. CASE ScheduledFind(s)
  <2> PICK d \in SchedulerCandidates :
          sched' = [sched EXCEPT ![s].at = "commit", ![s].found = d]
    BY <1>5 DEF ScheduledFind
  <2>1. [sched[s].copies EXCEPT ![r] = Copy(s)] = sched[s].copies
    BY <1>1 DEF Copy, SchedType
  <2>2. [sched[s] EXCEPT !.at = "commit", !.found = d, !.copies[r] = Copy(s)]
            = [sched[s] EXCEPT !.at = "commit", !.found = d]
    BY <1>1, <2>1 DEF SchedType
  <2>3. sched' = [sched EXCEPT ![s] = [sched[s] EXCEPT
                      !.at = "commit", !.found = d, !.copies[r] = Copy(s)]]
    BY <1>1, <2>2, LoopKnows DEF SchedType
  <2> QED BY <1>2, <1>3, <1>5, <2>3 DEF ScheduledFind, tableVars
<1>6. CASE ScheduledMatch(s)
  <2> DEFINE new == Matched(Copy(s), sched[s].found)
  <2>1. sched[s].at = "commit" /\ sched[s].found \in Drivers
    BY <1>1, <1>6 DEF ScheduledMatch, LoopOK, SchedType
  <2>2. r \in Free => /\ new \in Row /\ Edge(rides[r], new)
                      /\ new.completedAt = rides[r].completedAt
    BY <1>2, <2>1, MatchedOK DEF Matched, Edge, Moved, Row
  <2>3. CommitCopy(s, r, new, "busy")
    BY <1>6 DEF ScheduledMatch
  <2> HIDE DEF new
  <2> QED BY <1>2, <2>1, <2>2, <2>3, CopyRaces
<1>7. CASE ScheduledBusy(s) \/ ScheduledFails(s)
  BY <1>1, <1>7, SkipRaces DEF ScheduledBusy, ScheduledFails, Skip, tableVars
<1> QED BY <1>4, <1>5, <1>6, <1>7

LEMMA DispatchingRaces ==
    ASSUME HistoryInv, RaceInv, Dispatching
    PROVE  RaceSound
<1> PICK s \in Schedulers : SchedStep(s)
  BY DEF Dispatching
<1>1. UNCHANGED <<handlerVars, task>>
  BY DEF Dispatching
<1>2. ASSUME NextPhase(s) \/ PhaseAborts(s) PROVE RaceSound
  <2> PICK phase \in {"dispatch", "retry"} : EndPhase(s, phase)
    BY <1>2 DEF NextPhase, PhaseAborts
  <2>1. LoopMay(Phase(phase)) /\ \A x : ~LoopHolds(Phase(phase), x)
    BY DEF Phase, LoopMay, LoopHolds
  <2> QED BY <1>1, <2>1, NothingWritten, LoopRace DEF EndPhase, tableVars
<1> QED
  BY <1>1, <1>2, QueryRaces, TakeRideRaces, RideStepRaces
     DEF SchedStep, SchedProgress

-----------------------------------------------------------------------------
(* The system.                                                             *)

LEMMA InitRaces == Init /\ WatchInit => RaceInv
<1> SUFFICES ASSUME Init, WatchInit PROVE RaceInv
  OBVIOUS
<1> USE DEF Init
<1>1. /\ \A q \in Requests : request[q] = Idle
      /\ \A r \in Rides : /\ task[r] = NoTask /\ rides[r] = NoRow
                          /\ intents[r] = 0
      /\ \A s \in Schedulers : sched[s] = Phase("dispatch")
      /\ \A d \in Drivers : trips[d] = 0
      /\ overtaken = {} /\ affected = {}
  BY DEF HandlersInit, TaskInit, SchedInit, TableInit, WatchInit
<1>2. Overtaken = {} /\ Affected = {}
  BY <1>1 DEF Overtaken, Outdated, InTransaction, NoTask, LoopHolds, Phase,
     Affected, Counting, At
<1>3. HandlersMay /\ TasksMay /\ CompletersAffected
  BY <1>1 DEF HandlersMay, TasksMay, CompletersAffected, InTransaction, NoTask
<1>4. LoopsMay
  BY <1>1 DEF LoopsMay, LoopMay, Phase
<1>5. \A r \in Rides : Orderly(rides[r]) /\ IntentFits(r)
  BY <1>1 DEF Orderly, NoRow, IntentFits, Charging
<1>6. ASSUME NEW d \in Drivers PROVE TripsFit(d)
  <2>1. CompletedBy(d) = {}
    BY <1>1 DEF CompletedBy, NoRow
  <2> QED BY <1>1, <2>1, FS_EmptySet DEF TripsFit
<1> QED BY <1>1, <1>2, <1>3, <1>4, <1>5, <1>6 DEF RaceInv

LEMMA NextRaces ==
    ASSUME HistoryInv, RaceInv, Next
    PROVE  RaceSound
<1>1. CASE Presence
  <2>1. /\ rides' = rides /\ UNCHANGED handlerVars
        /\ task' = task /\ sched' = sched
    BY <1>1 DEF Presence, tableVars
  <2> QED
    BY <2>1, NothingWritten, OthersRace DEF RaceInv, TasksMay, LoopsMay
<1> QED
  BY <1>1, NewRideRaces, HandlingRaces, MatchingRaces, DispatchingRaces
     DEF Next

LEMMA StutterRaces ==
    ASSUME RaceInv, UNCHANGED raceVars
    PROVE  Mapped /\ RaceInv'
<1>1. /\ rides' = rides /\ request' = request /\ task' = task
      /\ sched' = sched /\ trips' = trips /\ intents' = intents
      /\ overtaken' = overtaken /\ affected' = affected
  BY DEF raceVars, vars, tableVars, handlerVars, books
<1>2. Mapped
  BY <1>1 DEF Mapped, Lifecycle!lifecycleVars
<1>3. Overtaken' = Overtaken /\ Affected' = Affected
  BY <1>1 DEF Overtaken, Outdated, Affected, Counting, At
<1>4. HandlersMay' /\ TasksMay' /\ LoopsMay' /\ CompletersAffected'
  BY <1>1 DEF RaceInv, HandlersMay, TasksMay, LoopsMay, LoopMay,
     CompletersAffected
<1>5. \A r \in Rides : IntentFits(r) => IntentFits(r)'
  BY <1>1 DEF IntentFits, Charging
<1>6. \A d \in Drivers : TripsFit(d) => TripsFit(d)'
  BY <1>1 DEF TripsFit, CompletedBy
<1> QED BY <1>1, <1>2, <1>3, <1>4, <1>5, <1>6 DEF RaceInv

LEMMA RaceStep ==
    ASSUME HistoryInv, RaceInv, [Next /\ Watch]_raceVars
    PROVE  Mapped /\ (HistoryInv /\ RaceInv)'
<1>1. HistoryInv'
  BY NextHistory DEF raceVars
<1> QED BY <1>1, NextRaces, WatchKeeps, StutterRaces

LEMMA InitMaps == Init /\ WatchInit => Lifecycle!LifecycleInit
BY DEF Init, TableInit, WatchInit, NoRow, Lifecycle!LifecycleInit

\* Sessions that can still write back a ride nobody was overtaken about hold
\* its row, and its trips and fees are counted with it, whatever else overlaps.
THEOREM RaceInvariant == RaceSpec => [](HistoryInv /\ RaceInv)
<1>1. HistoryInv /\ RaceInv /\ [Next /\ Watch]_raceVars =>
          (HistoryInv /\ RaceInv)'
  BY RaceStep
<1> QED BY <1>1, InitHistory, InitRaces, PTL DEF RaceSpec

\* The code keeps the promise of RideLifecycle for every ride, until a session
\* is overtaken about it (rides.py, dispatch_scheduler.py).
THEOREM OvertakenOrOrderly == RaceSpec => KeepsLifecycle
<1>1. HistoryInv /\ RaceInv /\ [Next /\ Watch]_raceVars =>
          [Lifecycle!LifecycleNext]_(Lifecycle!lifecycleVars)
  BY RaceStep DEF Mapped
<1> QED
  BY <1>1, InitMaps, RaceInvariant, PTL
     DEF RaceSpec, KeepsLifecycle, Lifecycle!LifecycleSpec

\* Whatever handlers and tasks die, the profile of a driver whom no overlap has
\* affected counts the rides that driver has completed (complete_ride).
THEOREM UnaffectedTripsCount == RaceSpec => []TripsCountCompletions
<1>1. RaceInv => TripsCountCompletions
  BY DEF RaceInv, TripsFit, TripsCountCompletions
<1> QED BY <1>1, RaceInvariant, PTL

\* However often a rider cancels after a handler died on the way to the fee, it
\* is asked for once (create_cancellation_payment_intent).
THEOREM UnovertakenPayOnce == RaceSpec => []OneIntentPerRide
<1>1. RaceInv => OneIntentPerRide
  BY DEF RaceInv, IntentFits, OneIntentPerRide
<1> QED BY <1>1, RaceInvariant, PTL
=============================================================================
