--------------------------- MODULE RideLoopProofs ---------------------------
(***************************************************************************)
(* Proofs that a requested ride has no driver and that retries count up,   *)
(* for any number of rides, drivers and requests, when one API instance    *)
(* runs the scheduler.                                                     *)
(*                                                                         *)
(* A commit of a handler or a task takes a ride past its search, for good, *)
(* and leaves its retries alone.  Only the loop dispatches, and only rides *)
(* that nobody else has searched a driver for; only it counts, from copies *)
(* that it alone keeps up to date.                                         *)
(***************************************************************************)
EXTENDS RideSystemProofs

\* The one loop that dispatches and retries.
OneInstance == \A s, t \in Schedulers : s = t

\* A row that a step leaves past the search, with its attempts.
Settled(row, after) == after.status \notin Early /\ after.retries = row.retries

RowsSettle ==
    \A r \in Rides : rides'[r] = rides[r] \/ Settled(rides[r], rides'[r])

\* What every step keeps: the attempts are counted one by one, and SearchInv.
Counted ==
    \A r \in Rides : rides'[r].retries \in {rides[r].retries, rides[r].retries + 1}

Fits == SearchInv' /\ Counted

-----------------------------------------------------------------------------
\* Whoever commits a ride past its search does so, however stale the copy.
LEMMA FlushSettles ==
    ASSUME NEW row \in Row, NEW copy \in Row, NEW new \in Row,
           NoLater(copy, row), new.status \notin Early,
           new.retries = copy.retries
    PROVE  Settled(row, Flush(row, copy, new))
BY DEF Settled, Flush, NoLater

LEMMA WriteSettles ==
    ASSUME TableTypeOK, NEW r \in Rides, NEW copy \in Row, NEW new \in Row,
           NoLater(copy, rides[r]), new.status \notin Early,
           new.retries = copy.retries,
           rides' = [rides EXCEPT ![r] = Flush(rides[r], copy, new)]
    PROVE  RowsSettle
BY FlushSettles DEF TableTypeOK, RowsSettle

LEMMA RowsStay ==
    ASSUME rides' = rides
    PROVE  RowsSettle
BY DEF RowsSettle

LEMMA SettledCounts ==
    ASSUME RowsSettle
    PROVE  Counted
BY DEF RowsSettle, Settled, Counted

\* Copies go on fitting their rows, and no ride begins to wait.
LEMMA NoLaterKept ==
    ASSUME RowsSettle, NEW r \in Rides, NEW copy, NoLater(copy, rides[r])
    PROVE  NoLater(copy, rides'[r])
BY DEF RowsSettle, NoLater, Settled

LEMMA RequestedKept ==
    ASSUME RequestedIsUnassigned, RowsSettle
    PROVE  RequestedIsUnassigned'
BY DEF RequestedIsUnassigned, RowsSettle, Settled, Early

LEMMA LoopKeeps ==
    ASSUME TypeOK, NEW s \in Schedulers, RowsSettle, LoopFits(sched[s], rides)
    PROVE  /\ LoopFits(sched[s], rides')
           /\ \A r \in Rides : Waits(sched[s], rides'[r], r) =>
                                   Waits(sched[s], rides[r], r)
<1> DEFINE l == sched[s]
<1>1. l.todo \subseteq Rides
  BY DEF TypeOK, SchedTypeOK, SchedType
<1>2. \A r \in Rides : NoLater(l.copies[r], rides'[r])
  BY NoLaterKept DEF LoopFits
<1>3. ASSUME NEW r \in l.todo
      PROVE  l.copies[r].retries = rides'[r].retries /\ rides'[r].status # "none"
  BY <1>1, <1>3 DEF LoopFits, RowsSettle, Settled, Early
<1>4. LoopFits(l, rides')
  BY <1>2, <1>3 DEF LoopFits
<1>5. \A r \in Rides : Waits(l, rides'[r], r) => Waits(l, rides[r], r)
  BY DEF Waits, RowsSettle, Settled, Early
<1> QED BY <1>4, <1>5

HandlersKeep ==
    \A q \in Requests :
        request[q] # Idle => NoLater(request[q].copy, rides'[request[q].ride])

LEMMA HandlersStayFit ==
    ASSUME TypeOK, HandlersFit, RowsSettle
    PROVE  HandlersKeep
<1> SUFFICES ASSUME NEW q \in Requests, request[q] # Idle
             PROVE  NoLater(request[q].copy, rides'[request[q].ride])
  BY DEF HandlersKeep
<1>1. request[q].ride \in Rides
  BY DEF TypeOK, HandlersTypeOK, Handler
<1> QED BY <1>1, NoLaterKept DEF HandlersFit

-----------------------------------------------------------------------------
(* The handlers.                                                            *)

\* What slot q holds after a step of its handler.
HoldsWell(h) ==
    h # Idle => /\ h.ride \in Rides
                /\ NoLater(h.copy, rides'[h.ride])

\* A step of one handler: rows settle, and a ride that nobody has searched a
\* driver for is left so.
LEMMA HandlerMove ==
    ASSUME HistoryInv, SearchInv, NEW q \in Requests, NEW h,
           RowsSettle, UNCHANGED <<task, sched>>,
           request' = [request EXCEPT ![q] = h], HoldsWell(h),
           \A r \in Rides : Untouched(r) => Unsought(rides'[r]) /\ UnsoughtBy(h, r)
    PROVE  Fits
<1>1. request \in [Requests -> Handler \union {Idle}] /\ TypeOK
  BY DEF HistoryInv, TypeOK, HandlersTypeOK
<1>2. RequestedIsUnassigned'
  BY RequestedKept DEF SearchInv
<1>3. HandlersFit'
  <2> SUFFICES ASSUME NEW p \in Requests, request'[p] # Idle
               PROVE  NoLater(request'[p].copy, rides'[request'[p].ride])
    BY DEF HandlersFit
  <2>1. CASE p = q
    BY <1>1, <2>1 DEF HoldsWell
  <2>2. CASE p # q
    <3>1. request'[p] = request[p]
      BY <1>1, <2>2
    <3>2. HandlersKeep
      BY <1>1, HandlersStayFit DEF SearchInv
    <3> QED BY <3>1, <3>2 DEF HandlersKeep
  <2> QED BY <2>1, <2>2
<1>4. TasksFit'
  BY DEF SearchInv, TasksFit
<1>5. ASSUME NEW s \in Schedulers
      PROVE  /\ LoopFits(sched'[s], rides')
             /\ \A r \in Rides : Waits(sched'[s], rides'[r], r) => Untouched(r)
  BY <1>1, LoopKeeps DEF SearchInv
<1>6. ASSUME NEW r \in Rides, Untouched(r)
      PROVE  Untouched(r)'
  <2>1. Unsought(rides'[r]) /\ UnsoughtBy(h, r)
    BY <1>6
  <2>2. ASSUME NEW p \in Requests PROVE UnsoughtBy(request'[p], r)
    <3>1. CASE p = q
      BY <1>1, <2>1, <3>1
    <3>2. CASE p # q
      BY <1>1, <1>6, <3>2 DEF Untouched
    <3> QED BY <3>1, <3>2
  <2> QED BY <1>6, <2>1, <2>2 DEF Untouched
<1> QED BY <1>2, <1>3, <1>4, <1>5, <1>6, SettledCounts DEF SearchInv, Fits

\* The handler does not write its ride.
LEMMA HandlerStays ==
    ASSUME HistoryInv, SearchInv, NEW q \in Requests, NEW h,
           request[q] # Idle, rides' = rides, UNCHANGED <<task, sched>>,
           request' = [request EXCEPT ![q] = h],
           h # Idle => /\ h.op = request[q].op /\ h.ride = request[q].ride
                       /\ h.copy \in {request[q].copy, NoRow}
    PROVE  Fits
<1>1. request[q].ride \in Rides
  BY HandlerFacts
<1>2. NoLater(request[q].copy, rides[request[q].ride])
  BY DEF SearchInv, HandlersFit
<1>3. HoldsWell(h)
  BY <1>1, <1>2 DEF HoldsWell, NoLater, NoRow, Early
<1>4. ASSUME NEW r \in Rides, Untouched(r)
      PROVE  Unsought(rides'[r]) /\ UnsoughtBy(h, r)
  <2>1. UnsoughtBy(request[q], r)
    BY <1>4 DEF Untouched
  <2>2. UnsoughtBy(h, r)
    BY <2>1 DEF UnsoughtBy, NoRow
  <2> QED BY <1>4, <2>2 DEF Untouched
<1> QED BY <1>3, <1>4, HandlerMove, RowsStay

\* The handler loads a ride: one whose search has begun, or to cancel it.
LEMMA HandlerBegins ==
    ASSUME HistoryInv, SearchInv, NEW q \in Requests, NEW r \in Rides,
           NEW op, NEW at, NEW by, NEW fee, Begin(q, op, at, r, by, fee),
           UNCHANGED <<task, sched>>,
           \/ rides[r].status \notin {"none", "scheduled", "cancelled"}
           \/ rides[r].status = "scheduled" /\ op \in {"cancel", "cancel_scheduled"}
    PROVE  Fits
<1> DEFINE h == [op |-> op, at |-> at, ride |-> r, by |-> by, copy |-> rides[r],
                 fee |-> fee, trips |-> 0]
<1>1. request' = [request EXCEPT ![q] = h] /\ rides' = rides
  BY DEF Begin, tableVars
<1>2. HoldsWell(h)
  BY <1>1 DEF HoldsWell, NoLater
<1>3. ASSUME NEW x \in Rides, Untouched(x)
      PROVE  Unsought(rides'[x]) /\ UnsoughtBy(h, x)
  <2>1. Unsought(rides[x])
    BY <1>3 DEF Untouched
  <2>2. UnsoughtBy(h, x)
    BY <2>1 DEF UnsoughtBy, Unsought
  <2> QED BY <1>1, <2>1, <2>2
<1> HIDE DEF h
<1> QED BY <1>1, <1>2, <1>3, RowsStay, HandlerMove

\* The handler commits its ride past the search.
LEMMA HandlerCommits ==
    ASSUME HistoryInv, SearchInv, NEW q \in Requests, request[q] # Idle,
           NEW new \in Row, new.status \notin Early,
           new.retries = request[q].copy.retries,
           request[q].op \in {"cancel", "cancel_scheduled"} =>
               new = Cancelled(request[q].copy),
           rides' = [rides EXCEPT ![request[q].ride] =
                         Flush(rides[request[q].ride], request[q].copy, new)],
           UNCHANGED <<task, sched>>,
           NEW h, request' = [request EXCEPT ![q] = h],
           h # Idle => /\ h.op = request[q].op /\ h.ride = request[q].ride
                       /\ h.copy \in {request[q].copy, NoRow}
    PROVE  Fits
<1> DEFINE ride == request[q].ride  copy == request[q].copy
<1>1. ride \in Rides /\ copy \in Row /\ TableTypeOK
  BY HandlerFacts DEF HistoryInv, TypeOK
<1>2. NoLater(copy, rides[ride])
  BY DEF SearchInv, HandlersFit
<1>3. RowsSettle
  BY <1>1, <1>2, WriteSettles
<1>4. HoldsWell(h)
  BY <1>1, <1>2, <1>3, NoLaterKept DEF HoldsWell, NoLater, NoRow, Early
<1>5. ASSUME NEW r \in Rides, Untouched(r)
      PROVE  Unsought(rides'[r]) /\ UnsoughtBy(h, r)
  <2>1. Unsought(rides[r]) /\ UnsoughtBy(request[q], r)
    BY <1>5 DEF Untouched
  <2>2. UnsoughtBy(h, r)
    BY <2>1 DEF UnsoughtBy, NoRow
  <2>3. CASE r # ride
    BY <1>1, <2>1, <2>2, <2>3 DEF TableTypeOK
  <2>4. CASE r = ride
    <3>1. new = Cancelled(copy) /\ copy.status \in {"none", "scheduled"}
      BY <2>1, <2>4 DEF UnsoughtBy
    <3>2. rides'[r] = Flush(rides[r], copy, new)
      BY <1>1, <2>4 DEF TableTypeOK
    <3>3. new.status = "cancelled" /\ new.driver = copy.driver
      BY <1>1, <3>1 DEF Cancelled, Row
    <3>4. Unsought(rides'[r])
      BY <2>1, <3>1, <3>2, <3>3 DEF Unsought, Flush
    <3> QED BY <2>2, <3>4
  <2> QED BY <2>3, <2>4
<1> HIDE DEF ride, copy
<1> QED BY <1>3, <1>4, <1>5, HandlerMove

-----------------------------------------------------------------------------
LEMMA LoadFits ==
    ASSUME HistoryInv, SearchInv, NEW q \in Requests, HandlerLoad(q),
           UNCHANGED <<task, sched>>
    PROVE  Fits
<1>1. PICK r \in Rides :
        \/ LoadCancelScheduled(q, r)
        \/ \E by \in Drivers \union {Rider}, graceOver \in BOOLEAN :
               LoadCancel(q, r, by, graceOver)
        \/ \E d \in Drivers :
               \/ LoadAccept(q, r, d)
               \/ LoadEnRoute(q, r, d)
               \/ LoadArrived(q, r, d)
               \/ LoadStart(q, r, d)
               \/ LoadComplete(q, r, d)
  BY DEF HandlerLoad
<1>2. CASE LoadCancelScheduled(q, r)
  BY <1>2, HandlerBegins DEF LoadCancelScheduled
<1>3. CASE \E by \in Drivers \union {Rider}, graceOver \in BOOLEAN :
               LoadCancel(q, r, by, graceOver)
  <2> PICK by \in Drivers \union {Rider}, graceOver \in BOOLEAN :
           LoadCancel(q, r, by, graceOver)
    BY <1>3
  <2>1. Begin(q, "cancel", "commit", r, by, FeeDue(rides[r], by, graceOver))
    BY DEF LoadCancel
  <2>2. rides[r].status \notin {"none", "cancelled"}
    BY DEF LoadCancel, CannotCancel
  <2> QED BY <2>1, <2>2, HandlerBegins
<1>4. CASE \E d \in Drivers :
               \/ LoadAccept(q, r, d)
               \/ LoadEnRoute(q, r, d)
               \/ LoadArrived(q, r, d)
               \/ LoadStart(q, r, d)
               \/ LoadComplete(q, r, d)
  <2> PICK d \in Drivers :
               \/ LoadAccept(q, r, d)
               \/ LoadEnRoute(q, r, d)
               \/ LoadArrived(q, r, d)
               \/ LoadStart(q, r, d)
               \/ LoadComplete(q, r, d)
    BY <1>4
  <2>1. CASE LoadAccept(q, r, d)
    BY <2>1, HandlerBegins DEF LoadAccept
  <2>2. CASE LoadEnRoute(q, r, d)
    BY <2>2, HandlerBegins DEF LoadEnRoute
  <2>3. CASE LoadArrived(q, r, d)
    BY <2>3, HandlerBegins DEF LoadArrived
  <2>4. CASE LoadStart(q, r, d)
    BY <2>4, HandlerBegins DEF LoadStart
  <2>5. CASE LoadComplete(q, r, d)
    BY <2>5, HandlerBegins DEF LoadComplete
  <2> QED BY <2>1, <2>2, <2>3, <2>4, <2>5
<1> QED BY <1>1, <1>2, <1>3, <1>4

\* How a slot goes on.
LEMMA SlotGoesOn ==
    ASSUME HistoryInv, NEW q \in Requests, request[q] # Idle, NEW next,
           Finish(q) \/ Forget(q, next) \/ Continue(q, next)
    PROVE  \E h : /\ request' = [request EXCEPT ![q] = h]
                  /\ h # Idle => /\ h.op = request[q].op
                                 /\ h.ride = request[q].ride
                                 /\ h.copy \in {request[q].copy, NoRow}
<1>1. request[q] \in Handler
  BY DEF HistoryInv, TypeOK, HandlersTypeOK
<1>2. CASE Finish(q)
  BY <1>2 DEF Finish
<1>3. CASE Forget(q, next)
  <2> DEFINE h == [request[q] EXCEPT !.at = next, !.copy = NoRow]
  <2>1. request' = [request EXCEPT ![q] = h]
    BY <1>3 DEF Forget
  <2>2. h.op = request[q].op /\ h.ride = request[q].ride /\ h.copy = NoRow
    BY <1>1 DEF Handler
  <2> HIDE DEF h
  <2> QED BY <2>1, <2>2
<1>4. CASE Continue(q, next)
  <2> DEFINE h == [request[q] EXCEPT !.at = next]
  <2>1. request' = [request EXCEPT ![q] = h]
    BY <1>4 DEF Continue
  <2>2. /\ h.op = request[q].op /\ h.ride = request[q].ride
        /\ h.copy = request[q].copy
    BY <1>1 DEF Handler
  <2> HIDE DEF h
  <2> QED BY <2>1, <2>2
<1> QED BY <1>2, <1>3, <1>4

LEMMA OnwardStays ==
    ASSUME HistoryInv, SearchInv, NEW q \in Requests, request[q] # Idle,
           rides' = rides, UNCHANGED <<task, sched>>, NEW next,
           Finish(q) \/ Forget(q, next) \/ Continue(q, next)
    PROVE  Fits
BY SlotGoesOn, HandlerStays

LEMMA OnwardCommits ==
    ASSUME HistoryInv, SearchInv, NEW q \in Requests, request[q] # Idle,
           NEW new \in Row, new.status \notin Early,
           new.retries = request[q].copy.retries,
           request[q].op \in {"cancel", "cancel_scheduled"} =>
               new = Cancelled(request[q].copy),
           rides' = [rides EXCEPT ![request[q].ride] =
                         Flush(rides[request[q].ride], request[q].copy, new)],
           UNCHANGED <<task, sched>>, NEW next,
           Finish(q) \/ Forget(q, next) \/ Continue(q, next)
    PROVE  Fits
BY SlotGoesOn, HandlerCommits

\* What the handlers make of their copies takes the ride past its search.
LEMMA NewCopies ==
    ASSUME NEW copy \in Row
    PROVE  /\ Cancelled(copy) \in Row /\ Cancelled(copy).status = "cancelled"
           /\ Cancelled(copy).retries = copy.retries
           /\ \A d \in Drivers : /\ Matched(copy, d) \in Row
                                 /\ Matched(copy, d).status = "matched"
                                 /\ Matched(copy, d).retries = copy.retries
           /\ \A status \in RideStatus :
                  LET new == [copy EXCEPT !.status = status]
                  IN  new \in Row /\ new.status = status
                      /\ new.retries = copy.retries
BY DEF Cancelled, Matched, Row, RideStatus

LEMMA ContinueFits ==
    ASSUME HistoryInv, SearchInv, NEW q \in Requests, HandlerContinue(q),
           UNCHANGED <<task, sched>>
    PROVE  Fits
<1> DEFINE copy == request[q].copy  op == request[q].op
<1>1. request[q] # Idle
  BY DEF HandlerContinue, CommitAccept, BusyAfterAccept, CommitEnRoute,
     CommitArrived, CommitStart, LoadProfile, CommitComplete,
     AvailableAfterComplete, CommitCancelScheduled, CommitCancel,
     ReleaseDriver, LookupFee, CreateIntent, InsertFee, At
<1>2. copy \in Row /\ request[q].by \in Drivers \union {Rider}
      /\ (op \notin {"cancel", "cancel_scheduled"} => request[q].by \in Drivers)
  BY <1>1, HandlerFacts DEF HistoryInv, HandlersOK, HandlerOK, TypeOK,
     HandlersTypeOK, Handler
<1>3. CASE CommitAccept(q)
  BY <1>1, <1>2, <1>3, NewCopies, OnwardCommits
     DEF CommitAccept, CommitRide, CommitRow, At, Early
<1>4. CASE CommitEnRoute(q)
  <2> DEFINE new == [copy EXCEPT !.status = "driver_en_route"]
  <2>1. new \in Row /\ new.status \notin Early /\ new.retries = copy.retries
    BY <1>2, NewCopies DEF RideStatus, Early
  <2> QED BY <1>1, <1>4, <2>1, OnwardCommits
          DEF CommitEnRoute, CommitAndFinish, CommitRide, CommitRow, At
<1>5. CASE CommitArrived(q)
  <2> DEFINE new == [copy EXCEPT !.status = "arrived"]
  <2>1. new \in Row /\ new.status \notin Early /\ new.retries = copy.retries
    BY <1>2, NewCopies DEF RideStatus, Early
  <2> QED BY <1>1, <1>5, <2>1, OnwardCommits
          DEF CommitArrived, CommitAndFinish, CommitRide, CommitRow, At
<1>6. CASE CommitStart(q)
  <2> DEFINE new == [copy EXCEPT !.status = "in_progress", !.startedAt = TRUE]
  <2>1. new \in Row /\ new.status \notin Early /\ new.retries = copy.retries
    BY <1>2 DEF Row, RideStatus, Early
  <2> QED BY <1>1, <1>6, <2>1, OnwardCommits
          DEF CommitStart, CommitAndFinish, CommitRide, CommitRow, At
<1>7. CASE CommitComplete(q)
  <2> DEFINE new == [copy EXCEPT !.status = "completed", !.completedAt = TRUE]
  <2>1. new \in Row /\ new.status \notin Early /\ new.retries = copy.retries
    BY <1>2 DEF Row, RideStatus, Early
  <2> QED BY <1>1, <1>7, <2>1, OnwardCommits DEF CommitComplete, At
<1>8. CASE CommitCancelScheduled(q) \/ CommitCancel(q)
  BY <1>1, <1>2, <1>8, NewCopies, OnwardCommits
     DEF CommitCancelScheduled, CommitCancel, CommitAndFinish, CommitRide,
         CommitRow, At, Early
<1>9. CASE LoadProfile(q)
  <2> DEFINE h == [request[q] EXCEPT !.at = "commit",
                                     !.trips = trips[request[q].by]]
  <2>1. request' = [request EXCEPT ![q] = h]
    BY <1>9 DEF LoadProfile
  <2>2. h.op = op /\ h.ride = request[q].ride /\ h.copy = copy
    BY <1>1 DEF HistoryInv, TypeOK, HandlersTypeOK, Handler
  <2> HIDE DEF h
  <2> QED BY <1>1, <1>9, <2>1, <2>2, HandlerStays DEF LoadProfile
<1>10. CASE \/ BusyAfterAccept(q) \/ AvailableAfterComplete(q)
            \/ ReleaseDriver(q) \/ LookupFee(q) \/ CreateIntent(q)
            \/ InsertFee(q)
  BY <1>1, <1>10, OnwardStays
     DEF BusyAfterAccept, AvailableAfterComplete, ReleaseDriver, LookupFee,
         CreateIntent, InsertFee, tableVars
<1> QED BY <1>3, <1>4, <1>5, <1>6, <1>7, <1>8, <1>9, <1>10 DEF HandlerContinue

LEMMA HandlingFits ==
    ASSUME HistoryInv, SearchInv, Handling
    PROVE  Fits
<1> PICK q \in Requests : HandlerLoad(q) \/ HandlerContinue(q) \/ RequestFails(q)
  BY DEF Handling, HandlerStep
<1>1. UNCHANGED <<task, sched>>
  BY DEF Handling
<1>2. CASE RequestFails(q)
  BY <1>1, <1>2, OnwardStays DEF RequestFails
<1> QED BY <1>1, <1>2, LoadFits, ContinueFits

-----------------------------------------------------------------------------
(* The tasks, and new rides.                                                *)

\* A task at work, so its ride's search has begun.
LEMMA TaskMove ==
    ASSUME HistoryInv, SearchInv, NEW r \in Rides, task[r].at # "none",
           RowsSettle, \A x \in Rides \ {r} : rides'[x] = rides[x],
           UNCHANGED <<request, sched>>, NEW t,
           task' = [task EXCEPT ![r] = t], t.copy.status \in Early
    PROVE  Fits
<1>1. TypeOK /\ task \in [Rides -> TaskType]
  BY DEF HistoryInv, TypeOK, TaskTypeOK
<1>2. RequestedIsUnassigned'
  BY RequestedKept DEF SearchInv
<1>3. HandlersFit'
  BY <1>1, HandlersStayFit DEF SearchInv, HandlersFit, HandlersKeep
<1>4. TasksFit'
  BY <1>1 DEF SearchInv, TasksFit
<1>5. ASSUME NEW s \in Schedulers
      PROVE  /\ LoopFits(sched'[s], rides')
             /\ \A x \in Rides : Waits(sched'[s], rides'[x], x) => Untouched(x)
  BY <1>1, LoopKeeps DEF SearchInv
<1>6. ASSUME NEW x \in Rides, Untouched(x)
      PROVE  Untouched(x)'
  <2>1. x # r
    BY <1>6 DEF Untouched
  <2>2. rides'[x] = rides[x] /\ task'[x] = task[x]
    BY <1>1, <2>1
  <2> QED BY <1>6, <2>2 DEF Untouched
<1> QED BY <1>2, <1>3, <1>4, <1>5, <1>6, SettledCounts DEF SearchInv, Fits

LEMMA MatchingFits ==
    ASSUME HistoryInv, SearchInv, Matching
    PROVE  Fits
<1> PICK r \in Rides : TaskStep(r)
  BY DEF Matching
<1>1. /\ UNCHANGED <<request, sched>>
      /\ task[r] \in TaskType /\ task[r].copy \in Row /\ TableTypeOK
  BY DEF Matching, handlerVars, HistoryInv, TypeOK, TaskTypeOK, TaskType
<1>2. task[r].copy.status \in Early
  BY DEF SearchInv, TasksFit
<1>3. NoTask.copy.status \in Early
  BY DEF NoTask, NoRow, Early
<1>4. CASE LoadForMatching(r)
  <2>1. rides' = rides /\ task[r].at # "none"
    BY <1>4 DEF LoadForMatching, tableVars
  <2>2. CASE rides[r].status = "requested"
    <3> DEFINE t == [task[r] EXCEPT !.at = "find", !.copy = rides[r]]
    <3>1. task' = [task EXCEPT ![r] = t]
      BY <1>4, <2>2 DEF LoadForMatching
    <3>2. t.copy.status \in Early
      BY <1>1, <2>2 DEF TaskType, Early
    <3> HIDE DEF t
    <3> QED BY <1>1, <2>1, <3>1, <3>2, RowsStay, TaskMove
  <2>3. CASE rides[r].status # "requested"
    <3>1. task' = [task EXCEPT ![r] = NoTask]
      BY <1>4, <2>3 DEF LoadForMatching, EndTask
    <3> QED BY <1>1, <1>3, <2>1, <3>1, RowsStay, TaskMove
  <2> QED BY <2>2, <2>3
<1>5. CASE FindDriver(r)
  <2>1. rides' = rides /\ task[r].at # "none"
    BY <1>5 DEF FindDriver, tableVars
  <2> PICK d \in Candidates :
           task' = [task EXCEPT ![r].at = "commit", ![r].found = d]
    BY <1>5 DEF FindDriver
  <2> DEFINE t == [task[r] EXCEPT !.at = "commit", !.found = d]
  <2>2. task' = [task EXCEPT ![r] = t]
    OBVIOUS
  <2>3. t.copy.status \in Early
    BY <1>1, <1>2 DEF TaskType
  <2> HIDE DEF t
  <2> QED BY <1>1, <2>1, <2>2, <2>3, RowsStay, TaskMove
<1>6. CASE CommitMatch(r)
  <2> DEFINE new == Matched(task[r].copy, task[r].found)
             t == [task[r] EXCEPT !.at = "busy", !.copy = NoRow]
  <2>1. /\ task[r].at = "commit"
        /\ rides' = [rides EXCEPT ![r] = Flush(rides[r], task[r].copy, new)]
        /\ task' = [task EXCEPT ![r] = t]
    BY <1>6 DEF CommitMatch, CommitRow
  <2>2. new \in Row /\ new.status \notin Early /\ new.retries = task[r].copy.retries
    BY <1>1 DEF Matched, Row, TaskType, RideStatus, Early
  <2>3. NoLater(task[r].copy, rides[r])
    BY <1>2 DEF NoLater
  <2>4. t.copy.status \in Early
    BY <1>1 DEF TaskType, NoRow, Early
  <2> HIDE DEF new, t
  <2>5. RowsSettle
    BY <1>1, <2>1, <2>2, <2>3, WriteSettles
  <2>6. \A x \in Rides \ {r} : rides'[x] = rides[x]
    BY <1>1, <2>1 DEF TableTypeOK
  <2> QED BY <1>1, <2>1, <2>4, <2>5, <2>6, TaskMove
<1>7. CASE BusyAfterMatch(r) \/ MatchingFails(r)
  <2>1. /\ rides' = rides /\ task[r].at # "none"
        /\ task' = [task EXCEPT ![r] = NoTask]
    BY <1>7 DEF BusyAfterMatch, MatchingFails, EndTask, tableVars
  <2> QED BY <1>1, <1>3, <2>1, RowsStay, TaskMove
<1> QED BY <1>4, <1>5, <1>6, <1>7 DEF TaskStep

\* A ride that is made has no driver; if it is requested at once, no loop has
\* it among the rides to dispatch.
LEMMA NewRideFits ==
    ASSUME HistoryInv, SearchInv, NewRide
    PROVE  Fits
<1> PICK r \in Rides :
      /\ \/ RequestRide(r) /\ QueueMatching(r)
         \/ ScheduleRide(r) /\ UNCHANGED task
      /\ UNCHANGED sched
  BY DEF NewRide
<1>1. PICK status \in {"requested", "scheduled"} :
        /\ rides' = [rides EXCEPT ![r].status = status]
        /\ \/ task' = task
           \/ status = "requested" /\ task' = [task EXCEPT ![r].at = "queued"]
  BY DEF RequestRide, ScheduleRide, QueueMatching
<1>2. /\ rides[r] = NoRow /\ UNCHANGED <<request, sched>>
      /\ TypeOK /\ TableTypeOK
  BY DEF RequestRide, ScheduleRide, HistoryInv, TypeOK
<1>3. /\ \A x \in Rides \ {r} : rides'[x] = rides[x]
      /\ rides'[r].driver = NoDriver /\ rides'[r].retries = rides[r].retries
      /\ rides[r].status = "none" /\ rides[r].driver = NoDriver
      /\ rides'[r].status = status
  BY <1>2, <1>1 DEF TableTypeOK, Row, NoRow
<1>4. RequestedIsUnassigned'
  BY <1>3 DEF SearchInv, RequestedIsUnassigned
<1>5. ASSUME NEW x \in Rides, NEW copy, NoLater(copy, rides[x])
      PROVE  NoLater(copy, rides'[x])
  BY <1>1, <1>3, <1>5 DEF NoLater, Early
<1>6. HandlersFit'
  <2> SUFFICES ASSUME NEW q \in Requests, request[q] # Idle
               PROVE  NoLater(request[q].copy, rides'[request[q].ride])
    BY <1>2 DEF HandlersFit
  <2> QED BY <1>5, HandlerFacts DEF SearchInv, HandlersFit
<1>7. TasksFit'
  BY <1>2, <1>1 DEF SearchInv, TasksFit, TypeOK, TaskTypeOK, TaskType
<1>8. ASSUME NEW s \in Schedulers
      PROVE  LoopFits(sched[s], rides')
  <2>1. LoopFits(sched[s], rides) /\ sched[s].todo \subseteq Rides
    BY <1>2 DEF SearchInv, TypeOK, SchedTypeOK, SchedType
  <2>2. r \notin sched[s].todo
    BY <1>3, <2>1 DEF LoopFits
  <2>3. \A x \in Rides : NoLater(sched[s].copies[x], rides'[x])
    BY <1>5, <2>1 DEF LoopFits
  <2> QED BY <1>3, <2>1, <2>2, <2>3 DEF LoopFits
<1>9. ASSUME NEW s \in Schedulers, NEW x \in Rides,
             Waits(sched[s], rides'[x], x)
      PROVE  Untouched(x)'
  <2>1. LoopFits(sched[s], rides)
    BY DEF SearchInv
  <2>2. Waits(sched[s], rides[x], x)
    BY <1>3, <1>9 DEF Waits
  <2>3. Untouched(x)
    BY <2>2 DEF SearchInv
  <2>4. CASE x = r
    <3>1. r \notin sched[s].todo
      BY <1>3, <2>1 DEF LoopFits
    <3>2. rides'[r].status = "scheduled"
      BY <1>1, <1>3, <1>9, <2>4, <3>1 DEF Waits
    <3>3. task' = task
      BY <1>1, <1>3, <3>2
    <3> QED BY <1>2, <1>3, <2>3, <2>4, <3>2, <3>3 DEF Untouched, Unsought
  <2>5. CASE x # r
    <3>1. rides'[x] = rides[x] /\ task'[x].at = task[x].at
      BY <1>2, <1>1, <1>3, <2>5 DEF TypeOK, TaskTypeOK, TaskType
    <3> QED BY <1>2, <2>3, <3>1 DEF Untouched
  <2> QED BY <2>4, <2>5
<1>10. Counted
  BY <1>3 DEF Counted
<1> QED BY <1>2, <1>4, <1>6, <1>7, <1>8, <1>9, <1>10 DEF SearchInv, Fits

-----------------------------------------------------------------------------
(* The loop.                                                                *)

\* What a loop holds of a ride that waits: it was there before, and nobody has
\* touched it.
StillWaits(s, l) ==
    \A r \in Rides : Waits(l, rides'[r], r) =>
        /\ Waits(sched[s], rides[r], r)
        /\ rides'[r] = rides[r]
        /\ l.copies[r].status \in {"none", "scheduled"}

\* A step of the loop under which rows settle.
LEMMA LoopMove ==
    ASSUME OneInstance, HistoryInv, SearchInv, NEW s \in Schedulers, NEW l,
           RowsSettle, UNCHANGED <<request, task>>,
           sched' = [sched EXCEPT ![s] = l],
           LoopFits(l, rides'), StillWaits(s, l)
    PROVE  Fits
<1>1. TypeOK /\ sched'[s] = l /\ \A t \in Schedulers : t = s
  BY DEF HistoryInv, TypeOK, SchedTypeOK, OneInstance
<1>2. RequestedIsUnassigned'
  BY RequestedKept DEF SearchInv
<1>3. HandlersFit'
  BY <1>1, HandlersStayFit DEF SearchInv, HandlersFit, HandlersKeep
<1>4. TasksFit'
  BY DEF SearchInv, TasksFit
<1>5. \A t \in Schedulers : LoopFits(sched'[t], rides')
  BY <1>1
<1>6. ASSUME NEW t \in Schedulers, NEW r \in Rides,
             Waits(sched'[t], rides'[r], r)
      PROVE  Untouched(r)'
  <2>1. /\ Waits(sched[s], rides[r], r) /\ rides'[r] = rides[r]
        /\ l.copies[r].status \in {"none", "scheduled"}
    BY <1>1, <1>6 DEF StillWaits
  <2>2. Untouched(r)
    BY <2>1 DEF SearchInv
  <2> QED BY <1>1, <2>1, <2>2 DEF Untouched
<1> QED BY <1>2, <1>3, <1>4, <1>5, <1>6, SettledCounts DEF SearchInv, Fits

LEMMA LoopKnows ==
    ASSUME HistoryInv, SearchInv, NEW s \in Schedulers
    PROVE  /\ sched[s] \in SchedType /\ sched[s].copies \in [Rides -> Row]
           /\ sched[s].todo \subseteq Rides
           /\ sched \in [Schedulers -> SchedType]
           /\ rides \in [Rides -> Row]
           /\ LoopFits(sched[s], rides)
           /\ \A r \in Rides : Waits(sched[s], rides[r], r) =>
                  sched[s].copies[r].status \in {"none", "scheduled"}
BY DEF HistoryInv, SearchInv, TypeOK, SchedTypeOK, SchedType, TableTypeOK,
   Untouched

\* The loop drops ride r, which it may have committed past its search.
LEMMA DropFits ==
    ASSUME OneInstance, HistoryInv, SearchInv, NEW s \in Schedulers,
           NEW r \in Rides, Drop(s, r), RowsSettle, UNCHANGED <<request, task>>,
           \A x \in Rides \ {r} : rides'[x] = rides[x],
           sched[s].ride \in {r, NoRide}
    PROVE  Fits
<1> DEFINE l == [sched[s] EXCEPT !.at = "next", !.todo = @ \ {r},
                     !.copies[r] = NoRow, !.ride = NoRide, !.found = NoDriver]
<1>1. sched' = [sched EXCEPT ![s] = l]
  BY LoopKnows DEF Drop, SchedType
<1>2. /\ l.at = "next" /\ l.todo = sched[s].todo \ {r} /\ l.ride = NoRide
      /\ l.phase = sched[s].phase /\ l.copies = [sched[s].copies EXCEPT ![r] = NoRow]
  BY LoopKnows DEF SchedType
<1> HIDE DEF l
<1>3. l.copies[r] = NoRow /\ \A x \in Rides \ {r} : l.copies[x] = sched[s].copies[x]
  BY <1>2, LoopKnows
<1>4. LoopFits(sched[s], rides)
  BY LoopKnows
<1>5. LoopFits(l, rides')
  <2>1. ASSUME NEW x \in Rides PROVE NoLater(l.copies[x], rides'[x])
    BY <1>3, <1>4 DEF LoopFits, NoLater, NoRow, Early
  <2>2. ASSUME NEW x \in l.todo
        PROVE  l.copies[x].retries = rides'[x].retries /\ rides'[x].status # "none"
    BY <1>2, <1>3, <1>4, <2>2, LoopKnows DEF LoopFits
  <2>3. l.phase = "dispatch" =>
            \A x \in l.todo \ {l.ride} : l.copies[x].status = "scheduled"
    BY <1>2, <1>3, <1>4, LoopKnows DEF LoopFits
  <2> QED BY <1>2, <2>1, <2>2, <2>3 DEF LoopFits
<1>6. StillWaits(s, l)
  BY <1>2, <1>3, LoopKnows DEF StillWaits, Waits, RowsSettle, Settled, NoRow, Early
<1> QED BY <1>1, <1>5, <1>6, LoopMove

\* A phase ends or begins anew.
LEMMA EndPhaseFits ==
    ASSUME OneInstance, HistoryInv, SearchInv, NEW s \in Schedulers,
           NEW phase, EndPhase(s, phase), UNCHANGED <<request, task>>
    PROVE  Fits
<1> DEFINE l == Phase(phase)
<1>1. sched' = [sched EXCEPT ![s] = l] /\ rides' = rides
  BY DEF EndPhase, tableVars
<1>2. /\ l.todo = {} /\ l.ride = NoRide
      /\ \A r \in Rides : l.copies[r].status = "none"
  BY DEF Phase, NoRow
<1> HIDE DEF l
<1>3. LoopFits(l, rides')
  BY <1>2 DEF LoopFits, NoLater, Early
<1>4. StillWaits(s, l)
  BY <1>1, <1>2 DEF StillWaits, Waits
<1> QED BY <1>1, <1>3, <1>4, LoopMove, RowsStay

\* A phase reads the rides that are scheduled, or those that are requested.
LEMMA QueryFits ==
    ASSUME OneInstance, HistoryInv, SearchInv, NEW s \in Schedulers,
           NEW phase, NEW status, NEW wanted \in SUBSET Rides,
           Query(s, phase, wanted), UNCHANGED <<request, task>>,
           \A r \in wanted : rides[r].status = status,
           \/ phase = "dispatch" /\ status = "scheduled"
           \/ phase = "retry" /\ status = "requested"
    PROVE  Fits
<1> DEFINE l == [sched[s] EXCEPT !.at = "next", !.todo = wanted,
                     !.copies = [r \in Rides |-> IF r \in wanted THEN rides[r]
                                                                 ELSE NoRow]]
<1>1. sched' = [sched EXCEPT ![s] = l] /\ rides' = rides
  BY DEF Query, tableVars
<1>2. /\ l.todo = wanted /\ l.phase = phase /\ l.ride = sched[s].ride
      /\ \A r \in Rides : l.copies[r] = IF r \in wanted THEN rides[r] ELSE NoRow
  BY LoopKnows DEF SchedType, Query
<1> HIDE DEF l
<1>3. sched[s].ride = NoRide
  BY LoopKnows DEF LoopFits, Query
<1>4. LoopFits(l, rides')
  BY <1>1, <1>2, <1>3 DEF LoopFits, NoLater, NoRow, Early
<1>5. StillWaits(s, l)
  BY <1>1, <1>2 DEF StillWaits, Waits, NoRow
<1> QED BY <1>1, <1>4, <1>5, LoopMove, RowsStay

\* The loop turns to ride r, whose copy it has made new, and which is in its
\* list as it was.
TurnsTo(s, l, next, r, new) ==
    /\ sched' = [sched EXCEPT ![s] = l] /\ l.at = next /\ l.ride = r
    /\ l.phase = sched[s].phase /\ l.todo = sched[s].todo
    /\ l.copies[r] = new
    /\ \A x \in Rides \ {r} : l.copies[x] = sched[s].copies[x]

LEMMA CopyUpdate ==
    ASSUME HistoryInv, SearchInv, NEW s \in Schedulers, NEW r \in Rides,
           NEW new \in Row, NEW next, CommitCopy(s, r, new, next)
    PROVE  \E l : TurnsTo(s, l, next, r, new)
<1> DEFINE l == [sched[s] EXCEPT !.at = next, !.ride = r, !.copies[r] = new]
<1>1. sched' = [sched EXCEPT ![s] = l]
  BY LoopKnows DEF SchedType, CommitCopy
<1>2. /\ l.at = next /\ l.ride = r /\ l.phase = sched[s].phase
      /\ l.todo = sched[s].todo /\ l.copies = [sched[s].copies EXCEPT ![r] = new]
  BY LoopKnows DEF SchedType
<1> HIDE DEF l
<1>3. l.copies[r] = new /\ \A x \in Rides \ {r} : l.copies[x] = sched[s].copies[x]
  BY <1>2, LoopKnows
<1>4. TurnsTo(s, l, next, r, new)
  BY <1>1, <1>2, <1>3 DEF TurnsTo
<1> QED BY <1>4

\* A scheduled ride becomes a requested one, unsought as it is.
LEMMA DispatchFits ==
    ASSUME OneInstance, HistoryInv, SearchInv, NEW s \in Schedulers,
           NEW r \in Rides, DispatchRide(s, r), UNCHANGED <<request, task>>
    PROVE  Fits
<1> DEFINE copy == sched[s].copies[r]
           new == [copy EXCEPT !.status = "requested"]
<1>1. /\ new \in Row /\ new.status = "requested"
      /\ new.driver = copy.driver /\ new.retries = copy.retries
  <2>1. copy \in Row
    BY LoopKnows
  <2> HIDE DEF copy
  <2> QED BY <2>1 DEF RideStatus, Row
<1>2. /\ sched[s].phase = "dispatch" /\ sched[s].at = "next"
      /\ r \in sched[s].todo
      /\ rides' = [rides EXCEPT ![r] = Flush(rides[r], copy, new)]
      /\ CommitCopy(s, r, new, "refresh")
  BY DEF DispatchRide, Takes, CommitCopy, CommitRow
<1>3. copy.status = "scheduled"
  BY <1>2, LoopKnows, SchedulerAssumption DEF LoopFits
<1>4. Untouched(r)
  BY <1>2, <1>3 DEF SearchInv, Waits
<1> HIDE DEF copy, new
<1>5. /\ rides'[r].status = "requested" /\ rides'[r].driver = NoDriver
      /\ rides'[r].retries = rides[r].retries
      /\ \A x \in Rides \ {r} : rides'[x] = rides[x]
  BY <1>1, <1>2, <1>3, <1>4, LoopKnows DEF Flush, Untouched, Unsought
<1>6. PICK l : TurnsTo(s, l, "refresh", r, new)
  BY <1>1, <1>2, CopyUpdate
<1> USE DEF TurnsTo
<1>7. sched'[s] = l /\ \A t \in Schedulers : t = s
  BY <1>6, LoopKnows DEF OneInstance
<1>8. RequestedIsUnassigned'
  BY <1>5 DEF SearchInv, RequestedIsUnassigned
<1>9. HandlersFit'
  <2> SUFFICES ASSUME NEW q \in Requests, request[q] # Idle
               PROVE  NoLater(request[q].copy, rides'[request[q].ride])
    BY DEF HandlersFit
  <2>1. /\ request[q].ride \in Rides
        /\ NoLater(request[q].copy, rides[request[q].ride])
    BY HandlerFacts DEF SearchInv, HandlersFit
  <2>2. request[q].ride = r => request[q].copy.status \in Early
    BY <1>4 DEF Untouched, UnsoughtBy, Early
  <2> QED BY <1>5, <2>1, <2>2 DEF NoLater
<1>10. TasksFit'
  BY DEF SearchInv, TasksFit
<1>11. LoopFits(l, rides')
  <2>1. LoopFits(sched[s], rides) /\ sched[s].todo \subseteq Rides
    BY LoopKnows
  <2>2. \A x \in Rides : NoLater(l.copies[x], rides'[x])
    BY <1>1, <1>5, <1>6, <2>1 DEF LoopFits, NoLater, Early
  <2>3. copy.retries = rides[r].retries
    BY <1>2, <2>1 DEF LoopFits, copy
  <2>4. ASSUME NEW x \in l.todo
        PROVE  l.copies[x].retries = rides'[x].retries /\ rides'[x].status # "none"
    BY <1>1, <1>5, <1>6, <2>1, <2>3, <2>4 DEF LoopFits
  <2>5. \A x \in l.todo \ {l.ride} : l.copies[x].status = "scheduled"
    BY <1>2, <1>6, <2>1, SchedulerAssumption DEF LoopFits
  <2> QED BY <1>6, <2>2, <2>4, <2>5 DEF LoopFits
<1>12. ASSUME NEW x \in Rides, Waits(l, rides'[x], x)
       PROVE  Untouched(x)'
  <2>1. x # r
    BY <1>1, <1>5, <1>6, <1>12 DEF Waits
  <2>2. rides'[x] = rides[x] /\ l.copies[x] = sched[s].copies[x]
    BY <1>5, <1>6, <2>1
  <2>3. Untouched(x)
    BY <1>6, <1>12, <2>2 DEF SearchInv, Waits
  <2> QED BY <1>7, <2>2, <2>3 DEF Untouched
<1>13. Counted
  BY <1>5 DEF Counted
<1> QED BY <1>7, <1>8, <1>9, <1>10, <1>11, <1>12, <1>13 DEF SearchInv, Fits

\* An attempt is counted, and nothing else changes.
LEMMA CountFits ==
    ASSUME OneInstance, HistoryInv, SearchInv, NEW s \in Schedulers,
           NEW r \in Rides, CountRetry(s, r), UNCHANGED <<request, task>>
    PROVE  Fits
<1> DEFINE copy == sched[s].copies[r]
           new == [copy EXCEPT !.retries = @ + 1]
<1>1. /\ copy \in Row /\ new \in Row /\ new.status = copy.status
      /\ new.driver = copy.driver /\ new.retries = copy.retries + 1
  <2>1. copy \in Row /\ ~(copy.retries >= MaxRetries)
    BY LoopKnows DEF CountRetry, Exhausted
  <2> HIDE DEF copy
  <2> QED BY <2>1, TableAssumption DEF Row
<1>2. /\ sched[s].phase = "retry" /\ r \in sched[s].todo
      /\ rides' = [rides EXCEPT ![r] = Flush(rides[r], copy, new)]
      /\ CommitCopy(s, r, new, "find")
  BY DEF CountRetry, Takes, CommitCopy, CommitRow
<1>3. copy.retries = rides[r].retries /\ copy.retries \in Nat
  BY <1>1, <1>2, LoopKnows, TableAssumption DEF LoopFits, Row
<1> HIDE DEF copy, new
<1>4. /\ rides'[r].status = rides[r].status /\ rides'[r].driver = rides[r].driver
      /\ rides'[r].retries = new.retries
      /\ \A x \in Rides \ {r} : rides'[x] = rides[x]
  BY <1>1, <1>2, <1>3, LoopKnows DEF Flush
<1>5. \A x \in Rides : /\ rides'[x].status = rides[x].status
                       /\ rides'[x].driver = rides[x].driver
  BY <1>4
<1>6. PICK l : TurnsTo(s, l, "find", r, new)
  BY <1>1, <1>2, CopyUpdate
<1> USE DEF TurnsTo
<1>7. \A x \in Rides : l.copies[x].status = sched[s].copies[x].status
  BY <1>1, <1>6 DEF copy
<1>8. sched'[s] = l /\ \A t \in Schedulers : t = s
  BY <1>6, LoopKnows DEF OneInstance
<1>9. RequestedIsUnassigned' /\ TasksFit'
  BY <1>5 DEF SearchInv, RequestedIsUnassigned, TasksFit
<1>10. HandlersFit'
  BY <1>5, HandlerFacts DEF SearchInv, HandlersFit, NoLater
<1>11. LoopFits(l, rides')
  <2>1. LoopFits(sched[s], rides) /\ sched[s].todo \subseteq Rides
    BY LoopKnows
  <2>2. \A x \in Rides : NoLater(l.copies[x], rides'[x])
    BY <1>5, <1>7, <2>1 DEF LoopFits, NoLater
  <2>3. ASSUME NEW x \in l.todo
        PROVE  l.copies[x].retries = rides'[x].retries /\ rides'[x].status # "none"
    BY <1>4, <1>5, <1>6, <2>1, <2>3 DEF LoopFits
  <2> QED BY <1>2, <1>6, <2>2, <2>3 DEF LoopFits
<1>12. ASSUME NEW x \in Rides, Waits(l, rides'[x], x)
       PROVE  Untouched(x)'
  <2>1. Waits(sched[s], rides[x], x)
    BY <1>5, <1>6, <1>7, <1>12 DEF Waits
  <2>2. Untouched(x)
    BY <2>1 DEF SearchInv
  <2> QED BY <1>5, <1>7, <1>8, <2>2 DEF Untouched, Unsought
<1>13. Counted
  BY <1>1, <1>3, <1>4 DEF Counted
<1> QED BY <1>8, <1>9, <1>10, <1>11, <1>12, <1>13 DEF SearchInv, Fits

\* What was requested is read back, whatever it has become.
LEMMA RefreshFits ==
    ASSUME OneInstance, HistoryInv, SearchInv, NEW s \in Schedulers,
           RefreshRide(s), UNCHANGED <<request, task>>
    PROVE  Fits
<1> DEFINE r == sched[s].ride
           l == [sched[s] EXCEPT !.at = "find", !.copies[r] = rides[r]]
<1>1. /\ sched[s].at = "refresh" /\ rides' = rides
      /\ sched' = [sched EXCEPT ![s] = l]
  BY LoopKnows DEF RefreshRide, SchedType, tableVars
<1>2. /\ l.at = "find" /\ l.ride = r /\ l.phase = sched[s].phase
      /\ l.todo = sched[s].todo
      /\ l.copies = [sched[s].copies EXCEPT ![r] = rides[r]]
  BY LoopKnows DEF SchedType
<1>3. r \in Rides
  BY <1>1 DEF HistoryInv, LoopsOK, LoopOK
<1> HIDE DEF l
<1>4. l.copies[r] = rides[r] /\ \A x \in Rides \ {r} : l.copies[x] = sched[s].copies[x]
  BY <1>2, <1>3, LoopKnows
<1>5. LoopFits(l, rides')
  <2>1. LoopFits(sched[s], rides) /\ sched[s].todo \subseteq Rides
    BY LoopKnows
  <2>2. \A x \in Rides : NoLater(l.copies[x], rides'[x])
    BY <1>1, <1>4, <2>1 DEF LoopFits, NoLater
  <2>3. ASSUME NEW x \in l.todo
        PROVE  l.copies[x].retries = rides'[x].retries /\ rides'[x].status # "none"
    BY <1>1, <1>2, <1>4, <2>1, <2>3 DEF LoopFits
  <2>4. l.phase = "dispatch" =>
            \A x \in l.todo \ {l.ride} : l.copies[x].status = "scheduled"
    BY <1>2, <1>4, <2>1 DEF LoopFits
  <2> QED BY <1>2, <2>2, <2>3, <2>4 DEF LoopFits
<1>6. StillWaits(s, l)
  BY <1>1, <1>2, <1>4, LoopKnows DEF StillWaits, Waits
<1> HIDE DEF r
<1> QED BY <1>1, <1>5, <1>6, LoopMove, RowsStay

LEMMA FindFits ==
    ASSUME OneInstance, HistoryInv, SearchInv, NEW s \in Schedulers,
           ScheduledFind(s), UNCHANGED <<request, task>>
    PROVE  Fits
<1> PICK d \in SchedulerCandidates :
        sched' = [sched EXCEPT ![s].at = "commit", ![s].found = d]
  BY DEF ScheduledFind
<1> DEFINE l == [sched[s] EXCEPT !.at = "commit", !.found = d]
<1>1. sched[s].at = "find" /\ rides' = rides /\ sched' = [sched EXCEPT ![s] = l]
  BY DEF ScheduledFind, tableVars
<1>2. /\ l.at = "commit" /\ l.ride = sched[s].ride /\ l.phase = sched[s].phase
      /\ l.todo = sched[s].todo /\ l.copies = sched[s].copies
  BY LoopKnows DEF SchedType
<1> HIDE DEF l
<1>3. LoopFits(l, rides')
  BY <1>1, <1>2, LoopKnows DEF LoopFits
<1>4. StillWaits(s, l)
  BY <1>1, <1>2, LoopKnows DEF StillWaits, Waits
<1> QED BY <1>1, <1>3, <1>4, LoopMove, RowsStay

LEMMA MatchFits ==
    ASSUME OneInstance, HistoryInv, SearchInv, NEW s \in Schedulers,
           ScheduledMatch(s), UNCHANGED <<request, task>>
    PROVE  Fits
<1> DEFINE r == sched[s].ride
           copy == sched[s].copies[r]
           new == Matched(copy, sched[s].found)
<1>1. r \in Rides
  BY DEF ScheduledMatch, HistoryInv, LoopsOK, LoopOK
<1>2. /\ new \in Row /\ new.status = "matched" /\ new.retries = copy.retries
      /\ copy \in Row
  <2>1. copy \in Row /\ sched[s].found \in Drivers \union {NoDriver}
    BY <1>1, LoopKnows DEF SchedType
  <2> HIDE DEF copy
  <2> QED BY <2>1 DEF Matched, Row, RideStatus
<1>3. CommitCopy(s, r, new, "busy")
  BY DEF ScheduledMatch, Copy
<1> HIDE DEF copy, new
<1>4. rides' = [rides EXCEPT ![r] = Flush(rides[r], copy, new)]
  BY <1>3 DEF CommitCopy, CommitRow, copy
<1>5. LoopFits(sched[s], rides) /\ sched[s].todo \subseteq Rides /\ TableTypeOK
  BY LoopKnows DEF HistoryInv, TypeOK
<1>6. RowsSettle /\ Settled(rides[r], rides'[r])
  <2>1. NoLater(copy, rides[r]) /\ new.status \notin Early
    BY <1>1, <1>2, <1>5 DEF LoopFits, copy, Early
  <2>2. RowsSettle
    BY <1>1, <1>2, <1>4, <1>5, <2>1, WriteSettles
  <2>3. Settled(rides[r], Flush(rides[r], copy, new))
    BY <1>1, <1>2, <1>5, <2>1, FlushSettles DEF TableTypeOK
  <2> QED BY <1>1, <1>4, <1>5, <2>2, <2>3 DEF TableTypeOK
<1>7. \A x \in Rides \ {r} : rides'[x] = rides[x]
  BY <1>4, <1>5 DEF TableTypeOK
<1>8. PICK l : TurnsTo(s, l, "busy", r, new)
  BY <1>1, <1>2, <1>3, CopyUpdate
<1> HIDE DEF r
<1> USE DEF TurnsTo
<1>9. LoopFits(l, rides')
  <2>1. \A x \in Rides : NoLater(l.copies[x], rides'[x])
    BY <1>2, <1>5, <1>6, <1>7, <1>8 DEF LoopFits, NoLater, Settled
  <2>2. ASSUME NEW x \in l.todo
        PROVE  l.copies[x].retries = rides'[x].retries /\ rides'[x].status # "none"
    BY <1>2, <1>5, <1>6, <1>7, <1>8, <2>2
       DEF LoopFits, Settled, Early, copy
  <2>3. l.phase = "dispatch" =>
            \A x \in l.todo \ {l.ride} : l.copies[x].status = "scheduled"
    BY <1>5, <1>8 DEF LoopFits, r
  <2> QED BY <1>8, <2>1, <2>2, <2>3 DEF LoopFits
<1>10. StillWaits(s, l)
  BY <1>2, <1>6, <1>7, <1>8, LoopKnows DEF StillWaits, Waits, Settled, Early
<1> QED BY <1>6, <1>8, <1>9, <1>10, LoopMove

LEMMA CancelFits ==
    ASSUME OneInstance, HistoryInv, SearchInv, NEW s \in Schedulers,
           NEW r \in Rides, CancelExhausted(s, r), UNCHANGED <<request, task>>
    PROVE  Fits
<1> DEFINE copy == sched[s].copies[r]  new == Cancelled(copy)
<1>1. copy \in Row
  BY LoopKnows
<1>2. new \in Row /\ new.status \notin Early /\ new.retries = copy.retries
  BY <1>1, NewCopies DEF Early
<1>3. /\ rides' = [rides EXCEPT ![r] = Flush(rides[r], copy, new)]
      /\ sched[s].at = "next" /\ Drop(s, r)
  BY DEF CancelExhausted, Takes, CommitRow
<1>4. LoopFits(sched[s], rides) /\ TableTypeOK
  BY LoopKnows DEF HistoryInv, TypeOK
<1>5. NoLater(copy, rides[r])
  BY <1>4 DEF LoopFits
<1> HIDE DEF copy, new
<1>6. RowsSettle
  BY <1>1, <1>2, <1>3, <1>4, <1>5, WriteSettles
<1>7. \A x \in Rides \ {r} : rides'[x] = rides[x]
  BY <1>3, <1>4 DEF TableTypeOK
<1>8. sched[s].ride = NoRide
  BY <1>3, <1>4 DEF LoopFits
<1> QED BY <1>3, <1>6, <1>7, <1>8, DropFits

LEMMA DispatchingFits ==
    ASSUME OneInstance, HistoryInv, SearchInv, Dispatching
    PROVE  Fits
<1> PICK s \in Schedulers : SchedProgress(s) \/ PhaseAborts(s)
  BY DEF Dispatching, SchedStep
<1>1. UNCHANGED <<request, task>>
  BY DEF Dispatching, handlerVars
<1>2. LoopFits(sched[s], rides)
  BY LoopKnows
<1>3. CASE QueryScheduled(s)
  BY <1>1, <1>3, QueryFits DEF QueryScheduled, Rows
<1>4. CASE QueryUnmatched(s)
  BY <1>1, <1>4, QueryFits DEF QueryUnmatched, Rows
<1>5. ASSUME NEW r \in Rides, TakeRide(s, r)
      PROVE  Fits
  <2>1. CASE SkipNotDue(s, r) \/ SkipBackoff(s, r)
    <3>1. Drop(s, r) /\ sched[s].at = "next" /\ rides' = rides
      BY <2>1 DEF SkipNotDue, SkipBackoff, Takes, Skip, tableVars
    <3> QED BY <1>1, <1>2, <3>1, RowsStay, DropFits DEF LoopFits
  <2> QED BY <1>1, <1>5, <2>1, DispatchFits, CancelFits, CountFits DEF TakeRide
<1>6. CASE RefreshRide(s) \/ ScheduledFind(s) \/ ScheduledMatch(s)
  BY <1>1, <1>6, RefreshFits, FindFits, MatchFits
<1>7. CASE ScheduledBusy(s) \/ ScheduledFails(s)
  <2>1. /\ Drop(s, sched[s].ride) /\ rides' = rides
        /\ sched[s].at \in {"find", "commit", "busy"}
    BY <1>7 DEF ScheduledBusy, ScheduledFails, Skip, tableVars
  <2>2. sched[s].ride \in Rides
    BY <2>1 DEF HistoryInv, LoopsOK, LoopOK
  <2> QED BY <1>1, <2>1, <2>2, RowsStay, DropFits
<1>8. CASE NextPhase(s) \/ PhaseAborts(s)
  BY <1>1, <1>8, EndPhaseFits DEF NextPhase, PhaseAborts
<1> QED BY <1>3, <1>4, <1>5, <1>6, <1>7, <1>8 DEF SchedProgress

-----------------------------------------------------------------------------
(* The theorems.                                                            *)

LEMMA SearchBegins == Init => SearchInv
<1> SUFFICES ASSUME Init PROVE SearchInv
  OBVIOUS
<1>1. \A r \in Rides : rides[r] = NoRow /\ task[r] = NoTask
  BY DEF Init, TableInit, TaskInit
<1>2. \A q \in Requests : request[q] = Idle
  BY DEF Init, HandlersInit
<1>3. \A s \in Schedulers : /\ sched[s].todo = {} /\ sched[s].ride = NoRide
                            /\ \A r \in Rides : sched[s].copies[r] = NoRow
  BY DEF Init, SchedInit, Phase
<1>4. RequestedIsUnassigned /\ HandlersFit /\ TasksFit
  BY <1>1, <1>2 DEF RequestedIsUnassigned, HandlersFit, TasksFit, NoTask, NoRow,
     Early
<1>5. \A s \in Schedulers : LoopFits(sched[s], rides)
  BY <1>3 DEF LoopFits, NoLater, NoRow, Early
<1>6. \A r \in Rides : Untouched(r)
  BY <1>1, <1>2, <1>3 DEF Untouched, Unsought, UnsoughtBy, NoTask, NoRow
<1> QED BY <1>4, <1>5, <1>6 DEF SearchInv

LEMMA NextFits ==
    ASSUME OneInstance, HistoryInv, SearchInv, [Next]_vars
    PROVE  Fits
<1>1. CASE Presence \/ UNCHANGED vars
  <2>1. UNCHANGED <<rides, request, task, sched>>
    BY <1>1 DEF Presence, vars, tableVars, handlerVars
  <2>2. SearchInv'
    BY <2>1 DEF SearchInv, RequestedIsUnassigned, HandlersFit, TasksFit, Untouched
  <2> QED BY <2>1, <2>2, RowsStay, SettledCounts DEF Fits
<1> QED BY <1>1, NewRideFits, HandlingFits, MatchingFits, DispatchingFits DEF Next

\* With one API instance, a ride whose search has begun does not wait again,
\* and the loop's copies have the attempts of their rides.
THEOREM SearchInvariant == OneInstance => (Spec => []SearchInv)
<1> SUFFICES ASSUME OneInstance PROVE Spec => []SearchInv
  OBVIOUS
<1>1. HistoryInv /\ SearchInv /\ [Next]_vars => SearchInv'
  BY NextFits DEF Fits
<1> QED BY <1>1, SearchBegins, HistoryInvariant, PTL DEF Spec

\* With one API instance, a requested ride has no driver, so the retry query
\* sees every requested ride.
THEOREM RequestedAreUnassigned == OneInstance => (Spec => []RequestedIsUnassigned)
<1> SUFFICES ASSUME OneInstance PROVE Spec => []RequestedIsUnassigned
  OBVIOUS
<1>1. SearchInv => RequestedIsUnassigned
  BY DEF SearchInv
<1> QED BY <1>1, SearchInvariant, PTL

\* With one API instance, the attempts of a ride are counted one by one and
\* never forgotten, although other sessions write the same row.
THEOREM RetriesAreCounted == OneInstance => (Spec => RetriesCountUp)
<1> SUFFICES ASSUME OneInstance PROVE Spec => RetriesCountUp
  OBVIOUS
<1>1. HistoryInv /\ SearchInv /\ [Next]_vars =>
          [\A r \in Rides : rides'[r].retries \in {rides[r].retries,
                                                   rides[r].retries + 1}]_vars
  BY NextFits DEF Fits, Counted
<1> QED
  BY <1>1, SearchInvariant, HistoryInvariant, PTL DEF Spec, RetriesCountUp

\* With one API instance, the scheduler gives a ride up only after
\* dispatch_max_retries attempts: the copy it decides on has them all.
THEOREM GivenUpIsExhausted == OneInstance => (Spec => GivenUpWhenExhausted)
<1> SUFFICES ASSUME OneInstance PROVE Spec => GivenUpWhenExhausted
  OBVIOUS
<1>1. ASSUME HistoryInv, SearchInv, NEW s \in Schedulers, NEW r \in Rides,
             CancelExhausted(s, r)
      PROVE  rides[r].retries = MaxRetries
  <2>1. r \in sched[s].todo /\ sched[s].copies[r].retries >= MaxRetries
    BY <1>1 DEF CancelExhausted, Takes, Exhausted
  <2>2. rides[r].retries >= MaxRetries
    BY <1>1, <2>1 DEF SearchInv, LoopFits
  <2>3. rides[r].retries \in 0 .. MaxRetries
    BY <1>1 DEF HistoryInv, TypeOK, TableTypeOK, Row
  <2> QED BY <2>2, <2>3, TableAssumption
<1>2. HistoryInv /\ SearchInv /\ [Next]_vars =>
          [\A s \in Schedulers, r \in Rides :
               CancelExhausted(s, r) => rides[r].retries = MaxRetries]_vars
  BY <1>1
<1> QED
  BY <1>2, SearchInvariant, HistoryInvariant, PTL DEF Spec, GivenUpWhenExhausted
=============================================================================
