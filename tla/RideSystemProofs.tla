-------------------------- MODULE RideSystemProofs --------------------------
(***************************************************************************)
(* Proofs that the types and HistoryInv are invariants of RideSystem, for  *)
(* any number of rides, drivers, requests and API instances.               *)
(*                                                                         *)
(* Every action either leaves the table alone or writes one row through    *)
(* Flush, so the argument is one lemma about Flush (a consistent copy that *)
(* only adds milestones leaves the row consistent), one that turns it into *)
(* Advance (the table as a whole only gains), and, for each action, that   *)
(* what it writes is such a copy.                                          *)
(***************************************************************************)
EXTENDS RideInductive, TLAPS

\* The copy "new" adds milestones to "copy" and takes none away.
Grows(copy, new) ==
    /\ Behind(copy, new)
    /\ new.driver = NoDriver => copy.driver = NoDriver

\* A step after which every row is consistent and none has lost a milestone.
Advance ==
    /\ rides' \in [Rides -> Row]
    /\ \A r \in Rides : Consistent(rides'[r]) /\ Behind(rides[r], rides'[r])

-----------------------------------------------------------------------------
\* NoRow is a row, and a copy that is behind every row.
LEMMA NoRowOK ==
    /\ NoRow \in Row
    /\ Consistent(NoRow)
    /\ \A row \in Row : CopyOK(NoRow, row)
BY TableAssumption DEF NoRow, Row, Consistent, CopyOK, Behind, RideStatus,
   Assigned

\* A session that loaded a row and writes back a consistent copy with more
\* milestones leaves the row consistent, whatever was committed in between.
LEMMA FlushKeepsConsistent ==
    ASSUME NEW row \in Row, NEW copy \in Row, NEW new \in Row,
           Consistent(row), CopyOK(copy, row), Consistent(new),
           Grows(copy, new)
    PROVE  LET after == Flush(row, copy, new) IN
           /\ after \in Row
           /\ Consistent(after)
           /\ Behind(row, after)
           /\ Behind(new, after)
<1> DEFINE after == Flush(row, copy, new)
<1>1. after \in Row
  BY DEF Flush, Row
<1>2. Behind(row, after) /\ Behind(new, after)
  BY DEF Flush, Row, Grows, CopyOK, Behind
<1>3. Consistent(after)
  BY DEF Flush, Row, Grows, CopyOK, Behind, Consistent, Assigned
<1> QED BY <1>1, <1>2, <1>3

\* A copy stays behind a row that gains milestones.
LEMMA CopyStaysBehind ==
    ASSUME NEW copy \in Row, NEW row \in Row, NEW after \in Row,
           CopyOK(copy, row), Behind(row, after)
    PROVE  CopyOK(copy, after)
BY DEF CopyOK, Behind, Row

\* A row just loaded is a good copy of itself.
LEMMA LoadedCopy ==
    ASSUME NEW row \in Row, Consistent(row)
    PROVE  CopyOK(row, row)
BY DEF CopyOK, Behind

\* Committing such a copy to one row of a good table is an advance.
LEMMA WriteAdvances ==
    ASSUME TableTypeOK, HistoryConsistent,
           NEW r \in Rides, NEW copy \in Row, NEW new \in Row,
           CopyOK(copy, rides[r]), Consistent(new), Grows(copy, new),
           rides' = [rides EXCEPT ![r] = Flush(rides[r], copy, new)]
    PROVE  Advance /\ Behind(new, rides'[r])
<1> DEFINE after == Flush(rides[r], copy, new)
<1>1. rides[r] \in Row /\ Consistent(rides[r])
  BY DEF TableTypeOK, HistoryConsistent
<1>2. /\ after \in Row /\ Consistent(after)
      /\ Behind(rides[r], after) /\ Behind(new, after)
  BY <1>1, FlushKeepsConsistent
<1>3. rides' \in [Rides -> Row] /\ rides'[r] = after
  BY <1>2 DEF TableTypeOK
<1>4. ASSUME NEW x \in Rides
      PROVE  Consistent(rides'[x]) /\ Behind(rides[x], rides'[x])
  <2>1. CASE x = r
    BY <1>2, <1>3, <2>1
  <2>2. CASE x # r
    BY <2>2 DEF TableTypeOK, HistoryConsistent, Behind
  <2> QED BY <2>1, <2>2
<1> QED BY <1>2, <1>3, <1>4 DEF Advance

\* A table that is left alone has advanced, too.
LEMMA StayAdvances ==
    ASSUME TableTypeOK, HistoryConsistent, rides' = rides
    PROVE  Advance
BY DEF Advance, TableTypeOK, HistoryConsistent, Behind

\* What an advance of the table means for the sessions that take no step.
LEMMA HandlersKept ==
    ASSUME TypeOK, HandlersOK, Advance, request' = request
    PROVE  HandlersOK'
<1> SUFFICES ASSUME NEW q \in Requests, request[q] # Idle
             PROVE  HandlerOK(request[q], rides'[request[q].ride])
  BY DEF HandlersOK
<1>1. request[q] \in Handler
  BY DEF TypeOK, HandlersTypeOK
<1>2. request[q].copy \in Row /\ request[q].ride \in Rides
  BY <1>1 DEF Handler
<1>3. HandlerOK(request[q], rides[request[q].ride])
  BY DEF HandlersOK
<1>4. CopyOK(request[q].copy, rides'[request[q].ride])
  BY <1>2, <1>3, CopyStaysBehind
     DEF HandlerOK, Advance, TypeOK, TableTypeOK
<1> QED BY <1>3, <1>4 DEF HandlerOK

LEMMA TasksKept ==
    ASSUME TypeOK, TasksOK, Advance, task' = task
    PROVE  TasksOK'
<1> SUFFICES ASSUME NEW r \in Rides PROVE TaskOK(task[r], rides'[r])
  BY DEF TasksOK
<1>1. task[r].copy \in Row /\ TaskOK(task[r], rides[r])
  BY DEF TypeOK, TaskTypeOK, TaskType, TasksOK
<1>2. CopyOK(task[r].copy, rides'[r])
  BY <1>1, CopyStaysBehind DEF TaskOK, Advance, TypeOK, TableTypeOK
<1> QED BY <1>1, <1>2 DEF TaskOK

LEMMA LoopKept ==
    ASSUME TypeOK, LoopsOK, Advance, NEW s \in Schedulers
    PROVE  LoopOK(sched[s], rides')
<1>1. LoopOK(sched[s], rides) /\ sched[s].copies \in [Rides -> Row]
  BY DEF LoopsOK, TypeOK, SchedTypeOK, SchedType
<1>2. ASSUME NEW r \in Rides PROVE CopyOK(sched[s].copies[r], rides'[r])
  BY <1>1, CopyStaysBehind DEF LoopOK, Advance, TypeOK, TableTypeOK
<1> QED BY <1>1, <1>2 DEF LoopOK

LEMMA LoopsKept ==
    ASSUME TypeOK, LoopsOK, Advance, sched' = sched
    PROVE  LoopsOK'
BY LoopKept DEF LoopsOK

-----------------------------------------------------------------------------
\* Replacing what one slot holds.
LEMMA SlotUpdate ==
    ASSUME TypeOK, HandlersOK, Advance,
           NEW q \in Requests, NEW h \in Handler \union {Idle},
           request' = [request EXCEPT ![q] = h],
           h # Idle => HandlerOK(h, rides'[h.ride])
    PROVE  /\ request' \in [Requests -> Handler \union {Idle}]
           /\ HandlersOK'
<1>1. request' \in [Requests -> Handler \union {Idle}]
  BY DEF TypeOK, HandlersTypeOK
<1>2. ASSUME NEW p \in Requests, request'[p] # Idle
      PROVE  HandlerOK(request'[p], rides'[request'[p].ride])
  <2>1. CASE p = q
    BY <1>2, <2>1 DEF TypeOK, HandlersTypeOK
  <2>2. CASE p # q
    <3>1. request'[p] = request[p] /\ request[p] \in Handler
      BY <1>2, <2>2 DEF TypeOK, HandlersTypeOK
    <3>2. request[p].copy \in Row /\ request[p].ride \in Rides
      BY <3>1 DEF Handler
    <3>3. HandlerOK(request[p], rides[request[p].ride])
      BY <1>2, <3>1 DEF HandlersOK
    <3>4. CopyOK(request[p].copy, rides'[request[p].ride])
      BY <3>2, <3>3, CopyStaysBehind
         DEF HandlerOK, Advance, TypeOK, TableTypeOK
    <3> QED BY <3>1, <3>3, <3>4 DEF HandlerOK
  <2> QED BY <2>1, <2>2
<1> QED BY <1>1, <1>2 DEF HandlersOK

\* The slot becomes free, ...
LEMMA FinishSound ==
    ASSUME TypeOK, HandlersOK, Advance, NEW q \in Requests, Finish(q)
    PROVE  request' \in [Requests -> Handler \union {Idle}] /\ HandlersOK'
BY SlotUpdate DEF Finish

\* ... or the handler goes on without its copy, ...
LEMMA ForgetSound ==
    ASSUME TypeOK, HandlersOK, Advance, NEW q \in Requests,
           request[q] # Idle, NEW next \in {"busy", "available", "fee"},
           Forget(q, next)
    PROVE  request' \in [Requests -> Handler \union {Idle}] /\ HandlersOK'
<1> DEFINE h == [request[q] EXCEPT !.at = next, !.copy = NoRow]
<1>1. request[q] \in Handler /\ HandlerOK(request[q], rides[request[q].ride])
  BY DEF TypeOK, HandlersTypeOK, HandlersOK
<1>2. h \in Handler
  BY <1>1, NoRowOK DEF Handler
<1>3. request' = [request EXCEPT ![q] = h]
  BY <1>1 DEF Forget, TypeOK, HandlersTypeOK, Handler
<1>4. CopyOK(NoRow, rides'[request[q].ride])
  BY <1>1, NoRowOK DEF Advance, Handler
<1>5. HandlerOK(h, rides'[h.ride])
  BY <1>1, <1>4 DEF HandlerOK, Handler
<1> QED BY <1>2, <1>3, <1>5, SlotUpdate

\* ... or it keeps the copy past its COMMIT.
LEMMA ContinueSound ==
    ASSUME TypeOK, HandlersOK, Advance, NEW q \in Requests,
           request[q] # Idle, NEW next \in {"release", "intent", "payment"},
           Continue(q, next)
    PROVE  request' \in [Requests -> Handler \union {Idle}] /\ HandlersOK'
<1> DEFINE h == [request[q] EXCEPT !.at = next]
<1>1. request[q] \in Handler /\ HandlerOK(request[q], rides[request[q].ride])
  BY DEF TypeOK, HandlersTypeOK, HandlersOK
<1>2. h \in Handler
  BY <1>1 DEF Handler
<1>3. request' = [request EXCEPT ![q] = h]
  BY <1>1 DEF Continue, TypeOK, HandlersTypeOK, Handler
<1>4. CopyOK(request[q].copy, rides'[request[q].ride])
  BY <1>1, CopyStaysBehind
     DEF HandlerOK, Handler, Advance, TypeOK, TableTypeOK
<1>5. HandlerOK(h, rides'[h.ride])
  BY <1>1, <1>4 DEF HandlerOK, Handler
<1> QED BY <1>2, <1>3, <1>5, SlotUpdate

\* What a step of a handler has to establish.
HandlerSound ==
    /\ Advance
    /\ locked' \subseteq Rides
    /\ EngineTypeOK'
    /\ HandlersTypeOK'
    /\ HandlersOK'

\* A handler that has loaded a row and passed its guards.
LEMMA BeginSound ==
    ASSUME HistoryInv, NEW q \in Requests, NEW r \in Rides,
           NEW op \in {"accept", "en_route", "arrived", "start", "complete",
                       "cancel", "cancel_scheduled"},
           NEW at \in {"profile", "commit"}, NEW fee \in BOOLEAN,
           NEW by \in Drivers \union {Rider},
           op \notin {"cancel", "cancel_scheduled"} => by \in Drivers,
           at = "profile" => op = "complete",
           op = "en_route" => rides[r].status = "matched",
           op = "arrived" => rides[r].status = "driver_en_route",
           op = "start" => rides[r].status \in {"matched", "arrived"},
           op = "complete" => rides[r].status = "in_progress",
           Begin(q, op, at, r, by, fee)
    PROVE  HandlerSound
<1> DEFINE h == [op |-> op, at |-> at, ride |-> r, by |-> by,
                 copy |-> rides[r], fee |-> fee, trips |-> 0]
<1> USE DEF HistoryInv
<1>1. Advance
  BY StayAdvances DEF Begin, tableVars, TypeOK
<1>2. rides[r] \in Row /\ Consistent(rides[r])
  BY DEF TypeOK, TableTypeOK, HistoryConsistent
<1>3. h \in Handler
  BY <1>2 DEF Handler
<1>4. CopyOK(rides[r], rides[r])
  BY <1>2, LoadedCopy
<1>5. HandlerOK(h, rides'[h.ride])
  BY <1>4 DEF HandlerOK, Begin, tableVars
<1>6. request' = [request EXCEPT ![q] = h]
  BY DEF Begin
<1>7. request' \in [Requests -> Handler \union {Idle}] /\ HandlersOK'
  BY <1>1, <1>3, <1>5, <1>6, SlotUpdate
<1> QED
  BY <1>1, <1>7 DEF Begin, tableVars, books, engineVars, HandlerSound, TypeOK,
     TableTypeOK, EngineTypeOK, HandlersTypeOK

\* Every guard of the handlers gives BeginSound what it asks for.
LEMMA HandlerLoadSound ==
    ASSUME HistoryInv, NEW q \in Requests, HandlerLoad(q)
    PROVE  HandlerSound
<1> PICK r \in Rides :
        \/ LoadCancelScheduled(q, r)
        \/ \E by \in Drivers \union {Rider}, graceOver \in BOOLEAN :
               LoadCancel(q, r, by, graceOver)
        \/ \E d \in Drivers :
               \/ LoadAccept(q, r, d)
               \/ LoadEnRoute(q, r, d)
               \/ LoadArrived(q, r, d)
               \/ LoadStart(q, r, d)
               \/ LoadComplete(q, r, d)
  BY DEF HandlerLoad
<1>1. CASE LoadCancelScheduled(q, r)
  BY <1>1, BeginSound DEF LoadCancelScheduled
<1>2. ASSUME NEW by \in Drivers \union {Rider}, NEW graceOver \in BOOLEAN,
             LoadCancel(q, r, by, graceOver)
      PROVE  HandlerSound
  <2>1. FeeDue(rides[r], by, graceOver) \in BOOLEAN
    BY DEF FeeDue
  <2> QED BY <1>2, <2>1, BeginSound DEF LoadCancel
<1>3. ASSUME NEW d \in Drivers, LoadAccept(q, r, d) PROVE HandlerSound
  BY <1>3, BeginSound DEF LoadAccept
<1>4. ASSUME NEW d \in Drivers, LoadEnRoute(q, r, d) PROVE HandlerSound
  BY <1>4, BeginSound DEF LoadEnRoute
<1>5. ASSUME NEW d \in Drivers, LoadArrived(q, r, d) PROVE HandlerSound
  BY <1>5, BeginSound DEF LoadArrived
<1>6. ASSUME NEW d \in Drivers, LoadStart(q, r, d) PROVE HandlerSound
  BY <1>6, BeginSound DEF LoadStart
<1>7. ASSUME NEW d \in Drivers, LoadComplete(q, r, d) PROVE HandlerSound
  BY <1>7, BeginSound DEF LoadComplete
<1> QED BY <1>1, <1>2, <1>3, <1>4, <1>5, <1>6, <1>7

-----------------------------------------------------------------------------
\* What is known of a handler that is under way.
LEMMA HandlerFacts ==
    ASSUME HistoryInv, NEW q \in Requests, request[q] # Idle
    PROVE  /\ request[q] \in Handler
           /\ request[q].ride \in Rides
           /\ request[q].copy \in Row
           /\ HandlerOK(request[q], rides[request[q].ride])
           /\ CopyOK(request[q].copy, rides[request[q].ride])
BY DEF HistoryInv, TypeOK, HandlersTypeOK, HandlersOK, HandlerOK, Handler

\* A COMMIT advances the table when the copy has only gained milestones.
LEMMA CommitAdvances ==
    ASSUME HistoryInv, NEW q \in Requests, request[q] # Idle,
           NEW new \in Row, Consistent(new), Grows(request[q].copy, new),
           CommitRide(q, new)
    PROVE  Advance /\ locked' \subseteq Rides
<1>1. /\ request[q].ride \in Rides
      /\ request[q].copy \in Row
      /\ CopyOK(request[q].copy, rides[request[q].ride])
  BY HandlerFacts
<1> QED
  BY <1>1, WriteAdvances
     DEF CommitRide, CommitRow, HistoryInv, TypeOK, TableTypeOK

\* The copies that the handlers write back.
LEMMA MatchedOK ==
    ASSUME NEW copy \in Row, Consistent(copy), NEW d \in Drivers
    PROVE  /\ Matched(copy, d) \in Row
           /\ Consistent(Matched(copy, d))
           /\ Grows(copy, Matched(copy, d))
BY TableAssumption DEF Matched, Row, RideStatus, Consistent, Grows, Behind,
   Assigned

LEMMA CancelledOK ==
    ASSUME NEW copy \in Row, Consistent(copy)
    PROVE  /\ Cancelled(copy) \in Row
           /\ Consistent(Cancelled(copy))
           /\ Grows(copy, Cancelled(copy))
BY DEF Cancelled, Row, RideStatus, Consistent, Grows, Behind, Assigned

\* A handler whose COMMIT is the last thing it does.
LEMMA CommitAndFinishSound ==
    ASSUME HistoryInv, NEW q \in Requests, request[q] # Idle,
           NEW new \in Row, Consistent(new), Grows(request[q].copy, new),
           CommitAndFinish(q, new)
    PROVE  HandlerSound
<1>1. Advance /\ locked' \subseteq Rides
  BY CommitAdvances DEF CommitAndFinish
<1>2. request' \in [Requests -> Handler \union {Idle}] /\ HandlersOK'
  BY <1>1, FinishSound DEF CommitAndFinish, HistoryInv
<1> QED
  BY <1>1, <1>2 DEF CommitAndFinish, HandlerSound, HistoryInv, TypeOK, books,
     engineVars, EngineTypeOK, HandlersTypeOK

\* The steps that set a milestone.
LEMMA CommitAcceptSound ==
    ASSUME HistoryInv, NEW q \in Requests, CommitAccept(q)
    PROVE  HandlerSound
<1>1. request[q] # Idle
  BY DEF CommitAccept, At
<1>2. /\ request[q].copy \in Row
      /\ Consistent(request[q].copy)
      /\ request[q].by \in Drivers
  BY <1>1, HandlerFacts DEF HandlerOK, CopyOK, CommitAccept, At
<1>3. Advance /\ locked' \subseteq Rides
  BY <1>1, <1>2, MatchedOK, CommitAdvances DEF CommitAccept
<1>4. request' \in [Requests -> Handler \union {Idle}] /\ HandlersOK'
  BY <1>1, <1>3, ForgetSound DEF CommitAccept, HistoryInv
<1> QED
  BY <1>3, <1>4 DEF CommitAccept, HandlerSound, HistoryInv, TypeOK, books,
     engineVars, EngineTypeOK, HandlersTypeOK

LEMMA CommitProgressSound ==
    ASSUME HistoryInv, NEW q \in Requests,
           CommitEnRoute(q) \/ CommitArrived(q) \/ CommitStart(q)
    PROVE  HandlerSound
<1> DEFINE copy == request[q].copy
<1>1. request[q] # Idle
  BY DEF CommitEnRoute, CommitArrived, CommitStart, At
<1>2. /\ copy \in Row
      /\ Consistent(copy)
      /\ HandlerOK(request[q], rides[request[q].ride])
  BY <1>1, HandlerFacts DEF CopyOK
<1>3. CASE CommitEnRoute(q)
  <2> DEFINE new == [copy EXCEPT !.status = "driver_en_route"]
  <2>1. copy.status = "matched"
    BY <1>2, <1>3 DEF HandlerOK, CommitEnRoute, At
  <2>2. new \in Row /\ Consistent(new) /\ Grows(copy, new)
    BY <1>2, <2>1 DEF Row, RideStatus, Consistent, Grows, Behind, Assigned
  <2> QED BY <1>1, <1>3, <2>2, CommitAndFinishSound DEF CommitEnRoute
<1>4. CASE CommitArrived(q)
  <2> DEFINE new == [copy EXCEPT !.status = "arrived"]
  <2>1. copy.status = "driver_en_route"
    BY <1>2, <1>4 DEF HandlerOK, CommitArrived, At
  <2>2. new \in Row /\ Consistent(new) /\ Grows(copy, new)
    BY <1>2, <2>1 DEF Row, RideStatus, Consistent, Grows, Behind, Assigned
  <2> QED BY <1>1, <1>4, <2>2, CommitAndFinishSound DEF CommitArrived
<1>5. CASE CommitStart(q)
  <2> DEFINE new == [copy EXCEPT !.status = "in_progress", !.startedAt = TRUE]
  <2>1. copy.status \in {"matched", "arrived"}
    BY <1>2, <1>5 DEF HandlerOK, CommitStart, At
  <2>2. new \in Row /\ Consistent(new) /\ Grows(copy, new)
    BY <1>2, <2>1, TableAssumption
       DEF Row, RideStatus, Consistent, Grows, Behind, Assigned
  <2> QED BY <1>1, <1>5, <2>2, CommitAndFinishSound DEF CommitStart
<1> QED BY <1>3, <1>4, <1>5

LEMMA CommitCompleteSound ==
    ASSUME HistoryInv, NEW q \in Requests, CommitComplete(q)
    PROVE  HandlerSound
<1> DEFINE copy == request[q].copy
           new == [copy EXCEPT !.status = "completed", !.completedAt = TRUE]
<1>1. request[q] # Idle
  BY DEF CommitComplete, At
<1>2. /\ copy \in Row
      /\ CopyOK(copy, rides[request[q].ride])
      /\ HandlerOK(request[q], rides[request[q].ride])
      /\ request[q].ride \in Rides
      /\ request[q].trips \in Nat
  BY <1>1, HandlerFacts DEF Handler
<1>3. copy.status = "in_progress"
  BY <1>2 DEF HandlerOK, CommitComplete, At
<1>4. new \in Row /\ Consistent(new) /\ Grows(copy, new)
  BY <1>2, <1>3
     DEF Row, RideStatus, CopyOK, Consistent, Grows, Behind, Assigned
<1>5. Advance
  BY <1>2, <1>4, WriteAdvances DEF CommitComplete, HistoryInv, TypeOK
<1>6. request' \in [Requests -> Handler \union {Idle}] /\ HandlersOK'
  BY <1>1, <1>5, ForgetSound DEF CommitComplete, HistoryInv
<1>7. locked' \subseteq Rides
  BY DEF CommitComplete, HistoryInv, TypeOK, TableTypeOK
<1>8. trips' \in [Drivers -> Nat]
  <2>1. request[q].trips + 1 \in Nat
    BY <1>2
  <2>2. trips' = [trips EXCEPT ![request[q].by] = request[q].trips + 1]
    BY DEF CommitComplete
  <2> HIDE DEF new
  <2> QED BY <2>1, <2>2 DEF HistoryInv, TypeOK, HandlersTypeOK
<1> QED
  BY <1>5, <1>6, <1>7, <1>8 DEF CommitComplete, HandlerSound, HistoryInv,
     TypeOK, engineVars, EngineTypeOK, HandlersTypeOK

LEMMA CommitCancelSound ==
    ASSUME HistoryInv, NEW q \in Requests,
           CommitCancel(q) \/ CommitCancelScheduled(q)
    PROVE  HandlerSound
<1>1. request[q] # Idle
  BY DEF CommitCancel, CommitCancelScheduled, At
<1>2. request[q].copy \in Row /\ Consistent(request[q].copy)
  BY <1>1, HandlerFacts DEF CopyOK
<1>3. CASE CommitCancelScheduled(q)
  BY <1>1, <1>2, <1>3, CancelledOK, CommitAndFinishSound
     DEF CommitCancelScheduled
<1>4. CASE CommitCancel(q)
  <2>1. Advance /\ locked' \subseteq Rides
    BY <1>1, <1>2, <1>4, CancelledOK, CommitAdvances DEF CommitCancel
  <2>2. request' \in [Requests -> Handler \union {Idle}] /\ HandlersOK'
    BY <1>1, <1>4, <2>1, ContinueSound DEF CommitCancel, HistoryInv
  <2> QED
    BY <1>4, <2>1, <2>2 DEF CommitCancel, HandlerSound, HistoryInv, TypeOK,
       books, engineVars, EngineTypeOK, HandlersTypeOK
<1> QED BY <1>3, <1>4

\* The steps of a handler that do not write to the table.
LEMMA LoadProfileSound ==
    ASSUME HistoryInv, NEW q \in Requests, LoadProfile(q)
    PROVE  HandlerSound
<1> DEFINE h == [request[q] EXCEPT !.at = "commit",
                                   !.trips = trips[request[q].by]]
<1>1. request[q] # Idle /\ request[q].op = "complete"
                        /\ request[q].at = "profile"
  BY DEF LoadProfile, At
<1>2. /\ request[q] \in Handler
      /\ request[q].ride \in Rides
      /\ HandlerOK(request[q], rides[request[q].ride])
  BY <1>1, HandlerFacts
<1>3. trips[request[q].by] \in Nat
  BY <1>1, <1>2 DEF HandlerOK, HistoryInv, TypeOK, HandlersTypeOK
<1>4. h \in Handler
  BY <1>2, <1>3 DEF Handler
<1>5. request' = [request EXCEPT ![q] = h]
  BY <1>2 DEF LoadProfile, HistoryInv, TypeOK, HandlersTypeOK, Handler
<1>6. Advance
  BY StayAdvances DEF LoadProfile, HistoryInv, TypeOK
<1>7. HandlerOK(h, rides'[h.ride])
  BY <1>1, <1>2 DEF HandlerOK, Handler, LoadProfile
<1>8. request' \in [Requests -> Handler \union {Idle}] /\ HandlersOK'
  BY <1>4, <1>5, <1>6, <1>7, SlotUpdate DEF HistoryInv
<1> QED
  BY <1>2, <1>6, <1>8 DEF LoadProfile, HandlerSound, HistoryInv, TypeOK,
     TableTypeOK, books, engineVars, EngineTypeOK, HandlersTypeOK

\* Changing a status key keeps the types of the engine.
LEMMA SetStatusOK ==
    ASSUME EngineTypeOK, NEW d, NEW status \in {"none", "available", "busy"},
           SetStatus(d, status)
    PROVE  EngineTypeOK'
BY DEF SetStatus, EngineTypeOK

LEMMA StatusStepsSound ==
    ASSUME HistoryInv, NEW q \in Requests,
           BusyAfterAccept(q) \/ AvailableAfterComplete(q) \/ ReleaseDriver(q)
    PROVE  HandlerSound
<1>1. request[q] # Idle
  BY DEF BusyAfterAccept, AvailableAfterComplete, ReleaseDriver, At
<1>2. Advance
  BY StayAdvances DEF BusyAfterAccept, AvailableAfterComplete, ReleaseDriver,
     tableVars, HistoryInv, TypeOK
<1>3. EngineTypeOK'
  BY SetStatusOK DEF BusyAfterAccept, AvailableAfterComplete, ReleaseDriver,
     SetDriverBusy, SetDriverAvailable, HistoryInv, TypeOK, engineVars,
     EngineTypeOK
<1>4. request' \in [Requests -> Handler \union {Idle}] /\ HandlersOK'
  <2>1. CASE Finish(q)
    BY <1>2, <2>1, FinishSound DEF HistoryInv
  <2>2. CASE Forget(q, "fee")
    BY <1>1, <1>2, <2>2, ForgetSound DEF HistoryInv
  <2> QED
    BY <2>1, <2>2 DEF BusyAfterAccept, AvailableAfterComplete, ReleaseDriver
<1> QED
  BY <1>2, <1>3, <1>4 DEF BusyAfterAccept, AvailableAfterComplete,
     ReleaseDriver, tableVars, books, HandlerSound, HistoryInv, TypeOK,
     TableTypeOK, HandlersTypeOK

LEMMA FeeStepsSound ==
    ASSUME HistoryInv, NEW q \in Requests,
           LookupFee(q) \/ CreateIntent(q) \/ InsertFee(q)
    PROVE  HandlerSound
<1>1. request[q] # Idle
  BY DEF LookupFee, CreateIntent, InsertFee, At
<1>2. Advance
  BY StayAdvances DEF LookupFee, CreateIntent, InsertFee, tableVars,
     HistoryInv, TypeOK
<1>3. request' \in [Requests -> Handler \union {Idle}] /\ HandlersOK'
  <2>1. CASE Finish(q)
    BY <1>2, <2>1, FinishSound DEF HistoryInv
  <2>2. CASE Continue(q, "intent") \/ Continue(q, "payment")
    BY <1>1, <1>2, <2>2, ContinueSound DEF HistoryInv
  <2> QED BY <2>1, <2>2 DEF LookupFee, CreateIntent, InsertFee
<1>4. /\ trips' \in [Drivers -> Nat]
      /\ payment' \in [Rides -> BOOLEAN]
      /\ intents' \in [Rides -> Nat]
  <2>1. request[q].ride \in Rides
    BY <1>1, HandlerFacts
  <2>2. intents[request[q].ride] + 1 \in Nat
    BY <2>1 DEF HistoryInv, TypeOK, HandlersTypeOK
  <2>3. CASE LookupFee(q)
    BY <2>3 DEF LookupFee, books, HistoryInv, TypeOK, HandlersTypeOK
  <2>4. CASE CreateIntent(q)
    BY <2>2, <2>4 DEF CreateIntent, HistoryInv, TypeOK, HandlersTypeOK
  <2>5. CASE InsertFee(q)
    BY <2>1, <2>5 DEF InsertFee, HistoryInv, TypeOK, HandlersTypeOK
  <2> QED BY <2>3, <2>4, <2>5
<1> QED
  BY <1>2, <1>3, <1>4 DEF LookupFee, CreateIntent, InsertFee, tableVars,
     engineVars, EngineTypeOK, HandlerSound, HistoryInv, TypeOK, TableTypeOK,
     HandlersTypeOK

LEMMA RequestFailsSound ==
    ASSUME HistoryInv, NEW q \in Requests, RequestFails(q)
    PROVE  HandlerSound
<1>1. Advance
  BY StayAdvances DEF RequestFails, HistoryInv, TypeOK
<1>2. request' \in [Requests -> Handler \union {Idle}] /\ HandlersOK'
  BY <1>1, FinishSound DEF RequestFails, HistoryInv
<1> QED
  BY <1>1, <1>2 DEF RequestFails, books, engineVars, EngineTypeOK,
     HandlerSound, HistoryInv, TypeOK, TableTypeOK, HandlersTypeOK

LEMMA HandlerStepSound ==
    ASSUME HistoryInv, HandlerStep
    PROVE  HandlerSound
<1> PICK q \in Requests :
        HandlerLoad(q) \/ HandlerContinue(q) \/ RequestFails(q)
  BY DEF HandlerStep
<1>1. CASE HandlerLoad(q)
  BY <1>1, HandlerLoadSound
<1>2. CASE HandlerContinue(q)
  BY <1>2, CommitAcceptSound, CommitProgressSound, CommitCompleteSound,
     CommitCancelSound, LoadProfileSound, StatusStepsSound, FeeStepsSound
     DEF HandlerContinue
<1>3. CASE RequestFails(q)
  BY <1>3, RequestFailsSound
<1> QED BY <1>1, <1>2, <1>3

-----------------------------------------------------------------------------
\* Everything but the handlers: what a step of the others has to establish.
OthersSound ==
    /\ Advance
    /\ locked' \subseteq Rides
    /\ EngineTypeOK'
    /\ TaskTypeOK' /\ TasksOK'
    /\ SchedTypeOK' /\ LoopsOK'

\* The row of a ride that was just inserted.
LEMMA InsertAdvances ==
    ASSUME HistoryInv, NEW r \in Rides, rides[r] = NoRow,
           NEW status \in {"requested", "scheduled"},
           rides' = [rides EXCEPT ![r].status = status]
    PROVE  Advance
<1> DEFINE new == [NoRow EXCEPT !.status = status]
<1>1. new \in Row /\ Consistent(new) /\ Behind(NoRow, new)
  <2>1. CASE status = "requested"
    BY <2>1, NoRowOK DEF NoRow, Row, RideStatus, Consistent, Behind, Assigned
  <2>2. CASE status = "scheduled"
    BY <2>2, NoRowOK DEF NoRow, Row, RideStatus, Consistent, Behind, Assigned
  <2> QED BY <2>1, <2>2
<1>2. rides' = [rides EXCEPT ![r] = new]
  BY DEF HistoryInv, TypeOK, TableTypeOK
<1>3. rides' \in [Rides -> Row] /\ rides'[r] = new
  BY <1>1, <1>2 DEF HistoryInv, TypeOK, TableTypeOK
<1>4. ASSUME NEW x \in Rides
      PROVE  Consistent(rides'[x]) /\ Behind(rides[x], rides'[x])
  <2>1. CASE x = r
    BY <1>1, <1>3, <2>1
  <2>2. CASE x # r
    BY <1>2, <2>2 DEF HistoryInv, HistoryConsistent, TypeOK, TableTypeOK, Behind
  <2> QED BY <2>1, <2>2
<1> QED BY <1>3, <1>4 DEF Advance

\* Replacing the background task of one ride.
LEMMA TaskUpdate ==
    ASSUME HistoryInv, Advance, NEW r \in Rides, NEW t \in TaskType,
           task' = [task EXCEPT ![r] = t], TaskOK(t, rides'[r])
    PROVE  TaskTypeOK' /\ TasksOK'
<1>1. TaskTypeOK'
  BY DEF HistoryInv, TypeOK, TaskTypeOK
<1>2. ASSUME NEW x \in Rides PROVE TaskOK(task'[x], rides'[x])
  <2>1. CASE x = r
    BY <2>1 DEF HistoryInv, TypeOK, TaskTypeOK
  <2>2. CASE x # r
    <3>1. task'[x] = task[x] /\ task[x] \in TaskType
      BY <2>2 DEF HistoryInv, TypeOK, TaskTypeOK
    <3>2. task[x].copy \in Row /\ TaskOK(task[x], rides[x])
      BY <3>1 DEF HistoryInv, TasksOK, TaskType
    <3>3. CopyOK(task[x].copy, rides'[x])
      BY <3>2, CopyStaysBehind
         DEF TaskOK, Advance, HistoryInv, TypeOK, TableTypeOK
    <3> QED BY <3>1, <3>2, <3>3 DEF TaskOK
  <2> QED BY <2>1, <2>2
<1> QED BY <1>1, <1>2 DEF TasksOK

LEMMA NewRideSound ==
    ASSUME HistoryInv, NewRide
    PROVE  HandlerSound /\ OthersSound
<1>1. PICK r \in Rides :
        /\ \/ RequestRide(r) /\ QueueMatching(r)
           \/ ScheduleRide(r) /\ UNCHANGED task
        /\ UNCHANGED sched
  BY DEF NewRide
<1>2. Advance
  BY <1>1, InsertAdvances DEF RequestRide, ScheduleRide
<1>3. /\ locked' \subseteq Rides
      /\ EngineTypeOK'
      /\ request' = request
      /\ HandlersTypeOK'
  BY <1>1 DEF RequestRide, ScheduleRide, HistoryInv, TypeOK, TableTypeOK,
     books, engineVars, EngineTypeOK, HandlersTypeOK
<1>4. HandlersOK' /\ LoopsOK' /\ SchedTypeOK'
  BY <1>1, <1>2, <1>3, HandlersKept, LoopsKept DEF HistoryInv, TypeOK,
     SchedTypeOK
<1>5. TaskTypeOK' /\ TasksOK'
  <2>1. CASE QueueMatching(r)
    <3> DEFINE t == [task[r] EXCEPT !.at = "queued"]
    <3>1. task[r] \in TaskType /\ TaskOK(task[r], rides[r])
      BY DEF HistoryInv, TypeOK, TaskTypeOK, TasksOK
    <3>2. t \in TaskType
      BY <3>1 DEF TaskType
    <3>3. task' = [task EXCEPT ![r] = t]
      BY <2>1 DEF QueueMatching, HistoryInv, TypeOK, TaskTypeOK
    <3>4. CopyOK(task[r].copy, rides'[r])
      BY <1>2, <3>1, CopyStaysBehind
         DEF TaskOK, TaskType, Advance, HistoryInv, TypeOK, TableTypeOK
    <3>5. TaskOK(t, rides'[r])
      BY <3>1, <3>4 DEF TaskOK, TaskType
    <3> QED BY <1>2, <3>2, <3>3, <3>5, TaskUpdate
  <2>2. CASE UNCHANGED task
    BY <1>2, <2>2, TasksKept DEF HistoryInv, TypeOK, TaskTypeOK
  <2> QED BY <1>1, <2>1, <2>2
<1> QED BY <1>2, <1>3, <1>4, <1>5 DEF HandlerSound, OthersSound

-----------------------------------------------------------------------------
\* The background task.
LEMMA EndTaskSound ==
    ASSUME HistoryInv, Advance, NEW r \in Rides, EndTask(r)
    PROVE  TaskTypeOK' /\ TasksOK'
<1>1. NoTask \in TaskType
  BY NoRowOK DEF NoTask, TaskType
<1>2. TaskOK(NoTask, rides'[r])
  BY NoRowOK DEF NoTask, TaskOK, Advance
<1> QED BY <1>1, <1>2, TaskUpdate DEF EndTask

LEMMA TaskStepSound ==
    ASSUME HistoryInv, NEW r \in Rides, TaskStep(r)
    PROVE  /\ Advance
           /\ locked' \subseteq Rides
           /\ EngineTypeOK'
           /\ TaskTypeOK' /\ TasksOK'
<1>1. /\ task[r] \in TaskType
      /\ task[r].copy \in Row
      /\ TaskOK(task[r], rides[r])
      /\ CopyOK(task[r].copy, rides[r])
  BY DEF HistoryInv, TypeOK, TaskTypeOK, TaskType, TasksOK, TaskOK
<1>2. rides[r] \in Row /\ CopyOK(rides[r], rides[r])
  BY LoadedCopy DEF HistoryInv, TypeOK, TableTypeOK, HistoryConsistent
<1>3. CASE LoadForMatching(r)
  <2> DEFINE t == [task[r] EXCEPT !.at = "find", !.copy = rides[r]]
  <2>1. Advance
    BY <1>3, StayAdvances DEF LoadForMatching, tableVars, HistoryInv, TypeOK
  <2>2. CASE task' = [task EXCEPT ![r].at = "find", ![r].copy = rides[r]]
    <3>1. task' = [task EXCEPT ![r] = t]
      BY <1>1, <2>2 DEF TaskType, HistoryInv, TypeOK, TaskTypeOK
    <3>2. t \in TaskType
      BY <1>1, <1>2 DEF TaskType
    <3>3. TaskOK(t, rides'[r])
      BY <1>1, <1>2, <1>3 DEF TaskOK, TaskType, LoadForMatching, tableVars
    <3> QED
      BY <1>3, <2>1, <3>1, <3>2, <3>3, TaskUpdate
         DEF LoadForMatching, tableVars, engineVars, EngineTypeOK, HistoryInv,
         TypeOK, TableTypeOK
  <2>3. CASE EndTask(r)
    BY <1>3, <2>1, <2>3, EndTaskSound
       DEF LoadForMatching, tableVars, engineVars, EngineTypeOK, HistoryInv,
       TypeOK, TableTypeOK
  <2> QED BY <1>3, <2>2, <2>3 DEF LoadForMatching
<1>4. CASE FindDriver(r)
  <2>1. PICK d \in Candidates :
          task' = [task EXCEPT ![r].at = "commit", ![r].found = d]
    BY <1>4 DEF FindDriver
  <2> DEFINE t == [task[r] EXCEPT !.at = "commit", !.found = d]
  <2>2. d \in Drivers /\ d # NoDriver
    BY TableAssumption DEF Candidates, FilterAvailable, HistoryInv, TypeOK,
       EngineTypeOK
  <2>3. t \in TaskType
    BY <1>1, <2>2 DEF TaskType
  <2>4. task' = [task EXCEPT ![r] = t]
    BY <1>1, <2>1 DEF TaskType, HistoryInv, TypeOK, TaskTypeOK
  <2>5. Advance /\ TaskOK(t, rides'[r])
    BY <1>1, <1>4, <2>2, StayAdvances
       DEF FindDriver, tableVars, TaskOK, TaskType, HistoryInv, TypeOK
  <2> QED
    BY <1>4, <2>3, <2>4, <2>5, TaskUpdate
       DEF FindDriver, tableVars, engineVars, EngineTypeOK, HistoryInv, TypeOK,
       TableTypeOK
<1>5. CASE CommitMatch(r)
  <2> DEFINE new == Matched(task[r].copy, task[r].found)
             t == [task[r] EXCEPT !.at = "busy", !.copy = NoRow]
  <2>1. task[r].found \in Drivers
    BY <1>1, <1>5 DEF CommitMatch, TaskOK, TaskType
  <2>2. new \in Row /\ Consistent(new) /\ Grows(task[r].copy, new)
    BY <1>1, <2>1, MatchedOK DEF CopyOK
  <2>3. Advance
    BY <1>1, <1>5, <2>2, WriteAdvances
       DEF CommitMatch, CommitRow, HistoryInv, TypeOK
  <2>4. t \in TaskType
    BY <1>1, NoRowOK DEF TaskType
  <2>5. task' = [task EXCEPT ![r] = t]
    BY <1>1, <1>5 DEF CommitMatch, TaskType, HistoryInv, TypeOK, TaskTypeOK
  <2>6. TaskOK(t, rides'[r])
    BY <1>1, <2>3, NoRowOK DEF TaskOK, TaskType, Advance
  <2>7. TaskTypeOK' /\ TasksOK'
    BY <2>3, <2>4, <2>5, <2>6, TaskUpdate
  <2> QED
    BY <1>5, <2>3, <2>7
       DEF CommitMatch, CommitRow, engineVars, EngineTypeOK, HistoryInv,
       TypeOK, TableTypeOK
<1>6. CASE BusyAfterMatch(r)
  <2>1. Advance
    BY <1>6, StayAdvances DEF BusyAfterMatch, tableVars, HistoryInv, TypeOK
  <2>2. EngineTypeOK'
    BY <1>6, SetStatusOK DEF BusyAfterMatch, SetDriverBusy, HistoryInv, TypeOK
  <2>3. TaskTypeOK' /\ TasksOK'
    BY <1>6, <2>1, EndTaskSound DEF BusyAfterMatch
  <2> QED
    BY <1>6, <2>1, <2>2, <2>3
       DEF BusyAfterMatch, tableVars, HistoryInv, TypeOK, TableTypeOK
<1>7. CASE MatchingFails(r)
  <2>1. Advance
    BY <1>7, StayAdvances DEF MatchingFails, tableVars, HistoryInv, TypeOK
  <2> QED
    BY <1>7, <2>1, EndTaskSound
       DEF MatchingFails, tableVars, engineVars, EngineTypeOK, HistoryInv,
       TypeOK, TableTypeOK
<1> QED BY <1>3, <1>4, <1>5, <1>6, <1>7 DEF TaskStep

-----------------------------------------------------------------------------
\* The scheduler.  Replacing the loop of one API instance.
LEMMA LoopUpdate ==
    ASSUME HistoryInv, Advance, NEW s \in Schedulers, NEW l \in SchedType,
           sched' = [sched EXCEPT ![s] = l], LoopOK(l, rides')
    PROVE  SchedTypeOK' /\ LoopsOK'
<1>1. SchedTypeOK'
  BY DEF HistoryInv, TypeOK, SchedTypeOK
<1>2. ASSUME NEW x \in Schedulers PROVE LoopOK(sched'[x], rides')
  <2>1. CASE x = s
    BY <2>1 DEF HistoryInv, TypeOK, SchedTypeOK
  <2>2. CASE x # s
    BY <2>2, LoopKept DEF HistoryInv, TypeOK, SchedTypeOK
  <2> QED BY <2>1, <2>2
<1> QED BY <1>1, <1>2 DEF LoopsOK

LEMMA LoopFacts ==
    ASSUME HistoryInv, NEW s \in Schedulers
    PROVE  /\ sched[s] \in SchedType
           /\ LoopOK(sched[s], rides)
           /\ \A r \in Rides : /\ sched[s].copies[r] \in Row
                               /\ CopyOK(sched[s].copies[r], rides[r])
BY DEF HistoryInv, TypeOK, SchedTypeOK, SchedType, LoopsOK, LoopOK

\* Done with a ride, ...
LEMMA DropSound ==
    ASSUME HistoryInv, Advance, NEW s \in Schedulers, NEW r \in Rides,
           Drop(s, r)
    PROVE  SchedTypeOK' /\ LoopsOK'
<1> DEFINE l == [sched[s] EXCEPT !.at = "next", !.todo = @ \ {r},
                                 !.copies[r] = NoRow, !.ride = NoRide,
                                 !.found = NoDriver]
<1>1. sched[s] \in SchedType /\ LoopOK(sched[s], rides')
  BY LoopFacts, LoopKept DEF HistoryInv
<1>2. l \in SchedType
  BY <1>1, NoRowOK DEF SchedType
<1>3. sched' = [sched EXCEPT ![s] = l]
  BY <1>1 DEF Drop, SchedType, HistoryInv, TypeOK, SchedTypeOK
<1>4. \A x \in Rides : CopyOK(l.copies[x], rides'[x])
  BY <1>1, NoRowOK DEF LoopOK, SchedType, Advance
<1>5. LoopOK(l, rides')
  BY <1>1, <1>4 DEF LoopOK, SchedType
<1> QED BY <1>2, <1>3, <1>5, LoopUpdate

\* ... or with a phase, ...
LEMMA PhaseSound ==
    ASSUME HistoryInv, Advance, NEW s \in Schedulers,
           NEW phase \in {"dispatch", "retry"},
           sched' = [sched EXCEPT ![s] = Phase(phase)]
    PROVE  SchedTypeOK' /\ LoopsOK'
<1>1. Phase(phase) \in SchedType
  BY NoRowOK DEF Phase, SchedType
<1>2. LoopOK(Phase(phase), rides')
  BY NoRowOK DEF Phase, LoopOK, Advance
<1> QED BY <1>1, <1>2, LoopUpdate

\* ... or about to work through the rides just loaded, ...
LEMMA QuerySound ==
    ASSUME HistoryInv, NEW s \in Schedulers,
           NEW phase \in {"dispatch", "retry"},
           NEW wanted \in SUBSET Rides, Query(s, phase, wanted), task' = task
    PROVE  OthersSound
<1> DEFINE copies == [r \in Rides |-> IF r \in wanted THEN rides[r] ELSE NoRow]
           l == [sched[s] EXCEPT !.at = "next", !.todo = wanted,
                                 !.copies = copies]
<1>1. Advance
  BY StayAdvances DEF Query, tableVars, HistoryInv, TypeOK
<1>2. ASSUME NEW r \in Rides
      PROVE  copies[r] \in Row /\ CopyOK(copies[r], rides'[r])
  BY LoadedCopy, NoRowOK DEF Query, tableVars, HistoryInv, HistoryConsistent,
     TypeOK, TableTypeOK
<1>3. sched[s] \in SchedType
  BY LoopFacts
<1>4. l \in SchedType
  BY <1>2, <1>3 DEF SchedType
<1>5. sched' = [sched EXCEPT ![s] = l]
  BY <1>3 DEF Query, SchedType, HistoryInv, TypeOK, SchedTypeOK
<1>6. LoopOK(l, rides')
  BY <1>2, <1>3 DEF LoopOK, SchedType
<1>7. SchedTypeOK' /\ LoopsOK'
  BY <1>1, <1>4, <1>5, <1>6, LoopUpdate
<1>8. TaskTypeOK' /\ TasksOK'
  BY <1>1, TasksKept DEF HistoryInv, TypeOK, TaskTypeOK
<1> QED
  BY <1>1, <1>7, <1>8 DEF Query, tableVars, engineVars, EngineTypeOK,
     OthersSound, HistoryInv, TypeOK, TableTypeOK

\* ... or it has committed the copy of a ride and goes on with that ride.
LEMMA CommitCopySound ==
    ASSUME HistoryInv, NEW s \in Schedulers, NEW r \in Rides, NEW new \in Row,
           Consistent(new), Grows(sched[s].copies[r], new),
           NEW next \in {"refresh", "find", "busy"},
           CommitCopy(s, r, new, next)
    PROVE  Advance /\ SchedTypeOK' /\ LoopsOK'
<1> DEFINE l == [sched[s] EXCEPT !.at = next, !.ride = r, !.copies[r] = new]
<1>1. Advance /\ Behind(new, rides'[r])
  BY LoopFacts, WriteAdvances DEF CommitCopy, CommitRow, HistoryInv, TypeOK
<1>2. sched[s] \in SchedType /\ LoopOK(sched[s], rides')
  BY <1>1, LoopFacts, LoopKept DEF HistoryInv
<1>3. l \in SchedType
  BY <1>2 DEF SchedType
<1>4. sched' = [sched EXCEPT ![s] = l]
  BY <1>2 DEF CommitCopy, SchedType, HistoryInv, TypeOK, SchedTypeOK
<1>5. \A x \in Rides : CopyOK(l.copies[x], rides'[x])
  BY <1>1, <1>2 DEF LoopOK, SchedType, CopyOK
<1>6. LoopOK(l, rides')
  BY <1>2, <1>5 DEF LoopOK, SchedType
<1> QED BY <1>1, <1>3, <1>4, <1>6, LoopUpdate

\* The steps of the loop.  A step that leaves the table alone and ends in Drop
\* or in a new phase ...
LEMMA QuietSound ==
    ASSUME HistoryInv, NEW s \in Schedulers, task' = task,
           UNCHANGED <<tableVars, engineVars>>,
           \/ \E r \in Rides : Drop(s, r)
           \/ \E phase \in {"dispatch", "retry"} :
                  sched' = [sched EXCEPT ![s] = Phase(phase)]
    PROVE  OthersSound
<1>1. Advance
  BY StayAdvances DEF tableVars, HistoryInv, TypeOK
<1>2. SchedTypeOK' /\ LoopsOK'
  BY <1>1, DropSound, PhaseSound
<1>3. TaskTypeOK' /\ TasksOK'
  BY <1>1, TasksKept DEF HistoryInv, TypeOK, TaskTypeOK
<1> QED
  BY <1>1, <1>2, <1>3 DEF tableVars, engineVars, EngineTypeOK, OthersSound,
     HistoryInv, TypeOK, TableTypeOK

\* ... and one that commits the copy of a ride.
LEMMA CommitStepSound ==
    ASSUME HistoryInv, NEW s \in Schedulers, NEW r \in Rides, task' = task,
           NEW new \in Row, Consistent(new), Grows(sched[s].copies[r], new),
           NEW next \in {"refresh", "find", "busy"},
           CommitCopy(s, r, new, next)
    PROVE  OthersSound
<1>1. Advance /\ SchedTypeOK' /\ LoopsOK'
  BY CommitCopySound
<1>2. TaskTypeOK' /\ TasksOK'
  BY <1>1, TasksKept DEF HistoryInv, TypeOK, TaskTypeOK
<1> QED
  BY <1>1, <1>2 DEF CommitCopy, CommitRow, engineVars, EngineTypeOK,
     OthersSound, HistoryInv, TypeOK, TableTypeOK

\* The commits made while the loop takes up a ride.
LEMMA TakeRideSound ==
    ASSUME HistoryInv, NEW s \in Schedulers, NEW r \in Rides, task' = task,
           TakeRide(s, r)
    PROVE  OthersSound
<1> DEFINE copy == sched[s].copies[r]
<1>1. /\ copy \in Row
      /\ CopyOK(copy, rides[r])
      /\ Consistent(copy)
  BY LoopFacts DEF CopyOK
<1>2. CASE SkipNotDue(s, r) \/ SkipBackoff(s, r)
  BY <1>2, QuietSound DEF SkipNotDue, SkipBackoff, Skip
<1>3. CASE DispatchRide(s, r)
  <2> DEFINE new == [copy EXCEPT !.status = "requested"]
  <2>1. new \in Row /\ Consistent(new) /\ Grows(copy, new)
    BY <1>1 DEF Row, RideStatus, Consistent, Grows, Behind, Assigned
  <2> QED BY <1>3, <2>1, CommitStepSound DEF DispatchRide
<1>4. CASE CountRetry(s, r)
  <2> DEFINE new == [copy EXCEPT !.retries = @ + 1]
  <2>1. copy.retries + 1 \in 0 .. MaxRetries
    BY <1>1, <1>4, TableAssumption DEF CountRetry, Exhausted, Row
  <2>2. new \in Row /\ Consistent(new) /\ Grows(copy, new)
    BY <1>1, <2>1 DEF Row, Consistent, Grows, Behind
  <2> QED BY <1>4, <2>2, CommitStepSound DEF CountRetry
<1>5. CASE CancelExhausted(s, r)
  <2>1. Advance
    BY <1>1, <1>5, CancelledOK, WriteAdvances
       DEF CancelExhausted, CommitRow, HistoryInv, TypeOK
  <2>2. SchedTypeOK' /\ LoopsOK'
    BY <1>5, <2>1, DropSound DEF CancelExhausted
  <2>3. TaskTypeOK' /\ TasksOK'
    BY <2>1, TasksKept DEF HistoryInv, TypeOK, TaskTypeOK
  <2> QED
    BY <1>5, <2>1, <2>2, <2>3 DEF CancelExhausted, CommitRow, engineVars,
       EngineTypeOK, OthersSound, HistoryInv, TypeOK, TableTypeOK
<1> QED BY <1>2, <1>3, <1>4, <1>5 DEF TakeRide

\* The loop rereads the ride it has just dispatched, or notes a driver.
LEMMA RefreshSound ==
    ASSUME HistoryInv, NEW s \in Schedulers, task' = task, RefreshRide(s)
    PROVE  OthersSound
<1> DEFINE r == sched[s].ride
           l == [sched[s] EXCEPT !.at = "find", !.copies[r] = rides[r]]
<1>1. sched[s] \in SchedType /\ LoopOK(sched[s], rides)
  BY LoopFacts
<1>2. r \in Rides
  BY <1>1 DEF LoopOK, RefreshRide
<1>3. rides[r] \in Row /\ CopyOK(rides[r], rides[r])
  BY <1>2, LoadedCopy DEF HistoryInv, HistoryConsistent, TypeOK, TableTypeOK
<1>4. Advance /\ rides' = rides
  BY StayAdvances DEF RefreshRide, tableVars, HistoryInv, TypeOK
<1>5. l \in SchedType
  BY <1>1, <1>3 DEF SchedType
<1>6. sched' = [sched EXCEPT ![s] = l]
  BY <1>1 DEF RefreshRide, SchedType, HistoryInv, TypeOK, SchedTypeOK
<1>7. LoopOK(l, rides')
  BY <1>1, <1>2, <1>3, <1>4 DEF LoopOK, SchedType
<1>8. SchedTypeOK' /\ LoopsOK'
  BY <1>4, <1>5, <1>6, <1>7, LoopUpdate
<1>9. TaskTypeOK' /\ TasksOK'
  BY <1>4, TasksKept DEF HistoryInv, TypeOK, TaskTypeOK
<1> QED
  BY <1>4, <1>8, <1>9 DEF RefreshRide, tableVars, engineVars, EngineTypeOK,
     OthersSound, HistoryInv, TypeOK, TableTypeOK

LEMMA ScheduledFindSound ==
    ASSUME HistoryInv, NEW s \in Schedulers, task' = task, ScheduledFind(s)
    PROVE  OthersSound
<1>1. PICK d \in SchedulerCandidates :
        sched' = [sched EXCEPT ![s].at = "commit", ![s].found = d]
  BY DEF ScheduledFind
<1> DEFINE l == [sched[s] EXCEPT !.at = "commit", !.found = d]
<1>2. sched[s] \in SchedType /\ LoopOK(sched[s], rides)
  BY LoopFacts
<1>3. d \in Drivers /\ d # NoDriver
  BY TableAssumption DEF SchedulerCandidates, FilterAvailable, HistoryInv,
     TypeOK, EngineTypeOK
<1>4. Advance /\ rides' = rides
  BY StayAdvances DEF ScheduledFind, tableVars, HistoryInv, TypeOK
<1>5. l \in SchedType
  BY <1>2, <1>3 DEF SchedType
<1>6. sched' = [sched EXCEPT ![s] = l]
  BY <1>1, <1>2 DEF SchedType, HistoryInv, TypeOK, SchedTypeOK
<1>7. LoopOK(l, rides')
  BY <1>2, <1>3, <1>4 DEF LoopOK, SchedType, ScheduledFind
<1>8. SchedTypeOK' /\ LoopsOK'
  BY <1>4, <1>5, <1>6, <1>7, LoopUpdate
<1>9. TaskTypeOK' /\ TasksOK'
  BY <1>4, TasksKept DEF HistoryInv, TypeOK, TaskTypeOK
<1> QED
  BY <1>4, <1>8, <1>9 DEF ScheduledFind, tableVars, engineVars, EngineTypeOK,
     OthersSound, HistoryInv, TypeOK, TableTypeOK

LEMMA ScheduledMatchSound ==
    ASSUME HistoryInv, NEW s \in Schedulers, task' = task,
           ScheduledMatch(s) \/ ScheduledBusy(s) \/ ScheduledFails(s)
    PROVE  OthersSound
<1>1. sched[s] \in SchedType /\ LoopOK(sched[s], rides)
  BY LoopFacts
<1>2. sched[s].ride \in Rides
  BY <1>1 DEF LoopOK, ScheduledMatch, ScheduledBusy, ScheduledFails
<1>3. CASE ScheduledMatch(s)
  <2>1. sched[s].found \in Drivers
    BY <1>1, <1>3 DEF LoopOK, ScheduledMatch, SchedType
  <2>2. Copy(s) \in Row /\ Consistent(Copy(s))
    BY <1>2, LoopFacts DEF Copy, CopyOK
  <2> QED
    BY <1>2, <1>3, <2>1, <2>2, MatchedOK, CommitStepSound
       DEF ScheduledMatch, Copy
<1>4. CASE ScheduledBusy(s)
  <2>1. Advance
    BY <1>4, StayAdvances DEF ScheduledBusy, tableVars, HistoryInv, TypeOK
  <2>2. EngineTypeOK'
    BY <1>4, SetStatusOK DEF ScheduledBusy, SetDriverBusy, HistoryInv, TypeOK
  <2>3. SchedTypeOK' /\ LoopsOK'
    BY <1>2, <1>4, <2>1, DropSound DEF ScheduledBusy
  <2>4. TaskTypeOK' /\ TasksOK'
    BY <2>1, TasksKept DEF HistoryInv, TypeOK, TaskTypeOK
  <2> QED
    BY <1>4, <2>1, <2>2, <2>3, <2>4 DEF ScheduledBusy, tableVars, OthersSound,
       HistoryInv, TypeOK, TableTypeOK
<1>5. CASE ScheduledFails(s)
  BY <1>2, <1>5, QuietSound DEF ScheduledFails, Skip
<1> QED BY <1>3, <1>4, <1>5

LEMMA SchedStepSound ==
    ASSUME HistoryInv, NEW s \in Schedulers, task' = task, SchedStep(s)
    PROVE  OthersSound
<1>1. CASE QueryScheduled(s) \/ QueryUnmatched(s)
  BY <1>1, QuerySound DEF QueryScheduled, QueryUnmatched, Rows
<1>2. CASE \E r \in Rides : TakeRide(s, r)
  BY <1>2, TakeRideSound
<1>3. CASE RefreshRide(s)
  BY <1>3, RefreshSound
<1>4. CASE ScheduledFind(s)
  BY <1>4, ScheduledFindSound
<1>5. CASE ScheduledMatch(s) \/ ScheduledBusy(s) \/ ScheduledFails(s)
  BY <1>5, ScheduledMatchSound
<1>6. CASE NextPhase(s) \/ PhaseAborts(s)
  <2>1. /\ \E phase \in {"dispatch", "retry"} :
               sched' = [sched EXCEPT ![s] = Phase(phase)]
        /\ UNCHANGED <<tableVars, engineVars>>
    BY <1>6 DEF NextPhase, PhaseAborts, EndPhase
  <2> QED BY <2>1, QuietSound
<1> QED
  BY <1>1, <1>2, <1>3, <1>4, <1>5, <1>6 DEF SchedStep, SchedProgress

-----------------------------------------------------------------------------
\* A driver's coming and going.
LEMMA PresenceSound ==
    ASSUME EngineTypeOK, DriverPresence
    PROVE  EngineTypeOK'
<1> PICK d \in Drivers : \/ UpdateDriverLocation(d)
                         \/ RemoveDriver(d)
                         \/ KeyExpires(d)
  BY DEF DriverPresence
<1>1. CASE UpdateDriverLocation(d)
  BY <1>1 DEF UpdateDriverLocation, EngineTypeOK
<1>2. CASE RemoveDriver(d)
  BY <1>2 DEF RemoveDriver, EngineTypeOK
<1>3. CASE KeyExpires(d)
  BY <1>3, SetStatusOK DEF KeyExpires
<1> QED BY <1>1, <1>2, <1>3

-----------------------------------------------------------------------------
\* The initial states satisfy the invariant, ...
LEMMA InitHistory == Init => HistoryInv
<1> SUFFICES ASSUME Init PROVE HistoryInv
  OBVIOUS
<1> USE DEF Init
<1>1. TableTypeOK /\ HistoryConsistent
  BY NoRowOK DEF TableInit, TableTypeOK, HistoryConsistent
<1>2. EngineTypeOK /\ HandlersTypeOK
  BY DEF EngineInit, EngineTypeOK, HandlersInit, HandlersTypeOK
<1>3. HandlersOK
  BY DEF HandlersInit, HandlersOK
<1>4. TaskTypeOK /\ TasksOK
  BY <1>1, NoRowOK DEF TaskInit, TaskTypeOK, TaskType, NoTask, TasksOK, TaskOK,
     TableTypeOK
<1>5. SchedTypeOK /\ LoopsOK
  <2>1. Phase("dispatch") \in SchedType
    BY NoRowOK DEF Phase, SchedType
  <2>2. LoopOK(Phase("dispatch"), rides)
    BY <1>1, NoRowOK DEF Phase, LoopOK, TableTypeOK
  <2> QED BY <2>1, <2>2 DEF SchedInit, SchedTypeOK, LoopsOK
<1> QED BY <1>1, <1>2, <1>3, <1>4, <1>5 DEF HistoryInv, TypeOK

\* ... and every step keeps it, and takes nothing from any row.
LEMMA NextSound ==
    ASSUME HistoryInv, [Next]_vars
    PROVE  HandlerSound /\ OthersSound
<1> USE DEF HistoryInv
<1>1. CASE NewRide
  BY <1>1, NewRideSound
<1>2. CASE Handling
  <2>1. HandlerSound
    BY <1>2, HandlerStepSound DEF Handling
  <2>2. /\ TaskTypeOK' /\ TasksOK'
        /\ SchedTypeOK' /\ LoopsOK'
    BY <1>2, <2>1, TasksKept, LoopsKept
       DEF Handling, HandlerSound, TypeOK, TaskTypeOK, SchedTypeOK
  <2> QED BY <2>1, <2>2 DEF HandlerSound, OthersSound
<1>3. CASE Matching
  <2>1. /\ Advance /\ locked' \subseteq Rides /\ EngineTypeOK'
        /\ TaskTypeOK' /\ TasksOK'
    BY <1>3, TaskStepSound DEF Matching
  <2>2. /\ SchedTypeOK' /\ LoopsOK'
        /\ HandlersTypeOK' /\ HandlersOK'
    BY <1>3, <2>1, HandlersKept, LoopsKept
       DEF Matching, handlerVars, books, TypeOK, HandlersTypeOK, SchedTypeOK
  <2> QED BY <2>1, <2>2 DEF HandlerSound, OthersSound
<1>4. CASE Dispatching
  <2>1. OthersSound
    BY <1>4, SchedStepSound DEF Dispatching
  <2>2. HandlersTypeOK' /\ HandlersOK'
    BY <1>4, <2>1, HandlersKept
       DEF Dispatching, OthersSound, handlerVars, books, TypeOK, HandlersTypeOK
  <2> QED BY <2>1, <2>2 DEF HandlerSound, OthersSound
<1>5. CASE Presence \/ UNCHANGED vars
  <2>1. /\ UNCHANGED <<tableVars, handlerVars, task, sched>>
        /\ EngineTypeOK'
    BY <1>5, PresenceSound DEF Presence, vars, engineVars, TypeOK, EngineTypeOK
  <2>2. Advance
    BY <2>1, StayAdvances DEF tableVars, TypeOK
  <2>3. HandlersOK' /\ TasksOK' /\ LoopsOK'
    BY <2>1, <2>2, HandlersKept, TasksKept, LoopsKept DEF handlerVars
  <2> QED
    BY <2>1, <2>2, <2>3 DEF tableVars, handlerVars, books, HandlerSound,
       OthersSound, TypeOK, TableTypeOK, HandlersTypeOK, TaskTypeOK, SchedTypeOK
<1> QED BY <1>1, <1>2, <1>3, <1>4, <1>5 DEF Next

LEMMA NextHistory == HistoryInv /\ [Next]_vars => HistoryInv'
BY NextSound DEF HandlerSound, OthersSound, Advance, HistoryInv, TypeOK,
   TableTypeOK, HistoryConsistent

\* Every row and every copy that a session still holds is consistent, and no
\* copy is ahead of its row, in every reachable state.
THEOREM HistoryInvariant == Spec => []HistoryInv
BY InitHistory, NextHistory, PTL DEF Spec

\* The variables of the handlers, the tasks, the schedulers and the engine
\* keep their types; the retry counter never exceeds dispatch_max_retries.
THEOREM TypeCorrectness == Spec => []TypeOK
<1>1. HistoryInv => TypeOK
  BY DEF HistoryInv
<1> QED BY <1>1, HistoryInvariant, PTL

\* However the column-wise updates of overlapping sessions interleave, no ride
\* reaches a status without the driver and the timestamps that belong to it.
THEOREM HistoriesAreConsistent == Spec => []HistoryConsistent
<1>1. HistoryInv => HistoryConsistent
  BY DEF HistoryInv
<1> QED BY <1>1, HistoryInvariant, PTL

\* No step of any session clears a milestone that a ride has reached.
THEOREM NoMilestoneIsLost == Spec => MilestonesAreKept
<1>1. HistoryInv /\ [Next]_vars =>
          [\A r \in Rides : Behind(rides[r], rides'[r])]_vars
  BY NextSound DEF OthersSound, Advance
<1> QED BY <1>1, HistoryInvariant, PTL DEF Spec, MilestonesAreKept

-----------------------------------------------------------------------------
(***************************************************************************)
(* A cancellation fee is only ever asked for a ride that was matched and   *)
(* cancelled: no milestone is lost, so what a handler knew when it loaded  *)
(* or committed its ride is still true when it asks for the fee.           *)
(***************************************************************************)
\* A step under which every row only gains milestones.
Gains == \A r \in Rides : Behind(rides[r], rides'[r])

LEMMA StepGains ==
    ASSUME HistoryInv, [Next]_vars
    PROVE  Gains
BY NextSound DEF OthersSound, Advance, Gains

\* What a handler knows outlives the steps of the others.
LEMMA FeeKept ==
    ASSUME HistoryInv, Gains, NEW q \in Requests, request[q] # Idle,
           FeeOK(request[q], rides[request[q].ride])
    PROVE  FeeOK(request[q], rides'[request[q].ride])
<1>1. request[q].ride \in Rides
  BY HandlerFacts
<1> QED BY <1>1 DEF FeeOK, Gains, Behind

LEMMA FeesKept ==
    ASSUME HistoryInv, FeesOK, Gains, request' = request
    PROVE  FeesOK'
BY FeeKept DEF FeesOK

\* Only slot q changes: it is idle, or what it holds now is good.
LEMMA FeeSlot ==
    ASSUME HistoryInv, FeesOK, Gains, NEW q \in Requests, NEW h,
           request' = [request EXCEPT ![q] = h],
           h # Idle => FeeOK(h, rides'[h.ride])
    PROVE  FeesOK'
<1> SUFFICES ASSUME NEW p \in Requests, request'[p] # Idle
             PROVE  FeeOK(request'[p], rides'[request'[p].ride])
  BY DEF FeesOK
<1>1. request \in [Requests -> Handler \union {Idle}]
  BY DEF HistoryInv, TypeOK, HandlersTypeOK
<1>2. CASE p = q
  BY <1>1, <1>2
<1>3. CASE p # q
  <2>1. request'[p] = request[p]
    BY <1>1, <1>3
  <2> QED BY <2>1, FeeKept DEF FeesOK
<1> QED BY <1>2, <1>3

\* No fee is recorded or asked for in the step.
LEMMA BooksKept ==
    ASSUME HistoryInv, FeeOnlyAfterMatch, Gains,
           payment' = payment, intents' = intents
    PROVE  FeeOnlyAfterMatch'
BY DEF FeeOnlyAfterMatch, Gains, Behind

LEMMA FeeInit == Init => FeeInv
BY DEF Init, HandlersInit, FeeInv, FeeOnlyAfterMatch, FeesOK

-----------------------------------------------------------------------------
\* A handler that has loaded its ride.
LEMMA FeeLoad ==
    ASSUME HistoryInv, FeeInv, Gains, NEW q \in Requests, HandlerLoad(q)
    PROVE  FeeInv'
<1> DEFINE h(op, at, r, by, fee) ==
               [op |-> op, at |-> at, ride |-> r, by |-> by,
                copy |-> rides[r], fee |-> fee, trips |-> 0]
<1>1. ASSUME NEW r \in Rides, NEW op, NEW at \in {"profile", "commit"},
             NEW by, NEW fee, op = "cancel" => at = "commit",
             op = "cancel" /\ fee => rides[r].matchedAt,
             Begin(q, op, at, r, by, fee)
      PROVE  FeeInv'
  <2>1. request' = [request EXCEPT ![q] = h(op, at, r, by, fee)]
    BY <1>1 DEF Begin
  <2>2. rides' = rides /\ payment' = payment /\ intents' = intents
    BY <1>1 DEF Begin, tableVars, books
  <2>3. FeeOK(h(op, at, r, by, fee), rides'[r])
    BY <1>1, <2>2 DEF FeeOK
  <2>4. FeesOK'
    BY <2>1, <2>3, FeeSlot DEF FeeInv
  <2> QED BY <2>2, <2>4, BooksKept DEF FeeInv
<1>2. PICK r \in Rides :
        \/ LoadCancelScheduled(q, r)
        \/ \E by \in Drivers \union {Rider}, graceOver \in BOOLEAN :
               LoadCancel(q, r, by, graceOver)
        \/ \E d \in Drivers :
               \/ LoadAccept(q, r, d)
               \/ LoadEnRoute(q, r, d)
               \/ LoadArrived(q, r, d)
               \/ LoadStart(q, r, d)
               \/ LoadComplete(q, r, d)
  BY DEF HandlerLoad
<1>3. CASE LoadCancelScheduled(q, r)
  BY <1>1, <1>3 DEF LoadCancelScheduled
<1>4. CASE \E by \in Drivers \union {Rider}, graceOver \in BOOLEAN :
               LoadCancel(q, r, by, graceOver)
  <2> PICK by \in Drivers \union {Rider}, graceOver \in BOOLEAN :
           LoadCancel(q, r, by, graceOver)
    BY <1>4
  <2>1. Consistent(rides[r])
    BY DEF HistoryInv, HistoryConsistent
  <2>2. FeeDue(rides[r], by, graceOver) => rides[r].matchedAt
    BY <2>1 DEF FeeDue, FeeStatuses, Consistent, Assigned
  <2> QED BY <1>1, <2>2 DEF LoadCancel
<1>5. CASE \E d \in Drivers :
               \/ LoadAccept(q, r, d)
               \/ LoadEnRoute(q, r, d)
               \/ LoadArrived(q, r, d)
               \/ LoadStart(q, r, d)
               \/ LoadComplete(q, r, d)
  BY <1>1, <1>5 DEF LoadAccept, LoadEnRoute, LoadArrived, LoadStart,
     LoadComplete
<1> QED BY <1>2, <1>3, <1>4, <1>5

\* The cancellation's COMMIT cancels the row.
LEMMA FeeCommit ==
    ASSUME HistoryInv, FeeInv, Gains, NEW q \in Requests, CommitCancel(q)
    PROVE  FeeInv'
<1> DEFINE c == request[q].copy
<1> DEFINE r == request[q].ride
<1>1. request[q] # Idle /\ request[q].op = "cancel"
  BY DEF CommitCancel, At
<1>2. /\ request[q] \in Handler
      /\ r \in Rides /\ c \in Row
      /\ CopyOK(c, rides[r])
  BY <1>1, HandlerFacts
<1>3. rides'[r].cancelledAt
  <2>1. Behind(Cancelled(c), rides'[r])
    BY <1>2, CancelledOK, WriteAdvances
       DEF CommitCancel, CommitRide, CommitRow, CopyOK, HistoryInv, TypeOK
  <2>2. Cancelled(c).cancelledAt
    BY <1>2 DEF Cancelled, Row
  <2> QED BY <2>1, <2>2 DEF Behind
<1>4. FeeOK(request[q], rides'[r])
  BY <1>1, FeeKept DEF FeeInv, FeesOK
<1> DEFINE h == [request[q] EXCEPT !.at = "release"]
<1>5. request' = [request EXCEPT ![q] = h]
  BY <1>2 DEF CommitCancel, Continue, HistoryInv, TypeOK, HandlersTypeOK
<1>6. FeeOK(h, rides'[h.ride])
  BY <1>2, <1>3, <1>4 DEF FeeOK, Handler
<1>7. FeesOK'
  BY <1>5, <1>6, FeeSlot DEF FeeInv
<1> QED BY <1>7, BooksKept DEF CommitCancel, books, FeeInv

-----------------------------------------------------------------------------
\* A handler that goes on, with or without its copy, at a place before the fee
\* or past it, knows what it knew.
LEMMA FeeOnward ==
    ASSUME HistoryInv, FeesOK, Gains, NEW q \in Requests,
           request[q] # Idle, NEW next,
           \/ request[q].op # "cancel" /\ next \notin {"fee", "intent", "payment"}
           \/ /\ request[q].op = "cancel" /\ request[q].at # "commit"
              /\ request[q].fee /\ next # "commit",
           Forget(q, next) \/ Continue(q, next)
    PROVE  FeesOK'
<1>1. request[q] \in Handler
  BY HandlerFacts
<1>2. FeeOK(request[q], rides'[request[q].ride])
  BY FeeKept DEF FeesOK
<1>3. CASE Forget(q, next)
  <2> DEFINE h == [request[q] EXCEPT !.at = next, !.copy = NoRow]
  <2>1. request' = [request EXCEPT ![q] = h]
    BY <1>1, <1>3 DEF Forget, HistoryInv, TypeOK, HandlersTypeOK
  <2>2. FeeOK(h, rides'[h.ride])
    BY <1>1, <1>2 DEF FeeOK, Handler
  <2> QED BY <2>1, <2>2, FeeSlot
<1>4. CASE Continue(q, next)
  <2> DEFINE h == [request[q] EXCEPT !.at = next]
  <2>1. request' = [request EXCEPT ![q] = h]
    BY <1>1, <1>4 DEF Continue, HistoryInv, TypeOK, HandlersTypeOK
  <2>2. FeeOK(h, rides'[h.ride])
    BY <1>1, <1>2 DEF FeeOK, Handler
  <2> QED BY <2>1, <2>2, FeeSlot
<1> QED BY <1>3, <1>4

LEMMA FeeFinish ==
    ASSUME HistoryInv, FeesOK, Gains, NEW q \in Requests, Finish(q)
    PROVE  FeesOK'
BY FeeSlot DEF Finish

\* Where the fee is asked for and recorded.
LEMMA FeeAsked ==
    ASSUME HistoryInv, FeeInv, Gains, NEW q \in Requests,
           LookupFee(q) \/ CreateIntent(q) \/ InsertFee(q)
    PROVE  FeeInv'
<1>1. /\ request[q] # Idle
      /\ request[q].at \in {"fee", "intent", "payment"}
  BY DEF LookupFee, CreateIntent, InsertFee, At
<1>2. request[q].ride \in Rides
  BY <1>1, HandlerFacts
<1>3. request[q].op = "cancel" /\ request[q].fee
  BY <1>1 DEF FeeInv, FeesOK, FeeOK
<1>4. LET row == rides'[request[q].ride] IN row.matchedAt /\ row.cancelledAt
  BY <1>1, <1>3, FeeKept DEF FeeInv, FeesOK, FeeOK
<1>5. FeesOK'
  <2>1. CASE Finish(q)
    BY <2>1, FeeFinish DEF FeeInv
  <2>2. CASE Continue(q, "intent") \/ Continue(q, "payment")
    BY <1>1, <1>3, <2>2, FeeOnward DEF FeeInv
  <2> QED BY <2>1, <2>2 DEF LookupFee, CreateIntent, InsertFee
<1>6. ASSUME NEW r \in Rides, r # request[q].ride
      PROVE  payment'[r] = payment[r] /\ intents'[r] = intents[r]
  BY <1>6 DEF LookupFee, CreateIntent, InsertFee, books, HistoryInv, TypeOK,
     HandlersTypeOK
<1>7. FeeOnlyAfterMatch'
  BY <1>4, <1>6 DEF FeeInv, FeeOnlyAfterMatch, Gains, Behind
<1> QED BY <1>5, <1>7 DEF FeeInv

\* The handlers' other steps neither ask for a fee nor come closer to it.
LEMMA FeeElsewhere ==
    ASSUME HistoryInv, FeeInv, Gains, NEW q \in Requests,
           \/ CommitAccept(q) \/ BusyAfterAccept(q)
           \/ CommitEnRoute(q) \/ CommitArrived(q) \/ CommitStart(q)
           \/ LoadProfile(q) \/ CommitComplete(q) \/ AvailableAfterComplete(q)
           \/ CommitCancelScheduled(q) \/ ReleaseDriver(q) \/ RequestFails(q)
    PROVE  FeeInv'
<1>1. payment' = payment /\ intents' = intents
  BY DEF CommitAccept, BusyAfterAccept, CommitEnRoute, CommitArrived,
     CommitStart, LoadProfile, CommitComplete, AvailableAfterComplete,
     CommitCancelScheduled, ReleaseDriver, RequestFails, CommitAndFinish, books
<1>2. FeesOK'
  <2>1. CASE Finish(q)
    BY <2>1, FeeFinish DEF FeeInv
  <2>2. CASE CommitAccept(q) \/ CommitComplete(q)
    <3>1. request[q] # Idle /\ request[q].op # "cancel"
      BY <2>2 DEF CommitAccept, CommitComplete, At
    <3> QED
      BY <2>2, <3>1, FeeOnward DEF CommitAccept, CommitComplete, FeeInv
  <2>3. CASE LoadProfile(q)
    <3> DEFINE h == [request[q] EXCEPT !.at = "commit",
                                       !.trips = trips[request[q].by]]
    <3>1. request[q] # Idle /\ request[q].op = "complete"
      BY <2>3 DEF LoadProfile, At
    <3>2. request[q] \in Handler
      BY <3>1, HandlerFacts
    <3>3. request' = [request EXCEPT ![q] = h]
      BY <2>3, <3>2 DEF LoadProfile, HistoryInv, TypeOK, HandlersTypeOK
    <3>4. FeeOK(h, rides'[h.ride])
      BY <3>1, <3>2 DEF FeeOK, Handler
    <3> QED BY <3>3, <3>4, FeeSlot DEF FeeInv
  <2>4. CASE ReleaseDriver(q) /\ ~Finish(q)
    <3>1. /\ request[q] # Idle /\ request[q].op = "cancel"
          /\ request[q].at = "release" /\ request[q].fee
          /\ Forget(q, "fee")
      BY <2>4 DEF ReleaseDriver, At
    <3> QED BY <3>1, FeeOnward DEF FeeInv
  <2> QED
    BY <2>1, <2>2, <2>3, <2>4 DEF BusyAfterAccept, CommitEnRoute,
       CommitArrived, CommitStart, AvailableAfterComplete,
       CommitCancelScheduled, RequestFails, CommitAndFinish
<1> QED BY <1>1, <1>2, BooksKept DEF FeeInv

LEMMA FeeNext == HistoryInv /\ FeeInv /\ [Next]_vars => FeeInv'
<1> SUFFICES ASSUME HistoryInv, FeeInv, [Next]_vars PROVE FeeInv'
  OBVIOUS
<1>1. Gains
  BY StepGains
<1>2. CASE Handling
  <2> PICK q \in Requests :
          HandlerLoad(q) \/ HandlerContinue(q) \/ RequestFails(q)
    BY <1>2 DEF Handling, HandlerStep
  <2> QED
    BY <1>1, FeeLoad, FeeCommit, FeeAsked, FeeElsewhere DEF HandlerContinue
<1>3. CASE UNCHANGED <<request, payment, intents>>
  BY <1>1, <1>3, FeesKept, BooksKept DEF FeeInv
<1> QED
  BY <1>2, <1>3 DEF Next, NewRide, RequestRide, ScheduleRide, Matching,
     Dispatching, Presence, handlerVars, books, vars

\* Money is asked for only when a ride that had been matched was cancelled,
\* however cancellations, matches and completions overlap and wherever they die.
THEOREM FeesFollowMatches == Spec => []FeeOnlyAfterMatch
<1>1. FeeInv => FeeOnlyAfterMatch
  BY DEF FeeInv
<1>2. Spec => []FeeInv
  BY HistoryInvariant, FeeInit, FeeNext, PTL DEF Spec
<1> QED BY <1>1, <1>2, PTL
=============================================================================
