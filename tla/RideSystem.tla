----------------------------- MODULE RideSystem -----------------------------
(***************************************************************************)
(* The ride back end as it runs: HTTP handlers, the matching task of each  *)
(* requested ride and the dispatch scheduler of each API instance, all on  *)
(* one table and one Redis, with drivers coming and going.                 *)
(***************************************************************************)
EXTENDS RideHandlers, MatchingTask, DispatchScheduler

handlerVars == <<request, books>>
vars == <<tableVars, engineVars, handlerVars, task, sched>>

TypeOK ==
    /\ TableTypeOK
    /\ EngineTypeOK
    /\ HandlersTypeOK
    /\ TaskTypeOK
    /\ SchedTypeOK

Init ==
    /\ TableInit
    /\ EngineInit
    /\ HandlersInit
    /\ TaskInit
    /\ SchedInit

\* A new ride; a requested one is handed to its background task.
NewRide ==
    \E r \in Rides :
        /\ \/ RequestRide(r) /\ QueueMatching(r)
           \/ ScheduleRide(r) /\ UNCHANGED task
        /\ UNCHANGED sched

Handling   == HandlerStep /\ UNCHANGED <<task, sched>>
Matching   == (\E r \in Rides : TaskStep(r)) /\ UNCHANGED <<handlerVars, sched>>
Dispatching ==
    (\E s \in Schedulers : SchedStep(s)) /\ UNCHANGED <<handlerVars, task>>
Presence ==
    DriverPresence /\ UNCHANGED <<tableVars, handlerVars, task, sched>>

Next == NewRide \/ Handling \/ Matching \/ Dispatching \/ Presence

Spec == Init /\ [][Next]_vars

-----------------------------------------------------------------------------
(***************************************************************************)
(* Fairness.  The event loop keeps running a scheduler that has something  *)
(* to do.  Time passes, so a scheduled ride that is offered to the phase   *)
(* again and again is due at last, and a backoff elapses; and it does not  *)
(* happen for ever that a phase aborts whenever it could take up a ride or *)
(* end.  A handler goes on or dies.  Nothing is assumed of riders, drivers  *)
(* or tasks.                                                               *)
(***************************************************************************)
SchedFairness(s) ==
    LET Alone(A) == A /\ UNCHANGED <<handlerVars, task>>
    IN  /\ WF_vars(Alone(SchedProgress(s)))
        /\ SF_vars(Alone(NextPhase(s)))
        /\ \A r \in Rides :
               /\ SF_vars(Alone(DispatchRide(s, r)))
               /\ SF_vars(Alone(CountRetry(s, r)))
               /\ SF_vars(Alone(CancelExhausted(s, r)))

HandlerFairness(q) ==
    WF_vars((HandlerContinue(q) \/ RequestFails(q)) /\ UNCHANGED <<task, sched>>)

Fairness ==
    /\ \A s \in Schedulers : SchedFairness(s)
    /\ \A q \in Requests : HandlerFairness(q)

FairSpec == Spec /\ Fairness

-----------------------------------------------------------------------------
(***************************************************************************)
(* What holds for all overlaps, crashes and stale copies.                  *)
(***************************************************************************)
Assigned == {"matched", "driver_en_route", "arrived", "in_progress",
             "completed"}

\* The columns of a row back up its status and one another.
Consistent(row) ==
    /\ row.status \in Assigned => row.driver # NoDriver
    /\ row.status = "in_progress" => row.startedAt
    /\ row.status = "completed" => row.completedAt
    /\ row.status = "cancelled" => row.cancelledAt
    /\ row.driver # NoDriver <=> row.matchedAt
    /\ row.startedAt => row.matchedAt
    /\ row.completedAt => row.startedAt

\* However the column-wise updates of overlapping sessions interleave, no ride
\* reaches a status without the driver and the timestamps that the handlers
\* on the way there record (rides.py: accept, start, complete, cancel).
HistoryConsistent == \A r \in Rides : Consistent(rides[r])

\* A requested ride has no driver, so that the retry query, which asks for
\* driver_id IS NULL, sees every requested ride (dispatch_scheduler.py).  It
\* takes a single API instance.
RequestedIsUnassigned ==
    \A r \in Rides : rides[r].status = "requested" => rides[r].driver = NoDriver

\* No punitive fee: money is asked for only when a ride that had a driver was
\* cancelled (cancellation.py, create_cancellation_payment_intent).
FeeOnlyAfterMatch ==
    \A r \in Rides :
        payment[r] \/ intents[r] > 0 =>
            rides[r].matchedAt /\ rides[r].cancelledAt

\* The attempts of a ride are counted one by one and never forgotten, although
\* other sessions write the same row (retry_unmatched_rides).  It takes a
\* single API instance.
RetriesCountUp ==
    [][\A r \in Rides : rides'[r].retries \in {rides[r].retries,
                                               rides[r].retries + 1}]_vars

\* The scheduler gives a ride up only after dispatch_max_retries attempts.
GivenUpWhenExhausted ==
    [][\A s \in Schedulers, r \in Rides :
           CancelExhausted(s, r) => rides[r].retries = MaxRetries]_vars

\* A rider is not left waiting for ever: a requested ride gets a driver or is
\* cancelled (dispatch_scheduler.py: retries, then matching_failed).
RequestsSettle ==
    \A r \in Rides :
        rides[r].status = "requested" ~> rides[r].status # "requested"

\* A scheduled ride is dispatched or cancelled (dispatch_due_rides).
ScheduledRidesSettle ==
    \A r \in Rides :
        rides[r].status = "scheduled" ~> rides[r].status # "scheduled"

-----------------------------------------------------------------------------
(***************************************************************************)
(* What the comments and documents say and the code does not keep.         *)
(***************************************************************************)
\* retry_unmatched_rides gives up "REQUESTED rides that have no driver
\* assigned" (dispatch_scheduler.py): whom it cancels for want of a driver has
\* none.
GivenUpHasNoDriver ==
    [][\A s \in Schedulers, r \in Rides :
           CancelExhausted(s, r) => rides[r].driver = NoDriver]_vars

=============================================================================
