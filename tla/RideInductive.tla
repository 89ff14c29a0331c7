--------------------------- MODULE RideInductive ---------------------------
(***************************************************************************)
(* The inductive invariant behind HistoryConsistent.  A row is consistent  *)
(* because every copy a session will write back is: it was consistent when *)
(* it was loaded, and the row has lost nothing since.                      *)
(***************************************************************************)
EXTENDS RideSystem

\* The row has every milestone that the copy has: timestamps and the driver
\* are set, and replaced, but never cleared.
Behind(copy, row) ==
    /\ copy.matchedAt => row.matchedAt
    /\ copy.startedAt => row.startedAt
    /\ copy.completedAt => row.completedAt
    /\ copy.cancelledAt => row.cancelledAt

\* The time and driver of a match, a start, a completion or a cancellation stay
\* on record, although a session may write a copy that never had them
\* (rides.py: every COMMIT).
MilestonesAreKept ==
    [][\A r \in Rides : Behind(rides[r], rides'[r])]_vars

CopyOK(copy, row) == Consistent(copy) /\ Behind(copy, row)

\* What the guards of handler h leave true of its copy until the COMMIT.
HandlerOK(h, row) ==
    /\ CopyOK(h.copy, row)
    /\ h.op \notin {"cancel", "cancel_scheduled"} => h.by \in Drivers
    /\ h.at = "profile" => h.op = "complete"
    /\ h.at \in {"profile", "commit"} =>
           /\ h.op = "en_route" => h.copy.status = "matched"
           /\ h.op = "arrived" => h.copy.status = "driver_en_route"
           /\ h.op = "start" => h.copy.status \in {"matched", "arrived"}
           /\ h.op = "complete" => h.copy.status = "in_progress"

TaskOK(t, row) ==
    /\ CopyOK(t.copy, row)
    /\ t.at = "commit" => t.found # NoDriver

LoopOK(l, rows) ==
    /\ \A r \in Rides : CopyOK(l.copies[r], rows[r])
    /\ l.at \in {"refresh", "find", "commit", "busy"} => l.ride \in Rides
    /\ l.at = "commit" => l.found # NoDriver

HandlersOK ==
    \A q \in Requests :
        request[q] # Idle => HandlerOK(request[q], rides[request[q].ride])

TasksOK == \A r \in Rides : TaskOK(task[r], rides[r])

LoopsOK == \A s \in Schedulers : LoopOK(sched[s], rides)

\* Every row, and every copy of it, is consistent, whatever the sessions do.
HistoryInv ==
    /\ TypeOK
    /\ HistoryConsistent
    /\ HandlersOK
    /\ TasksOK
    /\ LoopsOK
-----------------------------------------------------------------------------
(***************************************************************************)
(* The inductive invariant behind FeeOnlyAfterMatch, on top of HistoryInv. *)
(***************************************************************************)
\* A cancellation that will ask for a fee loaded a matched ride, and one that
\* is past its COMMIT has cancelled it.
FeeOK(h, row) ==
    /\ h.at \in {"fee", "intent", "payment"} => h.op = "cancel" /\ h.fee
    /\ h.op = "cancel" /\ h.fee => row.matchedAt
    /\ h.op = "cancel" /\ h.at # "commit" => row.cancelledAt

FeesOK ==
    \A q \in Requests :
        request[q] # Idle => FeeOK(request[q], rides[request[q].ride])

FeeInv == FeeOnlyAfterMatch /\ FeesOK
-----------------------------------------------------------------------------
(***************************************************************************)
(* The inductive invariant behind RequestedIsUnassigned and RetriesCountUp,*)
(* on top of HistoryInv, when there is one API instance: a ride whose      *)
(* search has begun is never made to wait again, and only the loop counts. *)
(***************************************************************************)
\* The statuses in which a ride has no driver yet.
Early == {"none", "scheduled", "requested"}

\* A copy past the search is one of a row past the search.
NoLater(copy, row) == copy.status \notin Early => row.status \notin Early

HandlersFit ==
    \A q \in Requests :
        request[q] # Idle => NoLater(request[q].copy, rides[request[q].ride])

TasksFit == \A r \in Rides : task[r].copy.status \in Early

\* The loop has the attempts of its rides as they are, and the rides it has yet
\* to dispatch as scheduled.
LoopFits(l, rows) ==
    /\ \A r \in Rides : NoLater(l.copies[r], rows[r])
    /\ \A r \in l.todo : /\ l.copies[r].retries = rows[r].retries
                         /\ rows[r].status # "none"
    /\ l.at \in {"query", "next"} => l.ride = NoRide
    /\ l.phase = "dispatch" =>
           \A r \in l.todo \ {l.ride} : l.copies[r].status = "scheduled"

\* A ride that is not made yet, is scheduled, or is about to be dispatched ...
Waits(l, row, r) ==
    \/ row.status \in {"none", "scheduled"}
    \/ r \in l.todo /\ l.copies[r].status = "scheduled"

\* ... has at most been cancelled: nobody has begun to look for its driver.
Unsought(row) ==
    row.status \in {"none", "scheduled", "cancelled"} /\ row.driver = NoDriver

UnsoughtBy(h, r) ==
    h # Idle /\ h.ride = r => /\ h.op \in {"cancel", "cancel_scheduled"}
                              /\ h.copy.status \in {"none", "scheduled"}

Untouched(r) ==
    /\ Unsought(rides[r])
    /\ task[r].at = "none"
    /\ \A q \in Requests : UnsoughtBy(request[q], r)
    /\ \A s \in Schedulers : sched[s].copies[r].status \in {"none", "scheduled"}

SearchInv ==
    /\ RequestedIsUnassigned
    /\ HandlersFit
    /\ TasksFit
    /\ \A s \in Schedulers : LoopFits(sched[s], rides)
    /\ \A s \in Schedulers, r \in Rides :
           Waits(sched[s], rides[r], r) => Untouched(r)
=============================================================================
