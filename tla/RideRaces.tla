----------------------------- MODULE RideRaces -----------------------------
(***************************************************************************)
(* What overlapping sessions do to the promise of RideLifecycle.           *)
(*                                                                         *)
(* No session locks a row, so another may commit between a session's       *)
(* SELECT and its own COMMIT.  Two history variables record where that     *)
(* happened.  They watch the system and constrain none of its steps.  A    *)
(* ride that nobody was overtaken about lives the life that RideLifecycle  *)
(* promises, through failures and restarts; of one that somebody was       *)
(* overtaken about, only what RideSystem states for all overlaps is left.  *)
(***************************************************************************)
EXTENDS RideInductive

VARIABLES overtaken,   \* rides of which a session held an outdated copy that
                       \* it could yet write back
          affected     \* drivers of such rides, and those whose profile a
                       \* completing handler held an outdated copy of

raceVars == <<vars, overtaken, affected>>

\* A handler that has its COMMIT before it.
InTransaction(h) == h # Idle /\ h.at \in {"profile", "commit"}

\* The loop has yet to write ride r, or to pass over it.
LoopHolds(l, r) == r \in l.todo /\ ~(l.ride = r /\ l.at = "busy")

\* A session that may yet write ride r holds a copy that is not its row.
Outdated(r) ==
    \/ \E q \in Requests : /\ InTransaction(request[q])
                           /\ request[q].ride = r
                           /\ request[q].copy # rides[r]
    \/ task[r].at \in {"find", "commit"} /\ task[r].copy # rides[r]
    \/ \E s \in Schedulers : /\ LoopHolds(sched[s], r)
                             /\ sched[s].copies[r] # rides[r]

Overtaken == {r \in Rides : Outdated(r)}

\* Handlers that will write the profile of driver d.
Counting(d) == {q \in Requests : At(q, "complete", "commit")
                                 /\ request[q].by = d}

Affected ==
    {d \in Drivers : \/ \E r \in overtaken : rides[r].driver = d
                     \/ \E q \in Counting(d) : request[q].trips # trips[d]}

WatchInit == overtaken = {} /\ affected = {}

Watch ==
    /\ overtaken' = overtaken \union Overtaken'
    /\ affected' = affected \union Affected'

RaceSpec == Init /\ WatchInit /\ [][Next /\ Watch]_raceVars
-----------------------------------------------------------------------------
Lifecycle == INSTANCE RideLifecycle
                 WITH status <- [r \in Rides |-> IF r \in overtaken
                                                 THEN "contested"
                                                 ELSE rides[r].status],
                      driver <- [r \in Rides |-> IF r \in overtaken
                                                 THEN NoDriver
                                                 ELSE rides[r].driver]

\* Until some session is overtaken about it, every ride lives the life that
\* RideLifecycle promises, wherever handlers, tasks and loops die; and once it
\* is completed or cancelled so, no session that begins later, or that has
\* begun but not yet loaded it, brings it back (rides.py, dispatch_scheduler.py).
KeepsLifecycle == Lifecycle!LifecycleSpec

CompletedBy(d) == {r \in Rides : rides[r].completedAt /\ rides[r].driver = d}

\* A completion counts one trip, whatever fails after or before it, and no
\* trip is counted without one, for drivers that no overlap has affected
\* (complete_ride's total_trips).
TripsCountCompletions ==
    \A d \in Drivers \ affected : trips[d] = Cardinality(CompletedBy(d))

\* Nor is a fee asked for twice, although a cancellation asks for it after its
\* COMMIT and can die before it has recorded the answer, and the rider tries
\* again (create_cancellation_payment_intent).
OneIntentPerRide == \A r \in Rides \ overtaken : intents[r] <= 1
-----------------------------------------------------------------------------
(***************************************************************************)
(* The inductive invariant behind them, on top of HistoryInv: the copies   *)
(* that can be written back satisfy the guards they were loaded under, and *)
(* those of a ride that is not overtaken are its row.                      *)
(***************************************************************************)
\* What the guards of a handler that will commit leave true of its copy.
MayCommit(h) ==
    /\ h.op = "accept" => h.copy.status = "requested"
    /\ h.op = "complete" => h.copy.driver = h.by
    /\ h.op = "cancel" => h.copy.status \notin CannotCancel
    /\ h.op = "cancel_scheduled" => h.copy.status = "scheduled"

HandlersMay ==
    \A q \in Requests : InTransaction(request[q]) => MayCommit(request[q])

TasksMay ==
    \A r \in Rides :
        task[r].at \in {"find", "commit"} => task[r].copy.status = "requested"

\* The loop has dispatched the ride it is busy with, or is going to retry all;
\* what it refreshes may be anything only once it is overtaken.
LoopMay(l) ==
    /\ l.at \in {"query", "next"} => l.ride = NoRide
    /\ l.at \in {"refresh", "find", "commit"} => l.ride \in l.todo
    /\ \A r \in l.todo \ overtaken :
           LoopHolds(l, r) =>
               l.copies[r].status = IF l.phase = "dispatch" /\ l.ride # r
                                    THEN "scheduled" ELSE "requested"

LoopsMay == \A s \in Schedulers : LoopMay(sched[s])

Orderly(row) ==
    /\ row.status \in Early => row.driver = NoDriver
    /\ row.completedAt => row.status = "completed"

\* Handlers that have cancelled ride r and may yet ask for a fee.
Charging(r) ==
    {q \in Requests : /\ request[q] # Idle /\ request[q].ride = r
                      /\ request[q].op = "cancel"
                      /\ ~InTransaction(request[q])}

\* A fee is asked for a cancelled ride, by the one handler that cancelled it.
IntentFits(r) ==
    /\ \A p, q \in Charging(r) : p = q
    /\ Charging(r) # {} \/ intents[r] > 0 => rides[r].status = "cancelled"
    /\ intents[r] <= 1
    /\ \A q \in Charging(r) : request[q].at # "payment" => intents[r] = 0

TripsFit(d) ==
    /\ IsFiniteSet(CompletedBy(d))
    /\ trips[d] = Cardinality(CompletedBy(d))

\* Who completes an overtaken ride is affected.
CompletersAffected ==
    \A q \in Requests :
        InTransaction(request[q]) /\ request[q].op = "complete"
            /\ request[q].ride \in overtaken => request[q].by \in affected

RaceInv ==
    /\ overtaken \subseteq Rides /\ Overtaken \subseteq overtaken
    /\ affected \subseteq Drivers /\ Affected \subseteq affected
    /\ HandlersMay /\ TasksMay /\ LoopsMay
    /\ CompletersAffected
    /\ \A r \in Rides \ overtaken : Orderly(rides[r]) /\ IntentFits(r)
    /\ \A d \in Drivers \ affected : TripsFit(d)
=============================================================================
