---------------------------- MODULE RideHandlers ----------------------------
(***************************************************************************)
(* The HTTP handlers of api/v1/rides.py that change a ride.                *)
(*                                                                         *)
(* A handler occupies a slot from its SELECT to its last effect on shared  *)
(* state; every stretch between two awaits that touch shared state is one  *)
(* action.  "at" is the step it takes next, "copy" its session's row.      *)
(* Left out: waypoints, promo codes, fares, notifications and the audit    *)
(* events; the estimate, history and ETA endpoints, which write nothing.   *)
(***************************************************************************)
EXTENDS MatchingEngine

CONSTANT Requests   \* slots for concurrent HTTP requests

VARIABLES request,   \* request[q]: what the handler in slot q is doing
          trips,     \* trips[d]: driver_profiles.total_trips
          payment,   \* payment[r]: a CANCELLATION_FEE payment row exists
          intents    \* intents[r]: Stripe PaymentIntents made for that fee

books == <<trips, payment, intents>>

Rider == "rider"   \* the user who requested the ride
Idle  == [op |-> "idle"]

Handler == [op : {"accept", "en_route", "arrived", "start", "complete",
                  "cancel", "cancel_scheduled"},
            at : {"profile", "commit", "busy", "available", "release",
                  "fee", "intent", "payment"},
            ride : Rides, by : Drivers \union {Rider}, copy : Row,
            fee : BOOLEAN, trips : Nat]

HandlersTypeOK ==
    /\ request \in [Requests -> Handler \union {Idle}]
    /\ trips \in [Drivers -> Nat]
    /\ payment \in [Rides -> BOOLEAN]
    /\ intents \in [Rides -> Nat]

HandlersInit ==
    /\ request = [q \in Requests |-> Idle]
    /\ trips = [d \in Drivers |-> 0]
    /\ payment = [r \in Rides |-> FALSE]
    /\ intents = [r \in Rides |-> 0]

\* A handler has loaded ride r and passed its guards.
Begin(q, op, at, r, by, fee) ==
    /\ request[q] = Idle
    /\ request' = [request EXCEPT ![q] =
           [op |-> op, at |-> at, ride |-> r, by |-> by, copy |-> rides[r],
            fee |-> fee, trips |-> 0]]
    /\ UNCHANGED <<tableVars, books, engineVars>>

At(q, op, at) == request[q] # Idle /\ request[q].op = op /\ request[q].at = at

Finish(q)         == request' = [request EXCEPT ![q] = Idle]
Continue(q, next) == request' = [request EXCEPT ![q].at = next]

\* Goes on to "next", where the copy is not read any more.
Forget(q, next) ==
    request' = [request EXCEPT ![q].at = next, ![q].copy = NoRow]

\* COMMIT of the handler in slot q, whose copy became "new".
CommitRide(q, new) == CommitRow(request[q].ride, request[q].copy, new)

\* COMMIT, which is the last thing the handler does to shared state.
CommitAndFinish(q, new) ==
    /\ CommitRide(q, new)
    /\ Finish(q)
    /\ UNCHANGED <<books, engineVars>>

\* POST /rides/request.
RequestRide(r) ==
    /\ rides[r] = NoRow
    /\ rides' = [rides EXCEPT ![r].status = "requested"]
    /\ UNCHANGED <<locked, request, books, engineVars>>

\* POST /rides/schedule.
ScheduleRide(r) ==
    /\ rides[r] = NoRow
    /\ rides' = [rides EXCEPT ![r].status = "scheduled"]
    /\ UNCHANGED <<locked, request, books, engineVars>>

\* POST /rides/{id}/accept, by any driver.
LoadAccept(q, r, d) ==
    /\ rides[r].status = "requested"
    /\ Begin(q, "accept", "commit", r, d, FALSE)

CommitAccept(q) ==
    /\ At(q, "accept", "commit")
    /\ CommitRide(q, Matched(request[q].copy, request[q].by))
    /\ Forget(q, "busy")
    /\ UNCHANGED <<books, engineVars>>

BusyAfterAccept(q) ==
    /\ At(q, "accept", "busy")
    /\ SetDriverBusy(request[q].by)
    /\ Finish(q)
    /\ UNCHANGED <<tableVars, books>>

\* POST /rides/{id}/en-route.
LoadEnRoute(q, r, d) ==
    /\ rides[r].driver = d
    /\ rides[r].status = "matched"
    /\ Begin(q, "en_route", "commit", r, d, FALSE)

CommitEnRoute(q) ==
    /\ At(q, "en_route", "commit")
    /\ CommitAndFinish(q, [request[q].copy EXCEPT
                               !.status = "driver_en_route"])

\* POST /rides/{id}/arrived.
LoadArrived(q, r, d) ==
    /\ rides[r].driver = d
    /\ rides[r].status = "driver_en_route"
    /\ Begin(q, "arrived", "commit", r, d, FALSE)

CommitArrived(q) ==
    /\ At(q, "arrived", "commit")
    /\ CommitAndFinish(q, [request[q].copy EXCEPT !.status = "arrived"])

\* POST /rides/{id}/start.
LoadStart(q, r, d) ==
    /\ rides[r].driver = d
    /\ rides[r].status \in {"matched", "arrived"}
    /\ Begin(q, "start", "commit", r, d, FALSE)

CommitStart(q) ==
    /\ At(q, "start", "commit")
    /\ CommitAndFinish(q, [request[q].copy EXCEPT !.status = "in_progress",
                                                  !.startedAt = TRUE])

\* Mutant: a completed ride can be completed again.
LoadCompleteAgain(q, r, d) ==
    /\ rides[r].driver = d
    /\ rides[r].status \in {"in_progress", "completed"}
    /\ Begin(q, "complete", "profile", r, d, FALSE)

\* POST /rides/{id}/complete: the ride, then the driver's profile, are
\* loaded; one COMMIT writes both.  The query for the profile flushes the new
\* status first (autoflush), so the ride's row is locked until the COMMIT.
LoadComplete(q, r, d) ==
    /\ rides[r].driver = d
    /\ rides[r].status = "in_progress"
    /\ Begin(q, "complete", "profile", r, d, FALSE)

LoadProfile(q) ==
    /\ At(q, "complete", "profile")
    /\ request[q].ride \notin locked
    /\ locked' = locked \union {request[q].ride}
    /\ request' = [request EXCEPT ![q].at = "commit",
                                  ![q].trips = trips[request[q].by]]
    /\ UNCHANGED <<rides, books, engineVars>>

CommitComplete(q) ==
    /\ At(q, "complete", "commit")
    /\ rides' = [rides EXCEPT ![request[q].ride] =
           Flush(@, request[q].copy,
                 [request[q].copy EXCEPT !.status = "completed",
                                         !.completedAt = TRUE])]
    /\ locked' = locked \ {request[q].ride}
    /\ trips' = [trips EXCEPT ![request[q].by] = request[q].trips + 1]
    /\ Forget(q, "available")
    /\ UNCHANGED <<payment, intents, engineVars>>

AvailableAfterComplete(q) ==
    /\ At(q, "complete", "available")
    /\ SetDriverAvailable(request[q].by)
    /\ Finish(q)
    /\ UNCHANGED <<tableVars, books>>

\* DELETE /rides/scheduled/{id}.
LoadCancelScheduled(q, r) ==
    /\ rides[r].status = "scheduled"
    /\ Begin(q, "cancel_scheduled", "commit", r, Rider, FALSE)

CommitCancelScheduled(q) ==
    /\ At(q, "cancel_scheduled", "commit")
    /\ CommitAndFinish(q, Cancelled(request[q].copy))

-----------------------------------------------------------------------------
(***************************************************************************)
(* POST /rides/{id}/cancel and the cancellation fee.                       *)
(***************************************************************************)
\* evaluate_cancellation refuses these ...
CannotCancel == {"none", "completed", "cancelled", "in_progress"}

\* ... and can charge a fee in these, once the grace period after the match
\* is over.
FeeStatuses == {"matched", "driver_en_route", "arrived"}

\* Mutant: the fee does not depend on the status.
FeeAnytime(row, by, graceOver) == by = Rider /\ graceOver

FeeDue(row, by, graceOver) ==
    by = Rider /\ row.status \in FeeStatuses /\ graceOver

\* Mutant: a cancelled ride can be cancelled again, for a fee.
LoadCancelAgain(q, r, by, graceOver) ==
    /\ rides[r].status \notin CannotCancel \ {"cancelled"}
    /\ by \in {Rider, rides[r].driver}
    /\ Begin(q, "cancel", "commit", r, by,
             by = Rider /\ rides[r].matchedAt /\ graceOver)

\* By the rider or by the ride's driver.
LoadCancel(q, r, by, graceOver) ==
    /\ rides[r].status \notin CannotCancel
    /\ by \in {Rider, rides[r].driver}
    /\ Begin(q, "cancel", "commit", r, by, FeeDue(rides[r], by, graceOver))

CommitCancel(q) ==
    /\ At(q, "cancel", "commit")
    /\ CommitRide(q, Cancelled(request[q].copy))
    /\ Continue(q, "release")
    /\ UNCHANGED <<books, engineVars>>

\* The driver of the loaded copy, not of the row, is made available again.
ReleaseDriver(q) ==
    /\ At(q, "cancel", "release")
    /\ IF request[q].copy.driver = NoDriver
       THEN UNCHANGED engineVars
       ELSE SetDriverAvailable(request[q].copy.driver)
    /\ IF request[q].fee THEN Forget(q, "fee") ELSE Finish(q)
    /\ UNCHANGED <<tableVars, books>>

\* create_cancellation_payment_intent: an existing payment is returned, ...
LookupFee(q) ==
    /\ At(q, "cancel", "fee")
    /\ IF payment[request[q].ride] THEN Finish(q) ELSE Continue(q, "intent")
    /\ UNCHANGED <<tableVars, books, engineVars>>

\* ... else Stripe makes an intent, ...
CreateIntent(q) ==
    /\ At(q, "cancel", "intent")
    /\ intents' = [intents EXCEPT ![request[q].ride] = @ + 1]
    /\ Continue(q, "payment")
    /\ UNCHANGED <<tableVars, trips, payment, engineVars>>

\* ... and the row is inserted; uq_payment_ride_type refuses a second one and
\* the handler swallows that error.
InsertFee(q) ==
    /\ At(q, "cancel", "payment")
    /\ payment' = [payment EXCEPT ![request[q].ride] = TRUE]
    /\ Finish(q)
    /\ UNCHANGED <<tableVars, trips, intents, engineVars>>

\* The handler dies between two steps: an error, a time-out or a crash.
RequestFails(q) ==
    /\ request[q] # Idle
    /\ locked' = IF At(q, "complete", "commit")
                 THEN locked \ {request[q].ride} ELSE locked
    /\ Finish(q)
    /\ UNCHANGED <<rides, books, engineVars>>

HandlerLoad(q) ==
    \E r \in Rides :
        \/ LoadCancelScheduled(q, r)
        \/ \E by \in Drivers \union {Rider}, graceOver \in BOOLEAN :
               LoadCancel(q, r, by, graceOver)
        \/ \E d \in Drivers :
               \/ LoadAccept(q, r, d)
               \/ LoadEnRoute(q, r, d)
               \/ LoadArrived(q, r, d)
               \/ LoadStart(q, r, d)
               \/ LoadComplete(q, r, d)

HandlerContinue(q) ==
    \/ CommitAccept(q)
    \/ BusyAfterAccept(q)
    \/ CommitEnRoute(q)
    \/ CommitArrived(q)
    \/ CommitStart(q)
    \/ LoadProfile(q)
    \/ CommitComplete(q)
    \/ AvailableAfterComplete(q)
    \/ CommitCancelScheduled(q)
    \/ CommitCancel(q)
    \/ ReleaseDriver(q)
    \/ LookupFee(q)
    \/ CreateIntent(q)
    \/ InsertFee(q)

HandlerStep ==
    \E q \in Requests :
        \/ HandlerLoad(q)
        \/ HandlerContinue(q)
        \/ RequestFails(q)
=============================================================================
