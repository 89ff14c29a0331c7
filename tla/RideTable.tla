----------------------------- MODULE RideTable -----------------------------
(***************************************************************************)
(* The table "rides" as database sessions see it.                          *)
(*                                                                         *)
(* A session loads a row with a plain SELECT (no lock), decides on its     *)
(* copy, and COMMITs later; in between it awaits, so other sessions run.   *)
(* Sessions are created with expire_on_commit=False: a copy is reread only *)
(* where the code calls refresh.  An UPDATE writes only the columns whose  *)
(* value in the copy changed since it was loaded (Flush).                  *)
(*                                                                         *)
(* A row keeps the columns that steer the life of a ride.  Timestamps      *)
(* matter only as set or not set; fares, addresses and waypoints are left  *)
(* out.                                                                    *)
(***************************************************************************)
EXTENDS Naturals, FiniteSets

CONSTANTS Rides,       \* the ride ids
          Drivers,     \* the users with the driver role
          NoDriver,    \* NULL in the column driver_id
          MaxRetries   \* settings.dispatch_max_retries

ASSUME TableAssumption ==
    /\ NoDriver \notin Drivers
    /\ MaxRetries \in Nat

VARIABLES rides,    \* rides[r]: the row of ride r
          locked    \* the rides whose row an open transaction has updated

tableVars == <<rides, locked>>

RideStatus == {"none", "scheduled", "requested", "matched",
               "driver_en_route", "arrived", "in_progress", "completed",
               "cancelled"}

Row == [status : RideStatus, driver : Drivers \union {NoDriver},
        matchedAt : BOOLEAN, startedAt : BOOLEAN, completedAt : BOOLEAN,
        cancelledAt : BOOLEAN, retries : 0 .. MaxRetries]

\* Before INSERT.
NoRow == [status |-> "none", driver |-> NoDriver,
          matchedAt |-> FALSE, startedAt |-> FALSE, completedAt |-> FALSE,
          cancelledAt |-> FALSE, retries |-> 0]

\* Mutant: the UPDATE writes every column of the copy.
FlushEverything(row, copy, new) == new

\* COMMIT of a session that loaded "copy" and turned it into "new": the
\* columns that differ overwrite the row, the others keep what it holds now.
Flush(row, copy, new) ==
    LET Put(now, loaded, set) == IF set = loaded THEN now ELSE set IN
    [status      |-> Put(row.status, copy.status, new.status),
     driver      |-> Put(row.driver, copy.driver, new.driver),
     matchedAt   |-> Put(row.matchedAt, copy.matchedAt, new.matchedAt),
     startedAt   |-> Put(row.startedAt, copy.startedAt, new.startedAt),
     completedAt |-> Put(row.completedAt, copy.completedAt, new.completedAt),
     cancelledAt |-> Put(row.cancelledAt, copy.cancelledAt, new.cancelledAt),
     retries     |-> Put(row.retries, copy.retries, new.retries)]

\* The UPDATE waits for a transaction that has updated the row already.
CommitRow(r, copy, new) ==
    /\ r \notin locked
    /\ rides' = [rides EXCEPT ![r] = Flush(@, copy, new)]
    /\ UNCHANGED locked

\* Assigning a driver, as the background task, accept and the scheduler do.
Matched(copy, d) ==
    [copy EXCEPT !.driver = d, !.status = "matched", !.matchedAt = TRUE]

\* Mutant: the time of the cancellation is not recorded.
CancelledUntimed(copy) == [copy EXCEPT !.status = "cancelled"]

\* Every way of cancelling a ride.
Cancelled(copy) == [copy EXCEPT !.status = "cancelled", !.cancelledAt = TRUE]

Rows(status) == {r \in Rides : rides[r].status = status}

TableTypeOK == rides \in [Rides -> Row] /\ locked \subseteq Rides

TableInit == rides = [r \in Rides |-> NoRow] /\ locked = {}
=============================================================================
