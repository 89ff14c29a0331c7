--------------------------- MODULE RideLifecycle ---------------------------
(***************************************************************************)
(* What a ride promises: the life cycle of one row of the table "rides".   *)
(*                                                                         *)
(* This is the abstract specification.  A ride has a status and, from the  *)
(* moment it is matched, one driver; every step moves a ride forward along *)
(*                                                                         *)
(*   scheduled -> requested -> matched -> driver_en_route -> arrived       *)
(*                                        -> in_progress -> completed      *)
(*                                                                         *)
(* (a matched ride may also be started directly), and a ride that is not   *)
(* yet in progress may be cancelled.  Completed and cancelled are final.   *)
(*                                                                         *)
(* Sessions that overlap can take a live ride out of this promise, which   *)
(* is then contested; they cannot take a finished one.                     *)
(***************************************************************************)
CONSTANTS Rides,     \* the ride ids
          Drivers,   \* the users with the driver role
          NoDriver   \* NULL in the column driver_id

VARIABLES status,    \* status[r]: the column "status", "none" before INSERT
          driver     \* driver[r]: the column "driver_id", while uncontested

lifecycleVars == <<status, driver>>

Statuses == {"none", "scheduled", "requested", "matched", "driver_en_route",
             "arrived", "in_progress", "completed", "cancelled", "contested"}

Cancellable == {"scheduled", "requested", "matched", "driver_en_route",
                "arrived"}

LifecycleTypeOK ==
    /\ status \in [Rides -> Statuses]
    /\ driver \in [Rides -> Drivers \union {NoDriver}]

LifecycleInit ==
    /\ status = [r \in Rides |-> "none"]
    /\ driver = [r \in Rides |-> NoDriver]

\* The ride moves from one of the statuses "from" to the status "to".
Move(r, from, to) ==
    /\ status[r] \in from
    /\ status' = [status EXCEPT ![r] = to]

Create(r) ==
    /\ \E to \in {"requested", "scheduled"} : Move(r, {"none"}, to)
    /\ UNCHANGED driver

Dispatch(r) == Move(r, {"scheduled"}, "requested") /\ UNCHANGED driver

Match(r, d) ==
    /\ Move(r, {"requested"}, "matched")
    /\ driver' = [driver EXCEPT ![r] = d]

EnRoute(r)  == Move(r, {"matched"}, "driver_en_route") /\ UNCHANGED driver
Arrive(r)   == Move(r, {"driver_en_route"}, "arrived") /\ UNCHANGED driver
Start(r)    == Move(r, {"matched", "arrived"}, "in_progress") /\ UNCHANGED driver
Complete(r) == Move(r, {"in_progress"}, "completed") /\ UNCHANGED driver
Cancel(r)   == Move(r, Cancellable, "cancelled") /\ UNCHANGED driver

\* Sessions overlap about a ride that is under way.
Contend(r) ==
    /\ Move(r, Cancellable \union {"in_progress"}, "contested")
    /\ driver' = [driver EXCEPT ![r] = NoDriver]

LifecycleNext ==
    \E r \in Rides :
        \/ Create(r)
        \/ Dispatch(r)
        \/ \E d \in Drivers : Match(r, d)
        \/ EnRoute(r)
        \/ Arrive(r)
        \/ Start(r)
        \/ Complete(r)
        \/ Cancel(r)
        \/ Contend(r)

LifecycleSpec == LifecycleInit /\ [][LifecycleNext]_lifecycleVars
=============================================================================
