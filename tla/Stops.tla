-------------------------------- MODULE Stops --------------------------------
(***************************************************************************)
(* The stops of a ride: services/waypoints.py and api/v1/waypoints.py.  The*)
(* rider adds, changes and removes stops while the ride may be changed, the*)
(* driver arrives at and departs from them, and each may skip one.         *)
(***************************************************************************)
EXTENDS Sessions, Naturals, FiniteSets

CONSTANTS
    StopIds,       \* ids of rows of ride_waypoints
    MaxWaypoints,  \* MAX_WAYPOINTS
    MaxBulk        \* bound on the stops that are added at once

ASSUME StopsAssumption ==
    /\ StopIds \subseteq Nat /\ IsFiniteSet(StopIds)
    /\ MaxWaypoints \in Nat /\ MaxBulk \in Nat

VARIABLES
    stop,          \* stop[i]: the row
    modifiable,    \* the ride's status is one in which stops may be changed
    stopCall,      \* stopCall[c]: a request in progress
    jostled        \* history: whether changes of the stops overlapped

stopVars == <<stop, modifiable, stopCall, jostled>>

StopStatus == {"none", "pending", "arrived", "departed", "skipped"}
Stop   == [status : StopStatus, order : 0 .. MaxWaypoints, edited : BOOLEAN]
NoStop == [status |-> "none", order |-> 0, edited |-> FALSE]

StopIdle == [op |-> "idle", copy |-> <<>>, new |-> <<>>]

StopsTypeOK ==
    /\ stop \in [StopIds -> Stop]
    /\ modifiable \in BOOLEAN /\ jostled \in BOOLEAN
    /\ \A c \in Requests : DOMAIN stopCall[c].new \subseteq StopIds

StopsInit ==
    /\ stop = [i \in StopIds |-> NoStop]
    /\ modifiable = TRUE
    /\ stopCall = [c \in Requests |-> StopIdle]
    /\ jostled = FALSE

Stops == {i \in StopIds : stop[i].status # "none"}

Reordering == {"add", "remove"}

\* A request has read the stops and computed the rows it will write.
BeginStops(c, op, new) ==
    /\ stopCall[c] = StopIdle
    /\ stopCall' = [stopCall EXCEPT ![c] =
           [op |-> op, copy |-> [i \in DOMAIN new |-> stop[i]], new |-> new]]
    /\ jostled' = (jostled \/ \E x \in Requests :
                       \/ op \in Reordering /\ stopCall[x].op \in Reordering
                       \/ DOMAIN stopCall[x].new \intersect DOMAIN new # {})
    /\ UNCHANGED <<stop, modifiable>>

\* Mutant: the stops that are added do not count yet.
FitsBefore(ids) == Cardinality(Stops) < MaxWaypoints

Fits(ids) == Cardinality(Stops) + Cardinality(ids) <= MaxWaypoints

\* add_waypoint and add_waypoints_bulk: the new stops go to the end.
AddStops(c, ids) ==
    /\ modifiable
    /\ ids # {} /\ ids \intersect Stops = {}
    /\ \A x \in Requests : ids \intersect DOMAIN stopCall[x].new = {}
    /\ Fits(ids)
    /\ BeginStops(c, "add", [i \in ids |->
           [status |-> "pending", edited |-> FALSE,
            order |-> Cardinality(Stops) + Cardinality({j \in ids : j <= i})]])

UpdateStop(c, i) ==
    /\ modifiable /\ stop[i].status = "pending"
    /\ BeginStops(c, "update", [j \in {i} |-> [stop[i] EXCEPT !.edited = TRUE]])

\* Mutant: the stops after the removed one keep their places.
MovedUpNot(i) == {}

\* The stops after the removed one.
MovedUp(i) == {j \in Stops : stop[j].order > stop[i].order}

RemoveStop(c, i) ==
    /\ modifiable /\ stop[i].status = "pending"
    /\ BeginStops(c, "remove", [j \in {i} \union MovedUp(i) |->
           IF j = i THEN NoStop ELSE [stop[j] EXCEPT !.order = @ - 1]])

\* _VALID_TRANSITIONS.
NextStatus(status) ==
    CASE status = "pending" -> {"arrived", "skipped"}
      [] status = "arrived" -> {"departed", "skipped"}
      [] OTHER -> {}

\* arrive, depart and skip ask neither for the ride's status nor for its driver.
AdvanceStop(c, i, status) ==
    /\ status \in NextStatus(stop[i].status)
    /\ BeginStops(c, "advance", [j \in {i} |-> [stop[i] EXCEPT !.status = status]])

\* Rows that were removed meanwhile make the commit fail.
CommitStops(c) ==
    LET q == stopCall[c]
        gone == \E i \in DOMAIN q.new : q.copy[i] # NoStop /\ stop[i] = NoStop
    IN  /\ q # StopIdle
        /\ stop' = [i \in StopIds |->
               CASE gone \/ i \notin DOMAIN q.new -> stop[i]
                 [] ~gone /\ i \in DOMAIN q.new /\ q.new[i] = NoStop -> NoStop
                 [] OTHER -> Merge(stop[i], q.copy[i], q.new[i])]
        /\ stopCall' = [stopCall EXCEPT ![c] = StopIdle]
        /\ UNCHANGED <<modifiable, jostled>>

StopCallLost(c) ==
    /\ stopCall[c] # StopIdle
    /\ stopCall' = [stopCall EXCEPT ![c] = StopIdle]
    /\ UNCHANGED <<stop, modifiable, jostled>>

\* The ride leaves _MODIFIABLE_STATUSES, and does not come back.
RideMovesOn ==
    /\ modifiable
    /\ modifiable' = FALSE
    /\ UNCHANGED <<stop, stopCall, jostled>>

StopsStep ==
    \/ \E c \in Requests :
           \/ \E ids \in SUBSET StopIds : Cardinality(ids) <= MaxBulk /\ AddStops(c, ids)
           \/ \E i \in StopIds :
                  \/ UpdateStop(c, i) \/ RemoveStop(c, i)
                  \/ \E status \in StopStatus : AdvanceStop(c, i, status)
           \/ CommitStops(c) \/ StopCallLost(c)
    \/ RideMovesOn

StopsSpec == StopsInit /\ [][StopsStep]_stopVars

-----------------------------------------------------------------------------
\* The stops of a ride are numbered 1 to n without a gap or a double, and are at
\* most MAX_WAYPOINTS, whatever is added and removed and however the driver
\* moves on meanwhile, unless additions and removals overlapped.
StopsInOrder ==
    ~jostled => /\ {stop[i].order : i \in Stops} = 1 .. Cardinality(Stops)
                /\ Cardinality(Stops) <= MaxWaypoints
=============================================================================
