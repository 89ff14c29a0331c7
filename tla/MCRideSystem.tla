---------------------------- MODULE MCRideSystem ----------------------------
(***************************************************************************)
(* RideSystem with the constants TLC needs.                                *)
(***************************************************************************)
EXTENDS RideInductive, TLC

CONSTANTS r1, r2, d1, d2, q1, q2, s1, s2

Symmetry ==
    Permutations(Rides) \union Permutations(Drivers)
        \union Permutations(Requests) \union Permutations(Schedulers)

\* Larger instances leave out the drivers' coming and going: all of them have
\* reported a location once and their keys do not expire.
SteadyInit ==
    /\ TableInit
    /\ located = Drivers
    /\ redis = [d \in Drivers |-> "available"]
    /\ HandlersInit
    /\ TaskInit
    /\ SchedInit

SteadyNext == NewRide \/ Handling \/ Matching \/ Dispatching

SteadySpec == SteadyInit /\ [][SteadyNext]_vars

SteadyFairSpec == SteadySpec /\ Fairness
=============================================================================
