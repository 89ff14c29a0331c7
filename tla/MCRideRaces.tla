----------------------------- MODULE MCRideRaces -----------------------------
(***************************************************************************)
(* RideRaces with the constants TLC needs.                                 *)
(***************************************************************************)
EXTENDS RideRaces, TLC

CONSTANTS r1, r2, d1, d2, q1, q2, s1, s2

Symmetry ==
    Permutations(Rides) \union Permutations(Drivers)
        \union Permutations(Requests) \union Permutations(Schedulers)

\* The drivers' coming and going is left out: all of them have reported a
\* location once and their keys do not expire.
SteadyInit ==
    /\ TableInit
    /\ located = Drivers
    /\ redis = [d \in Drivers |-> "available"]
    /\ HandlersInit
    /\ TaskInit
    /\ SchedInit
    /\ WatchInit

SteadyNext == NewRide \/ Handling \/ Matching \/ Dispatching

SteadyRaceSpec == SteadyInit /\ [][SteadyNext /\ Watch]_raceVars

\* A bound: what follows once somebody was overtaken is not explored.
Unraced == overtaken = {}
=============================================================================
