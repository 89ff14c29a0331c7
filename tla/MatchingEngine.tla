--------------------------- MODULE MatchingEngine ---------------------------
(***************************************************************************)
(* The state MatchingEngine keeps in Redis, and whom it can offer a ride.  *)
(*                                                                         *)
(* A geo set holds the drivers that reported a location, and every driver  *)
(* has a status key that holds "available" or "busy" and expires after     *)
(* driver_location_ttl_seconds.  The engine writes the key when a driver   *)
(* reports a location, is matched, or is released; nothing else tells it   *)
(* whether a driver has a ride.                                            *)
(*                                                                         *)
(* The filters that read the database (is_online, is_approved, heartbeat   *)
(* and schedule, destination, accessibility, vehicle type) may drop any of *)
(* the drivers the key calls available, and distances are not modelled: a  *)
(* search returns any one of the candidates as its best, or nobody.        *)
(***************************************************************************)
EXTENDS RideTable

CONSTANTS DecodeResponses,   \* what get_redis passes to redis.from_url
          GeoPointEncodes    \* whether the client accepts a geometry object
                             \* where GEOSEARCH takes a coordinate

ASSUME EngineAssumption ==
    /\ DecodeResponses \in BOOLEAN
    /\ GeoPointEncodes \in BOOLEAN

VARIABLES located,   \* the members of openride:drivers:locations
          redis      \* redis[d]: the status key of driver d, "none" if absent

engineVars == <<located, redis>>

EngineTypeOK ==
    /\ located \subseteq Drivers
    /\ redis \in [Drivers -> {"none", "available", "busy"}]

EngineInit ==
    /\ located = {}
    /\ redis = [d \in Drivers |-> "none"]

SetStatus(d, status) ==
    /\ redis' = [redis EXCEPT ![d] = status]
    /\ UNCHANGED located

SetDriverBusy(d)      == SetStatus(d, "busy")
SetDriverAvailable(d) == SetStatus(d, "available")

\* A location report (or go-online) marks the driver available, whatever the
\* key held.
UpdateDriverLocation(d) ==
    /\ located' = located \union {d}
    /\ redis' = [redis EXCEPT ![d] = "available"]

\* go-offline, or the driver's WebSocket disconnects.
RemoveDriver(d) ==
    /\ located' = located \ {d}
    /\ redis' = [redis EXCEPT ![d] = "none"]

\* The status key reaches its time to live; the geo set has none.
KeyExpires(d) == redis[d] # "none" /\ SetStatus(d, "none")

\* Python's str and bytes objects: no str equals a bytes object.
Str(value)   == <<"str", value>>
Bytes(value) == <<"bytes", value>>

\* The answer of GET for driver d's key.
Get(d) == IF DecodeResponses THEN Str(redis[d]) ELSE Bytes(redis[d])

\* _filter_available
FilterAvailable == {d \in located : Get(d) = Bytes("available")}

\* Whom a search may return to a background task.
Candidates == FilterAvailable

\* The scheduler's calls pass ride.pickup_location for both coordinates.
SchedulerCandidates == IF GeoPointEncodes THEN FilterAvailable ELSE {}

\* A driver reports a location, leaves, or is not heard of for a while.
DriverPresence ==
    \E d \in Drivers :
        \/ UpdateDriverLocation(d)
        \/ RemoveDriver(d)
        \/ KeyExpires(d)
=============================================================================
