\* One ride, two drivers, one request at a time besides task and scheduler.
SPECIFICATION Spec
CONSTANTS
    r1 = r1  r2 = r2  d1 = d1  d2 = d2  q1 = q1  q2 = q2  s1 = s1  s2 = s2
    Rides = {r1}
    Drivers = {d1, d2}
    NoDriver = NoDriver
    MaxRetries = 1
    DecodeResponses = FALSE
    GeoPointEncodes = TRUE
    Requests = {q1}
    Schedulers = {s1}
    NoRide = NoRide
SYMMETRY Symmetry
INVARIANTS TypeOK HistoryConsistent RequestedIsUnassigned FeeOnlyAfterMatch
PROPERTIES RetriesCountUp GivenUpWhenExhausted MilestonesAreKept
