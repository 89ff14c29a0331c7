\* The scheduler gives up a ride that a driver has accepted meanwhile.
SPECIFICATION Spec
CONSTANTS
    r1 = r1  r2 = r2  d1 = d1  d2 = d2  q1 = q1  q2 = q2  s1 = s1  s2 = s2
    Rides = {r1}
    Drivers = {d1}
    NoDriver = NoDriver
    MaxRetries = 1
    DecodeResponses = TRUE
    GeoPointEncodes = FALSE
    Requests = {q1}
    Schedulers = {s1}
    NoRide = NoRide
PROPERTIES GivenUpHasNoDriver
