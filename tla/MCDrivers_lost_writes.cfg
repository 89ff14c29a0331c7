\* A driver's heartbeat as deployed, where get_db does not commit.
SPECIFICATION DriversSpec
CONSTANTS
    d1 = d1  c1 = c1  c2 = c2  t1 = t1  t2 = t2
    Drivers = {d1}
    Rides = {}
    NoDriver = NoDriver
    MaxRetries = 0
    DecodeResponses = FALSE
    GeoPointEncodes = FALSE
    Sockets <- MCSockets
    Requests = {c1, c2}
    GetDbCommits = FALSE
    Profiles = {d1}
    Weekdays = {1, 2}
    Times = {1, 2, 3}
    Places = {1}
    Papers <- MCPapers
    MaxDay = 2
    Required = {t1, t2}
    VDocs = {1, 2, 3}
    Checks = {1}
PROPERTIES HeartbeatBringsOnline
\* A driver may be done: the behaviour may stop.
CHECK_DEADLOCK FALSE
