\* Services: promo codes, recurring rides, surge, cases, stops, ratings, notices.
SPECIFICATION ServicesSpec
CONSTANTS
    c1 = c1  c2 = c2  C1 = C1
    Requests = {c1, c2}
    GetDbCommits = TRUE
    Codes = {C1}
    Riders = {1, 2}
    PromoRides = {1, 2}
    Unlimited = Unlimited
    MaxUses = 2
    Templates = {1}
    Schedulers = {1, 2}
    DayLength = 2
    WeekLength = 2
    Offsets = {0}
    Lead = 1
    MaxTemplates = 1
    MaxTime = 4
    MaxBookings = 3
    Zones = {1}
    Cells = {1, 2}
    Entries = {1}
    Pollers = {1, 2}
    MaxMultiplier = 2
    Window = 2
    MaxDemand = 4
    CaseIds = {1, 2}
    CaseRides <- MCRides
    Admins = {9}
    StopIds = {1, 2, 3, 4}
    MaxWaypoints = 3
    MaxBulk = 2
    RatedRides = {1, 2}
    Stars = {1, 4}
    NoticeUsers = {1, 2}
    Devices = {1}
    NoticeTypes = {"ride_matched", "sos_alert"}
    Senders = {1}
    MaxUpdates = 2
    MaxLog = 3
INVARIANTS ServicesTypeOK OccurrencesBooked OneNotice DemandCovers
    OneOpenDispute StopsInOrder RatingsAddUp 
PROPERTIES PromoLimitsKept ClosedIsClosed
\* Everything may be done: the behaviour may stop.
CHECK_DEADLOCK FALSE
