\* A share is paid, the fare is not.
SPECIFICATION SidesSpec
CONSTANTS
    c1 = c1  c2 = c2  b = b  u = u  v = v
    Rides = {1}
    MaxIntents = 2
    NoIntent = NoIntent
    Calls = {c1, c2}
    Hooks = {c1, c2}
    Owed = 2
    Tips = {1, 2}
    Places = {b, u, v}
    Initiator = b
    Groups = 2
    Estimate = 1
    SplitCalls = {c1}
    MaxParticipants = 5
    PayoutIds = {1, 2}
    Days = 1
    AdminCalls = {c1, c2}
    MaxTransfers = 2
    AccountEventsRouted = TRUE
INVARIANTS ShareIsNotTheFare
\* A payment whose response was lost is never paid: the behaviour may stop.
CHECK_DEADLOCK FALSE
