---------------------------- MODULE Connections ----------------------------
(***************************************************************************)
(* ConnectionManager of api/websocket.py and the endpoints that use it.    *)
(*                                                                         *)
(* A registry holds at most one socket for each user and kind (rider,      *)
(* driver, admin).  The heartbeat loop marks the users it pings and later  *)
(* prunes those that sent nothing since; the marks belong to the user, not *)
(* to the socket.  Every socket has an endpoint coroutine that reads until *)
(* the connection ends.  Clients reconnect while the old connection is     *)
(* still being found out, so the steps of two sockets of one user and of   *)
(* the heartbeat interleave at every await.                                *)
(***************************************************************************)
EXTENDS MatchingEngine

CONSTANTS Sockets   \* <<user, kind, number>>, each used for one connection

ASSUME SocketsAssumption ==
    \A s \in Sockets : s[2] \in {"rider", "driver", "admin"}
                       /\ (s[2] = "driver" => s[1] \in Drivers)

VARIABLES
    registered,   \* the sockets in the three dictionaries
    awaiting,     \* the users with a ping they have not answered
    link,         \* link[s]: how far the connection and its endpoint are
    sending,      \* the sockets on which a send is about to fail
    beat          \* the heartbeat loop

connVars == <<registered, awaiting, link, sending, beat>>

User(s) == s[1]
Of(u)   == {s \in Sockets : User(s) = u}
Users   == {User(s) : s \in Sockets}

\* "lost": the client is gone and nobody has noticed; "closed": the endpoint
\* will be told; "leaving": its clean-up waits for Redis.
Link == {"none", "open", "lost", "closed", "leaving", "done"}

Sleeping == [at |-> "sleep", toPing |-> {}, dead |-> {}, closing |-> {}]

ConnTypeOK ==
    /\ registered \subseteq Sockets
    /\ awaiting \subseteq Users
    /\ link \in [Sockets -> Link]
    /\ sending \subseteq Sockets
    /\ beat \in [at : {"sleep", "ping", "wait", "prune", "close"},
                 toPing : SUBSET Sockets, dead : SUBSET Users,
                 closing : SUBSET Users]

ConnInit ==
    /\ registered = {}
    /\ awaiting = {}
    /\ link = [s \in Sockets |-> "none"]
    /\ sending = {}
    /\ beat = Sleeping

\* What every clean-up does with a user, whichever socket it is about.
Forget(u, sockets) ==
    /\ registered' = registered \ sockets
    /\ awaiting' = awaiting \ {u}

SetLink(s, state) == link' = [link EXCEPT ![s] = state]

-----------------------------------------------------------------------------
(* The endpoints rider_ws, driver_ws and admin_ws.                          *)

SameEntry(s) == {t \in Of(User(s)) : t[2] = s[2]}

\* connect_*: the new socket takes the place of an old one.
Connect(s) ==
    /\ link[s] = "none"
    /\ SetLink(s, "open")
    /\ registered' = (registered \ SameEntry(s)) \union {s}
    /\ awaiting' = awaiting \ {User(s)}
    /\ UNCHANGED <<sending, beat, engineVars>>

\* Any message counts as an answer, also one on a socket that was replaced.
\* A driver's may report a location.
Message(s) ==
    /\ link[s] = "open"
    /\ awaiting' = awaiting \ {User(s)}
    /\ \/ UNCHANGED engineVars
       \/ s[2] = "driver" /\ UpdateDriverLocation(User(s))
    /\ UNCHANGED <<registered, link, sending, beat>>

\* The client vanishes, or closes; a vanished one may be found out.
ClientGoes(s) ==
    /\ \/ link[s] = "open" /\ \E end \in {"lost", "closed"} : SetLink(s, end)
       \/ link[s] = "lost" /\ SetLink(s, "closed")
    /\ UNCHANGED <<registered, awaiting, sending, beat, engineVars>>

\* except WebSocketDisconnect: the user's entry goes, whichever socket it is.
Disconnect(s) ==
    /\ link[s] = "closed"
    /\ Forget(User(s), SameEntry(s))
    /\ SetLink(s, IF s[2] = "driver" THEN "leaving" ELSE "done")
    /\ UNCHANGED <<sending, beat, engineVars>>

LeaveMatching(s) ==
    /\ link[s] = "leaving"
    /\ SetLink(s, "done")
    /\ RemoveDriver(User(s))
    /\ UNCHANGED <<registered, awaiting, sending, beat>>

\* Any other exception ends the endpoint without a clean-up.
EndpointFails(s) ==
    /\ link[s] \in {"open", "lost", "leaving"}
    /\ SetLink(s, "done")
    /\ UNCHANGED <<registered, awaiting, sending, beat, engineVars>>

-----------------------------------------------------------------------------
(* send_to_rider, send_to_driver, send_to_admin.                            *)

\* A send to a connection that is no longer open raises at its await.
Send(s) ==
    /\ s \in registered /\ link[s] # "open"
    /\ sending' = sending \union {s}
    /\ UNCHANGED <<registered, awaiting, link, beat, engineVars>>

\* _safe_send: the user is removed from all three dictionaries.
SendFails(s) ==
    /\ s \in sending
    /\ sending' = sending \ {s}
    /\ Forget(User(s), Of(User(s)))
    /\ UNCHANGED <<link, beat, engineVars>>

-----------------------------------------------------------------------------
(* The heartbeat loop.                                                      *)

\* _send_pings takes a snapshot of the registry ...
StartPings ==
    /\ beat.at = "sleep"
    /\ beat' = [beat EXCEPT !.at = "ping", !.toPing = registered]
    /\ UNCHANGED <<registered, awaiting, link, sending, engineVars>>

\* Mutant: the user is marked only once the ping was sent.
PingThenMark(s) ==
    /\ beat.at = "ping" /\ s \in beat.toPing
    /\ awaiting' = IF link[s] = "open" THEN awaiting \union {User(s)}
                                       ELSE awaiting
    /\ beat' = [beat EXCEPT !.toPing = @ \ {s}]
    /\ UNCHANGED <<registered, link, sending, engineVars>>

\* ... and marks and pings one after the other, awaiting each send.
Ping(s) ==
    /\ beat.at = "ping" /\ s \in beat.toPing
    /\ awaiting' = awaiting \union {User(s)}
    /\ beat' = [beat EXCEPT !.toPing = @ \ {s}]
    /\ UNCHANGED <<registered, link, sending, engineVars>>

EndPings ==
    /\ beat.at = "ping" /\ beat.toPing = {}
    /\ beat' = [beat EXCEPT !.at = "wait"]
    /\ UNCHANGED <<registered, awaiting, link, sending, engineVars>>

\* _prune_dead_connections, after the timeout.
StartPrune ==
    /\ beat.at = "wait"
    /\ beat' = [beat EXCEPT !.at = "prune", !.dead = awaiting]
    /\ UNCHANGED <<registered, awaiting, link, sending, engineVars>>

\* The socket _force_disconnect closes: the rider's before the driver's
\* before the admin's.
ToClose(u) ==
    LET Entry(kind) == {s \in registered \intersect Of(u) : s[2] = kind} IN
    IF Entry("rider") # {} THEN Entry("rider")
    ELSE IF Entry("driver") # {} THEN Entry("driver")
    ELSE Entry("admin")

\* _force_disconnect up to the await of close(); without an entry there is
\* nothing to await.
CloseDead(u) ==
    /\ beat.at = "prune" /\ u \in beat.dead
    /\ beat' = [beat EXCEPT !.at = "close", !.dead = @ \ {u}, !.closing = {u}]
    /\ link' = [s \in Sockets |->
                   IF s \in ToClose(u) /\ link[s] \in {"open", "lost"}
                   THEN "closed" ELSE link[s]]
    /\ UNCHANGED <<registered, awaiting, sending, engineVars>>

\* The rest: the user is forgotten, with any socket registered meanwhile.
ForgetDead(u) ==
    /\ beat.at = "close" /\ u \in beat.closing
    /\ beat' = [beat EXCEPT !.at = "prune", !.closing = {}]
    /\ Forget(u, Of(u))
    /\ UNCHANGED <<link, sending, engineVars>>

EndPrune ==
    /\ beat.at = "prune" /\ beat.dead = {}
    /\ beat' = Sleeping
    /\ UNCHANGED <<registered, awaiting, link, sending, engineVars>>

HeartbeatStep ==
    \/ StartPings \/ EndPings \/ StartPrune \/ EndPrune
    \/ \E s \in Sockets : Ping(s)
    \/ \E u \in Users : CloseDead(u) \/ ForgetDead(u)

EndpointStep ==
    \E s \in Sockets :
        \/ Connect(s) \/ Message(s) \/ ClientGoes(s) \/ Disconnect(s)
        \/ LeaveMatching(s) \/ EndpointFails(s) \/ Send(s) \/ SendFails(s)

ConnStep == HeartbeatStep \/ EndpointStep

ConnSpec ==
    EngineInit /\ ConnInit /\ [][ConnStep]_<<engineVars, connVars>>

\* start_heartbeat runs the loop as long as the process lives; an await on a
\* socket ends in bounded time (uvicorn gives up a silent peer).
ConnFairness == WF_connVars(HeartbeatStep /\ UNCHANGED tableVars)

-----------------------------------------------------------------------------
Open(u) == \E s \in Of(u) : link[s] = "open"

\* "If a client does not respond ... the connection is considered dead and is
\* pruned automatically" (websocket.py): the registry does not keep the socket
\* of a user who is gone, although sockets are replaced and endpoints end
\* while the loop is pinging and pruning.  It takes a user without any open
\* socket, since the answer of one socket speaks for all of a user's.
DeadIsPruned ==
    \A s \in Sockets :
        (s \in registered /\ ~Open(User(s)))
            ~> (s \notin registered \/ Open(User(s)))
=============================================================================
