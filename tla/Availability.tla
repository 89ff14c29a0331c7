---------------------------- MODULE Availability ----------------------------
(***************************************************************************)
(* Driver availability: services/driver_availability.py and                *)
(* services/driver_destination.py with their endpoints.                    *)
(*                                                                         *)
(* For each driver profile a status row (online, on break, last heartbeat),*)
(* a weekly schedule and a destination filter; and the two places that say *)
(* from them whether a driver can be given a ride.  A driver's app may send*)
(* several requests at once: each loads the row and writes later what it   *)
(* changed.  No service here commits, they flush.                          *)
(***************************************************************************)
EXTENDS Sessions, Naturals

CONSTANTS
    Profiles,      \* driver profiles
    Weekdays,      \* the days a slot can be for
    Times,         \* the times of a day, as numbers
    Places         \* where a driver may head for, or a ride end

ASSUME TimesAssumption == Times \subseteq Nat

VARIABLES
    status,        \* status[d]: the row of driver_online_status
    slots,         \* slots[d]: the rows of driver_schedules
    heading,       \* heading[d]: the row of driver_destination_filters
    availCall      \* availCall[c]: a request about a status or a filter row

availVars == <<status, slots, heading, availCall>>

StatusRow == [exists : BOOLEAN, online : BOOLEAN, onBreak : BOOLEAN,
              beat : {"never", "fresh", "stale"}]
NoStatus  == [exists |-> FALSE, online |-> FALSE, onBreak |-> FALSE,
              beat |-> "never"]

\* One slot for each driver, day and start; start < end by its schema.
Slot == {s \in [day : Weekdays, start : Times, end : Times] : s.start < s.end}

\* The filter admits the places within its radius.
Filter   == [exists : BOOLEAN, active : BOOLEAN, admits : SUBSET Places,
             expires : BOOLEAN, expired : BOOLEAN]
NoFilter == [exists |-> FALSE, active |-> FALSE, admits |-> {},
             expires |-> FALSE, expired |-> FALSE]

NoAvailCall == [op |-> "idle"]

AvailTypeOK ==
    /\ status \in [Profiles -> StatusRow]
    /\ slots \in [Profiles -> SUBSET Slot]
    /\ heading \in [Profiles -> Filter]
    /\ \A c \in Requests : \/ availCall[c] = NoAvailCall
                           \/ availCall[c].driver \in Profiles

AvailInit ==
    /\ status = [d \in Profiles |-> NoStatus]
    /\ slots = [d \in Profiles |-> {}]
    /\ heading = [d \in Profiles |-> NoFilter]
    /\ availCall = [c \in Requests |-> NoAvailCall]

-----------------------------------------------------------------------------
(* What each request makes of the row it loaded.                            *)

\* set_driver_online: a heartbeat is stamped on the way online only, and a
\* break outlasts being offline.
SetOnline(row, online) ==
    [row EXCEPT !.exists = TRUE,
                !.online = online,
                !.beat = IF online /\ ~row.online THEN "fresh" ELSE @]

\* update_heartbeat: a driver without a row comes online.
Heartbeat(row) ==
    [row EXCEPT !.exists = TRUE,
                !.online = @ \/ ~row.exists,
                !.beat = "fresh"]

\* start_break and end_break, for a driver who is online.
StartBreak(row) == [row EXCEPT !.onBreak = TRUE]
EndBreak(row)   == IF row.onBreak
                   THEN [row EXCEPT !.onBreak = FALSE, !.beat = "fresh"]
                   ELSE row

\* set_destination_filter and clear_destination_filter.
SetFilter(admits, expires) ==
    [exists |-> TRUE, active |-> TRUE, admits |-> admits,
     expires |-> expires, expired |-> FALSE]
ClearFilter(row) == [row EXCEPT !.active = FALSE]

-----------------------------------------------------------------------------
(* The requests.                                                            *)

Ask(c, op, d, copy, new) ==
    /\ availCall[c] = NoAvailCall
    /\ availCall' = [availCall EXCEPT ![c] =
                        [op |-> op, driver |-> d, copy |-> copy, new |-> new]]
    /\ UNCHANGED <<status, slots, heading>>

LoadSetOnline(c, d, online) ==
    Ask(c, "set", d, status[d], SetOnline(status[d], online))
LoadHeartbeat(c, d)  == Ask(c, "heartbeat", d, status[d], Heartbeat(status[d]))
LoadStartBreak(c, d) == status[d].online
                        /\ Ask(c, "break", d, status[d], StartBreak(status[d]))
LoadEndBreak(c, d)   == status[d].online
                        /\ Ask(c, "break", d, status[d], EndBreak(status[d]))
LoadSetFilter(c, d, admits, expires) ==
    Ask(c, "filter", d, heading[d], SetFilter(admits, expires))
LoadClearFilter(c, d) == heading[d].active
                         /\ Ask(c, "filter", d, heading[d], ClearFilter(heading[d]))

\* Mutant: the flush writes every column of the copy.
WritesAll(c, row) == Flushed(row, availCall[c].new)

Writes(c, row) ==
    LET q == availCall[c] IN Flushed(row, Merge(row, q.copy, q.new))

Answered(c) == availCall' = [availCall EXCEPT ![c] = NoAvailCall]

WriteStatus(c) ==
    LET q == availCall[c]
    IN  /\ q.op \in {"set", "heartbeat", "break"}
        /\ q.copy.exists = status[q.driver].exists
        /\ status' = [status EXCEPT ![q.driver] = Writes(c, @)]
        /\ Answered(c)
        /\ UNCHANGED <<slots, heading>>

WriteFilter(c) ==
    LET q == availCall[c]
    IN  /\ q.op = "filter"
        /\ q.copy.exists = heading[q.driver].exists
        /\ heading' = [heading EXCEPT ![q.driver] = Writes(c, @)]
        /\ Answered(c)
        /\ UNCHANGED <<status, slots>>

\* driver_id is unique: the second of two inserts fails.
InsertRefused(c) ==
    LET q == availCall[c]
    IN  /\ \/ q.op \in {"set", "heartbeat", "break"}
              /\ ~q.copy.exists /\ status[q.driver].exists
           \/ q.op = "filter" /\ ~q.copy.exists /\ heading[q.driver].exists
        /\ Answered(c)
        /\ UNCHANGED <<status, slots, heading>>

\* The process stops, or the request is cancelled, before it has written.
AvailCallLost(c) ==
    /\ availCall[c] # NoAvailCall
    /\ Answered(c)
    /\ UNCHANGED <<status, slots, heading>>

\* set_schedule_slot replaces the slot that starts at the same time.
SetSlot(d, s) ==
    /\ slots' = [slots EXCEPT ![d] = Flushed(@,
           {t \in @ : <<t.day, t.start>> # <<s.day, s.start>>} \union {s})]
    /\ UNCHANGED <<status, heading, availCall>>

DeleteSlot(d, s) ==
    /\ s \in slots[d]
    /\ slots' = [slots EXCEPT ![d] = Flushed(@, @ \ {s})]
    /\ UNCHANGED <<status, heading, availCall>>

\* Time passes, a great deal more than a request takes.
NoRequests == \A c \in Requests : availCall[c] = NoAvailCall

HeartbeatAges(d) ==
    /\ NoRequests /\ status[d].beat = "fresh"
    /\ status' = [status EXCEPT ![d].beat = "stale"]
    /\ UNCHANGED <<slots, heading, availCall>>

FilterExpires(d) ==
    /\ NoRequests /\ heading[d].expires /\ ~heading[d].expired
    /\ heading' = [heading EXCEPT ![d].expired = TRUE]
    /\ UNCHANGED <<status, slots, availCall>>

AvailRequest(c) ==
    \/ \E d \in Profiles :
           \/ \E online \in BOOLEAN : LoadSetOnline(c, d, online)
           \/ LoadHeartbeat(c, d) \/ LoadStartBreak(c, d) \/ LoadEndBreak(c, d)
           \/ \E admits \in SUBSET Places, expires \in BOOLEAN :
                  LoadSetFilter(c, d, admits, expires)
           \/ LoadClearFilter(c, d)
    \/ WriteStatus(c) \/ WriteFilter(c) \/ InsertRefused(c) \/ AvailCallLost(c)

AvailStep ==
    \/ \E c \in Requests : AvailRequest(c)
    \/ \E d \in Profiles :
           \/ \E s \in Slot : SetSlot(d, s) \/ DeleteSlot(d, s)
           \/ HeartbeatAges(d) \/ FilterExpires(d)

AvailSpec == AvailInit /\ [][AvailStep]_availVars

-----------------------------------------------------------------------------
(* Who can be given a ride.                                                 *)

Today(d, day) == {s \in slots[d] : s.day = day}

\* Mutant: a slot ends before its last minute.
InScheduleOpen(d, day, time) ==
    \/ Today(d, day) = {}
    \/ \E s \in Today(d, day) : s.start <= time /\ time < s.end

InSchedule(d, day, time) ==
    \/ Today(d, day) = {}
    \/ \E s \in Today(d, day) : s.start <= time /\ time <= s.end

\* is_driver_available_now, which the admin's lists show.
AvailableNow(d, day, time) ==
    /\ status[d].online /\ ~status[d].onBreak
    /\ InSchedule(d, day, time)

\* _get_availability_eligible_driver_ids, which the matching engine asks: the
\* slots of the drivers with a fresh heartbeat, grouped by driver.
Eligible(day, time) ==
    LET online == {d \in Profiles : status[d].online /\ status[d].beat = "fresh"}
        SlotsByDriver == [d \in {e \in online : Today(e, day) # {}} |->
                             Today(d, day)]
    IN  {d \in online :
            d \in DOMAIN SlotsByDriver =>
                \E s \in SlotsByDriver[d] : s.start <= time /\ time <= s.end}

\* get_active_filters_for_drivers and dropoff_within_filter.
ActiveFilters(ds) ==
    {d \in ds : heading[d].active /\ ~heading[d].expired}
Admits(d, place) ==
    /\ heading[d].active /\ ~heading[d].expired
    /\ place \in heading[d].admits

\* The part of find_candidates that reads these tables.
Offerable(day, time, place) ==
    {d \in Eligible(day, time) :
        d \in ActiveFilters(Profiles) => Admits(d, place)}

-----------------------------------------------------------------------------
\* A driver who went offline stays so until some request of theirs says
\* "online" (set_driver_online), although requests overlap and each writes a
\* row it loaded earlier: a late heartbeat or break does not revive them.
OfflineIsKept ==
    [][\A d \in Profiles :
           (status[d].exists /\ ~status[d].online /\ status'[d].online) =>
               \E c \in Requests : availCall[c].op = "set"
                                   /\ availCall[c].new.online]_availVars

\* The admin's list and the matching engine compute availability by different
\* code and agree, at every time, on drivers who are not on a break and send
\* heartbeats (is_driver_available_now, _get_availability_eligible_driver_ids).
TwoFiltersAgree ==
    \A day \in Weekdays, time \in Times :
        {d \in Eligible(day, time) : ~status[d].onBreak}
            = {d \in Profiles : AvailableNow(d, day, time)
                                /\ status[d].beat = "fresh"}

-----------------------------------------------------------------------------
\* services/driver_availability.py: "one is created with is_online=True so
\* that sending a heartbeat implicitly brings the driver online."
HeartbeatBringsOnline ==
    [][\A c \in Requests :
           (WriteStatus(c) /\ availCall[c].op = "heartbeat"
              /\ ~availCall[c].copy.exists) =>
                  status'[availCall[c].driver].online]_availVars
=============================================================================
