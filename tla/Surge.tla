-------------------------------- MODULE Surge --------------------------------
(***************************************************************************)
(* Where and when rides cost more: the surge zones of an admin             *)
(* (services/surge_zones.py), the riders who wait for a zone's surge to    *)
(* drop (services/surge_waitlist.py), and the demand counters in Redis     *)
(* that the price of a ride depends on (services/demand_pricing.py).       *)
(***************************************************************************)
EXTENDS Sessions, Integers, FiniteSetsExt

CONSTANTS
    Zones,          \* the zones an admin may create
    Cells,          \* places, a geohash cell each
    Entries,        \* waitlist entries
    Pollers,        \* calls of check_and_notify_waitlist
    MaxMultiplier,  \* multipliers are 1 .. MaxMultiplier
    Window,         \* _DEMAND_WINDOW_SECONDS, in steps
    MaxDemand       \* bound on the requests that are counted

ASSUME SurgeAssumption ==
    /\ MaxMultiplier \in Nat \ {0}
    /\ Window \in Nat \ {0} /\ MaxDemand \in Nat
    /\ Cells # {}

VARIABLES
    zone,           \* zone[z]: the row of surge_pricing_zones
    evening,        \* the time, as far as the zones' hours go
    entry,          \* entry[e]: the row of surge_waitlist_entries
    surgeCall,      \* surgeCall[c]: a request that changes one of these rows
    poll,           \* poll[p]: a pass over the waitlist
    notices,        \* notices[e]: how often the rider was told
    crossed,        \* history: entries that a pass and something else changed
    demand,         \* demand[g]: openride:demand:g, with its time to live
    asked           \* history: asked[g][n]: the age of the n-th request that is counted

zoneVars   == <<zone, evening, entry, surgeCall, poll, notices, crossed>>
demandVars == <<demand, asked>>
surgeVars  == <<zoneVars, demandVars>>

Multipliers == 1 .. MaxMultiplier
ZoneRow  == [exists : BOOLEAN, active : BOOLEAN, multiplier : Multipliers,
             area : SUBSET Cells, hours : SUBSET BOOLEAN]
NoZone   == [exists |-> FALSE, active |-> FALSE, multiplier |-> 1,
             area |-> {}, hours |-> {}]
EntryRow == [status : {"none", "active", "notified", "expired", "cancelled"},
             origin : Cells, max : Multipliers, old : BOOLEAN]

Unpolled == [phase |-> "idle", todo |-> {}, rows |-> <<>>, zones |-> <<>>,
             evening |-> FALSE, new |-> <<>>]
SurgeIdle == [op |-> "idle"]

SurgeTypeOK ==
    /\ zone \in [Zones -> ZoneRow]
    /\ entry \in [Entries -> EntryRow]
    /\ \A p \in Pollers : poll[p].phase \in {"idle", "entries", "zones"}
    /\ \A g \in Cells : demand[g] \in [count : 0 .. MaxDemand, ttl : 0 .. Window]
    /\ crossed \subseteq Entries

SurgeInit ==
    /\ zone = [z \in Zones |-> NoZone]
    /\ evening = FALSE
    /\ entry = [e \in Entries |-> [status |-> "none", old |-> FALSE, max |-> 1,
                                   origin |-> CHOOSE g \in Cells : TRUE]]
    /\ surgeCall = [c \in Requests |-> SurgeIdle]
    /\ poll = [p \in Pollers |-> Unpolled]
    /\ notices = [e \in Entries |-> 0]
    /\ crossed = {}
    /\ demand = [g \in Cells |-> [count |-> 0, ttl |-> 0]]
    /\ asked = [g \in Cells |-> <<>>]

-----------------------------------------------------------------------------
(* services/surge_zones.py.                                                 *)

\* A zone with an overnight window is active in the evening, one without
\* hours always.
ZoneActiveNow(row, late) == row.exists /\ row.active /\ late \in row.hours

\* The highest multiplier of the zones that hold the place.
SurgeAt(zones, late, g) ==
    Max({1} \union {zones[z].multiplier :
             z \in {y \in Zones : ZoneActiveNow(zones[y], late)
                                  /\ g \in zones[y].area}})

CreateZone(z, m, area, hours) ==
    /\ ~zone[z].exists
    /\ zone' = [zone EXCEPT ![z] =
           Flushed(@, [exists |-> TRUE, active |-> TRUE, multiplier |-> m,
                       area |-> area, hours |-> hours])]
    /\ UNCHANGED <<evening, entry, surgeCall, poll, notices, crossed>>

LoadZone(c, z, new) ==
    /\ zone[z].exists /\ surgeCall[c] = SurgeIdle
    /\ surgeCall' = [surgeCall EXCEPT ![c] =
           [op |-> "zone", row |-> z, copy |-> zone[z], new |-> new]]
    /\ UNCHANGED <<zone, evening, entry, poll, notices, crossed>>

UpdateZone(c, z, m, area) ==
    LoadZone(c, z, [zone[z] EXCEPT !.multiplier = m, !.area = area])
ActivateZone(c, z, active) == LoadZone(c, z, [zone[z] EXCEPT !.active = active])
DeleteZone(c, z)           == LoadZone(c, z, NoZone)

\* An update of a zone that is gone fails, as does a second deletion.
CommitZone(c) ==
    LET q == surgeCall[c]
    IN  /\ q.op = "zone"
        /\ zone' = [zone EXCEPT ![q.row] =
               CASE ~@.exists -> @
                 [] ~q.new.exists -> Flushed(@, NoZone)
                 [] OTHER -> Flushed(@, Merge(@, q.copy, q.new))]
        /\ surgeCall' = [surgeCall EXCEPT ![c] = SurgeIdle]
        /\ UNCHANGED <<evening, entry, poll, notices, crossed>>

TimePasses ==
    /\ evening' = ~evening
    /\ UNCHANGED <<zone, entry, surgeCall, poll, notices, crossed>>

-----------------------------------------------------------------------------
(* services/surge_waitlist.py.                                              *)

CreateEntry(e, g, max) ==
    /\ entry[e].status = "none"
    /\ entry' = [entry EXCEPT ![e] =
           Flushed(@, [status |-> "active", origin |-> g, max |-> max,
                       old |-> FALSE])]
    /\ UNCHANGED <<zone, evening, surgeCall, poll, notices, crossed>>

TtlPasses(e) ==
    /\ entry[e].status # "none" /\ ~entry[e].old
    /\ entry' = [entry EXCEPT ![e].old = TRUE]
    /\ UNCHANGED <<zone, evening, surgeCall, poll, notices, crossed>>

InPass == {e \in Entries : \E p \in Pollers : poll[p].phase # "idle"
                                              /\ e \in DOMAIN poll[p].rows}
Cancelling == {e \in Entries : \E c \in Requests :
                   surgeCall[c].op = "cancel" /\ surgeCall[c].row = e}

LoadCancelEntry(c, e) ==
    /\ entry[e].status = "active" /\ surgeCall[c] = SurgeIdle
    /\ surgeCall' = [surgeCall EXCEPT ![c] = [op |-> "cancel", row |-> e]]
    /\ crossed' = crossed \union ({e} \intersect InPass)
    /\ UNCHANGED <<zone, evening, entry, poll, notices>>

CommitCancelEntry(c) ==
    LET e == surgeCall[c].row
    IN  /\ surgeCall[c].op = "cancel"
        /\ entry' = [entry EXCEPT ![e] = Flushed(@, [@ EXCEPT !.status = "cancelled"])]
        /\ surgeCall' = [surgeCall EXCEPT ![c] = SurgeIdle]
        /\ UNCHANGED <<zone, evening, poll, notices, crossed>>

SurgeCallLost(c) ==
    /\ surgeCall[c] # SurgeIdle
    /\ surgeCall' = [surgeCall EXCEPT ![c] = SurgeIdle]
    /\ UNCHANGED <<zone, evening, entry, poll, notices, crossed>>

\* Mutant: entries whose riders were told are read again.
PolledAgain == {e \in Entries : entry[e].status \in {"active", "notified"}}

Polled == {e \in Entries : entry[e].status = "active"}

\* check_and_notify_waitlist: the active entries are read, and then the zones.
StartPass(p) ==
    /\ poll[p].phase = "idle"
    /\ poll' = [poll EXCEPT ![p] = [Unpolled EXCEPT !.phase = "entries",
           !.todo = Polled, !.rows = [e \in Polled |-> entry[e]],
           !.evening = evening, !.new = [e \in Polled |-> entry[e].status]]]
    /\ crossed' = crossed \union (Polled \intersect (InPass \union Cancelling))
    /\ UNCHANGED <<zone, evening, entry, surgeCall, notices>>

ReadZones(p) ==
    /\ poll[p].phase = "entries"
    /\ poll' = [poll EXCEPT ![p] = [@ EXCEPT !.phase = "zones", !.zones = zone]]
    /\ UNCHANGED <<zone, evening, entry, surgeCall, notices, crossed>>

\* What becomes of an entry: it is expired, or its rider told, or it stays.
Outcome(run, e) ==
    CASE run.rows[e].old -> "expired"
      [] ~run.rows[e].old /\ SurgeAt(run.zones, run.evening, run.rows[e].origin)
                                 <= run.rows[e].max -> "notified"
      [] OTHER -> run.rows[e].status

PassEntry(p, e) ==
    LET run == poll[p]
        status == Outcome(run, e)
    IN  /\ run.phase = "zones" /\ e \in run.todo
        /\ poll' = [poll EXCEPT ![p] = [run EXCEPT !.todo = @ \ {e},
                                                   !.new[e] = status]]
        /\ notices' = [notices EXCEPT ![e] =
               IF status = "notified" /\ @ < 2 THEN @ + 1 ELSE @]
        /\ UNCHANGED <<zone, evening, entry, surgeCall, crossed>>

\* One flush at the end writes what changed.
EndPass(p) ==
    LET run == poll[p]
    IN  /\ run.phase = "zones" /\ run.todo = {}
        /\ entry' = [e \in Entries |->
               IF e \in DOMAIN run.rows
               THEN Flushed(entry[e], Merge(entry[e], run.rows[e],
                                [run.rows[e] EXCEPT !.status = run.new[e]]))
               ELSE entry[e]]
        /\ poll' = [poll EXCEPT ![p] = Unpolled]
        /\ UNCHANGED <<zone, evening, surgeCall, notices, crossed>>

\* A notification's row that cannot be written fails the pass as well.
PassFails(p) ==
    /\ poll[p].phase # "idle"
    /\ poll' = [poll EXCEPT ![p] = Unpolled]
    /\ crossed' = crossed \union {e \in DOMAIN poll[p].new :
                                     poll[p].new[e] = "notified"}
    /\ UNCHANGED <<zone, evening, entry, surgeCall, notices>>

-----------------------------------------------------------------------------
(* services/demand_pricing.py.                                              *)

\* Mutant: the window of a counter is only set when it is new.
WindowOfFirst(g) == IF demand[g].ttl = 0 THEN Window ELSE demand[g].ttl

\* record_demand sets the whole window anew, whatever is left of it.
WindowAnew(g) == Window

RecordDemand(g) ==
    /\ demand[g].count < MaxDemand
    /\ demand' = [demand EXCEPT ![g] = [count |-> @.count + 1, ttl |-> WindowAnew(g)]]
    /\ asked' = [asked EXCEPT ![g] =
           [n \in DOMAIN @ \union {demand[g].count + 1} |->
               IF n \in DOMAIN @ THEN @[n] ELSE 0]]

\* A step of time: counters expire, requests age.
WindowStep ==
    /\ demand' = [g \in Cells |->
           IF demand[g].ttl <= 1 THEN [count |-> 0, ttl |-> 0]
           ELSE [demand[g] EXCEPT !.ttl = @ - 1]]
    /\ asked' = [g \in Cells |->
           [n \in {i \in DOMAIN asked[g] : asked[g][i] + 1 < Window} |->
               asked[g][n] + 1]]

-----------------------------------------------------------------------------
ZoneStep ==
    \/ \E c \in Requests : CommitZone(c) \/ CommitCancelEntry(c) \/ SurgeCallLost(c)
    \/ \E c \in Requests, z \in Zones :
           \/ \E m \in Multipliers, area \in SUBSET Cells \ {{}} :
                  UpdateZone(c, z, m, area)
           \/ \E active \in BOOLEAN : ActivateZone(c, z, active)
           \/ DeleteZone(c, z)
    \/ \E z \in Zones, m \in Multipliers, area \in SUBSET Cells \ {{}},
          hours \in {BOOLEAN, {TRUE}} : CreateZone(z, m, area, hours)
    \/ \E c \in Requests, e \in Entries : LoadCancelEntry(c, e)
    \/ \E e \in Entries, g \in Cells, max \in Multipliers : CreateEntry(e, g, max)
    \/ \E e \in Entries : TtlPasses(e)
    \/ \E p \in Pollers : \/ StartPass(p) \/ ReadZones(p) \/ EndPass(p)
                          \/ PassFails(p) \/ \E e \in Entries : PassEntry(p, e)
    \/ TimePasses

DemandStep == (\E g \in Cells : RecordDemand(g)) \/ WindowStep

SurgeStep == \/ ZoneStep /\ UNCHANGED demandVars
             \/ DemandStep /\ UNCHANGED zoneVars

SurgeSpec == SurgeInit /\ [][SurgeStep]_surgeVars

-----------------------------------------------------------------------------
\* A rider on the waitlist is told at most once, and exactly the entries that
\* say so were: none that was cancelled or that expired, and none again in a
\* later pass; except when a cancellation or another pass overlapped with the
\* pass, or it failed after telling the rider (check_and_notify_waitlist).
OneNotice ==
    \A e \in Entries \ crossed :
        /\ notices[e] <= 1
        /\ notices[e] = 1 <=> \/ entry[e].status = "notified"
                              \/ \E p \in Pollers : /\ poll[p].phase = "zones"
                                                    /\ e \in DOMAIN poll[p].new
                                                    /\ poll[p].new[e] = "notified"

\* A counter never misses a request of the last five minutes (though it may
\* count older ones: record_demand).
DemandCovers == \A g \in Cells : Cardinality(DOMAIN asked[g]) <= demand[g].count
=============================================================================
