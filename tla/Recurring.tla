----------------------------- MODULE Recurring -----------------------------
(***************************************************************************)
(* Recurring and scheduled rides of one rider: services/recurring_rides.py,*)
(* services/scheduling.py, schedule_ride of api/v1/rides.py and the parts  *)
(* of the dispatch scheduler that generate, remind of and dispatch them.   *)
(*                                                                         *)
(* Time is counted in steps, DayLength of them to a day in UTC.  A template*)
(* has a pickup time in a zone that is "offset" steps ahead of UTC.        *)
(***************************************************************************)
EXTENDS Sessions, Integers, SequencesExt

CONSTANTS
    Templates,     \* the rider's recurring rides
    Schedulers,    \* processes that run the dispatch scheduler
    DayLength,     \* steps in a day, and GENERATION_HORIZON_HOURS
    WeekLength,    \* days in a week
    Offsets,       \* the time zones
    Lead,          \* schedule_dispatch_before_minutes
    MaxTemplates,  \* MAX_RECURRING_RIDES_PER_USER
    MaxTime,       \* bound on the clock
    MaxBookings    \* bound on the rides that are booked

ASSUME RecurringAssumption ==
    /\ DayLength \in Nat \ {0} /\ WeekLength \in Nat \ {0}
    /\ Lead \in Nat /\ MaxTime \in Nat /\ MaxBookings \in Nat
    /\ Offsets \subseteq -DayLength .. DayLength

VARIABLES
    clock,         \* the time
    template,      \* template[t]: the row of recurring_rides
    booking,       \* the rides, in the order of their insertion
    recCall,       \* recCall[c]: a request of the rider
    generating,    \* generating[g]: a run of generate_rides_from_recurring
    ran,           \* whether a run ended since the clock or a template changed
    since,         \* history: when t was last created, changed or resumed
    edited,        \* history: the templates that were ever updated
    collided       \* history: whether checks and inserts of rides overlapped

recurringVars == <<clock, template, booking, recCall, generating, ran, since,
                   edited, collided>>

Never == -1
Template == [status : {"none", "active", "paused", "cancelled"},
             days : SUBSET (0 .. WeekLength - 1), pickup : 0 .. DayLength - 1,
             offset : Offsets, last : {Never} \union (0 .. MaxTime + DayLength)]

\* from: the template it was generated from, {} if the rider scheduled it.
\* reminded: the reminders that were sent.
Booking == [at : 0 .. MaxTime + DayLength, from : SUBSET Templates,
            status : {"scheduled", "requested", "cancelled"}, fare : BOOLEAN,
            reminded : SUBSET {"hour", "quarter"}]

RecIdle == [op |-> "idle"]
Resting == [busy |-> FALSE, copy |-> <<>>, todo |-> {}, fresh |-> {}, last |-> <<>>]

RecurringTypeOK ==
    /\ clock \in 0 .. MaxTime
    /\ template \in [Templates -> Template]
    /\ \A i \in DOMAIN booking : booking[i] \in Booking
    /\ Len(booking) <= MaxBookings
    /\ edited \subseteq Templates

RecurringInit ==
    /\ clock = 0
    /\ \E offset \in Offsets :
           template = [t \in Templates |->
               [status |-> "none", days |-> {}, pickup |-> 0, offset |-> offset,
                last |-> Never]]
    /\ booking = <<>>
    /\ recCall = [c \in Requests |-> RecIdle]
    /\ generating = [g \in Schedulers |-> Resting]
    /\ ran = FALSE
    /\ since = [t \in Templates |-> 0]
    /\ edited = {}
    /\ collided = FALSE

-----------------------------------------------------------------------------
(* services/scheduling.py.  Rides overlap that are less than a step apart.  *)

Overlaps(at, times) == at \in times

ScheduledTimes == {booking[i].at : i \in {j \in DOMAIN booking :
                                             booking[j].status = "scheduled"}}

ReadyForDispatch(at) == clock >= at - Lead

\* Rides are being checked for by a request or by a run of the generator.
Booking_ == \/ \E c \in Requests : recCall[c].op = "book"
            \/ \E g \in Schedulers : generating[g].busy

-----------------------------------------------------------------------------
(* The rider's requests.                                                    *)

Start(c, call) ==
    /\ recCall[c] = RecIdle
    /\ recCall' = [recCall EXCEPT ![c] = call]
    /\ UNCHANGED <<clock, template, booking, generating, ran, since, edited>>

Living == {t \in Templates : template[t].status \in {"active", "paused"}}

MayCreate == Cardinality(Living) < MaxTemplates

Load(c, op, t, new) ==
    Start(c, [op |-> op, template |-> t, copy |-> template[t], new |-> new])
    /\ UNCHANGED collided

LoadCreate(c, t, days, pickup) ==
    /\ template[t].status = "none" /\ MayCreate
    /\ \A x \in Requests : recCall[x].op = "create" => recCall[x].template # t
    /\ Load(c, "create", t, [template[t] EXCEPT !.status = "active",
                                 !.days = days, !.pickup = pickup])

\* update_recurring_ride: last_generated_date is reset, whatever is updated.
LoadTemplateUpdate(c, t, days, pickup) ==
    /\ template[t].status \in {"active", "paused"}
    /\ Load(c, "update", t, [template[t] EXCEPT !.days = days, !.pickup = pickup,
                                 !.last = Never])

LoadPause(c, t)  == template[t].status = "active"
                    /\ Load(c, "pause", t, [template[t] EXCEPT !.status = "paused"])
LoadResume(c, t) == template[t].status = "paused"
                    /\ Load(c, "resume", t, [template[t] EXCEPT !.status = "active"])
LoadCancel(c, t) == template[t].status \in {"active", "paused"}
                    /\ Load(c, "cancel", t, [template[t] EXCEPT !.status = "cancelled"])

CommitTemplate(c) ==
    LET q == recCall[c]
    IN  /\ q.op \in {"create", "update", "pause", "resume", "cancel"}
        /\ template' = [template EXCEPT ![q.template] = Merge(@, q.copy, q.new)]
        /\ recCall' = [recCall EXCEPT ![c] = RecIdle]
        /\ since' = [since EXCEPT ![q.template] = clock]
        /\ edited' = IF q.op = "update" THEN edited \union {q.template} ELSE edited
        /\ ran' = FALSE
        /\ UNCHANGED <<clock, booking, generating, collided>>

\* schedule_ride: the time is checked, and the ride committed later.
LoadSchedule(c, at) ==
    /\ at > clock
    /\ ~Overlaps(at, ScheduledTimes)
    /\ Start(c, [op |-> "book", at |-> at])
    /\ collided' = (collided \/ Booking_)

CommitSchedule(c) ==
    /\ recCall[c].op = "book" /\ Len(booking) < MaxBookings
    /\ booking' = Append(booking, [at |-> recCall[c].at, from |-> {}, fare |-> TRUE,
                                   status |-> "scheduled", reminded |-> {}])
    /\ recCall' = [recCall EXCEPT ![c] = RecIdle]
    /\ UNCHANGED <<clock, template, generating, ran, since, edited, collided>>

RecCallLost(c) ==
    /\ recCall[c] # RecIdle
    /\ recCall' = [recCall EXCEPT ![c] = RecIdle]
    /\ UNCHANGED <<clock, template, booking, generating, ran, since, edited,
                   collided>>

SetBooking(i, row) ==
    /\ booking' = [booking EXCEPT ![i] = row]
    /\ UNCHANGED <<clock, template, recCall, generating, ran, since, edited,
                   collided>>

CancelBooking(i) ==
    /\ booking[i].status = "scheduled"
    /\ SetBooking(i, [booking[i] EXCEPT !.status = "cancelled"])

-----------------------------------------------------------------------------
(* generate_rides_from_recurring.                                           *)

\* The instant of the pickup on local day n.
Instant(row, n) == n * DayLength + row.pickup - row.offset

\* Mutant: the search goes on with the day that was generated last.
FromDateAgain(row) == IF row.last = Never THEN clock \div DayLength
                      ELSE row.last \div DayLength

\* The day after the last one generated, or today: the days are those of UTC.
FromDate(row) == IF row.last = Never THEN clock \div DayLength
                 ELSE row.last \div DayLength + 1

InHorizon(at) == clock < at /\ at <= clock + DayLength

\* _next_occurrence_dates: three local days from that date on.
Occurrences(row) ==
    {at \in {Instant(row, n) : n \in {m \in FromDate(row) .. FromDate(row) + 2 :
                                         m % WeekLength \in row.days}} :
        InHorizon(at)}

StartGenerating(g) ==
    /\ ~generating[g].busy
    /\ generating' = [generating EXCEPT ![g] =
           [busy |-> TRUE, copy |-> template, fresh |-> {},
            todo |-> {t \in Templates : template[t].status = "active"},
            last |-> [t \in Templates |-> template[t].last]]]
    /\ collided' = (collided \/ Booking_)
    /\ UNCHANGED <<clock, template, booking, recCall, ran, since, edited>>

Latest(times, last) ==
    CHOOSE at \in times \union {last} : \A b \in times \union {last} : b <= at

\* One template: what overlaps is skipped.
GenerateFrom(g, t) ==
    LET run == generating[g]
        taken == ScheduledTimes \union {x.at : x \in run.fresh}
        new == {at \in Occurrences(run.copy[t]) : ~Overlaps(at, taken)}
    IN  /\ run.busy /\ t \in run.todo
        /\ generating' = [generating EXCEPT ![g] =
               [run EXCEPT !.todo = @ \ {t},
                           !.fresh = @ \union {[at |-> at, from |-> t] : at \in new},
                           !.last[t] = Latest(new, @)]]
        /\ UNCHANGED <<clock, template, booking, recCall, ran, since, edited,
                       collided>>

\* The fare "will be calculated at dispatch time".
Generated(x) == [at |-> x.at, from |-> {x.from}, fare |-> FALSE,
                 status |-> "scheduled", reminded |-> {}]

EndGenerating(g) ==
    LET run == generating[g]
    IN  /\ run.busy /\ run.todo = {}
        /\ Len(booking) + Cardinality(run.fresh) <= MaxBookings
        /\ booking' = booking \o SetToSeq({Generated(x) : x \in run.fresh})
        /\ template' = [t \in Templates |->
               Merge(template[t], run.copy[t],
                     [run.copy[t] EXCEPT !.last = run.last[t]])]
        /\ generating' = [generating EXCEPT ![g] = Resting]
        /\ ran' = \A t \in Templates : [run.copy[t] EXCEPT !.last = Never]
                                         = [template[t] EXCEPT !.last = Never]
        /\ UNCHANGED <<clock, recCall, since, edited, collided>>

GeneratingFails(g) ==
    /\ generating[g].busy
    /\ generating' = [generating EXCEPT ![g] = Resting]
    /\ UNCHANGED <<clock, template, booking, recCall, ran, since, edited, collided>>

-----------------------------------------------------------------------------
(* send_scheduled_ride_reminders and dispatch_due_rides, ride by ride.      *)

\* An hour ahead is one step, a quarter of an hour the same step.
Reminder(at) == CASE at = clock + 1 -> "hour" [] at = clock -> "quarter"
                  [] OTHER -> "none"

Remind(i) ==
    /\ booking[i].status = "scheduled"
    /\ Reminder(booking[i].at) \in {"hour", "quarter"} \ booking[i].reminded
    /\ SetBooking(i, [booking[i] EXCEPT
                          !.reminded = @ \union {Reminder(booking[i].at)}])

\* The ride keeps the fare it has.
DispatchDue(i) ==
    /\ booking[i].status = "scheduled" /\ ReadyForDispatch(booking[i].at)
    /\ SetBooking(i, [booking[i] EXCEPT !.status = "requested"])

\* The scheduler runs many times in a step, and requests are short: the clock
\* waits for them.
Tick ==
    /\ clock < MaxTime /\ ran
    /\ \A c \in Requests : recCall[c] = RecIdle
    /\ \A g \in Schedulers : ~generating[g].busy
    /\ clock' = clock + 1
    /\ ran' = FALSE
    /\ UNCHANGED <<template, booking, recCall, generating, since, edited, collided>>

RecurringRequest(c) ==
    \E t \in Templates :
        \/ \E days \in SUBSET (0 .. WeekLength - 1) \ {{}}, pickup \in 0 .. DayLength - 1 :
               LoadCreate(c, t, days, pickup) \/ LoadTemplateUpdate(c, t, days, pickup)
        \/ LoadPause(c, t) \/ LoadResume(c, t) \/ LoadCancel(c, t)

SchedulerLoop(g) ==
    \/ StartGenerating(g) \/ EndGenerating(g) \/ GeneratingFails(g)
    \/ \E t \in Templates : GenerateFrom(g, t)

RecurringStep ==
    \/ \E c \in Requests :
           \/ RecurringRequest(c) \/ CommitTemplate(c) \/ RecCallLost(c)
           \/ \E at \in 1 .. MaxTime : LoadSchedule(c, at)
           \/ CommitSchedule(c)
    \/ \E g \in Schedulers : SchedulerLoop(g)
    \/ \E i \in DOMAIN booking : CancelBooking(i) \/ Remind(i) \/ DispatchDue(i)
    \/ Tick

RecurringSpec == RecurringInit /\ [][RecurringStep]_recurringVars

-----------------------------------------------------------------------------
\* The templates that are kept to: in UTC, and never updated.
Plain(t) == t \notin edited /\ template[t].offset = 0

GeneratedOnce ==
    \A i, j \in DOMAIN booking :
        (/\ booking[i].from # {} /\ booking[i].from = booking[j].from
         /\ booking[i].at = booking[j].at
         /\ \A t \in booking[i].from : Plain(t)
         /\ ~collided)
            => i = j

Booked(at) == \E i \in DOMAIN booking : booking[i].at = at

\* Day n has an occurrence that has come since the template was last changed.
HasCome(t, n) ==
    LET at == Instant(template[t], n)
    IN  n % WeekLength \in template[t].days /\ since[t] < at /\ at <= clock

\* The generator looks no further than three days after the last one generated.
InReach(t, n) ==
    template[t].last = Never \/ n <= template[t].last \div DayLength + 3

ReachedAreBooked ==
    \A t \in Templates : template[t].status = "active" /\ Plain(t) =>
        \A n \in 0 .. MaxTime :
            HasCome(t, n) /\ InReach(t, n) => Booked(Instant(template[t], n))

\* "Tracking: the date up to which rides have been generated (prevents
\* duplicate generation)": of a template in UTC that is not updated no
\* occurrence is generated twice, although the rider cancels generated rides
\* and the scheduler dispatches them before their time, as long as no two runs
\* or bookings overlap; and none is missed that is at most three days after the
\* last one generated: when its time comes, some ride of the rider was booked
\* for it (the generator skips what overlaps).
OccurrencesBooked == GeneratedOnce /\ ReachedAreBooked

=============================================================================
