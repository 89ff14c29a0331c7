------------------------- MODULE DispatchScheduler -------------------------
(***************************************************************************)
(* services/dispatch_scheduler.py: every API instance runs one loop that   *)
(* dispatches scheduled rides (dispatch_due_rides), then retries unmatched *)
(* ones (retry_unmatched_rides), for ever.                                 *)
(*                                                                         *)
(* Each phase loads all its rides in one query and works through them in   *)
(* one session: "todo" are the rides left, "copies" their rows as loaded,  *)
(* and "ride" the one it is busy with.  Recurring rides and reminders are  *)
(* left out.                                                               *)
(***************************************************************************)
EXTENDS MatchingEngine

CONSTANTS Schedulers,   \* the API instances
          NoRide

ASSUME SchedulerAssumption == NoRide \notin Rides

VARIABLE sched   \* sched[s]: the loop of API instance s

SchedType ==
    [phase : {"dispatch", "retry"},
     at : {"query", "next", "refresh", "find", "commit", "busy"},
     todo : SUBSET Rides, copies : [Rides -> Row],
     ride : Rides \union {NoRide}, found : Drivers \union {NoDriver}]

SchedTypeOK == sched \in [Schedulers -> SchedType]

\* A phase about to query its rides.
Phase(phase) ==
    [phase |-> phase, at |-> "query", todo |-> {},
     copies |-> [r \in Rides |-> NoRow], ride |-> NoRide, found |-> NoDriver]

SchedInit == sched = [s \in Schedulers |-> Phase("dispatch")]

Copy(s) == sched[s].copies[sched[s].ride]

Query(s, phase, wanted) ==
    /\ sched[s].phase = phase
    /\ sched[s].at = "query"
    /\ sched' = [sched EXCEPT ![s].at = "next", ![s].todo = wanted,
           ![s].copies = [r \in Rides |-> IF r \in wanted THEN rides[r]
                                                          ELSE NoRow]]
    /\ UNCHANGED <<tableVars, engineVars>>

\* The loop of s takes up ride r, any of those left.
Takes(s, phase, r) ==
    /\ sched[s].phase = phase
    /\ sched[s].at = "next"
    /\ r \in sched[s].todo

\* The loop of s is done with ride r.
Drop(s, r) ==
    sched' = [sched EXCEPT ![s].at = "next", ![s].todo = @ \ {r},
                           ![s].copies[r] = NoRow, ![s].ride = NoRide,
                           ![s].found = NoDriver]

Skip(s, r) == Drop(s, r) /\ UNCHANGED <<tableVars, engineVars>>

\* The session of s turns its copy of r into "new", commits, and goes on.
CommitCopy(s, r, new, next) ==
    /\ CommitRow(r, sched[s].copies[r], new)
    /\ sched' = [sched EXCEPT ![s].at = next, ![s].ride = r,
                              ![s].copies[r] = new]
    /\ UNCHANGED engineVars

-----------------------------------------------------------------------------
\* dispatch_due_rides
\* Mutant: the query does not ask for the status.
QueryEveryRide(s) == Query(s, "dispatch", {r \in Rides : rides[r] # NoRow})

QueryScheduled(s) == Query(s, "dispatch", Rows("scheduled"))

\* scheduled_for is further away than schedule_dispatch_before_minutes.
SkipNotDue(s, r) == Takes(s, "dispatch", r) /\ Skip(s, r)

\* Mutant: the new status is not written.
DispatchNothing(s, r) ==
    /\ Takes(s, "dispatch", r)
    /\ CommitCopy(s, r, sched[s].copies[r], "refresh")

DispatchRide(s, r) ==
    /\ Takes(s, "dispatch", r)
    /\ CommitCopy(s, r, [sched[s].copies[r] EXCEPT !.status = "requested"],
                  "refresh")

RefreshRide(s) ==
    /\ sched[s].at = "refresh"
    /\ sched' = [sched EXCEPT ![s].at = "find",
                     ![s].copies[sched[s].ride] = rides[sched[s].ride]]
    /\ UNCHANGED <<tableVars, engineVars>>

-----------------------------------------------------------------------------
\* retry_unmatched_rides
\* Mutant: the query leaves out the rides that have used up their retries.
QueryUnexhausted(s) ==
    Query(s, "retry", {r \in Rows("requested") : rides[r].driver = NoDriver
                                                 /\ rides[r].retries < MaxRetries})

QueryUnmatched(s) ==
    Query(s, "retry", {r \in Rows("requested") : rides[r].driver = NoDriver})

\* Mutants: one retry too few, one too many.
ExhaustedEarly(s, r) == sched[s].copies[r].retries + 1 >= MaxRetries
ExhaustedLate(s, r) == sched[s].copies[r].retries > MaxRetries

Exhausted(s, r) == sched[s].copies[r].retries >= MaxRetries

CancelExhausted(s, r) ==
    /\ Takes(s, "retry", r)
    /\ Exhausted(s, r)
    /\ CommitRow(r, sched[s].copies[r], Cancelled(sched[s].copies[r]))
    /\ Drop(s, r)
    /\ UNCHANGED engineVars

\* The backoff since the last attempt has not elapsed.
SkipBackoff(s, r) ==
    /\ Takes(s, "retry", r)
    /\ ~Exhausted(s, r)
    /\ Skip(s, r)

CountRetry(s, r) ==
    /\ Takes(s, "retry", r)
    /\ ~Exhausted(s, r)
    /\ CommitCopy(s, r, [sched[s].copies[r] EXCEPT !.retries = @ + 1], "find")

-----------------------------------------------------------------------------
\* Matching, which both phases do alike.
\* Only the retry loop checks the status again, and it checks its own copy.
StillRequested(s) == sched[s].phase = "retry" => Copy(s).status = "requested"

ScheduledFind(s) ==
    /\ sched[s].at = "find"
    /\ StillRequested(s)
    /\ \E d \in SchedulerCandidates :
           sched' = [sched EXCEPT ![s].at = "commit", ![s].found = d]
    /\ UNCHANGED <<tableVars, engineVars>>

ScheduledMatch(s) ==
    /\ sched[s].at = "commit"
    /\ CommitCopy(s, sched[s].ride, Matched(Copy(s), sched[s].found), "busy")

ScheduledBusy(s) ==
    /\ sched[s].at = "busy"
    /\ SetDriverBusy(sched[s].found)
    /\ Drop(s, sched[s].ride)
    /\ UNCHANGED tableVars

\* Nobody is found or matching raises: the loop goes on with the next ride.
ScheduledFails(s) ==
    /\ sched[s].at \in {"find", "commit", "busy"}
    /\ Skip(s, sched[s].ride)

EndPhase(s, phase) ==
    /\ sched' = [sched EXCEPT ![s] = Phase(phase)]
    /\ UNCHANGED <<tableVars, engineVars>>

NextPhase(s) ==
    /\ sched[s].at = "next"
    /\ sched[s].todo = {}
    /\ EndPhase(s, IF sched[s].phase = "dispatch" THEN "retry" ELSE "dispatch")

\* A phase raises and _scheduler_loop goes on with the next one, or the API
\* instance restarts.
PhaseAborts(s) ==
    /\ sched[s].at # "query"
    /\ \E phase \in {"dispatch", "retry"} : EndPhase(s, phase)

TakeRide(s, r) ==
    \/ SkipNotDue(s, r)
    \/ DispatchRide(s, r)
    \/ CancelExhausted(s, r)
    \/ SkipBackoff(s, r)
    \/ CountRetry(s, r)

SchedProgress(s) ==
    \/ QueryScheduled(s)
    \/ QueryUnmatched(s)
    \/ \E r \in Rides : TakeRide(s, r)
    \/ RefreshRide(s)
    \/ ScheduledFind(s)
    \/ ScheduledMatch(s)
    \/ ScheduledBusy(s)
    \/ ScheduledFails(s)
    \/ NextPhase(s)

SchedStep(s) == SchedProgress(s) \/ PhaseAborts(s)
=============================================================================
