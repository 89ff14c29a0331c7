# A verification project for the OpenRide back end

OpenRide is a cooperative ride-sharing platform: a FastAPI back end
(`src/backend/app`) over PostgreSQL and Redis, two Flutter apps and a React
dashboard. This directory models the back end in TLA+, checks the models with
TLC on small instances and proves the main results with TLAPS for all
instances.

The back end is one asyncio process per API instance. By default there is one; two or
more run when the deployment is scaled (`src/docs/deployment.md:338`) and while a
rolling restart replaces one (`:367`). Handlers run concurrently: each `await` lets the
others run, every handler has a database session of its own, and no handler ever
takes a row lock (`SELECT ... FOR UPDATE` does not occur). So the question this
project asks again and again is the same: *a handler decides on what it read; what
happens to the decision when it is written?*

## 1. Inventory

### Components and their state

| Component | Code | State | Operations |
|---|---|---|---|
| Ride life cycle | `models/ride.py` | table `rides`: status, driver_id, matched_at, started_at, completed_at, cancelled_at, dispatch_retry_count | written by the three components below |
| Rides API | `api/v1/rides.py` | one session per request; `driver_profiles.total_trips` | request, schedule, accept, en-route, arrived, start, complete, cancel, cancel scheduled |
| Matching task | `rides.py`, `_match_ride_background` | one session per requested ride | load, find, commit the match, mark busy |
| Matching engine | `services/matching.py` | Redis: a geo set, a status key per driver with a time to live | report location, remove, busy, available, find candidates |
| Dispatch scheduler | `services/dispatch_scheduler.py` | one loop per API instance; a session per phase | dispatch due rides, retry unmatched rides, remind, generate recurring rides |
| Cancellation | `services/cancellation.py`, `services/payments.py` | `payments` row of type CANCELLATION_FEE, Stripe intents | evaluate, make the intent |
| Payments, tips | `services/payments.py`, `services/tips.py` | `payments`, `tip_records`, Stripe | fare intent, webhooks, tip, refund |
| Payouts | `services/payouts.py` | `driver_payouts`, `driver_bank_accounts`, Stripe transfers | connect, settle, create, process, retry |
| Fare splits | `services/fare_splitting.py` | `fare_splits` | create, accept, decline, cancel, pay, expire |
| Pools | `services/pool_matching.py`, `api/v1/pools.py` | `ride_pools`, `pool_legs` | request, join, cancel, pick up, drop off |
| WebSockets | `api/websocket.py` | ConnectionManager's dictionaries, keyed by user id | connect, ping, prune, send, disconnect |
| Availability | `services/driver_availability.py`, `driver_destination.py` | online flag, break, heartbeat, weekly slots, destination filter | toggle, break, beat, slots, destination; two filters that read them |
| Driver approval | `driver_onboarding.py`, `background_checks.py`, `verification.py`, `api/v1/drivers.py`, `api/v1/admin.py` | `driver_profiles.is_approved` and `is_online`, application, check, verification documents | submit, review, webhook, override, activate, suspend, reactivate, go online |
| Documents | `driver_documents.py`, `driver_insurance.py`, `vehicle_inspection.py` | one record per upload | submit, edit, attach, review, expire |
| Promo codes | `services/promos.py` | `promo_codes.total_uses`, redemptions, referral codes | create, edit, validate, redeem |
| Recurring rides | `services/recurring_rides.py`, `scheduling.py` | templates, last_generated_date, booked rides | create, update, pause, generate, book, remind |
| Surge | `surge_zones.py`, `surge_waitlist.py`, `demand_pricing.py` | zones, waitlist entries; Redis: a demand counter per cell | edit a zone, wait, cancel, notify; record demand |
| Case workflows | `disputes.py`, `complaints.py`, `lost_found.py`, `safety.py` | a status per case, its outcome and partner | file, review, match, resolve |
| Waypoints | `services/waypoints.py` | stops of a ride: order and status | add, edit, remove, arrive, depart, skip |
| Ratings | `rides.py`, `ratings.py`, `feedback.py`, `rider_ratings.py`, `tips.py` | the ride's ratings, the profile's average, feedback, tip records | rate, submit feedback, rate a rider, tip |
| Notifications | `notifications.py`, `notification_*.py`, `device_tokens.py` | opt-outs, devices, the log, switches | dispatch, set and reset opt-outs, register a device, read |
| The rest | chat, audit, incentives, analytics, pricing, geocoding, receipts, auth, rate limiter | rows appended or edited by one owner | |

`PROJECT.json` lists every component with its sources and whether it is modelled.

### How they interact

* *Shared rows.* A ride's row is written by handlers, by its matching task and by
  every scheduler. Sessions are made with `expire_on_commit=False`
  (`db/database.py`), so a copy stays as it was loaded until `refresh`, and an
  UPDATE writes the columns that changed in the copy.
* *Redis.* Handlers and drivers' reports write the status keys; searches read them.
  Nothing ties a key to the driver's ride.
* *Calls and callbacks.* `request_ride` hands the ride to a background task that runs
  after the response; Stripe and the check provider call webhooks, late, twice or
  out of order; a socket's disconnect removes the driver from Redis.
* *Sessions of services.* `get_db` closes a session and never commits it
  (`db/database.py:14`). Most handlers commit; a dozen services only flush and leave
  the commit to a caller that does not do it (section 6).
* *Failure.* A handler, task or phase may raise at any await and an instance may
  restart; what was committed stays, the rest is forgotten.

### What is hard, and what would make each component correct

| Component | Hard behaviour | Correct when |
|---|---|---|
| Ride life cycle | overlapping writes of one row from stale copies | every ride follows `RideLifecycle`; a status always has its driver and timestamps; completed is final |
| Rides API | double taps, retries, failures between commit and effects | trips are counted once, a fee is asked for once and only after a match |
| Matching | keys that expire or are overwritten | a driver on a ride is not offered another, an available one is found |
| Scheduler | two instances, stale re-checks, aborted phases | retries are counted, rides are given up when exhausted and not before, nobody waits for ever |
| Payments | late and duplicate webhooks, refund and tip races | one intent per purpose; refunded stays refunded |
| Payouts | overlap check, crash in PROCESSING | no money transferred twice, no payout stranded |
| Fare splits | one active split, a share changing after it was paid | shares sum to the fare |
| Pools | seats counted, then taken | never more riders than seats |
| WebSockets | reconnection against the old socket's disconnect | no registry keeps a user who is gone |
| Availability | a late heartbeat, break or request writes an old copy | a driver who went offline stays so; both filters agree |
| Approval | five workflows write `is_approved`; webhooks come twice or late | an approval is earned or given; nobody unapproved is online; a suspended driver stays so |
| Documents | reviews after reviews, edits during reviews | one approved record of a kind, which no edit changes |
| Promo codes | two commits, a counter read early | counted exactly, never over its limits |
| Recurring rides | dates against instants, a tracking date, cancelled and dispatched rides | each occurrence is booked, and once |
| Surge | a pass writes at its end what it told at its beginning; counters that expire | a rider is told once; no recent request is missed |
| Cases | closed by one admin, reviewed by another | closed is closed; one open dispute per user and ride |
| Waypoints | stops move up while others are added or reached | numbered 1 to n |
| Ratings | rides rated anew, averages computed from two sessions | the average is that of the ratings |
| Notifications | preferences and devices change while channels are tried | nothing on a channel that was turned off; a device belongs to its last owner |

The hazards, each at its line and with the properties that guard against it, are in
`PROJECT.json`.

## 2. Plan

Most important behaviour first; the modules of steps 1 to 9 exist.

1. `RideLifecycle`: the abstract specification, what a ride promises.
2. `RideTable`, `MatchingEngine`: the shared state and its rules.
3. `RideHandlers`, `MatchingTask`, `DispatchScheduler`: the three actors, over 2.
4. `RideSystem`: the composition; `RideInductive`, `RideSystemProofs`,
   `RideLoopProofs`: proofs; `RideRaces`, `RideRaceProofs`: what overlaps do
   to the promise of 1; `MCRideSystem`, `MCRideRaces`: instances for TLC.
5. `StripeIntents`, `Payments`: intents, webhooks, tips, refunds, and
   `FareSplits`, whose shares are paid through the same Stripe and webhook;
   `RideMoney` composes them and states their properties.
6. `Payouts`: accounts, payouts, transfers and retries; `MoneySystem`, the
   composition of 5 and 6; `MoneyInductive`, `Sums` and `MoneyProofs`: proofs;
   `MCRideMoney`: instances for TLC.
7. `Sessions`: what a request's copy and a flush without a commit mean, for
   everything that follows.
8. The drivers: `Connections` (over `MatchingEngine`), `Availability`,
   `Documents`, and `Approval` over the two before; `DriverSystem`, their
   composition; `MCDrivers`: instances.
9. The services: `Promos`, `Recurring`, `Surge`, `Cases`, `Stops`, `Ratings`,
   `Notices`; `ServiceSystem`, their composition; `MCServices`: instances.
   `DocumentsProofs`, `ApprovalProofs` and `ServicesProofs` prove what 8 and 9 promise.

What is left: the price of a ride, whose arithmetic is on floats; chat. Pools
were planned and dropped (section 6).

Theorems, in this order: types and consistent histories of `RideSystem`; that
no milestone is lost and that a fee follows a match; the invariants of payments
and of payouts; that a requested ride has no driver, its retries count up and it is
given up only when they are exhausted, when there is one scheduler; one approved
record; closed cases; that every ride about which no session was overtaken lives by
`RideLifecycle`, without any lock; availability and approval; promo codes, stops, ratings,
surge, notifications and recurring rides; that shares cover the fare; the types of
the three other compositions. All of these are done, and nothing that a
passing run checks is left to prove but liveness (end of section 5).

## 3. Modules and code

| Module | Models | Correspondence |
|---|---|---|
| `RideLifecycle` | the promise | one action per edge of the life cycle of `RideStatus` |
| `RideTable` | table `rides`, sessions | `rides[r]` is the row; `Flush(row, copy, new)` is SQLAlchemy's UPDATE of changed columns; `locked` are rows with an uncommitted UPDATE |
| `MatchingEngine` | `services/matching.py` | `located` is the geo set, `redis[d]` the status key; `Candidates` is whom `find_candidates` may return |
| `RideHandlers` | `api/v1/rides.py`, cancellation fee | `request[q]` is a handler between two awaits, with its copy; `LoadX` is the SELECT and the guards, `CommitX` the assignments and the COMMIT |
| `MatchingTask` | `_match_ride_background` | `task[r]` |
| `DispatchScheduler` | `services/dispatch_scheduler.py` | `sched[s]` is the loop of instance `s`: phase, rides left, copies of all of them |
| `RideSystem` | all of it at once | every property is stated here |
| `RideInductive` | | the inductive invariants |
| `RideRaces` | all of it, watched | `overtaken` and `affected` record where a session came to hold an outdated copy that it may yet write back; no step is constrained by them |
| `RideSystemProofs`, `RideLoopProofs`, `RideRaceProofs` | | theorems and proofs |
| `MCRideSystem`, `MCRideRaces` | | constants and symmetry for TLC; `SteadySpec` leaves the drivers' presence fixed |
| `StripeIntents` | Stripe and its client, as `payments.py` uses them (external) | `intent[i]` is the state of a PaymentIntent: made, given to a client, declined, paid, refunded |
| `Payments` | `services/payments.py`, `api/v1/payments.py` | `pay[r]` is the row of `payments`; `call[c]` is a request between two steps (load, Stripe, commit), `hook[h]` a delivery of an event, `acked` the successes whose delivery was answered 200 |
| `FareSplits` | `services/fare_splitting.py` | `split[r][g][u]` is the row of participant `u` in the `g`-th split of ride `r`; `splitCall[c]` a request about one |
| `RideMoney` | both, with one Stripe and one webhook; `calculate_settlement` | states the properties of payments and splits |
| `Payouts` | `services/payouts.py`, `api/v1/payouts.py` | `account` and `payout[p]` are rows, `admin[c]` is a call; `transfers` and `lost` count what Stripe did, which the program cannot see; `doubled` are payouts that two calls were about at once |
| `MoneySystem` | `RideMoney` and `Payouts` | each steps while the other's variables stay |
| `MoneyInductive`, `MoneyProofs` | | inductive invariants, theorems and proofs |
| `Sums` | | lemmas on sums over finite sets |
| `MCRideMoney` | | constants for TLC and the choice of a *side* (section 4) |
| `Sessions` | `db/database.py`, SQLAlchemy | `Merge` is the UPDATE of the columns a request changed in its copy; `Flushed` what is left of a write that nobody commits |
| `Connections` | `api/websocket.py` | `registered` are the three dictionaries, `link[s]` a socket and its endpoint, `beat` the ping loop between two awaits, `awaiting` the marks it left |
| `Availability` | `driver_availability.py`, `driver_destination.py`, the filter of `matching.py` | `status[d]`, `slots[d]`, `heading[d]` are the rows; `Eligible` and `AvailableNow` the two ways to read them |
| `Documents` | the four review workflows | `paper[p]` is a record of a kind, an owner and a number; `docCall[c]` a request with the copies of all records it will write |
| `Approval` | `verification.py`, `background_checks.py`, `driver_onboarding.py`, `drivers.py`, `admin.py` | `driver[d]` holds the columns about an approval, of three tables; `vdoc`, `check` are rows; the onboarding checklist reads `paper`, and `insured` stands for the profile's fields that it calls `profile_complete` |
| `Promos` | `promos.py`, its part of `request_ride`, referrals of `register` | `promo[p]` is the row, `redeemed` the redemptions; a request has two commits and reads `total_uses` anew between them (`ReadUses`) |
| `Recurring` | `recurring_rides.py`, `scheduling.py`, `schedule_ride`, parts of the scheduler | `template[t]`, `booking` in order of insertion, `generating[g]` a run in one API instance |
| `Surge` | `surge_zones.py`, `surge_waitlist.py`, `demand_pricing.py` | `zone`, `entry` are rows, `poll[p]` a pass over the waitlist, `demand[g]` the Redis key with its time to live |
| `Cases` | `disputes.py`, `complaints.py`, `lost_found.py`, `safety.py` | `case[k]` is the row of a kind and an id; `caseCall[c]` a request with its copies |
| `Stops` | `services/waypoints.py` | `stop[i]` is the row; a removal writes the stops behind it |
| `Ratings` | `rate_ride`, `ratings.py`, `feedback.py`, `rider_ratings.py`, `tips.py` | `given[r]` are the ride's columns, `average` the profile's; a flushed rating locks its ride |
| `Notices` | `notifications.py`, events, templates, preferences, device tokens | `notice[n]` is a dispatch between two channels, `noted[k]` a row of preferences or devices |
| `DriverSystem` | `Connections` to `Approval` | the composition: each part steps while the variables of the others stay |
| `ServiceSystem` | `Promos` to `Notices` | the same |
| `MCDrivers`, `MCServices` | | constants for TLC, sides, and the requests each side makes |
| `DocumentsProofs`, `ApprovalProofs`, `ServicesProofs` | | inductive invariants, theorems and proofs |

What is abstracted: a timestamp is set or not; time is nondeterminism (a scheduled
ride may be due or not, a backoff elapsed or not, a grace period over or not); the
filters on drivers that read the database, and distance, may drop any candidate;
fares, waypoints, promo codes and notifications are left out of the ride's
handlers. Two facts about libraries are constants: `DecodeResponses`, whether the
Redis client answers with `str` (it does: `get_redis` passes
`decode_responses=True`), and `GeoPointEncodes`,
whether the client accepts a geometry where the scheduler passes
`ride.pickup_location` for both coordinates (Redis does not). With the values of
the deployed program no search finds anyone, and a ride gets its driver by accepting
alone; `given_up` uses these values. Runs about what happens after a match
use `DecodeResponses = FALSE`, `GeoPointEncodes = TRUE`, which is the behaviour the
tests' mocks have. The theorems hold for both values of each. With the deployed value a driver marked available is filtered out
of every search: `find_candidates` compares the answer with bytes.

In the drivers' and the services' modules a date is a small number, a place a model
value or a cell, an amount or a text is left out, and a request is two steps:
it loads its rows and decides, and later commits the columns it changed; it
may die before that. `GetDbCommits` says whether a handler that only flushes is
committed by `get_db`. The tests share one session, where it looks so; deployed it is
not. The passing runs use `TRUE`, to ask what these services would do
if their writes were kept; `lost_writes` and `unchecked_drives` use `FALSE`.

*History variables.* Most of these services decide on copies, so two requests
about the same rows can break nearly every promise. The properties say what holds
apart from that, and name the exception exactly: `overlapped`, `apprOverlap`,
`collided`, `tangled`, `jostled`, `blurred`, `crossed`, `swapped` and `muddled`
collect the owners, cases, entries, devices or codes whose requests overlapped
(or, for promo codes, died between two commits). Of the rides there are `overtaken` and
`affected`: a ride is overtaken once a session that has yet to write it holds a copy
that is no longer its row, and a driver is affected by driving such a ride or by a
completion that holds an outdated copy of the profile. Of the payouts there is
`doubled`. They are written by the
model only and read by no guard of a module.

In the payment modules an amount is a small number where a property adds amounts
up, and left out elsewhere. A ride is owed one payment, for its fare or for its
cancellation fee (`RideEnds`). Stripe is what its API promises: an intent is paid at
most once, only by a client that was given its secret, a success stays true, and events
are delivered any number of times in any order. `AccountEventsRouted` says whether the webhook hands `account.updated`
to the payouts; the deployed one does not (`payments.py` of the API knows two event
types), so no account would ever become active and no payout be made. Runs use
`TRUE`, as the handler in `payouts.py` intends. Calls to Stripe are synchronous: they block
the instance's event loop, and overlaps around them come from a second instance.
Shares are computed in cents by `Rounded`, where a tie may go either way, as with
floats. `ride.tip_amount`, which mirrors the payment's tip, is left out.

## 4. Runs

Three use `MCRideSystem` (`overlap`, `liveness`, `given_up`) and one `MCRideRaces`, all
with a `MaxRetries` of 1: the counter's boundary is reached by the first retry, the code
compares it in one place, and larger values only repeat the loop. Three use
`MCRideMoney`, four `MCDrivers` and one `MCServices`.

| Run | Instance | Shows |
|---|---|---|
| `overlap` | 1 ride, 2 drivers, 1 request slot, 1 scheduler, drivers come and go | what holds as the code is: `HistoryConsistent`, `RequestedIsUnassigned`, `FeeOnlyAfterMatch`, `RetriesCountUp`, `GivenUpWhenExhausted`, `MilestonesAreKept` |
| `races` | 2 rides, 1 driver, 2 requests, 1 scheduler, the driver's presence fixed, no lock anywhere | every ride lives by `RideLifecycle` until a session is overtaken about it; every trip of an unaffected driver is counted once, and one fee is asked for, wherever handlers, tasks and the loop die |
| `liveness` | 1 ride, 1 driver, 1 request, 1 scheduler, fair | no ride stays requested or scheduled for ever |
| `given_up` | 1 ride, 1 driver, the constants of the deployed code | fails: the retry loop gives up, for want of a driver, a ride that a driver accepted meanwhile |
| `money` | 1 ride, 2 payment requests, 2 deliveries, 1 split request, 2 payouts, 2 calls about them | what holds as the code is: a payment marked completed was collected, a refunded one returned, a driver's payout includes the tip, shares cover the fare, a completed payout was transferred, the status of a payout no two calls were about at once tells how often its money moved, and a payment that was made is recorded at some time |
| `share_completes_fare` | the same | fails: a guest accepts and pays a share, and the whole fare is marked as paid |
| `tip_twice` | the same | fails: a settlement adds tips to payouts that contain them |
| `drivers` | 1 driver, 3 sockets, 2 requests, 2 records of each kind, 3 verification documents, 1 check | what holds as the code is: dead sockets are pruned, offline drivers stay so, the two availability filters agree, one record is approved and frozen, only approved drivers are online, an approval is earned and who has all documents approved and a clear check is approved |
| `lost_writes` | the same, `get_db` as deployed | fails: a first heartbeat brings nobody online |
| `suspended_drives` | the same | fails: a suspended driver's last document is approved, and so is the driver |
| `unchecked_drives` | the same, `get_db` as deployed | fails: the approval of the last document approves a driver without a clear background check |
| `services` | 2 requests, 2 riders, 1 code, 1 template, 2 schedulers, 1 zone, 1 entry, 2 passes, 2 cases of a kind, 4 stops, 2 rated rides, 1 device, 1 dispatch | what holds as the code is: promo limits, occurrences in reach booked and booked once, one notice, sent as asked, demand covered, closed cases, one open dispute, ordered stops, averages and tips |

*Why the bounds are enough.* Rides share nothing but drivers, so one ride with
everything that can happen to it is the interesting instance. Two drivers make an
accept compete with a match. One request slot next to the task and the scheduler
already overlaps three sessions on one row; slots are reused without bound, so the
number of requests is not bounded, only how many overlap. `HistoryConsistent` is
proved for any number of everything. `races` has two rides, because a driver's counter is
shared by the rides the driver completes, and two requests, so that handlers
overlap one another. Its constraint `Unraced` stops behind the step by which a session
is first overtaken: that step is checked, and from there on the properties except the
ride. The theorems about them (section 5) have no such bound.

*Why the bounds of the money runs are enough.* Payments of different rides share
nothing: every query names the ride or an intent that belongs to one. Two requests,
or two deliveries, overlap on its row, so each sees the other's write between its own load
and commit. `MaxIntents` is 2 per ride and kind: one that is kept and one that is
forgotten. The split is made for up to three places, twice (`Groups`), so rounding leaves a
rest, a decline changes a row that others hold, and a cancelled split is
followed by another; it is divided from the estimate (1) before the ride ends and from
the fare (2) after. Two transfers of a payout are
one too many. The components meet only where a share is paid, so
`MCRideMoney` lets a behaviour choose one *side*, and the state space is
then a sum and not a product: `payments` (requests overlap, deliveries come one at a
time and Stripe never gets its 200, so it repeats every event), `events` (deliveries
overlap and are acknowledged, requests come one at a time), `shares` (one request and
one delivery, of which Stripe gets no answer either, meet a split whose guest accepts
and pays), `splits` (its own
requests) and `payouts` (two overlapping calls; the second is about payout 1, since the
slots are alike). The proofs are about the compositions without sides
(`RideMoney`, `Payouts` and both in `MoneySystem`). Split requests run one at a
time: two overlapping declines each add their share to the initiator's amount they
loaded, so `SharesCoverFare` is checked and proved for one split request per ride.
`CompletedWasTransferred` holds however calls overlap. Two process calls do transfer
twice, so `StatusTellsTransfers` is about the payouts that no two calls were about at
once.

*Why the bounds of the drivers' and services' runs are enough.* No two of these
components write the same variable, except `Approval`, which reads the documents; so
here too a behaviour chooses one side, and within a component one part of its
requests, and the state space is a sum. The second request `c2` only starts
while `c1` is in progress, which loses nothing: the slots are alike. Where the
property says nothing more after an overlap, no request follows one. Two
records, cases, stops or ratings are what a property relates; a third approved
record would be approved over one of the other two. Three verification documents
for two required types give one that is submitted again. `MaxDay` 2: a record
expires on the last day. `MaxTime` 4, with two steps to a day and two days to a
week, shows a template twice on one weekday; `MaxBookings` 3 gives the horizon's
occurrences and a ride of the rider's own. Stop ids up to 4 for at most 3 stops: a
removed stop is followed by a new one. `Window` 2 and `MaxDemand` 4: a counter
outlives two requests and expires. `MaxLog` 3, `MaxUpdates` 2 and two
notification types, an alert and one that may be turned off. `MCDrivers` and
`MCServices` list, side by side, what each side leaves out.

*Deadlock* is checked in the runs of `MCRideSystem` and `MCRideRaces`. In those of `MCDrivers` and
`MCServices` everything may be done: a bound is reached, a case closed, a driver gone.
In those of `MCRideMoney` the system
may stop: when the response with a payment's client secret is lost, a retry
is answered without a secret, and the payment stays open for ever.

*Fairness.* `liveness` assumes weak fairness of a scheduler's step (the loop always
runs again) and strong fairness of taking up a ride that is offered again and again
(time passes, so a ride comes due and a backoff elapses) and of the end of a phase (a
phase may abort, but not every time). A handler goes on or dies. Riders, drivers
and background tasks may do nothing at all, and no step is assumed to succeed.
`money` assumes of one slot of the webhook that a delivery that has begun ends, and, since
Stripe repeats an event until a delivery of it is answered 200, that the success of a
payment's own intent *that was not acknowledged yet* is delivered again and again and
not every such delivery dies. Nothing is assumed of a success that was answered: Stripe
does not send it again. So `PaidIsRecorded` says only that a paid intent is recorded
at some time, unless a delivery under way has found it recorded: a
`payment_failed` of an earlier attempt that comes late is written over it
(`payments.py:138`) and may stay for ever. Nothing is assumed of riders, guests, drivers, admins and requests. `drivers`
assumes weak fairness of the ping loop, which sleeps, pings, waits and prunes for as
long as the process runs, and nothing of clients: a client that is gone may never be
noticed by its endpoint, which is what the loop is for.

*What overlaps do beyond the runs.* `KeepsLifecycle`, `TripsCountCompletions` and
`OneIntentPerRide` except what happens to a ride once a session is overtaken about it. Two
overlapping completions count a trip twice, or lose one of two rides; two cancellations
make two intents (the loser's insert is refused by `uq_payment_ride_type` after Stripe
made the intent), and a cancellation can end a ride that is already in progress; a
handler that loaded a ride before its completion changes it afterwards. The re-check
before a retry's match ("Re-check status before committing the match",
`dispatch_scheduler.py:218`) reads the loop's own stale copy and so cannot see a
cancellation; as deployed the search before it finds nobody, so the line is not
reached, but `given_up` shows the same staleness where it is. The status key of a
driver on a ride goes back to available with the next location report. A second API
instance puts a matched ride back to REQUESTED, where the retry query does not find
it, because it has a driver; `RequestedIsUnassigned`, the retries and liveness are
checked and proved for one.

*What automatic approval does.* Two workflows approve a driver without an admin. The check
provider's webhook wants a clear check and all required documents
(`background_checks.py:405`). The review of the last document
(`verification.py:150`) wants the documents alone, so it approves drivers who
were never checked, whose check was flagged, or who were suspended.
`ApprovalIsEarned` says what both have in common, `EarnedIsApproved` that nobody who
meets both requirements is left waiting, and the runs `unchecked_drives` and
`suspended_drives` show where the code departs from what it says.

*What the services do beside their properties.* The modules show, and the
properties except:

* `_next_occurrence_dates` looks at three days from the last one generated, which does
  not move while none is found: a ride whose days of the week leave a gap of four days
  or more is generated up to the first such gap: one on a single day of the week once.
  `generate_rides_from_recurring` promises "any upcoming occurrences within the horizon
  that haven't already been generated" (`recurring_rides.py:307`). It starts from a UTC date and takes days of the template's
  zone: east of UTC an occurrence can be generated twice, west of it skipped; an
  update resets `last_generated_date` and books the days anew. A generated ride has
  an `estimated_fare` of 0.0, 'Will be calculated at dispatch time'
  (`recurring_rides.py:374`), and no dispatch calculates it.
* Two bookings, or a booking and the generator, pass the overlap check together; so
  do two creations past a maximum (templates, stops, disputes).
* A review that loaded a dispute before its resolution reopens it. Matching a
  lost item with a second report leaves the first one's partner naming it.
* Two passes over the waitlist tell a rider twice; a pass undoes a cancellation.
* Two redemptions count one use; a request that dies between its commits gives a
  discount away that nobody counts.
* A device that its old owner deregisters while the new one registers it is switched
  off. `notify_sos_alert` tells the user who raised the alarm. The switches of
  `/notifications/preferences` are read by no dispatch: opt-outs are what counts.
* Stops are reached, left and skipped without a look at the ride's status or driver.
* The demand window is as long as requests keep coming, since each sets the time
  to live anew, so a counter may hold requests of any age.
* `rate_ride` and `submit_feedback` keep two ratings of one ride that need not agree.

## 5. Proofs

`RideSystemProofs` proves, from the assumptions that `NoDriver` is no driver,
`NoRide` no ride and `MaxRetries` a natural number, and for any sets of rides, drivers,
requests and API instances:

* `TypeCorrectness`: the type invariant with the bound on the retry counter;
* `HistoriesAreConsistent`: a row's status is always backed by its driver and its
  timestamps, whatever the interleaving;
* `HistoryInvariant`: the inductive invariant both follow from;
* `NoMilestoneIsLost`: no commit, however stale its copy, takes a driver or a
  timestamp away from a row;
* `FeesFollowMatches`: a cancellation fee is only asked for a ride that was matched
  and cancelled.

`HistoryConsistent` alone is not inductive: a commit writes part of a copy over a row
that others have changed. Two things save it, and `HistoryInv` states them for every
copy a session still holds: the copy is consistent itself, and it is *behind* the row:
every milestone it has, the row has (`Behind`). A commit then writes a consistent copy
that only adds milestones, so no column that the new status needs can be missing
(`FlushKeepsConsistent`), and the row only gains milestones, so all other copies stay
behind it (`CopyStaysBehind`). The rest of `HistoryInv` records what each handler's
guard leaves true of its copy. The proof has a lemma per action, grouped by actor,
and each says of its action that it keeps the copies sound and the rows' milestones;
`NoMilestoneIsLost` is the second half.

`FeesFollowMatches` rests on it. The handler decides that a fee is due on its copy,
commits, and asks Stripe in a later step, after others may have written the row.
`FeeInv` states what the handler knew at each of these points; as no milestone is
ever lost, it is still true of the row when the intent is made.

`RideLoopProofs` proves, for any number of rides, drivers and requests when one API
instance runs the scheduler (`OneInstance`):

* `SearchInvariant`: the inductive invariant `SearchInv`, on top of `HistoryInv`;
* `RequestedAreUnassigned`: a requested ride has no driver;
* `RetriesAreCounted`: attempts are counted one by one and none is taken back;
* `GivenUpIsExhausted`: a ride is given up only when its row counts all attempts,
  although the loop decides on its copy.

All of them could fail through a stale copy: the loop writes REQUESTED, or a count, over a row
that a handler or a task has moved on. The argument is that rows *settle*: whatever
a handler or a task commits takes the ride past its search and leaves the retries
alone (`RowsSettle`), so what the loop's copies say of the retries stays true. The
loop alone makes a ride requested, and only one that is still `Untouched`: no
driver, no task, and no handler but a cancellation that found it scheduled; a cancelled
ride that the loop then revives has no driver either. With a second
instance the argument fails, since its copies may be older than the other's writes.

`RideRaceProofs` proves of `RaceSpec`, which is `Spec` with two history variables and no
lock, for any number of rides, drivers, requests and API instances:

* `RaceInvariant`: the inductive invariant `RaceInv`, on top of `HistoryInv`;
* `OvertakenOrOrderly`: every step is a step of `RideLifecycle` or a stutter, and the
  initial states map to its initial states, where a ride about which a session was
  overtaken is mapped to the status "contested", which it keeps;
* `UnaffectedTripsCount`: an unaffected driver's `total_trips` is the number of rides
  the driver completed, and `UnovertakenPayOnce`: a ride that is not overtaken has at
  most one intent for a fee.

The promise could fail without any overlap of writes: a task takes up a ride after its
response, a handler dies between its COMMIT and what follows, a request
is repeated, a loop takes up a ride that a dead one left. `RaceInv` says that whatever may
yet be written back of a ride that is not overtaken *is* its row, and satisfies
the guards it was loaded under (`HandlersMay`, `TasksMay`, `LoopsMay`). A COMMIT
then moves the row along one edge of the life cycle, which the refinement maps to
one action each, and makes all other copies of the ride outdated, which is when it becomes
overtaken. A ride that leaves the search never comes back, as nobody who loads
it later passes a guard (`Orderly`). Trips are counted by the completion that holds
the driver's profile; one of an overtaken ride has an affected driver
(`CompletersAffected`). A fee is asked for after the COMMIT, so `IntentFits` says that
the ride is cancelled then, which only one cancellation has done; so one handler at
most is charging, and until it has its answer there is no intent.

`MoneyProofs` proves, for any number of rides, intents, participants, overlapping
requests and deliveries, from the assumptions on the constants in `StripeIntents`,
`Payments` and `FareSplits`:

* `MoneyInvariant`: the inductive invariant `MoneyInv`;
* `CompletedWereCollected`, `RefundsWereReturned`, `PayoutIncludesTheTip`: what it says
  of the rows alone;
* `SharesCoverTheFare`: the shares of every split add up to the fare that was divided, if
  requests about the splits of one ride never overlap (`OneSplitCallPerRide`, a
  hypothesis on behaviours; requests may still die at any await, and requests about
  different rides overlap).

None of the first three is inductive: a request writes what it decided several steps
earlier. `MoneyInv` therefore states what each request and delivery still knows at its next
step: the intent a request is about to answer with is its own and nobody else's
(`OwnIntents`), a refund about to be recorded was made, a delivery about to write
COMPLETED belongs to a payment that was collected, and a tip's copy of
`driver_payout` is the fare alone, because a second tip is refused on a copy that
has one, so the later of two overlapping tips replaces the earlier one in both
columns. A success never stops being true, so what a delivery read of Stripe is
still true when it is written, whatever others did to the row.

`SharesCoverTheFare` follows from `SharesInv`: every split that was made, and the rows
that a request is about to insert, add up (`Covers`), a decline knows the amounts of
the two rows it will change (`DeclineKnows`), and a cancellation changes rows that
exist. The initiator's amount is the fare less the others' shares, whatever they
were rounded to, and a decline moves an amount from one row to another. That needs sums
over any finite set of places to be taken apart, which is what `Sums` is for. The
community modules define `SumFunction` as a fold over a set; `Sums` shows that it
is the last entry of the one table over the subsets of the domain that satisfies the
fold's equation (`TableExists`, `TableIs`), so the sum less any one
place is the sum of the rest (`TakeOut`). The library's induction theorems take an operator, which the
provers cannot instantiate; the induction here is about a *set*: the numbers
for which the claim holds (`UpFromZero`) and the subsets of a finite set for which it
holds (`SubsetInduction`), from the well-foundedness of `<`. `Places` is assumed finite:
the code allows `MAX_SPLIT_PARTICIPANTS` people in a split.

Of payouts, `MoneyProofs` proves `CompletedWereTransferred` for any number of overlapping calls
(`TransferInvariant`, with `TransferInv`: a call about to write COMPLETED has an answered transfer behind
it, and transfers are never undone), and `StatusesTellTransfers` of every payout that no two calls were about
at once, although calls overlap about others, may die at any await, and Stripe's
answer may be lost (`AloneInv` says what a call that is alone with its payout knows of
its status and transfers at each of its steps).

`DocumentsProofs` proves, for any number of records, owners, requests and days, from
`PapersAssumption`:

* `DocumentsInvariant`: the inductive invariant `DocInv`;
* `OneIsApproved`: an owner has one approved record of a kind, and `ApprovedStayFrozen`:
  no request changes an approved record; both unless requests about the owner
  overlapped.

One approved record is not inductive: a review writes APPROVED and the expiry of
the others from what it loaded. `DocInv` says that a request whose owner is not in
`overlapped` is alone (`AloneWith`), and that a request that is alone knows its rows:
its copies are the rows, and the rivals it will expire are all that are approved
(`Knows`). A commit by it then leaves one approved record, and a commit
by another request concerns other owners.

`ApprovalProofs` proves, for any drivers, documents, checks, slots and requests, from
`ApprovalAssumption` (some document is required), `PapersAssumption` and
`TimesAssumption`:

* `AvailInvariant` (`AvailInv`): the rows and copies of availability are typed, and
  each request's change of `online` is what its operation decided;
  `OfflineStays` and `FiltersAgree` follow: a heartbeat and a break never write
  the column `online` of a row that exists, and the two filters say the same;
* `ApprovalInvariant` (`ApprovalInv`), from which `OnlineAreApproved`,
  `ApprovalsAreEarned` and `TheEarnedAreApproved` follow.

An approval is decided on three tables and written later. `ApprovalInv` says that a request
about a driver who is not in `apprOverlap` is alone (`AskingAlone`), that its new
columns follow from what it has read (`Decided`), and that what it has read is still
so (`StillTrue`). `Earned` then holds again after each COMMIT: whoever has all required
documents approved and is in good standing is approved. The documents'
services step in the same behaviour; they change nothing that a decision was based on.

`ServicesProofs` has a part for each service, for any number of people, rows and requests and
from the assumptions on the constants of the modules. In most of them a request that no other
overlaps with *knows* its rows, and what it decided still holds when it commits:

* `CasesInvariant` (`CaseInv`), `OneDisputeIsOpen`, `ClosedStayClosed`: a
  request knows its case's row (`KnowsCase`) unless the case is in `tangled`. A dispute
  that is being filed has no row yet, so two filers of one ride must be known to have
  met (`FilersMeet`), and a filer that met nobody knows that no dispute of its ride
  and user is open (`KnowsDispute`).
* `PromosWithinLimits` (`PromoInv`): a ride redeems once (`OncePerRide`), a counter never
  exceeds the redemptions (`NeverOver`) and equals them where nothing overlapped
  (`Exact`), and the code that a request is about to redeem is within its limits
  with it (`StillValid`). A registration's referral code is one that no row has; it is for
  one use, so the bound on the limits is at least 1 (`PromoAssumption`).
* `StopsAreInOrder` (`StopsInv`): what a request will write still fits the stops of the
  ride (`StillFits`). New stops get the ranks behind the last, and those
  behind a removed one move up by one, so the numbers stay 1 to n by counting.
* `RatingsDoAddUp` (`RatingsInv`): the average that a request has computed is that of the
  rows as they will be when it commits (`KnowsRatings`). Both are the same
  expression over the same rows. That the average stays between one star and five
  even when ratings overlap (`RatingsAreTyped`) does take the sum apart
  (`SumWithin` of `Sums`).
* `DemandIsCovered` (`DemandInv`): the ages of past requests are a history variable; a
  counter lives as long as its youngest one, so it counts all that are young.
* `OneNoticeEach` (`WaitlistInv`): an entry was told once if its row says so, or a
  pass that has read it has told it and will write it (`Told`).
* `NoticesAreAsAsked`: a dispatch tries no channel that is off and stays off while it goes on
  (`QuietIn`), but all channels of an alert, in order (`NoticesInv`); and a
  device's row names who registered it last (`Follows`), since the one request about
  it knows the row (`DevicesInv`, `KnowsDevice`).
* `OccurrencesAreBooked` (`RecInv`): what a run of the generator made are occurrences, and of a
  template it is done with none is left that is neither booked nor made
  (`RunIsRight`); a run still knows the days of a template that was never
  updated (`RunKnows`); of such a template in UTC every day up to the last one
  generated is booked, and nothing that has come and was in reach is missing, nor
  what comes next once a run has ended (`Kept`), which is what lets the clock go
  on. Without overlaps there is one run, whose new rides are later than
  all that were there (`OneRun`), so none is generated twice. In UTC the day of an
  instant is that of its pickup (`DayOf`), which it need not be elsewhere. The
  proof was first tried without the reach of three days, and failed for the reason that
  section 4 tells: the statement is false.

*The compositions.* A step of `MoneySystem`, `DriverSystem` or `ServiceSystem` is a step
of one part or a stutter for each (`MoneySystemParts`, `DriverSystemParts`,
`ServiceSystemParts`), so the theorems about a part hold of the whole. Every
variable keeps its type in them (`MoneySystemTypes`, `DriverTypes`, `ServiceTypes`),
whatever requests overlap, die or are repeated: a request that commits what it read
long ago still writes values its table can hold. Two parts needed more than the types for that:
the sockets, where each endpoint and the ping loop must still hold what their next
step uses (`ConnectionTypes`, with `ConnInv`), and the ratings. The types of `Surge`
and `Ratings` assume in addition that there is a geohash cell and that the rides that
are rated, being rows of a table, are finitely many.

*Only model-checked*: the liveness properties `RequestsSettle`, `ScheduledRidesSettle`, `DeadIsPruned` and
`PaidIsRecorded`, since the provers do not handle fairness and ENABLED. Every other property
of a passing run is a theorem. `RequestedIsUnassigned`, `RetriesCountUp` and
`GivenUpWhenExhausted` are proved for one API instance and `SharesCoverFare` for one
split request per ride at a time, as the runs check them: without these conditions
they fail.

## 6. Not modelled

*Pools.* `request_pool_ride` reads `pool.legs`, a lazy relation, after an await
(`pool_matching.py:115`, `api/v1/pools.py:136`): with an async session that raises
`MissingGreenlet`, so no pool is ever committed and there is no state to model.
*Incentives.* Nothing calls `record_trip_completion` or `mark_bonuses_paid`, so no
campaign has progress. *Called by nothing* are also the `mark_expired_*` functions of the
documents, `send_notification_with_preferences` and `handle_split_payment_succeeded`.
*Chat, audit, saved locations, ride preferences, receipts*: rows that their owner
appends or edits alone. *Analytics, performance, financials, admin lists*: reads.
*Authentication, rate limiting, geocoding, routing, migrations, the apps*: counters of one
process, external services, and clients of the API.

The services that only flush, whose writes are lost as deployed: background checks,
driver availability and destination, device tokens, incentives, notifications and
their preferences, ride preferences, saved locations, driver performance, surge zones
and the waitlist. `lost_writes` shows it of a heartbeat.

Of the payments, receipts and quotes are left out. Of the splits, `expire_pending_splits`,
`handle_split_payment_succeeded` and `update_split_amounts_for_actual_fare` are
called by nothing in the program, so a split neither expires nor follows the final
fare, and a share is never PAID. Of the sockets, the payloads; of pricing, the
arithmetic on floats; of the surge zones and destinations, geometry, which is a set of
places; of the case workflows, trip sharing and emergency contacts.
