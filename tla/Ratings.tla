------------------------------- MODULE Ratings -------------------------------
(***************************************************************************)
(* What riders and one driver give each other after their rides: ratings   *)
(* (rate_ride of api/v1/rides.py, services/ratings.py), feedback           *)
(* (services/feedback.py), the driver's ratings of riders                  *)
(* (services/rider_ratings.py) and tips (services/tips.py).                *)
(*                                                                         *)
(* A rating is flushed, which locks the ride's row, before the average of  *)
(* the driver's ratings is computed and written to the profile; the average*)
(* counts what the session flushed and what others have committed.         *)
(***************************************************************************)
EXTENDS Sessions, Integers, FiniteSets, Functions

CONSTANTS
    RatedRides,    \* the completed rides of the driver
    Stars          \* the ratings given, of 1 .. 5

ASSUME RatingsAssumption ==
    Stars \subseteq 1 .. 5 /\ IsFiniteSet(RatedRides)

VARIABLES
    given,         \* given[r]: the columns of the ride that are about ratings
    average,       \* the profile's rating_avg, in hundredths
    feedback,      \* rows of ride_feedback: <<ride, role, request's number>>
    riderRating,   \* rides with a row in rider_ratings
    tip,           \* tip[r]: the row of tip_records, its window and its intents
    ratingCall,    \* ratingCall[c]: a request in progress
    blurred        \* history: whether two requests about ratings overlapped

ratingVars == <<given, average, feedback, riderRating, tip, ratingCall, blurred>>

Role    == {"rider", "driver"}
Unrated == 0
RideGiven == [driver_rating : Stars \union {Unrated},
              rider_rating : Stars \union {Unrated}, tip : BOOLEAN]
TipState  == [recorded : BOOLEAN, over : BOOLEAN, intents : 0 .. 2, lost : BOOLEAN]

RatingIdle == [op |-> "idle"]

RatingsTypeOK ==
    /\ given \in [RatedRides -> RideGiven]
    /\ average \in 100 .. 500
    /\ feedback \subseteq RatedRides \X Role \X {1, 2}
    /\ riderRating \subseteq RatedRides
    /\ tip \in [RatedRides -> TipState]

RatingsInit ==
    /\ given = [r \in RatedRides |-> [driver_rating |-> Unrated,
                                      rider_rating |-> Unrated, tip |-> FALSE]]
    /\ average = 500
    /\ feedback = {}
    /\ riderRating = {}
    /\ tip = [r \in RatedRides |-> [recorded |-> FALSE, over |-> FALSE,
                                    intents |-> 0, lost |-> FALSE]]
    /\ ratingCall = [c \in Requests |-> RatingIdle]
    /\ blurred = FALSE

\* The average of the ratings of the rides that have one, in hundredths.
AverageOf(rows) ==
    LET rated == {r \in RatedRides : rows[r].driver_rating # Unrated}
        stars == [r \in rated |-> rows[r].driver_rating]
    IN  (200 * SumFunction(stars) + Cardinality(rated)) \div (2 * Cardinality(rated))

Rating == {"rate", "feedback"}

-----------------------------------------------------------------------------
(* rate_ride and submit_feedback.                                           *)

\* A second rating replaces the first, and with it the tip that was noted.
NewColumns(r, role, stars, tipped) ==
    IF role = "rider"
    THEN [given[r] EXCEPT !.driver_rating = stars, !.tip = tipped]
    ELSE [given[r] EXCEPT !.rider_rating = stars]

BeginRating(c, op, r, role, stars, tipped) ==
    /\ ratingCall[c] = RatingIdle
    /\ ratingCall' = [ratingCall EXCEPT ![c] =
           [op |-> op, phase |-> "loaded", ride |-> r, role |-> role,
            copy |-> given[r], new |-> NewColumns(r, role, stars, tipped),
            was |-> average, average |-> average]]
    /\ blurred' = (blurred \/ \E x \in Requests : ratingCall[x].op \in Rating)
    /\ UNCHANGED <<given, average, feedback, riderRating, tip>>

RateRide(c, r, role, stars, tipped) ==
    BeginRating(c, "rate", r, role, stars, tipped)

SubmitFeedback(c, r, role, stars, tipped) ==
    /\ \A n \in {1, 2} : <<r, role, n>> \notin feedback
    /\ BeginRating(c, "feedback", r, role, stars, tipped)

Flushes(call) == call.op \in Rating /\ call.phase = "flushed" /\ call.new # call.copy

\* Mutant: the average is taken before the rating is flushed.
CountedCommitted(q) == given

\* What the average of a request counts.
Counted(q) == [given EXCEPT ![q.ride] = Merge(@, q.copy, q.new)]

\* update_driver_rating_avg, which a driver's rating of a rider does without.
Recompute(c) ==
    LET q == ratingCall[c]
    IN  /\ q.op \in Rating /\ q.phase = "loaded" /\ q.role = "rider"
        /\ ~\E x \in Requests : Flushes(ratingCall[x]) /\ ratingCall[x].ride = q.ride
        /\ ratingCall' = [ratingCall EXCEPT ![c] =
               [q EXCEPT !.phase = "flushed", !.was = average,
                    !.average =
                        IF \E r \in RatedRides : Counted(q)[r].driver_rating # Unrated
                        THEN AverageOf(Counted(q)) ELSE average]]
        /\ UNCHANGED <<given, average, feedback, riderRating, tip, blurred>>

\* Nothing keeps two rows of feedback apart.
CommitRating(c) ==
    LET q == ratingCall[c]
        rowOf == IF <<q.ride, q.role, 1>> \in feedback THEN 2 ELSE 1
    IN  /\ q.op \in Rating
        /\ q.phase = "flushed" \/ q.role = "driver"
        /\ q.role = "driver" => ~\E x \in Requests : Flushes(ratingCall[x])
                                                     /\ ratingCall[x].ride = q.ride
        /\ given' = [given EXCEPT ![q.ride] = Merge(@, q.copy, q.new)]
        /\ average' = IF q.average = q.was THEN average ELSE q.average
        /\ feedback' = IF q.op = "feedback"
                       THEN feedback \union {<<q.ride, q.role, rowOf>>} ELSE feedback
        /\ ratingCall' = [ratingCall EXCEPT ![c] = RatingIdle]
        /\ UNCHANGED <<riderRating, tip, blurred>>

-----------------------------------------------------------------------------
(* submit_rider_rating: one per ride, which the table insists on as well.   *)

BeginRiderRating(c, r) ==
    /\ ratingCall[c] = RatingIdle /\ r \notin riderRating
    /\ ratingCall' = [ratingCall EXCEPT ![c] = [op |-> "rider", ride |-> r]]
    /\ UNCHANGED <<given, average, feedback, riderRating, tip, blurred>>

CommitRiderRating(c) ==
    LET r == ratingCall[c].ride
    IN  /\ ratingCall[c].op = "rider"
        /\ riderRating' = riderRating \union {r}
        /\ ratingCall' = [ratingCall EXCEPT ![c] = RatingIdle]
        /\ UNCHANGED <<given, average, feedback, tip, blurred>>

-----------------------------------------------------------------------------
(* submit_tip.                                                              *)

BeginTip(c, r) ==
    /\ ratingCall[c] = RatingIdle /\ ~tip[r].recorded /\ ~tip[r].over
    /\ ratingCall' = [ratingCall EXCEPT ![c] = [op |-> "tip", ride |-> r, row |-> FALSE]]
    /\ UNCHANGED <<given, average, feedback, riderRating, tip, blurred>>

Inserting(r) == \E c \in Requests :
    ratingCall[c].op = "tip" /\ ratingCall[c].ride = r /\ ratingCall[c].row

\* The unique key of ride_id: a second insert waits for the first, and fails.
Unique(r) == ~Inserting(r) /\ ~tip[r].recorded

\* The row is flushed, and Stripe is asked for an intent.
InsertTip(c) ==
    LET r == ratingCall[c].ride
    IN  /\ ratingCall[c].op = "tip" /\ ~ratingCall[c].row
        /\ Unique(r) /\ tip[r].intents < 2
        /\ tip' = [tip EXCEPT ![r].intents = @ + 1]
        /\ ratingCall' = [ratingCall EXCEPT ![c].row = TRUE]
        /\ UNCHANGED <<given, average, feedback, riderRating, blurred>>

CommitTip(c) ==
    LET r == ratingCall[c].ride
    IN  /\ ratingCall[c].op = "tip" /\ ratingCall[c].row
        /\ tip' = [tip EXCEPT ![r].recorded = TRUE]
        /\ ratingCall' = [ratingCall EXCEPT ![c] = RatingIdle]
        /\ UNCHANGED <<given, average, feedback, riderRating, blurred>>

TipWindowEnds(r) ==
    /\ ~tip[r].over
    /\ tip' = [tip EXCEPT ![r].over = TRUE]
    /\ UNCHANGED <<given, average, feedback, riderRating, ratingCall, blurred>>

\* A request ends without its commit: also one whose insert was refused.
RatingCallLost(c) ==
    LET q == ratingCall[c]
    IN  /\ q # RatingIdle
        /\ tip' = IF q.op = "tip" /\ q.row THEN [tip EXCEPT ![q.ride].lost = TRUE]
                  ELSE tip
        /\ ratingCall' = [ratingCall EXCEPT ![c] = RatingIdle]
        /\ UNCHANGED <<given, average, feedback, riderRating, blurred>>

-----------------------------------------------------------------------------
RatingsStep ==
    \/ \E c \in Requests, r \in RatedRides :
           \/ \E role \in Role, stars \in Stars, tipped \in BOOLEAN :
                  \/ RateRide(c, r, role, stars, tipped)
                  \/ SubmitFeedback(c, r, role, stars, tipped)
           \/ BeginRiderRating(c, r) \/ BeginTip(c, r)
    \/ \E c \in Requests :
           \/ Recompute(c) \/ CommitRating(c) \/ CommitRiderRating(c)
           \/ InsertTip(c) \/ CommitTip(c) \/ RatingCallLost(c)
    \/ \E r \in RatedRides : TipWindowEnds(r)

RatingsSpec == RatingsInit /\ [][RatingsStep]_ratingVars

-----------------------------------------------------------------------------
\* The profile's average is that of the ratings which the driver's rides carry,
\* however often they are rated anew, and nobody's feedback on a ride is there
\* twice, unless such requests overlapped.  Without that exception: Stripe is
\* asked for a ride's tip once, and the tip is recorded, unless a request died
\* between the two (update_driver_rating_avg, submit_feedback, submit_tip).
RatingsAddUp ==
    /\ ~blurred =>
           /\ (\E r \in RatedRides : given[r].driver_rating # Unrated)
                  => average = AverageOf(given)
           /\ \A row \in feedback : row[3] = 1
    /\ \A r \in RatedRides : ~tip[r].lost =>
           tip[r].intents <= 1 /\ (tip[r].intents = 1 <=> tip[r].recorded \/ Inserting(r))
=============================================================================
