----------------------------- MODULE FareSplits -----------------------------
(***************************************************************************)
(* services/fare_splitting.py and its endpoints: a rider divides the fare  *)
(* of a ride among users, who accept or decline and pay their shares.      *)
(*                                                                         *)
(* The rows that one call of create_fare_split inserts are a group; a      *)
(* rider who cancels a split can make another.  Nothing stops a rider from *)
(* inviting a user twice, so a row is a place, not a user.  PAID, EXPIRED  *)
(* never occur: nothing calls handle_split_payment_succeeded,              *)
(* expire_pending_splits or update_split_amounts_for_actual_fare.          *)
(***************************************************************************)
EXTENDS Payments, FiniteSetsExt

CONSTANTS Places,          \* a row of a split, whoever its user is
          Initiator,       \* the place of the rider who made the split
          Groups,          \* bound: 1 .. Groups splits are made for a ride
          Estimate,        \* the fare before the ride is completed
          SplitCalls,      \* slots for concurrent requests about splits
          MaxParticipants  \* MAX_SPLIT_PARTICIPANTS

ASSUME SplitsAssumption ==
    /\ IsFiniteSet(Places) /\ Initiator \in Places
    /\ {Groups, Estimate, MaxParticipants} \subseteq Nat

VARIABLES split,      \* split[r][g][u]: the row of place u in group g
          splitCall   \* splitCall[c]: the request in slot c

splitVars == <<split, splitCall>>

SplitStatus == {"none", "pending", "accepted", "declined", "cancelled"}

Share == [status : SplitStatus, amount : Int,
          intent : Intents \union {NoIntent}]

NoShare == [status |-> "none", amount |-> 0, intent |-> NoIntent]

GroupIds == 1 .. Groups

Creation == [op : {"create"}, ride : Rides, rows : [Places -> Share]]

Answering == [op : {"accept", "decline", "pay"},
              at : {"initiator", "stripe", "commit"},
              ride : Rides, group : GroupIds, place : Places, amount : Nat,
              left : Int, intent : Intents \union {NoIntent}]

Cancellation == [op : {"cancel"}, ride : Rides,
                 rows : SUBSET (GroupIds \X Places)]

SplitsTypeOK ==
    /\ split \in [Rides -> [GroupIds -> [Places -> Share]]]
    /\ splitCall \in [SplitCalls -> Creation \union Answering \union Cancellation
                                       \union {Idle}]

SplitsInit ==
    /\ split = [r \in Rides |-> [g \in GroupIds |-> [u \in Places |-> NoShare]]]
    /\ splitCall = [c \in SplitCalls |-> Idle]

-----------------------------------------------------------------------------
Rows(r, statuses) ==
    {x \in GroupIds \X Places : split[r][x[1]][x[2]].status \in statuses}

Amounts(rows) == [u \in Places |-> rows[u].amount]

Made(r) == {g \in GroupIds : split[r][g][Initiator].status # "none"}

\* What the ride costs: actual_fare once it is set, estimated_fare before.
Fare(r) == IF ended[r] = "fare" THEN Owed ELSE Estimate

\* round(fare / n, 2) in cents; a tie may go either way, as the fare is a
\* binary float.
Rounded(fare, n) == {x \in 0 .. fare : 2 * n * x \in 2 * fare - n .. 2 * fare + n}

\* What the invited owe: equal shares, or round(fare * percentage) for
\* percentages that leave something to the initiator.  Rounding adds less than
\* half a cent to each, so together they may exceed the fare.
InvitedShares(invited, fare) ==
    [invited -> Rounded(fare, Cardinality(invited) + 1)]
    \union {f \in [invited -> 0 .. fare] :
               2 * SumFunction(f) < 2 * fare + Cardinality(invited)}

\* Mutant: the rounding difference is not given to the initiator.
RowsOfUnadjusted(share, fare) ==
    [u \in Places |->
        IF u = Initiator
        THEN [status |-> "accepted", intent |-> NoIntent,
              amount |-> CHOOSE x \in Rounded(fare, Cardinality(DOMAIN share) + 1) :
                             TRUE]
        ELSE IF u \in DOMAIN share
        THEN [status |-> "pending", amount |-> share[u], intent |-> NoIntent]
        ELSE NoShare]

\* The rows of a split; the initiator bears the rounding difference.
RowsOf(share, fare) ==
    [u \in Places |->
        IF u = Initiator
        THEN [status |-> "accepted", intent |-> NoIntent,
              amount |-> fare - SumFunction(share)]
        ELSE IF u \in DOMAIN share
        THEN [status |-> "pending", amount |-> share[u], intent |-> NoIntent]
        ELSE NoShare]

-----------------------------------------------------------------------------
(***************************************************************************)
(* Requests.  Each ends with one COMMIT.                                   *)
(***************************************************************************)
Using(c, op) == splitCall[c] # Idle /\ splitCall[c].op = op

InStep(c, op, at) == Using(c, op) /\ splitCall[c].at = at

Occupy(c, record) ==
    /\ splitCall[c] = Idle
    /\ splitCall' = [splitCall EXCEPT ![c] = record]
    /\ UNCHANGED <<split, paymentVars, stripeVars>>

Release(c) == splitCall' = [splitCall EXCEPT ![c] = Idle]

\* Rows that an open transaction has updated: a decline flushes the new status
\* when it queries for the initiator's row.
Held(r) ==
    {<<splitCall[c].group, splitCall[c].place>> :
        c \in {c \in SplitCalls : /\ InStep(c, "decline", "commit")
                                  /\ splitCall[c].ride = r}}

\* create_fare_split: no row of the ride is active.
LoadCreateSplit(c, r, invited) ==
    /\ ended[r] # "fee"
    /\ Rows(r, {"pending", "accepted"}) = {}
    /\ Cardinality(invited) + 1 <= MaxParticipants
    /\ \E share \in InvitedShares(invited, Fare(r)) :
           Occupy(c, [op |-> "create", ride |-> r,
                      rows |-> RowsOf(share, Fare(r))])

CommitCreateSplit(c) ==
    /\ Using(c, "create")
    /\ \E g \in GroupIds \ Made(splitCall[c].ride) :
           /\ g - 1 \in Made(splitCall[c].ride) \union {0}
           /\ split' = [split EXCEPT ![splitCall[c].ride][g] = splitCall[c].rows]
    /\ Release(c)
    /\ UNCHANGED <<paymentVars, stripeVars>>

\* respond_to_split and create_split_payment load the row of place u.
LoadAnswer(c, op, at, r, g, u) ==
    Occupy(c, [op |-> op, at |-> at, ride |-> r, group |-> g, place |-> u,
               amount |-> split[r][g][u].amount, left |-> 0,
               intent |-> NoIntent])

LoadAccept(c, r, g, u) ==
    /\ u # Initiator
    /\ split[r][g][u].status = "pending"
    /\ LoadAnswer(c, "accept", "commit", r, g, u)

LoadDecline(c, r, g, u) ==
    /\ u # Initiator
    /\ split[r][g][u].status = "pending"
    /\ LoadAnswer(c, "decline", "initiator", r, g, u)

CommitAccept(c) ==
    LET a == splitCall[c] IN
    /\ InStep(c, "accept", "commit")
    /\ <<a.group, a.place>> \notin Held(a.ride)
    /\ split' = [split EXCEPT ![a.ride][a.group][a.place].status = "accepted"]
    /\ Release(c)
    /\ UNCHANGED <<paymentVars, stripeVars>>

\* The query for the initiator's row raises when the ride had a split before.
LoadInitiator(c) ==
    LET a == splitCall[c] IN
    /\ InStep(c, "decline", "initiator")
    /\ <<a.group, a.place>> \notin Held(a.ride)
    /\ Made(a.ride) = {a.group}
    /\ splitCall' = [splitCall EXCEPT
           ![c].at = "commit",
           ![c].left = split[a.ride][a.group][Initiator].amount]
    /\ UNCHANGED <<split, paymentVars, stripeVars>>

\* The declined share goes to the initiator.
WithoutShare(rows, a) ==
    [rows EXCEPT ![a.place] = [@ EXCEPT !.status = "declined", !.amount = 0],
                 ![Initiator].amount =
                     IF a.amount = 0 THEN @ ELSE a.left + a.amount]

CommitDecline(c) ==
    LET a == splitCall[c] IN
    /\ InStep(c, "decline", "commit")
    /\ split' = [split EXCEPT ![a.ride][a.group] = WithoutShare(@, a)]
    /\ Release(c)
    /\ UNCHANGED <<paymentVars, stripeVars>>

\* create_split_payment.
LoadPayShare(c, r, g, u) ==
    /\ split[r][g][u].status = "accepted"
    /\ split[r][g][u].amount > 0
    /\ split[r][g][u].intent = NoIntent
    /\ LoadAnswer(c, "pay", "stripe", r, g, u)

StripeShare(c) ==
    /\ InStep(c, "pay", "stripe")
    /\ \E i \in NextIntents(splitCall[c].ride, "share") :
           /\ MakeIntent(i)
           /\ splitCall' = [splitCall EXCEPT ![c].at = "commit", ![c].intent = i]
    /\ UNCHANGED <<split, paymentVars>>

CommitPayShare(c) ==
    LET a == splitCall[c] IN
    /\ InStep(c, "pay", "commit")
    /\ <<a.group, a.place>> \notin Held(a.ride)
    /\ split' = [split EXCEPT ![a.ride][a.group][a.place].intent = a.intent]
    /\ Answer(a.intent)
    /\ Release(c)
    /\ UNCHANGED paymentVars

\* cancel_fare_split: every row that is not cancelled, whatever its status.
LoadCancelSplit(c, r) ==
    /\ Rows(r, SplitStatus \ {"none", "cancelled"}) # {}
    /\ Occupy(c, [op |-> "cancel", ride |-> r,
                  rows |-> Rows(r, SplitStatus \ {"none", "cancelled"})])

CommitCancelSplit(c) ==
    LET a == splitCall[c] IN
    /\ Using(c, "cancel")
    /\ a.rows \intersect Held(a.ride) = {}
    /\ split' = [split EXCEPT ![a.ride] =
           [g \in GroupIds |-> [u \in Places |->
               IF <<g, u>> \in a.rows
               THEN [@[g][u] EXCEPT !.status = "cancelled"] ELSE @[g][u]]]]
    /\ Release(c)
    /\ UNCHANGED <<paymentVars, stripeVars>>

SplitCallFails(c) ==
    /\ splitCall[c] # Idle
    /\ Release(c)
    /\ UNCHANGED <<split, paymentVars, stripeVars>>

SplitCallStep(c) ==
    \/ \E r \in Rides :
           \/ \E invited \in SUBSET (Places \ {Initiator}) \ {{}} :
                  LoadCreateSplit(c, r, invited)
           \/ LoadCancelSplit(c, r)
           \/ \E g \in GroupIds, u \in Places :
                  \/ LoadAccept(c, r, g, u)
                  \/ LoadDecline(c, r, g, u)
                  \/ LoadPayShare(c, r, g, u)
    \/ CommitCreateSplit(c)
    \/ CommitAccept(c)
    \/ LoadInitiator(c)
    \/ CommitDecline(c)
    \/ StripeShare(c)
    \/ CommitPayShare(c)
    \/ CommitCancelSplit(c)
    \/ SplitCallFails(c)
=============================================================================
