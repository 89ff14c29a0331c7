------------------------------ MODULE Payments ------------------------------
(***************************************************************************)
(* services/payments.py and its endpoints: the payment a ride's end calls  *)
(* for (a fare when it was completed, a fee when it was cancelled late),   *)
(* the tip, the refund, and Stripe's webhook.                              *)
(*                                                                         *)
(* A ride has one payment row here: uq_payment_ride_type allows one of     *)
(* each type, and a ride ends one way.  A call loads the row, talks to     *)
(* Stripe and commits; in between other calls, of this or of another API   *)
(* instance, may run, and it may die.  COMMIT writes the columns that      *)
(* changed since the row was loaded.  Amounts are in cents.                *)
(***************************************************************************)
EXTENDS StripeIntents

CONSTANTS Calls,      \* slots for concurrent payment requests
          Hooks,      \* slots for concurrent webhook deliveries
          Owed,       \* what a ride's end costs the rider
          Tips        \* the amounts a rider may tip

ASSUME PaymentsAssumption == Owed \in Nat /\ Tips \subseteq Nat \ {0}

VARIABLES ended,   \* ended[r]: the type of payment the end of r calls for
          pay,     \* pay[r]: the row of table payments
          call,    \* call[c]: the request in slot c
          hook     \* hook[h]: the delivery in slot h

paymentVars == <<ended, pay, call, hook>>

PaymentStatus == {"none", "pending", "completed", "failed", "refunded"}

Payment == [status : PaymentStatus, intent : Intents \union {NoIntent},
            tip : Tips \union {0}, driverPayout : Nat]

NoPayment == [status |-> "none", intent |-> NoIntent, tip |-> 0,
              driverPayout |-> 0]

Idle == [op |-> "idle"]

Call == [op : {"create", "tip", "refund"}, at : {"stripe", "commit"},
         ride : Rides, copy : Payment, tip : Tips \union {0},
         intent : Intents \union {NoIntent}]

Delivery == [op : {"succeeded", "failed"}, of : Intents, ride : Rides,
             loaded : PaymentStatus]

PaymentsTypeOK ==
    /\ ended \in [Rides -> {"no", "fare", "fee"}]
    /\ pay \in [Rides -> Payment]
    /\ call \in [Calls -> Call \union {Idle}]
    /\ hook \in [Hooks -> Delivery \union {Idle}]

PaymentsInit ==
    /\ ended = [r \in Rides |-> "no"]
    /\ pay = [r \in Rides |-> NoPayment]
    /\ call = [c \in Calls |-> Idle]
    /\ hook = [h \in Hooks |-> Idle]

\* complete_ride sets actual_fare; cancel_ride finds that a fee is due.
RideEnds(r) ==
    /\ ended[r] = "no"
    /\ \E kind \in {"fare", "fee"} : ended' = [ended EXCEPT ![r] = kind]
    /\ UNCHANGED <<pay, call, hook, stripeVars>>

-----------------------------------------------------------------------------
(***************************************************************************)
(* Requests.                                                               *)
(***************************************************************************)
Begin(c, op, r, tip) ==
    /\ call[c] = Idle
    /\ call' = [call EXCEPT ![c] =
           [op |-> op, at |-> "stripe", ride |-> r, copy |-> pay[r],
            tip |-> tip, intent |-> NoIntent]]
    /\ UNCHANGED <<ended, pay, hook, stripeVars>>

At(c, op, at) == call[c] # Idle /\ call[c].op = op /\ call[c].at = at

Finish(c) == call' = [call EXCEPT ![c] = Idle]

\* PaymentIntent.create for the ride of the call in slot c.
AskStripe(c, kind) ==
    /\ \E i \in NextIntents(call[c].ride, kind) :
           /\ MakeIntent(i)
           /\ call' = [call EXCEPT ![c].at = "commit", ![c].intent = i]
    /\ UNCHANGED <<ended, pay, hook>>

\* COMMIT, after which the client is told the intent's secret.
CommitAndAnswer(c, row) ==
    /\ pay' = [pay EXCEPT ![call[c].ride] = row]
    /\ Answer(call[c].intent)
    /\ Finish(c)
    /\ UNCHANGED <<ended, hook>>

\* The endpoint's guard: the ride is completed and its fare is known.  A fee is
\* asked for by cancel_ride.
MayPay(r) == ended[r] # "no"

\* create_payment_intent, create_cancellation_payment_intent: where the row
\* exists, its intent is returned and nothing changes.
LoadCreate(c, r) ==
    /\ MayPay(r)
    /\ pay[r] = NoPayment
    /\ Begin(c, "create", r, 0)

StripeCreate(c) ==
    /\ At(c, "create", "stripe")
    /\ AskStripe(c, ended[call[c].ride])

\* Mutant: the row is written over one that another call inserted.
CommitCreateOver(c) ==
    /\ At(c, "create", "commit")
    /\ CommitAndAnswer(c, [status |-> "pending", intent |-> call[c].intent,
                           tip |-> 0, driverPayout |-> Owed])

\* The row is inserted, ...
CommitCreate(c) ==
    /\ At(c, "create", "commit")
    /\ pay[call[c].ride] = NoPayment
    /\ CommitAndAnswer(c, [status |-> "pending", intent |-> call[c].intent,
                           tip |-> 0, driverPayout |-> Owed])

\* ... unless another call has: uq_payment_ride_type.
CreateRefused(c) ==
    /\ At(c, "create", "commit")
    /\ pay[call[c].ride] # NoPayment
    /\ Finish(c)
    /\ UNCHANGED <<ended, pay, hook, stripeVars>>

\* The endpoint's guard: the ride is completed.
MayTip(r) == ended[r] = "fare"

\* add_tip.
LoadTip(c, r, tip) ==
    /\ MayTip(r)
    /\ pay[r].status = "completed"
    /\ pay[r].tip = 0
    /\ Begin(c, "tip", r, tip)

StripeTip(c) ==
    /\ At(c, "tip", "stripe")
    /\ AskStripe(c, "tip")

\* Mutant: the payout is raised in the database, not computed from the copy.
CommitTipInPlace(c) ==
    /\ At(c, "tip", "commit")
    /\ CommitAndAnswer(c, [pay[call[c].ride] EXCEPT
           !.tip = call[c].tip, !.driverPayout = @ + call[c].tip])

\* Mutant: the tip is added to the one that is there.
CommitTipAdding(c) ==
    /\ At(c, "tip", "commit")
    /\ CommitAndAnswer(c, [pay[call[c].ride] EXCEPT
           !.tip = @ + call[c].tip,
           !.driverPayout = call[c].copy.driverPayout + call[c].tip])

CommitTip(c) ==
    /\ At(c, "tip", "commit")
    /\ CommitAndAnswer(c, [pay[call[c].ride] EXCEPT
           !.tip = call[c].tip,
           !.driverPayout = call[c].copy.driverPayout + call[c].tip])

\* The query asks for a payment of type RIDE_FARE.
MayRefund(r) == ended[r] = "fare"

\* process_refund.
LoadRefund(c, r) ==
    /\ MayRefund(r)
    /\ pay[r].status = "completed"
    /\ Begin(c, "refund", r, 0)

StripeRefund(c) ==
    /\ At(c, "refund", "stripe")
    /\ Refundable(call[c].copy.intent)
    /\ Refund(call[c].copy.intent)
    /\ call' = [call EXCEPT ![c].at = "commit"]
    /\ UNCHANGED <<ended, pay, hook>>

\* Mutant: the refund is recorded before Stripe has made it.
CommitRefundFirst(c) ==
    /\ call[c] # Idle /\ call[c].op = "refund"
    /\ pay' = [pay EXCEPT ![call[c].ride].status = "refunded"]
    /\ Finish(c)
    /\ UNCHANGED <<ended, hook, stripeVars>>

CommitRefund(c) ==
    /\ At(c, "refund", "commit")
    /\ pay' = [pay EXCEPT ![call[c].ride].status = "refunded"]
    /\ Finish(c)
    /\ UNCHANGED <<ended, hook, stripeVars>>

\* Stripe raises, or the call dies between two steps.
CallFails(c) ==
    /\ call[c] # Idle
    /\ Finish(c)
    /\ UNCHANGED <<ended, pay, hook, stripeVars>>

-----------------------------------------------------------------------------
(***************************************************************************)
(* POST /payments/webhook.                                                 *)
(***************************************************************************)
WithIntent(i) == {r \in Rides : pay[r].intent = i}

\* handle_payment_succeeded looks for the payment with the intent and, when
\* there is none, takes the one of the ride that the metadata names.  Where
\* there is none either, the delivery is answered and changes nothing; that is
\* never the success of a payment's own intent.
PaymentFor(i) ==
    IF WithIntent(i) # {} THEN WithIntent(i)
    ELSE {r \in {i.ride} : pay[r] # NoPayment}

Deliver(h, op, i, r) ==
    /\ hook[h] = Idle
    /\ hook' = [hook EXCEPT ![h] =
           [op |-> op, of |-> i, ride |-> r, loaded |-> pay[r].status]]
    /\ UNCHANGED <<ended, pay, call, stripeVars>>

\* Mutant: an event about a payment that is not pending is taken for a
\* repetition.
LoadSucceededOnce(h, i) ==
    /\ HasSucceeded(i)
    /\ \E r \in PaymentFor(i) :
           pay[r].status = "pending" /\ Deliver(h, "succeeded", i, r)

LoadSucceeded(h, i) ==
    /\ HasSucceeded(i)
    /\ \E r \in PaymentFor(i) : Deliver(h, "succeeded", i, r)

LoadFailed(h, i) ==
    /\ HasFailed(i)
    /\ \E r \in WithIntent(i) : Deliver(h, "failed", i, r)

\* The status is written if it differs from the one that was loaded.
CommitHook(h, op, status) ==
    /\ hook[h] # Idle
    /\ hook[h].op = op
    /\ pay' = IF hook[h].loaded = status THEN pay
              ELSE [pay EXCEPT ![hook[h].ride].status = status]
    /\ hook' = [hook EXCEPT ![h] = Idle]
    /\ UNCHANGED <<ended, call>>

CommitSucceeded(h) ==
    CommitHook(h, "succeeded", "completed") /\ Acknowledge(hook[h].of)

\* Mutant: the status of handle_payment_succeeded is copied.
CommitFailedCopied(h) ==
    CommitHook(h, "failed", "completed") /\ UNCHANGED stripeVars

CommitFailed(h) == CommitHook(h, "failed", "failed") /\ UNCHANGED stripeVars

\* The delivery dies unanswered.
HookFails(h) ==
    /\ hook[h] # Idle
    /\ hook' = [hook EXCEPT ![h] = Idle]
    /\ UNCHANGED <<ended, pay, call, stripeVars>>

-----------------------------------------------------------------------------
CallStep(c) ==
    \/ \E r \in Rides :
           \/ LoadCreate(c, r)
           \/ LoadRefund(c, r)
           \/ \E tip \in Tips : LoadTip(c, r, tip)
    \/ StripeCreate(c)
    \/ CommitCreate(c)
    \/ CreateRefused(c)
    \/ StripeTip(c)
    \/ CommitTip(c)
    \/ StripeRefund(c)
    \/ CommitRefund(c)
    \/ CallFails(c)

HookStep(h) ==
    \/ \E i \in Intents : LoadSucceeded(h, i) \/ LoadFailed(h, i)
    \/ CommitSucceeded(h)
    \/ CommitFailed(h)
    \/ HookFails(h)

PaymentStep ==
    \/ \E r \in Rides : RideEnds(r)
    \/ \E c \in Calls : CallStep(c)
    \/ \E h \in Hooks : HookStep(h)
    \/ Client /\ UNCHANGED paymentVars
=============================================================================
