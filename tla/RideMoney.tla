----------------------------- MODULE RideMoney -----------------------------
(***************************************************************************)
(* Payments, tips, refunds and fare splits of the same rides, with one     *)
(* Stripe and one webhook.                                                 *)
(***************************************************************************)
EXTENDS FareSplits

moneyVars == <<stripeVars, paymentVars, splitVars>>

MoneyTypeOK == StripeTypeOK /\ PaymentsTypeOK /\ SplitsTypeOK

MoneyInit == StripeInit /\ PaymentsInit /\ SplitsInit

Paying    == PaymentStep /\ UNCHANGED splitVars
Splitting == \E c \in SplitCalls : SplitCallStep(c)

MoneyNext == Paying \/ Splitting

MoneySpec == MoneyInit /\ [][MoneyNext]_moneyVars

\* The payment's own intent, whose success Stripe will deliver again.
OwnUnacked(r) == {pay[r].intent} \intersect (Intents \ acked)

\* Stripe repeats a success until a delivery of it is answered 200, and not
\* every delivery of one dies: so much of one slot is enough.  Nothing is
\* assumed of events that were answered, of other slots, of clients and of
\* requests.
HookFairness(h) ==
    LET Alone(A) == A /\ UNCHANGED splitVars
    IN  /\ WF_moneyVars(Alone(CommitSucceeded(h) \/ CommitFailed(h)
                                  \/ HookFails(h)))
        /\ \A r \in Rides :
               /\ SF_moneyVars(Alone(\E i \in OwnUnacked(r) :
                                         LoadSucceeded(h, i)))
               /\ SF_moneyVars(Alone(/\ hook[h] # Idle
                                     /\ hook[h].of \in OwnUnacked(r)
                                     /\ CommitSucceeded(h)))

MoneyFairSpec == MoneySpec /\ \E h \in Hooks : HookFairness(h)

-----------------------------------------------------------------------------
Collected(i) == HasSucceeded(i)

\* A payment is COMPLETED only when somebody paid for the ride: by its own
\* intent, or by one that only names the ride (handle_payment_succeeded).
CompletedWasCollected ==
    \A r \in Rides :
        pay[r].status = "completed" =>
            \E i \in Intents :
                i.ride = r /\ Collected(i)
                /\ (i = pay[r].intent \/ i.kind \in {"tip", "share"})

\* A payment is REFUNDED only when Stripe gave its own money back, although
\* refunds, webhooks and tips of one ride overlap (process_refund).
RefundedWasReturned ==
    \A r \in Rides :
        pay[r].status = "refunded" => intent[pay[r].intent] = "refunded"

\* What the driver is paid is the fare plus the tip that is recorded, also
\* when two tips overlap and one overwrites the other (add_tip).
PayoutIncludesTip ==
    \A r \in Rides :
        pay[r] # NoPayment => pay[r].driverPayout = Owed + pay[r].tip

\* The shares of every split add up to the fare that was divided, through
\* rounding, declining, cancelling and failed requests (create_fare_split,
\* respond_to_split).  It takes one request about the ride's split at a time.
SharesCoverFare ==
    \A r \in Rides : \A g \in Made(r) :
        SumFunction(Amounts(split[r][g])) \in {Estimate, Fare(r)}

\* A delivery of the success of ride r's payment that found it recorded.
FoundRecorded(r) ==
    \E h \in Hooks : /\ hook[h] # Idle /\ hook[h].op = "succeeded"
                     /\ hook[h].of = pay[r].intent
                     /\ hook[h].loaded = "completed"

\* A fare or fee whose own intent was paid is recorded as COMPLETED, although
\* Stripe's events are late, repeated and reordered, deliveries die, and the
\* success is not sent again once it was answered.  It need not stay so: an
\* earlier attempt's failure may still come (handle_payment_failed).
PaidIsRecorded ==
    \A r \in Rides :
        (~FoundRecorded(r) /\ \E i \in OwnUnacked(r) : intent[i] = "paid")
            ~> pay[r].status = "completed"

-----------------------------------------------------------------------------
\* fare_splitting.py, handle_split_payment_succeeded: "Mark a split as paid
\* after Stripe confirms payment."  So a share's payment is not the ride's.
ShareIsNotTheFare ==
    \A r \in Rides :
        pay[r].status = "completed" => Collected(pay[r].intent)

-----------------------------------------------------------------------------
(***************************************************************************)
(* payouts.py: what calculate_settlement finds for the driver of all the   *)
(* rides, and create_payout adds up.                                       *)
(***************************************************************************)
Settled(kind) == {r \in Rides : ended[r] = kind /\ pay[r].status = "completed"}

Settlement ==
      MapThenSumSet(LAMBDA r : pay[r].driverPayout, Settled("fare"))
    + MapThenSumSet(LAMBDA r : pay[r].tip, Settled("fare"))
    + MapThenSumSet(LAMBDA r : pay[r].driverPayout, Settled("fee"))

\* payouts.py, create_payout: "calculating earnings from completed rides": the
\* riders were asked for as much as the driver earns.
SettlementIsEarned ==
    Settlement = MapThenSumSet(LAMBDA r : Owed + pay[r].tip,
                               Settled("fare") \union Settled("fee"))
=============================================================================
