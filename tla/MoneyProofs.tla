---------------------------- MODULE MoneyProofs ----------------------------
(***************************************************************************)
(* Proof that MoneyInv is an invariant of RideMoney, for any number of     *)
(* rides, requests and deliveries, and of what follows from it; that the   *)
(* shares of a split cover the fare; what the statuses of Payouts tell;    *)
(* and that MoneySystem has the properties of both.                        *)
(***************************************************************************)
EXTENDS MoneyInductive, MoneySystem, Sums

-----------------------------------------------------------------------------
USE StripeAssumption, PaymentsAssumption

\* Before the first ride has ended nothing is owed and nothing is asked.
LEMMA InitMoney == MoneyInit => PaymentsInv
BY DEF MoneyInit, StripeInit, PaymentsInit, SplitsInit, PaymentsInv, StripeTypeOK,
       PaymentsTypeOK, IntentStatus, Payment, PaymentStatus, NoPayment, Idle,
       IntentOK, RowOK, Exists, StatusOK, CallOK, SplitCallOK, SplitMaking,
       Making, OwnIntents, HookOK

-----------------------------------------------------------------------------
(***************************************************************************)
(* Requests about payments.                                                *)
(***************************************************************************)
\* A step that touches only the requests.
LEMMA OnlyCalls ==
    ASSUME PaymentsInv, UNCHANGED <<ended, pay, hook, stripeVars, splitVars>>,
           call' \in [Calls -> Call \union {Idle}],
           \A c \in Calls : CallOK(c)',
           \A c, o \in Calls : c # o /\ Making(c)' /\ Making(o)' =>
               call'[c].intent # call'[o].intent
    PROVE  PaymentsInv'
<1>1. StripeTypeOK' /\ PaymentsTypeOK' /\ (splitCall = [c \in SplitCalls |-> splitCall[c]])'
  BY DEF PaymentsInv, StripeTypeOK, PaymentsTypeOK, stripeVars, splitVars
<1>2. \A i \in Intents : IntentOK(i)'
  BY DEF PaymentsInv, IntentOK, stripeVars
<1>3. \A r \in Rides : RowOK(r)' /\ StatusOK(r)'
  BY DEF PaymentsInv, RowOK, Exists, StatusOK, PaidFor, HasSucceeded, stripeVars
<1>4. \A c \in SplitCalls : SplitCallOK(c)'
  BY DEF PaymentsInv, SplitCallOK, SplitMaking, stripeVars, splitVars
<1>5. OwnIntents'
  BY DEF PaymentsInv, OwnIntents, SplitMaking, splitVars
<1>6. \A h \in Hooks : HookOK(h)'
  BY DEF PaymentsInv, HookOK, Exists, PaidFor, HasSucceeded, stripeVars
<1> QED BY <1>1, <1>2, <1>3, <1>4, <1>5, <1>6 DEF PaymentsInv

LEMMA LoadKeeps ==
    ASSUME PaymentsInv, NEW c \in Calls, NEW r \in Rides, UNCHANGED splitVars,
           \/ LoadCreate(c, r)
           \/ LoadRefund(c, r)
           \/ \E tip \in Tips : LoadTip(c, r, tip)
    PROVE  PaymentsInv'
<1> USE DEF PaymentsInv
<1>1. PICK op \in {"create", "tip", "refund"}, tip \in Tips \union {0} :
          /\ Begin(c, op, r, tip)
          /\ op = "create" => ended[r] # "no"
          /\ op \in {"tip", "refund"} => pay[r].status = "completed"
          /\ op = "tip" => pay[r].tip = 0
  BY DEF LoadCreate, LoadRefund, LoadTip, MayPay
<1>2. /\ UNCHANGED <<ended, pay, hook, stripeVars, splitVars>>
      /\ call' = [call EXCEPT ![c] =
             [op |-> op, at |-> "stripe", ride |-> r, copy |-> pay[r],
              tip |-> tip, intent |-> NoIntent]]
  BY <1>1 DEF Begin
<1>3. call' \in [Calls -> Call \union {Idle}]
  BY <1>2 DEF PaymentsTypeOK, Call
<1>4. op \in {"tip", "refund"} => Exists(r)
  BY <1>1 DEF Exists, NoPayment
<1>5. \A k \in Calls : CallOK(k)'
  <2> SUFFICES ASSUME NEW k \in Calls PROVE CallOK(k)'
    OBVIOUS
  <2>1. CASE k = c
    <3>1. call'[k] = [op |-> op, at |-> "stripe", ride |-> r, copy |-> pay[r],
                      tip |-> tip, intent |-> NoIntent]
      BY <1>2, <2>1 DEF PaymentsTypeOK
    <3>2. call'[k] \in Call
      BY <3>1 DEF Call, PaymentsTypeOK
    <3> QED BY <1>1, <1>2, <1>4, <3>1, <3>2
         DEF CallOK, Making, Exists, PaymentsTypeOK, RowOK, Payment
  <2>2. CASE k # c
    <3>1. call'[k] = call[k]
      BY <1>2, <2>2 DEF PaymentsTypeOK
    <3> QED BY <1>2, <3>1 DEF CallOK, Making, Exists, stripeVars
  <2> QED BY <2>1, <2>2
<1>6. \A k, o \in Calls : k # o /\ Making(k)' /\ Making(o)' =>
          call'[k].intent # call'[o].intent
  BY <1>2 DEF OwnIntents, Making, PaymentsTypeOK
<1> QED BY <1>2, <1>3, <1>5, <1>6, OnlyCalls

LEMMA EndKeeps ==
    ASSUME PaymentsInv, NEW c \in Calls, UNCHANGED splitVars,
           CreateRefused(c) \/ CallFails(c)
    PROVE  PaymentsInv'
<1> USE DEF PaymentsInv
<1>1. /\ UNCHANGED <<ended, pay, hook, stripeVars, splitVars>>
      /\ call' = [call EXCEPT ![c] = Idle]
  BY DEF CreateRefused, CallFails, Finish
<1>2. call' \in [Calls -> Call \union {Idle}]
  BY <1>1 DEF PaymentsTypeOK
<1>3. \A k \in Calls : call'[k] = Idle \/ call'[k] = call[k]
  BY <1>1 DEF PaymentsTypeOK
<1>4. \A k \in Calls : CallOK(k)'
  BY <1>1, <1>3 DEF CallOK, Making, Exists, stripeVars
<1>5. \A k, o \in Calls : k # o /\ Making(k)' /\ Making(o)' =>
          call'[k].intent # call'[o].intent
  BY <1>3 DEF OwnIntents, Making
<1> QED BY <1>1, <1>2, <1>4, <1>5, OnlyCalls

-----------------------------------------------------------------------------
(***************************************************************************)
(* Steps of Stripe.  Money that was paid stays paid, money that was        *)
(* returned stays returned.                                                *)
(***************************************************************************)
MoneyStays ==
    \A i \in Intents : /\ HasSucceeded(i) => HasSucceeded(i)'
                       /\ intent[i] = "refunded" => intent'[i] = "refunded"

\* What does not mention the requests survives when rows and deliveries stay.
LEMMA RowsStay ==
    ASSUME PaymentsInv, MoneyStays, UNCHANGED <<pay, hook>>
    PROVE  /\ \A r \in Rides : RowOK(r)' /\ StatusOK(r)'
           /\ \A h \in Hooks : HookOK(h)'
<1>1. \A r \in Rides : PaidFor(r) => PaidFor(r)'
  BY DEF PaidFor, MoneyStays
<1>2. \A r \in Rides : RowOK(r)' /\ StatusOK(r)'
  BY <1>1 DEF PaymentsInv, RowOK, StatusOK, Exists, MoneyStays, PaymentsTypeOK, Payment,
              NoPayment
<1>3. \A h \in Hooks : HookOK(h)'
  BY <1>1 DEF PaymentsInv, HookOK, Exists, Delivery
<1> QED BY <1>2, <1>3

LEMMA MadeStays ==
    ASSUME PaymentsInv, NEW i \in Intents, intent[i] = "none", MakeIntent(i)
    PROVE  /\ StripeTypeOK'
           /\ MoneyStays
           /\ \A j \in Intents : IntentOK(j) /\ UNCHANGED pay => IntentOK(j)'
           /\ \A j \in Intents : intent[j] = "made" => intent'[j] = "made" /\ j # i
           /\ intent'[i] = "made"
BY DEF PaymentsInv, StripeTypeOK, MakeIntent, MoneyStays, HasSucceeded, IntentOK,
       IntentStatus

\* Rows stay, with their intents.
RowsPersist ==
    \A r \in Rides : Exists(r) => Exists(r)' /\ pay'[r].intent = pay[r].intent

\* A request that the step does not touch, while intents it has made stay made.
LEMMA CallStays ==
    ASSUME PaymentsInv, MoneyStays, RowsPersist, NEW k \in Calls,
           call'[k] = call[k], UNCHANGED ended,
           Making(k) => intent'[call[k].intent] = "made"
    PROVE  CallOK(k)' /\ (Making(k)' <=> Making(k))
<1>1. CallOK(k) /\ \A r \in Rides : RowOK(r)
  BY DEF PaymentsInv
<1>2. Making(k)' <=> Making(k)
  BY DEF Making
<1>3. CASE call[k] = Idle
  BY <1>2, <1>3 DEF CallOK
<1>4. CASE call[k] # Idle
  <2>1. call[k] \in Call /\ call[k].ride \in Rides
    BY <1>1, <1>4 DEF CallOK, Call
  <2>2. call[k].op = "refund" /\ call[k].at = "commit" =>
            intent'[pay[call[k].ride].intent] = "refunded"
    BY <1>1, <1>4, <2>1 DEF CallOK, MoneyStays, RowOK, RowsPersist
  <2>3. Exists(call[k].ride) =>
            Exists(call[k].ride)'
            /\ pay'[call[k].ride].intent = pay[call[k].ride].intent
    BY <2>1 DEF RowsPersist
  <2> QED BY <1>1, <1>2, <1>4, <2>1, <2>2, <2>3 DEF CallOK
<1> QED BY <1>2, <1>3, <1>4

LEMMA AskKeeps ==
    ASSUME PaymentsInv, NEW c \in Calls, UNCHANGED splitVars,
           StripeCreate(c) \/ StripeTip(c)
    PROVE  PaymentsInv'
<1> USE DEF PaymentsInv
<1>1. PICK i \in Intents :
          /\ intent[i] = "none"
          /\ i.ride = call[c].ride
          /\ \/ At(c, "create", "stripe") /\ i.kind = ended[call[c].ride]
             \/ At(c, "tip", "stripe") /\ i.kind = "tip"
          /\ MakeIntent(i)
          /\ call' = [call EXCEPT ![c].at = "commit", ![c].intent = i]
          /\ UNCHANGED <<ended, pay, hook, splitVars>>
  BY DEF StripeCreate, StripeTip, AskStripe, NextIntents
<1>2. /\ StripeTypeOK' /\ MoneyStays /\ intent'[i] = "made"
      /\ \A j \in Intents : IntentOK(j)'
      /\ \A j \in Intents : intent[j] = "made" => intent'[j] = "made" /\ j # i
  BY <1>1, MadeStays
<1>3. \A k \in Calls : k # c => call'[k] = call[k]
  BY <1>1 DEF PaymentsTypeOK
<1>4. /\ call[c] \in Call /\ call'[c] \in Call
      /\ call'[c].at = "commit" /\ call'[c].intent = i
      /\ call'[c].op = call[c].op /\ call'[c].ride = call[c].ride
      /\ call'[c].copy = call[c].copy
  <2>1. call[c] \in Call
    BY <1>1 DEF At, PaymentsTypeOK
  <2> QED BY <1>1, <2>1 DEF PaymentsTypeOK, Call
<1>5. PaymentsTypeOK'
  BY <1>1, <1>4 DEF PaymentsTypeOK
<1>6. \A k \in Calls : CallOK(k)'
  <2> SUFFICES ASSUME NEW k \in Calls PROVE CallOK(k)'
    OBVIOUS
  <2>1. CASE k = c
    BY <1>1, <1>2, <1>4, <2>1 DEF CallOK, Making, At, Exists, Call
  <2>2. CASE k # c
    <3>1. Making(k) => intent'[call[k].intent] = "made"
      BY <1>2 DEF CallOK, Making
    <3>2. RowsPersist
      BY <1>1 DEF RowsPersist, Exists
    <3> QED BY <1>1, <1>2, <1>3, <2>2, <3>1, <3>2, CallStays
  <2> QED BY <2>1, <2>2
<1>7. \A k \in SplitCalls : SplitCallOK(k)'
  BY <1>1, <1>2 DEF SplitCallOK, SplitMaking, splitVars
<1>8. OwnIntents'
  <2>1. \A k \in Calls \ {c} : Making(k)' => call'[k].intent = call[k].intent
                                             /\ call[k].intent # i /\ Making(k)
    BY <1>2, <1>3 DEF CallOK, Making
  <2>2. call'[c].intent = i
    BY <1>4 DEF Call
  <2>3. \A k, o \in Calls : k # o /\ Making(k)' /\ Making(o)' =>
            call'[k].intent # call'[o].intent
    BY <2>1, <2>2 DEF OwnIntents
  <2>4. \A k, o \in SplitCalls : k # o /\ SplitMaking(k)' /\ SplitMaking(o)' =>
            splitCall'[k].intent # splitCall'[o].intent
    BY <1>1 DEF OwnIntents, SplitMaking, splitVars
  <2> QED BY <2>3, <2>4 DEF OwnIntents
<1>9. splitCall' = [k \in SplitCalls |-> splitCall'[k]]
  BY <1>1 DEF splitVars
<1> QED BY <1>1, <1>2, <1>5, <1>6, <1>7, <1>8, <1>9, RowsStay DEF PaymentsInv

LEMMA RefundStep ==
    ASSUME PaymentsInv, NEW c \in Calls, UNCHANGED splitVars, StripeRefund(c)
    PROVE  PaymentsInv'
<1> USE DEF PaymentsInv
<1> DEFINE i == call[c].copy.intent
<1>1. /\ At(c, "refund", "stripe")
      /\ intent[i] = "paid"
      /\ intent' = [intent EXCEPT ![i] = "refunded"]
      /\ call' = [call EXCEPT ![c].at = "commit"]
      /\ UNCHANGED <<ended, pay, hook, declined, acked, splitVars>>
  BY DEF StripeRefund, Refundable, Refund
<1>2. /\ call[c] \in Call /\ call'[c] \in Call
      /\ call'[c].at = "commit" /\ call'[c].intent = call[c].intent
      /\ call'[c].op = call[c].op /\ call'[c].ride = call[c].ride
      /\ call'[c].copy = call[c].copy
      /\ i = pay[call[c].ride].intent /\ i \in Intents
  <2>1. call[c] \in Call
    BY <1>1 DEF At, PaymentsTypeOK
  <2>2. i = pay[call[c].ride].intent /\ i \in Intents
    BY <1>1, <2>1 DEF At, CallOK, RowOK, Call
  <2> QED BY <1>1, <2>1, <2>2 DEF PaymentsTypeOK, Call
<1>3. \A k \in Calls : k # c => call'[k] = call[k]
  BY <1>1 DEF PaymentsTypeOK
<1>4. PaymentsTypeOK'
  BY <1>1, <1>2 DEF PaymentsTypeOK
<1>5. StripeTypeOK' /\ MoneyStays
  BY <1>1, <1>2 DEF StripeTypeOK, IntentStatus, MoneyStays, HasSucceeded
<1>6. \A j \in Intents : /\ intent[j] = "made" => intent'[j] = "made"
                         /\ IntentOK(j)'
  BY <1>1, <1>2 DEF StripeTypeOK, IntentOK
<1>7. \A k \in Calls : CallOK(k)'
  <2> SUFFICES ASSUME NEW k \in Calls PROVE CallOK(k)'
    OBVIOUS
  <2>1. CASE k = c
    BY <1>1, <1>2, <2>1 DEF CallOK, Making, At, Exists, Call, StripeTypeOK
  <2>2. CASE k # c
    <3>1. Making(k) => intent'[call[k].intent] = "made"
      BY <1>6 DEF CallOK, Making
    <3>2. RowsPersist
      BY <1>1 DEF RowsPersist, Exists
    <3> QED BY <1>1, <1>3, <1>5, <2>2, <3>1, <3>2, CallStays
  <2> QED BY <2>1, <2>2
<1>8. \A k \in SplitCalls : SplitCallOK(k)'
  BY <1>1, <1>6 DEF SplitCallOK, SplitMaking, splitVars
<1>9. OwnIntents'
  <2>1. ~Making(c)'
    BY <1>1, <1>2 DEF Making, At, Call
  <2> QED BY <1>1, <1>3, <2>1 DEF OwnIntents, Making, SplitMaking, splitVars
<1>10. splitCall' = [k \in SplitCalls |-> splitCall'[k]]
  BY <1>1 DEF splitVars
<1> QED BY <1>1, <1>4, <1>5, <1>6, <1>7, <1>8, <1>9, <1>10, RowsStay DEF PaymentsInv

-----------------------------------------------------------------------------
(***************************************************************************)
(* Commits.                                                                *)
(***************************************************************************)
\* A delivery that the step does not touch.
LEMMA HookStays ==
    ASSUME PaymentsInv, MoneyStays, RowsPersist, NEW h \in Hooks,
           hook'[h] = hook[h]
    PROVE  HookOK(h)'
<1>1. HookOK(h)
  BY DEF PaymentsInv
<1>2. CASE hook[h] = Idle
  BY <1>2 DEF HookOK
<1>3. CASE hook[h] # Idle
  <2>1. hook[h] \in Delivery /\ hook[h].ride \in Rides /\ Exists(hook[h].ride)
    BY <1>1, <1>3 DEF HookOK, Delivery
  <2>2. PaidFor(hook[h].ride) => PaidFor(hook[h].ride)'
    BY <2>1 DEF PaidFor, MoneyStays, RowsPersist
  <2>3. Exists(hook[h].ride)'
    BY <2>1 DEF RowsPersist
  <2> QED BY <1>1, <1>3, <2>1, <2>2, <2>3 DEF HookOK
<1> QED BY <1>2, <1>3

\* Answering with an intent that a request has made.
LEMMA AnswerStays ==
    ASSUME PaymentsInv, NEW i \in Intents, intent[i] = "made", Answer(i)
    PROVE  /\ StripeTypeOK'
           /\ MoneyStays
           /\ \A j \in Intents : j # i => intent'[j] = intent[j]
           /\ intent'[i] \in {"made", "open"}
BY DEF PaymentsInv, StripeTypeOK, Answer, MoneyStays, HasSucceeded, IntentStatus

\* A request for a payment or a tip commits, answers and ends.
LEMMA AnswerCalls ==
    ASSUME PaymentsInv, NEW c \in Calls, Making(c), Answer(call[c].intent),
           RowsPersist, call' = [call EXCEPT ![c] = Idle],
           UNCHANGED <<ended, splitVars>>
    PROVE  /\ call' \in [Calls -> Call \union {Idle}]
           /\ \A k \in Calls : CallOK(k)'
           /\ \A k \in SplitCalls : SplitCallOK(k)'
           /\ OwnIntents'
<1> DEFINE i == call[c].intent
<1>1. /\ i \in Intents /\ intent[i] = "made"
      /\ i.kind \in {"tip", "fare", "fee"}
  BY DEF PaymentsInv, CallOK, Making
<1>2. /\ MoneyStays
      /\ \A j \in Intents : j # i => intent'[j] = intent[j]
  BY <1>1, AnswerStays
<1>3. call'[c] = Idle /\ \A k \in Calls : k # c => call'[k] = call[k]
  BY DEF PaymentsInv, PaymentsTypeOK
<1>4. call' \in [Calls -> Call \union {Idle}]
  BY DEF PaymentsInv, PaymentsTypeOK
<1>5. \A k \in Calls : CallOK(k)'
  <2> SUFFICES ASSUME NEW k \in Calls PROVE CallOK(k)'
    OBVIOUS
  <2>1. CASE k = c
    BY <1>3, <2>1 DEF CallOK, Making
  <2>2. CASE k # c
    <3>1. Making(k) => intent'[call[k].intent] = "made"
      BY <1>2, <2>2 DEF PaymentsInv, CallOK, Making, OwnIntents
    <3> QED BY <1>2, <1>3, <2>2, <3>1, CallStays
  <2> QED BY <2>1, <2>2
<1>6. \A k \in SplitCalls : SplitCallOK(k)'
  BY <1>1, <1>2 DEF PaymentsInv, SplitCallOK, SplitMaking, splitVars
<1>7. OwnIntents'
  BY <1>3 DEF PaymentsInv, OwnIntents, Making, SplitMaking, splitVars
<1> QED BY <1>4, <1>5, <1>6, <1>7

LEMMA CreateKeeps ==
    ASSUME PaymentsInv, NEW c \in Calls, UNCHANGED splitVars, CommitCreate(c)
    PROVE  PaymentsInv'
<1> DEFINE i == call[c].intent
           r == call[c].ride
           row == [status |-> "pending", intent |-> i, tip |-> 0,
                   driverPayout |-> Owed]
<1>1. /\ At(c, "create", "commit")
      /\ pay[r] = NoPayment
      /\ pay' = [pay EXCEPT ![r] = row]
      /\ Answer(i)
      /\ call' = [call EXCEPT ![c] = Idle]
      /\ UNCHANGED <<ended, hook, splitVars>>
  BY DEF CommitCreate, CommitAndAnswer, Finish
<1>2. Making(c)
  BY <1>1 DEF Making, At
<1>3. /\ r \in Rides /\ i \in Intents /\ i.ride = r
      /\ i.kind \in {"fare", "fee"} /\ intent[i] = "made"
  BY <1>1, <1>2 DEF PaymentsInv, CallOK, At, Call
<1>4. /\ StripeTypeOK' /\ MoneyStays /\ intent'[i] \in {"made", "open"}
      /\ \A j \in Intents : j # i => intent'[j] = intent[j]
  BY <1>1, <1>3, AnswerStays
<1>5. pay'[r] = row /\ \A s \in Rides : s # r => pay'[s] = pay[s]
  BY <1>1, <1>3 DEF PaymentsInv, PaymentsTypeOK
<1>6. row \in Payment
  BY <1>3 DEF Payment, PaymentStatus
<1>7. RowsPersist /\ ~Exists(r)
  BY <1>1, <1>5 DEF RowsPersist, Exists
<1>8. /\ call' \in [Calls -> Call \union {Idle}]
      /\ \A k \in Calls : CallOK(k)'
      /\ \A k \in SplitCalls : SplitCallOK(k)'
      /\ OwnIntents'
  BY <1>1, <1>2, <1>7, AnswerCalls
<1>9. PaymentsTypeOK'
  BY <1>1, <1>3, <1>6, <1>8 DEF PaymentsInv, PaymentsTypeOK
<1>10. \A j \in Intents : IntentOK(j)'
  <2> SUFFICES ASSUME NEW j \in Intents PROVE IntentOK(j)'
    OBVIOUS
  <2>1. CASE j = i
    BY <1>3, <1>5, <2>1 DEF IntentOK
  <2>2. CASE j # i /\ j.ride = r
    BY <1>1, <1>4, <2>2 DEF PaymentsInv, IntentOK, NoPayment
  <2>3. CASE j # i /\ j.ride # r
    <3>1. j.ride \in Rides
      BY DEF Intents
    <3> QED BY <1>4, <1>5, <2>3, <3>1 DEF PaymentsInv, IntentOK
  <2> QED BY <2>1, <2>2, <2>3
<1>11. \A s \in Rides : RowOK(s)' /\ StatusOK(s)'
  <2> SUFFICES ASSUME NEW s \in Rides PROVE RowOK(s)' /\ StatusOK(s)'
    OBVIOUS
  <2>1. CASE s = r
    BY <1>3, <1>5, <2>1 DEF RowOK, StatusOK
  <2>2. CASE s # r
    <3>1. pay'[s] = pay[s]
      BY <1>5, <2>2
    <3>2. PaidFor(s) => PaidFor(s)'
      BY <1>4, <3>1 DEF PaidFor, MoneyStays
    <3>3. pay[s].status = "refunded" => Exists(s)
      BY DEF Exists, NoPayment
    <3> QED BY <1>4, <3>1, <3>2, <3>3
         DEF PaymentsInv, RowOK, StatusOK, Exists, MoneyStays
  <2> QED BY <2>1, <2>2
<1>12. \A h \in Hooks : HookOK(h)'
  BY <1>1, <1>4, <1>7, HookStays
<1>13. splitCall' = [k \in SplitCalls |-> splitCall'[k]]
  BY <1>1 DEF PaymentsInv, splitVars
<1> QED BY <1>4, <1>8, <1>9, <1>10, <1>11, <1>12, <1>13 DEF PaymentsInv

\* A row changes and keeps its intent.
LEMMA RowStep ==
    ASSUME PaymentsInv, MoneyStays, StripeTypeOK',
           \A i \in Intents :
               i.kind \in {"fare", "fee"} => intent'[i] = intent[i],
           NEW r \in Rides, NEW row \in Payment, Exists(r),
           pay' = [pay EXCEPT ![r] = row],
           row.intent = pay[r].intent, row.status # "none",
           row.driverPayout = Owed + row.tip,
           row.status = "completed" => PaidFor(r),
           row.status = "refunded" => intent[row.intent] = "refunded"
    PROVE  /\ RowsPersist
           /\ pay' \in [Rides -> Payment]
           /\ \A i \in Intents : IntentOK(i)'
           /\ \A s \in Rides : RowOK(s)' /\ StatusOK(s)'
<1>1. pay'[r] = row /\ \A s \in Rides : s # r => pay'[s] = pay[s]
  BY DEF PaymentsInv, PaymentsTypeOK
<1>2. Exists(r)'
  BY <1>1 DEF Exists, NoPayment
<1>3. RowsPersist
  BY <1>1, <1>2 DEF RowsPersist, Exists
<1>4. pay' \in [Rides -> Payment]
  BY DEF PaymentsInv, PaymentsTypeOK
<1>5. \A s \in Rides : pay'[s].intent = pay[s].intent
  BY <1>1
<1>6. \A i \in Intents : IntentOK(i)'
  <2> SUFFICES ASSUME NEW i \in Intents PROVE IntentOK(i)'
    OBVIOUS
  <2>1. i.ride \in Rides
    BY DEF Intents
  <2> QED BY <1>5, <2>1 DEF PaymentsInv, IntentOK
<1>7. \A s \in Rides : PaidFor(s) => PaidFor(s)'
  BY <1>5 DEF PaidFor, MoneyStays
<1>8. \A s \in Rides : RowOK(s)' /\ StatusOK(s)'
  <2> SUFFICES ASSUME NEW s \in Rides PROVE RowOK(s)' /\ StatusOK(s)'
    OBVIOUS
  <2>1. RowOK(s) /\ StatusOK(s)
    BY DEF PaymentsInv
  <2>2. CASE s = r
    BY <1>1, <1>7, <2>1, <2>2 DEF RowOK, StatusOK, MoneyStays
  <2>3. CASE s # r
    <3>1. pay[s].status = "refunded" => pay[s].intent \in Intents
      BY <2>1 DEF RowOK, Exists, NoPayment
    <3> QED BY <1>1, <1>7, <2>1, <2>3, <3>1
         DEF RowOK, StatusOK, Exists, MoneyStays
  <2> QED BY <2>2, <2>3
<1> QED BY <1>3, <1>4, <1>6, <1>8

\* A step that makes no intent and takes none back; a request may end.
LEMMA CallsEnd ==
    ASSUME PaymentsInv, MoneyStays, RowsPersist, UNCHANGED <<ended, splitVars>>,
           \A i \in Intents : intent[i] = "made" => intent'[i] = "made",
           call' \in [Calls -> Call \union {Idle}],
           \A k \in Calls : call'[k] = call[k] \/ call'[k] = Idle
    PROVE  /\ \A k \in Calls : CallOK(k)'
           /\ \A k \in SplitCalls : SplitCallOK(k)'
           /\ OwnIntents'
           /\ splitCall' = [k \in SplitCalls |-> splitCall'[k]]
<1>1. \A k \in Calls : CallOK(k)'
  <2> SUFFICES ASSUME NEW k \in Calls PROVE CallOK(k)'
    OBVIOUS
  <2>1. CASE call'[k] = Idle
    BY <2>1 DEF CallOK, Making
  <2>2. CASE call'[k] = call[k]
    <3>1. Making(k) => intent'[call[k].intent] = "made"
      BY DEF PaymentsInv, CallOK, Making
    <3> QED BY <2>2, <3>1, CallStays
  <2> QED BY <2>1, <2>2
<1>2. \A k \in SplitCalls : SplitCallOK(k)'
  BY DEF PaymentsInv, SplitCallOK, SplitMaking, splitVars
<1>3. OwnIntents'
  BY DEF PaymentsInv, OwnIntents, Making, SplitMaking, splitVars
<1>4. splitCall' = [k \in SplitCalls |-> splitCall'[k]]
  BY DEF PaymentsInv, splitVars
<1> QED BY <1>1, <1>2, <1>3, <1>4

LEMMA TipKeeps ==
    ASSUME PaymentsInv, NEW c \in Calls, UNCHANGED splitVars, CommitTip(c)
    PROVE  PaymentsInv'
<1> DEFINE i == call[c].intent
           r == call[c].ride
           row == [pay[r] EXCEPT !.tip = call[c].tip,
                                 !.driverPayout = call[c].copy.driverPayout
                                                  + call[c].tip]
<1>1. /\ At(c, "tip", "commit")
      /\ pay' = [pay EXCEPT ![r] = row]
      /\ Answer(i)
      /\ call' = [call EXCEPT ![c] = Idle]
      /\ UNCHANGED <<ended, hook, splitVars>>
  BY DEF CommitTip, CommitAndAnswer, Finish
<1>2. Making(c)
  BY <1>1 DEF Making, At
<1>3. /\ r \in Rides /\ Exists(r) /\ i \in Intents /\ i.kind = "tip"
      /\ intent[i] = "made" /\ call[c].copy.driverPayout = Owed
      /\ call[c].tip \in Tips \union {0}
  BY <1>1, <1>2 DEF PaymentsInv, CallOK, At, Call
<1>4. /\ StripeTypeOK' /\ MoneyStays
      /\ \A j \in Intents : j # i => intent'[j] = intent[j]
  BY <1>1, <1>3, AnswerStays
<1>5. pay[r] \in Payment /\ RowOK(r) /\ StatusOK(r)
  BY <1>3 DEF PaymentsInv, PaymentsTypeOK
<1>6. /\ row.tip = call[c].tip /\ row.driverPayout = Owed + row.tip
      /\ row.status = pay[r].status /\ row.intent = pay[r].intent
  BY <1>3, <1>5 DEF Payment
<1>7. row \in Payment
  <2>1. Owed + call[c].tip \in Nat
    <3>1. Owed \in Nat /\ Tips \subseteq Nat
      BY PaymentsAssumption
    <3>2. \A t \in Tips \union {0} : Owed + t \in Nat
      BY <3>1
    <3> QED BY <1>3, <3>2, Zenon
  <2> QED BY <1>3, <1>5, <2>1 DEF Payment
<1>8. /\ RowsPersist
      /\ pay' \in [Rides -> Payment]
      /\ \A j \in Intents : IntentOK(j)'
      /\ \A s \in Rides : RowOK(s)' /\ StatusOK(s)'
  <2>1. \A j \in Intents :
            j.kind \in {"fare", "fee"} => intent'[j] = intent[j]
    BY <1>3, <1>4
  <2>2. row.status # "none"
    BY <1>3, <1>5, <1>6 DEF RowOK
  <2>3. row.status = "completed" => PaidFor(r)
    BY <1>5, <1>6 DEF StatusOK
  <2>4. row.status = "refunded" => intent[row.intent] = "refunded"
    BY <1>5, <1>6 DEF StatusOK
  <2> HIDE DEF row
  <2> QED BY <1>1, <1>3, <1>4, <1>6, <1>7, <2>1, <2>2, <2>3, <2>4, RowStep
<1>9. /\ call' \in [Calls -> Call \union {Idle}]
      /\ \A k \in Calls : CallOK(k)'
      /\ \A k \in SplitCalls : SplitCallOK(k)'
      /\ OwnIntents'
  BY <1>1, <1>2, <1>8, AnswerCalls
<1>10. PaymentsTypeOK'
  BY <1>1, <1>8, <1>9 DEF PaymentsInv, PaymentsTypeOK
<1>11. \A h \in Hooks : HookOK(h)'
  BY <1>1, <1>4, <1>8, HookStays
<1>12. splitCall' = [k \in SplitCalls |-> splitCall'[k]]
  BY <1>1 DEF PaymentsInv, splitVars
<1> QED BY <1>4, <1>8, <1>9, <1>10, <1>11, <1>12 DEF PaymentsInv

LEMMA RefundCommit ==
    ASSUME PaymentsInv, NEW c \in Calls, UNCHANGED splitVars, CommitRefund(c)
    PROVE  PaymentsInv'
<1> DEFINE r == call[c].ride
           row == [pay[r] EXCEPT !.status = "refunded"]
<1>1. /\ At(c, "refund", "commit")
      /\ pay' = [pay EXCEPT ![r] = row]
      /\ call' = [call EXCEPT ![c] = Idle]
      /\ UNCHANGED <<ended, hook, splitVars, stripeVars>>
  BY DEF CommitRefund, Finish
<1>2. /\ r \in Rides /\ Exists(r)
      /\ intent[pay[r].intent] = "refunded"
  BY <1>1 DEF PaymentsInv, CallOK, At, Call
<1>3. StripeTypeOK' /\ MoneyStays /\ intent' = intent
  BY <1>1 DEF PaymentsInv, stripeVars, StripeTypeOK, MoneyStays, HasSucceeded
<1>4. pay[r] \in Payment /\ RowOK(r)
  BY <1>2 DEF PaymentsInv, PaymentsTypeOK
<1>5. /\ row.status = "refunded" /\ row.intent = pay[r].intent
      /\ row.tip = pay[r].tip /\ row.driverPayout = pay[r].driverPayout
      /\ row \in Payment
  BY <1>4 DEF Payment, PaymentStatus
<1>6. row.driverPayout = Owed + row.tip
  BY <1>2, <1>4, <1>5 DEF RowOK
<1>7. /\ RowsPersist
      /\ pay' \in [Rides -> Payment]
      /\ \A j \in Intents : IntentOK(j)'
      /\ \A s \in Rides : RowOK(s)' /\ StatusOK(s)'
  <2> HIDE DEF row
  <2> QED BY <1>1, <1>2, <1>3, <1>5, <1>6, RowStep
<1>8. /\ call' \in [Calls -> Call \union {Idle}]
      /\ \A k \in Calls : call'[k] = call[k] \/ call'[k] = Idle
  BY <1>1 DEF PaymentsInv, PaymentsTypeOK
<1>9. /\ \A k \in Calls : CallOK(k)'
      /\ \A k \in SplitCalls : SplitCallOK(k)'
      /\ OwnIntents'
      /\ splitCall' = [k \in SplitCalls |-> splitCall'[k]]
  BY <1>1, <1>3, <1>7, <1>8, CallsEnd
<1>10. PaymentsTypeOK'
  BY <1>1, <1>7, <1>8 DEF PaymentsInv, PaymentsTypeOK
<1>11. \A h \in Hooks : HookOK(h)'
  BY <1>1, <1>3, <1>7, HookStays
<1> QED BY <1>3, <1>7, <1>9, <1>10, <1>11 DEF PaymentsInv

-----------------------------------------------------------------------------
(***************************************************************************)
(* Deliveries, clients, and the ends of rides.                             *)
(***************************************************************************)
\* A step that touches neither rows nor requests.
LEMMA RowsKept ==
    ASSUME PaymentsInv, MoneyStays, StripeTypeOK',
           UNCHANGED <<ended, pay, call, splitVars>>,
           \A i \in Intents : IntentOK(i)',
           \A i \in Intents : intent[i] = "made" => intent'[i] = "made",
           hook' \in [Hooks -> Delivery \union {Idle}],
           \A h \in Hooks : HookOK(h)'
    PROVE  PaymentsInv'
<1>1. RowsPersist
  BY DEF RowsPersist, Exists
<1>2. /\ call' \in [Calls -> Call \union {Idle}]
      /\ \A k \in Calls : call'[k] = call[k] \/ call'[k] = Idle
  BY DEF PaymentsInv, PaymentsTypeOK
<1>3. /\ \A k \in Calls : CallOK(k)'
      /\ \A k \in SplitCalls : SplitCallOK(k)'
      /\ OwnIntents'
      /\ splitCall' = [k \in SplitCalls |-> splitCall'[k]]
  BY <1>1, <1>2, CallsEnd
<1>4. PaymentsTypeOK'
  BY <1>2 DEF PaymentsInv, PaymentsTypeOK
<1>5. \A r \in Rides : PaidFor(r) => PaidFor(r)'
  BY DEF PaidFor, MoneyStays
<1>6. \A r \in Rides : RowOK(r)' /\ StatusOK(r)'
  <2> SUFFICES ASSUME NEW r \in Rides PROVE RowOK(r)' /\ StatusOK(r)'
    OBVIOUS
  <2>1. RowOK(r) /\ StatusOK(r)
    BY DEF PaymentsInv
  <2>2. pay[r].status = "refunded" => pay[r].intent \in Intents
    BY <2>1 DEF RowOK, Exists, NoPayment
  <2> QED BY <1>5, <2>1, <2>2 DEF RowOK, StatusOK, Exists, MoneyStays
<1> QED BY <1>3, <1>4, <1>6 DEF PaymentsInv

LEMMA SameTypes ==
    ASSUME PaymentsInv, UNCHANGED stripeVars
    PROVE  StripeTypeOK' /\ UNCHANGED intent
BY DEF PaymentsInv, StripeTypeOK, stripeVars

LEMMA SameMoney ==
    ASSUME PaymentsInv, UNCHANGED <<pay, intent>>
    PROVE  /\ MoneyStays
           /\ \A i \in Intents : IntentOK(i)'
           /\ \A i \in Intents : intent[i] = "made" => intent'[i] = "made"
BY DEF PaymentsInv, MoneyStays, HasSucceeded, IntentOK

\* handle_payment_succeeded: the ride of the payment it takes was paid for.
LEMMA FoundWasPaid ==
    ASSUME PaymentsInv, NEW i \in Intents, HasSucceeded(i),
           NEW r \in Rides, r \in PaymentFor(i)
    PROVE  Exists(r) /\ PaidFor(r)
<1>1. CASE r \in WithIntent(i)
  <2>1. pay[r].intent = i /\ i # NoIntent
    BY <1>1, StripeAssumption DEF WithIntent
  <2>2. Exists(r)
    BY <2>1 DEF Exists, NoPayment
  <2>3. i.ride = r
    BY <2>1, <2>2 DEF PaymentsInv, RowOK
  <2> QED BY <2>1, <2>2, <2>3 DEF PaidFor
<1>2. CASE r \notin WithIntent(i)
  <2>1. /\ WithIntent(i) = {} /\ r = i.ride /\ Exists(r)
    BY <1>2 DEF PaymentFor, Exists
  <2>2. i.kind \notin {"fare", "fee"}
    BY <2>1 DEF PaymentsInv, IntentOK, HasSucceeded, WithIntent
  <2>3. i.kind \in {"tip", "share"}
    BY <2>2 DEF Intents, Kinds
  <2> QED BY <2>1, <2>3 DEF PaidFor
<1> QED BY <1>1, <1>2

LEMMA DeliverKeeps ==
    ASSUME PaymentsInv, NEW h \in Hooks, NEW i \in Intents, UNCHANGED splitVars,
           LoadSucceeded(h, i) \/ LoadFailed(h, i)
    PROVE  PaymentsInv'
<1>1. PICK r \in Rides, op \in {"succeeded", "failed"} :
          /\ Deliver(h, op, i, r)
          /\ Exists(r)
          /\ op = "succeeded" => PaidFor(r)
  <2>1. CASE LoadSucceeded(h, i)
    <3>1. PICK r \in PaymentFor(i) : Deliver(h, "succeeded", i, r)
      BY <2>1 DEF LoadSucceeded
    <3>2. r \in Rides
      BY <3>1 DEF PaymentFor, WithIntent, Intents
    <3> QED BY <2>1, <3>1, <3>2, FoundWasPaid DEF LoadSucceeded
  <2>2. CASE LoadFailed(h, i)
    <3>1. PICK r \in Rides : pay[r].intent = i /\ Deliver(h, "failed", i, r)
      BY <2>2 DEF LoadFailed, WithIntent
    <3>2. Exists(r)
      BY <3>1, StripeAssumption DEF Exists, NoPayment
    <3> QED BY <3>1, <3>2
  <2> QED BY <2>1, <2>2
<1> DEFINE record == [op |-> op, of |-> i, ride |-> r,
                       loaded |-> pay[r].status]
<1>2. /\ hook' = [hook EXCEPT ![h] = record]
      /\ UNCHANGED <<ended, pay, call, stripeVars, splitVars>>
  BY <1>1 DEF Deliver
<1>3. record \in Delivery
  BY DEF Delivery, PaymentsInv, PaymentsTypeOK, Payment
<1>4. hook' \in [Hooks -> Delivery \union {Idle}]
  BY <1>2, <1>3 DEF PaymentsInv, PaymentsTypeOK
<1>5. \A g \in Hooks : HookOK(g)'
  <2> SUFFICES ASSUME NEW g \in Hooks PROVE HookOK(g)'
    OBVIOUS
  <2>1. CASE g = h
    <3>1. hook'[g] = record
      BY <1>2, <2>1 DEF PaymentsInv, PaymentsTypeOK
    <3>2. PaidFor(r) => PaidFor(r)'
      BY <1>2 DEF PaidFor, HasSucceeded, stripeVars
    <3> QED BY <1>1, <1>2, <1>3, <3>1, <3>2 DEF HookOK, Exists
  <2>2. CASE g # h
    <3>1. hook'[g] = hook[g]
      BY <1>2, <2>2 DEF PaymentsInv, PaymentsTypeOK
    <3>2. MoneyStays /\ RowsPersist
      BY <1>2, SameTypes, SameMoney DEF RowsPersist, Exists
    <3> QED BY <3>1, <3>2, HookStays
  <2> QED BY <2>1, <2>2
<1> QED BY <1>2, <1>4, <1>5, SameTypes, SameMoney, RowsKept

LEMMA HookEnds ==
    ASSUME PaymentsInv, NEW h \in Hooks, UNCHANGED splitVars,
           CommitSucceeded(h) \/ CommitFailed(h) \/ HookFails(h)
    PROVE  PaymentsInv'
<1>1. /\ hook[h] # Idle
      /\ hook' = [hook EXCEPT ![h] = Idle]
      /\ UNCHANGED <<ended, call, intent, splitVars>>
  BY DEF CommitSucceeded, CommitFailed, HookFails, CommitHook, Acknowledge,
         stripeVars
<1> DEFINE r == hook[h].ride
           row(status) == [pay[r] EXCEPT !.status = status]
<1>2. /\ r \in Rides /\ Exists(r)
      /\ hook[h].op = "succeeded" => PaidFor(r)
      /\ hook[h].of \in Intents
  BY <1>1 DEF PaymentsInv, HookOK, Delivery
<1> DEFINE i == hook[h].of
<1>10. StripeTypeOK'
  <2>1. CASE CommitSucceeded(h)
    <3>1. acked' \in {acked, acked \union {i}} /\ UNCHANGED <<intent, declined>>
      BY <2>1 DEF CommitSucceeded, Acknowledge
    <3> QED BY <1>2, <3>1 DEF PaymentsInv, StripeTypeOK
  <2>2. CASE CommitFailed(h) \/ HookFails(h)
    BY <2>2, SameTypes DEF CommitFailed, HookFails
  <2> QED BY <2>1, <2>2
<1>3. hook' \in [Hooks -> Delivery \union {Idle}]
  BY <1>1 DEF PaymentsInv, PaymentsTypeOK
<1>4. \A g \in Hooks : hook'[g] = hook[g] \/ hook'[g] = Idle
  BY <1>1 DEF PaymentsInv, PaymentsTypeOK
<1>5. CASE pay' = pay
  <2>1. MoneyStays /\ RowsPersist
    BY <1>1, <1>5, SameMoney DEF RowsPersist, Exists
  <2>2. \A g \in Hooks : HookOK(g)'
    BY <1>4, <2>1, HookStays DEF HookOK
  <2> QED BY <1>1, <1>3, <1>5, <1>10, <2>2, SameMoney, RowsKept
<1>6. ASSUME NEW status \in {"completed", "failed"},
             pay' = [pay EXCEPT ![r] = row(status)],
             status = "completed" => PaidFor(r)
      PROVE  PaymentsInv'
  <2>1. MoneyStays /\ StripeTypeOK' /\ intent' = intent
    BY <1>1, <1>10 DEF PaymentsInv, MoneyStays, HasSucceeded
  <2>2. pay[r] \in Payment /\ RowOK(r)
    BY <1>2 DEF PaymentsInv, PaymentsTypeOK
  <2>3. /\ row(status).status = status
        /\ row(status).intent = pay[r].intent
        /\ row(status).tip = pay[r].tip
        /\ row(status).driverPayout = pay[r].driverPayout
        /\ row(status) \in Payment
    BY <2>2 DEF Payment, PaymentStatus
  <2>4. row(status).driverPayout = Owed + row(status).tip
    BY <1>2, <2>2, <2>3 DEF RowOK
  <2>5. /\ RowsPersist
        /\ pay' \in [Rides -> Payment]
        /\ \A j \in Intents : IntentOK(j)'
        /\ \A s \in Rides : RowOK(s)' /\ StatusOK(s)'
    <3> DEFINE new == row(status)
    <3>1. /\ new \in Payment /\ new.intent = pay[r].intent
          /\ new.status # "none" /\ new.status # "refunded"
          /\ new.driverPayout = Owed + new.tip
          /\ new.status = "completed" => PaidFor(r)
          /\ pay' = [pay EXCEPT ![r] = new]
      BY <1>6, <2>3, <2>4
    <3> HIDE DEF new, row
    <3> QED BY <1>2, <2>1, <3>1, RowStep
  <2>6. /\ call' \in [Calls -> Call \union {Idle}]
        /\ \A k \in Calls : call'[k] = call[k] \/ call'[k] = Idle
    BY <1>1 DEF PaymentsInv, PaymentsTypeOK
  <2>7. /\ \A k \in Calls : CallOK(k)'
        /\ \A k \in SplitCalls : SplitCallOK(k)'
        /\ OwnIntents'
        /\ splitCall' = [k \in SplitCalls |-> splitCall'[k]]
    BY <1>1, <2>1, <2>5, <2>6, CallsEnd
  <2>8. PaymentsTypeOK'
    BY <1>1, <1>3, <2>5, <2>6 DEF PaymentsInv, PaymentsTypeOK
  <2>9. \A g \in Hooks : HookOK(g)'
    BY <1>4, <2>1, <2>5, HookStays DEF HookOK
  <2> QED BY <2>1, <2>5, <2>7, <2>8, <2>9 DEF PaymentsInv
<1>7. CASE CommitSucceeded(h)
  BY <1>2, <1>5, <1>6, <1>7 DEF CommitSucceeded, CommitHook
<1>8. CASE CommitFailed(h)
  BY <1>5, <1>6, <1>8 DEF CommitFailed, CommitHook
<1>9. CASE HookFails(h)
  BY <1>5, <1>9 DEF HookFails
<1> QED BY <1>7, <1>8, <1>9

LEMMA ClientKeeps ==
    ASSUME PaymentsInv, Client, UNCHANGED <<paymentVars, splitVars>>
    PROVE  PaymentsInv'
<1>1. PICK i \in Intents : Pay(i) \/ Decline(i)
  BY DEF Client
<1>2. /\ MoneyStays /\ StripeTypeOK'
      /\ \A j \in Intents : IntentOK(j)'
      /\ \A j \in Intents : intent[j] = "made" => intent'[j] = "made"
  BY <1>1 DEF PaymentsInv, MoneyStays, HasSucceeded, StripeTypeOK, IntentStatus,
              IntentOK, Pay, Decline, paymentVars
<1>3. UNCHANGED <<ended, pay, call, hook, splitVars>>
  BY DEF paymentVars
<1>4. \A h \in Hooks : HookOK(h)'
  BY <1>2, <1>3, RowsStay
<1>5. hook' \in [Hooks -> Delivery \union {Idle}]
  BY <1>3 DEF PaymentsInv, PaymentsTypeOK
<1> QED BY <1>2, <1>3, <1>4, <1>5, RowsKept

LEMMA RideEndKeeps ==
    ASSUME PaymentsInv, NEW r \in Rides, RideEnds(r), UNCHANGED splitVars
    PROVE  PaymentsInv'
<1>1. PICK kind \in {"fare", "fee"} :
          /\ ended[r] = "no"
          /\ ended' = [ended EXCEPT ![r] = kind]
          /\ UNCHANGED <<pay, call, hook, stripeVars, splitVars>>
  BY DEF RideEnds
<1>2. /\ ended' \in [Rides -> {"no", "fare", "fee"}]
      /\ \A s \in Rides : ended[s] # "no" => ended'[s] = ended[s]
  BY <1>1 DEF PaymentsInv, PaymentsTypeOK
<1>3. /\ MoneyStays /\ StripeTypeOK'
      /\ \A j \in Intents : IntentOK(j)'
      /\ \A s \in Rides : RowOK(s)' /\ StatusOK(s)'
      /\ \A h \in Hooks : HookOK(h)'
  BY <1>1, SameTypes, SameMoney, RowsStay
<1>4. \A c \in Calls : CallOK(c)'
  <2> SUFFICES ASSUME NEW c \in Calls, call[c] # Idle PROVE CallOK(c)'
    BY <1>1 DEF CallOK, Making
  <2>1. CallOK(c) /\ call[c].ride \in Rides /\ call'[c] = call[c]
    BY <1>1 DEF PaymentsInv, CallOK, Call
  <2>2. call[c].op = "create" => ended'[call[c].ride] = ended[call[c].ride]
    BY <1>2, <2>1 DEF CallOK
  <2>3. Making(c)' <=> Making(c)
    BY <1>1 DEF Making
  <2>4. Making(c) => call[c].op \in {"create", "tip"}
    BY DEF Making
  <2> QED BY <1>1, <2>1, <2>2, <2>3, <2>4 DEF CallOK, Exists, stripeVars
<1>5. /\ \A c \in SplitCalls : SplitCallOK(c)'
      /\ OwnIntents'
      /\ splitCall' = [c \in SplitCalls |-> splitCall'[c]]
  BY <1>1 DEF PaymentsInv, SplitCallOK, SplitMaking, OwnIntents, Making, splitVars,
              stripeVars
<1>6. PaymentsTypeOK'
  BY <1>1, <1>2 DEF PaymentsInv, PaymentsTypeOK
<1> QED BY <1>3, <1>4, <1>5, <1>6 DEF PaymentsInv

-----------------------------------------------------------------------------
(***************************************************************************)
(* Requests about splits.                                                  *)
(***************************************************************************)
\* A split's request touches no payment, and no intent but those of shares.
LEMMA SplitKeeps ==
    ASSUME PaymentsInv, MoneyStays, StripeTypeOK', UNCHANGED paymentVars,
           \A i \in Intents : i.kind # "share" => intent'[i] = intent[i],
           splitCall' = [k \in SplitCalls |-> splitCall'[k]],
           \A k \in SplitCalls : SplitCallOK(k)',
           \A k, o \in SplitCalls :
               k # o /\ SplitMaking(k)' /\ SplitMaking(o)' =>
                   splitCall'[k].intent # splitCall'[o].intent
    PROVE  PaymentsInv'
<1>1. PaymentsTypeOK' /\ RowsPersist
  BY DEF PaymentsInv, PaymentsTypeOK, paymentVars, RowsPersist, Exists
<1>2. \A i \in Intents : IntentOK(i)'
  BY DEF PaymentsInv, IntentOK, paymentVars
<1>3. /\ \A r \in Rides : RowOK(r)' /\ StatusOK(r)'
      /\ \A h \in Hooks : HookOK(h)'
  BY RowsStay DEF paymentVars
<1>4. \A k \in Calls : CallOK(k)' /\ (Making(k)' <=> Making(k))
  <2> SUFFICES ASSUME NEW k \in Calls
               PROVE  CallOK(k)' /\ (Making(k)' <=> Making(k))
    OBVIOUS
  <2>1. call'[k] = call[k] /\ UNCHANGED ended
    BY DEF paymentVars
  <2>2. Making(k) => intent'[call[k].intent] = "made"
    <3> SUFFICES ASSUME Making(k) PROVE intent'[call[k].intent] = "made"
      OBVIOUS
    <3>1. CallOK(k)
      BY DEF PaymentsInv
    <3>2. /\ call[k].intent \in Intents /\ intent[call[k].intent] = "made"
          /\ call[k].intent.kind # "share"
      BY <3>1 DEF CallOK, Making
    <3> QED BY <3>2
  <2> QED BY <1>1, <2>1, <2>2, CallStays
<1>5. OwnIntents'
  BY <1>4 DEF PaymentsInv, OwnIntents, paymentVars
<1> QED BY <1>1, <1>2, <1>3, <1>4, <1>5 DEF PaymentsInv

LEMMA SplitsOnly ==
    ASSUME PaymentsInv, NEW c \in SplitCalls, UNCHANGED <<paymentVars, stripeVars>>,
           NEW new, splitCall' = [splitCall EXCEPT ![c] = new],
           new # Idle /\ new.op = "pay" => new.at # "commit",
           new # Idle /\ new.op \in {"accept", "decline", "pay"} =>
               HasFields(new)
    PROVE  PaymentsInv'
<1>1. splitCall = [k \in SplitCalls |-> splitCall[k]]
  BY DEF PaymentsInv
<1>2. /\ splitCall'[c] = new
      /\ \A k \in SplitCalls : k # c => splitCall'[k] = splitCall[k]
      /\ splitCall' = [k \in SplitCalls |-> splitCall'[k]]
  BY <1>1
<1>3. /\ MoneyStays /\ StripeTypeOK' /\ intent' = intent
  BY SameTypes, SameMoney DEF paymentVars
<1>4. ~SplitMaking(c)' /\ SplitCallOK(c)'
  BY <1>2 DEF SplitMaking, SplitCallOK
<1>5. \A k \in SplitCalls : k # c => SplitCallOK(k)'
  BY <1>2, <1>3 DEF PaymentsInv, SplitCallOK, SplitMaking
<1>6. \A k, o \in SplitCalls :
          k # o /\ SplitMaking(k)' /\ SplitMaking(o)' =>
              splitCall'[k].intent # splitCall'[o].intent
  BY <1>2, <1>4 DEF PaymentsInv, OwnIntents, SplitMaking
<1> QED BY <1>2, <1>3, <1>4, <1>5, <1>6, SplitKeeps

LEMMA ShareAsked ==
    ASSUME PaymentsInv, NEW c \in SplitCalls, StripeShare(c)
    PROVE  PaymentsInv'
<1>1. PICK i \in Intents :
          /\ intent[i] = "none" /\ i.kind = "share" /\ MakeIntent(i)
          /\ splitCall' = [splitCall EXCEPT ![c].at = "commit", ![c].intent = i]
          /\ UNCHANGED <<split, paymentVars>>
  BY DEF StripeShare, NextIntents
<1>2. /\ StripeTypeOK' /\ MoneyStays /\ intent'[i] = "made"
      /\ \A j \in Intents : j # i => intent'[j] = intent[j]
      /\ \A j \in Intents : intent[j] = "made" => j # i
  BY <1>1, MadeStays DEF MakeIntent, PaymentsInv, StripeTypeOK
<1>3. splitCall = [k \in SplitCalls |-> splitCall[k]]
  BY DEF PaymentsInv
<1> DEFINE a == splitCall[c]
<1>4. a # Idle /\ a.op = "pay" /\ HasFields(a)
  BY DEF StripeShare, InStep, Using, PaymentsInv, SplitCallOK
<1>5. /\ splitCall'[c] = [a EXCEPT !.at = "commit", !.intent = i]
      /\ \A k \in SplitCalls : k # c => splitCall'[k] = splitCall[k]
      /\ splitCall' = [k \in SplitCalls |-> splitCall'[k]]
  BY <1>1, <1>3
<1>7. SplitCallOK(c)' /\ splitCall'[c].intent = i
  <2>1. HasFields(splitCall'[c]) /\ splitCall'[c].intent = i
    BY <1>4, <1>5 DEF HasFields
  <2> QED BY <1>1, <1>2, <2>1 DEF SplitCallOK, SplitMaking
<1>8. \A k \in SplitCalls :
          k # c => /\ SplitCallOK(k)'
                   /\ SplitMaking(k)' => SplitMaking(k)
                                         /\ splitCall'[k].intent # i
  BY <1>2, <1>5 DEF PaymentsInv, SplitCallOK, SplitMaking
<1>9. \A k, o \in SplitCalls :
          k # o /\ SplitMaking(k)' /\ SplitMaking(o)' =>
              splitCall'[k].intent # splitCall'[o].intent
  BY <1>5, <1>7, <1>8 DEF PaymentsInv, OwnIntents
<1> QED BY <1>1, <1>2, <1>5, <1>7, <1>8, <1>9, SplitKeeps

LEMMA ShareAnswered ==
    ASSUME PaymentsInv, NEW c \in SplitCalls, CommitPayShare(c)
    PROVE  PaymentsInv'
<1> DEFINE i == splitCall[c].intent
<1>1. /\ SplitMaking(c)
      /\ Answer(i)
      /\ splitCall' = [splitCall EXCEPT ![c] = Idle]
      /\ UNCHANGED paymentVars
  BY DEF CommitPayShare, InStep, Using, Release, SplitMaking
<1>2. i \in Intents /\ intent[i] = "made" /\ i.kind = "share"
  BY <1>1 DEF PaymentsInv, SplitCallOK
<1>3. /\ StripeTypeOK' /\ MoneyStays
      /\ \A j \in Intents : j # i => intent'[j] = intent[j]
  BY <1>1, <1>2, AnswerStays
<1>4. splitCall = [k \in SplitCalls |-> splitCall[k]]
  BY DEF PaymentsInv
<1>5. /\ splitCall'[c] = Idle
      /\ \A k \in SplitCalls : k # c => splitCall'[k] = splitCall[k]
      /\ splitCall' = [k \in SplitCalls |-> splitCall'[k]]
  BY <1>1, <1>4
<1>6. SplitCallOK(c)' /\ ~SplitMaking(c)'
  BY <1>5 DEF SplitCallOK, SplitMaking
<1>7. \A k \in SplitCalls : k # c => SplitCallOK(k)'
  <2> SUFFICES ASSUME NEW k \in SplitCalls, k # c PROVE SplitCallOK(k)'
    OBVIOUS
  <2>1. SplitCallOK(k) /\ (SplitMaking(k) => splitCall[k].intent # i)
    BY <1>1 DEF PaymentsInv, OwnIntents
  <2> QED BY <1>3, <1>5, <2>1 DEF SplitCallOK, SplitMaking
<1>8. \A k, o \in SplitCalls :
          k # o /\ SplitMaking(k)' /\ SplitMaking(o)' =>
              splitCall'[k].intent # splitCall'[o].intent
  BY <1>5, <1>6 DEF PaymentsInv, OwnIntents, SplitMaking
<1> QED BY <1>1, <1>2, <1>3, <1>5, <1>6, <1>7, <1>8, SplitKeeps

LEMMA SplitCallKeeps ==
    ASSUME PaymentsInv, NEW c \in SplitCalls, SplitCallStep(c)
    PROVE  PaymentsInv'
<1>1. CASE CommitCreateSplit(c) \/ CommitAccept(c) \/ CommitDecline(c)
           \/ CommitCancelSplit(c) \/ SplitCallFails(c)
  <2>1. /\ splitCall' = [splitCall EXCEPT ![c] = Idle]
        /\ UNCHANGED <<paymentVars, stripeVars>>
    BY <1>1 DEF CommitCreateSplit, CommitAccept, CommitDecline,
                CommitCancelSplit, SplitCallFails, Release
  <2> QED BY <2>1, SplitsOnly
<1>2. CASE \E r \in Rides :
               \/ LoadCancelSplit(c, r)
               \/ \E invited \in SUBSET (Places \ {Initiator}) \ {{}} :
                      LoadCreateSplit(c, r, invited)
  <2>1. PICK new : /\ splitCall' = [splitCall EXCEPT ![c] = new]
                   /\ new.op \in {"create", "cancel"}
                   /\ UNCHANGED <<paymentVars, stripeVars>>
    BY <1>2 DEF LoadCancelSplit, LoadCreateSplit, Occupy
  <2> QED BY <2>1, SplitsOnly
<1>3. CASE \E r \in Rides, g \in GroupIds, u \in Places :
               LoadAccept(c, r, g, u) \/ LoadDecline(c, r, g, u)
               \/ LoadPayShare(c, r, g, u)
  <2>1. PICK r \in Rides, g \in GroupIds, u \in Places,
             op \in {"accept", "decline", "pay"},
             at \in {"commit", "initiator", "stripe"} :
            LoadAnswer(c, op, at, r, g, u) /\ (op = "pay" => at = "stripe")
    BY <1>3 DEF LoadAccept, LoadDecline, LoadPayShare
  <2> DEFINE new == [op |-> op, at |-> at, ride |-> r, group |-> g,
                     place |-> u, amount |-> split[r][g][u].amount,
                     left |-> 0, intent |-> NoIntent]
  <2>2. /\ splitCall' = [splitCall EXCEPT ![c] = new]
        /\ UNCHANGED <<paymentVars, stripeVars>>
    BY <2>1 DEF LoadAnswer, Occupy
  <2>3. HasFields(new) /\ (new.op = "pay" => new.at # "commit")
    BY <2>1 DEF HasFields
  <2> HIDE DEF new
  <2> QED BY <2>2, <2>3, SplitsOnly
<1>4. CASE LoadInitiator(c)
  <2> DEFINE a == splitCall[c]
             left == split[a.ride][a.group][Initiator].amount
             new == [a EXCEPT !.at = "commit", !.left = left]
  <2>1. /\ a # Idle /\ a.op = "decline"
        /\ splitCall' = [splitCall EXCEPT ![c].at = "commit", ![c].left = left]
        /\ UNCHANGED <<paymentVars, stripeVars>>
    BY <1>4 DEF LoadInitiator, InStep, Using
  <2>2. splitCall' = [splitCall EXCEPT ![c] = new]
    BY <2>1 DEF PaymentsInv
  <2>3. HasFields(a)
    BY <2>1 DEF PaymentsInv, SplitCallOK
  <2>4. HasFields(new) /\ new.op = "decline"
    BY <2>1, <2>3 DEF HasFields
  <2> HIDE DEF new
  <2> QED BY <2>1, <2>2, <2>4, SplitsOnly
<1>5. CASE StripeShare(c)
  BY <1>5, ShareAsked
<1>6. CASE CommitPayShare(c)
  BY <1>6, ShareAnswered
<1> QED BY <1>1, <1>2, <1>3, <1>4, <1>5, <1>6 DEF SplitCallStep

-----------------------------------------------------------------------------
LEMMA PayingKeeps == PaymentsInv /\ Paying => PaymentsInv'
<1> SUFFICES ASSUME PaymentsInv, PaymentStep, UNCHANGED splitVars
             PROVE  PaymentsInv'
  BY DEF Paying
<1>1. ASSUME NEW c \in Calls, CallStep(c) PROVE PaymentsInv'
  BY <1>1, LoadKeeps, EndKeeps, AskKeeps, RefundStep, CreateKeeps, TipKeeps,
     RefundCommit DEF CallStep
<1>2. ASSUME NEW h \in Hooks, HookStep(h) PROVE PaymentsInv'
  BY <1>2, DeliverKeeps, HookEnds DEF HookStep
<1>3. ASSUME NEW r \in Rides, RideEnds(r) PROVE PaymentsInv'
  BY <1>3, RideEndKeeps
<1>4. CASE Client /\ UNCHANGED paymentVars
  BY <1>4, ClientKeeps
<1> QED BY <1>1, <1>2, <1>3, <1>4 DEF PaymentStep

LEMMA MoneyStutters == PaymentsInv /\ UNCHANGED moneyVars => PaymentsInv'
<1> SUFFICES ASSUME PaymentsInv, UNCHANGED moneyVars PROVE PaymentsInv'
  OBVIOUS
<1>1. UNCHANGED <<paymentVars, stripeVars, splitVars>>
  BY DEF moneyVars
<1>2. \A h \in Hooks : HookOK(h)'
  BY <1>1, SameTypes, SameMoney, RowsStay DEF paymentVars
<1>3. hook' \in [Hooks -> Delivery \union {Idle}]
  BY <1>1 DEF PaymentsInv, PaymentsTypeOK, paymentVars
<1> QED BY <1>1, <1>2, <1>3, SameTypes, SameMoney, RowsKept DEF paymentVars

-----------------------------------------------------------------------------
(***************************************************************************)
(* The rows of splits, whatever overlaps.                                  *)
(***************************************************************************)
SplitRows == [Rides -> [GroupIds -> [Places -> Share]]]

SplitCall == Creation \union Answering \union Cancellation \union {Idle}

LEMMA InitSplits == MoneyInit => SplitsInv
<1> SUFFICES ASSUME MoneyInit PROVE SplitsInv
  OBVIOUS
<1>1. /\ split = [r \in Rides |-> [g \in GroupIds |-> [u \in Places |-> NoShare]]]
      /\ splitCall = [c \in SplitCalls |-> Idle]
  BY DEF MoneyInit, SplitsInit
<1>2. NoShare \in Share /\ NoShare.amount = 0
  BY DEF NoShare, Share, SplitStatus
<1>3. SplitsTypeOK
  BY <1>1, <1>2 DEF SplitsTypeOK
<1>4. \A r \in Rides, g \in GroupIds : GuestsOwe(split[r][g])
  BY <1>1, <1>2 DEF GuestsOwe
<1>5. \A c \in SplitCalls, op \in {"create", "accept", "decline"} : ~Using(c, op)
  BY <1>1 DEF Using
<1> QED BY <1>3, <1>4, <1>5 DEF SplitsInv

LEMMA SplitsStay == SplitsInv /\ UNCHANGED splitVars => SplitsInv'
BY DEF SplitsInv, splitVars, SplitsTypeOK, GuestsOwe, Using

\* A step of the request in slot c.
LEMMA SplitsStep ==
    ASSUME SplitsInv, NEW c \in SplitCalls, NEW new \in SplitCall,
           splitCall' = [splitCall EXCEPT ![c] = new],
           new # Idle /\ new.op = "create" => GuestsOwe(new.rows),
           new # Idle /\ new.op \in {"accept", "decline"} => new.place # Initiator,
           split' \in SplitRows,
           \A r \in Rides, g \in GroupIds : GuestsOwe(split'[r][g])
    PROVE  SplitsInv'
<1>1. /\ splitCall'[c] = new
      /\ \A d \in SplitCalls : d # c => splitCall'[d] = splitCall[d]
      /\ splitCall' \in [SplitCalls -> SplitCall]
  BY DEF SplitsInv, SplitsTypeOK, SplitCall
<1>2. SplitsTypeOK'
  BY <1>1 DEF SplitsTypeOK, SplitRows, SplitCall
<1>3. ASSUME NEW d \in SplitCalls
      PROVE  /\ Using(d, "create")' => GuestsOwe(splitCall'[d].rows)
             /\ Using(d, "accept")' \/ Using(d, "decline")' =>
                    splitCall'[d].place # Initiator
  <2>1. CASE d = c
    BY <1>1, <2>1 DEF Using
  <2>2. CASE d # c
    BY <1>1, <2>2 DEF Using, SplitsInv
  <2> QED BY <2>1, <2>2
<1> QED BY <1>2, <1>3 DEF SplitsInv, GuestsOwe

\* A step that replaces the rows of one group.
LEMMA RowsReplaced ==
    ASSUME SplitsInv, NEW r \in Rides, NEW g \in GroupIds,
           NEW rows \in [Places -> Share], GuestsOwe(rows),
           split' = [split EXCEPT ![r][g] = rows]
    PROVE  /\ split' \in SplitRows
           /\ \A q \in Rides, h \in GroupIds : GuestsOwe(split'[q][h])
           /\ split'[r][g] = rows
           /\ \A q \in Rides, h \in GroupIds :
                  q # r \/ h # g => split'[q][h] = split[q][h]
           /\ \A q \in Rides : q # r => split'[q] = split[q]
<1>1. split \in SplitRows
  BY DEF SplitsInv, SplitsTypeOK, SplitRows
<1>2. /\ split' \in SplitRows
      /\ split'[r][g] = rows
      /\ \A q \in Rides, h \in GroupIds :
             q # r \/ h # g => split'[q][h] = split[q][h]
      /\ \A q \in Rides : q # r => split'[q] = split[q]
  BY <1>1 DEF SplitRows
<1> QED BY <1>2 DEF SplitsInv

LEMMA RowsOwed ==
    ASSUME SplitsInv, NEW r \in Rides, NEW g \in GroupIds
    PROVE  split[r][g] \in [Places -> Share] /\ GuestsOwe(split[r][g])
BY DEF SplitsInv, SplitsTypeOK

\* What the requests of each kind are made of.
LEMMA CallTypes ==
    ASSUME SplitsInv, NEW c \in SplitCalls
    PROVE  /\ Using(c, "create") => splitCall[c] \in Creation
           /\ Using(c, "cancel") => splitCall[c] \in Cancellation
           /\ \A op \in {"accept", "decline", "pay"} :
                  Using(c, op) => splitCall[c] \in Answering
<1>1. splitCall[c] \in Creation \union Answering \union Cancellation \union {Idle}
  BY DEF SplitsInv, SplitsTypeOK
<1>2. /\ \A x \in Creation : x.op = "create"
      /\ \A x \in Answering : x.op \in {"accept", "decline", "pay"}
      /\ \A x \in Cancellation : x.op = "cancel"
  BY DEF Creation, Answering, Cancellation
<1> QED BY <1>1, <1>2 DEF Using

-----------------------------------------------------------------------------
LEMMA InvitedType ==
    ASSUME NEW invited \in SUBSET (Places \ {Initiator}), NEW fare \in Nat,
           NEW share \in InvitedShares(invited, fare)
    PROVE  /\ share \in [invited -> Nat]
           /\ Summable(share, DOMAIN share)
           /\ SumFunction(share) \in Int
<1>1. IsFiniteSet(invited)
  BY SplitsAssumption, FS_Subset
<1>2. share \in [invited -> 0 .. fare]
  BY DEF InvitedShares, Rounded
<1>3. Summable(share, DOMAIN share)
  BY <1>1, <1>2 DEF Summable
<1> QED BY <1>2, <1>3, SumType

LEMMA FareType == ASSUME NEW r PROVE Fare(r) \in Nat
BY SplitsAssumption DEF Fare

LEMMA RowsOfType ==
    ASSUME NEW invited \in SUBSET (Places \ {Initiator}), NEW fare \in Nat,
           NEW share \in InvitedShares(invited, fare)
    PROVE  /\ RowsOf(share, fare) \in [Places -> Share]
           /\ GuestsOwe(RowsOf(share, fare))
           /\ RowsOf(share, fare)[Initiator].status = "accepted"
<1>1. share \in [invited -> Nat] /\ SumFunction(share) \in Int
  BY InvitedType
<1> DEFINE rest == fare - SumFunction(share)
<1>2. rest \in Int
  BY <1>1
<1> HIDE DEF rest
<1>3. RowsOf(share, fare) =
          [u \in Places |->
              IF u = Initiator
              THEN [status |-> "accepted", intent |-> NoIntent, amount |-> rest]
              ELSE IF u \in DOMAIN share
              THEN [status |-> "pending", amount |-> share[u], intent |-> NoIntent]
              ELSE NoShare]
  BY DEF RowsOf, rest
<1> QED BY <1>1, <1>2, <1>3, SplitsAssumption
        DEF Share, SplitStatus, NoShare, GuestsOwe

\* The initiator's row takes what the guests' shares leave of the fare.
LEMMA RowsOfCover ==
    ASSUME NEW invited \in SUBSET (Places \ {Initiator}), NEW fare \in Nat,
           NEW share \in InvitedShares(invited, fare)
    PROVE  SumFunction(Amounts(RowsOf(share, fare))) = fare
<1> DEFINE a == Amounts(RowsOf(share, fare))
<1>1. /\ share \in [invited -> Nat] /\ Summable(share, DOMAIN share)
      /\ SumFunction(share) \in Int
  BY InvitedType
<1>2. /\ DOMAIN a = Places /\ DOMAIN share = invited
      /\ \A u \in Places : a[u] = RowsOf(share, fare)[u].amount
  BY <1>1 DEF Amounts
<1>3. a[Initiator] = fare - SumFunction(share)
  BY <1>2, SplitsAssumption DEF RowsOf
<1>4. \A u \in invited : a[u] = share[u]
  BY <1>1, <1>2 DEF RowsOf
<1>5. \A u \in Places \ {Initiator} : u \notin invited => a[u] = 0
  BY <1>1, <1>2 DEF RowsOf, NoShare
<1>6. Summable(a, Places)
  <2>1. RowsOf(share, fare) \in [Places -> Share]
    BY RowsOfType
  <2>2. \A u \in Places : RowsOf(share, fare)[u].amount \in Int
    BY <2>1 DEF Share
  <2> QED BY <1>2, <2>2, SplitsAssumption DEF Summable
<1> HIDE DEF a
<1>7. SumFunction(a) = fare
  BY <1>1, <1>2, <1>3, <1>4, <1>5, <1>6, SplitsAssumption, SumOfRemainder
<1> QED BY <1>7 DEF a

-----------------------------------------------------------------------------
(***************************************************************************)
(* What each step does to the rows.                                        *)
(***************************************************************************)
\* A request is received: the rows stay.
LEMMA LoadType ==
    ASSUME SplitsInv, NEW c \in SplitCalls, NEW new \in SplitCall, new # Idle,
           Occupy(c, new),
           new.op = "create" => GuestsOwe(new.rows),
           new.op \in {"accept", "decline"} => new.place # Initiator
    PROVE  SplitsInv'
<1>1. split' = split /\ splitCall' = [splitCall EXCEPT ![c] = new]
  BY DEF Occupy
<1>2. split' \in SplitRows /\ \A r \in Rides, g \in GroupIds : GuestsOwe(split'[r][g])
  BY <1>1 DEF SplitsInv, SplitsTypeOK, SplitRows
<1> QED BY <1>1, <1>2, SplitsStep

\* A request ends, and replaces the rows of one group.
LEMMA CommitType ==
    ASSUME SplitsInv, NEW c \in SplitCalls, Release(c),
           NEW r \in Rides, NEW g \in GroupIds,
           NEW rows \in [Places -> Share], GuestsOwe(rows),
           split' = [split EXCEPT ![r][g] = rows]
    PROVE  SplitsInv'
<1>1. splitCall' = [splitCall EXCEPT ![c] = Idle] /\ Idle \in SplitCall
  BY DEF Release, SplitCall
<1>2. split' \in SplitRows /\ \A q \in Rides, h \in GroupIds : GuestsOwe(split'[q][h])
  BY RowsReplaced
<1> QED BY <1>1, <1>2, SplitsStep

LEMMA CreateLoaded ==
    ASSUME SplitsInv, NEW c \in SplitCalls, NEW r \in Rides,
           NEW invited \in SUBSET (Places \ {Initiator}),
           LoadCreateSplit(c, r, invited)
    PROVE  \E rows \in [Places -> Share] :
               /\ Occupy(c, [op |-> "create", ride |-> r, rows |-> rows])
               /\ GuestsOwe(rows)
               /\ rows[Initiator].status = "accepted"
               /\ SumFunction(Amounts(rows)) = Fare(r)
<1>1. PICK share \in InvitedShares(invited, Fare(r)) :
          Occupy(c, [op |-> "create", ride |-> r, rows |-> RowsOf(share, Fare(r))])
  BY DEF LoadCreateSplit
<1>2. Fare(r) \in Nat
  BY FareType
<1> QED BY <1>1, <1>2, RowsOfType, RowsOfCover

LEMMA CreateType ==
    ASSUME SplitsInv, NEW c \in SplitCalls, NEW r \in Rides,
           NEW invited \in SUBSET (Places \ {Initiator}),
           LoadCreateSplit(c, r, invited)
    PROVE  SplitsInv'
<1>1. PICK rows \in [Places -> Share] :
          Occupy(c, [op |-> "create", ride |-> r, rows |-> rows]) /\ GuestsOwe(rows)
  BY CreateLoaded
<1> DEFINE new == [op |-> "create", ride |-> r, rows |-> rows]
<1>2. new \in SplitCall /\ new # Idle /\ new.op = "create" /\ new.rows = rows
  BY DEF SplitCall, Creation, Idle
<1> HIDE DEF new
<1> QED BY <1>1, <1>2, LoadType DEF new

\* The rows with the answer of the place in the request.
AcceptedRows(a) ==
    [split[a.ride][a.group] EXCEPT ![a.place].status = "accepted"]

DeclinedRows(a) == WithoutShare(split[a.ride][a.group], a)

PaidRows(a) ==
    [split[a.ride][a.group] EXCEPT ![a.place].intent = a.intent]

LEMMA CreateCommitted ==
    ASSUME SplitsInv, NEW c \in SplitCalls, CommitCreateSplit(c)
    PROVE  \E r \in Rides, g \in GroupIds, rows \in [Places -> Share] :
               /\ Using(c, "create") /\ r = splitCall[c].ride
               /\ rows = splitCall[c].rows
               /\ GuestsOwe(rows)
               /\ split' = [split EXCEPT ![r][g] = rows]
               /\ Release(c)
<1>1. Using(c, "create") /\ Release(c)
  BY DEF CommitCreateSplit
<1>2. splitCall[c] \in Creation /\ GuestsOwe(splitCall[c].rows)
  BY <1>1, CallTypes DEF SplitsInv
<1>3. splitCall[c].ride \in Rides /\ splitCall[c].rows \in [Places -> Share]
  BY <1>2 DEF Creation
<1>4. PICK g \in GroupIds :
          split' = [split EXCEPT ![splitCall[c].ride][g] = splitCall[c].rows]
  BY DEF CommitCreateSplit
<1> QED BY <1>1, <1>2, <1>3, <1>4

\* A request that has loaded one row commits.
LEMMA AnswerCommitted ==
    ASSUME SplitsInv, NEW c \in SplitCalls, NEW a, a = splitCall[c]
    PROVE  /\ CommitAccept(c) =>
                  /\ a \in Answering /\ Using(c, "accept") /\ Release(c)
                  /\ split' = [split EXCEPT ![a.ride][a.group] = AcceptedRows(a)]
           /\ CommitDecline(c) =>
                  /\ a \in Answering /\ Using(c, "decline") /\ Release(c)
                  /\ a.at = "commit"
                  /\ split' = [split EXCEPT ![a.ride][a.group] = DeclinedRows(a)]
           /\ CommitPayShare(c) =>
                  /\ a \in Answering /\ Using(c, "pay") /\ Release(c)
                  /\ split' = [split EXCEPT ![a.ride][a.group] = PaidRows(a)]
<1>1. CommitAccept(c) =>
          /\ a \in Answering /\ Using(c, "accept") /\ Release(c)
          /\ split' = [split EXCEPT ![a.ride][a.group] = AcceptedRows(a)]
  <2> SUFFICES ASSUME CommitAccept(c)
               PROVE  /\ a \in Answering /\ Using(c, "accept") /\ Release(c)
                      /\ split' = [split EXCEPT
                             ![a.ride][a.group] = AcceptedRows(a)]
    OBVIOUS
  <2>1. Using(c, "accept") /\ Release(c)
    BY DEF CommitAccept, InStep
  <2>2. split' = [split EXCEPT ![a.ride][a.group][a.place].status = "accepted"]
    BY Zenon DEF CommitAccept
  <2>3. a \in Answering
    BY <2>1, CallTypes
  <2>4. split' = [split EXCEPT ![a.ride][a.group] = AcceptedRows(a)]
    BY <2>2 DEF AcceptedRows
  <2> QED BY <2>1, <2>3, <2>4
<1>2. CommitDecline(c) =>
          /\ a \in Answering /\ Using(c, "decline") /\ Release(c)
          /\ a.at = "commit"
          /\ split' = [split EXCEPT ![a.ride][a.group] = DeclinedRows(a)]
  <2> SUFFICES ASSUME CommitDecline(c)
               PROVE  /\ a \in Answering /\ Using(c, "decline") /\ Release(c)
                      /\ a.at = "commit"
                      /\ split' = [split EXCEPT
                             ![a.ride][a.group] = DeclinedRows(a)]
    OBVIOUS
  <2>1. Using(c, "decline") /\ Release(c) /\ a.at = "commit"
    BY DEF CommitDecline, InStep
  <2>2. split' = [split EXCEPT ![a.ride][a.group] = WithoutShare(@, a)]
    BY Zenon DEF CommitDecline
  <2>3. a \in Answering
    BY <2>1, CallTypes
  <2>4. split' = [split EXCEPT ![a.ride][a.group] = DeclinedRows(a)]
    BY <2>2 DEF DeclinedRows
  <2> QED BY <2>1, <2>3, <2>4
<1>3. CommitPayShare(c) =>
          /\ a \in Answering /\ Using(c, "pay") /\ Release(c)
          /\ split' = [split EXCEPT ![a.ride][a.group] = PaidRows(a)]
  <2> SUFFICES ASSUME CommitPayShare(c)
               PROVE  /\ a \in Answering /\ Using(c, "pay") /\ Release(c)
                      /\ split' = [split EXCEPT ![a.ride][a.group] = PaidRows(a)]
    OBVIOUS
  <2>1. Using(c, "pay") /\ Release(c)
    BY DEF CommitPayShare, InStep
  <2>2. split' = [split EXCEPT ![a.ride][a.group][a.place].intent = a.intent]
    BY Zenon DEF CommitPayShare
  <2>3. a \in Answering
    BY <2>1, CallTypes
  <2>4. split' = [split EXCEPT ![a.ride][a.group] = PaidRows(a)]
    BY <2>2 DEF PaidRows
  <2> QED BY <2>1, <2>3, <2>4
<1> QED BY <1>1, <1>2, <1>3

LEMMA AnswerRows ==
    ASSUME SplitsInv, NEW a \in Answering
    PROVE  /\ AcceptedRows(a) \in [Places -> Share] /\ GuestsOwe(AcceptedRows(a))
           /\ PaidRows(a) \in [Places -> Share] /\ GuestsOwe(PaidRows(a))
           /\ a.place # Initiator =>
                  DeclinedRows(a) \in [Places -> Share] /\ GuestsOwe(DeclinedRows(a))
<1> DEFINE rows == split[a.ride][a.group]
<1>1. /\ a.ride \in Rides /\ a.group \in GroupIds /\ a.place \in Places
      /\ a.amount \in Int /\ a.left \in Int /\ a.intent \in Intents \union {NoIntent}
  BY DEF Answering
<1>2. rows \in [Places -> Share] /\ GuestsOwe(rows)
  BY <1>1, RowsOwed
<1>3. \A u \in Places : rows[u] \in Share
  BY <1>2
<1> HIDE DEF rows
<1>4. AcceptedRows(a) \in [Places -> Share] /\ GuestsOwe(AcceptedRows(a))
  <2>1. AcceptedRows(a) = [rows EXCEPT ![a.place].status = "accepted"]
    BY DEF AcceptedRows, rows
  <2> QED BY <1>1, <1>2, <1>3, <2>1 DEF Share, SplitStatus, GuestsOwe
<1>5. PaidRows(a) \in [Places -> Share] /\ GuestsOwe(PaidRows(a))
  <2>1. PaidRows(a) = [rows EXCEPT ![a.place].intent = a.intent]
    BY DEF PaidRows, rows
  <2> QED BY <1>1, <1>2, <1>3, <2>1 DEF Share, SplitStatus, GuestsOwe
<1>6. ASSUME a.place # Initiator
      PROVE  DeclinedRows(a) \in [Places -> Share] /\ GuestsOwe(DeclinedRows(a))
  <2> DEFINE left == IF a.amount = 0 THEN rows[Initiator].amount
                     ELSE a.left + a.amount
  <2>1. left \in Int
    BY <1>1, <1>3, SplitsAssumption DEF Share
  <2>2. /\ DOMAIN DeclinedRows(a) = Places
        /\ DeclinedRows(a) = [u \in Places |-> DeclinedRows(a)[u]]
        /\ DeclinedRows(a)[a.place] =
               [rows[a.place] EXCEPT !.status = "declined", !.amount = 0]
        /\ DeclinedRows(a)[Initiator] = [rows[Initiator] EXCEPT !.amount = left]
        /\ \A u \in Places :
               u # a.place /\ u # Initiator => DeclinedRows(a)[u] = rows[u]
    <3>1. DeclinedRows(a) =
              [rows EXCEPT ![a.place] = [@ EXCEPT !.status = "declined",
                                                  !.amount = 0],
                           ![Initiator].amount =
                               IF a.amount = 0 THEN @ ELSE a.left + a.amount]
      BY DEF DeclinedRows, WithoutShare, rows
    <3>2. [rows[Initiator] EXCEPT !.amount =
              IF a.amount = 0 THEN @ ELSE a.left + a.amount]
          = [rows[Initiator] EXCEPT !.amount = left]
      BY DEF left
    <3> QED BY <1>1, <1>2, <1>6, <3>1, <3>2, SplitsAssumption
  <2> HIDE DEF left
  <2>3. /\ DeclinedRows(a)[a.place] \in Share
        /\ DeclinedRows(a)[a.place].amount = 0
    <3>1. PICK x \in Share : x = rows[a.place]
      BY <1>1, <1>3
    <3>2. /\ [x EXCEPT !.status = "declined", !.amount = 0] \in Share
          /\ [x EXCEPT !.status = "declined", !.amount = 0].amount = 0
      <4>1. PICK y \in Share : y = [x EXCEPT !.status = "declined"]
        BY DEF Share, SplitStatus
      <4>2. [y EXCEPT !.amount = 0] \in Share /\ [y EXCEPT !.amount = 0].amount = 0
        BY DEF Share
      <4> QED BY <4>1, <4>2
    <3> QED BY <2>2, <3>1, <3>2
  <2>4. DeclinedRows(a)[Initiator] \in Share
    BY <1>3, <2>1, <2>2, SplitsAssumption DEF Share, SplitStatus
  <2>5. \A u \in Places : DeclinedRows(a)[u] \in Share
    BY <1>3, <2>2, <2>3, <2>4
  <2>6. DeclinedRows(a) \in [Places -> Share]
    BY <2>2, <2>5
  <2> QED BY <1>2, <2>2, <2>3, <2>6 DEF GuestsOwe
<1> QED BY <1>4, <1>5, <1>6

LEMMA AnswerType ==
    ASSUME SplitsInv, NEW c \in SplitCalls,
           CommitAccept(c) \/ CommitDecline(c) \/ CommitPayShare(c)
    PROVE  SplitsInv'
<1>1. PICK a : a = splitCall[c]
  OBVIOUS
<1>2. a \in Answering
  BY <1>1, AnswerCommitted
<1>3. a.ride \in Rides /\ a.group \in GroupIds
  BY <1>2 DEF Answering
<1>4. CASE CommitAccept(c)
  <2>1. /\ Release(c)
        /\ split' = [split EXCEPT ![a.ride][a.group] = AcceptedRows(a)]
    BY <1>1, <1>4, AnswerCommitted
  <2>2. AcceptedRows(a) \in [Places -> Share] /\ GuestsOwe(AcceptedRows(a))
    BY <1>2, AnswerRows
  <2> QED BY <1>3, <2>1, <2>2, CommitType
<1>5. CASE CommitDecline(c)
  <2>1. a.place # Initiator
    BY <1>1, <1>5, AnswerCommitted DEF SplitsInv
  <2> QED BY ZenonT(30), <1>1, <1>2, <1>3, <1>5, <2>1, AnswerCommitted, AnswerRows, CommitType
<1>6. CASE CommitPayShare(c)
  BY ZenonT(30), <1>1, <1>2, <1>3, <1>6, AnswerCommitted, AnswerRows, CommitType
<1> QED BY <1>4, <1>5, <1>6

\* What a cancellation does to a row.
LEMMA CancelCommitted ==
    ASSUME SplitsInv, NEW c \in SplitCalls, CommitCancelSplit(c),
           NEW a, a = splitCall[c]
    PROVE  /\ Using(c, "cancel") /\ Release(c) /\ a \in Cancellation
           /\ split' \in SplitRows
           /\ \A r \in Rides : r # a.ride => split'[r] = split[r]
           /\ \A r \in Rides, g \in GroupIds, u \in Places :
                  /\ split'[r][g][u].amount = split[r][g][u].amount
                  /\ \/ split'[r][g][u] = split[r][g][u]
                     \/ r = a.ride /\ <<g, u>> \in a.rows
<1>1. Using(c, "cancel") /\ Release(c)
  BY DEF CommitCancelSplit
<1>2. a \in Cancellation
  BY <1>1, CallTypes
<1>3. a.ride \in Rides
  BY <1>2 DEF Cancellation
<1> DEFINE Cancelled(g, u) ==
               IF <<g, u>> \in a.rows
               THEN [split[a.ride][g][u] EXCEPT !.status = "cancelled"]
               ELSE split[a.ride][g][u]
           new == [g \in GroupIds |-> [u \in Places |-> Cancelled(g, u)]]
<1>4. split' = [split EXCEPT ![a.ride] = new]
  BY DEF CommitCancelSplit
<1>5. split \in SplitRows
  BY DEF SplitsInv, SplitsTypeOK, SplitRows
<1>6. ASSUME NEW g \in GroupIds, NEW u \in Places
      PROVE  /\ Cancelled(g, u) \in Share
             /\ Cancelled(g, u).amount = split[a.ride][g][u].amount
  <2>1. split[a.ride][g][u] \in Share
    BY <1>3, <1>5 DEF SplitRows
  <2> QED BY <2>1 DEF Share, SplitStatus
<1>7. new \in [GroupIds -> [Places -> Share]]
  BY <1>6
<1>8. \A g \in GroupIds, u \in Places :
          \/ new[g][u] = split[a.ride][g][u]
          \/ <<g, u>> \in a.rows
  OBVIOUS
<1>9. \A g \in GroupIds, u \in Places :
          new[g][u].amount = split[a.ride][g][u].amount
  BY <1>6
<1> HIDE DEF new
<1>10. /\ split' \in SplitRows /\ split'[a.ride] = new
       /\ \A r \in Rides : r # a.ride => split'[r] = split[r]
  BY <1>3, <1>4, <1>5, <1>7 DEF SplitRows
<1> QED BY <1>1, <1>2, <1>8, <1>9, <1>10

LEMMA CancelType ==
    ASSUME SplitsInv, NEW c \in SplitCalls, CommitCancelSplit(c)
    PROVE  SplitsInv'
<1>1. PICK a : a = splitCall[c]
  OBVIOUS
<1>2. /\ Release(c) /\ split' \in SplitRows
      /\ \A r \in Rides, g \in GroupIds, u \in Places :
             /\ split'[r][g][u].amount = split[r][g][u].amount
             /\ \/ split'[r][g][u] = split[r][g][u]
                \/ r = a.ride /\ <<g, u>> \in a.rows
  <2>1. CommitCancelSplit(c)
    OBVIOUS
  <2> QED BY <1>1, <2>1, CancelCommitted
<1>3. splitCall' = [splitCall EXCEPT ![c] = Idle] /\ Idle \in SplitCall
  BY <1>2 DEF Release, SplitCall
<1>4. \A r \in Rides, g \in GroupIds : GuestsOwe(split'[r][g])
  <2>1. \A r \in Rides, g \in GroupIds : GuestsOwe(split[r][g])
    BY DEF SplitsInv
  <2>2. ASSUME NEW r \in Rides, NEW g \in GroupIds, NEW u \in Places \ {Initiator}
        PROVE  split'[r][g][u].amount \in Nat
    <3>1. split[r][g][u].amount \in Nat
      BY <2>1 DEF GuestsOwe
    <3>2. split'[r][g][u].amount = split[r][g][u].amount
      BY ZenonT(30), <1>2
    <3> QED BY <3>1, <3>2
  <2> QED BY <2>2 DEF GuestsOwe
<1> QED BY <1>2, <1>3, <1>4, SplitsStep

LEMMA SplitsKeep ==
    ASSUME SplitsInv, NEW c \in SplitCalls, SplitCallStep(c)
    PROVE  SplitsInv'
<1>1. \A r \in Rides, g \in GroupIds : split[r][g] \in [Places -> Share] /\ GuestsOwe(split[r][g])
  BY RowsOwed
<1>2. CASE CommitCreateSplit(c)
  BY <1>2, CreateCommitted, CommitType
<1>3. CASE CommitAccept(c) \/ CommitDecline(c) \/ CommitPayShare(c)
  BY <1>3, AnswerType
<1>4. CASE CommitCancelSplit(c)
  BY <1>4, CancelType
<1>5. CASE SplitCallFails(c)
  <2>1. split' = split /\ splitCall' = [splitCall EXCEPT ![c] = Idle]
        /\ Idle \in SplitCall
    BY <1>5 DEF SplitCallFails, Release, SplitCall
  <2>2. split' \in SplitRows /\ \A r \in Rides, g \in GroupIds : GuestsOwe(split'[r][g])
    BY <1>1, <2>1 DEF SplitRows, SplitsInv, SplitsTypeOK
  <2> QED BY <2>1, <2>2, SplitsStep
<1>6. CASE \E r \in Rides, invited \in SUBSET (Places \ {Initiator}) \ {{}} :
               LoadCreateSplit(c, r, invited)
  BY <1>6, CreateType
<1>7. CASE \E r \in Rides : LoadCancelSplit(c, r)
  <2>1. PICK r \in Rides :
            Occupy(c, [op |-> "cancel", ride |-> r,
                       rows |-> Rows(r, SplitStatus \ {"none", "cancelled"})])
    BY <1>7 DEF LoadCancelSplit
  <2> DEFINE new == [op |-> "cancel", ride |-> r,
                     rows |-> Rows(r, SplitStatus \ {"none", "cancelled"})]
  <2>2. new \in SplitCall /\ new # Idle /\ new.op = "cancel"
    BY DEF SplitCall, Cancellation, Rows, Idle
  <2> HIDE DEF new
  <2> QED BY <2>1, <2>2, LoadType DEF new
<1>8. CASE \E r \in Rides, g \in GroupIds, u \in Places :
               LoadAccept(c, r, g, u) \/ LoadDecline(c, r, g, u)
               \/ LoadPayShare(c, r, g, u)
  <2>1. PICK r \in Rides, g \in GroupIds, u \in Places,
             op \in {"accept", "decline", "pay"},
             at \in {"commit", "initiator", "stripe"} :
            /\ LoadAnswer(c, op, at, r, g, u)
            /\ op = "pay" => split[r][g][u].amount > 0
            /\ op # "pay" => u # Initiator
    BY <1>8 DEF LoadAccept, LoadDecline, LoadPayShare
  <2>2. PICK m : m = split[r][g][u].amount
    OBVIOUS
  <2>3. m \in Nat
    <3>1. split[r][g][u] \in Share
      BY <1>1
    <3>2. m \in Int
      BY <2>2, <3>1 DEF Share
    <3>3. CASE op = "pay"
      BY <2>1, <2>2, <3>2, <3>3
    <3>4. CASE op # "pay"
      BY <1>1, <2>1, <2>2, <3>4 DEF GuestsOwe
    <3> QED BY <3>3, <3>4
  <2> DEFINE new == [op |-> op, at |-> at, ride |-> r, group |-> g,
                     place |-> u, amount |-> m, left |-> 0, intent |-> NoIntent]
  <2>4. new \in SplitCall /\ new # Idle /\ new.op = op /\ new.place = u
    BY <2>3 DEF SplitCall, Answering, Idle
  <2>5. Occupy(c, new)
    BY <2>1, <2>2 DEF LoadAnswer
  <2> HIDE DEF new
  <2> QED BY <2>1, <2>4, <2>5, LoadType
<1>9. CASE LoadInitiator(c)
  <2>1. Using(c, "decline")
    BY <1>9 DEF LoadInitiator, InStep
  <2>2. PICK a : a = splitCall[c]
    OBVIOUS
  <2>3. a \in Answering /\ a.op = "decline" /\ a.place # Initiator
    BY <2>1, <2>2, CallTypes DEF SplitsInv, Using
  <2>4. PICK left : left = split[a.ride][a.group][Initiator].amount
    OBVIOUS
  <2>5. left \in Int
    <3>1. a.ride \in Rides /\ a.group \in GroupIds
      BY <2>3 DEF Answering
    <3>2. split[a.ride][a.group][Initiator] \in Share
      BY <1>1, <3>1, SplitsAssumption
    <3> QED BY <2>4, <3>2 DEF Share
  <2> DEFINE new == [a EXCEPT !.at = "commit", !.left = left]
  <2>6. splitCall' = [splitCall EXCEPT ![c] = new] /\ split' = split
    <3>1. /\ splitCall' = [splitCall EXCEPT
                 ![c].at = "commit",
                 ![c].left = split[a.ride][a.group][Initiator].amount]
          /\ split' = split
      BY <1>9, <2>2 DEF LoadInitiator
    <3> QED BY <2>2, <2>4, <3>1 DEF SplitsInv, SplitsTypeOK
  <2>7. new \in SplitCall /\ new.op = "decline" /\ new.place # Initiator
    BY <2>3, <2>5 DEF SplitCall, Answering
  <2>8. split' \in SplitRows /\ \A r \in Rides, g \in GroupIds : GuestsOwe(split'[r][g])
    BY <1>1, <2>6 DEF SplitRows, SplitsInv, SplitsTypeOK
  <2> HIDE DEF new
  <2> QED BY <2>6, <2>7, <2>8, SplitsStep
<1>10. CASE StripeShare(c)
  <2>1. Using(c, "pay")
    BY <1>10 DEF StripeShare, InStep
  <2>2. PICK a : a = splitCall[c]
    OBVIOUS
  <2>3. a \in Answering /\ a.op = "pay"
    BY <2>1, <2>2, CallTypes DEF Using
  <2>4. PICK i \in Intents :
            /\ splitCall' = [splitCall EXCEPT ![c].at = "commit", ![c].intent = i]
            /\ split' = split
    BY <1>10 DEF StripeShare, NextIntents
  <2> DEFINE new == [a EXCEPT !.at = "commit", !.intent = i]
  <2>5. splitCall' = [splitCall EXCEPT ![c] = new]
    BY <2>2, <2>4 DEF SplitsInv, SplitsTypeOK
  <2>6. new \in SplitCall /\ new.op = "pay"
    BY <2>3 DEF SplitCall, Answering
  <2>7. split' \in SplitRows /\ \A r \in Rides, g \in GroupIds : GuestsOwe(split'[r][g])
    BY <1>1, <2>4 DEF SplitRows, SplitsInv, SplitsTypeOK
  <2> HIDE DEF new
  <2> QED BY <2>5, <2>6, <2>7, SplitsStep
<1> QED BY <1>2, <1>3, <1>4, <1>5, <1>6, <1>7, <1>8, <1>9, <1>10
        DEF SplitCallStep

-----------------------------------------------------------------------------
(***************************************************************************)
(* The amounts of splits, when the requests about one ride do not overlap. *)
(***************************************************************************)
SharesContext == SplitsInv /\ SharesInv /\ OneSplitCallPerRide

\* A step of the request in slot c, about ride r.
LEMMA SharesStep ==
    ASSUME SharesContext, NEW c \in SplitCalls, NEW r \in Rides,
           ended' = ended,
           split' = split \/ (splitCall[c] # Idle /\ splitCall[c].ride = r),
           \A q \in Rides : q # r => split'[q] = split[q],
           \A d \in SplitCalls : d # c => splitCall'[d] = splitCall[d],
           \A g \in Made(r)' : Covers(split'[r][g], r),
           SharesCallOK(c)'
    PROVE  SharesInv'
<1>1. \A q \in Rides : Fare(q)' = Fare(q)
  BY DEF Fare
<1>2. ASSUME NEW q \in Rides, NEW g \in Made(q)'
      PROVE  Covers(split[q][g], q)'
  <2>1. CASE q = r
    BY <1>1, <2>1 DEF Covers
  <2>2. CASE q # r
    <3>1. split'[q] = split[q] /\ g \in Made(q)
      BY <2>2 DEF Made
    <3> QED BY <1>1, <3>1 DEF Covers, SharesContext, SharesInv
  <2> QED BY <2>1, <2>2
<1>3. ASSUME NEW d \in SplitCalls, d # c
      PROVE  SharesCallOK(d)'
  <2>1. SharesCallOK(d) /\ splitCall'[d] = splitCall[d]
    BY <1>3 DEF SharesContext, SharesInv
  <2>2. CASE splitCall[d] = Idle
    BY <2>1, <2>2 DEF SharesCallOK, Using
  <2>3. CASE splitCall[d] # Idle
    <3>1. PICK b : b = splitCall[d]
      OBVIOUS
    <3>2. b \in Creation \union Answering \union Cancellation
      BY <2>3, <3>1 DEF SharesContext, SplitsInv, SplitsTypeOK
    <3>3. b.ride \in Rides
      BY <3>2 DEF Creation, Answering, Cancellation
    <3>4. split'[b.ride] = split[b.ride]
      <4>1. CASE split' = split
        BY <4>1
      <4>2. CASE split' # split
        BY <1>3, <2>3, <3>1, <3>3, <4>2 DEF SharesContext, OneSplitCallPerRide
      <4> QED BY <4>1, <4>2
    <3>5. /\ Using(d, "create")' => Covers(b.rows, b.ride)'
          /\ Using(d, "decline")' => DeclineKnows(b)'
          /\ Using(d, "cancel")' =>
                 \A x \in b.rows : split'[b.ride][x[1]][x[2]].status # "none"
      <4>1. /\ Using(d, "create")' = Using(d, "create")
            /\ Using(d, "decline")' = Using(d, "decline")
            /\ Using(d, "cancel")' = Using(d, "cancel")
        BY <2>1 DEF Using
      <4>2. Using(d, "create")' => Covers(b.rows, b.ride)'
        BY <1>1, <2>1, <3>1, <3>3, <4>1 DEF SharesCallOK, Covers
      <4>3. Using(d, "decline")' => DeclineKnows(b)'
        BY <2>1, <3>1, <3>4, <4>1 DEF SharesCallOK, DeclineKnows
      <4>4. Using(d, "cancel")' =>
                \A x \in b.rows : split'[b.ride][x[1]][x[2]].status # "none"
        BY <2>1, <3>1, <3>4, <4>1 DEF SharesCallOK
      <4> QED BY <4>2, <4>3, <4>4
    <3>6. splitCall'[d] = b
      BY <2>1, <3>1
    <3> QED BY <3>5, <3>6 DEF SharesCallOK, Covers, DeclineKnows
  <2> QED BY <2>2, <2>3
<1> QED BY <1>2, <1>3 DEF SharesInv

\* A request is received: it knows what it loaded.
LEMMA SharesLoad ==
    ASSUME SharesContext, NEW c \in SplitCalls, NEW new, Occupy(c, new),
           SharesCallOK(c)'
    PROVE  SharesInv'
<1>1. /\ split' = split /\ ended' = ended
      /\ splitCall' = [splitCall EXCEPT ![c] = new]
  BY DEF Occupy, paymentVars
<1>2. \A d \in SplitCalls : d # c => splitCall'[d] = splitCall[d]
  BY <1>1 DEF SharesContext, SplitsInv, SplitsTypeOK
<1>3. ASSUME NEW r \in Rides PROVE SharesInv'
  <2>1. \A g \in Made(r)' : Covers(split'[r][g], r)
    BY <1>1 DEF SharesContext, SharesInv, Made
  <2> QED BY <1>1, <1>2, <2>1, SharesStep
<1>4. CASE Rides = {}
  <2>1. \A d \in SplitCalls : d # c => SharesCallOK(d)'
    <3> SUFFICES ASSUME NEW d \in SplitCalls, d # c PROVE SharesCallOK(d)'
      OBVIOUS
    <3>1. splitCall[d] = Idle
      BY <1>4 DEF SharesContext, SplitsInv, SplitsTypeOK, Creation, Answering,
                  Cancellation
    <3> QED BY <1>2, <3>1 DEF SharesCallOK, Using
  <2> QED BY <1>4, <2>1 DEF SharesInv
<1> QED BY <1>3, <1>4

\* A request ends: nothing is known of its slot.
LEMMA SharesRelease ==
    ASSUME SharesContext, NEW c \in SplitCalls, Release(c)
    PROVE  /\ SharesCallOK(c)'
           /\ \A d \in SplitCalls : d # c => splitCall'[d] = splitCall[d]
<1>1. /\ splitCall'[c] = Idle
      /\ \A d \in SplitCalls : d # c => splitCall'[d] = splitCall[d]
  BY DEF SharesContext, SplitsInv, SplitsTypeOK, Release
<1> QED BY <1>1 DEF SharesCallOK, Using

LEMMA AmountsSummable ==
    ASSUME NEW rows \in [Places -> Share]
    PROVE  /\ Summable(Amounts(rows), Places) /\ DOMAIN Amounts(rows) = Places
           /\ \A u \in Places : Amounts(rows)[u] = rows[u].amount
           /\ \A u \in Places : rows[u].amount \in Int
<1>1. \A u \in Places : rows[u].amount \in Int
  BY DEF Share
<1> QED BY <1>1, SplitsAssumption DEF Summable, Amounts

\* A declined share is added to the initiator's.
LEMMA DeclineCovers ==
    ASSUME NEW rows \in [Places -> Share], NEW new \in [Places -> Share],
           NEW p \in Places \ {Initiator}, NEW m \in Int, NEW left \in Int,
           rows[p].amount = m, rows[Initiator].amount = left,
           new[p].amount = 0,
           new[Initiator].amount = IF m = 0 THEN left ELSE left + m,
           \A u \in Places : u # p /\ u # Initiator => new[u].amount = rows[u].amount
    PROVE  SumFunction(Amounts(new)) = SumFunction(Amounts(rows))
<1> DEFINE mid == [Amounts(rows) EXCEPT ![p] = 0]
<1>1. p # Initiator /\ Initiator \in Places /\ IsFiniteSet(Places)
  BY SplitsAssumption
<1>2. /\ Summable(Amounts(rows), Places) /\ DOMAIN Amounts(rows) = Places
      /\ Summable(Amounts(new), Places) /\ DOMAIN Amounts(new) = Places
      /\ \A u \in Places : /\ Amounts(rows)[u] = rows[u].amount
                           /\ Amounts(new)[u] = new[u].amount
  BY AmountsSummable
<1>3. /\ DOMAIN mid = Places /\ mid[p] = 0
      /\ \A u \in Places \ {p} : mid[u] = Amounts(rows)[u]
  BY <1>2
<1>4. Summable(mid, Places)
  BY <1>2, <1>3 DEF Summable
<1> HIDE DEF mid
<1>5. SumFunction(mid) = SumFunction(Amounts(rows)) + (0 - m)
  BY <1>2, <1>3, <1>4, SumOfOne
<1>6. SumFunction(Amounts(new)) =
          SumFunction(mid) + (new[Initiator].amount - rows[Initiator].amount)
  <2>1. /\ mid[Initiator] = rows[Initiator].amount
        /\ Amounts(new)[Initiator] = new[Initiator].amount
    BY <1>1, <1>2, <1>3
  <2>2. \A u \in Places \ {Initiator} : Amounts(new)[u] = mid[u]
    BY <1>2, <1>3
  <2>3. SumFunction(Amounts(new)) =
            SumFunction(mid) + (Amounts(new)[Initiator] - mid[Initiator])
    BY <1>1, <1>2, <1>3, <1>4, <2>2, SumOfOne
  <2> QED BY <2>1, <2>3
<1>7. SumFunction(Amounts(rows)) \in Int
  BY <1>2, SumType
<1> QED BY <1>5, <1>6, <1>7

\* Rows whose amounts are the same add up to the same.
LEMMA SameAmounts ==
    ASSUME NEW rows, NEW new, \A u \in Places : new[u].amount = rows[u].amount
    PROVE  SumFunction(Amounts(new)) = SumFunction(Amounts(rows))
<1>1. Amounts(new) = Amounts(rows)
  BY DEF Amounts
<1> QED BY <1>1

\* A commit that replaces the rows of group g of ride r.
LEMMA SharesCommit ==
    ASSUME SharesContext, NEW c \in SplitCalls, splitCall[c] # Idle, Release(c),
           NEW r \in Rides, r = splitCall[c].ride, ended' = ended,
           NEW g \in GroupIds, NEW rows \in [Places -> Share],
           split' = [split EXCEPT ![r][g] = rows],
           rows[Initiator].status # "none" => Covers(rows, r)
    PROVE  SharesInv'
<1>1. split \in SplitRows
  BY DEF SharesContext, SplitsInv, SplitsTypeOK, SplitRows
<1>2. /\ split'[r][g] = rows
      /\ \A h \in GroupIds : h # g => split'[r][h] = split[r][h]
      /\ \A q \in Rides : q # r => split'[q] = split[q]
  BY <1>1 DEF SplitRows
<1>3. ASSUME NEW h \in Made(r)' PROVE Covers(split'[r][h], r)
  <2>1. h \in GroupIds /\ split'[r][h][Initiator].status # "none"
    BY <1>3 DEF Made
  <2>2. CASE h = g
    BY <1>2, <2>1, <2>2
  <2>3. CASE h # g
    <3>1. split'[r][h] = split[r][h]
      BY <1>2, <2>1, <2>3
    <3>2. h \in Made(r)
      BY <2>1, <3>1 DEF Made
    <3> QED BY <3>1, <3>2 DEF SharesContext, SharesInv
  <2> QED BY <2>2, <2>3
<1>4. /\ SharesCallOK(c)'
      /\ \A d \in SplitCalls : d # c => splitCall'[d] = splitCall[d]
  BY SharesRelease
<1> QED BY <1>2, <1>3, <1>4, SharesStep

LEMMA SharesAnswered ==
    ASSUME SharesContext, NEW c \in SplitCalls, ended' = ended,
           CommitAccept(c) \/ CommitDecline(c) \/ CommitPayShare(c)
    PROVE  SharesInv'
<1>1. SplitsInv
  BY DEF SharesContext
<1>2. PICK a : a = splitCall[c]
  OBVIOUS
<1>3. a \in Answering /\ splitCall[c] # Idle /\ Release(c)
  BY <1>1, <1>2, AnswerCommitted DEF Using
<1>4. /\ a.ride \in Rides /\ a.group \in GroupIds /\ a.place \in Places
      /\ a.amount \in Int /\ a.left \in Int
  BY <1>3 DEF Answering
<1>5. PICK rows \in [Places -> Share] : rows = split[a.ride][a.group]
  BY <1>1, <1>4, RowsOwed
<1>6. rows[Initiator].status # "none" => Covers(rows, a.ride)
  BY <1>4, <1>5 DEF SharesContext, SharesInv, Made
<1>7. Initiator \in Places /\ \A u \in Places : rows[u] \in Share
  BY <1>5, SplitsAssumption
<1>8. ASSUME NEW new \in [Places -> Share],
             split' = [split EXCEPT ![a.ride][a.group] = new],
             new[Initiator].status = rows[Initiator].status,
             SumFunction(Amounts(new)) = SumFunction(Amounts(rows))
      PROVE  SharesInv'
  <2>1. new[Initiator].status # "none" => Covers(new, a.ride)
    BY <1>6, <1>8 DEF Covers
  <2> QED BY <1>2, <1>3, <1>4, <1>8, <2>1, SharesCommit
<1>9. CASE CommitAccept(c)
  <2>1. PICK new : new = AcceptedRows(a)
    OBVIOUS
  <2>2. new \in [Places -> Share] /\ split' = [split EXCEPT ![a.ride][a.group] = new]
    BY <1>1, <1>2, <1>3, <1>9, <2>1, AnswerCommitted, AnswerRows
  <2>3. a.place # Initiator
    BY <1>1, <1>2, <1>9, AnswerCommitted DEF SplitsInv
  <2>4. new = [rows EXCEPT ![a.place] = [@ EXCEPT !.status = "accepted"]]
    BY <1>5, <2>1 DEF AcceptedRows
  <2>5. new[a.place].amount = rows[a.place].amount
    BY <1>4, <1>7, <2>4 DEF Share
  <2>6. \A u \in Places : u # a.place => new[u] = rows[u]
    BY <2>4
  <2>7. SumFunction(Amounts(new)) = SumFunction(Amounts(rows))
    BY <2>5, <2>6, SameAmounts
  <2> QED BY <1>7, <1>8, <2>2, <2>3, <2>6, <2>7
<1>10. CASE CommitPayShare(c)
  <2>1. PICK new : new = PaidRows(a)
    OBVIOUS
  <2>2. new \in [Places -> Share] /\ split' = [split EXCEPT ![a.ride][a.group] = new]
    BY <1>1, <1>2, <1>3, <1>10, <2>1, AnswerCommitted, AnswerRows
  <2>3. new = [rows EXCEPT ![a.place] = [@ EXCEPT !.intent = a.intent]]
    BY <1>5, <2>1 DEF PaidRows
  <2>4. /\ new[a.place].amount = rows[a.place].amount
        /\ new[a.place].status = rows[a.place].status
    BY <1>4, <1>7, <2>3 DEF Share
  <2>5. \A u \in Places : u # a.place => new[u] = rows[u]
    BY <2>3
  <2>6. SumFunction(Amounts(new)) = SumFunction(Amounts(rows))
    BY <2>4, <2>5, SameAmounts
  <2> QED BY <1>7, <1>8, <2>2, <2>4, <2>5, <2>6
<1>11. CASE CommitDecline(c)
  <2>1. PICK new : new = DeclinedRows(a)
    OBVIOUS
  <2>2. a.place # Initiator /\ Using(c, "decline") /\ a.at = "commit"
    BY <1>1, <1>2, <1>11, AnswerCommitted DEF SplitsInv
  <2>3. new \in [Places -> Share] /\ split' = [split EXCEPT ![a.ride][a.group] = new]
    BY <1>1, <1>2, <1>3, <1>11, <2>1, <2>2, AnswerCommitted, AnswerRows
  <2>4. a.amount = rows[a.place].amount /\ a.left = rows[Initiator].amount
    BY <1>2, <1>5, <2>2 DEF SharesContext, SharesInv, SharesCallOK, DeclineKnows
  <2>5. /\ new[a.place] = [rows[a.place] EXCEPT !.status = "declined", !.amount = 0]
        /\ new[Initiator] = [rows[Initiator] EXCEPT !.amount =
               IF a.amount = 0 THEN @ ELSE a.left + a.amount]
        /\ \A u \in Places : u # a.place /\ u # Initiator => new[u] = rows[u]
    BY <1>4, <1>5, <1>7, <2>1, <2>2 DEF DeclinedRows, WithoutShare
  <2>6. new[a.place].amount = 0
    BY <1>4, <1>7, <2>5 DEF Share
  <2>7. new[Initiator].amount =
            IF a.amount = 0 THEN a.left ELSE a.left + a.amount
    BY <1>7, <2>4, <2>5 DEF Share
  <2>8. new[Initiator].status = rows[Initiator].status
    BY <1>7, <2>5 DEF Share
  <2>9. SumFunction(Amounts(new)) = SumFunction(Amounts(rows))
    <3>1. /\ a.place \in Places \ {Initiator}
          /\ rows[a.place].amount = a.amount /\ rows[Initiator].amount = a.left
      BY <1>4, <2>2, <2>4
    <3>2. \A u \in Places :
              u # a.place /\ u # Initiator => new[u].amount = rows[u].amount
      BY <2>5
    <3> QED BY SMTT(30), <1>4, <1>5, <2>3, <2>6, <2>7, <3>1, <3>2, DeclineCovers
  <2> QED BY <1>8, <2>3, <2>8, <2>9
<1> QED BY <1>9, <1>10, <1>11

LEMMA SharesCancelled ==
    ASSUME SharesContext, NEW c \in SplitCalls, ended' = ended,
           CommitCancelSplit(c)
    PROVE  SharesInv'
<1>1. PICK a : a = splitCall[c]
  OBVIOUS
<1>2. /\ Using(c, "cancel") /\ Release(c) /\ a \in Cancellation
      /\ \A r \in Rides : r # a.ride => split'[r] = split[r]
      /\ \A r \in Rides, g \in GroupIds, u \in Places :
             /\ split'[r][g][u].amount = split[r][g][u].amount
             /\ \/ split'[r][g][u] = split[r][g][u]
                \/ r = a.ride /\ <<g, u>> \in a.rows
  BY <1>1, CancelCommitted DEF SharesContext
<1>3. PICK r \in Rides : r = a.ride
  BY <1>2 DEF Cancellation
<1>4. \A x \in a.rows : split[r][x[1]][x[2]].status # "none"
  BY <1>1, <1>2, <1>3 DEF SharesContext, SharesInv, SharesCallOK
<1>5. ASSUME NEW g \in Made(r)' PROVE Covers(split'[r][g], r)
  <2>1. g \in GroupIds /\ split'[r][g][Initiator].status # "none"
    BY <1>5 DEF Made
  <2>2. g \in Made(r)
    <3>1. CASE split'[r][g][Initiator] = split[r][g][Initiator]
      BY <2>1, <3>1 DEF Made
    <3>2. CASE <<g, Initiator>> \in a.rows
      BY <1>4, <2>1, <3>2 DEF Made
    <3> QED BY <1>2, <2>1, <3>1, <3>2, SplitsAssumption
  <2>3. SumFunction(Amounts(split'[r][g])) = SumFunction(Amounts(split[r][g]))
    BY <1>2, <2>1, SameAmounts
  <2> QED BY <2>2, <2>3 DEF Covers, SharesContext, SharesInv
<1>6. /\ SharesCallOK(c)'
      /\ \A d \in SplitCalls : d # c => splitCall'[d] = splitCall[d]
  BY <1>2, SharesRelease
<1> QED BY <1>1, <1>2, <1>3, <1>5, <1>6, SharesStep DEF Using

\* A step that leaves the rows, of a request that is not a creation, and not a
\* cancellation.
LEMMA SharesGoOn ==
    ASSUME SharesContext, NEW c \in SplitCalls, split' = split, ended' = ended,
           \A d \in SplitCalls : d # c => splitCall'[d] = splitCall[d],
           splitCall[c] # Idle, SharesCallOK(c)'
    PROVE  SharesInv'
<1>1. splitCall[c] \in Creation \union Answering \union Cancellation
  BY DEF SharesContext, SplitsInv, SplitsTypeOK
<1>2. PICK r \in Rides : r = splitCall[c].ride
  BY <1>1 DEF Creation, Answering, Cancellation
<1>3. \A g \in Made(r)' : Covers(split'[r][g], r)
  BY DEF SharesContext, SharesInv, Made
<1> QED BY <1>2, <1>3, SharesStep

LEMMA EndedStays ==
    ASSUME NEW c \in SplitCalls, SplitCallStep(c)
    PROVE  ended' = ended
<1>1. CASE CommitCreateSplit(c) \/ CommitAccept(c) \/ LoadInitiator(c)
           \/ CommitDecline(c) \/ CommitCancelSplit(c) \/ SplitCallFails(c)
           \/ StripeShare(c) \/ CommitPayShare(c)
  <2>1. UNCHANGED paymentVars
    BY <1>1 DEF CommitCreateSplit, CommitAccept, LoadInitiator, CommitDecline,
                CommitCancelSplit, SplitCallFails, StripeShare, CommitPayShare
  <2> QED BY <2>1 DEF paymentVars
<1>2. CASE \E r \in Rides :
               \/ \E invited \in SUBSET (Places \ {Initiator}) \ {{}} :
                      LoadCreateSplit(c, r, invited)
               \/ LoadCancelSplit(c, r)
               \/ \E g \in GroupIds, u \in Places :
                      \/ LoadAccept(c, r, g, u)
                      \/ LoadDecline(c, r, g, u)
                      \/ LoadPayShare(c, r, g, u)
  <2>1. \E new : Occupy(c, new)
    BY ZenonT(30), <1>2 DEF LoadCreateSplit, LoadCancelSplit, LoadAccept, LoadDecline,
                LoadPayShare, LoadAnswer
  <2> QED BY <2>1 DEF Occupy, paymentVars
<1> QED BY <1>1, <1>2 DEF SplitCallStep

LEMMA SharesKeep ==
    ASSUME SharesContext, NEW c \in SplitCalls, SplitCallStep(c)
    PROVE  SharesInv'
<1>1. SplitsInv
  BY DEF SharesContext
<1>2. ended' = ended
  BY EndedStays
<1>3. CASE CommitCreateSplit(c)
  <2>1. PICK r \in Rides, g \in GroupIds, rows \in [Places -> Share] :
            /\ Using(c, "create") /\ r = splitCall[c].ride
            /\ rows = splitCall[c].rows
            /\ split' = [split EXCEPT ![r][g] = rows]
            /\ Release(c)
    BY <1>1, <1>3, CreateCommitted
  <2>2. Covers(rows, r)
    BY <2>1 DEF SharesContext, SharesInv, SharesCallOK
  <2> QED BY <1>2, <2>1, <2>2, SharesCommit DEF Using
<1>4. CASE CommitAccept(c) \/ CommitDecline(c) \/ CommitPayShare(c)
  BY <1>2, <1>4, SharesAnswered
<1>5. CASE CommitCancelSplit(c)
  BY <1>2, <1>5, SharesCancelled
<1>6. CASE SplitCallFails(c)
  <2>1. Release(c) /\ split' = split /\ splitCall[c] # Idle
    BY <1>6 DEF SplitCallFails
  <2> QED BY <1>2, <2>1, SharesRelease, SharesGoOn
<1>7. CASE \E r \in Rides, invited \in SUBSET (Places \ {Initiator}) \ {{}} :
               LoadCreateSplit(c, r, invited)
  <2>1. PICK r \in Rides, rows \in [Places -> Share] :
            /\ Occupy(c, [op |-> "create", ride |-> r, rows |-> rows])
            /\ SumFunction(Amounts(rows)) = Fare(r)
    BY <1>1, <1>7, CreateLoaded
  <2> DEFINE new == [op |-> "create", ride |-> r, rows |-> rows]
  <2>2. splitCall'[c] = new
    BY <1>1, <2>1 DEF Occupy, SplitsInv, SplitsTypeOK
  <2>3. Covers(rows, r)'
    BY <1>2, <2>1 DEF Covers, Fare
  <2>4. new.op = "create" /\ new.rows = rows /\ new.ride = r
    OBVIOUS
  <2> HIDE DEF new
  <2>5. SharesCallOK(c)'
    BY <2>2, <2>3, <2>4 DEF SharesCallOK, Using, Covers
  <2> QED BY <2>1, <2>5, SharesLoad DEF new
<1>8. CASE \E r \in Rides : LoadCancelSplit(c, r)
  <2>1. PICK r \in Rides :
            Occupy(c, [op |-> "cancel", ride |-> r,
                       rows |-> Rows(r, SplitStatus \ {"none", "cancelled"})])
    BY <1>8 DEF LoadCancelSplit
  <2> DEFINE new == [op |-> "cancel", ride |-> r,
                     rows |-> Rows(r, SplitStatus \ {"none", "cancelled"})]
  <2>2. splitCall'[c] = new /\ split' = split
    BY <1>1, <2>1 DEF Occupy, SplitsInv, SplitsTypeOK
  <2>3. /\ new.op = "cancel" /\ new.ride = r
        /\ \A x \in new.rows : split[r][x[1]][x[2]].status # "none"
    BY DEF Rows
  <2> HIDE DEF new
  <2>4. SharesCallOK(c)'
    BY <2>2, <2>3 DEF SharesCallOK, Using
  <2> QED BY <2>1, <2>4, SharesLoad DEF new
<1>9. CASE \E r \in Rides, g \in GroupIds, u \in Places :
               LoadAccept(c, r, g, u) \/ LoadDecline(c, r, g, u)
               \/ LoadPayShare(c, r, g, u)
  <2>1. PICK r \in Rides, g \in GroupIds, u \in Places,
             op \in {"accept", "decline", "pay"},
             at \in {"commit", "initiator", "stripe"} :
            /\ LoadAnswer(c, op, at, r, g, u)
            /\ op = "decline" => at = "initiator"
    BY <1>9 DEF LoadAccept, LoadDecline, LoadPayShare
  <2>2. PICK m : m = split[r][g][u].amount
    OBVIOUS
  <2> DEFINE new == [op |-> op, at |-> at, ride |-> r, group |-> g,
                     place |-> u, amount |-> m, left |-> 0, intent |-> NoIntent]
  <2>3. Occupy(c, new)
    BY <2>1, <2>2 DEF LoadAnswer
  <2>4. splitCall'[c] = new /\ split' = split
    BY <1>1, <2>3 DEF Occupy, SplitsInv, SplitsTypeOK
  <2>5. /\ new.op = op /\ new.at = at /\ new.ride = r /\ new.group = g
        /\ new.place = u /\ new.amount = m
    OBVIOUS
  <2> HIDE DEF new
  <2>6. SharesCallOK(c)'
    <3>1. ~Using(c, "create")' /\ ~Using(c, "cancel")'
      BY <2>1, <2>4, <2>5 DEF Using
    <3>2. Using(c, "decline")' => DeclineKnows(splitCall[c])'
      BY <2>1, <2>2, <2>4, <2>5 DEF Using, DeclineKnows
    <3> QED BY <3>1, <3>2 DEF SharesCallOK
  <2> QED BY <2>3, <2>6, SharesLoad
<1>10. CASE LoadInitiator(c)
  <2>1. Using(c, "decline")
    BY <1>10 DEF LoadInitiator, InStep
  <2>2. PICK a : a = splitCall[c]
    OBVIOUS
  <2>3. a \in Answering /\ a.op = "decline" /\ DeclineKnows(a)
    BY <1>1, <2>1, <2>2, CallTypes
    DEF Using, SharesContext, SharesInv, SharesCallOK
  <2>4. PICK left : left = split[a.ride][a.group][Initiator].amount
    OBVIOUS
  <2>5. PICK new : new = [a EXCEPT !.at = "commit", !.left = left]
    OBVIOUS
  <2>6. /\ splitCall'[c] = new /\ split' = split
        /\ \A d \in SplitCalls : d # c => splitCall'[d] = splitCall[d]
    <3>1. /\ splitCall' = [splitCall EXCEPT
                 ![c].at = "commit",
                 ![c].left = split[a.ride][a.group][Initiator].amount]
          /\ split' = split
      BY <1>10, <2>2 DEF LoadInitiator
    <3> QED BY <1>1, <2>2, <2>4, <2>5, <3>1 DEF SplitsInv, SplitsTypeOK
  <2>7. /\ new.op = "decline" /\ new.ride = a.ride /\ new.group = a.group
        /\ new.place = a.place /\ new.amount = a.amount /\ new.left = left
    BY <2>3, <2>5 DEF Answering
  <2>8. SharesCallOK(c)'
    <3>1. ~Using(c, "create")' /\ ~Using(c, "cancel")'
      BY <2>6, <2>7 DEF Using
    <3>2. DeclineKnows(splitCall[c])'
      BY <2>3, <2>4, <2>6, <2>7 DEF DeclineKnows
    <3> QED BY <3>1, <3>2 DEF SharesCallOK
  <2> QED BY <1>2, <2>1, <2>6, <2>8, SharesGoOn DEF Using
<1>11. CASE StripeShare(c)
  <2>1. Using(c, "pay")
    BY <1>11 DEF StripeShare, InStep
  <2>2. /\ splitCall'[c].op = "pay" /\ split' = split
        /\ \A d \in SplitCalls : d # c => splitCall'[d] = splitCall[d]
    <3>1. PICK i \in Intents :
              /\ splitCall' = [splitCall EXCEPT ![c].at = "commit", ![c].intent = i]
              /\ split' = split
      BY <1>11 DEF StripeShare, NextIntents
    <3>2. splitCall[c] \in Answering /\ splitCall[c].op = "pay"
      BY <1>1, <2>1, CallTypes DEF Using
    <3> QED BY <1>1, <3>1, <3>2 DEF SplitsInv, SplitsTypeOK, Answering
  <2>3. SharesCallOK(c)'
    BY <2>2 DEF SharesCallOK, Using
  <2> QED BY <1>2, <2>1, <2>2, <2>3, SharesGoOn DEF Using
<1> QED BY <1>3, <1>4, <1>5, <1>6, <1>7, <1>8, <1>9, <1>10, <1>11
        DEF SplitCallStep

\* A step of a payment: what a ride costs changes once, when it is completed.
LEMMA SharesPaid ==
    ASSUME SharesInv, UNCHANGED splitVars,
           \A r \in Rides : ended'[r] = ended[r] \/ ended[r] = "no",
           SplitsInv
    PROVE  SharesInv'
<1>1. split' = split /\ splitCall' = splitCall
  BY DEF splitVars
<1>2. ASSUME NEW r \in Rides, NEW rows, Covers(rows, r)
      PROVE  Covers(rows, r)'
  BY <1>2 DEF Covers, Fare
<1>3. ASSUME NEW r \in Rides, NEW g \in Made(r)' PROVE Covers(split[r][g], r)'
  <2>1. PICK rows : rows = split[r][g]
    OBVIOUS
  <2>2. Covers(rows, r)
    BY <1>1, <1>3, <2>1 DEF SharesInv, Made
  <2>3. Covers(rows, r)'
    BY <1>2, <2>2
  <2>4. split'[r][g] = rows
    BY <1>1, <2>1
  <2> QED BY <2>3, <2>4 DEF Covers
<1>4. ASSUME NEW c \in SplitCalls PROVE SharesCallOK(c)'
  <2>1. CASE ~Using(c, "create")
    BY <1>1, <2>1 DEF SharesInv, SharesCallOK, Using, DeclineKnows
  <2>2. CASE Using(c, "create")
    <3>1. PICK b : b = splitCall[c]
      OBVIOUS
    <3>2. b \in Creation /\ Covers(b.rows, b.ride) /\ b.op = "create"
      BY <2>2, <3>1, CallTypes DEF SharesInv, SharesCallOK, Using
    <3>3. Covers(b.rows, b.ride)'
      BY <1>2, <3>2 DEF Creation
    <3>4. splitCall'[c] = b
      BY <1>1, <3>1
    <3> QED BY <3>2, <3>3, <3>4 DEF SharesCallOK, Using, Covers
  <2> QED BY <2>1, <2>2
<1> QED BY <1>3, <1>4 DEF SharesInv

LEMMA EndedOnce ==
    ASSUME PaymentsInv, Paying \/ UNCHANGED moneyVars
    PROVE  \A r \in Rides : ended'[r] = ended[r] \/ ended[r] = "no"
<1>1. CASE UNCHANGED moneyVars
  BY <1>1 DEF moneyVars, paymentVars
<1>2. CASE \E r \in Rides : RideEnds(r)
  BY <1>2 DEF RideEnds, PaymentsInv, PaymentsTypeOK
<1>3. CASE \E c \in Calls : CallStep(c)
  BY <1>3 DEF CallStep, LoadCreate, LoadRefund, LoadTip, Begin, StripeCreate,
              AskStripe, CommitCreate, CommitAndAnswer, CreateRefused, StripeTip,
              CommitTip, StripeRefund, CommitRefund, CallFails, paymentVars
<1>4. CASE \E h \in Hooks : HookStep(h)
  BY <1>4 DEF HookStep, LoadSucceeded, LoadFailed, Deliver, CommitSucceeded,
              CommitFailed, CommitHook, HookFails
<1>5. CASE Client /\ UNCHANGED paymentVars
  BY <1>5 DEF paymentVars
<1> QED BY <1>1, <1>2, <1>3, <1>4, <1>5 DEF Paying, PaymentStep

-----------------------------------------------------------------------------
\* MoneyInv holds in every reachable state, for any number of rides, intents,
\* requests, deliveries and places in splits.
THEOREM MoneyInvariant == MoneySpec => []MoneyInv
<1>1. MoneyInit => MoneyInv
  BY InitMoney, InitSplits DEF MoneyInv
<1>2. MoneyInv /\ [MoneyNext]_moneyVars => MoneyInv'
  <2> SUFFICES ASSUME PaymentsInv, SplitsInv, [MoneyNext]_moneyVars
               PROVE  PaymentsInv' /\ SplitsInv'
    BY DEF MoneyInv
  <2>1. CASE Paying
    BY <2>1, PayingKeeps, SplitsStay DEF Paying
  <2>2. CASE Splitting
    BY <2>2, SplitCallKeeps, SplitsKeep DEF Splitting
  <2>3. CASE UNCHANGED moneyVars
    BY <2>3, MoneyStutters, SplitsStay DEF moneyVars
  <2> QED BY <2>1, <2>2, <2>3 DEF MoneyNext
<1> QED BY <1>1, <1>2, PTL DEF MoneySpec

\* The variables keep their types: what a row, a request and a delivery hold
\* fits its columns (payments.py, fare_splitting.py).
THEOREM MoneyTypes == MoneySpec => []MoneyTypeOK
<1>1. MoneyInv => MoneyTypeOK
  BY DEF MoneyInv, PaymentsInv, SplitsInv, MoneyTypeOK
<1> QED BY <1>1, MoneyInvariant, PTL

\* create_fare_split, respond_to_split: the shares of every split add up to the
\* fare that was divided, for any number of places, when requests about the
\* splits of one ride do not overlap.
THEOREM SharesCoverTheFare ==
    MoneySpec /\ []OneSplitCallPerRide => []SharesCoverFare
<1>1. MoneyInit => SharesInv
  <2> SUFFICES ASSUME MoneyInit PROVE SharesInv
    OBVIOUS
  <2>1. /\ split = [r \in Rides |-> [g \in GroupIds |-> [u \in Places |-> NoShare]]]
        /\ splitCall = [c \in SplitCalls |-> Idle]
    BY DEF MoneyInit, SplitsInit
  <2>2. \A r \in Rides : Made(r) = {}
    BY <2>1, SplitsAssumption DEF Made, NoShare
  <2>3. \A c \in SplitCalls : SharesCallOK(c)
    BY <2>1 DEF SharesCallOK, Using
  <2> QED BY <2>2, <2>3 DEF SharesInv
<1>2. MoneyInv /\ OneSplitCallPerRide /\ SharesInv /\ [MoneyNext]_moneyVars
          => SharesInv'
  <2> SUFFICES ASSUME PaymentsInv, SharesContext, [MoneyNext]_moneyVars
               PROVE  SharesInv'
    BY DEF MoneyInv, SharesContext
  <2>1. CASE Paying \/ UNCHANGED moneyVars
    <3>1. UNCHANGED splitVars
      BY <2>1 DEF Paying, moneyVars
    <3> QED BY <2>1, <3>1, EndedOnce, SharesPaid DEF SharesContext
  <2>2. CASE Splitting
    BY <2>2, SharesKeep DEF Splitting
  <2> QED BY <2>1, <2>2 DEF MoneyNext
<1>3. SharesInv => SharesCoverFare
  BY DEF SharesInv, SharesCoverFare, Covers
<1> QED BY <1>1, <1>2, <1>3, MoneyInvariant, PTL DEF MoneySpec

\* add_tip: what the driver is paid includes the tip that is recorded.
THEOREM PayoutIncludesTheTip == MoneySpec => []PayoutIncludesTip
<1>1. MoneyInv => PayoutIncludesTip
  BY DEF MoneyInv, PaymentsInv, RowOK, Exists, PayoutIncludesTip
<1> QED BY <1>1, MoneyInvariant, PTL

\* process_refund: a payment is REFUNDED only when its money went back.
THEOREM RefundsWereReturned == MoneySpec => []RefundedWasReturned
<1>1. MoneyInv => RefundedWasReturned
  BY DEF MoneyInv, PaymentsInv, StatusOK, RefundedWasReturned
<1> QED BY <1>1, MoneyInvariant, PTL

\* handle_payment_succeeded: a payment is COMPLETED only when somebody paid.
THEOREM CompletedWereCollected == MoneySpec => []CompletedWasCollected
<1>1. MoneyInv => CompletedWasCollected
  BY DEF MoneyInv, PaymentsInv, StatusOK, PaidFor, CompletedWasCollected, Collected
<1> QED BY <1>1, MoneyInvariant, PTL

-----------------------------------------------------------------------------
(***************************************************************************)
(* Payouts, for any number of payouts and days: a payout is COMPLETED only *)
(* when its money moved, for any number of calls, and what a status tells  *)
(* when one call runs at a time.                                           *)
(***************************************************************************)
USE PayoutsAssumption

OnPayout(c) == admin[c] # Free /\ admin[c].op # "create"

\* A call that is about to record COMPLETED has seen its transfer made.
SeenOK(c) ==
    OnPayout(c) /\ Doing(c, "completed") =>
        transfers[admin[c].payout] > lost[admin[c].payout]

TransferInv ==
    /\ PayoutsTypeOK
    /\ \A p \in PayoutIds : lost[p] <= transfers[p]
    /\ \A c \in AdminCalls : SeenOK(c)
    /\ CompletedWasTransferred

\* Every step of a call: where it may go, and what it may do to rows and money.
LEMMA AdminCallTypes ==
    ASSUME PayoutsTypeOK, NEW c \in AdminCalls,
           admin[c] # Free, ~Doing(c, "create")
    PROVE  /\ admin[c].payout \in PayoutIds
           /\ \A op \in {"refuse", "start", "transfer", "completed", "failed"} :
                  Goto(c, op) =>
                      /\ admin' \in [AdminCalls -> AdminCall \union {Free}]
                      /\ admin'[c].op = op
                      /\ admin'[c] # Free
                      /\ admin'[c].payout = admin[c].payout
                      /\ \A o \in AdminCalls : o # c => admin'[o] = admin[o]
<1>1. admin[c] \in [op : {"process", "refuse", "start", "transfer", "completed",
                          "failed", "retry"}, payout : PayoutIds]
  BY DEF PayoutsTypeOK, AdminCall, Doing
<1> QED BY <1>1 DEF PayoutsTypeOK, AdminCall, Goto, Free

LEMMA CallEnters ==
    ASSUME PayoutsTypeOK, NEW c \in AdminCalls,
           NEW record \in AdminCall \union {Free},
           admin' = [admin EXCEPT ![c] = record]
    PROVE  /\ admin' \in [AdminCalls -> AdminCall \union {Free}]
           /\ admin'[c] = record
           /\ \A o \in AdminCalls : o # c => admin'[o] = admin[o]
BY DEF PayoutsTypeOK

\* A step that leaves the counts of transfers alone.
LEMMA CountsStay ==
    ASSUME TransferInv, UNCHANGED <<transfers, lost>>,
           PayoutsTypeOK',
           \A c \in AdminCalls :
               (OnPayout(c) /\ Doing(c, "completed"))' =>
                   OnPayout(c) /\ Doing(c, "completed")
                   /\ admin'[c].payout = admin[c].payout,
           \A p \in PayoutIds : payout'[p].status = "completed" =>
               payout[p].status = "completed" \/ transfers[p] > lost[p]
    PROVE  TransferInv'
BY DEF TransferInv, SeenOK, CompletedWasTransferred

\* The status of the call's payout is replaced.
LEMMA StatusWritten ==
    ASSUME PayoutsTypeOK, NEW c \in AdminCalls, admin[c].payout \in PayoutIds,
           NEW status \in PayoutStates, CommitStatus(c, status)
    PROVE  /\ payout' \in [PayoutIds -> Payout]
           /\ payout'[admin[c].payout].status = status
           /\ \A p \in PayoutIds : p # admin[c].payout => payout'[p] = payout[p]
BY DEF PayoutsTypeOK, CommitStatus, Payout

LEMMA AdminKeeps ==
    ASSUME TransferInv, NEW c \in AdminCalls, AdminStep(c)
    PROVE  TransferInv'
<1> USE DEF TransferInv
<1>1. PayoutsTypeOK
  OBVIOUS
<1>2. CASE \E period \in Period : LoadCreatePayout(c, period)
  <2>1. PICK period \in Period : LoadCreatePayout(c, period)
    BY <1>2
  <2> DEFINE record == [op |-> "create", period |-> period]
  <2>2. record \in AdminCall \union {Free} /\ record.op = "create"
    BY DEF AdminCall
  <2>3. /\ admin' = [admin EXCEPT ![c] = record]
        /\ UNCHANGED <<account, payout, transfers, lost, doubled>>
    BY <2>1 DEF LoadCreatePayout, Enter
  <2> HIDE DEF record
  <2>4. /\ admin' \in [AdminCalls -> AdminCall \union {Free}]
        /\ admin'[c] = record
        /\ \A o \in AdminCalls : o # c => admin'[o] = admin[o]
    BY <2>2, <2>3, CallEnters
  <2>5. PayoutsTypeOK'
    BY <2>3, <2>4 DEF PayoutsTypeOK
  <2> QED BY <2>2, <2>3, <2>4, <2>5, CountsStay DEF OnPayout, Doing
<1>3. CASE InsertPayout(c)
  <2>1. /\ admin' = [admin EXCEPT ![c] = Free]
        /\ UNCHANGED <<account, transfers, lost, doubled>>
    BY <1>3 DEF InsertPayout, Leave
  <2>2. PICK p \in PayoutIds :
            payout' = [payout EXCEPT ![p] =
                [status |-> "pending", period |-> admin[c].period]]
    BY <1>3 DEF InsertPayout
  <2>3. admin[c].period \in Period
    BY <1>3 DEF InsertPayout, Doing, PayoutsTypeOK, AdminCall, Free
  <2>4. /\ payout' \in [PayoutIds -> Payout]
        /\ \A q \in PayoutIds : payout'[q].status = "completed" =>
                                    payout[q].status = "completed"
    BY <2>2, <2>3 DEF PayoutsTypeOK, Payout, PayoutStates
  <2>5. /\ admin' \in [AdminCalls -> AdminCall \union {Free}]
        /\ admin'[c] = Free
        /\ \A o \in AdminCalls : o # c => admin'[o] = admin[o]
    BY <2>1, CallEnters
  <2>6. PayoutsTypeOK'
    BY <2>1, <2>4, <2>5 DEF PayoutsTypeOK
  <2> QED BY <2>1, <2>4, <2>5, <2>6, CountsStay DEF OnPayout, Doing
<1>4. CASE \E p \in PayoutIds : LoadProcess(c, p) \/ LoadRetry(c, p)
  <2>1. PICK p \in PayoutIds, op \in {"process", "retry"} :
            /\ admin' = [admin EXCEPT ![c] = [op |-> op, payout |-> p]]
            /\ doubled' \in {doubled, doubled \union {p}}
            /\ UNCHANGED <<account, payout, transfers, lost>>
    <3>1. PICK p \in PayoutIds, op \in {"process", "retry"} : Take(c, op, p)
      BY <1>4 DEF LoadProcess, LoadRetry
    <3>2. doubled' \in {doubled, doubled \union {p}}
      BY <3>1 DEF Take
    <3> QED BY <3>1, <3>2 DEF Take, Enter
  <2> DEFINE record == [op |-> op, payout |-> p]
  <2>2. record \in AdminCall \union {Free} /\ record.op # "completed"
    BY DEF AdminCall
  <2>3. admin' = [admin EXCEPT ![c] = record]
    BY <2>1
  <2> HIDE DEF record
  <2>4. /\ admin' \in [AdminCalls -> AdminCall \union {Free}]
        /\ admin'[c] = record
        /\ \A o \in AdminCalls : o # c => admin'[o] = admin[o]
    BY <2>2, <2>3, CallEnters
  <2>5. PayoutsTypeOK'
    BY <2>1, <2>4 DEF PayoutsTypeOK
  <2> QED BY <2>1, <2>2, <2>4, <2>5, CountsStay DEF OnPayout, Doing
<1>5. CASE LoadAccount(c) \/ TransferRefused(c)
  <2>1. PICK op \in {"refuse", "start", "failed"} :
            /\ admin[c] # Free /\ ~Doing(c, "create") /\ Goto(c, op)
            /\ UNCHANGED <<account, payout, transfers, lost, doubled>>
    BY <1>5 DEF LoadAccount, TransferRefused, Doing, Free
  <2>2. /\ admin' \in [AdminCalls -> AdminCall \union {Free}]
        /\ admin'[c].op = op
        /\ \A o \in AdminCalls : o # c => admin'[o] = admin[o]
    BY <2>1, AdminCallTypes
  <2>3. PayoutsTypeOK'
    BY <2>1, <2>2 DEF PayoutsTypeOK
  <2> QED BY <2>1, <2>2, <2>3, CountsStay DEF OnPayout, Doing
<1>6. CASE RefusePayout(c) \/ CommitOutcome(c) \/ CommitRetry(c)
  <2>1. PICK status \in {"completed", "failed", "pending"} :
            /\ admin[c] # Free /\ ~Doing(c, "create")
            /\ CommitStatus(c, status)
            /\ status = "completed" => Doing(c, "completed")
            /\ admin' = [admin EXCEPT ![c] = Free]
            /\ UNCHANGED <<account, transfers, lost, doubled>>
    BY <1>6 DEF RefusePayout, CommitOutcome, CommitRetry, Doing, Free, Leave
  <2>2. admin[c].payout \in PayoutIds
    BY <2>1, AdminCallTypes
  <2>3. /\ payout' \in [PayoutIds -> Payout]
        /\ payout'[admin[c].payout].status = status
        /\ \A p \in PayoutIds : p # admin[c].payout => payout'[p] = payout[p]
    <3>1. status \in PayoutStates
      BY DEF PayoutStates
    <3> QED BY <2>1, <2>2, <3>1, StatusWritten
  <2>4. /\ admin' \in [AdminCalls -> AdminCall \union {Free}]
        /\ admin'[c] = Free
        /\ \A o \in AdminCalls : o # c => admin'[o] = admin[o]
    BY <2>1, CallEnters
  <2>5. PayoutsTypeOK'
    BY <2>1, <2>3, <2>4 DEF PayoutsTypeOK
  <2>6. status = "completed" => transfers[admin[c].payout] > lost[admin[c].payout]
    BY <2>1 DEF SeenOK, OnPayout, Doing
  <2> QED BY <2>1, <2>3, <2>4, <2>5, <2>6, CountsStay DEF OnPayout, Doing
<1>7. CASE StartTransfer(c)
  <2>1. /\ admin[c] # Free /\ ~Doing(c, "create")
        /\ CommitStatus(c, "processing")
        /\ Goto(c, "transfer")
        /\ UNCHANGED <<account, transfers, lost, doubled>>
    BY <1>7 DEF StartTransfer, Doing, Free
  <2>2. /\ admin[c].payout \in PayoutIds
        /\ admin' \in [AdminCalls -> AdminCall \union {Free}]
        /\ admin'[c].op = "transfer"
        /\ \A o \in AdminCalls : o # c => admin'[o] = admin[o]
    BY <2>1, AdminCallTypes
  <2>3. /\ payout' \in [PayoutIds -> Payout]
        /\ \A p \in PayoutIds : payout'[p].status = "completed" =>
                                    payout[p].status = "completed"
    <3>1. "processing" \in PayoutStates
      BY DEF PayoutStates
    <3> QED BY <2>1, <2>2, <3>1, StatusWritten
  <2>4. PayoutsTypeOK'
    BY <2>1, <2>2, <2>3 DEF PayoutsTypeOK
  <2> QED BY <2>1, <2>2, <2>3, <2>4, CountsStay DEF OnPayout, Doing
<1>8. CASE TransferMade(c) \/ TransferUnanswered(c)
  <2> DEFINE p == admin[c].payout
  <2>1. PICK op \in {"completed", "failed"} :
            /\ admin[c] # Free /\ ~Doing(c, "create") /\ Goto(c, op)
            /\ transfers[p] < MaxTransfers
            /\ transfers' = [transfers EXCEPT ![p] = @ + 1]
            /\ \/ op = "completed" /\ lost' = lost
               \/ op = "failed" /\ lost' = [lost EXCEPT ![p] = @ + 1]
            /\ UNCHANGED <<account, payout, doubled>>
    BY <1>8 DEF TransferMade, TransferUnanswered, Doing, Free
  <2>2. /\ p \in PayoutIds
        /\ admin' \in [AdminCalls -> AdminCall \union {Free}]
        /\ admin'[c].op = op /\ admin'[c].payout = p
        /\ \A o \in AdminCalls : o # c => admin'[o] = admin[o]
    BY <2>1, AdminCallTypes
  <2>3. MaxTransfers \in Nat
    BY PayoutsAssumption
  <2>4. /\ transfers \in [PayoutIds -> 0 .. MaxTransfers]
        /\ lost \in [PayoutIds -> 0 .. MaxTransfers]
        /\ lost[p] <= transfers[p]
    BY <2>2 DEF PayoutsTypeOK
  <2>5. /\ transfers' \in [PayoutIds -> 0 .. MaxTransfers]
        /\ lost' \in [PayoutIds -> 0 .. MaxTransfers]
        /\ \A q \in PayoutIds : lost'[q] <= transfers'[q]
        /\ \A q \in PayoutIds : transfers[q] > lost[q] =>
                                    transfers'[q] > lost'[q]
        /\ op = "completed" => transfers'[p] > lost'[p]
    BY <2>1, <2>2, <2>3, <2>4
  <2>6. PayoutsTypeOK'
    BY <2>1, <2>2, <2>5 DEF PayoutsTypeOK
  <2>7. \A o \in AdminCalls : SeenOK(o)'
    <3> SUFFICES ASSUME NEW o \in AdminCalls PROVE SeenOK(o)'
      OBVIOUS
    <3>1. CASE o = c
      BY <2>2, <2>5, <3>1 DEF SeenOK, Doing
    <3>2. CASE o # c
      <4>1. admin[o] # Free /\ ~Doing(o, "create") => admin[o].payout \in PayoutIds
        BY AdminCallTypes
      <4> QED BY <2>2, <2>5, <3>2, <4>1 DEF SeenOK, OnPayout, Doing
    <3> QED BY <3>1, <3>2
  <2>8. CompletedWasTransferred'
    BY <2>1, <2>5 DEF CompletedWasTransferred
  <2> QED BY <2>5, <2>6, <2>7, <2>8
<1>9. CASE AdminCallDies(c)
  <2>1. /\ admin' = [admin EXCEPT ![c] = Free]
        /\ UNCHANGED <<account, payout, transfers, lost, doubled>>
    BY <1>9 DEF AdminCallDies, Leave
  <2>2. /\ admin' \in [AdminCalls -> AdminCall \union {Free}]
        /\ admin'[c] = Free
        /\ \A o \in AdminCalls : o # c => admin'[o] = admin[o]
    BY <2>1, CallEnters
  <2>3. PayoutsTypeOK'
    BY <2>1, <2>2 DEF PayoutsTypeOK
  <2> QED BY <2>1, <2>2, <2>3, CountsStay DEF OnPayout, Doing
<1> QED BY <1>2, <1>3, <1>4, <1>5, <1>6, <1>7, <1>8, <1>9 DEF AdminStep

LEMMA TransferStutters ==
    ASSUME TransferInv, UNCHANGED <<payout, admin, transfers, lost, doubled>>,
           account' \in Account
    PROVE  TransferInv'
BY DEF TransferInv, PayoutsTypeOK, SeenOK, OnPayout, Doing,
       CompletedWasTransferred

\* Whatever calls overlap, are retried or die, one that is about to record a
\* transfer has seen it made.
THEOREM TransferInvariant == PayoutSpec => []TransferInv
<1>1. PayoutsInit => TransferInv
  BY DEF PayoutsInit, TransferInv, PayoutsTypeOK, Account, Payout, NoPayout,
         PayoutStates, SeenOK, OnPayout, Doing, Free, CompletedWasTransferred
<1>2. TransferInv /\ [PayoutStep]_payoutVars => TransferInv'
  <2> SUFFICES ASSUME TransferInv, [PayoutStep]_payoutVars PROVE TransferInv'
    OBVIOUS
  <2>1. ASSUME NEW c \in AdminCalls, AdminStep(c) PROVE TransferInv'
    BY <2>1, AdminKeeps
  <2>2. CASE SetupAccount \/ AccountUpdated \/ DeactivateAccount
    <3>1. account' \in Account
      <4>1. account \in Account
        BY DEF TransferInv, PayoutsTypeOK
      <4>2. CASE SetupAccount
        BY <4>2 DEF SetupAccount, Account
      <4>3. CASE AccountUpdated
        BY <4>1, <4>3 DEF AccountUpdated, Account
      <4>4. CASE DeactivateAccount
        BY <4>1, <4>4 DEF DeactivateAccount, Account
      <4> QED BY <2>2, <4>2, <4>3, <4>4
    <3> QED BY <2>2, <3>1, TransferStutters
         DEF SetupAccount, AccountUpdated, DeactivateAccount
  <2>3. CASE UNCHANGED payoutVars
    BY <2>3, TransferStutters DEF payoutVars, TransferInv, PayoutsTypeOK
  <2> QED BY <2>1, <2>2, <2>3 DEF PayoutStep
<1> QED BY <1>1, <1>2, PTL DEF PayoutSpec

\* process_payout: a COMPLETED payout's money was transferred, whatever calls
\* overlap, are retried or die.
THEOREM CompletedWereTransferred == PayoutSpec => []CompletedWasTransferred
<1>1. TransferInv => CompletedWasTransferred
  BY DEF TransferInv
<1> QED BY <1>1, TransferInvariant, PTL

\* What an account, a payout and a call hold fits their columns (payouts.py).
THEOREM PayoutTypes == PayoutSpec => []PayoutsTypeOK
<1>1. TransferInv => PayoutsTypeOK
  BY DEF TransferInv
<1> QED BY <1>1, TransferInvariant, PTL

-----------------------------------------------------------------------------
(***************************************************************************)
(* Payouts that no two calls were about at once.                           *)
(***************************************************************************)
Unmoved(p)   == transfers[p] = lost[p]
MovedOnce(p) == transfers[p] = lost[p] + 1

\* What the call in slot c knows of payout p, as no other has touched it.
CallTells(c, p) ==
    /\ admin[c].op \in {"process", "refuse", "start"} =>
           payout[p].status = "pending"
    /\ admin[c].op = "retry" => payout[p].status = "failed"
    /\ admin[c].op \in {"transfer", "failed"} =>
           payout[p].status = "processing" /\ Unmoved(p)
    /\ admin[c].op = "completed" =>
           payout[p].status = "processing" /\ MovedOnce(p)

RowTells(p) ==
    /\ payout[p].status = "completed" => MovedOnce(p)
    /\ payout[p].status = "processing" => Unmoved(p) \/ MovedOnce(p)
    /\ payout[p].status \notin {"completed", "processing"} => Unmoved(p)

AloneInv ==
    /\ TransferInv
    /\ \A p \in PayoutIds \ doubled :
           /\ RowTells(p)
           /\ \A c \in AdminCalls : About(c, p) => CallTells(c, p)
           /\ \A c, o \in AdminCalls : About(c, p) /\ About(o, p) => c = o

\* The step of a call that is about p, or about nothing, from what it leaves
\* of p when the call is the only one about it.
LEMMA AloneStep ==
    ASSUME AloneInv, TransferInv', NEW c \in AdminCalls, NEW p \in PayoutIds,
           \A o \in AdminCalls : o # c => admin'[o] = admin[o],
           \A q \in PayoutIds : q # p =>
               /\ payout'[q] = payout[q]
               /\ transfers'[q] = transfers[q] /\ lost'[q] = lost[q]
               /\ ~About(c, q)',
           doubled \subseteq doubled',
           p \notin doubled' =>
               /\ \A o \in AdminCalls : o # c => ~About(o, p)
               /\ RowTells(p)'
               /\ About(c, p)' => CallTells(c, p)'
    PROVE  AloneInv'
<1>1. ASSUME NEW q \in PayoutIds, q \notin doubled'
      PROVE  /\ RowTells(q)'
             /\ \A d \in AdminCalls : About(d, q)' => CallTells(d, q)'
             /\ \A d, o \in AdminCalls : About(d, q)' /\ About(o, q)' => d = o
  <2>1. CASE q = p
    BY <1>1, <2>1 DEF About
  <2>2. CASE q # p
    <3>1. /\ RowTells(q)
          /\ \A d \in AdminCalls : About(d, q) => CallTells(d, q)
          /\ \A d, o \in AdminCalls : About(d, q) /\ About(o, q) => d = o
      BY <1>1 DEF AloneInv
    <3>2. \A d \in AdminCalls :
              About(d, q)' => d # c /\ About(d, q) /\ admin'[d] = admin[d]
      BY <2>2 DEF About
    <3>3. RowTells(q)'
      BY <2>2, <3>1 DEF RowTells, Unmoved, MovedOnce
    <3>4. \A d \in AdminCalls : About(d, q)' => CallTells(d, q)'
      BY <2>2, <3>1, <3>2 DEF CallTells, Unmoved, MovedOnce
    <3> QED BY <3>1, <3>2, <3>3, <3>4
  <2> QED BY <2>1, <2>2
<1> QED BY <1>1 DEF AloneInv

\* A step after which a call is at most where it was.
LEMMA AloneStays ==
    ASSUME AloneInv, TransferInv', UNCHANGED <<payout, transfers, lost, doubled>>,
           \A d \in AdminCalls, p \in PayoutIds :
               About(d, p)' => About(d, p) /\ admin'[d] = admin[d]
    PROVE  AloneInv'
<1>1. ASSUME NEW p \in PayoutIds \ doubled
      PROVE  /\ RowTells(p)'
             /\ \A d \in AdminCalls : About(d, p)' => CallTells(d, p)'
             /\ \A d, o \in AdminCalls : About(d, p)' /\ About(o, p)' => d = o
  <2>1. /\ RowTells(p)
        /\ \A d \in AdminCalls : About(d, p) => CallTells(d, p)
        /\ \A d, o \in AdminCalls : About(d, p) /\ About(o, p) => d = o
    BY <1>1 DEF AloneInv
  <2> QED BY <2>1 DEF RowTells, CallTells, Unmoved, MovedOnce
<1> QED BY <1>1 DEF AloneInv

LEMMA AloneKeeps ==
    ASSUME AloneInv, NEW c \in AdminCalls, AdminStep(c)
    PROVE  AloneInv'
<1>1. TransferInv /\ TransferInv' /\ PayoutsTypeOK
  BY AdminKeeps DEF AloneInv, TransferInv
<1>2. CASE \E period \in Period : LoadCreatePayout(c, period)
  <2>1. PICK period \in Period :
            /\ admin' = [admin EXCEPT ![c] = [op |-> "create", period |-> period]]
            /\ UNCHANGED <<payout, transfers, lost, doubled>>
    BY <1>2 DEF LoadCreatePayout, Enter
  <2>2. /\ admin'[c].op = "create"
        /\ \A o \in AdminCalls : o # c => admin'[o] = admin[o]
    BY <1>1, <2>1 DEF PayoutsTypeOK
  <2> QED BY <1>1, <2>1, <2>2, AloneStays DEF About
<1>3. CASE InsertPayout(c)
  <2>1. PICK p \in PayoutIds :
            /\ payout[p] = NoPayout
            /\ payout' = [payout EXCEPT ![p] =
                   [status |-> "pending", period |-> admin[c].period]]
            /\ admin' = [admin EXCEPT ![c] = Free]
            /\ UNCHANGED <<transfers, lost, doubled>>
    BY <1>3 DEF InsertPayout, Leave
  <2>2. /\ admin'[c] = Free
        /\ \A o \in AdminCalls : o # c => admin'[o] = admin[o]
    BY <1>1, <2>1 DEF PayoutsTypeOK
  <2>3. /\ payout[p].status = "none" /\ payout'[p].status = "pending"
        /\ \A q \in PayoutIds : q # p => payout'[q] = payout[q]
    BY <1>1, <2>1 DEF PayoutsTypeOK, NoPayout
  <2>4. ASSUME p \notin doubled
        PROVE  RowTells(p)' /\ \A o \in AdminCalls : ~About(o, p)
    <3>1. RowTells(p) /\ \A o \in AdminCalls : About(o, p) => CallTells(o, p)
      BY <2>4 DEF AloneInv
    <3>2. \A o \in AdminCalls :
              About(o, p) => admin[o].op \in {"process", "refuse", "start", "retry",
                                              "transfer", "failed", "completed"}
      BY <1>1 DEF PayoutsTypeOK, AdminCall, About, Free
    <3> QED BY <2>1, <2>3, <3>1, <3>2 DEF RowTells, CallTells, Unmoved
  <2> QED BY <1>1, <2>1, <2>2, <2>3, <2>4, AloneStep DEF About, Free
<1>4. CASE \E p \in PayoutIds : LoadProcess(c, p) \/ LoadRetry(c, p)
  <2>1. PICK p \in PayoutIds, op \in {"process", "retry"} :
            /\ payout[p].status = IF op = "process" THEN "pending" ELSE "failed"
            /\ Take(c, op, p)
    BY <1>4 DEF LoadProcess, LoadRetry
  <2>2. /\ admin' = [admin EXCEPT ![c] = [op |-> op, payout |-> p]]
        /\ doubled \subseteq doubled'
        /\ p \notin doubled' =>
               p \notin doubled /\ \A o \in AdminCalls : ~About(o, p)
        /\ UNCHANGED <<payout, transfers, lost>>
    BY <2>1 DEF Take, Enter
  <2>3. /\ admin'[c] = [op |-> op, payout |-> p]
        /\ \A o \in AdminCalls : o # c => admin'[o] = admin[o]
    BY <1>1, <2>2 DEF PayoutsTypeOK
  <2>4. CallTells(c, p)'
    BY <2>1, <2>2, <2>3 DEF CallTells
  <2>5. p \notin doubled => RowTells(p)'
    BY <2>2 DEF AloneInv, RowTells, Unmoved, MovedOnce
  <2> QED BY <1>1, <2>2, <2>3, <2>4, <2>5, AloneStep DEF About
<1>5. CASE LoadAccount(c) \/ TransferRefused(c)
  <2>0. PICK p \in PayoutIds : p = admin[c].payout
    BY <1>1, <1>5, AdminCallTypes DEF LoadAccount, TransferRefused,
       Doing, Free
  <2>1. PICK op \in {"refuse", "start", "failed"} :
            /\ admin[c] # Free /\ ~Doing(c, "create") /\ Goto(c, op)
            /\ admin[c].op = IF op = "failed" THEN "transfer" ELSE "process"
            /\ UNCHANGED <<payout, transfers, lost, doubled>>
    BY <1>5 DEF LoadAccount, TransferRefused, Doing, Free
  <2>2. /\ p \in PayoutIds /\ About(c, p)
        /\ admin'[c].op = op /\ admin'[c].payout = p
        /\ \A o \in AdminCalls : o # c => admin'[o] = admin[o]
    BY <1>1, <2>0, <2>1, AdminCallTypes DEF About
  <2>3. ASSUME p \notin doubled
        PROVE  /\ \A o \in AdminCalls : o # c => ~About(o, p)
               /\ RowTells(p)' /\ CallTells(c, p)'
    <3>1. /\ RowTells(p) /\ CallTells(c, p)
          /\ \A o \in AdminCalls : o # c => ~About(o, p)
      BY <2>0, <2>2, <2>3 DEF AloneInv
    <3> QED BY <2>0, <2>1, <2>2, <3>1 DEF RowTells, CallTells, Unmoved, MovedOnce
  <2> QED BY <1>1, <2>0, <2>1, <2>2, <2>3, AloneStep DEF About
<1>6. CASE RefusePayout(c) \/ CommitOutcome(c) \/ CommitRetry(c)
  <2>0. PICK p \in PayoutIds : p = admin[c].payout
    BY <1>1, <1>6, AdminCallTypes DEF RefusePayout, CommitOutcome, CommitRetry,
       Doing, Free
  <2>1. PICK status \in {"completed", "failed", "pending"} :
            /\ admin[c] # Free /\ ~Doing(c, "create")
            /\ CommitStatus(c, status)
            /\ admin[c].op \in CASE status = "completed" -> {"completed"}
                                 [] status = "failed"    -> {"failed", "refuse"}
                                 [] status = "pending"   -> {"retry"}
            /\ admin' = [admin EXCEPT ![c] = Free]
            /\ UNCHANGED <<transfers, lost, doubled>>
    BY <1>6 DEF RefusePayout, CommitOutcome, CommitRetry, Doing, Free, Leave
  <2>2. p \in PayoutIds /\ About(c, p)
    BY <1>1, <2>0, <2>1, AdminCallTypes DEF About
  <2>3. /\ payout'[p].status = status
        /\ \A q \in PayoutIds : q # p => payout'[q] = payout[q]
    <3>1. status \in PayoutStates
      BY DEF PayoutStates
    <3> QED BY <1>1, <2>0, <2>1, <2>2, <3>1, StatusWritten
  <2>4. /\ admin'[c] = Free
        /\ \A o \in AdminCalls : o # c => admin'[o] = admin[o]
    BY <1>1, <2>0, <2>1 DEF PayoutsTypeOK
  <2>5. ASSUME p \notin doubled
        PROVE  RowTells(p)' /\ \A o \in AdminCalls : o # c => ~About(o, p)
    <3>1. /\ RowTells(p) /\ CallTells(c, p)
          /\ \A o \in AdminCalls : o # c => ~About(o, p)
      BY <2>0, <2>2, <2>5 DEF AloneInv
    <3>2. IF status = "completed" THEN MovedOnce(p) ELSE Unmoved(p)
      BY <2>0, <2>1, <3>1 DEF CallTells, RowTells
    <3> QED BY <2>0, <2>1, <2>3, <3>1, <3>2 DEF RowTells, Unmoved, MovedOnce
  <2> QED BY <1>1, <2>0, <2>1, <2>2, <2>3, <2>4, <2>5, AloneStep DEF About, Free
<1>7. CASE StartTransfer(c)
  <2>0. PICK p \in PayoutIds : p = admin[c].payout
    BY <1>1, <1>7, AdminCallTypes DEF StartTransfer,
       Doing, Free
  <2>1. /\ admin[c] # Free /\ admin[c].op = "start"
        /\ CommitStatus(c, "processing")
        /\ Goto(c, "transfer")
        /\ UNCHANGED <<transfers, lost, doubled>>
    BY <1>7 DEF StartTransfer, Doing, Free
  <2>2. /\ p \in PayoutIds /\ About(c, p)
        /\ admin'[c].op = "transfer" /\ admin'[c].payout = p
        /\ \A o \in AdminCalls : o # c => admin'[o] = admin[o]
    BY <1>1, <2>0, <2>1, AdminCallTypes DEF Doing, About
  <2>3. /\ payout'[p].status = "processing"
        /\ \A q \in PayoutIds : q # p => payout'[q] = payout[q]
    <3>1. "processing" \in PayoutStates
      BY DEF PayoutStates
    <3> QED BY <1>1, <2>0, <2>1, <2>2, <3>1, StatusWritten
  <2>4. ASSUME p \notin doubled
        PROVE  /\ \A o \in AdminCalls : o # c => ~About(o, p)
               /\ RowTells(p)' /\ CallTells(c, p)'
    <3>1. /\ RowTells(p) /\ CallTells(c, p)
          /\ \A o \in AdminCalls : o # c => ~About(o, p)
      BY <2>0, <2>2, <2>4 DEF AloneInv
    <3>2. Unmoved(p)
      BY <2>0, <2>1, <3>1 DEF CallTells, RowTells
    <3> QED BY <2>0, <2>1, <2>2, <2>3, <3>1, <3>2
         DEF RowTells, CallTells, Unmoved, MovedOnce
  <2> QED BY <1>1, <2>0, <2>1, <2>2, <2>3, <2>4, AloneStep DEF About
<1>8. CASE TransferMade(c) \/ TransferUnanswered(c)
  <2>0. PICK p \in PayoutIds : p = admin[c].payout
    BY <1>1, <1>8, AdminCallTypes DEF TransferMade, TransferUnanswered,
       Doing, Free
  <2>1. PICK op \in {"completed", "failed"} :
            /\ admin[c] # Free /\ admin[c].op = "transfer" /\ Goto(c, op)
            /\ transfers' = [transfers EXCEPT ![p] = @ + 1]
            /\ \/ op = "completed" /\ lost' = lost
               \/ op = "failed" /\ lost' = [lost EXCEPT ![p] = @ + 1]
            /\ payout' = payout /\ doubled' = doubled
    BY <1>8, <2>0 DEF TransferMade, TransferUnanswered, Doing, Free
  <2>2. /\ p \in PayoutIds /\ About(c, p)
        /\ admin'[c].op = op /\ admin'[c].payout = p
        /\ \A o \in AdminCalls : o # c => admin'[o] = admin[o]
    BY <1>1, <2>0, <2>1, AdminCallTypes DEF Doing, About
  <2>3. /\ transfers \in [PayoutIds -> Int] /\ lost \in [PayoutIds -> Int]
    BY <1>1, <2>0, PayoutsAssumption DEF PayoutsTypeOK
  <2>4. \A q \in PayoutIds : q # p => /\ transfers'[q] = transfers[q]
                                      /\ lost'[q] = lost[q]
    BY <2>0, <2>1, <2>2, <2>3
  <2>5. ASSUME p \notin doubled
        PROVE  /\ \A o \in AdminCalls : o # c => ~About(o, p)
               /\ RowTells(p)' /\ CallTells(c, p)'
    <3>1. /\ CallTells(c, p)
          /\ \A o \in AdminCalls : o # c => ~About(o, p)
      BY <2>0, <2>2, <2>5 DEF AloneInv
    <3>2. payout[p].status = "processing" /\ transfers[p] = lost[p]
      BY <2>0, <2>1, <3>1 DEF CallTells, Unmoved
    <3>3. /\ op = "completed" => transfers'[p] = lost'[p] + 1
          /\ op = "failed" => transfers'[p] = lost'[p]
      BY <2>0, <2>1, <2>2, <2>3, <3>2
    <3> QED BY <2>0, <2>1, <2>2, <3>1, <3>2, <3>3
         DEF RowTells, CallTells, Unmoved, MovedOnce
  <2> QED BY <1>1, <2>0, <2>1, <2>2, <2>4, <2>5, AloneStep DEF About
<1>9. CASE AdminCallDies(c)
  <2>1. /\ admin' = [admin EXCEPT ![c] = Free]
        /\ UNCHANGED <<payout, transfers, lost, doubled>>
    BY <1>9 DEF AdminCallDies, Leave
  <2>2. /\ admin'[c] = Free
        /\ \A o \in AdminCalls : o # c => admin'[o] = admin[o]
    BY <1>1, <2>1 DEF PayoutsTypeOK
  <2> QED BY <1>1, <2>1, <2>2, AloneStays DEF About, Free
<1> QED BY <1>2, <1>3, <1>4, <1>5, <1>6, <1>7, <1>8, <1>9 DEF AdminStep

LEMMA OthersKeep ==
    ASSUME AloneInv, UNCHANGED <<payout, admin, transfers, lost, doubled>>,
           account' \in Account
    PROVE  AloneInv'
<1>1. TransferInv'
  BY TransferStutters DEF AloneInv
<1> QED BY <1>1, AloneStays DEF About

\* process_payout, retry_failed_payout: the status of a payout that no two
\* calls were about at once tells how often its money moved.
THEOREM StatusesTellTransfers == PayoutSpec => []StatusTellsTransfers
<1>1. PayoutsInit => AloneInv
  BY DEF PayoutsInit, AloneInv, TransferInv, PayoutsTypeOK, Account, Payout,
         NoPayout, PayoutStates, SeenOK, OnPayout, Doing, Free, About,
         CompletedWasTransferred, RowTells, Unmoved
<1>2. AloneInv /\ [PayoutStep]_payoutVars => AloneInv'
  <2> SUFFICES ASSUME AloneInv, [PayoutStep]_payoutVars PROVE AloneInv'
    OBVIOUS
  <2>1. ASSUME NEW c \in AdminCalls, AdminStep(c) PROVE AloneInv'
    BY <2>1, AloneKeeps
  <2>2. CASE SetupAccount \/ AccountUpdated \/ DeactivateAccount
             \/ UNCHANGED payoutVars
    <3>1. account \in Account
      BY DEF AloneInv, TransferInv, PayoutsTypeOK
    <3>2. CASE SetupAccount
      BY <3>2, OthersKeep DEF SetupAccount, Account
    <3>3. CASE AccountUpdated
      BY <3>1, <3>3, OthersKeep DEF AccountUpdated, Account
    <3>4. CASE DeactivateAccount
      BY <3>1, <3>4, OthersKeep DEF DeactivateAccount, Account
    <3>5. CASE UNCHANGED payoutVars
      BY <3>1, <3>5, OthersKeep DEF payoutVars
    <3> QED BY <2>2, <3>2, <3>3, <3>4, <3>5
  <2> QED BY <2>1, <2>2 DEF PayoutStep
<1>3. AloneInv => StatusTellsTransfers
  BY DEF AloneInv, RowTells, Unmoved, MovedOnce, StatusTellsTransfers
<1> QED BY <1>1, <1>2, <1>3, PTL DEF PayoutSpec

-----------------------------------------------------------------------------
(***************************************************************************)
(* All of the money.                                                       *)
(***************************************************************************)
\* Payments and payouts, together, behave as each does alone: what is proved
\* of a part holds of the whole.
THEOREM MoneySystemParts == MoneySystemSpec => MoneySpec /\ PayoutSpec
<1>1. MoneySystemInit => MoneyInit /\ PayoutsInit
  BY DEF MoneySystemInit
<1>2. [MoneySystemNext]_moneySystemVars =>
          [MoneyNext]_moneyVars /\ [PayoutStep]_payoutVars
  BY DEF MoneySystemNext, moneySystemVars
<1> QED BY <1>1, <1>2, PTL DEF MoneySystemSpec, MoneySpec, PayoutSpec

\* No column of payments, splits and payouts gets a value it cannot hold, for
\* any number of rides, requests, deliveries and payouts.
THEOREM MoneySystemTypes == MoneySystemSpec => []MoneySystemTypeOK
<1>1. MoneyTypeOK /\ PayoutsTypeOK => MoneySystemTypeOK
  BY DEF MoneySystemTypeOK
<1> QED BY <1>1, MoneyTypes, PayoutTypes, MoneySystemParts, PTL
=============================================================================
