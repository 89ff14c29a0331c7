--------------------------- MODULE StripeIntents ---------------------------
(***************************************************************************)
(* Stripe's PaymentIntents, as services/payments.py and                    *)
(* services/fare_splitting.py use them.  This is not code of the           *)
(* repository: an intent is made by a call of the back end, can be paid by *)
(* a client that was given its client_secret, can be refunded once it is   *)
(* paid, and its metadata names the ride.  An event about it may reach the *)
(* webhook at any later time, again and again, in any order.               *)
(***************************************************************************)
EXTENDS Integers, FiniteSets

CONSTANTS Rides,       \* the ride ids
          MaxIntents,  \* bound: intents of one kind made for one ride
          NoIntent     \* NULL in an intent column

Kinds == {"fare", "fee", "tip", "share"}

Intents == [ride : Rides, kind : Kinds, no : 1 .. MaxIntents]

ASSUME StripeAssumption == MaxIntents \in Nat /\ NoIntent \notin Intents

VARIABLES intent,   \* intent[i]: how far intent i has come
          declined, \* the intents with a payment attempt that was declined
          acked     \* those whose success a delivery was answered 200 for

stripeVars == <<intent, declined, acked>>

\* "open": a client holds the client_secret.
IntentStatus == {"none", "made", "open", "paid", "refunded"}

StripeTypeOK ==
    /\ intent \in [Intents -> IntentStatus]
    /\ declined \subseteq Intents
    /\ acked \subseteq Intents

StripeInit ==
    /\ intent = [i \in Intents |-> "none"]
    /\ declined = {}
    /\ acked = {}

\* The intent that PaymentIntent.create makes next.
NextIntents(r, kind) ==
    {i \in Intents : /\ i.ride = r /\ i.kind = kind /\ intent[i] = "none"
                     /\ \A j \in Intents :
                            j.ride = r /\ j.kind = kind /\ j.no < i.no =>
                                intent[j] # "none"}

MakeIntent(i) ==
    /\ intent' = [intent EXCEPT ![i] = "made"]
    /\ UNCHANGED <<declined, acked>>

\* The response with the client_secret reaches the client, or is lost.
Answer(i) ==
    /\ intent' \in {intent, [intent EXCEPT ![i] = "open"]}
    /\ UNCHANGED <<declined, acked>>

Pay(i) ==
    /\ intent[i] = "open"
    /\ intent' = [intent EXCEPT ![i] = "paid"]
    /\ UNCHANGED <<declined, acked>>

Decline(i) ==
    /\ intent[i] = "open"
    /\ declined' = declined \union {i}
    /\ UNCHANGED <<intent, acked>>

\* Refund.create raises StripeError for an intent that is not paid, or that is
\* refunded already.
Refundable(i) == intent[i] = "paid"

Refund(i) ==
    /\ intent' = [intent EXCEPT ![i] = "refunded"]
    /\ UNCHANGED <<declined, acked>>

\* payment_intent.succeeded and payment_intent.payment_failed.  Stripe repeats
\* an event that is not answered 200, and may repeat one that is.
HasSucceeded(i) == intent[i] \in {"paid", "refunded"}
HasFailed(i)    == i \in declined

\* The 200 reaches Stripe, or is lost.
Acknowledge(i) ==
    /\ acked' \in {acked, acked \union {i}}
    /\ UNCHANGED <<intent, declined>>

Client == \E i \in Intents : Pay(i) \/ Decline(i)
=============================================================================
