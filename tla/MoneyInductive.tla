--------------------------- MODULE MoneyInductive ---------------------------
(***************************************************************************)
(* The inductive invariants of RideMoney: what every request and delivery  *)
(* still knows, at its next step, of the row and the intent it works on.   *)
(***************************************************************************)
EXTENDS RideMoney

Exists(r) == pay[r] # NoPayment

\* A payment has the intent that was made for it.
RowOK(r) ==
    Exists(r) =>
        /\ pay[r].status # "none"
        /\ pay[r].intent \in Intents
        /\ pay[r].intent.ride = r
        /\ pay[r].intent.kind \in {"fare", "fee"}
        /\ pay[r].driverPayout = Owed + pay[r].tip

\* Only the intent of a payment that was inserted was ever given to a client;
\* the one of a refused insert was not.
IntentOK(i) ==
    /\ i.kind \in {"fare", "fee"}
    /\ intent[i] \in {"open", "paid", "refunded"}
    => pay[i.ride].intent = i

\* Somebody paid for ride r.
PaidFor(r) ==
    \E i \in Intents :
        i.ride = r /\ HasSucceeded(i)
        /\ (i = pay[r].intent \/ i.kind \in {"tip", "share"})

StatusOK(r) ==
    /\ pay[r].status = "completed" => PaidFor(r)
    /\ pay[r].status = "refunded" => intent[pay[r].intent] = "refunded"

\* Intents that a request has made and not yet answered with.
Making(c)      == call[c] # Idle /\ call[c].at = "commit"
                      /\ call[c].op \in {"create", "tip"}
SplitMaking(c) == splitCall[c] # Idle /\ splitCall[c].op = "pay"
                      /\ splitCall[c].at = "commit"

CallOK(c) ==
    call[c] # Idle =>
        /\ call[c] \in Call
        /\ call[c].op = "create" => ended[call[c].ride] \in {"fare", "fee"}
        /\ call[c].op = "tip" => /\ Exists(call[c].ride)
                                 /\ call[c].copy.driverPayout = Owed
        /\ call[c].op = "refund" =>
               /\ Exists(call[c].ride)
               /\ call[c].copy.intent = pay[call[c].ride].intent
               /\ call[c].at = "commit" =>
                      intent[pay[call[c].ride].intent] = "refunded"
        /\ Making(c) =>
               /\ call[c].intent \in Intents
               /\ call[c].intent.ride = call[c].ride
               /\ call[c].intent.kind = IF call[c].op = "tip" THEN "tip"
                                        ELSE ended[call[c].ride]
               /\ intent[call[c].intent] = "made"

\* A request about one row of a split has the fields of Answering.
HasFields(a) ==
    a \in [op : {a.op}, at : {a.at}, ride : {a.ride}, group : {a.group},
           place : {a.place}, amount : {a.amount}, left : {a.left},
           intent : {a.intent}]

SplitCallOK(c) ==
    /\ splitCall[c] # Idle /\ splitCall[c].op \in {"accept", "decline", "pay"}
       => HasFields(splitCall[c])
    /\ SplitMaking(c) =>
           /\ splitCall[c].intent \in Intents
           /\ splitCall[c].intent.kind = "share"
           /\ intent[splitCall[c].intent] = "made"

\* No two requests are about to answer with the same intent.
OwnIntents ==
    /\ \A c, o \in Calls :
           c # o /\ Making(c) /\ Making(o) => call[c].intent # call[o].intent
    /\ \A c, o \in SplitCalls :
           c # o /\ SplitMaking(c) /\ SplitMaking(o) =>
               splitCall[c].intent # splitCall[o].intent

HookOK(h) ==
    hook[h] # Idle =>
        /\ hook[h] \in Delivery
        /\ Exists(hook[h].ride)
        /\ hook[h].op = "succeeded" => PaidFor(hook[h].ride)

\* What is known of payments, intents and deliveries.
PaymentsInv ==
    /\ StripeTypeOK
    /\ PaymentsTypeOK
    /\ splitCall = [c \in SplitCalls |-> splitCall[c]]
    /\ \A i \in Intents : IntentOK(i)
    /\ \A r \in Rides : RowOK(r) /\ StatusOK(r)
    /\ \A c \in Calls : CallOK(c)
    /\ \A c \in SplitCalls : SplitCallOK(c)
    /\ OwnIntents
    /\ \A h \in Hooks : HookOK(h)

\* Only the initiator's share can be negative, and only guests answer.
GuestsOwe(rows) == \A u \in Places \ {Initiator} : rows[u].amount \in Nat

SplitsInv ==
    /\ SplitsTypeOK
    /\ \A r \in Rides, g \in GroupIds : GuestsOwe(split[r][g])
    /\ \A c \in SplitCalls :
           /\ Using(c, "create") => GuestsOwe(splitCall[c].rows)
           /\ Using(c, "accept") \/ Using(c, "decline") =>
                  splitCall[c].place # Initiator

\* What is known of payments, intents, splits, requests and deliveries at any
\* time, whatever overlaps or dies (payments.py, fare_splitting.py).
MoneyInv == PaymentsInv /\ SplitsInv

-----------------------------------------------------------------------------
(***************************************************************************)
(* Splits whose requests about one ride do not overlap.                    *)
(***************************************************************************)
OneSplitCallPerRide ==
    \A c, d \in SplitCalls :
        splitCall[c] # Idle /\ splitCall[d] # Idle
            /\ splitCall[c].ride = splitCall[d].ride => c = d

Covers(rows, r) == SumFunction(Amounts(rows)) \in {Estimate, Fare(r)}

\* A decline knows the two amounts that it is about to change.
DeclineKnows(a) ==
    /\ a.amount = split[a.ride][a.group][a.place].amount
    /\ a.at = "commit" => a.left = split[a.ride][a.group][Initiator].amount

SharesCallOK(c) ==
    /\ Using(c, "create") => Covers(splitCall[c].rows, splitCall[c].ride)
    /\ Using(c, "decline") => DeclineKnows(splitCall[c])
    /\ Using(c, "cancel") =>
           \A x \in splitCall[c].rows :
               split[splitCall[c].ride][x[1]][x[2]].status # "none"

SharesInv ==
    /\ \A r \in Rides : \A g \in Made(r) : Covers(split[r][g], r)
    /\ \A c \in SplitCalls : SharesCallOK(c)
=============================================================================
