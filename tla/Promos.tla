------------------------------- MODULE Promos -------------------------------
(***************************************************************************)
(* Promo codes: services/promos.py, api/v1/promos.py, the part of          *)
(* request_ride that applies a code, and the referral code that register   *)
(* makes.                                                                  *)
(*                                                                         *)
(* A request validates a code on what it reads, commits the ride with its  *)
(* discount, and only then reads the row again, to count and commit the    *)
(* redemption.                                                             *)
(***************************************************************************)
EXTENDS Sessions, Integers, FiniteSets

CONSTANTS
    Codes,         \* the codes an admin may create: model values
    Riders,        \* phone numbers that may register
    PromoRides,    \* rides that may be requested
    Unlimited,     \* max_uses is NULL
    MaxUses        \* bound on the limits an admin sets

ASSUME PromoAssumption == MaxUses \in Nat \ {0} /\ Unlimited \notin 0 .. MaxUses

VARIABLES
    promo,         \* promo[p]: the row of promo_codes, also of referral codes
    user,          \* user[u]: the registration
    trip,          \* trip[r]: the ride
    redeemed,      \* promo_redemptions: <<promo, user, ride>>
    promoCall,     \* promoCall[c]: a request about a code
    muddled        \* history: codes that overlapping or broken requests used

promoVars == <<promo, user, trip, redeemed, promoCall, muddled>>

Referral(u) == <<"referral", u>>
Promos == Codes \union {Referral(u) : u \in Riders}

Limit    == (0 .. MaxUses) \union {Unlimited}
PromoRow == [exists : BOOLEAN, active : BOOLEAN, expired : BOOLEAN,
             maxUses : Limit, perUser : 0 .. MaxUses, used : Nat,
             firstOnly : BOOLEAN, highFare : BOOLEAN]
NoPromo  == [exists |-> FALSE, active |-> FALSE, expired |-> FALSE,
             maxUses |-> Unlimited, perUser |-> 1, used |-> 0,
             firstOnly |-> FALSE, highFare |-> FALSE]

NoRide == [rider |-> 0, code |-> {}, completed |-> FALSE]
PromoIdle == [op |-> "idle"]

PromosTypeOK ==
    /\ promo \in [Promos -> PromoRow]
    /\ user \in [Riders -> {"none", "registered", "referring"}]
    /\ \A r \in PromoRides : trip[r].rider \in Riders \union {0}
                             /\ trip[r].code \subseteq Promos
    /\ redeemed \subseteq Promos \X Riders \X PromoRides
    /\ muddled \subseteq Promos

PromosInit ==
    /\ promo = [p \in Promos |-> NoPromo]
    /\ user = [u \in Riders |-> "none"]
    /\ trip = [r \in PromoRides |-> NoRide]
    /\ redeemed = {}
    /\ promoCall = [c \in Requests |-> PromoIdle]
    /\ muddled = {}

Redemptions(p) == {x \in redeemed : x[1] = p}
UsesBy(u, p)   == {x \in redeemed : x[1] = p /\ x[2] = u}

-----------------------------------------------------------------------------
(* What an admin does.                                                      *)

CreatePromo(p, maxUses, perUser, firstOnly, highFare) ==
    /\ p \in Codes /\ ~promo[p].exists
    /\ promo' = [promo EXCEPT ![p] =
           [NoPromo EXCEPT !.exists = TRUE, !.active = TRUE,
                !.maxUses = maxUses, !.perUser = perUser,
                !.firstOnly = firstOnly, !.highFare = highFare]]
    /\ UNCHANGED <<user, trip, redeemed, promoCall, muddled>>

Using(p) == {c \in Requests : promoCall[c].op = "use" /\ promoCall[c].promo = p}

StartCall(c, call) ==
    /\ promoCall[c] = PromoIdle
    /\ promoCall' = [promoCall EXCEPT ![c] = call]
    /\ muddled' = IF Using(call.promo) = {} THEN muddled
                  ELSE muddled \union {call.promo}
    /\ UNCHANGED <<promo, user, trip, redeemed>>

LoadUpdate(c, p, new) ==
    /\ promo[p].exists
    /\ StartCall(c, [op |-> "edit", promo |-> p, copy |-> promo[p], new |-> new])

\* A limit cannot be taken away again.
UpdatePromo(c, p, active, maxUses, perUser, expired) ==
    LoadUpdate(c, p, [promo[p] EXCEPT
        !.active = active, !.perUser = perUser, !.expired = expired,
        !.maxUses = IF maxUses = Unlimited THEN @ ELSE maxUses])

DeactivatePromo(c, p) == LoadUpdate(c, p, [promo[p] EXCEPT !.active = FALSE])

\* Those columns the admin gave are written, and no others.
CommitUpdate(c) ==
    LET q == promoCall[c]
    IN  /\ q.op = "edit"
        /\ promo' = [promo EXCEPT ![q.promo] = Merge(@, q.copy, q.new)]
        /\ promoCall' = [promoCall EXCEPT ![c] = PromoIdle]
        /\ muddled' = IF Using(q.promo) = {} THEN muddled
                      ELSE muddled \union {q.promo}
        /\ UNCHANGED <<user, trip, redeemed>>

PromoExpires(p) ==
    /\ promo[p].exists /\ ~promo[p].expired
    /\ \A c \in Requests : promoCall[c] = PromoIdle
    /\ promo' = [promo EXCEPT ![p].expired = TRUE]
    /\ UNCHANGED <<user, trip, redeemed, promoCall, muddled>>

-----------------------------------------------------------------------------
(* api/v1/auth.py, register: the user, then in a second commit the referral *)
(* code, five dollars off a first ride, under a name no other code has.     *)

Register(u) ==
    /\ user[u] = "none"
    /\ user' = [user EXCEPT ![u] = "registered"]
    /\ UNCHANGED <<promo, trip, redeemed, promoCall, muddled>>

CreateReferralPromo(u) ==
    /\ user[u] = "registered" /\ ~promo[Referral(u)].exists
    /\ user' = [user EXCEPT ![u] = "referring"]
    /\ promo' = [promo EXCEPT ![Referral(u)] =
           [NoPromo EXCEPT !.exists = TRUE, !.active = TRUE, !.firstOnly = TRUE]]
    /\ UNCHANGED <<trip, redeemed, promoCall, muddled>>

-----------------------------------------------------------------------------
(* A ride requested with a code.                                            *)

\* Mutant: the uses of this rider are not counted.
ValidForAll(p, u, high) ==
    /\ promo[p].exists /\ promo[p].active /\ ~promo[p].expired
    /\ promo[p].maxUses # Unlimited => promo[p].used < promo[p].maxUses
    /\ promo[p].highFare => high

\* validate_promo.
ValidPromo(p, u, high) ==
    /\ promo[p].exists /\ promo[p].active /\ ~promo[p].expired
    /\ promo[p].maxUses # Unlimited => promo[p].used < promo[p].maxUses
    /\ Cardinality(UsesBy(u, p)) < promo[p].perUser
    /\ promo[p].highFare => high
    /\ promo[p].firstOnly =>
           ~\E r \in PromoRides : trip[r].rider = u /\ trip[r].completed

\* A code that is not valid is passed over, and the ride costs the full fare.
Validate(c, u, p, r, high) ==
    /\ user[u] # "none" /\ trip[r] = NoRide
    /\ \A x \in Requests : promoCall[x].op = "use" => promoCall[x].ride # r
    /\ ValidPromo(p, u, high)
    /\ StartCall(c, [op |-> "use", promo |-> p, copy |-> promo[p], user |-> u,
                     ride |-> r, counting |-> FALSE])

RequestWithoutCode(u, r) ==
    /\ user[u] # "none" /\ trip[r] = NoRide
    /\ \A x \in Requests : promoCall[x].op = "use" => promoCall[x].ride # r
    /\ trip' = [trip EXCEPT ![r].rider = u]
    /\ UNCHANGED <<promo, user, redeemed, promoCall, muddled>>

CommitDiscount(c) ==
    LET q == promoCall[c]
    IN  /\ q.op = "use" /\ trip[q.ride] = NoRide
        /\ trip' = [trip EXCEPT ![q.ride] =
               [rider |-> q.user, code |-> {q.promo}, completed |-> FALSE]]
        /\ UNCHANGED <<promo, user, redeemed, promoCall, muddled>>

\* redeem_promo selects the row anew, as nothing refers to the one that
\* validate_promo read, and counts on from there; then the commit.
ReadUses(c) ==
    LET q == promoCall[c]
    IN  /\ q.op = "use" /\ trip[q.ride] # NoRide /\ ~q.counting
        /\ promoCall' = [promoCall EXCEPT ![c].copy = promo[q.promo],
                                         ![c].counting = TRUE]
        /\ UNCHANGED <<promo, user, trip, redeemed, muddled>>

Redeem(c) ==
    LET q == promoCall[c]
    IN  /\ q.op = "use" /\ q.counting /\ trip[q.ride] # NoRide
        /\ redeemed' = redeemed \union {<<q.promo, q.user, q.ride>>}
        /\ promo' = [promo EXCEPT ![q.promo].used = q.copy.used + 1]
        /\ promoCall' = [promoCall EXCEPT ![c] = PromoIdle]
        /\ UNCHANGED <<user, trip, muddled>>

\* The request ends early, perhaps with the discount and no redemption.
PromoCallLost(c) ==
    LET q == promoCall[c]
    IN  /\ q # PromoIdle
        /\ promoCall' = [promoCall EXCEPT ![c] = PromoIdle]
        /\ muddled' = IF q.op = "use" /\ trip[q.ride] # NoRide
                      THEN muddled \union {q.promo} ELSE muddled
        /\ UNCHANGED <<promo, user, trip, redeemed>>

\* complete_ride, perhaps while the rider requests another one.
TripCompleted(r) ==
    /\ trip[r] # NoRide /\ ~trip[r].completed
    /\ trip' = [trip EXCEPT ![r].completed = TRUE]
    /\ muddled' = muddled \union
           {promoCall[c].promo : c \in {x \in Requests :
               promoCall[x].op = "use" /\ promoCall[x].user = trip[r].rider}}
    /\ UNCHANGED <<promo, user, redeemed, promoCall>>

AdminPromos(c) ==
    \E p \in Promos, perUser \in 0 .. MaxUses, maxUses \in Limit :
        \/ \E firstOnly, highFare \in BOOLEAN :
               CreatePromo(p, maxUses, perUser, firstOnly, highFare)
        \/ \E active, expired \in BOOLEAN :
               UpdatePromo(c, p, active, maxUses, perUser, expired)
        \/ DeactivatePromo(c, p)

RiderPromos(c) ==
    \E u \in Riders, p \in Promos, r \in PromoRides :
        \/ \E high \in BOOLEAN : Validate(c, u, p, r, high)
        \/ RequestWithoutCode(u, r)

PromosStep ==
    \/ \E c \in Requests : \/ AdminPromos(c) \/ RiderPromos(c) \/ CommitUpdate(c)
                           \/ CommitDiscount(c) \/ ReadUses(c) \/ Redeem(c)
                           \/ PromoCallLost(c)
    \/ \E p \in Promos : PromoExpires(p)
    \/ \E u \in Riders : Register(u) \/ CreateReferralPromo(u)
    \/ \E r \in PromoRides : TripCompleted(r)

PromosSpec == PromosInit /\ [][PromosStep]_promoVars

-----------------------------------------------------------------------------
\* No code is ever counted more often than it was redeemed, whatever overlaps
\* or fails (redeem_promo).  And unless requests about the code overlapped or
\* one ended between its two commits, it is counted exactly, and redeemed within
\* the limits of its row, in all and by each rider, and, if it is for first
\* rides, by riders who had completed none: through any sequence of edits, rides
\* and referrals (validate_promo).
PromoLimitsKept ==
    [][/\ \A p \in Promos : promo'[p].used <= Cardinality(Redemptions(p)')
       /\ \A p \in Promos \ muddled' :
           /\ promo'[p].used = Cardinality(Redemptions(p)')
           /\ \A x \in redeemed' \ redeemed : x[1] = p =>
                  /\ promo[p].active /\ ~promo[p].expired
                  /\ promo[p].maxUses # Unlimited => promo'[p].used <= promo[p].maxUses
                  /\ Cardinality(UsesBy(x[2], p)) < promo[p].perUser
                  /\ promo[p].firstOnly =>
                         \A r \in PromoRides : trip[r].rider = x[2]
                                                   => ~trip[r].completed]_promoVars
=============================================================================
