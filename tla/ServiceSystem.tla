---------------------------- MODULE ServiceSystem ----------------------------
(***************************************************************************)
(* The services around the rides, each with tables of its own: promo codes *)
(* (Promos), recurring and scheduled rides (Recurring), surge and demand   *)
(* (Surge), the cases people report (Cases), the stops of a ride (Stops),  *)
(* ratings and tips (Ratings), and what users are told (Notices).          *)
(***************************************************************************)
EXTENDS Promos, Recurring, Surge, Cases, Stops, Ratings, Notices

serviceSystemVars == <<promoVars, recurringVars, surgeVars, caseVars, stopVars,
                       ratingVars, noticeVars>>

\* The types of all variables of the services: no row, request or counter gets
\* a value its table cannot hold (models/).
ServicesTypeOK ==
    /\ PromosTypeOK /\ RecurringTypeOK /\ SurgeTypeOK /\ CasesTypeOK
    /\ StopsTypeOK /\ RatingsTypeOK /\ NoticesTypeOK

ServiceSystemInit ==
    /\ PromosInit /\ RecurringInit /\ SurgeInit /\ CasesInit /\ StopsInit
    /\ RatingsInit /\ NoticesInit

Discounting == PromosStep /\ UNCHANGED <<recurringVars, surgeVars, caseVars, stopVars,
                                        ratingVars, noticeVars>>
Scheduling  == RecurringStep /\ UNCHANGED <<promoVars, surgeVars, caseVars, stopVars,
                                           ratingVars, noticeVars>>
Surging     == SurgeStep /\ UNCHANGED <<promoVars, recurringVars, caseVars, stopVars,
                                       ratingVars, noticeVars>>
Reporting   == CasesStep /\ UNCHANGED <<promoVars, recurringVars, surgeVars, stopVars,
                                       ratingVars, noticeVars>>
Stopping    == StopsStep /\ UNCHANGED <<promoVars, recurringVars, surgeVars, caseVars,
                                       ratingVars, noticeVars>>
Reviewing   == RatingsStep /\ UNCHANGED <<promoVars, recurringVars, surgeVars, caseVars,
                                         stopVars, noticeVars>>
Notifying   == NoticesStep /\ UNCHANGED <<promoVars, recurringVars, surgeVars, caseVars,
                                         stopVars, ratingVars>>

ServiceSystemNext ==
    \/ Discounting \/ Scheduling \/ Surging \/ Reporting \/ Stopping
    \/ Reviewing \/ Notifying

ServiceSystemSpec ==
    ServiceSystemInit /\ [][ServiceSystemNext]_serviceSystemVars
=============================================================================
