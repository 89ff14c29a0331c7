----------------------------- MODULE MCServices -----------------------------
(***************************************************************************)
(* ServiceSystem with the constants TLC needs.  The services share no      *)
(* variable, so "side" picks the one, and the part of its requests, that a *)
(* behaviour explores; the state space is a sum.  The second request c2    *)
(* only ever overlaps with one in progress.                                *)
(***************************************************************************)
EXTENDS ServiceSystem

CONSTANTS c1, c2, C1

VARIABLE side

servicesVars == <<serviceSystemVars, side>>

MCRides == {<<1, 2>>}

PromoSides     == {"code", "referral"}
RecurringSides == {"templates", "bookings", "reminders"}
SurgeSides     == {"waitlist", "demand"}
RatingSides    == {"ratings", "gifts"}
NoticeSides    == {"optouts", "alerts", "devices", "switches"}

ServicesInit ==
    /\ ServiceSystemInit
    /\ side \in PromoSides \union RecurringSides \union SurgeSides \union Kind
                \union {"stops"} \union RatingSides \union NoticeSides

\* A code may be used up, switched off or given a limit; referral codes are for
\* the second rider's friends.  Rides are requested in order.
PromosSide ==
    LET settled == /\ trip = [r \in PromoRides |-> NoRide]
                   /\ promoCall = [c \in Requests |-> PromoIdle]
    IN  /\ side \in PromoSides /\ PromosStep
        /\ promoCall'[c2] # PromoIdle =>
               promoCall[c2] # PromoIdle \/ promoCall[c1] # PromoIdle
        /\ promoCall'[c1].op = "edit" =>
               LET row == promoCall'[c1].copy
               IN  promoCall'[c1].new \in
                       {[row EXCEPT !.active = FALSE]} \union
                       IF side = "code" THEN {[row EXCEPT !.maxUses = 1],
                                              [row EXCEPT !.perUser = 2]} ELSE {}
        /\ promoCall'[c2].op # "edit"
        /\ user' # user => settled
        /\ user[2] = "none" => user'[1] = "none"
        /\ user'[1] # "referring"
        /\ user'[2] = "referring" => side = "referral"
        /\ trip'[2] # NoRide => trip'[1] # NoRide
        /\ side = "code" =>
               /\ \A r \in PromoRides : ~trip'[r].completed
               /\ \A r \in PromoRides : trip'[r].rider = 0 \/ trip'[r].code # {}
               /\ \A p \in Codes : /\ ~promo'[p].firstOnly
                                   /\ promo[p] = NoPromo /\ promo'[p] # NoPromo =>
                                          promo'[p].perUser = 1
                                          /\ promo'[p].maxUses \in {1, Unlimited}
        /\ side = "referral" => \A p \in Codes : ~promo'[p].exists

RecurringOps(side_) ==
    CASE side_ = "templates" -> {"create", "update", "pause", "resume", "cancel"}
      [] side_ = "bookings"  -> {"create", "book"}
      [] side_ = "reminders" -> {"book"}

\* The template is made at the start, for every day; an update changes its time.
\* Rides are booked for the times of its occurrences.
\* After an update or an overlap, of which the property says no more, no request
\* follows.
RecurringSide ==
    /\ side \in RecurringSides /\ RecurringStep
    /\ recCall'[c2] = RecIdle
    /\ recCall[c1] = RecIdle /\ (collided \/ edited # {}) => recCall'[c1] = RecIdle
    /\ recCall'[c1] # RecIdle =>
           /\ recCall'[c1].op \in RecurringOps(side)
           /\ recCall'[c1].op = "create" =>
                  /\ clock = 0 /\ recCall'[c1].new.pickup = 1
                  /\ recCall'[c1].new.days = 0 .. WeekLength - 1
           /\ recCall'[c1].op = "book" => recCall'[c1].at \in {1, 3}
           /\ recCall'[c1].op = "update" => recCall'[c1].new.pickup = 0
    /\ side # "bookings" => generating'[2] = Resting
    /\ side = "bookings" => clock' <= DayLength
    /\ collided /\ ~generating[2].busy => ~generating'[2].busy
    /\ side = "reminders" => UNCHANGED <<generating, template>>
    /\ \A i \in DOMAIN booking' :
           /\ side # "reminders" => booking'[i].reminded = {}
           /\ side = "templates" /\ booking'[i].status = "cancelled"
                  => booking'[i].from = {}

\* One zone and one entry; c1 changes the zone, c2 cancels the entry.
SurgeSide ==
    /\ side \in SurgeSides /\ SurgeStep
    /\ side = "waitlist" => UNCHANGED demandVars
    /\ side = "demand"   => UNCHANGED zoneVars
    /\ poll'[2] # Unpolled => poll[1] # Unpolled \/ poll[2] # Unpolled
    /\ evening' # evening => surgeCall = [c \in Requests |-> SurgeIdle]
    /\ \A e \in Entries : entry'[e].status # "none" =>
           entry'[e].origin = 1 /\ entry'[e].max = 1
    /\ \A z \in Zones : zone[z] = NoZone /\ zone'[z] # NoZone =>
           zone'[z] = [exists |-> TRUE, active |-> TRUE, multiplier |-> 2,
                       area |-> {1}, hours |-> {TRUE}]
    /\ surgeCall'[c2].op # "zone"
    /\ surgeCall'[c1].op # "cancel"
    /\ surgeCall'[c1].op = "zone" =>
           LET call == surgeCall'[c1]
           IN  /\ \A p \in Pollers : poll'[p].phase # "zones"
               /\ \/ call.new = NoZone
                  \/ /\ call.copy.multiplier = 2
                     /\ \/ call.new = [call.copy EXCEPT !.multiplier = 1]
                        \/ call.new = [call.copy EXCEPT !.active = ~@]

\* One kind of case; complaints and alerts have nothing to do with each other.
\* A dispute that is resolved comes with a refund, an item that is returned with
\* notes.
CasesSide ==
    /\ side \in Kind /\ CasesStep
    /\ \A k \in Case : case'[k] # NoCase => k[1] = side
    /\ \A c \in Requests : \A k \in DOMAIN caseCall'[c].new :
           /\ k[1] = side
           /\ side \in {"complaint", "alert"} => k[2] = 1
           /\ k[2] = 2 => \/ case[<<side, 1>>] # NoCase
                          \/ \E x \in Requests : <<side, 1>> \in About(x)
    /\ \A c \in Requests : side \in {"dispute", "item"} =>
           \A k \in DOMAIN caseCall'[c].new :
               caseCall'[c].new[k].notes
                   = (caseCall'[c].new[k].status \in {"resolved", "returned"})
    /\ caseCall'[c2] # CaseIdle => \E c \in Requests : caseCall[c] # CaseIdle

\* The first stop may be edited and reached, new ones take the next ids, and c2 only
\* removes stops or moves on.  After an overlap, of which the property says no more, no
\* request follows.
StopsSide ==
    /\ side = "stops" /\ StopsStep
    /\ stopCall'[c2] # StopIdle => \E c \in Requests : stopCall[c] # StopIdle
    /\ stopCall'[c2].op \in {"idle", "remove", "advance"}
    /\ \A c \in Requests : stopCall[c] = StopIdle /\ jostled => stopCall'[c] = StopIdle
    /\ \A i \in StopIds : stop'[i].edited => i = 1
    /\ \A c \in Requests : \A i \in DOMAIN stopCall'[c].new :
           /\ stopCall'[c].new[i] # NoStop /\ stopCall'[c].new[i].edited => i = 1
           /\ stopCall'[c].op = "advance" => i = 1
           /\ stopCall'[c].op = "add" /\ i > 1 =>
                  i - 1 \in Stops \union DOMAIN stopCall'[c].new

\* The second ride is only rated by its rider; a tip comes with a good rating.
\* After an overlap of ratings, of which the property says no more, none follows.
RatingsSide ==
    /\ side \in RatingSides /\ RatingsStep
    /\ ratingCall'[c2] # RatingIdle => \E c \in Requests : ratingCall[c] # RatingIdle
    /\ \A c \in Requests :
           /\ ratingCall'[c].op \in
                  IF side = "ratings" THEN Rating \union {"idle"}
                  ELSE {"rider", "tip", "idle"}
           /\ ratingCall'[c].op \in Rating /\ ratingCall'[c].ride = 2 =>
                  /\ ratingCall'[c].op = "rate" /\ ratingCall'[c].role = "rider"
           /\ ratingCall'[c].op \in Rating /\ ratingCall'[c].role = "rider" =>
                  ratingCall'[c].new.tip = (ratingCall'[c].new.driver_rating = 4)
           /\ ratingCall'[c].op \in Rating /\ ratingCall'[c].role = "driver" =>
                  c = c1 /\ ratingCall'[c].new.rider_rating = 4
           /\ ratingCall'[c].op \in Rating /\ ratingCall[c] = RatingIdle => ~blurred
    /\ side = "ratings" => UNCHANGED tip

\* One side for the opt-outs of a user, one for those that an alert ignores, one for a
\* device that changes hands, one for the log and the switches.  Only one request that
\* changes opt-outs overlaps with a dispatch.
NoticesSide ==
    LET keys(c) == DOMAIN noteCall'[c].todo
        push    == OptOut(1, "ride_matched", "push")
        sms     == OptOut(1, "ride_matched", "sms")
        alert   == OptOut(1, "sos_alert", "sms")
        silent  == notice' = [n \in Senders |-> Silent]
    IN  /\ side \in NoticeSides /\ NoticesStep
        /\ noteCall'[c2] # NoteIdle => \E c \in Requests : noteCall[c] # NoteIdle
        /\ \A c \in Requests : \/ noteCall'[c] = NoteIdle \/ silent
                               \/ (c = c1 /\ side \in {"optouts", "alerts"})
        /\ side = "optouts" =>
               /\ keys(c1) \in {{}, {push}, {sms}, {push, sms}}
               /\ keys(c2) \subseteq {push}
               /\ push \in keys(c1) /\ sms \in keys(c1) => ~noteCall'[c1].todo[sms].on
        /\ side = "alerts" => keys(c1) \subseteq {alert} /\ keys(c2) = {}
        /\ side = "devices" => \A c \in Requests : keys(c) \subseteq DeviceKeys
        /\ side = "switches" => \A c \in Requests : keys(c) \subseteq SwitchKeys
        /\ side = "switches" => noteCall'[c2] = NoteIdle
        /\ side # "switches" => UNCHANGED log
        /\ \A n \in Senders : /\ notice'[n].user \in {0, 1}
                              /\ notice'[n].type = "sos_alert" => side = "alerts"

ServicesNext ==
    /\ \/ PromosSide /\ UNCHANGED <<recurringVars, surgeVars, caseVars, stopVars,
                                    ratingVars, noticeVars>>
       \/ RecurringSide /\ UNCHANGED <<promoVars, surgeVars, caseVars, stopVars,
                                       ratingVars, noticeVars>>
       \/ SurgeSide /\ UNCHANGED <<promoVars, recurringVars, caseVars, stopVars,
                                   ratingVars, noticeVars>>
       \/ CasesSide /\ UNCHANGED <<promoVars, recurringVars, surgeVars, stopVars,
                                   ratingVars, noticeVars>>
       \/ StopsSide /\ UNCHANGED <<promoVars, recurringVars, surgeVars, caseVars,
                                   ratingVars, noticeVars>>
       \/ RatingsSide /\ UNCHANGED <<promoVars, recurringVars, surgeVars, caseVars,
                                     stopVars, noticeVars>>
       \/ NoticesSide /\ UNCHANGED <<promoVars, recurringVars, surgeVars, caseVars,
                                     stopVars, ratingVars>>
    /\ UNCHANGED side

ServicesSpec == ServicesInit /\ [][ServicesNext]_servicesVars
=============================================================================
