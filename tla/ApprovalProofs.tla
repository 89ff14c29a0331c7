--------------------------- MODULE ApprovalProofs ---------------------------
(***************************************************************************)
(* Proofs about Availability and Approval, for any drivers, documents,     *)
(* checks and number of requests: who went offline stays so, the two       *)
(* filters agree, only the approved go online, and a driver comes to be    *)
(* approved exactly when the documents or an admin say so.  And about      *)
(* DriverSystem, that it has the properties of its parts.                  *)
(***************************************************************************)
EXTENDS DriverSystem, DocumentsProofs

-----------------------------------------------------------------------------
(* Availability.                                                            *)

StatusCall == {q \in [op : {"set", "heartbeat", "break"}, driver : Profiles,
                      copy : StatusRow, new : StatusRow] :
                  /\ q.op = "heartbeat" /\ q.copy.exists =>
                         q.new.online = q.copy.online
                  /\ q.op = "break" => q.new.online = q.copy.online}
FilterCall == [op : {"filter"}, driver : Profiles, copy : Filter, new : Filter]

\* What a request has decided about "online", of the copy it loaded.
AvailInv ==
    /\ status \in [Profiles -> StatusRow]
    /\ slots \in [Profiles -> SUBSET Slot]
    /\ heading \in [Profiles -> Filter]
    /\ availCall \in [Requests -> {NoAvailCall} \union StatusCall \union FilterCall]

LEMMA OpsTellCalls ==
    ASSUME NEW q \in {NoAvailCall} \union StatusCall \union FilterCall
    PROVE  /\ q.op = "idle" => q = NoAvailCall
           /\ q.op \in {"set", "heartbeat", "break"} => q \in StatusCall
           /\ q.op = "filter" => q \in FilterCall
<1>1. NoAvailCall.op = "idle"
  BY DEF NoAvailCall
<1>2. \A p \in StatusCall : p.op \in {"set", "heartbeat", "break"}
  BY DEF StatusCall
<1>3. \A p \in FilterCall : p.op = "filter"
  BY DEF FilterCall
<1> QED BY <1>1, <1>2, <1>3

LEMMA MergeOfStatus ==
    ASSUME NEW row \in StatusRow, NEW copy \in StatusRow, NEW new \in StatusRow
    PROVE  /\ Merge(row, copy, new) \in StatusRow
           /\ Merge(row, copy, new).online =
                  IF new.online = copy.online THEN row.online ELSE new.online
<1> DEFINE after == Merge(row, copy, new)
<1>1. DOMAIN row = {"exists", "online", "onBreak", "beat"}
  BY DEF StatusRow
<1>2. after = [exists |-> after.exists, online |-> after.online,
               onBreak |-> after.onBreak, beat |-> after.beat]
  BY <1>1 DEF Merge
<1>3. /\ after.exists \in {row.exists, new.exists}
      /\ after.online = IF new.online = copy.online THEN row.online ELSE new.online
      /\ after.onBreak \in {row.onBreak, new.onBreak}
      /\ after.beat \in {row.beat, new.beat}
  BY <1>1 DEF Merge
<1> QED BY <1>2, <1>3 DEF StatusRow

LEMMA MergeOfFilters ==
    ASSUME NEW row \in Filter, NEW copy \in Filter, NEW new \in Filter
    PROVE  Merge(row, copy, new) \in Filter
<1> DEFINE after == Merge(row, copy, new)
<1>1. DOMAIN row = {"exists", "active", "admits", "expires", "expired"}
  BY DEF Filter
<1>2. after = [exists |-> after.exists, active |-> after.active,
               admits |-> after.admits, expires |-> after.expires,
               expired |-> after.expired]
  BY <1>1 DEF Merge
<1>3. /\ after.exists \in {row.exists, new.exists}
      /\ after.active \in {row.active, new.active}
      /\ after.admits \in {row.admits, new.admits}
      /\ after.expires \in {row.expires, new.expires}
      /\ after.expired \in {row.expired, new.expired}
  BY <1>1 DEF Merge
<1> QED BY <1>2, <1>3 DEF Filter

\* A request is entered with what its handler computes.
LEMMA AskKeeps ==
    ASSUME AvailInv, NEW c \in Requests, NEW op, NEW d, NEW copy, NEW new,
           Ask(c, op, d, copy, new),
           [op |-> op, driver |-> d, copy |-> copy, new |-> new]
               \in StatusCall \union FilterCall
    PROVE  AvailInv'
BY DEF AvailInv, Ask

LEMMA LoadsKeep ==
    ASSUME AvailInv, NEW c \in Requests, NEW d \in Profiles,
           \/ \E online \in BOOLEAN : LoadSetOnline(c, d, online)
           \/ LoadHeartbeat(c, d) \/ LoadStartBreak(c, d) \/ LoadEndBreak(c, d)
           \/ \E admits \in SUBSET Places, expires \in BOOLEAN :
                  LoadSetFilter(c, d, admits, expires)
           \/ LoadClearFilter(c, d)
    PROVE  AvailInv'
<1>1. status[d] \in StatusRow /\ heading[d] \in Filter
  BY DEF AvailInv
<1>2. ASSUME NEW online \in BOOLEAN, LoadSetOnline(c, d, online) PROVE AvailInv'
  <2>1. SetOnline(status[d], online) \in StatusRow
    BY <1>1 DEF SetOnline, StatusRow
  <2>2. [op |-> "set", driver |-> d, copy |-> status[d],
         new |-> SetOnline(status[d], online)] \in StatusCall
    BY <1>1, <2>1 DEF StatusCall
  <2> QED BY <1>2, <2>2, AskKeeps DEF LoadSetOnline
<1>3. CASE LoadHeartbeat(c, d)
  <2>1. Heartbeat(status[d]) \in StatusRow
        /\ (status[d].exists => Heartbeat(status[d]).online = status[d].online)
    BY <1>1 DEF Heartbeat, StatusRow
  <2>2. [op |-> "heartbeat", driver |-> d, copy |-> status[d],
         new |-> Heartbeat(status[d])] \in StatusCall
    BY <1>1, <2>1 DEF StatusCall
  <2> QED BY <1>3, <2>2, AskKeeps DEF LoadHeartbeat
<1>4. ASSUME NEW row \in {StartBreak(status[d]), EndBreak(status[d])}
      PROVE  [op |-> "break", driver |-> d, copy |-> status[d], new |-> row]
                 \in StatusCall
  <2>1. row \in StatusRow /\ row.online = status[d].online
    BY <1>1 DEF StartBreak, EndBreak, StatusRow
  <2> QED BY <1>1, <2>1 DEF StatusCall
<1>5. CASE LoadStartBreak(c, d)
  BY <1>4, <1>5, AskKeeps DEF LoadStartBreak
<1>6. CASE LoadEndBreak(c, d)
  BY <1>4, <1>6, AskKeeps DEF LoadEndBreak
<1>7. ASSUME NEW admits \in SUBSET Places, NEW expires \in BOOLEAN,
             LoadSetFilter(c, d, admits, expires)
      PROVE  AvailInv'
  <2>1. SetFilter(admits, expires) \in Filter
    BY DEF SetFilter, Filter
  <2>2. [op |-> "filter", driver |-> d, copy |-> heading[d],
         new |-> SetFilter(admits, expires)] \in FilterCall
    BY <1>1, <2>1 DEF FilterCall
  <2> QED BY <1>7, <2>2, AskKeeps DEF LoadSetFilter
<1>8. CASE LoadClearFilter(c, d)
  <2>1. ClearFilter(heading[d]) \in Filter
    BY <1>1 DEF ClearFilter, Filter
  <2>2. [op |-> "filter", driver |-> d, copy |-> heading[d],
         new |-> ClearFilter(heading[d])] \in FilterCall
    BY <1>1, <2>1 DEF FilterCall
  <2> QED BY <1>8, <2>2, AskKeeps DEF LoadClearFilter
<1> QED BY <1>2, <1>3, <1>5, <1>6, <1>7, <1>8

LEMMA AnsweredKeeps ==
    ASSUME AvailInv, NEW c \in Requests, Answered(c)
    PROVE  availCall' \in [Requests -> {NoAvailCall} \union StatusCall \union FilterCall]
BY DEF AvailInv, Answered

\* What the write of a status does to the row.
LEMMA StatusWritten ==
    ASSUME AvailInv, NEW c \in Requests, WriteStatus(c)
    PROVE  LET q == availCall[c]
           IN  /\ q \in StatusCall
               /\ status'[q.driver] \in StatusRow
               /\ status'[q.driver] # status[q.driver] =>
                      status'[q.driver].online =
                          IF q.new.online = q.copy.online
                          THEN status[q.driver].online ELSE q.new.online
               /\ status' = [status EXCEPT ![q.driver] = status'[q.driver]]
<1> DEFINE q == availCall[c]
<1>1. q \in StatusCall
  BY OpsTellCalls DEF AvailInv, WriteStatus
<1>2. q.driver \in Profiles /\ q.copy \in StatusRow /\ q.new \in StatusRow
      /\ status[q.driver] \in StatusRow
  BY <1>1 DEF StatusCall, AvailInv
<1>3. /\ status' = [status EXCEPT ![q.driver] = Writes(c, status[q.driver])]
      /\ status'[q.driver] = Writes(c, status[q.driver])
  BY <1>2 DEF WriteStatus, AvailInv
<1>4. Writes(c, status[q.driver]) \in
          {Merge(status[q.driver], q.copy, q.new), status[q.driver]}
  BY DEF Writes, Flushed
<1> HIDE DEF q
<1>5. /\ status'[q.driver] \in StatusRow
      /\ status'[q.driver] # status[q.driver] =>
             status'[q.driver].online =
                 IF q.new.online = q.copy.online
                 THEN status[q.driver].online ELSE q.new.online
  BY <1>2, <1>3, <1>4, MergeOfStatus
<1> QED BY <1>1, <1>3, <1>5 DEF q

LEMMA WritesKeep ==
    ASSUME AvailInv, NEW c \in Requests, WriteStatus(c) \/ WriteFilter(c)
    PROVE  AvailInv'
<1> DEFINE q == availCall[c]
<1>1. Answered(c)
  BY DEF WriteStatus, WriteFilter
<1>2. CASE WriteStatus(c)
  <2>1. status' \in [Profiles -> StatusRow] /\ UNCHANGED <<slots, heading>>
    BY <1>2, StatusWritten DEF AvailInv, WriteStatus
  <2> QED BY <1>1, <2>1, AnsweredKeeps DEF AvailInv
<1>3. CASE WriteFilter(c)
  <2>1. q \in FilterCall
    BY <1>3, OpsTellCalls DEF AvailInv, WriteFilter
  <2>2. q.driver \in Profiles /\ q.copy \in Filter /\ q.new \in Filter
        /\ heading[q.driver] \in Filter
    BY <2>1 DEF FilterCall, AvailInv
  <2>3. Writes(c, heading[q.driver]) \in Filter
    BY <2>2, MergeOfFilters DEF Writes, Flushed
  <2>4. heading' \in [Profiles -> Filter] /\ UNCHANGED <<status, slots>>
    BY <1>3, <2>2, <2>3 DEF AvailInv, WriteFilter
  <2> QED BY <1>1, <2>4, AnsweredKeeps DEF AvailInv
<1> QED BY <1>2, <1>3

LEMMA RestOfAvailKeeps ==
    ASSUME AvailInv,
           \/ \E c \in Requests : InsertRefused(c) \/ AvailCallLost(c)
           \/ \E d \in Profiles :
                  \/ \E s \in Slot : SetSlot(d, s) \/ DeleteSlot(d, s)
                  \/ HeartbeatAges(d) \/ FilterExpires(d)
           \/ UNCHANGED availVars
    PROVE  AvailInv'
<1>1. ASSUME NEW c \in Requests, InsertRefused(c) \/ AvailCallLost(c)
      PROVE  AvailInv'
  BY <1>1, AnsweredKeeps DEF AvailInv, InsertRefused, AvailCallLost
<1>2. ASSUME NEW d \in Profiles, NEW s \in Slot, SetSlot(d, s) \/ DeleteSlot(d, s)
      PROVE  AvailInv'
  <2>1. slots[d] \in SUBSET Slot
    BY DEF AvailInv
  <2>2. slots' \in [Profiles -> SUBSET Slot]
    BY <1>2, <2>1 DEF AvailInv, SetSlot, DeleteSlot, Flushed
  <2> QED BY <1>2, <2>2 DEF AvailInv, SetSlot, DeleteSlot
<1>3. ASSUME NEW d \in Profiles, HeartbeatAges(d) PROVE AvailInv'
  <2>1. [status[d] EXCEPT !.beat = "stale"] \in StatusRow
    BY DEF AvailInv, StatusRow
  <2>2. status' \in [Profiles -> StatusRow]
    BY <1>3, <2>1 DEF AvailInv, HeartbeatAges
  <2> QED BY <1>3, <2>2 DEF AvailInv, HeartbeatAges
<1>4. ASSUME NEW d \in Profiles, FilterExpires(d) PROVE AvailInv'
  <2>1. [heading[d] EXCEPT !.expired = TRUE] \in Filter
    BY DEF AvailInv, Filter
  <2>2. heading' \in [Profiles -> Filter]
    BY <1>4, <2>1 DEF AvailInv, FilterExpires
  <2> QED BY <1>4, <2>2 DEF AvailInv, FilterExpires
<1>5. CASE UNCHANGED availVars
  BY <1>5 DEF AvailInv, availVars
<1> QED BY <1>1, <1>2, <1>3, <1>4, <1>5

LEMMA AvailInitHolds == AvailInit => AvailInv
BY DEF AvailInit, AvailInv, NoStatus, StatusRow, NoFilter, Filter

\* The requests' decisions are as typed, whatever overlaps.
THEOREM AvailInvariant == AvailSpec => []AvailInv
<1>1. AvailInv /\ [AvailStep]_availVars => AvailInv'
  BY LoadsKeep, WritesKeep, RestOfAvailKeeps DEF AvailStep, AvailRequest
<1> QED BY <1>1, AvailInitHolds, PTL DEF AvailSpec

\* The admin's list and the matching engine agree on drivers who are not on a
\* break and send heartbeats, for any slots, days and times.
THEOREM FiltersAgree == AvailSpec => []TwoFiltersAgree
<1>1. AvailInv => TwoFiltersAgree
  BY DEF AvailInv, TwoFiltersAgree, Eligible, AvailableNow, InSchedule
<1> QED BY <1>1, AvailInvariant, PTL

\* Who went offline stays so until a request says "online", however many
\* requests overlap, fail to insert or die (set_driver_online).
THEOREM OfflineStays == AvailSpec => OfflineIsKept
<1> DEFINE Kept == \A d \in Profiles :
        (status[d].exists /\ ~status[d].online /\ status'[d].online) =>
            \E c \in Requests : availCall[c].op = "set" /\ availCall[c].new.online
<1>1. AvailInv /\ [AvailStep]_availVars => [Kept]_availVars
  <2> SUFFICES ASSUME AvailInv, AvailStep, NEW d \in Profiles,
                      status[d].exists, ~status[d].online, status'[d].online
               PROVE  \E c \in Requests : availCall[c].op = "set"
                                          /\ availCall[c].new.online
    OBVIOUS
  <2>1. ASSUME NEW e \in Profiles, HeartbeatAges(e) PROVE FALSE
    BY <2>1 DEF HeartbeatAges, AvailInv, StatusRow
  <2>2. PICK c \in Requests : WriteStatus(c)
    BY <2>1 DEF AvailStep, AvailRequest, LoadSetOnline, LoadHeartbeat,
       LoadStartBreak, LoadEndBreak, LoadSetFilter, LoadClearFilter, Ask,
       WriteFilter, InsertRefused, AvailCallLost, SetSlot, DeleteSlot,
       FilterExpires
  <2>3. /\ availCall[c] \in StatusCall
        /\ d = availCall[c].driver
        /\ status'[d].online = IF availCall[c].new.online = availCall[c].copy.online
                               THEN status[d].online ELSE availCall[c].new.online
    BY <2>2, StatusWritten DEF AvailInv
  <2>4. availCall[c].copy.exists
    BY <2>2, <2>3 DEF WriteStatus
  <2> QED BY <2>3, <2>4 DEF StatusCall
<1> QED BY <1>1, AvailInvariant, PTL DEF AvailSpec, OfflineIsKept

-----------------------------------------------------------------------------
(* Approval.                                                                *)

ApprOp == Durable \union {"view", "submit", "order", "check"}

ApprCall == [op : ApprOp, driver : Profiles, copy : DriverRow, new : DriverRow,
             about : VDocs \union Checks \union {0},
             becomes : VStatus \union CheckStatus \union Required
                           \union {"nothing"}]

ApprTypes ==
    /\ driver \in [Profiles -> DriverRow]
    /\ vdoc \in [VDocs -> VDoc \union {Nothing}]
    /\ check \in [Checks -> Check \union {Nothing}]
    /\ apprCall \in [Requests -> ApprCall \union {ApprIdle}]
    /\ apprOverlap \subseteq Profiles

Asking(c) == apprCall[c] # ApprIdle

\* Requests about one driver overlap: apprOverlap says so.
AskingAlone ==
    \A c, e \in Requests :
        (/\ Asking(c) /\ Asking(e) /\ apprCall[c].driver = apprCall[e].driver
         /\ apprCall[c].driver \notin apprOverlap) => c = e

\* A request writes about what its handler found in the tables.
AboutFits(q) ==
    /\ q.op = "review" => /\ q.about \in VDocs /\ q.becomes \in VStatus
                          /\ vdoc[q.about] # Nothing
                          /\ vdoc[q.about].driver = q.driver
    /\ q.op = "check" => /\ q.about \in Checks /\ q.becomes \in CheckStatus
                         /\ check[q.about] # Nothing
    /\ q.op = "submit" => q.becomes \in Required

AdminOps == {"approve", "reactivate", "activate"}

\* The documents as they will be when the request has committed.
After(q) == IF q.op = "review"
            THEN [vdoc EXCEPT ![q.about].status = q.becomes] ELSE vdoc

InStanding(row) == row.active /\ row.onboarding # "suspended"

\* What a request decided about the approval, from a copy.
Decided(q) ==
    /\ q.copy.exists
    /\ OnlineUnapproved(q.new) => OnlineUnapproved(q.copy)
    /\ \/ q.op \in AdminOps /\ q.new.approved
       \/ q.op = "suspend" /\ ~InStanding(q.new) /\ ~q.new.approved
       \/ /\ q.op \notin AdminOps \union {"suspend"}
          /\ InStanding(q.new) => InStanding(q.copy)
          /\ q.copy.approved => q.new.approved

\* ... and still is true of the tables, when nobody else's request overlapped.
StillTrue(q) ==
    q.driver \notin apprOverlap =>
        /\ q.copy = driver[q.driver]
        /\ (q.op \notin AdminOps /\ ~q.copy.approved /\ q.new.approved)
               => AllRequired(q.driver, After(q))
        /\ (q.op = "review" /\ AllRequired(q.driver, After(q)))
               => \/ q.new.approved
                  \/ AllRequired(q.driver, vdoc)

Earned(d) ==
    (d \notin apprOverlap /\ AllRequired(d, vdoc) /\ InStanding(driver[d]))
        => driver[d].approved

ApprovalInv ==
    /\ ApprTypes
    /\ AskingAlone
    /\ \A c \in Requests : Asking(c) => /\ AboutFits(apprCall[c])
                                        /\ Decided(apprCall[c])
                                        /\ StillTrue(apprCall[c])
    /\ \A d \in Profiles : Earned(d)

-----------------------------------------------------------------------------
(* What the operators do.                                                   *)

LEMMA CallsAreTyped ==
    /\ ApprIdle.op = "idle"
    /\ \A q \in ApprCall :
           q # ApprIdle /\ q.op \in ApprOp /\ q.driver \in Profiles
           /\ q.copy \in DriverRow /\ q.new \in DriverRow
<1>1. ApprIdle.op = "idle"
  BY DEF ApprIdle
<1>2. \A q \in ApprCall : q.op \in ApprOp /\ q.driver \in Profiles
                          /\ q.copy \in DriverRow /\ q.new \in DriverRow
  BY DEF ApprCall
<1>3. "idle" \notin ApprOp
  BY DEF ApprOp, Durable
<1> QED BY <1>1, <1>2, <1>3

LEMMA ADocIsSomething == Nothing \notin VDoc /\ Nothing \notin Check
<1>1. DOMAIN Nothing = {"none"}
  BY DEF Nothing
<1>2. \A v \in VDoc : "status" \in DOMAIN v
  BY DEF VDoc
<1>3. \A b \in Check : "status" \in DOMAIN b
  BY DEF Check
<1> QED BY <1>1, <1>2, <1>3

LEMMA MergeOfProfiles ==
    ASSUME NEW row \in DriverRow, NEW copy \in DriverRow, NEW new \in DriverRow
    PROVE  /\ Merge(row, copy, new) \in DriverRow
           /\ copy = row => Merge(row, copy, new) = new
<1> DEFINE after == Merge(row, copy, new)
<1>1. DOMAIN row = {"exists", "approved", "online", "checked", "active", "insured",
                    "onboarding"}
  BY DEF DriverRow
<1>2. after = [exists |-> after.exists, approved |-> after.approved,
               online |-> after.online, checked |-> after.checked,
               active |-> after.active, insured |-> after.insured,
               onboarding |-> after.onboarding]
  BY <1>1 DEF Merge
<1>3. /\ after.exists = IF new.exists = copy.exists THEN row.exists ELSE new.exists
      /\ after.approved = IF new.approved = copy.approved THEN row.approved ELSE new.approved
      /\ after.online = IF new.online = copy.online THEN row.online ELSE new.online
      /\ after.checked = IF new.checked = copy.checked THEN row.checked ELSE new.checked
      /\ after.active = IF new.active = copy.active THEN row.active ELSE new.active
      /\ after.insured = IF new.insured = copy.insured THEN row.insured ELSE new.insured
      /\ after.onboarding = IF new.onboarding = copy.onboarding THEN row.onboarding ELSE new.onboarding
  BY <1>1 DEF Merge
<1>4. after \in DriverRow
  BY <1>2, <1>3 DEF DriverRow
<1>5. ASSUME copy = row PROVE after = new
  BY <1>2, <1>3, <1>5 DEF DriverRow
<1> QED BY <1>4, <1>5

\* Only a driver's own documents count.
LEMMA OwnDocumentsCount ==
    ASSUME NEW d, NEW old, NEW new,
           \A v \in VDocs : \/ new[v] = old[v]
                            \/ /\ old[v] # Nothing => old[v].driver # d
                               /\ new[v] # Nothing => new[v].driver # d
    PROVE  AllRequired(d, new) <=> AllRequired(d, old)
<1>1. \A t \in Required : Of_(d, t, new) = Of_(d, t, old)
  BY DEF Of_
<1>2. \A t \in Required : \A v \in Of_(d, t, old) : new[v] = old[v]
  BY DEF Of_
<1> QED BY <1>1, <1>2 DEF AllRequired

\* A document that is not approved earns nothing.
LEMMA MoreDocumentsAreNoHelp ==
    ASSUME NEW d, NEW old, NEW new,
           \A v \in VDocs :
               \/ new[v] = old[v]
               \/ new[v].status # "approved"
                  /\ (old[v] # Nothing =>
                         new[v] # Nothing /\ new[v].driver = old[v].driver
                         /\ new[v].type = old[v].type),
           AllRequired(d, new)
    PROVE  AllRequired(d, old)
<1>1. \A t \in Required : Of_(d, t, old) \subseteq Of_(d, t, new)
  BY DEF Of_
<1>2. ASSUME NEW t \in Required
      PROVE  \E v \in Of_(d, t, old) : (\A w \in Of_(d, t, old) : w <= v)
                                       /\ old[v].status = "approved"
  <2>1. PICK v \in Of_(d, t, new) : (\A w \in Of_(d, t, new) : w <= v)
                                    /\ new[v].status = "approved"
    BY DEF AllRequired
  <2>2. new[v] = old[v] /\ v \in Of_(d, t, old)
    BY <2>1 DEF Of_
  <2> QED BY <1>1, <2>1, <2>2
<1> QED BY <1>2 DEF AllRequired

-----------------------------------------------------------------------------
(* Requests are made ...                                                    *)

\* A request is entered with what its handler computed.
LEMMA BeginKeeps ==
    ASSUME ApprovalInv, NEW c \in Requests, NEW op, NEW d \in Profiles,
           NEW new, NEW about, NEW becomes,
           Begin(c, op, d, new, about, becomes),
           NEW q \in ApprCall,
           q = [op |-> op, driver |-> d, copy |-> driver[d], new |-> new,
                about |-> about, becomes |-> becomes],
           AboutFits(q), Decided(q), StillTrue(q)
    PROVE  ApprovalInv'
<1> USE DEF ApprovalInv, ApprTypes
<1>1. /\ ~Asking(c)
      /\ apprCall'[c] = q /\ \A e \in Requests : e # c => apprCall'[e] = apprCall[e]
      /\ apprOverlap' = IF InProgress(d) = {} THEN apprOverlap
                        ELSE apprOverlap \union {d}
      /\ UNCHANGED <<driver, vdoc, check>>
      /\ q.driver = d
  BY DEF Begin, Asking
<1>2. ApprTypes'
  BY <1>1 DEF Begin
<1>3. AskingAlone'
  <2>1. ASSUME NEW e \in Requests, e # c, Asking(e), apprCall[e].driver = d
        PROVE  d \in apprOverlap'
    <3>1. e \in InProgress(d)
      BY <2>1 DEF InProgress, Asking
    <3> QED BY <1>1, <3>1
  <2>2. apprOverlap \subseteq apprOverlap'
    BY <1>1
  <2> QED BY <1>1, <2>1, <2>2 DEF AskingAlone, Asking
<1>4. ASSUME NEW e \in Requests, Asking(e)'
      PROVE  (AboutFits(apprCall[e]) /\ Decided(apprCall[e]) /\ StillTrue(apprCall[e]))'
  <2>1. CASE e = c
    BY <1>1, <2>1 DEF AboutFits, Decided, StillTrue, After
  <2>2. CASE e # c
    <3>1. Asking(e) /\ apprCall'[e] = apprCall[e] /\ apprOverlap \subseteq apprOverlap'
      BY <1>1, <1>4, <2>2 DEF Asking
    <3> QED BY ZenonT(30), <1>1, <3>1 DEF AboutFits, Decided, StillTrue, After
  <2> QED BY <2>1, <2>2
<1>5. \A e \in Profiles : Earned(e)'
  BY <1>1 DEF Earned
<1> QED BY <1>2, <1>3, <1>4, <1>5

\* Most requests are about columns of the profile only.
LEMMA ColumnKeeps ==
    ASSUME ApprovalInv, NEW c \in Requests, NEW d \in Profiles,
           NEW op \in ApprOp \ {"review", "check", "submit"},
           NEW new \in DriverRow, Column(c, op, d, new),
           LET q == [op |-> op, driver |-> d, copy |-> driver[d], new |-> new,
                     about |-> 0, becomes |-> "nothing"]
           IN  Decided(q) /\ (op \in AdminOps \/ q.copy.approved \/ ~q.new.approved)
    PROVE  ApprovalInv'
<1> DEFINE q == [op |-> op, driver |-> d, copy |-> driver[d], new |-> new,
                 about |-> 0, becomes |-> "nothing"]
<1>1. q \in ApprCall
  BY DEF ApprCall, ApprovalInv, ApprTypes
<1>2. q.op = op /\ q.driver = d /\ q.copy = driver[d] /\ q.new = new
  OBVIOUS
<1>3. AboutFits(q)
  BY <1>2 DEF AboutFits
<1>4. Decided(q) /\ (op \in AdminOps \/ q.copy.approved \/ ~q.new.approved)
  OBVIOUS
<1>5. q = [op |-> op, driver |-> d, copy |-> driver[d], new |-> new,
           about |-> 0, becomes |-> "nothing"]
  OBVIOUS
<1> HIDE DEF q
<1>6. StillTrue(q)
  BY <1>2, <1>4 DEF StillTrue
<1> QED BY <1>1, <1>3, <1>4, <1>5, <1>6, BeginKeeps DEF Column

\* What the columns of a changed profile are.
LEMMA RequestsAboutColumns ==
    ASSUME ApprovalInv, NEW c \in Requests, NEW d \in Profiles,
           \/ GoOnline(c, d) \/ GoOffline(c, d) \/ ViewChecklist(c, d)
           \/ AdminRequest(c, d) \/ OnboardingRequest(c, d)
    PROVE  ApprovalInv'
<1>1. driver[d] \in DriverRow
  BY DEF ApprovalInv, ApprTypes
<1>2. \A op, new : Column(c, op, d, new) => driver[d].exists
  BY DEF Column, Begin
<1>3. CASE GoOnline(c, d)
  <2>1. driver[d].exists /\ driver[d].approved
    BY <1>2, <1>3 DEF GoOnline, MayGoOnline
  <2> DEFINE new == [driver[d] EXCEPT !.online = TRUE]
  <2>2. new \in DriverRow /\ new.approved /\ new.active = driver[d].active
        /\ new.onboarding = driver[d].onboarding
    BY <1>1, <2>1 DEF DriverRow
  <2>3. Column(c, "online", d, new)
    BY <1>3 DEF GoOnline
  <2> HIDE DEF new
  <2> QED BY <2>1, <2>2, <2>3, ColumnKeeps
          DEF ApprOp, Durable, Decided, OnlineUnapproved, InStanding, AdminOps
<1>4. CASE GoOffline(c, d)
  <2> DEFINE new == [driver[d] EXCEPT !.online = FALSE]
  <2>1. new \in DriverRow /\ ~new.online /\ new.active = driver[d].active
        /\ new.approved = driver[d].approved /\ new.onboarding = driver[d].onboarding
    BY <1>1 DEF DriverRow
  <2>2. Column(c, "offline", d, new)
    BY <1>4 DEF GoOffline
  <2>3. driver[d].exists
    BY <1>2, <2>2
  <2> HIDE DEF new
  <2> QED BY <2>1, <2>2, <2>3, ColumnKeeps
          DEF ApprOp, Durable, Decided, OnlineUnapproved, InStanding, AdminOps
<1>5. CASE ViewChecklist(c, d)
  <2> DEFINE new == Onboarding(driver[d])
  <2>1. new \in DriverRow /\ new.online = driver[d].online
        /\ new.active = driver[d].active /\ new.approved = driver[d].approved
        /\ (new.onboarding = driver[d].onboarding
               \/ driver[d].onboarding = "none")
    BY <1>1 DEF DriverRow, Onboarding
  <2>2. Column(c, "view", d, new)
    BY <1>5 DEF ViewChecklist
  <2>3. driver[d].exists
    BY <1>2, <2>2
  <2> HIDE DEF new
  <2> QED BY <2>1, <2>2, <2>3, ColumnKeeps
          DEF ApprOp, Durable, Decided, OnlineUnapproved, InStanding, AdminOps
<1>6. CASE Activate(c, d)
  <2> DEFINE new == [driver[d] EXCEPT !.onboarding = "approved", !.approved = TRUE]
  <2>1. new \in DriverRow /\ new.approved
    BY <1>1 DEF DriverRow
  <2>2. Column(c, "activate", d, new)
    BY <1>6 DEF Activate
  <2>3. driver[d].exists
    BY <1>2, <2>2
  <2> HIDE DEF new
  <2> QED BY <2>1, <2>2, <2>3, ColumnKeeps
          DEF ApprOp, Durable, Decided, OnlineUnapproved, AdminOps
<1>7. CASE OnboardingSuspend(c, d)
  <2> DEFINE new == [driver[d] EXCEPT
          !.onboarding = "suspended", !.approved = FALSE, !.online = FALSE]
  <2>1. new \in DriverRow /\ ~new.approved /\ ~new.online
        /\ new.onboarding = "suspended"
    BY <1>1 DEF DriverRow
  <2>2. Column(c, "suspend", d, new)
    BY <1>7 DEF OnboardingSuspend
  <2>3. driver[d].exists
    BY <1>2, <2>2
  <2> HIDE DEF new
  <2> QED BY <2>1, <2>2, <2>3, ColumnKeeps
          DEF ApprOp, Durable, Decided, OnlineUnapproved, InStanding, AdminOps
<1>8. CASE AdminApprove(c, d)
  <2> DEFINE new == [driver[d] EXCEPT !.approved = TRUE, !.checked = "approved"]
  <2>1. new \in DriverRow /\ new.approved
    BY <1>1 DEF DriverRow
  <2>2. Column(c, "approve", d, new)
    BY <1>8 DEF AdminApprove
  <2>3. driver[d].exists
    BY <1>2, <2>2
  <2> HIDE DEF new
  <2> QED BY <2>1, <2>2, <2>3, ColumnKeeps
          DEF ApprOp, Durable, Decided, OnlineUnapproved, AdminOps
<1>9. CASE AdminSuspend(c, d)
  <2> DEFINE new == SuspendedRow(driver[d])
  <2>1. new \in DriverRow /\ ~new.approved /\ ~new.online /\ ~new.active
    BY <1>1 DEF DriverRow, SuspendedRow
  <2>2. Column(c, "suspend", d, new)
    BY <1>9 DEF AdminSuspend
  <2>3. driver[d].exists
    BY <1>2, <2>2
  <2> HIDE DEF new
  <2> QED BY <2>1, <2>2, <2>3, ColumnKeeps
          DEF ApprOp, Durable, Decided, OnlineUnapproved, InStanding, AdminOps
<1>10. CASE AdminReactivate(c, d)
  <2> DEFINE new == [driver[d] EXCEPT
          !.approved = TRUE, !.checked = "approved", !.active = TRUE]
  <2>1. new \in DriverRow /\ new.approved
    BY <1>1 DEF DriverRow
  <2>2. Column(c, "reactivate", d, new)
    BY <1>10 DEF AdminReactivate
  <2>3. driver[d].exists
    BY <1>2, <2>2
  <2> HIDE DEF new
  <2> QED BY <2>1, <2>2, <2>3, ColumnKeeps
          DEF ApprOp, Durable, Decided, OnlineUnapproved, AdminOps
<1> QED BY <1>3, <1>4, <1>5, <1>6, <1>7, <1>8, <1>9, <1>10
        DEF AdminRequest, OnboardingRequest

\* A request that leaves the profile as it is.
LEMMA SameProfileIsDecided ==
    ASSUME ApprovalInv, NEW q \in ApprCall, q.op \in {"submit", "order"},
           q.new = q.copy, q.copy = driver[q.driver], q.copy.exists
    PROVE  Decided(q) /\ StillTrue(q)
BY DEF Decided, StillTrue, AdminOps

LEMMA SubmissionsKeepAppr ==
    ASSUME ApprovalInv, NEW c \in Requests, NEW d \in Profiles,
           OrderCheck(c, d) \/ \E t \in Required : SubmitDocument(c, d, t)
    PROVE  ApprovalInv'
<1>1. driver[d] \in DriverRow
  BY DEF ApprovalInv, ApprTypes
<1>2. CASE OrderCheck(c, d)
  <2> DEFINE q == [op |-> "order", driver |-> d, copy |-> driver[d],
                   new |-> driver[d], about |-> 0, becomes |-> "pending"]
  <2>1. q \in ApprCall
    BY <1>1 DEF ApprCall, ApprOp, CheckStatus
  <2>2. Begin(c, "order", d, driver[d], 0, "pending") /\ driver[d].exists
    BY <1>2 DEF OrderCheck, Begin
  <2>3. AboutFits(q)
    BY DEF AboutFits
  <2>4. Decided(q) /\ StillTrue(q)
    BY <2>1, <2>2, SameProfileIsDecided
  <2> QED BY <2>1, <2>2, <2>3, <2>4, BeginKeeps
<1>3. ASSUME NEW t \in Required, SubmitDocument(c, d, t) PROVE ApprovalInv'
  <2> DEFINE q == [op |-> "submit", driver |-> d, copy |-> driver[d],
                   new |-> driver[d], about |-> 0, becomes |-> t]
  <2>1. q \in ApprCall
    BY <1>1 DEF ApprCall, ApprOp
  <2>2. Begin(c, "submit", d, driver[d], 0, t) /\ driver[d].exists
    BY <1>3 DEF SubmitDocument, Begin
  <2>3. AboutFits(q)
    BY DEF AboutFits
  <2>4. Decided(q) /\ StillTrue(q)
    BY <2>1, <2>2, SameProfileIsDecided
  <2> QED BY <2>1, <2>2, <2>3, <2>4, BeginKeeps
<1> QED BY <1>2, <1>3

LEMMA ReviewsKeep ==
    ASSUME ApprovalInv, NEW c \in Requests, NEW v \in VDocs,
           NEW verdict \in VStatus, ReviewDocument(c, v, verdict)
    PROVE  ApprovalInv'
<1> DEFINE d == vdoc[v].driver
           new == Reviewed(d, v, verdict)
           q == [op |-> "review", driver |-> d, copy |-> driver[d], new |-> new,
                 about |-> v, becomes |-> verdict]
<1>1. vdoc[v] # Nothing /\ vdoc[v] \in VDoc /\ d \in Profiles
  BY DEF ReviewDocument, ApprovalInv, ApprTypes, VDoc
<1>2. driver[d] \in DriverRow
  BY <1>1 DEF ApprovalInv, ApprTypes
<1>3. Begin(c, "review", d, new, v, verdict) /\ driver[d].exists
  BY DEF ReviewDocument, Begin
<1>4. vdoc' = vdoc
  BY <1>3 DEF Begin
<1> DEFINE docs == [vdoc EXCEPT ![v].status = verdict]
<1>5. /\ new \in DriverRow
      /\ new.active = driver[d].active /\ new.onboarding = driver[d].onboarding
      /\ new.online = driver[d].online
      /\ driver[d].approved => new.approved
      /\ new.approved /\ ~driver[d].approved => AllRequired(d, docs)
      /\ verdict = "approved" /\ AllRequired(d, docs) => new.approved
  <2>1. AutoApproved(driver[d]) \in DriverRow
        /\ AutoApproved(driver[d]).approved
        /\ AutoApproved(driver[d]).active = driver[d].active
        /\ AutoApproved(driver[d]).online = driver[d].online
        /\ AutoApproved(driver[d]).onboarding = driver[d].onboarding
    BY <1>2 DEF AutoApproved, DriverRow
  <2> HIDE DEF docs
  <2>2. new = IF verdict = "approved" /\ AllRequired(d, docs)
              THEN AutoApproved(driver[d]) ELSE driver[d]
    BY DEF Reviewed, docs
  <2> HIDE DEF new, d
  <2> QED BY <1>2, <2>1, <2>2
<1>6. verdict # "approved" /\ AllRequired(d, docs) => AllRequired(d, vdoc)
  <2> SUFFICES ASSUME verdict # "approved", AllRequired(d, docs)
               PROVE  AllRequired(d, vdoc)
    OBVIOUS
  <2>1. \A w \in VDocs : w # v => docs[w] = vdoc[w]
    BY DEF ApprovalInv, ApprTypes
  <2>2. docs[v] = [vdoc[v] EXCEPT !.status = verdict]
    BY DEF ApprovalInv, ApprTypes
  <2>3. docs[v] \in VDoc /\ docs[v].status = verdict
        /\ docs[v].driver = vdoc[v].driver /\ docs[v].type = vdoc[v].type
    BY <1>1, <2>2 DEF VDoc
  <2> HIDE DEF docs, d
  <2> QED BY <2>1, <2>3, ADocIsSomething, MoreDocumentsAreNoHelp
<1>7. q \in ApprCall
  BY <1>1, <1>2, <1>5 DEF ApprCall, ApprOp, Durable
<1>8. /\ q.op = "review" /\ q.driver = d /\ q.copy = driver[d] /\ q.new = new
      /\ q.about = v /\ q.becomes = verdict
  OBVIOUS
<1>9. After(q) = docs
  BY DEF After
<1>10. q = [op |-> "review", driver |-> d, copy |-> driver[d], new |-> new,
            about |-> v, becomes |-> verdict]
  OBVIOUS
<1>11. AboutFits(q)
  BY <1>1, <1>8 DEF AboutFits
<1> HIDE DEF q, new, docs
<1>12. Decided(q)
  BY <1>2, <1>3, <1>5, <1>8 DEF Decided, OnlineUnapproved, InStanding, AdminOps
<1>13. StillTrue(q)
  BY <1>5, <1>6, <1>8, <1>9 DEF StillTrue
<1> QED BY <1>1, <1>3, <1>7, <1>10, <1>11, <1>12, <1>13, BeginKeeps

LEMMA ChecksKeep ==
    ASSUME ApprovalInv, NEW c \in Requests, NEW b \in Checks,
           NEW result \in CheckStatus,
           CheckWebhook(c, b, result) \/ AdminOverride(c, b, result)
    PROVE  ApprovalInv'
<1> DEFINE d == check[b].driver
           new == CheckCompleted(d, result)
           q == [op |-> "check", driver |-> d, copy |-> driver[d], new |-> new,
                 about |-> b, becomes |-> result]
<1>1. CheckWebhook(c, b, result)
  BY DEF AdminOverride
<1>2. check[b] # Nothing /\ check[b] \in Check /\ d \in Profiles
  BY <1>1 DEF CheckWebhook, ApprovalInv, ApprTypes, Check
<1>3. driver[d] \in DriverRow
  BY <1>2 DEF ApprovalInv, ApprTypes
<1>4. Begin(c, "check", d, new, b, result) /\ driver[d].exists
  BY <1>1 DEF CheckWebhook, Begin
<1>5. AllRequired(d, vdoc) \in BOOLEAN
  BY DEF AllRequired
<1>6. /\ new \in DriverRow
      /\ new.active = driver[d].active /\ new.onboarding = driver[d].onboarding
      /\ new.online = driver[d].online
      /\ driver[d].approved => new.approved
      /\ new.approved /\ ~driver[d].approved => AllRequired(d, vdoc)
  <2> HIDE DEF d
  <2>1. CASE result = "clear"
    <3>1. new = [driver[d] EXCEPT !.checked = "clear",
                                  !.approved = @ \/ AllRequired(d, vdoc)]
      BY <2>1 DEF CheckCompleted
    <3> HIDE DEF new
    <3> QED BY <1>3, <1>5, <3>1 DEF DriverRow
  <2>2. CASE result \in {"consider", "suspended"}
    <3>1. new = [driver[d] EXCEPT !.checked = result]
      BY <2>2 DEF CheckCompleted
    <3> HIDE DEF new
    <3> QED BY <1>3, <2>2, <3>1 DEF DriverRow
  <2>3. CASE result \notin {"clear", "consider", "suspended"}
    <3>1. new = driver[d]
      BY <2>3 DEF CheckCompleted
    <3> HIDE DEF new
    <3> QED BY <1>3, <3>1
  <2> QED BY <2>1, <2>2, <2>3
<1>7. q \in ApprCall
  BY <1>2, <1>3, <1>6 DEF ApprCall, ApprOp
<1>8. /\ q.op = "check" /\ q.driver = d /\ q.copy = driver[d] /\ q.new = new
      /\ q.about = b /\ q.becomes = result
  OBVIOUS
<1>9. q = [op |-> "check", driver |-> d, copy |-> driver[d], new |-> new,
           about |-> b, becomes |-> result]
  OBVIOUS
<1>10. AboutFits(q) /\ After(q) = vdoc
  BY <1>2, <1>8 DEF AboutFits, After
<1> HIDE DEF q, new
<1>11. Decided(q)
  BY <1>3, <1>4, <1>6, <1>8 DEF Decided, OnlineUnapproved, InStanding, AdminOps
<1>12. StillTrue(q)
  BY <1>6, <1>8, <1>10 DEF StillTrue
<1> QED BY <1>2, <1>4, <1>7, <1>9, <1>10, <1>11, <1>12, BeginKeeps

-----------------------------------------------------------------------------
(* ... and end.                                                             *)

\* A request that ends changes at most the rows of its own driver; what other
\* requests know about other drivers stays true.
LEMMA EndKeeps ==
    ASSUME ApprovalInv, NEW c \in Requests, Asking(c), End(c), ApprTypes',
           NEW f, f = apprCall[c].driver,
           \A d \in Profiles : d # f => driver'[d] = driver[d],
           \A v \in VDocs : \/ vdoc'[v] = vdoc[v]
                            \/ /\ vdoc'[v] # Nothing /\ vdoc'[v].driver = f
                               /\ vdoc[v] # Nothing => vdoc[v].driver = f,
           \A b \in Checks : check[b] # Nothing => check'[b] # Nothing,
           Earned(f)'
    PROVE  ApprovalInv'
<1> USE DEF ApprovalInv
<1>1. /\ apprCall'[c] = ApprIdle
      /\ \A e \in Requests : e # c => apprCall'[e] = apprCall[e]
      /\ apprOverlap' = apprOverlap
      /\ f \in Profiles
  BY CallsAreTyped DEF End, Asking, ApprTypes
<1>2. AskingAlone'
  BY <1>1 DEF AskingAlone, Asking
<1>3. ASSUME NEW d \in Profiles, d # f
      PROVE  AllRequired(d, vdoc') <=> AllRequired(d, vdoc)
  BY <1>3, OwnDocumentsCount
<1>4. ASSUME NEW e \in Requests, Asking(e)'
      PROVE  (AboutFits(apprCall[e]) /\ Decided(apprCall[e]) /\ StillTrue(apprCall[e]))'
  <2> DEFINE q == apprCall[e]
  <2>1. e # c /\ Asking(e) /\ apprCall'[e] = q
    BY <1>1, <1>4 DEF Asking
  <2>2. q \in ApprCall /\ q.driver \in Profiles
        /\ AboutFits(q) /\ Decided(q) /\ StillTrue(q)
    BY <2>1, CallsAreTyped DEF Asking, ApprTypes
  <2>3. q.op = "review" => vdoc'[q.about] # Nothing
                           /\ vdoc'[q.about].driver = q.driver
    BY <2>2 DEF AboutFits
  <2>4. AboutFits(q)' /\ Decided(q)'
    BY <2>1, <2>2, <2>3 DEF AboutFits, Decided
  <2>5. ASSUME q.driver \notin apprOverlap
        PROVE  /\ driver'[q.driver] = driver[q.driver]
               /\ AllRequired(q.driver, vdoc') <=> AllRequired(q.driver, vdoc)
               /\ AllRequired(q.driver, After(q)') <=> AllRequired(q.driver, After(q))
    <3>1. q.driver # f
      BY <2>1, <2>5 DEF AskingAlone
    <3>2. CASE q.op # "review"
      BY <1>3, <2>1, <2>2, <3>1, <3>2 DEF After
    <3>3. CASE q.op = "review"
      <4>1. vdoc'[q.about] = vdoc[q.about] /\ q.about \in VDocs
        BY <2>2, <3>1, <3>3 DEF AboutFits
      <4>2. /\ After(q) = [vdoc EXCEPT ![q.about].status = q.becomes]
            /\ After(q)' = [vdoc' EXCEPT ![q.about].status = q.becomes]
        BY <2>1, <3>3 DEF After
      <4>3. \A v \in VDocs : v # q.about =>
                After(q)'[v] = vdoc'[v] /\ After(q)[v] = vdoc[v]
        BY <4>2 DEF ApprTypes
      <4>4. After(q)'[q.about] = After(q)[q.about]
        BY <4>1, <4>2 DEF ApprTypes
      <4>5. \A v \in VDocs :
                \/ After(q)'[v] = After(q)[v]
                \/ /\ After(q)[v] # Nothing => After(q)[v].driver # q.driver
                   /\ After(q)'[v] # Nothing => After(q)'[v].driver # q.driver
        BY <3>1, <4>3, <4>4
      <4>6. AllRequired(q.driver, After(q)') <=> AllRequired(q.driver, After(q))
        BY <4>5, OwnDocumentsCount
      <4> QED BY <1>3, <2>2, <3>1, <4>6
    <3> QED BY <1>3, <2>2, <3>1, <3>2, <3>3
  <2>6. StillTrue(q)'
    <3> HIDE DEF q
    <3>1. q' = q
      BY <2>1 DEF q
    <3> QED BY <1>1, <2>2, <2>5, <3>1 DEF StillTrue
  <2> QED BY <2>1, <2>4, <2>6
<1>5. ASSUME NEW d \in Profiles PROVE Earned(d)'
  <2>1. CASE d = f
    BY <2>1
  <2>2. CASE d # f
    BY <1>1, <1>3, <2>2 DEF Earned
  <2> QED BY <2>1, <2>2
<1> QED BY <1>2, <1>4, <1>5

LEMMA LostKeepsAppr ==
    ASSUME ApprovalInv, NEW c \in Requests, ApprRequestLost(c)
    PROVE  ApprovalInv'
<1>1. Asking(c) /\ End(c) /\ UNCHANGED <<driver, vdoc, check>>
  BY DEF ApprRequestLost, Asking
<1>2. PICK f \in Profiles : f = apprCall[c].driver
  BY <1>1, CallsAreTyped DEF ApprovalInv, ApprTypes, Asking
<1>3. ApprTypes'
  BY <1>1 DEF ApprovalInv, ApprTypes, End
<1>4. Earned(f)'
  BY <1>1 DEF ApprovalInv, End, Earned
<1> QED BY <1>1, <1>2, <1>3, <1>4, EndKeeps

\* What a commit makes of the profile and the documents.
LEMMA ColumnsWritten ==
    ASSUME ApprovalInv, NEW c \in Requests, CommitColumns(c),
           NEW q, q = apprCall[c]
    PROVE  /\ q \in ApprCall /\ Asking(c) /\ End(c) /\ check' = check
           /\ driver' \in [Profiles -> DriverRow]
           /\ \A d \in Profiles : d # q.driver => driver'[d] = driver[d]
           /\ driver'[q.driver] \in {driver[q.driver],
                                     Merge(driver[q.driver], q.copy, q.new)}
           /\ q.op \in Durable =>
                  driver'[q.driver] = Merge(driver[q.driver], q.copy, q.new)
           /\ vdoc' = After(q)
<1>1. q \in ApprCall
  BY CallsAreTyped DEF CommitColumns, ApprovalInv, ApprTypes, Durable
<1>2. q.driver \in Profiles /\ q.copy \in DriverRow /\ q.new \in DriverRow
      /\ driver[q.driver] \in DriverRow
  BY <1>1, CallsAreTyped DEF ApprovalInv, ApprTypes
<1> DEFINE after == Merge(driver[q.driver], q.copy, q.new)
<1>3. after \in DriverRow /\ Merged(c) = after
  BY <1>2, MergeOfProfiles DEF Merged
<1> HIDE DEF after
<1>4. driver' = [driver EXCEPT ![q.driver] =
           IF q.op \in Durable THEN after ELSE Flushed(driver[q.driver], after)]
  BY <1>2, <1>3 DEF CommitColumns, ApprovalInv, ApprTypes
<1>5. Flushed(driver[q.driver], after) \in {driver[q.driver], after}
  BY DEF Flushed
<1>6. driver' \in [Profiles -> DriverRow]
  BY <1>2, <1>3, <1>4, <1>5 DEF ApprovalInv, ApprTypes
<1>7. /\ \A d \in Profiles : d # q.driver => driver'[d] = driver[d]
      /\ driver'[q.driver] \in {driver[q.driver], after}
      /\ q.op \in Durable => driver'[q.driver] = after
  BY <1>2, <1>4, <1>5 DEF ApprovalInv, ApprTypes
<1>8. End(c) /\ check' = check /\ vdoc' = After(q)
  BY DEF CommitColumns, After
<1>9. Asking(c)
  BY <1>1, CallsAreTyped DEF Asking
<1> QED BY <1>1, <1>6, <1>7, <1>8, <1>9 DEF after

\* The profile after a commit that found it as it was loaded.
LEMMA WrittenAsDecided ==
    ASSUME ApprovalInv, NEW c \in Requests, Asking(c),
           NEW q \in ApprCall, q = apprCall[c], q.driver \notin apprOverlap
    PROVE  /\ q.copy = driver[q.driver]
           /\ Merge(driver[q.driver], q.copy, q.new) = q.new
<1>1. q.copy = driver[q.driver]
  BY DEF ApprovalInv, StillTrue
<1> QED BY <1>1, CallsAreTyped, MergeOfProfiles

LEMMA CommitKeepsAppr ==
    ASSUME ApprovalInv, NEW c \in Requests, CommitColumns(c)
    PROVE  ApprovalInv'
<1> DEFINE p == apprCall[c]
<1>1. PICK q : q = p
  OBVIOUS
<1>2. /\ q \in ApprCall /\ Asking(c) /\ End(c) /\ check' = check
      /\ driver' \in [Profiles -> DriverRow]
      /\ \A d \in Profiles : d # q.driver => driver'[d] = driver[d]
      /\ driver'[q.driver] \in {driver[q.driver],
                                Merge(driver[q.driver], q.copy, q.new)}
      /\ q.op \in Durable =>
             driver'[q.driver] = Merge(driver[q.driver], q.copy, q.new)
      /\ vdoc' = After(q)
  BY <1>1, ColumnsWritten
<1>3. /\ q.driver \in Profiles /\ q.op \in Durable \union {"view"}
      /\ AboutFits(q) /\ Decided(q) /\ StillTrue(q)
  BY <1>1, <1>2, CallsAreTyped DEF ApprovalInv, CommitColumns
<1>4. /\ vdoc' \in [VDocs -> VDoc \union {Nothing}]
      /\ \A v \in VDocs : \/ vdoc'[v] = vdoc[v]
                          \/ /\ vdoc'[v] # Nothing /\ vdoc'[v].driver = q.driver
                             /\ vdoc[v] # Nothing => vdoc[v].driver = q.driver
  <2>1. CASE q.op # "review"
    BY <1>2, <2>1 DEF After, ApprovalInv, ApprTypes
  <2>2. CASE q.op = "review"
    <3>1. /\ q.about \in VDocs /\ q.becomes \in VStatus
          /\ vdoc[q.about] # Nothing /\ vdoc[q.about].driver = q.driver
      BY <1>3, <2>2 DEF AboutFits
    <3> DEFINE doc == [vdoc[q.about] EXCEPT !.status = q.becomes]
    <3>2. vdoc[q.about] \in VDoc
      BY <3>1 DEF ApprovalInv, ApprTypes
    <3>3. doc \in VDoc /\ doc.driver = q.driver
      BY <3>1, <3>2 DEF VDoc
    <3>4. vdoc' = [vdoc EXCEPT ![q.about] = doc]
      BY <1>2, <2>2, <3>1 DEF After, ApprovalInv, ApprTypes
    <3> HIDE DEF doc
    <3> QED BY <3>1, <3>3, <3>4, ADocIsSomething DEF ApprovalInv, ApprTypes
  <2> QED BY <2>1, <2>2
<1>5. ApprTypes'
  BY <1>2, <1>4 DEF ApprovalInv, ApprTypes, End
<1>6. Earned(q.driver)'
  <2> SUFFICES ASSUME q.driver \notin apprOverlap, AllRequired(q.driver, After(q)),
                      InStanding(driver'[q.driver])
               PROVE  driver'[q.driver].approved
    BY <1>2 DEF Earned, End
  <2>1. q.copy = driver[q.driver]
        /\ Merge(driver[q.driver], q.copy, q.new) = q.new
    BY <1>1, <1>2, WrittenAsDecided
  <2>2. CASE q.op \in AdminOps
    BY <1>2, <1>3, <2>1, <2>2 DEF Decided, AdminOps, Durable
  <2>3. CASE q.op = "suspend"
    BY <1>2, <1>3, <2>1, <2>3 DEF Decided, AdminOps, Durable
  <2>4. CASE q.op \notin AdminOps \union {"suspend"}
    <3>1. (AllRequired(q.driver, vdoc) /\ InStanding(q.copy)) => q.copy.approved
      BY <1>3, <2>1 DEF ApprovalInv, Earned
    <3>2. q.new.approved \/ AllRequired(q.driver, vdoc)
      BY <1>3 DEF StillTrue, After
    <3>3. CASE driver'[q.driver] = q.new
      BY <1>3, <2>4, <3>1, <3>2, <3>3 DEF Decided
    <3>4. CASE driver'[q.driver] # q.new
      <4>1. q.op = "view" /\ driver'[q.driver] = q.copy
        BY <1>2, <1>3, <2>1, <3>4
      <4>2. AllRequired(q.driver, vdoc)
        BY <4>1 DEF After
      <4> QED BY <3>1, <4>1, <4>2
    <3> QED BY <3>3, <3>4
  <2> QED BY <2>2, <2>3, <2>4, <1>3, <1>2, <2>1 DEF Decided
<1>7. \A b \in Checks : check[b] # Nothing => check'[b] # Nothing
  BY <1>2
<1>8. PICK f : f = q.driver
  OBVIOUS
<1> QED BY <1>1, <1>2, <1>4, <1>5, <1>6, <1>7, <1>8, EndKeeps

LEMMA InsertDocumentKeeps ==
    ASSUME ApprovalInv, NEW c \in Requests, InsertDocument(c)
    PROVE  ApprovalInv'
<1>1. PICK q : q = apprCall[c]
  OBVIOUS
<1>2. q \in ApprCall /\ q.op = "submit" /\ Asking(c) /\ q.driver \in Profiles
  BY <1>1, CallsAreTyped DEF InsertDocument, ApprovalInv, ApprTypes, Asking
<1>3. q.becomes \in Required
  BY <1>1, <1>2 DEF ApprovalInv, AboutFits
<1> DEFINE doc == [driver |-> q.driver, type |-> q.becomes, status |-> "pending"]
<1>4. doc \in VDoc /\ doc.driver = q.driver /\ doc.status # "approved"
  BY <1>2, <1>3 DEF VDoc, VStatus
<1>5. PICK v \in VDocs : vdoc[v] = Nothing /\ vdoc' = [vdoc EXCEPT ![v] = doc]
  BY <1>1 DEF InsertDocument, FirstUnused, Unused, ApprovalInv, ApprTypes
<1>6. End(c) /\ UNCHANGED <<driver, check>>
  BY DEF InsertDocument
<1> HIDE DEF doc
<1>7. ApprTypes'
  BY <1>4, <1>5, <1>6 DEF ApprovalInv, ApprTypes, End
<1>8. vdoc'[v] = doc /\ \A w \in VDocs : w # v => vdoc'[w] = vdoc[w]
  BY <1>5 DEF ApprovalInv, ApprTypes
<1>9. Earned(q.driver)'
  <2> SUFFICES ASSUME q.driver \notin apprOverlap, AllRequired(q.driver, vdoc')
               PROVE  AllRequired(q.driver, vdoc)
    BY <1>2, <1>6 DEF Earned, End, ApprovalInv
  <2>1. \A w \in VDocs :
            \/ vdoc'[w] = vdoc[w]
            \/ vdoc'[w].status # "approved"
               /\ (vdoc[w] # Nothing =>
                      vdoc'[w] # Nothing /\ vdoc'[w].driver = vdoc[w].driver
                      /\ vdoc'[w].type = vdoc[w].type)
    BY <1>4, <1>5, <1>8
  <2> QED BY <2>1, MoreDocumentsAreNoHelp
<1>10. doc # Nothing
  BY <1>4, ADocIsSomething
<1>11. PICK f : f = q.driver
  OBVIOUS
<1> QED BY <1>1, <1>2, <1>4, <1>5, <1>6, <1>7, <1>8, <1>9, <1>10, <1>11, EndKeeps

LEMMA InsertCheckKeeps ==
    ASSUME ApprovalInv, NEW c \in Requests, InsertCheck(c)
    PROVE  ApprovalInv'
<1>1. PICK q : q = apprCall[c]
  OBVIOUS
<1>2. q \in ApprCall /\ q.op = "order" /\ Asking(c) /\ q.driver \in Profiles
  BY <1>1, CallsAreTyped DEF InsertCheck, ApprovalInv, ApprTypes, Asking
<1> DEFINE row == [driver |-> q.driver, status |-> "pending"]
<1>3. row \in Check
  BY <1>2 DEF Check, CheckStatus
<1>4. PICK b \in Checks : check' = check \/ check' = [check EXCEPT ![b] = row]
  BY <1>1 DEF InsertCheck, FirstUnused, Unused, Flushed, ApprovalInv, ApprTypes
<1>5. End(c) /\ UNCHANGED <<driver, vdoc>>
  BY DEF InsertCheck
<1> HIDE DEF row
<1>6. ApprTypes'
  BY <1>3, <1>4, <1>5 DEF ApprovalInv, ApprTypes, End
<1>7. \A a \in Checks : check[a] # Nothing => check'[a] # Nothing
  BY <1>3, <1>4, ADocIsSomething DEF ApprovalInv, ApprTypes
<1>8. Earned(q.driver)'
  BY <1>2, <1>5 DEF Earned, End, ApprovalInv
<1>9. PICK f : f = q.driver
  OBVIOUS
<1> QED BY <1>1, <1>2, <1>5, <1>6, <1>7, <1>8, <1>9, EndKeeps

\* What the answer of the provider, or an admin's, makes of the profile.
LEMMA CheckWritten ==
    ASSUME ApprovalInv, NEW c \in Requests, WriteCheck(c),
           NEW q, q = apprCall[c]
    PROVE  /\ q \in ApprCall /\ q.op = "check" /\ Asking(c) /\ End(c)
           /\ vdoc' = vdoc /\ ApprTypes'
           /\ \A d \in Profiles : d # q.driver => driver'[d] = driver[d]
           /\ driver'[q.driver] \in {driver[q.driver],
                                     Merge(driver[q.driver], q.copy, q.new)}
           /\ \A b \in Checks : check[b] # Nothing => check'[b] # Nothing
<1>1. q \in ApprCall /\ q.op = "check" /\ Asking(c)
  BY CallsAreTyped DEF WriteCheck, ApprovalInv, ApprTypes, Asking
<1>2. q.driver \in Profiles /\ q.copy \in DriverRow /\ q.new \in DriverRow
      /\ driver[q.driver] \in DriverRow
  BY <1>1, CallsAreTyped DEF ApprovalInv, ApprTypes
<1> DEFINE after == Merge(driver[q.driver], q.copy, q.new)
<1>3. after \in DriverRow /\ Merged(c) = after
  BY <1>2, MergeOfProfiles DEF Merged
<1>4. PICK row \in {driver[q.driver], after} :
          driver' = [driver EXCEPT ![q.driver] = row]
  BY <1>2, <1>3 DEF WriteCheck, Flushed, ApprovalInv, ApprTypes
<1> HIDE DEF after
<1>5. /\ q.about \in Checks /\ q.becomes \in CheckStatus /\ check[q.about] # Nothing
  BY <1>1 DEF ApprovalInv, AboutFits
<1> DEFINE answer == [check[q.about] EXCEPT !.status = q.becomes]
<1>6. answer \in Check
  BY <1>5 DEF ApprovalInv, ApprTypes, Check
<1>7. check' = check \/ check' = [check EXCEPT ![q.about] = answer]
  BY <1>5 DEF WriteCheck, Flushed, ApprovalInv, ApprTypes
<1> HIDE DEF answer
<1>8. End(c) /\ vdoc' = vdoc
  BY DEF WriteCheck
<1>9. driver' \in [Profiles -> DriverRow]
  BY <1>2, <1>3, <1>4 DEF ApprovalInv, ApprTypes
<1>10. check' \in [Checks -> Check \union {Nothing}]
       /\ \A b \in Checks : check[b] # Nothing => check'[b] # Nothing
  BY <1>5, <1>6, <1>7, ADocIsSomething DEF ApprovalInv, ApprTypes
<1>11. ApprTypes'
  BY <1>8, <1>9, <1>10 DEF ApprovalInv, ApprTypes, End
<1>12. /\ \A d \in Profiles : d # q.driver => driver'[d] = driver[d]
       /\ driver'[q.driver] \in {driver[q.driver], after}
  BY <1>2, <1>4 DEF ApprovalInv, ApprTypes
<1> QED BY <1>1, <1>8, <1>10, <1>11, <1>12 DEF after

LEMMA CheckWriteKeeps ==
    ASSUME ApprovalInv, NEW c \in Requests, WriteCheck(c)
    PROVE  ApprovalInv'
<1>1. PICK q : q = apprCall[c]
  OBVIOUS
<1>2. /\ q \in ApprCall /\ q.op = "check" /\ Asking(c) /\ End(c)
      /\ vdoc' = vdoc /\ ApprTypes'
      /\ \A d \in Profiles : d # q.driver => driver'[d] = driver[d]
      /\ driver'[q.driver] \in {driver[q.driver],
                                Merge(driver[q.driver], q.copy, q.new)}
      /\ \A b \in Checks : check[b] # Nothing => check'[b] # Nothing
  BY <1>1, CheckWritten
<1>3. Earned(q.driver)'
  <2> SUFFICES ASSUME q.driver \notin apprOverlap, AllRequired(q.driver, vdoc),
                      InStanding(driver'[q.driver])
               PROVE  driver'[q.driver].approved
    BY <1>2 DEF Earned, End
  <2>1. q.copy = driver[q.driver]
        /\ Merge(driver[q.driver], q.copy, q.new) = q.new
    BY <1>1, <1>2, WrittenAsDecided
  <2>2. Earned(q.driver) /\ Decided(q)
    BY <1>1, <1>2, CallsAreTyped DEF ApprovalInv
  <2> QED BY <1>2, <2>1, <2>2 DEF Earned, Decided, AdminOps
<1>4. PICK f : f = q.driver
  OBVIOUS
<1> QED BY <1>1, <1>2, <1>3, <1>4, EndKeeps

LEMMA CreationKeeps ==
    ASSUME ApprovalInv, NEW d \in Profiles, CreateProfile(d)
    PROVE  ApprovalInv'
<1>0. PICK insured \in BOOLEAN :
          driver' = [driver EXCEPT ![d] = [@ EXCEPT !.exists = TRUE, !.insured = insured]]
  BY DEF CreateProfile
<1> DEFINE new == [driver[d] EXCEPT !.exists = TRUE, !.insured = insured]
<1>1. /\ driver[d] = NoProfile /\ driver[d] \in DriverRow
      /\ driver' = [driver EXCEPT ![d] = new]
      /\ UNCHANGED <<vdoc, check, apprCall, apprOverlap>>
  BY <1>0 DEF CreateProfile, ApprovalInv, ApprTypes
<1>2. /\ ~driver[d].exists /\ InStanding(driver[d]) /\ ~driver[d].approved
      /\ new \in DriverRow /\ InStanding(new) /\ ~new.approved
  <2>1. /\ ~driver[d].exists /\ driver[d].active
        /\ driver[d].onboarding = "none" /\ ~driver[d].approved
    BY <1>1 DEF NoProfile
  <2>2. new \in DriverRow /\ new.active = driver[d].active
        /\ new.onboarding = driver[d].onboarding /\ new.approved = driver[d].approved
    BY <1>1 DEF DriverRow
  <2> QED BY <2>1, <2>2 DEF InStanding
<1> HIDE DEF new
<1>3. ApprTypes' /\ AskingAlone'
  BY <1>1, <1>2 DEF ApprovalInv, ApprTypes, AskingAlone, Asking
<1>4. ASSUME NEW e \in Requests, Asking(e)'
      PROVE  (AboutFits(apprCall[e]) /\ Decided(apprCall[e]) /\ StillTrue(apprCall[e]))'
  <2>1. PICK q : q = apprCall[e] /\ q = apprCall'[e]
    BY <1>1
  <2>2. Asking(e) /\ AboutFits(q) /\ Decided(q) /\ StillTrue(q) /\ q.driver \in Profiles
    BY <1>1, <1>4, <2>1, CallsAreTyped DEF ApprovalInv, ApprTypes, Asking
  <2>3. q.driver \notin apprOverlap => q.driver # d
    BY <1>2, <2>2 DEF StillTrue, Decided
  <2>4. AboutFits(q)' /\ Decided(q)'
    BY <1>1, <2>2 DEF AboutFits, Decided
  <2>5. StillTrue(q)'
    BY <1>1, <2>2, <2>3 DEF StillTrue, After, ApprovalInv, ApprTypes
  <2> QED BY <2>1, <2>4, <2>5
<1>5. ASSUME NEW e \in Profiles PROVE Earned(e)'
  <2>1. CASE e = d
    BY <1>1, <1>2, <2>1 DEF ApprovalInv, Earned
  <2>2. CASE e # d
    BY <1>1, <2>2 DEF ApprovalInv, ApprTypes, Earned
  <2> QED BY <2>1, <2>2
<1> QED BY <1>3, <1>4, <1>5 DEF ApprovalInv

LEMMA ApprStutterKeeps ==
    ASSUME ApprovalInv, UNCHANGED approvalVars
    PROVE  ApprovalInv'
BY DEF ApprovalInv, ApprTypes, AskingAlone, Asking, AboutFits, Decided,
       StillTrue, After, Earned, approvalVars

LEMMA ApprovalInitHolds == ApprovalInit => ApprovalInv
<1> SUFFICES ASSUME ApprovalInit PROVE ApprovalInv
  OBVIOUS
<1>1. NoProfile \in DriverRow
  BY DEF NoProfile, DriverRow
<1>2. ApprTypes /\ AskingAlone /\ \A c \in Requests : ~Asking(c)
  BY <1>1 DEF ApprovalInit, ApprTypes, AskingAlone, Asking
<1>3. \A d, t : Of_(d, t, vdoc) = {}
  BY DEF ApprovalInit, Of_
<1>4. \A d : ~AllRequired(d, vdoc)
  BY <1>3, ApprovalAssumption DEF AllRequired
<1> QED BY <1>2, <1>4 DEF ApprovalInv, Earned

-----------------------------------------------------------------------------
(* The theorems.                                                            *)

\* Whatever the documents' services do and however requests overlap or die, a
\* request knows the tables it decided on, unless it overlapped with another
\* about the same driver.
THEOREM ApprovalInvariant == ApprovalSpec => []ApprovalInv
<1>1. ApprovalInv /\ [ApprovalStep]_approvalVars => ApprovalInv'
  BY RequestsAboutColumns, SubmissionsKeepAppr, ReviewsKeep, ChecksKeep,
     CommitKeepsAppr, InsertDocumentKeeps, InsertCheckKeeps, CheckWriteKeeps,
     LostKeepsAppr, CreationKeeps, ApprStutterKeeps
     DEF ApprovalStep, DriverRequest, WebhookRequest, OverrideRequest
<1> QED BY <1>1, ApprovalInitHolds, PTL DEF ApprovalSpec

\* Without an overlap, nobody in good standing waits for an approval that clear
\* check and documents have earned, in any order of verdicts, resubmissions,
\* webhooks, suspensions and reactivations (_check_auto_approve,
\* _attempt_auto_approve).
THEOREM TheEarnedAreApproved == ApprovalSpec => []EarnedIsApproved
<1>1. ApprovalInv => EarnedIsApproved
  BY DEF ApprovalInv, Earned, EarnedIsApproved, InGoodStanding, InStanding
<1> QED BY <1>1, ApprovalInvariant, PTL

\* A step that changes a profile is the creation of it or the commit of a
\* request about it.
LEMMA WhoChangesProfiles ==
    ASSUME ApprovalInv, ApprovalStep, NEW d \in Profiles, driver'[d] # driver[d]
    PROVE  \/ CreateProfile(d)
           \/ \E c \in Requests :
                  /\ CommitColumns(c) \/ WriteCheck(c)
                  /\ apprCall[c] \in ApprCall /\ Asking(c)
                  /\ apprCall[c].driver = d /\ c \in InProgress(d)
                  /\ driver'[d] = Merge(driver[d], apprCall[c].copy, apprCall[c].new)
<1>1. ASSUME NEW e \in Profiles, CreateProfile(e) PROVE e = d
  BY <1>1 DEF CreateProfile, ApprovalInv, ApprTypes
<1>2. ASSUME NEW c \in Requests, CommitColumns(c) \/ WriteCheck(c)
      PROVE  /\ apprCall[c] \in ApprCall /\ Asking(c)
             /\ apprCall[c].driver = d /\ c \in InProgress(d)
             /\ driver'[d] = Merge(driver[d], apprCall[c].copy, apprCall[c].new)
  <2>1. PICK q : q = apprCall[c]
    OBVIOUS
  <2>2. /\ q \in ApprCall /\ Asking(c)
        /\ \A e \in Profiles : e # q.driver => driver'[e] = driver[e]
        /\ driver'[q.driver] \in {driver[q.driver],
                                  Merge(driver[q.driver], q.copy, q.new)}
    BY <1>2, <2>1, ColumnsWritten, CheckWritten
  <2> QED BY <2>1, <2>2 DEF InProgress, Asking
<1>3. CASE \E c \in Requests : CommitColumns(c) \/ WriteCheck(c)
  BY <1>2, <1>3
<1>4. CASE \E e \in Profiles : CreateProfile(e)
  BY <1>1, <1>4
<1>5. ASSUME NEW c \in Requests, NEW e \in Profiles,
             DriverRequest(c, e) \/ AdminRequest(c, e) \/ OnboardingRequest(c, e)
      PROVE  driver' = driver
  BY <1>5 DEF DriverRequest, AdminRequest, OnboardingRequest, GoOnline, GoOffline,
     ViewChecklist, OrderCheck, SubmitDocument, AdminApprove, AdminSuspend,
     AdminReactivate, Activate, OnboardingSuspend, Column, Begin
<1>6. ASSUME NEW c \in Requests,
             \/ \E v \in VDocs, verdict \in VStatus : ReviewDocument(c, v, verdict)
             \/ WebhookRequest(c) \/ OverrideRequest(c)
             \/ InsertDocument(c) \/ InsertCheck(c) \/ ApprRequestLost(c)
      PROVE  driver' = driver
  BY <1>6 DEF ReviewDocument, WebhookRequest, OverrideRequest, CheckWebhook,
     AdminOverride, Begin, InsertDocument, InsertCheck, ApprRequestLost
<1> QED BY <1>3, <1>4, <1>5, <1>6 DEF ApprovalStep

\* Only a request that decided on a copy which is out of date leaves a driver
\* online without an approval (go_online during a suspension).
THEOREM OnlineAreApproved == ApprovalSpec => OnlineNeedsApproval
<1> DEFINE Needs == \A d \in Profiles :
        (OnlineUnapproved(driver'[d]) /\ ~OnlineUnapproved(driver[d])) =>
            \E c \in InProgress(d) : apprCall[c].copy # driver[d]
<1>1. ApprovalInv /\ [ApprovalStep]_approvalVars => [Needs]_approvalVars
  <2> SUFFICES ASSUME ApprovalInv, ApprovalStep, NEW d \in Profiles,
                      OnlineUnapproved(driver'[d]), ~OnlineUnapproved(driver[d]),
                      \A c \in InProgress(d) : apprCall[c].copy = driver[d]
               PROVE  FALSE
    OBVIOUS
  <2>1. ASSUME CreateProfile(d) PROVE FALSE
    <3>1. PICK insured \in BOOLEAN :
              /\ driver[d] = NoProfile
              /\ driver'[d] = [NoProfile EXCEPT !.exists = TRUE, !.insured = insured]
      BY <2>1 DEF CreateProfile, ApprovalInv, ApprTypes
    <3> QED BY <3>1 DEF NoProfile, OnlineUnapproved
  <2>2. PICK c \in Requests :
            /\ apprCall[c] \in ApprCall /\ Asking(c)
            /\ apprCall[c].driver = d /\ c \in InProgress(d)
            /\ driver'[d] = Merge(driver[d], apprCall[c].copy, apprCall[c].new)
    BY <2>1, WhoChangesProfiles
  <2>3. driver'[d] = apprCall[c].new /\ apprCall[c].copy = driver[d]
    BY <2>2, CallsAreTyped, MergeOfProfiles
  <2> QED BY <2>2, <2>3 DEF ApprovalInv, Decided
<1> QED BY <1>1, ApprovalInvariant, PTL DEF ApprovalSpec, OnlineNeedsApproval

\* Without an overlap, a driver comes to be approved by an admin's word or when
\* all required documents are approved, never on unreviewed ones
\* (review_document, handle_webhook, admin_override_check).
THEOREM ApprovalsAreEarned == ApprovalSpec => ApprovalIsEarned
<1> DEFINE IsEarned == \A d \in Profiles :
        (~driver[d].approved /\ driver'[d].approved /\ d \notin apprOverlap)
            => \/ AllRequired(d, vdoc')
               \/ \E c \in InProgress(d) :
                      apprCall[c].op \in {"approve", "reactivate", "activate"}
<1>1. ApprovalInv /\ [ApprovalStep]_approvalVars => [IsEarned]_approvalVars
  <2> SUFFICES ASSUME ApprovalInv, ApprovalStep, NEW d \in Profiles,
                      ~driver[d].approved, driver'[d].approved, d \notin apprOverlap,
                      \A c \in InProgress(d) : apprCall[c].op \notin AdminOps
               PROVE  AllRequired(d, vdoc')
    BY DEF AdminOps
  <2>1. ASSUME CreateProfile(d) PROVE FALSE
    <3>1. PICK insured \in BOOLEAN :
              /\ driver[d] = NoProfile
              /\ driver'[d] = [NoProfile EXCEPT !.exists = TRUE, !.insured = insured]
      BY <2>1 DEF CreateProfile, ApprovalInv, ApprTypes
    <3> QED BY <3>1 DEF NoProfile
  <2>2. PICK c \in Requests :
            /\ CommitColumns(c) \/ WriteCheck(c)
            /\ apprCall[c] \in ApprCall /\ Asking(c)
            /\ apprCall[c].driver = d /\ c \in InProgress(d)
            /\ driver'[d] = Merge(driver[d], apprCall[c].copy, apprCall[c].new)
    BY <2>1, WhoChangesProfiles
  <2>3. PICK q : q = apprCall[c]
    OBVIOUS
  <2>4. q \in ApprCall /\ StillTrue(q) /\ q.driver = d /\ q.op \notin AdminOps
    BY <2>2, <2>3 DEF ApprovalInv
  <2>5. driver'[d] = q.new /\ q.copy = driver[d]
    BY <2>2, <2>3, <2>4, WrittenAsDecided
  <2>6. AllRequired(d, After(q))
    BY <2>4, <2>5 DEF StillTrue
  <2>7. vdoc' = After(q)
    BY <2>2, <2>3, ColumnsWritten, CheckWritten DEF After
  <2> QED BY <2>6, <2>7
<1> QED BY <1>1, ApprovalInvariant, PTL DEF ApprovalSpec, ApprovalIsEarned

-----------------------------------------------------------------------------
(* The connections.                                                         *)

ConnInv == EngineTypeOK /\ ConnTypeOK

LEMMA EndpointsKeep ==
    ASSUME ConnInv, NEW s \in Sockets,
           \/ Connect(s) \/ Message(s) \/ ClientGoes(s) \/ Disconnect(s)
           \/ LeaveMatching(s) \/ EndpointFails(s) \/ Send(s) \/ SendFails(s)
    PROVE  ConnInv'
<1> USE DEF ConnInv, EngineTypeOK, ConnTypeOK, SetLink, Link, engineVars
<1>1. CASE Connect(s)
  BY <1>1 DEF Connect
<1>2. CASE Message(s)
  BY <1>2, SocketsAssumption DEF Message, UpdateDriverLocation, User
<1>3. CASE ClientGoes(s)
  BY <1>3 DEF ClientGoes
<1>4. CASE Disconnect(s)
  BY <1>4 DEF Disconnect, Forget
<1>5. CASE LeaveMatching(s)
  BY <1>5 DEF LeaveMatching, RemoveDriver
<1>6. CASE EndpointFails(s)
  BY <1>6 DEF EndpointFails
<1>7. CASE Send(s)
  BY <1>7 DEF Send
<1>8. CASE SendFails(s)
  BY <1>8 DEF SendFails, Forget
<1> QED BY <1>1, <1>2, <1>3, <1>4, <1>5, <1>6, <1>7, <1>8

\* What the heartbeat loop remembers.
Beat == [at : {"sleep", "ping", "wait", "prune", "close"}, toPing : SUBSET Sockets,
         dead : SUBSET Users, closing : SUBSET Users]

LEMMA BeatMoves ==
    ASSUME NEW b \in Beat, NEW s \in SUBSET Sockets, NEW u \in SUBSET Users,
           NEW v \in SUBSET Users,
           NEW at \in {"sleep", "ping", "wait", "prune", "close"}
    PROVE  /\ [b EXCEPT !.at = at] \in Beat
           /\ [b EXCEPT !.toPing = s] \in Beat
           /\ [b EXCEPT !.at = at, !.toPing = s] \in Beat
           /\ [b EXCEPT !.at = at, !.dead = u] \in Beat
           /\ [b EXCEPT !.at = at, !.closing = u] \in Beat
           /\ [b EXCEPT !.at = at, !.dead = u, !.closing = v] \in Beat
           /\ Sleeping \in Beat
BY DEF Beat, Sleeping

LEMMA HeartbeatKeeps ==
    ASSUME ConnInv, HeartbeatStep
    PROVE  ConnInv'
<1>1. /\ EngineTypeOK
      /\ registered \subseteq Sockets /\ awaiting \subseteq Users
      /\ link \in [Sockets -> Link] /\ sending \subseteq Sockets
      /\ beat \in Beat /\ beat.toPing \subseteq Sockets /\ beat.dead \subseteq Users
  BY DEF ConnInv, ConnTypeOK, Beat
<1>2. UNCHANGED engineVars /\ UNCHANGED sending
  BY DEF HeartbeatStep, StartPings, EndPings, StartPrune, EndPrune, Ping, CloseDead,
         ForgetDead
<1>3. EngineTypeOK'
  BY <1>1, <1>2 DEF EngineTypeOK, engineVars
<1>4. \A s \in Sockets : User(s) \in Users
  BY DEF Users
<1>5. /\ registered' \subseteq Sockets /\ awaiting' \subseteq Users
      /\ link' \in [Sockets -> Link]
  BY <1>1, <1>4 DEF HeartbeatStep, StartPings, EndPings, StartPrune, EndPrune, Ping,
                    CloseDead, ForgetDead, Forget, Link
<1>6. beat' \in Beat
  <2>1. CASE StartPings
    BY <2>1, <1>1, BeatMoves DEF StartPings
  <2>2. CASE EndPings \/ EndPrune
    BY <2>2, <1>1, BeatMoves DEF EndPings, EndPrune
  <2>3. CASE StartPrune
    BY <2>3, <1>1, BeatMoves DEF StartPrune
  <2>4. ASSUME NEW s \in Sockets, Ping(s) PROVE beat' \in Beat
    <3>1. beat.toPing \ {s} \in SUBSET Sockets
      BY <1>1
    <3> QED BY <3>1, <2>4, <1>1, BeatMoves DEF Ping
  <2>5. ASSUME NEW u \in Users, CloseDead(u) PROVE beat' \in Beat
    <3>1. beat.dead \ {u} \in SUBSET Users /\ {u} \in SUBSET Users
      BY <1>1
    <3> QED BY <3>1, <2>5, <1>1, BeatMoves DEF CloseDead
  <2>6. ASSUME NEW u \in Users, ForgetDead(u) PROVE beat' \in Beat
    BY <2>6, <1>1, BeatMoves DEF ForgetDead
  <2> QED BY <2>1, <2>2, <2>3, <2>4, <2>5, <2>6 DEF HeartbeatStep
<1> QED BY <1>1, <1>2, <1>3, <1>5, <1>6 DEF ConnInv, ConnTypeOK, Beat

\* The registry holds sockets, the heartbeat loop users, and the matching
\* engine's keys are about drivers, whatever connects, vanishes and reports
\* (websocket.py).
THEOREM ConnectionTypes == ConnSpec => [](EngineTypeOK /\ ConnTypeOK)
<1>1. EngineInit /\ ConnInit => ConnInv
  BY DEF EngineInit, ConnInit, ConnInv, EngineTypeOK, ConnTypeOK, Link, Sleeping
<1>2. ConnInv /\ [ConnStep]_<<engineVars, connVars>> => ConnInv'
  <2> SUFFICES ASSUME ConnInv, [ConnStep]_<<engineVars, connVars>>
               PROVE  ConnInv'
    OBVIOUS
  <2>1. CASE UNCHANGED <<engineVars, connVars>>
    BY <2>1 DEF engineVars, connVars, ConnInv, EngineTypeOK, ConnTypeOK
  <2>2. CASE EndpointStep
    BY <2>2, EndpointsKeep DEF EndpointStep
  <2>3. CASE HeartbeatStep
    BY <2>3, HeartbeatKeeps
  <2> QED BY <2>1, <2>2, <2>3 DEF ConnStep
<1>3. ConnInv => EngineTypeOK /\ ConnTypeOK
  BY DEF ConnInv
<1> QED BY <1>1, <1>2, <1>3, PTL DEF ConnSpec

-----------------------------------------------------------------------------
(* All of the drivers' part.                                                *)

\* Together the parts behave as each does alone: what is proved of a part holds
\* of the whole.
THEOREM DriverSystemParts ==
    DriverSystemSpec => ConnSpec /\ AvailSpec /\ DocsSpec /\ ApprovalSpec
<1>1. DriverSystemInit => /\ EngineInit /\ ConnInit
                          /\ AvailInit /\ DocsInit /\ ApprovalInit
  BY DEF DriverSystemInit
<1>2. [DriverSystemNext]_driverSystemVars =>
          /\ [ConnStep]_<<engineVars, connVars>> /\ [AvailStep]_availVars
          /\ [DocsStep]_docVars /\ [ApprovalStep]_approvalVars
  BY DEF DriverSystemNext, driverSystemVars, Connecting, Presenting, Documenting,
         Approving
<1> QED BY <1>1, <1>2, PTL
     DEF DriverSystemSpec, ConnSpec, AvailSpec, DocsSpec, ApprovalSpec

\* No row, request or registry entry of the drivers' part gets a value its
\* table cannot hold (models/), for any drivers, sockets, papers and requests.
THEOREM DriverTypes == DriverSystemSpec => []DriversTypeOK
<1>1. AvailInv => AvailTypeOK
  BY DEF AvailInv, AvailTypeOK, StatusCall, FilterCall
<1>2. DocInv => DocsTypeOK
  BY DEF DocInv
<1>3. ApprovalInv => ApprovalTypeOK
  BY CallsAreTyped DEF ApprovalInv, ApprTypes, ApprovalTypeOK
<1>4. (EngineTypeOK /\ ConnTypeOK) /\ AvailTypeOK /\ DocsTypeOK /\ ApprovalTypeOK
          => DriversTypeOK
  BY DEF DriversTypeOK
<1> QED BY <1>1, <1>2, <1>3, <1>4, DriverSystemParts, ConnectionTypes,
           AvailInvariant, DocumentsInvariant, ApprovalInvariant, PTL
=============================================================================
