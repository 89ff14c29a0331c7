------------------------------ MODULE Approval ------------------------------
(***************************************************************************)
(* How a driver comes to be approved and stops being: the profile and its  *)
(* presence (api/v1/drivers.py), document verification (verification.py),  *)
(* background checks (background_checks.py), onboarding                    *)
(* (driver_onboarding.py) and what an admin does directly (admin.py).      *)
(*                                                                         *)
(* Five workflows write is_approved, each without asking the others.  Every*)
(* request loads rows and commits later the columns it changed.            *)
(***************************************************************************)
EXTENDS Availability, Documents

CONSTANTS
    Required,      \* REQUIRED_DOCUMENTS
    VDocs,         \* the numbers of verification documents, in order
    Checks         \* the numbers of background checks

ASSUME ApprovalAssumption ==
    /\ Required # {}
    /\ VDocs \subseteq Nat /\ Checks \subseteq Nat

VARIABLES
    driver,        \* driver[d]: the columns about d's approval, of all tables
    vdoc,          \* vdoc[v]: the verification document
    check,         \* check[b]: the background check
    apprCall,      \* apprCall[c]: a request in progress
    apprOverlap    \* history: the drivers about whom requests overlapped

approvalVars == <<driver, vdoc, check, apprCall, apprOverlap>>

\* driver_profiles, users.is_active and driver_onboarding.status.
DriverRow == [exists : BOOLEAN, approved : BOOLEAN, online : BOOLEAN,
              checked : {"pending", "approved", "clear", "consider", "suspended"},
              active : BOOLEAN, insured : BOOLEAN,
              onboarding : {"none", "incomplete", "approved", "suspended"}]
NoProfile == [exists |-> FALSE, approved |-> FALSE, online |-> FALSE,
              checked |-> "pending", active |-> TRUE, insured |-> FALSE,
              onboarding |-> "none"]

VStatus == {"pending", "under_review", "approved", "rejected", "expired"}
VDoc    == [driver : Profiles, type : Required, status : VStatus]

CheckStatus == {"pending", "clear", "consider", "suspended", "dispute",
                "cancelled"}
Check       == [driver : Profiles, status : CheckStatus]

Nothing == [none |-> TRUE]
ApprIdle == [op |-> "idle"]

ApprovalTypeOK ==
    /\ driver \in [Profiles -> DriverRow]
    /\ vdoc \in [VDocs -> VDoc \union {Nothing}]
    /\ check \in [Checks -> Check \union {Nothing}]
    /\ \A c \in Requests : apprCall[c] = ApprIdle
                           \/ apprCall[c].new \in DriverRow
    /\ apprOverlap \subseteq Profiles

ApprovalInit ==
    /\ driver = [d \in Profiles |-> NoProfile]
    /\ vdoc = [v \in VDocs |-> Nothing]
    /\ check = [b \in Checks |-> Nothing]
    /\ apprCall = [c \in Requests |-> ApprIdle]
    /\ apprOverlap = {}

-----------------------------------------------------------------------------
(* A request: what it will write about the driver, and into which document  *)
(* or background check.                                                     *)

InProgress(d) == {c \in Requests : apprCall[c] # ApprIdle
                                   /\ apprCall[c].driver = d}

Begin(c, op, d, new, about, becomes) ==
    /\ apprCall[c] = ApprIdle /\ driver[d].exists
    /\ apprCall' = [apprCall EXCEPT ![c] =
           [op |-> op, driver |-> d, copy |-> driver[d], new |-> new,
            about |-> about, becomes |-> becomes]]
    /\ apprOverlap' = IF InProgress(d) = {} THEN apprOverlap
                      ELSE apprOverlap \union {d}
    /\ UNCHANGED <<driver, vdoc, check>>

Column(c, op, d, new) == Begin(c, op, d, new, 0, "nothing")

End(c) == apprCall' = [apprCall EXCEPT ![c] = ApprIdle]
          /\ UNCHANGED apprOverlap

Merged(c) == LET q == apprCall[c] IN Merge(driver[q.driver], q.copy, q.new)

\* driver_onboarding has one row for each profile: a second insert fails.
Inserts(c) == apprCall[c].copy.onboarding = "none"
              /\ apprCall[c].new.onboarding # "none"
Conflict(c) == Inserts(c) /\ driver[apprCall[c].driver].onboarding # "none"

-----------------------------------------------------------------------------
(* api/v1/drivers.py, for a user who is active.  What going online and      *)
(* offline does in Redis is UpdateDriverLocation and RemoveDriver of        *)
(* MatchingEngine.                                                          *)

\* insurance_policy may be given with the profile and at no other time.
CreateProfile(d) ==
    /\ driver[d] = NoProfile
    /\ \E insured \in BOOLEAN :
           driver' = [driver EXCEPT ![d] = [@ EXCEPT !.exists = TRUE,
                                                     !.insured = insured]]
    /\ UNCHANGED <<vdoc, check, apprCall, apprOverlap>>

\* Mutant: the approval is not asked for.
MayGoOnlineAlways(d) == driver[d].active

MayGoOnline(d) == driver[d].active /\ driver[d].approved

GoOnline(c, d) ==
    MayGoOnline(d)
    /\ Column(c, "online", d, [driver[d] EXCEPT !.online = TRUE])

GoOffline(c, d) ==
    driver[d].active
    /\ Column(c, "offline", d, [driver[d] EXCEPT !.online = FALSE])

-----------------------------------------------------------------------------
(* services/verification.py.                                                *)

Transitions == [s \in VStatus |->
    CASE s = "pending"      -> {"under_review", "rejected"}
      [] s = "under_review" -> {"approved", "rejected"}
      [] s = "rejected"     -> {"pending"}
      [] s = "approved"     -> {"expired"}
      [] s = "expired"      -> {"pending"}]

Of_(d, t, docs) == {v \in VDocs : docs[v] # Nothing /\ docs[v].driver = d
                                  /\ docs[v].type = t}

\* get_verification_status: the last document of each type counts.
AllRequired(d, docs) ==
    \A t \in Required :
        \E v \in Of_(d, t, docs) :
            /\ \A w \in Of_(d, t, docs) : w <= v
            /\ docs[v].status = "approved"

\* An active document of the type refuses another.
SubmitDocument(c, d, t) ==
    /\ driver[d].active
    /\ \A v \in Of_(d, t, vdoc) : vdoc[v].status \in {"rejected", "expired"}
    /\ \E v \in VDocs : vdoc[v] = Nothing
    /\ Begin(c, "submit", d, driver[d], 0, t)

\* _check_auto_approve.
AutoApproved(row) ==
    IF row.approved THEN row
    ELSE [row EXCEPT !.approved = TRUE, !.checked = "approved"]

\* Mutant: any approval approves the driver.
ReviewedAny(d, v, verdict) ==
    IF verdict = "approved" THEN AutoApproved(driver[d]) ELSE driver[d]

\* Mutant: the documents are counted before the verdict is in.
ReviewedBefore(d, v, verdict) ==
    IF verdict = "approved" /\ AllRequired(d, vdoc)
    THEN AutoApproved(driver[d]) ELSE driver[d]

Reviewed(d, v, verdict) ==
    IF verdict = "approved"
       /\ AllRequired(d, [vdoc EXCEPT ![v].status = verdict])
    THEN AutoApproved(driver[d])
    ELSE driver[d]

\* review_document, by two endpoints of admin.py.
ReviewDocument(c, v, verdict) ==
    /\ vdoc[v] # Nothing /\ verdict \in Transitions[vdoc[v].status]
    /\ LET d == vdoc[v].driver
       IN  Begin(c, "review", d, Reviewed(d, v, verdict), v, verdict)

-----------------------------------------------------------------------------
(* services/background_checks.py.  Nothing here commits.                    *)

\* order_background_check: an existing check refuses another, unless it was
\* cancelled; the provider is called before the row is made.
OrderCheck(c, d) ==
    /\ driver[d].active
    /\ \A b \in Checks : (check[b] # Nothing /\ check[b].driver = d)
                             => check[b].status = "cancelled"
    /\ \E b \in Checks : check[b] = Nothing
    /\ Begin(c, "order", d, driver[d], 0, "pending")

\* _handle_check_completed and _attempt_auto_approve.
CheckCompleted(d, result) ==
    CASE result = "clear" ->
             [driver[d] EXCEPT !.checked = "clear",
                               !.approved = @ \/ AllRequired(d, vdoc)]
      [] result \in {"consider", "suspended"} ->
             [driver[d] EXCEPT !.checked = result]
      [] OTHER -> driver[d]

\* handle_webhook: events come in any order, and repeatedly.
CheckWebhook(c, b, result) ==
    /\ check[b] # Nothing
    /\ LET d == check[b].driver
       IN  Begin(c, "check", d, CheckCompleted(d, result), b, result)

AdminOverride(c, b, result) ==
    /\ result \in {"clear", "consider", "cancelled"}
    /\ CheckWebhook(c, b, result)

-----------------------------------------------------------------------------
(* services/driver_onboarding.py.                                           *)

\* get_onboarding_checklist over the documents' tables; only a periodic
\* inspection counts.
PapersMet(d) ==
    /\ CurrentLicense(d) # {} /\ CurrentRegistration(d) # {}
    /\ \E p \in CurrentInspection(d) : paper[p].annual
    /\ CurrentInsurance(d) # {}

CheckMet(d) == \E b \in Checks : check[b] # Nothing /\ check[b].driver = d
                                 /\ check[b].status = "clear"

\* get_or_create_onboarding.
Onboarding(row) == IF row.onboarding = "none"
                   THEN [row EXCEPT !.onboarding = "incomplete"] ELSE row

\* The checklist endpoints make the row, and do not commit it.
ViewChecklist(c, d) == Column(c, "view", d, Onboarding(driver[d]))

\* _profile_complete_item.
ProfileComplete(d) == driver[d].insured

Activate(c, d) ==
    /\ PapersMet(d) /\ CheckMet(d) /\ ProfileComplete(d)
    /\ driver[d].onboarding # "suspended"
    /\ Column(c, "activate", d,
              [driver[d] EXCEPT !.onboarding = "approved", !.approved = TRUE])

OnboardingSuspend(c, d) ==
    Column(c, "suspend", d, [driver[d] EXCEPT
        !.onboarding = "suspended", !.approved = FALSE, !.online = FALSE])

-----------------------------------------------------------------------------
(* api/v1/admin.py.                                                         *)

AdminApprove(c, d) ==
    Column(c, "approve", d,
           [driver[d] EXCEPT !.approved = TRUE, !.checked = "approved"])

SuspendedRow(row) ==
    [row EXCEPT !.approved = FALSE, !.online = FALSE, !.checked = "suspended",
                !.active = FALSE]

AdminSuspend(c, d) == Column(c, "suspend", d, SuspendedRow(driver[d]))

AdminReactivate(c, d) ==
    Column(c, "reactivate", d, [driver[d] EXCEPT
        !.approved = TRUE, !.checked = "approved", !.active = TRUE])

-----------------------------------------------------------------------------
(* The ends of requests.                                                    *)

Durable == {"online", "offline", "review", "activate", "suspend", "approve",
            "reactivate"}

CommitColumns(c) ==
    LET q == apprCall[c]
    IN  /\ q.op \in Durable \union {"view"} /\ ~Conflict(c)
        /\ driver' = [driver EXCEPT ![q.driver] =
               IF q.op \in Durable THEN Merged(c) ELSE Flushed(@, Merged(c))]
        /\ vdoc' = IF q.op = "review"
                   THEN [vdoc EXCEPT ![q.about].status = q.becomes] ELSE vdoc
        /\ End(c)
        /\ UNCHANGED check

\* The rows are numbered as they are inserted.
Unused(rows)      == {n \in DOMAIN rows : rows[n] = Nothing}
FirstUnused(rows) == {n \in Unused(rows) : \A m \in Unused(rows) : n <= m}

\* No constraint keeps two active documents of a type, or checks, apart.
InsertDocument(c) ==
    LET q == apprCall[c]
    IN  /\ q.op = "submit"
        /\ \E v \in FirstUnused(vdoc) :
               vdoc' = [vdoc EXCEPT ![v] =
                   [driver |-> q.driver, type |-> q.becomes, status |-> "pending"]]
        /\ End(c)
        /\ UNCHANGED <<driver, check>>

InsertCheck(c) ==
    LET q == apprCall[c]
    IN  /\ q.op = "order"
        /\ \E b \in FirstUnused(check) :
               check' = Flushed(check, [check EXCEPT ![b] =
                   [driver |-> q.driver, status |-> "pending"]])
        /\ End(c)
        /\ UNCHANGED <<driver, vdoc>>

WriteCheck(c) ==
    LET q == apprCall[c]
    IN  /\ q.op = "check"
        /\ check' = Flushed(check, [check EXCEPT ![q.about].status = q.becomes])
        /\ driver' = [driver EXCEPT ![q.driver] = Flushed(@, Merged(c))]
        /\ End(c)
        /\ UNCHANGED vdoc

\* A conflicting insert, an error of the provider, a stop of the process.
ApprRequestLost(c) ==
    /\ apprCall[c] # ApprIdle
    /\ End(c)
    /\ UNCHANGED <<driver, vdoc, check>>

DriverRequest(c, d) ==
    \/ GoOnline(c, d) \/ GoOffline(c, d) \/ ViewChecklist(c, d)
    \/ OrderCheck(c, d) \/ \E t \in Required : SubmitDocument(c, d, t)

AdminRequest(c, d) ==
    AdminApprove(c, d) \/ AdminSuspend(c, d) \/ AdminReactivate(c, d)

OnboardingRequest(c, d) == Activate(c, d) \/ OnboardingSuspend(c, d)

WebhookRequest(c) ==
    \E b \in Checks, result \in CheckStatus : CheckWebhook(c, b, result)

OverrideRequest(c) ==
    \E b \in Checks, result \in CheckStatus : AdminOverride(c, b, result)

ApprovalStep ==
    \/ \E d \in Profiles : CreateProfile(d)
    \/ \E c \in Requests :
           \/ \E d \in Profiles : \/ DriverRequest(c, d) \/ AdminRequest(c, d)
                                  \/ OnboardingRequest(c, d)
           \/ \E v \in VDocs, verdict \in VStatus : ReviewDocument(c, v, verdict)
           \/ WebhookRequest(c) \/ OverrideRequest(c)
           \/ CommitColumns(c) \/ InsertDocument(c) \/ InsertCheck(c)
           \/ WriteCheck(c) \/ ApprRequestLost(c)

\* Of the papers the checklist reads, any behaviour will do.
ApprovalSpec == ApprovalInit /\ [][ApprovalStep]_approvalVars

-----------------------------------------------------------------------------
OnlineUnapproved(row) == row.online /\ ~row.approved

\* Only an approved driver is online: five ways to be approved or suspended
\* and any order of them do not break it, but a request that decided on a
\* copy which is out of date (go_online during a suspension).
OnlineNeedsApproval ==
    [][\A d \in Profiles :
           (OnlineUnapproved(driver'[d]) /\ ~OnlineUnapproved(driver[d])) =>
               \E c \in InProgress(d) : apprCall[c].copy # driver[d]]_approvalVars

\* Nobody drives on unreviewed documents: without an overlap, a driver comes
\* to be approved by an admin's word or when all required documents are
\* approved, whatever was rejected, expired and submitted again before
\* (review_document, handle_webhook, admin_override_check).
ApprovalIsEarned ==
    [][\A d \in Profiles :
           (~driver[d].approved /\ driver'[d].approved /\ d \notin apprOverlap)
               => \/ AllRequired(d, vdoc')
                  \/ \E c \in InProgress(d) :
                         apprCall[c].op \in {"approve", "reactivate", "activate"}
      ]_approvalVars

InGoodStanding(d) ==
    /\ InProgress(d) = {}
    /\ driver[d].active /\ driver[d].onboarding # "suspended"

\* And the converse: nobody who is in good standing, with a clear check and
\* all documents approved, waits for an approval, whichever of the two came
\* last and however the check was overridden or repeated (_check_auto_approve,
\* _attempt_auto_approve).
EarnedIsApproved ==
    \A d \in Profiles :
        (/\ AllRequired(d, vdoc) /\ CheckMet(d)
         /\ InGoodStanding(d) /\ d \notin apprOverlap)
            => driver[d].approved

-----------------------------------------------------------------------------
\* driver_onboarding.py: "Driver is suspended. Use the unsuspend workflow
\* before reactivation."
SuspendedStaysOut ==
    \A d \in Profiles :
        driver[d].onboarding = "suspended" => ~driver[d].approved

\* background_checks.py: "Auto-approve driver if background check is clear AND
\* all docs verified."  What no admin decides needs a clear check, in whichever
\* workflow; so a flagged driver "needs review before you can drive".
AutoApprovedIsClear ==
    [][\A d \in Profiles :
           (~driver[d].approved /\ driver'[d].approved /\ d \notin apprOverlap)
               => \/ CheckMet(d)'
                  \/ \E c \in InProgress(d) :
                         apprCall[c].op \in {"approve", "reactivate", "activate"}
      ]_approvalVars
=============================================================================
