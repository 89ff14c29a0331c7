----------------------------- MODULE Documents -----------------------------
(***************************************************************************)
(* The records a driver submits and an admin reviews: licences and vehicle *)
(* registrations (services/driver_documents.py), insurance                 *)
(* (driver_insurance.py) and inspections (vehicle_inspection.py).          *)
(*                                                                         *)
(* Four services with one workflow.  A request loads the record, a review  *)
(* also the records it will expire, and commits later what it changed.     *)
(***************************************************************************)
EXTENDS Sessions, Naturals

CONSTANTS
    Papers,        \* the ids of records: <<kind, holder, number>>
    MaxDay         \* the last day there is

Kinds == {"license", "registration", "insurance", "inspection"}

ASSUME PapersAssumption ==
    /\ MaxDay \in Nat \ {0}
    /\ Papers # {} /\ \A p \in Papers : p[1] \in Kinds

VARIABLES
    today,         \* date.today()
    paper,         \* paper[p]: the record
    docCall,       \* docCall[c]: a request that loaded a record
    overlapped     \* history: the records' owners with overlapping requests

docVars == <<today, paper, docCall, overlapped>>

Days   == 1..MaxDay
NoDate == 0
Owner(p)   == <<p[1], p[2]>>
Rivals(p)  == {q \in Papers : Owner(q) = Owner(p) /\ q # p}

PaperStatus == {"none", "pending_upload", "pending_review", "approved",
                "rejected", "expired"}
Paper   == [status : PaperStatus, file : BOOLEAN, expires : Days \union {NoDate},
            annual : BOOLEAN]
NoPaper == [status |-> "none", file |-> FALSE, expires |-> NoDate,
            annual |-> FALSE]

DocRequest == [busy : BOOLEAN, about : Papers, copy : Paper, new : Paper,
               expiring : SUBSET Papers]
NoDocRequest == [busy |-> FALSE, about |-> CHOOSE p \in Papers : TRUE,
                 copy |-> NoPaper, new |-> NoPaper, expiring |-> {}]

DocsTypeOK ==
    /\ today \in Days
    /\ paper \in [Papers -> Paper]
    /\ docCall \in [Requests -> DocRequest]
    /\ overlapped \subseteq {Owner(p) : p \in Papers}

DocsInit ==
    /\ today = 1
    /\ paper = [p \in Papers |-> NoPaper]
    /\ docCall = [c \in Requests |-> NoDocRequest]
    /\ overlapped = {}

-----------------------------------------------------------------------------
(* What the four services share.                                            *)

Submit(p, status, file, expires, annual) ==
    /\ paper[p] = NoPaper
    /\ paper' = [paper EXCEPT ![p] =
           [status |-> status, file |-> file, expires |-> expires,
            annual |-> annual]]
    /\ UNCHANGED <<today, docCall, overlapped>>

BusyWith(owner) == {c \in Requests : docCall[c].busy
                                     /\ Owner(docCall[c].about) = owner}

Load(c, p, new, expiring) ==
    /\ ~docCall[c].busy
    /\ paper[p] # NoPaper
    /\ docCall' = [docCall EXCEPT ![c] =
           [busy |-> TRUE, about |-> p, copy |-> paper[p], new |-> new,
            expiring |-> expiring]]
    /\ overlapped' = IF BusyWith(Owner(p)) = {} THEN overlapped
                     ELSE overlapped \union {Owner(p)}
    /\ UNCHANGED <<today, paper>>

\* Mutant: a record in any status is edited.
EditAny(c, p, file, expires) ==
    Load(c, p, [paper[p] EXCEPT !.file = file, !.expires = expires], {})

\* _EDITABLE_STATUSES, and the promotion once a file is attached.
Edit(c, p, file, expires) ==
    /\ paper[p].status \in {"pending_upload", "pending_review"}
    /\ Load(c, p,
            [paper[p] EXCEPT !.file = file, !.expires = expires,
                 !.status = IF file /\ @ = "pending_upload"
                            THEN "pending_review" ELSE @],
            {})

\* Mutant: an approval leaves the earlier approved record alone.
ExpiredByNone(p, verdict) == {}

\* "On approval any previously approved license ... is expired."
ExpiredBy(p, verdict) ==
    IF verdict = "approved"
    THEN {q \in Rivals(p) : paper[q].status = "approved"} ELSE {}

\* A review takes a record in any status.
Review(c, p, verdict) ==
    Load(c, p, [paper[p] EXCEPT !.status = verdict], ExpiredBy(p, verdict))

Commit(c) ==
    LET q == docCall[c]
    IN  /\ q.busy
        /\ paper' = [p \in Papers |->
               IF p = q.about THEN Merge(paper[p], q.copy, q.new)
               ELSE IF p \in q.expiring
                    THEN [paper[p] EXCEPT !.status = "expired"]
                    ELSE paper[p]]
        /\ docCall' = [docCall EXCEPT ![c] = NoDocRequest]
        /\ UNCHANGED <<today, overlapped>>

\* The process stops, or the commit fails: nothing is written.
DocRequestLost(c) ==
    /\ docCall[c].busy
    /\ docCall' = [docCall EXCEPT ![c] = NoDocRequest]
    /\ UNCHANGED <<today, paper, overlapped>>

\* Requests are shorter than days.
NextDay ==
    /\ today < MaxDay
    /\ \A c \in Requests : ~docCall[c].busy
    /\ today' = today + 1
    /\ UNCHANGED <<paper, docCall, overlapped>>

\* Mutant: the first status is one of driver_documents, another table.
StartedElsewhere(file) == IF file THEN "under_review" ELSE "pending_upload"

Started(file) == IF file THEN "pending_review" ELSE "pending_upload"

Current(kind, h) ==
    {p \in Papers : Owner(p) = <<kind, h>> /\ paper[p].status = "approved"
                    /\ paper[p].expires >= today}

-----------------------------------------------------------------------------
(* services/driver_documents.py: licences ...                               *)

LicenseDates == {date \in Days : date > today}

CreateLicense(p, file, expires) ==
    /\ p[1] = "license" /\ expires \in LicenseDates
    /\ Submit(p, Started(file), file, expires, FALSE)
UpdateLicense(c, p, file, expires) ==
    p[1] = "license" /\ Edit(c, p, file, expires)
ReviewLicense(c, p, verdict) == p[1] = "license" /\ Review(c, p, verdict)
CurrentLicense(h) == Current("license", h)

(* ... and registrations.                                                   *)

RegistrationDates == {date \in Days : date > today}

CreateRegistration(p, file, expires) ==
    /\ p[1] = "registration" /\ expires \in RegistrationDates
    /\ Submit(p, Started(file), file, expires, FALSE)
UpdateRegistration(c, p, file, expires) ==
    p[1] = "registration" /\ Edit(c, p, file, expires)
ReviewRegistration(c, p, verdict) ==
    p[1] = "registration" /\ Review(c, p, verdict)
CurrentRegistration(h) == Current("registration", h)

(* services/driver_insurance.py.                                            *)

InsuranceDates == {date \in Days : date > today}

CreateInsurance(p, file, expires) ==
    /\ p[1] = "insurance" /\ expires \in InsuranceDates
    /\ Submit(p, Started(file), file, expires, FALSE)
UpdateInsurance(c, p, file, expires) ==
    p[1] = "insurance" /\ Edit(c, p, file, expires)
ReviewInsurance(c, p, verdict) == p[1] = "insurance" /\ Review(c, p, verdict)
CurrentInsurance(h) == Current("insurance", h)

(* services/vehicle_inspection.py: a review is due at once, annual (and     *)
(* semi-annual) inspections always expire, others need not, and the expiry  *)
(* is not edited.  A date that is missing is never >= today in SQL.         *)

InspectionDates(annual) == IF annual THEN Days ELSE Days \union {NoDate}

CreateInspection(p, file, expires, annual) ==
    /\ p[1] = "inspection" /\ expires \in InspectionDates(annual)
    /\ Submit(p, "pending_review", file, expires, annual)
UpdateInspection(c, p, file) ==
    p[1] = "inspection" /\ Edit(c, p, file, paper[p].expires)
ReviewInspection(c, p, verdict) == p[1] = "inspection" /\ Review(c, p, verdict)
CurrentInspection(h) == Current("inspection", h)

-----------------------------------------------------------------------------
(* The endpoints.                                                           *)

Verdicts == {"approved", "rejected"}

LicenseEndpoints(c) ==
    \E p \in Papers, file \in BOOLEAN, expires \in Days :
        \/ CreateLicense(p, file, expires)
        \/ UpdateLicense(c, p, file, expires)

LicenseReviews(c) ==
    \E p \in Papers, verdict \in Verdicts : ReviewLicense(c, p, verdict)

RegistrationEndpoints(c) ==
    \E p \in Papers, file \in BOOLEAN, expires \in Days :
        \/ CreateRegistration(p, file, expires)
        \/ UpdateRegistration(c, p, file, expires)

RegistrationReviews(c) ==
    \E p \in Papers, verdict \in Verdicts : ReviewRegistration(c, p, verdict)

InsuranceEndpoints(c) ==
    \E p \in Papers, file \in BOOLEAN, expires \in Days :
        \/ CreateInsurance(p, file, expires)
        \/ UpdateInsurance(c, p, file, expires)

InsuranceReviews(c) ==
    \E p \in Papers, verdict \in Verdicts : ReviewInsurance(c, p, verdict)

InspectionEndpoints(c) ==
    \E p \in Papers :
        \/ \E file, annual \in BOOLEAN, expires \in Days \union {NoDate} :
               CreateInspection(p, file, expires, annual)
        \/ \E file \in BOOLEAN : UpdateInspection(c, p, file)

InspectionReviews(c) ==
    \E p \in Papers, verdict \in Verdicts : ReviewInspection(c, p, verdict)

DocsStep ==
    \/ \E c \in Requests :
           \/ LicenseEndpoints(c) \/ RegistrationEndpoints(c)
           \/ InsuranceEndpoints(c) \/ InspectionEndpoints(c)
           \/ LicenseReviews(c) \/ RegistrationReviews(c)
           \/ InsuranceReviews(c) \/ InspectionReviews(c)
           \/ Commit(c) \/ DocRequestLost(c)
    \/ NextDay

DocsSpec == DocsInit /\ [][DocsStep]_docVars

-----------------------------------------------------------------------------
\* "On approval any previously approved license for the same driver is expired
\* so only one approved record is active at a time": true of each kind as long
\* as no two requests about the owner's records overlapped, through any order
\* of submissions, edits, approvals and renewed reviews (admin_review_*).
OneApproved ==
    \A p, q \in Papers :
        (/\ Owner(p) = Owner(q) /\ Owner(p) \notin overlapped
         /\ paper[p].status = "approved" /\ paper[q].status = "approved")
            => p = q

\* What was approved does not change afterwards, but by an edit that had
\* loaded the record before (update_*).
ApprovedIsFrozen ==
    [][\A p \in Papers :
           (paper[p].status = "approved" /\ paper'[p].status = "approved") =>
               \/ paper'[p] = paper[p]
               \/ Owner(p) \in overlapped]_docVars
=============================================================================
