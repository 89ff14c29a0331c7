-------------------------------- MODULE Cases --------------------------------
(***************************************************************************)
(* What people report after a ride and an admin closes: disputes           *)
(* (services/disputes.py), complaints (services/complaints.py), lost and   *)
(* found items (services/lost_found.py) and SOS alerts                     *)
(* (services/safety.py), with their endpoints.                             *)
(*                                                                         *)
(* A request loads the rows it is about, decides on the copies, and commits*)
(* the columns it changed.                                                 *)
(***************************************************************************)
EXTENDS Sessions, Naturals

CONSTANTS
    CaseIds,       \* ids of the rows of each kind
    CaseRides,     \* rides that are over: <<rider, driver>>
    Admins         \* the admins

Kind == {"dispute", "complaint", "item", "alert"}
Case == Kind \X CaseIds
People == UNION {{r[1], r[2]} : r \in CaseRides}
None == 0

ASSUME CasesAssumption ==
    /\ CaseIds \subseteq Nat \ {None}
    /\ None \notin People \union Admins

VARIABLES
    case,          \* case[k]: the row
    caseCall,      \* caseCall[c]: a request in progress
    tangled        \* history: cases that overlapping requests were about

caseVars == <<case, caseCall, tangled>>

\* The statuses that end a case.
Final == {"resolved", "dismissed", "returned", "donated", "discarded",
          "false_alarm"}
CaseStatus == {"none", "open", "under_review", "matched"} \union Final

\* notes: whether an admin's notes (for a dispute: a refund) are recorded.
CaseRow == [status : CaseStatus, filer : People \union {None},
            ride : SUBSET CaseRides, closer : People \union Admins \union {None},
            notes : BOOLEAN, partner : CaseIds \union {None}]
NoCase  == [status |-> "none", filer |-> None, ride |-> {}, closer |-> None,
            notes |-> FALSE, partner |-> None]

CaseIdle == [op |-> "idle", copies |-> <<>>, new |-> <<>>]

CasesTypeOK ==
    /\ case \in [Case -> CaseRow]
    /\ \A c \in Requests : DOMAIN caseCall[c].new \subseteq Case
    /\ tangled \subseteq Case

CasesInit ==
    /\ case = [k \in Case |-> NoCase]
    /\ caseCall = [c \in Requests |-> CaseIdle]
    /\ tangled = {}

About(c) == DOMAIN caseCall[c].new

\* Two reports that the one check for an earlier one would tell apart.
Alike(a, b) == a.filer = b.filer /\ a.ride = b.ride

\* A request has read the cases that new is about, and computed their rows.
BeginCase(c, op, new) ==
    LET met == {x \in Requests : \/ About(x) \intersect DOMAIN new # {}
                                 \/ /\ caseCall[x].op = "dispute"
                                    /\ op = "dispute"
                                    /\ \E j \in About(x), k \in DOMAIN new :
                                           Alike(caseCall[x].new[j], new[k])}
    IN  /\ caseCall[c] = CaseIdle
        /\ caseCall' = [caseCall EXCEPT ![c] =
               [op |-> op, copies |-> [k \in DOMAIN new |-> case[k]], new |-> new]]
        /\ tangled' = IF met = {} THEN tangled
                      ELSE tangled \union DOMAIN new \union UNION {About(x) : x \in met}
        /\ UNCHANGED case

Free(k) == case[k] = NoCase /\ \A c \in Requests : k \notin About(c)

\* A new row for a case nobody reports at the moment.
BeginReport(c, k, u, r) ==
    /\ Free(k)
    /\ u \in {r[1], r[2]}
    /\ BeginCase(c, k[1], [x \in {k} |->
           [NoCase EXCEPT !.status = "open", !.filer = u, !.ride = {r}]])

CommitCase(c) ==
    /\ caseCall[c] # CaseIdle
    /\ case' = [k \in Case |->
           IF k \in About(c)
           THEN Merge(case[k], caseCall[c].copies[k], caseCall[c].new[k])
           ELSE case[k]]
    /\ caseCall' = [caseCall EXCEPT ![c] = CaseIdle]
    /\ UNCHANGED tangled

CaseCallLost(c) ==
    /\ caseCall[c] # CaseIdle
    /\ caseCall' = [caseCall EXCEPT ![c] = CaseIdle]
    /\ UNCHANGED <<case, tangled>>

-----------------------------------------------------------------------------
(* services/disputes.py.                                                    *)

\* Mutant: a dispute under review does not count as open.
PendingOpen == {k \in {"dispute"} \X CaseIds : case[k].status = "open"}

Pending == {k \in {"dispute"} \X CaseIds : case[k].status \in {"open", "under_review"}}

FileDispute(c, k, u, r) ==
    /\ k[1] = "dispute"
    /\ ~\E j \in Pending : case[j].filer = u /\ case[j].ride = {r}
    /\ BeginReport(c, k, u, r)

ReviewDispute(c, k) ==
    /\ k[1] = "dispute" /\ case[k].status = "open"
    /\ BeginCase(c, "review", [x \in {k} |->
           [case[k] EXCEPT !.status = "under_review"]])

ResolveDispute(c, k, admin, status, refund) ==
    /\ k \in Pending /\ status \in {"resolved", "dismissed"}
    /\ BeginCase(c, "resolve", [x \in {k} |->
           [case[k] EXCEPT !.status = status, !.closer = admin, !.notes = refund]])

-----------------------------------------------------------------------------
(* services/complaints.py: a complaint may be about no ride.                *)

FileComplaint(c, k, u, r) == k[1] = "complaint" /\ BeginReport(c, k, u, r)

\* Notes are written if the request has some; the closer with a final status.
UpdateComplaint(c, k, admin, status, notes) ==
    /\ k[1] = "complaint" /\ case[k].status \notin Final \union {"none"}
    /\ status \in {"under_review", "resolved", "dismissed"}
    /\ BeginCase(c, "update", [x \in {k} |->
           [case[k] EXCEPT !.status = status, !.notes = @ \/ notes,
                !.closer = IF status \in Final THEN admin ELSE @]])

\* get_complaints_against_me hides the notes of open complaints from the reader
\* by clearing them in the rows it loaded: flushed with the session, they are
\* gone.
ViewComplaints(u) ==
    /\ u \in People
    /\ case' = [k \in Case |->
           IF k[1] = "complaint" /\ case[k].filer # u
              /\ case[k].status \notin Final \union {"none"}
           THEN Flushed(case[k], [case[k] EXCEPT !.notes = FALSE])
           ELSE case[k]]
    /\ UNCHANGED <<caseCall, tangled>>

-----------------------------------------------------------------------------
(* services/lost_found.py.                                                  *)

ReportItem(c, k, u, r) == k[1] = "item" /\ BeginReport(c, k, u, r)

\* Mutant: only the first of two reports must be open.
MayMatchFirst(j, k) == case[j].status \notin Final

MayMatch(j, k) == case[j].status \notin Final /\ case[k].status \notin Final

\* match_reports: whichever partners they had before keep them.
MatchReports(c, j, k, admin) ==
    /\ j # k /\ j[1] = "item" /\ k[1] = "item"
    /\ case[j] # NoCase /\ case[k] # NoCase /\ MayMatch(j, k)
    /\ BeginCase(c, "match", [x \in {j, k} |->
           [case[x] EXCEPT !.status = "matched", !.closer = admin,
                           !.partner = IF x = j THEN k[2] ELSE j[2]]])

ResolveReport(c, k, admin, status, notes) ==
    /\ k[1] = "item" /\ case[k].status \in {"open", "matched"}
    /\ status \in {"returned", "donated", "discarded"}
    /\ status = "returned" => case[k].status # "open"
    /\ BeginCase(c, "resolve", [x \in {k} |->
           [case[k] EXCEPT !.status = status, !.closer = admin, !.notes = notes]])

-----------------------------------------------------------------------------
(* services/safety.py, and the admin's side of it in api/v1/admin.py.       *)

TriggerSos(c, k, u, r) == k[1] = "alert" /\ BeginReport(c, k, u, r)

ResolveSos(c, k, u, status) ==
    /\ k[1] = "alert" /\ case[k].status = "open" /\ case[k].filer = u
    /\ status \in {"resolved", "false_alarm"}
    /\ BeginCase(c, "resolve", [x \in {k} |-> [case[k] EXCEPT !.status = status]])

AdminResolveSos(c, k, admin, status, notes) ==
    /\ k[1] = "alert" /\ case[k].status = "open"
    /\ status \in {"resolved", "false_alarm"}
    /\ BeginCase(c, "resolve", [x \in {k} |->
           [case[k] EXCEPT !.status = status, !.closer = admin, !.notes = notes]])

-----------------------------------------------------------------------------
UserRequest(c, k) ==
    \E u \in People :
        \/ \E r \in CaseRides :
               \/ FileDispute(c, k, u, r) \/ FileComplaint(c, k, u, r)
               \/ ReportItem(c, k, u, r) \/ TriggerSos(c, k, u, r)
        \/ \E status \in Final : ResolveSos(c, k, u, status)

CaseAdminRequest(c, k) ==
    \E admin \in Admins :
        \/ \E status \in CaseStatus, notes \in BOOLEAN :
               \/ ResolveDispute(c, k, admin, status, notes)
               \/ UpdateComplaint(c, k, admin, status, notes)
               \/ ResolveReport(c, k, admin, status, notes)
               \/ AdminResolveSos(c, k, admin, status, notes)
        \/ \E j \in Case : MatchReports(c, j, k, admin)

CasesStep ==
    \/ \E c \in Requests :
           \/ \E k \in Case : \/ UserRequest(c, k) \/ CaseAdminRequest(c, k)
                              \/ ReviewDispute(c, k)
           \/ CommitCase(c) \/ CaseCallLost(c)
    \/ \E u \in People : ViewComplaints(u)

CasesSpec == CasesInit /\ [][CasesStep]_caseVars

-----------------------------------------------------------------------------
\* "No further updates allowed": once a dispute, complaint, report or alert is
\* closed, its outcome, who closed it, its notes and its partner stay, whatever
\* is filed, matched or resolved later, unless two requests about it overlapped.
ClosedIsClosed ==
    [][\A k \in Case : (case[k].status \in Final /\ k \notin tangled')
                           => case'[k] = case[k]]_caseVars

\* A user has at most one unresolved dispute of a ride (file_dispute), in any
\* order of filing, review and resolution, unless such requests overlapped.
OneOpenDispute ==
    \A j, k \in ({"dispute"} \X CaseIds) \ tangled :
        (/\ case[j].status \in {"open", "under_review"}
         /\ case[k].status \in {"open", "under_review"}
         /\ Alike(case[j], case[k])) => j = k
=============================================================================
