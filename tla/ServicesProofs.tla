---------------------------- MODULE ServicesProofs ----------------------------
(***************************************************************************)
(* Proofs about the services around the rides, for any number of requests,  *)
(* people, rides and rows.  Each part has an inductive invariant, a lemma   *)
(* for every action that it keeps it, and the theorems that follow.  Most   *)
(* of the invariants say what a request in progress still knows of the rows *)
(* it has loaded, as long as no other request is about them.                *)
(***************************************************************************)
EXTENDS ServiceSystem, Sums, FiniteSetTheorems, TLAPS

-----------------------------------------------------------------------------
(* Cases: what is closed stays as it is, and a rider has one open dispute   *)
(* of a ride, unless requests about the very cases overlapped.              *)

Dispute == {"dispute"} \X CaseIds
Unresolved(row) == row.status \in {"open", "under_review"}

\* A request's rows are rows, and those it has loaded were not closed.
CallOK(c) ==
    LET q == caseCall[c]
    IN  /\ DOMAIN q.new \subseteq Case /\ DOMAIN q.copies = DOMAIN q.new
        /\ q.op = "dispute" => \A j, k \in DOMAIN q.new : j = k
        /\ \A k \in DOMAIN q.new :
               /\ q.new[k] \in CaseRow /\ q.copies[k] \in CaseRow
               /\ q.copies[k].status \notin Final

\* What a request still knows of a case that no other request is about.
KnowsCase(c) ==
    LET q == caseCall[c]
    IN  \A k \in DOMAIN q.new \ tangled :
            /\ case[k].status = q.copies[k].status
            /\ \A e \in Requests \ {c} : k \notin About(e)

\* What it still knows of a dispute: the row is its copy, and it either files
\* the only unresolved one of its kind or goes on with one.
KnowsDispute(c) ==
    LET q == caseCall[c]
    IN  \A k \in (DOMAIN q.new \intersect Dispute) \ tangled :
            /\ case[k] = q.copies[k]
            /\ Unresolved(q.new[k]) =>
                   \/ /\ q.op = "dispute"
                      /\ \A j \in Dispute \ tangled :
                             ~(Unresolved(case[j]) /\ Alike(case[j], q.new[k]))
                   \/ Unresolved(q.copies[k]) /\ Alike(q.copies[k], q.new[k])

\* Two requests that file the same dispute know of each other.
FilersMeet ==
    \A c, e \in Requests :
        c # e /\ caseCall[c].op = "dispute" /\ caseCall[e].op = "dispute" =>
            \A j \in About(c), k \in About(e) :
                Alike(caseCall[c].new[j], caseCall[e].new[k]) =>
                    j \in tangled /\ k \in tangled

CaseInv ==
    /\ case \in [Case -> CaseRow]
    /\ DOMAIN caseCall = Requests
    /\ tangled \subseteq Case
    /\ \A c \in Requests : CallOK(c) /\ KnowsCase(c) /\ KnowsDispute(c)
    /\ FilersMeet
    /\ OneOpenDispute

-----------------------------------------------------------------------------
(* Rows.                                                                    *)

LEMMA NoCaseIsARow ==
    NoCase \in CaseRow /\ NoCase.status = "none" /\ NoCase.status \notin Final
BY DEF NoCase, CaseRow, CaseStatus, Final

LEMMA IdleIsEmpty ==
    /\ CaseIdle.op = "idle"
    /\ DOMAIN CaseIdle.new = {} /\ DOMAIN CaseIdle.copies = {}
BY DEF CaseIdle

\* A commit writes a row; over an unchanged one, the new one.
LEMMA MergeOfCases ==
    ASSUME NEW row \in CaseRow, NEW copy \in CaseRow, NEW new \in CaseRow
    PROVE  /\ Merge(row, copy, new) \in CaseRow
           /\ copy = row => Merge(row, copy, new) = new
<1> DEFINE after == Merge(row, copy, new)
<1>1. DOMAIN row = {"status", "filer", "ride", "closer", "notes", "partner"}
  BY DEF CaseRow
<1>2. /\ after.status = IF new.status = copy.status THEN row.status ELSE new.status
      /\ after.filer = IF new.filer = copy.filer THEN row.filer ELSE new.filer
      /\ after.ride = IF new.ride = copy.ride THEN row.ride ELSE new.ride
      /\ after.closer = IF new.closer = copy.closer THEN row.closer ELSE new.closer
      /\ after.notes = IF new.notes = copy.notes THEN row.notes ELSE new.notes
      /\ after.partner = IF new.partner = copy.partner THEN row.partner ELSE new.partner
  BY <1>1 DEF Merge
<1>3. after = [status |-> after.status, filer |-> after.filer, ride |-> after.ride,
               closer |-> after.closer, notes |-> after.notes,
               partner |-> after.partner]
  BY <1>1 DEF Merge
<1>4. after \in CaseRow
  BY <1>2, <1>3 DEF CaseRow
<1>5. ASSUME copy = row PROVE after = new
  BY <1>2, <1>3, <1>5 DEF CaseRow
<1> QED BY <1>4, <1>5

-----------------------------------------------------------------------------
(* A request begins.                                                        *)

\* What every endpoint makes of the rows it loaded: none of them is closed, and
\* an unresolved dispute is filed when there is none like it, or goes on.
Proposal(op, new) ==
    /\ DOMAIN new \subseteq Case
    /\ op = "dispute" => \A j, k \in DOMAIN new : j = k
    /\ \A k \in DOMAIN new :
           /\ new[k] \in CaseRow
           /\ case[k].status \notin Final
           /\ k \in Dispute /\ Unresolved(new[k]) =>
                  \/ /\ op = "dispute"
                     /\ \A j \in Dispute :
                            ~(Unresolved(case[j]) /\ Alike(case[j], new[k]))
                  \/ Unresolved(case[k]) /\ Alike(case[k], new[k])

LEMMA BeginKeeps ==
    ASSUME CaseInv, NEW c \in Requests, NEW op, NEW new,
           Proposal(op, new), BeginCase(c, op, new)
    PROVE  CaseInv'
<1> USE DEF CaseInv
<1> DEFINE q == [op |-> op, copies |-> [k \in DOMAIN new |-> case[k]], new |-> new]
           met == {x \in Requests : \/ About(x) \intersect DOMAIN new # {}
                                    \/ /\ caseCall[x].op = "dispute"
                                       /\ op = "dispute"
                                       /\ \E j \in About(x), k \in DOMAIN new :
                                              Alike(caseCall[x].new[j], new[k])}
<1>1. /\ caseCall[c] = CaseIdle
      /\ caseCall' = [caseCall EXCEPT ![c] = q]
      /\ tangled' = IF met = {} THEN tangled
                    ELSE tangled \union DOMAIN new \union UNION {About(x) : x \in met}
      /\ UNCHANGED case
  BY DEF BeginCase
<1>2. /\ q.op = op /\ q.new = new /\ DOMAIN q.copies = DOMAIN new
      /\ \A k \in DOMAIN new : q.copies[k] = case[k]
  OBVIOUS
<1>3. \A x \in met : DOMAIN new \subseteq tangled' /\ About(x) \subseteq tangled'
  BY <1>1
<1>4. tangled \subseteq tangled' /\ tangled' \subseteq Case
  <2>1. \A x \in Requests : About(x) \subseteq Case
    BY DEF CallOK, About
  <2>2. DOMAIN new \subseteq Case
    BY DEF Proposal
  <2> QED BY <1>1, <2>1, <2>2
<1>5. \A e \in Requests : \A k \in DOMAIN new :
          k \in About(e) => k \in tangled'
  BY <1>3
<1>6. ASSUME NEW e \in Requests, caseCall[e].op = "dispute", op = "dispute",
             NEW j \in About(e), NEW k \in DOMAIN new,
             Alike(caseCall[e].new[j], new[k]) \/ Alike(new[k], caseCall[e].new[j])
      PROVE  j \in tangled' /\ k \in tangled'
  <2>1. e \in met
    BY <1>6 DEF Alike
  <2> QED BY <2>1, <1>3
<1> HIDE DEF q, met
<1>7. /\ DOMAIN caseCall' = Requests /\ caseCall'[c] = q
      /\ \A e \in Requests : e # c => caseCall'[e] = caseCall[e]
  BY <1>1
<1>8. CallOK(c)' /\ \A e \in Requests : CallOK(e)'
  <2>1. CallOK(c)'
    BY <1>2, <1>7 DEF CallOK, Proposal
  <2>2. \A e \in Requests : e # c => CallOK(e)'
    BY <1>7 DEF CallOK
  <2> QED BY <2>1, <2>2
<1>9. \A e \in Requests : KnowsCase(e)'
  <2>1. KnowsCase(c)'
    BY <1>1, <1>2, <1>5, <1>7 DEF KnowsCase, About
  <2>2. ASSUME NEW e \in Requests, e # c PROVE KnowsCase(e)'
    BY <1>1, <1>2, <1>4, <1>5, <1>7, <2>2 DEF KnowsCase, About
  <2> QED BY <2>1, <2>2
<1>10. \A e \in Requests : KnowsDispute(e)'
  <2>1. KnowsDispute(c)'
    BY <1>1, <1>2, <1>4, <1>7 DEF KnowsDispute, Proposal
  <2>2. ASSUME NEW e \in Requests, e # c PROVE KnowsDispute(e)'
    BY <1>1, <1>4, <1>7, <2>2 DEF KnowsDispute
  <2> QED BY <2>1, <2>2
<1>11. FilersMeet'
  <2> SUFFICES ASSUME NEW a \in Requests, NEW e \in Requests, a # e,
                      caseCall'[a].op = "dispute", caseCall'[e].op = "dispute",
                      NEW j \in About(a)', NEW k \in About(e)',
                      Alike(caseCall'[a].new[j], caseCall'[e].new[k])
               PROVE  j \in tangled' /\ k \in tangled'
    BY DEF FilersMeet
  <2>1. CASE a = c
    BY <1>2, <1>6, <1>7, <2>1 DEF About
  <2>2. CASE e = c
    BY <1>2, <1>6, <1>7, <2>2 DEF About
  <2>3. CASE a # c /\ e # c
    BY <1>4, <1>7, <2>3 DEF About, FilersMeet
  <2> QED BY <2>1, <2>2, <2>3
<1>12. OneOpenDispute'
  BY <1>1, <1>4 DEF OneOpenDispute
<1> QED BY <1>1, <1>4, <1>7, <1>8, <1>9, <1>10, <1>11, <1>12

-----------------------------------------------------------------------------
(* Every endpoint makes a proposal.                                         *)


\* A proposal about one case.
LEMMA OneRowProposed ==
    ASSUME CaseInv, NEW op, NEW k \in Case, NEW row \in CaseRow,
           case[k].status \notin Final,
           k \in Dispute /\ Unresolved(row) =>
               \/ /\ op = "dispute"
                  /\ \A j \in Dispute :
                         ~(Unresolved(case[j]) /\ Alike(case[j], row))
               \/ Unresolved(case[k]) /\ Alike(case[k], row)
    PROVE  Proposal(op, [x \in {k} |-> row])
BY DEF Proposal

\* Only disputes are filed as disputes, and only by the check for an earlier one.
LEMMA ReportProposes ==
    ASSUME CaseInv, NEW c \in Requests, NEW k \in Case, NEW u \in People,
           NEW r \in CaseRides, BeginReport(c, k, u, r),
           k[1] = "dispute" =>
               ~\E j \in Pending : case[j].filer = u /\ case[j].ride = {r}
    PROVE  CaseInv'
<1> DEFINE row == [NoCase EXCEPT !.status = "open", !.filer = u, !.ride = {r}]
<1>1. row \in CaseRow /\ row.filer = u /\ row.ride = {r}
  BY DEF CaseRow, NoCase, CaseStatus
<1>2. case[k].status \notin Final
  BY NoCaseIsARow DEF BeginReport, Free
<1>3. k \in Dispute => k[1] = "dispute"
  BY DEF Dispute
<1>4. ASSUME NEW j \in Dispute, Unresolved(case[j]) PROVE j \in Pending
  BY <1>4 DEF Dispute, Pending, Unresolved
<1>5. BeginCase(c, k[1], [x \in {k} |-> row])
  BY DEF BeginReport
<1> HIDE DEF row
<1>6. ASSUME k \in Dispute, NEW j \in Dispute,
             Unresolved(case[j]), Alike(case[j], row)
      PROVE  FALSE
  BY <1>1, <1>3, <1>4, <1>6 DEF Alike
<1>7. k \in Dispute /\ Unresolved(row) =>
          /\ k[1] = "dispute"
          /\ \A j \in Dispute : ~(Unresolved(case[j]) /\ Alike(case[j], row))
  BY <1>3, <1>6
<1>8. Proposal(k[1], [x \in {k} |-> row])
  <2> DEFINE op == k[1]
             new == [x \in {k} |-> row]
  <2>1. k \in Dispute /\ Unresolved(row) =>
            /\ op = "dispute"
            /\ \A j \in Dispute : ~(Unresolved(case[j]) /\ Alike(case[j], row))
    BY <1>7
  <2>2. DOMAIN new = {k} /\ new[k] = row
    OBVIOUS
  <2> HIDE DEF op, new
  <2>3. Proposal(op, new)
    BY <1>1, <1>2, <2>1, <2>2 DEF Proposal
  <2> QED BY <2>3, Zenon DEF op, new
<1> QED BY <1>5, <1>8, BeginKeeps

\* A request that changes a case that is not closed, and whose row goes on with
\* what was reported if it stays unresolved.
LEMMA ChangeProposes ==
    ASSUME CaseInv, NEW c \in Requests, NEW op \in {"review", "resolve", "update"},
           NEW k \in Case, NEW row \in CaseRow, case[k].status \notin Final,
           k[1] = "dispute" /\ Unresolved(row) =>
               Unresolved(case[k]) /\ Alike(case[k], row),
           BeginCase(c, op, [x \in {k} |-> row])
    PROVE  CaseInv'
<1>1. k \in Dispute => k[1] = "dispute"
  BY DEF Dispute
<1>2. Proposal(op, [x \in {k} |-> row])
  BY <1>1, OneRowProposed
<1> QED BY <1>2, BeginKeeps

LEMMA UserRequestKeeps ==
    ASSUME CaseInv, NEW c \in Requests, NEW k \in Case, UserRequest(c, k)
    PROVE  CaseInv'
<1>1. PICK u \in People :
          \/ \E r \in CaseRides :
                 \/ FileDispute(c, k, u, r) \/ FileComplaint(c, k, u, r)
                 \/ ReportItem(c, k, u, r) \/ TriggerSos(c, k, u, r)
          \/ \E status \in Final : ResolveSos(c, k, u, status)
  BY DEF UserRequest
<1>2. ASSUME NEW r \in CaseRides,
             \/ FileDispute(c, k, u, r) \/ FileComplaint(c, k, u, r)
             \/ ReportItem(c, k, u, r) \/ TriggerSos(c, k, u, r)
      PROVE  CaseInv'
  BY <1>2, ReportProposes DEF FileDispute, FileComplaint, ReportItem, TriggerSos
<1>3. ASSUME NEW status \in Final, ResolveSos(c, k, u, status) PROVE CaseInv'
  <2> DEFINE row == [case[k] EXCEPT !.status = status]
  <2>1. row \in CaseRow
    BY DEF CaseInv, CaseRow, CaseStatus
  <2>2. k[1] # "dispute" /\ case[k].status \notin Final
    BY <1>3 DEF ResolveSos, Final
  <2>3. BeginCase(c, "resolve", [x \in {k} |-> row])
    BY <1>3 DEF ResolveSos
  <2> QED BY <2>1, <2>2, <2>3, ChangeProposes
<1> QED BY <1>1, <1>2, <1>3

LEMMA ReviewKeeps ==
    ASSUME CaseInv, NEW c \in Requests, NEW k \in Case, ReviewDispute(c, k)
    PROVE  CaseInv'
<1> DEFINE row == [case[k] EXCEPT !.status = "under_review"]
<1>1. case[k] \in CaseRow /\ case[k].status = "open"
  BY DEF CaseInv, ReviewDispute
<1>2. row \in CaseRow /\ row.filer = case[k].filer /\ row.ride = case[k].ride
  BY <1>1 DEF CaseRow, CaseStatus
<1>3. case[k].status \notin Final /\ Unresolved(case[k]) /\ Alike(case[k], row)
  BY <1>1, <1>2 DEF Final, Unresolved, Alike
<1>4. BeginCase(c, "review", [x \in {k} |-> row])
  BY DEF ReviewDispute
<1> QED BY <1>2, <1>3, <1>4, ChangeProposes

\* What an admin writes of one case.
AdminRow(k, admin, status, notes) ==
    [case[k] EXCEPT !.status = status, !.closer = admin, !.notes = notes]

LEMMA AdminRequestKeeps ==
    ASSUME CaseInv, NEW c \in Requests, NEW k \in Case, CaseAdminRequest(c, k)
    PROVE  CaseInv'
<1>1. PICK admin \in Admins :
          \/ \E status \in CaseStatus, notes \in BOOLEAN :
                 \/ ResolveDispute(c, k, admin, status, notes)
                 \/ UpdateComplaint(c, k, admin, status, notes)
                 \/ ResolveReport(c, k, admin, status, notes)
                 \/ AdminResolveSos(c, k, admin, status, notes)
          \/ \E j \in Case : MatchReports(c, j, k, admin)
  BY DEF CaseAdminRequest
<1>2. case[k] \in CaseRow
  BY DEF CaseInv
<1>3. ASSUME NEW status \in CaseStatus, NEW notes \in BOOLEAN,
             \/ ResolveDispute(c, k, admin, status, notes)
             \/ ResolveReport(c, k, admin, status, notes)
             \/ AdminResolveSos(c, k, admin, status, notes)
      PROVE  CaseInv'
  <2>1. /\ BeginCase(c, "resolve", [x \in {k} |-> AdminRow(k, admin, status, notes)])
        /\ case[k].status \notin Final
        /\ status \in Final
    BY <1>3 DEF ResolveDispute, ResolveReport, AdminResolveSos, AdminRow, Pending, Final
  <2>2. AdminRow(k, admin, status, notes) \in CaseRow
        /\ AdminRow(k, admin, status, notes).status = status
    BY <1>2 DEF CaseRow, AdminRow
  <2>3. ~Unresolved(AdminRow(k, admin, status, notes))
    BY <2>1, <2>2 DEF Final, Unresolved
  <2> QED BY <2>1, <2>2, <2>3, ChangeProposes
<1>4. ASSUME NEW status \in CaseStatus, NEW notes \in BOOLEAN,
             UpdateComplaint(c, k, admin, status, notes)
      PROVE  CaseInv'
  <2> DEFINE row == [case[k] EXCEPT !.status = status, !.notes = @ \/ notes,
                         !.closer = IF status \in Final THEN admin ELSE @]
  <2>1. BeginCase(c, "update", [x \in {k} |-> row]) /\ k[1] # "dispute"
        /\ case[k].status \notin Final
    BY <1>4 DEF UpdateComplaint
  <2>2. row \in CaseRow
    BY <1>2 DEF CaseRow
  <2> HIDE DEF row
  <2> QED BY <2>1, <2>2, ChangeProposes
<1>5. ASSUME NEW j \in Case, MatchReports(c, j, k, admin)
      PROVE  CaseInv'
  <2> DEFINE new == [x \in {j, k} |->
                 [case[x] EXCEPT !.status = "matched", !.closer = admin,
                                 !.partner = IF x = j THEN k[2] ELSE j[2]]]
  <2>1. /\ BeginCase(c, "match", new)
        /\ \A x \in {j, k} : case[x].status \notin Final /\ x[1] = "item"
    BY <1>5 DEF MatchReports, MayMatch
  <2>2. \A x \in {j, k} : case[x] \in CaseRow /\ x[2] \in CaseIds /\ x \in Case
    BY DEF CaseInv, Case
  <2>3. \A x \in {j, k} : new[x] \in CaseRow
    BY <2>2 DEF CaseRow, CaseStatus
  <2>4. DOMAIN new = {j, k}
    OBVIOUS
  <2> HIDE DEF new
  <2>5. Proposal("match", new)
    BY <2>1, <2>2, <2>3, <2>4 DEF Proposal, Dispute
  <2> QED BY <2>1, <2>5, BeginKeeps
<1> QED BY <1>1, <1>3, <1>4, <1>5

-----------------------------------------------------------------------------
(* Commits, losses and views.                                               *)

\* What a commit writes.
LEMMA CommitCaseWrites ==
    ASSUME CaseInv, NEW c \in Requests, CommitCase(c)
    PROVE  /\ case' \in [Case -> CaseRow]
           /\ \A k \in Case \ About(c) : case'[k] = case[k]
           /\ \A k \in (About(c) \intersect Dispute) \ tangled :
                  case'[k] = caseCall[c].new[k]
<1> USE DEF CaseInv
<1> DEFINE q == caseCall[c]
<1>1. case' = [k \in Case |-> IF k \in About(c)
                              THEN Merge(case[k], q.copies[k], q.new[k]) ELSE case[k]]
  BY DEF CommitCase
<1>2. CallOK(c) /\ KnowsDispute(c)
  OBVIOUS
<1>3. \A k \in About(c) : /\ k \in Case /\ case[k] \in CaseRow
                          /\ q.copies[k] \in CaseRow /\ q.new[k] \in CaseRow
  BY <1>2 DEF CallOK, About
<1>4. \A k \in About(c) : Merge(case[k], q.copies[k], q.new[k]) \in CaseRow
  BY <1>3, MergeOfCases
<1>5. ASSUME NEW k \in (About(c) \intersect Dispute) \ tangled
      PROVE  case'[k] = q.new[k]
  <2>1. q.copies[k] = case[k]
    BY <1>2 DEF KnowsDispute, About
  <2>2. Merge(case[k], q.copies[k], q.new[k]) = q.new[k]
    BY <1>3, <2>1, MergeOfCases
  <2> QED BY <1>1, <1>3, <2>2
<1> QED BY <1>1, <1>3, <1>4, <1>5

\* Two requests that are about one case: tangled says so.
LEMMA OtherCases ==
    ASSUME CaseInv, NEW c \in Requests, NEW e \in Requests, e # c,
           NEW k \in About(e) \ tangled
    PROVE  k \notin About(c) /\ k \in Case
BY DEF CaseInv, KnowsCase, CallOK, About

LEMMA CommitCaseKeeps ==
    ASSUME CaseInv, NEW c \in Requests, CommitCase(c)
    PROVE  CaseInv'
<1> USE DEF CaseInv
<1> DEFINE q == caseCall[c]
<1>1. /\ caseCall' = [caseCall EXCEPT ![c] = CaseIdle]
      /\ tangled' = tangled
  BY DEF CommitCase
<1>2. /\ DOMAIN caseCall' = Requests /\ caseCall'[c] = CaseIdle
      /\ \A e \in Requests : e # c => caseCall'[e] = caseCall[e]
  BY <1>1
<1>3. CallOK(c)' /\ KnowsCase(c)' /\ KnowsDispute(c)'
  BY <1>2, IdleIsEmpty DEF CallOK, KnowsCase, KnowsDispute
\* A dispute that is unresolved afterwards, and what was known of it before.
<1>4. ASSUME NEW j \in Dispute \ tangled, Unresolved(case'[j])
      PROVE  \/ Unresolved(case[j]) /\ Alike(case[j], case'[j])
             \/ /\ q.op = "dispute" /\ j \in About(c) /\ case'[j] = q.new[j]
                /\ \A k \in Dispute \ tangled :
                       ~(Unresolved(case[k]) /\ Alike(case[k], case'[j]))
  <2>1. CASE j \in About(c)
    <3>1. case'[j] = q.new[j] /\ case[j] = q.copies[j]
      BY <2>1, CommitCaseWrites DEF KnowsDispute, About
    <3> QED BY <1>4, <2>1, <3>1 DEF KnowsDispute, About
  <2>2. CASE j \notin About(c)
    <3>1. j \in Case
      BY DEF Dispute, Case, Kind
    <3> QED BY <1>4, <2>2, <3>1, CommitCaseWrites DEF Alike
  <2> QED BY <2>1, <2>2
<1>5. ASSUME NEW e \in Requests, e # c
      PROVE  CallOK(e)' /\ KnowsCase(e)' /\ KnowsDispute(e)'
  <2>1. CallOK(e) /\ KnowsCase(e) /\ KnowsDispute(e)
    OBVIOUS
  <2>2. \A k \in About(e) \ tangled : case'[k] = case[k]
    BY <1>5, OtherCases, CommitCaseWrites
  <2>3. \A x \in Requests : About(x)' \subseteq About(x)
    BY <1>2, IdleIsEmpty DEF About
  <2>4. CallOK(e)' /\ KnowsCase(e)'
    BY <1>1, <1>2, <1>5, <2>1, <2>2, <2>3 DEF CallOK, KnowsCase, About
  <2>5. ASSUME NEW k \in (DOMAIN caseCall[e].new \intersect Dispute) \ tangled,
               Unresolved(caseCall[e].new[k]), caseCall[e].op = "dispute",
               \A j \in Dispute \ tangled :
                   ~(Unresolved(case[j]) /\ Alike(case[j], caseCall[e].new[k])),
               NEW j \in Dispute \ tangled, Unresolved(case'[j]),
               Alike(case'[j], caseCall[e].new[k])
        PROVE  FALSE
    <3>1. CASE Unresolved(case[j]) /\ Alike(case[j], case'[j])
      BY <2>5, <3>1 DEF Alike
    <3>2. CASE q.op = "dispute" /\ j \in About(c) /\ case'[j] = q.new[j]
      BY <1>5, <2>5, <3>2 DEF FilersMeet, About
    <3> QED BY <1>4, <2>5, <3>1, <3>2
  <2>6. KnowsDispute(e)'
    BY <1>1, <1>2, <1>5, <2>1, <2>2, <2>5 DEF KnowsDispute, About
  <2> QED BY <2>4, <2>6
<1>6. FilersMeet'
  BY <1>1, <1>2, IdleIsEmpty DEF FilersMeet, About
<1>7. OneOpenDispute'
  <2> SUFFICES ASSUME NEW j \in Dispute \ tangled, NEW k \in Dispute \ tangled,
                      Unresolved(case'[j]), Unresolved(case'[k]),
                      Alike(case'[j], case'[k])
               PROVE  j = k
    BY <1>1 DEF OneOpenDispute, Dispute, Unresolved
  <2>1. CASE Unresolved(case[j]) /\ Alike(case[j], case'[j])
    <3>1. Alike(case[j], case'[k])
      BY <2>1 DEF Alike
    <3>2. Unresolved(case[k]) /\ Alike(case[k], case'[k])
      BY <1>4, <2>1, <3>1
    <3>3. Alike(case[j], case[k])
      BY <3>1, <3>2 DEF Alike
    <3> QED BY <2>1, <3>2, <3>3 DEF OneOpenDispute, Dispute, Unresolved
  <2>2. CASE ~(Unresolved(case[j]) /\ Alike(case[j], case'[j]))
    <3>1. /\ q.op = "dispute" /\ j \in About(c)
          /\ \A x \in Dispute \ tangled :
                 ~(Unresolved(case[x]) /\ Alike(case[x], case'[j]))
      BY <1>4, <2>2
    <3>2. CASE Unresolved(case[k]) /\ Alike(case[k], case'[k])
      BY <3>1, <3>2 DEF Alike
    <3>3. CASE k \in About(c)
      BY <3>1, <3>3 DEF CallOK, About
    <3> QED BY <1>4, <3>2, <3>3
  <2> QED BY <2>1, <2>2
<1> QED BY <1>1, <1>2, <1>3, <1>5, <1>6, <1>7, CommitCaseWrites

LEMMA CaseLossKeeps ==
    ASSUME CaseInv, NEW c \in Requests, CaseCallLost(c)
    PROVE  CaseInv'
<1> USE DEF CaseInv
<1>1. /\ DOMAIN caseCall' = Requests /\ caseCall'[c] = CaseIdle
      /\ \A e \in Requests : e # c => caseCall'[e] = caseCall[e]
      /\ UNCHANGED <<case, tangled>>
  BY DEF CaseCallLost
<1>2. \A x \in Requests : About(x)' \subseteq About(x)
  BY <1>1, IdleIsEmpty DEF About
<1>3. CallOK(c)' /\ KnowsCase(c)' /\ KnowsDispute(c)'
  BY <1>1, IdleIsEmpty DEF CallOK, KnowsCase, KnowsDispute
<1>4. ASSUME NEW e \in Requests, e # c
      PROVE  CallOK(e)' /\ KnowsCase(e)' /\ KnowsDispute(e)'
  BY <1>1, <1>2, <1>4 DEF CallOK, KnowsCase, KnowsDispute, About
<1>5. FilersMeet' /\ OneOpenDispute'
  BY <1>1, IdleIsEmpty DEF FilersMeet, OneOpenDispute, About
<1> QED BY <1>1, <1>3, <1>4, <1>5

\* The view of complaints changes the notes of complaints.
LEMMA ViewWrites ==
    ASSUME CaseInv, NEW u \in People, ViewComplaints(u)
    PROVE  /\ case' \in [Case -> CaseRow]
           /\ \A k \in Case : /\ case'[k].status = case[k].status
                              /\ k[1] # "complaint" => case'[k] = case[k]
                              /\ case[k].status \in Final => case'[k] = case[k]
<1>1. \A k \in Case : case[k] \in CaseRow
  BY DEF CaseInv
<1>2. \A k \in Case : /\ [case[k] EXCEPT !.notes = FALSE] \in CaseRow
                      /\ [case[k] EXCEPT !.notes = FALSE].status = case[k].status
  BY <1>1 DEF CaseRow
<1> QED BY <1>1, <1>2 DEF ViewComplaints, Flushed

LEMMA ViewKeeps ==
    ASSUME CaseInv, NEW u \in People, ViewComplaints(u)
    PROVE  CaseInv'
<1> USE DEF CaseInv
<1>1. UNCHANGED <<caseCall, tangled>>
  BY DEF ViewComplaints
<1>2. \A k \in Dispute : k \in Case /\ case'[k] = case[k]
  BY ViewWrites DEF Dispute, Case, Kind
<1>3. ASSUME NEW c \in Requests
      PROVE  CallOK(c)' /\ KnowsCase(c)' /\ KnowsDispute(c)'
  <2>1. CallOK(c)'
    BY <1>1 DEF CallOK
  <2>2. \A k \in DOMAIN caseCall[c].new : k \in Case
    BY DEF CallOK
  <2>3. KnowsCase(c)'
    BY <1>1, <2>2, ViewWrites DEF KnowsCase, About
  <2>4. KnowsDispute(c)'
    BY <1>1, <1>2 DEF KnowsDispute
  <2> QED BY <2>1, <2>3, <2>4
<1>4. FilersMeet'
  BY <1>1 DEF FilersMeet, About
<1>5. OneOpenDispute'
  BY <1>1, <1>2 DEF OneOpenDispute, Dispute
<1> QED BY <1>1, <1>3, <1>4, <1>5, ViewWrites

-----------------------------------------------------------------------------
(* The theorems.                                                            *)

\* CaseInv is an invariant of disputes, complaints, items and alerts, for any
\* requests that overlap or die.
THEOREM CasesInvariant == CasesSpec => []CaseInv
<1>1. CasesInit => CaseInv
  <2> SUFFICES ASSUME CasesInit PROVE CaseInv
    OBVIOUS
  <2>1. \A c \in Requests : caseCall[c] = CaseIdle
    BY DEF CasesInit
  <2>2. \A c \in Requests : CallOK(c) /\ KnowsCase(c) /\ KnowsDispute(c)
    BY <2>1, IdleIsEmpty DEF CallOK, KnowsCase, KnowsDispute
  <2>3. FilersMeet
    BY <2>1, IdleIsEmpty DEF FilersMeet
  <2>4. OneOpenDispute
    BY NoCaseIsARow DEF CasesInit, OneOpenDispute, Case, Kind
  <2> QED BY <2>2, <2>3, <2>4, NoCaseIsARow DEF CasesInit, CaseInv
<1>2. CaseInv /\ [CasesStep]_caseVars => CaseInv'
  <2> SUFFICES ASSUME CaseInv, [CasesStep]_caseVars PROVE CaseInv'
    OBVIOUS
  <2>1. CASE CasesStep
    BY <2>1, UserRequestKeeps, AdminRequestKeeps, ReviewKeeps, CommitCaseKeeps,
       CaseLossKeeps, ViewKeeps DEF CasesStep
  <2>2. CASE UNCHANGED caseVars
    BY <2>2 DEF caseVars, CaseInv, CallOK, KnowsCase, KnowsDispute, FilersMeet,
                OneOpenDispute, About
  <2> QED BY <2>1, <2>2
<1> QED BY <1>1, <1>2, PTL DEF CasesSpec

\* A user has at most one unresolved dispute of a ride (file_dispute), whatever
\* is filed, reviewed and resolved, unless such requests overlapped.
THEOREM OneDisputeIsOpen == CasesSpec => []OneOpenDispute
<1>1. CaseInv => OneOpenDispute
  BY DEF CaseInv
<1> QED BY <1>1, CasesInvariant, PTL

\* "No further updates allowed": a closed case stays as it is, unless two
\* requests about it overlapped (resolve_*, update_complaint, match_reports).
THEOREM ClosedStayClosed == CasesSpec => ClosedIsClosed
<1> DEFINE Kept == \A k \in Case :
        (case[k].status \in Final /\ k \notin tangled') => case'[k] = case[k]
<1>1. CaseInv /\ [CasesStep]_caseVars => [Kept]_caseVars
  <2> SUFFICES ASSUME CaseInv, CasesStep, NEW k \in Case,
                      case[k].status \in Final, k \notin tangled'
               PROVE  case'[k] = case[k]
    OBVIOUS
  <2>1. ASSUME NEW c \in Requests, CommitCase(c) PROVE case'[k] = case[k]
    <3>1. k \notin tangled
      BY <2>1 DEF CommitCase
    <3>2. k \notin About(c)
      BY <3>1 DEF CaseInv, CallOK, KnowsCase, About
    <3> QED BY <2>1, <3>2, CommitCaseWrites
  <2>2. CASE \E u \in People : ViewComplaints(u)
    BY <2>2, ViewWrites
  <2>3. CASE \E c \in Requests : CaseCallLost(c)
    BY <2>3 DEF CaseCallLost
  <2>4. CASE \E c \in Requests, j \in Case :
                 \/ UserRequest(c, j) \/ CaseAdminRequest(c, j) \/ ReviewDispute(c, j)
    <3>1. PICK c \in Requests, j \in Case :
              \/ UserRequest(c, j) \/ CaseAdminRequest(c, j) \/ ReviewDispute(c, j)
      BY <2>4
    <3>2. \A op, new : BeginCase(c, op, new) => case' = case
      BY DEF BeginCase
    <3>3. CASE UserRequest(c, j)
      BY <3>2, <3>3 DEF UserRequest, FileDispute, FileComplaint, ReportItem,
                        TriggerSos, BeginReport, ResolveSos
    <3>4. CASE CaseAdminRequest(c, j)
      BY <3>2, <3>4 DEF CaseAdminRequest, ResolveDispute, UpdateComplaint,
                        ResolveReport, AdminResolveSos, MatchReports
    <3>5. CASE ReviewDispute(c, j)
      BY <3>2, <3>5 DEF ReviewDispute
    <3> QED BY <3>1, <3>3, <3>4, <3>5
  <2> QED BY <2>1, <2>2, <2>3, <2>4 DEF CasesStep
<1> QED BY <1>1, CasesInvariant, PTL DEF CasesSpec, ClosedIsClosed

-----------------------------------------------------------------------------
(* Promos: a code is counted and redeemed within the limits of its row.  A  *)
(* request that no other overlaps with still has a valid code when it       *)
(* redeems.                                                                 *)

PromoFields == {"exists", "active", "expired", "maxUses", "perUser", "used",
                "firstOnly", "highFare"}

IsEdit(q) ==
    /\ q.op = "edit" /\ q.promo \in Promos
    /\ q.copy \in PromoRow /\ q.new \in PromoRow
    /\ q.copy.exists /\ q.new.exists /\ q.new.used = q.copy.used

IsUse(q) ==
    /\ DOMAIN q = {"op", "promo", "copy", "user", "ride", "counting"}
    /\ q.op = "use" /\ q.promo \in Promos /\ q.copy \in PromoRow
    /\ q.user \in Riders /\ q.ride \in PromoRides
    /\ promo[q.promo].exists

PromoTypes ==
    /\ promo \in [Promos -> PromoRow]
    /\ DOMAIN trip = PromoRides
    /\ redeemed \in SUBSET (Promos \X Riders \X PromoRides)
    /\ IsFiniteSet(redeemed)
    /\ DOMAIN promoCall = Requests
    /\ \A c \in Requests : promoCall[c] # PromoIdle =>
           IsEdit(promoCall[c]) \/ IsUse(promoCall[c])

\* A ride is redeemed for once: by one request, when it is there.
OncePerRide ==
    /\ \A x \in redeemed : promo[x[1]].exists /\ trip[x[3]] # NoRide
    /\ \A c \in Requests : promoCall[c].op = "use" =>
           /\ \A x \in redeemed : x[3] # promoCall[c].ride
           /\ \A d \in Requests \ {c} :
                  promoCall[d].op = "use" => promoCall[d].ride # promoCall[c].ride

\* No count is too high, neither in a row nor in a copy of one.
NeverOver ==
    /\ \A p \in Promos : promo[p].used <= Cardinality(Redemptions(p))
    /\ \A c \in Requests : promoCall[c].op = "use" =>
           promoCall[c].copy.used <= Cardinality(Redemptions(promoCall[c].promo))

\* What a request that no other overlaps with validated is still valid.
StillValid(q) ==
    /\ q.copy = promo[q.promo]
    /\ promo[q.promo].active /\ ~promo[q.promo].expired
    /\ promo[q.promo].maxUses # Unlimited => promo[q.promo].used < promo[q.promo].maxUses
    /\ Cardinality(UsesBy(q.user, q.promo)) < promo[q.promo].perUser
    /\ promo[q.promo].firstOnly =>
           \A r \in PromoRides : trip[r].rider = q.user => ~trip[r].completed

Exact ==
    /\ \A p \in Promos \ muddled : promo[p].used = Cardinality(Redemptions(p))
    /\ \A c \in Requests :
           promoCall[c].op = "use" /\ promoCall[c].promo \notin muddled =>
               /\ StillValid(promoCall[c])
               /\ \A d \in Requests \ {c} :
                      promoCall[d].op = "use" => promoCall[d].promo # promoCall[c].promo

PromoInv == PromoTypes /\ OncePerRide /\ NeverOver /\ Exact

LEMMA MergeOfPromos ==
    ASSUME NEW row \in PromoRow, NEW copy \in PromoRow, NEW new \in PromoRow
    PROVE  /\ Merge(row, copy, new) \in PromoRow
           /\ row.exists /\ copy.exists /\ new.exists => Merge(row, copy, new).exists
           /\ new.used = copy.used => Merge(row, copy, new).used = row.used
<1> DEFINE after == Merge(row, copy, new)
<1>1. DOMAIN row = PromoFields
  BY DEF PromoRow, PromoFields
<1>2. after = [col \in PromoFields |-> IF new[col] = copy[col] THEN row[col] ELSE new[col]]
  BY <1>1 DEF Merge
<1>3. /\ after.exists \in BOOLEAN /\ after.active \in BOOLEAN
      /\ after.expired \in BOOLEAN
  BY <1>2 DEF PromoRow, PromoFields
<1>4. /\ after.firstOnly \in BOOLEAN /\ after.highFare \in BOOLEAN
      /\ after.perUser \in 0 .. MaxUses
  BY <1>2 DEF PromoRow, PromoFields
<1>5. /\ after.maxUses \in Limit /\ after.used \in Nat
      /\ new.used = copy.used => after.used = row.used
  BY <1>2 DEF PromoRow, PromoFields
<1>6. row.exists /\ copy.exists /\ new.exists => after.exists
  BY <1>2 DEF PromoRow, PromoFields
<1>7. after = [exists |-> after.exists, active |-> after.active,
               expired |-> after.expired, maxUses |-> after.maxUses,
               perUser |-> after.perUser, used |-> after.used,
               firstOnly |-> after.firstOnly, highFare |-> after.highFare]
  BY <1>2 DEF PromoFields
<1> HIDE DEF after
<1>8. after \in PromoRow
  BY <1>3, <1>4, <1>5, <1>7 DEF PromoRow
<1> QED BY <1>5, <1>6, <1>8 DEF after

LEMMA NoPromoIsARow ==
    NoPromo \in PromoRow /\ ~NoPromo.exists /\ NoPromo.used = 0
BY PromoAssumption DEF NoPromo, PromoRow, Limit

LEMMA PromoIdleIsIdle ==
    PromoIdle.op = "idle" /\ ~IsUse(PromoIdle) /\ ~IsEdit(PromoIdle)
BY DEF PromoIdle, IsUse, IsEdit

\* A request begins: an edit, or one that has validated a code for a ride.
LEMMA StartCallKeeps ==
    ASSUME PromoInv, NEW c \in Requests, NEW call, StartCall(c, call),
           IsEdit(call) \/
               (/\ IsUse(call) /\ StillValid(call) /\ trip[call.ride] = NoRide
                /\ \A d \in Requests :
                       promoCall[d].op = "use" => promoCall[d].ride # call.ride)
    PROVE  PromoInv'
<1>1. /\ UNCHANGED <<promo, trip, redeemed>> /\ promoCall'[c] = call
      /\ \A d \in Requests \ {c} : promoCall'[d] = promoCall[d]
      /\ DOMAIN promoCall' = Requests
      /\ \A p : Redemptions(p)' = Redemptions(p)
      /\ \A u, p : UsesBy(u, p)' = UsesBy(u, p)
  BY DEF StartCall, PromoInv, PromoTypes, Redemptions, UsesBy
<1>2. PromoTypes'
  BY <1>1 DEF PromoInv, PromoTypes, IsEdit, IsUse
<1>3. call.op = "use" => /\ IsUse(call) /\ StillValid(call)
                         /\ trip[call.ride] = NoRide
                         /\ \A d \in Requests : promoCall[d].op = "use" =>
                                promoCall[d].ride # call.ride
  BY DEF IsEdit
<1>4. OncePerRide'
  BY <1>1, <1>3 DEF PromoInv, OncePerRide
<1>5. NeverOver'
  <2>1. call.op = "use" => call.copy.used <= Cardinality(Redemptions(call.promo))
    BY <1>3 DEF PromoInv, NeverOver, StillValid, IsUse
  <2> QED BY <1>1, <2>1 DEF PromoInv, NeverOver
<1>6. /\ muddled \subseteq muddled'
      /\ call.promo \notin muddled' =>
             \A d \in Requests : promoCall[d].op = "use" => promoCall[d].promo # call.promo
  BY DEF StartCall, Using
<1>7. Exact'
  <2>1. \A q : StillValid(q)' <=> StillValid(q)
    BY <1>1 DEF StillValid
  <2>2. ASSUME NEW d \in Requests, promoCall'[d].op = "use",
               promoCall'[d].promo \notin muddled'
        PROVE  /\ StillValid(promoCall'[d])
               /\ \A e \in Requests \ {d} :
                      promoCall'[e].op = "use" => promoCall'[e].promo # promoCall'[d].promo
    <3>1. CASE d = c
      BY <1>1, <1>3, <1>6, <2>2, <3>1
    <3>2. CASE d # c
      <4>1. promoCall'[d] = promoCall[d] /\ promoCall[d].promo \notin muddled
        BY <1>1, <1>6, <2>2, <3>2
      <4>2. promoCall[d].promo # call.promo
        BY <1>6, <2>2, <4>1
      <4> QED BY <1>1, <2>2, <4>1, <4>2 DEF PromoInv, Exact
    <3> QED BY <3>1, <3>2
  <2>3. ASSUME NEW d \in Requests, promoCall'[d].op = "use",
               promoCall'[d].promo \notin muddled'
        PROVE  StillValid(promoCall[d])'
    <3>1. StillValid(promoCall'[d])
      BY <2>2, <2>3
    <3> QED BY <1>1, <3>1 DEF StillValid
  <2> QED BY <1>1, <1>6, <2>2, <2>3 DEF PromoInv, Exact
<1> QED BY <1>2, <1>4, <1>5, <1>7 DEF PromoInv

LEMMA LoadUpdateKeeps ==
    ASSUME PromoInv, NEW c \in Requests, NEW p \in Promos, NEW new \in PromoRow,
           new.exists = promo[p].exists, new.used = promo[p].used,
           LoadUpdate(c, p, new)
    PROVE  PromoInv'
<1> DEFINE call == [op |-> "edit", promo |-> p, copy |-> promo[p], new |-> new]
<1>1. promo[p] \in PromoRow /\ promo[p].exists /\ StartCall(c, call)
  BY DEF LoadUpdate, PromoInv, PromoTypes
<1>2. IsEdit(call)
  BY <1>1 DEF IsEdit
<1> QED BY <1>1, <1>2, StartCallKeeps

LEMMA ValidateKeeps ==
    ASSUME PromoInv, NEW c \in Requests, NEW u \in Riders, NEW p \in Promos,
           NEW r \in PromoRides, NEW high \in BOOLEAN, Validate(c, u, p, r, high)
    PROVE  PromoInv'
<1> DEFINE call == [op |-> "use", promo |-> p, copy |-> promo[p], user |-> u,
                    ride |-> r, counting |-> FALSE]
<1>1. /\ promo[p] \in PromoRow /\ ValidPromo(p, u, high) /\ StartCall(c, call)
      /\ trip[r] = NoRide
      /\ \A d \in Requests : promoCall[d].op = "use" => promoCall[d].ride # r
  BY DEF Validate, PromoInv, PromoTypes
<1>2. /\ call.op = "use" /\ call.promo = p /\ call.copy = promo[p]
      /\ call.user = u /\ call.ride = r
      /\ DOMAIN call = {"op", "promo", "copy", "user", "ride", "counting"}
  OBVIOUS
<1> HIDE DEF call
<1>3. IsUse(call)
  BY <1>1, <1>2 DEF IsUse, ValidPromo
<1>4. StillValid(call)
  BY <1>1, <1>2 DEF StillValid, ValidPromo
<1> QED BY <1>1, <1>2, <1>3, <1>4, StartCallKeeps

\* The request is gone, with or without its redemption.
LEMMA PromoCallLostKeeps ==
    ASSUME PromoInv, NEW c \in Requests, PromoCallLost(c)
    PROVE  PromoInv'
<1>1. /\ UNCHANGED <<promo, trip, redeemed>> /\ promoCall'[c] = PromoIdle
      /\ \A d \in Requests \ {c} : promoCall'[d] = promoCall[d]
      /\ DOMAIN promoCall' = Requests /\ muddled \subseteq muddled'
      /\ \A p : Redemptions(p)' = Redemptions(p)
      /\ \A u, p : UsesBy(u, p)' = UsesBy(u, p)
  BY DEF PromoCallLost, PromoInv, PromoTypes, Redemptions, UsesBy
<1>2. PromoTypes'
  BY <1>1 DEF PromoInv, PromoTypes, IsEdit, IsUse
<1>3. OncePerRide' /\ NeverOver'
  BY <1>1, PromoIdleIsIdle DEF PromoInv, OncePerRide, NeverOver
<1>4. Exact'
  <2>1. ASSUME NEW d \in Requests, promoCall'[d].op = "use",
               promoCall'[d].promo \notin muddled'
        PROVE  /\ StillValid(promoCall[d])'
               /\ \A e \in Requests \ {d} :
                      promoCall'[e].op = "use" => promoCall'[e].promo # promoCall'[d].promo
    <3>1. promoCall'[d] = promoCall[d] /\ promoCall[d].promo \notin muddled
      BY <1>1, <2>1, PromoIdleIsIdle
    <3>2. /\ StillValid(promoCall[d])
          /\ \A e \in Requests \ {d} :
                 promoCall[e].op = "use" => promoCall[e].promo # promoCall[d].promo
      BY <2>1, <3>1 DEF PromoInv, Exact
    <3>3. StillValid(promoCall[d])'
      BY <1>1, <3>1, <3>2 DEF StillValid
    <3> QED BY <1>1, <3>1, <3>2, <3>3, PromoIdleIsIdle
  <2> QED BY <1>1, <2>1 DEF PromoInv, Exact
<1> QED BY <1>2, <1>3, <1>4 DEF PromoInv

\* An edit writes its columns; a code that a request is using is muddled.
LEMMA CommitUpdateKeeps ==
    ASSUME PromoInv, NEW c \in Requests, CommitUpdate(c)
    PROVE  PromoInv'
<1> DEFINE call == promoCall[c]
           p    == call.promo
           row  == Merge(promo[p], call.copy, call.new)
<1>1. call.op = "edit" /\ IsEdit(call) /\ ~IsUse(call) /\ p \in Promos
  <2>1. call.op = "edit" /\ call # PromoIdle
    BY PromoIdleIsIdle DEF CommitUpdate
  <2> QED BY <2>1 DEF PromoInv, PromoTypes, IsEdit, IsUse
<1>2. /\ UNCHANGED <<trip, redeemed>> /\ promoCall'[c] = PromoIdle
      /\ \A d \in Requests \ {c} : promoCall'[d] = promoCall[d]
      /\ DOMAIN promoCall' = Requests
      /\ promo' = [promo EXCEPT ![p] = row]
      /\ \A x : Redemptions(x)' = Redemptions(x)
      /\ \A u, x : UsesBy(u, x)' = UsesBy(u, x)
  BY <1>1 DEF CommitUpdate, PromoInv, PromoTypes, Redemptions, UsesBy
<1>3. /\ muddled \subseteq muddled'
      /\ p \notin muddled' =>
             \A d \in Requests : promoCall[d].op = "use" => promoCall[d].promo # p
  BY DEF CommitUpdate, Using
<1>4. /\ row \in PromoRow /\ row.used = promo[p].used
      /\ promo[p].exists => row.exists
  BY <1>1, MergeOfPromos DEF IsEdit, PromoInv, PromoTypes
<1> HIDE DEF row
<1>5. /\ promo' \in [Promos -> PromoRow] /\ promo'[p] = row
      /\ \A x \in Promos \ {p} : promo'[x] = promo[x]
      /\ \A x \in Promos : /\ promo'[x].used = promo[x].used
                           /\ promo[x].exists => promo'[x].exists
  BY <1>1, <1>2, <1>4 DEF PromoInv, PromoTypes
<1>6. PromoTypes'
  <2>1. ASSUME NEW d \in Requests, promoCall'[d] # PromoIdle
        PROVE  IsEdit(promoCall[d])' \/ IsUse(promoCall[d])'
    <3>1. promoCall'[d] = promoCall[d] /\ (IsEdit(promoCall[d]) \/ IsUse(promoCall[d]))
      BY <1>2, <2>1 DEF PromoInv, PromoTypes
    <3> QED BY <1>5, <3>1 DEF IsEdit, IsUse
  <2> QED BY <1>2, <1>5, <2>1 DEF PromoInv, PromoTypes
<1>7. OncePerRide'
  <2>1. \A x \in redeemed : x[1] \in Promos
    BY DEF PromoInv, PromoTypes
  <2> QED BY <1>2, <1>5, <2>1, PromoIdleIsIdle DEF PromoInv, OncePerRide
<1>8. NeverOver'
  BY <1>2, <1>5, PromoIdleIsIdle DEF PromoInv, NeverOver
<1>9. Exact'
  <2>1. ASSUME NEW d \in Requests, promoCall'[d].op = "use",
               promoCall'[d].promo \notin muddled'
        PROVE  /\ StillValid(promoCall[d])'
               /\ \A e \in Requests \ {d} :
                      promoCall'[e].op = "use" => promoCall'[e].promo # promoCall'[d].promo
    <3>1. /\ promoCall'[d] = promoCall[d] /\ promoCall[d].promo \notin muddled
          /\ promoCall[d].promo # p
      BY <1>2, <1>3, <2>1, PromoIdleIsIdle
    <3>2. /\ StillValid(promoCall[d])
          /\ \A e \in Requests \ {d} :
                 promoCall[e].op = "use" => promoCall[e].promo # promoCall[d].promo
      BY <2>1, <3>1 DEF PromoInv, Exact
    <3>3. promo'[promoCall[d].promo] = promo[promoCall[d].promo]
      <4>1. IsUse(promoCall[d])
        BY <2>1, <3>1, PromoIdleIsIdle DEF PromoInv, PromoTypes, IsEdit
      <4> QED BY <1>5, <3>1, <4>1 DEF IsUse
    <3>4. StillValid(promoCall[d])'
      BY <1>2, <3>1, <3>2, <3>3 DEF StillValid
    <3> QED BY <1>2, <3>1, <3>2, <3>4, PromoIdleIsIdle
  <2> QED BY <1>2, <1>3, <1>5, <2>1 DEF PromoInv, Exact
<1> QED BY <1>6, <1>7, <1>8, <1>9 DEF PromoInv

\* A new code was neither redeemed nor is it being used.
LEMMA NewCodeKeeps ==
    ASSUME PromoInv, NEW p \in Promos, ~promo[p].exists, NEW row \in PromoRow,
           row.exists, row.used = 0, promo' = [promo EXCEPT ![p] = row],
           UNCHANGED <<trip, redeemed, promoCall, muddled>>
    PROVE  PromoInv'
<1>1. /\ promo' \in [Promos -> PromoRow] /\ promo'[p] = row
      /\ \A x \in Promos \ {p} : promo'[x] = promo[x]
      /\ \A x \in Promos : promo[x].exists => promo'[x].exists
      /\ \A x : Redemptions(x)' = Redemptions(x)
      /\ \A u, x : UsesBy(u, x)' = UsesBy(u, x)
  BY DEF PromoInv, PromoTypes, Redemptions, UsesBy
<1>2. Redemptions(p) = {} /\ Cardinality(Redemptions(p)) = 0
  BY FS_EmptySet DEF Redemptions, PromoInv, OncePerRide
<1>3. \A d \in Requests : promoCall[d].op = "use" =>
          IsUse(promoCall[d]) /\ promoCall[d].promo # p
  BY PromoIdleIsIdle DEF PromoInv, PromoTypes, IsUse, IsEdit
<1>4. PromoTypes'
  <2>1. ASSUME NEW d \in Requests, promoCall[d] # PromoIdle
        PROVE  IsEdit(promoCall[d])' \/ IsUse(promoCall[d])'
    BY <1>1, <2>1 DEF PromoInv, PromoTypes, IsEdit, IsUse
  <2> QED BY <1>1, <2>1 DEF PromoInv, PromoTypes
<1>5. OncePerRide'
  <2>1. \A x \in redeemed : x[1] \in Promos
    BY DEF PromoInv, PromoTypes
  <2> QED BY <1>1, <2>1 DEF PromoInv, OncePerRide
<1>6. NeverOver'
  BY <1>1, <1>2 DEF PromoInv, NeverOver
<1>7. Exact'
  <2>1. ASSUME NEW d \in Requests, promoCall[d].op = "use", promoCall[d].promo \notin muddled
        PROVE  StillValid(promoCall[d])'
    <3>1. StillValid(promoCall[d]) /\ promo'[promoCall[d].promo] = promo[promoCall[d].promo]
      BY <1>1, <1>3, <2>1 DEF PromoInv, Exact, IsUse
    <3> QED BY <1>1, <3>1 DEF StillValid
  <2> QED BY <1>1, <1>2, <2>1 DEF PromoInv, Exact
<1> QED BY <1>4, <1>5, <1>6, <1>7 DEF PromoInv

LEMMA PromoExpiresKeeps ==
    ASSUME PromoInv, NEW p \in Promos, PromoExpires(p)
    PROVE  PromoInv'
<1> DEFINE row == [promo[p] EXCEPT !.expired = TRUE]
<1>1. /\ promo' = [promo EXCEPT ![p] = row]
      /\ UNCHANGED <<trip, redeemed, promoCall, muddled>>
      /\ \A d \in Requests : promoCall[d] = PromoIdle
  BY DEF PromoExpires
<1>2. row \in PromoRow /\ row.used = promo[p].used /\ row.exists = promo[p].exists
  <2>1. promo[p] \in PromoRow
    BY DEF PromoInv, PromoTypes
  <2> QED BY <2>1 DEF PromoRow
<1> HIDE DEF row
<1>3. /\ promo' \in [Promos -> PromoRow]
      /\ \A x \in Promos : /\ promo'[x].used = promo[x].used
                           /\ promo'[x].exists = promo[x].exists
      /\ \A x : Redemptions(x)' = Redemptions(x)
  BY <1>1, <1>2 DEF PromoInv, PromoTypes, Redemptions
<1>4. PromoTypes'
  BY <1>1, <1>3 DEF PromoInv, PromoTypes
<1>5. OncePerRide'
  <2>1. \A x \in redeemed : x[1] \in Promos
    BY DEF PromoInv, PromoTypes
  <2> QED BY <1>1, <1>3, <2>1, PromoIdleIsIdle DEF PromoInv, OncePerRide
<1>6. NeverOver' /\ Exact'
  BY <1>1, <1>3, PromoIdleIsIdle DEF PromoInv, NeverOver, Exact
<1> QED BY <1>4, <1>5, <1>6 DEF PromoInv

\* Rides are requested and completed: a ride stays a ride, and who completes one
\* while using a code muddles it.
LEMMA TripsChangeKeeps ==
    ASSUME PromoInv, UNCHANGED <<promo, redeemed, promoCall>>,
           DOMAIN trip' = PromoRides, muddled \subseteq muddled',
           \A r \in PromoRides : trip[r] # NoRide => trip'[r] # NoRide,
           \A c \in Requests, r \in PromoRides :
               /\ promoCall[c].op = "use" /\ promoCall[c].promo \notin muddled'
               /\ trip'[r].rider = promoCall[c].user /\ trip'[r].completed
               => trip[r].rider = promoCall[c].user /\ trip[r].completed
    PROVE  PromoInv'
<1>1. /\ \A x : Redemptions(x)' = Redemptions(x)
      /\ \A u, x : UsesBy(u, x)' = UsesBy(u, x)
  BY DEF Redemptions, UsesBy
<1>2. PromoTypes'
  BY DEF PromoInv, PromoTypes, IsEdit, IsUse
<1>3. OncePerRide'
  <2>1. \A x \in redeemed : x[3] \in PromoRides
    BY DEF PromoInv, PromoTypes
  <2> QED BY <2>1 DEF PromoInv, OncePerRide
<1>4. NeverOver'
  BY <1>1 DEF PromoInv, NeverOver
<1>5. ASSUME NEW c \in Requests, promoCall[c].op = "use", promoCall[c].promo \notin muddled'
      PROVE  StillValid(promoCall[c])'
  <2>1. StillValid(promoCall[c])
    BY <1>5 DEF PromoInv, Exact
  <2> QED BY <1>1, <1>5, <2>1 DEF StillValid
<1>6. Exact'
  BY <1>1, <1>5 DEF PromoInv, Exact
<1> QED BY <1>2, <1>3, <1>4, <1>6 DEF PromoInv

LEMMA RequestWithoutCodeKeeps ==
    ASSUME PromoInv, NEW u \in Riders, NEW r \in PromoRides, RequestWithoutCode(u, r)
    PROVE  PromoInv'
<1>1. /\ UNCHANGED <<promo, redeemed, promoCall, muddled>> /\ trip[r] = NoRide
      /\ trip' = [trip EXCEPT ![r].rider = u]
  BY DEF RequestWithoutCode
<1>2. /\ DOMAIN trip' = PromoRides
      /\ \A s \in PromoRides \ {r} : trip'[s] = trip[s]
      /\ trip'[r] = [NoRide EXCEPT !.rider = u]
  BY <1>1 DEF PromoInv, PromoTypes
<1>3. ~trip'[r].completed
  BY <1>2 DEF NoRide
<1> QED BY <1>1, <1>2, <1>3, TripsChangeKeeps

LEMMA CommitDiscountKeeps ==
    ASSUME PromoInv, NEW c \in Requests, CommitDiscount(c)
    PROVE  PromoInv'
<1> DEFINE r   == promoCall[c].ride
           row == [rider |-> promoCall[c].user, code |-> {promoCall[c].promo},
                   completed |-> FALSE]
<1>1. /\ UNCHANGED <<promo, redeemed, promoCall, muddled>> /\ trip[r] = NoRide
      /\ promoCall[c].op = "use" /\ trip' = [trip EXCEPT ![r] = row]
  BY DEF CommitDiscount
<1>2. r \in PromoRides
  BY <1>1, PromoIdleIsIdle DEF PromoInv, PromoTypes, IsUse, IsEdit
<1>3. /\ DOMAIN trip' = PromoRides /\ trip'[r] = row /\ ~row.completed
      /\ \A s \in PromoRides \ {r} : trip'[s] = trip[s]
  BY <1>1, <1>2 DEF PromoInv, PromoTypes
<1> QED BY <1>1, <1>3, TripsChangeKeeps

LEMMA TripCompletedKeeps ==
    ASSUME PromoInv, NEW r \in PromoRides, TripCompleted(r)
    PROVE  PromoInv'
<1>1. /\ UNCHANGED <<promo, redeemed, promoCall>> /\ ~trip[r].completed
      /\ trip' = [trip EXCEPT ![r].completed = TRUE]
      /\ muddled \subseteq muddled'
      /\ \A c \in Requests :
             promoCall[c].op = "use" /\ promoCall[c].user = trip[r].rider
                 => promoCall[c].promo \in muddled'
  BY DEF TripCompleted
<1>2. /\ DOMAIN trip' = PromoRides
      /\ \A s \in PromoRides \ {r} : trip'[s] = trip[s]
      /\ trip'[r] = [trip[r] EXCEPT !.completed = TRUE]
  BY <1>1 DEF PromoInv, PromoTypes
<1>3. trip'[r].rider = trip[r].rider
  BY <1>2
<1>4. trip'[r] # NoRide
  BY <1>2 DEF NoRide
<1> QED BY <1>1, <1>2, <1>3, <1>4, TripsChangeKeeps

\* Reading the row anew leaves a request with a copy that is not too high, and
\* with the one it had if no other overlaps with it.
LEMMA ReadUsesKeeps ==
    ASSUME PromoInv, NEW c \in Requests, ReadUses(c)
    PROVE  PromoInv'
<1>1. PICK q, p \in Promos :
          /\ q = promoCall[c] /\ p = q.promo /\ q.op = "use" /\ IsUse(q)
          /\ promo[p] \in PromoRow
  BY PromoIdleIsIdle DEF ReadUses, PromoInv, PromoTypes, IsEdit, IsUse
<1>2. PICK new : new = [q EXCEPT !.copy = promo[p], !.counting = TRUE]
  OBVIOUS
<1>3. /\ DOMAIN new = DOMAIN q /\ new.op = "use" /\ new.promo = p
      /\ new.user = q.user /\ new.ride = q.ride /\ new.copy = promo[p]
  BY <1>1, <1>2 DEF IsUse
<1>4. /\ UNCHANGED <<promo, trip, redeemed, muddled>>
      /\ promoCall' = [promoCall EXCEPT ![c] = new]
  BY <1>1, <1>2 DEF ReadUses
<1>5. /\ promoCall'[c] = new /\ DOMAIN promoCall' = Requests
      /\ \A d \in Requests \ {c} : promoCall'[d] = promoCall[d]
  BY <1>4 DEF PromoInv, PromoTypes
<1>6. IsUse(new) /\ (StillValid(q) => StillValid(new))
  BY <1>1, <1>3 DEF IsUse, StillValid
<1>7. \A u, x : Redemptions(x)' = Redemptions(x) /\ UsesBy(u, x)' = UsesBy(u, x)
  BY <1>4 DEF Redemptions, UsesBy
<1>8. \A d \in Requests :
          /\ (promoCall'[d].op = "use") = (promoCall[d].op = "use")
          /\ promoCall'[d].op = "use" => /\ promoCall'[d].promo = promoCall[d].promo
                                         /\ promoCall'[d].ride = promoCall[d].ride
  BY <1>1, <1>3, <1>5
<1>9. PromoTypes'
  <2>1. ASSUME NEW d \in Requests, promoCall'[d] # PromoIdle
        PROVE  IsEdit(promoCall[d])' \/ IsUse(promoCall[d])'
    <3>1. PICK e : e = promoCall'[d] /\ (IsEdit(e) \/ IsUse(e))
      BY <1>5, <1>6, <2>1 DEF PromoInv, PromoTypes
    <3> QED BY <1>4, <3>1 DEF IsEdit, IsUse
  <2> QED BY <1>4, <1>5, <2>1 DEF PromoInv, PromoTypes
<1>10. OncePerRide'
  BY <1>4, <1>8 DEF PromoInv, OncePerRide
<1>11. NeverOver'
  BY <1>1, <1>3, <1>4, <1>5, <1>7, <1>8 DEF PromoInv, NeverOver
<1>12. Exact'
  <2>1. ASSUME NEW d \in Requests, promoCall'[d].op = "use",
               promoCall'[d].promo \notin muddled
        PROVE  StillValid(promoCall[d])'
    <3>1. PICK e : e = promoCall'[d] /\ StillValid(e)
      BY <1>1, <1>5, <1>6, <1>8, <2>1 DEF PromoInv, Exact
    <3> QED BY <1>4, <1>7, <3>1 DEF StillValid
  <2> QED BY <1>4, <1>7, <1>8, <2>1 DEF PromoInv, Exact
<1> QED BY <1>9, <1>10, <1>11, <1>12 DEF PromoInv

\* What a redemption does: one more in the table and, from the copy, in the row.
LEMMA RedeemCounts ==
    ASSUME PromoInv, NEW c \in Requests, Redeem(c)
    PROVE  \E p \in Promos, u \in Riders, r \in PromoRides :
               /\ promoCall[c].promo = p /\ promoCall[c].user = u
               /\ promoCall[c].ride = r
               /\ promoCall[c].op = "use" /\ IsUse(promoCall[c]) /\ trip[r] # NoRide
               /\ <<p, u, r>> \notin redeemed
               /\ redeemed' = redeemed \union {<<p, u, r>>}
               /\ promo' \in [Promos -> PromoRow]
               /\ promoCall[c].copy.used \in Nat
               /\ promo'[p].used = promoCall[c].copy.used + 1
               /\ promo[p].exists /\ promo'[p].exists
               /\ \A x \in Promos \ {p} : promo'[x] = promo[x]
               /\ Cardinality(Redemptions(p)) \in Nat
               /\ Cardinality(Redemptions(p)') = Cardinality(Redemptions(p)) + 1
               /\ \A x \in Promos \ {p} : /\ Redemptions(x)' = Redemptions(x)
                                          /\ \A v : UsesBy(v, x)' = UsesBy(v, x)
<1>1. promoCall[c].op = "use" /\ IsUse(promoCall[c])
  BY PromoIdleIsIdle DEF Redeem, PromoInv, PromoTypes, IsEdit
<1>2. PICK p \in Promos, u \in Riders, r \in PromoRides :
          /\ promoCall[c].promo = p /\ promoCall[c].user = u /\ promoCall[c].ride = r
  BY <1>1 DEF IsUse
<1> DEFINE x   == <<p, u, r>>
           n   == promoCall[c].copy.used + 1
           row == [promo[p] EXCEPT !.used = n]
<1>3. /\ trip[r] # NoRide /\ redeemed' = redeemed \union {x}
      /\ promo' = [promo EXCEPT ![p] = row]
  BY <1>2 DEF Redeem
<1>4. x \notin redeemed /\ x[1] = p /\ x[2] = u
  <2>1. x[3] = promoCall[c].ride
    BY <1>2
  <2> QED BY <1>1, <2>1 DEF PromoInv, OncePerRide
<1>5. /\ promo[p] \in PromoRow /\ promo[p].exists /\ promoCall[c].copy.used \in Nat
  BY <1>1, <1>2 DEF IsUse, PromoInv, PromoTypes, PromoRow
<1>6. row \in PromoRow /\ row.used = n /\ row.exists
  BY <1>5 DEF PromoRow
<1> HIDE DEF row
<1>7. /\ promo' \in [Promos -> PromoRow] /\ promo'[p] = row
      /\ \A y \in Promos \ {p} : promo'[y] = promo[y]
  BY <1>3, <1>6 DEF PromoInv, PromoTypes
<1> HIDE DEF x
<1>8. /\ Redemptions(p)' = Redemptions(p) \union {x} /\ x \notin Redemptions(p)
      /\ \A y \in Promos \ {p} : /\ Redemptions(y)' = Redemptions(y)
                                 /\ \A v : UsesBy(v, y)' = UsesBy(v, y)
  BY <1>3, <1>4 DEF Redemptions, UsesBy
<1>9. IsFiniteSet(Redemptions(p))
  BY FS_Subset DEF Redemptions, PromoInv, PromoTypes
<1>10. /\ Cardinality(Redemptions(p)') = Cardinality(Redemptions(p)) + 1
       /\ Cardinality(Redemptions(p)) \in Nat
  BY <1>8, <1>9, FS_AddElement, FS_CardinalityType
<1> QED BY ZenonT(30), <1>1, <1>2, <1>3, <1>4, <1>5, <1>6, <1>7, <1>8, <1>10 DEF x

LEMMA RedeemKeeps ==
    ASSUME PromoInv, NEW c \in Requests, Redeem(c)
    PROVE  PromoInv'
<1>1. PICK p \in Promos, u \in Riders, r \in PromoRides :
          /\ promoCall[c].promo = p /\ promoCall[c].user = u
          /\ promoCall[c].ride = r
          /\ promoCall[c].op = "use" /\ IsUse(promoCall[c]) /\ trip[r] # NoRide
          /\ <<p, u, r>> \notin redeemed
          /\ redeemed' = redeemed \union {<<p, u, r>>}
          /\ promo' \in [Promos -> PromoRow]
          /\ promoCall[c].copy.used \in Nat
          /\ promo'[p].used = promoCall[c].copy.used + 1
          /\ promo[p].exists /\ promo'[p].exists
          /\ \A x \in Promos \ {p} : promo'[x] = promo[x]
          /\ Cardinality(Redemptions(p)) \in Nat
          /\ Cardinality(Redemptions(p)') = Cardinality(Redemptions(p)) + 1
          /\ \A x \in Promos \ {p} : /\ Redemptions(x)' = Redemptions(x)
                                     /\ \A v : UsesBy(v, x)' = UsesBy(v, x)
  BY RedeemCounts
<1>2. /\ UNCHANGED <<trip, muddled>> /\ promoCall'[c] = PromoIdle
      /\ \A d \in Requests \ {c} : promoCall'[d] = promoCall[d]
      /\ DOMAIN promoCall' = Requests
  BY DEF Redeem, PromoInv, PromoTypes
<1>3. \A d \in Requests : promoCall'[d].op = "use" =>
          promoCall'[d] = promoCall[d] /\ d # c
  BY <1>2, PromoIdleIsIdle
<1>4. \A x \in Promos : promo[x].exists => promo'[x].exists
  BY <1>1
<1>5. PromoTypes'
  <2>1. ASSUME NEW d \in Requests, promoCall'[d] # PromoIdle
        PROVE  IsEdit(promoCall[d])' \/ IsUse(promoCall[d])'
    <3>1. promoCall'[d] = promoCall[d] /\ (IsEdit(promoCall[d]) \/ IsUse(promoCall[d]))
      BY <1>2, <2>1 DEF PromoInv, PromoTypes
    <3> QED BY <1>4, <3>1 DEF IsEdit, IsUse
  <2>2. IsFiniteSet(redeemed')
    BY <1>1, FS_AddElement DEF PromoInv, PromoTypes
  <2> QED BY <1>1, <1>2, <2>1, <2>2 DEF PromoInv, PromoTypes
<1>6. OncePerRide'
  <2>1. \A x \in redeemed : x[1] \in Promos
    BY DEF PromoInv, PromoTypes
  <2>2. \A x \in redeemed' : promo'[x[1]].exists /\ trip'[x[3]] # NoRide
    BY <1>1, <1>2, <1>4, <2>1 DEF PromoInv, OncePerRide
  <2>3. \A d \in Requests : promoCall'[d].op = "use" =>
            \A x \in redeemed' : x[3] # promoCall'[d].ride
    BY <1>1, <1>3 DEF PromoInv, OncePerRide
  <2> QED BY <1>3, <2>2, <2>3 DEF PromoInv, OncePerRide
<1>7. NeverOver'
  <2>1. promoCall[c].copy.used <= Cardinality(Redemptions(p))
    BY <1>1 DEF PromoInv, NeverOver
  <2>2. \A x \in Promos : promo'[x].used <= Cardinality(Redemptions(x)')
    <3>1. promo'[p].used <= Cardinality(Redemptions(p)')
      BY <1>1, <2>1
    <3>2. ASSUME NEW x \in Promos \ {p}
          PROVE  promo'[x].used <= Cardinality(Redemptions(x)')
      BY <1>1 DEF PromoInv, NeverOver
    <3> QED BY <3>1, <3>2
  <2>3. ASSUME NEW d \in Requests, promoCall'[d].op = "use"
        PROVE  (promoCall[d].copy.used <= Cardinality(Redemptions(promoCall[d].promo)))'
    <3>1. promoCall'[d] = promoCall[d] /\ IsUse(promoCall[d])
      BY <1>3, <2>3, PromoIdleIsIdle DEF PromoInv, PromoTypes, IsEdit
    <3>2. PICK x \in Promos : promoCall[d].promo = x
      BY <3>1 DEF IsUse
    <3>3. /\ promoCall[d].copy.used <= Cardinality(Redemptions(x))
          /\ promoCall[d].copy.used \in Nat
      BY <2>3, <3>1, <3>2 DEF PromoInv, NeverOver, IsUse, PromoRow
    <3>4. promoCall[d].copy.used <= Cardinality(Redemptions(x)')
      <4>1. CASE x = p
        BY <1>1, <3>3, <4>1
      <4>2. CASE x # p
        BY <1>1, <3>3, <4>2
      <4> QED BY <4>1, <4>2
    <3> QED BY <3>1, <3>2, <3>4 DEF Redemptions
  <2> QED BY <2>2, <2>3 DEF NeverOver
<1>8. Exact'
  <2>1. ASSUME NEW x \in Promos \ muddled
        PROVE  promo'[x].used = Cardinality(Redemptions(x)')
    <3>1. promo[x].used = Cardinality(Redemptions(x))
      BY <2>1 DEF PromoInv, Exact
    <3>2. CASE x = p
      <4>1. promoCall[c].copy = promo[p]
        BY <1>1, <2>1, <3>2 DEF PromoInv, Exact, StillValid
      <4> QED BY <1>1, <3>1, <3>2, <4>1
    <3>3. CASE x # p
      BY <1>1, <3>1, <3>3
    <3> QED BY <3>2, <3>3
  <2>2. ASSUME NEW d \in Requests, promoCall'[d].op = "use",
               promoCall'[d].promo \notin muddled
        PROVE  /\ StillValid(promoCall[d])'
               /\ \A e \in Requests \ {d} :
                      promoCall'[e].op = "use" => promoCall'[e].promo # promoCall'[d].promo
    <3>1. /\ promoCall'[d] = promoCall[d] /\ promoCall[d].promo \notin muddled /\ d # c
          /\ promoCall[d].op = "use"
      BY <1>3, <2>2
    <3>2. /\ StillValid(promoCall[d]) /\ IsUse(promoCall[d])
          /\ \A e \in Requests \ {d} :
                 promoCall[e].op = "use" => promoCall[e].promo # promoCall[d].promo
      BY <3>1, PromoIdleIsIdle DEF PromoInv, Exact, PromoTypes, IsEdit
    <3>3. PICK x \in Promos, v \in Riders :
              promoCall[d].promo = x /\ promoCall[d].user = v /\ x # p
      BY <1>1, <3>1, <3>2 DEF IsUse
    <3>4. promo'[x] = promo[x] /\ UsesBy(v, x)' = UsesBy(v, x)
      BY <1>1, <3>3
    <3>5. StillValid(promoCall[d])'
      BY ZenonT(30), <1>2, <3>1, <3>2, <3>3, <3>4 DEF StillValid, UsesBy
    <3> QED BY <1>3, <3>1, <3>2, <3>5
  <2> QED BY <1>2, <2>1, <2>2 DEF Exact
<1> QED BY <1>5, <1>6, <1>7, <1>8 DEF PromoInv

LEMMA PromoInvInit ==
    PromosInit => PromoInv
<1> SUFFICES ASSUME PromosInit PROVE PromoInv
  OBVIOUS
<1>1. /\ redeemed = {} /\ promo = [p \in Promos |-> NoPromo]
      /\ \A c \in Requests : promoCall[c] = PromoIdle
  BY DEF PromosInit
<1>2. \A p \in Promos : Redemptions(p) = {} /\ Cardinality(Redemptions(p)) = 0
  BY <1>1, FS_EmptySet DEF Redemptions
<1>3. PromoTypes
  BY <1>1, NoPromoIsARow, FS_EmptySet DEF PromosInit, PromoTypes
<1>4. OncePerRide /\ NeverOver /\ Exact
  BY <1>1, <1>2, NoPromoIsARow, PromoIdleIsIdle DEF OncePerRide, NeverOver, Exact
<1> QED BY <1>3, <1>4 DEF PromoInv

LEMMA PromoInvStep ==
    PromoInv /\ [PromosStep]_promoVars => PromoInv'
<1> SUFFICES ASSUME PromoInv, [PromosStep]_promoVars PROVE PromoInv'
  OBVIOUS
<1>1. \A p \in Promos : promo[p] \in PromoRow
  BY DEF PromoInv, PromoTypes
<1>2. ASSUME NEW p \in Promos, NEW maxUses \in Limit, NEW perUser \in 0 .. MaxUses,
             NEW firstOnly \in BOOLEAN, NEW highFare \in BOOLEAN,
             CreatePromo(p, maxUses, perUser, firstOnly, highFare)
      PROVE  PromoInv'
  <2> DEFINE row == [NoPromo EXCEPT !.exists = TRUE, !.active = TRUE,
                        !.maxUses = maxUses, !.perUser = perUser,
                        !.firstOnly = firstOnly, !.highFare = highFare]
  <2>1. row \in PromoRow /\ row.exists /\ row.used = 0
    BY NoPromoIsARow DEF PromoRow
  <2> QED BY <1>2, <2>1, NewCodeKeeps DEF CreatePromo
<1>3. ASSUME NEW u \in Riders, CreateReferralPromo(u)
      PROVE  PromoInv'
  <2> DEFINE row == [NoPromo EXCEPT !.exists = TRUE, !.active = TRUE, !.firstOnly = TRUE]
  <2>1. row \in PromoRow /\ row.exists /\ row.used = 0
    BY NoPromoIsARow DEF PromoRow
  <2>2. Referral(u) \in Promos
    BY DEF Promos
  <2> QED BY <1>3, <2>1, <2>2, NewCodeKeeps DEF CreateReferralPromo
<1>4. ASSUME NEW c \in Requests, NEW p \in Promos, NEW active \in BOOLEAN,
             NEW maxUses \in Limit, NEW perUser \in 0 .. MaxUses,
             NEW expired \in BOOLEAN,
             \/ UpdatePromo(c, p, active, maxUses, perUser, expired)
             \/ DeactivatePromo(c, p)
      PROVE  PromoInv'
  <2> DEFINE limit == IF maxUses = Unlimited THEN promo[p].maxUses ELSE maxUses
             new   == [promo[p] EXCEPT !.active = active, !.perUser = perUser,
                          !.expired = expired, !.maxUses = limit]
             off   == [promo[p] EXCEPT !.active = FALSE]
  <2>1. /\ new \in PromoRow /\ new.exists = promo[p].exists
        /\ new.used = promo[p].used
    BY <1>1 DEF PromoRow
  <2>2. /\ off \in PromoRow /\ off.exists = promo[p].exists
        /\ off.used = promo[p].used
    BY <1>1 DEF PromoRow
  <2>3. LoadUpdate(c, p, new) \/ LoadUpdate(c, p, off)
    BY <1>4 DEF UpdatePromo, DeactivatePromo
  <2> QED BY <2>1, <2>2, <2>3, LoadUpdateKeeps
<1>5. ASSUME NEW c \in Requests,
             \/ CommitUpdate(c) \/ CommitDiscount(c)
             \/ ReadUses(c) \/ Redeem(c) \/ PromoCallLost(c)
      PROVE  PromoInv'
  BY <1>5, CommitUpdateKeeps, CommitDiscountKeeps, ReadUsesKeeps, RedeemKeeps,
     PromoCallLostKeeps
<1>6. ASSUME NEW c \in Requests, RiderPromos(c)
      PROVE  PromoInv'
  BY <1>6, ValidateKeeps, RequestWithoutCodeKeeps DEF RiderPromos
<1>7. ASSUME NEW p \in Promos, PromoExpires(p)
      PROVE  PromoInv'
  BY <1>7, PromoExpiresKeeps
<1>8. ASSUME NEW r \in PromoRides, TripCompleted(r)
      PROVE  PromoInv'
  BY <1>8, TripCompletedKeeps
<1>9. ASSUME UNCHANGED <<promo, trip, redeemed, promoCall, muddled>>
      PROVE  PromoInv'
  BY <1>9, TripsChangeKeeps DEF PromoInv, PromoTypes
<1>10. (\E u \in Riders : Register(u)) \/ UNCHANGED promoVars =>
           UNCHANGED <<promo, trip, redeemed, promoCall, muddled>>
  BY DEF Register, promoVars
<1>11. ASSUME NEW c \in Requests, AdminPromos(c)
       PROVE  PromoInv'
  BY ZenonT(30), <1>2, <1>4, <1>11 DEF AdminPromos
<1> QED BY <1>3, <1>5, <1>6, <1>7, <1>8, <1>9, <1>10, <1>11 DEF PromosStep

\* No code is counted more often than it was redeemed; and one that no requests
\* overlapped about is counted exactly and redeemed within its limits, for any number
\* of codes, riders, rides and requests (validate_promo, redeem_promo).
THEOREM PromosWithinLimits == PromosSpec => PromoLimitsKept
<1> DEFINE Kept ==
      /\ \A p \in Promos : promo'[p].used <= Cardinality(Redemptions(p)')
      /\ \A p \in Promos \ muddled' :
           /\ promo'[p].used = Cardinality(Redemptions(p)')
           /\ \A x \in redeemed' \ redeemed : x[1] = p =>
                  /\ promo[p].active /\ ~promo[p].expired
                  /\ promo[p].maxUses # Unlimited => promo'[p].used <= promo[p].maxUses
                  /\ Cardinality(UsesBy(x[2], p)) < promo[p].perUser
                  /\ promo[p].firstOnly =>
                         \A r \in PromoRides : trip[r].rider = x[2]
                                                   => ~trip[r].completed
<1>1. ASSUME PromoInv, PromoInv', [PromosStep]_promoVars
      PROVE  Kept
  <2>1. \A p \in Promos : promo'[p].used <= Cardinality(Redemptions(p)')
    BY <1>1 DEF PromoInv, NeverOver
  <2>2. \A p \in Promos \ muddled' : promo'[p].used = Cardinality(Redemptions(p)')
    BY <1>1 DEF PromoInv, Exact
  <2>3. ASSUME NEW p \in Promos \ muddled', NEW x \in redeemed' \ redeemed, x[1] = p
        PROVE  /\ promo[p].active /\ ~promo[p].expired
               /\ promo[p].maxUses # Unlimited => promo'[p].used <= promo[p].maxUses
               /\ Cardinality(UsesBy(x[2], p)) < promo[p].perUser
               /\ promo[p].firstOnly =>
                      \A r \in PromoRides : trip[r].rider = x[2] => ~trip[r].completed
    <3>1. PICK c \in Requests : Redeem(c)
      <4>1. redeemed' # redeemed
        BY <2>3
      <4>2. \A c \in Requests : AdminPromos(c) => UNCHANGED redeemed
        <5>1. \A c, call : StartCall(c, call) => UNCHANGED redeemed
          BY DEF StartCall
        <5>2. \A c, y, new : LoadUpdate(c, y, new) => UNCHANGED redeemed
          BY <5>1 DEF LoadUpdate
        <5>3. \A c, y, a, b, d, e : UpdatePromo(c, y, a, b, d, e) \/ DeactivatePromo(c, y)
                  => UNCHANGED redeemed
          BY <5>2, Zenon DEF UpdatePromo, DeactivatePromo
        <5>4. \A y, a, b, d, e : CreatePromo(y, a, b, d, e) => UNCHANGED redeemed
          BY DEF CreatePromo
        <5> QED BY <5>3, <5>4 DEF AdminPromos
      <4>3. \A c \in Requests : RiderPromos(c) => UNCHANGED redeemed
        BY DEF RiderPromos, Validate, RequestWithoutCode, StartCall
      <4>4. \A c \in Requests :
                CommitUpdate(c) \/ CommitDiscount(c) \/ ReadUses(c) \/ PromoCallLost(c)
                    => UNCHANGED redeemed
        BY DEF CommitUpdate, CommitDiscount, ReadUses, PromoCallLost
      <4>5. \A y \in Promos : PromoExpires(y) => UNCHANGED redeemed
        BY DEF PromoExpires
      <4>6. \A u \in Riders : Register(u) \/ CreateReferralPromo(u) => UNCHANGED redeemed
        BY DEF Register, CreateReferralPromo
      <4>7. \A r \in PromoRides : TripCompleted(r) => UNCHANGED redeemed
        BY DEF TripCompleted
      <4>8. UNCHANGED promoVars => UNCHANGED redeemed
        BY DEF promoVars
      <4> QED BY <1>1, <4>1, <4>2, <4>3, <4>4, <4>5, <4>6, <4>7, <4>8 DEF PromosStep
    <3>2. /\ muddled' = muddled /\ promoCall[c].op = "use"
          /\ x = <<promoCall[c].promo, promoCall[c].user, promoCall[c].ride>>
      BY <2>3, <3>1 DEF Redeem
    <3>3. promoCall[c].promo = p /\ promoCall[c].user = x[2] /\ p \notin muddled
      BY <2>3, <3>2
    <3>4. StillValid(promoCall[c])
      BY <1>1, <3>2, <3>3 DEF PromoInv, Exact
    <3>5. promo'[p].used = promo[p].used + 1 /\ promo[p] \in PromoRow
      BY <1>1, <3>1, <3>3, <3>4, RedeemCounts DEF StillValid, PromoInv, PromoTypes
    <3>6. promo[p].maxUses # Unlimited => promo'[p].used <= promo[p].maxUses
      BY <3>3, <3>4, <3>5 DEF StillValid, PromoRow, Limit
    <3> QED BY <3>3, <3>4, <3>6 DEF StillValid
  <2> QED BY <2>1, <2>2, <2>3
<1>2. PromosSpec => []PromoInv
  BY PromoInvInit, PromoInvStep, PTL DEF PromosSpec
<1>3. PromoLimitsKept <=> [][Kept]_promoVars
  BY DEF PromoLimitsKept
<1> QED BY <1>1, <1>2, <1>3, PTL DEF PromosSpec

-----------------------------------------------------------------------------
(* Stops: they are numbered from 1, because a request that no other         *)
(* overlaps with writes numbers that still fit the stops of the ride.       *)

IsStopCall(q) ==
    /\ q.op \in {"add", "update", "remove", "advance"}
    /\ DOMAIN q.new \subseteq StopIds
    /\ \A i \in DOMAIN q.new : q.copy[i] \in Stop /\ q.new[i] \in Stop

StopTypes ==
    /\ stop \in [StopIds -> Stop]
    /\ modifiable \in BOOLEAN /\ jostled \in BOOLEAN
    /\ DOMAIN stopCall = Requests
    /\ \A c \in Requests : stopCall[c] # StopIdle => IsStopCall(stopCall[c])

\* No two stops have the same place, and the places are those of so many stops.
Numbered ==
    /\ \A i \in Stops : stop[i].order \in 1 .. Cardinality(Stops)
    /\ \A i, j \in Stops : stop[i].order = stop[j].order => i = j
    /\ Cardinality(Stops) <= MaxWaypoints

\* The place of stop i among the new ones.
Rank(i, ids) == Cardinality({j \in ids : j <= i})

\* What a request computed is still what has to be written.
StillFits(q) ==
    LET ids == DOMAIN q.new
    IN  /\ \A i \in ids : q.copy[i] = stop[i]
        /\ q.op \in {"update", "advance"} =>
               \A i \in ids : /\ i \in Stops /\ q.new[i].status # "none"
                              /\ q.new[i].order = stop[i].order
        /\ q.op = "add" =>
               /\ ids \intersect Stops = {} /\ Fits(ids)
               /\ \A i \in ids : /\ q.new[i].status # "none"
                                 /\ q.new[i].order = Cardinality(Stops) + Rank(i, ids)
        /\ q.op = "remove" =>
               \E i \in Stops :
                   /\ ids = {i} \union MovedUp(i) /\ q.new[i] = NoStop
                   /\ \A j \in MovedUp(i) : /\ q.new[j].status # "none"
                                            /\ q.new[j].order = stop[j].order - 1

\* Requests in progress are about different stops, and one of them renumbers.
Apart ==
    \A c, e \in Requests : c # e =>
        /\ DOMAIN stopCall[c].new \intersect DOMAIN stopCall[e].new = {}
        /\ ~(stopCall[c].op \in Reordering /\ stopCall[e].op \in Reordering)

StopsInv ==
    /\ StopTypes
    /\ ~jostled => /\ Numbered /\ Apart
                   /\ \A c \in Requests :
                          stopCall[c] # StopIdle => StillFits(stopCall[c])

-----------------------------------------------------------------------------
(* Counting.                                                                *)

LEMMA StopsAreFinite ==
    ASSUME NEW S \in SUBSET StopIds
    PROVE  IsFiniteSet(S) /\ Cardinality(S) \in Nat
BY StopsAssumption, FS_Subset, FS_CardinalityType

\* New stops get the places 1 to n, each its own.
LEMMA RanksAreDistinct ==
    ASSUME NEW ids \in SUBSET StopIds
    PROVE  /\ \A i \in ids : Rank(i, ids) \in 1 .. Cardinality(ids)
           /\ \A i, j \in ids : Rank(i, ids) = Rank(j, ids) => i = j
<1> DEFINE Upto(i) == {k \in ids : k <= i}
<1>1. \A i \in ids : IsFiniteSet(Upto(i)) /\ Cardinality(Upto(i)) \in Nat
  BY StopsAreFinite
<1>2. IsFiniteSet(ids) /\ Cardinality(ids) \in Nat
  BY StopsAreFinite
<1>3. ASSUME NEW i \in ids PROVE Cardinality(Upto(i)) \in 1 .. Cardinality(ids)
  <2>1. Cardinality(Upto(i)) <= Cardinality(ids)
    BY <1>2, FS_Subset
  <2>2. i \in Upto(i)
    BY StopsAssumption
  <2>3. Cardinality(Upto(i)) # 0
    BY <1>1, <2>2, FS_EmptySet
  <2> QED BY <1>1, <1>2, <2>1, <2>3
<1>4. ASSUME NEW i \in ids, NEW j \in ids, i < j
      PROVE  Cardinality(Upto(i)) # Cardinality(Upto(j))
  <2>0. i \in Nat /\ j \in Nat /\ \A k \in ids : k \in Nat
    BY StopsAssumption
  <2>1. Upto(i) \subseteq Upto(j) /\ j \in Upto(j) /\ j \notin Upto(i)
    <3>1. \A k \in ids : k <= i => k <= j
      BY <1>4, <2>0
    <3>2. j <= j /\ ~(j <= i)
      BY <1>4, <2>0
    <3> QED BY <3>1, <3>2
  <2>2. Upto(i) \in SUBSET Upto(j) /\ Upto(i) # Upto(j)
    BY <2>1
  <2>3. Cardinality(Upto(i)) < Cardinality(Upto(j))
    BY <1>1, <2>2, FS_Subset
  <2>4. Cardinality(Upto(i)) \in Nat /\ Cardinality(Upto(j)) \in Nat
    BY <1>1
  <2> QED BY <2>3, <2>4
<1>5. \A i, j \in ids : i < j \/ j < i \/ i = j
  BY StopsAssumption
<1> QED BY <1>3, <1>4, <1>5 DEF Rank

\* Distinct places from 1 to n, for n stops, are all of them.
LEMMA NumberedIsInOrder ==
    ASSUME StopTypes, Numbered
    PROVE  {stop[i].order : i \in Stops} = 1 .. Cardinality(Stops)
<1> DEFINE n == Cardinality(Stops)
           place == [i \in Stops |-> stop[i].order]
<1>1. IsFiniteSet(Stops) /\ n \in Nat
  BY StopsAreFinite DEF Stops
<1>2. IsFiniteSet(1 .. n) /\ Cardinality(1 .. n) = n
  BY <1>1, FS_Interval
<1>3. place \in Injection(Stops, 1 .. n)
  BY DEF Injection, IsInjective, Numbered
<1>4. place \in Surjection(Stops, 1 .. n)
  BY <1>2, <1>3, FS_Injection
<1>5. \A p \in 1 .. n : \E i \in Stops : stop[i].order = p
  BY <1>4 DEF Surjection
<1> QED BY <1>5 DEF Numbered

-----------------------------------------------------------------------------
(* Rows.                                                                    *)

LEMMA NoStopIsARow ==
    /\ NoStop \in Stop /\ NoStop.status = "none" /\ NoStop.order = 0
    /\ StopIdle.op = "idle" /\ DOMAIN StopIdle.new = {}
BY StopsAssumption DEF NoStop, Stop, StopStatus, StopIdle

LEMMA MergeOfStops ==
    ASSUME NEW row \in Stop, NEW copy \in Stop, NEW new \in Stop
    PROVE  /\ Merge(row, copy, new) \in Stop
           /\ copy = row => Merge(row, copy, new) = new
<1> DEFINE after == Merge(row, copy, new)
<1>1. DOMAIN row = {"status", "order", "edited"}
  BY DEF Stop
<1>2. after = [col \in {"status", "order", "edited"} |->
                  IF new[col] = copy[col] THEN row[col] ELSE new[col]]
  BY <1>1 DEF Merge
<1>3. /\ after.status = IF new.status = copy.status THEN row.status ELSE new.status
      /\ after.order = IF new.order = copy.order THEN row.order ELSE new.order
      /\ after.edited = IF new.edited = copy.edited THEN row.edited ELSE new.edited
  BY <1>2
<1>4. after = [status |-> after.status, order |-> after.order, edited |-> after.edited]
  BY <1>2
<1>5. after \in Stop
  BY <1>3, <1>4 DEF Stop
<1>6. copy = row => after = new
  BY <1>3, <1>4 DEF Stop
<1> QED BY <1>5, <1>6

-----------------------------------------------------------------------------
(* Beginning.                                                               *)

\* A request that begins knows what it has read.
LEMMA BeginningKeepsStops ==
    ASSUME StopsInv, NEW c \in Requests, NEW op, NEW new, BeginStops(c, op, new),
           IsStopCall(stopCall'[c]),
           ~jostled => StillFits(stopCall'[c])
    PROVE  StopsInv'
<1> DEFINE q == [op |-> op, copy |-> [i \in DOMAIN new |-> stop[i]], new |-> new]
<1>1. /\ UNCHANGED <<stop, modifiable>> /\ DOMAIN stopCall = Requests
      /\ stopCall' = [stopCall EXCEPT ![c] = q] /\ stopCall[c] = StopIdle
  BY DEF BeginStops, StopsInv, StopTypes
<1>2. stopCall'[c] = q /\ \A e \in Requests \ {c} : stopCall'[e] = stopCall[e]
  BY <1>1
<1>3. StopTypes'
  <2>1. jostled' \in BOOLEAN
    BY DEF BeginStops, StopsInv, StopTypes
  <2>2. DOMAIN stopCall' = Requests
    BY <1>1
  <2> QED BY <1>1, <1>2, <2>1, <2>2 DEF StopsInv, StopTypes, IsStopCall
<1>4. ASSUME ~jostled' PROVE Numbered' /\ Apart' /\
          \A e \in Requests : stopCall'[e] # StopIdle => StillFits(stopCall[e])'
  <2>1. ~jostled /\ \A x \in Requests :
            /\ ~(op \in Reordering /\ stopCall[x].op \in Reordering)
            /\ DOMAIN stopCall[x].new \intersect DOMAIN new = {}
    BY <1>4 DEF BeginStops, StopsInv, StopTypes
  <2>2. Stops' = Stops /\ stop' = stop
    BY <1>1 DEF Stops
  <2>3. Numbered'
    BY <2>1, <2>2 DEF StopsInv, Numbered
  <2>4. Apart'
    BY <1>2, <2>1 DEF StopsInv, Apart
  <2>5. ASSUME NEW e \in Requests, stopCall'[e] # StopIdle
        PROVE  StillFits(stopCall[e])'
    <3>1. StillFits(stopCall'[e])
      BY <1>2, <2>1, <2>5 DEF StopsInv
    <3> QED BY <3>1, <2>2 DEF StillFits, Fits, MovedUp
  <2> QED BY <2>3, <2>4, <2>5
<1> QED BY <1>3, <1>4 DEF StopsInv

LEMMA AddStopsKeeps ==
    ASSUME StopsInv, NEW c \in Requests, NEW ids \in SUBSET StopIds, AddStops(c, ids)
    PROVE  StopsInv'
<1> DEFINE new == [i \in ids |->
           [status |-> "pending", edited |-> FALSE,
            order |-> Cardinality(Stops) + Rank(i, ids)]]
<1>1. BeginStops(c, "add", new) /\ ids \intersect Stops = {} /\ Fits(ids)
  BY DEF AddStops, Rank
<1>2. /\ stopCall'[c].op = "add" /\ stopCall'[c].new = new
      /\ \A i \in ids : stopCall'[c].copy[i] = stop[i]
  BY <1>1 DEF BeginStops, StopsInv, StopTypes
<1>3. /\ Cardinality(Stops) \in Nat /\ Cardinality(ids) \in Nat
      /\ \A i \in ids : Rank(i, ids) \in 1 .. Cardinality(ids)
  BY StopsAreFinite, RanksAreDistinct DEF Stops
<1>4. \A i \in ids : new[i] \in Stop /\ stop[i] \in Stop
  BY <1>1, <1>3, StopsAssumption DEF Stop, StopStatus, Fits, StopsInv, StopTypes
<1>5. IsStopCall(stopCall'[c])
  BY <1>2, <1>4 DEF IsStopCall
<1>6. StillFits(stopCall'[c])
  BY <1>1, <1>2 DEF StillFits
<1> QED BY <1>1, <1>5, <1>6, BeginningKeepsStops

LEMMA ChangingAStopKeeps ==
    ASSUME StopsInv, NEW c \in Requests, NEW i \in StopIds, NEW row \in Stop,
           i \in Stops, row.status # "none", row.order = stop[i].order,
           NEW op \in {"update", "advance"},
           BeginStops(c, op, [j \in {i} |-> row])
    PROVE  StopsInv'
<1>1. /\ stopCall'[c].op = op /\ DOMAIN stopCall'[c].new = {i}
      /\ stopCall'[c].new[i] = row /\ stopCall'[c].copy[i] = stop[i]
  BY DEF BeginStops, StopsInv, StopTypes
<1>2. IsStopCall(stopCall'[c])
  BY <1>1 DEF IsStopCall, StopsInv, StopTypes
<1>3. StillFits(stopCall'[c])
  BY <1>1 DEF StillFits
<1> QED BY <1>2, <1>3, BeginningKeepsStops

LEMMA UpdateStopKeeps ==
    ASSUME StopsInv, NEW c \in Requests, NEW i \in StopIds, UpdateStop(c, i)
    PROVE  StopsInv'
<1> DEFINE row == [stop[i] EXCEPT !.edited = TRUE]
<1>1. stop[i] \in Stop /\ stop[i].status = "pending"
  BY DEF UpdateStop, StopsInv, StopTypes
<1>2. row \in Stop /\ row.status = "pending" /\ row.order = stop[i].order
  BY <1>1 DEF Stop
<1>3. BeginStops(c, "update", [j \in {i} |-> row])
  BY DEF UpdateStop
<1> QED BY <1>1, <1>2, <1>3, ChangingAStopKeeps DEF Stops

LEMMA AdvanceStopKeeps ==
    ASSUME StopsInv, NEW c \in Requests, NEW i \in StopIds,
           NEW status \in StopStatus, AdvanceStop(c, i, status)
    PROVE  StopsInv'
<1> DEFINE row == [stop[i] EXCEPT !.status = status]
<1>1. /\ stop[i] \in Stop /\ stop[i].status \in {"pending", "arrived"}
      /\ status # "none"
  BY DEF AdvanceStop, NextStatus, StopsInv, StopTypes
<1>2. row \in Stop /\ row.status = status /\ row.order = stop[i].order
  BY <1>1 DEF Stop
<1>3. BeginStops(c, "advance", [j \in {i} |-> row])
  BY DEF AdvanceStop
<1> QED BY <1>1, <1>2, <1>3, ChangingAStopKeeps DEF Stops

LEMMA RemoveStopKeeps ==
    ASSUME StopsInv, NEW c \in Requests, NEW i \in StopIds, RemoveStop(c, i)
    PROVE  StopsInv'
<1> DEFINE ids == {i} \union MovedUp(i)
           new == [j \in ids |->
                      IF j = i THEN NoStop ELSE [stop[j] EXCEPT !.order = @ - 1]]
<1>1. BeginStops(c, "remove", new) /\ i \in Stops /\ ids \subseteq StopIds
  BY DEF RemoveStop, Stops, MovedUp
<1>2. /\ stopCall'[c].op = "remove" /\ stopCall'[c].new = new
      /\ \A j \in ids : stopCall'[c].copy[j] = stop[j]
  BY <1>1 DEF BeginStops, StopsInv, StopTypes
<1>3. ASSUME NEW j \in MovedUp(i)
      PROVE  /\ new[j] \in Stop /\ new[j].status # "none"
             /\ new[j].order = stop[j].order - 1
  <2>1. /\ stop[j] \in Stop /\ stop[i] \in Stop /\ stop[j].status # "none"
        /\ stop[j].order > stop[i].order /\ j # i
    BY <1>1, StopsAssumption DEF MovedUp, Stops, StopsInv, StopTypes, Stop
  <2>2. /\ stop[j].order \in 0 .. MaxWaypoints /\ stop[i].order \in 0 .. MaxWaypoints
        /\ stop[j].status \in StopStatus /\ stop[j].edited \in BOOLEAN
    BY <2>1 DEF Stop
  <2>3. stop[j].order - 1 \in 0 .. MaxWaypoints
    BY <2>1, <2>2, StopsAssumption
  <2>4. new[j] = [stop[j] EXCEPT !.order = @ - 1]
    BY <2>1
  <2> QED BY <2>1, <2>2, <2>3, <2>4 DEF Stop
<1>4. new[i] = NoStop /\ NoStop \in Stop /\ \A j \in ids : stop[j] \in Stop
  BY <1>1, NoStopIsARow DEF StopsInv, StopTypes
<1>5. IsStopCall(stopCall'[c])
  <2>1. \A j \in ids : new[j] \in Stop
    BY <1>3, <1>4
  <2> QED BY <1>1, <1>2, <1>4, <2>1 DEF IsStopCall
<1>6. StillFits(stopCall'[c])
  <2>1. /\ new[i] = NoStop
        /\ \A j \in MovedUp(i) : /\ new[j].status # "none"
                                 /\ new[j].order = stop[j].order - 1
    BY <1>3, <1>4
  <2>2. DOMAIN new = ids
    OBVIOUS
  <2> QED BY <1>1, <1>2, <2>1, <2>2 DEF StillFits
<1> QED BY <1>1, <1>5, <1>6, BeginningKeepsStops

-----------------------------------------------------------------------------
(* Committing.                                                              *)

\* What is committed is what was computed, unless requests overlapped.
LEMMA CommitWrites ==
    ASSUME StopsInv, NEW c \in Requests, CommitStops(c)
    PROVE  /\ stopCall[c] # StopIdle /\ IsStopCall(stopCall[c])
           /\ stop' \in [StopIds -> Stop]
           /\ DOMAIN stopCall' = Requests /\ stopCall'[c] = StopIdle
           /\ \A e \in Requests \ {c} : stopCall'[e] = stopCall[e]
           /\ ~jostled => \A i \in StopIds : stop'[i] =
                  IF i \in DOMAIN stopCall[c].new THEN stopCall[c].new[i] ELSE stop[i]
<1> DEFINE q == stopCall[c]
           gone == \E i \in DOMAIN q.new : q.copy[i] # NoStop /\ stop[i] = NoStop
<1>1. q # StopIdle /\ IsStopCall(q) /\ stop \in [StopIds -> Stop]
  BY DEF CommitStops, StopsInv, StopTypes
<1>2. stop' = [i \in StopIds |->
          CASE gone \/ i \notin DOMAIN q.new -> stop[i]
            [] ~gone /\ i \in DOMAIN q.new /\ q.new[i] = NoStop -> NoStop
            [] OTHER -> Merge(stop[i], q.copy[i], q.new[i])]
  BY DEF CommitStops
<1>3. \A i \in StopIds : stop'[i] \in Stop
  <2> SUFFICES ASSUME NEW i \in StopIds PROVE stop'[i] \in Stop
    OBVIOUS
  <2>1. CASE gone \/ i \notin DOMAIN q.new
    BY <1>1, <1>2, <2>1
  <2>2. CASE ~gone /\ i \in DOMAIN q.new
    <3>1. /\ stop[i] \in Stop /\ q.copy[i] \in Stop /\ q.new[i] \in Stop
      BY <1>1, <2>2 DEF IsStopCall
    <3>2. Merge(stop[i], q.copy[i], q.new[i]) \in Stop
      BY <3>1, MergeOfStops
    <3> QED BY <1>2, <2>2, <3>2, NoStopIsARow
  <2> QED BY <2>1, <2>2
<1>4. ASSUME ~jostled, NEW i \in StopIds
      PROVE  stop'[i] = IF i \in DOMAIN q.new THEN q.new[i] ELSE stop[i]
  <2>1. ~gone
    BY <1>1, <1>4 DEF StopsInv, StillFits
  <2>2. CASE i \in DOMAIN q.new
    <3>1. /\ stop[i] \in Stop /\ q.copy[i] \in Stop /\ q.new[i] \in Stop
          /\ q.copy[i] = stop[i]
      BY <1>1, <1>4, <2>2 DEF IsStopCall, StopsInv, StillFits
    <3>2. Merge(stop[i], q.copy[i], q.new[i]) = q.new[i]
      BY <3>1, MergeOfStops
    <3> QED BY <1>2, <2>1, <2>2, <3>2
  <2> QED BY <1>2, <2>2
<1>5. /\ DOMAIN stopCall' = Requests /\ stopCall'[c] = StopIdle
      /\ \A e \in Requests \ {c} : stopCall'[e] = stopCall[e]
  BY DEF CommitStops, StopsInv, StopTypes
<1>6. stop' \in [StopIds -> Stop]
  BY <1>2, <1>3
<1> QED BY <1>1, <1>4, <1>5, <1>6

\* Stops that are changed keep their places.
LEMMA ChangesKeepNumbers ==
    ASSUME StopsInv, ~jostled, NEW c \in Requests, CommitStops(c),
           stopCall[c].op \in {"update", "advance"}
    PROVE  /\ Numbered' /\ Stops' = Stops
           /\ \A i \in Stops : stop'[i].order = stop[i].order
<1>1. \A i \in DOMAIN stopCall[c].new :
          /\ i \in Stops /\ stopCall[c].new[i].status # "none"
          /\ stopCall[c].new[i].order = stop[i].order
  BY CommitWrites DEF StopsInv, StillFits
<1>2. \A i \in StopIds : /\ stop'[i].order = stop[i].order
                         /\ stop'[i].status = "none" <=> stop[i].status = "none"
  BY <1>1, CommitWrites DEF Stops
<1>3. Stops' = Stops
  BY <1>2 DEF Stops
<1>4. \A i \in Stops : stop'[i].order = stop[i].order
  BY <1>2 DEF Stops
<1> QED BY <1>3, <1>4 DEF StopsInv, Numbered

\* Stops that are added go to the end.
LEMMA AddsKeepNumbers ==
    ASSUME StopsInv, ~jostled, NEW c \in Requests, CommitStops(c),
           stopCall[c].op = "add"
    PROVE  Numbered'
<1> DEFINE q == stopCall[c]
           ids == DOMAIN q.new
           n == Cardinality(Stops)
<1>1. /\ ids \subseteq StopIds /\ ids \intersect Stops = {} /\ Fits(ids)
      /\ \A i \in ids : /\ q.new[i].status # "none"
                        /\ q.new[i].order = n + Rank(i, ids)
  BY CommitWrites DEF StopsInv, StillFits, IsStopCall
<1>2. /\ \A i \in ids : stop'[i] = q.new[i]
      /\ \A i \in StopIds \ ids : stop'[i] = stop[i]
  BY <1>1, CommitWrites
<1>3. Stops' = Stops \union ids
  BY ZenonT(30), <1>1, <1>2 DEF Stops
<1>4. /\ n \in Nat /\ Cardinality(ids) \in Nat
      /\ IsFiniteSet(Stops) /\ IsFiniteSet(ids)
  BY <1>1, StopsAreFinite DEF Stops
<1>5. Cardinality(Stops') = n + Cardinality(ids)
  <2>1. Cardinality(Stops \intersect ids) = 0
    BY <1>1, FS_EmptySet
  <2>2. Cardinality(Stops \union ids)
            = n + Cardinality(ids) - Cardinality(Stops \intersect ids)
    BY <1>4, FS_Union
  <2> QED BY <1>3, <1>4, <2>1, <2>2
<1>6. /\ \A i \in ids : Rank(i, ids) \in 1 .. Cardinality(ids)
      /\ \A i, j \in ids : Rank(i, ids) = Rank(j, ids) => i = j
  BY <1>1, RanksAreDistinct
<1>7. \A i \in ids : stop'[i].order = n + Rank(i, ids)
  BY <1>1, <1>2
<1>8. /\ \A i \in Stops : stop'[i].order = stop[i].order /\ stop[i].order \in 1 .. n
      /\ \A i, j \in Stops : stop[i].order = stop[j].order => i = j
  BY <1>1, <1>2 DEF Stops, StopsInv, Numbered
<1>9. \A i \in Stops' : stop'[i].order \in 1 .. Cardinality(Stops')
  BY <1>3, <1>4, <1>5, <1>6, <1>7, <1>8
<1>10. ASSUME NEW i \in Stops', NEW j \in Stops', stop'[i].order = stop'[j].order
       PROVE  i = j
  <2>1. CASE i \in Stops /\ j \in Stops
    BY <1>8, <1>10, <2>1
  <2>2. CASE i \in ids /\ j \in ids
    <3>1. n + Rank(i, ids) = n + Rank(j, ids)
      BY <1>7, <1>10, <2>2
    <3> QED BY <1>4, <1>6, <2>2, <3>1
  <2>3. ASSUME NEW k \in Stops, NEW m \in ids PROVE stop'[k].order # stop'[m].order
    <3>1. stop'[k].order \in 1 .. n
      BY <1>8
    <3>2. stop'[m].order = n + Rank(m, ids) /\ Rank(m, ids) \in 1 .. Cardinality(ids)
      BY <1>6, <1>7
    <3> QED BY <1>4, <3>1, <3>2
  <2> QED BY <1>3, <1>10, <2>1, <2>2, <2>3
<1>11. Cardinality(Stops') <= MaxWaypoints
  BY <1>1, <1>5 DEF Fits
<1> QED BY <1>9, <1>10, <1>11 DEF Numbered

\* When a stop is removed, those after it move up by one.
LEMMA RemovalKeepsNumbers ==
    ASSUME StopsInv, ~jostled, NEW c \in Requests, CommitStops(c),
           stopCall[c].op = "remove"
    PROVE  Numbered'
<1> DEFINE q == stopCall[c]
           n == Cardinality(Stops)
<1>1. PICK i \in Stops :
          /\ DOMAIN q.new = {i} \union MovedUp(i) /\ q.new[i] = NoStop
          /\ \A j \in MovedUp(i) : /\ q.new[j].status # "none"
                                   /\ q.new[j].order = stop[j].order - 1
  BY CommitWrites DEF StopsInv, StillFits
<1>2. n \in Nat /\ IsFiniteSet(Stops)
  BY StopsAreFinite DEF Stops
<1>3. /\ \A j \in Stops : j \in StopIds /\ stop[j].order \in 1 .. n
      /\ \A j, k \in Stops : stop[j].order = stop[k].order => j = k
      /\ n <= MaxWaypoints
  BY DEF Stops, StopsInv, Numbered
<1>4. i \notin MovedUp(i) /\ MovedUp(i) \subseteq Stops
  BY <1>2, <1>3 DEF MovedUp
<1>5. /\ stop'[i] = NoStop
      /\ \A j \in MovedUp(i) : stop'[j] = q.new[j]
      /\ \A j \in StopIds \ ({i} \union MovedUp(i)) : stop'[j] = stop[j]
  BY <1>1, <1>3, <1>4, CommitWrites
<1>6. Stops' = Stops \ {i}
  BY <1>1, <1>3, <1>4, <1>5, NoStopIsARow DEF Stops
<1>7. Cardinality(Stops') = n - 1
  BY <1>2, <1>6, FS_RemoveElement
<1>8. ASSUME NEW j \in Stops \ {i}
      PROVE  stop'[j].order =
                 IF stop[j].order > stop[i].order THEN stop[j].order - 1
                 ELSE stop[j].order
  <2>1. CASE j \in MovedUp(i)
    BY <1>1, <1>5, <2>1 DEF MovedUp
  <2>2. CASE j \notin MovedUp(i)
    BY <1>3, <1>5, <2>2 DEF MovedUp
  <2> QED BY <2>1, <2>2
<1>9. ASSUME NEW j \in Stops \ {i} PROVE stop'[j].order \in 1 .. (n - 1)
  <2>1. /\ stop[j].order \in 1 .. n /\ stop[i].order \in 1 .. n
        /\ stop[j].order # stop[i].order
    BY <1>3
  <2> QED BY <1>2, <1>8, <2>1
<1>10. ASSUME NEW j \in Stops \ {i}, NEW k \in Stops \ {i},
              stop'[j].order = stop'[k].order
       PROVE  j = k
  <2>1. /\ stop[j].order \in 1 .. n /\ stop[i].order \in 1 .. n
        /\ stop[k].order \in 1 .. n
        /\ stop[j].order # stop[i].order /\ stop[k].order # stop[i].order
    BY <1>3
  <2>2. stop[j].order = stop[k].order
    BY <1>2, <1>8, <1>10, <2>1
  <2> QED BY <1>3, <2>2
<1>11. Cardinality(Stops') <= MaxWaypoints
  BY <1>2, <1>3, <1>7, StopsAssumption
<1> QED BY <1>6, <1>7, <1>9, <1>10, <1>11 DEF Numbered

LEMMA CommitKeeps ==
    ASSUME StopsInv, NEW c \in Requests, CommitStops(c)
    PROVE  StopsInv'
<1> DEFINE q == stopCall[c]
<1>1. /\ StopTypes /\ IsStopCall(q) /\ stopCall'[c] = StopIdle
      /\ \A e \in Requests \ {c} : stopCall'[e] = stopCall[e]
  BY CommitWrites DEF StopsInv
<1>2. UNCHANGED <<modifiable, jostled>>
  BY DEF CommitStops
<1>3. StopTypes'
  BY <1>1, <1>2, CommitWrites DEF StopTypes
<1>4. ASSUME ~jostled
      PROVE  Numbered' /\ Apart'
             /\ \A e \in Requests : stopCall'[e] # StopIdle => StillFits(stopCall[e])'
  <2>1. q.op \in {"add", "update", "remove", "advance"}
    BY <1>1 DEF IsStopCall
  <2>2. Numbered'
    BY <1>4, <2>1, ChangesKeepNumbers, AddsKeepNumbers, RemovalKeepsNumbers
  <2>3. Apart'
    BY <1>1, <1>4, NoStopIsARow DEF StopsInv, Apart, Reordering
  <2>4. ASSUME NEW e \in Requests, stopCall'[e] # StopIdle
        PROVE  StillFits(stopCall[e])'
    <3> DEFINE x == stopCall[e]
    <3>1. e # c /\ stopCall'[e] = x /\ x # StopIdle /\ IsStopCall(x)
      BY <1>1, <2>4 DEF StopTypes
    <3>2. /\ StillFits(x)
          /\ DOMAIN x.new \intersect DOMAIN q.new = {}
          /\ ~(x.op \in Reordering /\ q.op \in Reordering)
      BY <1>4, <3>1 DEF StopsInv, Apart
    <3>3. \A i \in DOMAIN x.new : stop'[i] = stop[i]
      BY <1>4, <3>1, <3>2, CommitWrites DEF IsStopCall
    <3>4. CASE q.op \in {"update", "advance"}
      <4>1. Stops' = Stops /\ \A i \in Stops : stop'[i].order = stop[i].order
        BY <1>4, <3>4, ChangesKeepNumbers
      <4>2. \A i \in Stops : MovedUp(i)' = MovedUp(i) /\ MovedUp(i) \subseteq Stops
        BY <4>1 DEF MovedUp
      <4>3. Fits(DOMAIN x.new)' <=> Fits(DOMAIN x.new)
        BY <3>1, <4>1 DEF Fits
      <4>4. CASE x.op = "add"
        BY <3>1, <3>2, <3>3, <4>1, <4>3, <4>4 DEF StillFits
      <4>5. CASE x.op \in {"update", "advance"}
        BY <3>1, <3>2, <3>3, <4>1, <4>5 DEF StillFits
      <4>6. CASE x.op = "remove"
        <5>1. PICK i \in Stops :
                  /\ DOMAIN x.new = {i} \union MovedUp(i) /\ x.new[i] = NoStop
                  /\ \A j \in MovedUp(i) : /\ x.new[j].status # "none"
                                           /\ x.new[j].order = stop[j].order - 1
          BY <3>2, <4>6 DEF StillFits
        <5> QED BY <3>1, <3>2, <3>3, <4>1, <4>2, <4>6, <5>1 DEF StillFits
      <4> QED BY <3>1, <4>4, <4>5, <4>6 DEF IsStopCall
    <3>5. CASE q.op \in Reordering
      <4>1. x.op \in {"update", "advance"}
        BY <3>1, <3>2, <3>5 DEF IsStopCall, Reordering
      <4>2. \A i \in DOMAIN x.new : i \in Stops => i \in Stops'
        BY <3>3 DEF Stops
      <4> QED BY <3>1, <3>2, <3>3, <4>1, <4>2 DEF StillFits
    <3> QED BY <2>1, <3>4, <3>5 DEF Reordering
  <2> QED BY <2>2, <2>3, <2>4
<1> QED BY <1>2, <1>3, <1>4 DEF StopsInv

LEMMA StopCallLostKeeps ==
    ASSUME StopsInv, NEW c \in Requests, StopCallLost(c)
    PROVE  StopsInv'
<1>1. /\ UNCHANGED <<stop, modifiable, jostled>> /\ stopCall'[c] = StopIdle
      /\ \A e \in Requests \ {c} : stopCall'[e] = stopCall[e]
      /\ DOMAIN stopCall' = Requests
  BY DEF StopCallLost, StopsInv, StopTypes
<1>2. StopTypes'
  BY <1>1 DEF StopsInv, StopTypes
<1>3. ASSUME ~jostled
      PROVE  Numbered' /\ Apart'
             /\ \A e \in Requests : stopCall'[e] # StopIdle => StillFits(stopCall[e])'
  <2>1. Stops' = Stops /\ stop' = stop
    BY <1>1 DEF Stops
  <2>2. Numbered'
    BY <1>3, <2>1 DEF StopsInv, Numbered
  <2>3. Apart'
    BY <1>1, <1>3, NoStopIsARow DEF StopsInv, Apart, Reordering
  <2>4. ASSUME NEW e \in Requests, stopCall'[e] # StopIdle
        PROVE  StillFits(stopCall[e])'
    <3>1. stopCall'[e] = stopCall[e] /\ StillFits(stopCall[e])
      BY <1>1, <1>3, <2>4 DEF StopsInv
    <3> QED BY <3>1, <2>1 DEF StillFits, Fits, MovedUp
  <2> QED BY <2>2, <2>3, <2>4
<1> QED BY <1>1, <1>2, <1>3 DEF StopsInv

LEMMA StopsInvInit ==
    StopsInit => StopsInv
<1> SUFFICES ASSUME StopsInit PROVE StopsInv
  OBVIOUS
<1>1. Stops = {} /\ Cardinality(Stops) = 0
  BY FS_EmptySet, NoStopIsARow DEF StopsInit, Stops
<1>2. Numbered
  BY <1>1, StopsAssumption DEF Numbered
<1>3. StopTypes /\ \A c \in Requests : stopCall[c] = StopIdle
  BY NoStopIsARow DEF StopsInit, StopTypes
<1>4. Apart
  BY <1>3, NoStopIsARow DEF Apart, Reordering
<1> QED BY <1>2, <1>3, <1>4 DEF StopsInv

LEMMA StopsInvStep ==
    StopsInv /\ [StopsStep]_stopVars => StopsInv'
<1> SUFFICES ASSUME StopsInv, [StopsStep]_stopVars PROVE StopsInv'
  OBVIOUS
<1>1. ASSUME NEW c \in Requests, NEW ids \in SUBSET StopIds, AddStops(c, ids)
      PROVE  StopsInv'
  BY <1>1, AddStopsKeeps
<1>2. ASSUME NEW c \in Requests, NEW i \in StopIds,
             UpdateStop(c, i) \/ RemoveStop(c, i)
      PROVE  StopsInv'
  BY <1>2, UpdateStopKeeps, RemoveStopKeeps
<1>3. ASSUME NEW c \in Requests, NEW i \in StopIds, NEW status \in StopStatus,
             AdvanceStop(c, i, status)
      PROVE  StopsInv'
  BY <1>3, AdvanceStopKeeps
<1>4. ASSUME NEW c \in Requests, CommitStops(c) \/ StopCallLost(c)
      PROVE  StopsInv'
  BY <1>4, CommitKeeps, StopCallLostKeeps
<1>5. CASE RideMovesOn \/ UNCHANGED stopVars
  <2>1. UNCHANGED <<stop, stopCall, jostled>> /\ modifiable' \in BOOLEAN
    BY <1>5 DEF RideMovesOn, stopVars, StopsInv, StopTypes
  <2>2. Stops' = Stops
    BY <2>1 DEF Stops
  <2>3. StopTypes'
    BY <2>1 DEF StopsInv, StopTypes
  <2>4. ~jostled => Numbered' /\ Apart'
    BY <2>1, <2>2 DEF StopsInv, Numbered, Apart
  <2>5. ASSUME ~jostled, NEW c \in Requests, stopCall[c] # StopIdle
        PROVE  StillFits(stopCall[c])'
    <3>1. StillFits(stopCall[c])
      BY <2>5 DEF StopsInv
    <3> QED BY <2>1, <2>2, <3>1 DEF StillFits, Fits, MovedUp
  <2> QED BY <2>1, <2>3, <2>4, <2>5 DEF StopsInv
<1> QED BY <1>1, <1>2, <1>3, <1>4, <1>5 DEF StopsStep

\* The stops of a ride are numbered 1 to n and are at most MAX_WAYPOINTS, for any
\* number of requests, unless additions and removals overlapped
\* (add_waypoints_bulk, remove_waypoint).
THEOREM StopsAreInOrder == StopsSpec => []StopsInOrder
<1>1. StopsInv => StopsInOrder
  BY NumberedIsInOrder DEF StopsInv, StopsInOrder, Numbered
<1> QED BY <1>1, StopsInvInit, StopsInvStep, PTL DEF StopsSpec

-----------------------------------------------------------------------------
(* Ratings: the average a request has computed is that of the rows as they  *)
(* will be when it commits, so no sum has to be taken apart.                *)

RatingFields == {"op", "phase", "ride", "role", "copy", "new", "was", "average"}

RatingCallOK(q) ==
    /\ q.op \in Rating =>
           /\ DOMAIN q = RatingFields
           /\ q.phase \in {"loaded", "flushed"} /\ q.ride \in RatedRides
           /\ q.role \in Role /\ q.copy \in RideGiven /\ q.new \in RideGiven
           /\ q.phase = "loaded" => q.average = q.was
           /\ q.role = "driver" =>
                  q.phase = "loaded" /\ q.new.driver_rating = q.copy.driver_rating
    /\ q.op = "tip" => DOMAIN q = {"op", "ride", "row"} /\ q.ride \in RatedRides

\* The average over the rows, or the old one when no ride is rated.
AverageOr(rows, old) ==
    IF \E r \in RatedRides : rows[r].driver_rating # Unrated
    THEN AverageOf(rows) ELSE old

\* What a rating will make of these rows.
WrittenTo(rows, q) == [rows EXCEPT ![q.ride] = Merge(rows[q.ride], q.copy, q.new)]

\* A rating that no other overlaps with knows the row, the average it will
\* replace, and the one it will write.
KnowsRatings(q) ==
    /\ q.copy = given[q.ride]
    /\ q.phase = "flushed" =>
           q.was = average /\ q.average = AverageOr(WrittenTo(given, q), average)
    /\ q.op = "feedback" => <<q.ride, q.role, 1>> \notin feedback

TipAddsUp(r) ==
    /\ tip[r].intents \in Nat
    /\ ~tip[r].lost =>
           tip[r].intents <= 1 /\ (tip[r].intents = 1 <=> tip[r].recorded \/ Inserting(r))

RatingsInv ==
    /\ given \in [RatedRides -> RideGiven]
    /\ DOMAIN ratingCall = Requests /\ tip \in [RatedRides -> TipState]
    /\ \A c \in Requests : RatingCallOK(ratingCall[c])
    /\ ~blurred =>
           /\ average = AverageOr(given, average)
           /\ \A row \in feedback : row[3] = 1
           /\ \A c \in Requests : ratingCall[c].op \in Rating =>
                  /\ KnowsRatings(ratingCall[c])
                  /\ \A e \in Requests : ratingCall[e].op \in Rating => e = c
    /\ \A r \in RatedRides : TipAddsUp(r)

-----------------------------------------------------------------------------
(* Rows.                                                                    *)

LEMMA MergeOfRatings ==
    ASSUME NEW row \in RideGiven, NEW copy \in RideGiven, NEW new \in RideGiven
    PROVE  /\ Merge(row, copy, new) \in RideGiven
           /\ copy = row => Merge(row, copy, new) = new
           /\ new.driver_rating = copy.driver_rating =>
                  Merge(row, copy, new).driver_rating = row.driver_rating
<1> DEFINE after == Merge(row, copy, new)
<1>1. DOMAIN row = {"driver_rating", "rider_rating", "tip"}
  BY DEF RideGiven
<1>2. after = [col \in {"driver_rating", "rider_rating", "tip"} |->
                  IF new[col] = copy[col] THEN row[col] ELSE new[col]]
  BY <1>1 DEF Merge
<1>3. /\ after.driver_rating = IF new.driver_rating = copy.driver_rating
                               THEN row.driver_rating ELSE new.driver_rating
      /\ after.rider_rating = IF new.rider_rating = copy.rider_rating
                              THEN row.rider_rating ELSE new.rider_rating
      /\ after.tip = IF new.tip = copy.tip THEN row.tip ELSE new.tip
  BY <1>2
<1>4. after = [driver_rating |-> after.driver_rating,
               rider_rating |-> after.rider_rating, tip |-> after.tip]
  BY <1>2
<1>5. after \in RideGiven
  BY <1>3, <1>4 DEF RideGiven
<1>6. copy = row => after = new
  BY <1>3, <1>4 DEF RideGiven
<1> QED BY <1>3, <1>5, <1>6

\* The average depends on the drivers' ratings alone.
LEMMA SameStarsSameAverage ==
    ASSUME NEW rows, NEW others, NEW old,
           \A r \in RatedRides : rows[r].driver_rating = others[r].driver_rating
    PROVE  AverageOr(rows, old) = AverageOr(others, old)
<1> DEFINE rated(x) == {r \in RatedRides : x[r].driver_rating # Unrated}
           stars(x) == [r \in rated(x) |-> x[r].driver_rating]
<1>1. rated(rows) = rated(others)
  OBVIOUS
<1>2. stars(rows) = stars(others)
  BY <1>1
<1>3. AverageOf(rows) = AverageOf(others)
  BY <1>1, <1>2 DEF AverageOf
<1> QED BY <1>3 DEF AverageOr

-----------------------------------------------------------------------------
(* Steps.                                                                   *)

\* A call that does not insert the tip of a ride, and turns into such another
\* one, does not change whether that tip is being inserted.
LEMMA InsertingOfOthers ==
    ASSUME NEW c \in Requests, NEW r,
           \A e \in Requests \ {c} : ratingCall'[e] = ratingCall[e],
           ~(ratingCall[c].op = "tip" /\ ratingCall[c].row /\ ratingCall[c].ride = r),
           ~(ratingCall'[c].op = "tip" /\ ratingCall'[c].row /\ ratingCall'[c].ride = r)
    PROVE  Inserting(r)' <=> Inserting(r)
BY DEF Inserting

LEMMA InsertingStays ==
    ASSUME RatingsInv, NEW c \in Requests,
           \A e \in Requests \ {c} : ratingCall'[e] = ratingCall[e],
           ~(ratingCall[c].op = "tip" /\ ratingCall[c].row),
           ~(ratingCall'[c].op = "tip" /\ ratingCall'[c].row),
           tip' = tip
    PROVE  \A r \in RatedRides : TipAddsUp(r)'
<1> SUFFICES ASSUME NEW r \in RatedRides PROVE TipAddsUp(r)'
  OBVIOUS
<1>1. Inserting(r)' <=> Inserting(r)
  BY InsertingOfOthers
<1> QED BY <1>1 DEF RatingsInv, TipAddsUp

LEMMA BeginRatingKeeps ==
    ASSUME RatingsInv, NEW c \in Requests, NEW op \in Rating, NEW r \in RatedRides,
           NEW role \in Role, NEW stars \in Stars, NEW tipped \in BOOLEAN,
           BeginRating(c, op, r, role, stars, tipped),
           op = "feedback" => <<r, role, 1>> \notin feedback
    PROVE  RatingsInv'
<1> DEFINE q == [op |-> op, phase |-> "loaded", ride |-> r, role |-> role,
                 copy |-> given[r], new |-> NewColumns(r, role, stars, tipped),
                 was |-> average, average |-> average]
<1>1. /\ ratingCall[c] = RatingIdle /\ ratingCall' = [ratingCall EXCEPT ![c] = q]
      /\ UNCHANGED <<given, average, feedback, tip>> /\ DOMAIN ratingCall = Requests
      /\ given[r] \in RideGiven
  BY DEF BeginRating, RatingsInv
<1>2. /\ ratingCall'[c] = q /\ DOMAIN ratingCall' = Requests
      /\ \A e \in Requests \ {c} : ratingCall'[e] = ratingCall[e]
  BY <1>1
<1>3. /\ q.new \in RideGiven
      /\ role = "driver" => q.new.driver_rating = q.copy.driver_rating
  <2>1. DOMAIN given[r] = {"driver_rating", "rider_rating", "tip"}
    BY <1>1 DEF RideGiven
  <2>2. CASE role = "rider"
    BY <1>1, <2>1, <2>2 DEF NewColumns, RideGiven
  <2>3. CASE role = "driver"
    BY <1>1, <2>1, <2>3 DEF NewColumns, RideGiven
  <2> QED BY <2>2, <2>3 DEF Role
<1>4. RatingCallOK(q)
  BY <1>1, <1>3 DEF RatingCallOK, RatingFields, Rating
<1>5. q.op # "tip" /\ ratingCall[c].op = "idle"
  BY <1>1 DEF Rating, RatingIdle
<1>6. \A x \in RatedRides : TipAddsUp(x)'
  BY <1>1, <1>2, <1>5, InsertingStays
<1>7. ASSUME ~blurred' PROVE
          /\ ~blurred
          /\ \A e \in Requests : ratingCall[e].op \notin Rating
  BY <1>7 DEF BeginRating, RatingsInv
<1>8. ASSUME ~blurred' PROVE
          \A e \in Requests : ratingCall'[e].op \in Rating =>
                  /\ KnowsRatings(ratingCall[e])'
                  /\ \A x \in Requests : ratingCall'[x].op \in Rating => x = e
  <2>1. KnowsRatings(ratingCall[c])'
    BY <1>1, <1>2 DEF KnowsRatings
  <2> QED BY <1>2, <1>7, <1>8, <2>1
<1>9. ASSUME ~blurred' PROVE average' = AverageOr(given, average)'
  BY <1>1, <1>7, <1>9 DEF RatingsInv
<1> QED BY <1>1, <1>2, <1>4, <1>6, <1>7, <1>8, <1>9 DEF RatingsInv

LEMMA RecomputeKeeps ==
    ASSUME RatingsInv, NEW c \in Requests, Recompute(c)
    PROVE  RatingsInv'
<1> DEFINE q == ratingCall[c]
           after == [q EXCEPT !.phase = "flushed", !.was = average,
                        !.average = AverageOr(WrittenTo(given, q), average)]
<1>1. /\ q.op \in Rating /\ q.role = "rider" /\ ratingCall' = [ratingCall EXCEPT ![c] = after]
      /\ UNCHANGED <<given, average, feedback, tip, blurred>> /\ DOMAIN ratingCall = Requests
  BY DEF Recompute, RatingsInv, AverageOr, Counted, WrittenTo
<1>2. RatingCallOK(q)
  BY DEF RatingsInv
<1>3. /\ DOMAIN after = RatingFields /\ after.phase = "flushed"
      /\ after.was = average /\ after.average = AverageOr(WrittenTo(given, q), average)
      /\ after.op = q.op /\ after.ride = q.ride /\ after.role = q.role
      /\ after.copy = q.copy /\ after.new = q.new
  BY <1>1, <1>2 DEF RatingCallOK, RatingFields
<1>4. /\ ratingCall'[c] = after /\ DOMAIN ratingCall' = Requests
      /\ \A e \in Requests \ {c} : ratingCall'[e] = ratingCall[e]
  BY <1>1
<1>5. RatingCallOK(after)
  BY <1>1, <1>2, <1>3 DEF RatingCallOK, Rating
<1>6. \A r \in RatedRides : TipAddsUp(r)'
  BY <1>1, <1>3, <1>4, InsertingStays DEF Rating
<1>7. ASSUME ~blurred, NEW e \in Requests, ratingCall'[e].op \in Rating
      PROVE  /\ KnowsRatings(ratingCall[e])'
             /\ \A x \in Requests : ratingCall'[x].op \in Rating => x = e
  <2>1. /\ KnowsRatings(q)
        /\ \A x \in Requests : ratingCall[x].op \in Rating => x = c
    BY <1>1, <1>7 DEF RatingsInv
  <2>2. e = c /\ \A x \in Requests : ratingCall'[x].op \in Rating => x = e
    BY <1>4, <1>7, <2>1
  <2>3. WrittenTo(given, after) = WrittenTo(given, q)
    BY <1>3 DEF WrittenTo
  <2>4. KnowsRatings(ratingCall[c])'
    BY <1>1, <1>3, <1>4, <2>1, <2>3 DEF KnowsRatings
  <2> QED BY <2>2, <2>4
<1>8. ~blurred => average' = AverageOr(given, average)'
  BY <1>1 DEF RatingsInv
<1>9. \A e \in Requests : RatingCallOK(ratingCall'[e])
  BY <1>4, <1>5 DEF RatingsInv
<1> QED BY <1>1, <1>4, <1>6, <1>7, <1>8, <1>9 DEF RatingsInv

LEMMA CommitRatingKeeps ==
    ASSUME RatingsInv, NEW c \in Requests, CommitRating(c)
    PROVE  RatingsInv'
<1> DEFINE q == ratingCall[c]
           new == Merge(given[q.ride], q.copy, q.new)
<1>1. /\ q.op \in Rating /\ (q.phase = "flushed" \/ q.role = "driver")
      /\ given' = [given EXCEPT ![q.ride] = new]
      /\ average' = IF q.average = q.was THEN average ELSE q.average
      /\ feedback' = IF q.op = "feedback"
             THEN feedback \union {<<q.ride, q.role,
                      IF <<q.ride, q.role, 1>> \in feedback THEN 2 ELSE 1>>}
             ELSE feedback
      /\ ratingCall' = [ratingCall EXCEPT ![c] = RatingIdle]
      /\ UNCHANGED <<tip, blurred>> /\ DOMAIN ratingCall = Requests
  BY DEF CommitRating, RatingsInv
<1>2. RatingCallOK(q) /\ given \in [RatedRides -> RideGiven]
  BY DEF RatingsInv
<1>3. /\ ratingCall'[c] = RatingIdle /\ DOMAIN ratingCall' = Requests
      /\ \A e \in Requests \ {c} : ratingCall'[e] = ratingCall[e]
      /\ RatingIdle.op = "idle"
  BY <1>1 DEF RatingIdle
<1>4. /\ given[q.ride] \in RideGiven /\ q.copy \in RideGiven /\ q.new \in RideGiven
      /\ q.ride \in RatedRides
  BY <1>1, <1>2 DEF RatingCallOK
<1>5. /\ new \in RideGiven
      /\ q.new.driver_rating = q.copy.driver_rating =>
             new.driver_rating = given[q.ride].driver_rating
  BY <1>4, MergeOfRatings
<1>6. given' \in [RatedRides -> RideGiven]
  BY <1>1, <1>2, <1>4, <1>5
<1>7. \A e \in Requests : RatingCallOK(ratingCall'[e])
  BY <1>3 DEF RatingsInv, RatingCallOK, Rating
<1>8. \A r \in RatedRides : TipAddsUp(r)'
  BY <1>1, <1>3, InsertingStays DEF Rating
<1>9. ASSUME ~blurred
      PROVE  /\ average' = AverageOr(given', average')
             /\ \A row \in feedback' : row[3] = 1
             /\ \A e \in Requests : ratingCall'[e].op \notin Rating
  <2>1. /\ KnowsRatings(q) /\ average = AverageOr(given, average)
        /\ \A row \in feedback : row[3] = 1
        /\ \A e \in Requests : ratingCall[e].op \in Rating => e = c
    BY <1>1, <1>9 DEF RatingsInv
  <2>2. \A e \in Requests : ratingCall'[e].op \notin Rating
    BY <1>3, <2>1 DEF Rating
  <2>3. \A row \in feedback' : row[3] = 1
    BY <1>1, <2>1 DEF KnowsRatings
  <2>4. CASE q.phase = "flushed"
    <3>1. WrittenTo(given, q) = given'
      BY <1>1 DEF WrittenTo
    <3>2. average' = AverageOr(given', average)
      BY <1>1, <2>1, <2>4, <3>1 DEF KnowsRatings
    <3>3. average' = AverageOr(given', average')
      BY <3>2 DEF AverageOr
    <3> QED BY <2>2, <2>3, <3>3
  <2>5. CASE q.phase # "flushed"
    <3>1. /\ q.role = "driver" /\ average' = average
          /\ q.new.driver_rating = q.copy.driver_rating
      BY <1>1, <1>2, <2>5 DEF RatingCallOK
    <3>2. \A r \in RatedRides : given'[r].driver_rating = given[r].driver_rating
      BY <1>1, <1>2, <1>5, <3>1
    <3>3. AverageOr(given', average) = AverageOr(given, average)
      BY <3>2, SameStarsSameAverage
    <3> QED BY <2>1, <2>2, <2>3, <3>1, <3>3
  <2> QED BY <2>2, <2>3, <2>4, <2>5
<1>10. ~blurred' => average' = AverageOr(given, average)'
  BY <1>1, <1>9 DEF AverageOr, AverageOf
<1> QED BY <1>1, <1>3, <1>6, <1>7, <1>8, <1>9, <1>10 DEF RatingsInv

\* What requests about other things do leaves the ratings alone.
LEMMA OtherCallsKeep ==
    ASSUME RatingsInv, NEW c \in Requests, NEW q,
           UNCHANGED <<given, average, feedback, blurred>>,
           ratingCall' = [ratingCall EXCEPT ![c] = q],
           q.op \notin Rating, RatingCallOK(q),
           tip' \in [RatedRides -> TipState],
           \A r \in RatedRides : TipAddsUp(r)'
    PROVE  RatingsInv'
<1>1. /\ ratingCall'[c] = q /\ DOMAIN ratingCall' = Requests
      /\ \A e \in Requests \ {c} : ratingCall'[e] = ratingCall[e]
  BY DEF RatingsInv
<1>2. \A e \in Requests : RatingCallOK(ratingCall'[e])
  BY <1>1 DEF RatingsInv
<1>3. ASSUME ~blurred, NEW e \in Requests, ratingCall'[e].op \in Rating
      PROVE  /\ KnowsRatings(ratingCall[e])'
             /\ \A x \in Requests : ratingCall'[x].op \in Rating => x = e
  <2>1. e # c /\ ratingCall'[e] = ratingCall[e]
    BY <1>1, <1>3
  <2>2. KnowsRatings(ratingCall[e])
    BY <1>3, <2>1 DEF RatingsInv
  <2>3. KnowsRatings(ratingCall[e])'
    BY <2>1, <2>2 DEF KnowsRatings
  <2> QED BY <1>1, <1>3, <2>1, <2>3 DEF RatingsInv
<1>4. ~blurred => average' = AverageOr(given, average)'
  BY DEF RatingsInv
<1> QED BY <1>1, <1>2, <1>3, <1>4 DEF RatingsInv

LEMMA IdleIsOK ==
    RatingCallOK(RatingIdle) /\ RatingIdle.op = "idle" /\ RatingIdle.op \notin Rating
BY DEF RatingCallOK, RatingIdle, Rating

\* Nor do requests that change no tip.
LEMMA PlainCallsKeep ==
    ASSUME RatingsInv, NEW c \in Requests, NEW q,
           ratingCall' = [ratingCall EXCEPT ![c] = q],
           UNCHANGED <<given, average, feedback, tip, blurred>>,
           q.op \notin Rating, RatingCallOK(q),
           ~(ratingCall[c].op = "tip" /\ ratingCall[c].row),
           ~(q.op = "tip" /\ q.row)
    PROVE  RatingsInv'
<1>1. ratingCall'[c] = q /\ \A e \in Requests \ {c} : ratingCall'[e] = ratingCall[e]
  BY DEF RatingsInv
<1>2. \A x \in RatedRides : TipAddsUp(x)'
  BY <1>1, InsertingStays
<1>3. tip' \in [RatedRides -> TipState]
  BY DEF RatingsInv
<1> QED BY <1>2, <1>3, OtherCallsKeep

LEMMA CommitRiderRatingKeeps ==
    ASSUME RatingsInv, NEW c \in Requests, CommitRiderRating(c)
    PROVE  RatingsInv'
<1>1. /\ ratingCall[c].op = "rider" /\ ratingCall' = [ratingCall EXCEPT ![c] = RatingIdle]
      /\ UNCHANGED <<given, average, feedback, tip, blurred>>
  BY DEF CommitRiderRating
<1> QED BY <1>1, IdleIsOK, PlainCallsKeep

LEMMA BeginOthersKeeps ==
    ASSUME RatingsInv, NEW c \in Requests, NEW r \in RatedRides,
           BeginRiderRating(c, r) \/ BeginTip(c, r)
    PROVE  RatingsInv'
<1>1. CASE BeginRiderRating(c, r)
  <2> DEFINE q == [op |-> "rider", ride |-> r]
  <2>1. q.op \notin Rating /\ RatingCallOK(q) /\ q.op # "tip"
    BY DEF RatingCallOK, Rating
  <2>2. /\ ratingCall[c].op = "idle" /\ ratingCall' = [ratingCall EXCEPT ![c] = q]
        /\ UNCHANGED <<given, average, feedback, tip, blurred>>
    BY <1>1, IdleIsOK DEF BeginRiderRating
  <2> HIDE DEF q
  <2> QED BY <2>1, <2>2, PlainCallsKeep
<1>2. CASE BeginTip(c, r)
  <2> DEFINE q == [op |-> "tip", ride |-> r, row |-> FALSE]
  <2>1. q.op \notin Rating /\ RatingCallOK(q) /\ ~q.row
    BY DEF RatingCallOK, Rating
  <2>2. /\ ratingCall[c].op = "idle" /\ ratingCall' = [ratingCall EXCEPT ![c] = q]
        /\ UNCHANGED <<given, average, feedback, tip, blurred>>
    BY <1>2, IdleIsOK DEF BeginTip
  <2> HIDE DEF q
  <2> QED BY <2>1, <2>2, PlainCallsKeep
<1> QED BY <1>1, <1>2

\* A tip's row keeps others out until its request has ended.
LEMMA InsertTipKeeps ==
    ASSUME RatingsInv, NEW c \in Requests, InsertTip(c)
    PROVE  RatingsInv'
<1> DEFINE q == ratingCall[c]
<1>1. /\ q.op = "tip" /\ ~q.row /\ Unique(q.ride) /\ tip[q.ride].intents < 2
      /\ tip' = [tip EXCEPT ![q.ride].intents = @ + 1]
      /\ ratingCall' = [ratingCall EXCEPT ![c].row = TRUE]
      /\ UNCHANGED <<given, average, feedback, blurred>>
  BY DEF InsertTip
<1> DEFINE after == [q EXCEPT !.row = TRUE]
<1>2. PICK r \in RatedRides :
          /\ r = q.ride /\ DOMAIN q = {"op", "ride", "row"}
          /\ DOMAIN ratingCall = Requests
  BY <1>1 DEF RatingsInv, RatingCallOK
<1>3. ratingCall' = [ratingCall EXCEPT ![c] = after]
  BY <1>1
<1>4. /\ ratingCall'[c] = after /\ \A e \in Requests \ {c} : ratingCall'[e] = ratingCall[e]
      /\ after.op = "tip" /\ after.ride = r /\ after.row = TRUE
      /\ DOMAIN after = {"op", "ride", "row"}
  BY <1>1, <1>2, <1>3
<1>5. /\ r = q.ride /\ tip[r] \in TipState
      /\ \A x \in RatedRides \ {r} : tip'[x] = tip[x]
      /\ tip'[r] = [tip[r] EXCEPT !.intents = @ + 1]
  BY <1>1, <1>2 DEF RatingsInv
<1>6. /\ tip'[r] \in TipState /\ tip'[r].intents = tip[r].intents + 1
      /\ tip'[r].lost = tip[r].lost /\ tip'[r].recorded = tip[r].recorded
  BY <1>1, <1>5 DEF TipState
<1>7. TipAddsUp(r)'
  <2>1. Inserting(r)'
    BY <1>4 DEF Inserting
  <2>2. tip[r].intents \in Nat /\ (~tip[r].lost => tip[r].intents <= 1 /\ tip[r].intents # 1)
    BY <1>1, <1>5 DEF RatingsInv, TipAddsUp, Unique
  <2> QED BY <1>6, <2>1, <2>2 DEF TipAddsUp
<1>8. ASSUME NEW x \in RatedRides \ {r} PROVE TipAddsUp(x)'
  <2>1. q.ride # x /\ after.ride # x
    BY <1>4
  <2>2. Inserting(x)' <=> Inserting(x)
    BY <1>4, <2>1, InsertingOfOthers
  <2> QED BY <1>5, <2>2 DEF RatingsInv, TipAddsUp
<1>9. RatingCallOK(after) /\ after.op \notin Rating
  BY <1>2, <1>4 DEF RatingCallOK, Rating
<1>10. tip' \in [RatedRides -> TipState]
  BY <1>1, <1>5, <1>6 DEF RatingsInv
<1> QED BY <1>1, <1>3, <1>7, <1>8, <1>9, <1>10, OtherCallsKeep

LEMMA CommitTipKeeps ==
    ASSUME RatingsInv, NEW c \in Requests, CommitTip(c)
    PROVE  RatingsInv'
<1> DEFINE q == ratingCall[c]
<1>1. /\ q.op = "tip" /\ q.row
      /\ tip' = [tip EXCEPT ![q.ride].recorded = TRUE]
      /\ ratingCall' = [ratingCall EXCEPT ![c] = RatingIdle]
      /\ UNCHANGED <<given, average, feedback, blurred>>
  BY DEF CommitTip
<1>2. PICK r \in RatedRides : r = q.ride
  BY <1>1 DEF RatingsInv, RatingCallOK
<1>3. ratingCall'[c] = RatingIdle /\ \A e \in Requests \ {c} : ratingCall'[e] = ratingCall[e]
  BY <1>1 DEF RatingsInv
<1>4. /\ r = q.ride /\ tip[r] \in TipState /\ Inserting(r)
      /\ \A x \in RatedRides \ {r} : tip'[x] = tip[x]
      /\ tip'[r] = [tip[r] EXCEPT !.recorded = TRUE]
  <2>1. Inserting(r)
    BY <1>1, <1>2 DEF Inserting
  <2> QED BY <1>1, <1>2, <2>1 DEF RatingsInv
<1>5. /\ tip'[r] \in TipState /\ tip'[r].intents = tip[r].intents
      /\ tip'[r].lost = tip[r].lost /\ tip'[r].recorded
  BY <1>4 DEF TipState
<1>6. TipAddsUp(r)'
  BY <1>4, <1>5 DEF RatingsInv, TipAddsUp
<1>7. ASSUME NEW x \in RatedRides \ {r} PROVE TipAddsUp(x)'
  <2>1. Inserting(x)' <=> Inserting(x)
    BY <1>3, <1>4, IdleIsOK, InsertingOfOthers
  <2> QED BY <1>4, <2>1 DEF RatingsInv, TipAddsUp
<1>8. tip' \in [RatedRides -> TipState]
  BY <1>1, <1>4, <1>5 DEF RatingsInv
<1> QED BY <1>1, <1>6, <1>7, <1>8, IdleIsOK, OtherCallsKeep

\* A request that dies with its row in the table takes it back, not the intent.
LEMMA RatingCallLostKeeps ==
    ASSUME RatingsInv, NEW c \in Requests, RatingCallLost(c)
    PROVE  RatingsInv'
<1> DEFINE q == ratingCall[c]
<1>1. /\ ratingCall' = [ratingCall EXCEPT ![c] = RatingIdle]
      /\ tip' = IF q.op = "tip" /\ q.row THEN [tip EXCEPT ![q.ride].lost = TRUE] ELSE tip
      /\ UNCHANGED <<given, average, feedback, blurred>>
  BY DEF RatingCallLost
<1>2. ratingCall'[c] = RatingIdle /\ \A e \in Requests \ {c} : ratingCall'[e] = ratingCall[e]
  BY <1>1 DEF RatingsInv
<1>3. CASE ~(q.op = "tip" /\ q.row)
  <2>1. tip' = tip /\ tip' \in [RatedRides -> TipState]
    BY <1>1, <1>3 DEF RatingsInv
  <2>2. \A r \in RatedRides : TipAddsUp(r)'
    BY <1>2, <1>3, <2>1, IdleIsOK, InsertingStays
  <2> QED BY <1>1, <2>1, <2>2, IdleIsOK, OtherCallsKeep
<1>4. CASE q.op = "tip" /\ q.row
  <2>1. PICK r \in RatedRides : r = q.ride
    BY <1>4 DEF RatingsInv, RatingCallOK
  <2>2. /\ r = q.ride /\ tip[r] \in TipState
        /\ \A x \in RatedRides \ {r} : tip'[x] = tip[x]
        /\ tip'[r] = [tip[r] EXCEPT !.lost = TRUE]
    BY <1>1, <1>4, <2>1 DEF RatingsInv
  <2>3. /\ tip'[r] \in TipState /\ tip'[r].intents = tip[r].intents
        /\ tip'[r].lost
    BY <2>2 DEF TipState
  <2>4. TipAddsUp(r)'
    BY <2>2, <2>3 DEF RatingsInv, TipAddsUp
  <2>5. ASSUME NEW x \in RatedRides \ {r} PROVE TipAddsUp(x)'
    <3>1. Inserting(x)' <=> Inserting(x)
      BY <1>2, <2>2, IdleIsOK, InsertingOfOthers
    <3> QED BY <2>2, <3>1 DEF RatingsInv, TipAddsUp
  <2>6. tip' \in [RatedRides -> TipState]
    BY <1>1, <1>4, <2>2, <2>3 DEF RatingsInv
  <2> QED BY <1>1, <2>4, <2>5, <2>6, IdleIsOK, OtherCallsKeep
<1> QED BY <1>3, <1>4

LEMMA TipWindowEndsKeeps ==
    ASSUME RatingsInv, NEW r \in RatedRides, TipWindowEnds(r)
    PROVE  RatingsInv'
<1>1. /\ tip' = [tip EXCEPT ![r].over = TRUE] /\ tip[r] \in TipState
      /\ UNCHANGED <<given, average, feedback, ratingCall, blurred>>
  BY DEF TipWindowEnds, RatingsInv
<1>2. /\ tip' \in [RatedRides -> TipState]
      /\ \A x \in RatedRides : /\ tip'[x].intents = tip[x].intents
                               /\ tip'[x].lost = tip[x].lost
                               /\ tip'[x].recorded = tip[x].recorded
  BY <1>1 DEF RatingsInv, TipState
<1>3. \A x \in RatedRides : TipAddsUp(x)'
  BY <1>1, <1>2 DEF RatingsInv, TipAddsUp, Inserting
<1>4. \A c \in Requests : KnowsRatings(ratingCall[c])' <=> KnowsRatings(ratingCall[c])
  BY <1>1 DEF KnowsRatings
<1>5. average' = AverageOr(given, average)' <=> average = AverageOr(given, average)
  BY <1>1
<1> QED BY <1>1, <1>2, <1>3, <1>4, <1>5 DEF RatingsInv

LEMMA RatingsInvInit ==
    RatingsInit => RatingsInv
<1> SUFFICES ASSUME RatingsInit PROVE RatingsInv
  OBVIOUS
<1>1. given \in [RatedRides -> RideGiven] /\ tip \in [RatedRides -> TipState]
  BY DEF RatingsInit, RideGiven, TipState, Unrated
<1>2. \A c \in Requests : ratingCall[c] = RatingIdle
  BY DEF RatingsInit
<1>3. average = AverageOr(given, average)
  BY DEF RatingsInit, AverageOr
<1>4. \A r \in RatedRides : TipAddsUp(r)
  BY <1>2, IdleIsOK DEF RatingsInit, TipAddsUp, Inserting
<1> QED BY ZenonT(30), <1>1, <1>2, <1>3, <1>4, IdleIsOK DEF RatingsInit, RatingsInv

LEMMA RatingsInvStep ==
    RatingsInv /\ [RatingsStep]_ratingVars => RatingsInv'
<1> SUFFICES ASSUME RatingsInv, [RatingsStep]_ratingVars PROVE RatingsInv'
  OBVIOUS
<1>1. ASSUME NEW c \in Requests, NEW r \in RatedRides, NEW role \in Role,
             NEW stars \in Stars, NEW tipped \in BOOLEAN,
             \/ RateRide(c, r, role, stars, tipped)
             \/ SubmitFeedback(c, r, role, stars, tipped)
      PROVE  RatingsInv'
  <2>1. CASE RateRide(c, r, role, stars, tipped)
    <3>1. BeginRating(c, "rate", r, role, stars, tipped) /\ "rate" \in Rating
      BY <2>1 DEF RateRide, Rating
    <3> QED BY <3>1, BeginRatingKeeps
  <2>2. CASE SubmitFeedback(c, r, role, stars, tipped)
    <3>1. /\ BeginRating(c, "feedback", r, role, stars, tipped) /\ "feedback" \in Rating
          /\ <<r, role, 1>> \notin feedback
      BY <2>2 DEF SubmitFeedback, Rating
    <3> QED BY <3>1, BeginRatingKeeps
  <2> QED BY <1>1, <2>1, <2>2
<1>2. ASSUME NEW c \in Requests, NEW r \in RatedRides,
             BeginRiderRating(c, r) \/ BeginTip(c, r)
      PROVE  RatingsInv'
  BY <1>2, BeginOthersKeeps
<1>3. ASSUME NEW c \in Requests,
             \/ Recompute(c) \/ CommitRating(c)
             \/ InsertTip(c) \/ CommitTip(c) \/ RatingCallLost(c)
      PROVE  RatingsInv'
  BY <1>3, RecomputeKeeps, CommitRatingKeeps, InsertTipKeeps, CommitTipKeeps,
     RatingCallLostKeeps
<1>4. ASSUME NEW c \in Requests, CommitRiderRating(c) PROVE RatingsInv'
  BY <1>4, CommitRiderRatingKeeps
<1>5. ASSUME NEW r \in RatedRides, TipWindowEnds(r) PROVE RatingsInv'
  BY <1>5, TipWindowEndsKeeps
<1>6. CASE UNCHANGED ratingVars
  <2>1. UNCHANGED <<given, average, feedback, tip, ratingCall, blurred>>
    BY <1>6 DEF ratingVars
  <2>2. \A r \in RatedRides : TipAddsUp(r)'
    BY <2>1 DEF RatingsInv, TipAddsUp, Inserting
  <2> QED BY <2>1, <2>2 DEF RatingsInv, KnowsRatings
<1> QED BY <1>1, <1>2, <1>3, <1>4, <1>5, <1>6 DEF RatingsStep

\* Averages, feedback and tips add up, for any rides, ratings and requests
\* (update_driver_rating_avg, submit_feedback, submit_tip).
THEOREM RatingsDoAddUp == RatingsSpec => []RatingsAddUp
<1>1. RatingsInv => RatingsAddUp
  BY DEF RatingsInv, RatingsAddUp, AverageOr, TipAddsUp
<1> QED BY <1>1, RatingsInvInit, RatingsInvStep, PTL DEF RatingsSpec

-----------------------------------------------------------------------------
(* Surge: a counter counts every request in its window, and an entry of the *)
(* waitlist is told once.                                                   *)

(* The counters.                                                            *)

\* The requests that a counter counts, and how long it lives on.
Covers(g) ==
    /\ demand[g].count \in Nat /\ demand[g].ttl \in Nat
    /\ DOMAIN asked[g] \subseteq 1 .. demand[g].count
    /\ \A n \in DOMAIN asked[g] :
           asked[g][n] \in Nat /\ asked[g][n] + demand[g].ttl >= Window

DemandInv ==
    /\ DOMAIN demand = Cells /\ DOMAIN asked = Cells
    /\ \A g \in Cells : DOMAIN demand[g] = {"count", "ttl"} /\ Covers(g)

LEMMA DemandInvInit ==
    SurgeInit => DemandInv
BY DEF SurgeInit, DemandInv, Covers

\* A request is counted, and the counter lives for as long as it is young.
LEMMA RecordDemandKeeps ==
    ASSUME DemandInv, NEW g \in Cells, RecordDemand(g)
    PROVE  DemandInv'
<1> DEFINE n == demand[g].count + 1
<1>1. /\ demand' = [demand EXCEPT ![g] = [count |-> n, ttl |-> Window]]
      /\ asked' = [asked EXCEPT ![g] =
             [i \in DOMAIN asked[g] \union {n} |->
                 IF i \in DOMAIN asked[g] THEN asked[g][i] ELSE 0]]
  BY DEF RecordDemand, WindowAnew
<1>2. /\ DOMAIN demand' = Cells /\ DOMAIN asked' = Cells
      /\ demand'[g] = [count |-> n, ttl |-> Window]
      /\ DOMAIN asked'[g] = DOMAIN asked[g] \union {n}
      /\ \A i \in DOMAIN asked'[g] :
             asked'[g][i] = IF i \in DOMAIN asked[g] THEN asked[g][i] ELSE 0
      /\ \A h \in Cells \ {g} : demand'[h] = demand[h] /\ asked'[h] = asked[h]
  BY <1>1 DEF DemandInv
<1>3. /\ demand[g].count \in Nat /\ DOMAIN asked[g] \subseteq 1 .. demand[g].count
      /\ \A i \in DOMAIN asked[g] : asked[g][i] \in Nat
  BY DEF DemandInv, Covers
<1>4. Covers(g)'
  BY <1>2, <1>3, SurgeAssumption DEF Covers
<1>5. \A h \in Cells \ {g} : Covers(h)' /\ DOMAIN demand'[h] = {"count", "ttl"}
  BY <1>2 DEF DemandInv, Covers
<1> QED BY <1>2, <1>4, <1>5 DEF DemandInv

\* When a counter expires, all the requests it counted are old.
LEMMA WindowStepKeeps ==
    ASSUME DemandInv, WindowStep
    PROVE  DemandInv'
<1>1. DOMAIN demand' = Cells /\ DOMAIN asked' = Cells
  BY DEF WindowStep
<1>2. ASSUME NEW g \in Cells
      PROVE  DOMAIN demand'[g] = {"count", "ttl"} /\ Covers(g)'
  <2>1. /\ DOMAIN demand[g] = {"count", "ttl"} /\ Covers(g)
        /\ Window \in Nat
    BY SurgeAssumption DEF DemandInv
  <2>2. /\ DOMAIN asked'[g] = {i \in DOMAIN asked[g] : asked[g][i] + 1 < Window}
        /\ \A i \in DOMAIN asked'[g] : asked'[g][i] = asked[g][i] + 1
    BY DEF WindowStep
  <2>3. CASE demand[g].ttl <= 1
    <3>1. demand'[g] = [count |-> 0, ttl |-> 0]
      BY <2>3 DEF WindowStep
    <3>2. DOMAIN asked'[g] = {}
      BY <2>1, <2>2, <2>3 DEF Covers
    <3> QED BY <3>1, <3>2 DEF Covers
  <2>4. CASE demand[g].ttl > 1
    <3>1. /\ demand'[g] = [demand[g] EXCEPT !.ttl = demand[g].ttl - 1]
      BY <2>1, <2>4 DEF WindowStep, Covers
    <3>2. /\ demand'[g].count = demand[g].count
          /\ demand'[g].ttl = demand[g].ttl - 1
          /\ DOMAIN demand'[g] = {"count", "ttl"}
      BY <2>1, <3>1
    <3> QED BY <2>1, <2>2, <2>4, <3>2 DEF Covers
  <2> QED BY <2>1, <2>3, <2>4 DEF Covers
<1> QED BY <1>1, <1>2 DEF DemandInv

LEMMA DemandInvStep ==
    DemandInv /\ [SurgeStep]_surgeVars => DemandInv'
<1>1. ASSUME DemandInv, UNCHANGED demandVars PROVE DemandInv'
  BY <1>1 DEF DemandInv, Covers, demandVars
<1> QED BY <1>1, RecordDemandKeeps, WindowStepKeeps
        DEF SurgeStep, DemandStep, surgeVars

\* The counter of a cell counts every request of the last five minutes
\* (record_demand).
THEOREM DemandIsCovered == SurgeSpec => []DemandCovers
<1>1. DemandInv => DemandCovers
  <2> SUFFICES ASSUME DemandInv, NEW g \in Cells
               PROVE  Cardinality(DOMAIN asked[g]) <= demand[g].count
    BY DEF DemandCovers
  <2>1. demand[g].count \in Nat /\ DOMAIN asked[g] \in SUBSET (1 .. demand[g].count)
    BY DEF DemandInv, Covers
  <2>2. /\ IsFiniteSet(1 .. demand[g].count)
        /\ Cardinality(1 .. demand[g].count) = demand[g].count
    <3>1. 1 \in Int /\ demand[g].count \in Int
      BY <2>1
    <3>2. /\ IsFiniteSet(1 .. demand[g].count)
          /\ Cardinality(1 .. demand[g].count)
                 = IF 1 > demand[g].count THEN 0 ELSE demand[g].count - 1 + 1
      BY <3>1, FS_Interval
    <3> QED BY <2>1, <3>2
  <2> QED BY <2>1, <2>2, FS_Subset
<1> QED BY <1>1, DemandInvInit, DemandInvStep, PTL DEF SurgeSpec

-----------------------------------------------------------------------------
(* The waitlist.                                                            *)

PassFields  == {"phase", "todo", "rows", "zones", "evening", "new"}
EntryFields == {"status", "origin", "max", "old"}

\* A pass has read active entries, and those it has still to go through stay so.
PassOK(run) ==
    /\ DOMAIN run = PassFields /\ run.phase \in {"idle", "entries", "zones"}
    /\ run.phase = "idle" => DOMAIN run.rows = {}
    /\ DOMAIN run.new = DOMAIN run.rows /\ run.todo \subseteq DOMAIN run.rows
    /\ run.phase = "entries" => run.todo = DOMAIN run.rows
    /\ \A e \in DOMAIN run.rows :
           /\ e \in Entries /\ DOMAIN run.rows[e] = EntryFields
           /\ run.rows[e].status = "active"
           /\ e \in run.todo => run.new[e] = "active"

\* The entry is in this pass, which no other is about, or in none; the rider was
\* told if the pass or the row says so.
Told(e) ==
    /\ \A p \in Pollers : e \in DOMAIN poll[p].rows =>
           /\ entry[e].status = "active" /\ e \notin Cancelling
           /\ notices[e] = IF poll[p].new[e] = "notified" THEN 1 ELSE 0
           /\ \A q \in Pollers : e \in DOMAIN poll[q].rows => q = p
    /\ (\A p \in Pollers : e \notin DOMAIN poll[p].rows) =>
           notices[e] = IF entry[e].status = "notified" THEN 1 ELSE 0
    /\ e \in Cancelling => entry[e].status \in {"active", "cancelled"}

WaitlistInv ==
    /\ DOMAIN entry = Entries /\ DOMAIN notices = Entries
    /\ DOMAIN poll = Pollers /\ DOMAIN surgeCall = Requests
    /\ \A e \in Entries : DOMAIN entry[e] = EntryFields
    /\ ~GetDbCommits => \A e \in Entries : entry[e].status = "none"
    /\ \A p \in Pollers : PassOK(poll[p])
    /\ \A e \in Entries \ crossed : Told(e)

LEMMA UnpolledIsOK ==
    PassOK(Unpolled) /\ DOMAIN Unpolled.rows = {} /\ Unpolled.phase = "idle"
BY DEF PassOK, Unpolled, PassFields

\* The entries of passes in progress.
LEMMA InPassIs ==
    ASSUME WaitlistInv
    PROVE  InPass = {e \in Entries : \E p \in Pollers : e \in DOMAIN poll[p].rows}
BY DEF WaitlistInv, InPass, PassOK

\* Zones, and who asks for them, say nothing of the waitlist.
LEMMA ZonesKeep ==
    ASSUME WaitlistInv, UNCHANGED <<entry, poll, notices, crossed>>,
           DOMAIN surgeCall' = Requests, Cancelling' \subseteq Cancelling
    PROVE  WaitlistInv'
<1>1. ASSUME NEW e \in Entries, Told(e) PROVE Told(e)'
  BY <1>1 DEF Told
<1> QED BY <1>1 DEF WaitlistInv

LEMMA CreateEntryKeeps ==
    ASSUME WaitlistInv, NEW e \in Entries, NEW g, NEW max, CreateEntry(e, g, max)
    PROVE  WaitlistInv'
<1> DEFINE row == [status |-> "active", origin |-> g, max |-> max, old |-> FALSE]
<1>1. /\ entry' = [entry EXCEPT ![e] = Flushed(entry[e], row)]
      /\ UNCHANGED <<poll, notices, crossed, surgeCall>> /\ entry[e].status = "none"
  BY DEF CreateEntry
<1>2. /\ DOMAIN entry' = Entries /\ entry'[e] = Flushed(entry[e], row)
      /\ \A x \in Entries \ {e} : entry'[x] = entry[x]
  BY <1>1 DEF WaitlistInv
<1>3. DOMAIN row = EntryFields /\ row.status = "active"
  BY DEF EntryFields
<1>4. /\ \A x \in Entries : DOMAIN entry'[x] = EntryFields
      /\ ~GetDbCommits => \A x \in Entries : entry'[x].status = "none"
      /\ entry'[e].status \in {"none", "active"}
  BY <1>1, <1>2, <1>3 DEF WaitlistInv, Flushed
<1>5. Cancelling' = Cancelling
  BY <1>1 DEF Cancelling
<1>6. ASSUME NEW x \in Entries \ crossed PROVE Told(x)'
  <2>1. Told(x)
    BY DEF WaitlistInv
  <2>2. CASE x = e
    <3>1. /\ \A p \in Pollers : x \notin DOMAIN poll[p].rows
          /\ x \notin Cancelling /\ notices[x] = 0
      BY <1>1, <2>1, <2>2 DEF Told
    <3> QED BY <1>1, <1>4, <1>5, <2>2, <3>1 DEF Told
  <2>3. CASE x # e
    BY <1>1, <1>2, <1>5, <2>1, <2>3 DEF Told
  <2> QED BY <2>2, <2>3
<1> QED BY <1>1, <1>2, <1>4, <1>6 DEF WaitlistInv

LEMMA TtlPassesKeeps ==
    ASSUME WaitlistInv, NEW e \in Entries, TtlPasses(e)
    PROVE  WaitlistInv'
<1>1. /\ entry' = [entry EXCEPT ![e].old = TRUE]
      /\ UNCHANGED <<poll, notices, crossed, surgeCall>>
      /\ DOMAIN entry = Entries /\ \A x \in Entries : DOMAIN entry[x] = EntryFields
  BY DEF TtlPasses, WaitlistInv
<1>2. /\ DOMAIN entry' = Entries
      /\ \A x \in Entries : /\ entry'[x].status = entry[x].status
                            /\ DOMAIN entry'[x] = EntryFields
  BY <1>1 DEF EntryFields
<1>3. Cancelling' = Cancelling
  BY <1>1 DEF Cancelling
<1>4. ASSUME NEW x \in Entries, Told(x) PROVE Told(x)'
  BY <1>1, <1>2, <1>3, <1>4 DEF Told
<1> QED BY <1>1, <1>2, <1>4 DEF WaitlistInv

\* A cancellation that meets a pass is remembered.
LEMMA LoadCancelKeeps ==
    ASSUME WaitlistInv, NEW c \in Requests, NEW e \in Entries, LoadCancelEntry(c, e)
    PROVE  WaitlistInv'
<1> DEFINE call == [op |-> "cancel", row |-> e]
<1>1. /\ surgeCall' = [surgeCall EXCEPT ![c] = call]
      /\ crossed' = crossed \union ({e} \intersect InPass)
      /\ UNCHANGED <<entry, poll, notices>> /\ entry[e].status = "active"
      /\ DOMAIN surgeCall' = Requests
  BY DEF LoadCancelEntry, WaitlistInv
<1>2. Cancelling' \subseteq Cancelling \union {e}
  BY <1>1 DEF Cancelling, WaitlistInv
<1>3. ASSUME NEW x \in Entries \ crossed' PROVE Told(x)'
  <2>1. Told(x)
    BY <1>1 DEF WaitlistInv
  <2>2. CASE x = e
    <3>1. \A p \in Pollers : x \notin DOMAIN poll[p].rows
      BY <1>1, <2>2, InPassIs
    <3> QED BY <1>1, <2>1, <2>2, <3>1 DEF Told
  <2>3. CASE x # e
    BY <1>1, <1>2, <2>1, <2>3 DEF Told
  <2> QED BY <2>2, <2>3
<1> QED BY <1>1, <1>3 DEF WaitlistInv

LEMMA CommitCancelKeeps ==
    ASSUME WaitlistInv, NEW c \in Requests, CommitCancelEntry(c)
    PROVE  WaitlistInv'
<1> DEFINE e == surgeCall[c].row
           row == [entry[e] EXCEPT !.status = "cancelled"]
<1>1. /\ surgeCall[c].op = "cancel"
      /\ entry' = [entry EXCEPT ![e] = Flushed(entry[e], row)]
      /\ surgeCall' = [surgeCall EXCEPT ![c] = SurgeIdle]
      /\ UNCHANGED <<poll, notices, crossed>> /\ DOMAIN surgeCall' = Requests
  BY DEF CommitCancelEntry, WaitlistInv
<1>2. Cancelling' \subseteq Cancelling
  BY <1>1 DEF Cancelling, SurgeIdle, WaitlistInv
<1>3. /\ DOMAIN entry' = Entries
      /\ \A x \in Entries : DOMAIN entry'[x] = EntryFields
      /\ \A x \in Entries :
             \/ entry'[x] = entry[x]
             \/ GetDbCommits /\ x \in Cancelling /\ entry'[x].status = "cancelled"
  <2>1. DOMAIN entry = Entries /\ \A x \in Entries : DOMAIN entry[x] = EntryFields
    BY DEF WaitlistInv
  <2>2. \A x \in Entries \ {e} : entry'[x] = entry[x]
    BY <1>1, <2>1
  <2>3. CASE e \in Entries /\ GetDbCommits
    <3>1. e \in Cancelling
      BY <1>1, <2>3 DEF Cancelling
    <3>2. entry'[e] = row /\ DOMAIN row = EntryFields /\ row.status = "cancelled"
      BY <1>1, <2>1, <2>3 DEF Flushed, EntryFields
    <3> QED BY <1>1, <2>1, <2>2, <2>3, <3>1, <3>2
  <2>4. CASE ~(e \in Entries /\ GetDbCommits)
    <3>1. \A x \in Entries : entry'[x] = entry[x]
      BY <1>1, <2>1, <2>2, <2>4 DEF Flushed
    <3> QED BY <1>1, <2>1, <3>1
  <2> QED BY <2>3, <2>4
<1>4. ASSUME NEW x \in Entries \ crossed PROVE Told(x)'
  <2>1. Told(x)
    BY DEF WaitlistInv
  <2>2. CASE entry'[x] = entry[x]
    BY <1>1, <1>2, <2>1, <2>2 DEF Told
  <2>3. CASE x \in Cancelling /\ entry'[x].status = "cancelled"
    <3>1. /\ \A p \in Pollers : x \notin DOMAIN poll[p].rows
          /\ notices[x] = 0
      BY <2>1, <2>3 DEF Told
    <3> QED BY <1>1, <2>3, <3>1 DEF Told
  <2> QED BY <1>3, <2>2, <2>3
<1> QED BY <1>1, <1>3, <1>4 DEF WaitlistInv

LEMMA StartPassKeeps ==
    ASSUME WaitlistInv, NEW p \in Pollers, StartPass(p)
    PROVE  WaitlistInv'
<1> DEFINE run == [Unpolled EXCEPT !.phase = "entries",
           !.todo = Polled, !.rows = [e \in Polled |-> entry[e]],
           !.evening = evening, !.new = [e \in Polled |-> entry[e].status]]
<1>1. /\ poll[p].phase = "idle"
      /\ poll' = [poll EXCEPT ![p] = run]
      /\ crossed' = crossed \union (Polled \intersect (InPass \union Cancelling))
      /\ UNCHANGED <<entry, surgeCall, notices>>
  BY DEF StartPass
<1>2. /\ poll'[p] = run /\ DOMAIN poll' = Pollers
      /\ \A q \in Pollers \ {p} : poll'[q] = poll[q]
  BY <1>1 DEF WaitlistInv
<1>3. /\ DOMAIN run = PassFields /\ run.phase = "entries" /\ run.todo = Polled
      /\ run.rows = [e \in Polled |-> entry[e]]
      /\ run.new = [e \in Polled |-> entry[e].status]
  BY DEF Unpolled, PassFields
<1> HIDE DEF run
<1>4. /\ Cancelling' = Cancelling /\ DOMAIN run.rows = Polled
      /\ \A e \in Polled : run.new[e] = "active"
  BY <1>1, <1>3 DEF Cancelling, Polled
<1>7. PassOK(run)
  BY <1>3, <1>4 DEF PassOK, Polled, WaitlistInv
<1>5. DOMAIN poll[p].rows = {}
  BY <1>1 DEF WaitlistInv, PassOK
<1>6. ASSUME NEW e \in Entries \ crossed' PROVE Told(e)'
  <2>1. Told(e)
    BY <1>1 DEF WaitlistInv
  <2>2. CASE e \in Polled
    <3>1. /\ \A q \in Pollers : e \notin DOMAIN poll[q].rows
          /\ e \notin Cancelling /\ entry[e].status = "active"
      BY <1>1, <2>2, InPassIs DEF Polled
    <3>2. notices[e] = 0
      BY <2>1, <3>1 DEF Told
    <3> QED BY <1>1, <1>2, <1>4, <2>2, <3>1, <3>2 DEF Told
  <2>3. CASE e \notin Polled
    <3>1. \A q \in Pollers : /\ e \in DOMAIN poll'[q].rows <=> e \in DOMAIN poll[q].rows
                             /\ e \in DOMAIN poll[q].rows => poll'[q] = poll[q]
      BY <1>2, <1>4, <1>5, <2>3
    <3> QED BY <1>1, <1>4, <2>1, <3>1 DEF Told
  <2> QED BY <2>2, <2>3
<1> QED BY <1>1, <1>2, <1>6, <1>7 DEF WaitlistInv

LEMMA ReadZonesKeeps ==
    ASSUME WaitlistInv, NEW p \in Pollers, ReadZones(p)
    PROVE  WaitlistInv'
<1> DEFINE run == [poll[p] EXCEPT !.phase = "zones", !.zones = zone]
<1>1. /\ poll' = [poll EXCEPT ![p] = run] /\ PassOK(poll[p])
      /\ UNCHANGED <<entry, surgeCall, notices, crossed>>
  BY DEF ReadZones, WaitlistInv
<1>2. /\ poll'[p] = run /\ DOMAIN poll' = Pollers
      /\ \A q \in Pollers \ {p} : poll'[q] = poll[q]
  BY <1>1 DEF WaitlistInv
<1>3. /\ DOMAIN run = PassFields /\ run.phase = "zones" /\ run.rows = poll[p].rows
      /\ run.new = poll[p].new /\ run.todo = poll[p].todo
  BY <1>1 DEF PassOK, PassFields
<1>4. PassOK(run)
  BY <1>1, <1>3 DEF PassOK
<1>5. Cancelling' = Cancelling
  BY <1>1 DEF Cancelling
<1>6. \A q \in Pollers : poll'[q].rows = poll[q].rows /\ poll'[q].new = poll[q].new
  BY <1>2, <1>3
<1>7. ASSUME NEW e \in Entries, Told(e) PROVE Told(e)'
  BY <1>1, <1>5, <1>6, <1>7 DEF Told
<1> QED BY <1>1, <1>2, <1>4, <1>7 DEF WaitlistInv

LEMMA PassEntryKeeps ==
    ASSUME WaitlistInv, NEW p \in Pollers, NEW e \in Entries, PassEntry(p, e)
    PROVE  WaitlistInv'
<1> DEFINE old == poll[p]
           status == Outcome(old, e)
           run == [old EXCEPT !.todo = old.todo \ {e}, !.new[e] = status]
<1>1. /\ old.phase = "zones" /\ e \in old.todo /\ PassOK(old)
      /\ poll' = [poll EXCEPT ![p] = run]
      /\ notices' = [notices EXCEPT ![e] =
             IF status = "notified" /\ notices[e] < 2 THEN notices[e] + 1 ELSE notices[e]]
      /\ UNCHANGED <<entry, surgeCall, crossed>>
  BY DEF PassEntry, WaitlistInv
<1>2. /\ poll'[p] = run /\ DOMAIN poll' = Pollers /\ DOMAIN notices' = Entries
      /\ \A q \in Pollers \ {p} : poll'[q] = poll[q]
      /\ \A x \in Entries \ {e} : notices'[x] = notices[x]
  BY <1>1 DEF WaitlistInv
<1>3. /\ e \in DOMAIN old.rows /\ e \in DOMAIN old.new /\ old.new[e] = "active"
  BY <1>1 DEF PassOK
<1>4. /\ DOMAIN run = PassFields /\ run.phase = "zones" /\ run.rows = old.rows
      /\ run.todo = old.todo \ {e} /\ DOMAIN run.new = DOMAIN old.new
      /\ run.new[e] = status /\ \A x \in DOMAIN old.new \ {e} : run.new[x] = old.new[x]
  BY <1>1, <1>3 DEF PassOK, PassFields
<1>5. PassOK(run)
  BY <1>1, <1>4 DEF PassOK
<1>6. Cancelling' = Cancelling
  BY <1>1 DEF Cancelling
<1>7. ASSUME NEW x \in Entries \ crossed PROVE Told(x)'
  <2>1. Told(x)
    BY DEF WaitlistInv
  <2>2. \A q \in Pollers : poll'[q].rows = poll[q].rows
    BY <1>2, <1>4
  <2>3. CASE x = e
    <3>1. /\ notices[e] = 0 /\ entry[e].status = "active" /\ e \notin Cancelling
          /\ \A q \in Pollers : e \in DOMAIN poll[q].rows => q = p
      BY <1>3, <2>1, <2>3 DEF Told
    <3>2. notices'[e] = IF status = "notified" THEN 1 ELSE 0
      BY <1>1, <3>1 DEF WaitlistInv
    <3>3. poll'[p].new[e] = status
      BY <1>2, <1>4
    <3> QED BY <1>1, <1>3, <1>6, <2>2, <2>3, <3>1, <3>2, <3>3 DEF Told
  <2>4. CASE x # e
    <3>1. \A q \in Pollers : x \in DOMAIN poll[q].rows => poll'[q].new[x] = poll[q].new[x]
      BY <1>1, <1>2, <1>4, <2>4 DEF PassOK
    <3> QED BY <1>1, <1>2, <1>6, <2>1, <2>2, <2>4, <3>1 DEF Told
  <2> QED BY <2>3, <2>4
<1> QED BY <1>1, <1>2, <1>5, <1>7 DEF WaitlistInv

LEMMA EndPassKeeps ==
    ASSUME WaitlistInv, NEW p \in Pollers, EndPass(p)
    PROVE  WaitlistInv'
<1> DEFINE run == poll[p]
           row(e) == [run.rows[e] EXCEPT !.status = run.new[e]]
           merged(e) == Merge(entry[e], run.rows[e], row(e))
<1>1. /\ entry' = [e \in Entries |->
               IF e \in DOMAIN run.rows THEN Flushed(entry[e], merged(e)) ELSE entry[e]]
      /\ poll' = [poll EXCEPT ![p] = Unpolled] /\ PassOK(run)
      /\ UNCHANGED <<surgeCall, notices, crossed>>
  BY DEF EndPass, WaitlistInv
<1>2. /\ poll'[p] = Unpolled /\ DOMAIN poll' = Pollers
      /\ \A q \in Pollers \ {p} : poll'[q] = poll[q]
  BY <1>1 DEF WaitlistInv
<1>3. Cancelling' = Cancelling
  BY <1>1 DEF Cancelling
<1>4. ASSUME NEW e \in DOMAIN run.rows
      PROVE  /\ e \in Entries /\ DOMAIN merged(e) = EntryFields
             /\ merged(e).status =
                    IF run.new[e] = "active" THEN entry[e].status ELSE run.new[e]
  <2>1. /\ e \in Entries /\ DOMAIN run.rows[e] = EntryFields
        /\ run.rows[e].status = "active" /\ DOMAIN entry[e] = EntryFields
    BY <1>1 DEF PassOK, WaitlistInv
  <2>2. row(e).status = run.new[e]
    BY <2>1 DEF EntryFields
  <2> QED BY <2>1, <2>2 DEF Merge, EntryFields
<1>5. \A e \in Entries : DOMAIN entry'[e] = EntryFields
  BY <1>1, <1>4 DEF Flushed, WaitlistInv
<1>6. ASSUME ~GetDbCommits, NEW e \in Entries PROVE entry'[e].status = "none"
  BY <1>1, <1>6 DEF Flushed, WaitlistInv
<1>7. ASSUME NEW e \in Entries \ crossed PROVE Told(e)'
  <2>1. Told(e)
    BY DEF WaitlistInv
  <2>2. CASE e \in DOMAIN run.rows
    <3>1. /\ entry[e].status = "active" /\ e \notin Cancelling
          /\ notices[e] = IF run.new[e] = "notified" THEN 1 ELSE 0
          /\ \A q \in Pollers : e \in DOMAIN poll[q].rows => q = p
      BY <2>1, <2>2 DEF Told
    <3>2. GetDbCommits
      BY <2>2, <3>1 DEF WaitlistInv
    <3>3. entry'[e].status = IF run.new[e] = "active" THEN "active" ELSE run.new[e]
      BY <1>1, <1>4, <2>2, <3>1, <3>2 DEF Flushed
    <3>4. \A q \in Pollers : e \notin DOMAIN poll'[q].rows
      BY <1>2, <3>1, UnpolledIsOK
    <3> QED BY <1>1, <1>3, <3>1, <3>3, <3>4 DEF Told
  <2>3. CASE e \notin DOMAIN run.rows
    <3>1. entry'[e] = entry[e]
      BY <1>1, <2>3
    <3>2. \A q \in Pollers : /\ e \in DOMAIN poll'[q].rows <=> e \in DOMAIN poll[q].rows
                             /\ e \in DOMAIN poll[q].rows => poll'[q] = poll[q]
      BY <1>2, <2>3, UnpolledIsOK
    <3> QED BY <1>1, <1>3, <2>1, <3>1, <3>2 DEF Told
  <2> QED BY <2>2, <2>3
<1>8. DOMAIN entry' = Entries
  BY <1>1
<1> QED BY <1>1, <1>2, <1>5, <1>6, <1>7, <1>8, UnpolledIsOK DEF WaitlistInv

\* A pass that fails after telling riders is remembered.
LEMMA PassFailsKeeps ==
    ASSUME WaitlistInv, NEW p \in Pollers, PassFails(p)
    PROVE  WaitlistInv'
<1> DEFINE run == poll[p]
<1>1. /\ poll' = [poll EXCEPT ![p] = Unpolled] /\ PassOK(run)
      /\ crossed' = crossed \union {e \in DOMAIN run.new : run.new[e] = "notified"}
      /\ UNCHANGED <<entry, surgeCall, notices>>
  BY DEF PassFails, WaitlistInv
<1>2. /\ poll'[p] = Unpolled /\ DOMAIN poll' = Pollers
      /\ \A q \in Pollers \ {p} : poll'[q] = poll[q]
  BY <1>1 DEF WaitlistInv
<1>3. Cancelling' = Cancelling
  BY <1>1 DEF Cancelling
<1>4. ASSUME NEW e \in Entries \ crossed' PROVE Told(e)'
  <2>1. Told(e)
    BY <1>1 DEF WaitlistInv
  <2>2. CASE e \in DOMAIN run.rows
    <3>1. /\ entry[e].status = "active" /\ e \notin Cancelling
          /\ notices[e] = 0
          /\ \A q \in Pollers : e \in DOMAIN poll[q].rows => q = p
      BY <1>1, <2>1, <2>2 DEF Told, PassOK
    <3>2. \A q \in Pollers : e \notin DOMAIN poll'[q].rows
      BY <1>2, <3>1, UnpolledIsOK
    <3> QED BY <1>1, <1>3, <3>1, <3>2 DEF Told
  <2>3. CASE e \notin DOMAIN run.rows
    <3>1. \A q \in Pollers : /\ e \in DOMAIN poll'[q].rows <=> e \in DOMAIN poll[q].rows
                             /\ e \in DOMAIN poll[q].rows => poll'[q] = poll[q]
      BY <1>2, <2>3, UnpolledIsOK
    <3> QED BY <1>1, <1>3, <2>1, <3>1 DEF Told
  <2> QED BY <2>2, <2>3
<1> QED BY <1>1, <1>2, <1>4, UnpolledIsOK DEF WaitlistInv

LEMMA WaitlistInvInit ==
    SurgeInit => WaitlistInv
<1> SUFFICES ASSUME SurgeInit PROVE WaitlistInv
  OBVIOUS
<1>1. /\ \A e \in Entries : /\ DOMAIN entry[e] = EntryFields
                            /\ entry[e].status = "none" /\ notices[e] = 0
      /\ \A p \in Pollers : poll[p] = Unpolled
      /\ \A c \in Requests : surgeCall[c].op = "idle"
      /\ DOMAIN entry = Entries /\ DOMAIN notices = Entries
      /\ DOMAIN poll = Pollers /\ DOMAIN surgeCall = Requests
  BY DEF SurgeInit, EntryFields, SurgeIdle
<1>2. Cancelling = {}
  BY <1>1 DEF Cancelling
<1>3. \A e \in Entries : Told(e)
  BY <1>1, <1>2, UnpolledIsOK DEF Told
<1> QED BY <1>1, <1>3, UnpolledIsOK DEF WaitlistInv

LEMMA WaitlistInvStep ==
    WaitlistInv /\ [SurgeStep]_surgeVars => WaitlistInv'
<1> SUFFICES ASSUME WaitlistInv, [SurgeStep]_surgeVars PROVE WaitlistInv'
  OBVIOUS
<1>1. ASSUME NEW c \in Requests, NEW z \in Zones, NEW new, LoadZone(c, z, new)
      PROVE  WaitlistInv'
  <2> DEFINE call == [op |-> "zone", row |-> z, copy |-> zone[z], new |-> new]
  <2>1. /\ surgeCall' = [surgeCall EXCEPT ![c] = call] /\ call.op = "zone"
        /\ UNCHANGED <<entry, poll, notices, crossed>> /\ DOMAIN surgeCall = Requests
    BY <1>1 DEF LoadZone, WaitlistInv
  <2> HIDE DEF call
  <2>2. Cancelling' \subseteq Cancelling /\ DOMAIN surgeCall' = Requests
    BY <2>1 DEF Cancelling
  <2> QED BY <2>1, <2>2, ZonesKeep
<1>2. ASSUME NEW c \in Requests, CommitZone(c) \/ SurgeCallLost(c)
      PROVE  WaitlistInv'
  <2>1. /\ surgeCall' = [surgeCall EXCEPT ![c] = SurgeIdle] /\ SurgeIdle.op = "idle"
        /\ UNCHANGED <<entry, poll, notices, crossed>> /\ DOMAIN surgeCall = Requests
    BY <1>2 DEF CommitZone, SurgeCallLost, WaitlistInv, SurgeIdle
  <2>2. Cancelling' \subseteq Cancelling /\ DOMAIN surgeCall' = Requests
    BY <2>1 DEF Cancelling
  <2> QED BY <2>1, <2>2, ZonesKeep
<1>3. ASSUME UNCHANGED <<entry, surgeCall, poll, notices, crossed>>
      PROVE  WaitlistInv'
  BY <1>3, ZonesKeep DEF Cancelling, WaitlistInv
<1>4. ASSUME ZoneStep PROVE WaitlistInv'
  <2>1. ASSUME NEW c \in Requests, NEW z \in Zones,
               \/ \E m \in Multipliers, area \in SUBSET Cells \ {{}} : UpdateZone(c, z, m, area)
               \/ \E active \in BOOLEAN : ActivateZone(c, z, active)
               \/ DeleteZone(c, z)
        PROVE  WaitlistInv'
    BY <1>1, <2>1 DEF UpdateZone, ActivateZone, DeleteZone
  <2>2. ASSUME NEW z \in Zones, NEW m, NEW area, NEW hours, CreateZone(z, m, area, hours)
        PROVE  WaitlistInv'
    BY <1>3, <2>2 DEF CreateZone
  <2>3. CASE TimePasses
    BY <1>3, <2>3 DEF TimePasses
  <2>4. ASSUME NEW c \in Requests,
               CommitZone(c) \/ CommitCancelEntry(c) \/ SurgeCallLost(c)
        PROVE  WaitlistInv'
    BY <1>2, <2>4, CommitCancelKeeps
  <2>5. ASSUME NEW c \in Requests, NEW e \in Entries, LoadCancelEntry(c, e)
        PROVE  WaitlistInv'
    BY <2>5, LoadCancelKeeps
  <2>6. ASSUME NEW e \in Entries,
               \/ \E g \in Cells, max \in Multipliers : CreateEntry(e, g, max)
               \/ TtlPasses(e)
        PROVE  WaitlistInv'
    BY <2>6, CreateEntryKeeps, TtlPassesKeeps
  <2>7. ASSUME NEW p \in Pollers,
               \/ StartPass(p) \/ ReadZones(p) \/ EndPass(p)
               \/ PassFails(p) \/ \E e \in Entries : PassEntry(p, e)
        PROVE  WaitlistInv'
    BY <2>7, StartPassKeeps, ReadZonesKeeps, EndPassKeeps, PassFailsKeeps, PassEntryKeeps
  <2> QED BY <1>4, <2>1, <2>2, <2>3, <2>4, <2>5, <2>6, <2>7 DEF ZoneStep
<1> QED BY <1>3, <1>4 DEF SurgeStep, surgeVars, zoneVars

\* A rider on the waitlist is told once (check_and_notify_waitlist).
THEOREM OneNoticeEach == SurgeSpec => []OneNotice
<1>1. WaitlistInv => OneNotice
  <2> SUFFICES ASSUME WaitlistInv, NEW e \in Entries \ crossed
               PROVE  /\ notices[e] <= 1
                      /\ notices[e] = 1 <=>
                             \/ entry[e].status = "notified"
                             \/ \E p \in Pollers : /\ poll[p].phase = "zones"
                                                   /\ e \in DOMAIN poll[p].new
                                                   /\ poll[p].new[e] = "notified"
    BY DEF OneNotice
  <2>1. Told(e) /\ \A p \in Pollers : PassOK(poll[p])
    BY DEF WaitlistInv
  <2>2. CASE \E p \in Pollers : e \in DOMAIN poll[p].rows
    <3>1. PICK p \in Pollers : e \in DOMAIN poll[p].rows
      BY <2>2
    <3>2. poll[p].new[e] = "notified" => poll[p].phase = "zones"
      BY <2>1, <3>1 DEF PassOK
    <3> QED BY <2>1, <3>1, <3>2 DEF Told, PassOK
  <2>3. CASE \A p \in Pollers : e \notin DOMAIN poll[p].rows
    BY <2>1, <2>3 DEF Told, PassOK
  <2> QED BY <2>2, <2>3
<1> QED BY <1>1, WaitlistInvInit, WaitlistInvStep, PTL DEF SurgeSpec

-----------------------------------------------------------------------------
(* Notices: opt-outs are kept to while a notification goes from channel to  *)
(* channel, and a device follows the one who registered it last.            *)

(* The dispatches.                                                          *)

NoticeFields == {"phase", "user", "type", "devices", "left", "tried", "sent",
                 "rows", "muted", "blind"}

\* How far an alert has come: what is left of the channels, and what was tried.
AlertProgress == {
    <<<<"push", "sms", "email">>, {}>>, <<<<"sms", "email">>, {"push"}>>,
    <<<<"email">>, {"push", "sms"}>>,   << <<>>, Channel>>}

\* A channel that is about to be used is not one that is to be kept quiet.
NoticeOK(run) ==
    /\ DOMAIN run = NoticeFields
    /\ run.phase = "send" => run.left # <<>>
    /\ run.type = "sos_alert" => <<run.left, run.tried>> \in AlertProgress
    /\ run.type # "sos_alert" =>
           \/ run.blind
           \/ /\ run.sent \intersect run.muted = {}
              /\ run.phase = "send" => Head(run.left) \notin run.muted

\* What is to be kept quiet is still turned off.
QuietIn(rows, run) ==
    \A ch \in run.muted : LET row == rows[OptOut(run.user, run.type, ch)]
                          IN  row.there /\ ~row.on

NoticesInv ==
    /\ DOMAIN notice = Senders
    /\ \A n \in Senders : NoticeOK(notice[n]) /\ QuietIn(noted, notice[n])

LEMMA SilentIsOK ==
    NoticeOK(Silent) /\ \A rows : QuietIn(rows, Silent)
BY DEF NoticeOK, QuietIn, Silent, NoticeFields

\* When rows change, dispatches forget what was turned on again.
LEMMA StillMutedKeeps ==
    ASSUME NoticesInv, notice' = StillMuted(noted')
    PROVE  NoticesInv'
<1> DEFINE off(n) == {ch \in notice[n].muted :
               LET row == noted'[OptOut(notice[n].user, notice[n].type, ch)]
               IN  row.there /\ ~row.on}
<1>1. /\ DOMAIN notice' = Senders
      /\ \A n \in Senders : notice'[n] = [notice[n] EXCEPT !.muted = off(n)]
  BY DEF StillMuted
<1>2. ASSUME NEW n \in Senders
      PROVE  NoticeOK(notice'[n]) /\ QuietIn(noted', notice'[n])
  <2>1. NoticeOK(notice[n]) /\ notice'[n] = [notice[n] EXCEPT !.muted = off(n)]
    BY <1>1 DEF NoticesInv
  <2>2. /\ DOMAIN notice'[n] = NoticeFields /\ notice'[n].muted = off(n)
        /\ notice'[n].phase = notice[n].phase /\ notice'[n].left = notice[n].left
        /\ notice'[n].type = notice[n].type /\ notice'[n].user = notice[n].user
        /\ notice'[n].tried = notice[n].tried /\ notice'[n].sent = notice[n].sent
        /\ notice'[n].blind = notice[n].blind
    BY <2>1 DEF NoticeOK, NoticeFields
  <2>3. off(n) \subseteq notice[n].muted
    OBVIOUS
  <2>4. NoticeOK(notice'[n])
    BY <2>1, <2>2, <2>3 DEF NoticeOK
  <2>5. QuietIn(noted', notice'[n])
    BY <2>2 DEF QuietIn
  <2> QED BY <2>4, <2>5
<1> QED BY <1>1, <1>2 DEF NoticesInv

\* One dispatch goes on, the rows stay.
LEMMA OneDispatchKeeps ==
    ASSUME NoticesInv, NEW n \in Senders, NEW run,
           notice' = [notice EXCEPT ![n] = run], noted' = noted,
           NoticeOK(run), QuietIn(noted, run)
    PROVE  NoticesInv'
BY DEF NoticesInv

LEMMA StartNoticeKeeps ==
    ASSUME NoticesInv, NEW n \in Senders, NEW u, NEW type \in NoticeTypes,
           StartNotice(n, u, type)
    PROVE  NoticesInv'
<1> DEFINE off == {ch \in Channel : LET row == noted[OptOut(u, type, ch)]
                                    IN  row.there /\ ~row.on}
           run == [Silent EXCEPT
               !.phase = "check", !.user = u, !.type = type, !.left = ChannelsOf(type),
               !.devices = DevicesOf(u), !.muted = off]
<1>1. notice' = [notice EXCEPT ![n] = run] /\ noted' = noted
  BY DEF StartNotice
<1>2. /\ DOMAIN run = NoticeFields /\ run.phase = "check" /\ run.user = u
      /\ run.type = type /\ run.left = ChannelsOf(type) /\ run.muted = off
      /\ run.tried = {} /\ run.sent = {}
  BY DEF Silent, NoticeFields
<1> HIDE DEF run
<1>3. type = "sos_alert" => ChannelsOf(type) = <<"push", "sms", "email">>
  BY DEF ChannelsOf
<1>4. NoticeOK(run)
  BY <1>2, <1>3 DEF NoticeOK, AlertProgress
<1>5. QuietIn(noted, run)
  BY <1>2 DEF QuietIn
<1> QED BY <1>1, <1>4, <1>5, OneDispatchKeeps

\* An alert tries one channel after the other.
LEMMA AlertGoesOn ==
    ASSUME NEW left, NEW tried, <<left, tried>> \in AlertProgress, left # <<>>
    PROVE  <<Tail(left), tried \union {Head(left)}>> \in AlertProgress
<1>1. CASE left = <<"push", "sms", "email">> /\ tried = {}
  <2>1. Tail(left) = <<"sms", "email">> /\ Head(left) = "push"
    BY <1>1
  <2> QED BY <1>1, <2>1 DEF AlertProgress
<1>2. CASE left = <<"sms", "email">> /\ tried = {"push"}
  <2>1. Tail(left) = <<"email">> /\ Head(left) = "sms"
    BY <1>2
  <2>2. tried \union {Head(left)} = {"push", "sms"}
    BY <1>2, <2>1
  <2> QED BY <2>1, <2>2 DEF AlertProgress
<1>3. CASE left = <<"email">> /\ tried = {"push", "sms"}
  <2>1. Tail(left) = <<>> /\ Head(left) = "email"
    BY <1>3
  <2>2. tried \union {Head(left)} = Channel
    BY <1>3, <2>1 DEF Channel
  <2> QED BY <2>1, <2>2 DEF AlertProgress
<1> QED BY <1>1, <1>2, <1>3 DEF AlertProgress

LEMMA AttemptIs ==
    ASSUME NEW run, DOMAIN run = NoticeFields, NEW sent \in BOOLEAN
    PROVE  LET after == Attempt(run, sent)
               ch    == Head(run.left)
           IN  /\ DOMAIN after = NoticeFields /\ after.phase = "check"
               /\ after.user = run.user /\ after.type = run.type
               /\ after.left = Tail(run.left) /\ after.muted = run.muted
               /\ after.blind = run.blind
               /\ after.tried = run.tried \union {ch}
               /\ after.sent = IF sent THEN run.sent \union {ch} ELSE run.sent
BY DEF Attempt, NoticeFields

LEMMA CheckChannelKeeps ==
    ASSUME NoticesInv, NEW n \in Senders, NEW readable \in BOOLEAN,
           CheckChannel(n, readable)
    PROVE  NoticesInv'
<1> DEFINE run == notice[n]
           on  == IsChannelEnabled(run.user, run.type, Head(run.left))
<1>1. /\ run.phase = "check" /\ run.left # <<>> /\ noted' = noted
      /\ run.type = "sos_alert" => readable
      /\ NoticeOK(run) /\ QuietIn(noted, run)
  BY DEF CheckChannel, NoticesInv
<1>2. CASE run.type = "sos_alert" \/ ~readable \/ on
  <2> DEFINE after == [run EXCEPT !.phase = "send", !.blind = run.blind \/ ~readable]
  <2>1. notice' = [notice EXCEPT ![n] = after]
    BY <1>2 DEF CheckChannel
  <2>2. /\ DOMAIN after = NoticeFields /\ after.phase = "send"
        /\ after.user = run.user /\ after.type = run.type
        /\ after.left = run.left /\ after.muted = run.muted
        /\ after.tried = run.tried /\ after.sent = run.sent
        /\ after.blind <=> run.blind \/ ~readable
    BY <1>1 DEF NoticeOK, NoticeFields
  <2> HIDE DEF after
  <2>3. on => Head(run.left) \notin run.muted
    BY <1>1 DEF IsChannelEnabled, QuietIn
  <2>4. NoticeOK(after)
    BY <1>1, <1>2, <2>2, <2>3 DEF NoticeOK
  <2>5. QuietIn(noted, after)
    BY <1>1, <2>2 DEF QuietIn
  <2> QED BY <1>1, <2>1, <2>4, <2>5, OneDispatchKeeps
<1>3. CASE ~(run.type = "sos_alert" \/ ~readable \/ on)
  <2> DEFINE tries == Attempt(run, FALSE)
             after == [tries EXCEPT !.tried = run.tried]
  <2>1. notice' = [notice EXCEPT ![n] = after]
    BY <1>3 DEF CheckChannel
  <2>2. /\ DOMAIN tries = NoticeFields /\ tries.phase = "check"
        /\ tries.user = run.user /\ tries.type = run.type
        /\ tries.muted = run.muted /\ tries.sent = run.sent /\ tries.blind = run.blind
    BY <1>1, AttemptIs DEF NoticeOK
  <2> HIDE DEF tries
  <2>3. /\ DOMAIN after = NoticeFields /\ after.phase = "check"
        /\ after.user = run.user /\ after.type = run.type
        /\ after.muted = run.muted /\ after.sent = run.sent /\ after.blind = run.blind
    BY <2>2 DEF NoticeFields
  <2> HIDE DEF after
  <2>4. NoticeOK(after)
    BY <1>1, <1>3, <2>3 DEF NoticeOK
  <2>5. QuietIn(noted, after)
    BY <1>1, <2>3 DEF QuietIn
  <2> QED BY <1>1, <2>1, <2>4, <2>5, OneDispatchKeeps
<1> QED BY <1>2, <1>3

LEMMA SendOnKeeps ==
    ASSUME NoticesInv, NEW n \in Senders, NEW sent \in BOOLEAN, SendOn(n, sent)
    PROVE  NoticesInv'
<1> DEFINE run   == notice[n]
           after == Attempt(run, sent)
<1>1. /\ run.phase = "send" /\ noted' = noted
      /\ notice' = [notice EXCEPT ![n] = after]
      /\ NoticeOK(run) /\ QuietIn(noted, run)
  BY DEF SendOn, NoticesInv
<1>2. /\ DOMAIN after = NoticeFields /\ after.phase = "check"
      /\ after.user = run.user /\ after.type = run.type
      /\ after.left = Tail(run.left) /\ after.muted = run.muted
      /\ after.blind = run.blind
      /\ after.tried = run.tried \union {Head(run.left)}
      /\ after.sent = IF sent THEN run.sent \union {Head(run.left)} ELSE run.sent
  BY <1>1, AttemptIs DEF NoticeOK
<1> HIDE DEF after
<1>3. run.type = "sos_alert" => <<after.left, after.tried>> \in AlertProgress
  BY <1>1, <1>2, AlertGoesOn DEF NoticeOK
<1>4. NoticeOK(after)
  BY <1>1, <1>2, <1>3 DEF NoticeOK
<1>5. QuietIn(noted, after)
  BY <1>1, <1>2 DEF QuietIn
<1> QED BY <1>1, <1>4, <1>5, OneDispatchKeeps

LEMMA NoticesInvInit ==
    NoticesInit => NoticesInv
BY SilentIsOK DEF NoticesInit, NoticesInv

LEMMA NoticesInvStep ==
    NoticesInv /\ [NoticesStep]_noticeVars => NoticesInv'
<1> SUFFICES ASSUME NoticesInv, [NoticesStep]_noticeVars PROVE NoticesInv'
  OBVIOUS
<1>1. ASSUME UNCHANGED <<noted, notice>> PROVE NoticesInv'
  BY <1>1 DEF NoticesInv
<1>2. ASSUME NEW c \in Requests, NoteRequest(c) PROVE NoticesInv'
  <2>1. CASE CommitNote(c)
    BY <2>1, StillMutedKeeps DEF CommitNote
  <2>2. CASE ~CommitNote(c)
    BY <1>1, <1>2, <2>2 DEF NoteRequest, SetPreferences, RegisterDevice,
       DeregisterDevice, SetSwitches, BeginOne, BeginNote, ReadRow, NoteCallLost
  <2> QED BY <2>1, <2>2
<1>3. ASSUME NEW u \in NoticeUsers, NEW type \in NoticeTypes, NEW ch \in Channel,
             ResetPreference(u, type, ch)
      PROVE  NoticesInv'
  BY <1>3, StillMutedKeeps DEF ResetPreference
<1>4. ASSUME NEW n \in Senders,
             \/ \E u \in NoticeUsers, type \in NoticeTypes : StartNotice(n, u, type)
             \/ \E flag \in BOOLEAN : CheckChannel(n, flag) \/ SendOn(n, flag)
      PROVE  NoticesInv'
  BY <1>4, StartNoticeKeeps, CheckChannelKeeps, SendOnKeeps
<1>5. ASSUME NEW n \in Senders, EndNotice(n) \/ NoticeDies(n) PROVE NoticesInv'
  <2>1. notice' = [notice EXCEPT ![n] = Silent] /\ noted' = noted
    BY <1>5 DEF EndNotice, NoticeDies
  <2> QED BY <2>1, SilentIsOK, OneDispatchKeeps
<1>6. ASSUME NEW u, NEW which, MarkRead(u, which) PROVE NoticesInv'
  BY <1>1, <1>6 DEF MarkRead
<1>7. CASE UNCHANGED noticeVars
  BY <1>1, <1>7 DEF noticeVars
<1> QED BY <1>2, <1>3, <1>4, <1>5, <1>6, <1>7 DEF NoticesStep

\* Nothing is sent on a channel that is off, and alerts are tried on all of them
\* (send_notification).
THEOREM OptOutsKept == NoticesSpec => []OptOutsAreKept
<1>1. NoticesInv => OptOutsAreKept
  <2> SUFFICES ASSUME NoticesInv, NEW n \in Senders
               PROVE  IF notice[n].type = "sos_alert"
                      THEN notice[n].left = <<>> => notice[n].tried = Channel
                      ELSE notice[n].blind \/ notice[n].sent \intersect notice[n].muted = {}
    BY DEF OptOutsAreKept
  <2>1. NoticeOK(notice[n])
    BY DEF NoticesInv
  <2> QED BY <2>1 DEF NoticeOK, AlertProgress
<1> QED BY <1>1, NoticesInvInit, NoticesInvStep, PTL DEF NoticesSpec

-----------------------------------------------------------------------------
(* The devices.                                                             *)

\* The rows a request has read and will write.
NoteCallOK(call) ==
    /\ DOMAIN call = {"todo", "copies"}
    /\ DOMAIN call.todo \subseteq NoteKeys /\ DOMAIN call.copies \subseteq DOMAIN call.todo
    /\ \A k \in DOMAIN call.todo : call.todo[k] \in NoteRow
    /\ \A k \in DOMAIN call.copies : call.copies[k] \in NoteRow
    /\ \A d \in Devices : Device(d) \in DOMAIN call.todo =>
           /\ Device(d) \in DOMAIN call.copies
           /\ call.todo[Device(d)].on =>
                  call.todo[Device(d)].there /\ call.todo[Device(d)].owner # 0

\* No other request is about the device, and its row is the one that was read.
KnowsDevice(c, d) ==
    Device(d) \in DOMAIN noteCall[c].todo =>
        /\ noteCall[c].copies[Device(d)] = noted[Device(d)]
        /\ \A e \in Requests : Device(d) \in DOMAIN noteCall[e].todo => e = c

Follows(d) ==
    LET row == noted[Device(d)]
    IN  IF holder[d] = 0 THEN ~(row.there /\ row.on)
        ELSE row.there /\ row.on /\ row.owner = holder[d]

DevicesInv ==
    /\ noted \in [NoteKeys -> NoteRow] /\ DOMAIN holder = Devices
    /\ DOMAIN noteCall = Requests /\ \A c \in Requests : NoteCallOK(noteCall[c])
    /\ \A d \in Devices \ swapped : Follows(d) /\ \A c \in Requests : KnowsDevice(c, d)

LEMMA DevicesAreKeys ==
    /\ \A d \in Devices : Device(d) \in NoteKeys
    /\ \A d, e \in Devices : Device(d) = Device(e) => d = e
    /\ \A d, u, type, ch : Device(d) # OptOut(u, type, ch)
    /\ \A d, u : Device(d) # Switches(u)
BY DEF Device, NoteKeys, DeviceKeys, OptOut, Switches

LEMMA NoteIdleIsOK ==
    NoteCallOK(NoteIdle) /\ DOMAIN NoteIdle.todo = {}
BY DEF NoteCallOK, NoteIdle

LEMMA MergeOfNotes ==
    ASSUME NEW row \in NoteRow, NEW copy \in NoteRow, NEW new \in NoteRow
    PROVE  /\ Merge(row, copy, new) \in NoteRow
           /\ copy = row => Merge(row, copy, new) = new
<1> DEFINE after == Merge(row, copy, new)
<1>1. DOMAIN row = {"there", "on", "owner"}
  BY DEF NoteRow
<1>2. after = [col \in {"there", "on", "owner"} |->
                  IF new[col] = copy[col] THEN row[col] ELSE new[col]]
  BY <1>1 DEF Merge
<1>3. /\ after.there = IF new.there = copy.there THEN row.there ELSE new.there
      /\ after.on = IF new.on = copy.on THEN row.on ELSE new.on
      /\ after.owner = IF new.owner = copy.owner THEN row.owner ELSE new.owner
  BY <1>2
<1>4. after = [there |-> after.there, on |-> after.on, owner |-> after.owner]
  BY <1>2
<1>5. after \in NoteRow
  BY <1>3, <1>4 DEF NoteRow
<1>6. copy = row => after = new
  BY <1>3, <1>4 DEF NoteRow
<1> QED BY <1>5, <1>6

\* A request that begins has read its device, or meets another.
LEMMA BeginNoteKeeps ==
    ASSUME DevicesInv, NEW c \in Requests, NEW todo, NEW copies,
           BeginNote(c, todo, copies),
           NoteCallOK([todo |-> todo, copies |-> copies]),
           \A d \in Devices : Device(d) \in DOMAIN todo =>
               copies[Device(d)] = noted[Device(d)]
    PROVE  DevicesInv'
<1> DEFINE call == [todo |-> todo, copies |-> copies]
<1>1. /\ noteCall' = [noteCall EXCEPT ![c] = call] /\ noteCall[c] = NoteIdle
      /\ UNCHANGED <<noted, holder>> /\ DOMAIN noteCall = Requests
      /\ swapped \subseteq swapped'
  BY DEF BeginNote, DevicesInv
<1>2. /\ noteCall'[c] = call /\ call.todo = todo /\ call.copies = copies
      /\ \A e \in Requests \ {c} : noteCall'[e] = noteCall[e]
  BY <1>1
<1> HIDE DEF call
<1>3. ASSUME NEW d \in Devices \ swapped', NEW e \in Requests
      PROVE  KnowsDevice(e, d)'
  <2>1. \A x \in Requests : KnowsDevice(x, d)
    BY <1>1 DEF DevicesInv
  <2>2. CASE Device(d) \in DOMAIN todo
    <3>1. \A x \in Requests : Device(d) \notin DOMAIN noteCall[x].todo
      BY <1>3, <2>2 DEF BeginNote
    <3> QED BY <1>1, <1>2, <2>2, <3>1 DEF KnowsDevice
  <2>3. CASE Device(d) \notin DOMAIN todo
    BY <1>1, <1>2, <2>1, <2>3 DEF KnowsDevice
  <2> QED BY <2>2, <2>3
<1>4. \A d \in Devices \ swapped' : Follows(d)'
  BY <1>1 DEF DevicesInv, Follows
<1>5. \A e \in Requests : NoteCallOK(noteCall'[e])
  BY <1>1, <1>2 DEF DevicesInv, call
<1> QED BY <1>1, <1>3, <1>4, <1>5 DEF DevicesInv

LEMMA BeginOneKeeps ==
    ASSUME DevicesInv, NEW c \in Requests, NEW k \in NoteKeys, NEW new \in NoteRow,
           BeginOne(c, k, new),
           (\E d \in Devices : k = Device(d)) /\ new.on => new.there /\ new.owner # 0
    PROVE  DevicesInv'
<1> DEFINE todo == [j \in {k} |-> new]
           copies == [j \in {k} |-> noted[k]]
<1>1. BeginNote(c, todo, copies) /\ noted[k] \in NoteRow
  BY DEF BeginOne, DevicesInv
<1>2. /\ DOMAIN todo = {k} /\ DOMAIN copies = {k} /\ todo[k] = new /\ copies[k] = noted[k]
  OBVIOUS
<1> HIDE DEF todo, copies
<1>3. NoteCallOK([todo |-> todo, copies |-> copies])
  BY <1>1, <1>2 DEF NoteCallOK
<1> QED BY <1>1, <1>2, <1>3, BeginNoteKeeps

LEMMA BeginningsKeep ==
    ASSUME DevicesInv, NEW c \in Requests, NEW u \in NoticeUsers,
           \/ \E wanted, on : on \in BOOLEAN /\ SetPreferences(c, u, wanted, on)
           \/ \E d \in Devices : RegisterDevice(c, u, d) \/ DeregisterDevice(c, u, d)
           \/ \E on \in BOOLEAN : SetSwitches(c, u, on)
    PROVE  DevicesInv'
<1>1. u # 0 /\ u \in NoticeUsers \union {0} /\ 0 \in NoticeUsers \union {0}
  BY NoticesAssumption
<1>2. ASSUME NEW wanted, NEW on \in BOOLEAN, SetPreferences(c, u, wanted, on)
      PROVE  DevicesInv'
  <2> DEFINE keys == {OptOut(u, w[1], w[2]) : w \in wanted}
             row == [there |-> TRUE, on |-> on, owner |-> 0]
             todo == [k \in keys |-> row]
  <2>1. BeginNote(c, todo, <<>>) /\ wanted \subseteq NoticeTypes \X Channel
    BY <1>2 DEF SetPreferences
  <2>2. keys \subseteq NoteKeys
    BY <2>1 DEF NoteKeys, PrefKeys
  <2>3. \A d \in Devices : Device(d) \notin keys
    BY DevicesAreKeys
  <2>4. row \in NoteRow
    BY <1>1 DEF NoteRow
  <2>5. DOMAIN todo = keys /\ \A k \in keys : todo[k] \in NoteRow
    BY <2>4
  <2> HIDE DEF todo, keys
  <2>6. NoteCallOK([todo |-> todo, copies |-> <<>>])
    BY <2>2, <2>3, <2>5 DEF NoteCallOK
  <2> QED BY <2>1, <2>3, <2>5, <2>6, BeginNoteKeeps
<1>3. ASSUME NEW d \in Devices, RegisterDevice(c, u, d) PROVE DevicesInv'
  <2> DEFINE new == [there |-> TRUE, on |-> TRUE, owner |-> u]
  <2>1. BeginOne(c, Device(d), new)
    BY <1>3 DEF RegisterDevice
  <2>2. new \in NoteRow /\ new.there = TRUE /\ new.owner # 0
    BY <1>1 DEF NoteRow
  <2> HIDE DEF new
  <2> QED BY <2>1, <2>2, BeginOneKeeps, DevicesAreKeys
<1>4. ASSUME NEW d \in Devices, DeregisterDevice(c, u, d) PROVE DevicesInv'
  <2> DEFINE new == [noted[Device(d)] EXCEPT !.on = FALSE]
  <2>1. BeginOne(c, Device(d), new)
    BY <1>4 DEF DeregisterDevice
  <2>2. noted[Device(d)] \in NoteRow
    BY DevicesAreKeys DEF DevicesInv
  <2>3. new \in NoteRow /\ new.on = FALSE
    BY <2>2 DEF NoteRow
  <2> HIDE DEF new
  <2> QED BY <2>1, <2>3, BeginOneKeeps, DevicesAreKeys
<1>5. ASSUME NEW on \in BOOLEAN, SetSwitches(c, u, on) PROVE DevicesInv'
  <2> DEFINE new == [there |-> TRUE, on |-> on, owner |-> 0]
  <2>1. BeginOne(c, Switches(u), new)
    BY <1>5 DEF SetSwitches
  <2>2. new \in NoteRow
    BY <1>1 DEF NoteRow
  <2>3. Switches(u) \in NoteKeys
    BY DEF NoteKeys, SwitchKeys
  <2> HIDE DEF new
  <2> QED BY <2>1, <2>2, <2>3, BeginOneKeeps, DevicesAreKeys
<1> QED BY <1>2, <1>3, <1>4, <1>5

LEMMA ReadRowKeeps ==
    ASSUME DevicesInv, NEW c \in Requests, NEW k \in NoteKeys, ReadRow(c, k)
    PROVE  DevicesInv'
<1> DEFINE call == noteCall[c]
           copies == [j \in DOMAIN call.copies \union {k} |->
                         IF j = k THEN noted[k] ELSE call.copies[j]]
           after == [call EXCEPT !.copies = copies]
<1>1. /\ k \in DOMAIN call.todo /\ k \notin DOMAIN call.copies
      /\ NoteCallOK(call) /\ noted[k] \in NoteRow
      /\ UNCHANGED <<noted, holder, swapped>> /\ DOMAIN noteCall = Requests
  BY DEF ReadRow, DevicesInv
<1>2. noteCall' = [noteCall EXCEPT ![c] = after]
  BY DEF ReadRow
<1>3. /\ DOMAIN after = {"todo", "copies"} /\ after.todo = call.todo
      /\ after.copies = copies
  BY <1>1 DEF NoteCallOK
<1>4. /\ DOMAIN copies = DOMAIN call.copies \union {k} /\ copies[k] = noted[k]
      /\ \A j \in DOMAIN call.copies : copies[j] = call.copies[j]
  BY <1>1
<1> HIDE DEF copies, after
<1>5. NoteCallOK(after)
  BY <1>1, <1>3, <1>4 DEF NoteCallOK
<1>6. /\ noteCall'[c] = after
      /\ \A e \in Requests \ {c} : noteCall'[e] = noteCall[e]
  BY <1>1, <1>2
<1>7. ASSUME NEW d \in Devices \ swapped, NEW e \in Requests, KnowsDevice(e, d)
      PROVE  KnowsDevice(e, d)'
  <2>1. \A x \in Requests : noteCall'[x].todo = noteCall[x].todo
    BY <1>3, <1>6
  <2>2. Device(d) \in DOMAIN noteCall[e].todo =>
            noteCall'[e].copies[Device(d)] = noteCall[e].copies[Device(d)]
    BY <1>1, <1>3, <1>4, <1>6 DEF DevicesInv, NoteCallOK
  <2> QED BY <1>1, <1>7, <2>1, <2>2 DEF KnowsDevice
<1>8. \A d \in Devices \ swapped : Follows(d)'
  BY <1>1 DEF DevicesInv, Follows
<1>9. DOMAIN noteCall' = Requests /\ \A e \in Requests : NoteCallOK(noteCall'[e])
  BY <1>1, <1>2, <1>5, <1>6 DEF DevicesInv
<1> QED BY <1>1, <1>7, <1>8, <1>9 DEF DevicesInv

\* A commit writes what the request made of the row it had read.
LEMMA CommitNoteKeeps ==
    ASSUME DevicesInv, NEW c \in Requests, CommitNote(c)
    PROVE  DevicesInv'
<1> DEFINE call == noteCall[c]
           merged(k) == Merge(noted[k], call.copies[k], call.todo[k])
<1>1. /\ DOMAIN call.copies = DOMAIN call.todo /\ NoteCallOK(call)
      /\ noted' = [k \in NoteKeys |->
             IF k \in DOMAIN call.todo THEN Flushed(noted[k], merged(k)) ELSE noted[k]]
      /\ holder' = [d \in Devices |->
             IF Device(d) \notin DOMAIN call.todo \/ ~GetDbCommits THEN holder[d]
             ELSE IF call.todo[Device(d)].on THEN call.todo[Device(d)].owner ELSE 0]
      /\ noteCall' = [noteCall EXCEPT ![c] = NoteIdle]
      /\ swapped' = swapped /\ DOMAIN noteCall = Requests
  BY DEF CommitNote, DevicesInv
<1>2. /\ noteCall'[c] = NoteIdle /\ DOMAIN noteCall' = Requests
      /\ \A e \in Requests \ {c} : noteCall'[e] = noteCall[e]
  BY <1>1
<1>3. ASSUME NEW k \in DOMAIN call.todo
      PROVE  /\ merged(k) \in NoteRow
             /\ call.copies[k] = noted[k] => merged(k) = call.todo[k]
  <2>1. /\ noted[k] \in NoteRow /\ call.copies[k] \in NoteRow
        /\ call.todo[k] \in NoteRow
    BY <1>1 DEF NoteCallOK, DevicesInv
  <2> QED BY <2>1, MergeOfNotes
<1>4. noted' \in [NoteKeys -> NoteRow]
  <2>1. \A k \in NoteKeys : noted'[k] \in NoteRow
    BY <1>1, <1>3 DEF Flushed, DevicesInv
  <2> QED BY <1>1, <2>1
<1>5. ASSUME NEW d \in Devices \ swapped
      PROVE  Follows(d)' /\ \A e \in Requests : KnowsDevice(e, d)'
  <2>1. /\ Follows(d) /\ \A e \in Requests : KnowsDevice(e, d)
        /\ Device(d) \in NoteKeys
    BY DevicesAreKeys DEF DevicesInv
  <2>2. CASE Device(d) \in DOMAIN call.todo
    <3>1. /\ merged(Device(d)) = call.todo[Device(d)]
          /\ call.todo[Device(d)].on =>
                 call.todo[Device(d)].there /\ call.todo[Device(d)].owner # 0
      BY <1>1, <1>3, <2>1, <2>2 DEF KnowsDevice, NoteCallOK
    <3>2. Follows(d)'
      <4>1. CASE GetDbCommits
        <5>1. noted'[Device(d)] = call.todo[Device(d)]
          BY <1>1, <2>1, <2>2, <3>1, <4>1 DEF Flushed
        <5>2. holder'[d] = IF call.todo[Device(d)].on
                           THEN call.todo[Device(d)].owner ELSE 0
          BY <1>1, <2>2, <4>1
        <5> QED BY <3>1, <5>1, <5>2 DEF Follows
      <4>2. CASE ~GetDbCommits
        <5>1. noted'[Device(d)] = noted[Device(d)] /\ holder'[d] = holder[d]
          BY <1>1, <2>1, <4>2 DEF Flushed
        <5> QED BY <2>1, <5>1 DEF Follows
      <4> QED BY <4>1, <4>2
    <3>3. \A e \in Requests : Device(d) \notin DOMAIN noteCall'[e].todo
      BY <1>2, <2>1, <2>2, NoteIdleIsOK DEF KnowsDevice
    <3> QED BY <3>2, <3>3 DEF KnowsDevice
  <2>3. CASE Device(d) \notin DOMAIN call.todo
    <3>1. noted'[Device(d)] = noted[Device(d)] /\ holder'[d] = holder[d]
      BY <1>1, <2>1, <2>3
    <3>2. \A e \in Requests : KnowsDevice(e, d)'
      BY <1>2, <2>1, <3>1, NoteIdleIsOK DEF KnowsDevice
    <3> QED BY <2>1, <3>1, <3>2 DEF Follows
  <2> QED BY <2>2, <2>3
<1>6. \A e \in Requests : NoteCallOK(noteCall'[e])
  BY <1>2, NoteIdleIsOK DEF DevicesInv
<1>7. DOMAIN holder' = Devices
  BY <1>1
<1> QED BY <1>1, <1>2, <1>4, <1>5, <1>6, <1>7 DEF DevicesInv

LEMMA NoteCallLostKeeps ==
    ASSUME DevicesInv, NEW c \in Requests, NoteCallLost(c)
    PROVE  DevicesInv'
<1>1. /\ noteCall' = [noteCall EXCEPT ![c] = NoteIdle] /\ DOMAIN noteCall = Requests
      /\ UNCHANGED <<noted, holder, swapped>>
  BY DEF NoteCallLost, DevicesInv
<1>2. /\ noteCall'[c] = NoteIdle /\ DOMAIN noteCall' = Requests
      /\ \A e \in Requests \ {c} : noteCall'[e] = noteCall[e]
  BY <1>1
<1>3. \A d \in Devices \ swapped : Follows(d)'
  BY <1>1 DEF DevicesInv, Follows
<1>4. \A d \in Devices \ swapped, e \in Requests : KnowsDevice(e, d)'
  BY <1>1, <1>2, NoteIdleIsOK DEF DevicesInv, KnowsDevice
<1>5. \A e \in Requests : NoteCallOK(noteCall'[e])
  BY <1>2, NoteIdleIsOK DEF DevicesInv
<1> QED BY <1>1, <1>2, <1>3, <1>4, <1>5 DEF DevicesInv

LEMMA ResetPreferenceKeeps ==
    ASSUME DevicesInv, NEW u \in NoticeUsers, NEW type \in NoticeTypes,
           NEW ch \in Channel, ResetPreference(u, type, ch)
    PROVE  DevicesInv'
<1> DEFINE k == OptOut(u, type, ch)
<1>1. /\ noted' = [noted EXCEPT ![k] = Flushed(noted[k], NoRow)]
      /\ UNCHANGED <<noteCall, holder, swapped>>
  BY DEF ResetPreference
<1>2. k \in NoteKeys /\ NoRow \in NoteRow /\ noted \in [NoteKeys -> NoteRow]
  BY DEF NoteKeys, PrefKeys, NoRow, NoteRow, DevicesInv
<1>3. noted' \in [NoteKeys -> NoteRow]
  BY <1>1, <1>2 DEF Flushed
<1>4. \A d \in Devices : noted'[Device(d)] = noted[Device(d)]
  BY <1>1, <1>2, DevicesAreKeys
<1>5. \A d \in Devices \ swapped : Follows(d)' /\ \A c \in Requests : KnowsDevice(c, d)'
  BY <1>1, <1>4 DEF DevicesInv, Follows, KnowsDevice
<1> QED BY <1>1, <1>3, <1>5 DEF DevicesInv

LEMMA DevicesInvInit ==
    NoticesInit => DevicesInv
<1> SUFFICES ASSUME NoticesInit PROVE DevicesInv
  OBVIOUS
<1>1. NoRow \in NoteRow /\ NoRow.there = FALSE
  BY DEF NoRow, NoteRow
<1>2. /\ noted = [k \in NoteKeys |-> NoRow] /\ holder = [d \in Devices |-> 0]
      /\ noteCall = [c \in Requests |-> NoteIdle]
  BY DEF NoticesInit
<1>3. \A d \in Devices : Follows(d) /\ \A c \in Requests : KnowsDevice(c, d)
  BY <1>1, <1>2, DevicesAreKeys, NoteIdleIsOK DEF Follows, KnowsDevice
<1> QED BY <1>1, <1>2, <1>3, NoteIdleIsOK DEF DevicesInv

LEMMA DevicesInvStep ==
    DevicesInv /\ [NoticesStep]_noticeVars => DevicesInv'
<1> SUFFICES ASSUME DevicesInv, [NoticesStep]_noticeVars PROVE DevicesInv'
  OBVIOUS
<1>1. ASSUME UNCHANGED <<noted, noteCall, holder, swapped>> PROVE DevicesInv'
  BY <1>1 DEF DevicesInv, Follows, KnowsDevice
<1>2. ASSUME NEW c \in Requests, NoteRequest(c) PROVE DevicesInv'
  <2>1. ASSUME NEW u \in NoticeUsers, NEW size, NEW on \in BOOLEAN, NEW wanted,
               SetPreferences(c, u, wanted, on)
        PROVE  DevicesInv'
    BY <2>1, BeginningsKeep
  <2>2. ASSUME NEW u \in NoticeUsers,
               \/ \E d \in Devices : RegisterDevice(c, u, d) \/ DeregisterDevice(c, u, d)
               \/ \E on \in BOOLEAN : SetSwitches(c, u, on)
        PROVE  DevicesInv'
    BY <2>2, BeginningsKeep
  <2>3. ASSUME \/ \E k \in NoteKeys : ReadRow(c, k)
               \/ CommitNote(c) \/ NoteCallLost(c)
        PROVE  DevicesInv'
    BY <2>3, ReadRowKeeps, CommitNoteKeeps, NoteCallLostKeeps
  <2> QED BY <1>2, <2>1, <2>2, <2>3 DEF NoteRequest
<1>3. ASSUME NEW u \in NoticeUsers, NEW type \in NoticeTypes, NEW ch \in Channel,
             ResetPreference(u, type, ch)
      PROVE  DevicesInv'
  BY <1>3, ResetPreferenceKeeps
<1>4. ASSUME NEW n \in Senders, NEW u, NEW type, NEW flag,
             \/ StartNotice(n, u, type) \/ CheckChannel(n, flag) \/ SendOn(n, flag)
             \/ EndNotice(n) \/ NoticeDies(n)
      PROVE  DevicesInv'
  BY <1>1, <1>4 DEF StartNotice, CheckChannel, SendOn, EndNotice, NoticeDies
<1>5. ASSUME NEW u, NEW which, MarkRead(u, which) PROVE DevicesInv'
  BY <1>1, <1>5 DEF MarkRead
<1>6. CASE UNCHANGED noticeVars
  BY <1>1, <1>6 DEF noticeVars
<1> QED BY <1>2, <1>3, <1>4, <1>5, <1>6 DEF NoticesStep

\* A device takes the pushes of the user who registered it last
\* (register_device_token, deregister_device_token).
THEOREM DevicesDoFollow == NoticesSpec => []DevicesFollow
<1>1. DevicesInv => DevicesFollow
  BY DEF DevicesInv, DevicesFollow, Follows
<1> QED BY <1>1, DevicesInvInit, DevicesInvStep, PTL DEF NoticesSpec

\* Whatever changes while notifications go out, they go out as their users asked.
THEOREM NoticesAreAsAsked == NoticesSpec => []SentAsAsked
BY OptOutsKept, DevicesDoFollow, PTL DEF SentAsAsked

-----------------------------------------------------------------------------
(* Recurring: a run of the generator tracks what it has made, and what it   *)
(* found or made is booked, so that in UTC each day up to the last one      *)
(* generated is booked once.                                                *)

RecFields == {"status", "days", "pickup", "offset", "last"}

Changes == {"create", "update", "pause", "resume", "cancel"}

\* A request about a template knows whether the template was made; only an
\* update resets what was generated, and of the rest only the first two set days
\* and time.
IsChange(q) ==
    /\ q.op \in Changes /\ q.template \in Templates
    /\ q.copy \in Template /\ q.new \in Template
    /\ q.new.offset = q.copy.offset
    /\ q.op # "update" => q.new.last = q.copy.last
    /\ q.op \notin {"create", "update"} =>
           q.new.days = q.copy.days /\ q.new.pickup = q.copy.pickup
    /\ q.new.status # "none"
    /\ q.op = "create" <=> template[q.template].status = "none"

RecTypes ==
    /\ clock \in 0 .. MaxTime
    /\ template \in [Templates -> Template]
    /\ booking \in Seq(Booking)
    /\ since \in [Templates -> 0 .. clock]
    /\ \A t \in Templates \ edited :
           template[t].status = "none" => template[t].last = Never
    /\ DOMAIN recCall = Requests /\ DOMAIN generating = Schedulers
    /\ \A c \in Requests : recCall[c] # RecIdle =>
           \/ IsChange(recCall[c])
           \/ recCall[c].op = "book" /\ recCall[c].at \in 1 .. MaxTime
    /\ \A c, d \in Requests :
           (/\ recCall[c].op = "create" /\ recCall[d].op = "create"
            /\ recCall[c].template = recCall[d].template)
               => c = d

\* What a run of the generator did: the rides it made are occurrences, the last
\* of them is tracked, and a template it is done with has no occurrence left.
RunIsRight(r) ==
    /\ DOMAIN r = {"busy", "copy", "todo", "fresh", "last"} /\ r.busy = TRUE
    /\ r.copy \in [Templates -> Template] /\ r.todo \subseteq Templates
    /\ IsFiniteSet(r.fresh)
    /\ r.last \in [Templates -> {Never} \union (0 .. MaxTime + DayLength)]
    /\ \A t \in Templates :
           /\ t \in r.todo => r.copy[t].status = "active"
           /\ t \in r.todo \/ r.copy[t].status # "active" =>
                  r.last[t] = r.copy[t].last
           /\ r.last[t] = r.copy[t].last \/ r.last[t] \in Occurrences(r.copy[t])
           /\ r.copy[t].status = "active" /\ t \notin r.todo =>
                  \A at \in Occurrences(r.copy[t]) :
                      Booked(at) \/ \E x \in r.fresh : x.at = at
    /\ \A x \in r.fresh :
           /\ x = [at |-> x.at, from |-> x.from] /\ x.from \in Templates
           /\ r.copy[x.from].status = "active"
           /\ x.at \in Occurrences(r.copy[x.from]) /\ x.at <= r.last[x.from]

Due(t, n) == n % WeekLength \in template[t].days
             /\ since[t] < Instant(template[t], n)

\* What a run still knows of a template that was never updated.
RunKnows(r, t) ==
    /\ template[t].last = r.copy[t].last \/ template[t].last > clock
    /\ r.copy[t].status # "none" =>
           /\ template[t].status # "none" /\ template[t].days = r.copy[t].days
           /\ template[t].pickup = r.copy[t].pickup
           /\ template[t].offset = r.copy[t].offset
    /\ r.copy[t].status = "active" => template[t].status = "active" \/ since[t] = clock
    /\ template[t].offset = 0 =>
           \A n \in Nat : Due(t, n) /\ n <= r.copy[t].last \div DayLength
                              => Booked(Instant(template[t], n))

\* Of such a template every day up to the last one generated is booked, and all
\* that has come, or comes next once a run has ended, as far as it is in reach.
Kept(t) ==
    \A n \in Nat : Due(t, n) =>
        LET at == Instant(template[t], n)
        IN  \/ Booked(at)
            \/ /\ ~(n <= template[t].last \div DayLength)
               /\ template[t].status = "active" /\ InReach(t, n) =>
                      ~(at <= clock) /\ ~(ran /\ at <= clock + 1)

\* Unless runs overlapped the one in progress knows what was generated last.
OneRun ==
    /\ \A g, h \in Schedulers : generating[g].busy /\ generating[h].busy => g = h
    /\ \A g \in Schedulers, t \in Templates \ edited : generating[g].busy =>
           generating[g].copy[t].last = template[t].last
    /\ \A t \in Templates : Plain(t) =>
           \A i \in DOMAIN booking :
               booking[i].from = {t} => booking[i].at <= template[t].last

RunsInv ==
    \A g \in Schedulers : generating[g] # Resting =>
        /\ RunIsRight(generating[g])
        /\ \A t \in Templates \ edited : RunKnows(generating[g], t)

KeptInv == \A t \in Templates : Plain(t) => Kept(t)
OnceInv == (~collided => OneRun) /\ GeneratedOnce
RecInv  == RecTypes /\ RunsInv /\ KeptInv /\ OnceInv

-----------------------------------------------------------------------------
\* Division by the length of a day.
LEMMA DivMul ==
    ASSUME NEW d \in Nat \ {0}, NEW x \in Nat
    PROVE  x \div d \in Nat /\ (x \div d) * d <= x /\ x < (x \div d) * d + d
OBVIOUS

LEMMA MulMono ==
    ASSUME NEW d \in Nat \ {0}, NEW m \in Int, NEW n \in Int, m < n
    PROVE  m * d + d <= n * d
OBVIOUS

LEMMA DivIs ==
    ASSUME NEW d \in Nat \ {0}, NEW x \in Nat, NEW n \in Int,
           n * d <= x, x < n * d + d
    PROVE  x \div d = n
BY DivMul, MulMono

\* In UTC the instants of a template come day by day.
LEMMA InstantOf ==
    ASSUME NEW row \in Template, row.offset = 0, NEW n \in Nat
    PROVE  LET at == Instant(row, n)
           IN  /\ at \in Nat /\ n * DayLength <= at /\ at < n * DayLength + DayLength
               /\ at \div DayLength = n
<1>1. DayLength \in Nat \ {0} /\ row.pickup \in 0 .. DayLength - 1
  BY RecurringAssumption DEF Template
<1>2. n * DayLength \in Nat
  BY <1>1
<1>3. /\ Instant(row, n) \in Nat /\ n * DayLength <= Instant(row, n)
      /\ Instant(row, n) < n * DayLength + DayLength
  BY <1>1, <1>2 DEF Instant
<1> QED BY <1>1, <1>3, DivIs

LEMMA DaysApart ==
    ASSUME NEW d \in Nat \ {0}, NEW m \in Nat, NEW n \in Nat, NEW a \in Nat, NEW b \in Nat,
           m * d <= a, a < m * d + d, n * d <= b, b < n * d + d
    PROVE  (m < n => a < b) /\ (a <= b => m <= n) /\ (b <= a + d => n <= m + 1)
<1>1. /\ n * d \in Nat /\ m * d \in Nat /\ (m + 1) * d = m * d + d
      /\ m < n => m * d + d <= n * d
      /\ n < m => n * d + d <= m * d
      /\ m + 1 < n => (m + 1) * d + d <= n * d
  BY MulMono
<1> DEFINE p == m * d
           q == n * d
<1>2. /\ p \in Nat /\ q \in Nat /\ p <= a /\ a < p + d /\ q <= b /\ b < q + d
      /\ m < n => p + d <= q
      /\ n < m => q + d <= p
      /\ m + 1 < n => p + d + d <= q
  BY <1>1
<1> HIDE DEF p, q
<1> QED BY <1>2

LEMMA InstantsRise ==
    ASSUME NEW row \in Template, row.offset = 0, NEW m \in Nat, NEW n \in Nat
    PROVE  /\ m < n => Instant(row, m) < Instant(row, n)
           /\ Instant(row, m) <= Instant(row, n) => m <= n
<1>1. DayLength \in Nat \ {0}
  BY RecurringAssumption
<1>2. /\ Instant(row, m) \in Nat /\ m * DayLength <= Instant(row, m)
      /\ Instant(row, m) < m * DayLength + DayLength
  BY InstantOf
<1>3. /\ Instant(row, n) \in Nat /\ n * DayLength <= Instant(row, n)
      /\ Instant(row, n) < n * DayLength + DayLength
  BY InstantOf
<1> QED BY <1>1, <1>2, <1>3, DaysApart

\* The day of a time.
LEMMA DayOf ==
    ASSUME NEW row \in Template, row.offset = 0, NEW n \in Nat, NEW x \in Nat
    PROVE  LET at == Instant(row, n)
               day == x \div DayLength
           IN  /\ day \in Nat
               /\ (at <= x => n <= day) /\ (x < at => day <= n)
               /\ (at <= x + DayLength => n <= day + 1) /\ (day < n => x < at)
<1> DEFINE at == Instant(row, n)
           day == x \div DayLength
<1>1. DayLength \in Nat \ {0}
  BY RecurringAssumption
<1>2. day \in Nat /\ day * DayLength <= x /\ x < day * DayLength + DayLength
  BY <1>1, DivMul
<1>3. at \in Nat /\ n * DayLength <= at /\ at < n * DayLength + DayLength
  BY InstantOf
<1> HIDE DEF at, day
<1>4. (n < day => at < x) /\ (at <= x => n <= day)
  BY <1>1, <1>2, <1>3, DaysApart
<1>5. (day < n => x < at) /\ (x <= at => day <= n) /\ (at <= x + DayLength => n <= day + 1)
  BY <1>1, <1>2, <1>3, DaysApart
<1>6. /\ (at <= x => n <= day) /\ (x < at => day <= n)
      /\ (at <= x + DayLength => n <= day + 1) /\ (day < n => x < at)
  BY <1>2, <1>3, <1>4, <1>5
<1> QED BY <1>2, <1>6 DEF at, day

-----------------------------------------------------------------------------
\* Before anything was generated no day is behind.
LEMMA NeverIsBefore == \A n \in Nat : ~(n <= Never \div DayLength)
<1>1. DayLength \in Nat \ {0}
  BY RecurringAssumption
<1>2. ASSUME NEW d \in Nat \ {0} PROVE (-1) \div d < 0 /\ (-1) \div d \in Int
  OBVIOUS
<1> QED BY <1>1, <1>2 DEF Never

\* What Merge does to a template, column by column.
LEMMA MergeOfTemplates ==
    ASSUME NEW row \in Template, NEW copy \in Template, NEW new \in Template
    PROVE  LET after == Merge(row, copy, new)
           IN  /\ after \in Template
               /\ after.status = IF new.status = copy.status THEN row.status ELSE new.status
               /\ after.days = IF new.days = copy.days THEN row.days ELSE new.days
               /\ after.pickup = IF new.pickup = copy.pickup THEN row.pickup ELSE new.pickup
               /\ after.offset = IF new.offset = copy.offset THEN row.offset ELSE new.offset
               /\ after.last = IF new.last = copy.last THEN row.last ELSE new.last
<1> DEFINE after == Merge(row, copy, new)
<1>1. DOMAIN row = RecFields
  BY DEF Template, RecFields
<1>2. after = [col \in RecFields |-> IF new[col] = copy[col] THEN row[col] ELSE new[col]]
  BY <1>1 DEF Merge
<1>3. /\ after.status = IF new.status = copy.status THEN row.status ELSE new.status
      /\ after.days = IF new.days = copy.days THEN row.days ELSE new.days
      /\ after.pickup = IF new.pickup = copy.pickup THEN row.pickup ELSE new.pickup
      /\ after.offset = IF new.offset = copy.offset THEN row.offset ELSE new.offset
      /\ after.last = IF new.last = copy.last THEN row.last ELSE new.last
  BY <1>2 DEF RecFields
<1>4. after = [status |-> after.status, days |-> after.days, pickup |-> after.pickup,
               offset |-> after.offset, last |-> after.last]
  BY <1>2 DEF RecFields
<1> HIDE DEF after
<1>5. after \in Template
  BY <1>3, <1>4 DEF Template
<1> QED BY <1>3, <1>5 DEF after

-----------------------------------------------------------------------------
LEMMA RowIsWhole ==
    ASSUME NEW row \in Template
    PROVE  row.pickup \in Nat /\ row.offset \in Int /\ row.last \in Int
<1>1. DayLength \in Nat \ {0} /\ MaxTime \in Nat /\ Offsets \subseteq Int
  BY RecurringAssumption
<1>2. /\ row.pickup \in 0 .. DayLength - 1 /\ row.offset \in Offsets
      /\ row.last \in {Never} \union (0 .. MaxTime + DayLength)
  BY DEF Template
<1>3. row.pickup \in Nat
  BY <1>1, <1>2
<1>4. row.last \in Int
  BY <1>1, <1>2 DEF Never
<1> QED BY <1>1, <1>2, <1>3, <1>4

\* The search begins today, or the day after the last one generated.
LEMMA FirstDay ==
    ASSUME NEW row \in Template, clock \in 0 .. MaxTime
    PROVE  /\ FromDate(row) \in Nat
           /\ row.last = Never => FromDate(row) = clock \div DayLength
           /\ row.last # Never =>
                  /\ row.last \in Nat /\ row.last \div DayLength \in Nat
                  /\ FromDate(row) = row.last \div DayLength + 1
<1>1. DayLength \in Nat \ {0} /\ MaxTime \in Nat /\ clock \in Nat
  BY RecurringAssumption
<1>2. row.last \in {Never} \union (0 .. MaxTime + DayLength)
  BY DEF Template
<1>3. clock \div DayLength \in Nat
  BY <1>1, DivMul
<1>4. row.last # Never => row.last \in Nat
  BY <1>1, <1>2
<1>5. row.last # Never => row.last \div DayLength \in Nat
  BY <1>1, <1>4, DivMul
<1> QED BY <1>3, <1>4, <1>5 DEF FromDate

\* The generator looks at three days.
LEMMA ThreeDays ==
    ASSUME NEW row \in Template, clock \in 0 .. MaxTime
    PROVE  \E a, b, c \in Int : Occurrences(row) \subseteq {a, b, c}
<1> DEFINE first == FromDate(row)
<1>1. first \in Int /\ DayLength \in Nat \ {0} /\ MaxTime \in Nat
  BY RecurringAssumption, FirstDay
<1>2. row.pickup \in Int /\ row.offset \in Int
  BY RowIsWhole
<1>3. \A n \in Int : Instant(row, n) \in Int
  BY <1>1, <1>2 DEF Instant
<1>4. Occurrences(row) \subseteq {Instant(row, n) : n \in first .. first + 2}
  BY DEF Occurrences
<1>5. \A n \in first .. first + 2 : n = first \/ n = first + 1 \/ n = first + 2
  BY <1>1
<1> HIDE DEF first
<1>6. Occurrences(row) \subseteq
          {Instant(row, first), Instant(row, first + 1), Instant(row, first + 2)}
  BY <1>4, <1>5
<1>7. /\ Instant(row, first) \in Int /\ Instant(row, first + 1) \in Int
      /\ Instant(row, first + 2) \in Int
  BY <1>1, <1>3
<1> QED BY <1>6, <1>7

LEMMA OccurrencesAreFinite ==
    ASSUME NEW row \in Template, clock \in 0 .. MaxTime
    PROVE  IsFiniteSet(Occurrences(row))
<1>1. PICK a, b, c \in Int : Occurrences(row) \subseteq {a, b, c}
  BY ThreeDays
<1>2. /\ IsFiniteSet({}) /\ IsFiniteSet({} \union {a})
      /\ IsFiniteSet(({} \union {a}) \union {b})
      /\ IsFiniteSet((({} \union {a}) \union {b}) \union {c})
  BY FS_EmptySet, FS_AddElement
<1>3. (({} \union {a}) \union {b}) \union {c} = {a, b, c}
  OBVIOUS
<1> QED BY <1>1, <1>2, <1>3, FS_Subset

\* An occurrence is in the horizon, and in UTC on a day after the last one.
LEMMA OccurrenceOf ==
    ASSUME NEW row \in Template, clock \in 0 .. MaxTime, NEW at \in Occurrences(row)
    PROVE  /\ at \in 0 .. MaxTime + DayLength /\ clock < at /\ at <= clock + DayLength
           /\ row.offset = 0 =>
                  /\ row.last < at
                  /\ \E n \in Nat : /\ at = Instant(row, n) /\ at \div DayLength = n
                                    /\ row.last = Never \/ n <= row.last \div DayLength + 3
<1> DEFINE first == FromDate(row)
<1>1. DayLength \in Nat \ {0} /\ MaxTime \in Nat /\ clock \in Nat /\ clock <= MaxTime
  BY RecurringAssumption
<1>2. PICK n \in first .. first + 2 : at = Instant(row, n) /\ InHorizon(at)
  BY DEF Occurrences
<1>3. first \in Nat
  BY FirstDay
<1>4. n \in Nat /\ row.pickup \in Int /\ row.offset \in Int
  BY <1>2, <1>3, RowIsWhole
<1>5. at \in Int
  BY <1>1, <1>2, <1>4 DEF Instant
<1>6. at \in 0 .. MaxTime + DayLength /\ clock < at /\ at <= clock + DayLength
  BY <1>1, <1>2, <1>5 DEF InHorizon
<1>7. ASSUME row.offset = 0
      PROVE  /\ row.last < at
             /\ at \div DayLength = n
             /\ row.last = Never \/ n <= row.last \div DayLength + 3
  <2>1. at \div DayLength = n
    BY <1>2, <1>4, <1>7, InstantOf
  <2>2. CASE row.last = Never
    BY <1>6, <2>1, <2>2 DEF Never
  <2>3. CASE row.last # Never
    <3>1. row.last \in Nat /\ first = row.last \div DayLength + 1
      BY <2>3, FirstDay
    <3>2. row.last \div DayLength \in Nat /\ row.last \div DayLength < n
      BY <1>1, <1>2, <1>4, <3>1, DivMul
    <3>3. row.last < Instant(row, n)
      BY <1>4, <1>7, <3>1, <3>2, DayOf
    <3> QED BY <1>2, <1>4, <2>1, <3>1, <3>2, <3>3
  <2> QED BY <2>2, <2>3
<1> QED BY <1>2, <1>4, <1>6, <1>7

\* What is in the horizon and in reach is an occurrence.
LEMMA IsOccurrence ==
    ASSUME NEW row \in Template, row.offset = 0, clock \in 0 .. MaxTime,
           NEW n \in Nat, n % WeekLength \in row.days,
           clock < Instant(row, n), Instant(row, n) <= clock + DayLength,
           \/ row.last = Never
           \/ /\ ~(n <= row.last \div DayLength)
              /\ n <= row.last \div DayLength + 3
    PROVE  Instant(row, n) \in Occurrences(row)
<1> DEFINE first == FromDate(row)
<1>1. DayLength \in Nat \ {0} /\ clock \in Nat
  BY RecurringAssumption
<1>2. first \in Nat /\ first <= n /\ n <= first + 2
  <2>1. CASE row.last = Never
    <3>1. first = clock \div DayLength
      BY <2>1 DEF FromDate
    <3> QED BY <1>1, <3>1, DayOf
  <2>2. CASE row.last # Never
    <3>1. row.last \in Nat /\ first = row.last \div DayLength + 1
      BY <2>2, FirstDay
    <3>2. row.last \div DayLength \in Nat
      BY <1>1, <3>1, DivMul
    <3> QED BY <2>2, <3>1, <3>2
  <2> QED BY <2>1, <2>2
<1>3. n \in first .. first + 2
  BY <1>2
<1>4. InHorizon(Instant(row, n))
  BY DEF InHorizon
<1> QED BY <1>3, <1>4 DEF Occurrences

LEMMA LatestOf ==
    ASSUME NEW row \in Template, clock \in 0 .. MaxTime,
           NEW times \in SUBSET Occurrences(row), NEW last \in Int
    PROVE  /\ Latest(times, last) \in times \union {last}
           /\ \A b \in times \union {last} : b <= Latest(times, last)
<1>1. PICK x, y, z \in Int : Occurrences(row) \subseteq {x, y, z}
  BY ThreeDays
<1> DEFINE m1 == IF x \in times /\ last < x THEN x ELSE last
           m2 == IF y \in times /\ m1 < y THEN y ELSE m1
           m3 == IF z \in times /\ m2 < z THEN z ELSE m2
<1>2. m1 \in Int /\ m2 \in Int /\ m3 \in Int /\ m3 \in times \union {last}
  OBVIOUS
<1>3. \A b \in times \union {last} : b <= m3
  <2>1. \A b \in times \union {last} : b = last \/ (b \in times /\ (b = x \/ b = y \/ b = z))
    BY <1>1
  <2>2. last <= m3 /\ (x \in times => x <= m3) /\ (y \in times => y <= m3)
        /\ (z \in times => z <= m3)
    OBVIOUS
  <2> QED BY <2>1, <2>2
<1> HIDE DEF m1, m2, m3
<1>4. \E m \in times \union {last} : \A b \in times \union {last} : b <= m
  BY <1>2, <1>3
<1> QED BY <1>4 DEF Latest

LEMMA SeqOfSet ==
    ASSUME NEW S, IsFiniteSet(S)
    PROVE  LET s == SetToSeq(S)
           IN  /\ s \in Seq(S)
               /\ \A x \in S : \E i \in DOMAIN s : s[i] = x
               /\ \A i, j \in DOMAIN s : s[i] = s[j] => i = j
<1> DEFINE n == Cardinality(S)
           s == SetToSeq(S)
<1>1. n \in Nat /\ ExistsBijection(1 .. n, S)
  BY FS_CardinalityType
<1>2. PICK f : f \in Bijection(1 .. n, S)
  BY <1>1 DEF ExistsBijection
<1>3. f \in [1 .. n -> S] /\ IsInjective(f)
  BY <1>2 DEF Bijection, Injection, IsInjective
<1>4. s \in [1 .. n -> S] /\ IsInjective(s)
  BY <1>3 DEF SetToSeq
<1> HIDE DEF s
<1>5. s \in Injection(1 .. n, S)
  BY <1>4 DEF Injection
<1>6. Cardinality(1 .. n) = n
  BY <1>1, FS_Interval
<1>7. s \in Surjection(1 .. n, S)
  BY <1>5, <1>6, FS_Injection
<1>8. s \in Seq(S) /\ DOMAIN s = 1 .. n
  BY <1>1, <1>4
<1>9. \A x \in S : \E i \in 1 .. n : s[i] = x
  BY <1>7 DEF Surjection
<1>10. \A i, j \in 1 .. n : s[i] = s[j] => i = j
  BY <1>4, <1>8 DEF IsInjective
<1> QED BY <1>8, <1>9, <1>10 DEF s

\* The rides of a run that ends are appended in some order, each of them once.
LEMMA NewBookings ==
    ASSUME NEW old \in Seq(Booking), NEW fresh, IsFiniteSet(fresh),
           \A x \in fresh : /\ x = [at |-> x.at, from |-> x.from] /\ x.from \in Templates
                            /\ x.at \in 0 .. MaxTime + DayLength
    PROVE  LET new == old \o SetToSeq({Generated(x) : x \in fresh})
           IN  /\ new \in Seq(Booking)
               /\ \A i \in DOMAIN old : i \in DOMAIN new /\ new[i] = old[i]
               /\ \A i \in DOMAIN new \ DOMAIN old : \E x \in fresh : new[i] = Generated(x)
               /\ \A x \in fresh : \E i \in DOMAIN new : new[i] = Generated(x)
               /\ \A i, j \in DOMAIN new \ DOMAIN old : new[i] = new[j] => i = j
<1> DEFINE S   == {Generated(x) : x \in fresh}
           s   == SetToSeq(S)
           new == old \o s
<1>1. S \subseteq Booking
  <2>1. ASSUME NEW x \in fresh PROVE Generated(x) \in Booking
    BY <2>1 DEF Generated, Booking
  <2> QED BY <2>1
<1>2. IsFiniteSet(S)
  <2> DEFINE f == [x \in fresh |-> Generated(x)]
  <2>1. f \in Surjection(fresh, S)
    BY DEF Surjection
  <2> QED BY <2>1, FS_Surjection
<1>3. /\ s \in Seq(S)
      /\ \A x \in S : \E i \in DOMAIN s : s[i] = x
      /\ \A i, j \in DOMAIN s : s[i] = s[j] => i = j
  <2> HIDE DEF S
  <2> QED BY <1>2, SeqOfSet
<1> HIDE DEF s, S
<1>4. s \in Seq(Booking) /\ \A i \in DOMAIN s : s[i] \in S
  BY <1>1, <1>3
<1>5. /\ new \in Seq(Booking) /\ Len(new) = Len(old) + Len(s)
      /\ \A i \in 1 .. Len(old) : new[i] = old[i]
      /\ \A i \in 1 .. Len(s) : new[Len(old) + i] = s[i]
  BY <1>4
<1> HIDE DEF new
<1>6. /\ DOMAIN old = 1 .. Len(old) /\ DOMAIN s = 1 .. Len(s) /\ DOMAIN new = 1 .. Len(new)
      /\ Len(old) \in Nat /\ Len(s) \in Nat
  BY <1>4, <1>5
<1>7. \A i \in DOMAIN new \ DOMAIN old :
          i - Len(old) \in DOMAIN s /\ new[i] = s[i - Len(old)] /\ i \in Int
  <2>1. ASSUME NEW i \in DOMAIN new \ DOMAIN old
        PROVE  i - Len(old) \in DOMAIN s /\ i = Len(old) + (i - Len(old)) /\ i \in Int
    BY <1>5, <1>6
  <2> QED BY <1>5, <1>6, <2>1
<1>8. \A i \in DOMAIN new \ DOMAIN old : \E x \in fresh : new[i] = Generated(x)
  BY <1>4, <1>7 DEF S
<1>9. \A x \in fresh : \E i \in DOMAIN new : new[i] = Generated(x)
  <2>1. ASSUME NEW x \in fresh PROVE \E i \in DOMAIN new : new[i] = Generated(x)
    <3>1. PICK k \in DOMAIN s : s[k] = Generated(x)
      BY <1>3 DEF S
    <3>2. Len(old) + k \in DOMAIN new /\ new[Len(old) + k] = s[k]
      BY <1>5, <1>6
    <3> QED BY <3>1, <3>2
  <2> QED BY <2>1
<1>10. \A i, j \in DOMAIN new \ DOMAIN old : new[i] = new[j] => i = j
  <2>1. ASSUME NEW i \in DOMAIN new \ DOMAIN old, NEW j \in DOMAIN new \ DOMAIN old,
               new[i] = new[j]
        PROVE  i = j
    <3>1. i - Len(old) = j - Len(old)
      BY <1>3, <1>7, <2>1
    <3> QED BY <1>6, <1>7, <3>1
  <2> QED BY <2>1
<1>11. \A i \in DOMAIN old : i \in DOMAIN new /\ new[i] = old[i]
  BY <1>5, <1>6
<1> QED BY <1>5, <1>8, <1>9, <1>10, <1>11 DEF new, s, S

-----------------------------------------------------------------------------
\* What is true of a run, and what it knows, stays so while rides are booked.
LEMMA RunStaysRight ==
    ASSUME clock' = clock, \A at : Booked(at) => Booked(at)'
    PROVE  \A r : RunIsRight(r) => RunIsRight(r)'
<1>1. \A row : Occurrences(row)' = Occurrences(row)
  BY DEF Occurrences, InHorizon, FromDate, Instant
<1> QED BY <1>1 DEF RunIsRight

LEMMA KnowledgeStays ==
    ASSUME NEW t, clock' = clock, template'[t] = template[t], since'[t] = since[t],
           \A at : Booked(at) => Booked(at)'
    PROVE  \A r : RunKnows(r, t) => RunKnows(r, t)'
<1>1. \A n : Instant(template[t], n)' = Instant(template[t], n)
  BY DEF Instant
<1>2. \A n : Booked(Instant(template[t], n)) => Booked(Instant(template[t], n))'
  BY <1>1 DEF Booked
<1> QED BY <1>1, <1>2 DEF RunKnows, Due

LEMMA KeptStays ==
    ASSUME NEW t, clock' = clock, template'[t] = template[t], since'[t] = since[t],
           ran' => ran, \A at : Booked(at) => Booked(at)', Kept(t)
    PROVE  Kept(t)'
<1>1. \A n : Instant(template[t], n)' = Instant(template[t], n)
  BY DEF Instant
<1>2. \A n : Booked(Instant(template[t], n)) => Booked(Instant(template[t], n))'
  BY <1>1 DEF Booked
<1> QED BY <1>1, <1>2 DEF Kept, Due, InReach

\* Steps that change neither templates nor runs, and book what they like.
LEMMA QuietRuns ==
    ASSUME RunsInv, KeptInv, UNCHANGED <<clock, template, generating, ran, since, edited>>,
           \A at : Booked(at) => Booked(at)'
    PROVE  RunsInv' /\ KeptInv'
<1>1. ASSUME NEW g \in Schedulers, generating'[g] # Resting
      PROVE  /\ RunIsRight(generating[g])'
             /\ \A t \in Templates \ edited' : RunKnows(generating[g], t)'
  <2> DEFINE r == generating[g]
  <2>1. PICK q : q = generating[g]
    OBVIOUS
  <2>2. RunIsRight(q) /\ \A t \in Templates \ edited : RunKnows(q, t)
    BY <1>1, <2>1 DEF RunsInv
  <2>3. RunIsRight(q)'
    BY <2>2, RunStaysRight
  <2>4. \A t \in Templates \ edited : RunKnows(q, t)'
    BY <2>2, KnowledgeStays
  <2> QED BY <2>1, <2>3, <2>4
<1>2. ASSUME NEW t \in Templates, Plain(t)' PROVE Kept(t)'
  <2>1. Plain(t)
    BY <1>2 DEF Plain
  <2> QED BY <2>1, KeptStays DEF KeptInv
<1> QED BY <1>1, <1>2 DEF RunsInv, KeptInv

\* Steps that generate nothing.
LEMMA QuietOnce ==
    ASSUME OnceInv, UNCHANGED <<template, generating, edited>>, collided => collided',
           \A i \in DOMAIN booking' :
               \/ booking'[i].from = {}
               \/ /\ i \in DOMAIN booking /\ booking'[i].at = booking[i].at
                  /\ booking'[i].from = booking[i].from
    PROVE  OnceInv'
<1>1. \A t : Plain(t)' <=> Plain(t)
  BY DEF Plain
<1>2. (~collided => OneRun)'
  BY <1>1 DEF OnceInv, OneRun
<1>3. GeneratedOnce'
  BY <1>1 DEF OnceInv, GeneratedOnce
<1> QED BY <1>2, <1>3 DEF OnceInv

LEMMA BookingsAreTyped ==
    ASSUME RecTypes, NEW i \in DOMAIN booking
    PROVE  /\ booking[i] \in Booking /\ booking[i].from \subseteq Templates
           /\ booking[i].at \in Nat
<1>1. booking[i] \in Booking
  BY DEF RecTypes
<1>2. booking[i].from \subseteq Templates /\ booking[i].at \in 0 .. MaxTime + DayLength
  BY <1>1 DEF Booking
<1> QED BY <1>1, <1>2, RecurringAssumption

LEMMA RunsAreBusy ==
    ASSUME RunsInv, NEW g \in Schedulers
    PROVE  generating[g] = Resting \/ generating[g].busy = TRUE
BY DEF RunsInv, RunIsRight

LEMMA RecIdleIsIdle == RecIdle.op = "idle" /\ ~IsChange(RecIdle)
BY DEF RecIdle, IsChange, Changes

-----------------------------------------------------------------------------
\* A request begins.
LEMMA RecStartKeeps ==
    ASSUME RecInv, NEW c \in Requests, NEW call, Start(c, call), collided => collided',
           IsChange(call) \/ (call.op = "book" /\ call.at \in 1 .. MaxTime),
           \A d \in Requests : call.op = "create" /\ recCall[d].op = "create" =>
               recCall[d].template # call.template
    PROVE  RecInv'
<1>1. /\ UNCHANGED <<clock, template, booking, generating, ran, since, edited>>
      /\ recCall'[c] = call /\ \A d \in Requests \ {c} : recCall'[d] = recCall[d]
      /\ DOMAIN recCall' = Requests
  BY DEF Start, RecInv, RecTypes
<1>2. RecTypes'
  <2>1. ASSUME NEW d \in Requests, recCall'[d] # RecIdle
        PROVE  \/ IsChange(recCall[d])'
               \/ (recCall[d].op = "book" /\ recCall[d].at \in 1 .. MaxTime)'
    <3>1. CASE d = c
      BY <1>1, <3>1 DEF IsChange
    <3>2. CASE d # c
      BY <1>1, <2>1, <3>2 DEF RecInv, RecTypes, IsChange
    <3> QED BY <3>1, <3>2
  <2>2. \A d, e \in Requests :
            (/\ recCall'[d].op = "create" /\ recCall'[e].op = "create"
             /\ recCall'[d].template = recCall'[e].template)
                => d = e
    BY <1>1 DEF RecInv, RecTypes
  <2> QED BY <1>1, <2>1, <2>2 DEF RecInv, RecTypes
<1>3. \A at : Booked(at) => Booked(at)'
  BY <1>1 DEF Booked
<1>4. RunsInv' /\ KeptInv'
  BY <1>1, <1>3, QuietRuns DEF RecInv
<1>5. OnceInv'
  BY <1>1, QuietOnce DEF RecInv
<1> QED BY <1>2, <1>4, <1>5 DEF RecInv

LEMMA RecCallEnds ==
    ASSUME RecTypes, NEW c \in Requests, recCall' = [recCall EXCEPT ![c] = RecIdle],
           UNCHANGED template
    PROVE  /\ DOMAIN recCall' = Requests
           /\ \A d \in Requests : recCall'[d] # RecIdle =>
                  \/ IsChange(recCall[d])'
                  \/ (recCall[d].op = "book" /\ recCall[d].at \in 1 .. MaxTime)'
           /\ \A d, e \in Requests :
                  (/\ recCall'[d].op = "create" /\ recCall'[e].op = "create"
                   /\ recCall'[d].template = recCall'[e].template)
                      => d = e
<1>1. /\ recCall'[c] = RecIdle /\ \A d \in Requests \ {c} : recCall'[d] = recCall[d]
      /\ DOMAIN recCall' = Requests
  BY DEF RecTypes
<1>2. ASSUME NEW d \in Requests, recCall'[d] # RecIdle
      PROVE  \/ IsChange(recCall[d])'
             \/ (recCall[d].op = "book" /\ recCall[d].at \in 1 .. MaxTime)'
  BY <1>1, <1>2 DEF RecTypes, IsChange
<1> QED BY <1>1, <1>2, RecIdleIsIdle DEF RecTypes

LEMMA RecCallLostKeeps ==
    ASSUME RecInv, NEW c \in Requests, RecCallLost(c)
    PROVE  RecInv'
<1>1. /\ UNCHANGED <<clock, template, booking, generating, ran, since, edited, collided>>
      /\ recCall' = [recCall EXCEPT ![c] = RecIdle]
  BY DEF RecCallLost
<1>2. RecTypes'
  BY <1>1, RecCallEnds DEF RecInv, RecTypes
<1>3. \A at : Booked(at) => Booked(at)'
  BY <1>1 DEF Booked
<1>4. RunsInv' /\ KeptInv'
  BY <1>1, <1>3, QuietRuns DEF RecInv
<1>5. OnceInv'
  BY <1>1, QuietOnce DEF RecInv
<1> QED BY <1>2, <1>4, <1>5 DEF RecInv

\* The rider's own ride is from no template.
LEMMA CommitScheduleKeeps ==
    ASSUME RecInv, NEW c \in Requests, CommitSchedule(c)
    PROVE  RecInv'
<1> DEFINE ride == [at |-> recCall[c].at, from |-> {}, fare |-> TRUE,
                    status |-> "scheduled", reminded |-> {}]
<1>1. /\ UNCHANGED <<clock, template, generating, ran, since, edited, collided>>
      /\ recCall' = [recCall EXCEPT ![c] = RecIdle] /\ recCall[c].op = "book"
      /\ booking' = Append(booking, ride) /\ booking \in Seq(Booking)
  BY DEF CommitSchedule, RecInv, RecTypes
<1>2. ride \in Booking
  <2>1. recCall[c].at \in 1 .. MaxTime
    BY <1>1, RecIdleIsIdle DEF RecInv, RecTypes, IsChange, Changes
  <2>2. recCall[c].at \in 0 .. MaxTime + DayLength
    BY <2>1, RecurringAssumption
  <2> QED BY <2>2 DEF Booking
<1>3. ride.from = {}
  OBVIOUS
<1> HIDE DEF ride
<1>4. /\ booking' \in Seq(Booking)
      /\ \A i \in DOMAIN booking : i \in DOMAIN booking' /\ booking'[i] = booking[i]
      /\ \A i \in DOMAIN booking' \ DOMAIN booking : booking'[i] = ride
  BY <1>1, <1>2
<1>5. RecTypes'
  BY <1>1, <1>4, RecCallEnds DEF RecInv, RecTypes
<1>6. \A at : Booked(at) => Booked(at)'
  BY <1>4 DEF Booked
<1>7. RunsInv' /\ KeptInv'
  BY <1>1, <1>6, QuietRuns DEF RecInv
<1>8. OnceInv'
  BY <1>1, <1>3, <1>4, QuietOnce DEF RecInv
<1> QED BY <1>5, <1>7, <1>8 DEF RecInv

\* A ride is cancelled, reminded of or dispatched: it stays the ride it is.
LEMMA SetBookingKeeps ==
    ASSUME RecInv, NEW i \in DOMAIN booking, NEW row \in Booking, SetBooking(i, row),
           row.at = booking[i].at, row.from = booking[i].from
    PROVE  RecInv'
<1>1. /\ UNCHANGED <<clock, template, recCall, generating, ran, since, edited, collided>>
      /\ booking' = [booking EXCEPT ![i] = row] /\ booking \in Seq(Booking)
  BY DEF SetBooking, RecInv, RecTypes
<1>2. /\ booking' \in Seq(Booking) /\ DOMAIN booking' = DOMAIN booking
      /\ \A j \in DOMAIN booking : /\ booking'[j].at = booking[j].at
                                   /\ booking'[j].from = booking[j].from
  BY <1>1
<1>3. RecTypes'
  BY <1>1, <1>2 DEF RecInv, RecTypes, IsChange
<1>4. \A at : Booked(at) => Booked(at)'
  BY <1>2 DEF Booked
<1>5. RunsInv' /\ KeptInv'
  BY <1>1, <1>4, QuietRuns DEF RecInv
<1>6. OnceInv'
  BY <1>1, <1>2, QuietOnce DEF RecInv
<1> QED BY <1>3, <1>5, <1>6 DEF RecInv

LEMMA BookingStepsKeep ==
    ASSUME RecInv, NEW i \in DOMAIN booking,
           CancelBooking(i) \/ Remind(i) \/ DispatchDue(i)
    PROVE  RecInv'
<1>1. booking[i] \in Booking
  BY DEF RecInv, RecTypes
<1>2. ASSUME NEW status \in {"cancelled", "requested"},
             SetBooking(i, [booking[i] EXCEPT !.status = status])
      PROVE  RecInv'
  BY <1>1, <1>2, SetBookingKeeps DEF Booking
<1>3. ASSUME Remind(i) PROVE RecInv'
  BY <1>1, <1>3, SetBookingKeeps DEF Remind, Booking
<1> QED BY <1>2, <1>3 DEF CancelBooking, DispatchDue

LEMMA LoadKeeps ==
    ASSUME RecInv, NEW c \in Requests, NEW t \in Templates, NEW op \in Changes,
           NEW new \in Template, Load(c, op, t, new),
           new.offset = template[t].offset, new.status # "none",
           op # "update" => new.last = template[t].last,
           op \notin {"create", "update"} =>
               new.days = template[t].days /\ new.pickup = template[t].pickup,
           op = "create" <=> template[t].status = "none",
           op = "create" => \A d \in Requests :
               recCall[d].op = "create" => recCall[d].template # t
    PROVE  RecInv'
<1> DEFINE call == [op |-> op, template |-> t, copy |-> template[t], new |-> new]
<1>1. Start(c, call) /\ UNCHANGED collided
  BY DEF Load
<1>2. call.op = op /\ call.template = t /\ call.copy = template[t] /\ call.new = new
  OBVIOUS
<1>3. template[t] \in Template
  BY DEF RecInv, RecTypes
<1> HIDE DEF call
<1>4. IsChange(call)
  BY <1>2, <1>3 DEF IsChange
<1> QED BY <1>1, <1>2, <1>4, RecStartKeeps

LEMMA RequestKeeps ==
    ASSUME RecInv, NEW c \in Requests, RecurringRequest(c)
    PROVE  RecInv'
<1>1. PICK t \in Templates :
          \/ \E days \in SUBSET (0 .. WeekLength - 1) \ {{}}, pickup \in 0 .. DayLength - 1 :
                 LoadCreate(c, t, days, pickup) \/ LoadTemplateUpdate(c, t, days, pickup)
          \/ LoadPause(c, t) \/ LoadResume(c, t) \/ LoadCancel(c, t)
  BY DEF RecurringRequest
<1>2. template[t] \in Template
  BY DEF RecInv, RecTypes
<1>3. ASSUME NEW days \in SUBSET (0 .. WeekLength - 1), NEW pickup \in 0 .. DayLength - 1,
             LoadCreate(c, t, days, pickup)
      PROVE  RecInv'
  <2> DEFINE new == [template[t] EXCEPT !.status = "active", !.days = days, !.pickup = pickup]
  <2>1. /\ new \in Template /\ new.status = "active"
        /\ new.offset = template[t].offset /\ new.last = template[t].last
    BY <1>2 DEF Template
  <2>2. /\ template[t].status = "none" /\ Load(c, "create", t, new)
        /\ \A d \in Requests : recCall[d].op = "create" => recCall[d].template # t
    BY <1>3 DEF LoadCreate
  <2> HIDE DEF new
  <2> QED BY <2>1, <2>2, LoadKeeps DEF Changes
<1>4. ASSUME NEW days \in SUBSET (0 .. WeekLength - 1), NEW pickup \in 0 .. DayLength - 1,
             LoadTemplateUpdate(c, t, days, pickup)
      PROVE  RecInv'
  <2> DEFINE new == [template[t] EXCEPT !.days = days, !.pickup = pickup, !.last = Never]
  <2>1. /\ new \in Template /\ new.status = template[t].status
        /\ new.offset = template[t].offset
    BY <1>2 DEF Template
  <2>2. template[t].status \in {"active", "paused"} /\ Load(c, "update", t, new)
    BY <1>4 DEF LoadTemplateUpdate
  <2> HIDE DEF new
  <2> QED BY <2>1, <2>2, LoadKeeps DEF Changes
<1>5. ASSUME NEW op \in {"pause", "resume", "cancel"},
             NEW status \in {"paused", "active", "cancelled"},
             template[t].status \in {"active", "paused"},
             Load(c, op, t, [template[t] EXCEPT !.status = status])
      PROVE  RecInv'
  <2> DEFINE new == [template[t] EXCEPT !.status = status]
  <2>1. /\ new \in Template /\ new.status = status
        /\ new.offset = template[t].offset /\ new.last = template[t].last
        /\ new.days = template[t].days /\ new.pickup = template[t].pickup
    BY <1>2 DEF Template
  <2>2. Load(c, op, t, new)
    BY <1>5
  <2> HIDE DEF new
  <2> QED BY <1>5, <2>1, <2>2, LoadKeeps DEF Changes
<1>6. CASE LoadPause(c, t) \/ LoadResume(c, t) \/ LoadCancel(c, t)
  BY <1>5, <1>6 DEF LoadPause, LoadResume, LoadCancel
<1> QED BY <1>1, <1>3, <1>4, <1>6

LEMMA LoadScheduleKeeps ==
    ASSUME RecInv, NEW c \in Requests, NEW at \in 1 .. MaxTime, LoadSchedule(c, at)
    PROVE  RecInv'
<1> DEFINE call == [op |-> "book", at |-> at]
<1>1. Start(c, call) /\ (collided => collided') /\ call.op = "book" /\ call.at = at
  BY DEF LoadSchedule
<1> HIDE DEF call
<1> QED BY <1>1, RecStartKeeps

\* A template is written: its days and time stay as they were unless it was just
\* made or updated, and nothing that has come counts before the change.
LEMMA CommitTemplateKeeps ==
    ASSUME RecInv, NEW c \in Requests, CommitTemplate(c)
    PROVE  RecInv'
<1>1. PICK q : q = recCall[c]
  OBVIOUS
<1>2. /\ q.op \in Changes /\ IsChange(q) /\ q.template \in Templates
      /\ q # RecIdle
  <2>1. recCall[c].op \in Changes /\ recCall[c].op # "book" /\ recCall[c] # RecIdle
    BY RecIdleIsIdle DEF CommitTemplate, Changes
  <2>2. IsChange(recCall[c])
    BY <2>1 DEF RecInv, RecTypes
  <2>3. IsChange(q)
    BY <1>1, <2>2 DEF IsChange
  <2> QED BY <1>1, <2>1, <2>3 DEF IsChange
<1>3. PICK u \in Templates : u = q.template
  BY <1>2
<1>4. PICK row : row = Merge(template[u], q.copy, q.new)
  OBVIOUS
<1>5. /\ template' = [template EXCEPT ![u] = row]
      /\ recCall' = [recCall EXCEPT ![c] = RecIdle]
      /\ since' = [since EXCEPT ![u] = clock]
      /\ edited' = IF q.op = "update" THEN edited \union {u} ELSE edited
      /\ ran' = FALSE /\ UNCHANGED <<clock, booking, generating, collided>>
  BY <1>1, <1>3, <1>4 DEF CommitTemplate
<1>6. /\ clock \in 0 .. MaxTime /\ clock \in Nat
      /\ template \in [Templates -> Template] /\ template[u] \in Template
      /\ since \in [Templates -> 0 .. clock]
  BY RecurringAssumption DEF RecInv, RecTypes
<1>7. /\ row \in Template /\ row.offset = template[u].offset
      /\ q.op # "update" => row.last = template[u].last
      /\ q.op \notin {"create", "update"} =>
             row.days = template[u].days /\ row.pickup = template[u].pickup
      /\ q.op # "create" => row.status # "none"
  BY <1>2, <1>3, <1>4, <1>6, MergeOfTemplates DEF IsChange
<1>8. /\ template' \in [Templates -> Template] /\ template'[u] = row
      /\ since' \in [Templates -> 0 .. clock] /\ since'[u] = clock
      /\ \A t \in Templates \ {u} : template'[t] = template[t] /\ since'[t] = since[t]
  BY <1>5, <1>6, <1>7
<1>9. \A at : Booked(at) => Booked(at)'
  BY <1>5 DEF Booked
<1>10. \A t \in Templates \ edited' :
           t \notin edited /\ (t = u => q.op # "update")
  BY <1>5
<1>11. RecTypes'
  <2>1. \A t \in Templates \ edited' :
            template'[t].status = "none" => template'[t].last = Never
    BY <1>2, <1>3, <1>7, <1>8, <1>10 DEF RecInv, RecTypes, IsChange
  <2>2. ASSUME NEW d \in Requests, recCall'[d] # RecIdle
        PROVE  \/ IsChange(recCall[d])'
               \/ (recCall[d].op = "book" /\ recCall[d].at \in 1 .. MaxTime)'
    <3>1. d # c /\ recCall'[d] = recCall[d]
      BY <1>5, <2>2 DEF RecInv, RecTypes
    <3>2. ASSUME IsChange(recCall[d])
          PROVE  IsChange(recCall[d])'
      <4>1. PICK x : x = recCall[d]
        OBVIOUS
      <4>2. x.op = "create" <=> template'[x.template].status = "none"
        <5>1. CASE x.template = u
          <6>1. x.op = "create" => q.op # "create"
            BY <1>1, <1>3, <3>1, <4>1, <5>1 DEF RecInv, RecTypes
          <6>2. x.op = "create" <=> q.op = "create"
            BY <1>2, <1>3, <3>2, <4>1, <5>1 DEF IsChange
          <6> QED BY <1>7, <1>8, <5>1, <6>1, <6>2
        <5>2. CASE x.template # u
          BY <1>8, <3>2, <4>1, <5>2 DEF IsChange
        <5> QED BY <5>1, <5>2
      <4> QED BY <3>1, <3>2, <4>1, <4>2 DEF IsChange
    <3> QED BY <2>2, <3>1, <3>2 DEF RecInv, RecTypes
  <2>3. /\ DOMAIN recCall' = Requests
        /\ \A d \in Requests \ {c} : recCall'[d] = recCall[d]
        /\ recCall'[c].op # "create"
    BY <1>5, RecIdleIsIdle DEF RecInv, RecTypes
  <2>4. \A d, e \in Requests :
            (/\ recCall'[d].op = "create" /\ recCall'[e].op = "create"
             /\ recCall'[d].template = recCall'[e].template)
                => d = e
    BY <2>3 DEF RecInv, RecTypes
  <2> QED BY <1>5, <1>6, <1>8, <2>1, <2>2, <2>3, <2>4 DEF RecInv, RecTypes
<1>12. RunsInv'
  <2>1. ASSUME NEW r, RunKnows(r, u), q.op # "update", u \notin edited
        PROVE  RunKnows(r, u)'
    <3>1. /\ template'[u].last = r.copy[u].last \/ template'[u].last > clock'
          /\ r.copy[u].status = "active" => template'[u].status = "active" \/ since'[u] = clock'
      BY <1>5, <1>7, <1>8, <2>1 DEF RunKnows
    <3>2. r.copy[u].status # "none" =>
              /\ template'[u].status # "none" /\ template'[u].days = r.copy[u].days
              /\ template'[u].pickup = r.copy[u].pickup
              /\ template'[u].offset = r.copy[u].offset
      BY <1>2, <1>3, <1>7, <1>8, <2>1 DEF RunKnows, IsChange
    <3>3. ASSUME template'[u].offset = 0, NEW n \in Nat, Due(u, n)',
                 n <= r.copy[u].last \div DayLength
          PROVE  Booked(Instant(template[u], n))'
      <4>1. CASE q.op = "create"
        <5>1. template[u].last = Never
          BY <1>2, <1>3, <2>1, <4>1 DEF RecInv, RecTypes, IsChange
        <5>2. r.copy[u].last = Never
          BY <1>6, <2>1, <5>1 DEF RunKnows, Never
        <5> QED BY <3>3, <5>2, NeverIsBefore
      <4>2. CASE q.op # "create"
        <5>1. /\ row.days = template[u].days /\ row.pickup = template[u].pickup
              /\ row.offset = template[u].offset
          BY <1>7, <2>1, <4>2
        <5>2. Instant(template[u], n)' = Instant(template[u], n)
          BY <1>8, <5>1 DEF Instant
        <5>3. since[u] <= clock /\ since[u] \in Int /\ template[u].offset = 0
          BY <1>6, <1>8, <3>3, <5>1
        <5>4. Instant(template[u], n) \in Int
          BY <1>6, <5>3, InstantOf
        <5>5. Due(u, n)
          BY <1>6, <1>8, <3>3, <5>1, <5>2, <5>3, <5>4 DEF Due
        <5>6. Booked(Instant(template[u], n))
          BY <2>1, <3>3, <5>3, <5>5 DEF RunKnows
        <5> QED BY <1>9, <5>2, <5>6 DEF Booked
      <4> QED BY <4>1, <4>2
    <3> QED BY <3>1, <3>2, <3>3 DEF RunKnows
  <2>2. ASSUME NEW g \in Schedulers, generating'[g] # Resting
        PROVE  /\ RunIsRight(generating[g])'
               /\ \A t \in Templates \ edited' : RunKnows(generating[g], t)'
    <3>1. PICK r : r = generating[g]
      OBVIOUS
    <3>2. RunIsRight(r) /\ \A t \in Templates \ edited : RunKnows(r, t)
      BY <1>5, <2>2, <3>1 DEF RecInv, RunsInv
    <3>3. RunIsRight(r)'
      BY <1>5, <1>9, <3>2, RunStaysRight
    <3>4. ASSUME NEW t \in Templates \ edited' PROVE RunKnows(r, t)'
      <4>1. CASE t = u
        BY <1>10, <2>1, <3>2, <4>1
      <4>2. CASE t # u
        BY <1>5, <1>8, <1>9, <1>10, <3>2, <4>2, KnowledgeStays
      <4> QED BY <4>1, <4>2
    <3> QED BY <1>5, <3>1, <3>3, <3>4
  <2> QED BY <2>2 DEF RunsInv
<1>13. KeptInv'
  <2>1. ASSUME NEW t \in Templates, Plain(t)' PROVE Kept(t)'
    <3>1. Plain(t) /\ t \notin edited' /\ Kept(t)
      <4>1. t \notin edited' /\ t \notin edited /\ template[t].offset = 0
        BY <1>7, <1>8, <1>10, <2>1 DEF Plain
      <4> QED BY <4>1 DEF Plain, RecInv, KeptInv
    <3>2. CASE t # u
      BY <1>5, <1>8, <1>9, <3>1, <3>2, KeptStays
    <3>3. CASE t = u
      <4>1. q.op # "update" /\ row.last = template[u].last
        BY <1>7, <1>10, <3>1, <3>3
      <4>2. ASSUME NEW n \in Nat, Due(u, n)'
            PROVE  /\ ~(Instant(row, n) <= clock)
                   /\ n <= row.last \div DayLength => Booked(Instant(row, n))
        <5>1. Instant(row, n) \in Int /\ clock < Instant(row, n)
          BY <1>7, <1>8, <3>1, <3>3, <4>2, InstantOf DEF Due, Plain
        <5>2. CASE q.op = "create"
          <6>1. row.last = Never
            BY <1>2, <1>3, <3>1, <3>3, <4>1, <5>2 DEF RecInv, RecTypes, IsChange, Plain
          <6> QED BY <1>6, <5>1, <6>1, NeverIsBefore
        <5>3. CASE q.op # "create"
          <6>1. /\ row.days = template[u].days /\ row.pickup = template[u].pickup
                /\ row.offset = template[u].offset
            BY <1>7, <4>1, <5>3
          <6>2. Instant(row, n) = Instant(template[u], n)
            BY <6>1 DEF Instant
          <6>3. since[u] <= clock /\ since[u] \in Int
            BY <1>6
          <6>4. Due(u, n)
            BY <1>6, <1>8, <4>2, <5>1, <6>1, <6>2, <6>3 DEF Due
          <6> QED BY <1>6, <3>1, <3>3, <4>1, <5>1, <6>2, <6>4 DEF Kept
        <5> QED BY <5>2, <5>3
      <4>3. \A n : Instant(template[u], n)' = Instant(row, n)
        BY <1>8 DEF Instant
      <4>4. \A n : Booked(Instant(row, n)) => Booked(Instant(template[u], n))'
        BY <1>9, <4>3 DEF Booked
      <4> QED BY <1>5, <1>8, <3>3, <4>2, <4>3, <4>4 DEF Kept
    <3> QED BY <3>2, <3>3
  <2> QED BY <2>1 DEF KeptInv
<1>14. OnceInv'
  <2>1. \A t \in Templates : Plain(t)' => Plain(t)
    BY <1>7, <1>8, <1>10 DEF Plain
  <2>2. \A t \in Templates \ edited' :
            t \notin edited /\ template'[t].last = template[t].last
    BY <1>7, <1>8, <1>10
  <2>3. ASSUME OneRun PROVE OneRun'
    <3>1. \A g \in Schedulers, t \in Templates \ edited' : generating'[g].busy =>
              generating'[g].copy[t].last = template'[t].last
      BY <1>5, <2>2, <2>3 DEF OneRun
    <3>2. \A t \in Templates : Plain(t)' =>
              \A i \in DOMAIN booking' :
                  booking'[i].from = {t} => booking'[i].at <= template'[t].last
      <4>1. \A t \in Templates : Plain(t)' => t \in Templates \ edited'
        BY DEF Plain
      <4> QED BY <1>5, <2>1, <2>2, <2>3, <4>1 DEF OneRun
    <3> QED BY <1>5, <2>3, <3>1, <3>2 DEF OneRun
  <2>4. \A i \in DOMAIN booking : booking[i].from \subseteq Templates
    BY BookingsAreTyped DEF RecInv
  <2>5. GeneratedOnce'
    BY <1>5, <2>1, <2>4 DEF RecInv, OnceInv, GeneratedOnce
  <2> QED BY <1>5, <2>3, <2>5 DEF RecInv, OnceInv
<1> QED BY <1>11, <1>12, <1>13, <1>14 DEF RecInv
-----------------------------------------------------------------------------
\* The runs of the other schedulers.
LEMMA OtherRuns ==
    ASSUME RunsInv, NEW g \in Schedulers, UNCHANGED <<clock, template, since, edited>>,
           \A at : Booked(at) => Booked(at)',
           \A h \in Schedulers \ {g} : generating'[h] = generating[h],
           NEW h \in Schedulers \ {g}, generating'[h] # Resting
    PROVE  /\ RunIsRight(generating[h])'
           /\ \A t \in Templates \ edited' : RunKnows(generating[h], t)'
<1>1. PICK r : r = generating[h]
  OBVIOUS
<1>2. RunIsRight(r) /\ \A t \in Templates \ edited : RunKnows(r, t)
  BY <1>1 DEF RunsInv
<1>3. RunIsRight(r)'
  BY <1>2, RunStaysRight
<1>4. \A t \in Templates \ edited : RunKnows(r, t)'
  BY <1>2, KnowledgeStays
<1> QED BY <1>1, <1>3, <1>4

LEMMA SameTypes ==
    ASSUME RecTypes, UNCHANGED <<clock, template, booking, recCall, since, edited>>,
           DOMAIN generating' = Schedulers
    PROVE  RecTypes'
BY DEF RecTypes, IsChange

\* A run begins: it knows the templates as they are.
LEMMA StartGeneratingKeeps ==
    ASSUME RecInv, NEW g \in Schedulers, StartGenerating(g)
    PROVE  RecInv'
<1> DEFINE new == [busy |-> TRUE, copy |-> template, fresh |-> {},
                   todo |-> {t \in Templates : template[t].status = "active"},
                   last |-> [t \in Templates |-> template[t].last]]
<1>1. PICK r : r = new
  OBVIOUS
<1>2. /\ r.busy = TRUE /\ r.copy = template /\ r.fresh = {}
      /\ r.todo = {t \in Templates : template[t].status = "active"}
      /\ r.last = [t \in Templates |-> template[t].last]
      /\ DOMAIN r = {"busy", "copy", "todo", "fresh", "last"}
  BY <1>1
<1>3. /\ generating' = [generating EXCEPT ![g] = r] /\ ~generating[g].busy
      /\ collided' = (collided \/ Booking_)
      /\ UNCHANGED <<clock, template, booking, recCall, ran, since, edited>>
  BY <1>1 DEF StartGenerating
<1> HIDE DEF new
<1>4. /\ generating'[g] = r /\ DOMAIN generating' = Schedulers
      /\ \A h \in Schedulers \ {g} : generating'[h] = generating[h]
      /\ template \in [Templates -> Template]
  BY <1>3 DEF RecInv, RecTypes
<1>5. \A at : Booked(at) => Booked(at)'
  BY <1>3 DEF Booked
<1>6. RecTypes'
  BY <1>3, <1>4, SameTypes DEF RecInv
<1>7. RunsInv'
  <2>1. RunIsRight(r)
    <3>1. r.last \in [Templates -> {Never} \union (0 .. MaxTime + DayLength)]
      BY <1>2, <1>4 DEF Template
    <3>2. IsFiniteSet(r.fresh)
      BY <1>2, FS_EmptySet
    <3> QED BY <1>2, <1>4, <3>1, <3>2 DEF RunIsRight
  <2>2. ASSUME NEW t \in Templates \ edited PROVE RunKnows(r, t)
    <3>1. ASSUME template[t].offset = 0, NEW n \in Nat, Due(t, n),
                 n <= template[t].last \div DayLength
          PROVE  Booked(Instant(template[t], n))
      BY <3>1 DEF RecInv, KeptInv, Plain, Kept
    <3> QED BY <1>2, <3>1 DEF RunKnows
  <2>3. RunIsRight(r)' /\ \A t \in Templates \ edited : RunKnows(r, t)'
    BY <1>3, <1>5, <2>1, <2>2, RunStaysRight, KnowledgeStays
  <2>4. RunIsRight(generating[g])' /\ \A t \in Templates \ edited' : RunKnows(generating[g], t)'
    BY <1>3, <1>4, <2>3
  <2>5. ASSUME NEW h \in Schedulers \ {g}, generating'[h] # Resting
        PROVE  /\ RunIsRight(generating[h])'
               /\ \A t \in Templates \ edited' : RunKnows(generating[h], t)'
    BY <1>3, <1>4, <1>5, <2>5, OtherRuns DEF RecInv
  <2> QED BY <2>4, <2>5 DEF RunsInv
<1>8. KeptInv'
  BY <1>3, <1>5, KeptStays DEF RecInv, KeptInv, Plain
<1>9. OnceInv'
  <2>1. ASSUME ~collided' PROVE OneRun'
    <3>1. OneRun /\ ~collided /\ \A h \in Schedulers : ~generating[h].busy
      BY <1>3, <2>1 DEF RecInv, OnceInv, Booking_
    <3>2. \A h \in Schedulers : generating'[h].busy => h = g
      BY <1>4, <3>1
    <3>3. \A h \in Schedulers, t \in Templates \ edited' : generating'[h].busy =>
              generating'[h].copy[t].last = template'[t].last
      BY <1>2, <1>3, <1>4, <3>2
    <3>4. \A t \in Templates : Plain(t)' =>
              \A i \in DOMAIN booking' :
                  booking'[i].from = {t} => booking'[i].at <= template'[t].last
      BY <1>3, <3>1 DEF OneRun, Plain
    <3> QED BY <3>2, <3>3, <3>4 DEF OneRun
  <2>2. GeneratedOnce'
    <3>1. (collided => collided') /\ \A t : Plain(t)' <=> Plain(t)
      BY <1>3 DEF Plain
    <3> QED BY <1>3, <3>1 DEF RecInv, OnceInv, GeneratedOnce
  <2> QED BY <2>1, <2>2 DEF OnceInv
<1> QED BY <1>6, <1>7, <1>8, <1>9 DEF RecInv

LEMMA GeneratingFailsKeeps ==
    ASSUME RecInv, NEW g \in Schedulers, GeneratingFails(g)
    PROVE  RecInv'
<1>1. /\ generating' = [generating EXCEPT ![g] = Resting]
      /\ UNCHANGED <<clock, template, booking, recCall, ran, since, edited, collided>>
  BY DEF GeneratingFails
<1>2. /\ generating'[g] = Resting /\ DOMAIN generating' = Schedulers
      /\ \A h \in Schedulers \ {g} : generating'[h] = generating[h]
      /\ Resting.busy = FALSE
  BY <1>1 DEF RecInv, RecTypes, Resting
<1>3. \A at : Booked(at) => Booked(at)'
  BY <1>1 DEF Booked
<1>4. RecTypes'
  BY <1>1, <1>2, SameTypes DEF RecInv
<1>5. RunsInv'
  <2>1. ASSUME NEW h \in Schedulers \ {g}, generating'[h] # Resting
        PROVE  /\ RunIsRight(generating[h])'
               /\ \A t \in Templates \ edited' : RunKnows(generating[h], t)'
    BY <1>1, <1>2, <1>3, <2>1, OtherRuns DEF RecInv
  <2> QED BY <1>2, <2>1 DEF RunsInv
<1>6. KeptInv'
  BY <1>1, <1>3, KeptStays DEF RecInv, KeptInv, Plain
<1>7. OnceInv'
  <2>1. ASSUME OneRun PROVE OneRun'
    <3>1. \A h \in Schedulers : generating'[h].busy => h # g /\ generating'[h] = generating[h]
      BY <1>2
    <3>2. \A h, k \in Schedulers : generating'[h].busy /\ generating'[k].busy => h = k
      BY <2>1, <3>1 DEF OneRun
    <3>3. \A h \in Schedulers, t \in Templates \ edited' : generating'[h].busy =>
              generating'[h].copy[t].last = template'[t].last
      BY <1>1, <2>1, <3>1 DEF OneRun
    <3>4. \A t \in Templates : Plain(t)' =>
              \A i \in DOMAIN booking' :
                  booking'[i].from = {t} => booking'[i].at <= template'[t].last
      BY <1>1, <2>1 DEF OneRun, Plain
    <3> QED BY <3>2, <3>3, <3>4 DEF OneRun
  <2>2. GeneratedOnce'
    BY <1>1 DEF RecInv, OnceInv, GeneratedOnce, Plain
  <2> QED BY <1>1, <2>1, <2>2 DEF RecInv, OnceInv
<1> QED BY <1>4, <1>5, <1>6, <1>7 DEF RecInv

\* Time goes on when no run is busy: what comes next has been booked.
LEMMA TickKeeps ==
    ASSUME RecInv, Tick
    PROVE  RecInv'
<1>1. /\ clock < MaxTime /\ ran /\ clock' = clock + 1 /\ ran' = FALSE
      /\ \A g \in Schedulers : ~generating[g].busy
      /\ UNCHANGED <<template, booking, recCall, generating, since, edited, collided>>
      /\ clock \in 0 .. MaxTime /\ MaxTime \in Nat
  BY RecurringAssumption DEF Tick, RecInv, RecTypes
<1>2. RecTypes'
  <2>1. clock' \in 0 .. MaxTime /\ 0 .. clock \subseteq 0 .. clock'
    BY <1>1
  <2>2. since' \in [Templates -> 0 .. clock']
    BY <1>1, <2>1 DEF RecInv, RecTypes
  <2> QED BY <1>1, <2>1, <2>2 DEF RecInv, RecTypes, IsChange
<1>3. RunsInv'
  BY <1>1, RunsAreBusy DEF RecInv, RunsInv
<1>4. KeptInv'
  <2>1. ASSUME NEW t \in Templates, Plain(t)' PROVE Kept(t)'
    <3>1. Kept(t)
      BY <1>1, <2>1 DEF Plain, RecInv, KeptInv
    <3>2. \A n : Instant(template[t], n)' = Instant(template[t], n)
      BY <1>1 DEF Instant
    <3>3. \A n : Booked(Instant(template[t], n)) => Booked(Instant(template[t], n))'
      BY <1>1, <3>2 DEF Booked
    <3> QED BY <1>1, <3>1, <3>2, <3>3 DEF Kept, Due, InReach
  <2> QED BY <2>1 DEF KeptInv
<1>5. OnceInv'
  BY <1>1, QuietOnce DEF RecInv
<1> QED BY <1>2, <1>3, <1>4, <1>5 DEF RecInv

LEMMA Replaced ==
    ASSUME NEW S, NEW T, NEW f \in [S -> T], NEW x \in S, NEW v \in T
    PROVE  LET h == [f EXCEPT ![x] = v]
           IN  h \in [S -> T] /\ h[x] = v /\ \A y \in S \ {x} : h[y] = f[y]
OBVIOUS

\* A run goes through one template: what it skips is booked, or will be by the run.
LEMMA GenerateFromIsRight ==
    ASSUME RecTypes, NEW t \in Templates, NEW r, RunIsRight(r), t \in r.todo,
           NEW new \in SUBSET Occurrences(r.copy[t]),
           \A at \in Occurrences(r.copy[t]) \ new :
               Booked(at) \/ \E x \in r.fresh : x.at = at,
           NEW made, IsFiniteSet(made), \A at \in new : \E x \in made : x.at = at,
           \A x \in made : x = [at |-> x.at, from |-> x.from] /\ x.from = t /\ x.at \in new,
           NEW late \in new \union {r.last[t]}, \A b \in new \union {r.last[t]} : b <= late,
           NEW q, q.busy = TRUE, q.copy = r.copy, q.todo = r.todo \ {t},
           q.fresh = r.fresh \union made, q.last = [r.last EXCEPT ![t] = late],
           DOMAIN q = {"busy", "copy", "todo", "fresh", "last"}
    PROVE  RunIsRight(q)
<1>1. /\ r.copy \in [Templates -> Template] /\ r.copy[t] \in Template
      /\ r.copy[t].status = "active" /\ r.last[t] = r.copy[t].last
      /\ r.last \in [Templates -> {Never} \union (0 .. MaxTime + DayLength)]
      /\ r.todo \subseteq Templates /\ r.last[t] \in Int
      /\ IsFiniteSet(r.fresh) /\ clock \in 0 .. MaxTime
  <2>1. /\ r.copy \in [Templates -> Template] /\ r.copy[t] \in Template
        /\ r.copy[t].status = "active" /\ r.last[t] = r.copy[t].last
        /\ r.last \in [Templates -> {Never} \union (0 .. MaxTime + DayLength)]
        /\ r.todo \subseteq Templates /\ IsFiniteSet(r.fresh)
    BY DEF RunIsRight
  <2> QED BY <2>1, RowIsWhole DEF RecTypes
<1>8. late \in {Never} \union (0 .. MaxTime + DayLength)
      /\ (late = r.copy[t].last \/ late \in Occurrences(r.copy[t]))
  <2>1. \A at \in Occurrences(r.copy[t]) : at \in 0 .. MaxTime + DayLength
    BY <1>1, OccurrenceOf
  <2> QED BY <1>1, <2>1
<1>9. /\ q.last \in [Templates -> {Never} \union (0 .. MaxTime + DayLength)]
      /\ q.last[t] = late /\ \A s \in Templates \ {t} : q.last[s] = r.last[s]
  <2> DEFINE Times == {Never} \union (0 .. MaxTime + DayLength)
  <2>1. r.last \in [Templates -> Times] /\ late \in Times
    BY <1>1, <1>8
  <2> HIDE DEF Times
  <2>3. q.last \in [Templates -> Times]
    BY <2>1, Replaced
  <2>4. q.last[t] = late /\ \A s \in Templates \ {t} : q.last[s] = r.last[s]
    BY <2>1, Replaced
  <2> QED BY <2>3, <2>4 DEF Times
<1>10. IsFiniteSet(q.fresh)
  <2>1. IsFiniteSet(r.fresh \union made)
    BY <1>1, FS_Union
  <2> QED BY <2>1
<1>11. \A at \in Occurrences(r.copy[t]) : Booked(at) \/ \E x \in q.fresh : x.at = at
  <2>2. r.fresh \subseteq q.fresh /\ made \subseteq q.fresh
    OBVIOUS
  <2>3. \A at \in new : \E x \in q.fresh : x.at = at
    BY <2>2
  <2> QED BY <2>2, <2>3
<1>12. ASSUME NEW s \in Templates
       PROVE  /\ s \in q.todo => q.copy[s].status = "active"
              /\ s \in q.todo \/ q.copy[s].status # "active" => q.last[s] = q.copy[s].last
              /\ q.last[s] = q.copy[s].last \/ q.last[s] \in Occurrences(q.copy[s])
              /\ q.copy[s].status = "active" /\ s \notin q.todo =>
                     \A at \in Occurrences(q.copy[s]) :
                         Booked(at) \/ \E x \in q.fresh : x.at = at
  <2>1. CASE s = t
    BY <1>1, <1>8, <1>9, <1>11, <2>1
  <2>2. CASE s # t
    BY <1>9, <2>2 DEF RunIsRight
  <2> QED BY <2>1, <2>2
<1>13. ASSUME NEW x \in q.fresh
       PROVE  /\ x = [at |-> x.at, from |-> x.from] /\ x.from \in Templates
              /\ q.copy[x.from].status = "active"
              /\ x.at \in Occurrences(q.copy[x.from]) /\ x.at <= q.last[x.from]
  <2>1. CASE x \in made
    BY <1>1, <1>9, <2>1
  <2>2. CASE x \in r.fresh
    <3>1. /\ x = [at |-> x.at, from |-> x.from] /\ x.from \in Templates
          /\ r.copy[x.from].status = "active"
          /\ x.at \in Occurrences(r.copy[x.from]) /\ x.at <= r.last[x.from]
      BY <2>2 DEF RunIsRight
    <3>2. x.at \in Int
      BY <1>1, <3>1, OccurrenceOf
    <3>3. x.from = t => x.at <= late
      <4>1. late \in Int /\ r.last[t] <= late
        <5>1. r.last[t] <= late
          OBVIOUS
        <5>2. CASE late = r.last[t]
          BY <1>1, <5>1, <5>2
        <5>3. CASE late \in new
          <6>1. late \in 0 .. MaxTime + DayLength
            BY <1>1, <5>3, OccurrenceOf
          <6> QED BY <5>1, <6>1
        <5> QED BY <5>2, <5>3
      <4> QED BY <1>1, <3>1, <3>2, <4>1
    <3> QED BY <1>9, <3>1, <3>3
  <2> QED BY <2>1, <2>2
<1> QED BY <1>1, <1>9, <1>10, <1>12, <1>13 DEF RunIsRight

LEMMA GenerateFromKeeps ==
    ASSUME RecInv, NEW g \in Schedulers, NEW t \in Templates, GenerateFrom(g, t)
    PROVE  RecInv'
<1>1. PICK r : r = generating[g]
  OBVIOUS
<1>2. PICK taken : taken = ScheduledTimes \union {x.at : x \in r.fresh}
  OBVIOUS
<1>3. PICK new : new = {at \in Occurrences(r.copy[t]) : ~Overlaps(at, taken)}
  OBVIOUS
<1>4. PICK q : q = [r EXCEPT !.todo = @ \ {t},
                             !.fresh = @ \union {[at |-> at, from |-> t] : at \in new},
                             !.last[t] = Latest(new, @)]
  OBVIOUS
<1>5. /\ r.busy /\ t \in r.todo /\ generating' = [generating EXCEPT ![g] = q]
      /\ UNCHANGED <<clock, template, booking, recCall, ran, since, edited, collided>>
  BY <1>1, <1>2, <1>3, <1>4 DEF GenerateFrom
<1>6. r # Resting /\ RunIsRight(r) /\ \A s \in Templates \ edited : RunKnows(r, s)
  <2>1. r # Resting
    BY <1>5 DEF Resting
  <2>2. RunsInv
    BY DEF RecInv
  <2>3. RunIsRight(generating[g]) /\ \A s \in Templates \ edited : RunKnows(generating[g], s)
    BY <1>1, <2>1, <2>2 DEF RunsInv
  <2>4. RunIsRight(r) /\ \A s \in Templates \ edited : RunKnows(r, s)
    BY <1>1, <2>3
  <2> QED BY <2>1, <2>4
<1> DEFINE made == {[at |-> at, from |-> t] : at \in new}
           late == Latest(new, r.last[t])
<1>7. /\ q.busy = TRUE /\ q.copy = r.copy /\ q.todo = r.todo \ {t}
      /\ q.fresh = r.fresh \union made
      /\ q.last = [r.last EXCEPT ![t] = late]
      /\ DOMAIN q = {"busy", "copy", "todo", "fresh", "last"}
  BY <1>4, <1>6 DEF RunIsRight
<1>8. RunIsRight(q)
  <2>1. /\ RecTypes /\ clock \in 0 .. MaxTime
        /\ r.copy[t] \in Template /\ r.last[t] = r.copy[t].last
    BY <1>5, <1>6 DEF RecInv, RecTypes, RunIsRight
  <2>2. /\ new \subseteq Occurrences(r.copy[t]) /\ IsFiniteSet(new)
    BY <1>3, <2>1, OccurrencesAreFinite, FS_Subset
  <2>3. \A at \in Occurrences(r.copy[t]) \ new :
            Booked(at) \/ \E x \in r.fresh : x.at = at
    BY <1>2, <1>3 DEF Overlaps, ScheduledTimes, Booked
  <2>4. /\ late \in new \union {r.last[t]}
        /\ \A b \in new \union {r.last[t]} : b <= late
    BY <2>1, <2>2, RowIsWhole, LatestOf
  <2>5. IsFiniteSet(made)
    <3> DEFINE f == [at \in new |-> [at |-> at, from |-> t]]
    <3>1. f \in Surjection(new, made)
      BY DEF Surjection
    <3> QED BY <2>2, <3>1, FS_Surjection
  <2>6. \A x \in made : x = [at |-> x.at, from |-> x.from] /\ x.from = t /\ x.at \in new
    OBVIOUS
  <2>7. \A at \in new : \E x \in made : x.at = at
    <3>1. ASSUME NEW at \in new PROVE \E x \in made : x.at = at
      <4>1. [at |-> at, from |-> t] \in made /\ [at |-> at, from |-> t].at = at
        OBVIOUS
      <4> QED BY <4>1
    <3> QED BY <3>1
  <2> HIDE DEF made, late
  <2> QED BY ZenonT(30), <1>5, <1>6, <1>7, <2>1, <2>2, <2>3, <2>4, <2>5, <2>6, <2>7, GenerateFromIsRight
<1>9. \A s \in Templates \ edited : RunKnows(q, s)
  BY <1>6, <1>7 DEF RunKnows
<1>10. /\ generating'[g] = q /\ DOMAIN generating' = Schedulers
       /\ \A h \in Schedulers \ {g} : generating'[h] = generating[h]
  BY <1>5 DEF RecInv, RecTypes
<1>11. \A at : Booked(at) => Booked(at)'
  BY <1>5 DEF Booked
<1>12. RecTypes'
  BY <1>5, <1>10, SameTypes DEF RecInv
<1>13. RunsInv'
  <2>1. RunIsRight(q)' /\ \A s \in Templates \ edited : RunKnows(q, s)'
    BY <1>5, <1>8, <1>9, <1>11, RunStaysRight, KnowledgeStays
  <2>2. RunIsRight(generating[g])' /\ \A s \in Templates \ edited' : RunKnows(generating[g], s)'
    BY <1>5, <1>10, <2>1
  <2>3. ASSUME NEW h \in Schedulers \ {g}, generating'[h] # Resting
        PROVE  /\ RunIsRight(generating[h])'
               /\ \A s \in Templates \ edited' : RunKnows(generating[h], s)'
    BY <1>5, <1>10, <1>11, <2>3, OtherRuns DEF RecInv
  <2> QED BY <2>2, <2>3 DEF RunsInv
<1>14. KeptInv'
  BY <1>5, <1>11, KeptStays DEF RecInv, KeptInv, Plain
<1>15. OnceInv'
  <2>1. ASSUME OneRun PROVE OneRun'
    <3>1. \A h \in Schedulers : /\ generating'[h].busy <=> generating[h].busy
                                /\ generating'[h].copy = generating[h].copy
      BY <1>1, <1>5, <1>7, <1>10
    <3>2. \A h, k \in Schedulers : generating'[h].busy /\ generating'[k].busy => h = k
      BY <2>1, <3>1 DEF OneRun
    <3>3. \A h \in Schedulers, s \in Templates \ edited' : generating'[h].busy =>
              generating'[h].copy[s].last = template'[s].last
      BY <1>5, <2>1, <3>1 DEF OneRun
    <3>4. \A s \in Templates : Plain(s)' =>
              \A i \in DOMAIN booking' :
                  booking'[i].from = {s} => booking'[i].at <= template'[s].last
      BY <1>5, <2>1 DEF OneRun, Plain
    <3> QED BY <3>2, <3>3, <3>4 DEF OneRun
  <2>2. GeneratedOnce'
    BY <1>5 DEF RecInv, OnceInv, GeneratedOnce, Plain
  <2> QED BY <1>5, <2>1, <2>2 DEF RecInv, OnceInv
<1> QED BY <1>12, <1>13, <1>14, <1>15 DEF RecInv

\* What is in reach of a run that has gone through all templates, and has not come.
LEMMA ReachedIsBooked ==
    ASSUME RecTypes, NEW t \in Templates, NEW r, RunIsRight(r), r.todo = {}, RunKnows(r, t),
           template[t].offset = 0, r.copy[t].status = "active",
           NEW n \in Nat, Due(t, n), NEW at, at = Instant(template[t], n),
           clock < at, at <= clock + DayLength,
           r.copy[t].last = Never \/ n <= r.copy[t].last \div DayLength + 3
    PROVE  Booked(at) \/ \E x \in r.fresh : x.at = at
<1>1. PICK row \in Template : row = r.copy[t]
  BY DEF RunIsRight
<1>2. /\ row.days = template[t].days /\ row.pickup = template[t].pickup
      /\ row.offset = template[t].offset
  BY <1>1 DEF RunKnows
<1>3. at = Instant(row, n) /\ n % WeekLength \in row.days
  BY <1>2 DEF Instant, Due
<1>4. CASE n <= row.last \div DayLength
  BY <1>1, <1>4 DEF RunKnows
<1>5. CASE ~(n <= row.last \div DayLength)
  <2>1. clock \in 0 .. MaxTime
    BY DEF RecTypes
  <2>2. at \in Occurrences(row)
    BY <1>1, <1>2, <1>3, <1>5, <2>1, IsOccurrence
  <2> QED BY <1>1, <2>2 DEF RunIsRight
<1> QED BY <1>4, <1>5

\* What is kept when the run is written: last is what the template then says.
LEMMA EndKeepsTemplate ==
    ASSUME RecTypes, NEW t \in Templates, NEW r, RunIsRight(r), r.todo = {}, RunKnows(r, t),
           template[t].offset = 0, Kept(t),
           NEW n \in Nat, Due(t, n), NEW at, at = Instant(template[t], n),
           NEW last, last = IF r.last[t] = r.copy[t].last THEN template[t].last
                            ELSE r.last[t]
    PROVE  \/ Booked(at) \/ \E x \in r.fresh : x.at = at
           \/ /\ ~(n <= last \div DayLength)
              /\ (/\ template[t].status = "active"
                  /\ last = Never \/ n <= last \div DayLength + 3)
                     => /\ ~(at <= clock)
                        /\ r.copy[t].status = "active" => ~(at <= clock + 1)
<1> DEFINE B == Booked(at) \/ \E x \in r.fresh : x.at = at
           D == DayLength
<1>1. /\ clock \in Nat /\ clock \in 0 .. MaxTime /\ D \in Nat \ {0}
      /\ template[t] \in Template /\ since[t] \in Nat
      /\ template[t].last \in Int
  BY RowIsWhole, RecurringAssumption DEF RecTypes
<1>2. at \in Nat /\ since[t] < at
  BY <1>1, InstantOf DEF Due
<1>3. \/ Booked(at)
      \/ /\ ~(n <= template[t].last \div D)
         /\ template[t].status = "active" /\ InReach(t, n) => ~(at <= clock)
  BY DEF Kept
<1>4. template[t].last > clock /\ at <= template[t].last => Booked(at)
  <2>1. ASSUME template[t].last > clock, at <= template[t].last
        PROVE  n <= template[t].last \div D
    <3>1. template[t].last \in Nat
      BY <1>1, <2>1
    <3> QED BY <1>1, <2>1, <3>1, DayOf
  <2> QED BY <1>3, <2>1
<1>5. /\ r.copy[t] \in Template /\ r.copy[t].last \in Int
      /\ template[t].last = r.copy[t].last \/ template[t].last > clock
  BY RowIsWhole DEF RunIsRight, RunKnows
<1>6. CASE r.last[t] = r.copy[t].last
  <2>1. last = template[t].last
    BY <1>6
  <2>2. ASSUME r.copy[t].status = "active", last = Never \/ n <= last \div D + 3,
               clock < at, at <= clock + 1
        PROVE  B
    <3>1. CASE template[t].last > clock
      <4>1. at <= template[t].last
        BY <1>1, <1>2, <2>2, <3>1
      <4> QED BY <1>4, <3>1, <4>1
    <3>2. CASE template[t].last = r.copy[t].last
      <4>1. at <= clock + D
        BY <1>1, <1>2, <2>2
      <4> QED BY <2>1, <2>2, <3>2, <4>1, ReachedIsBooked
    <3> QED BY <1>5, <3>1, <3>2
  <2> QED BY <1>1, <1>2, <1>3, <2>1, <2>2 DEF InReach
<1>7. CASE r.last[t] # r.copy[t].last
  <2>1. /\ last = r.last[t] /\ last \in Occurrences(r.copy[t])
        /\ r.copy[t].status = "active"
    BY <1>7 DEF RunIsRight
  <2>2. /\ r.copy[t].offset = 0
        /\ \A m : Instant(r.copy[t], m) = Instant(template[t], m)
    BY <2>1 DEF RunKnows, Instant
  <2>3. PICK row \in Template : row = r.copy[t]
    BY <1>5
  <2>4. row.offset = 0 /\ last \in Occurrences(row)
    BY <2>1, <2>2, <2>3
  <2>5. last \in 0 .. MaxTime + D /\ clock < last /\ last <= clock + D
    BY <1>1, <2>4, OccurrenceOf
  <2>6. PICK m \in Nat : /\ last = Instant(row, m) /\ last \div D = m
                         /\ row.last = Never \/ m <= row.last \div D + 3
    BY <1>1, <2>4, OccurrenceOf
  <2>7. /\ last = Instant(template[t], m) /\ last \div D = m
        /\ r.copy[t].last = Never \/ m <= r.copy[t].last \div D + 3
    BY <2>2, <2>3, <2>6
  <2>8. last \in Nat /\ clock < last /\ last <= clock + D
    BY <1>1, <2>5
  <2>9. n <= m => at <= last
    <3>1. n < m => Instant(template[t], n) < Instant(template[t], m)
      BY <1>1, InstantsRise
    <3>2. n < m => at < last
      BY <2>7, <3>1
    <3>3. n = m => at = last
      BY <2>7
    <3> QED BY <1>2, <2>8, <3>2, <3>3
  <2>10. at <= last => n <= m
    <3>1. Instant(template[t], n) <= Instant(template[t], m) => n <= m
      BY <1>1, InstantsRise
    <3> QED BY <2>7, <3>1
  <2>11. r.copy[t].last = Never \/ r.copy[t].last \div D \in Int
    BY <1>1, <1>5
  <2>12. ASSUME n <= m PROVE B
    <3>1. r.copy[t].last = Never \/ n <= r.copy[t].last \div D + 3
      BY <2>7, <2>11, <2>12
    <3>2. CASE clock < at
      <4>1. at <= clock + D
        BY <1>1, <1>2, <2>8, <2>9, <2>12
      <4> QED BY <2>1, <3>1, <3>2, <4>1, ReachedIsBooked
    <3>3. CASE at <= clock
      <4>1. template[t].status = "active"
        BY <1>1, <1>2, <2>1, <3>3 DEF RunKnows
      <4>2. CASE template[t].last > clock
        BY <1>1, <1>2, <1>4, <3>3, <4>2
      <4>3. CASE template[t].last = r.copy[t].last
        BY <1>3, <3>1, <3>3, <4>1, <4>3 DEF InReach
      <4> QED BY <1>5, <4>2, <4>3
    <3> QED BY <1>1, <1>2, <3>2, <3>3
  <2>13. at <= clock + 1 => B
    BY <1>1, <1>2, <2>8, <2>10, <2>12
  <2> HIDE DEF B
  <2>14. B \/ (~(n <= last \div D) /\ ~(at <= clock) /\ ~(at <= clock + 1))
    <3>1. at <= clock => at <= clock + 1
      BY <1>1, <1>2
    <3> QED BY <2>7, <2>12, <2>13, <3>1
  <2> QED BY <2>14 DEF B
<1> QED BY <1>6, <1>7

\* A template as the run writes it: only what was generated last may change.
LEMMA TemplateWritten ==
    ASSUME NEW row \in Template, NEW copy \in Template, NEW new \in Template,
           new.status = copy.status, new.days = copy.days,
           new.pickup = copy.pickup, new.offset = copy.offset
    PROVE  LET after == Merge(row, copy, new)
           IN  /\ after \in Template
               /\ after.status = row.status /\ after.days = row.days
               /\ after.pickup = row.pickup /\ after.offset = row.offset
               /\ after.last = IF new.last = copy.last THEN row.last ELSE new.last
BY MergeOfTemplates

\* What a run that ends does to the templates.
LEMMA EndWritesTemplates ==
    ASSUME template \in [Templates -> Template], NEW r, RunIsRight(r),
           template' = [t \in Templates |->
               Merge(template[t], r.copy[t], [r.copy[t] EXCEPT !.last = r.last[t]])]
    PROVE  /\ template' \in [Templates -> Template]
           /\ \A t \in Templates :
                  /\ template'[t].status = template[t].status
                  /\ template'[t].days = template[t].days
                  /\ template'[t].pickup = template[t].pickup
                  /\ template'[t].offset = template[t].offset
                  /\ template'[t].last = IF r.last[t] = r.copy[t].last
                                         THEN template[t].last ELSE r.last[t]
<1>1. ASSUME NEW t \in Templates
      PROVE  /\ template'[t] \in Template
             /\ template'[t].status = template[t].status
             /\ template'[t].days = template[t].days
             /\ template'[t].pickup = template[t].pickup
             /\ template'[t].offset = template[t].offset
             /\ template'[t].last = IF r.last[t] = r.copy[t].last
                                    THEN template[t].last ELSE r.last[t]
  <2>1. PICK row \in Template : row = template[t]
    OBVIOUS
  <2>2. PICK copy \in Template : copy = r.copy[t]
    BY DEF RunIsRight
  <2>3. PICK last \in {Never} \union (0 .. MaxTime + DayLength) : last = r.last[t]
    BY DEF RunIsRight
  <2>4. PICK new : new = [copy EXCEPT !.last = last]
    OBVIOUS
  <2>5. PICK after : after = template'[t]
    OBVIOUS
  <2>6. after = Merge(row, copy, new)
    BY <2>1, <2>2, <2>3, <2>4, <2>5
  <2>7. /\ new \in Template /\ new.status = copy.status /\ new.days = copy.days
        /\ new.pickup = copy.pickup /\ new.offset = copy.offset /\ new.last = last
    BY <2>4 DEF Template
  <2>8. /\ after \in Template
        /\ after.status = row.status /\ after.days = row.days
        /\ after.pickup = row.pickup /\ after.offset = row.offset
        /\ after.last = IF last = copy.last THEN row.last ELSE last
    BY <2>6, <2>7, TemplateWritten
  <2> QED BY <2>1, <2>2, <2>3, <2>5, <2>8
<1>2. template' \in [Templates -> Template]
  <2>1. \A t \in Templates : template'[t] \in Template
    BY <1>1
  <2> QED BY <2>1
<1> QED BY <1>1, <1>2

\* Time and place of an occurrence do not depend on what was generated.
LEMMA SameInstants ==
    ASSUME NEW t, template'[t].pickup = template[t].pickup,
           template'[t].offset = template[t].offset, template'[t].days = template[t].days,
           since'[t] = since[t]
    PROVE  \A n : /\ Instant(template[t], n)' = Instant(template[t], n)
                  /\ Due(t, n)' <=> Due(t, n)
BY DEF Instant, Due

\* The run that ends is right, and knows the templates that were never updated.
LEMMA BusyIsRight ==
    ASSUME RunsInv, NEW g \in Schedulers, generating[g].busy
    PROVE  /\ RunIsRight(generating[g])
           /\ \A t \in Templates \ edited : RunKnows(generating[g], t)
BY DEF RunsInv, Resting

\* The run that ends writes what it generated and the rides.
LEMMA EndGeneratingKeeps ==
    ASSUME RecInv, NEW g \in Schedulers, EndGenerating(g)
    PROVE  RecInv'
<1>1. PICK r : r = generating[g]
  OBVIOUS
<1>2. /\ r.busy /\ r.todo = {} /\ generating' = [generating EXCEPT ![g] = Resting]
      /\ booking' = booking \o SetToSeq({Generated(x) : x \in r.fresh})
      /\ template' = [t \in Templates |->
             Merge(template[t], r.copy[t], [r.copy[t] EXCEPT !.last = r.last[t]])]
      /\ ran' = \A t \in Templates : [r.copy[t] EXCEPT !.last = Never]
                                       = [template[t] EXCEPT !.last = Never]
      /\ UNCHANGED <<clock, recCall, since, edited, collided>>
  BY <1>1 DEF EndGenerating
<1>3. RecTypes /\ RunsInv /\ KeptInv /\ OnceInv
  BY DEF RecInv
<1>4. RunIsRight(r) /\ \A t \in Templates \ edited : RunKnows(r, t)
  <2>1. RunIsRight(generating[g]) /\ \A t \in Templates \ edited : RunKnows(generating[g], t)
    BY <1>1, <1>2, <1>3, BusyIsRight
  <2> QED BY <1>1, <2>1
<1>5. /\ template' \in [Templates -> Template]
      /\ \A t \in Templates :
             /\ template'[t].status = template[t].status
             /\ template'[t].days = template[t].days
             /\ template'[t].pickup = template[t].pickup
             /\ template'[t].offset = template[t].offset
             /\ template'[t].last = IF r.last[t] = r.copy[t].last
                                    THEN template[t].last ELSE r.last[t]
  BY <1>2, <1>3, <1>4, EndWritesTemplates DEF RecTypes
<1>6. /\ clock \in 0 .. MaxTime /\ clock \in Nat /\ booking \in Seq(Booking)
      /\ template \in [Templates -> Template] /\ since \in [Templates -> 0 .. clock]
  BY <1>3, RecurringAssumption DEF RecTypes
<1>7. \A t \in Templates :
          r.last[t] # r.copy[t].last =>
              /\ r.copy[t].status = "active" /\ r.copy[t] \in Template
              /\ r.last[t] \in Occurrences(r.copy[t]) /\ clock < r.last[t]
  <2>1. ASSUME NEW t \in Templates, r.last[t] # r.copy[t].last
        PROVE  /\ r.copy[t].status = "active" /\ r.copy[t] \in Template
               /\ r.last[t] \in Occurrences(r.copy[t]) /\ clock < r.last[t]
    <3>1. /\ r.copy[t].status = "active" /\ r.copy[t] \in Template
          /\ r.last[t] \in Occurrences(r.copy[t])
      BY <1>4, <2>1 DEF RunIsRight
    <3> QED BY <1>6, <3>1, OccurrenceOf
  <2> QED BY <2>1
<1>8. \A x \in r.fresh :
          /\ x = [at |-> x.at, from |-> x.from] /\ x.from \in Templates
          /\ x.at \in 0 .. MaxTime + DayLength
          /\ r.copy[x.from] \in Template /\ r.copy[x.from].status = "active"
          /\ x.at \in Occurrences(r.copy[x.from]) /\ x.at <= r.last[x.from]
          /\ r.copy[x.from].offset = 0 => r.copy[x.from].last < x.at
  <2>1. ASSUME NEW x \in r.fresh
        PROVE  /\ x = [at |-> x.at, from |-> x.from] /\ x.from \in Templates
               /\ r.copy[x.from] \in Template /\ r.copy[x.from].status = "active"
               /\ x.at \in Occurrences(r.copy[x.from]) /\ x.at <= r.last[x.from]
    BY <1>4 DEF RunIsRight
  <2> QED BY <1>6, <2>1, OccurrenceOf
<1>9. /\ booking' \in Seq(Booking)
      /\ \A i \in DOMAIN booking : i \in DOMAIN booking' /\ booking'[i] = booking[i]
      /\ \A i \in DOMAIN booking' \ DOMAIN booking :
             \E x \in r.fresh : booking'[i] = Generated(x)
      /\ \A x \in r.fresh : \E i \in DOMAIN booking' : booking'[i] = Generated(x)
      /\ \A i, j \in DOMAIN booking' \ DOMAIN booking : booking'[i] = booking'[j] => i = j
  <2>1. PICK fresh : fresh = r.fresh
    OBVIOUS
  <2>2. IsFiniteSet(fresh)
    BY <1>4, <2>1 DEF RunIsRight
  <2>3. \A x \in fresh : /\ x = [at |-> x.at, from |-> x.from] /\ x.from \in Templates
                         /\ x.at \in 0 .. MaxTime + DayLength
    BY <1>8, <2>1
  <2>4. PICK old \in Seq(Booking) : old = booking
    BY <1>6
  <2> DEFINE new == old \o SetToSeq({Generated(x) : x \in fresh})
  <2>5. new = booking'
    BY <1>2, <2>1, <2>4
  <2>6. /\ new \in Seq(Booking)
        /\ \A i \in DOMAIN old : i \in DOMAIN new /\ new[i] = old[i]
        /\ \A i \in DOMAIN new \ DOMAIN old : \E x \in fresh : new[i] = Generated(x)
        /\ \A x \in fresh : \E i \in DOMAIN new : new[i] = Generated(x)
        /\ \A i, j \in DOMAIN new \ DOMAIN old : new[i] = new[j] => i = j
    BY <2>2, <2>3, NewBookings
  <2> HIDE DEF new
  <2> QED BY <2>1, <2>4, <2>5, <2>6
<1>10. \A x \in r.fresh : /\ Generated(x).at = x.at /\ Generated(x).from = {x.from}
                          /\ \A y \in r.fresh : x.at = y.at /\ x.from = y.from
                                                    => Generated(x) = Generated(y)
  BY DEF Generated
<1>11. \A at : Booked(at) \/ (\E x \in r.fresh : x.at = at) => Booked(at)'
  <2>1. ASSUME NEW at, Booked(at) PROVE Booked(at)'
    BY <1>9, <2>1 DEF Booked
  <2>2. ASSUME NEW at, NEW x \in r.fresh, x.at = at PROVE Booked(at)'
    BY <1>9, <1>10, <2>2 DEF Booked
  <2> QED BY <2>1, <2>2
<1>12. /\ generating'[g] = Resting /\ DOMAIN generating' = Schedulers
       /\ \A h \in Schedulers \ {g} : generating'[h] = generating[h]
       /\ Resting.busy = FALSE
  BY <1>2, <1>3 DEF RecTypes, Resting
<1>13. RecTypes'
  <2>1. \A t \in Templates \ edited' :
            template'[t].status = "none" => template'[t].last = Never
    <3>1. ASSUME NEW t \in Templates \ edited', template'[t].status = "none"
          PROVE  template'[t].last = Never
      <4>1. t \in Templates \ edited /\ template[t].status = "none"
        BY <1>2, <1>5, <3>1
      <4>2. template[t].last = Never
        BY <1>3, <4>1 DEF RecTypes
      <4>3. r.copy[t].status = "none"
        BY <1>4, <4>1 DEF RunKnows
      <4> QED BY <1>5, <1>7, <4>1, <4>2, <4>3
    <3> QED BY <3>1
  <2>2. \A c \in Requests : IsChange(recCall[c]) => IsChange(recCall[c])'
    BY <1>2, <1>5 DEF IsChange
  <2>3. \A c \in Requests : recCall'[c] # RecIdle =>
           \/ IsChange(recCall[c])'
           \/ recCall'[c].op = "book" /\ recCall'[c].at \in 1 .. MaxTime
    BY <1>2, <1>3, <2>2 DEF RecTypes
  <2> QED BY <1>2, <1>3, <1>5, <1>9, <1>12, <2>1, <2>3 DEF RecTypes
<1>14. \A t \in Templates : /\ template'[t].pickup = template[t].pickup
                            /\ template'[t].offset = template[t].offset
                            /\ template'[t].days = template[t].days
                            /\ since'[t] = since[t]
                            /\ \A n : /\ Instant(template[t], n)' = Instant(template[t], n)
                                      /\ Due(t, n)' <=> Due(t, n)
  BY <1>2, <1>5, SameInstants
<1>15. RunsInv'
  <2>1. ASSUME NEW h \in Schedulers \ {g}, generating'[h] # Resting
        PROVE  /\ RunIsRight(generating[h])'
               /\ \A t \in Templates \ edited' : RunKnows(generating[h], t)'
    <3>1. PICK q : q = generating[h]
      OBVIOUS
    <3>2. generating'[h] = q /\ generating[h] # Resting
      BY <1>12, <2>1, <3>1
    <3>3. RunIsRight(q) /\ \A t \in Templates \ edited : RunKnows(q, t)
      BY <1>3, <3>1, <3>2 DEF RunsInv
    <3>4. RunIsRight(q)'
      BY <1>2, <1>11, <3>3, RunStaysRight
    <3>5. ASSUME NEW t \in Templates \ edited PROVE RunKnows(q, t)'
      <4>1. template'[t].last = q.copy[t].last \/ template'[t].last > clock
        BY <1>5, <1>6, <1>7, <3>3 DEF RunKnows
      <4>2. template[t].offset = 0 =>
               \A n \in Nat : Due(t, n) /\ n <= q.copy[t].last \div DayLength
                                  => Booked(Instant(template[t], n))'
        <5>1. ASSUME template[t].offset = 0, NEW n \in Nat, Due(t, n),
                     n <= q.copy[t].last \div DayLength
              PROVE  Booked(Instant(template[t], n))'
          <6>1. PICK at : at = Instant(template[t], n)
            OBVIOUS
          <6>2. Booked(at)
            BY <3>3, <5>1, <6>1 DEF RunKnows
          <6>3. Booked(at)'
            BY <1>11, <6>2
          <6>4. Instant(template[t], n)' = at
            BY <1>14, <6>1
          <6> QED BY <6>3, <6>4 DEF Booked
        <5> QED BY <5>1
      <4> QED BY SMTT(30), <1>2, <1>5, <1>14, <3>3, <4>1, <4>2 DEF RunKnows
    <3> QED BY <1>2, <3>1, <3>2, <3>4, <3>5
  <2> QED BY <1>12, <2>1 DEF RunsInv
<1>16. KeptInv'
  <2>1. ASSUME NEW t \in Templates, Plain(t)', NEW n \in Nat, Due(t, n)'
        PROVE  \/ Booked(Instant(template[t], n))'
               \/ /\ ~(n <= template'[t].last \div DayLength)
                  /\ template'[t].status = "active" /\ InReach(t, n)' =>
                        /\ ~(Instant(template[t], n) <= clock)
                        /\ ~(ran' /\ Instant(template[t], n) <= clock + 1)
    <3>1. PICK at : at = Instant(template[t], n)
      OBVIOUS
    <3>2. PICK last : last = template'[t].last
      OBVIOUS
    <3>3. last = IF r.last[t] = r.copy[t].last THEN template[t].last ELSE r.last[t]
      BY <1>5, <3>2
    <3>4. template[t].offset = 0 /\ RunKnows(r, t) /\ Kept(t) /\ Due(t, n)
      BY <1>2, <1>3, <1>4, <1>5, <1>14, <2>1 DEF KeptInv, Plain
    <3>5. \/ Booked(at) \/ \E x \in r.fresh : x.at = at
          \/ /\ ~(n <= last \div DayLength)
             /\ (/\ template[t].status = "active"
                 /\ last = Never \/ n <= last \div DayLength + 3)
                    => /\ ~(at <= clock)
                       /\ r.copy[t].status = "active" => ~(at <= clock + 1)
      BY <1>2, <1>3, <1>4, <3>1, <3>3, <3>4, EndKeepsTemplate
    <3>6. ran' => r.copy[t].status = template[t].status
      <4>1. PICK row \in Template : row = template[t]
        BY <1>6
      <4>2. PICK copy \in Template : copy = r.copy[t]
        BY <1>4 DEF RunIsRight
      <4>3. ran' => [copy EXCEPT !.last = Never] = [row EXCEPT !.last = Never]
        BY <1>2, <4>1, <4>2
      <4>4. /\ [copy EXCEPT !.last = Never].status = copy.status
            /\ [row EXCEPT !.last = Never].status = row.status
        BY DEF Template
      <4> QED BY <4>1, <4>2, <4>3, <4>4
    <3>7. template'[t].status = template[t].status
      BY <1>5
    <3>8. InReach(t, n)' <=> last = Never \/ n <= last \div DayLength + 3
      BY <3>2 DEF InReach
    <3>9. Booked(at)' => Booked(Instant(template[t], n))'
      BY <1>14, <3>1 DEF Booked
    <3>10. \/ Booked(at)'
           \/ /\ ~(n <= last \div DayLength)
              /\ template'[t].status = "active" /\ InReach(t, n)' =>
                    ~(at <= clock) /\ ~(ran' /\ at <= clock + 1)
      BY <1>11, <3>5, <3>6, <3>7, <3>8
    <3> QED BY <3>1, <3>2, <3>9, <3>10
  <2>2. ASSUME NEW t \in Templates, Plain(t)' PROVE Kept(t)'
    BY <1>2, <1>14, <2>1, <2>2 DEF Kept
  <2> QED BY <2>2 DEF KeptInv
<1>17. \A t \in Templates : Plain(t)' <=> Plain(t)
  BY <1>2, <1>14 DEF Plain
<1>18. ASSUME ~collided
       PROVE  /\ OneRun /\ \A h \in Schedulers : generating[h].busy => h = g
              /\ \A t \in Templates \ edited : r.copy[t].last = template[t].last
  BY <1>1, <1>2, <1>3, <1>18 DEF OnceInv, OneRun
<1>19. ASSUME ~collided, NEW t \in Templates, Plain(t),
              NEW i \in DOMAIN booking, booking[i].from = {t}
       PROVE  /\ booking[i].at <= template[t].last /\ booking[i].at \in Int
              /\ template[t].last \in Int /\ template[t].last = r.copy[t].last
  <2>1. booking[i].at <= template[t].last /\ template[t].last = r.copy[t].last
    BY <1>18, <1>19 DEF OneRun, Plain
  <2>2. booking[i].at \in Int /\ template[t].last \in Int
    BY <1>3, <1>6, <1>19, BookingsAreTyped, RowIsWhole
  <2> QED BY <2>1, <2>2
\* What is new is later than what was there.
<1>20. ASSUME ~collided, NEW x \in r.fresh, Plain(x.from),
              NEW i \in DOMAIN booking, booking[i].from = {x.from}
       PROVE  booking[i].at # x.at
  <2>1. r.copy[x.from].offset = 0
    BY <1>4, <1>8, <1>20 DEF RunKnows, Plain
  <2>2. x.at \in Int /\ r.copy[x.from].last < x.at
    BY <1>8, <2>1, RecurringAssumption
  <2> QED BY <1>8, <1>19, <1>20, <2>2
<1>21. OnceInv'
  <2>1. ASSUME ~collided PROVE OneRun'
    <3>1. \A h \in Schedulers : ~generating'[h].busy
      BY <1>12, <1>18, <2>1
    <3>2. ASSUME NEW t \in Templates, Plain(t), NEW i \in DOMAIN booking',
                 booking'[i].from = {t}
          PROVE  booking'[i].at <= template'[t].last
      <4>1. /\ r.last[t] \in {Never} \union (0 .. MaxTime + DayLength)
            /\ r.copy[t].last = template[t].last /\ template[t].last \in Int
        BY <1>4, <1>6, <1>18, <2>1, <3>2, RowIsWhole DEF Plain, RunIsRight
      <4>2. r.last[t] \in Int
        BY <4>1, RecurringAssumption DEF Never
      <4>3. template'[t].last = r.last[t]
        BY <1>5, <4>1
      <4>4. template[t].last <= r.last[t]
        <5>1. CASE r.last[t] = r.copy[t].last
          BY <4>1, <4>2, <5>1
        <5>2. CASE r.last[t] # r.copy[t].last
          <6>1. /\ r.copy[t].status = "active" /\ r.copy[t] \in Template
                /\ r.last[t] \in Occurrences(r.copy[t])
            BY <1>7, <5>2
          <6>2. r.copy[t].offset = 0
            BY <1>4, <3>2, <6>1 DEF RunKnows, Plain
          <6>3. r.copy[t].last < r.last[t]
            BY <1>6, <6>1, <6>2, OccurrenceOf
          <6> QED BY <4>1, <4>2, <6>3
        <5> QED BY <5>1, <5>2
      <4>5. CASE i \in DOMAIN booking
        <5>1. booking[i].at <= template[t].last /\ booking[i].at \in Int
          BY <1>9, <1>19, <2>1, <3>2, <4>5
        <5> QED BY <1>9, <4>1, <4>2, <4>3, <4>4, <4>5, <5>1
      <4>6. CASE i \notin DOMAIN booking
        <5>1. PICK x \in r.fresh : booking'[i] = Generated(x)
          BY <1>9, <3>2, <4>6
        <5>2. x.from = t /\ booking'[i].at = x.at /\ x.at <= r.last[x.from]
          BY <1>8, <1>10, <3>2, <5>1
        <5> QED BY <4>3, <5>2
      <4> QED BY <4>5, <4>6
    <3>3. \A t \in Templates : Plain(t)' =>
              \A i \in DOMAIN booking' :
                  booking'[i].from = {t} => booking'[i].at <= template'[t].last
      BY <1>17, <3>2
    <3> QED BY <3>1, <3>3 DEF OneRun
  <2>2. ASSUME ~collided, NEW i \in DOMAIN booking', NEW j \in DOMAIN booking',
               booking'[i].from # {}, booking'[i].from = booking'[j].from,
               booking'[i].at = booking'[j].at, \A t \in booking'[i].from : Plain(t)
        PROVE  i = j
    <3>1. CASE i \in DOMAIN booking /\ j \in DOMAIN booking
      <4>1. booking'[i] = booking[i] /\ booking'[j] = booking[j]
        BY <1>9, <3>1
      <4> QED BY <1>3, <2>2, <3>1, <4>1 DEF OnceInv, GeneratedOnce
    <3>2. CASE i \in DOMAIN booking /\ j \notin DOMAIN booking
      <4>1. PICK x \in r.fresh : booking'[j] = Generated(x)
        BY <1>9, <3>2
      <4>2. booking[i].from = {x.from} /\ booking[i].at = x.at /\ Plain(x.from)
        BY <1>9, <1>10, <2>2, <3>2, <4>1
      <4> QED BY <1>20, <2>2, <3>2, <4>2
    <3>3. CASE i \notin DOMAIN booking /\ j \in DOMAIN booking
      <4>1. PICK x \in r.fresh : booking'[i] = Generated(x)
        BY <1>9, <3>3
      <4>2. booking[j].from = {x.from} /\ booking[j].at = x.at /\ Plain(x.from)
        BY <1>9, <1>10, <2>2, <3>3, <4>1
      <4> QED BY <1>20, <2>2, <3>3, <4>2
    <3>4. CASE i \notin DOMAIN booking /\ j \notin DOMAIN booking
      <4>1. PICK x \in r.fresh : booking'[i] = Generated(x)
        BY <1>9, <3>4
      <4>2. PICK y \in r.fresh : booking'[j] = Generated(y)
        BY <1>9, <3>4
      <4>3. x.at = y.at /\ x.from = y.from
        BY <1>10, <2>2, <4>1, <4>2
      <4>4. booking'[i] = booking'[j]
        BY <1>10, <4>1, <4>2, <4>3
      <4> QED BY <1>9, <3>4, <4>4
    <3> QED BY <3>1, <3>2, <3>3, <3>4
  <2>3. \A i \in DOMAIN booking' : booking'[i].from \subseteq Templates
    <3>1. ASSUME NEW i \in DOMAIN booking' PROVE booking'[i].from \subseteq Templates
      <4>1. booking'[i] \in Booking
        BY <1>9, <3>1
      <4> QED BY <4>1 DEF Booking
    <3> QED BY <3>1
  <2>4. GeneratedOnce'
    BY <1>2, <1>17, <2>2, <2>3 DEF GeneratedOnce
  <2> QED BY <1>2, <2>1, <2>4 DEF OnceInv
<1> QED BY <1>13, <1>15, <1>16, <1>21 DEF RecInv

-----------------------------------------------------------------------------
LEMMA RecInvInit == RecurringInit => RecInv
<1> SUFFICES ASSUME RecurringInit PROVE RecInv
  OBVIOUS
<1>1. /\ clock = 0 /\ booking = <<>> /\ ran = FALSE /\ edited = {} /\ collided = FALSE
      /\ recCall = [c \in Requests |-> RecIdle]
      /\ generating = [g \in Schedulers |-> Resting]
      /\ since = [t \in Templates |-> 0] /\ DOMAIN booking = {}
  BY DEF RecurringInit
<1>2. PICK offset \in Offsets : template = [t \in Templates |->
          [status |-> "none", days |-> {}, pickup |-> 0, offset |-> offset,
           last |-> Never]]
  BY DEF RecurringInit
<1>3. RecTypes
  <2>1. 0 \in 0 .. MaxTime /\ 0 \in 0 .. DayLength - 1
    BY RecurringAssumption
  <2>2. template \in [Templates -> Template]
    BY <1>2, <2>1 DEF Template
  <2>3. since \in [Templates -> 0 .. clock]
    BY <1>1
  <2>4. \A c \in Requests : recCall[c] = RecIdle /\ recCall[c].op # "create"
    BY <1>1 DEF RecIdle
  <2>5. booking \in Seq(Booking) /\ clock \in 0 .. MaxTime
    BY <1>1, <2>1
  <2>6. \A t \in Templates : template[t].last = Never
    BY <1>2
  <2>7. DOMAIN recCall = Requests /\ DOMAIN generating = Schedulers
    BY <1>1
  <2> QED BY <2>2, <2>3, <2>4, <2>5, <2>6, <2>7 DEF RecTypes
<1>4. RunsInv
  BY <1>1 DEF RunsInv
<1>5. KeptInv
  BY <1>2 DEF KeptInv, Kept, Due
<1>6. OnceInv
  BY <1>1 DEF OnceInv, OneRun, GeneratedOnce, Resting
<1> QED BY <1>3, <1>4, <1>5, <1>6 DEF RecInv

LEMMA RecInvStep == RecInv /\ [RecurringStep]_recurringVars => RecInv'
<1> SUFFICES ASSUME RecInv, [RecurringStep]_recurringVars PROVE RecInv'
  OBVIOUS
<1>1. ASSUME NEW c \in Requests, RecurringRequest(c) \/ CommitTemplate(c) \/ RecCallLost(c)
      PROVE  RecInv'
  BY <1>1, RequestKeeps, CommitTemplateKeeps, RecCallLostKeeps
<1>2. ASSUME NEW c \in Requests,
             (\E at \in 1 .. MaxTime : LoadSchedule(c, at)) \/ CommitSchedule(c)
      PROVE  RecInv'
  BY <1>2, LoadScheduleKeeps, CommitScheduleKeeps
<1>3. ASSUME NEW g \in Schedulers, SchedulerLoop(g)
      PROVE  RecInv'
  <2>1. CASE StartGenerating(g) \/ EndGenerating(g) \/ GeneratingFails(g)
    BY <2>1, StartGeneratingKeeps, EndGeneratingKeeps, GeneratingFailsKeeps
  <2>2. ASSUME NEW t \in Templates, GenerateFrom(g, t) PROVE RecInv'
    BY <2>2, GenerateFromKeeps
  <2> QED BY <1>3, <2>1, <2>2 DEF SchedulerLoop
<1>4. ASSUME NEW i \in DOMAIN booking, CancelBooking(i) \/ Remind(i) \/ DispatchDue(i)
      PROVE  RecInv'
  BY <1>4, BookingStepsKeep
<1>5. CASE UNCHANGED recurringVars
  <2>1. UNCHANGED <<clock, template, booking, recCall, generating, ran, since, edited,
                    collided>>
    BY <1>5 DEF recurringVars
  <2>2. RecTypes' /\ OnceInv' /\ \A at : Booked(at) => Booked(at)'
    <3>1. RecTypes'
      BY <2>1 DEF RecInv, RecTypes, IsChange
    <3>2. OnceInv'
      BY <2>1 DEF RecInv, OnceInv, OneRun, GeneratedOnce, Plain
    <3>3. \A at : Booked(at) => Booked(at)'
      BY <2>1 DEF Booked
    <3> QED BY <3>1, <3>2, <3>3
  <2>3. RunsInv' /\ KeptInv'
    BY <2>1, <2>2, QuietRuns DEF RecInv
  <2> QED BY <2>2, <2>3 DEF RecInv
<1>6. CASE Tick
  BY <1>6, TickKeeps
<1> QED BY <1>1, <1>2, <1>3, <1>4, <1>5, <1>6 DEF RecurringStep

\* Of a template in UTC that is not updated no occurrence is generated twice, as
\* long as no two runs or bookings overlap, and none is missed that is at most
\* three days after the last one generated (generate_rides_from_recurring).
THEOREM OccurrencesAreBooked == RecurringSpec => []OccurrencesBooked
<1>1. RecInv => OccurrencesBooked
  <2> SUFFICES ASSUME RecInv PROVE GeneratedOnce /\ ReachedAreBooked
    BY DEF OccurrencesBooked
  <2>1. GeneratedOnce
    BY DEF RecInv, OnceInv
  <2>2. ASSUME NEW t \in Templates, template[t].status = "active", Plain(t),
               NEW n \in 0 .. MaxTime, HasCome(t, n), InReach(t, n)
        PROVE  Booked(Instant(template[t], n))
    <3>1. n \in Nat
      BY RecurringAssumption
    <3>2. Kept(t) /\ Due(t, n) /\ Instant(template[t], n) <= clock
      BY <2>2 DEF RecInv, KeptInv, HasCome, Due
    <3> QED BY <2>2, <3>1, <3>2 DEF Kept
  <2> QED BY <2>1, <2>2 DEF ReachedAreBooked
<1> QED BY <1>1, RecInvInit, RecInvStep, PTL DEF RecurringSpec

-----------------------------------------------------------------------------
(* The types of each service, from its invariant and what that leaves out.  *)

\* Rows of cases, and what requests will make of them (models/).
THEOREM CaseTypes == CasesSpec => []CasesTypeOK
<1>1. CaseInv => CasesTypeOK
  BY DEF CaseInv, CasesTypeOK, CallOK
<1> QED BY <1>1, CasesInvariant, PTL

\* Stops, and those that requests change (ride_waypoints).
THEOREM WaypointTypes == StopsSpec => []StopsTypeOK
<1>1. StopsInv => StopsTypeOK
  BY DEF StopsInv, StopTypes, StopsTypeOK, StopIdle, IsStopCall
<1> QED BY <1>1, StopsInvInit, StopsInvStep, PTL DEF StopsSpec

\* Who asked for a ride, and which code it was given.
TripTypes ==
    /\ user \in [Riders -> {"none", "registered", "referring"}]
    /\ \A r \in PromoRides : /\ trip[r].rider \in Riders \union {0}
                             /\ trip[r].code \subseteq Promos
                             /\ DOMAIN trip[r] = {"rider", "code", "completed"}
    /\ muddled \subseteq Promos

LEMMA StartCallKeepsTrips ==
    ASSUME TripTypes, NEW c, NEW call, StartCall(c, call), call.promo \in Promos
    PROVE  TripTypes'
BY DEF StartCall, TripTypes

LEMMA TripTypesKeep ==
    ASSUME PromoInv, TripTypes, [PromosStep]_promoVars
    PROVE  TripTypes'
<1>1. /\ \A c \in Requests : promoCall[c] # PromoIdle =>
                                 IsEdit(promoCall[c]) \/ IsUse(promoCall[c])
      /\ DOMAIN trip = PromoRides /\ PromoIdle.op = "idle"
  BY DEF PromoInv, PromoTypes, PromoIdle
<1>2. CASE UNCHANGED promoVars
  BY <1>2 DEF promoVars, TripTypes
<1>3. ASSUME NEW c \in Requests, AdminPromos(c) PROVE TripTypes'
  <2>1. ASSUME NEW p \in Promos, NEW m, NEW n, NEW a, NEW b, CreatePromo(p, m, n, a, b)
        PROVE  TripTypes'
    BY <2>1 DEF CreatePromo, TripTypes
  <2>2. ASSUME NEW p \in Promos, NEW new, LoadUpdate(c, p, new) PROVE TripTypes'
    BY <2>2, StartCallKeepsTrips DEF LoadUpdate
  <2> QED BY <1>3, <2>1, <2>2 DEF AdminPromos, UpdatePromo, DeactivatePromo
<1>4. ASSUME NEW c \in Requests, RiderPromos(c) PROVE TripTypes'
  <2>1. ASSUME NEW u \in Riders, NEW p \in Promos, NEW r \in PromoRides, NEW high,
               Validate(c, u, p, r, high)
        PROVE  TripTypes'
    BY <2>1, StartCallKeepsTrips DEF Validate
  <2>2. ASSUME NEW u \in Riders, NEW r \in PromoRides, RequestWithoutCode(u, r)
        PROVE  TripTypes'
    <3>1. /\ trip' = [trip EXCEPT ![r] = [trip[r] EXCEPT !.rider = u]]
          /\ user' = user /\ muddled' = muddled
      BY <2>2 DEF RequestWithoutCode
    <3> QED BY <3>1, <1>1 DEF TripTypes
  <2> QED BY <1>4, <2>1, <2>2 DEF RiderPromos
<1>5. ASSUME NEW c \in Requests, CommitUpdate(c) PROVE TripTypes'
  <2>1. promoCall[c].promo \in Promos
    BY <1>1, <1>5 DEF CommitUpdate, IsEdit, IsUse
  <2> QED BY <1>5, <2>1 DEF CommitUpdate, TripTypes
<1>6. ASSUME NEW c \in Requests, CommitDiscount(c) PROVE TripTypes'
  <2>1. IsUse(promoCall[c])
    BY <1>1, <1>6 DEF CommitDiscount, IsEdit
  <2>2. /\ trip' = [trip EXCEPT ![promoCall[c].ride] =
               [rider |-> promoCall[c].user, code |-> {promoCall[c].promo},
                completed |-> FALSE]]
        /\ user' = user /\ muddled' = muddled
    BY <1>6 DEF CommitDiscount
  <2> QED BY <1>1, <2>1, <2>2 DEF IsUse, TripTypes
<1>7. ASSUME NEW c \in Requests, ReadUses(c) \/ Redeem(c) \/ PromoCallLost(c)
      PROVE  TripTypes'
  <2>1. promoCall[c].op = "use" => promoCall[c].promo \in Promos
    BY <1>1 DEF IsEdit, IsUse
  <2> QED BY <1>7, <2>1 DEF ReadUses, Redeem, PromoCallLost, TripTypes
<1>8. ASSUME NEW p \in Promos, PromoExpires(p) PROVE TripTypes'
  BY <1>8 DEF PromoExpires, TripTypes
<1>9. ASSUME NEW u \in Riders, Register(u) \/ CreateReferralPromo(u) PROVE TripTypes'
  BY <1>9 DEF Register, CreateReferralPromo, TripTypes
<1>10. ASSUME NEW r \in PromoRides, TripCompleted(r) PROVE TripTypes'
  <2>1. /\ trip' = [trip EXCEPT ![r] = [trip[r] EXCEPT !.completed = TRUE]]
        /\ user' = user
        /\ muddled' = muddled \union
               {promoCall[c].promo : c \in {x \in Requests :
                   promoCall[x].op = "use" /\ promoCall[x].user = trip[r].rider}}
    BY <1>10 DEF TripCompleted
  <2>2. \A c \in Requests : promoCall[c].op = "use" => promoCall[c].promo \in Promos
    BY <1>1 DEF IsEdit, IsUse
  <2> QED BY <1>1, <2>1, <2>2 DEF TripTypes
<1> QED BY <1>2, <1>3, <1>4, <1>5, <1>6, <1>7, <1>8, <1>9, <1>10 DEF PromosStep

\* Codes, registrations, rides and redemptions (models/promo.py).
THEOREM DiscountTypes == PromosSpec => []PromosTypeOK
<1>1. PromosInit => TripTypes
  BY DEF PromosInit, TripTypes, NoRide
<1>2. PromoInv /\ TripTypes => PromosTypeOK
  BY DEF PromoInv, PromoTypes, TripTypes, PromosTypeOK
<1> QED BY <1>1, <1>2, TripTypesKeep, PromoInvInit, PromoInvStep, PTL DEF PromosSpec

-----------------------------------------------------------------------------
\* The rider's bookings are so many, and templates were edited.
BookingTypes == Len(booking) <= MaxBookings /\ edited \subseteq Templates

LEMMA FewAppended ==
    ASSUME NEW S, IsFiniteSet(S)
    PROVE  SetToSeq(S) \in Seq(S) /\ Len(SetToSeq(S)) = Cardinality(S)
<1> DEFINE n == Cardinality(S)
           s == SetToSeq(S)
<1>1. n \in Nat /\ ExistsBijection(1 .. n, S)
  BY FS_CardinalityType
<1>2. PICK f : f \in Bijection(1 .. n, S)
  BY <1>1 DEF ExistsBijection
<1>3. f \in [1 .. n -> S] /\ IsInjective(f)
  BY <1>2 DEF Bijection, Injection, IsInjective
<1>4. s \in [1 .. n -> S]
  BY <1>3 DEF SetToSeq
<1> HIDE DEF s
<1>5. s \in Seq(S) /\ Len(s) = n
  BY <1>1, <1>4
<1> QED BY <1>5 DEF s

LEMMA BookingTypesKeep ==
    ASSUME RecInv, BookingTypes, [RecurringStep]_recurringVars
    PROVE  BookingTypes'
<1>1. /\ booking \in Seq(Booking)
      /\ \A c \in Requests : recCall[c].op \in Changes => recCall[c].template \in Templates
      /\ MaxBookings \in Nat
  BY RecurringAssumption DEF RecInv, RecTypes, IsChange, RecIdle, Changes
<1>2. CASE UNCHANGED <<booking, edited>>
  BY <1>2 DEF BookingTypes
<1>3. ASSUME NEW c \in Requests, CommitTemplate(c) PROVE BookingTypes'
  BY <1>1, <1>3 DEF CommitTemplate, BookingTypes, Changes
<1>4. ASSUME NEW c \in Requests, CommitSchedule(c) PROVE BookingTypes'
  <2>1. PICK x : booking' = Append(booking, x)
    BY <1>4 DEF CommitSchedule
  <2>2. Len(booking') = Len(booking) + 1
    <3>1. x = x /\ booking \in Seq(Booking \union {x})
      BY <1>1
    <3> QED BY <2>1, <3>1
  <2> QED BY <1>1, <1>4, <2>2 DEF CommitSchedule, BookingTypes
<1>5. ASSUME NEW i \in DOMAIN booking, NEW row, SetBooking(i, row) PROVE BookingTypes'
  <2>1. booking' = [booking EXCEPT ![i] = row] /\ edited' = edited
    BY <1>5 DEF SetBooking
  <2>2. booking \in Seq(Booking \union {row})
    BY <1>1
  <2>3. Len(booking') = Len(booking)
    BY <2>1, <2>2
  <2> QED BY <2>1, <2>3 DEF BookingTypes
<1>6. ASSUME NEW g \in Schedulers, EndGenerating(g) PROVE BookingTypes'
  <2> DEFINE fresh == generating[g].fresh
             S == {Generated(x) : x \in fresh}
  <2>1. IsFiniteSet(fresh)
    BY <1>6 DEF RecInv, RunsInv, RunIsRight, EndGenerating, Resting
  <2>2. IsFiniteSet(S) /\ Cardinality(S) <= Cardinality(fresh)
    <3> DEFINE f == [x \in fresh |-> Generated(x)]
    <3>1. f \in Surjection(fresh, S)
      BY DEF Surjection
    <3> HIDE DEF f, S, fresh
    <3> QED BY <2>1, <3>1, FS_Surjection
  <2>3. /\ booking' = booking \o SetToSeq(S) /\ edited' = edited
        /\ Len(booking) + Cardinality(fresh) <= MaxBookings
    BY <1>6 DEF EndGenerating
  <2>4. SetToSeq(S) \in Seq(S) /\ Len(SetToSeq(S)) = Cardinality(S)
    <3> HIDE DEF S
    <3> QED BY <2>2, FewAppended
  <2>5. Cardinality(S) \in Nat /\ Cardinality(fresh) \in Nat
    BY <2>1, <2>2, FS_CardinalityType
  <2>6. Len(booking') = Len(booking) + Cardinality(S)
    <3> DEFINE s == SetToSeq(S)
    <3>1. booking \in Seq(Booking \union S) /\ s \in Seq(Booking \union S)
      BY <1>1, <2>4
    <3> HIDE DEF s
    <3>2. Len(booking \o s) = Len(booking) + Len(s)
      BY <3>1
    <3> QED BY <2>3, <2>4, <3>2 DEF s
  <2> HIDE DEF S, fresh
  <2> QED BY <1>1, <2>2, <2>3, <2>5, <2>6 DEF BookingTypes
<1>7. ASSUME NEW c \in Requests, RecurringRequest(c) PROVE BookingTypes'
  BY <1>2, <1>7 DEF RecurringRequest, LoadCreate, LoadTemplateUpdate, LoadPause, LoadResume,
                    LoadCancel, Load, Start
<1>8. ASSUME NEW g \in Schedulers, SchedulerLoop(g) PROVE BookingTypes'
  BY <1>2, <1>6, <1>8 DEF SchedulerLoop, StartGenerating, GeneratingFails, GenerateFrom
<1>9. ASSUME NEW c \in Requests, NEW at, LoadSchedule(c, at) \/ RecCallLost(c)
      PROVE  BookingTypes'
  BY <1>2, <1>9 DEF LoadSchedule, Start, RecCallLost
<1>10. ASSUME NEW i \in DOMAIN booking, CancelBooking(i) \/ Remind(i) \/ DispatchDue(i)
       PROVE  BookingTypes'
  BY <1>5, <1>10 DEF CancelBooking, Remind, DispatchDue
<1>11. CASE Tick \/ UNCHANGED recurringVars
  BY <1>2, <1>11 DEF Tick, recurringVars
<1> QED BY <1>3, <1>4, <1>7, <1>8, <1>9, <1>10, <1>11 DEF RecurringStep

\* Templates and rides, the days and times among those of the clock
\* (models/recurring_ride.py).
THEOREM RecurringTypes == RecurringSpec => []RecurringTypeOK
<1>1. RecurringInit => BookingTypes
  BY RecurringAssumption DEF RecurringInit, BookingTypes
<1>2. RecInv /\ BookingTypes => RecurringTypeOK
  BY DEF RecInv, RecTypes, BookingTypes, RecurringTypeOK
<1> QED BY <1>1, <1>2, BookingTypesKeep, RecInvInit, RecInvStep, PTL DEF RecurringSpec

-----------------------------------------------------------------------------
\* Zones, entries and counters, and the copies that requests and passes hold.
StatusOf == {"none", "active", "notified", "expired", "cancelled"}

SurgeCallOK(q) ==
    /\ q.op = "zone" => q.row \in Zones /\ q.copy \in ZoneRow /\ q.new \in ZoneRow
    /\ q.op = "cancel" => q.row \in Entries

PassTypes(run) ==
    \A e \in DOMAIN run.rows :
        /\ e \in Entries /\ run.rows[e] \in EntryRow
        /\ run.new[e] \in {"active", "notified", "expired"}

Counter == [count : 0 .. MaxDemand, ttl : 0 .. Window]

SurgeTypes ==
    /\ zone \in [Zones -> ZoneRow] /\ entry \in [Entries -> EntryRow]
    /\ \A c \in Requests : SurgeCallOK(surgeCall[c])
    /\ \A p \in Pollers : PassTypes(poll[p])
    /\ demand \in [Cells -> Counter]
    /\ crossed \subseteq Entries

LEMMA MergeOfZones ==
    ASSUME NEW row \in ZoneRow, NEW copy \in ZoneRow, NEW new \in ZoneRow
    PROVE  Merge(row, copy, new) \in ZoneRow
<1> DEFINE F == {"exists", "active", "multiplier", "area", "hours"}
           m == Merge(row, copy, new)
<1>1. DOMAIN row = F
  BY DEF ZoneRow
<1>2. m = [col \in F |-> IF new[col] = copy[col] THEN row[col] ELSE new[col]]
  BY <1>1 DEF Merge
<1>3. m = [exists |-> m.exists, active |-> m.active, multiplier |-> m.multiplier,
           area |-> m.area, hours |-> m.hours]
  BY <1>2
<1>4. /\ m.exists \in BOOLEAN /\ m.active \in BOOLEAN /\ m.multiplier \in Multipliers
      /\ m.area \in SUBSET Cells /\ m.hours \in SUBSET BOOLEAN
  BY <1>2 DEF ZoneRow
<1>5. m \in ZoneRow
  <2> HIDE DEF m
  <2> QED BY <1>3, <1>4 DEF ZoneRow
<1> QED BY <1>5

LEMMA MergeOfEntries ==
    ASSUME NEW row \in EntryRow, NEW copy \in EntryRow, NEW status \in StatusOf
    PROVE  Merge(row, copy, [copy EXCEPT !.status = status]) \in EntryRow
<1> DEFINE F == {"status", "origin", "max", "old"}
           m == Merge(row, copy, [copy EXCEPT !.status = status])
<1>1. DOMAIN row = F /\ DOMAIN copy = F
  BY DEF EntryRow
<1>2. m.status \in StatusOf /\ m.origin = row.origin /\ m.max = row.max /\ m.old = row.old
  BY <1>1 DEF Merge, StatusOf, EntryRow
<1>3. DOMAIN m = F /\ m = [col \in F |-> m[col]]
  BY <1>1 DEF Merge
<1>4. m = [status |-> m.status, origin |-> m.origin, max |-> m.max, old |-> m.old]
  BY <1>3
<1>5. m \in EntryRow
  <2> HIDE DEF m
  <2> QED BY <1>2, <1>4 DEF EntryRow, StatusOf
<1> QED BY <1>5

LEMMA SomeRows ==
    /\ NoZone \in ZoneRow /\ 1 \in Multipliers
    /\ SurgeCallOK(SurgeIdle) /\ PassTypes(Unpolled)
    /\ \A old, new : Flushed(old, new) \in {old, new}
<1>1. 1 \in Multipliers
  BY SurgeAssumption DEF Multipliers
<1> QED BY <1>1 DEF NoZone, ZoneRow, SurgeCallOK, SurgeIdle, PassTypes, Unpolled, Flushed

LEMMA SurgeTypesInit ==
    SurgeInit => SurgeTypes
<1> SUFFICES ASSUME SurgeInit PROVE SurgeTypes
  OBVIOUS
<1>1. (CHOOSE g \in Cells : TRUE) \in Cells
  BY SurgeAssumption
<1>2. \A e \in Entries : entry[e] \in EntryRow
  BY <1>1, SomeRows DEF SurgeInit, EntryRow
<1>3. entry \in [Entries -> EntryRow]
  BY <1>2 DEF SurgeInit
<1>4. [count |-> 0, ttl |-> 0] \in Counter
  BY SurgeAssumption DEF Counter
<1> QED BY <1>3, <1>4, SomeRows DEF SurgeInit, SurgeTypes

LEMMA ZoneRequestsKeepTypes ==
    ASSUME SurgeTypes, UNCHANGED demandVars, NEW c \in Requests, NEW z \in Zones,
           \/ \E m \in Multipliers, area \in SUBSET Cells : UpdateZone(c, z, m, area)
           \/ \E active \in BOOLEAN : ActivateZone(c, z, active)
           \/ DeleteZone(c, z)
    PROVE  SurgeTypes'
<1>1. zone[z] \in ZoneRow
  BY DEF SurgeTypes
<1>2. PICK new \in ZoneRow : LoadZone(c, z, new)
  <2>1. CASE \E m \in Multipliers, area \in SUBSET Cells : UpdateZone(c, z, m, area)
    BY <1>1, <2>1 DEF UpdateZone, ZoneRow
  <2>2. CASE \E active \in BOOLEAN : ActivateZone(c, z, active)
    BY <1>1, <2>2 DEF ActivateZone, ZoneRow
  <2>3. CASE DeleteZone(c, z)
    BY <2>3, SomeRows DEF DeleteZone
  <2> QED BY <2>1, <2>2, <2>3
<1>3. PICK call : /\ call = [op |-> "zone", row |-> z, copy |-> zone[z], new |-> new]
                  /\ surgeCall' = [surgeCall EXCEPT ![c] = call]
  BY <1>2 DEF LoadZone
<1>4. SurgeCallOK(call)
  BY <1>1, <1>3 DEF SurgeCallOK
<1>5. \A d \in Requests : SurgeCallOK(surgeCall'[d])
  BY <1>3, <1>4 DEF SurgeTypes
<1> QED BY <1>2, <1>5 DEF LoadZone, SurgeTypes, demandVars

LEMMA ZonesKeepTypes ==
    ASSUME SurgeTypes, UNCHANGED demandVars,
           \/ \E c \in Requests : CommitZone(c)
           \/ \E z \in Zones, m \in Multipliers, area \in SUBSET Cells, hours \in SUBSET BOOLEAN :
                  CreateZone(z, m, area, hours)
    PROVE  SurgeTypes'
<1>1. ASSUME NEW c \in Requests, CommitZone(c) PROVE SurgeTypes'
  <2>1. PICK q : q = surgeCall[c]
    OBVIOUS
  <2>2. q.row \in Zones /\ q.copy \in ZoneRow /\ q.new \in ZoneRow /\ zone[q.row] \in ZoneRow
    BY <1>1, <2>1 DEF CommitZone, SurgeTypes, SurgeCallOK
  <2>3. PICK row : /\ row = CASE ~zone[q.row].exists -> zone[q.row]
                              [] ~q.new.exists -> Flushed(zone[q.row], NoZone)
                              [] OTHER -> Flushed(zone[q.row],
                                                  Merge(zone[q.row], q.copy, q.new))
                   /\ zone' = [zone EXCEPT ![q.row] = row]
    BY <1>1, <2>1 DEF CommitZone
  <2>4. Merge(zone[q.row], q.copy, q.new) \in ZoneRow
    BY <2>2, MergeOfZones
  <2>5. row \in ZoneRow
    BY <2>2, <2>3, <2>4, SomeRows
  <2>6. zone' \in [Zones -> ZoneRow]
    BY <2>3, <2>5 DEF SurgeTypes
  <2>7. /\ surgeCall' = [surgeCall EXCEPT ![c] = SurgeIdle]
        /\ UNCHANGED <<entry, poll, crossed, demand>>
    BY <1>1 DEF CommitZone, demandVars
  <2> QED BY <2>6, <2>7, SomeRows DEF SurgeTypes
<1>2. ASSUME NEW z \in Zones, NEW m \in Multipliers, NEW area \in SUBSET Cells,
             NEW hours \in SUBSET BOOLEAN, CreateZone(z, m, area, hours)
      PROVE  SurgeTypes'
  <2>1. PICK row : row = [exists |-> TRUE, active |-> TRUE, multiplier |-> m,
                          area |-> area, hours |-> hours]
    OBVIOUS
  <2>2. row \in ZoneRow /\ zone[z] \in ZoneRow
    BY <2>1 DEF ZoneRow, SurgeTypes
  <2>3. zone' = [zone EXCEPT ![z] = Flushed(zone[z], row)]
    BY <1>2, <2>1 DEF CreateZone
  <2>4. zone' \in [Zones -> ZoneRow]
    BY <2>2, <2>3, SomeRows DEF SurgeTypes
  <2> QED BY <1>2, <2>4 DEF CreateZone, SurgeTypes, demandVars
<1> QED BY <1>1, <1>2

LEMMA EntriesKeepTypes ==
    ASSUME SurgeTypes, UNCHANGED demandVars, NEW e \in Entries,
           \/ \E g \in Cells, max \in Multipliers : CreateEntry(e, g, max)
           \/ TtlPasses(e)
    PROVE  SurgeTypes'
<1>1. entry[e] \in EntryRow
  BY DEF SurgeTypes
<1>2. PICK row \in EntryRow : entry' = [entry EXCEPT ![e] = row]
  <2>1. ASSUME NEW g \in Cells, NEW max \in Multipliers, CreateEntry(e, g, max)
        PROVE  \E row \in EntryRow : entry' = [entry EXCEPT ![e] = row]
    <3>1. PICK new : new = [status |-> "active", origin |-> g, max |-> max, old |-> FALSE]
      OBVIOUS
    <3>2. new \in EntryRow
      BY <3>1 DEF EntryRow
    <3>3. entry' = [entry EXCEPT ![e] = Flushed(entry[e], new)]
      BY <2>1, <3>1 DEF CreateEntry
    <3> QED BY <1>1, <3>2, <3>3, SomeRows
  <2>2. ASSUME TtlPasses(e) PROVE \E row \in EntryRow : entry' = [entry EXCEPT ![e] = row]
    <3>1. [entry[e] EXCEPT !.old = TRUE] \in EntryRow
      BY <1>1 DEF EntryRow
    <3> QED BY <2>2, <3>1 DEF TtlPasses
  <2> QED BY <2>1, <2>2
<1>3. UNCHANGED <<zone, surgeCall, poll, crossed, demand>>
  BY DEF CreateEntry, TtlPasses, demandVars
<1> QED BY <1>2, <1>3 DEF SurgeTypes

LEMMA CancelsKeepTypes ==
    ASSUME SurgeTypes, UNCHANGED demandVars, NEW c \in Requests,
           \/ \E e \in Entries : LoadCancelEntry(c, e)
           \/ CommitCancelEntry(c) \/ SurgeCallLost(c)
    PROVE  SurgeTypes'
<1>1. ASSUME NEW e \in Entries, LoadCancelEntry(c, e) PROVE SurgeTypes'
  <2>1. PICK call : /\ call = [op |-> "cancel", row |-> e]
                    /\ surgeCall' = [surgeCall EXCEPT ![c] = call]
    BY <1>1 DEF LoadCancelEntry
  <2>2. SurgeCallOK(call)
    BY <2>1 DEF SurgeCallOK
  <2>3. crossed' \subseteq Entries /\ UNCHANGED <<zone, entry, poll, demand>>
    BY <1>1 DEF LoadCancelEntry, InPass, SurgeTypes, demandVars
  <2> QED BY <2>1, <2>2, <2>3 DEF SurgeTypes
<1>2. ASSUME CommitCancelEntry(c) PROVE SurgeTypes'
  <2>1. PICK e \in Entries :
            entry' = [entry EXCEPT ![e] =
                          Flushed(entry[e], [entry[e] EXCEPT !.status = "cancelled"])]
    BY <1>2 DEF CommitCancelEntry, SurgeTypes, SurgeCallOK
  <2>2. entry[e] \in EntryRow /\ [entry[e] EXCEPT !.status = "cancelled"] \in EntryRow
    BY DEF SurgeTypes, EntryRow
  <2>3. entry' \in [Entries -> EntryRow]
    BY <2>1, <2>2, SomeRows DEF SurgeTypes
  <2> QED BY <1>2, <2>3, SomeRows DEF CommitCancelEntry, SurgeTypes, demandVars
<1>3. ASSUME SurgeCallLost(c) PROVE SurgeTypes'
  BY <1>3, SomeRows DEF SurgeCallLost, SurgeTypes, demandVars
<1> QED BY <1>1, <1>2, <1>3

LEMMA PassesKeepTypes ==
    ASSUME SurgeTypes, WaitlistInv, UNCHANGED demandVars, NEW p \in Pollers,
           \/ StartPass(p) \/ ReadZones(p) \/ EndPass(p)
           \/ PassFails(p) \/ \E e \in Entries : PassEntry(p, e)
    PROVE  SurgeTypes'
<1>1. /\ PassOK(poll[p]) /\ PassTypes(poll[p])
      /\ entry \in [Entries -> EntryRow] /\ DOMAIN poll = Pollers
  BY DEF SurgeTypes, WaitlistInv
<1>2. /\ UNCHANGED <<zone, surgeCall, demand>>
      /\ crossed' \subseteq Entries
  <2>1. DOMAIN poll[p].new \subseteq Entries
    BY <1>1 DEF PassOK
  <2> QED BY <2>1 DEF StartPass, ReadZones, EndPass, PassFails, PassEntry, demandVars,
                      SurgeTypes, Polled
<1>3. ASSUME NEW run, poll' = [poll EXCEPT ![p] = run], PassTypes(run), entry' = entry
      PROVE  SurgeTypes'
  BY <1>2, <1>3 DEF SurgeTypes
<1>4. CASE StartPass(p)
  <2>1. PICK run : /\ run = [Unpolled EXCEPT !.phase = "entries",
                         !.todo = Polled, !.rows = [e \in Polled |-> entry[e]],
                         !.evening = evening, !.new = [e \in Polled |-> entry[e].status]]
                   /\ poll' = [poll EXCEPT ![p] = run] /\ entry' = entry
    BY <1>4 DEF StartPass
  <2>2. run.rows = [e \in Polled |-> entry[e]] /\ run.new = [e \in Polled |-> entry[e].status]
    BY <2>1 DEF Unpolled
  <2>3. PassTypes(run)
    BY <1>1, <2>2 DEF PassTypes, Polled
  <2> QED BY <1>3, <2>1, <2>3
<1>5. CASE ReadZones(p)
  <2>1. PICK run : /\ run = [poll[p] EXCEPT !.phase = "zones", !.zones = zone]
                   /\ poll' = [poll EXCEPT ![p] = run] /\ entry' = entry
    BY <1>5 DEF ReadZones
  <2>2. run.rows = poll[p].rows /\ run.new = poll[p].new
    BY <2>1
  <2> QED BY <1>1, <1>3, <2>1, <2>2 DEF PassTypes
<1>6. ASSUME NEW e \in Entries, PassEntry(p, e) PROVE SurgeTypes'
  <2>1. PICK old : old = poll[p]
    OBVIOUS
  <2>2. PICK status : status = Outcome(old, e)
    OBVIOUS
  <2>3. PICK run : /\ run = [old EXCEPT !.todo = old.todo \ {e}, !.new[e] = status]
                   /\ poll' = [poll EXCEPT ![p] = run] /\ entry' = entry
    BY <1>6, <2>1, <2>2 DEF PassEntry
  <2>4. e \in DOMAIN old.rows /\ old.rows[e].status = "active"
    BY <1>1, <1>6, <2>1 DEF PassEntry, PassOK
  <2>5. status \in {"active", "notified", "expired"}
    BY <2>2, <2>4 DEF Outcome
  <2>6. DOMAIN old = PassFields /\ DOMAIN old.new = DOMAIN old.rows
    BY <1>1, <2>1 DEF PassOK
  <2>7. run.rows = old.rows /\ run.new = [old.new EXCEPT ![e] = status]
    BY <2>3, <2>6 DEF PassFields
  <2>8. PassTypes(run)
    BY <1>1, <2>1, <2>5, <2>6, <2>7 DEF PassTypes
  <2> QED BY <1>3, <2>3, <2>8
<1>7. CASE PassFails(p)
  BY <1>3, <1>7, SomeRows DEF PassFails
<1>8. CASE EndPass(p)
  <2>1. PICK run : run = poll[p]
    OBVIOUS
  <2>2. ASSUME NEW e \in DOMAIN run.rows
        PROVE  Flushed(entry[e], Merge(entry[e], run.rows[e],
                   [run.rows[e] EXCEPT !.status = run.new[e]])) \in EntryRow
    <3>1. /\ entry[e] \in EntryRow /\ run.rows[e] \in EntryRow /\ run.new[e] \in StatusOf
      BY <1>1, <2>1 DEF PassTypes, StatusOf
    <3> QED BY <3>1, MergeOfEntries, SomeRows
  <2>3. entry' = [e \in Entries |->
               IF e \in DOMAIN run.rows
               THEN Flushed(entry[e], Merge(entry[e], run.rows[e],
                                [run.rows[e] EXCEPT !.status = run.new[e]]))
               ELSE entry[e]]
    BY <1>8, <2>1 DEF EndPass
  <2>4. entry' \in [Entries -> EntryRow]
    BY <1>1, <2>2, <2>3
  <2>5. poll' = [poll EXCEPT ![p] = Unpolled]
    BY <1>8 DEF EndPass
  <2> QED BY <1>2, <2>4, <2>5, SomeRows DEF SurgeTypes
<1> QED BY <1>4, <1>5, <1>6, <1>7, <1>8

LEMMA CountersKeepTypes ==
    ASSUME SurgeTypes, UNCHANGED zoneVars, DemandStep
    PROVE  SurgeTypes'
<1>1. /\ demand \in [Cells -> Counter] /\ Window \in Nat \ {0} /\ MaxDemand \in Nat
      /\ \A g \in Cells : demand[g].count \in 0 .. MaxDemand /\ demand[g].ttl \in 0 .. Window
  BY SurgeAssumption DEF SurgeTypes, Counter
<1>2. ASSUME NEW g \in Cells, RecordDemand(g) PROVE demand' \in [Cells -> Counter]
  <2>1. /\ demand' = [demand EXCEPT ![g] = [count |-> demand[g].count + 1, ttl |-> Window]]
        /\ demand[g].count < MaxDemand
    BY <1>2 DEF RecordDemand, WindowAnew
  <2>2. [count |-> demand[g].count + 1, ttl |-> Window] \in Counter
    BY <1>1, <2>1 DEF Counter
  <2> QED BY <1>1, <2>1, <2>2
<1>3. ASSUME WindowStep PROVE demand' \in [Cells -> Counter]
  <2>1. ASSUME NEW g \in Cells, ~(demand[g].ttl <= 1)
        PROVE  [demand[g] EXCEPT !.ttl = demand[g].ttl - 1] \in Counter
    <3>1. demand[g].ttl - 1 \in 0 .. Window
      BY <1>1, <2>1
    <3> QED BY <1>1, <3>1 DEF Counter
  <2>2. [count |-> 0, ttl |-> 0] \in Counter
    BY <1>1 DEF Counter
  <2> QED BY <1>3, <2>1, <2>2 DEF WindowStep
<1> QED BY <1>2, <1>3 DEF DemandStep, zoneVars, SurgeTypes

LEMMA SurgeTypesStep ==
    ASSUME SurgeTypes, WaitlistInv, [SurgeStep]_surgeVars
    PROVE  SurgeTypes'
<1>1. CASE UNCHANGED surgeVars
  BY <1>1 DEF surgeVars, zoneVars, demandVars, SurgeTypes
<1>2. CASE DemandStep /\ UNCHANGED zoneVars
  BY <1>2, CountersKeepTypes
<1>3. CASE ZoneStep /\ UNCHANGED demandVars
  <2>1. CASE TimePasses
    BY <1>3, <2>1 DEF TimePasses, SurgeTypes, demandVars
  <2>2. ASSUME NEW c \in Requests, NEW z \in Zones,
               \/ \E m \in Multipliers, area \in SUBSET Cells \ {{}} : UpdateZone(c, z, m, area)
               \/ \E active \in BOOLEAN : ActivateZone(c, z, active)
               \/ DeleteZone(c, z)
        PROVE  SurgeTypes'
    BY <1>3, <2>2, ZoneRequestsKeepTypes
  <2>3. ASSUME \E z \in Zones, m \in Multipliers, area \in SUBSET Cells \ {{}},
                  hours \in {BOOLEAN, {TRUE}} : CreateZone(z, m, area, hours)
        PROVE  SurgeTypes'
    BY <1>3, <2>3, ZonesKeepTypes
  <2>4. ASSUME NEW c \in Requests,
               CommitZone(c) \/ CommitCancelEntry(c) \/ SurgeCallLost(c)
        PROVE  SurgeTypes'
    BY <1>3, <2>4, ZonesKeepTypes, CancelsKeepTypes
  <2>5. ASSUME NEW c \in Requests, NEW e \in Entries, LoadCancelEntry(c, e)
        PROVE  SurgeTypes'
    BY <1>3, <2>5, CancelsKeepTypes
  <2>6. ASSUME NEW e \in Entries,
               \/ \E g \in Cells, max \in Multipliers : CreateEntry(e, g, max)
               \/ TtlPasses(e)
        PROVE  SurgeTypes'
    BY <1>3, <2>6, EntriesKeepTypes
  <2>7. ASSUME NEW p \in Pollers,
               \/ StartPass(p) \/ ReadZones(p) \/ EndPass(p)
               \/ PassFails(p) \/ \E e \in Entries : PassEntry(p, e)
        PROVE  SurgeTypes'
    BY <1>3, <2>7, PassesKeepTypes
  <2> QED BY <1>3, <2>1, <2>2, <2>3, <2>4, <2>5, <2>6, <2>7 DEF ZoneStep
<1> QED BY <1>1, <1>2, <1>3 DEF SurgeStep

\* Zones, waitlist entries and counters (models/surge_zone.py,
\* services/demand_pricing.py).
THEOREM SurgesAreTyped == SurgeSpec => []SurgeTypeOK
<1>1. SurgeTypes /\ WaitlistInv => SurgeTypeOK
  BY DEF SurgeTypes, WaitlistInv, PassOK, SurgeTypeOK, Counter
<1> QED BY <1>1, SurgeTypesInit, SurgeTypesStep, WaitlistInvInit, WaitlistInvStep, PTL
     DEF SurgeSpec

-----------------------------------------------------------------------------
(* Averages of stars are from one to five.                                  *)

\* The average, rounded as AverageOf rounds it.
LEMMA RoundedWithin ==
    ASSUME NEW n \in Nat \ {0}, NEW s \in Int, n <= s, s <= 5 * n
    PROVE  (200 * s + n) \div (2 * n) \in 100 .. 500
<1> DEFINE d == 2 * n
           x == 200 * s + n
           q == x \div d
<1>1. d \in Nat \ {0} /\ x \in Nat
  OBVIOUS
<1>2. q \in Nat /\ q * d <= x /\ x < q * d + d
  <2> HIDE DEF d, x
  <2> QED BY <1>1, DivMul
<1>3. ~(q < 100)
  <2>1. ASSUME q < 100 PROVE q * d + d <= 100 * d
    <3> HIDE DEF d, q
    <3> QED BY <1>1, <1>2, <2>1, MulMono
  <2>2. 100 * d <= x
    OBVIOUS
  <2> HIDE DEF q
  <2> QED BY <1>1, <1>2, <2>1, <2>2
<1>4. ~(500 < q)
  <2>1. ASSUME 500 < q PROVE 500 * d + d <= q * d
    <3> HIDE DEF d, q
    <3> QED BY <1>1, <1>2, <2>1, MulMono
  <2>2. x < 500 * d + d
    OBVIOUS
  <2> HIDE DEF q
  <2> QED BY <1>1, <1>2, <2>1, <2>2
<1> HIDE DEF q
<1> QED BY <1>2, <1>3, <1>4 DEF q

LEMMA AveragesAreStars ==
    ASSUME NEW rows \in [RatedRides -> RideGiven],
           \E r \in RatedRides : rows[r].driver_rating # Unrated
    PROVE  AverageOf(rows) \in 100 .. 500
<1> DEFINE rated == {r \in RatedRides : rows[r].driver_rating # Unrated}
           stars == [r \in rated |-> rows[r].driver_rating]
           n == Cardinality(rated)
<1>1. IsFiniteSet(rated) /\ rated # {} /\ DOMAIN stars = rated
  BY RatingsAssumption, FS_Subset
<1>2. n \in Nat \ {0}
  BY <1>1, FS_CardinalityType, FS_EmptySet
<1>3. \A r \in rated : stars[r] \in Int /\ 1 <= stars[r] /\ stars[r] <= 5
  <2> SUFFICES ASSUME NEW r \in rated
               PROVE  rows[r].driver_rating \in 1 .. 5
    OBVIOUS
  <2>1. rows[r] \in RideGiven /\ rows[r].driver_rating # 0
    BY DEF Unrated
  <2>2. rows[r].driver_rating \in Stars
    BY <2>1 DEF RideGiven, Unrated
  <2> QED BY <2>2, RatingsAssumption
<1>4. Summable(stars, DOMAIN stars)
  BY <1>1, <1>3 DEF Summable
<1>5. /\ SumFunction(stars) \in Int
      /\ n <= SumFunction(stars) /\ SumFunction(stars) <= 5 * n
  <2>1. /\ SumFunction(stars) \in Int
        /\ 1 * n <= SumFunction(stars) /\ SumFunction(stars) <= 5 * n
    <3> HIDE DEF stars, rated
    <3> QED BY <1>1, <1>3, <1>4, SumType, SumWithin
  <2> HIDE DEF stars, n
  <2> QED BY <1>2, <2>1
<1>6. AverageOf(rows) = (200 * SumFunction(stars) + n) \div (2 * n)
  BY DEF AverageOf
<1> DEFINE sum == SumFunction(stars)
<1> HIDE DEF stars, n
<1>7. sum \in Int /\ n <= sum /\ sum <= 5 * n
  BY <1>5
<1>8. AverageOf(rows) = (200 * sum + n) \div (2 * n)
  BY <1>6
<1> HIDE DEF sum
<1> QED BY <1>2, <1>7, <1>8, RoundedWithin

\* Profiles, feedback and the ratings of riders, and what requests will write.
RatingTypes ==
    /\ average \in 100 .. 500
    /\ feedback \subseteq RatedRides \X Role \X {1, 2}
    /\ riderRating \subseteq RatedRides
    /\ \A c \in Requests :
           /\ ratingCall[c].op \in Rating => ratingCall[c].average \in 100 .. 500
           /\ ratingCall[c].op = "rider" => ratingCall[c].ride \in RatedRides

LEMMA RatingTypesKeep ==
    ASSUME RatingsInv, RatingTypes, [RatingsStep]_ratingVars
    PROVE  RatingTypes'
<1>1. /\ given \in [RatedRides -> RideGiven] /\ DOMAIN ratingCall = Requests
      /\ \A c \in Requests : RatingCallOK(ratingCall[c])
  BY DEF RatingsInv
<1>2. ASSUME NEW c \in Requests, NEW call, ratingCall' = [ratingCall EXCEPT ![c] = call],
             call.op \in Rating => call.average \in 100 .. 500,
             call.op = "rider" => call.ride \in RatedRides,
             average' \in 100 .. 500,
             feedback' \subseteq RatedRides \X Role \X {1, 2},
             riderRating' \subseteq RatedRides
      PROVE  RatingTypes'
  BY SMTT(30), <1>1, <1>2 DEF RatingTypes
<1>3. RatingIdle.op \notin Rating /\ RatingIdle.op # "rider"
  BY DEF RatingIdle, Rating
<1>4. /\ average \in 100 .. 500 /\ feedback \subseteq RatedRides \X Role \X {1, 2}
      /\ riderRating \subseteq RatedRides
  BY DEF RatingTypes
<1>5. CASE UNCHANGED <<average, feedback, riderRating, ratingCall>>
  BY <1>5 DEF RatingTypes
<1>6. ASSUME NEW c \in Requests, NEW op, NEW r, NEW role, NEW stars, NEW tipped,
             op \in Rating, BeginRating(c, op, r, role, stars, tipped)
      PROVE  RatingTypes'
  <2>1. PICK call : /\ call = [op |-> op, phase |-> "loaded", ride |-> r, role |-> role,
                               copy |-> given[r],
                               new |-> NewColumns(r, role, stars, tipped),
                               was |-> average, average |-> average]
                    /\ ratingCall' = [ratingCall EXCEPT ![c] = call]
    BY <1>6 DEF BeginRating
  <2>2. call.op \in Rating /\ call.average = average /\ call.op # "rider"
    BY <1>6, <2>1 DEF Rating
  <2> QED BY <1>2, <1>4, <1>6, <2>1, <2>2 DEF BeginRating
<1>7. ASSUME NEW c \in Requests, Recompute(c) PROVE RatingTypes'
  <2>1. PICK q : q = ratingCall[c]
    OBVIOUS
  <2>2. PICK avg : avg = IF \E r \in RatedRides : Counted(q)[r].driver_rating # Unrated
                         THEN AverageOf(Counted(q)) ELSE average
    OBVIOUS
  <2>3. PICK call : /\ call = [q EXCEPT !.phase = "flushed", !.was = average, !.average = avg]
                    /\ ratingCall' = [ratingCall EXCEPT ![c] = call]
    BY <1>7, <2>1, <2>2 DEF Recompute
  <2>4. /\ q.op \in Rating /\ DOMAIN q = RatingFields /\ q.ride \in RatedRides
        /\ q.copy \in RideGiven /\ q.new \in RideGiven
    BY <1>1, <1>7, <2>1 DEF Recompute, RatingCallOK
  <2>5. Counted(q) \in [RatedRides -> RideGiven]
    <3>1. Merge(given[q.ride], q.copy, q.new) \in RideGiven
      BY <1>1, <2>4, MergeOfRatings
    <3> QED BY <1>1, <2>4, <3>1 DEF Counted
  <2>6. avg \in 100 .. 500
    BY <1>4, <2>2, <2>5, AveragesAreStars
  <2>7. call.op = q.op /\ call.average = avg
    BY <2>3, <2>4 DEF RatingFields
  <2>8. UNCHANGED <<average, feedback, riderRating>> /\ "rider" \notin Rating
    BY <1>7 DEF Recompute, Rating
  <2> QED BY ZenonT(30), <1>2, <1>4, <2>3, <2>4, <2>6, <2>7, <2>8
<1>8. ASSUME NEW c \in Requests, CommitRating(c) PROVE RatingTypes'
  <2>1. PICK q : q = ratingCall[c]
    OBVIOUS
  <2>2. /\ q.op \in Rating /\ q.ride \in RatedRides /\ q.role \in Role
        /\ q.average \in 100 .. 500
    BY <1>1, <1>8, <2>1 DEF CommitRating, RatingCallOK, RatingTypes
  <2>3. /\ average' \in {average, q.average}
        /\ \E n \in {1, 2} : feedback' \in {feedback, feedback \union {<<q.ride, q.role, n>>}}
        /\ ratingCall' = [ratingCall EXCEPT ![c] = RatingIdle]
        /\ riderRating' = riderRating
    BY <1>8, <2>1 DEF CommitRating
  <2>4. feedback' \subseteq RatedRides \X Role \X {1, 2}
    BY <1>4, <2>2, <2>3
  <2> QED BY ZenonT(30), <1>2, <1>3, <1>4, <2>2, <2>3, <2>4
<1>9. ASSUME NEW c \in Requests, NEW r \in RatedRides, BeginRiderRating(c, r) \/ BeginTip(c, r)
      PROVE  RatingTypes'
  <2>1. PICK call : /\ \/ call = [op |-> "rider", ride |-> r]
                       \/ call = [op |-> "tip", ride |-> r, row |-> FALSE]
                    /\ ratingCall' = [ratingCall EXCEPT ![c] = call]
    BY <1>9 DEF BeginRiderRating, BeginTip
  <2>2. call.op \notin Rating /\ call.ride = r
    BY <2>1 DEF Rating
  <2> QED BY ZenonT(30), <1>2, <1>4, <1>9, <2>1, <2>2 DEF BeginRiderRating, BeginTip
<1>10. ASSUME NEW c \in Requests, CommitRiderRating(c) PROVE RatingTypes'
  <2>1. ratingCall[c].ride \in RatedRides
    BY <1>10 DEF CommitRiderRating, RatingTypes
  <2> QED BY <1>2, <1>3, <1>4, <1>10, <2>1 DEF CommitRiderRating
<1>11. ASSUME NEW c \in Requests, InsertTip(c) PROVE RatingTypes'
  <2>1. ratingCall[c].op = "tip" /\ DOMAIN ratingCall[c] = {"op", "ride", "row"}
    BY <1>1, <1>11 DEF InsertTip, RatingCallOK
  <2>2. PICK call : /\ call = [ratingCall[c] EXCEPT !.row = TRUE]
                    /\ ratingCall' = [ratingCall EXCEPT ![c] = call]
    BY <1>11 DEF InsertTip
  <2>3. call.op \notin Rating /\ call.op # "rider"
    BY <2>1, <2>2 DEF Rating
  <2> QED BY <1>2, <1>4, <1>11, <2>2, <2>3 DEF InsertTip
<1>12. ASSUME NEW c \in Requests, CommitTip(c) \/ RatingCallLost(c) PROVE RatingTypes'
  <2>1. /\ ratingCall' = [ratingCall EXCEPT ![c] = RatingIdle]
        /\ UNCHANGED <<average, feedback, riderRating>>
    BY <1>12 DEF CommitTip, RatingCallLost
  <2> QED BY <1>2, <1>3, <1>4, <2>1
<1>13. ASSUME NEW r \in RatedRides, TipWindowEnds(r) PROVE RatingTypes'
  BY <1>5, <1>13 DEF TipWindowEnds
<1>14. ASSUME NEW c \in Requests, NEW r \in RatedRides, NEW role, NEW stars, NEW tipped,
              \/ RateRide(c, r, role, stars, tipped)
              \/ SubmitFeedback(c, r, role, stars, tipped)
       PROVE  RatingTypes'
  BY <1>6, <1>14 DEF RateRide, SubmitFeedback, Rating
<1>15. CASE UNCHANGED ratingVars
  BY <1>5, <1>15 DEF ratingVars
<1> QED BY <1>7, <1>8, <1>9, <1>10, <1>11, <1>12, <1>13, <1>14, <1>15 DEF RatingsStep

\* A profile's rating is from one star to five, whatever is rated anew, and rows
\* are about the driver's rides (models/ride.py, models/feedback.py).
THEOREM RatingsAreTyped == RatingsSpec => []RatingsTypeOK
<1>1. RatingsInit => RatingTypes
  BY DEF RatingsInit, RatingTypes, RatingIdle, Rating
<1>2. RatingsInv /\ RatingTypes => RatingsTypeOK
  BY DEF RatingsInv, RatingTypes, RatingsTypeOK
<1> QED BY <1>1, <1>2, RatingTypesKeep, RatingsInvInit, RatingsInvStep, PTL DEF RatingsSpec

-----------------------------------------------------------------------------
\* What a dispatch in progress has logged, and who it is for.
DispatchOK(run) ==
    /\ run.phase \in {"idle", "check", "send"}
    /\ run.phase # "idle" => run.user \in NoticeUsers
    /\ run.left \in Seq(Channel) /\ run.rows \in Seq(LogRow)

LogOK == log \in Seq(LogRow) /\ Len(log) <= MaxLog

DispatchTypes ==
    /\ LogOK
    /\ \A n \in Senders : DispatchOK(notice[n])
    /\ holder \in [Devices -> NoticeUsers \union {0}]

LEMMA SilentIsTyped == DispatchOK(Silent)
BY DEF DispatchOK, Silent

\* One dispatch goes on.
LEMMA OneDispatchTyped ==
    ASSUME NoticesInv, DispatchTypes, NEW n \in Senders, NEW run, DispatchOK(run),
           notice' = [notice EXCEPT ![n] = run], holder' = holder, LogOK'
    PROVE  DispatchTypes'
BY DEF NoticesInv, DispatchTypes

LEMMA MutedStaysTyped ==
    ASSUME NoticesInv, DispatchTypes, NEW rows, notice' = StillMuted(rows),
           log' = log, holder' \in [Devices -> NoticeUsers \union {0}]
    PROVE  DispatchTypes'
<1>1. ASSUME NEW n \in Senders PROVE DispatchOK(notice'[n])
  <2>1. PICK run : run = notice[n]
    OBVIOUS
  <2>2. DispatchOK(run) /\ DOMAIN run = NoticeFields
    BY <2>1 DEF NoticesInv, NoticeOK, DispatchTypes
  <2>3. PICK muted : notice'[n] = [run EXCEPT !.muted = muted]
    BY <2>1 DEF StillMuted
  <2>4. /\ notice'[n].phase = run.phase /\ notice'[n].user = run.user
        /\ notice'[n].left = run.left /\ notice'[n].rows = run.rows
    BY <2>2, <2>3 DEF NoticeFields
  <2> QED BY <2>2, <2>4 DEF DispatchOK
<1> QED BY <1>1 DEF DispatchTypes, LogOK

LEMMA StartIsTyped ==
    ASSUME NoticesInv, DispatchTypes, NEW n \in Senders, NEW u \in NoticeUsers,
           NEW type, StartNotice(n, u, type)
    PROVE  DispatchTypes'
<1>1. PICK off : notice' = [notice EXCEPT ![n] = [Silent EXCEPT
           !.phase = "check", !.user = u, !.type = type, !.left = ChannelsOf(type),
           !.devices = DevicesOf(u), !.muted = off]]
  BY DEF StartNotice
<1>2. PICK run : run = [Silent EXCEPT
           !.phase = "check", !.user = u, !.type = type, !.left = ChannelsOf(type),
           !.devices = DevicesOf(u), !.muted = off]
  OBVIOUS
<1>3. /\ run.phase = "check" /\ run.user = u /\ run.left = ChannelsOf(type)
      /\ run.rows = <<>>
  BY <1>2 DEF Silent
<1>4. ChannelsOf(type) \in Seq(Channel)
  <2>1. /\ <<"push", "sms", "email">> \in Seq(Channel) /\ <<"push", "sms">> \in Seq(Channel)
        /\ <<"push", "email">> \in Seq(Channel) /\ <<"push">> \in Seq(Channel)
    BY DEF Channel
  <2> QED BY <2>1 DEF ChannelsOf
<1>5. DispatchOK(run)
  BY <1>3, <1>4 DEF DispatchOK
<1>6. UNCHANGED <<log, holder>>
  BY DEF StartNotice
<1> QED BY <1>1, <1>2, <1>5, <1>6, OneDispatchTyped DEF LogOK, DispatchTypes

\* A channel was tried, or passed over: its row is logged.
LEMMA AttemptIsTyped ==
    ASSUME NEW run, DOMAIN run = NoticeFields, DispatchOK(run), run.left # <<>>,
           run.phase # "idle", NEW sent \in BOOLEAN
    PROVE  DispatchOK(Attempt(run, sent))
<1>1. PICK row : row = [user |-> run.user, channel |-> Head(run.left),
                        sent |-> sent, read |-> FALSE]
  OBVIOUS
<1>2. Head(run.left) \in Channel /\ Tail(run.left) \in Seq(Channel)
  BY DEF DispatchOK
<1>3. row \in LogRow
  BY <1>1, <1>2 DEF DispatchOK, LogRow
<1>4. PICK after : after = Attempt(run, sent)
  OBVIOUS
<1>5. /\ after.phase = "check" /\ after.user = run.user /\ after.left = Tail(run.left)
      /\ after.rows = Append(run.rows, row)
  BY <1>1, <1>4 DEF Attempt, NoticeFields
<1>6. Append(run.rows, row) \in Seq(LogRow)
  BY <1>3 DEF DispatchOK
<1> QED BY <1>2, <1>4, <1>5, <1>6 DEF DispatchOK

LEMMA ChannelsAreTyped ==
    ASSUME NoticesInv, DispatchTypes, NEW n \in Senders, NEW flag \in BOOLEAN,
           CheckChannel(n, flag) \/ SendOn(n, flag)
    PROVE  DispatchTypes'
<1>1. PICK run : run = notice[n]
  OBVIOUS
<1>2. /\ DispatchOK(run) /\ DOMAIN run = NoticeFields
      /\ run.left # <<>> /\ run.phase # "idle"
  BY <1>1 DEF NoticesInv, NoticeOK, DispatchTypes, CheckChannel, SendOn
<1>3. UNCHANGED <<log, holder>>
  BY DEF CheckChannel, SendOn
<1>4. PICK tries : tries = Attempt(run, FALSE)
  OBVIOUS
<1>5. DispatchOK(tries) /\ DOMAIN tries = NoticeFields
  BY <1>2, <1>4, AttemptIsTyped, AttemptIs
<1>6. PICK after : /\ notice' = [notice EXCEPT ![n] = after]
                   /\ \/ after = Attempt(run, flag)
                      \/ after = [tries EXCEPT !.tried = run.tried]
                      \/ after = [run EXCEPT !.phase = "send", !.blind = run.blind \/ ~flag]
  BY <1>1, <1>4 DEF CheckChannel, SendOn
<1>7. DispatchOK(after)
  <2>1. CASE after = [tries EXCEPT !.tried = run.tried]
    <3>1. /\ after.phase = tries.phase /\ after.user = tries.user
          /\ after.left = tries.left /\ after.rows = tries.rows
      BY <1>5, <2>1 DEF NoticeFields
    <3> QED BY <1>5, <3>1 DEF DispatchOK
  <2>2. CASE after = [run EXCEPT !.phase = "send", !.blind = run.blind \/ ~flag]
    <3>1. /\ after.phase = "send" /\ after.user = run.user
          /\ after.left = run.left /\ after.rows = run.rows
      BY <1>2, <2>2 DEF NoticeFields
    <3> QED BY <1>2, <3>1 DEF DispatchOK
  <2>3. CASE after = Attempt(run, flag)
    BY <1>2, <2>3, AttemptIsTyped
  <2> QED BY <1>6, <2>1, <2>2, <2>3
<1> QED BY <1>3, <1>6, <1>7, OneDispatchTyped DEF LogOK, DispatchTypes

LEMMA EndIsTyped ==
    ASSUME NoticesInv, DispatchTypes, NEW n \in Senders, EndNotice(n) \/ NoticeDies(n)
    PROVE  DispatchTypes'
<1>1. LogOK' 
  <2>1. CASE EndNotice(n)
    <3>1. log \in Seq(LogRow) /\ notice[n].rows \in Seq(LogRow)
      BY DEF DispatchTypes, LogOK, DispatchOK
    <3>2. log \o notice[n].rows \in Seq(LogRow)
      BY <3>1
    <3>3. log' = Flushed(log, log \o notice[n].rows) /\ Len(log') <= MaxLog
      BY <2>1 DEF EndNotice
    <3> QED BY <3>1, <3>2, <3>3 DEF Flushed, LogOK
  <2>2. CASE NoticeDies(n)
    BY <2>2 DEF NoticeDies, DispatchTypes, LogOK
  <2> QED BY <2>1, <2>2
<1>2. notice' = [notice EXCEPT ![n] = Silent] /\ holder' = holder
  BY DEF EndNotice, NoticeDies
<1> QED BY <1>1, <1>2, SilentIsTyped, OneDispatchTyped

LEMMA ReadIsTyped ==
    ASSUME DispatchTypes, NEW u, NEW which, MarkRead(u, which)
    PROVE  DispatchTypes'
<1>1. log \in Seq(LogRow) /\ Len(log) <= MaxLog /\ DOMAIN log = 1 .. Len(log)
  BY DEF DispatchTypes, LogOK
<1>2. ASSUME NEW i \in DOMAIN log
      PROVE  Flushed(log[i], [log[i] EXCEPT !.read = TRUE]) \in LogRow
  <2>1. log[i] \in LogRow
    BY <1>1
  <2>2. [log[i] EXCEPT !.read = TRUE] \in LogRow
    BY <2>1 DEF LogRow
  <2> QED BY <2>1, <2>2 DEF Flushed
<1>3. log' = [i \in 1 .. Len(log) |->
          IF i \in which /\ log[i].user = u
          THEN Flushed(log[i], [log[i] EXCEPT !.read = TRUE]) ELSE log[i]]
  BY <1>1 DEF MarkRead
<1>4. \A i \in 1 .. Len(log) : log'[i] \in LogRow
  BY <1>1, <1>2, <1>3
<1>5. log' \in Seq(LogRow) /\ Len(log') = Len(log)
  <2>1. log' = [i \in 1 .. Len(log) |-> log'[i]] /\ Len(log) \in Nat
    BY <1>1, <1>3
  <2> QED BY <1>4, <2>1
<1> QED BY <1>1, <1>5 DEF MarkRead, DispatchTypes, LogOK

LEMMA HoldersAreTyped ==
    ASSUME NoticesInv, DevicesInv, DispatchTypes, NEW c \in Requests, CommitNote(c)
    PROVE  DispatchTypes'
<1>1. PICK call : call = noteCall[c]
  OBVIOUS
<1>2. \A k \in DOMAIN call.todo : call.todo[k].owner \in NoticeUsers \union {0}
  BY <1>1 DEF DevicesInv, NoteCallOK, NoteRow
<1>3. holder' = [d \in Devices |->
               IF Device(d) \notin DOMAIN call.todo \/ ~GetDbCommits THEN holder[d]
               ELSE IF call.todo[Device(d)].on THEN call.todo[Device(d)].owner ELSE 0]
  BY <1>1 DEF CommitNote
<1>4. holder' \in [Devices -> NoticeUsers \union {0}]
  BY <1>2, <1>3 DEF DispatchTypes
<1>5. PICK rows : notice' = StillMuted(rows) /\ log' = log
  BY DEF CommitNote
<1> QED BY <1>4, <1>5, MutedStaysTyped

LEMMA DispatchTypesKeep ==
    ASSUME NoticesInv, DevicesInv, DispatchTypes, [NoticesStep]_noticeVars
    PROVE  DispatchTypes'
<1>1. ASSUME UNCHANGED <<notice, log, holder>> PROVE DispatchTypes'
  BY <1>1 DEF DispatchTypes, LogOK
<1>2. ASSUME NEW c \in Requests, NoteRequest(c) PROVE DispatchTypes'
  <2>1. CASE CommitNote(c)
    BY <2>1, HoldersAreTyped
  <2>2. CASE ~CommitNote(c)
    BY <1>1, <1>2, <2>2 DEF NoteRequest, SetPreferences, RegisterDevice,
       DeregisterDevice, SetSwitches, BeginOne, BeginNote, ReadRow, NoteCallLost
  <2> QED BY <2>1, <2>2
<1>3. ASSUME NEW u \in NoticeUsers, NEW type \in NoticeTypes, NEW ch \in Channel,
             ResetPreference(u, type, ch)
      PROVE  DispatchTypes'
  <2>1. PICK rows : notice' = StillMuted(rows) /\ log' = log /\ holder' = holder
    BY <1>3 DEF ResetPreference
  <2> QED BY <2>1, MutedStaysTyped DEF DispatchTypes
<1>4. ASSUME NEW n \in Senders,
             \/ \E u \in NoticeUsers, type \in NoticeTypes : StartNotice(n, u, type)
             \/ \E flag \in BOOLEAN : CheckChannel(n, flag) \/ SendOn(n, flag)
             \/ EndNotice(n) \/ NoticeDies(n)
      PROVE  DispatchTypes'
  BY <1>4, StartIsTyped, ChannelsAreTyped, EndIsTyped
<1>5. ASSUME NEW u, NEW which, MarkRead(u, which) PROVE DispatchTypes'
  BY <1>5, ReadIsTyped
<1>6. CASE UNCHANGED noticeVars
  BY <1>1, <1>6 DEF noticeVars
<1> QED BY <1>2, <1>3, <1>4, <1>5, <1>6 DEF NoticesStep

\* Opt-outs, devices, the dispatches and their log, which holds no more than the
\* bound (models/notification.py).
THEOREM NoticesAreTyped == NoticesSpec => []NoticesTypeOK
<1>1. NoticesInit => DispatchTypes
  BY SilentIsTyped, NoticesAssumption DEF NoticesInit, DispatchTypes, LogOK
<1>2. DevicesInv /\ DispatchTypes => NoticesTypeOK
  BY DEF DevicesInv, NoteCallOK, DispatchTypes, DispatchOK, LogOK, NoticesTypeOK
<1> QED BY <1>1, <1>2, DispatchTypesKeep, NoticesInvInit, NoticesInvStep,
           DevicesInvInit, DevicesInvStep, PTL DEF NoticesSpec

-----------------------------------------------------------------------------
(* All of the services.                                                     *)

\* Together the services behave as each does alone: what is proved of one holds
\* of the whole.
THEOREM ServiceSystemParts ==
    ServiceSystemSpec =>
        /\ PromosSpec /\ RecurringSpec /\ SurgeSpec /\ CasesSpec /\ StopsSpec
        /\ RatingsSpec /\ NoticesSpec
<1>1. ServiceSystemInit =>
          /\ PromosInit /\ RecurringInit /\ SurgeInit /\ CasesInit /\ StopsInit
          /\ RatingsInit /\ NoticesInit
  BY DEF ServiceSystemInit
<1>2. [ServiceSystemNext]_serviceSystemVars =>
          /\ [PromosStep]_promoVars /\ [RecurringStep]_recurringVars
          /\ [SurgeStep]_surgeVars /\ [CasesStep]_caseVars /\ [StopsStep]_stopVars
          /\ [RatingsStep]_ratingVars /\ [NoticesStep]_noticeVars
  BY DEF ServiceSystemNext, serviceSystemVars, Discounting, Scheduling, Surging,
         Reporting, Stopping, Reviewing, Notifying
<1> QED BY <1>1, <1>2, PTL
     DEF ServiceSystemSpec, PromosSpec, RecurringSpec, SurgeSpec, CasesSpec, StopsSpec,
         RatingsSpec, NoticesSpec

\* No row, request or counter of a service gets a value its table cannot hold
\* (models/), for any users, rides, codes, zones and requests.
THEOREM ServiceTypes == ServiceSystemSpec => []ServicesTypeOK
BY ServiceSystemParts, DiscountTypes, RecurringTypes, SurgesAreTyped, CaseTypes,
   WaypointTypes, RatingsAreTyped, NoticesAreTyped, PTL DEF ServicesTypeOK
=============================================================================
