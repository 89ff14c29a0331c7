--------------------------- MODULE DocumentsProofs ---------------------------
(***************************************************************************)
(* Proofs about Documents, for any records, days and number of requests:   *)
(* as long as the requests about an owner's records do not overlap, one of *)
(* a kind is approved, and what was approved stays as it was.              *)
(***************************************************************************)
EXTENDS Documents, TLAPS

\* What a request still knows of its record, and of the other records of the
\* owner, when nobody else's request about them overlaps.
Knows(c) ==
    LET q == docCall[c]
    IN  q.busy /\ Owner(q.about) \notin overlapped =>
            /\ q.copy = paper[q.about]
            /\ q.copy # NoPaper
            /\ q.copy.status = "approved" =>
                   q.new = [q.copy EXCEPT !.status = q.new.status]
            /\ q.new.status = "approved" =>
                   \A r \in Rivals(q.about) :
                       paper[r].status = "approved" => r \in q.expiring

\* Requests about the records of one owner overlap: overlapped says so.
AloneWith ==
    \A c, e \in Requests :
        (/\ docCall[c].busy /\ docCall[e].busy
         /\ Owner(docCall[c].about) = Owner(docCall[e].about)
         /\ Owner(docCall[c].about) \notin overlapped) => c = e

DocInv ==
    /\ DocsTypeOK
    /\ AloneWith
    /\ \A c \in Requests :
           /\ docCall[c].busy => docCall[c].expiring \subseteq Rivals(docCall[c].about)
           /\ Knows(c)
    /\ OneApproved

-----------------------------------------------------------------------------
(* What the actions have in common.                                         *)

\* A commit writes a record of the same kind; over an unchanged row, the new one.
LEMMA MergeOfPapers ==
    ASSUME NEW row \in Paper, NEW copy \in Paper, NEW new \in Paper
    PROVE  /\ Merge(row, copy, new) \in Paper
           /\ copy = row => Merge(row, copy, new) = new
<1> DEFINE after == Merge(row, copy, new)
<1>1. DOMAIN row = {"status", "file", "expires", "annual"}
  BY DEF Paper
<1>2. /\ after.status = IF new.status = copy.status THEN row.status ELSE new.status
      /\ after.file = IF new.file = copy.file THEN row.file ELSE new.file
      /\ after.expires = IF new.expires = copy.expires THEN row.expires ELSE new.expires
      /\ after.annual = IF new.annual = copy.annual THEN row.annual ELSE new.annual
  BY <1>1 DEF Merge
<1>3. after = [status |-> after.status, file |-> after.file,
               expires |-> after.expires, annual |-> after.annual]
  BY <1>1 DEF Merge
<1>4. after \in Paper
  BY <1>2, <1>3 DEF Paper
<1>5. ASSUME copy = row PROVE after = new
  BY <1>2, <1>3, <1>5 DEF Paper
<1> QED BY <1>4, <1>5

\* A record is submitted.
Submitted(p) ==
    \E row \in Paper :
        /\ row.status \in {"pending_upload", "pending_review"}
        /\ paper[p] = NoPaper
        /\ paper' = [paper EXCEPT ![p] = row]
        /\ UNCHANGED <<today, docCall, overlapped>>

\* A request loads a record: an edit one that waits for its file or review,
\* a review any, with the approved ones that an approval replaces.
Loaded(c, p) ==
    \E new \in Paper, expiring \in SUBSET Rivals(p) :
        /\ paper[p].status = "approved" =>
               new = [paper[p] EXCEPT !.status = new.status]
        /\ new.status = "approved" =>
               \A r \in Rivals(p) : paper[r].status = "approved" => r \in expiring
        /\ Load(c, p, new, expiring)

\* Whatever its endpoint, a creation submits a record and any other request
\* loads one.
LEMMA EndpointsSubmitOrLoad ==
    ASSUME DocsTypeOK, DocsStep
    PROVE  \/ \E p \in Papers : Submitted(p)
           \/ \E c \in Requests, p \in Papers : Loaded(c, p)
           \/ \E c \in Requests : Commit(c) \/ DocRequestLost(c)
           \/ NextDay
<1> USE DEF DocsTypeOK
<1>1. ASSUME NEW p \in Papers, NEW status \in {"pending_upload", "pending_review"},
             NEW file \in BOOLEAN, NEW expires \in Days \union {NoDate},
             NEW annual \in BOOLEAN, Submit(p, status, file, expires, annual)
      PROVE  Submitted(p)
  <2> DEFINE row == [status |-> status, file |-> file, expires |-> expires,
                     annual |-> annual]
  <2>1. row \in Paper /\ row.status = status
    BY DEF Paper, PaperStatus
  <2> QED BY <1>1, <2>1 DEF Submit, Submitted
<1>2. ASSUME NEW c \in Requests, NEW p \in Papers, NEW file \in BOOLEAN,
             NEW expires \in Days \union {NoDate}, Edit(c, p, file, expires)
      PROVE  Loaded(c, p)
  <2> DEFINE new == [paper[p] EXCEPT !.file = file, !.expires = expires,
                         !.status = IF file /\ @ = "pending_upload"
                                    THEN "pending_review" ELSE @]
  <2>1. paper[p] \in Paper /\ paper[p].status \in {"pending_upload", "pending_review"}
    BY <1>2 DEF Edit
  <2>2. new \in Paper /\ new.status \in {"pending_upload", "pending_review"}
    BY <2>1 DEF Paper, PaperStatus
  <2>3. Load(c, p, new, {})
    BY <1>2 DEF Edit
  <2> QED BY <2>1, <2>2, <2>3 DEF Loaded
<1>3. ASSUME NEW c \in Requests, NEW p \in Papers, NEW verdict \in Verdicts,
             Review(c, p, verdict)
      PROVE  Loaded(c, p)
  <2> DEFINE new == [paper[p] EXCEPT !.status = verdict]
  <2>1. new \in Paper /\ new.status = verdict
    BY DEF Paper, PaperStatus, Verdicts
  <2>2. Load(c, p, new, ExpiredBy(p, verdict))
    BY <1>3 DEF Review
  <2>3. /\ ExpiredBy(p, verdict) \subseteq Rivals(p)
        /\ verdict = "approved" =>
               \A r \in Rivals(p) :
                   paper[r].status = "approved" => r \in ExpiredBy(p, verdict)
    BY DEF ExpiredBy
  <2> QED BY <2>1, <2>2, <2>3 DEF Loaded
<1>4. ASSUME NEW c \in Requests, LicenseEndpoints(c) \/ RegistrationEndpoints(c)
                                 \/ InsuranceEndpoints(c)
      PROVE  \E p \in Papers : Submitted(p) \/ Loaded(c, p)
  <2>1. PICK p \in Papers, file \in BOOLEAN, expires \in Days :
            \/ Submit(p, Started(file), file, expires, FALSE)
            \/ Edit(c, p, file, expires)
    BY <1>4 DEF LicenseEndpoints, RegistrationEndpoints, InsuranceEndpoints,
                CreateLicense, CreateRegistration, CreateInsurance,
                UpdateLicense, UpdateRegistration, UpdateInsurance
  <2>2. Started(file) \in {"pending_upload", "pending_review"}
    BY DEF Started
  <2> QED BY <2>1, <2>2, <1>1, <1>2
<1>5. ASSUME NEW c \in Requests, InspectionEndpoints(c)
      PROVE  \E p \in Papers : Submitted(p) \/ Loaded(c, p)
  <2>1. PICK p \in Papers :
            \/ \E file, annual \in BOOLEAN, expires \in Days \union {NoDate} :
                   Submit(p, "pending_review", file, expires, annual)
            \/ \E file \in BOOLEAN : Edit(c, p, file, paper[p].expires)
    BY <1>5 DEF InspectionEndpoints, CreateInspection, UpdateInspection
  <2>2. paper[p].expires \in Days \union {NoDate}
    BY DEF Paper
  <2> QED BY <2>1, <2>2, <1>1, <1>2
<1>6. ASSUME NEW c \in Requests, LicenseReviews(c) \/ RegistrationReviews(c)
                                 \/ InsuranceReviews(c) \/ InspectionReviews(c)
      PROVE  \E p \in Papers : Loaded(c, p)
  BY <1>3, <1>6 DEF LicenseReviews, RegistrationReviews, InsuranceReviews,
                    InspectionReviews, ReviewLicense, ReviewRegistration,
                    ReviewInsurance, ReviewInspection
<1> QED BY <1>4, <1>5, <1>6 DEF DocsStep

-----------------------------------------------------------------------------
(* The invariant is kept, action by action.                                 *)

LEMMA SubmissionKeeps ==
    ASSUME DocInv, NEW p \in Papers, Submitted(p)
    PROVE  DocInv'
<1> USE DEF DocInv, DocsTypeOK
<1>1. PICK row \in Paper :
          /\ row.status \in {"pending_upload", "pending_review"}
          /\ paper[p] = NoPaper
          /\ paper' = [paper EXCEPT ![p] = row]
          /\ UNCHANGED <<today, docCall, overlapped>>
  BY DEF Submitted
<1>2. DocsTypeOK' /\ AloneWith'
  BY <1>1 DEF AloneWith
<1>3. \A q \in Papers : paper'[q].status = "approved" =>
          q # p /\ paper[q].status = "approved" /\ paper'[q] = paper[q]
  BY <1>1
<1>4. OneApproved'
  BY <1>1, <1>3 DEF OneApproved
<1>5. ASSUME NEW c \in Requests
      PROVE  (/\ docCall[c].busy => docCall[c].expiring \subseteq Rivals(docCall[c].about)
              /\ Knows(c))'
  <2>1. docCall[c].about \in Papers
    BY DEF DocRequest
  <2>2. docCall'[c].busy => docCall'[c].expiring \subseteq Rivals(docCall'[c].about)
    BY <1>1
  <2>3. ASSUME Knows(c) PROVE Knows(c)'
    <3>1. Rivals(docCall[c].about) \subseteq Papers
      BY DEF Rivals
    <3> QED BY <1>1, <1>3, <2>1, <2>3, <3>1 DEF Knows
  <2> QED BY <2>2, <2>3
<1> QED BY <1>2, <1>4, <1>5

LEMMA LoadKeeps ==
    ASSUME DocInv, NEW c \in Requests, NEW p \in Papers, Loaded(c, p)
    PROVE  DocInv'
<1> USE DEF DocInv, DocsTypeOK
<1>1. PICK new \in Paper, expiring \in SUBSET Rivals(p) :
          /\ paper[p].status = "approved" =>
                 new = [paper[p] EXCEPT !.status = new.status]
          /\ new.status = "approved" =>
                 \A r \in Rivals(p) : paper[r].status = "approved" => r \in expiring
          /\ Load(c, p, new, expiring)
  BY DEF Loaded
<1> DEFINE q == [busy |-> TRUE, about |-> p, copy |-> paper[p], new |-> new,
                 expiring |-> expiring]
<1>2. /\ q \in DocRequest
      /\ q.busy /\ q.about = p /\ q.copy = paper[p] /\ q.new = new
      /\ q.expiring = expiring
  BY DEF DocRequest, Rivals
<1>3. /\ ~docCall[c].busy /\ paper[p] # NoPaper
      /\ docCall' = [docCall EXCEPT ![c] = q]
      /\ UNCHANGED <<today, paper>>
  BY <1>1 DEF Load
<1>4. /\ overlapped \subseteq overlapped'
      /\ Owner(p) \notin overlapped' => BusyWith(Owner(p)) = {}
      /\ overlapped' \subseteq {Owner(r) : r \in Papers}
  BY <1>1 DEF Load
<1> HIDE DEF q
<1>5. docCall'[c] = q /\ \A e \in Requests : e # c => docCall'[e] = docCall[e]
  BY <1>3
<1>6. DocsTypeOK'
  BY <1>2, <1>3, <1>4, <1>5
<1>7. AloneWith'
  <2> SUFFICES ASSUME NEW a \in Requests, NEW e \in Requests, a # e,
                      docCall'[a].busy, docCall'[e].busy,
                      Owner(docCall'[a].about) = Owner(docCall'[e].about),
                      Owner(docCall'[a].about) \notin overlapped'
               PROVE  FALSE
    BY DEF AloneWith
  <2>1. CASE a # c /\ e # c
    BY <1>4, <1>5, <2>1 DEF AloneWith
  <2>2. CASE a = c
    BY <1>2, <1>4, <1>5, <2>2 DEF BusyWith
  <2>3. CASE e = c
    BY <1>2, <1>4, <1>5, <2>3 DEF BusyWith
  <2> QED BY <2>1, <2>2, <2>3
<1>8. OneApproved'
  BY <1>3, <1>4 DEF OneApproved
<1>9. ASSUME NEW e \in Requests
      PROVE  (/\ docCall[e].busy => docCall[e].expiring \subseteq Rivals(docCall[e].about)
              /\ Knows(e))'
  <2>1. CASE e = c
    BY <1>1, <1>2, <1>3, <1>5, <2>1 DEF Knows
  <2>2. CASE e # c
    <3>1. Knows(e)
      OBVIOUS
    <3> QED BY <1>3, <1>4, <1>5, <2>2, <3>1 DEF Knows
  <2> QED BY <2>1, <2>2
<1> QED BY <1>6, <1>7, <1>8, <1>9

\* What a commit writes of the records of its owner, and of no other's.
LEMMA CommitWrites ==
    ASSUME DocInv, NEW c \in Requests, Commit(c)
    PROVE  /\ paper' \in [Papers -> Paper]
           /\ \A r \in Papers :
                  Owner(r) # Owner(docCall[c].about) => paper'[r] = paper[r]
           /\ Owner(docCall[c].about) \notin overlapped =>
                  \A r \in Papers :
                      paper'[r] = IF r = docCall[c].about THEN docCall[c].new
                                  ELSE IF r \in docCall[c].expiring
                                       THEN [paper[r] EXCEPT !.status = "expired"]
                                       ELSE paper[r]
<1> USE DEF DocInv, DocsTypeOK
<1> DEFINE q == docCall[c]
<1>1. /\ q.busy /\ q \in DocRequest
      /\ paper' = [r \in Papers |->
             IF r = q.about THEN Merge(paper[r], q.copy, q.new)
             ELSE IF r \in q.expiring THEN [paper[r] EXCEPT !.status = "expired"]
             ELSE paper[r]]
  BY DEF Commit
<1>2. /\ q.about \in Papers /\ q.copy \in Paper /\ q.new \in Paper
      /\ q.expiring \subseteq Rivals(q.about)
  BY <1>1 DEF DocRequest
<1>3. Merge(paper[q.about], q.copy, q.new) \in Paper
  BY <1>2, MergeOfPapers
<1>4. \A r \in Papers : [paper[r] EXCEPT !.status = "expired"] \in Paper
  BY DEF Paper, PaperStatus
<1>5. paper' \in [Papers -> Paper]
  BY <1>1, <1>2, <1>3, <1>4
<1>6. \A r \in Papers : Owner(r) # Owner(q.about) => paper'[r] = paper[r]
  BY <1>1, <1>2 DEF Rivals
<1>7. Owner(q.about) \notin overlapped => q.copy = paper[q.about]
  BY <1>1 DEF Knows
<1>8. Owner(q.about) \notin overlapped =>
          Merge(paper[q.about], q.copy, q.new) = q.new
  BY <1>2, <1>7, MergeOfPapers
<1> QED BY <1>1, <1>5, <1>6, <1>8

LEMMA CommitKeeps ==
    ASSUME DocInv, NEW c \in Requests, Commit(c)
    PROVE  DocInv'
<1> USE DEF DocInv, DocsTypeOK
<1> DEFINE q == docCall[c]
<1>1. /\ q.busy
      /\ docCall' = [docCall EXCEPT ![c] = NoDocRequest]
      /\ UNCHANGED <<today, overlapped>>
  BY DEF Commit
<1>2. /\ NoDocRequest \in DocRequest /\ ~NoDocRequest.busy
      /\ q.about \in Papers /\ q.expiring \subseteq Rivals(q.about)
  BY <1>1, PapersAssumption
     DEF NoDocRequest, DocRequest, NoPaper, Paper, PaperStatus
<1>3. docCall'[c] = NoDocRequest
      /\ \A e \in Requests : e # c => docCall'[e] = docCall[e]
  BY <1>1
<1>4. DocsTypeOK'
  BY <1>1, <1>2, <1>3, CommitWrites
<1>5. AloneWith'
  BY <1>1, <1>2, <1>3 DEF AloneWith
<1>6. OneApproved'
  <2> SUFFICES ASSUME NEW r \in Papers, NEW s \in Papers, Owner(r) = Owner(s),
                      Owner(r) \notin overlapped,
                      paper'[r].status = "approved", paper'[s].status = "approved",
                      r # s
               PROVE  FALSE
    BY <1>1 DEF OneApproved
  <2>1. CASE Owner(r) # Owner(q.about)
    BY <2>1, CommitWrites DEF OneApproved
  <2>2. CASE Owner(r) = Owner(q.about)
    <3>1. ASSUME NEW x \in {r, s}
          PROVE  \/ x = q.about /\ q.new.status = "approved"
                 \/ x # q.about /\ x \notin q.expiring /\ paper[x].status = "approved"
      <4>1. paper'[x] = IF x = q.about THEN q.new
                        ELSE IF x \in q.expiring
                             THEN [paper[x] EXCEPT !.status = "expired"]
                             ELSE paper[x]
        BY <2>2, CommitWrites
      <4>2. paper[x] \in Paper /\ paper'[x].status = "approved"
        OBVIOUS
      <4>3. [paper[x] EXCEPT !.status = "expired"].status = "expired"
        BY <4>2 DEF Paper
      <4> HIDE DEF q
      <4> QED BY <4>1, <4>2, <4>3
    <3>2. \A x \in {r, s} : x # q.about => x \in Rivals(q.about)
      BY <2>2 DEF Rivals
    <3>3. q.new.status = "approved" =>
              \A x \in Rivals(q.about) : paper[x].status = "approved" => x \in q.expiring
      BY <1>1, <2>2 DEF Knows
    <3>4. r # q.about /\ s # q.about
      BY <3>1, <3>2, <3>3
    <3> QED BY <3>1, <3>4 DEF OneApproved
  <2> QED BY <2>1, <2>2
<1>7. ASSUME NEW e \in Requests
      PROVE  (/\ docCall[e].busy => docCall[e].expiring \subseteq Rivals(docCall[e].about)
              /\ Knows(e))'
  <2>1. CASE e = c
    BY <1>2, <1>3, <2>1 DEF Knows
  <2>2. CASE e # c
    <3>1. Knows(e) /\ docCall'[e] = docCall[e] /\ docCall[e] \in DocRequest
      BY <1>3, <2>2
    <3>2. docCall'[e].busy => docCall'[e].expiring \subseteq Rivals(docCall'[e].about)
      BY <3>1
    <3>3. ASSUME docCall[e].busy, Owner(docCall[e].about) \notin overlapped
          PROVE  \A r \in Papers :
                     Owner(r) = Owner(docCall[e].about) => paper'[r] = paper[r]
      <4>1. Owner(docCall[e].about) # Owner(q.about)
        BY <1>1, <2>2, <3>3 DEF AloneWith
      <4> QED BY <4>1, CommitWrites
    <3>4. \A r \in Rivals(docCall[e].about) :
              r \in Papers /\ Owner(r) = Owner(docCall[e].about)
      BY DEF Rivals
    <3>5. docCall[e].about \in Papers
      BY <3>1 DEF DocRequest
    <3>6. Knows(e)'
      BY <1>1, <3>1, <3>3, <3>4, <3>5 DEF Knows
    <3> QED BY <3>2, <3>6
  <2> QED BY <2>1, <2>2
<1> QED BY <1>4, <1>5, <1>6, <1>7

LEMMA LossKeeps ==
    ASSUME DocInv, NEW c \in Requests, DocRequestLost(c)
    PROVE  DocInv'
<1> USE DEF DocInv, DocsTypeOK
<1>1. /\ docCall' = [docCall EXCEPT ![c] = NoDocRequest]
      /\ UNCHANGED <<today, paper, overlapped>>
  BY DEF DocRequestLost
<1>2. NoDocRequest \in DocRequest /\ ~NoDocRequest.busy
  BY PapersAssumption
     DEF NoDocRequest, DocRequest, NoPaper, Paper, PaperStatus
<1>3. docCall'[c] = NoDocRequest
      /\ \A e \in Requests : e # c => docCall'[e] = docCall[e]
  BY <1>1
<1>4. DocsTypeOK' /\ AloneWith' /\ OneApproved'
  BY <1>1, <1>2, <1>3 DEF AloneWith, OneApproved
<1>5. ASSUME NEW e \in Requests
      PROVE  (/\ docCall[e].busy => docCall[e].expiring \subseteq Rivals(docCall[e].about)
              /\ Knows(e))'
  <2>1. CASE e = c
    BY <1>2, <1>3, <2>1 DEF Knows
  <2>2. CASE e # c
    <3>1. Knows(e) /\ docCall'[e] = docCall[e]
      BY <1>3, <2>2
    <3> QED BY <1>1, <3>1 DEF Knows
  <2> QED BY <2>1, <2>2
<1> QED BY <1>4, <1>5

LEMMA DayKeeps ==
    ASSUME DocInv, NextDay
    PROVE  DocInv'
<1> USE DEF DocInv, DocsTypeOK
<1>1. today' \in Days /\ UNCHANGED <<paper, docCall, overlapped>>
  BY PapersAssumption DEF NextDay, Days
<1>2. DocsTypeOK' /\ AloneWith' /\ OneApproved'
  BY <1>1 DEF AloneWith, OneApproved
<1>3. \A e \in Requests : Knows(e) => Knows(e)'
  BY <1>1 DEF Knows
<1> QED BY <1>1, <1>2, <1>3

LEMMA StutterKeeps ==
    ASSUME DocInv, UNCHANGED docVars
    PROVE  DocInv'
BY DEF DocInv, DocsTypeOK, AloneWith, OneApproved, Knows, docVars

-----------------------------------------------------------------------------
(* The theorems.                                                            *)

\* DocInv is an invariant of the four review services, for any records and any
\* requests that overlap or die.
THEOREM DocumentsInvariant == DocsSpec => []DocInv
<1>1. DocsInit => DocInv
  <2> SUFFICES ASSUME DocsInit PROVE DocInv
    OBVIOUS
  <2>1. NoPaper \in Paper /\ NoPaper.status = "none" /\ NoDocRequest \in DocRequest
        /\ ~NoDocRequest.busy
    BY PapersAssumption DEF NoDocRequest, DocRequest, NoPaper, Paper, PaperStatus
  <2>2. 1 \in Days
    BY PapersAssumption DEF Days
  <2>3. DocsTypeOK
    BY <2>1, <2>2 DEF DocsInit, DocsTypeOK
  <2>4. \A c \in Requests : ~docCall[c].busy
    BY <2>1 DEF DocsInit
  <2>5. OneApproved
    BY <2>1 DEF DocsInit, OneApproved
  <2> QED BY <2>3, <2>4, <2>5 DEF DocInv, AloneWith, Knows
<1>2. DocInv /\ [DocsStep]_docVars => DocInv'
  <2> SUFFICES ASSUME DocInv, [DocsStep]_docVars PROVE DocInv'
    OBVIOUS
  <2>1. CASE DocsStep
    <3>1. DocsTypeOK
      BY DEF DocInv
    <3> QED BY <2>1, <3>1, EndpointsSubmitOrLoad, SubmissionKeeps, LoadKeeps,
               CommitKeeps, LossKeeps, DayKeeps
  <2>2. CASE UNCHANGED docVars
    BY <2>2, StutterKeeps
  <2> QED BY <2>1, <2>2
<1> QED BY <1>1, <1>2, PTL DEF DocsSpec

\* As long as requests about a driver's records of one kind do not overlap, at
\* most one is approved: "only one approved record is active at a time"
\* (admin_review_license and its kin).
THEOREM OneIsApproved == DocsSpec => []OneApproved
<1>1. DocInv => OneApproved
  BY DEF DocInv
<1> QED BY <1>1, DocumentsInvariant, PTL

\* An approved record keeps its file and its dates as long as it is approved and
\* no request about the owner's records overlapped (update_* and _EDITABLE_STATUSES).
THEOREM ApprovedStayFrozen == DocsSpec => ApprovedIsFrozen
<1> DEFINE Frozen == \A p \in Papers :
        (paper[p].status = "approved" /\ paper'[p].status = "approved") =>
            \/ paper'[p] = paper[p]
            \/ Owner(p) \in overlapped
<1>1. DocInv /\ [DocsStep]_docVars => [Frozen]_docVars
  <2> SUFFICES ASSUME DocInv, DocsStep, NEW p \in Papers,
                      paper[p].status = "approved", paper'[p].status = "approved",
                      Owner(p) \notin overlapped
               PROVE  paper'[p] = paper[p]
    OBVIOUS
  <2> USE DEF DocInv, DocsTypeOK
  <2>1. CASE \E r \in Papers : Submitted(r)
    BY <2>1 DEF Submitted, NoPaper
  <2>2. CASE \E c \in Requests, r \in Papers : Loaded(c, r)
    BY <2>2 DEF Loaded, Load
  <2>3. ASSUME NEW c \in Requests, Commit(c) PROVE paper'[p] = paper[p]
    <3> DEFINE q == docCall[c]
    <3>1. q.busy /\ q.expiring \subseteq Rivals(q.about) /\ q \in DocRequest
      BY <2>3 DEF Commit
    <3>2. CASE p = q.about
      <4>1. /\ q.copy = paper[p] /\ q.copy \in Paper
            /\ q.new = [q.copy EXCEPT !.status = q.new.status]
            /\ paper'[p] = q.new
        BY <3>1, <3>2, <2>3, CommitWrites DEF Knows, DocRequest
      <4> QED BY <4>1 DEF Paper
    <3>3. CASE p # q.about
      <4>1. CASE p \in q.expiring
        <5>1. Owner(p) = Owner(q.about)
          BY <3>1, <4>1 DEF Rivals
        <5>2. paper'[p] = [paper[p] EXCEPT !.status = "expired"]
          BY <2>3, <3>3, <4>1, <5>1, CommitWrites
        <5> QED BY <5>2 DEF Paper
      <4>2. CASE p \notin q.expiring
        BY <2>3, <3>3, <4>2 DEF Commit
      <4> QED BY <4>1, <4>2
    <3> QED BY <3>2, <3>3
  <2>4. CASE (\E c \in Requests : DocRequestLost(c)) \/ NextDay
    BY <2>4 DEF DocRequestLost, NextDay
  <2> QED BY <2>1, <2>2, <2>3, <2>4, EndpointsSubmitOrLoad
<1> QED BY <1>1, DocumentsInvariant, PTL DEF DocsSpec, ApprovedIsFrozen
=============================================================================
