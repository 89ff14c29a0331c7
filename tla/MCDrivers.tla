----------------------------- MODULE MCDrivers -----------------------------
(***************************************************************************)
(* DriverSystem with the constants TLC needs.  Its parts share no variable *)
(* that two of them write, so "side" picks the one, and the part of its    *)
(* requests, that a behaviour explores; the state space is a sum.          *)
(***************************************************************************)
EXTENDS DriverSystem, TLC

CONSTANTS d1, c1, c2, t1, t2

VARIABLE side

driversVars == <<driverSystemVars, side>>

MCSockets == {<<d1, "driver", 1>>, <<d1, "driver", 2>>, <<d1, "rider", 1>>}
MCPapers  == Kinds \X {d1} \X {1, 2}

PaperSides == {"license", "registration", "insurance", "inspection"}
ApprovalSides == {"verification", "overlap", "checks", "onboarding"}

DriversInit ==
    /\ DriverSystemInit
    /\ side \in {"connections", "status", "schedule", "heading"}
                \union PaperSides \union ApprovalSides

ConnectionsSide == side = "connections" /\ ConnStep

\* Two requests about the status, or about the destination; the schedule with
\* one.
AvailabilitySide ==
    /\ AvailStep
    /\ \/ side = "status"   /\ UNCHANGED <<slots, heading>>
       \/ side = "heading"  /\ UNCHANGED <<slots, status>>
       \/ side = "schedule" /\ UNCHANGED heading
                            /\ availCall'[c2] = availCall[c2]

\* Two records of one kind, the second only after the first and with its file;
\* edits attach the file, records expire on the last day or, single inspections,
\* not at all.  The services are alike, so two have overlapping requests.
DocumentsSide ==
    /\ side \in PaperSides
    /\ DocsStep
    /\ \A p \in Papers : paper'[p] # NoPaper =>
           /\ p[1] = side
           /\ paper'[p].expires = IF side = "inspection" /\ ~paper'[p].annual
                                  THEN NoDate ELSE MaxDay
    /\ \A c \in Requests : docCall'[c].busy =>
           (docCall'[c].new.file \/ docCall'[c].new.status \in Verdicts)
    /\ docCall'[c2].busy => side \in {"license", "inspection"}
    /\ docCall'[c2].busy => docCall[c1].busy \/ docCall[c2].busy
    /\ paper'[<<side, d1, 2>>] # NoPaper => paper'[<<side, d1, 1>>] # NoPaper
    /\ paper'[<<side, d1, 2>>] # NoPaper => paper'[<<side, d1, 2>>].file
    /\ paper'[<<side, d1, 2>>].annual => paper'[<<side, d1, 1>>].annual

Ops(side_) ==
    CASE side_ = "verification" -> {"submit", "review", "online", "approve",
                                    "suspend", "reactivate"}
      [] side_ = "overlap"      -> {"online", "offline", "approve", "suspend",
                                    "reactivate"}
      [] side_ = "checks"       -> {"submit", "review", "order", "check",
                                    "suspend", "view"}
      [] side_ = "onboarding"   -> {"order", "check", "activate", "suspend",
                                    "view", "online"}

\* One request at a time, but on the side "overlap".  The two ways to suspend
\* a driver are explored apart.  At most the inspection is missing.  Only
\* onboarding reads the insurance policy.
ApprovalRequests ==
    /\ ApprovalStep
    /\ \A c \in Requests : apprCall'[c] # ApprIdle =>
           /\ apprCall'[c].op \in Ops(side)
           /\ c = c2 => side = "overlap"
           /\ apprCall'[c].op = "suspend" =>
                  ((apprCall'[c].new.onboarding = "suspended")
                       <=> side \in {"checks", "onboarding"})
    /\ side = "onboarding" =>
           {"license", "registration", "insurance"} \subseteq
               {p[1] : p \in {q \in Papers : paper[q].status = "approved"}}
    /\ side # "onboarding" => ~driver'[d1].insured
    /\ side = "checks" =>
           \A v \in VDocs : vdoc'[v] # Nothing =>
               vdoc'[v].status \in {"pending", "under_review", "approved"}

\* The checklist's papers, before there is a profile, one after the other and
\* without detours.
OnboardingPapers ==
    /\ driver[d1] = NoProfile
    /\ DocsStep
    /\ \A p \in Papers : paper'[p] # NoPaper =>
           /\ p[3] = 1 /\ paper'[p].status # "rejected"
           /\ paper'[p].status # "approved" =>
                  \A q \in Papers \ {p} : paper'[q].status \in {"none", "approved"}
           /\ paper'[p].file /\ paper'[p].expires = MaxDay
    /\ docCall'[c2] = NoDocRequest /\ today' = today

ApprovalSide ==
    /\ side \in ApprovalSides
    /\ \/ ApprovalRequests /\ UNCHANGED docVars
       \/ side = "onboarding" /\ OnboardingPapers /\ UNCHANGED approvalVars

DriversNext ==
    /\ \/ ConnectionsSide /\ UNCHANGED <<availVars, docVars, approvalVars>>
       \/ AvailabilitySide /\ UNCHANGED <<docVars, approvalVars>>
                           /\ UNCHANGED <<engineVars, connVars>>
       \/ DocumentsSide /\ UNCHANGED <<availVars, approvalVars>>
                        /\ UNCHANGED <<engineVars, connVars>>
       \/ ApprovalSide /\ UNCHANGED <<availVars, engineVars, connVars>>
    /\ UNCHANGED <<tableVars, side>>

DriversSpec == DriversInit /\ [][DriversNext]_driversVars /\ ConnFairness
=============================================================================
