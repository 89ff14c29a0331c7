---------------------------- MODULE DriverSystem ----------------------------
(***************************************************************************)
(* What the system keeps about its drivers: their sockets (Connections),   *)
(* whether they can be given a ride (Availability), the papers they submit *)
(* (Documents) and whether they may drive at all (Approval).  The parts    *)
(* read each other's rows; each row is written by one of them.             *)
(***************************************************************************)
EXTENDS Connections, Approval

driverSystemVars == <<tableVars, engineVars, connVars, availVars, docVars,
                      approvalVars>>

\* The types of all variables of the drivers' part: no row, request or
\* registry entry gets a value its table cannot hold (models/).
DriversTypeOK ==
    /\ EngineTypeOK /\ ConnTypeOK
    /\ AvailTypeOK /\ DocsTypeOK /\ ApprovalTypeOK

DriverSystemInit ==
    /\ TableInit /\ EngineInit /\ ConnInit
    /\ AvailInit /\ DocsInit /\ ApprovalInit

Connecting   == ConnStep /\ UNCHANGED <<availVars, docVars, approvalVars>>
Presenting   == AvailStep /\ UNCHANGED <<docVars, approvalVars>>
                          /\ UNCHANGED <<engineVars, connVars>>
Documenting  == DocsStep /\ UNCHANGED <<availVars, approvalVars>>
                         /\ UNCHANGED <<engineVars, connVars>>
Approving    == ApprovalStep /\ UNCHANGED <<availVars, docVars>>
                             /\ UNCHANGED <<engineVars, connVars>>

DriverSystemNext ==
    /\ Connecting \/ Presenting \/ Documenting \/ Approving
    /\ UNCHANGED tableVars

DriverSystemSpec ==
    DriverSystemInit /\ [][DriverSystemNext]_driverSystemVars
=============================================================================
