---------------------------- MODULE MatchingTask ----------------------------
(***************************************************************************)
(* _match_ride_background: the background task of each requested ride.     *)
(* It opens a session of its own once the response is sent, looks for the  *)
(* nearest driver, and commits the match without asking the driver.        *)
(***************************************************************************)
EXTENDS MatchingEngine

VARIABLE task   \* task[r]: what the background task of ride r will do next

NoTask == [at |-> "none", copy |-> NoRow, found |-> NoDriver]

TaskType == [at : {"none", "queued", "find", "commit", "busy"}, copy : Row,
             found : Drivers \union {NoDriver}]

TaskTypeOK == task \in [Rides -> TaskType]

TaskInit == task = [r \in Rides |-> NoTask]

\* request_ride hands the ride over.
QueueMatching(r) == task' = [task EXCEPT ![r].at = "queued"]

EndTask(r) == task' = [task EXCEPT ![r] = NoTask]

\* Mutant: the status is not checked.
LoadAnyForMatching(r) ==
    /\ task[r].at = "queued"
    /\ task' = [task EXCEPT ![r].at = "find", ![r].copy = rides[r]]
    /\ UNCHANGED <<tableVars, engineVars>>

\* A ride that is no longer requested is left alone.
LoadForMatching(r) ==
    /\ task[r].at = "queued"
    /\ IF rides[r].status = "requested"
       THEN task' = [task EXCEPT ![r].at = "find", ![r].copy = rides[r]]
       ELSE EndTask(r)
    /\ UNCHANGED <<tableVars, engineVars>>

\* find_candidates and match_ride settle on the best driver, and the offer
\* is sent.
FindDriver(r) ==
    /\ task[r].at = "find"
    /\ \E d \in Candidates :
           task' = [task EXCEPT ![r].at = "commit", ![r].found = d]
    /\ UNCHANGED <<tableVars, engineVars>>

CommitMatch(r) ==
    /\ task[r].at = "commit"
    /\ CommitRow(r, task[r].copy, Matched(task[r].copy, task[r].found))
    /\ task' = [task EXCEPT ![r].at = "busy", ![r].copy = NoRow]
    /\ UNCHANGED engineVars

BusyAfterMatch(r) ==
    /\ task[r].at = "busy"
    /\ SetDriverBusy(task[r].found)
    /\ EndTask(r)
    /\ UNCHANGED tableVars

\* Nobody is found, or the task dies: the ride stays as it is.
MatchingFails(r) ==
    /\ task[r].at # "none"
    /\ EndTask(r)
    /\ UNCHANGED <<tableVars, engineVars>>

TaskStep(r) ==
    \/ LoadForMatching(r)
    \/ FindDriver(r)
    \/ CommitMatch(r)
    \/ BusyAfterMatch(r)
    \/ MatchingFails(r)
=============================================================================
