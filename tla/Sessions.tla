------------------------------ MODULE Sessions ------------------------------
(***************************************************************************)
(* How a request changes a row (db/database.py, SQLAlchemy's unit of work):*)
(* it loads a copy, decides on the copy, and later writes the columns it   *)
(* changed.  What other requests commit in between is neither seen nor,    *)
(* column by column, undone.                                               *)
(***************************************************************************)
CONSTANTS
    Requests,      \* requests that can be in progress at one time
    GetDbCommits   \* whether get_db commits for the handlers that only flush

ASSUME SessionsAssumption == GetDbCommits \in BOOLEAN

\* The row after a request that loaded copy and made it new has written it.
Merge(row, copy, new) ==
    [col \in DOMAIN row |-> IF new[col] = copy[col] THEN row[col] ELSE new[col]]

\* What is left of a handler's flushed write when its session is closed: all
\* of it in the tests, which share one session, nothing as deployed.
Flushed(old, new) == IF GetDbCommits THEN new ELSE old
=============================================================================
