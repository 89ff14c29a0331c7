------------------------------ MODULE Payouts ------------------------------
(***************************************************************************)
(* services/payouts.py and its endpoints: a driver's bank account, the     *)
(* payouts for periods of days, and the Stripe transfers they cause.       *)
(*                                                                         *)
(* One driver: payouts of different drivers share nothing.  An admin's     *)
(* call loads, decides, talks to Stripe and commits; other calls may run   *)
(* in between and it may die.  Stripe may refuse a transfer, or make it    *)
(* and have its answer lost, which the client reports as StripeError too.  *)
(* Frequencies, notes and amounts are left out.                            *)
(***************************************************************************)
EXTENDS Integers, FiniteSets

CONSTANTS PayoutIds,          \* the ids of payouts
          Days,               \* 1 .. Days are the days of the calendar
          AdminCalls,         \* slots for concurrent calls about payouts
          MaxTransfers,       \* bound: transfers Stripe makes for a payout
          AccountEventsRouted \* the webhook hands account.updated on

ASSUME PayoutsAssumption ==
    /\ {Days, MaxTransfers} \subseteq Nat
    /\ AccountEventsRouted \in BOOLEAN

VARIABLES account,    \* the row of driver_bank_accounts
          payout,     \* payout[p]: the row of driver_payouts
          admin,      \* admin[c]: the call in slot c
          transfers,  \* transfers[p]: transfers Stripe has made for p
          lost,       \* lost[p]: those of them whose answer was lost
          doubled     \* history: payouts that two calls were about at once

payoutVars == <<account, payout, admin, transfers, lost, doubled>>

Account == [status : {"none", "pending", "requires_info", "active"},
            isActive : BOOLEAN]

PayoutStates == {"none", "pending", "processing", "completed", "failed"}

Period == {x \in (1 .. Days) \X (1 .. Days) : x[1] <= x[2]}

Payout == [status : PayoutStates, period : Period \union {<<>>}]

NoPayout == [status |-> "none", period |-> <<>>]

Free == [op |-> "free"]

AdminCall ==
    [op : {"create"}, period : Period]
    \union [op : {"process", "refuse", "start", "transfer", "completed",
                  "failed", "retry"}, payout : PayoutIds]

PayoutsTypeOK ==
    /\ account \in Account
    /\ payout \in [PayoutIds -> Payout]
    /\ admin \in [AdminCalls -> AdminCall \union {Free}]
    /\ transfers \in [PayoutIds -> 0 .. MaxTransfers]
    /\ lost \in [PayoutIds -> 0 .. MaxTransfers]
    /\ doubled \subseteq PayoutIds

PayoutsInit ==
    /\ account = [status |-> "none", isActive |-> FALSE]
    /\ payout = [p \in PayoutIds |-> NoPayout]
    /\ admin = [c \in AdminCalls |-> Free]
    /\ transfers = [p \in PayoutIds |-> 0]
    /\ lost = [p \in PayoutIds |-> 0]
    /\ doubled = {}

-----------------------------------------------------------------------------
(***************************************************************************)
(* The bank account.                                                       *)
(***************************************************************************)
\* create_connect_account.
SetupAccount ==
    /\ ~account.isActive
    /\ account' = [status |-> "pending", isActive |-> TRUE]
    /\ UNCHANGED <<payout, admin, transfers, lost, doubled>>

\* handle_connect_account_updated.
AccountUpdated ==
    /\ AccountEventsRouted
    /\ account.status # "none"
    /\ \E status \in {"pending", "requires_info", "active"} :
           account' = [account EXCEPT !.status = status]
    /\ UNCHANGED <<payout, admin, transfers, lost, doubled>>

\* deactivate_bank_account.
DeactivateAccount ==
    /\ account.isActive
    /\ account' = [account EXCEPT !.isActive = FALSE]
    /\ UNCHANGED <<payout, admin, transfers, lost, doubled>>

-----------------------------------------------------------------------------
(***************************************************************************)
(* Payouts.                                                                *)
(***************************************************************************)
Enter(c, record) == admin[c] = Free /\ admin' = [admin EXCEPT ![c] = record]
Goto(c, op)      == admin' = [admin EXCEPT ![c].op = op]
Leave(c)         == admin' = [admin EXCEPT ![c] = Free]

Doing(c, op) == admin[c].op = op

\* The call in slot c processes or retries p.
About(c, p) == admin[c].op \notin {"free", "create"} /\ admin[c].payout = p

Take(c, op, p) ==
    /\ Enter(c, [op |-> op, payout |-> p])
    /\ doubled' = doubled \union {o \in {p} : \E d \in AdminCalls : About(d, o)}
    /\ UNCHANGED <<account, payout, transfers, lost>>

Overlap(a, b) == a[1] <= b[2] /\ b[1] <= a[2]

Live == {p \in PayoutIds : payout[p].status \in
                               {"pending", "processing", "completed"}}

OverlapsLive(period) == \E p \in Live : Overlap(payout[p].period, period)

\* create_payout, and bulk_create_payouts for each driver: an active account
\* and no overlapping payout; something was earned.
LoadCreatePayout(c, period) ==
    /\ account.isActive /\ account.status = "active"
    /\ ~OverlapsLive(period)
    /\ Enter(c, [op |-> "create", period |-> period])
    /\ UNCHANGED <<account, payout, transfers, lost, doubled>>

InsertPayout(c) ==
    /\ Doing(c, "create")
    /\ \E p \in PayoutIds :
           /\ payout[p] = NoPayout
           /\ payout' = [payout EXCEPT ![p] =
                  [status |-> "pending", period |-> admin[c].period]]
    /\ Leave(c)
    /\ UNCHANGED <<account, transfers, lost, doubled>>

\* process_payout.
LoadProcess(c, p) ==
    /\ payout[p].status = "pending"
    /\ Take(c, "process", p)

\* Where a status is committed, it replaces whatever the row holds by then.
CommitStatus(c, status) ==
    payout' = [payout EXCEPT ![admin[c].payout].status = status]

LoadAccount(c) ==
    /\ Doing(c, "process")
    /\ Goto(c, IF account.isActive THEN "start" ELSE "refuse")
    /\ UNCHANGED <<account, payout, transfers, lost, doubled>>

RefusePayout(c) ==
    /\ Doing(c, "refuse")
    /\ CommitStatus(c, "failed")
    /\ Leave(c)
    /\ UNCHANGED <<account, transfers, lost, doubled>>

StartTransfer(c) ==
    /\ Doing(c, "start")
    /\ CommitStatus(c, "processing")
    /\ Goto(c, "transfer")
    /\ UNCHANGED <<account, transfers, lost, doubled>>

\* Transfer.create answers, ...
TransferMade(c) ==
    /\ Doing(c, "transfer")
    /\ transfers[admin[c].payout] < MaxTransfers
    /\ transfers' = [transfers EXCEPT ![admin[c].payout] = @ + 1]
    /\ Goto(c, "completed")
    /\ UNCHANGED <<account, payout, lost, doubled>>

\* ... or makes the transfer and the answer is lost, ...
TransferUnanswered(c) ==
    /\ Doing(c, "transfer")
    /\ transfers[admin[c].payout] < MaxTransfers
    /\ transfers' = [transfers EXCEPT ![admin[c].payout] = @ + 1]
    /\ lost' = [lost EXCEPT ![admin[c].payout] = @ + 1]
    /\ Goto(c, "failed")
    /\ UNCHANGED <<account, payout, doubled>>

\* Mutant: the refusal is swallowed.
TransferRefusedUnseen(c) ==
    /\ Doing(c, "transfer")
    /\ Goto(c, "completed")
    /\ UNCHANGED <<account, payout, transfers, lost, doubled>>

\* ... or refuses.
TransferRefused(c) ==
    /\ Doing(c, "transfer")
    /\ Goto(c, "failed")
    /\ UNCHANGED <<account, payout, transfers, lost, doubled>>

CommitOutcome(c) ==
    /\ \/ Doing(c, "completed") /\ CommitStatus(c, "completed")
       \/ Doing(c, "failed") /\ CommitStatus(c, "failed")
    /\ Leave(c)
    /\ UNCHANGED <<account, transfers, lost, doubled>>

\* Mutant: a payout that was left in PROCESSING can be retried, too.
LoadRetryStranded(c, p) ==
    /\ payout[p].status \in {"failed", "processing"}
    /\ Take(c, "retry", p)

\* retry_failed_payout.
LoadRetry(c, p) ==
    /\ payout[p].status = "failed"
    /\ Take(c, "retry", p)

CommitRetry(c) ==
    /\ Doing(c, "retry")
    /\ CommitStatus(c, "pending")
    /\ Leave(c)
    /\ UNCHANGED <<account, transfers, lost, doubled>>

AdminCallDies(c) ==
    /\ admin[c] # Free
    /\ Leave(c)
    /\ UNCHANGED <<account, payout, transfers, lost, doubled>>

AdminStep(c) ==
    \/ \E period \in Period : LoadCreatePayout(c, period)
    \/ InsertPayout(c)
    \/ \E p \in PayoutIds : LoadProcess(c, p) \/ LoadRetry(c, p)
    \/ LoadAccount(c)
    \/ RefusePayout(c)
    \/ StartTransfer(c)
    \/ TransferMade(c)
    \/ TransferUnanswered(c)
    \/ TransferRefused(c)
    \/ CommitOutcome(c)
    \/ CommitRetry(c)
    \/ AdminCallDies(c)

PayoutStep ==
    \/ SetupAccount
    \/ AccountUpdated
    \/ DeactivateAccount
    \/ \E c \in AdminCalls : AdminStep(c)

PayoutSpec == PayoutsInit /\ [][PayoutStep]_payoutVars

-----------------------------------------------------------------------------
\* A payout is COMPLETED only when Stripe transferred the money, however many
\* processes, retries and deaths overlap (process_payout).
CompletedWasTransferred ==
    \A p \in PayoutIds :
        payout[p].status = "completed" => transfers[p] > lost[p]

\* The status of a payout that no two calls were about at once tells how often
\* its money moved, apart from transfers whose answer was lost: once when it is
\* COMPLETED, never when it waits or has FAILED; PROCESSING leaves it open,
\* which is what a death after the transfer leaves behind.  Calls about other
\* payouts may overlap (process_payout, retry_failed_payout).
StatusTellsTransfers ==
    \A p \in PayoutIds \ doubled :
        CASE payout[p].status = "completed"  -> transfers[p] = lost[p] + 1
          [] payout[p].status = "processing" -> transfers[p] \in
                                                    {lost[p], lost[p] + 1}
          [] OTHER                           -> transfers[p] = lost[p]
=============================================================================
