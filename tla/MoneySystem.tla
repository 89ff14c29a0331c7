---------------------------- MODULE MoneySystem ----------------------------
(***************************************************************************)
(* All of the money: what riders pay (RideMoney) and what drivers are paid *)
(* (Payouts).  A payout adds up what the payments of its days left to the  *)
(* driver, and changes nothing about them, nor do they about payouts.      *)
(***************************************************************************)
EXTENDS RideMoney, Payouts

moneySystemVars == <<moneyVars, payoutVars>>

\* The types of the payments', splits' and payouts' variables: the tip of a
\* ride is one that was asked for, not the sum of two that overlap, and no
\* column gets a value it cannot hold (payments.py, fare_splitting.py,
\* payouts.py).
MoneySystemTypeOK == MoneyTypeOK /\ PayoutsTypeOK

MoneySystemInit == MoneyInit /\ PayoutsInit

MoneySystemNext ==
    \/ MoneyNext /\ UNCHANGED payoutVars
    \/ PayoutStep /\ UNCHANGED moneyVars

MoneySystemSpec ==
    MoneySystemInit /\ [][MoneySystemNext]_moneySystemVars
=============================================================================
