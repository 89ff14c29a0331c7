---------------------------- MODULE MCRideMoney ----------------------------
(***************************************************************************)
(* MoneySystem with the constants TLC needs.  Splits and payouts share     *)
(* nothing with the overlaps of payment requests but the rides, so "side"  *)
(* picks the part whose interleavings a behaviour explores, and the state  *)
(* space is a sum instead of a product.                                    *)
(*   payments  requests overlap; deliveries come one at a time and Stripe  *)
(*             never gets an answer.                                       *)
(*   events    deliveries overlap; requests come one at a time.            *)
(*   shares    one request and one delivery meet a split whose guest       *)
(*             accepts and pays, but does not decline.                     *)
(*   splits    the split's own requests.                                   *)
(*   payouts   two calls overlap; the second is about payout 1.            *)
(***************************************************************************)
EXTENDS MoneyInductive, MoneySystem, TLC

CONSTANTS c1, c2, b, u, v

VARIABLE side

allVars == <<moneySystemVars, side>>

SidesInit ==
    /\ MoneySystemInit
    /\ side \in {"payments", "events", "shares", "splits", "payouts"}

OneCall == \A c \in Calls \ {c1} : call'[c] = Idle
OneHook == (\A h \in Hooks \ {c1} : hook'[h] = Idle) /\ UNCHANGED acked

PaymentsSide == side = "payments" /\ Paying /\ OneHook
EventsSide   == side = "events" /\ Paying /\ OneCall

SplitsSide ==
    /\ side = "splits"
    /\ \/ Splitting
       \/ \E r \in Rides : RideEnds(r) /\ UNCHANGED splitVars

SharesSide ==
    /\ side = "shares"
    /\ Paying \/ Splitting
    /\ OneCall /\ OneHook
    /\ \A c \in Calls : call'[c].op # "tip"
    /\ \A c \in SplitCalls :
           \/ splitCall'[c].op \in {"idle", "accept"}
           \/ splitCall'[c].op = "pay" /\ splitCall'[c].place # b
           \/ /\ splitCall'[c].op = "create"
              /\ Made(splitCall'[c].ride) = {}
              /\ splitCall'[c].rows[v] = NoShare

PayoutsSide ==
    /\ side = "payouts"
    /\ PayoutStep /\ UNCHANGED moneyVars
    /\ \A p \in PayoutIds \ {1} : ~About(c2, p)'

SidesNext ==
    /\ \/ (PaymentsSide \/ EventsSide \/ SharesSide \/ SplitsSide) /\ UNCHANGED payoutVars
       \/ PayoutsSide
    /\ UNCHANGED side

SidesSpec ==
    /\ SidesInit
    /\ [][SidesNext]_allVars
    /\ HookFairness(c1)
=============================================================================
