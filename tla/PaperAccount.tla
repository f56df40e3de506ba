---------------------------- MODULE PaperAccount ----------------------------
(***************************************************************************)
(* What a simulated portfolio promises, whatever prices, halts and         *)
(* refusals do to it: a decision buys at most one lot, a lot is sold at    *)
(* most once, and money moves only with a lot.  One transaction may sell   *)
(* one lot and then buy another with the proceeds.                         *)
(***************************************************************************)
EXTENDS Integers

CONSTANTS Decision, Capital

VARIABLES cash, lot

NoLot == [state |-> "none", cost |-> 0, got |-> 0]

Init == cash = Capital /\ lot = [d \in Decision |-> NoLot]

Sold(l, d, v) == [l EXCEPT ![d] = [state |-> "closed", cost |-> l[d].cost, got |-> v]]
Bought(l, d, c) == [l EXCEPT ![d] = [state |-> "open", cost |-> c, got |-> 0]]

\* What a sale brings and a purchase costs is read off the lot it leaves.
Sell == \E d \in Decision :
    /\ lot[d].state = "open" /\ lot'[d].got \in Int
    /\ cash' = cash + lot'[d].got /\ cash' >= 0
    /\ lot' = Sold(lot, d, lot'[d].got)

Buy == \E d \in Decision :
    /\ lot[d].state = "none" /\ lot'[d].cost \in Nat
    /\ cash' = cash - lot'[d].cost /\ cash' >= 0
    /\ lot' = Bought(lot, d, lot'[d].cost)

SellThenBuy == \E d, e \in Decision :
    /\ lot[d].state = "open" /\ lot'[d].got \in Int
    /\ lot[e].state = "none" /\ lot'[e].cost \in Nat
    /\ cash' = cash + lot'[d].got - lot'[e].cost /\ cash' >= 0
    /\ lot' = Bought(Sold(lot, d, lot'[d].got), e, lot'[e].cost)

Next == Sell \/ Buy \/ SellThenBuy

Spec == Init /\ [][Next]_<<cash, lot>>
=============================================================================
