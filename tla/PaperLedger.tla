---------------------------- MODULE PaperLedger ----------------------------
(***************************************************************************)
(* What one forward paper account promises, seen from its shares alone:    *)
(* a candidate's shares are bought up to one order's size, and nothing is  *)
(* ever sold that was not bought first.  ForwardPaper is the service that  *)
(* has to keep this promise through crashes, lost answers and races with   *)
(* the broker's own stop orders.                                           *)
(***************************************************************************)
EXTENDS Integers

CONSTANTS Cand,      \* strategy candidates, each with its own symbol
          MaxQty     \* the largest whole-share quantity one order may ask for

VARIABLES bought,    \* shares of a candidate the account ever bought
          sold       \* shares of a candidate the account ever sold

ledgerVars == <<bought, sold>>

LedgerInit == /\ bought = [c \in Cand |-> 0]
              /\ sold = [c \in Cand |-> 0]

\* More shares arrive, never beyond the size of a single order.
Buy(c) == \E n \in 1..(MaxQty - bought[c]) :
            /\ bought' = [bought EXCEPT ![c] = @ + n]
            /\ UNCHANGED sold

\* Shares leave, never more than are held.
Sell(c) == \E n \in 1..(bought[c] - sold[c]) :
             /\ sold' = [sold EXCEPT ![c] = @ + n]
             /\ UNCHANGED bought

LedgerNext == \E c \in Cand : Buy(c) \/ Sell(c)

LedgerSpec == LedgerInit /\ [][LedgerNext]_ledgerVars
=============================================================================
