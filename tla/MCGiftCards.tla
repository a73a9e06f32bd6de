----------------------------- MODULE MCGiftCards -----------------------------
(***************************************************************************)
(* Small tills for TLC: the operations each run lets happen.               *)
(***************************************************************************)
EXTENDS GiftCards, TLC

CONSTANTS c1, c2, o1, o2, r1, r2

\* Everything a salon does with cards and bills, the trash's restore aside.
TillOps == {"issue", "cashSale", "sale", "voidOrder", "removeOrder", "refund",
            "voidCard", "adjust"}
\* ... with the restore and restarts, when only the card matters.
CardOps == {"issue", "sale", "removeOrder", "restore", "voidCard", "adjust", "crash"}
\* The handlers of the counterexample.
DoubleVoidOps == {"issue", "sale", "voidOrder"}

Ids == Permutations(Cards) \cup Permutations(Orders) \cup Permutations(Requests)
=============================================================================
