-------------------------------- MODULE Purse --------------------------------
(***************************************************************************)
(* What gift cards promise about money, with no handlers, statuses or      *)
(* ledgers.  A bill is paid by one card at most, once, and never with more *)
(* than is on the card; what goes back is what the bill took, all of it,   *)
(* to the card it came from.  Where Once holds it goes back a single time. *)
(* The card's own page puts a balance in place of another.                 *)
(***************************************************************************)
EXTENDS Integers

CONSTANTS Cards, Bills, Nobody,
          Amounts,  \* what a card may be sold for and a bill may take
          Once      \* whether a bill gives its money back at most once

VARIABLES sold,   \* the cards that were sold
          money,  \* card -> what is on it
          payer,  \* bill -> the card that paid for it, or Nobody
          took,   \* bill -> what it took from that card
          gave    \* bill -> what went back

vars == <<sold, money, payer, took, gave>>

Init == /\ sold = {}
        /\ money = [c \in Cards |-> 0]
        /\ payer = [b \in Bills |-> Nobody]
        /\ took = [b \in Bills |-> 0]
        /\ gave = [b \in Bills |-> 0]

Sell(c) ==
  /\ c \notin sold
  /\ sold' = sold \cup {c}
  /\ \E n \in Amounts : money' = [money EXCEPT ![c] = n]
  /\ UNCHANGED <<payer, took, gave>>

Spend(b, c) ==
  /\ payer[b] = Nobody /\ c \in sold
  /\ \E n \in Amounts :
       /\ n <= money[c]
       /\ money' = [money EXCEPT ![c] = @ - n]
       /\ took' = [took EXCEPT ![b] = n]
  /\ payer' = [payer EXCEPT ![b] = c]
  /\ UNCHANGED <<sold, gave>>

GiveBack(b, c) ==
  /\ payer[b] = c /\ took[b] > 0
  /\ Once => gave[b] = 0
  /\ money' = [money EXCEPT ![c] = @ + took[b]]
  /\ gave' = [gave EXCEPT ![b] = @ + took[b]]
  /\ UNCHANGED <<sold, payer, took>>

Correct(c) ==
  /\ c \in sold
  /\ \E n \in Amounts \cup {0} : money' = [money EXCEPT ![c] = n]
  /\ UNCHANGED <<sold, payer, took, gave>>

Next == \E c \in Cards : \/ Sell(c) \/ Correct(c)
                         \/ \E b \in Bills : Spend(b, c) \/ GiveBack(b, c)

Spec == Init /\ [][Next]_vars
=============================================================================
