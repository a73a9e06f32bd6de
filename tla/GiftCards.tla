------------------------------ MODULE GiftCards ------------------------------
(***************************************************************************)
(* Gift cards and the bills of the till that spend them.                   *)
(*                                                                         *)
(* Source: apps/api/src/gift-cards/gift-cards.service.ts, and createOrder, *)
(* voidOrder, refundOrder, removeOrder and recreditGiftCards of            *)
(* apps/api/src/pos/pos.service.ts; a deleted bill comes back through      *)
(* apps/api/src/maintenance/trash.controller.ts.                           *)
(*                                                                         *)
(* As in the appointment book, a handler reads before its transaction and  *)
(* writes in it: a Begin step and a commit step, everyone else in between. *)
(* A checkout has a third step, redeemInTx's own read of the card.         *)
(* Amounts are small numbers of cents.                                     *)
(***************************************************************************)
EXTENDS Integers, FiniteSets

CONSTANTS Cards,     \* gift cards of one salon
          Orders,    \* bills
          Requests,  \* handlers in flight at once
          None,      \* SQL NULL
          Cap,       \* most cents an amount may have (bound)
          Ops        \* the operations a run lets happen

ASSUME CardsAssumption == None \notin Cards
ASSUME CapAssumption   == Cap \in Nat \ {0}

VARIABLES card,    \* giftCard rows
          posted,  \* sum of each card's giftCardTransaction rows
          order,   \* order rows, with the money rows that name them
          bin,     \* trashItem rows of each bill: what its deletion kept
          req,     \* the local state of each request
          stale    \* history: cards written from a balance that had moved on

vars == <<card, posted, order, bin, req, stale>>

-----------------------------------------------------------------------------
CardOrNone == Cards \cup {None}

CardRow == [status : {"none", "ACTIVE", "REDEEMED", "VOID"}, balance : Int]

\* redeemed: the bill's REDEEM row; returned: its ADJUST rows; in, back: its PAID
\* payment rows above and below zero; refunded: its OrderRefund rows; taken:
\* what the customer paid besides the card.
OrderRow == [status : {"none", "PAID", "VOID", "REFUNDED", "deleted"},
             card : CardOrNone, redeemed : Nat, returned : Nat,
             in : Nat, back : Nat, refunded : Nat, taken : Nat]

Snapshot == [status : {"PAID", "VOID", "REFUNDED"}, in : Nat, back : Nat, refunded : Nat]

NothingKept == [status |-> "none", in |-> 0, back |-> 0, refunded |-> 0]

LocalRecord ==
  [pc      : {"idle", "till", "redeem", "void", "remove", "refund", "voidCard", "adjust"},
   order   : Orders \cup {None},
   card    : CardOrNone,
   total   : Int,      \* a bill's total
   amount  : Int,      \* what this handler moves
   balance : Int,      \* the balance it read, or means to write
   last    : BOOLEAN,  \* willBeZero of a checkout, "full" of a refund
   kept    : Snapshot \cup {NothingKept}]

\* What each point of a handler has at hand.
WellFormed(q) ==
  /\ q.pc \in {"till", "redeem", "voidCard", "adjust"} => q.card \in Cards
  /\ q.pc \in {"till", "redeem", "void", "remove", "refund"} => q.order \in Orders
  /\ q.pc \in {"till", "redeem"} => q.amount \in Nat /\ q.total - q.amount \in Nat
  /\ q.pc = "refund" => q.amount \in Nat
  /\ q.pc = "remove" => q.kept \in Snapshot
  /\ q.pc = "adjust" => q.balance \in Nat

Local == {q \in LocalRecord : WellFormed(q)}

Job(pc, o, c, total, amount, balance, last) ==
  [pc |-> pc, order |-> o, card |-> c, total |-> total, amount |-> amount,
   balance |-> balance, last |-> last, kept |-> NothingKept]

Idle == Job("idle", None, None, 0, 0, 0, FALSE)

Least(a, b) == IF a <= b THEN a ELSE b
InTable(o)  == order[o].status \notin {"none", "deleted"}

Begin(r, q) == req[r] = Idle /\ req' = [req EXCEPT ![r] = q]
Done(r)     == req' = [req EXCEPT ![r] = Idle]

Init ==
  /\ card = [c \in Cards |-> [status |-> "none", balance |-> 0]]
  /\ posted = [c \in Cards |-> 0]
  /\ order = [o \in Orders |-> [status |-> "none", card |-> None, redeemed |-> 0, returned |-> 0,
                                in |-> 0, back |-> 0, refunded |-> 0, taken |-> 0]]
  /\ bin = [o \in Orders |-> {}]
  /\ req = [r \in Requests |-> Idle]
  /\ stale = {}

-----------------------------------------------------------------------------
\* issue: the card and its ISSUE row, in one transaction.
Issue(c) ==
  /\ "issue" \in Ops
  /\ card[c].status = "none"
  /\ \E amount \in 1 .. Cap :
       /\ card' = [card EXCEPT ![c] = [status |-> "ACTIVE", balance |-> amount]]
       /\ posted' = [posted EXCEPT ![c] = amount]
  /\ UNCHANGED <<order, bin, req, stale>>

\* A paid bill that spends "gift" cents of card c.
PaidOrder(c, gift, total) ==
  [status |-> "PAID", card |-> c, redeemed |-> gift, returned |-> 0,
   in |-> total - gift, back |-> 0, refunded |-> 0, taken |-> total - gift]

\* createOrder without a gift card.
CashSale(o) ==
  /\ "cashSale" \in Ops
  /\ order[o].status = "none" /\ \A r \in Requests : req[r].order # o
  /\ \E total \in 1 .. Cap : order' = [order EXCEPT ![o] = PaidOrder(None, 0, total)]
  /\ UNCHANGED <<card, posted, bin, req, stale>>

\* createOrder up to its transaction: redeemableBalance sizes what the card pays,
\* the tenders cover the rest.
BeginSale(r) ==
  \E o \in Orders, c \in Cards, total \in 1 .. Cap :
     /\ "sale" \in Ops
     /\ order[o].status = "none" /\ \A q \in Requests : req[q].order # o
     /\ card[c].status = "ACTIVE" /\ card[c].balance > 0
     /\ Begin(r, Job("till", o, c, total, Least(card[c].balance, total), 0, FALSE))
     /\ UNCHANGED <<card, posted, order, bin, stale>>

\* redeemInTx reads the card again; with less on it than was promised the sale
\* is rolled back.
SaleReads(r) ==
  LET q == req[r]  row == card[q.card] IN
  /\ q.pc = "till"
  /\ IF row.status = "ACTIVE" /\ row.balance >= q.amount
     THEN req' = [req EXCEPT ![r] = [q EXCEPT !.pc = "redeem",
                                              !.last = (row.balance = q.amount)]]
     ELSE Done(r)
  /\ UNCHANGED <<card, posted, order, bin, stale>>

\* Mutant: the decrement is not conditional on the balance.
RedeemsBlindly(row, amount) == row.status = "ACTIVE"

\* updateMany({ where: { status: 'ACTIVE', balanceCents: { gte: applied } } })
MayRedeem(row, amount) == row.status = "ACTIVE" /\ row.balance >= amount

\* The conditional decrement, and the rest of the sale with it.
Redeem(r) ==
  LET q == req[r]  c == q.card IN
  /\ q.pc = "redeem"
  /\ IF MayRedeem(card[c], q.amount)
     THEN /\ card' = [card EXCEPT ![c] = [status |-> IF q.last THEN "REDEEMED" ELSE "ACTIVE",
                                          balance |-> @.balance - q.amount]]
          /\ posted' = [posted EXCEPT ![c] = @ - q.amount]
          /\ order' = [order EXCEPT ![q.order] = PaidOrder(c, q.amount, q.total)]
     ELSE UNCHANGED <<card, posted, order>>
  /\ Done(r)
  /\ UNCHANGED <<bin, stale>>

-----------------------------------------------------------------------------
\* Bills taken back.

\* Mutant: the money goes back on the card, the ledger row is forgotten.
RecreditUnposted(o, row) ==
  LET c == order[o].card  credit == order[o].redeemed IN
  IF credit > 0
  THEN /\ card' = [card EXCEPT ![c] = [status |-> "ACTIVE", balance |-> @.balance + credit]]
       /\ UNCHANGED posted
       /\ order' = [order EXCEPT ![o] = [row EXCEPT !.returned = @ + credit]]
  ELSE /\ UNCHANGED <<card, posted>>
       /\ order' = [order EXCEPT ![o] = row]

\* recreditGiftCards: what the bill's REDEEM row took goes back on the card, and
\* the bill's own row is replaced by "row".
Recredit(o, row) ==
  LET c == order[o].card  credit == order[o].redeemed IN
  IF credit > 0
  THEN /\ card' = [card EXCEPT ![c] = [status |-> "ACTIVE", balance |-> @.balance + credit]]
       /\ posted' = [posted EXCEPT ![c] = @ + credit]
       /\ order' = [order EXCEPT ![o] = [row EXCEPT !.returned = @ + credit]]
  ELSE /\ UNCHANGED <<card, posted>>
       /\ order' = [order EXCEPT ![o] = row]

\* updateMany({ where: { id }, data: { status } }) and the payment rows marked
\* REFUNDED: a deleted bill stays deleted.
OffTheBooksAs(o, status) ==
  [order[o] EXCEPT !.status = IF InTable(o) THEN status ELSE @, !.in = 0, !.back = 0]

\* Mutant: a refunded bill may still be voided.
MayVoidRefunded(row) == row.status \in {"PAID", "REFUNDED"} /\ row.back = 0

\* voidOrder's reads and early returns.
MayVoid(row) == row.status = "PAID" /\ row.back = 0

BeginVoid(r) ==
  \E o \in Orders :
     /\ "voidOrder" \in Ops
     /\ MayVoid(order[o])
     /\ Begin(r, Job("void", o, None, 0, 0, 0, FALSE))
     /\ UNCHANGED <<card, posted, order, bin, stale>>

CommitVoid(r) ==
  LET o == req[r].order IN
  /\ req[r].pc = "void"
  /\ Recredit(o, OffTheBooksAs(o, "VOID"))
  /\ Done(r)
  /\ UNCHANGED <<bin, stale>>

\* removeOrder by the owner: any bill, with a snapshot for the trash.
BeginRemove(r) ==
  \E o \in Orders :
     LET row == order[o] IN
     /\ "removeOrder" \in Ops
     /\ InTable(o)
     /\ Begin(r, [Job("remove", o, None, 0, 0, 0, FALSE) EXCEPT
                    !.kept = [status |-> row.status, in |-> row.in, back |-> row.back,
                              refunded |-> row.refunded]])
     /\ UNCHANGED <<card, posted, order, bin, stale>>

\* A bill read as PAID gives its card's money back; the payment rows go, the
\* refund rows too if there were any when the handler looked.
CommitRemove(r) ==
  LET q == req[r]  o == q.order
      row == [order[o] EXCEPT !.status = "deleted", !.in = 0, !.back = 0,
                              !.refunded = IF q.kept.refunded > 0 THEN 0 ELSE @]
  IN
  /\ q.pc = "remove"
  /\ bin' = [bin EXCEPT ![o] = @ \cup {q.kept}]
  /\ IF q.kept.status = "PAID"
     THEN Recredit(o, row)
     ELSE order' = [order EXCEPT ![o] = row] /\ UNCHANGED <<card, posted>>
  /\ Done(r)
  /\ UNCHANGED stale

\* Mutant: what already went back is not counted.
CollectedGross(row) == row.in

\* What refundOrder finds still to give back.
Collected(row) == row.in - row.back

BeginRefund(r) ==
  \E o \in Orders, amount \in 1 .. Cap :
     /\ "refund" \in Ops
     /\ order[o].status = "PAID"
     /\ amount <= Collected(order[o])
     /\ Begin(r, Job("refund", o, None, 0, amount, 0,
                     amount = Collected(order[o]) /\ order[o].back = 0))
     /\ UNCHANGED <<card, posted, order, bin, stale>>

\* Mutant: a part refund puts the card's money back, too.
RefundAlwaysRecredits(r) ==
  LET q == req[r]  o == q.order IN
  /\ q.pc = "refund"
  /\ Recredit(o, IF q.last
                 THEN [OffTheBooksAs(o, "REFUNDED") EXCEPT !.refunded = @ + q.amount]
                 ELSE [order[o] EXCEPT !.back = @ + q.amount, !.refunded = @ + q.amount])
  /\ Done(r)
  /\ UNCHANGED <<bin, stale>>

\* All of it: off the books, and the card's money goes back.  Part of it: one
\* negative payment row.  Either way an OrderRefund row.
CommitRefund(r) ==
  LET q == req[r]  o == q.order IN
  /\ q.pc = "refund"
  /\ IF q.last
     THEN Recredit(o, [OffTheBooksAs(o, "REFUNDED") EXCEPT !.refunded = @ + q.amount])
     ELSE /\ order' = [order EXCEPT ![o].back = @ + q.amount, ![o].refunded = @ + q.amount]
          /\ UNCHANGED <<card, posted>>
  /\ Done(r)
  /\ UNCHANGED <<bin, stale>>

\* TrashController.restore of a bill: the header as it was, its payments and refunds
\* beside any written since; nothing is done to the card.  (Bound: until Cap cents
\* came back.)
Restore(o) ==
  \E s \in bin[o] :
     /\ "restore" \in Ops
     /\ order[o].status = "deleted" /\ order[o].returned <= Cap
     /\ order' = [order EXCEPT ![o].status = s.status, ![o].in = @ + s.in,
                               ![o].back = @ + s.back, ![o].refunded = @ + s.refunded]
     /\ bin' = [bin EXCEPT ![o] = @ \ {s}]
     /\ UNCHANGED <<card, posted, req, stale>>

-----------------------------------------------------------------------------
\* The card's own page.

\* void: reads the card outside the transaction.
BeginVoidCard(r) ==
  \E c \in Cards :
     /\ "voidCard" \in Ops
     /\ card[c].status \notin {"none", "VOID"}
     /\ Begin(r, Job("voidCard", None, c, 0, 0, card[c].balance, FALSE))
     /\ UNCHANGED <<card, posted, order, bin, stale>>

\* History: the balance of card c is not the one the handler read.
MarkStale(c, read) == stale' = IF card[c].balance = read THEN stale ELSE stale \cup {c}

\* The balance becomes zero; the ledger row is minus the balance that was read.
CommitVoidCard(r) ==
  LET q == req[r]  c == q.card IN
  /\ q.pc = "voidCard"
  /\ card' = [card EXCEPT ![c] = [status |-> "VOID", balance |-> 0]]
  /\ posted' = [posted EXCEPT ![c] = @ - q.balance]
  /\ MarkStale(c, q.balance)
  /\ Done(r)
  /\ UNCHANGED <<order, bin>>

\* Mutant: the new balance is not compared with zero.
MayOverdraw(c, delta) ==
  /\ card[c].status \notin {"none", "VOID"}
  /\ card[c].balance + delta \in -Cap .. Cap
  /\ posted[c] + delta \in -Cap .. Cap

\* adjust's guards.  (Bound: neither the balance nor the ledger leaves -Cap .. Cap.)
MayAdjust(c, delta) ==
  /\ card[c].status \notin {"none", "VOID"}
  /\ card[c].balance + delta \in 0 .. Cap
  /\ posted[c] + delta \in -Cap .. Cap

BeginAdjust(r) ==
  \E c \in Cards, delta \in (-Cap .. Cap) \ {0} :
     /\ "adjust" \in Ops
     /\ MayAdjust(c, delta)
     /\ Begin(r, Job("adjust", None, c, 0, delta, card[c].balance + delta, FALSE))
     /\ UNCHANGED <<card, posted, order, bin, stale>>

\* What a balance makes of a card.
StatusOf(balance) == IF balance <= 0 THEN "REDEEMED" ELSE "ACTIVE"

\* The balance becomes the sum computed before; the ledger row is the change.
CommitAdjust(r) ==
  LET q == req[r]  c == q.card IN
  /\ q.pc = "adjust"
  /\ card' = [card EXCEPT ![c] = [status |-> StatusOf(q.balance), balance |-> q.balance]]
  /\ posted' = [posted EXCEPT ![c] = @ + q.amount]
  /\ MarkStale(c, q.balance - q.amount)
  /\ Done(r)
  /\ UNCHANGED <<order, bin>>

\* The process restarts, or a transaction is rolled back.
Abandon(r) ==
  /\ "crash" \in Ops
  /\ req[r] # Idle
  /\ Done(r)
  /\ UNCHANGED <<card, posted, order, bin, stale>>

Next ==
  \/ \E c \in Cards : Issue(c)
  \/ \E o \in Orders : CashSale(o) \/ Restore(o)
  \/ \E r \in Requests :
       \/ BeginSale(r) \/ SaleReads(r) \/ Redeem(r)
       \/ BeginVoid(r) \/ CommitVoid(r)
       \/ BeginRemove(r) \/ CommitRemove(r)
       \/ BeginRefund(r) \/ CommitRefund(r)
       \/ BeginVoidCard(r) \/ CommitVoidCard(r)
       \/ BeginAdjust(r) \/ CommitAdjust(r)
       \/ Abandon(r)

Spec == Init /\ [][Next]_vars

-----------------------------------------------------------------------------
RowsOK == /\ card \in [Cards -> CardRow]
          /\ posted \in [Cards -> Int]
          /\ order \in [Orders -> OrderRow]
          /\ \A o \in Orders : order[o].redeemed > 0 => order[o].card \in Cards
          /\ bin \in [Orders -> SUBSET Snapshot]
          /\ stale \subseteq Cards

\* Every field keeps its type, and a handler past its reads has the card, the bill
\* and the amounts its transaction writes.
TypeOK == /\ RowsOK
          /\ req \in [Requests -> Local]

\* A card is never overdrawn, and its balance is the sum of its ledger unless a
\* void or an adjustment was computed from a balance that had moved on: checkouts
\* and their reversals, however they interleave, never lose or make money.
CardsKeepTheirMoney ==
  \A c \in Cards : /\ card[c].balance >= 0
                   /\ card[c].balance # posted[c] => c \in stale

\* The balance is the sum of the ledger ("a full audit trail"), and a card can be used
\* exactly while there is money on it.
CardsAddUp ==
  \A c \in Cards : /\ card[c].balance = posted[c]
                   /\ card[c].balance > 0 <=> card[c].status = "ACTIVE"

\* A bill gives its card back what it took, once, whatever is done to the bill.
ReturnedOnce == \A o \in Orders : order[o].returned <= order[o].redeemed

\* While a bill counts as paid, the card's part of it has not gone back.
PaidBillKeepsCardMoney ==
  \A o \in Orders : order[o].status = "PAID" => order[o].returned = 0

\* A bill never gives back more money than it took.
NeverRefundsMoreThanTaken ==
  \A o \in Orders : order[o].refunded <= order[o].taken

-----------------------------------------------------------------------------
\* One handler is in flight at a time.
OneHandler == \A a, b \in Requests : a = b

\* What the rows are worth to a customer: the cards sold, what is on each, and what
\* each bill took from which card and gave back.
SoldCards  == {c \in Cards : card[c].status # "none"}
MoneyOn    == [c \in Cards |-> card[c].balance]
PaidBy     == [o \in Orders |-> order[o].card]
TakenOf    == [o \in Orders |-> order[o].redeemed]
ReturnedOf == [o \in Orders |-> order[o].returned]

Money == INSTANCE Purse WITH Bills <- Orders, Nobody <- None, Amounts <- 1 .. Cap,
                             Once <- OneHandler /\ "restore" \notin Ops,
                             sold <- SoldCards, money <- MoneyOn, payer <- PaidBy,
                             took <- TakenOf, gave <- ReturnedOf

\* The handlers implement the purse: whatever overlaps, a step of the till takes
\* from one card what is on it, for a bill no card has paid yet, or gives a bill's
\* money back, whole and to the card it came from; with one handler and no bill
\* from the trash, only once.
PurseSpec == Money!Spec
=============================================================================
