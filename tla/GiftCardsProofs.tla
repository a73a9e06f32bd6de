--------------------------- MODULE GiftCardsProofs ---------------------------
(***************************************************************************)
(* Proofs about GiftCards for any salon: any cards, bills, amounts and     *)
(* number of requests in flight; the sums and what a bill gives back, for  *)
(* one handler at a time; and that the till implements the purse.          *)
(***************************************************************************)
EXTENDS GiftCards, TLAPS

-----------------------------------------------------------------------------
(* Types of what the actions build.                                        *)

LEMMA JobLocal ==
  ASSUME NEW pc \in {"idle", "till", "redeem", "void", "refund", "voidCard", "adjust"},
         NEW o \in Orders \cup {None}, NEW c \in CardOrNone,
         NEW total \in Int, NEW amount \in Int, NEW balance \in Int, NEW last \in BOOLEAN,
         pc \in {"till", "redeem", "voidCard", "adjust"} => c \in Cards,
         pc \in {"till", "redeem", "void", "refund"} => o \in Orders,
         pc \in {"till", "redeem"} => amount \in Nat /\ total - amount \in Nat,
         pc = "refund" => amount \in Nat,
         pc = "adjust" => balance \in Nat
  PROVE  Job(pc, o, c, total, amount, balance, last) \in Local
BY DEF Job, Local, LocalRecord, WellFormed

LEMMA IdleLocal == Idle \in Local
BY DEF Idle, Job, Local, LocalRecord, WellFormed, CardOrNone

LEMMA RemoveJobLocal ==
  ASSUME NEW o \in Orders, NEW kept \in Snapshot
  PROVE  [Job("remove", o, None, 0, 0, 0, FALSE) EXCEPT !.kept = kept] \in Local
<1> DEFINE j == Job("remove", o, None, 0, 0, 0, FALSE)
           q == [j EXCEPT !.kept = kept]
<1>1. j \in LocalRecord /\ j.pc = "remove" /\ j.order = o
  BY DEF Job, LocalRecord, CardOrNone
<1> HIDE DEF j
<1>2. q \in LocalRecord /\ q.pc = "remove" /\ q.order = o /\ q.kept = kept
  BY <1>1 DEF LocalRecord
<1> HIDE DEF q
<1>3. WellFormed(q)
  BY <1>2 DEF WellFormed
<1>4. q \in Local
  BY <1>2, <1>3 DEF Local
<1> QED
  BY <1>4 DEF j, q

LEMMA BeginType ==
  ASSUME req \in [Requests -> Local], NEW r \in Requests, NEW q \in Local, Begin(r, q)
  PROVE  req' \in [Requests -> Local]
BY DEF Begin

LEMMA DoneType ==
  ASSUME req \in [Requests -> Local], NEW r \in Requests, Done(r)
  PROVE  req' \in [Requests -> Local]
BY IdleLocal DEF Done

LEMMA LocalFields ==
  ASSUME NEW q \in Local
  PROVE  /\ q.order \in Orders \cup {None} /\ q.card \in CardOrNone
         /\ q.total \in Int /\ q.amount \in Int /\ q.balance \in Int /\ q.last \in BOOLEAN
         /\ WellFormed(q)
BY DEF Local, LocalRecord

LEMMA PaidOrderType ==
  ASSUME NEW c \in CardOrNone, NEW gift \in Nat, NEW total \in Int, total - gift \in Nat
  PROVE  /\ PaidOrder(c, gift, total) \in OrderRow
         /\ PaidOrder(c, gift, total).redeemed = gift
         /\ PaidOrder(c, gift, total).card = c
         /\ PaidOrder(c, gift, total).returned = 0
BY DEF PaidOrder, OrderRow

\* A bill may be rewritten in any way that leaves its REDEEM row alone.
LEMMA RecreditType ==
  ASSUME RowsOK, NEW o \in Orders, NEW row \in OrderRow,
         row.redeemed = order[o].redeemed, row.card = order[o].card,
         Recredit(o, row)
  PROVE  /\ card' \in [Cards -> CardRow]
         /\ posted' \in [Cards -> Int]
         /\ order' \in [Orders -> OrderRow]
         /\ \A x \in Orders : order'[x].redeemed > 0 => order'[x].card \in Cards
<1> DEFINE c == order[o].card
           credit == order[o].redeemed
<1>1. credit \in Nat /\ row.returned \in Nat
  BY DEF RowsOK, OrderRow
<1>2. CASE credit > 0
  <2>1. c \in Cards
    BY <1>2 DEF RowsOK
  <2>2. card[c].balance + credit \in Int /\ posted[c] + credit \in Int
    BY <1>1, <2>1 DEF RowsOK, CardRow
  <2>3. card' = [card EXCEPT ![c] = [status |-> "ACTIVE", balance |-> card[c].balance + credit]]
        /\ posted' = [posted EXCEPT ![c] = posted[c] + credit]
        /\ order' = [order EXCEPT ![o] = [row EXCEPT !.returned = row.returned + credit]]
    BY <1>2, <2>1 DEF Recredit, RowsOK
  <2>4. [row EXCEPT !.returned = row.returned + credit] \in OrderRow
    BY <1>1 DEF OrderRow
  <2>5. [status |-> "ACTIVE", balance |-> card[c].balance + credit] \in CardRow
    BY <2>2 DEF CardRow
  <2>6. \A x \in Orders : order'[x].redeemed > 0 => order'[x].card \in Cards
    BY <2>1, <2>3 DEF RowsOK, OrderRow
  <2> QED
    BY <2>2, <2>3, <2>4, <2>5, <2>6 DEF RowsOK
<1>3. CASE ~(credit > 0)
  BY <1>3 DEF Recredit, RowsOK
<1> QED
  BY <1>2, <1>3

LEMMA OffTheBooksType ==
  ASSUME RowsOK, NEW o \in Orders, NEW status \in {"VOID", "REFUNDED"}
  PROVE  /\ OffTheBooksAs(o, status) \in OrderRow
         /\ OffTheBooksAs(o, status).redeemed = order[o].redeemed
         /\ OffTheBooksAs(o, status).card = order[o].card
         /\ OffTheBooksAs(o, status).status # "PAID"
         /\ OffTheBooksAs(o, status).refunded = order[o].refunded
BY DEF OffTheBooksAs, RowsOK, OrderRow, InTable

-----------------------------------------------------------------------------
(* Type correctness, one lemma per group of actions.                       *)

LEMMA TypeInit == Init => TypeOK
<1> SUFFICES ASSUME Init PROVE TypeOK
  OBVIOUS
<1>1. req \in [Requests -> Local]
  BY IdleLocal DEF Init
<1>2. RowsOK
  BY DEF Init, RowsOK, CardRow, OrderRow, CardOrNone
<1> QED
  BY <1>1, <1>2 DEF TypeOK

LEMMA TypeCardSteps ==
  ASSUME TypeOK, NEW c \in Cards, Issue(c)
  PROVE  TypeOK'
<1>1. PICK amount \in 1 .. Cap :
        /\ card' = [card EXCEPT ![c] = [status |-> "ACTIVE", balance |-> amount]]
        /\ posted' = [posted EXCEPT ![c] = amount]
  BY DEF Issue
<1>2. [status |-> "ACTIVE", balance |-> amount] \in CardRow /\ amount \in Int
  BY CapAssumption DEF CardRow
<1> QED
  BY <1>1, <1>2 DEF Issue, TypeOK, RowsOK

LEMMA TypeBillSteps ==
  ASSUME TypeOK, NEW o \in Orders, CashSale(o) \/ Restore(o)
  PROVE  TypeOK'
<1>1. CASE CashSale(o)
  <2>1. PICK total \in 1 .. Cap : order' = [order EXCEPT ![o] = PaidOrder(None, 0, total)]
    BY <1>1 DEF CashSale
  <2>2. PaidOrder(None, 0, total) \in OrderRow /\ PaidOrder(None, 0, total).redeemed = 0
    BY PaidOrderType, CapAssumption DEF CardOrNone
  <2> QED
    BY <1>1, <2>1, <2>2 DEF CashSale, TypeOK, RowsOK
<1>2. CASE Restore(o)
  <2>1. PICK s \in bin[o] :
          /\ order' = [order EXCEPT ![o].status = s.status, ![o].in = order[o].in + s.in,
                                    ![o].back = order[o].back + s.back,
                                    ![o].refunded = order[o].refunded + s.refunded]
          /\ bin' = [bin EXCEPT ![o] = bin[o] \ {s}]
    BY <1>2 DEF Restore, TypeOK, RowsOK, OrderRow
  <2>2. s \in Snapshot
    BY DEF TypeOK, RowsOK
  <2> DEFINE row == [order[o] EXCEPT !.status = s.status, !.in = order[o].in + s.in,
                                     !.back = order[o].back + s.back,
                                     !.refunded = order[o].refunded + s.refunded]
  <2>0. order' = [order EXCEPT ![o] = row]
    BY <2>1 DEF TypeOK, RowsOK, OrderRow
  <2>5. /\ order[o] \in OrderRow /\ s.status \in {"PAID", "VOID", "REFUNDED"}
        /\ s.in \in Nat /\ s.back \in Nat /\ s.refunded \in Nat
    BY <2>2 DEF TypeOK, RowsOK, Snapshot
  <2>6. /\ order[o].in + s.in \in Nat /\ order[o].back + s.back \in Nat
        /\ order[o].refunded + s.refunded \in Nat
    BY <2>5 DEF OrderRow
  <2>3. row \in OrderRow /\ row.redeemed = order[o].redeemed /\ row.card = order[o].card
    BY <2>5, <2>6 DEF OrderRow
  <2>4. order' \in [Orders -> OrderRow]
        /\ \A x \in Orders : order'[x].redeemed > 0 => order'[x].card \in Cards
    BY <2>0, <2>3 DEF TypeOK, RowsOK
  <2> QED
    BY <1>2, <2>1, <2>4 DEF Restore, TypeOK, RowsOK
<1> QED
  BY <1>1, <1>2

\* The handlers' reads touch no row.
LEMMA TypeReads ==
  ASSUME TypeOK, NEW r \in Requests,
         \/ BeginSale(r) \/ SaleReads(r) \/ BeginVoid(r) \/ BeginRemove(r)
         \/ BeginRefund(r) \/ BeginVoidCard(r) \/ BeginAdjust(r) \/ Abandon(r)
  PROVE  TypeOK'
<1>0. req \in [Requests -> Local] /\ Cap \in Nat /\ None \in CardOrNone
  BY CapAssumption DEF TypeOK, CardOrNone
<1>1. UNCHANGED <<card, posted, order, bin, stale>>
  BY DEF BeginSale, SaleReads, BeginVoid, BeginRemove, BeginRefund, BeginVoidCard,
         BeginAdjust, Abandon
<1>2. req' \in [Requests -> Local]
  <2>2. CASE BeginSale(r)
    <3>1. PICK o \in Orders, c \in Cards, total \in 1 .. Cap :
            /\ card[c].balance > 0
            /\ Begin(r, Job("till", o, c, total, Least(card[c].balance, total), 0, FALSE))
      BY <2>2 DEF BeginSale
    <3>2. Least(card[c].balance, total) \in Nat /\ total - Least(card[c].balance, total) \in Nat
      BY <1>0, <3>1 DEF Least, TypeOK, RowsOK, CardRow
    <3>3. Job("till", o, c, total, Least(card[c].balance, total), 0, FALSE) \in Local
      BY <1>0, <3>2, <3>1 DEF Job, Local, LocalRecord, WellFormed, CardOrNone
    <3> QED
      BY <1>0, <3>1, <3>3, BeginType
  <2>3. CASE SaleReads(r)
    <3> DEFINE q == req[r]
               next == [q EXCEPT !.pc = "redeem", !.last = (card[q.card].balance = q.amount)]
    <3>1. q.pc = "till" /\ q \in Local
      BY <1>0, <2>3 DEF SaleReads
    <3>2. next \in Local
      BY <3>1 DEF Local, LocalRecord, WellFormed
    <3>3. Done(r) \/ req' = [req EXCEPT ![r] = next]
      BY <2>3 DEF SaleReads
    <3> QED
      BY <1>0, <3>2, <3>3, DoneType
  <2>4. CASE BeginVoid(r)
    <3>1. PICK o \in Orders : Begin(r, Job("void", o, None, 0, 0, 0, FALSE))
      BY <2>4 DEF BeginVoid
    <3>2. Job("void", o, None, 0, 0, 0, FALSE) \in Local
      BY <1>0, SMTT(30) DEF Job, Local, LocalRecord, WellFormed, CardOrNone
    <3> QED
      BY <1>0, <3>1, <3>2, BeginType
  <2>5. CASE BeginRemove(r)
    <3>1. PICK o \in Orders :
            /\ InTable(o)
            /\ Begin(r, [Job("remove", o, None, 0, 0, 0, FALSE) EXCEPT
                           !.kept = [status |-> order[o].status, in |-> order[o].in,
                                     back |-> order[o].back, refunded |-> order[o].refunded]])
      BY <2>5 DEF BeginRemove
    <3> DEFINE kept == [status |-> order[o].status, in |-> order[o].in,
                        back |-> order[o].back, refunded |-> order[o].refunded]
    <3>2. kept \in Snapshot
      BY <3>1 DEF TypeOK, RowsOK, OrderRow, Snapshot, InTable
    <3>3. [Job("remove", o, None, 0, 0, 0, FALSE) EXCEPT !.kept = kept] \in Local
      BY <3>2, RemoveJobLocal
    <3> QED
      BY <1>0, <3>1, <3>3, BeginType
  <2>6. CASE BeginRefund(r)
    <3>1. PICK o \in Orders, amount \in 1 .. Cap :
            Begin(r, Job("refund", o, None, 0, amount, 0,
                         amount = Collected(order[o]) /\ order[o].back = 0))
      BY <2>6 DEF BeginRefund
    <3> DEFINE full == amount = Collected(order[o]) /\ order[o].back = 0
    <3>2. full \in BOOLEAN /\ amount \in Nat
      BY <1>0
    <3>3. Job("refund", o, None, 0, amount, 0, full) \in Local
      BY <1>0, <3>2 DEF Job, Local, LocalRecord, WellFormed, CardOrNone
    <3> QED
      BY <1>0, <3>1, <3>3, BeginType
  <2>7. CASE BeginVoidCard(r)
    <3>1. PICK c \in Cards : Begin(r, Job("voidCard", None, c, 0, 0, card[c].balance, FALSE))
      BY <2>7 DEF BeginVoidCard
    <3>2. card[c].balance \in Int
      BY DEF TypeOK, RowsOK, CardRow
    <3>3. Job("voidCard", None, c, 0, 0, card[c].balance, FALSE) \in Local
      BY <3>2 DEF Job, Local, LocalRecord, WellFormed, CardOrNone
    <3> QED
      BY <1>0, <3>1, <3>3, BeginType
  <2>8. CASE BeginAdjust(r)
    <3>1. PICK c \in Cards, delta \in (-Cap .. Cap) \ {0} :
            /\ MayAdjust(c, delta)
            /\ Begin(r, Job("adjust", None, c, 0, delta, card[c].balance + delta, FALSE))
      BY <2>8 DEF BeginAdjust
    <3>2. card[c].balance + delta \in Nat /\ delta \in Int
      BY <1>0, <3>1 DEF MayAdjust
    <3>3. Job("adjust", None, c, 0, delta, card[c].balance + delta, FALSE) \in Local
      BY <3>2 DEF Job, Local, LocalRecord, WellFormed, CardOrNone
    <3> QED
      BY <1>0, <3>1, <3>3, BeginType
  <2>9. CASE Abandon(r)
    BY <1>0, <2>9, DoneType DEF Abandon
  <2> QED
    BY <2>2, <2>3, <2>4, <2>5, <2>6, <2>7, <2>8, <2>9
<1> QED
  BY <1>1, <1>2 DEF TypeOK, RowsOK

\* The transactions.
LEMMA TypeCommits ==
  ASSUME TypeOK, NEW r \in Requests,
         \/ Redeem(r) \/ CommitVoid(r) \/ CommitRemove(r) \/ CommitRefund(r)
         \/ CommitVoidCard(r) \/ CommitAdjust(r)
  PROVE  TypeOK'
<1> DEFINE q == req[r]
           o == req[r].order
           c == req[r].card
<1>0. req \in [Requests -> Local] /\ q \in Local /\ WellFormed(q) /\ RowsOK
      /\ q.total \in Int /\ q.amount \in Int /\ q.balance \in Int
  BY LocalFields DEF TypeOK
<1>1. req' \in [Requests -> Local]
  BY <1>0, DoneType DEF Redeem, CommitVoid, CommitRemove, CommitRefund, CommitVoidCard,
                        CommitAdjust
<1>2. CASE Redeem(r)
  <2>1. c \in Cards /\ o \in Orders /\ q.amount \in Nat /\ q.total - q.amount \in Nat
    BY <1>0, <1>2 DEF Redeem, WellFormed
  <2>2. CASE MayRedeem(card[c], q.amount)
    <3>1. card' = [card EXCEPT ![c] = [status |-> IF q.last THEN "REDEEMED" ELSE "ACTIVE",
                                       balance |-> card[c].balance - q.amount]]
          /\ posted' = [posted EXCEPT ![c] = posted[c] - q.amount]
          /\ order' = [order EXCEPT ![o] = PaidOrder(c, q.amount, q.total)]
      BY <1>0, <1>2, <2>1, <2>2 DEF Redeem, RowsOK
    <3>2. card[c].balance - q.amount \in Int /\ posted[c] - q.amount \in Int
      BY <1>0, <2>1 DEF RowsOK, CardRow
    <3>3. [status |-> IF q.last THEN "REDEEMED" ELSE "ACTIVE",
           balance |-> card[c].balance - q.amount] \in CardRow
      BY <3>2 DEF CardRow
    <3>4. PaidOrder(c, q.amount, q.total) \in OrderRow
          /\ PaidOrder(c, q.amount, q.total).card = c
      BY <1>0, <2>1, PaidOrderType DEF CardOrNone
    <3> QED
      BY <1>0, <1>1, <1>2, <2>1, <3>1, <3>2, <3>3, <3>4 DEF Redeem, TypeOK, RowsOK
  <2>3. CASE ~MayRedeem(card[c], q.amount)
    BY <1>0, <1>1, <1>2, <2>3 DEF Redeem, TypeOK, RowsOK
  <2> QED
    BY <2>2, <2>3
<1>3. CASE CommitVoid(r)
  <2>1. o \in Orders
    BY <1>0, <1>3 DEF CommitVoid, WellFormed
  <2>2. Recredit(o, OffTheBooksAs(o, "VOID")) /\ UNCHANGED <<bin, stale>>
    BY <1>3 DEF CommitVoid
  <2> QED
    BY <1>0, <1>1, <2>1, <2>2, OffTheBooksType, RecreditType DEF TypeOK, RowsOK
<1>4. CASE CommitRemove(r)
  <2> DEFINE row == [order[o] EXCEPT !.status = "deleted", !.in = 0, !.back = 0,
                                     !.refunded = IF q.kept.refunded > 0 THEN 0 ELSE order[o].refunded]
  <2>1. o \in Orders /\ q.kept \in Snapshot
    BY <1>0, <1>4 DEF CommitRemove, WellFormed
  <2>2. row \in OrderRow /\ row.redeemed = order[o].redeemed /\ row.card = order[o].card
    BY ZenonT(30), <1>0, <2>1 DEF RowsOK, OrderRow, Snapshot
  <2>3. /\ bin' = [bin EXCEPT ![o] = bin[o] \cup {q.kept}]
        /\ UNCHANGED stale
        /\ \/ Recredit(o, row)
           \/ order' = [order EXCEPT ![o] = row] /\ UNCHANGED <<card, posted>>
    BY <1>0, <1>4, <2>1 DEF CommitRemove, RowsOK
  <2>4. bin' \in [Orders -> SUBSET Snapshot]
    BY <1>0, <2>1, <2>3 DEF RowsOK
  <2>5. /\ card' \in [Cards -> CardRow] /\ posted' \in [Cards -> Int]
        /\ order' \in [Orders -> OrderRow]
        /\ \A x \in Orders : order'[x].redeemed > 0 => order'[x].card \in Cards
    <3>1. CASE Recredit(o, row)
      BY <1>0, <2>1, <2>2, <3>1, RecreditType
    <3>2. CASE order' = [order EXCEPT ![o] = row] /\ UNCHANGED <<card, posted>>
      BY <1>0, <2>1, <2>2, <3>2 DEF RowsOK
    <3> QED
      BY <2>3, <3>1, <3>2
  <2> QED
    BY <1>0, <1>1, <2>3, <2>4, <2>5 DEF TypeOK, RowsOK
<1>5. CASE CommitRefund(r)
  <2>1. o \in Orders /\ q.amount \in Nat
    BY <1>0, <1>5 DEF CommitRefund, WellFormed
  <2>2. CASE q.last
    <3> DEFINE off == OffTheBooksAs(o, "REFUNDED")
               row == [off EXCEPT !.refunded = off.refunded + q.amount]
    <3>1. off \in OrderRow /\ off.redeemed = order[o].redeemed /\ off.card = order[o].card
      BY <1>0, <2>1, OffTheBooksType
    <3>2. row \in OrderRow /\ row.redeemed = order[o].redeemed /\ row.card = order[o].card
      BY <2>1, <3>1 DEF OrderRow
    <3>3. Recredit(o, row) /\ UNCHANGED <<bin, stale>>
      BY <1>5, <2>2 DEF CommitRefund
    <3> QED
      BY <1>0, <1>1, <2>1, <3>2, <3>3, RecreditType DEF TypeOK, RowsOK
  <2>3. CASE ~q.last
    <3> DEFINE row == [order[o] EXCEPT !.back = order[o].back + q.amount,
                                       !.refunded = order[o].refunded + q.amount]
    <3>1. order' = [order EXCEPT ![o] = row] /\ UNCHANGED <<card, posted, bin, stale>>
      BY <1>0, <1>5, <2>1, <2>3 DEF CommitRefund, RowsOK, OrderRow
    <3>2. order[o] \in OrderRow /\ order[o].back + q.amount \in Nat
          /\ order[o].refunded + q.amount \in Nat
      BY <1>0, <2>1 DEF RowsOK, OrderRow
    <3>3. row \in OrderRow /\ row.redeemed = order[o].redeemed /\ row.card = order[o].card
      BY <3>2 DEF OrderRow
    <3> QED
      BY <1>0, <1>1, <2>1, <3>1, <3>3 DEF TypeOK, RowsOK
  <2> QED
    BY <2>2, <2>3
<1>6. CASE CommitVoidCard(r)
  <2>1. c \in Cards
    BY <1>0, <1>6 DEF CommitVoidCard, WellFormed
  <2>2. /\ card' = [card EXCEPT ![c] = [status |-> "VOID", balance |-> 0]]
        /\ posted' = [posted EXCEPT ![c] = posted[c] - q.balance]
        /\ stale' \subseteq Cards
        /\ UNCHANGED <<order, bin>>
    BY <1>0, <1>6, <2>1 DEF CommitVoidCard, MarkStale, RowsOK
  <2>3. [status |-> "VOID", balance |-> 0] \in CardRow /\ posted[c] - q.balance \in Int
    BY <1>0, <2>1 DEF CardRow, RowsOK
  <2> QED
    BY <1>0, <1>1, <2>1, <2>2, <2>3 DEF TypeOK, RowsOK
<1>7. CASE CommitAdjust(r)
  <2>1. c \in Cards
    BY <1>0, <1>7 DEF CommitAdjust, WellFormed
  <2>2. /\ card' = [card EXCEPT ![c] = [status |-> StatusOf(q.balance), balance |-> q.balance]]
        /\ posted' = [posted EXCEPT ![c] = posted[c] + q.amount]
        /\ stale' \subseteq Cards
        /\ UNCHANGED <<order, bin>>
    BY <1>0, <1>7, <2>1 DEF CommitAdjust, MarkStale, RowsOK
  <2>3. [status |-> StatusOf(q.balance), balance |-> q.balance] \in CardRow
        /\ posted[c] + q.amount \in Int
    BY <1>0, <2>1 DEF CardRow, RowsOK, StatusOf
  <2> QED
    BY <1>0, <1>1, <2>1, <2>2, <2>3 DEF TypeOK, RowsOK
<1> QED
  BY <1>2, <1>3, <1>4, <1>5, <1>6, <1>7

LEMMA TypeNext == TypeOK /\ [Next]_vars => TypeOK'
<1> SUFFICES ASSUME TypeOK, [Next]_vars PROVE TypeOK'
  OBVIOUS
<1>1. CASE UNCHANGED vars
  BY <1>1 DEF vars, TypeOK, RowsOK
<1>2. CASE Next
  BY <1>2, TypeCardSteps, TypeBillSteps, TypeReads, TypeCommits DEF Next
<1> QED
  BY <1>1, <1>2

\* Rows and handlers keep their types, for any cards, bills and requests.
THEOREM TypeCorrect == Spec => []TypeOK
BY TypeInit, TypeNext, PTL DEF Spec

-----------------------------------------------------------------------------
(* The cards' money: only a void or an adjustment can part a balance from  *)
(* its ledger, and nothing overdraws a card.                               *)

\* The reversals add to both sides alike.
LEMMA RecreditKeepsMoney ==
  ASSUME RowsOK, CardsKeepTheirMoney, NEW o \in Orders, NEW row,
         Recredit(o, row), stale' = stale
  PROVE  CardsKeepTheirMoney'
<1> DEFINE c == order[o].card
           credit == order[o].redeemed
<1>1. credit \in Nat
  BY DEF RowsOK, OrderRow
<1>2. CASE credit > 0
  <2>1. c \in Cards
    BY <1>2 DEF RowsOK
  <2>2. card' = [card EXCEPT ![c] = [status |-> "ACTIVE", balance |-> card[c].balance + credit]]
        /\ posted' = [posted EXCEPT ![c] = posted[c] + credit]
    BY <1>2, <2>1 DEF Recredit, RowsOK
  <2>3. card'[c].balance = card[c].balance + credit /\ posted'[c] = posted[c] + credit
    BY <2>1, <2>2 DEF RowsOK
  <2>4. card[c].balance \in Int /\ posted[c] \in Int
    BY <2>1 DEF RowsOK, CardRow
  <2>5. \A x \in Cards \ {c} : card'[x] = card[x] /\ posted'[x] = posted[x]
    BY <2>2 DEF RowsOK
  <2> QED
    BY <1>1, <2>3, <2>4, <2>5 DEF CardsKeepTheirMoney
<1>3. CASE ~(credit > 0)
  BY <1>3 DEF Recredit, CardsKeepTheirMoney
<1> QED
  BY <1>2, <1>3

LEMMA CardsInit == Init => CardsKeepTheirMoney
BY DEF Init, CardsKeepTheirMoney

LEMMA CardsNext == TypeOK /\ CardsKeepTheirMoney /\ [Next]_vars => CardsKeepTheirMoney'
<1> SUFFICES ASSUME TypeOK, CardsKeepTheirMoney, [Next]_vars
             PROVE  CardsKeepTheirMoney'
  OBVIOUS
<1>0. RowsOK
  BY DEF TypeOK
<1>1. CASE UNCHANGED <<card, posted, stale>>
  BY <1>1 DEF CardsKeepTheirMoney
<1>2. ASSUME NEW c \in Cards, Issue(c) PROVE CardsKeepTheirMoney'
  <2>1. PICK amount \in 1 .. Cap :
          /\ card' = [card EXCEPT ![c] = [status |-> "ACTIVE", balance |-> amount]]
          /\ posted' = [posted EXCEPT ![c] = amount]
    BY <1>2 DEF Issue
  <2>2. stale' = stale /\ amount >= 0
    BY <1>2, CapAssumption DEF Issue
  <2> QED
    BY <1>0, <2>1, <2>2 DEF CardsKeepTheirMoney, RowsOK
<1>3. ASSUME NEW r \in Requests,
             \/ Redeem(r) \/ CommitVoid(r) \/ CommitRemove(r) \/ CommitRefund(r)
             \/ CommitVoidCard(r) \/ CommitAdjust(r)
      PROVE  CardsKeepTheirMoney'
  <2> DEFINE q == req[r]
             o == req[r].order
             c == req[r].card
  <2>0. q \in Local /\ WellFormed(q) /\ q.amount \in Int /\ q.balance \in Int
    BY LocalFields DEF TypeOK
  <2>1. CASE Redeem(r)
    <3>1. c \in Cards /\ stale' = stale
      BY <2>0, <2>1 DEF Redeem, WellFormed
    <3>2. CASE MayRedeem(card[c], q.amount)
      <4>1. card' = [card EXCEPT ![c] = [status |-> IF q.last THEN "REDEEMED" ELSE "ACTIVE",
                                         balance |-> card[c].balance - q.amount]]
            /\ posted' = [posted EXCEPT ![c] = posted[c] - q.amount]
        BY <1>0, <2>1, <3>1, <3>2 DEF Redeem, RowsOK
      <4>2. card'[c].balance = card[c].balance - q.amount /\ posted'[c] = posted[c] - q.amount
        BY <1>0, <3>1, <4>1 DEF RowsOK
      <4>3. card[c].balance >= q.amount /\ card[c].balance \in Int /\ posted[c] \in Int
        BY <1>0, <3>1, <3>2 DEF MayRedeem, RowsOK, CardRow
      <4>4. \A x \in Cards \ {c} : card'[x] = card[x] /\ posted'[x] = posted[x]
        BY <1>0, <4>1 DEF RowsOK
      <4> QED
        BY <2>0, <3>1, <4>2, <4>3, <4>4 DEF CardsKeepTheirMoney
    <3>3. CASE ~MayRedeem(card[c], q.amount)
      BY <2>1, <3>1, <3>3 DEF Redeem, CardsKeepTheirMoney
    <3> QED
      BY <3>2, <3>3
  <2>2. CASE CommitVoid(r)
    BY <1>0, <2>0, <2>2, RecreditKeepsMoney DEF CommitVoid, WellFormed
  <2>3. CASE CommitRemove(r)
    <3>1. o \in Orders /\ stale' = stale
      BY <2>0, <2>3 DEF CommitRemove, WellFormed
    <3>2. (\E row : Recredit(o, row)) \/ UNCHANGED <<card, posted>>
      BY <2>3 DEF CommitRemove
    <3> QED
      BY <1>0, <1>1, <3>1, <3>2, RecreditKeepsMoney
  <2>4. CASE CommitRefund(r)
    <3>1. o \in Orders /\ stale' = stale
      BY <2>0, <2>4 DEF CommitRefund, WellFormed
    <3>2. (\E row : Recredit(o, row)) \/ UNCHANGED <<card, posted>>
      BY <2>4 DEF CommitRefund
    <3> QED
      BY <1>0, <1>1, <3>1, <3>2, RecreditKeepsMoney
  <2>5. CASE CommitVoidCard(r)
    <3>1. c \in Cards
      BY <2>0, <2>5 DEF CommitVoidCard, WellFormed
    <3>2. /\ card' = [card EXCEPT ![c] = [status |-> "VOID", balance |-> 0]]
          /\ posted' = [posted EXCEPT ![c] = posted[c] - q.balance]
          /\ MarkStale(c, q.balance)
      BY <1>0, <2>5, <3>1 DEF CommitVoidCard, RowsOK
    <3>3. card'[c].balance = 0 /\ posted'[c] = posted[c] - q.balance
      BY <1>0, <3>1, <3>2 DEF RowsOK
    <3>4. card[c].balance \in Int /\ posted[c] \in Int
      BY <1>0, <3>1 DEF RowsOK, CardRow
    <3>5. \A x \in Cards \ {c} : card'[x] = card[x] /\ posted'[x] = posted[x]
      BY <1>0, <3>2 DEF RowsOK
    <3>6. stale \subseteq stale' /\ (card[c].balance = q.balance \/ c \in stale')
      BY <3>2 DEF MarkStale
    <3> QED
      BY <2>0, <3>3, <3>4, <3>5, <3>6 DEF CardsKeepTheirMoney
  <2>6. CASE CommitAdjust(r)
    <3>1. c \in Cards /\ q.balance \in Nat
      BY <2>0, <2>6 DEF CommitAdjust, WellFormed
    <3>2. /\ card' = [card EXCEPT ![c] = [status |-> StatusOf(q.balance), balance |-> q.balance]]
          /\ posted' = [posted EXCEPT ![c] = posted[c] + q.amount]
          /\ MarkStale(c, q.balance - q.amount)
      BY <1>0, <2>6, <3>1 DEF CommitAdjust, RowsOK
    <3>3. card'[c].balance = q.balance /\ posted'[c] = posted[c] + q.amount
      BY <1>0, <3>1, <3>2 DEF RowsOK
    <3>4. card[c].balance \in Int /\ posted[c] \in Int
      BY <1>0, <3>1 DEF RowsOK, CardRow
    <3>5. \A x \in Cards \ {c} : card'[x] = card[x] /\ posted'[x] = posted[x]
      BY <1>0, <3>2 DEF RowsOK
    <3>6. stale \subseteq stale' /\ (card[c].balance = q.balance - q.amount \/ c \in stale')
      BY <3>2 DEF MarkStale
    <3> QED
      BY <2>0, <3>1, <3>3, <3>4, <3>5, <3>6 DEF CardsKeepTheirMoney
  <2> QED
    BY <1>3, <2>1, <2>2, <2>3, <2>4, <2>5, <2>6
<1>4. ASSUME NEW o \in Orders, CashSale(o) \/ Restore(o) PROVE CardsKeepTheirMoney'
  BY <1>1, <1>4 DEF CashSale, Restore
<1>5. ASSUME NEW r \in Requests,
             \/ BeginSale(r) \/ SaleReads(r) \/ BeginVoid(r) \/ BeginRemove(r)
             \/ BeginRefund(r) \/ BeginVoidCard(r) \/ BeginAdjust(r) \/ Abandon(r)
      PROVE  CardsKeepTheirMoney'
  <2>1. UNCHANGED <<card, posted, stale>>
    BY <1>5 DEF BeginSale, SaleReads, BeginVoid, BeginRemove, BeginRefund, BeginVoidCard,
                BeginAdjust, Abandon
  <2> QED
    BY <1>1, <2>1
<1>6. CASE UNCHANGED vars
  BY <1>1, <1>6 DEF vars
<1> QED
  BY <1>2, <1>3, <1>4, <1>5, <1>6 DEF Next

\* However checkouts, voids, refunds, deletions, restores and the card's own page
\* interleave, no card is overdrawn, and a balance parts from its ledger only
\* where a void or an adjustment wrote from a balance it had read too early.
THEOREM CardsCorrect == Spec => []CardsKeepTheirMoney
BY TypeCorrect, CardsInit, CardsNext, PTL DEF Spec

-----------------------------------------------------------------------------
(* Bills, as long as none comes back from the trash.                       *)

LEMMA BillsInit == Init => PaidBillKeepsCardMoney
BY DEF Init, PaidBillKeepsCardMoney

\* A bill that gets money back for its card is no longer a paid one.
LEMMA RecreditTakesTheBillOff ==
  ASSUME RowsOK, PaidBillKeepsCardMoney, NEW o \in Orders, NEW row \in OrderRow,
         row.status # "PAID", Recredit(o, row)
  PROVE  PaidBillKeepsCardMoney'
<1>1. PICK new \in {row, [row EXCEPT !.returned = @ + order[o].redeemed]} :
        order' = [order EXCEPT ![o] = new]
  BY DEF Recredit
<1>2. new.status # "PAID"
  BY <1>1 DEF OrderRow
<1> QED
  BY <1>1, <1>2 DEF RowsOK, PaidBillKeepsCardMoney

LEMMA BillsNext ==
  ASSUME "restore" \notin Ops
  PROVE  TypeOK /\ PaidBillKeepsCardMoney /\ [Next]_vars => PaidBillKeepsCardMoney'
<1> SUFFICES ASSUME TypeOK, PaidBillKeepsCardMoney, [Next]_vars
             PROVE  PaidBillKeepsCardMoney'
  OBVIOUS
<1>0. RowsOK
  BY DEF TypeOK
<1>1. CASE UNCHANGED order
  BY <1>1 DEF PaidBillKeepsCardMoney
<1>2. ASSUME NEW o \in Orders, CashSale(o) PROVE PaidBillKeepsCardMoney'
  <2>1. PICK total \in 1 .. Cap : order' = [order EXCEPT ![o] = PaidOrder(None, 0, total)]
    BY <1>2 DEF CashSale
  <2> QED
    BY <1>0, <2>1 DEF PaidOrder, RowsOK, PaidBillKeepsCardMoney
<1>3. ASSUME NEW r \in Requests,
             Redeem(r) \/ CommitVoid(r) \/ CommitRemove(r) \/ CommitRefund(r)
      PROVE  PaidBillKeepsCardMoney'
  <2> DEFINE q == req[r]
             o == req[r].order
  <2>0. q \in Local /\ WellFormed(q) /\ q.amount \in Int
    BY LocalFields DEF TypeOK
  <2>1. CASE Redeem(r)
    <3>1. order' = order \/ order' = [order EXCEPT ![o] = PaidOrder(q.card, q.amount, q.total)]
      BY <2>1 DEF Redeem
    <3> QED
      BY <1>0, <1>1, <3>1 DEF PaidOrder, RowsOK, PaidBillKeepsCardMoney
  <2>2. CASE CommitVoid(r)
    <3>1. o \in Orders /\ Recredit(o, OffTheBooksAs(o, "VOID"))
      BY <2>0, <2>2 DEF CommitVoid, WellFormed
    <3> QED
      BY <1>0, <3>1, OffTheBooksType, RecreditTakesTheBillOff
  <2>3. CASE CommitRemove(r)
    <3> DEFINE row == [order[o] EXCEPT !.status = "deleted", !.in = 0, !.back = 0,
                                       !.refunded = IF q.kept.refunded > 0 THEN 0
                                                    ELSE order[o].refunded]
    <3>1. o \in Orders
      BY <2>0, <2>3 DEF CommitRemove, WellFormed
    <3>2. row \in OrderRow /\ row.status # "PAID"
      BY <1>0, <3>1 DEF RowsOK, OrderRow
    <3>3. Recredit(o, row) \/ order' = [order EXCEPT ![o] = row]
      BY <1>0, <2>3, <3>1 DEF CommitRemove, RowsOK
    <3> QED
      BY <1>0, <3>1, <3>2, <3>3, RecreditTakesTheBillOff DEF RowsOK, PaidBillKeepsCardMoney
  <2>4. CASE CommitRefund(r)
    <3>1. o \in Orders /\ q.amount \in Nat
      BY <2>0, <2>4 DEF CommitRefund, WellFormed
    <3>2. CASE q.last
      <4> DEFINE off == OffTheBooksAs(o, "REFUNDED")
                 row == [off EXCEPT !.refunded = off.refunded + q.amount]
      <4>1. off \in OrderRow /\ off.status # "PAID"
        BY <1>0, <3>1, OffTheBooksType
      <4>2. row \in OrderRow /\ row.status # "PAID"
        BY <3>1, <4>1 DEF OrderRow
      <4>3. Recredit(o, row)
        BY <2>4, <3>2 DEF CommitRefund
      <4> QED
        BY <1>0, <3>1, <4>2, <4>3, RecreditTakesTheBillOff
    <3>3. CASE ~q.last
      <4>1. \A x \in Orders : order'[x].status = order[x].status
                              /\ order'[x].returned = order[x].returned
        BY <1>0, <2>4, <3>1, <3>3 DEF CommitRefund, RowsOK, OrderRow
      <4> QED
        BY <4>1 DEF PaidBillKeepsCardMoney
    <3> QED
      BY <3>2, <3>3
  <2> QED
    BY <1>3, <2>1, <2>2, <2>3, <2>4
<1>4. ASSUME NEW c \in Cards, Issue(c) PROVE PaidBillKeepsCardMoney'
  BY <1>1, <1>4 DEF Issue
<1>5. ASSUME NEW r \in Requests,
             \/ BeginSale(r) \/ SaleReads(r) \/ BeginVoid(r) \/ BeginRemove(r)
             \/ BeginRefund(r) \/ BeginVoidCard(r) \/ BeginAdjust(r) \/ Abandon(r)
             \/ CommitVoidCard(r) \/ CommitAdjust(r)
      PROVE  PaidBillKeepsCardMoney'
  <2>1. UNCHANGED order
    BY <1>5 DEF BeginSale, SaleReads, BeginVoid, BeginRemove, BeginRefund, BeginVoidCard,
                BeginAdjust, Abandon, CommitVoidCard, CommitAdjust
  <2> QED
    BY <1>1, <2>1
<1>6. CASE UNCHANGED vars
  BY <1>1, <1>6 DEF vars
<1>7. \A o \in Orders : ~Restore(o)
  BY DEF Restore
<1> QED
  BY <1>2, <1>3, <1>4, <1>5, <1>6, <1>7 DEF Next

\* As long as the trash gives no bill back, a bill that counts as paid has not
\* given its card's money back, whatever voids, refunds and deletions overlap.
THEOREM BillsCorrect ==
  ASSUME "restore" \notin Ops
  PROVE  Spec => []PaidBillKeepsCardMoney
BY TypeCorrect, BillsInit, BillsNext, PTL DEF Spec

-----------------------------------------------------------------------------
(* One handler at a time: what it read is still so when it writes.  The    *)
(* card's own page then adds up, a card is usable exactly while there is   *)
(* money on it, and a bill gives back no more than it took - restarts and  *)
(* restores from the trash included.                                       *)

\* A card against the sum of its ledger.
CardFits(row, sum) ==
  /\ row.balance = sum
  /\ row.balance >= 0
  /\ row.balance > 0 <=> row.status = "ACTIVE"

\* What a handler read of its card is what the card still is.
CardFresh(q) ==
  /\ q.pc \in {"redeem", "voidCard", "adjust"} => card[q.card].status # "none"
  /\ q.pc = "redeem" => /\ MayRedeem(card[q.card], q.amount)
                        /\ q.last <=> card[q.card].balance = q.amount
  /\ q.pc = "voidCard" => card[q.card].balance = q.balance
  /\ q.pc = "adjust" => card[q.card].balance = q.balance - q.amount

CardsInv == /\ \A c \in Cards : CardFits(card[c], posted[c])
            /\ \A r \in Requests : CardFresh(req[r])

LEMMA IdleIsFresh == CardFresh(Idle)
BY DEF CardFresh, Idle, Job

\* After the only handler is done, nothing is left to be fresh.
LEMMA NoneAtWork ==
  ASSUME OneHandler, TypeOK, NEW r \in Requests, Done(r)
  PROVE  \A a \in Requests : req'[a] = Idle
BY DEF Done, OneHandler, TypeOK

\* One card and its ledger rewritten.
LEMMA CardWritten ==
  ASSUME TypeOK, CardsInv, NEW c \in Cards, NEW row, NEW sum,
         card' = [card EXCEPT ![c] = row], posted' = [posted EXCEPT ![c] = sum],
         CardFits(row, sum)
  PROVE  \A x \in Cards : CardFits(card'[x], posted'[x])
<1> SUFFICES ASSUME NEW x \in Cards PROVE CardFits(card'[x], posted'[x])
  OBVIOUS
<1>1. CASE x = c
  BY <1>1 DEF TypeOK, RowsOK
<1>2. CASE x # c
  <2>1. card'[x] = card[x] /\ posted'[x] = posted[x]
    BY <1>2 DEF TypeOK, RowsOK
  <2> QED
    BY <2>1 DEF CardsInv
<1> QED
  BY <1>1, <1>2

\* A reversal puts back on the card what the ledger says.
LEMMA RecreditFits ==
  ASSUME TypeOK, CardsInv, NEW o \in Orders, NEW row, Recredit(o, row)
  PROVE  \A x \in Cards : CardFits(card'[x], posted'[x])
<1> DEFINE c == order[o].card
           credit == order[o].redeemed
<1>1. credit \in Nat
  BY DEF TypeOK, RowsOK, OrderRow
<1>2. CASE credit > 0
  <2> DEFINE new == [status |-> "ACTIVE", balance |-> card[c].balance + credit]
  <2>1. c \in Cards
    BY <1>2 DEF TypeOK, RowsOK
  <2>2. card' = [card EXCEPT ![c] = new] /\ posted' = [posted EXCEPT ![c] = posted[c] + credit]
    BY <1>2, <2>1 DEF Recredit, TypeOK, RowsOK
  <2>3. card[c].balance \in Int /\ CardFits(card[c], posted[c])
    BY <2>1 DEF TypeOK, RowsOK, CardRow, CardsInv
  <2>4. CardFits(new, posted[c] + credit)
    BY <1>1, <1>2, <2>3 DEF CardFits
  <2> HIDE DEF new
  <2> QED
    BY <2>1, <2>2, <2>4, CardWritten
<1>3. CASE ~(credit > 0)
  BY <1>3 DEF Recredit, CardsInv
<1> QED
  BY <1>2, <1>3

LEMMA CardsInvInit == Init => CardsInv
BY IdleIsFresh DEF Init, CardsInv, CardFits

\* The reads.
LEMMA CardsInvReads ==
  ASSUME OneHandler, TypeOK, CardsInv, NEW r \in Requests,
         \/ BeginSale(r) \/ SaleReads(r) \/ BeginVoid(r) \/ BeginRemove(r)
         \/ BeginRefund(r) \/ BeginVoidCard(r) \/ BeginAdjust(r) \/ Abandon(r)
  PROVE  CardsInv'
<1>1. UNCHANGED <<card, posted>>
  BY DEF BeginSale, SaleReads, BeginVoid, BeginRemove, BeginRefund, BeginVoidCard,
         BeginAdjust, Abandon
<1>2. ASSUME NEW q, req' = [req EXCEPT ![r] = q], CardFresh(q)
      PROVE  CardsInv'
  <2>1. \A a \in Requests : req'[a] = q
    BY <1>2 DEF OneHandler, TypeOK
  <2>2. \A a \in Requests : CardFresh(req[a])'
    BY <1>1, <1>2, <2>1 DEF CardFresh, MayRedeem
  <2> QED
    BY <1>1, <2>2 DEF CardsInv
<1>3. CASE BeginSale(r)
  <2>1. PICK o \in Orders, c \in Cards, total \in 1 .. Cap :
          Begin(r, Job("till", o, c, total, Least(card[c].balance, total), 0, FALSE))
    BY <1>3 DEF BeginSale
  <2>2. CardFresh(Job("till", o, c, total, Least(card[c].balance, total), 0, FALSE))
    BY DEF CardFresh, Job
  <2> QED
    BY <1>2, <2>1, <2>2 DEF Begin
<1>4. CASE SaleReads(r)
  <2> DEFINE q == req[r]
             next == [q EXCEPT !.pc = "redeem", !.last = (card[q.card].balance = q.amount)]
  <2>1. q \in LocalRecord /\ q.pc = "till"
    BY <1>4 DEF SaleReads, TypeOK, Local
  <2>2. /\ next.pc = "redeem" /\ next.card = q.card /\ next.amount = q.amount
        /\ next.last = (card[q.card].balance = q.amount)
    BY <2>1 DEF LocalRecord
  <2>3. \/ Done(r)
        \/ /\ req' = [req EXCEPT ![r] = next]
           /\ card[q.card].status = "ACTIVE" /\ card[q.card].balance >= q.amount
    BY <1>4 DEF SaleReads
  <2> HIDE DEF next
  <2>4. CASE Done(r)
    BY <1>2, <2>4, IdleIsFresh DEF Done
  <2>5. CASE ~Done(r)
    <3>1. CardFresh(next)
      BY <2>2, <2>3, <2>5 DEF CardFresh, MayRedeem
    <3> QED
      BY <1>2, <2>3, <2>5, <3>1
  <2> QED
    BY <2>4, <2>5
<1>5. CASE BeginVoid(r)
  <2>1. PICK o \in Orders : Begin(r, Job("void", o, None, 0, 0, 0, FALSE))
    BY <1>5 DEF BeginVoid
  <2>2. CardFresh(Job("void", o, None, 0, 0, 0, FALSE))
    BY DEF CardFresh, Job
  <2> QED
    BY <1>2, <2>1, <2>2 DEF Begin
<1>6. CASE BeginRemove(r)
  <2>1. PICK o \in Orders, kept \in Snapshot :
          Begin(r, [Job("remove", o, None, 0, 0, 0, FALSE) EXCEPT !.kept = kept])
    <3>1. PICK o \in Orders :
            /\ InTable(o)
            /\ Begin(r, [Job("remove", o, None, 0, 0, 0, FALSE) EXCEPT
                           !.kept = [status |-> order[o].status, in |-> order[o].in,
                                     back |-> order[o].back, refunded |-> order[o].refunded]])
      BY <1>6 DEF BeginRemove
    <3>2. [status |-> order[o].status, in |-> order[o].in,
           back |-> order[o].back, refunded |-> order[o].refunded] \in Snapshot
      BY <3>1 DEF TypeOK, RowsOK, OrderRow, Snapshot, InTable
    <3> QED
      <4> DEFINE kept == [status |-> order[o].status, in |-> order[o].in,
                          back |-> order[o].back, refunded |-> order[o].refunded]
                 job == [Job("remove", o, None, 0, 0, 0, FALSE) EXCEPT !.kept = kept]
      <4>1. kept \in Snapshot /\ Begin(r, job)
        BY <3>1, <3>2
      <4> HIDE DEF kept
      <4> QED
        BY <4>1
  <2> DEFINE q == [Job("remove", o, None, 0, 0, 0, FALSE) EXCEPT !.kept = kept]
  <2>2. q.pc = "remove"
    BY DEF Job
  <2>3. CardFresh(q)
    BY <2>2 DEF CardFresh
  <2>4. Begin(r, q)
    BY <2>1
  <2> HIDE DEF q
  <2> QED
    BY <1>2, <2>3, <2>4 DEF Begin
<1>7. CASE BeginRefund(r)
  <2>1. PICK o \in Orders, amount \in 1 .. Cap :
          Begin(r, Job("refund", o, None, 0, amount, 0,
                       amount = Collected(order[o]) /\ order[o].back = 0))
    BY <1>7 DEF BeginRefund
  <2>2. CardFresh(Job("refund", o, None, 0, amount, 0,
                      amount = Collected(order[o]) /\ order[o].back = 0))
    BY DEF CardFresh, Job
  <2> QED
    BY <1>2, <2>1, <2>2 DEF Begin
<1>8. CASE BeginVoidCard(r)
  <2>1. PICK c \in Cards :
          /\ card[c].status # "none"
          /\ Begin(r, Job("voidCard", None, c, 0, 0, card[c].balance, FALSE))
    BY <1>8 DEF BeginVoidCard
  <2>2. CardFresh(Job("voidCard", None, c, 0, 0, card[c].balance, FALSE))
    BY <2>1 DEF CardFresh, Job
  <2> QED
    BY <1>2, <2>1, <2>2 DEF Begin
<1>9. CASE BeginAdjust(r)
  <2>1. PICK c \in Cards, delta \in (-Cap .. Cap) \ {0} :
          /\ card[c].status # "none"
          /\ Begin(r, Job("adjust", None, c, 0, delta, card[c].balance + delta, FALSE))
    BY <1>9 DEF BeginAdjust, MayAdjust
  <2>2. card[c].balance \in Int /\ delta \in Int
    BY CapAssumption DEF TypeOK, RowsOK, CardRow
  <2>3. CardFresh(Job("adjust", None, c, 0, delta, card[c].balance + delta, FALSE))
    BY <2>1, <2>2 DEF CardFresh, Job
  <2> QED
    BY <1>2, <2>1, <2>3 DEF Begin
<1>10. CASE Abandon(r)
  BY <1>2, <1>10, IdleIsFresh DEF Abandon, Done
<1> QED
  BY <1>3, <1>4, <1>5, <1>6, <1>7, <1>8, <1>9, <1>10

\* The transactions: only the handler's own card and ledger, then it is done.
LEMMA CardsInvCommits ==
  ASSUME OneHandler, TypeOK, CardsInv, NEW r \in Requests,
         \/ Redeem(r) \/ CommitVoid(r) \/ CommitRemove(r) \/ CommitRefund(r)
         \/ CommitVoidCard(r) \/ CommitAdjust(r)
  PROVE  CardsInv'
<1> DEFINE q == req[r]
           c == req[r].card
           o == req[r].order
<1>0. q \in Local /\ WellFormed(q) /\ q.amount \in Int /\ q.balance \in Int /\ q.last \in BOOLEAN
      /\ CardFresh(q)
  BY LocalFields DEF TypeOK, CardsInv
<1>1. Done(r)
  BY DEF Redeem, CommitVoid, CommitRemove, CommitRefund, CommitVoidCard, CommitAdjust
<1>2. \A a \in Requests : CardFresh(req[a])'
  <2>1. \A a \in Requests : req'[a] = Idle
    BY <1>1, NoneAtWork
  <2> QED
    BY <2>1 DEF CardFresh, Idle, Job
<1>3. \A x \in Cards : CardFits(card'[x], posted'[x])
  <2>1. CASE Redeem(r)
    <3> DEFINE new == [status |-> IF q.last THEN "REDEEMED" ELSE "ACTIVE",
                       balance |-> card[c].balance - q.amount]
    <3>1. c \in Cards /\ q.pc = "redeem" /\ q.amount \in Nat
      BY <1>0, <2>1 DEF Redeem, WellFormed
    <3>2. MayRedeem(card[c], q.amount) /\ (q.last <=> card[c].balance = q.amount)
      BY <1>0, <3>1 DEF CardFresh
    <3>3. card' = [card EXCEPT ![c] = new] /\ posted' = [posted EXCEPT ![c] = posted[c] - q.amount]
      BY <2>1, <3>1, <3>2 DEF Redeem, TypeOK, RowsOK
    <3>4. card[c].balance \in Int /\ CardFits(card[c], posted[c])
      BY <3>1 DEF TypeOK, RowsOK, CardRow, CardsInv
    <3>5. new.balance = card[c].balance - q.amount
          /\ (new.status = "ACTIVE" <=> card[c].balance # q.amount)
      BY <1>0, <3>2
    <3> HIDE DEF new
    <3>6. CardFits(new, posted[c] - q.amount)
      BY <3>1, <3>2, <3>4, <3>5 DEF CardFits, MayRedeem
    <3> QED
      BY <3>1, <3>3, <3>6, CardWritten
  <2>2. CASE CommitVoid(r)
    BY <1>0, <2>2, RecreditFits DEF CommitVoid, WellFormed
  <2>3. CASE CommitRemove(r)
    <3>1. o \in Orders
      BY <1>0, <2>3 DEF CommitRemove, WellFormed
    <3>2. (\E row : Recredit(o, row)) \/ UNCHANGED <<card, posted>>
      BY <2>3 DEF CommitRemove
    <3> QED
      BY <3>1, <3>2, RecreditFits DEF CardsInv
  <2>4. CASE CommitRefund(r)
    <3>1. o \in Orders
      BY <1>0, <2>4 DEF CommitRefund, WellFormed
    <3>2. (\E row : Recredit(o, row)) \/ UNCHANGED <<card, posted>>
      BY <2>4 DEF CommitRefund
    <3> QED
      BY <3>1, <3>2, RecreditFits DEF CardsInv
  <2>5. CASE CommitVoidCard(r)
    <3> DEFINE new == [status |-> "VOID", balance |-> 0]
    <3>1. c \in Cards /\ card[c].balance = q.balance
      BY <1>0, <2>5 DEF CommitVoidCard, WellFormed, CardFresh
    <3>2. card' = [card EXCEPT ![c] = new] /\ posted' = [posted EXCEPT ![c] = posted[c] - q.balance]
      BY <2>5, <3>1 DEF CommitVoidCard, TypeOK, RowsOK
    <3>3. card[c].balance \in Int /\ CardFits(card[c], posted[c])
      BY <3>1 DEF TypeOK, RowsOK, CardRow, CardsInv
    <3>4. CardFits(new, posted[c] - q.balance)
      BY <3>1, <3>3 DEF CardFits
    <3> HIDE DEF new
    <3> QED
      BY <3>1, <3>2, <3>4, CardWritten
  <2>6. CASE CommitAdjust(r)
    <3> DEFINE new == [status |-> StatusOf(q.balance), balance |-> q.balance]
    <3>1. c \in Cards /\ q.balance \in Nat /\ card[c].balance = q.balance - q.amount
      BY <1>0, <2>6 DEF CommitAdjust, WellFormed, CardFresh
    <3>2. card' = [card EXCEPT ![c] = new] /\ posted' = [posted EXCEPT ![c] = posted[c] + q.amount]
      BY <2>6, <3>1 DEF CommitAdjust, TypeOK, RowsOK
    <3>3. card[c].balance \in Int /\ CardFits(card[c], posted[c])
      BY <3>1 DEF TypeOK, RowsOK, CardRow, CardsInv
    <3>4. CardFits(new, posted[c] + q.amount)
      BY <1>0, <3>1, <3>3 DEF CardFits, StatusOf
    <3> HIDE DEF new
    <3> QED
      BY <3>1, <3>2, <3>4, CardWritten
  <2> QED
    BY <2>1, <2>2, <2>3, <2>4, <2>5, <2>6
<1> QED
  BY <1>2, <1>3 DEF CardsInv

LEMMA CardsInvNext ==
  ASSUME OneHandler
  PROVE  TypeOK /\ CardsInv /\ [Next]_vars => CardsInv'
<1> SUFFICES ASSUME TypeOK, CardsInv, [Next]_vars PROVE CardsInv'
  OBVIOUS
<1>1. CASE UNCHANGED <<card, posted, req>>
  BY <1>1 DEF CardsInv, CardFresh, MayRedeem
<1>2. ASSUME NEW c \in Cards, Issue(c) PROVE CardsInv'
  <2>1. PICK amount \in 1 .. Cap :
          /\ card' = [card EXCEPT ![c] = [status |-> "ACTIVE", balance |-> amount]]
          /\ posted' = [posted EXCEPT ![c] = amount]
    BY <1>2 DEF Issue
  <2>2. CardFits([status |-> "ACTIVE", balance |-> amount], amount)
    BY CapAssumption DEF CardFits
  <2>3. \A x \in Cards : CardFits(card'[x], posted'[x])
    BY <2>1, <2>2, CardWritten
  <2>4. \A x \in Cards : card[x].status # "none" => card'[x] = card[x]
    BY <1>2, <2>1 DEF Issue, TypeOK, RowsOK
  <2>5. ASSUME NEW a \in Requests PROVE CardFresh(req[a])'
    <3>1. req'[a] = req[a] /\ CardFresh(req[a])
      BY <1>2 DEF Issue, CardsInv
    <3>2. CASE req[a].pc \notin {"redeem", "voidCard", "adjust"}
      BY <3>1, <3>2 DEF CardFresh
    <3>3. CASE req[a].pc \in {"redeem", "voidCard", "adjust"}
      <4>1. req[a].card \in Cards
        BY <3>3 DEF TypeOK, Local, WellFormed
      <4>2. card'[req[a].card] = card[req[a].card]
        BY <2>4, <3>1, <3>3, <4>1 DEF CardFresh
      <4> QED
        BY <3>1, <4>2 DEF CardFresh, MayRedeem
    <3> QED
      BY <3>2, <3>3
  <2> QED
    BY <2>3, <2>5 DEF CardsInv
<1>3. ASSUME NEW o \in Orders, CashSale(o) \/ Restore(o) PROVE CardsInv'
  BY <1>1, <1>3 DEF CashSale, Restore
<1>4. CASE UNCHANGED vars
  BY <1>1, <1>4 DEF vars
<1> QED
  BY <1>2, <1>3, <1>4, CardsInvReads, CardsInvCommits DEF Next

\* With one handler at a time, the card page included, every card's balance is
\* the sum of its ledger and a card can be used exactly while it has money.
THEOREM OneHandlerAddsUp ==
  ASSUME OneHandler
  PROVE  Spec => []CardsAddUp
<1>1. CardsInv => CardsAddUp
  BY DEF CardsInv, CardsAddUp, CardFits
<1> QED
  BY <1>1, CardsInvInit, CardsInvNext, TypeCorrect, PTL DEF Spec

-----------------------------------------------------------------------------
\* What a bill keeps, gave back and refunded, against what was paid for it.
KeptFits(row, taken) == row.back <= row.in /\ row.in - row.back + row.refunded <= taken

\* The trash holds at most one copy of a bill, and only of a deleted one.
BinFits(o) ==
  /\ \A s \in bin[o] : KeptFits(s, order[o].taken)
  /\ \A s, t \in bin[o] : s = t
  /\ bin[o] # {} => order[o].status = "deleted"

BillFits(row) ==
  /\ KeptFits(row, row.taken)
  /\ row.status = "deleted" => row.in = 0 /\ row.back = 0 /\ row.refunded = 0

\* What a handler read of its bill is what the bill still is.
BillFresh(q) ==
  /\ q.pc \in {"till", "redeem"} => order[q.order].status = "none"
  /\ q.pc \in {"void", "refund"} => order[q.order].status = "PAID"
  /\ q.pc = "refund" => /\ q.amount <= Collected(order[q.order])
                        /\ q.last => order[q.order].back = 0
  /\ q.pc = "remove" => q.kept = [status |-> order[q.order].status,
                                  in |-> order[q.order].in, back |-> order[q.order].back,
                                  refunded |-> order[q.order].refunded]

BillsInv == /\ \A o \in Orders : BillFits(order[o]) /\ BinFits(o)
            /\ \A r \in Requests : BillFresh(req[r])

\* A bill as one step rewrites it: its money rows, whatever is returned to its card.
SameMoney(new, row) ==
  /\ new.status = row.status /\ new.taken = row.taken
  /\ new.in = row.in /\ new.back = row.back /\ new.refunded = row.refunded

\* One bill rewritten, and with it perhaps what the trash keeps of it.
LEMMA BillWritten ==
  ASSUME TypeOK, BillsInv, NEW o \in Orders, NEW new, NEW kept,
         order' = [order EXCEPT ![o] = new], bin' = [bin EXCEPT ![o] = kept],
         BillFits(new),
         \A s \in kept : KeptFits(s, new.taken),
         \A s, t \in kept : s = t,
         kept # {} => new.status = "deleted"
  PROVE  \A x \in Orders : BillFits(order'[x]) /\ BinFits(x)'
<1> SUFFICES ASSUME NEW x \in Orders PROVE BillFits(order'[x]) /\ BinFits(x)'
  OBVIOUS
<1>1. CASE x = o
  <2>1. order'[x] = new /\ bin'[x] = kept
    BY <1>1 DEF TypeOK, RowsOK
  <2> QED
    BY <2>1 DEF BinFits
<1>2. CASE x # o
  <2>1. order'[x] = order[x] /\ bin'[x] = bin[x]
    BY <1>2 DEF TypeOK, RowsOK
  <2> QED
    BY <2>1 DEF BillsInv, BinFits
<1> QED
  BY <1>1, <1>2

LEMMA RecreditRow ==
  ASSUME RowsOK, NEW o \in Orders, NEW row \in OrderRow, Recredit(o, row)
  PROVE  \E new \in OrderRow :
           order' = [order EXCEPT ![o] = new] /\ SameMoney(new, row)
<1> DEFINE credit == order[o].redeemed
<1>1. credit \in Nat
  BY DEF RowsOK, OrderRow
<1>2. CASE credit > 0
  <2> DEFINE new == [row EXCEPT !.returned = row.returned + credit]
  <2>1. order' = [order EXCEPT ![o] = new]
    BY <1>2 DEF Recredit
  <2>2. new \in OrderRow /\ SameMoney(new, row)
    BY <1>1 DEF OrderRow, SameMoney
  <2> HIDE DEF new
  <2> QED
    BY <2>1, <2>2
<1>3. CASE ~(credit > 0)
  BY <1>3 DEF Recredit, SameMoney
<1> QED
  BY <1>2, <1>3

LEMMA SameMoneyFits ==
  ASSUME NEW new, NEW row, SameMoney(new, row), BillFits(row)
  PROVE  BillFits(new) /\ (\A s : KeptFits(s, new.taken) <=> KeptFits(s, row.taken))
BY DEF SameMoney, BillFits, KeptFits

LEMMA BillsInvInit == Init => BillsInv
BY DEF Init, BillsInv, BillFits, BinFits, BillFresh, KeptFits, Idle, Job

LEMMA BillsInvReads ==
  ASSUME OneHandler, TypeOK, BillsInv, NEW r \in Requests,
         \/ BeginSale(r) \/ SaleReads(r) \/ BeginVoid(r) \/ BeginRemove(r)
         \/ BeginRefund(r) \/ BeginVoidCard(r) \/ BeginAdjust(r) \/ Abandon(r)
  PROVE  BillsInv'
<1>1. UNCHANGED <<order, bin>>
  BY DEF BeginSale, SaleReads, BeginVoid, BeginRemove, BeginRefund, BeginVoidCard,
         BeginAdjust, Abandon
<1>2. ASSUME NEW q, req' = [req EXCEPT ![r] = q], BillFresh(q)
      PROVE  BillsInv'
  <2>1. \A a \in Requests : req'[a] = q
    BY <1>2 DEF OneHandler, TypeOK
  <2>2. \A a \in Requests : BillFresh(req[a])'
    BY <1>1, <1>2, <2>1 DEF BillFresh, Collected
  <2> QED
    BY <1>1, <2>2 DEF BillsInv, BinFits
<1>0. BillFresh(Idle)
  BY DEF BillFresh, Idle, Job
<1>3. CASE BeginSale(r)
  <2>1. PICK o \in Orders, c \in Cards, total \in 1 .. Cap :
          /\ order[o].status = "none"
          /\ Begin(r, Job("till", o, c, total, Least(card[c].balance, total), 0, FALSE))
    BY <1>3 DEF BeginSale
  <2>2. BillFresh(Job("till", o, c, total, Least(card[c].balance, total), 0, FALSE))
    BY <2>1 DEF BillFresh, Job
  <2> QED
    BY <1>2, <2>1, <2>2 DEF Begin
<1>4. CASE SaleReads(r)
  <2> DEFINE q == req[r]
             next == [q EXCEPT !.pc = "redeem", !.last = (card[q.card].balance = q.amount)]
  <2>1. q \in LocalRecord /\ q.pc = "till" /\ BillFresh(q)
    BY <1>4 DEF SaleReads, TypeOK, Local, BillsInv
  <2>2. next.pc = "redeem" /\ next.order = q.order
    BY <2>1 DEF LocalRecord
  <2>3. Done(r) \/ req' = [req EXCEPT ![r] = next]
    BY <1>4 DEF SaleReads
  <2> HIDE DEF next
  <2>4. BillFresh(next)
    BY <2>1, <2>2 DEF BillFresh
  <2> QED
    BY <1>0, <1>2, <2>3, <2>4 DEF Done
<1>5. CASE BeginVoid(r)
  <2>1. PICK o \in Orders :
          order[o].status = "PAID" /\ Begin(r, Job("void", o, None, 0, 0, 0, FALSE))
    BY <1>5 DEF BeginVoid, MayVoid
  <2>2. BillFresh(Job("void", o, None, 0, 0, 0, FALSE))
    BY <2>1 DEF BillFresh, Job
  <2> QED
    BY <1>2, <2>1, <2>2 DEF Begin
<1>6. CASE BeginRemove(r)
  <2>1. PICK o \in Orders :
          Begin(r, [Job("remove", o, None, 0, 0, 0, FALSE) EXCEPT
                      !.kept = [status |-> order[o].status, in |-> order[o].in,
                                back |-> order[o].back, refunded |-> order[o].refunded]])
    BY <1>6 DEF BeginRemove
  <2> DEFINE kept == [status |-> order[o].status, in |-> order[o].in,
                      back |-> order[o].back, refunded |-> order[o].refunded]
             q == [Job("remove", o, None, 0, 0, 0, FALSE) EXCEPT !.kept = kept]
  <2>2. q.pc = "remove" /\ q.order = o /\ q.kept = kept
    BY DEF Job
  <2>3. Begin(r, q)
    BY <2>1
  <2> HIDE DEF q
  <2>4. BillFresh(q)
    BY <2>2 DEF BillFresh
  <2> QED
    BY <1>2, <2>3, <2>4 DEF Begin
<1>7. CASE BeginRefund(r)
  <2>1. PICK o \in Orders, amount \in 1 .. Cap :
          /\ order[o].status = "PAID" /\ amount <= Collected(order[o])
          /\ Begin(r, Job("refund", o, None, 0, amount, 0,
                          amount = Collected(order[o]) /\ order[o].back = 0))
    BY <1>7 DEF BeginRefund
  <2>2. BillFresh(Job("refund", o, None, 0, amount, 0,
                      amount = Collected(order[o]) /\ order[o].back = 0))
    BY <2>1 DEF BillFresh, Job
  <2> QED
    BY <1>2, <2>1, <2>2 DEF Begin
<1>8. CASE BeginVoidCard(r)
  <2>1. PICK c \in Cards : Begin(r, Job("voidCard", None, c, 0, 0, card[c].balance, FALSE))
    BY <1>8 DEF BeginVoidCard
  <2>2. BillFresh(Job("voidCard", None, c, 0, 0, card[c].balance, FALSE))
    BY DEF BillFresh, Job
  <2> QED
    BY <1>2, <2>1, <2>2 DEF Begin
<1>9. CASE BeginAdjust(r)
  <2>1. PICK c \in Cards, delta \in (-Cap .. Cap) \ {0} :
          Begin(r, Job("adjust", None, c, 0, delta, card[c].balance + delta, FALSE))
    BY <1>9 DEF BeginAdjust
  <2>2. BillFresh(Job("adjust", None, c, 0, delta, card[c].balance + delta, FALSE))
    BY DEF BillFresh, Job
  <2> QED
    BY <1>2, <2>1, <2>2 DEF Begin
<1>10. CASE Abandon(r)
  BY <1>0, <1>2, <1>10 DEF Abandon, Done
<1> QED
  BY <1>3, <1>4, <1>5, <1>6, <1>7, <1>8, <1>9, <1>10

\* The transactions: each rewrites the handler's own bill, then it is done.
LEMMA BillsInvCommits ==
  ASSUME OneHandler, TypeOK, BillsInv, NEW r \in Requests,
         Redeem(r) \/ CommitVoid(r) \/ CommitRemove(r) \/ CommitRefund(r)
  PROVE  BillsInv'
<1> DEFINE q == req[r]
           o == req[r].order
           Books == \A x \in Orders : BillFits(order'[x]) /\ BinFits(x)'
<1>0. q \in Local /\ WellFormed(q) /\ q.amount \in Int /\ q.total \in Int /\ BillFresh(q)
  BY LocalFields DEF TypeOK, BillsInv
<1>1. Done(r)
  BY DEF Redeem, CommitVoid, CommitRemove, CommitRefund
<1>2. \A a \in Requests : BillFresh(req[a])'
  <2>1. \A a \in Requests : req'[a] = Idle
    BY <1>1, NoneAtWork
  <2> QED
    BY <2>1 DEF BillFresh, Idle, Job
<1>3. o \in Orders
  BY <1>0 DEF Redeem, CommitVoid, CommitRemove, CommitRefund, WellFormed
<1>4. /\ RowsOK /\ order[o] \in OrderRow /\ bin[o] \subseteq Snapshot
      /\ BillFits(order[o]) /\ BinFits(o)
  BY <1>3 DEF TypeOK, RowsOK, BillsInv
<1>5. Books
  <2>1. CASE Redeem(r)
    <3> DEFINE new == PaidOrder(q.card, q.amount, q.total)
    <3>1. q.pc = "redeem" /\ q.amount \in Nat /\ q.total - q.amount \in Nat
      BY <1>0, <2>1 DEF Redeem, WellFormed
    <3>2. order[o].status = "none" /\ bin[o] = {}
      BY <1>0, <1>4, <3>1 DEF BillFresh, BinFits
    <3>3. order' = order \/ order' = [order EXCEPT ![o] = new]
      BY <2>1 DEF Redeem
    <3>4. bin' = bin /\ bin' = [bin EXCEPT ![o] = bin[o]]
      BY <2>1, <1>4 DEF Redeem, RowsOK
    <3>5. BillFits(new)
      BY <3>1 DEF PaidOrder, BillFits, KeptFits
    <3> HIDE DEF new
    <3>6. CASE order' = order
      BY <3>4, <3>6 DEF BillsInv, BinFits
    <3>7. CASE order' = [order EXCEPT ![o] = new]
      BY <1>3, <3>2, <3>4, <3>5, <3>7, BillWritten
    <3> QED
      BY <3>3, <3>6, <3>7
  <2>2. ASSUME NEW row \in OrderRow, Recredit(o, row), bin' = bin, BillFits(row),
               order[o].status # "deleted"
        PROVE  Books
    <3>1. PICK new \in OrderRow : order' = [order EXCEPT ![o] = new] /\ SameMoney(new, row)
      BY <1>3, <1>4, <2>2, RecreditRow
    <3>2. bin[o] = {} /\ bin' = [bin EXCEPT ![o] = bin[o]]
      BY <1>4, <2>2 DEF BinFits, RowsOK
    <3>3. BillFits(new)
      BY <2>2, <3>1, SameMoneyFits
    <3> QED
      BY <1>3, <3>1, <3>2, <3>3, BillWritten
  <2>3. ASSUME NEW status \in {"VOID", "REFUNDED"}, order[o].status = "PAID"
        PROVE  /\ OffTheBooksAs(o, status) \in OrderRow
               /\ OffTheBooksAs(o, status).in = 0 /\ OffTheBooksAs(o, status).back = 0
               /\ OffTheBooksAs(o, status).refunded = order[o].refunded
               /\ OffTheBooksAs(o, status).taken = order[o].taken
               /\ OffTheBooksAs(o, status).status = status
    BY <1>4, <2>3 DEF OffTheBooksAs, OrderRow, InTable
  <2>4. CASE CommitVoid(r)
    <3> DEFINE row == OffTheBooksAs(o, "VOID")
    <3>1. order[o].status = "PAID" /\ Recredit(o, row) /\ bin' = bin
      BY <1>0, <2>4 DEF CommitVoid, BillFresh
    <3>2. row \in OrderRow /\ row.in = 0 /\ row.back = 0 /\ row.refunded = order[o].refunded
          /\ row.taken = order[o].taken /\ row.status = "VOID"
      BY <2>3, <3>1
    <3> HIDE DEF row
    <3>3. BillFits(row)
      BY <1>4, <3>2 DEF BillFits, KeptFits, OrderRow
    <3> QED
      BY <2>2, <3>1, <3>2, <3>3
  <2>5. CASE CommitRemove(r)
    <3> DEFINE row == [order[o] EXCEPT !.status = "deleted", !.in = 0, !.back = 0,
                                       !.refunded = IF q.kept.refunded > 0 THEN 0
                                                    ELSE order[o].refunded]
               kept == bin[o] \cup {q.kept}
    <3>1. q.pc = "remove" /\ q.kept \in Snapshot
      BY <1>0, <2>5 DEF CommitRemove, WellFormed
    <3>2. q.kept = [status |-> order[o].status, in |-> order[o].in, back |-> order[o].back,
                    refunded |-> order[o].refunded]
      BY <1>0, <3>1 DEF BillFresh
    <3>3. bin[o] = {} /\ kept = {q.kept}
      BY <1>4, <3>1, <3>2 DEF BinFits, Snapshot
    <3>4. /\ row \in OrderRow /\ row.status = "deleted" /\ row.taken = order[o].taken
          /\ row.in = 0 /\ row.back = 0 /\ row.refunded = 0
      <4> DEFINE left == IF q.kept.refunded > 0 THEN 0 ELSE order[o].refunded
      <4>1. order[o].refunded \in Nat /\ q.kept.refunded = order[o].refunded
        BY <1>4, <3>2 DEF OrderRow
      <4>2. left = 0
        BY <4>1
      <4>3. row = [order[o] EXCEPT !.status = "deleted", !.in = 0, !.back = 0, !.refunded = 0]
        BY <4>2
      <4> HIDE DEF row
      <4> QED
        BY <1>4, <4>3 DEF OrderRow
    <3>5. Recredit(o, row) \/ order' = [order EXCEPT ![o] = row]
      BY <1>3, <1>4, <2>5 DEF CommitRemove, RowsOK
    <3>6. bin' = [bin EXCEPT ![o] = kept]
      BY <1>3, <1>4, <2>5 DEF CommitRemove, RowsOK
    <3> HIDE DEF row
    <3>7. PICK new \in OrderRow : order' = [order EXCEPT ![o] = new] /\ SameMoney(new, row)
      BY <1>3, <1>4, <3>4, <3>5, RecreditRow DEF SameMoney
    <3>8. BillFits(row)
      BY <1>4, <3>4 DEF BillFits, KeptFits, OrderRow
    <3>9. KeptFits(q.kept, row.taken)
      BY <1>4, <3>2, <3>4 DEF BillFits, KeptFits
    <3>10. BillFits(new) /\ KeptFits(q.kept, new.taken) /\ new.status = "deleted"
      BY <3>4, <3>7, <3>8, <3>9, SameMoneyFits DEF SameMoney
    <3> HIDE DEF kept
    <3>11. /\ \A s \in kept : KeptFits(s, new.taken)
           /\ \A s, t \in kept : s = t
      BY <3>3, <3>10
    <3> QED
      BY <1>3, <3>6, <3>7, <3>10, <3>11, BillWritten
  <2>6. CASE CommitRefund(r)
    <3>1. /\ order[o].status = "PAID" /\ q.amount \in Nat /\ bin' = bin
          /\ q.amount <= order[o].in - order[o].back /\ (q.last => order[o].back = 0)
      BY <1>0, <2>6 DEF CommitRefund, WellFormed, BillFresh, Collected
    <3>2. CASE q.last
      <4> DEFINE off == OffTheBooksAs(o, "REFUNDED")
                 row == [off EXCEPT !.refunded = off.refunded + q.amount]
      <4>1. /\ off \in OrderRow /\ off.in = 0 /\ off.back = 0 /\ off.status = "REFUNDED"
            /\ off.refunded = order[o].refunded /\ off.taken = order[o].taken
        BY <2>3, <3>1
      <4>2. Recredit(o, row)
        BY <2>6, <3>2 DEF CommitRefund
      <4> HIDE DEF off
      <4>3. /\ row \in OrderRow /\ row.in = 0 /\ row.back = 0 /\ row.status = "REFUNDED"
            /\ row.refunded = order[o].refunded + q.amount /\ row.taken = order[o].taken
        BY <3>1, <4>1 DEF OrderRow
      <4> HIDE DEF row
      <4>4. BillFits(row)
        BY <1>4, <3>1, <3>2, <4>3 DEF BillFits, KeptFits, OrderRow
      <4> QED
        BY <2>2, <3>1, <4>2, <4>3, <4>4
    <3>3. CASE ~q.last
      <4> DEFINE row == [order[o] EXCEPT !.back = order[o].back + q.amount,
                                         !.refunded = order[o].refunded + q.amount]
      <4>1. order' = [order EXCEPT ![o] = row]
        BY <1>3, <1>4, <2>6, <3>3 DEF CommitRefund, RowsOK, OrderRow
      <4>2. /\ row.in = order[o].in /\ row.back = order[o].back + q.amount
            /\ row.refunded = order[o].refunded + q.amount
            /\ row.taken = order[o].taken /\ row.status = "PAID"
        BY <1>4, <3>1 DEF OrderRow
      <4> HIDE DEF row
      <4>3. BillFits(row)
        BY <1>4, <3>1, <4>2 DEF BillFits, KeptFits, OrderRow
      <4>4. bin[o] = {} /\ bin' = [bin EXCEPT ![o] = bin[o]]
        BY <1>4, <3>1 DEF BinFits, RowsOK
      <4> QED
        BY <1>3, <4>1, <4>3, <4>4, BillWritten
    <3> QED
      BY <3>2, <3>3
  <2> QED
    BY <2>1, <2>4, <2>5, <2>6
<1> QED
  BY <1>2, <1>5 DEF BillsInv

\* A bill rung up, or restored from the trash, while a handler is at another one.
LEMMA BillsInvDirect ==
  ASSUME TypeOK, BillsInv, NEW o \in Orders, CashSale(o) \/ Restore(o)
  PROVE  BillsInv'
<1>0. /\ RowsOK /\ order[o] \in OrderRow /\ bin[o] \subseteq Snapshot
      /\ BillFits(order[o]) /\ BinFits(o) /\ req' = req
  BY DEF TypeOK, RowsOK, BillsInv, CashSale, Restore
<1>1. \A x \in Orders \ {o} : order'[x] = order[x]
  BY <1>0 DEF CashSale, Restore, RowsOK
<1>2. \A a \in Requests : BillFresh(req[a])'
  <2> SUFFICES ASSUME NEW a \in Requests PROVE BillFresh(req[a])'
    OBVIOUS
  <2>1. BillFresh(req[a]) /\ req'[a] = req[a] /\ WellFormed(req[a])
    BY <1>0 DEF BillsInv, TypeOK, Local
  <2>2. CASE req[a].pc \notin {"till", "redeem", "void", "refund", "remove"}
    BY <2>1, <2>2 DEF BillFresh
  <2>3. CASE req[a].pc \in {"till", "redeem", "void", "refund", "remove"}
    <3>1. req[a].order \in Orders
      BY <2>1, <2>3 DEF WellFormed
    <3>2. req[a].order # o
      <4>1. CASE CashSale(o)
        BY <4>1 DEF CashSale
      <4>2. CASE Restore(o)
        <5>1. order[o].status = "deleted"
          BY <4>2 DEF Restore
        <5>2. req[a].pc = "remove" => req[a].kept.status \in {"PAID", "VOID", "REFUNDED"}
          BY <2>1 DEF WellFormed, Snapshot
        <5> QED
          BY <2>1, <2>3, <5>1, <5>2 DEF BillFresh
      <4> QED
        BY <4>1, <4>2
    <3>3. order'[req[a].order] = order[req[a].order]
      BY <1>1, <3>1, <3>2
    <3> QED
      BY <2>1, <3>3 DEF BillFresh, Collected
  <2> QED
    BY <2>2, <2>3
<1>3. CASE CashSale(o)
  <2>1. PICK total \in 1 .. Cap : order' = [order EXCEPT ![o] = PaidOrder(None, 0, total)]
    BY <1>3 DEF CashSale
  <2>2. BillFits(PaidOrder(None, 0, total))
    BY CapAssumption DEF PaidOrder, BillFits, KeptFits
  <2>3. bin[o] = {} /\ bin' = [bin EXCEPT ![o] = bin[o]]
    BY <1>0, <1>3 DEF BinFits, RowsOK, CashSale
  <2>4. \A x \in Orders : BillFits(order'[x]) /\ BinFits(x)'
    BY <2>1, <2>2, <2>3, BillWritten
  <2> QED
    BY <1>2, <2>4 DEF BillsInv
<1>4. CASE Restore(o)
  <2>1. PICK s \in bin[o] :
          /\ order' = [order EXCEPT ![o].status = s.status, ![o].in = @ + s.in,
                                    ![o].back = @ + s.back, ![o].refunded = @ + s.refunded]
          /\ bin' = [bin EXCEPT ![o] = @ \ {s}]
          /\ order[o].status = "deleted"
    BY <1>4 DEF Restore
  <2> DEFINE row == [order[o] EXCEPT !.status = s.status, !.in = order[o].in + s.in,
                                     !.back = order[o].back + s.back,
                                     !.refunded = order[o].refunded + s.refunded]
  <2>2. order' = [order EXCEPT ![o] = row]
    BY <1>0, <2>1 DEF RowsOK, OrderRow
  <2>3. s \in Snapshot /\ order[o].in = 0 /\ order[o].back = 0 /\ order[o].refunded = 0
    BY <1>0, <2>1 DEF BillFits
  <2>4. /\ s.in \in Nat /\ s.back \in Nat /\ s.refunded \in Nat
        /\ s.status \in {"PAID", "VOID", "REFUNDED"} /\ KeptFits(s, order[o].taken)
    BY <1>0, <2>3 DEF Snapshot, BinFits
  <2>5. /\ row.status = s.status /\ row.taken = order[o].taken
        /\ row.in = s.in /\ row.back = s.back /\ row.refunded = s.refunded
    BY <1>0, <2>3, <2>4 DEF OrderRow
  <2> HIDE DEF row
  <2>6. BillFits(row)
    BY <2>4, <2>5 DEF BillFits, KeptFits
  <2>7. bin[o] \ {s} = {} /\ bin' = [bin EXCEPT ![o] = bin[o] \ {s}]
    BY <1>0, <2>1 DEF BinFits, RowsOK
  <2>8. \A x \in Orders : BillFits(order'[x]) /\ BinFits(x)'
    BY <2>2, <2>6, <2>7, BillWritten
  <2> QED
    BY <1>2, <2>8 DEF BillsInv
<1> QED
  BY <1>3, <1>4

LEMMA BillsInvNext ==
  ASSUME OneHandler
  PROVE  TypeOK /\ BillsInv /\ [Next]_vars => BillsInv'
<1> SUFFICES ASSUME TypeOK, BillsInv, [Next]_vars PROVE BillsInv'
  OBVIOUS
<1>1. CASE UNCHANGED <<order, bin, req>>
  BY <1>1 DEF BillsInv, BinFits, BillFresh, Collected
<1>2. ASSUME NEW c \in Cards, Issue(c) PROVE BillsInv'
  BY <1>1, <1>2 DEF Issue
<1>3. ASSUME NEW r \in Requests, CommitVoidCard(r) \/ CommitAdjust(r) PROVE BillsInv'
  <2>1. Done(r) /\ UNCHANGED <<order, bin>>
    BY <1>3 DEF CommitVoidCard, CommitAdjust
  <2>2. \A a \in Requests : req'[a] = Idle
    BY <2>1, NoneAtWork
  <2> QED
    BY <2>1, <2>2 DEF BillsInv, BinFits, BillFresh, Idle, Job
<1>4. CASE UNCHANGED vars
  BY <1>1, <1>4 DEF vars
<1> QED
  BY <1>2, <1>3, <1>4, BillsInvDirect, BillsInvReads, BillsInvCommits DEF Next

\* With one handler at a time no bill gives back more money than it took, not even
\* one deleted, restored and refunded again.
THEOREM OneHandlerRefunds ==
  ASSUME OneHandler
  PROVE  Spec => []NeverRefundsMoreThanTaken
<1>1. TypeOK /\ BillsInv => NeverRefundsMoreThanTaken
  <2> SUFFICES ASSUME TypeOK, BillsInv, NEW o \in Orders
               PROVE  order[o].refunded <= order[o].taken
    BY DEF NeverRefundsMoreThanTaken
  <2>1. order[o] \in OrderRow /\ KeptFits(order[o], order[o].taken)
    BY DEF TypeOK, RowsOK, BillsInv, BillFits
  <2> QED
    BY <2>1 DEF KeptFits, OrderRow
<1> QED
  BY <1>1, BillsInvInit, BillsInvNext, TypeCorrect, PTL DEF Spec

-----------------------------------------------------------------------------
\* A reversal reaches a bill only while it counts as paid, and such a bill has
\* returned nothing yet.
LEMMA ReturnedNext ==
  ASSUME OneHandler, "restore" \notin Ops
  PROVE  /\ TypeOK /\ BillsInv /\ PaidBillKeepsCardMoney /\ ReturnedOnce /\ [Next]_vars
         => ReturnedOnce'
<1> SUFFICES ASSUME TypeOK, BillsInv, PaidBillKeepsCardMoney, ReturnedOnce, [Next]_vars
             PROVE  ReturnedOnce'
  OBVIOUS
<1>0. RowsOK
  BY DEF TypeOK
<1>1. CASE UNCHANGED order
  BY <1>1 DEF ReturnedOnce
<1>2. ASSUME NEW o \in Orders, NEW new, order' = [order EXCEPT ![o] = new],
             new.returned <= new.redeemed
      PROVE  ReturnedOnce'
  BY <1>0, <1>2 DEF ReturnedOnce, RowsOK
<1>3. ASSUME NEW o \in Orders, NEW row \in OrderRow, Recredit(o, row),
             row.returned = 0, row.redeemed = order[o].redeemed
      PROVE  ReturnedOnce'
  <2>1. order[o].redeemed \in Nat
    BY <1>0 DEF RowsOK, OrderRow
  <2>2. CASE order[o].redeemed > 0
    <3> DEFINE new == [row EXCEPT !.returned = row.returned + order[o].redeemed]
    <3>1. order' = [order EXCEPT ![o] = new]
      BY <1>3, <2>2 DEF Recredit
    <3>2. new.returned <= new.redeemed
      BY <1>3, <2>1 DEF OrderRow
    <3> HIDE DEF new
    <3> QED
      BY <1>2, <3>1, <3>2
  <2>3. CASE ~(order[o].redeemed > 0)
    BY <1>2, <1>3, <2>1, <2>3 DEF Recredit
  <2> QED
    BY <2>2, <2>3
<1>4. ASSUME NEW o \in Orders, CashSale(o) PROVE ReturnedOnce'
  <2>1. PICK total \in 1 .. Cap : order' = [order EXCEPT ![o] = PaidOrder(None, 0, total)]
    BY <1>4 DEF CashSale
  <2> DEFINE new == PaidOrder(None, 0, total)
  <2>2. new.returned <= new.redeemed
    BY DEF PaidOrder
  <2>3. order' = [order EXCEPT ![o] = new]
    BY <2>1
  <2> HIDE DEF new
  <2> QED
    BY <1>2, <2>2, <2>3
<1>5. ASSUME NEW r \in Requests,
             Redeem(r) \/ CommitVoid(r) \/ CommitRemove(r) \/ CommitRefund(r)
      PROVE  ReturnedOnce'
  <2> DEFINE q == req[r]
             o == req[r].order
  <2>0. q \in Local /\ WellFormed(q) /\ q.amount \in Int /\ BillFresh(q)
    BY LocalFields DEF TypeOK, BillsInv
  <2>1. o \in Orders
    BY <1>5, <2>0 DEF Redeem, CommitVoid, CommitRemove, CommitRefund, WellFormed
  <2>2. order[o] \in OrderRow /\ order[o].returned <= order[o].redeemed
    BY <1>0, <2>1 DEF RowsOK, ReturnedOnce
  <2>3. CASE Redeem(r)
    <3>1. q.amount \in Nat
      BY <2>0, <2>3 DEF Redeem, WellFormed
    <3>2. order' = order \/ order' = [order EXCEPT ![o] = PaidOrder(q.card, q.amount, q.total)]
      BY <2>3 DEF Redeem
    <3> QED
      BY <1>1, <1>2, <2>1, <3>1, <3>2 DEF PaidOrder
  <2>4. ASSUME NEW status \in {"VOID", "REFUNDED"}, order[o].status = "PAID"
        PROVE  /\ OffTheBooksAs(o, status) \in OrderRow
               /\ OffTheBooksAs(o, status).returned = 0
               /\ OffTheBooksAs(o, status).redeemed = order[o].redeemed
    BY <2>1, <2>2, <2>4 DEF OffTheBooksAs, OrderRow, InTable, PaidBillKeepsCardMoney
  <2>5. CASE CommitVoid(r)
    <3>1. order[o].status = "PAID" /\ Recredit(o, OffTheBooksAs(o, "VOID"))
      BY <2>0, <2>5 DEF CommitVoid, BillFresh
    <3> QED
      BY <1>3, <2>1, <2>4, <3>1
  <2>6. CASE CommitRemove(r)
    <3> DEFINE row == [order[o] EXCEPT !.status = "deleted", !.in = 0, !.back = 0,
                                       !.refunded = IF q.kept.refunded > 0 THEN 0
                                                    ELSE order[o].refunded]
    <3>1. q.kept = [status |-> order[o].status, in |-> order[o].in, back |-> order[o].back,
                    refunded |-> order[o].refunded]
      BY <2>0, <2>6 DEF CommitRemove, BillFresh
    <3>2. /\ row \in OrderRow /\ row.redeemed = order[o].redeemed
          /\ row.returned = order[o].returned
      BY <2>2, <3>1 DEF OrderRow
    <3>3. \/ order[o].status = "PAID" /\ Recredit(o, row)
          \/ order' = [order EXCEPT ![o] = row]
      BY <1>0, <2>1, <2>6, <3>1 DEF CommitRemove, RowsOK
    <3> HIDE DEF row
    <3>4. CASE order[o].status = "PAID" /\ Recredit(o, row)
      BY <1>3, <2>1, <3>2, <3>4 DEF PaidBillKeepsCardMoney
    <3>5. CASE order' = [order EXCEPT ![o] = row]
      BY <1>2, <2>1, <2>2, <3>2, <3>5
    <3> QED
      BY <3>3, <3>4, <3>5
  <2>7. CASE CommitRefund(r)
    <3>1. order[o].status = "PAID" /\ q.amount \in Nat
      BY <2>0, <2>7 DEF CommitRefund, BillFresh, WellFormed
    <3>2. CASE q.last
      <4> DEFINE off == OffTheBooksAs(o, "REFUNDED")
                 row == [off EXCEPT !.refunded = off.refunded + q.amount]
      <4>1. off \in OrderRow /\ off.returned = 0 /\ off.redeemed = order[o].redeemed
        BY <2>4, <3>1
      <4>2. Recredit(o, row)
        BY <2>7, <3>2 DEF CommitRefund
      <4> HIDE DEF off
      <4>3. row \in OrderRow /\ row.returned = 0 /\ row.redeemed = order[o].redeemed
        BY <3>1, <4>1 DEF OrderRow
      <4> HIDE DEF row
      <4> QED
        BY <1>3, <2>1, <4>2, <4>3
    <3>3. CASE ~q.last
      <4>1. \A x \in Orders : order'[x].returned = order[x].returned
                              /\ order'[x].redeemed = order[x].redeemed
        BY <1>0, <2>1, <2>7, <3>3 DEF CommitRefund, RowsOK, OrderRow
      <4> QED
        BY <4>1 DEF ReturnedOnce
    <3> QED
      BY <3>2, <3>3
  <2> QED
    BY <1>5, <2>3, <2>5, <2>6, <2>7
<1>6. ASSUME NEW c \in Cards, Issue(c) PROVE ReturnedOnce'
  BY <1>1, <1>6 DEF Issue
<1>7. ASSUME NEW r \in Requests,
             \/ BeginSale(r) \/ SaleReads(r) \/ BeginVoid(r) \/ BeginRemove(r)
             \/ BeginRefund(r) \/ BeginVoidCard(r) \/ BeginAdjust(r) \/ Abandon(r)
             \/ CommitVoidCard(r) \/ CommitAdjust(r)
      PROVE  ReturnedOnce'
  <2>1. UNCHANGED order
    BY <1>7 DEF BeginSale, SaleReads, BeginVoid, BeginRemove, BeginRefund, BeginVoidCard,
                BeginAdjust, Abandon, CommitVoidCard, CommitAdjust
  <2> QED
    BY <1>1, <2>1
<1>8. CASE UNCHANGED vars
  BY <1>1, <1>8 DEF vars
<1>9. \A o \in Orders : ~Restore(o)
  BY DEF Restore
<1> QED
  BY <1>4, <1>5, <1>6, <1>7, <1>8, <1>9 DEF Next

\* With one handler at a time, and no bill back from the trash, a bill returns its
\* card's money at most once, whatever voids, refunds and deletions follow.
THEOREM OneHandlerReturnsOnce ==
  ASSUME OneHandler, "restore" \notin Ops
  PROVE  Spec => []ReturnedOnce
<1>1. Init => ReturnedOnce
  BY DEF Init, ReturnedOnce
<1> QED
  BY <1>1, ReturnedNext, BillsInvInit, BillsInvNext, TypeCorrect, BillsCorrect, PTL DEF Spec

-----------------------------------------------------------------------------
(* The purse.  Handlers overlap as they like: a bill's money comes from a  *)
(* card that was sold, and a bill on its way through the till is nobody    *)
(* else's until its sale commits.                                          *)

\* A bill not made yet took nothing; one that took something took it from a card.
PurseFits(o) ==
  /\ order[o].status = "none" =>
       order[o].card = None /\ order[o].redeemed = 0 /\ order[o].returned = 0
  /\ order[o].redeemed > 0 => card[order[o].card].status # "none"

\* What request r still relies on when it writes.
PurseReady(r, q) ==
  /\ q.pc \in {"till", "redeem"} =>
       /\ order[q.order].status = "none" /\ q.amount \in 1 .. Cap
       /\ \A a \in Requests \ {r} : req[a].pc \in {"till", "redeem"} => req[a].order # q.order
  /\ q.pc \in {"void", "remove", "refund"} => order[q.order].status # "none"
  /\ q.pc \in {"till", "redeem", "voidCard", "adjust"} => card[q.card].status # "none"
  /\ q.pc = "adjust" => q.balance \in 0 .. Cap

PurseInv == /\ \A o \in Orders : PurseFits(o)
            /\ \A r \in Requests : PurseReady(r, req[r])

\* With one handler and no trash, what a reversal read of its bill is still so.
OnceInv == OneHandler /\ "restore" \notin Ops => BillsInv /\ PaidBillKeepsCardMoney

LEMMA PurseInit == Init => PurseInv /\ Money!Init
BY DEF Init, PurseInv, PurseFits, PurseReady, Idle, Job, Money!Init, SoldCards, MoneyOn,
       PaidBy, TakenOf, ReturnedOf

LEMMA OnceInit == Init => OnceInv
BY BillsInvInit, BillsInit DEF OnceInv

LEMMA OnceNext == TypeOK /\ OnceInv /\ [Next]_vars => OnceInv'
<1> SUFFICES ASSUME TypeOK, OnceInv, [Next]_vars, OneHandler, "restore" \notin Ops
             PROVE  BillsInv' /\ PaidBillKeepsCardMoney'
  BY DEF OnceInv, OneHandler
<1>1. BillsInv /\ PaidBillKeepsCardMoney
  BY DEF OnceInv
<1> QED
  BY <1>1, BillsInvNext, BillsNext

\* A read that finds what its transaction relies on.
LEMMA PurseBegins ==
  ASSUME TypeOK, PurseInv, NEW r \in Requests, NEW q, req' = [req EXCEPT ![r] = q],
         PurseReady(r, q), UNCHANGED <<card, order>>
  PROVE  PurseInv'
<1>1. \A o \in Orders : PurseFits(o)'
  BY DEF PurseInv, PurseFits
<1>2. ASSUME NEW b \in Requests PROVE PurseReady(b, req[b])'
  <2>1. req'[b] = IF b = r THEN q ELSE req[b]
    BY DEF TypeOK
  <2>2. PurseReady(b, req[b]) /\ PurseReady(r, q)
    BY DEF PurseInv
  <2>3. CASE b = r
    <3>1. \A a \in Requests \ {r} : req'[a] = req[a]
      BY DEF TypeOK
    <3> QED
      BY <2>1, <2>2, <2>3, <3>1 DEF PurseReady
  <2>4. CASE b # r
    <3>1. \A a \in Requests \ {b} : req'[a] = req[a] \/ (a = r /\ req'[a] = q)
      BY DEF TypeOK
    <3> QED
      BY <2>1, <2>2, <2>4, <3>1 DEF PurseReady
  <2> QED
    BY <2>3, <2>4
<1> QED
  BY <1>1, <1>2 DEF PurseInv

\* A write: sold cards stay sold, every bill is as it was or is now made, by the
\* request that is done or of money on a sold card.
LEMMA PurseWrites ==
  ASSUME TypeOK, PurseInv,
         \A r \in Requests : req'[r] \in {req[r], Idle},
         \A c \in Cards : card[c].status # "none" => card'[c].status # "none",
         \A o \in Orders :
           \/ order'[o] = order[o]
           \/ /\ order'[o].status # "none"
              /\ order'[o].redeemed > 0 =>
                   order'[o].card \in Cards /\ card'[order'[o].card].status # "none"
              /\ \A r \in Requests : req'[r].pc \in {"till", "redeem"} => req'[r].order # o
  PROVE  PurseInv'
<1>1. ASSUME NEW o \in Orders PROVE PurseFits(o)'
  <2>1. PurseFits(o) /\ (order[o].redeemed > 0 => order[o].card \in Cards)
    BY DEF PurseInv, TypeOK, RowsOK
  <2> QED
    BY <2>1 DEF PurseFits
<1>2. ASSUME NEW r \in Requests PROVE PurseReady(r, req[r])'
  <2>1. CASE req'[r] = Idle
    BY <2>1 DEF PurseReady, Idle, Job
  <2>2. CASE req'[r] = req[r]
    <3> DEFINE q == req[r]
    <3>1. PurseReady(r, q) /\ WellFormed(q)
      BY LocalFields DEF PurseInv, TypeOK
    <3>2. \A a \in Requests : req'[a].pc \in {"till", "redeem"} => req'[a] = req[a]
      BY DEF Idle, Job
    <3>3. q.pc \in {"till", "redeem"} => order'[q.order] = order[q.order]
      BY <2>2, <3>1 DEF WellFormed
    <3>4. q.pc \in {"void", "remove", "refund"} => order'[q.order].status # "none"
      BY <3>1 DEF WellFormed, PurseReady
    <3>5. q.pc \in {"till", "redeem", "voidCard", "adjust"} => card'[q.card].status # "none"
      BY <3>1 DEF WellFormed, PurseReady
    <3> QED
      BY <2>2, <3>1, <3>2, <3>3, <3>4, <3>5 DEF PurseReady
  <2> QED
    BY <2>1, <2>2
<1> QED
  BY <1>1, <1>2 DEF PurseInv

\* Rows that are worth the same are the same purse.
LEMMA SamePurse ==
  ASSUME \A c \in Cards : /\ card'[c].balance = card[c].balance
                          /\ card'[c].status = "none" <=> card[c].status = "none",
         \A o \in Orders : /\ order'[o].card = order[o].card
                           /\ order'[o].redeemed = order[o].redeemed
                           /\ order'[o].returned = order[o].returned
  PROVE  UNCHANGED Money!vars
<1>1. SoldCards' = SoldCards /\ MoneyOn' = MoneyOn
  BY DEF SoldCards, MoneyOn
<1>2. PaidBy' = PaidBy /\ TakenOf' = TakenOf /\ ReturnedOf' = ReturnedOf
  BY DEF PaidBy, TakenOf, ReturnedOf
<1> QED
  BY <1>1, <1>2 DEF Money!vars

\* The reads move no money.
LEMMA PurseReads ==
  ASSUME TypeOK, PurseInv, NEW r \in Requests,
         \/ BeginSale(r) \/ SaleReads(r) \/ BeginVoid(r) \/ BeginRemove(r)
         \/ BeginRefund(r) \/ BeginVoidCard(r) \/ BeginAdjust(r) \/ Abandon(r)
  PROVE  PurseInv' /\ UNCHANGED Money!vars
<1>1. UNCHANGED <<card, order>>
  BY DEF BeginSale, SaleReads, BeginVoid, BeginRemove, BeginRefund, BeginVoidCard,
         BeginAdjust, Abandon
<1>2. UNCHANGED Money!vars
  BY <1>1, SamePurse
<1>3. Cap \in Nat /\ PurseReady(r, req[r]) /\ WellFormed(req[r])
  BY CapAssumption, LocalFields DEF PurseInv, TypeOK
<1>4. \A a \in Requests : req[a].pc \in {"till", "redeem"} => order[req[a].order].status = "none"
  BY DEF PurseInv, PurseReady
<1>5. \A q : Begin(r, q) => req' = [req EXCEPT ![r] = q]
  BY DEF Begin
<1>6. CASE Done(r)
  <2>1. PurseReady(r, Idle)
    BY DEF PurseReady, Idle, Job
  <2> QED
    BY <1>1, <1>2, <1>6, <2>1, PurseBegins DEF Done
<1>7. CASE BeginSale(r)
  <2>1. PICK o \in Orders, c \in Cards, total \in 1 .. Cap :
          /\ order[o].status = "none" /\ \A q \in Requests : req[q].order # o
          /\ card[c].status = "ACTIVE" /\ card[c].balance > 0
          /\ Begin(r, Job("till", o, c, total, Least(card[c].balance, total), 0, FALSE))
    BY <1>7 DEF BeginSale
  <2> DEFINE q == Job("till", o, c, total, Least(card[c].balance, total), 0, FALSE)
  <2>2. Least(card[c].balance, total) \in 1 .. Cap
    BY <1>3, <2>1 DEF Least, TypeOK, RowsOK, CardRow
  <2>3. PurseReady(r, q)
    BY <2>1, <2>2 DEF Job, PurseReady
  <2> QED
    BY <1>1, <1>2, <1>5, <2>1, <2>3, PurseBegins
<1>8. CASE SaleReads(r) /\ ~Done(r)
  <2> DEFINE p == req[r]
             q == [p EXCEPT !.pc = "redeem", !.last = (card[p.card].balance = p.amount)]
  <2>1. p.pc = "till" /\ req' = [req EXCEPT ![r] = q] /\ p \in LocalRecord
    BY <1>8 DEF SaleReads, TypeOK, Local
  <2>2. q.pc = "redeem" /\ q.order = p.order /\ q.card = p.card /\ q.amount = p.amount
    BY <2>1 DEF LocalRecord
  <2> HIDE DEF q
  <2>3. PurseReady(r, q)
    BY <1>3, <2>1, <2>2 DEF PurseReady
  <2> QED
    BY <1>1, <1>2, <2>1, <2>3, PurseBegins
<1>9. ASSUME NEW q, req' = [req EXCEPT ![r] = q], q.pc \in {"void", "remove", "refund"},
             order[q.order].status # "none"
      PROVE  PurseInv'
  <2>1. PurseReady(r, q)
    BY <1>9 DEF PurseReady
  <2> QED
    BY <1>1, <1>9, <2>1, PurseBegins
<1>10. CASE BeginVoid(r)
  <2>1. PICK o \in Orders : MayVoid(order[o]) /\ Begin(r, Job("void", o, None, 0, 0, 0, FALSE))
    BY <1>10 DEF BeginVoid
  <2> QED
    BY <1>2, <1>5, <1>9, <2>1 DEF MayVoid, Job
<1>11. CASE BeginRemove(r)
  <2> DEFINE kept(o) == [status |-> order[o].status, in |-> order[o].in,
                         back |-> order[o].back, refunded |-> order[o].refunded]
             job(o) == Job("remove", o, None, 0, 0, 0, FALSE)
  <2>1. PICK o \in Orders : InTable(o) /\ Begin(r, [job(o) EXCEPT !.kept = kept(o)])
    BY <1>11 DEF BeginRemove
  <2> DEFINE q == [job(o) EXCEPT !.kept = kept(o)]
  <2>2. q.pc = "remove" /\ q.order = o
    BY DEF Job
  <2>3. order[o].status # "none" /\ req' = [req EXCEPT ![r] = q]
    BY <1>5, <2>1 DEF InTable
  <2> HIDE DEF q
  <2> QED
    BY <1>2, <1>9, <2>2, <2>3
<1>12. CASE BeginRefund(r)
  <2>1. PICK o \in Orders, amount \in 1 .. Cap :
          /\ order[o].status = "PAID"
          /\ Begin(r, Job("refund", o, None, 0, amount, 0,
                          amount = Collected(order[o]) /\ order[o].back = 0))
    BY <1>12 DEF BeginRefund
  <2> QED
    BY <1>2, <1>5, <1>9, <2>1 DEF Job
<1>13. CASE BeginVoidCard(r)
  <2>1. PICK c \in Cards :
          /\ card[c].status \notin {"none", "VOID"}
          /\ Begin(r, Job("voidCard", None, c, 0, 0, card[c].balance, FALSE))
    BY <1>13 DEF BeginVoidCard
  <2>2. PurseReady(r, Job("voidCard", None, c, 0, 0, card[c].balance, FALSE))
    BY <2>1 DEF PurseReady, Job
  <2> QED
    BY <1>1, <1>2, <1>5, <2>1, <2>2, PurseBegins
<1>14. CASE BeginAdjust(r)
  <2>1. PICK c \in Cards, delta \in (-Cap .. Cap) \ {0} :
          /\ MayAdjust(c, delta)
          /\ Begin(r, Job("adjust", None, c, 0, delta, card[c].balance + delta, FALSE))
    BY <1>14 DEF BeginAdjust
  <2>2. PurseReady(r, Job("adjust", None, c, 0, delta, card[c].balance + delta, FALSE))
    BY <2>1 DEF PurseReady, Job, MayAdjust
  <2> QED
    BY <1>1, <1>2, <1>5, <2>1, <2>2, PurseBegins
<1> QED
  BY <1>6, <1>7, <1>8, <1>10, <1>11, <1>12, <1>13, <1>14 DEF Abandon

\* Money back on a card: the whole of what the bill took, to the card that paid.
LEMMA PurseRecredits ==
  ASSUME TypeOK, PurseInv, NEW r \in Requests, Done(r),
         NEW o \in Orders, NEW row \in OrderRow, Recredit(o, row),
         order[o].status # "none", row.status # "none", row.card = order[o].card,
         row.redeemed = order[o].redeemed, row.returned = order[o].returned,
         OneHandler /\ "restore" \notin Ops => order[o].returned = 0
  PROVE  PurseInv' /\ [Money!Next]_(Money!vars)
<1> DEFINE c == order[o].card
           n == order[o].redeemed
<1>0. RowsOK /\ order[o] \in OrderRow /\ PurseFits(o)
  BY DEF TypeOK, RowsOK, PurseInv
<1>1. \A a \in Requests : req'[a] \in {req[a], Idle}
  BY DEF Done, TypeOK
<1>2. \A a \in Requests : req'[a].pc \in {"till", "redeem"} => req'[a].order # o
  BY <1>1 DEF PurseInv, PurseReady, Idle, Job
<1>3. CASE n > 0
  <2> DEFINE new == [row EXCEPT !.returned = row.returned + n]
             paid == [status |-> "ACTIVE", balance |-> card[c].balance + n]
  <2>1. c \in Cards /\ card[c].status # "none" /\ n \in Nat
    BY <1>0, <1>3 DEF RowsOK, PurseFits, OrderRow
  <2>2. card' = [card EXCEPT ![c] = paid] /\ order' = [order EXCEPT ![o] = new]
    BY <1>0, <1>3, <2>1 DEF Recredit, RowsOK
  <2>3. /\ new.status # "none" /\ new.card = c /\ new.redeemed = n
        /\ new.returned = order[o].returned + n
    BY DEF OrderRow
  <2>4. paid.status = "ACTIVE" /\ paid.balance = card[c].balance + n
    OBVIOUS
  <2> HIDE DEF new, paid
  <2>5. PurseInv'
    <3>1. \A x \in Cards : card[x].status # "none" => card'[x].status # "none"
      BY <1>0, <2>2, <2>4 DEF RowsOK
    <3>2. \A x \in Orders \ {o} : order'[x] = order[x]
      BY <1>0, <2>2 DEF RowsOK
    <3>3. order'[o] = new /\ card'[c].status # "none"
      BY <1>0, <2>1, <2>2, <2>4 DEF RowsOK
    <3> QED
      BY <1>1, <1>2, <2>1, <2>3, <3>1, <3>2, <3>3, PurseWrites
  <2>6. Money!GiveBack(o, c)
    <3>1. PaidBy[o] = c /\ TakenOf[o] = n /\ ReturnedOf[o] = order[o].returned
      BY DEF PaidBy, TakenOf, ReturnedOf
    <3>2. SoldCards' = SoldCards
      BY <1>0, <2>1, <2>2, <2>4 DEF SoldCards, RowsOK
    <3>3. MoneyOn' = [MoneyOn EXCEPT ![c] = @ + n]
      BY <1>0, <2>1, <2>2, <2>4 DEF MoneyOn, RowsOK
    <3>4. PaidBy' = PaidBy /\ TakenOf' = TakenOf
      BY <1>0, <2>2, <2>3 DEF PaidBy, TakenOf, RowsOK
    <3>5. ReturnedOf' = [ReturnedOf EXCEPT ![o] = @ + n]
      BY <1>0, <2>2, <2>3 DEF ReturnedOf, RowsOK
    <3> QED
      BY <1>3, <3>1, <3>2, <3>3, <3>4, <3>5 DEF Money!GiveBack
  <2> QED
    BY <2>1, <2>5, <2>6 DEF Money!Next
<1>4. CASE ~(n > 0)
  <2>1. card' = card /\ order' = [order EXCEPT ![o] = row]
    BY <1>4 DEF Recredit
  <2>2. \A x \in Orders \ {o} : order'[x] = order[x]
    BY <1>0, <2>1 DEF RowsOK
  <2>3. order'[o] = row
    BY <1>0, <2>1 DEF RowsOK
  <2>4. PurseInv'
    BY <1>1, <1>2, <1>4, <2>1, <2>2, <2>3, PurseWrites
  <2>5. UNCHANGED Money!vars
    BY <2>1, <2>2, <2>3, SamePurse
  <2> QED
    BY <2>4, <2>5
<1> QED
  BY <1>3, <1>4

\* The transactions on bills.
LEMMA PurseCommits ==
  ASSUME TypeOK, PurseInv, OnceInv, NEW r \in Requests,
         Redeem(r) \/ CommitVoid(r) \/ CommitRemove(r) \/ CommitRefund(r)
  PROVE  PurseInv' /\ [Money!Next]_(Money!vars)
<1> DEFINE q == req[r]
           o == req[r].order
<1>0. RowsOK /\ WellFormed(q) /\ q.amount \in Int /\ PurseReady(r, q)
  BY LocalFields DEF TypeOK, PurseInv
<1>1. o \in Orders /\ order[o] \in OrderRow /\ Done(r)
  BY <1>0 DEF Redeem, CommitVoid, CommitRemove, CommitRefund, WellFormed, RowsOK
<1>2. \A a \in Requests : req'[a] \in {req[a], Idle}
  BY <1>1 DEF Done, TypeOK
<1>3. CASE Redeem(r) /\ ~MayRedeem(card[q.card], q.amount)
  <2>1. UNCHANGED <<card, order>>
    BY <1>3 DEF Redeem
  <2> QED
    BY <1>2, <2>1, PurseWrites, SamePurse
<1>4. CASE Redeem(r) /\ MayRedeem(card[q.card], q.amount)
  <2> DEFINE c == q.card
             n == q.amount
             new == PaidOrder(c, n, q.total)
             spent == [status |-> IF q.last THEN "REDEEMED" ELSE "ACTIVE",
                       balance |-> card[c].balance - n]
  <2>1. /\ c \in Cards /\ card[c].status # "none" /\ n \in 1 .. Cap
        /\ order[o].status = "none" /\ n <= card[c].balance
    BY <1>0, <1>4 DEF Redeem, WellFormed, PurseReady, MayRedeem, RowsOK, CardRow
  <2>2. card' = [card EXCEPT ![c] = spent] /\ order' = [order EXCEPT ![o] = new]
    BY <1>0, <1>4, <2>1 DEF Redeem, RowsOK
  <2>3. new.status # "none" /\ new.card = c /\ new.redeemed = n /\ new.returned = 0
    BY DEF PaidOrder
  <2>4. spent.status # "none" /\ spent.balance = card[c].balance - n
    OBVIOUS
  <2>5. order[o].card = None /\ order[o].redeemed = 0 /\ order[o].returned = 0
    BY <1>1, <2>1 DEF PurseInv, PurseFits
  <2> HIDE DEF new, spent
  <2>6. PurseInv'
    <3>1. \A x \in Cards : card[x].status # "none" => card'[x].status # "none"
      BY <1>0, <2>2, <2>4 DEF RowsOK
    <3>2. \A x \in Orders \ {o} : order'[x] = order[x]
      BY <1>0, <2>2 DEF RowsOK
    <3>3. order'[o] = new /\ card'[c].status # "none"
      BY <1>0, <1>1, <2>1, <2>2, <2>4 DEF RowsOK
    <3>4. \A a \in Requests : req'[a].pc \in {"till", "redeem"} => req'[a].order # o
      <4>1. req'[r] = Idle
        BY <1>1 DEF Done, TypeOK
      <4>2. \A a \in Requests \ {r} : req[a].pc \in {"till", "redeem"} => req[a].order # o
        BY <1>0, <1>4 DEF Redeem, PurseReady
      <4> QED
        BY <1>2, <4>1, <4>2 DEF Idle, Job
    <3> QED
      BY <1>2, <2>1, <2>3, <3>1, <3>2, <3>3, <3>4, PurseWrites
  <2>7. Money!Spend(o, c)
    <3>1. PaidBy[o] = None /\ c \in SoldCards /\ n <= MoneyOn[c] /\ n \in 1 .. Cap
      BY <1>1, <2>1, <2>5 DEF PaidBy, SoldCards, MoneyOn
    <3>2. SoldCards' = SoldCards
      BY <1>0, <2>1, <2>2, <2>4 DEF SoldCards, RowsOK
    <3>3. MoneyOn' = [MoneyOn EXCEPT ![c] = @ - n]
      BY <1>0, <2>1, <2>2, <2>4 DEF MoneyOn, RowsOK
    <3>4. PaidBy' = [PaidBy EXCEPT ![o] = c] /\ TakenOf' = [TakenOf EXCEPT ![o] = n]
      BY <1>0, <1>1, <2>2, <2>3 DEF PaidBy, TakenOf, RowsOK
    <3>5. ReturnedOf' = ReturnedOf
      BY <1>0, <1>1, <2>2, <2>3, <2>5 DEF ReturnedOf, RowsOK
    <3> QED
      BY <3>1, <3>2, <3>3, <3>4, <3>5 DEF Money!Spend
  <2> QED
    BY <1>1, <2>1, <2>6, <2>7 DEF Money!Next
<1>5. ASSUME q.pc = "remove", q.kept.status = "PAID", OneHandler, "restore" \notin Ops
      PROVE  order[o].returned = 0
  <2>1. q.kept = [status |-> order[o].status, in |-> order[o].in, back |-> order[o].back,
                  refunded |-> order[o].refunded]
    BY <1>5 DEF OnceInv, BillsInv, BillFresh
  <2>2. order[o].status = "PAID"
    BY <1>5, <2>1
  <2> QED
    BY <1>1, <1>5, <2>2 DEF OnceInv, PaidBillKeepsCardMoney
<1>6. ASSUME q.pc \in {"void", "remove", "refund"}, NEW row \in OrderRow, row.status # "none",
             row.card = order[o].card, row.redeemed = order[o].redeemed,
             row.returned = order[o].returned, Recredit(o, row),
             OneHandler /\ "restore" \notin Ops => order[o].returned = 0
      PROVE  PurseInv' /\ [Money!Next]_(Money!vars)
  BY <1>0, <1>1, <1>6, PurseRecredits DEF PurseReady
<1>7. ASSUME q.pc \in {"void", "remove", "refund"}, NEW row \in OrderRow, row.status # "none",
             row.card = order[o].card, row.redeemed = order[o].redeemed,
             row.returned = order[o].returned,
             order' = [order EXCEPT ![o] = row], card' = card
      PROVE  PurseInv' /\ [Money!Next]_(Money!vars)
  <2>1. \A x \in Orders \ {o} : order'[x] = order[x]
    BY <1>0, <1>7 DEF RowsOK
  <2>2. order'[o] = row /\ order[o].status # "none"
    BY <1>0, <1>1, <1>7 DEF RowsOK, PurseReady
  <2>3. order[o].redeemed > 0 => order[o].card \in Cards /\ card'[order[o].card].status # "none"
    BY <1>0, <1>1, <1>7 DEF RowsOK, PurseInv, PurseFits
  <2>4. \A a \in Requests : req'[a].pc \in {"till", "redeem"} => req'[a].order # o
    BY <1>2, <2>2 DEF PurseInv, PurseReady, Idle, Job
  <2>5. PurseInv'
    BY <1>2, <1>7, <2>1, <2>2, <2>3, <2>4, PurseWrites
  <2> QED
    BY <1>7, <2>1, <2>2, <2>5, SamePurse
<1>8. CASE CommitVoid(r)
  <2> DEFINE row == OffTheBooksAs(o, "VOID")
  <2>1. q.pc = "void" /\ Recredit(o, row)
    BY <1>8 DEF CommitVoid
  <2>2. OneHandler /\ "restore" \notin Ops => order[o].returned = 0
    BY <1>1, <2>1 DEF OnceInv, BillsInv, BillFresh, PaidBillKeepsCardMoney
  <2>3. /\ row \in OrderRow /\ row.card = order[o].card /\ row.redeemed = order[o].redeemed
        /\ row.returned = order[o].returned /\ row.status # "none"
    BY <1>0, <1>1, <2>1 DEF OffTheBooksAs, OrderRow, InTable, PurseReady
  <2> HIDE DEF row
  <2> QED
    BY <1>6, <2>1, <2>2, <2>3
<1>9. CASE CommitRemove(r)
  <2> DEFINE row == [order[o] EXCEPT !.status = "deleted", !.in = 0, !.back = 0,
                                     !.refunded = IF q.kept.refunded > 0 THEN 0
                                                  ELSE order[o].refunded]
  <2>1. q.pc = "remove"
    BY <1>9 DEF CommitRemove
  <2>2. /\ row \in OrderRow /\ row.card = order[o].card /\ row.redeemed = order[o].redeemed
        /\ row.returned = order[o].returned /\ row.status # "none"
    BY <1>1 DEF OrderRow
  <2>3. \/ q.kept.status = "PAID" /\ Recredit(o, row)
        \/ order' = [order EXCEPT ![o] = row] /\ card' = card
    BY <1>0, <1>1, <1>9 DEF CommitRemove, RowsOK
  <2> HIDE DEF row
  <2>4. CASE q.kept.status = "PAID" /\ Recredit(o, row)
    BY <1>5, <1>6, <2>1, <2>2, <2>4
  <2>5. CASE order' = [order EXCEPT ![o] = row] /\ card' = card
    BY <1>7, <2>1, <2>2, <2>5
  <2> QED
    BY <2>3, <2>4, <2>5
<1>10. CASE CommitRefund(r)
  <2>1. q.pc = "refund" /\ q.amount \in Nat
    BY <1>0, <1>10 DEF CommitRefund, WellFormed
  <2>2. CASE q.last
    <3> DEFINE off == OffTheBooksAs(o, "REFUNDED")
               row == [off EXCEPT !.refunded = off.refunded + q.amount]
    <3>1. /\ off \in OrderRow /\ off.card = order[o].card /\ off.redeemed = order[o].redeemed
          /\ off.returned = order[o].returned /\ off.status # "none"
      BY <1>0, <1>1, <2>1 DEF OffTheBooksAs, OrderRow, InTable, PurseReady
    <3>2. Recredit(o, row)
      BY <1>10, <2>2 DEF CommitRefund
    <3> HIDE DEF off
    <3>3. /\ row \in OrderRow /\ row.card = order[o].card /\ row.redeemed = order[o].redeemed
          /\ row.returned = order[o].returned /\ row.status # "none"
      BY <2>1, <3>1 DEF OrderRow
    <3>4. OneHandler /\ "restore" \notin Ops => order[o].returned = 0
      BY <1>1, <2>1 DEF OnceInv, BillsInv, BillFresh, PaidBillKeepsCardMoney
    <3> HIDE DEF row
    <3> QED
      BY <1>6, <2>1, <3>2, <3>3, <3>4
  <2>3. CASE ~q.last
    <3> DEFINE row == [order[o] EXCEPT !.back = order[o].back + q.amount,
                                       !.refunded = order[o].refunded + q.amount]
    <3>1. order' = [order EXCEPT ![o] = row] /\ card' = card
      BY <1>0, <1>1, <1>10, <2>3 DEF CommitRefund, RowsOK
    <3>2. /\ row \in OrderRow /\ row.card = order[o].card /\ row.redeemed = order[o].redeemed
          /\ row.returned = order[o].returned /\ row.status = order[o].status
      <4>1. order[o].back + q.amount \in Nat /\ order[o].refunded + q.amount \in Nat
        BY <1>1, <2>1 DEF OrderRow
      <4> QED
        BY <1>1, <4>1 DEF OrderRow
    <3>3. order[o].status # "none"
      BY <1>0, <2>1 DEF PurseReady
    <3> HIDE DEF row
    <3> QED
      BY <1>7, <2>1, <3>1, <3>2, <3>3
  <2> QED
    BY <2>2, <2>3
<1> QED
  BY <1>3, <1>4, <1>8, <1>9, <1>10

\* The card's own page.
LEMMA PurseCards ==
  ASSUME TypeOK, PurseInv, NEW r \in Requests, CommitVoidCard(r) \/ CommitAdjust(r)
  PROVE  PurseInv' /\ [Money!Next]_(Money!vars)
<1> DEFINE q == req[r]
           c == req[r].card
<1>0. RowsOK /\ Cap \in Nat /\ WellFormed(q) /\ PurseReady(r, q)
  BY CapAssumption, LocalFields DEF TypeOK, PurseInv
<1>1. c \in Cards /\ card[c].status # "none" /\ Done(r) /\ order' = order
  BY <1>0 DEF CommitVoidCard, CommitAdjust, WellFormed, PurseReady
<1>2. PICK row : /\ card' = [card EXCEPT ![c] = row]
                 /\ row.status # "none" /\ row.balance \in 0 .. Cap
  <2>1. CASE CommitVoidCard(r)
    <3> DEFINE row == [status |-> "VOID", balance |-> 0]
    <3>1. card' = [card EXCEPT ![c] = row] /\ row.status # "none" /\ row.balance \in 0 .. Cap
      BY <1>0, <2>1 DEF CommitVoidCard
    <3> QED
      BY <3>1
  <2>2. CASE CommitAdjust(r)
    <3> DEFINE row == [status |-> StatusOf(q.balance), balance |-> q.balance]
    <3>1. card' = [card EXCEPT ![c] = row] /\ row.status # "none" /\ row.balance \in 0 .. Cap
      BY <1>0, <2>2 DEF CommitAdjust, PurseReady, StatusOf
    <3> QED
      BY <3>1
  <2> QED
    BY <2>1, <2>2
<1>3. PurseInv'
  <2>1. \A a \in Requests : req'[a] \in {req[a], Idle}
    BY <1>1 DEF Done, TypeOK
  <2>2. \A x \in Cards : card[x].status # "none" => card'[x].status # "none"
    BY <1>0, <1>2 DEF RowsOK
  <2> QED
    BY <1>1, <2>1, <2>2, PurseWrites
<1>4. Money!Correct(c)
  <2>1. c \in SoldCards /\ SoldCards' = SoldCards
    BY <1>0, <1>1, <1>2 DEF SoldCards, RowsOK
  <2>2. MoneyOn' = [MoneyOn EXCEPT ![c] = row.balance]
    BY <1>0, <1>1, <1>2 DEF MoneyOn, RowsOK
  <2>3. UNCHANGED <<PaidBy, TakenOf, ReturnedOf>>
    BY <1>1 DEF PaidBy, TakenOf, ReturnedOf
  <2>4. row.balance \in (1 .. Cap) \cup {0}
    BY <1>0, <1>2
  <2> QED
    BY <2>1, <2>2, <2>3, <2>4 DEF Money!Correct
<1> QED
  BY <1>1, <1>3, <1>4 DEF Money!Next

\* What has no reads: a card sold, a bill paid in cash, a bill back from the trash.
LEMMA PurseDirect ==
  ASSUME TypeOK, PurseInv,
         \/ \E c \in Cards : Issue(c)
         \/ \E o \in Orders : CashSale(o) \/ Restore(o)
  PROVE  PurseInv' /\ [Money!Next]_(Money!vars)
<1>0. RowsOK /\ (\A r \in Requests : req'[r] \in {req[r], Idle})
  BY DEF TypeOK, Issue, CashSale, Restore
<1>1. ASSUME NEW c \in Cards, Issue(c) PROVE PurseInv' /\ [Money!Next]_(Money!vars)
  <2>1. PICK n \in 1 .. Cap : card' = [card EXCEPT ![c] = [status |-> "ACTIVE", balance |-> n]]
    BY <1>1 DEF Issue
  <2>2. card[c].status = "none" /\ order' = order
    BY <1>1 DEF Issue
  <2>3. PurseInv'
    <3>1. \A x \in Cards : card[x].status # "none" => card'[x].status # "none"
      BY <1>0, <2>1 DEF RowsOK
    <3> QED
      BY <1>0, <2>2, <3>1, PurseWrites
  <2>4. Money!Sell(c)
    <3>1. c \notin SoldCards /\ SoldCards' = SoldCards \cup {c}
      BY <1>0, <2>1, <2>2 DEF SoldCards, RowsOK
    <3>2. MoneyOn' = [MoneyOn EXCEPT ![c] = n]
      BY <1>0, <2>1 DEF MoneyOn, RowsOK
    <3>3. UNCHANGED <<PaidBy, TakenOf, ReturnedOf>>
      BY <2>2 DEF PaidBy, TakenOf, ReturnedOf
    <3> QED
      BY <3>1, <3>2, <3>3 DEF Money!Sell
  <2> QED
    BY <2>3, <2>4 DEF Money!Next
<1>2. ASSUME NEW o \in Orders, NEW row, order' = [order EXCEPT ![o] = row], card' = card,
             row.status # "none", row.card = order[o].card,
             row.redeemed = order[o].redeemed, row.returned = order[o].returned,
             \A r \in Requests : req'[r].pc \in {"till", "redeem"} => req'[r].order # o
      PROVE  PurseInv' /\ [Money!Next]_(Money!vars)
  <2>1. \A x \in Orders \ {o} : order'[x] = order[x]
    BY <1>0, <1>2 DEF RowsOK
  <2>2. order'[o] = row
    BY <1>0, <1>2 DEF RowsOK
  <2>3. order[o].redeemed > 0 => order[o].card \in Cards /\ card'[order[o].card].status # "none"
    BY <1>0, <1>2 DEF RowsOK, PurseInv, PurseFits
  <2>4. PurseInv'
    BY <1>0, <1>2, <2>1, <2>2, <2>3, PurseWrites
  <2> QED
    BY <1>2, <2>1, <2>2, <2>4, SamePurse
<1>3. ASSUME NEW o \in Orders, CashSale(o) PROVE PurseInv' /\ [Money!Next]_(Money!vars)
  <2>1. PICK total \in 1 .. Cap : order' = [order EXCEPT ![o] = PaidOrder(None, 0, total)]
    BY <1>3 DEF CashSale
  <2>2. /\ card' = card /\ req' = req /\ order[o].status = "none"
        /\ \A r \in Requests : req[r].order # o
    BY <1>3 DEF CashSale
  <2>3. order[o].card = None /\ order[o].redeemed = 0 /\ order[o].returned = 0
    BY <2>2 DEF PurseInv, PurseFits
  <2> DEFINE row == PaidOrder(None, 0, total)
  <2>4. row.status # "none" /\ row.card = None /\ row.redeemed = 0 /\ row.returned = 0
    BY DEF PaidOrder
  <2>5. order' = [order EXCEPT ![o] = row]
    BY <2>1
  <2> HIDE DEF row
  <2>6. \A r \in Requests : req'[r].pc \in {"till", "redeem"} => req'[r].order # o
    BY <2>2
  <2>7. /\ row.status # "none" /\ row.card = order[o].card
        /\ row.redeemed = order[o].redeemed /\ row.returned = order[o].returned
    BY <2>3, <2>4
  <2>8. card' = card
    BY <2>2
  <2> QED
    BY <1>2, <2>5, <2>6, <2>7, <2>8
<1>4. ASSUME NEW o \in Orders, Restore(o) PROVE PurseInv' /\ [Money!Next]_(Money!vars)
  <2>1. PICK s \in bin[o] :
          order' = [order EXCEPT ![o].status = s.status, ![o].in = @ + s.in,
                                 ![o].back = @ + s.back, ![o].refunded = @ + s.refunded]
    BY <1>4 DEF Restore
  <2> DEFINE row == [order[o] EXCEPT !.status = s.status, !.in = @ + s.in,
                                     !.back = @ + s.back, !.refunded = @ + s.refunded]
  <2>2. card' = card /\ req' = req /\ order[o].status = "deleted" /\ s \in Snapshot
    BY <1>0, <1>4 DEF Restore, RowsOK
  <2>3. order' = [order EXCEPT ![o] = row]
    BY <1>0, <2>1 DEF RowsOK
  <2>4. /\ row.status # "none" /\ row.card = order[o].card
        /\ row.redeemed = order[o].redeemed /\ row.returned = order[o].returned
    BY <1>0, <2>2 DEF RowsOK, OrderRow, Snapshot
  <2> HIDE DEF row
  <2>5. \A r \in Requests : req'[r].pc \in {"till", "redeem"} => req'[r].order # o
    BY <2>2 DEF PurseInv, PurseReady
  <2> QED
    BY <1>2, <2>2, <2>3, <2>4, <2>5
<1> QED
  BY <1>1, <1>3, <1>4

LEMMA PurseNext ==
  TypeOK /\ PurseInv /\ OnceInv /\ [Next]_vars => PurseInv' /\ [Money!Next]_(Money!vars)
<1> SUFFICES ASSUME TypeOK, PurseInv, OnceInv, [Next]_vars
             PROVE  PurseInv' /\ [Money!Next]_(Money!vars)
  OBVIOUS
<1>1. CASE UNCHANGED vars
  <2>1. card' = card /\ order' = order /\ req' = req
    BY <1>1 DEF vars
  <2>2. \A r \in Requests : req'[r] \in {req[r], Idle}
    BY <2>1
  <2> QED
    BY <2>1, <2>2, PurseWrites, SamePurse
<1> QED
  BY <1>1, PurseDirect, PurseReads, PurseCommits, PurseCards DEF Next

\* The handlers of the till and of the card's page implement the purse, however many
\* are in flight and whatever is restored or interrupted: a sale takes money that is on
\* the card, a reversal brings back exactly what its bill took to the card that paid.
\* With one handler and no trash it comes back once.
THEOREM PurseImplements == Spec => PurseSpec
BY PurseInit, OnceInit, PurseNext, OnceNext, TypeCorrect, PTL DEF Spec, PurseSpec, Money!Spec
==============================================================================
