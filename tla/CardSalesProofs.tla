-------------------------- MODULE CardSalesProofs --------------------------
(***************************************************************************)
(* The sales of a till keep their types, and what is in the books was      *)
(* charged, once, for every number of tickets, uploads and refunds; with   *)
(* one admin at a time who gives card money back, they keep following the  *)
(* terminal.                                                               *)
(***************************************************************************)
EXTENDS CardSales, Sums, TLAPS

-----------------------------------------------------------------------------
(* Types.  First the screens, the rows and the requests, one by one. *)

Screens == {"cart", "charge", "poll", "stuck", "post", "done"}

LEMMA ScreenType ==
  ASSUME CardTypeOK, NEW pc \in Screens, Screen(pc)
  PROVE  till' \in Till
BY DEF CardTypeOK, Screen, Screens, Till, NoCheck, Recheck, NoRef, Open, Answers

\* The screen that follows a status.
LEMMA FollowType ==
  ASSUME NEW status
  PROVE  Follow(status) \in {"post", "poll", "cart"}
BY DEF Follow, Open

LEMMA SaidType ==
  ASSUME NEW r
  PROVE  Said(r) \in Answers
BY DEF Said, Answers

LEMMA CheckType ==
  ASSUME CardTypeOK, NEW r \in Refs, record[r].status \in Open \cup {"FAILED"}
  PROVE  Check(r) \in Recheck /\ Check(r).ref = r /\ Check(r) # NoCheck
BY SaidType, RefsAssumption DEF Check, Recheck, NoCheck, NoRef

\* What may be asked about is open, or failed.
LEMMA AskedStatus ==
  ASSUME CardTypeOK, NEW r \in Refs, record[r].status \notin {"SUCCEEDED", "CANCELED", "none"}
  PROVE  record[r].status \in Open \cup {"FAILED"}
BY DEF CardTypeOK, ChargeRow, Answers, Open

LEMMA WriteType ==
  ASSUME CardTypeOK, NEW c \in Recheck
  PROVE  Write(c) \in [Refs -> ChargeRow]
BY DEF CardTypeOK, Write, Recheck, ChargeRow, Answers

ClerkSteps == {"return", "void", "tally", "full", "settle", "mark"}

\* How a request of an admin moves on, or ends.
ClerkMoved(k) ==
  \/ clerk' = [clerk EXCEPT ![k] = NoClerk]
  \/ \E pc \in ClerkSteps : clerk' = [clerk EXCEPT ![k].pc = pc]
  \/ \E pc \in ClerkSteps, full \in BOOLEAN :
       clerk' = [clerk EXCEPT ![k].pc = pc, ![k].full = full]
  \/ \E pc \in ClerkSteps, how \in {"void", "tied", "loose"} :
       clerk' = [clerk EXCEPT ![k].pc = pc, ![k].how = how]

LEMMA ClerkMoves ==
  ASSUME NEW k \in Clerks,
         \/ AskReturn(k) \/ AskVoid(k) \/ TallyRefund(k)
         \/ CloseRecord(k) \/ SettleRefund(k) \/ MarkRefund(k)
  PROVE  ClerkMoved(k) /\ clerk[k].pc # "idle"
<1>1. CASE AskReturn(k) BY <1>1 DEF AskReturn, ClerkMoved, ClerkSteps
<1>2. CASE AskVoid(k) BY <1>2 DEF AskVoid, ClerkMoved, ClerkSteps
<1>3. CASE TallyRefund(k)
  <2> DEFINE full == refunded[clerk[k].ref] + clerk[k].cents >= Price
  <2>1. full \in BOOLEAN OBVIOUS
  <2>2. clerk' = [clerk EXCEPT ![k].pc = "full", ![k].full = full] /\ clerk[k].pc = "tally"
    BY <1>3 DEF TallyRefund
  <2> HIDE DEF full
  <2> QED BY <2>1, <2>2 DEF ClerkMoved, ClerkSteps
<1>4. CASE CloseRecord(k) BY <1>4 DEF CloseRecord, ClerkMoved, ClerkSteps
<1>5. CASE SettleRefund(k)
  <2>1. PICK how \in {"void", "tied", "loose"} :
           clerk' = [clerk EXCEPT ![k].pc = "mark", ![k].how = how]
    BY <1>5 DEF SettleRefund
  <2> QED BY <1>5, <2>1 DEF SettleRefund, ClerkMoved, ClerkSteps
<1>6. CASE MarkRefund(k) BY <1>6 DEF MarkRefund, ClerkMoved
<1> QED BY <1>1, <1>2, <1>3, <1>4, <1>5, <1>6

\* A clerk at work stays with its charge until it is done.
LEMMA ClerkType ==
  ASSUME CardTypeOK, NEW k \in Clerks, ClerkMoved(k)
  PROVE  /\ clerk' \in [Clerks -> Clerk]
         /\ \A j \in Clerks : j # k => clerk'[j] = clerk[j]
         /\ \/ clerk'[k].pc = "idle"
            \/ clerk'[k].ref = clerk[k].ref /\ clerk'[k].cents = clerk[k].cents
<1>1. NoClerk \in Clerk BY PriceAssumption DEF NoClerk, Clerk
<1>2. clerk[k] \in Clerk BY DEF CardTypeOK
<1>3. CASE clerk' = [clerk EXCEPT ![k] = NoClerk] BY <1>1, <1>3 DEF CardTypeOK, NoClerk
<1>4. CASE \E pc \in ClerkSteps : clerk' = [clerk EXCEPT ![k].pc = pc]
  <2>1. PICK pc \in ClerkSteps :
           clerk' = [clerk EXCEPT ![k] = [clerk[k] EXCEPT !.pc = pc]]
    BY <1>4
  <2>2. [clerk[k] EXCEPT !.pc = pc] \in Clerk BY <1>2 DEF Clerk, ClerkSteps
  <2>3. /\ [clerk[k] EXCEPT !.pc = pc].ref = clerk[k].ref
        /\ [clerk[k] EXCEPT !.pc = pc].cents = clerk[k].cents
    BY <1>2 DEF Clerk
  <2> QED BY <2>1, <2>2, <2>3 DEF CardTypeOK
<1>5. CASE \E pc \in ClerkSteps, full \in BOOLEAN : clerk' = [clerk EXCEPT ![k].pc = pc, ![k].full = full]
  <2>1. PICK pc \in ClerkSteps, full \in BOOLEAN :
           clerk' = [clerk EXCEPT ![k] = [clerk[k] EXCEPT !.pc = pc, !.full = full]]
    BY <1>5
  <2>2. [clerk[k] EXCEPT !.pc = pc, !.full = full] \in Clerk BY <1>2 DEF Clerk, ClerkSteps
  <2>3. /\ [clerk[k] EXCEPT !.pc = pc, !.full = full].ref = clerk[k].ref
        /\ [clerk[k] EXCEPT !.pc = pc, !.full = full].cents = clerk[k].cents
    BY <1>2 DEF Clerk
  <2> QED BY <2>1, <2>2, <2>3 DEF CardTypeOK
<1>6. CASE \E pc \in ClerkSteps, how \in {"void", "tied", "loose"} : clerk' = [clerk EXCEPT ![k].pc = pc, ![k].how = how]
  <2>1. PICK pc \in ClerkSteps, how \in {"void", "tied", "loose"} :
           clerk' = [clerk EXCEPT ![k] = [clerk[k] EXCEPT !.pc = pc, !.how = how]]
    BY ZenonT(30), <1>6
  <2>2. [clerk[k] EXCEPT !.pc = pc, !.how = how] \in Clerk BY <1>2 DEF Clerk, ClerkSteps
  <2>3. /\ [clerk[k] EXCEPT !.pc = pc, !.how = how].ref = clerk[k].ref
        /\ [clerk[k] EXCEPT !.pc = pc, !.how = how].cents = clerk[k].cents
    BY <1>2 DEF Clerk
  <2> QED BY <2>1, <2>2, <2>3 DEF CardTypeOK
<1> QED BY <1>3, <1>4, <1>5, <1>6 DEF ClerkMoved

\* What a refund writes in the books, and a void.
LEMMA BackType ==
  ASSUME CardTypeOK, NEW r \in Refs, NEW n \in Nat,
         \/ ledger' = [ledger EXCEPT ![r].back = @ + n]
         \/ ledger' = [ledger EXCEPT ![r].loose = @ + n]
  PROVE  ledger' \in [Refs -> Books]
<1>1. ledger[r] \in Books BY DEF CardTypeOK
<1>2. ledger[r].back + n \in Nat /\ ledger[r].loose + n \in Nat BY <1>1 DEF Books
<1> QED BY SMTT(30), <1>1, <1>2 DEF CardTypeOK, Books

LEMMA VoidType ==
  ASSUME CardTypeOK, NEW r \in Refs, VoidOrder(r)
  PROVE  ledger' \in [Refs -> Books] /\ order' \in [Refs -> {"none", "PAID", "VOID"}]
BY DEF CardTypeOK, VoidOrder, Books

LEMMA SaleType ==
  ASSUME CardTypeOK, NEW r \in Refs, MakeOrder(r)
  PROVE  ledger' \in [Refs -> Books] /\ order' \in [Refs -> {"none", "PAID", "VOID"}]
<1>1. ledger[r] \in Books /\ ledger[r].sale + Price \in Nat
  BY PriceAssumption DEF CardTypeOK, Books
<1> QED BY <1>1 DEF CardTypeOK, MakeOrder, Books

-----------------------------------------------------------------------------
(* What the types do not say: whom the screens and the requests speak of. *)

Taken(r) == terminal[r].state \in Charged

Refers ==
  /\ till.pc \notin {"cart", "done"} => till.ref \in Refs
  /\ till.check # NoCheck => /\ till.pc \in {"poll", "stuck"} /\ till.check.ref = till.ref
                             /\ record[till.ref].status # "none"
  /\ lister # NoCheck => lister.ref \in Refs /\ record[lister.ref].status # "none"
  /\ \A x \in Syncs : sync[x].pc # "idle" => sync[x].ref \in Refs
  /\ \A k \in Clerks :
       clerk[k].pc # "idle" => clerk[k].ref \in Refs /\ clerk[k].cents \in 1 .. Price
  /\ \A r \in Refs :
       /\ record[r].ext => record[r].status # "none"
       /\ r > till.ref => /\ charge[r] = "none" /\ terminal[r].state = "none"
                          /\ record[r].status = "none"
       /\ charge[r] \in {"arrived", "made"} => terminal[r].state = "none"

\* Whoever holds that a charge succeeded is right.
Told ==
  /\ \A r \in Refs :
       record[r].status \in {"SUCCEEDED", "CANCELED"} \/ charge[r] = "SUCCEEDED" => Taken(r)
  /\ till.check.said = "SUCCEEDED" => Taken(till.check.ref)
  /\ lister.said = "SUCCEEDED" => Taken(lister.ref)
  /\ till.pc = "post" => Taken(till.ref)
  /\ \A k \in Clerks : clerk[k].pc # "idle" => Taken(clerk[k].ref)

\* A sale on its way to the books, or in them.
Sold(r) == \/ order[r] # "none" \/ r \in queue \/ r \in late
           \/ \E x \in Syncs : sync[x].pc # "idle" /\ sync[x].ref = r

\* It was charged, or it was made offline, and nobody will charge it.
SoldWell ==
  \A r \in Refs : Sold(r) =>
    Taken(r) \/ (record[r].status = "none" /\ charge[r] = "none" /\ r <= till.ref)

\* Who has no order has no sale in the books.
SaleOfOrder ==
  \A r \in Refs : /\ ledger[r].sale <= Price
                  /\ order[r] = "none" => ledger[r].sale = 0

CardInv == CardTypeOK /\ Refers /\ Told /\ SoldWell /\ SaleOfOrder /\ Askable

-----------------------------------------------------------------------------
(* Types are kept: one step per action. *)

LEMMA CardInitType == CardInit => CardTypeOK
BY RefsAssumption, PriceAssumption DEF CardInit, CardTypeOK, Till, ChargeRow, Transaction,
   Books, Poster, NoPost, Clerk, NoClerk, NoRef, Recheck, NoCheck, Answers, Open

LEMMA CardStepType == CardTypeOK /\ Refers /\ [CardNext]_cardVars => CardTypeOK'
<1> SUFFICES ASSUME CardTypeOK, Refers, [CardNext]_cardVars PROVE CardTypeOK'
  OBVIOUS
<1>1. ASSUME NEW r \in Refs, PressPay(r) PROVE CardTypeOK'
  <2>1. till' \in Till BY <1>1 DEF PressPay, CardTypeOK, Till
  <2>2. charge' \in [Refs -> {"none", "arrived", "made", "asked"} \cup Answers]
    BY <1>1 DEF PressPay, CardTypeOK
  <2> QED BY <1>1, <2>1, <2>2 DEF PressPay, CardTypeOK
<1>2. ASSUME NEW r \in Refs, PressOffline(r) PROVE CardTypeOK'
  <2>1. till' \in Till BY <1>2 DEF PressOffline, CardTypeOK, Till
  <2> QED BY <1>2, <2>1 DEF PressOffline, CardTypeOK
<1>3. ASSUME HearCharge PROVE CardTypeOK'
  <2>1. till' \in Till BY <1>3, FollowType, ScreenType DEF HearCharge, Screens
  <2> QED BY <1>3, <2>1 DEF HearCharge, CardTypeOK
<1>4. ASSUME LoseCall \/ GiveUp \/ CloseStuck PROVE CardTypeOK'
  <2>1. till' \in Till BY <1>4, ScreenType DEF LoseCall, GiveUp, CloseStuck, Screens
  <2>2. \E w \in CardWorlds : allowed' \subseteq w
    BY <1>4 DEF LoseCall, GiveUp, CloseStuck, CardTypeOK
  <2> QED BY <1>4, <2>1, <2>2 DEF LoseCall, GiveUp, CloseStuck, CardTypeOK
<1>5. ASSUME NEW r \in Refs, MakeRecord(r) PROVE CardTypeOK'
  <2>1. record' \in [Refs -> ChargeRow] BY <1>5 DEF MakeRecord, CardTypeOK, ChargeRow
  <2> QED BY <1>5, <2>1 DEF MakeRecord, CardTypeOK
<1>6. ASSUME NEW r \in Refs, AskTerminal(r) PROVE CardTypeOK'
  <2>1. terminal' \in [Refs -> Transaction]
    BY <1>6 DEF AskTerminal, CardTypeOK, Transaction
  <2> QED BY <1>6, <2>1 DEF AskTerminal, CardTypeOK
<1>7. ASSUME NEW r \in Refs, Tap(r) PROVE CardTypeOK'
  <2>1. terminal' \in [Refs -> Transaction]
    BY <1>7 DEF Tap, CardTypeOK, Transaction, Charged
  <2> QED BY <1>7, <2>1 DEF Tap, CardTypeOK
<1>8. ASSUME NEW r \in Refs, AnswerCharge(r) PROVE CardTypeOK'
  <2>1. PICK status \in Answers :
           /\ charge' = [charge EXCEPT ![r] = status]
           /\ record' = [record EXCEPT ![r] = [status |-> status, ext |-> TRUE]]
    BY <1>8, SaidType DEF AnswerCharge, Referenced, Answers
  <2>2. record' \in [Refs -> ChargeRow] BY <2>1 DEF CardTypeOK, ChargeRow
  <2> QED BY <1>8, <2>1, <2>2 DEF AnswerCharge, CardTypeOK
<1>9. ASSUME NEW r \in Refs, CrashCharge(r) PROVE CardTypeOK'
  <2>1. till' \in Till BY <1>9, ScreenType DEF CrashCharge, Screens, CardTypeOK
  <2> QED BY <1>9, <2>1 DEF CrashCharge, CardTypeOK
<1>10. ASSUME PollAsk PROVE CardTypeOK'
  <2>1. till.ref \in Refs BY <1>10 DEF PollAsk, Refers
  <2>2. CASE Asks(till.ref)
    <3>1. Check(till.ref) \in Recheck
      BY <2>1, <2>2, AskedStatus, CheckType DEF Asks, Refers
    <3>2. till' \in Till BY <1>10, <2>2, <3>1 DEF PollAsk, CardTypeOK, Till
    <3> QED BY <1>10, <3>2 DEF PollAsk, CardTypeOK
  <2>3. CASE ~Asks(till.ref)
    <3>1. PICK pc \in Screens : Screen(pc)
      BY <1>10, <2>3, FollowType DEF PollAsk, Screens
    <3>2. till' \in Till BY <3>1, ScreenType
    <3> QED BY <1>10, <3>2 DEF PollAsk, CardTypeOK
  <2> QED BY <2>2, <2>3
<1>11. ASSUME PollHear PROVE CardTypeOK'
  <2>1. till.check \in Recheck BY DEF CardTypeOK, Till
  <2>2. record' \in [Refs -> ChargeRow] BY <1>11, <2>1, WriteType DEF PollHear
  <2>3. PICK pc \in Screens : Screen(pc) BY <1>11, FollowType DEF PollHear, Screens
  <2>4. till' \in Till BY <2>3, ScreenType
  <2> QED BY <1>11, <2>2, <2>4 DEF PollHear, CardTypeOK
<1>12. ASSUME NEW r \in Refs, ListAsk(r) PROVE CardTypeOK'
  <2>1. Check(r) \in Recheck BY <1>12, CheckType DEF ListAsk
  <2> QED BY <1>12, <2>1 DEF ListAsk, CardTypeOK
<1>13. ASSUME ListHear PROVE CardTypeOK'
  <2>1. record' \in [Refs -> ChargeRow] BY <1>13, WriteType DEF ListHear, CardTypeOK
  <2>2. lister' \in Recheck
    BY <1>13 DEF ListHear, Recheck, NoCheck, NoRef, Open, Answers
  <2> QED BY <1>13, <2>1, <2>2 DEF ListHear, CardTypeOK
<1>14. ASSUME TillPosts PROVE CardTypeOK'
  <2>1. till.ref \in Refs BY <1>14 DEF TillPosts, At, Refers
  <2>2. till' \in Till BY <1>14, ScreenType DEF TillPosts, Screens
  <2>3. ledger' \in [Refs -> Books] /\ order' \in [Refs -> {"none", "PAID", "VOID"}]
    BY <1>14, <2>1, SaleType DEF TillPosts, CardTypeOK
  <2>4. /\ queue' \subseteq Refs /\ late' \subseteq Refs
        /\ \E w \in CardWorlds : allowed' \subseteq w
    BY <1>14, <2>1 DEF TillPosts, Unreachable, CardTypeOK
  <2> QED BY <1>14, <2>2, <2>3, <2>4 DEF TillPosts, CardTypeOK
<1>15. ASSUME NEW r \in Refs, LateOrder(r) PROVE CardTypeOK'
  <2>1. ledger' \in [Refs -> Books] /\ order' \in [Refs -> {"none", "PAID", "VOID"}]
    BY <1>15, SaleType DEF LateOrder, CardTypeOK
  <2> QED BY <1>15, <2>1 DEF LateOrder, CardTypeOK
<1>16. ASSUME NEW x \in Syncs, SyncStart(x) PROVE CardTypeOK'
  <2>1. sync' \in [Syncs -> Poster] BY <1>16 DEF SyncStart, CardTypeOK, Poster
  <2> QED BY <1>16, <2>1 DEF SyncStart, CardTypeOK
<1>17. ASSUME NEW x \in Syncs, SyncPosts(x) PROVE CardTypeOK'
  <2>1. sync[x].ref \in Refs BY <1>17 DEF SyncPosts, Refers
  <2>2. ledger' \in [Refs -> Books] /\ order' \in [Refs -> {"none", "PAID", "VOID"}]
    BY <1>17, <2>1, SaleType DEF SyncPosts, CardTypeOK
  <2>3. /\ queue' \subseteq Refs /\ late' \subseteq Refs
        /\ \E w \in CardWorlds : allowed' \subseteq w
    BY <1>17, <2>1 DEF SyncPosts, SyncHears, Unreachable, CardTypeOK
  <2>4. sync' \in [Syncs -> Poster]
    BY <1>17 DEF SyncPosts, SyncHears, CardTypeOK, Poster, NoPost, NoRef
  <2> QED BY <1>17, <2>2, <2>3, <2>4 DEF SyncPosts, CardTypeOK
<1>18. ASSUME NEW k \in Clerks, BeginRefund(k) \/ BeginVoid(k) PROVE CardTypeOK'
  <2>1. PICK r \in Refs, pc \in {"return", "void"}, cents \in 0 .. Price :
           ClerkStarts(k, r, pc, cents)
    BY <1>18, PriceAssumption DEF BeginRefund, BeginVoid
  <2>2. [NoClerk EXCEPT !.pc = pc, !.ref = r, !.cents = cents] \in Clerk
    BY <2>1 DEF NoClerk, Clerk
  <2>3. clerk' \in [Clerks -> Clerk] BY <2>1, <2>2 DEF ClerkStarts, CardTypeOK
  <2> QED BY <2>1, <2>3 DEF ClerkStarts, CardTypeOK
<1>19. ASSUME NEW k \in Clerks, AskReturn(k) PROVE CardTypeOK'
  <2>1. clerk' \in [Clerks -> Clerk] BY <1>19, ClerkMoves, ClerkType
  <2>2. terminal' \in [Refs -> Transaction]
    <3>1. CASE UNCHANGED terminal BY <3>1 DEF CardTypeOK
    <3>2. CASE /\ clerk[k].cents \notin terminal[clerk[k].ref].back
               /\ terminal' = [terminal EXCEPT ![clerk[k].ref].back = @ \cup {clerk[k].cents}]
      <4>1. clerk[k].ref \in Refs /\ clerk[k].cents \in 1 .. Price
        BY <1>19, <3>2 DEF AskReturn, Refers
      <4> QED BY <3>2, <4>1 DEF CardTypeOK, Transaction
    <3> QED BY <1>19, <3>1, <3>2 DEF AskReturn
  <2> QED BY <1>19, <2>1, <2>2 DEF AskReturn, CardTypeOK
<1>20. ASSUME NEW k \in Clerks, AskVoid(k) PROVE CardTypeOK'
  <2>1. clerk[k].ref \in Refs BY <1>20 DEF AskVoid, Refers
  <2>2. clerk' \in [Clerks -> Clerk] BY <1>20, ClerkMoves, ClerkType
  <2>3. terminal' \in [Refs -> Transaction]
    BY <1>20, <2>1 DEF AskVoid, CardTypeOK, Transaction, Charged
  <2>4. refunded' \in [Refs -> Nat]
    BY <1>20, <2>1, PriceAssumption DEF AskVoid, CardTypeOK
  <2> QED BY <1>20, <2>2, <2>3, <2>4 DEF AskVoid, CardTypeOK
<1>21. ASSUME NEW k \in Clerks, TallyRefund(k) PROVE CardTypeOK'
  <2>1. clerk[k].ref \in Refs /\ clerk[k].cents \in Nat
    BY <1>21, PriceAssumption DEF TallyRefund, Refers, CardTypeOK, Clerk
  <2>2. clerk' \in [Clerks -> Clerk] BY <1>21, ClerkMoves, ClerkType
  <2>3. refunded' \in [Refs -> Nat] BY <1>21, <2>1 DEF TallyRefund, CardTypeOK
  <2> QED BY <1>21, <2>2, <2>3 DEF TallyRefund, CardTypeOK
<1>22. ASSUME NEW k \in Clerks, CloseRecord(k) PROVE CardTypeOK'
  <2>1. clerk' \in [Clerks -> Clerk] BY <1>22, ClerkMoves, ClerkType
  <2>2. record' \in [Refs -> ChargeRow] BY <1>22 DEF CloseRecord, CardTypeOK, ChargeRow
  <2> QED BY <1>22, <2>1, <2>2 DEF CloseRecord, CardTypeOK
<1>23. ASSUME NEW k \in Clerks, SettleRefund(k) PROVE CardTypeOK'
  <2>1. clerk' \in [Clerks -> Clerk] BY <1>23, ClerkMoves, ClerkType
  <2> QED BY <1>23, <2>1 DEF SettleRefund, CardTypeOK
<1>24. ASSUME NEW k \in Clerks, MarkRefund(k) PROVE CardTypeOK'
  <2>1. clerk[k].ref \in Refs /\ clerk[k].cents \in Nat
    BY <1>24, PriceAssumption DEF MarkRefund, Refers, CardTypeOK, Clerk
  <2>2. clerk' \in [Clerks -> Clerk] BY <1>24, ClerkMoves, ClerkType
  <2>3. \/ VoidOrder(clerk[k].ref)
        \/ UNCHANGED <<order, ledger>>
        \/ /\ UNCHANGED order
           /\ \/ ledger' = [ledger EXCEPT ![clerk[k].ref].back = @ + clerk[k].cents]
              \/ ledger' = [ledger EXCEPT ![clerk[k].ref].loose = @ + clerk[k].cents]
    BY <1>24 DEF MarkRefund
  <2>4. ledger' \in [Refs -> Books] /\ order' \in [Refs -> {"none", "PAID", "VOID"}]
    <3>1. CASE VoidOrder(clerk[k].ref) BY <2>1, <3>1, VoidType
    <3>2. CASE UNCHANGED <<order, ledger>> BY <3>2 DEF CardTypeOK
    <3>3. CASE /\ UNCHANGED order
               /\ \/ ledger' = [ledger EXCEPT ![clerk[k].ref].back = @ + clerk[k].cents]
                  \/ ledger' = [ledger EXCEPT ![clerk[k].ref].loose = @ + clerk[k].cents]
      <4> DEFINE ref == clerk[k].ref
      <4>1. ref \in Refs /\ clerk[k].cents \in Nat BY <2>1
      <4> QED BY <3>3, <4>1, BackType DEF CardTypeOK
    <3> QED BY <2>3, <3>1, <3>2, <3>3
  <2> QED BY <1>24, <2>2, <2>4 DEF MarkRefund, CardTypeOK
<1>25. ASSUME NEW r \in Refs, TillVoid(r) PROVE CardTypeOK'
  <2>1. ledger' \in [Refs -> Books] /\ order' \in [Refs -> {"none", "PAID", "VOID"}]
    BY <1>25, VoidType DEF TillVoid
  <2> QED BY <1>25, <2>1 DEF TillVoid, CardTypeOK
<1>26. CASE UNCHANGED cardVars BY <1>26 DEF cardVars, CardTypeOK
<1> QED
  BY <1>1, <1>2, <1>3, <1>4, <1>5, <1>6, <1>7, <1>8, <1>9, <1>10, <1>11, <1>12, <1>13, <1>14,
     <1>15, <1>16, <1>17, <1>18, <1>19, <1>20, <1>21, <1>22, <1>23, <1>24, <1>25, <1>26
     DEF CardNext

-----------------------------------------------------------------------------
(* What the steps do, as far as the invariants can tell. *)

\* The screen changes: to an order only when the charge succeeded.
LEMMA ScreenEffect ==
  ASSUME CardTypeOK, NEW pc \in Screens, Screen(pc)
  PROVE  till'.pc = pc /\ till'.ref = till.ref /\ till'.check = NoCheck
BY DEF CardTypeOK, Screen, Till

TillMoves == HearCharge \/ LoseCall \/ GiveUp \/ CloseStuck \/ PollAsk
               \/ \E r \in Refs : CrashCharge(r)

LEMMA TillEffect ==
  ASSUME CardTypeOK, Refers, Told, TillMoves
  PROVE  /\ UNCHANGED <<record, terminal, order, ledger, queue, late, sync, lister, clerk>>
         /\ till'.ref = till.ref
         /\ \A r \in Refs : charge'[r] = charge[r] \/ charge'[r] = "none"
         /\ "crash" \in allowed => "crash" \in allowed'
         /\ "crash" \notin allowed =>
              \A r \in Refs : charge[r] \in {"made", "asked"} => charge'[r] = charge[r]
         /\ till'.pc \notin {"cart", "done"} => till.ref \in Refs
         /\ till'.pc = "post" => Taken(till.ref)
         /\ till'.check # NoCheck =>
              /\ till'.pc \in {"poll", "stuck"} /\ till'.check.ref = till.ref
              /\ record[till.ref].status # "none"
              /\ till'.check.said = "SUCCEEDED" => Taken(till.ref)
<1>1. ASSUME NEW r \in Refs, CrashCharge(r)
      PROVE  /\ till' = till \/ (till'.pc = "cart" /\ till'.ref = till.ref /\ till'.check = NoCheck)
             /\ charge' = [charge EXCEPT ![r] = "none"]
             /\ "crash" \in allowed /\ allowed' = allowed
             /\ UNCHANGED <<record, terminal, order, ledger, queue, late, sync, lister, clerk>>
  BY <1>1, ScreenEffect DEF CrashCharge, Screens
<1>2. CASE \E r \in Refs : CrashCharge(r)
  BY <1>1, <1>2 DEF CardTypeOK, Refers, Told
<1>3. CASE LoseCall \/ GiveUp \/ CloseStuck
  <2>1. PICK pc \in {"cart", "stuck"} :
           /\ Screen(pc) /\ till.pc \notin {"cart", "done"}
           /\ UNCHANGED <<record, terminal, order, ledger, queue, late, sync, lister, clerk, charge>>
           /\ allowed' = allowed \/ allowed' = allowed \ {"lost"}
    BY <1>3 DEF LoseCall, GiveUp, CloseStuck, At
  <2>2. till'.pc = pc /\ till'.ref = till.ref /\ till'.check = NoCheck
    BY <2>1, ScreenEffect DEF Screens
  <2> QED BY <2>1, <2>2 DEF Refers
<1>4. CASE HearCharge
  <2>1. PICK pc \in {"post", "poll", "cart"} :
           /\ pc = Follow(charge[till.ref]) /\ Screen(pc)
           /\ charge' = [charge EXCEPT ![till.ref] = "none"]
           /\ charge[till.ref] \in Answers /\ till.pc = "charge"
           /\ UNCHANGED <<record, terminal, order, ledger, queue, late, sync, lister, clerk, allowed>>
    BY <1>4, FollowType DEF HearCharge, At
  <2>2. till'.pc = pc /\ till'.ref = till.ref /\ till'.check = NoCheck
    BY <2>1, ScreenEffect DEF Screens
  <2>3. till.ref \in Refs BY <2>1 DEF Refers
  <2>4. pc = "post" => charge[till.ref] = "SUCCEEDED" BY <2>1 DEF Follow
  <2>5. /\ \A r \in Refs : charge'[r] = charge[r] \/ charge'[r] = "none"
        /\ \A r \in Refs : charge[r] \in {"made", "asked"} => charge'[r] = charge[r]
    BY <2>1, <2>3 DEF CardTypeOK, Answers
  <2> QED BY <2>1, <2>2, <2>3, <2>4, <2>5 DEF Told
<1>5. CASE PollAsk
  <2>1. /\ till.pc \in {"poll", "stuck"} /\ till.ref \in Refs
        /\ UNCHANGED <<record, terminal, order, ledger, queue, late, sync, lister, clerk, charge,
                       allowed>>
    BY <1>5 DEF PollAsk, Refers
  <2>2. CASE Asks(till.ref)
    <3>1. /\ till'.pc = till.pc /\ till'.ref = till.ref /\ till'.check = Check(till.ref)
      BY <1>5, <2>2 DEF PollAsk, CardTypeOK, Till
    <3>2. /\ record[till.ref].status # "none" /\ Check(till.ref).ref = till.ref
          /\ Check(till.ref).said = Said(till.ref)
      BY <2>1, <2>2 DEF Asks, Refers, Check
    <3>3. Said(till.ref) = "SUCCEEDED" => Taken(till.ref) BY DEF Said, Taken
    <3> QED BY <2>1, <3>1, <3>2, <3>3
  <2>3. CASE ~Asks(till.ref)
    <3>1. PICK pc \in Screens :
             Screen(pc) /\ (pc = "post" => record[till.ref].status = "SUCCEEDED")
      <4>1. Follow(record[till.ref].status) = "post" => record[till.ref].status = "SUCCEEDED"
        BY DEF Follow
      <4> QED BY <1>5, <2>3, <4>1, FollowType DEF PollAsk, Screens
    <3>2. till'.pc = pc /\ till'.ref = till.ref /\ till'.check = NoCheck
      BY <3>1, ScreenEffect
    <3> QED BY <2>1, <3>1, <3>2 DEF Told
  <2> QED BY <2>2, <2>3
<1> QED BY <1>2, <1>3, <1>4, <1>5 DEF TillMoves

\* An answer is heard: no status is forgotten, and none succeeds that was not charged.
LEMMA WriteEffect ==
  ASSUME CardTypeOK, NEW c \in Recheck, c.ref \in Refs, record[c.ref].status # "none",
         c.said = "SUCCEEDED" => Taken(c.ref), record' = Write(c)
  PROVE  \A r \in Refs :
           /\ record'[r].ext = record[r].ext
           /\ record[r].status # "none" => record'[r].status # "none"
           /\ record[r].status = "none" => record'[r].status = "none"
           /\ record'[r].status \in {"SUCCEEDED", "CANCELED"}
                => record'[r].status = record[r].status \/ Taken(r)
BY DEF CardTypeOK, Write, Recheck, ChargeRow, Answers

LEMMA HearEffect ==
  ASSUME CardTypeOK, Refers, Told, PollHear \/ ListHear
  PROVE  /\ UNCHANGED <<charge, terminal, order, ledger, queue, late, sync, clerk, allowed>>
         /\ till'.ref = till.ref
         /\ till'.pc \notin {"cart", "done"} => till.ref \in Refs
         /\ till'.pc = "post" => Taken(till.ref)
         /\ till'.check # NoCheck => till' = till
         /\ lister' # NoCheck => lister' = lister
         /\ till'.check.said = "SUCCEEDED" => till' = till
         /\ lister'.said = "SUCCEEDED" => lister' = lister
         /\ \A r \in Refs :
              /\ record'[r].ext = record[r].ext
              /\ record[r].status # "none" => record'[r].status # "none"
              /\ record[r].status = "none" => record'[r].status = "none"
              /\ record'[r].status \in {"SUCCEEDED", "CANCELED"}
                   => record'[r].status = record[r].status \/ Taken(r)
<1>1. CASE PollHear
  <2> DEFINE c == till.check
  <2>1. /\ c \in Recheck /\ c # NoCheck /\ record' = Write(c)
        /\ UNCHANGED <<charge, terminal, order, ledger, queue, late, sync, lister, clerk, allowed>>
    BY <1>1 DEF PollHear, CardTypeOK, Till
  <2>2. /\ till.pc \in {"poll", "stuck"} /\ c.ref = till.ref /\ till.ref \in Refs
        /\ record[c.ref].status # "none" /\ (c.said = "SUCCEEDED" => Taken(c.ref))
    BY <2>1 DEF Refers, Told
  <2>3. PICK pc \in {"post", "poll", "cart", "stuck"} :
           Screen(pc) /\ (pc = "post" => c.said = "SUCCEEDED")
    <3>1. Follow(c.said) = "post" => c.said = "SUCCEEDED" BY DEF Follow
    <3> QED BY <1>1, <3>1, FollowType DEF PollHear
  <2>4. till'.pc = pc /\ till'.ref = till.ref /\ till'.check = NoCheck
    BY <2>3, ScreenEffect DEF Screens
  <2> HIDE DEF c
  <2>5. till'.pc \notin {"cart", "done"} => till.ref \in Refs BY <2>2
  <2>6. \A r \in Refs :
          /\ record'[r].ext = record[r].ext
          /\ record[r].status # "none" => record'[r].status # "none"
          /\ record[r].status = "none" => record'[r].status = "none"
          /\ record'[r].status \in {"SUCCEEDED", "CANCELED"}
               => record'[r].status = record[r].status \/ Taken(r)
    BY <2>1, <2>2, WriteEffect
  <2>7. till'.check.said # "SUCCEEDED" BY <2>4 DEF NoCheck
  <2> QED BY <2>1, <2>2, <2>3, <2>4, <2>5, <2>6, <2>7
<1>2. CASE ListHear
  <2>1. /\ lister \in Recheck /\ lister # NoCheck /\ record' = Write(lister)
        /\ lister' = NoCheck
        /\ UNCHANGED <<till, charge, terminal, order, ledger, queue, late, sync, clerk, allowed>>
    BY <1>2 DEF ListHear, CardTypeOK
  <2>2. \A r \in Refs :
          /\ record'[r].ext = record[r].ext
          /\ record[r].status # "none" => record'[r].status # "none"
          /\ record[r].status = "none" => record'[r].status = "none"
          /\ record'[r].status \in {"SUCCEEDED", "CANCELED"}
               => record'[r].status = record[r].status \/ Taken(r)
    BY <2>1, WriteEffect DEF Refers, Told
  <2>3. lister'.said # "SUCCEEDED" BY <2>1 DEF NoCheck
  <2> QED BY <2>1, <2>2, <2>3 DEF Refers, Told
<1> QED BY <1>1, <1>2

\* A sale is posted, or kept for later.
LEMMA MakeEffect ==
  ASSUME CardTypeOK, NEW r \in Refs, MakeOrder(r)
  PROVE  /\ order[r] = "none" /\ order'[r] = "PAID" /\ ledger'[r].sale = ledger[r].sale + Price
         /\ \A s \in Refs : s # r => order'[s] = order[s] /\ ledger'[s] = ledger[s]
BY DEF CardTypeOK, MakeOrder, KeyFree, Books

Posts == TillPosts \/ (\E r \in Refs : LateOrder(r)) \/ (\E x \in Syncs : SyncStart(x) \/ SyncPosts(x))

LEMMA PostsEffect ==
  ASSUME CardTypeOK, Refers, Posts
  PROVE  /\ UNCHANGED <<charge, record, terminal, lister, clerk>>
         /\ \/ till' = till
            \/ /\ till.pc = "post" /\ till'.pc \in {"cart", "done"}
               /\ till'.ref = till.ref /\ till'.check = NoCheck
         /\ "crash" \in allowed => "crash" \in allowed'
         /\ \A r \in Refs : Sold(r)' => Sold(r) \/ (till.pc = "post" /\ r = till.ref)
         /\ \A x \in Syncs : sync'[x].pc # "idle" => sync'[x].ref \in Refs
         /\ \A r \in Refs :
              \/ order'[r] = order[r] /\ ledger'[r].sale = ledger[r].sale
              \/ /\ order[r] = "none" /\ order'[r] # "none"
                 /\ ledger'[r].sale = ledger[r].sale + Price
<1>1. CASE TillPosts
  <2>1. /\ till.pc = "post" /\ till.ref \in Refs
        /\ UNCHANGED <<charge, record, terminal, sync, lister, clerk>>
    BY <1>1 DEF TillPosts, At, Refers
  <2>2. PICK pc \in {"cart", "done"} : Screen(pc) BY <1>1 DEF TillPosts
  <2>3. till'.pc \in {"cart", "done"} /\ till'.ref = till.ref /\ till'.check = NoCheck
    BY <2>2, ScreenEffect DEF Screens
  <2>4. /\ MakeOrder(till.ref) \/ UNCHANGED <<order, ledger>>
        /\ "crash" \in allowed => "crash" \in allowed'
        /\ queue' \subseteq queue \cup {till.ref} /\ late' \subseteq late \cup {till.ref}
    BY <1>1 DEF TillPosts, Unreachable
  <2>5. /\ \A r \in Refs : order'[r] # "none" => order[r] # "none" \/ r = till.ref
        /\ \A r \in Refs :
              \/ order'[r] = order[r] /\ ledger'[r].sale = ledger[r].sale
              \/ /\ order[r] = "none" /\ order'[r] # "none"
                 /\ ledger'[r].sale = ledger[r].sale + Price
    BY <2>1, <2>4, MakeEffect
  <2> QED BY <2>1, <2>3, <2>4, <2>5 DEF Sold, Refers
<1>2. CASE \E r \in Refs : LateOrder(r)
  <2>1. PICK r \in Refs :
           /\ MakeOrder(r) \/ UNCHANGED <<order, ledger>>
           /\ r \in late /\ late' = late \ {r}
           /\ UNCHANGED <<till, charge, record, terminal, queue, sync, lister, clerk, allowed>>
    BY <1>2 DEF LateOrder
  <2>2. /\ \A s \in Refs : order'[s] # "none" => order[s] # "none" \/ s = r
        /\ \A s \in Refs :
              \/ order'[s] = order[s] /\ ledger'[s].sale = ledger[s].sale
              \/ /\ order[s] = "none" /\ order'[s] # "none"
                 /\ ledger'[s].sale = ledger[s].sale + Price
    BY <2>1, MakeEffect
  <2> QED BY <2>1, <2>2 DEF Sold, Refers
<1>3. CASE \E x \in Syncs : SyncStart(x)
  <2>1. PICK x \in Syncs, r \in queue :
           /\ sync' = [sync EXCEPT ![x] = [pc |-> "read", ref |-> r]]
           /\ UNCHANGED <<till, charge, record, terminal, order, ledger, queue, late, lister, clerk,
                          allowed>>
    BY <1>3 DEF SyncStart
  <2>2. \A y \in Syncs : sync'[y] = sync[y] \/ (sync'[y].pc = "read" /\ sync'[y].ref = r)
    BY <2>1 DEF CardTypeOK
  <2>3. r \in Refs BY <2>1 DEF CardTypeOK
  <2> QED BY <2>1, <2>2, <2>3 DEF Sold, Refers
<1>4. CASE \E x \in Syncs : SyncPosts(x)
  <2>1. PICK x \in Syncs : SyncPosts(x) BY <1>4
  <2> DEFINE r == sync[x].ref
  <2>2. r \in Refs /\ sync[x].pc # "idle" BY <2>1 DEF SyncPosts, Refers
  <2>3. /\ MakeOrder(r) \/ UNCHANGED <<order, ledger>>
        /\ queue' \subseteq queue /\ late' \subseteq late \cup {r}
        /\ "crash" \in allowed => "crash" \in allowed'
        /\ UNCHANGED <<till, charge, record, terminal, lister, clerk>>
    BY <2>1 DEF SyncPosts, SyncHears, Unreachable
  <2>4. sync' = [sync EXCEPT ![x].pc = "make"] \/ sync' = [sync EXCEPT ![x] = NoPost]
    BY <2>1 DEF SyncPosts, SyncHears
  <2>5. \A y \in Syncs : \/ sync'[y] = sync[y]
                         \/ sync'[y].pc = "idle"
                         \/ y = x /\ sync'[y].ref = r
    BY <2>4 DEF CardTypeOK, Poster, NoPost
  <2>6. /\ \A s \in Refs : order'[s] # "none" => order[s] # "none" \/ s = r
        /\ \A s \in Refs :
              \/ order'[s] = order[s] /\ ledger'[s].sale = ledger[s].sale
              \/ /\ order[s] = "none" /\ order'[s] # "none"
                 /\ ledger'[s].sale = ledger[s].sale + Price
    BY <2>2, <2>3, MakeEffect
  <2>7. Sold(r) BY <2>2 DEF Sold
  <2> QED BY <2>2, <2>3, <2>5, <2>6, <2>7 DEF Sold, Refers
<1> QED BY <1>1, <1>2, <1>3, <1>4 DEF Posts

\* Card money goes back: only of charges that were taken.
ClerkDoes(k) ==
  BeginRefund(k) \/ BeginVoid(k) \/ AskReturn(k) \/ AskVoid(k) \/ TallyRefund(k)
    \/ CloseRecord(k) \/ SettleRefund(k) \/ MarkRefund(k)

LEMMA ClerkEffect ==
  ASSUME CardTypeOK, Refers, Told, NEW k \in Clerks, ClerkDoes(k)
  PROVE  /\ UNCHANGED <<till, charge, queue, sync, late, lister, allowed>>
         /\ \A j \in Clerks : clerk'[j].pc # "idle" =>
              /\ clerk'[j].ref \in Refs /\ clerk'[j].cents \in 1 .. Price
              /\ Taken(clerk'[j].ref)
         /\ \A r \in Refs :
              /\ record'[r].ext = record[r].ext
              /\ \/ record'[r].status = record[r].status
                 \/ record'[r].status = "CANCELED" /\ Taken(r)
              /\ \/ terminal'[r].state = terminal[r].state
                 \/ Taken(r) /\ terminal'[r].state \in Charged
              /\ order'[r] = "none" <=> order[r] = "none"
              /\ ledger'[r].sale \in {ledger[r].sale, 0}
<1> DEFINE q == clerk[k]
<1>1. CASE BeginRefund(k) \/ BeginVoid(k)
  <2>1. PICK r \in Refs, pc \in {"return", "void"}, cents \in 1 .. Price :
           ClerkStarts(k, r, pc, cents)
    BY <1>1, PriceAssumption DEF BeginRefund, BeginVoid
  <2>2. /\ clerk' = [clerk EXCEPT ![k] = [NoClerk EXCEPT !.pc = pc, !.ref = r, !.cents = cents]]
        /\ record[r].status = "SUCCEEDED"
        /\ UNCHANGED <<till, charge, record, terminal, order, ledger, queue, sync, late, lister,
                       allowed>>
    BY <2>1 DEF ClerkStarts
  <2>3. /\ \A j \in Clerks : j # k => clerk'[j] = clerk[j]
        /\ clerk'[k].ref = r /\ clerk'[k].cents = cents
    BY <2>2 DEF CardTypeOK, NoClerk
  <2>4. Taken(r) BY <2>2 DEF Told
  <2> QED BY <2>2, <2>3, <2>4 DEF Refers, Told
<1>2. ASSUME ~(BeginRefund(k) \/ BeginVoid(k))
      PROVE  /\ q.pc # "idle" /\ q.ref \in Refs /\ Taken(q.ref)
             /\ \A j \in Clerks : clerk'[j].pc # "idle" =>
                  /\ clerk'[j].ref \in Refs /\ clerk'[j].cents \in 1 .. Price
                  /\ Taken(clerk'[j].ref)
  <2>1. /\ q.pc # "idle"
        /\ \A j \in Clerks : j # k => clerk'[j] = clerk[j]
        /\ \/ clerk'[k].pc = "idle"
           \/ clerk'[k].ref = clerk[k].ref /\ clerk'[k].cents = clerk[k].cents
    BY <1>2, ClerkMoves, ClerkType DEF ClerkDoes
  <2> QED BY <2>1 DEF Refers, Told
<1>3. CASE AskReturn(k)
  <2>1. /\ UNCHANGED <<till, charge, record, order, ledger, queue, sync, late, lister, allowed>>
        /\ terminal' = terminal \/ terminal' = [terminal EXCEPT ![q.ref].back = @ \cup {q.cents}]
        /\ clerk[k].pc # "idle" /\ clerk[k] # NoClerk
    BY <1>3 DEF AskReturn, NoClerk
  <2>2. \A r \in Refs : terminal'[r].state = terminal[r].state
    BY <2>1 DEF CardTypeOK, Transaction
  <2>3. ~(BeginRefund(k) \/ BeginVoid(k))
    BY <2>1 DEF BeginRefund, BeginVoid, ClerkStarts
  <2> QED BY <1>2, <2>1, <2>2, <2>3
<1>4. CASE AskVoid(k)
  <2>1. /\ UNCHANGED <<till, charge, record, order, ledger, queue, sync, late, lister, allowed>>
        /\ terminal' = terminal \/ terminal' = [terminal EXCEPT ![q.ref].state = "voided"]
        /\ clerk[k] # NoClerk
    BY <1>4 DEF AskVoid, NoClerk
  <2>2. ~(BeginRefund(k) \/ BeginVoid(k))
    BY <2>1 DEF BeginRefund, BeginVoid, ClerkStarts
  <2>3. \A r \in Refs : \/ terminal'[r].state = terminal[r].state
                        \/ r = q.ref /\ terminal'[r].state \in Charged
    BY <2>1 DEF CardTypeOK, Transaction, Charged
  <2> QED BY <1>2, <2>1, <2>2, <2>3
<1>5. CASE TallyRefund(k) \/ SettleRefund(k)
  <2>1. /\ UNCHANGED <<till, charge, record, terminal, order, ledger, queue, sync, late, lister,
                       allowed>>
        /\ clerk[k] # NoClerk
    BY <1>5 DEF TallyRefund, SettleRefund, NoClerk
  <2>2. ~(BeginRefund(k) \/ BeginVoid(k))
    BY <2>1 DEF BeginRefund, BeginVoid, ClerkStarts
  <2> QED BY <1>2, <2>1, <2>2
<1>6. CASE CloseRecord(k)
  <2>1. /\ UNCHANGED <<till, charge, terminal, order, ledger, queue, sync, late, lister, allowed>>
        /\ record' = record \/ record' = [record EXCEPT ![q.ref].status = "CANCELED"]
        /\ clerk[k] # NoClerk
    BY <1>6 DEF CloseRecord, NoClerk
  <2>2. ~(BeginRefund(k) \/ BeginVoid(k))
    BY <2>1 DEF BeginRefund, BeginVoid, ClerkStarts
  <2>3. \A r \in Refs : /\ record'[r].ext = record[r].ext
                        /\ \/ record'[r].status = record[r].status
                           \/ record'[r].status = "CANCELED" /\ r = q.ref
    BY <2>1 DEF CardTypeOK, ChargeRow
  <2> QED BY <1>2, <2>1, <2>2, <2>3
<1>7. CASE MarkRefund(k)
  <2>1. /\ UNCHANGED <<till, charge, record, terminal, queue, sync, late, lister, allowed>>
        /\ clerk[k] # NoClerk
        /\ \/ UNCHANGED <<order, ledger>>
           \/ VoidOrder(q.ref) /\ order[q.ref] = "PAID"
           \/ UNCHANGED order /\ ledger' = [ledger EXCEPT ![q.ref].loose = @ + q.cents]
           \/ UNCHANGED order /\ ledger' = [ledger EXCEPT ![q.ref].back = @ + q.cents]
    BY <1>7 DEF MarkRefund, NoClerk, MayVoid
  <2>2. ~(BeginRefund(k) \/ BeginVoid(k))
    BY <2>1 DEF BeginRefund, BeginVoid, ClerkStarts
  <2>3. \A r \in Refs : /\ order'[r] = "none" <=> order[r] = "none"
                        /\ ledger'[r].sale \in {ledger[r].sale, 0}
    BY <2>1 DEF VoidOrder, CardTypeOK, Books
  <2> QED BY <1>2, <2>1, <2>2, <2>3
<1> QED BY <1>1, <1>3, <1>4, <1>5, <1>6, <1>7 DEF ClerkDoes

\* The steps of one charge, and a fresh one.
LEMMA FreshEffect ==
  ASSUME CardTypeOK, NEW r \in Refs, PressPay(r) \/ PressOffline(r)
  PROVE  /\ UNCHANGED <<record, terminal, order, ledger, sync, late, lister, clerk, allowed>>
         /\ till.pc = "cart" /\ till'.ref = r /\ till'.check = till.check
         /\ till.ref \in Nat /\ r \in Nat /\ till.ref < r
         /\ \/ till'.pc = "charge" /\ charge' = [charge EXCEPT ![r] = "arrived"] /\ queue' = queue
            \/ till'.pc = "done" /\ charge' = charge /\ queue' = queue \cup {r}
<1>1. till.ref \in Nat /\ r \in Nat
  <2>1. till.ref \in Refs \cup {0} BY DEF CardTypeOK, Till, NoRef
  <2>2. \A n \in Refs \cup {0} : n \in Nat BY RefsAssumption
  <2> QED BY <2>1, <2>2
<1>2. CASE PressPay(r) BY <1>1, <1>2 DEF PressPay, At, Fresh, CardTypeOK, Till
<1>3. CASE PressOffline(r) BY <1>1, <1>3 DEF PressOffline, At, Fresh, CardTypeOK, Till
<1> QED BY <1>2, <1>3

LEMMA ChargeEffect ==
  ASSUME CardTypeOK, NEW r \in Refs, MakeRecord(r) \/ AskTerminal(r) \/ Tap(r) \/ AnswerCharge(r)
  PROVE  /\ UNCHANGED <<till, order, ledger, queue, sync, late, lister, clerk, allowed>>
         /\ \A s \in Refs : s # r => /\ charge'[s] = charge[s] /\ record'[s] = record[s]
                                     /\ terminal'[s].state = terminal[s].state
         /\ \/ /\ charge[r] = "arrived" /\ charge'[r] = "made"
               /\ record'[r].status = "REQUIRES_PAYMENT" /\ record'[r].ext = record[r].ext
               /\ terminal'[r].state = terminal[r].state
            \/ /\ charge[r] = "made" /\ charge'[r] = "asked" /\ record'[r] = record[r]
               /\ terminal'[r].state \in {terminal[r].state, "waiting"}
            \/ /\ charge'[r] = charge[r] /\ record'[r] = record[r]
               /\ terminal[r].state = "waiting" /\ terminal'[r].state \in {"approved", "declined"}
            \/ /\ charge[r] = "asked" /\ charge'[r] \in Answers
               /\ record'[r].status = charge'[r] /\ record'[r].ext
               /\ charge'[r] = "SUCCEEDED" => Taken(r)
               /\ terminal'[r].state = terminal[r].state
<1>1. CASE MakeRecord(r) BY <1>1 DEF MakeRecord, CardTypeOK, ChargeRow
<1>2. CASE AskTerminal(r) BY <1>2 DEF AskTerminal, CardTypeOK, Transaction
<1>3. CASE Tap(r) BY <1>3 DEF Tap, CardTypeOK, Transaction
<1>4. CASE AnswerCharge(r)
  <2>1. PICK status \in Answers :
           /\ status = "SUCCEEDED" => Taken(r)
           /\ charge' = [charge EXCEPT ![r] = status]
           /\ record' = [record EXCEPT ![r] = [status |-> status, ext |-> TRUE]]
    <3>1. Said(r) = "SUCCEEDED" => Taken(r) BY DEF Said, Taken
    <3> QED BY <1>4, <3>1, SaidType DEF AnswerCharge, Referenced, Answers
  <2> QED BY <1>4, <2>1 DEF AnswerCharge, CardTypeOK
<1> QED BY <1>1, <1>2, <1>3, <1>4

LEMMA ListEffect ==
  ASSUME CardTypeOK, NEW r \in Refs, ListAsk(r)
  PROVE  /\ UNCHANGED <<till, charge, record, terminal, order, ledger, queue, sync, late, clerk,
                        allowed>>
         /\ lister'.ref = r /\ record[r].status # "none"
         /\ lister'.said = "SUCCEEDED" => Taken(r)
BY DEF ListAsk, Check, Said, Taken, Open

LEMMA VoidEffect ==
  ASSUME CardTypeOK, NEW r \in Refs, TillVoid(r)
  PROVE  /\ UNCHANGED <<till, charge, record, terminal, queue, sync, late, lister, clerk, allowed>>
         /\ \A s \in Refs : /\ order'[s] = "none" <=> order[s] = "none"
                            /\ ledger'[s].sale \in {ledger[s].sale, 0}
BY DEF TillVoid, MayVoid, VoidOrder, CardTypeOK, Books

Steps == \/ \E r \in Refs : PressPay(r) \/ PressOffline(r)
         \/ TillMoves \/ PollHear \/ ListHear
         \/ \E r \in Refs : MakeRecord(r) \/ AskTerminal(r) \/ Tap(r) \/ AnswerCharge(r)
         \/ \E r \in Refs : ListAsk(r)
         \/ Posts
         \/ \E k \in Clerks : ClerkDoes(k)
         \/ \E r \in Refs : TillVoid(r)
         \/ UNCHANGED cardVars

LEMMA EveryStep == [CardNext]_cardVars => Steps
BY DEF CardNext, Steps, TillMoves, Posts, ClerkDoes

-----------------------------------------------------------------------------
(* The invariants, one kind of step after the other. *)

LEMMA RefersStep ==
  ASSUME CardTypeOK, Refers, Told, [CardNext]_cardVars
  PROVE  Refers'
<1>1. ASSUME NEW r \in Refs, PressPay(r) \/ PressOffline(r) PROVE Refers'
  BY <1>1, FreshEffect, RefsAssumption DEF Refers, CardTypeOK, Till, NoRef, Taken, Charged,
      Answers
<1>2. ASSUME TillMoves PROVE Refers'
  BY <1>2, TillEffect, RefsAssumption DEF Refers, CardTypeOK, Till, NoRef, Taken, Charged,
      Answers
<1>3. ASSUME PollHear \/ ListHear PROVE Refers'
  BY ZenonT(30), <1>3, HearEffect, RefsAssumption DEF Refers, CardTypeOK, Till, NoRef, Taken, Charged,
      Answers
<1>4. ASSUME NEW r \in Refs, MakeRecord(r) \/ AskTerminal(r) \/ Tap(r) \/ AnswerCharge(r)
      PROVE  Refers'
  <2>1. \A s \in Refs : record[s].status # "none" => record'[s].status # "none"
    BY <1>4, ChargeEffect DEF Answers
  <2>2. /\ till'.pc \notin {"cart", "done"} => till'.ref \in Refs
        /\ till'.check # NoCheck =>
             /\ till'.pc \in {"poll", "stuck"} /\ till'.check.ref = till'.ref
             /\ record'[till'.ref].status # "none"
        /\ lister' # NoCheck => lister'.ref \in Refs /\ record'[lister'.ref].status # "none"
        /\ \A x \in Syncs : sync'[x].pc # "idle" => sync'[x].ref \in Refs
    BY <1>4, <2>1, ChargeEffect DEF Refers
  <2>3. \A k \in Clerks :
          clerk'[k].pc # "idle" => clerk'[k].ref \in Refs /\ clerk'[k].cents \in 1 .. Price
    BY <1>4, ChargeEffect DEF Refers
  <2>4. \A s \in Refs :
          /\ record'[s].ext => record'[s].status # "none"
          /\ charge'[s] \in {"arrived", "made"} => terminal'[s].state = "none"
    BY <1>4, ChargeEffect DEF Refers, Taken, Charged, Answers
  <2>5. \A s \in Refs : s > till.ref => /\ charge'[s] = "none" /\ terminal'[s].state = "none"
                                        /\ record'[s].status = "none"
    BY <1>4, ChargeEffect DEF Refers, Taken, Charged, Answers
  <2> QED BY <1>4, <2>2, <2>3, <2>4, <2>5, ChargeEffect DEF Refers
<1>5. ASSUME NEW r \in Refs, ListAsk(r) PROVE Refers'
  BY <1>5, ListEffect, RefsAssumption DEF Refers, CardTypeOK, Till, NoRef, Taken, Charged,
      Answers
<1>6. ASSUME Posts PROVE Refers'
  BY <1>6, PostsEffect, RefsAssumption DEF Refers, CardTypeOK, Till, NoRef, Taken, Charged,
      Answers
<1>7. ASSUME NEW k \in Clerks, ClerkDoes(k)
      PROVE  Refers'
  <2>1. \A s \in Refs : record[s].status # "none" => record'[s].status # "none"
    BY <1>7, ClerkEffect DEF Answers
  <2>2. /\ till'.pc \notin {"cart", "done"} => till'.ref \in Refs
        /\ till'.check # NoCheck =>
             /\ till'.pc \in {"poll", "stuck"} /\ till'.check.ref = till'.ref
             /\ record'[till'.ref].status # "none"
        /\ lister' # NoCheck => lister'.ref \in Refs /\ record'[lister'.ref].status # "none"
        /\ \A x \in Syncs : sync'[x].pc # "idle" => sync'[x].ref \in Refs
    BY <1>7, <2>1, ClerkEffect DEF Refers
  <2>3. \A j \in Clerks :
          clerk'[j].pc # "idle" => clerk'[j].ref \in Refs /\ clerk'[j].cents \in 1 .. Price
    BY <1>7, ClerkEffect DEF Refers
  <2>4. \A s \in Refs :
          /\ record'[s].ext => record'[s].status # "none"
          /\ charge'[s] \in {"arrived", "made"} => terminal'[s].state = "none"
    BY <1>7, ClerkEffect DEF Refers, Taken, Charged, Answers
  <2>5. \A s \in Refs : s > till.ref => /\ charge'[s] = "none" /\ terminal'[s].state = "none"
                                        /\ record'[s].status = "none"
    BY <1>7, ClerkEffect DEF Refers, Taken, Charged, Answers
  <2> QED BY <1>7, <2>2, <2>3, <2>4, <2>5, ClerkEffect DEF Refers
<1>8. ASSUME NEW r \in Refs, TillVoid(r) PROVE Refers'
  BY <1>8, VoidEffect, RefsAssumption DEF Refers, CardTypeOK, Till, NoRef, Taken, Charged,
      Answers
<1>9. ASSUME UNCHANGED cardVars PROVE Refers'
  BY <1>9, RefsAssumption DEF cardVars, Refers, CardTypeOK, Till, NoRef, Taken, Charged,
      Answers
<1> QED
  BY EveryStep, <1>1, <1>2, <1>3, <1>4, <1>5, <1>6, <1>7, <1>8, <1>9 DEF Steps

LEMMA ToldStep ==
  ASSUME CardTypeOK, Refers, Told, [CardNext]_cardVars
  PROVE  Told'
<1>1. ASSUME NEW r \in Refs, PressPay(r) \/ PressOffline(r) PROVE Told'
  BY <1>1, FreshEffect DEF Told, Taken, Refers, CardTypeOK, NoCheck, Charged
<1>2. ASSUME TillMoves PROVE Told'
  BY <1>2, TillEffect DEF Told, Taken, Refers, CardTypeOK, NoCheck, Charged
<1>3. ASSUME PollHear \/ ListHear PROVE Told'
  BY <1>3, HearEffect DEF Told, Taken, Refers, CardTypeOK, NoCheck, Charged
<1>4. ASSUME NEW r \in Refs, MakeRecord(r) \/ AskTerminal(r) \/ Tap(r) \/ AnswerCharge(r)
      PROVE  Told'
  <2>1. \A s \in Refs : Taken(s) => terminal'[s].state \in Charged
    BY <1>4, ChargeEffect DEF Taken, Refers, Charged
  <2>2. /\ till.check.said = "SUCCEEDED" => till.check.ref \in Refs
        /\ lister.said = "SUCCEEDED" => lister.ref \in Refs
    BY DEF Refers, NoCheck
  <2>3. \A s \in Refs :
          record'[s].status \in {"SUCCEEDED", "CANCELED"} \/ charge'[s] = "SUCCEEDED" => Taken(s)
    BY <1>4, ChargeEffect DEF Told, Answers
  <2>4. UNCHANGED <<till, lister, clerk>> BY <1>4, ChargeEffect
  <2> QED BY <2>1, <2>2, <2>3, <2>4 DEF Told, Taken, Refers
<1>5. ASSUME NEW r \in Refs, ListAsk(r) PROVE Told'
  BY <1>5, ListEffect DEF Told, Taken, Refers, CardTypeOK, NoCheck, Charged
<1>6. ASSUME Posts PROVE Told'
  BY <1>6, PostsEffect DEF Told, Taken, Refers, CardTypeOK, NoCheck, Charged
<1>7. ASSUME NEW k \in Clerks, ClerkDoes(k) PROVE Told'
  BY <1>7, ClerkEffect DEF Told, Taken, Refers, CardTypeOK, NoCheck, Charged
<1>8. ASSUME NEW r \in Refs, TillVoid(r) PROVE Told'
  BY <1>8, VoidEffect DEF Told, Taken, Refers, CardTypeOK, NoCheck, Charged
<1>9. ASSUME UNCHANGED cardVars PROVE Told'
  BY <1>9 DEF cardVars, Told, Taken, Refers, CardTypeOK, NoCheck, Charged
<1> QED
  BY EveryStep, <1>1, <1>2, <1>3, <1>4, <1>5, <1>6, <1>7, <1>8, <1>9 DEF Steps

LEMMA SoldWellStep ==
  ASSUME CardTypeOK, Refers, Told, SoldWell, [CardNext]_cardVars
  PROVE  SoldWell'
<1>1. ASSUME NEW r \in Refs, PressPay(r) \/ PressOffline(r) PROVE SoldWell'
  BY <1>1, FreshEffect, RefsAssumption DEF SoldWell, Sold, Told, Taken, Refers, CardTypeOK,
      Till, NoRef, Charged
<1>2. ASSUME TillMoves PROVE SoldWell'
  BY <1>2, TillEffect, RefsAssumption DEF SoldWell, Sold, Told, Taken, Refers, CardTypeOK,
      Till, NoRef, Charged
<1>3. ASSUME PollHear \/ ListHear PROVE SoldWell'
  BY <1>3, HearEffect, RefsAssumption DEF SoldWell, Sold, Told, Taken, Refers, CardTypeOK,
      Till, NoRef, Charged
<1>4. ASSUME NEW r \in Refs, MakeRecord(r) \/ AskTerminal(r) \/ Tap(r) \/ AnswerCharge(r)
      PROVE SoldWell'
  BY <1>4, ChargeEffect, RefsAssumption DEF SoldWell, Sold, Told, Taken, Refers, CardTypeOK,
      Till, NoRef, Charged
<1>5. ASSUME NEW r \in Refs, ListAsk(r) PROVE SoldWell'
  BY <1>5, ListEffect, RefsAssumption DEF SoldWell, Sold, Told, Taken, Refers, CardTypeOK,
      Till, NoRef, Charged
<1>6. ASSUME Posts PROVE SoldWell'
  BY <1>6, PostsEffect, RefsAssumption DEF SoldWell, Sold, Told, Taken, Refers, CardTypeOK,
      Till, NoRef, Charged
<1>7. ASSUME NEW k \in Clerks, ClerkDoes(k) PROVE SoldWell'
  BY <1>7, ClerkEffect, RefsAssumption DEF SoldWell, Sold, Told, Taken, Refers, CardTypeOK,
      Till, NoRef, Charged
<1>8. ASSUME NEW r \in Refs, TillVoid(r) PROVE SoldWell'
  <2>1. \A s \in Refs : Sold(s)' => Sold(s) BY <1>8, VoidEffect DEF Sold
  <2> QED BY <1>8, <2>1, VoidEffect DEF SoldWell, Taken
<1>9. ASSUME UNCHANGED cardVars PROVE SoldWell'
  BY <1>9, RefsAssumption DEF cardVars, SoldWell, Sold, Told, Taken, Refers, CardTypeOK, Till,
      NoRef, Charged
<1> QED
  BY EveryStep, <1>1, <1>2, <1>3, <1>4, <1>5, <1>6, <1>7, <1>8, <1>9 DEF Steps

LEMMA SaleOfOrderStep ==
  ASSUME CardTypeOK, Refers, Told, SaleOfOrder, [CardNext]_cardVars
  PROVE  SaleOfOrder'
<1>1. ASSUME NEW r \in Refs, PressPay(r) \/ PressOffline(r) PROVE SaleOfOrder'
  BY <1>1, FreshEffect, PriceAssumption DEF SaleOfOrder, CardTypeOK, Books
<1>2. ASSUME TillMoves PROVE SaleOfOrder'
  BY <1>2, TillEffect, PriceAssumption DEF SaleOfOrder, CardTypeOK, Books
<1>3. ASSUME PollHear \/ ListHear PROVE SaleOfOrder'
  BY <1>3, HearEffect, PriceAssumption DEF SaleOfOrder, CardTypeOK, Books
<1>4. ASSUME NEW r \in Refs, MakeRecord(r) \/ AskTerminal(r) \/ Tap(r) \/ AnswerCharge(r)
      PROVE SaleOfOrder'
  BY <1>4, ChargeEffect, PriceAssumption DEF SaleOfOrder, CardTypeOK, Books
<1>5. ASSUME NEW r \in Refs, ListAsk(r) PROVE SaleOfOrder'
  BY <1>5, ListEffect, PriceAssumption DEF SaleOfOrder, CardTypeOK, Books
<1>6. ASSUME Posts PROVE SaleOfOrder'
  BY <1>6, PostsEffect, PriceAssumption DEF SaleOfOrder, CardTypeOK, Books
<1>7. ASSUME NEW k \in Clerks, ClerkDoes(k) PROVE SaleOfOrder'
  BY <1>7, ClerkEffect, PriceAssumption DEF SaleOfOrder, CardTypeOK, Books
<1>8. ASSUME NEW r \in Refs, TillVoid(r) PROVE SaleOfOrder'
  BY <1>8, VoidEffect, PriceAssumption DEF SaleOfOrder, CardTypeOK, Books
<1>9. ASSUME UNCHANGED cardVars PROVE SaleOfOrder'
  BY <1>9, PriceAssumption DEF cardVars, SaleOfOrder, CardTypeOK, Books
<1> QED
  BY EveryStep, <1>1, <1>2, <1>3, <1>4, <1>5, <1>6, <1>7, <1>8, <1>9 DEF Steps

LEMMA AskableStep ==
  ASSUME CardTypeOK, Refers, Told, Askable, [CardNext]_cardVars
  PROVE  Askable'
<1>1. ASSUME NEW r \in Refs, PressPay(r) \/ PressOffline(r) PROVE Askable'
  BY <1>1, FreshEffect DEF Askable, Refers, CardTypeOK, Taken, Charged, Answers
<1>2. ASSUME TillMoves PROVE Askable'
  BY <1>2, TillEffect DEF Askable, Refers, CardTypeOK, Taken, Charged, Answers
<1>3. ASSUME PollHear \/ ListHear PROVE Askable'
  BY <1>3, HearEffect DEF Askable, Refers, CardTypeOK, Taken, Charged, Answers
<1>4. ASSUME NEW r \in Refs, MakeRecord(r) \/ AskTerminal(r) \/ Tap(r) \/ AnswerCharge(r)
      PROVE Askable'
  BY <1>4, ChargeEffect DEF Askable, Refers, CardTypeOK, Taken, Charged, Answers
<1>5. ASSUME NEW r \in Refs, ListAsk(r) PROVE Askable'
  BY <1>5, ListEffect DEF Askable, Refers, CardTypeOK, Taken, Charged, Answers
<1>6. ASSUME Posts PROVE Askable'
  BY <1>6, PostsEffect DEF Askable, Refers, CardTypeOK, Taken, Charged, Answers
<1>7. ASSUME NEW k \in Clerks, ClerkDoes(k) PROVE Askable'
  BY <1>7, ClerkEffect DEF Askable, Refers, CardTypeOK, Taken, Charged, Answers
<1>8. ASSUME NEW r \in Refs, TillVoid(r) PROVE Askable'
  BY <1>8, VoidEffect DEF Askable, Refers, CardTypeOK, Taken, Charged, Answers
<1>9. ASSUME UNCHANGED cardVars PROVE Askable'
  BY <1>9 DEF cardVars, Askable, Refers, CardTypeOK, Taken, Charged, Answers
<1> QED
  BY EveryStep, <1>1, <1>2, <1>3, <1>4, <1>5, <1>6, <1>7, <1>8, <1>9 DEF Steps

LEMMA CardInvInit == CardInit => CardInv
<1> SUFFICES ASSUME CardInit PROVE CardInv
  OBVIOUS
<1>1. CardTypeOK BY CardInitType
<1>2. Refers BY RefsAssumption DEF CardInit, Refers, NoPost, NoClerk
<1>3. Told BY DEF CardInit, Told, NoCheck, NoClerk
<1>4. SoldWell BY DEF CardInit, SoldWell, Sold, NoPost
<1>5. SaleOfOrder /\ Askable BY PriceAssumption DEF CardInit, SaleOfOrder, Askable
<1> QED BY <1>1, <1>2, <1>3, <1>4, <1>5 DEF CardInv

LEMMA CardInvStep == CardInv /\ [CardNext]_cardVars => CardInv'
BY CardStepType, RefersStep, ToldStep, SoldWellStep, SaleOfOrderStep, AskableStep DEF CardInv

\* CardSales: the rows, the screens and the requests keep their types.
THEOREM CardTypeCorrect == CardSpec => []CardTypeOK
<1>1. CardInv => CardTypeOK BY DEF CardInv
<1> QED BY <1>1, CardInvInit, CardInvStep, PTL DEF CardSpec

\* CardSales: no order of a sale with a card charge is made unless the provider took it,
\* whatever the till, the queue and the server do or fail to do.
THEOREM PaidCorrect == CardSpec => []OnlyPaidCardsRecorded
<1>1. CardInv => OnlyPaidCardsRecorded
  BY DEF CardInv, SoldWell, Sold, Taken, OnlyPaidCardsRecorded
<1> QED BY <1>1, CardInvInit, CardInvStep, PTL DEF CardSpec

\* CardSales: a sale is in the books once, however often it is posted.
THEOREM OnceInBooksCorrect == CardSpec => []SaleRecordedOnce
<1>1. CardInv => SaleRecordedOnce BY DEF CardInv, SaleOfOrder, SaleRecordedOnce
<1> QED BY <1>1, CardInvInit, CardInvStep, PTL DEF CardSpec

\* CardSales: a charge whose handler ended can be asked about, unless the server stopped.
THEOREM AskableCorrect == CardSpec => []Askable
<1>1. CardInv => Askable BY DEF CardInv
<1> QED BY <1>1, CardInvInit, CardInvStep, PTL DEF CardSpec

-----------------------------------------------------------------------------
(* The books follow the terminal, as long as one admin at a time gives card *)
(* money back.  What went back of a charge is in the books, or on its way   *)
(* there with the one clerk.                                                *)

OneClerk == \A j, k \in Clerks : j = k

\* What the provider took back.
Whole(r) == IF terminal[r].state = "voided" THEN Price ELSE 0
Gone(r)  == Back(r) + Whole(r)

\* Money on its way to the books.
OnItsWay(k, r) == clerk[k].ref = r /\ clerk[k].pc \in {"tally", "full", "settle", "mark"}

\* The books and n cents more have what went back.
Even(r, n) ==
  /\ order[r] # "VOID" => ledger[r].back + ledger[r].loose + n = Gone(r)
  /\ order[r] = "VOID" /\ ledger[r].loose = 0 => ledger[r].back + n + Price = Gone(r)

Brings(k, r) ==
  /\ Even(r, clerk[k].cents)
  /\ clerk[k].pc = "tally" => refunded[r] + clerk[k].cents = Gone(r)
  /\ clerk[k].pc # "tally" => /\ refunded[r] = Gone(r)
                              /\ clerk[k].full => refunded[r] >= Price
  /\ clerk[k].pc = "mark" =>
       /\ clerk[k].how \in {"void", "tied", "loose"}
       /\ clerk[k].how = "void" => clerk[k].full /\ order[r] = "PAID"
       /\ clerk[k].how = "tied" => order[r] # "none"
       /\ clerk[k].how = "loose" => order[r] # "VOID"

Evened(r) ==
  /\ (\A k \in Clerks : ~OnItsWay(k, r)) => Even(r, 0) /\ refunded[r] = Gone(r)
  /\ \A k \in Clerks : OnItsWay(k, r) => Brings(k, r)

\* The sale is in the books while it stands.
Stands(r) ==
  /\ order[r] = "none" => ledger[r].sale = 0 /\ ledger[r].back = 0
  /\ order[r] = "PAID" => ledger[r].sale = Price
  /\ order[r] = "VOID" => ledger[r].sale = 0

BooksInv ==
  "tillVoid" \notin allowed =>
    /\ \A r \in Refs : Stands(r) /\ Evened(r)
    /\ \A k \in Clerks : clerk[k].pc = "void" => clerk[k].cents = Price

LEMMA GoneType ==
  ASSUME CardTypeOK, NEW r \in Refs
  PROVE  /\ terminal[r].back \subseteq Nat /\ IsFiniteSet(terminal[r].back)
         /\ Back(r) \in Nat /\ Whole(r) \in Nat /\ Gone(r) \in Nat
<1>1. terminal[r].back \subseteq 1 .. Price BY DEF CardTypeOK, Transaction
<1>2. IsFiniteSet(1 .. Price) BY FS_Interval, PriceAssumption
<1> DEFINE back == terminal[r].back
<1>3. IsFiniteSet(back) /\ back \subseteq Nat
  <2>1. back \subseteq Nat BY <1>1
  <2> HIDE DEF back
  <2>2. back \subseteq 1 .. Price BY <1>1 DEF back
  <2>3. IsFiniteSet(back) BY <1>2, <2>2, FS_Subset
  <2> QED BY <2>1, <2>3
<1>4. Back(r) \in Nat BY <1>3, SumOfNumbers DEF Back
<1>5. Whole(r) \in Nat BY PriceAssumption DEF Whole
<1> QED BY <1>3, <1>4, <1>5 DEF Gone

LEMMA GoneSame ==
  ASSUME NEW r, terminal'[r].back = terminal[r].back,
         terminal'[r].state = "voided" <=> terminal[r].state = "voided"
  PROVE  Gone(r)' = Gone(r)
<1>1. Back(r)' = Back(r) BY DEF Back
<1>2. Whole(r)' = Whole(r) BY DEF Whole
<1> QED BY <1>1, <1>2 DEF Gone

\* Nothing about r changes.
Untouched(r) ==
  /\ refunded'[r] = refunded[r] /\ order'[r] = order[r] /\ ledger'[r] = ledger[r]
  /\ Gone(r)' = Gone(r)

LEMMA UntouchedEven ==
  ASSUME NEW r \in Refs, Untouched(r), Stands(r), Evened(r),
         \A k \in Clerks : OnItsWay(k, r)' <=> OnItsWay(k, r),
         \A k \in Clerks : OnItsWay(k, r) => clerk'[k] = clerk[k]
  PROVE  Stands(r)' /\ Evened(r)'
<1>1. \A n : Even(r, n)' <=> Even(r, n) BY DEF Even, Untouched
<1>2. Stands(r)' BY DEF Stands, Untouched
<1>3. (\A k \in Clerks : ~OnItsWay(k, r)') => Even(r, 0)' /\ refunded'[r] = Gone(r)'
  <2>1. Even(r, 0)' <=> Even(r, 0) BY DEF Even, Untouched
  <2> QED BY <2>1 DEF Untouched, Evened
<1>4. ASSUME NEW k \in Clerks, OnItsWay(k, r)' PROVE Brings(k, r)'
  <2>1. OnItsWay(k, r) /\ clerk'[k] = clerk[k] BY <1>4
  <2>2. Brings(k, r) BY <2>1 DEF Evened
  <2>3. Even(r, clerk[k].cents)' <=> Even(r, clerk[k].cents) BY <2>1 DEF Even, Untouched
  <2> QED BY <2>1, <2>2, <2>3 DEF Brings, Untouched
<1> QED BY <1>2, <1>3, <1>4 DEF Evened

\* The steps that no money goes back in, and nothing is sold.
Calm ==
  /\ UNCHANGED <<refunded, order, ledger, clerk>>
  /\ "tillVoid" \in allowed => "tillVoid" \in allowed'
  /\ \A r \in Refs : /\ terminal'[r].back = terminal[r].back
                     /\ terminal'[r].state = "voided" <=> terminal[r].state = "voided"

LEMMA CalmSteps ==
  ASSUME CardTypeOK, Refers,
         \/ \E r \in Refs : PressPay(r) \/ PressOffline(r)
         \/ TillMoves \/ PollHear \/ ListHear
         \/ \E r \in Refs : MakeRecord(r) \/ AskTerminal(r) \/ Tap(r) \/ AnswerCharge(r)
         \/ \E r \in Refs : ListAsk(r)
         \/ \E x \in Syncs : SyncStart(x)
         \/ UNCHANGED cardVars
  PROVE  Calm
<1>1. CASE \E r \in Refs : AskTerminal(r)
  <2>1. PICK r \in Refs : AskTerminal(r) BY <1>1
  <2>2. terminal[r].state = "none" BY <2>1 DEF AskTerminal, Refers
  <2>3. terminal' = terminal \/ terminal' = [terminal EXCEPT ![r].state = "waiting"]
    BY <2>1 DEF AskTerminal
  <2> QED BY <2>1, <2>2, <2>3 DEF AskTerminal, Calm, CardTypeOK, Transaction
<1>2. CASE \E r \in Refs : Tap(r)
  BY <1>2 DEF Tap, Calm, CardTypeOK, Transaction
<1>3. CASE \E r \in Refs : PressPay(r) \/ PressOffline(r) \/ MakeRecord(r) \/ AnswerCharge(r)
                             \/ ListAsk(r)
  BY <1>3 DEF PressPay, PressOffline, MakeRecord, AnswerCharge, ListAsk, Calm
<1>4. CASE TillMoves
  BY <1>4 DEF TillMoves, HearCharge, LoseCall, GiveUp, CloseStuck, PollAsk, CrashCharge, Calm
<1>5. CASE PollHear \/ ListHear BY <1>5 DEF PollHear, ListHear, Calm
<1>6. CASE \E x \in Syncs : SyncStart(x) BY <1>6 DEF SyncStart, Calm
<1>7. CASE UNCHANGED cardVars BY <1>7 DEF cardVars, Calm
<1> QED BY <1>1, <1>2, <1>3, <1>4, <1>5, <1>6, <1>7

LEMMA CalmBooks ==
  ASSUME CardTypeOK, BooksInv, Calm
  PROVE  BooksInv'
<1>1. SUFFICES ASSUME "tillVoid" \notin allowed'
      PROVE  /\ \A r \in Refs : Stands(r)' /\ Evened(r)'
             /\ \A k \in Clerks : clerk'[k].pc = "void" => clerk'[k].cents = Price
  BY DEF BooksInv
<1>2. "tillVoid" \notin allowed BY <1>1 DEF Calm
<1>3. ASSUME NEW r \in Refs PROVE Stands(r)' /\ Evened(r)'
  <2>1. Untouched(r) BY GoneSame DEF Calm, Untouched
  <2>2. \A k \in Clerks : clerk'[k] = clerk[k] /\ (OnItsWay(k, r)' <=> OnItsWay(k, r))
    BY DEF Calm, OnItsWay
  <2> QED BY <1>2, <2>1, <2>2, UntouchedEven DEF BooksInv
<1> QED BY <1>2, <1>3 DEF BooksInv, Calm

\* A sale is made.
LEMMA PostBooks ==
  ASSUME CardTypeOK, BooksInv,
         TillPosts \/ (\E r \in Refs : LateOrder(r)) \/ (\E x \in Syncs : SyncPosts(x)),
         Refers
  PROVE  BooksInv'
<1>1. /\ UNCHANGED <<terminal, refunded, clerk>>
      /\ "tillVoid" \in allowed => "tillVoid" \in allowed'
      /\ UNCHANGED <<order, ledger>> \/ \E r \in Refs : MakeOrder(r)
  <2>1. CASE TillPosts BY <2>1 DEF TillPosts, At, Unreachable, Refers
  <2>2. CASE \E r \in Refs : LateOrder(r) BY <2>2 DEF LateOrder
  <2>3. CASE \E x \in Syncs : SyncPosts(x)
    BY <2>3 DEF SyncPosts, SyncHears, Unreachable, Refers
  <2> QED BY <2>1, <2>2, <2>3
<1>2. CASE UNCHANGED <<order, ledger>>
  <2>1. Calm BY <1>1, <1>2 DEF Calm
  <2> QED BY <2>1, CalmBooks
<1>3. CASE \E r \in Refs : MakeOrder(r)
  <2>1. PICK s \in Refs : MakeOrder(s) BY <1>3
  <2>2. SUFFICES ASSUME "tillVoid" \notin allowed'
        PROVE  /\ \A r \in Refs : Stands(r)' /\ Evened(r)'
               /\ \A k \in Clerks : clerk'[k].pc = "void" => clerk'[k].cents = Price
    BY DEF BooksInv
  <2>3. "tillVoid" \notin allowed BY <1>1, <2>2
  <2>4. /\ \A r \in Refs : r # s => order'[r] = order[r] /\ ledger'[r] = ledger[r]
        /\ order[s] = "none" /\ order'[s] = "PAID"
        /\ ledger'[s].sale = ledger[s].sale + Price
        /\ ledger'[s].back = ledger[s].back /\ ledger'[s].loose = ledger[s].loose
    BY <2>1 DEF MakeOrder, KeyFree, CardTypeOK, Books
  <2>5. \A r \in Refs : Gone(r)' = Gone(r) /\ refunded'[r] = refunded[r]
    BY <1>1, GoneSame
  <2>6. \A k \in Clerks, r \in Refs : clerk'[k] = clerk[k] /\ (OnItsWay(k, r)' <=> OnItsWay(k, r))
    BY <1>1 DEF OnItsWay
  <2>7. ASSUME NEW r \in Refs, r # s PROVE Stands(r)' /\ Evened(r)'
    <3>1. Untouched(r) BY <2>4, <2>5, <2>7 DEF Untouched
    <3> QED BY <2>3, <2>6, <3>1, UntouchedEven DEF BooksInv
  <2>8. Stands(s)'
    <3>1. ledger[s].sale = 0 BY <2>3, <2>4 DEF BooksInv, Stands
    <3> QED BY <2>4, <3>1, PriceAssumption DEF Stands
  <2>9. Evened(s)'
    <3>1. \A n : Even(s, n) => ledger'[s].back + ledger'[s].loose + n = Gone(s)'
      BY <2>4, <2>5 DEF Even
    <3>2. (\A k \in Clerks : ~OnItsWay(k, s)') => Even(s, 0)' /\ refunded'[s] = Gone(s)'
      <4>1. Evened(s) BY <2>3 DEF BooksInv
      <4> QED BY <2>4, <2>5, <2>6, <3>1, <4>1 DEF Evened, Even
    <3>3. ASSUME NEW k \in Clerks, OnItsWay(k, s)' PROVE Brings(k, s)'
      <4>1. Brings(k, s) /\ clerk'[k] = clerk[k] BY <2>3, <2>6, <3>3 DEF BooksInv, Evened
      <4>2. Even(s, clerk[k].cents)' BY <2>4, <3>1, <4>1 DEF Brings, Even
      <4>3. clerk[k].pc = "mark" => clerk[k].how # "void" BY <2>4, <4>1 DEF Brings
      <4> QED BY <2>4, <2>5, <4>1, <4>2, <4>3 DEF Brings
    <3> QED BY <3>2, <3>3 DEF Evened
  <2> QED BY <1>1, <2>3, <2>7, <2>8, <2>9 DEF BooksInv
<1> QED BY <1>1, <1>2, <1>3

-----------------------------------------------------------------------------
(* The one clerk. *)

\* What a clerk's step leaves alone: every other charge.
LEMMA ClerkAlone ==
  ASSUME CardTypeOK, Refers, OneClerk, NEW k \in Clerks, ClerkDoes(k), ~BeginRefund(k), ~BeginVoid(k),
         NEW r \in Refs, r # clerk[k].ref, Stands(r), Evened(r), Untouched(r)
  PROVE  Stands(r)' /\ Evened(r)'
<1>1. \/ clerk'[k].pc = "idle"
      \/ clerk'[k].ref = clerk[k].ref /\ clerk'[k].cents = clerk[k].cents
  BY ClerkMoves, ClerkType DEF ClerkDoes
<1>2. \A j \in Clerks : ~OnItsWay(j, r) /\ ~OnItsWay(j, r)'
  BY <1>1 DEF OneClerk, OnItsWay
<1> QED BY <1>2, UntouchedEven

LEMMA BeginBooks ==
  ASSUME CardTypeOK, OneClerk, BooksInv, NEW k \in Clerks, BeginRefund(k) \/ BeginVoid(k)
  PROVE  BooksInv'
<1>1. PICK s \in Refs, pc \in {"return", "void"}, cents \in 1 .. Price :
         ClerkStarts(k, s, pc, cents) /\ (pc = "void" => cents = Price)
  BY PriceAssumption DEF BeginRefund, BeginVoid
<1>2. /\ clerk[k] = NoClerk
      /\ clerk'[k].pc = pc /\ clerk'[k].cents = cents
      /\ UNCHANGED <<terminal, refunded, order, ledger, allowed>>
  BY <1>1 DEF ClerkStarts, CardTypeOK, NoClerk
<1>3. ASSUME NEW r \in Refs, "tillVoid" \notin allowed PROVE Stands(r)' /\ Evened(r)'
  <2>1. Untouched(r) BY <1>2, GoneSame DEF Untouched
  <2>2. \A j \in Clerks : ~OnItsWay(j, r) /\ ~OnItsWay(j, r)'
    BY <1>2 DEF OneClerk, OnItsWay, NoClerk
  <2> QED BY <1>3, <2>1, <2>2, UntouchedEven DEF BooksInv
<1>4. \A j \in Clerks : clerk'[j].pc = "void" => clerk'[j].cents = Price
  BY <1>1, <1>2 DEF OneClerk
<1> QED BY <1>2, <1>3, <1>4 DEF BooksInv

\* Who is at work works on one charge.
LEMMA AtWork ==
  ASSUME CardTypeOK, Refers, NEW k \in Clerks, clerk[k].pc # "idle"
  PROVE  /\ ~BeginRefund(k) /\ ~BeginVoid(k)
         /\ \E s \in Refs, n \in 1 .. Price : clerk[k].ref = s /\ clerk[k].cents = n
<1>1. clerk[k] # NoClerk BY DEF NoClerk
<1>2. ~BeginRefund(k) /\ ~BeginVoid(k) BY <1>1 DEF BeginRefund, BeginVoid, ClerkStarts
<1> QED BY <1>2 DEF Refers

\* The request ends without a trace.
LEMMA EndBooks ==
  ASSUME CardTypeOK, OneClerk, BooksInv, NEW k \in Clerks, clerk[k].pc \in {"return", "void"},
         clerk' = [clerk EXCEPT ![k] = NoClerk],
         UNCHANGED <<terminal, refunded, order, ledger, allowed>>
  PROVE  BooksInv'
<1>1. ASSUME NEW r \in Refs, "tillVoid" \notin allowed PROVE Stands(r)' /\ Evened(r)'
  <2>1. Untouched(r) BY GoneSame DEF Untouched
  <2>2. \A j \in Clerks : ~OnItsWay(j, r) /\ ~OnItsWay(j, r)'
    BY DEF OneClerk, OnItsWay, NoClerk, CardTypeOK
  <2> QED BY <1>1, <2>1, <2>2, UntouchedEven DEF BooksInv
<1>2. \A j \in Clerks : clerk'[j].pc # "void" BY DEF OneClerk, NoClerk, CardTypeOK
<1> QED BY <1>1, <1>2 DEF BooksInv

\* The provider takes n cents back, or the whole sale.
LEMMA ReturnGone ==
  ASSUME CardTypeOK, NEW s \in Refs, NEW n \in 1 .. Price, n \notin terminal[s].back,
         terminal' = [terminal EXCEPT ![s].back = @ \cup {n}]
  PROVE  /\ Gone(s)' = Gone(s) + n
         /\ \A r \in Refs : r # s => Gone(r)' = Gone(r)
<1>1. /\ terminal'[s].back = terminal[s].back \cup {n}
      /\ terminal'[s].state = terminal[s].state
      /\ \A r \in Refs : r # s => terminal'[r] = terminal[r]
  BY DEF CardTypeOK, Transaction
<1>2. SumSet(terminal[s].back \cup {n}) = SumSet(terminal[s].back) + n
  <2> DEFINE back == terminal[s].back
  <2>1. IsFiniteSet(back) /\ back \subseteq Nat /\ n \in Nat /\ n \notin back BY GoneType
  <2> HIDE DEF back
  <2>2. SumSet(back \cup {n}) = SumSet(back) + n BY <2>1, SumAdds
  <2> QED BY <2>2 DEF back
<1>3. Back(s)' = Back(s) + n BY <1>1, <1>2 DEF Back
<1>4. Whole(s)' = Whole(s) BY <1>1 DEF Whole
<1>5. Back(s) \in Nat /\ Whole(s) \in Nat /\ n \in Nat BY GoneType
<1>6. Gone(s)' = Gone(s) + n BY <1>3, <1>4, <1>5 DEF Gone
<1> QED BY <1>1, <1>6, GoneSame

LEMMA VoidGone ==
  ASSUME CardTypeOK, NEW s \in Refs, terminal[s].state = "approved",
         terminal' = [terminal EXCEPT ![s].state = "voided"]
  PROVE  /\ Gone(s)' = Gone(s) + Price
         /\ \A r \in Refs : r # s => Gone(r)' = Gone(r)
<1>1. /\ terminal'[s].back = terminal[s].back
      /\ terminal'[s].state = "voided"
      /\ \A r \in Refs : r # s => terminal'[r] = terminal[r]
  BY DEF CardTypeOK, Transaction
<1>2. Back(s)' = Back(s) BY <1>1 DEF Back
<1>3. Whole(s) = 0 /\ Whole(s)' = Price BY <1>1 DEF Whole
<1>4. Back(s) \in Nat /\ Price \in Nat BY GoneType, PriceAssumption
<1>5. Gone(s)' = Gone(s) + Price BY <1>2, <1>3, <1>4 DEF Gone
<1> QED BY <1>1, <1>5, GoneSame

\* Money that went back sets out for the books.
LEMMA SetsOut ==
  ASSUME CardTypeOK, OneClerk, BooksInv, NEW k \in Clerks, NEW s \in Refs, NEW n \in 1 .. Price,
         "tillVoid" \notin allowed,
         clerk[k].pc \in {"return", "void"}, clerk[k].ref = s, clerk[k].cents = n,
         clerk'[k].pc \in {"tally", "full"}, clerk'[k].ref = s, clerk'[k].cents = n,
         UNCHANGED <<order, ledger>>, Gone(s)' = Gone(s) + n,
         IF clerk'[k].pc = "tally" THEN refunded'[s] = refunded[s]
         ELSE refunded'[s] = refunded[s] + n /\ (clerk'[k].full => n = Price)
  PROVE  Stands(s)' /\ Evened(s)'
<1>1. Stands(s) /\ Even(s, 0) /\ refunded[s] = Gone(s)
  BY DEF BooksInv, Evened, OneClerk, OnItsWay
<1>2. /\ ledger[s].back \in Nat /\ ledger[s].loose \in Nat /\ Gone(s) \in Nat /\ n \in Nat
      /\ Price \in Nat /\ order'[s] = order[s] /\ ledger'[s] = ledger[s]
  BY GoneType, PriceAssumption DEF CardTypeOK, Books
<1>3. Stands(s)' BY <1>1, <1>2 DEF Stands
<1>4. /\ order[s] # "VOID" => ledger[s].back + ledger[s].loose + 0 = Gone(s)
      /\ order[s] = "VOID" /\ ledger[s].loose = 0 => ledger[s].back + 0 + Price = Gone(s)
  BY <1>1 DEF Even
<1>5. /\ order'[s] # "VOID" => ledger'[s].back + ledger'[s].loose + n = Gone(s)'
      /\ order'[s] = "VOID" /\ ledger'[s].loose = 0 => ledger'[s].back + n + Price = Gone(s)'
  BY <1>2, <1>4
<1>6. Even(s, clerk[k].cents)' BY <1>5 DEF Even
<1>7. clerk'[k].pc = "tally" => refunded'[s] + clerk'[k].cents = Gone(s)' BY <1>1
<1>8. clerk'[k].pc # "tally" => refunded'[s] = Gone(s)' /\ (clerk'[k].full => refunded'[s] >= Price)
  BY <1>1, <1>2
<1>9. OnItsWay(k, s)' BY DEF OnItsWay
<1>10. Brings(k, s)' BY <1>6, <1>7, <1>8 DEF Brings
<1>11. \A j \in Clerks : j = k BY DEF OneClerk
<1>12. Evened(s)' BY <1>9, <1>10, <1>11 DEF Evened
<1> QED BY <1>3, <1>12

LEMMA ReturnBooks ==
  ASSUME CardTypeOK, Refers, OneClerk, BooksInv, NEW k \in Clerks, AskReturn(k)
  PROVE  BooksInv'
<1>1. clerk[k].pc = "return" /\ UNCHANGED <<refunded, order, ledger, allowed>> BY DEF AskReturn
<1>2. PICK s \in Refs, n \in 1 .. Price : clerk[k].ref = s /\ clerk[k].cents = n BY <1>1, AtWork
<1>3. ~BeginRefund(k) /\ ~BeginVoid(k) /\ ClerkDoes(k) BY <1>1, AtWork DEF ClerkDoes
<1>4. CASE n \in terminal[s].back
  <2>1. clerk' = [clerk EXCEPT ![k] = NoClerk] /\ UNCHANGED terminal BY <1>2, <1>4 DEF AskReturn
  <2> QED BY <1>1, <2>1, EndBooks
<1>5. CASE n \notin terminal[s].back
  <2>1. /\ terminal' = [terminal EXCEPT ![s].back = @ \cup {n}]
        /\ clerk' = [clerk EXCEPT ![k].pc = "tally"]
    BY <1>2, <1>5 DEF AskReturn
  <2>2. /\ clerk'[k].pc = "tally" /\ clerk'[k].ref = s /\ clerk'[k].cents = n
    BY <1>2, <2>1 DEF CardTypeOK, Clerk
  <2>3. /\ Gone(s)' = Gone(s) + n
        /\ \A r \in Refs : r # s => Gone(r)' = Gone(r)
    BY <1>5, <2>1, ReturnGone
  <2>4. SUFFICES ASSUME "tillVoid" \notin allowed
        PROVE  /\ \A r \in Refs : Stands(r)' /\ Evened(r)'
               /\ \A j \in Clerks : clerk'[j].pc # "void"
    BY <1>1 DEF BooksInv
  <2>5. ASSUME NEW r \in Refs, r # s PROVE Stands(r)' /\ Evened(r)'
    <3>1. Untouched(r) BY <1>1, <2>3, <2>5 DEF Untouched
    <3> QED BY <1>2, <1>3, <2>4, <2>5, <3>1, ClerkAlone DEF BooksInv
  <2>6. Stands(s)' /\ Evened(s)' BY <1>1, <1>2, <2>2, <2>3, <2>4, SetsOut
  <2>7. \A j \in Clerks : clerk'[j].pc # "void" BY <2>2 DEF OneClerk
  <2> QED BY <2>5, <2>6, <2>7
<1> QED BY <1>4, <1>5

LEMMA AskVoidBooks ==
  ASSUME CardTypeOK, Refers, OneClerk, BooksInv, NEW k \in Clerks, AskVoid(k)
  PROVE  BooksInv'
<1>1. clerk[k].pc = "void" /\ UNCHANGED <<order, ledger, allowed>> BY DEF AskVoid
<1>2. PICK s \in Refs, n \in 1 .. Price : clerk[k].ref = s /\ clerk[k].cents = n BY <1>1, AtWork
<1>3. ~BeginRefund(k) /\ ~BeginVoid(k) /\ ClerkDoes(k) BY <1>1, AtWork DEF ClerkDoes
<1>4. CASE terminal[s].state # "approved"
  <2>1. clerk' = [clerk EXCEPT ![k] = NoClerk] /\ UNCHANGED <<terminal, refunded>>
    BY <1>2, <1>4 DEF AskVoid
  <2> QED BY <1>1, <2>1, EndBooks
<1>5. CASE terminal[s].state = "approved"
  <2>1. /\ terminal' = [terminal EXCEPT ![s].state = "voided"]
        /\ refunded' = [refunded EXCEPT ![s] = @ + Price]
        /\ clerk' = [clerk EXCEPT ![k].pc = "full", ![k].full = TRUE]
    BY <1>2, <1>5 DEF AskVoid
  <2>2. /\ clerk'[k].pc = "full" /\ clerk'[k].ref = s /\ clerk'[k].cents = n
        /\ refunded'[s] = refunded[s] + Price
        /\ \A r \in Refs : r # s => refunded'[r] = refunded[r]
    BY <1>2, <2>1 DEF CardTypeOK, Clerk
  <2>3. /\ Gone(s)' = Gone(s) + Price
        /\ \A r \in Refs : r # s => Gone(r)' = Gone(r)
    BY <1>5, <2>1, VoidGone
  <2>4. SUFFICES ASSUME "tillVoid" \notin allowed
        PROVE  /\ \A r \in Refs : Stands(r)' /\ Evened(r)'
               /\ \A j \in Clerks : clerk'[j].pc # "void"
    BY <1>1 DEF BooksInv
  <2>5. ASSUME NEW r \in Refs, r # s PROVE Stands(r)' /\ Evened(r)'
    <3>1. Untouched(r) BY <1>1, <2>2, <2>3, <2>5 DEF Untouched
    <3> QED BY <1>2, <1>3, <2>4, <2>5, <3>1, ClerkAlone DEF BooksInv
  <2>6. n = Price BY <1>1, <1>2, <2>4 DEF BooksInv
  <2>7. Stands(s)' /\ Evened(s)' BY <1>1, <1>2, <2>2, <2>3, <2>4, <2>6, SetsOut
  <2>8. \A j \in Clerks : clerk'[j].pc # "void" BY <2>2 DEF OneClerk
  <2> QED BY <2>5, <2>7, <2>8
<1> QED BY <1>4, <1>5
\* The money goes on towards the books.
LEMMA GoesOn ==
  ASSUME CardTypeOK, OneClerk, BooksInv, NEW k \in Clerks, NEW s \in Refs, NEW n \in 1 .. Price,
         "tillVoid" \notin allowed,
         clerk[k].pc \in {"tally", "full", "settle"}, clerk[k].ref = s, clerk[k].cents = n,
         clerk'[k].pc \in {"full", "settle", "mark"}, clerk'[k].ref = s, clerk'[k].cents = n,
         UNCHANGED <<terminal, order, ledger>>,
         IF clerk[k].pc = "tally"
         THEN refunded'[s] = refunded[s] + n /\ (clerk'[k].full <=> refunded'[s] >= Price)
         ELSE refunded'[s] = refunded[s] /\ clerk'[k].full = clerk[k].full,
         clerk'[k].pc = "mark" =>
           /\ clerk'[k].how \in {"void", "tied", "loose"}
           /\ clerk'[k].how = "void" => clerk'[k].full /\ order[s] = "PAID"
           /\ clerk'[k].how = "tied" => order[s] # "none"
           /\ clerk'[k].how = "loose" => order[s] # "VOID"
  PROVE  Stands(s)' /\ Evened(s)'
<1>1. OnItsWay(k, s) BY DEF OnItsWay
<1>2. Stands(s) /\ Brings(k, s) BY <1>1 DEF BooksInv, Evened
<1>3. /\ Gone(s)' = Gone(s) /\ order'[s] = order[s] /\ ledger'[s] = ledger[s]
  BY GoneSame
<1>4. Stands(s)' BY <1>2, <1>3 DEF Stands
<1>5. Even(s, n) BY <1>2 DEF Brings
<1>6. Even(s, clerk[k].cents)' BY <1>3, <1>5 DEF Even
<1>7. refunded'[s] = Gone(s)' /\ (clerk'[k].full => refunded'[s] >= Price)
  BY <1>2, <1>3 DEF Brings
<1>8. OnItsWay(k, s)' BY DEF OnItsWay
<1>9. Brings(k, s)' BY <1>3, <1>6, <1>7 DEF Brings
<1>10. \A j \in Clerks : j = k BY DEF OneClerk
<1>11. Evened(s)' BY <1>8, <1>9, <1>10 DEF Evened
<1> QED BY <1>4, <1>11

LEMMA OnBooks ==
  ASSUME CardTypeOK, Refers, OneClerk, BooksInv, NEW k \in Clerks,
         TallyRefund(k) \/ CloseRecord(k) \/ SettleRefund(k)
  PROVE  BooksInv'
<1>1. /\ clerk[k].pc \in {"tally", "full", "settle"}
      /\ UNCHANGED <<terminal, order, ledger, allowed>>
  BY DEF TallyRefund, CloseRecord, SettleRefund
<1>2. PICK s \in Refs, n \in 1 .. Price : clerk[k].ref = s /\ clerk[k].cents = n BY <1>1, AtWork
<1>3. ~BeginRefund(k) /\ ~BeginVoid(k) /\ ClerkDoes(k) BY <1>1, AtWork DEF ClerkDoes
<1>4. /\ clerk'[k].pc \in {"full", "settle", "mark"} /\ clerk'[k].ref = s /\ clerk'[k].cents = n
      /\ IF clerk[k].pc = "tally"
         THEN refunded'[s] = refunded[s] + n /\ (clerk'[k].full <=> refunded'[s] >= Price)
         ELSE refunded'[s] = refunded[s] /\ clerk'[k].full = clerk[k].full
      /\ clerk'[k].pc = "mark" =>
           /\ clerk'[k].how \in {"void", "tied", "loose"}
           /\ clerk'[k].how = "void" => clerk'[k].full /\ order[s] = "PAID"
           /\ clerk'[k].how = "tied" => order[s] # "none"
           /\ clerk'[k].how = "loose" => order[s] # "VOID"
      /\ \A r \in Refs : r # s => refunded'[r] = refunded[r]
  <2>1. CASE TallyRefund(k)
    <3> DEFINE full == refunded[s] + n >= Price
    <3>1. full \in BOOLEAN OBVIOUS
    <3>2. /\ clerk' = [clerk EXCEPT ![k].pc = "full", ![k].full = full] /\ clerk[k].pc = "tally"
          /\ refunded' = [refunded EXCEPT ![s] = @ + n]
      BY <1>2, <2>1 DEF TallyRefund
    <3>3. refunded'[s] = refunded[s] + n /\ \A r \in Refs : r # s => refunded'[r] = refunded[r]
      BY <3>2 DEF CardTypeOK
    <3>4. full <=> refunded'[s] >= Price BY <3>3
    <3> HIDE DEF full
    <3>5. /\ clerk'[k].pc = "full" /\ clerk'[k].ref = s /\ clerk'[k].cents = n
          /\ clerk'[k].full = full
      BY <1>2, <3>2 DEF CardTypeOK, Clerk
    <3> QED BY <3>1, <3>2, <3>3, <3>4, <3>5
  <2>2. CASE CloseRecord(k)
    BY <1>2, <2>2 DEF CloseRecord, CardTypeOK, Clerk
  <2>3. CASE SettleRefund(k)
    <3> DEFINE how == CASE order[s] = "none"                          -> "loose"
                        [] clerk[k].full /\ order[s] = "PAID"         -> "void"
                        [] OTHER                                      -> "tied"
    <3>1. /\ how \in {"void", "tied", "loose"}
          /\ how = "void" => clerk[k].full /\ order[s] = "PAID"
          /\ how = "tied" => order[s] # "none"
          /\ how = "loose" => order[s] # "VOID"
      OBVIOUS
    <3>2. clerk' = [clerk EXCEPT ![k].pc = "mark", ![k].how = how] /\ clerk[k].pc = "settle"
          /\ refunded' = refunded
      BY <1>2, <2>3 DEF SettleRefund
    <3> HIDE DEF how
    <3>3. /\ clerk'[k].pc = "mark" /\ clerk'[k].ref = s /\ clerk'[k].cents = n
          /\ clerk'[k].how = how /\ clerk'[k].full = clerk[k].full
      BY <1>2, <3>2 DEF CardTypeOK, Clerk
    <3> QED BY <3>1, <3>2, <3>3
  <2> QED BY <2>1, <2>2, <2>3
<1>5. SUFFICES ASSUME "tillVoid" \notin allowed
      PROVE  /\ \A r \in Refs : Stands(r)' /\ Evened(r)'
             /\ \A j \in Clerks : clerk'[j].pc # "void"
  BY <1>1 DEF BooksInv
<1>6. ASSUME NEW r \in Refs, r # s PROVE Stands(r)' /\ Evened(r)'
  <2>1. Untouched(r) BY <1>1, <1>4, <1>6, GoneSame DEF Untouched
  <2> QED BY <1>2, <1>3, <1>5, <1>6, <2>1, ClerkAlone DEF BooksInv
<1>7. Stands(s)' /\ Evened(s)' BY <1>1, <1>2, <1>4, <1>5, GoesOn
<1>8. \A j \in Clerks : clerk'[j].pc # "void" BY <1>4 DEF OneClerk
<1> QED BY <1>6, <1>7, <1>8

LEMMA MarkBooks ==
  ASSUME CardTypeOK, Refers, OneClerk, BooksInv, NEW k \in Clerks, MarkRefund(k)
  PROVE  BooksInv'
<1>1. /\ clerk[k].pc = "mark" /\ clerk' = [clerk EXCEPT ![k] = NoClerk]
      /\ UNCHANGED <<terminal, refunded, allowed>>
  BY DEF MarkRefund
<1>2. PICK s \in Refs, n \in 1 .. Price : clerk[k].ref = s /\ clerk[k].cents = n BY <1>1, AtWork
<1>3. ~BeginRefund(k) /\ ~BeginVoid(k) /\ ClerkDoes(k) BY <1>1, AtWork DEF ClerkDoes
<1>4. clerk'[k].pc = "idle" BY <1>1 DEF CardTypeOK, NoClerk
<1>5. SUFFICES ASSUME "tillVoid" \notin allowed
      PROVE  /\ \A r \in Refs : Stands(r)' /\ Evened(r)'
             /\ \A j \in Clerks : clerk'[j].pc # "void"
  BY <1>1 DEF BooksInv
<1>6. Stands(s) /\ Brings(k, s)
  <2>1. OnItsWay(k, s) BY <1>1, <1>2 DEF OnItsWay
  <2> QED BY <1>5, <2>1 DEF BooksInv, Evened
<1>7. \/ clerk[k].how = "void" /\ MayVoid(s) /\ VoidOrder(s)
      \/ /\ clerk[k].how = "loose" /\ ledger' = [ledger EXCEPT ![s].loose = @ + n]
         /\ UNCHANGED order
      \/ /\ clerk[k].how \in {"void", "tied"} /\ ledger' = [ledger EXCEPT ![s].back = @ + n]
         /\ UNCHANGED order
  <2>1. clerk[k].how \in {"void", "tied", "loose"} /\ (clerk[k].how = "void" => order[s] = "PAID")
    BY <1>1, <1>6 DEF Brings
  <2> QED BY <1>2, <2>1 DEF MarkRefund
<1>8. \A r \in Refs : r # s => order'[r] = order[r] /\ ledger'[r] = ledger[r]
  BY <1>7 DEF VoidOrder, CardTypeOK
<1>9. ASSUME NEW r \in Refs, r # s PROVE Stands(r)' /\ Evened(r)'
  <2>1. Untouched(r) BY <1>1, <1>8, <1>9, GoneSame DEF Untouched
  <2> QED BY <1>2, <1>3, <1>5, <1>9, <2>1, ClerkAlone DEF BooksInv
<1>10. \A j \in Clerks : ~OnItsWay(j, s)' BY <1>4 DEF OneClerk, OnItsWay
<1>11. /\ Gone(s)' = Gone(s) /\ refunded'[s] = refunded[s] BY <1>1, GoneSame
<1>12. /\ ledger[s].sale \in Nat /\ ledger[s].back \in Nat /\ ledger[s].loose \in Nat
       /\ Gone(s) \in Nat /\ n \in Nat /\ n <= Price /\ n > 0 /\ Price \in Nat
       /\ ledger[s] \in Books /\ order[s] \in {"none", "PAID", "VOID"}
  BY GoneType, PriceAssumption DEF CardTypeOK, Books
<1>13. /\ refunded[s] = Gone(s) /\ (clerk[k].full => refunded[s] >= Price)
       /\ order[s] # "VOID" => ledger[s].back + ledger[s].loose + n = Gone(s)
       /\ order[s] = "VOID" /\ ledger[s].loose = 0 => ledger[s].back + n + Price = Gone(s)
       /\ clerk[k].how = "void" => clerk[k].full /\ order[s] = "PAID"
       /\ clerk[k].how = "tied" => order[s] # "none"
       /\ clerk[k].how = "loose" => order[s] # "VOID"
  BY <1>1, <1>2, <1>6 DEF Brings, Even
<1>14. Stands(s)' /\ Even(s, 0)'
  <2>1. CASE clerk[k].how = "void" /\ MayVoid(s) /\ VoidOrder(s)
    <3>1. /\ order'[s] = "VOID" /\ ledger'[s].sale = 0 /\ ledger'[s].back = 0
          /\ ledger'[s].loose = ledger[s].loose
          /\ order[s] = "PAID" /\ ledger[s].back = 0
      BY <1>12, <2>1 DEF VoidOrder, MayVoid, CardTypeOK, Books
    <3>2. ledger[s].loose = 0 => Price = Gone(s) BY <1>12, <1>13, <2>1, <3>1
    <3> QED BY <1>11, <1>12, <3>1, <3>2 DEF Stands, Even
  <2>2. CASE /\ clerk[k].how = "loose" /\ ledger' = [ledger EXCEPT ![s].loose = @ + n]
             /\ UNCHANGED order
    <3>1. /\ order'[s] = order[s] /\ ledger'[s].sale = ledger[s].sale
          /\ ledger'[s].back = ledger[s].back /\ ledger'[s].loose = ledger[s].loose + n
      BY <1>12, <2>2 DEF CardTypeOK, Books
    <3>2. Stands(s)' BY <1>6, <3>1 DEF Stands
    <3>3. order'[s] # "VOID" /\ ledger'[s].back + ledger'[s].loose + 0 = Gone(s)'
      BY <1>11, <1>12, <1>13, <2>2, <3>1
    <3> QED BY <3>2, <3>3 DEF Even
  <2>3. CASE /\ clerk[k].how \in {"void", "tied"} /\ ledger' = [ledger EXCEPT ![s].back = @ + n]
             /\ UNCHANGED order
    <3>1. /\ order'[s] = order[s] /\ ledger'[s].sale = ledger[s].sale
          /\ ledger'[s].loose = ledger[s].loose /\ ledger'[s].back = ledger[s].back + n
      BY <1>12, <2>3 DEF CardTypeOK, Books
    <3>2. order[s] # "none" BY <1>13, <2>3
    <3>3. Stands(s)' BY <1>6, <3>1, <3>2 DEF Stands
    <3>4. /\ order'[s] # "VOID" => ledger'[s].back + ledger'[s].loose + 0 = Gone(s)'
          /\ order'[s] = "VOID" /\ ledger'[s].loose = 0 => ledger'[s].back + 0 + Price = Gone(s)'
      BY <1>11, <1>12, <1>13, <3>1
    <3> QED BY <3>3, <3>4 DEF Even
  <2> QED BY <1>7, <2>1, <2>2, <2>3
<1>15. Evened(s)' BY <1>10, <1>11, <1>13, <1>14 DEF Evened
<1>16. \A j \in Clerks : clerk'[j].pc # "void" BY <1>4 DEF OneClerk
<1> QED BY <1>9, <1>14, <1>15, <1>16

LEMMA BooksStep ==
  ASSUME CardTypeOK, Refers, OneClerk, BooksInv, [CardNext]_cardVars
  PROVE  BooksInv'
<1>1. ASSUME NEW k \in Clerks, ClerkDoes(k) PROVE BooksInv'
  BY <1>1, BeginBooks, ReturnBooks, AskVoidBooks, OnBooks, MarkBooks DEF ClerkDoes
<1>2. ASSUME NEW r \in Refs, TillVoid(r) PROVE BooksInv'
  BY <1>2 DEF TillVoid, BooksInv
<1>3. ASSUME Posts PROVE BooksInv'
  <2>1. CASE \E x \in Syncs : SyncStart(x) BY <2>1, CalmSteps, CalmBooks
  <2>2. CASE TillPosts \/ (\E r \in Refs : LateOrder(r)) \/ (\E x \in Syncs : SyncPosts(x))
    BY <2>2, PostBooks
  <2> QED BY <1>3, <2>1, <2>2 DEF Posts
<1>4. ASSUME \/ \E r \in Refs : PressPay(r) \/ PressOffline(r)
             \/ TillMoves \/ PollHear \/ ListHear
             \/ \E r \in Refs : MakeRecord(r) \/ AskTerminal(r) \/ Tap(r) \/ AnswerCharge(r)
             \/ \E r \in Refs : ListAsk(r)
             \/ UNCHANGED cardVars
      PROVE BooksInv'
  BY <1>4, CalmSteps, CalmBooks
<1> QED BY EveryStep, <1>1, <1>2, <1>3, <1>4 DEF Steps

LEMMA BooksInit == CardInit => BooksInv
<1> SUFFICES ASSUME CardInit PROVE BooksInv OBVIOUS
<1>1. ASSUME NEW r \in Refs PROVE Stands(r) /\ Evened(r)
  <2>1. /\ order[r] = "none" /\ ledger[r] = [sale |-> 0, back |-> 0, loose |-> 0]
        /\ refunded[r] = 0 /\ terminal[r] = [state |-> "none", back |-> {}]
        /\ \A k \in Clerks : clerk[k].pc = "idle"
    BY DEF CardInit, NoClerk
  <2>2. Gone(r) = 0 BY <2>1, SumOfNone DEF Gone, Back, Whole
  <2> QED BY <2>1, <2>2 DEF Stands, Evened, Even, OnItsWay
<1>2. \A k \in Clerks : clerk[k].pc # "void" BY DEF CardInit, NoClerk
<1> QED BY <1>1, <1>2 DEF BooksInv

\* CardSales: while one admin at a time gives card money back, and nobody voids a bill on the
\* till, the books hold of every card sale what the provider holds, unless a sale was voided
\* of which part had gone back before it was made.
THEOREM BooksCorrect ==
  ASSUME OneClerk
  PROVE  CardSpec => []BooksFollowTerminal
<1>1. CardInit => CardInv /\ BooksInv BY CardInvInit, BooksInit
<1>2. CardInv /\ BooksInv /\ [CardNext]_cardVars => CardInv' /\ BooksInv'
  BY CardInvStep, BooksStep DEF CardInv
<1>3. CardInv /\ BooksInv => BooksFollowTerminal
  <2> SUFFICES ASSUME CardInv, BooksInv, "tillVoid" \notin allowed,
                      \A k \in Clerks : clerk[k] = NoClerk, NEW r \in Refs,
                      order[r] # "none", record[r].status # "none",
                      order[r] = "VOID" => ledger[r].loose = 0
               PROVE  Booked(r) = Kept(r)
    BY DEF BooksFollowTerminal
  <2>1. CardTypeOK /\ terminal[r].state \in Charged
    BY DEF CardInv, SoldWell, Sold, Taken
  <2>2. Stands(r) /\ Even(r, 0)
    BY DEF BooksInv, Evened, OnItsWay, NoClerk
  <2>3. /\ ledger[r].sale \in Nat /\ ledger[r].back \in Nat /\ ledger[r].loose \in Nat
        /\ Back(r) \in Nat /\ Price \in Nat /\ order[r] \in {"PAID", "VOID"}
    BY <2>1, GoneType, PriceAssumption DEF CardTypeOK, Books
  <2>4. /\ order[r] = "PAID" => ledger[r].sale = Price /\ ledger[r].back + ledger[r].loose = Gone(r)
        /\ order[r] = "VOID" => ledger[r].sale = 0 /\ ledger[r].back + Price = Gone(r)
    BY <2>2, <2>3 DEF Stands, Even
  <2>5. CASE terminal[r].state = "approved"
    <3>1. Gone(r) = Back(r) /\ Kept(r) = Price - Back(r) BY <2>3, <2>5 DEF Gone, Whole, Kept
    <3> QED BY <2>3, <2>4, <3>1 DEF Booked
  <2>6. CASE terminal[r].state = "voided"
    <3>1. Gone(r) = Back(r) + Price /\ Kept(r) = 0 - Back(r) BY <2>3, <2>6 DEF Gone, Whole, Kept
    <3> QED BY <2>3, <2>4, <3>1 DEF Booked
  <2> QED BY <2>1, <2>5, <2>6 DEF Charged
<1> QED BY <1>1, <1>2, <1>3, PTL DEF CardSpec
=============================================================================
