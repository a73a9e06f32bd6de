----------------------------- MODULE CardSales -----------------------------
(***************************************************************************)
(* One ticket of a till whose card terminal the server drives: the charge, *)
(* the sale it pays for, the sales kept on the device while the server is  *)
(* out of reach, and the card money an admin gives back.                   *)
(*                                                                         *)
(* Source: doPay and syncPending of apps/web/src/app/salon/pos/page.tsx,   *)
(* lib/offlinePos.ts; charge, getIntent, listIntents, refund, voidPayment  *)
(* and settleRefund of payments-hub/payment-orchestrator.service.ts, the   *)
(* Dejavoo adapter's charge and refund; createOrder's idempotency and      *)
(* voidOrder of pos/pos.service.ts.                                        *)
(*                                                                         *)
(* Each press of Pay takes a fresh clientRef r; "r-card" names the charge. *)
(* The names differ from those of Deposits: one module may extend both.    *)
(***************************************************************************)
EXTENDS Integers, FiniteSets, FiniteSetsExt

CONSTANTS Refs,        \* client references a ticket may use: 1 .. n (bound)
          Price,       \* what the ticket costs, all of it by card
          Clerks,      \* an admin's refunds and voids in flight at once
          Syncs,       \* uploads of the device's queue in flight at once
          CardWorlds   \* which operations and faults a behaviour may see: sets of them

ASSUME RefsAssumption  == Refs \subseteq Nat \ {0}
ASSUME PriceAssumption == Price \in Nat \ {0}

VARIABLES till,      \* the payment screen
          charge,    \* the server's POST /payments-hub/charge of each ref
          record,    \* paymentIntentRecord of each ref
          terminal,  \* the provider's transaction, and what went back of it
          refunded,  \* sum of its paymentRefund rows that SUCCEEDED
          order,     \* the order with that clientRef
          ledger,    \* payment rows: the sale's mirror, negative rows of its order, others
          queue,     \* the device's sales that wait for the server
          sync,      \* the queue's uploads
          late,      \* orders posted whose caller stopped waiting
          lister,    \* listIntents at work
          clerk,     \* refunds and voids at work
          allowed    \* the operations and faults that may still happen

cardVars == <<till, charge, record, terminal, refunded, order, ledger, queue, sync,
              late, lister, clerk, allowed>>

NoRef == 0

Open    == {"REQUIRES_PAYMENT", "PROCESSING"}
Answers == {"PROCESSING", "SUCCEEDED", "FAILED"}
Charged == {"approved", "voided"}

Recheck == [ref : Refs \cup {NoRef}, read : Open \cup {"FAILED"}, said : Answers]
NoCheck == [ref |-> NoRef, read |-> "PROCESSING", said |-> "PROCESSING"]

Till == [pc : {"cart", "charge", "poll", "stuck", "post", "done"},
         ref : Refs \cup {NoRef}, check : Recheck]

ChargeRow == [status : {"none", "CANCELED", "REQUIRES_PAYMENT"} \cup Answers, ext : BOOLEAN]

\* back: the refunds of it, which go by the amount.
Transaction == [state : {"none", "waiting", "declined"} \cup Charged, back : SUBSET (1 .. Price)]

Books == [sale : Nat, back : Nat, loose : Nat]

Poster == [pc : {"idle", "read", "make"}, ref : Refs \cup {NoRef}]
NoPost == [pc |-> "idle", ref |-> NoRef]

Clerk == [pc   : {"idle", "return", "void", "tally", "full", "settle", "mark"},
          ref  : Refs \cup {NoRef},
          cents : 0 .. Price,
          full : BOOLEAN,                       \* everything went back
          how  : {"none", "void", "tied", "loose"}]   \* how it reaches the books
NoClerk == [pc |-> "idle", ref |-> NoRef, cents |-> 0, full |-> FALSE, how |-> "none"]

CardInit ==
  /\ till = [pc |-> "cart", ref |-> NoRef, check |-> NoCheck]
  /\ charge = [r \in Refs |-> "none"]
  /\ record = [r \in Refs |-> [status |-> "none", ext |-> FALSE]]
  /\ terminal = [r \in Refs |-> [state |-> "none", back |-> {}]]
  /\ refunded = [r \in Refs |-> 0]
  /\ order = [r \in Refs |-> "none"]
  /\ ledger = [r \in Refs |-> [sale |-> 0, back |-> 0, loose |-> 0]]
  /\ queue = {}
  /\ sync = [x \in Syncs |-> NoPost]
  /\ late = {}
  /\ lister = NoCheck
  /\ clerk = [k \in Clerks |-> NoClerk]
  /\ allowed \in CardWorlds

-----------------------------------------------------------------------------
\* The till: doPay.

\* A fresh reference: the next one nobody used.
Fresh(r) == r > till.ref /\ \A s \in Refs : s > till.ref => r <= s

At(pc)     == till.pc = pc
Screen(pc) == till' = [till EXCEPT !.pc = pc, !.check = NoCheck]

\* Pay, with the server in reach.
PressPay(r) ==
  /\ At("cart") /\ Fresh(r)
  /\ till' = [till EXCEPT !.pc = "charge", !.ref = r]
  /\ charge' = [charge EXCEPT ![r] = "arrived"]
  /\ UNCHANGED <<record, terminal, refunded, order, ledger, queue, sync, late, lister, clerk, allowed>>

\* Pay, offline: kept on the device, no card is read.
PressOffline(r) ==
  /\ "offline" \in allowed
  /\ At("cart") /\ Fresh(r)
  /\ till' = [till EXCEPT !.pc = "done", !.ref = r]
  /\ queue' = queue \cup {r}
  /\ UNCHANGED <<charge, record, terminal, refunded, order, ledger, sync, late, lister, clerk, allowed>>

\* Mutant: a charge still in progress will do.
TrustsProgress(status) == IF status = "FAILED" THEN "cart" ELSE "post"

\* What the screen does with a status of the charge.
Follow(status) ==
  CASE status = "SUCCEEDED" -> "post"
    [] status \in Open      -> "poll"
    [] OTHER                -> "cart"

HearCharge ==
  /\ At("charge") /\ charge[till.ref] \in Answers
  /\ Screen(Follow(charge[till.ref]))
  /\ charge' = [charge EXCEPT ![till.ref] = "none"]
  /\ UNCHANGED <<record, terminal, refunded, order, ledger, queue, sync, late, lister, clerk, allowed>>

\* The answer of a call does not reach the till (bound: once): "Card terminal error".
LoseCall ==
  /\ "lost" \in allowed
  /\ till.pc \in {"charge", "poll"}
  /\ Screen("cart")
  /\ allowed' = allowed \ {"lost"}
  /\ UNCHANGED <<charge, record, terminal, refunded, order, ledger, queue, sync, late, lister, clerk>>

\* 75 polls later the screen says that it does not know.
GiveUp ==
  /\ At("poll") /\ till.check = NoCheck
  /\ Screen("stuck")
  /\ UNCHANGED <<charge, record, terminal, refunded, order, ledger, queue, sync, late, lister, clerk, allowed>>

\* ... until it is closed.
CloseStuck ==
  /\ At("stuck") /\ till.check = NoCheck
  /\ Screen("cart")
  /\ UNCHANGED <<charge, record, terminal, refunded, order, ledger, queue, sync, late, lister, clerk, allowed>>

-----------------------------------------------------------------------------
\* The server's charge, and the provider.

\* No intent has this clientRef: one is made before the provider is asked.
MakeRecord(r) ==
  /\ charge[r] = "arrived"
  /\ charge' = [charge EXCEPT ![r] = "made"]
  /\ record' = [record EXCEPT ![r].status = "REQUIRES_PAYMENT"]
  /\ UNCHANGED <<till, terminal, refunded, order, ledger, queue, sync, late, lister, clerk, allowed>>

\* The sale is sent; it reaches the terminal, or not, or finds it busy.
AskTerminal(r) ==
  /\ charge[r] = "made"
  /\ charge' = [charge EXCEPT ![r] = "asked"]
  /\ \/ terminal' = [terminal EXCEPT ![r].state = "waiting"]
     \/ UNCHANGED terminal
  /\ UNCHANGED <<till, record, refunded, order, ledger, queue, sync, late, lister, clerk, allowed>>

\* The customer taps her card, or the terminal declines it.
Tap(r) ==
  /\ terminal[r].state = "waiting"
  /\ \E s \in {"approved", "declined"} : terminal' = [terminal EXCEPT ![r].state = s]
  /\ UNCHANGED <<till, charge, record, refunded, order, ledger, queue, sync, late, lister, clerk, allowed>>

\* What getPaymentStatus finds: not found means that the card was never charged.
Said(r) ==
  CASE terminal[r].state \in Charged    -> "SUCCEEDED"
    [] terminal[r].state = "waiting"    -> "PROCESSING"
    [] OTHER                            -> "FAILED"

\* Mutant: a call that broke off leaves no reference to ask about.
NoReference(status) == status # "PROCESSING"

\* "Keep a reference even on an aborted call."
Referenced(status) == TRUE

\* The provider answers, or the call times out: then the outcome is unknown.
AnswerCharge(r) ==
  /\ charge[r] = "asked"
  /\ \E status \in {"PROCESSING", Said(r)} :
       /\ charge' = [charge EXCEPT ![r] = status]
       /\ record' = [record EXCEPT ![r] = [status |-> status, ext |-> Referenced(status)]]
  /\ UNCHANGED <<till, terminal, refunded, order, ledger, queue, sync, late, lister, clerk, allowed>>

\* The server restarts in the middle of a charge: the till's call fails.
CrashCharge(r) ==
  /\ "crash" \in allowed
  /\ charge[r] \in {"arrived", "made", "asked"}
  /\ charge' = [charge EXCEPT ![r] = "none"]
  /\ IF At("charge") /\ till.ref = r THEN Screen("cart") ELSE UNCHANGED till
  /\ UNCHANGED <<record, terminal, refunded, order, ledger, queue, sync, late, lister, clerk, allowed>>

-----------------------------------------------------------------------------
\* Rechecks: getIntent, which the till polls, and listIntents.

Check(r) == [ref |-> r, read |-> record[r].status, said |-> Said(r)]

\* Mutant: whatever the record says, the provider is asked.
AsksAnyway(r) == record[r].ext

\* An open charge, or one that failed, is asked about.
Asks(r) == record[r].ext /\ record[r].status \notin {"SUCCEEDED", "CANCELED"}

\* The record is read and, when it is open and can be asked about, the provider asked.
PollAsk ==
  LET r == till.ref IN
  /\ till.pc \in {"poll", "stuck"} /\ till.check = NoCheck
  /\ IF Asks(r)
     THEN till' = [till EXCEPT !.check = Check(r)]
     ELSE IF At("poll") THEN Screen(Follow(record[r].status))
     ELSE Screen(CASE record[r].status \in Open -> "stuck" [] OTHER -> "cart")
  /\ UNCHANGED <<charge, record, terminal, refunded, order, ledger, queue, sync, late, lister, clerk, allowed>>

Write(c) == IF c.said = c.read THEN record ELSE [record EXCEPT ![c.ref].status = c.said]

\* What the provider said is written by the record's id, whatever it holds by now.  The
\* dialog of an unknown charge only says so; Pay is pressed again.
PollHear ==
  LET c == till.check IN
  /\ c # NoCheck
  /\ record' = Write(c)
  /\ Screen(CASE At("poll")         -> Follow(c.said)
              [] c.said \in Open    -> "stuck"
              [] OTHER              -> "cart")
  /\ UNCHANGED <<charge, terminal, refunded, order, ledger, queue, sync, late, lister, clerk, allowed>>

ListAsk(r) ==
  /\ "list" \in allowed
  /\ lister = NoCheck
  /\ record[r].status \in Open /\ record[r].ext
  /\ lister' = Check(r)
  /\ UNCHANGED <<till, charge, record, terminal, refunded, order, ledger, queue, sync, late, clerk, allowed>>

ListHear ==
  /\ lister # NoCheck
  /\ record' = Write(lister)
  /\ lister' = NoCheck
  /\ UNCHANGED <<till, charge, terminal, refunded, order, ledger, queue, sync, late, clerk, allowed>>

-----------------------------------------------------------------------------
\* POST /pos/orders, from the till and from the queue.

\* Mutant: the key is not unique.
NoKey(r) == TRUE

\* (tenantId, clientRef) is unique.
KeyFree(r) == order[r] = "none"

\* createOrder's transaction.
MakeOrder(r) ==
  /\ KeyFree(r)
  /\ order' = [order EXCEPT ![r] = "PAID"]
  /\ ledger' = [ledger EXCEPT ![r].sale = @ + Price]

\* The server still has a call nobody waits for any more, or never got it (bound: once).
Unreachable(r) ==
  /\ "lost" \in allowed
  /\ allowed' = allowed \ {"lost"}
  /\ late' \in {late, late \cup {r}}

LateOrder(r) ==
  /\ r \in late
  /\ late' = late \ {r}
  /\ MakeOrder(r) \/ (~KeyFree(r) /\ UNCHANGED <<order, ledger>>)
  /\ UNCHANGED <<till, charge, record, terminal, refunded, queue, sync, lister, clerk, allowed>>

\* The till's answer: the sale is made; or refused, which the cashier is told; or there
\* is none, and the device keeps it.
TillPosts ==
  LET r == till.ref IN
  /\ At("post")
  /\ \/ MakeOrder(r) /\ Screen("done") /\ UNCHANGED <<queue, late, allowed>>
     \/ /\ "refuse" \in allowed                         \* validation, an expired session
        /\ Screen("cart")
        /\ UNCHANGED <<order, ledger, queue, late, allowed>>
     \/ /\ Unreachable(r)
        /\ Screen("done")
        /\ queue' = queue \cup {r}
        /\ UNCHANGED <<order, ledger>>
  /\ UNCHANGED <<charge, record, terminal, refunded, sync, lister, clerk>>

\* syncQueue, oldest sale first: on mount, when the network is back, on a button.  One
\* ticket leaves one sale in the queue at most, so that an upload has nothing after it.
SyncStart(x) ==
  /\ sync[x] = NoPost
  /\ \E r \in queue : /\ \A s \in queue : r <= s
                     /\ sync' = [sync EXCEPT ![x] = [pc |-> "read", ref |-> r]]
  /\ UNCHANGED <<till, charge, record, terminal, refunded, order, ledger, queue, late, lister, clerk, allowed>>

\* Mutant: a sale without an answer leaves the queue.
DropsUnanswered(answer) == TRUE

\* "refused" is a 4xx, "error" a 5xx, "unreachable" no answer at all: which of them take
\* a sale off the queue.
Settled(answer) == answer \in {"ok", "refused"}

SyncHears(x, answer) ==
  /\ sync' = [sync EXCEPT ![x] = NoPost]
  /\ queue' = IF Settled(answer) THEN queue \ {sync[x].ref} ELSE queue

\* createOrder for a queued sale: read by clientRef, then made.
SyncPosts(x) ==
  LET r == sync[x].ref IN
  /\ \/ /\ sync[x].pc = "read" /\ order[r] = "none"
        /\ sync' = [sync EXCEPT ![x].pc = "make"]
        /\ UNCHANGED <<order, ledger, queue, late, allowed>>
     \/ /\ sync[x].pc = "read" /\ order[r] # "none"     \* idempotently already there
        /\ SyncHears(x, "ok")
        /\ UNCHANGED <<order, ledger, late, allowed>>
     \/ /\ sync[x].pc = "make"
        /\ \/ MakeOrder(r) /\ SyncHears(x, "ok")
           \/ ~KeyFree(r) /\ SyncHears(x, "error") /\ UNCHANGED <<order, ledger>>
        /\ UNCHANGED <<late, allowed>>
     \/ /\ sync[x].pc # "idle"
        /\ \/ "refuse" \in allowed /\ SyncHears(x, "refused") /\ UNCHANGED <<late, allowed>>
           \/ Unreachable(r) /\ SyncHears(x, "unreachable")
        /\ UNCHANGED <<order, ledger>>
  /\ UNCHANGED <<till, charge, record, terminal, refunded, lister, clerk>>

-----------------------------------------------------------------------------
\* Card money goes back: refund, voidPayment, and the till's own Void.

ClerkStarts(k, r, pc, cents) ==
  /\ "giveBack" \in allowed
  /\ clerk[k] = NoClerk
  /\ record[r].status = "SUCCEEDED" /\ record[r].ext
  /\ clerk' = [clerk EXCEPT ![k] = [NoClerk EXCEPT !.pc = pc, !.ref = r, !.cents = cents]]
  /\ UNCHANGED <<till, charge, record, terminal, refunded, order, ledger, queue, sync, late, lister, allowed>>

BeginRefund(k) == \E r \in Refs, cents \in 1 .. Price : ClerkStarts(k, r, "return", cents)
BeginVoid(k)   == \E r \in Refs : ClerkStarts(k, r, "void", Price)

\* A Return stands alone; its reference is made of the sale's and the amount, so that the
\* same one twice is a duplicate, whose outcome stays PENDING.
AskReturn(k) ==
  LET q == clerk[k] IN
  /\ q.pc = "return"
  /\ IF q.cents \in terminal[q.ref].back
     THEN clerk' = [clerk EXCEPT ![k] = NoClerk] /\ UNCHANGED terminal
     ELSE /\ terminal' = [terminal EXCEPT ![q.ref].back = @ \cup {q.cents}]
          /\ clerk' = [clerk EXCEPT ![k].pc = "tally"]
  /\ UNCHANGED <<till, charge, record, refunded, order, ledger, queue, sync, late, lister, allowed>>

\* A Void takes the sale back whole, once; the record says so.
AskVoid(k) ==
  LET q == clerk[k] IN
  /\ q.pc = "void"
  /\ IF terminal[q.ref].state # "approved"
     THEN clerk' = [clerk EXCEPT ![k] = NoClerk] /\ UNCHANGED <<terminal, refunded>>
     ELSE /\ terminal' = [terminal EXCEPT ![q.ref].state = "voided"]
          /\ refunded' = [refunded EXCEPT ![q.ref] = @ + Price]
          /\ clerk' = [clerk EXCEPT ![k].pc = "full", ![k].full = TRUE]
  /\ UNCHANGED <<till, charge, record, order, ledger, queue, sync, late, lister, allowed>>

\* The refund's row SUCCEEDED; then the rows of the charge are summed.
TallyRefund(k) ==
  LET q == clerk[k] IN
  /\ q.pc = "tally"
  /\ refunded' = [refunded EXCEPT ![q.ref] = @ + q.cents]
  /\ clerk' = [clerk EXCEPT ![k].pc = "full", ![k].full = refunded[q.ref] + q.cents >= Price]
  /\ UNCHANGED <<till, charge, record, terminal, order, ledger, queue, sync, late, lister, allowed>>

CloseRecord(k) ==
  LET q == clerk[k] IN
  /\ q.pc = "full"
  /\ record' = IF q.full THEN [record EXCEPT ![q.ref].status = "CANCELED"] ELSE record
  /\ clerk' = [clerk EXCEPT ![k].pc = "settle"]
  /\ UNCHANGED <<till, charge, terminal, refunded, order, ledger, queue, sync, late, lister, allowed>>

\* settleRefund reads the sale the charge paid for, by the till's clientRef.
SettleRefund(k) ==
  LET q == clerk[k] IN
  /\ q.pc = "settle"
  /\ clerk' = [clerk EXCEPT ![k].pc = "mark",
                            ![k].how = CASE order[q.ref] = "none"           -> "loose"
                                         [] q.full /\ order[q.ref] = "PAID" -> "void"
                                         [] OTHER                           -> "tied"]
  /\ UNCHANGED <<till, charge, record, terminal, refunded, order, ledger, queue, sync, late, lister, allowed>>

\* Mutant: a bill of which part went back can still be voided.
VoidsAnyway(r) == order[r] = "PAID"

\* voidOrder: refused when part of the bill went back already.
MayVoid(r) == order[r] = "PAID" /\ ledger[r].back = 0

VoidOrder(r) ==
  /\ order' = [order EXCEPT ![r] = "VOID"]
  /\ ledger' = [ledger EXCEPT ![r].sale = 0, ![r].back = 0]

\* The sale is voided, or, when that is refused, or it stands: one negative row.
MarkRefund(k) ==
  LET q == clerk[k]  r == q.ref IN
  /\ q.pc = "mark"
  /\ clerk' = [clerk EXCEPT ![k] = NoClerk]
  /\ CASE q.how = "void" /\ MayVoid(r)         -> VoidOrder(r)
       [] q.how = "void" /\ order[r] = "VOID"  -> UNCHANGED <<order, ledger>>
       [] q.how = "loose" -> ledger' = [ledger EXCEPT ![r].loose = @ + q.cents] /\ UNCHANGED order
       [] OTHER           -> ledger' = [ledger EXCEPT ![r].back = @ + q.cents] /\ UNCHANGED order
  /\ UNCHANGED <<till, charge, record, terminal, refunded, queue, sync, late, lister, allowed>>

\* Void on the bill itself, which asks no terminal.
TillVoid(r) ==
  /\ "tillVoid" \in allowed
  /\ MayVoid(r)
  /\ VoidOrder(r)
  /\ UNCHANGED <<till, charge, record, terminal, refunded, queue, sync, late, lister, clerk, allowed>>

-----------------------------------------------------------------------------
CardNext ==
  \/ HearCharge \/ LoseCall \/ GiveUp \/ CloseStuck
  \/ \E r \in Refs : \/ PressPay(r) \/ PressOffline(r)
                     \/ MakeRecord(r) \/ AskTerminal(r) \/ Tap(r) \/ AnswerCharge(r)
                     \/ CrashCharge(r) \/ ListAsk(r) \/ LateOrder(r) \/ TillVoid(r)
  \/ PollAsk \/ PollHear \/ ListHear \/ TillPosts
  \/ \E x \in Syncs : SyncStart(x) \/ SyncPosts(x)
  \/ \E k \in Clerks : \/ BeginRefund(k) \/ BeginVoid(k) \/ AskReturn(k) \/ AskVoid(k)
                       \/ TallyRefund(k) \/ CloseRecord(k) \/ SettleRefund(k) \/ MarkRefund(k)

CardSpec == CardInit /\ [][CardNext]_cardVars

\* The page tries the queue again when it is opened or the network is back, and a call
\* that began is answered or fails.
CardFairness == \A x \in Syncs : WF_cardVars(SyncStart(x)) /\ WF_cardVars(SyncPosts(x))

CardFairSpec == CardSpec /\ CardFairness

-----------------------------------------------------------------------------
CardTypeOK ==
  /\ till \in Till
  /\ charge \in [Refs -> {"none", "arrived", "made", "asked"} \cup Answers]
  /\ record \in [Refs -> ChargeRow]
  /\ terminal \in [Refs -> Transaction]
  /\ refunded \in [Refs -> Nat]
  /\ order \in [Refs -> {"none", "PAID", "VOID"}]
  /\ ledger \in [Refs -> Books]
  /\ queue \subseteq Refs /\ late \subseteq Refs
  /\ sync \in [Syncs -> Poster]
  /\ lister \in Recheck
  /\ clerk \in [Clerks -> Clerk]
  /\ \E w \in CardWorlds : allowed \subseteq w

\* Every order of a sale whose card the terminal was to read names a charge that the
\* provider approved.
OnlyPaidCardsRecorded ==
  \A r \in Refs : order[r] # "none" /\ record[r].status # "none" => terminal[r].state \in Charged

\* "Re-syncing can't duplicate it": whoever posts a sale again, it is in the books once.
SaleRecordedOnce == \A r \in Refs : ledger[r].sale <= Price

\* A charge the provider knows of can be asked about, once its handler ended; a server
\* that stops in the middle of one leaves no reference.
Askable ==
  "crash" \notin allowed => \A r \in Refs :
    terminal[r].state # "none" /\ charge[r] \notin {"made", "asked"} => record[r].ext

Back(r) == SumSet(terminal[r].back)

\* What the salon has of the charge, at the provider and in its books.
Kept(r)   == (IF terminal[r].state = "approved" THEN Price ELSE 0) - Back(r)
Booked(r) == ledger[r].sale - ledger[r].back - ledger[r].loose

\* A card sale's money in the books is what the provider says, refunds and voids included,
\* when the salon gives card money back on the terminal only.  Not so once a sale is voided
\* of which part had gone back before it was made.
BooksFollowTerminal ==
  "tillVoid" \notin allowed /\ (\A k \in Clerks : clerk[k] = NoClerk) =>
    \A r \in Refs :
      /\ order[r] # "none" /\ record[r].status # "none"
      /\ order[r] = "VOID" => ledger[r].loose = 0
      => Booked(r) = Kept(r)

\* "The sale is never lost": a sale kept on the device gets its order, though an answer
\* be lost, if the server does not refuse it.
QueuedIsRecorded ==
  \A r \in Refs : r \in queue /\ "refuse" \notin allowed ~> order[r] # "none"

\* One ticket, one charge: "charging now could bill the customer twice".
ChargedOnce == Cardinality({r \in Refs : terminal[r].state \in Charged}) <= 1
=============================================================================
