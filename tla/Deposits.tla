------------------------------ MODULE Deposits ------------------------------
(***************************************************************************)
(* The money a customer pays online for one booking: the deposit that      *)
(* holds her time, or the whole visit paid in advance.                     *)
(*                                                                         *)
(* Source: apps/api/src/public/online-deposit.service.ts (settle, sweep),  *)
(* onlineStart, onlineLookup, onlineRefund and handleWebhook of            *)
(* payments-hub/payment-orchestrator.service.ts, refundPaid and remove of  *)
(* payments/payments.service.ts, cancelForTenant and settleCancelledMoney  *)
(* of bookings/bookings.service.ts, bookings/deposit-policy.ts.            *)
(*                                                                         *)
(* The provider's word reaches settle three ways: the customer comes   *)
(* back to the page, the provider's webhook, and a sweep.  No handler has  *)
(* a transaction around its reads and writes, so a call to the database or *)
(* the provider that others can get between is a step of its own.          *)
(***************************************************************************)
EXTENDS Integers, FiniteSets, FiniteSetsExt

CONSTANTS Sessions,   \* checkouts the provider may be asked to start: 1 .. n
          Rows,       \* payment rows the booking may get: 1 .. m (bound)
          Requests,   \* handlers in flight at once
          Sweeper,    \* the timer's round, of which there is one at a time
          Deposit,    \* cents the salon's rule asks for
          Surcharge,  \* cents its card surcharge adds
          Worlds      \* which operations and faults a behaviour may see: sets of them

ASSUME SessionsAssumption == Sessions \subseteq Nat \ {0}
ASSUME RowsAssumption     == Rows \subseteq Nat \ {0} /\ IsFiniteSet(Rows)
ASSUME SweeperAssumption  == Sweeper \notin Requests
ASSUME WorldsAssumption   == Worlds # {}
ASSUME AmountsAssumption  == Deposit \in Nat \ {0} /\ Surcharge \in Nat

VARIABLES appt,      \* the appointment row
          pay,       \* payment rows of the booking
          intent,    \* the paymentIntentRecord "online:<booking>"
          session,   \* the provider's checkouts
          returned,  \* what the provider gave back of each
          processed, \* webhook events with a processedAt
          age,       \* how old the open row is
          world,     \* the operations and faults that may still happen
          req        \* the local state of each request

vars == <<appt, pay, intent, session, returned, processed, age, world, req>>

None == 0   \* SQL NULL for a session or a row

Callers == Requests \cup {Sweeper}
Due     == Deposit + Surcharge   \* what the checkout charges

-----------------------------------------------------------------------------
SessionOrNone == Sessions \cup {None}

ApptRow == [status : {"CONFIRMED", "ARRIVED", "CANCELLED"},
            hold   : BOOLEAN,                \* a deposit, not "pay now"
            by     : {"nobody", "people", "system"}]  \* cancelledBy

\* hold: providerReference is HOLD_REF; tx: it is this session's transaction.
PayRow == [status : {"none", "PENDING", "PAID", "FAILED", "REFUNDED", "deleted"},
           amount : Nat, hold : BOOLEAN, tx : SessionOrNone]

\* ext: externalIntentId; paid: status SUCCEEDED; tx: providerRaw.paymentId.
IntentRow == [ext : SessionOrNone, paid : BOOLEAN, tx : SessionOrNone]

\* One step of allocateRefund's plan: this much of this row, as refundPaid read it.
Part == [row : Rows, cents : Nat, read : Nat, tx : SessionOrNone]

Local ==
  [pc    : {"idle", "already", "lookup", "open", "record", "read", "ask", "mark", "split",
            "cancel", "money", "next", "hold", "remove"},
   via   : {"nobody", "return", "webhook", "sweep", "staff", "customer"},
   was   : {"CONFIRMED", "ARRIVED", "CANCELLED"},  \* the status it read
   tx    : SessionOrNone,        \* the transaction it found approved
   event : SessionOrNone,        \* the webhook event it handles
   row   : Rows \cup {None},     \* the row it works on
   cents : Nat,                  \* what refundPaid is to give back
   plan  : SUBSET Part,          \* what is left of it
   todo  : SUBSET (Rows \X BOOLEAN)]  \* the sweep's rows, and whether they were PENDING holds

Job(pc, via) ==
  [pc |-> pc, via |-> via, was |-> "CONFIRMED", tx |-> None, event |-> None,
   row |-> None, cents |-> 0, plan |-> {}, todo |-> {}]

Idle == Job("idle", "nobody")

Begin(r, q) == req[r] = Idle /\ req' = [req EXCEPT ![r] = q]
Go(r, q)    == req' = [req EXCEPT ![r] = q]

NoRow == [status |-> "none", amount |-> 0, hold |-> FALSE, tx |-> None]

PaidRows    == {i \in Rows : pay[i].status = "PAID"}
OpenRows    == {i \in Rows : pay[i].status \in {"PENDING", "FAILED"}}
PendingRows == {i \in Rows : pay[i].status = "PENDING"}
FreeRows    == {i \in Rows : pay[i].status = "none"}

Amount(S) == MapThenSumSet(LAMBDA i : pay[i].amount, S)

\* The public booking leaves one PENDING row: the hold, or "pay now".
Init ==
  \E hold \in BOOLEAN, first \in Rows :
    /\ \A i \in Rows : first <= i
    /\ appt = [status |-> "CONFIRMED", hold |-> hold, by |-> "nobody"]
    /\ pay = [i \in Rows |-> IF i = first
                             THEN [status |-> "PENDING", amount |-> Deposit, hold |-> hold, tx |-> None]
                             ELSE NoRow]
    /\ intent = [ext |-> None, paid |-> FALSE, tx |-> None]
    /\ session = [s \in Sessions |-> "none"]
    /\ returned = [s \in Sessions |-> 0]
    /\ processed = {}
    /\ age = "fresh"
    /\ world \in Worlds
    /\ req = [r \in Callers |-> Idle]

-----------------------------------------------------------------------------
\* The customer, and the provider's side of a checkout.

\* What a booking owes online is decided from the rules, not from what was paid.
SomethingDue == appt.hold \/ PendingRows # {}

\* startOnlineCheckout: the provider opens a session; its id replaces the one the
\* booking's intent had.
StartCheckout(s) ==
  /\ "checkout" \in world
  /\ SomethingDue
  /\ session[s] = "none" /\ \A t \in Sessions : t < s => session[t] # "none"
  /\ session' = [session EXCEPT ![s] = "open"]
  /\ intent' = [ext |-> s, paid |-> FALSE, tx |-> None]
  /\ UNCHANGED <<appt, pay, returned, processed, age, world, req>>

\* She pays on the provider's page, whatever became of the booking meanwhile.
Pay(s) ==
  /\ session[s] = "open"
  /\ session' = [session EXCEPT ![s] = "paid"]
  /\ UNCHANGED <<appt, pay, intent, returned, processed, age, world, req>>

-----------------------------------------------------------------------------
\* settle: its three callers.

\* online-confirm: the page she comes back to.
BeginReturn(r) ==
  /\ "return" \in world
  /\ Begin(r, [Job("already", "return") EXCEPT !.was = appt.status])
  /\ UNCHANGED <<appt, pay, intent, session, returned, processed, age, world>>

\* handleWebhook: an event not yet processed, delivered any number of times.  The
\* intent of that session is marked; when there is one, settle follows.
BeginWebhook(r) ==
  \E s \in Sessions \ processed :
    /\ "webhook" \in world
    /\ session[s] = "paid"
    /\ req[r] = Idle
    /\ IF intent.ext = s
       THEN /\ intent' = [intent EXCEPT !.paid = TRUE, !.tx = s]
            /\ Go(r, [Job("already", "webhook") EXCEPT !.was = appt.status, !.event = s])
            /\ UNCHANGED processed
       ELSE /\ processed' = processed \cup {s}
            /\ UNCHANGED <<intent, req>>
    /\ UNCHANGED <<appt, pay, session, returned, age, world>>

\* Mutant: whoever settles marks an event.
EveryEvent(q) == {q.event}

\* The event that is done with when this handler ends.
Handled(q) == IF q.via = "webhook" THEN {q.event} ELSE {}

\* After settle: the sweep goes on with this row (rejected) or the next (settled);
\* the webhook's event is processed whatever came of it.
Finish(r, settled) ==
  LET q == req[r] IN
  /\ Go(r, IF q.via = "sweep"
           THEN [q EXCEPT !.pc = IF settled THEN "next" ELSE "hold",
                          !.tx = None, !.cents = 0, !.plan = {}]
           ELSE Idle)
  /\ processed' = processed \cup Handled(q)

\* "const already": a row of this booking that is PAID.
Recorded == PaidRows # {}

Already(r) ==
  /\ req[r].pc = "already"
  /\ IF Recorded THEN Finish(r, TRUE)
     ELSE Go(r, [req[r] EXCEPT !.pc = "lookup"]) /\ UNCHANGED processed
  /\ UNCHANGED <<appt, pay, intent, session, returned, age, world>>

\* Mutant: a session the customer opened counts as paid.
ApprovedWhenOpened == IF intent.ext = None THEN None ELSE intent.ext

\* onlineLookup: an intent a webhook settled is believed, else the provider is
\* asked about the session the intent names.
Approved ==
  IF intent.paid /\ intent.tx # None THEN intent.tx
  ELSE IF intent.ext # None /\ session[intent.ext] = "paid" THEN intent.ext
  ELSE None

Lookup(r) ==
  /\ req[r].pc = "lookup"
  /\ IF Approved = None
     THEN Finish(r, FALSE) /\ UNCHANGED intent
     ELSE /\ intent' = [intent EXCEPT !.paid = TRUE, !.tx = Approved]
          /\ Go(r, [req[r] EXCEPT !.pc = "open", !.tx = Approved])
          /\ UNCHANGED processed
  /\ UNCHANGED <<appt, pay, session, returned, age, world>>

\* The provider does not answer (bound: once): settle says no, or throws.
LookupFails(r) ==
  /\ "lost" \in world
  /\ req[r].pc = "lookup"
  /\ \E settled \in BOOLEAN : Finish(r, settled)
  /\ world' = world \ {"lost"}
  /\ UNCHANGED <<appt, pay, intent, session, returned, age>>

\* The open row the payment is to fill: the latest.
OpenRow(r) ==
  /\ req[r].pc = "open"
  /\ Go(r, [req[r] EXCEPT !.pc = "record",
                          !.row = IF OpenRows = {} THEN None
                                  ELSE CHOOSE i \in OpenRows : \A j \in OpenRows : j <= i])
  /\ UNCHANGED <<appt, pay, intent, session, returned, processed, age, world>>

PaidWith(s) == [status |-> "PAID", amount |-> Due, hold |-> FALSE, tx |-> s]

FirstFree == CHOOSE i \in FreeRows : \A j \in FreeRows : i <= j

\* Mutant: what comes in for a booking let go is kept.
NeverLate(q) == FALSE

\* Paid for a booking that was read as CANCELLED.
Late(q) == q.was = "CANCELLED"

\* That row is written, by its id, or a new one is made; what was paid too
\* late goes back.  A row deleted meanwhile makes the update throw.
Record(r) ==
  LET q == req[r] IN
  /\ q.pc = "record"
  /\ \/ /\ q.row # None /\ pay[q.row].status = "deleted"
        /\ Finish(r, TRUE)
        /\ UNCHANGED pay
     \/ /\ \/ /\ q.row # None /\ pay[q.row].status # "deleted"
              /\ pay' = [pay EXCEPT ![q.row] = PaidWith(q.tx)]
           \/ /\ q.row = None /\ FreeRows # {}
              /\ pay' = [pay EXCEPT ![FirstFree] = PaidWith(q.tx)]
        /\ IF Late(q)
           THEN Go(r, [q EXCEPT !.pc = "read", !.row = None, !.cents = Due]) /\ UNCHANGED processed
           ELSE Finish(r, TRUE)
  /\ UNCHANGED <<appt, intent, session, returned, age, world>>

-----------------------------------------------------------------------------
\* refundPaid: money goes back, row by row.

\* The larger row first.
Before(S, i) ==
  {j \in S : pay[j].amount > pay[i].amount \/ (pay[j].amount = pay[i].amount /\ j < i)}

Least(a, b) == IF a <= b THEN a ELSE b

\* allocateRefund: how much of row i goes back.
Share(S, cents, i) ==
  LET left == cents - Amount(Before(S, i)) IN
  IF left <= 0 THEN 0 ELSE Least(left, pay[i].amount)

Plan(S, cents) ==
  {[row |-> i, cents |-> Share(S, cents, i), read |-> pay[i].amount,
    tx |-> pay[i].tx] :
     i \in {j \in S : Share(S, cents, j) > 0}}

ReadPaid(r) ==
  /\ req[r].pc = "read"
  /\ Go(r, [req[r] EXCEPT !.pc = "ask", !.plan = Plan(PaidRows, req[r].cents)])
  /\ UNCHANGED <<appt, pay, intent, session, returned, processed, age, world>>

\* The part of the plan that is next.
Largest(plan) == CHOOSE p \in plan : \A o \in plan : p.cents > o.cents \/ (p.cents = o.cents /\ p.row <= o.row)

\* Nothing left of the plan: whoever asked for the refund goes on.
RefundDone(r) ==
  /\ req[r].pc = "ask" /\ req[r].plan = {}
  /\ Finish(r, TRUE)
  /\ UNCHANGED <<appt, pay, intent, session, returned, age, world>>

\* The provider gives back no more than is left of the transaction.
Gives(s, cents) == returned[s] + cents <= Due

\* onlineRefund: it gives the money back, or refuses; its yes may be lost (bound: one
\* answer), which counts as a no.
AskProvider(r) ==
  LET q == req[r]  p == Largest(q.plan)  s == p.tx
      Skip == Go(r, [q EXCEPT !.plan = @ \ {p}])
  IN
  /\ q.pc = "ask" /\ q.plan # {}
  /\ \/ /\ Gives(s, p.cents)
        /\ returned' = [returned EXCEPT ![s] = @ + p.cents]
        /\ \/ Go(r, [q EXCEPT !.pc = "mark"]) /\ UNCHANGED world
           \/ "lost" \in world /\ Skip /\ world' = world \ {"lost"}
     \/ ~Gives(s, p.cents) /\ Skip /\ UNCHANGED <<returned, world>>
  /\ UNCHANGED <<appt, pay, intent, session, processed, age>>

\* Mutant: a row refunded in part keeps its amount.
KeptAmount(p) == p.read

\* What stays of a row refunded in part.
Stays(p) == p.read - p.cents

\* The row went back whole, or keeps the rest.  (A row deleted meanwhile: no row is
\* updated.)
MarkRefunded(r) ==
  LET q == req[r]  p == Largest(q.plan)  whole == p.cents = p.read IN
  /\ q.pc = "mark"
  /\ pay' = IF pay[p.row].status = "deleted" THEN pay
            ELSE IF whole THEN [pay EXCEPT ![p.row].status = "REFUNDED"]
            ELSE [pay EXCEPT ![p.row].amount = Stays(p)]
  /\ Go(r, IF whole THEN [q EXCEPT !.pc = "ask", !.plan = @ \ {p}] ELSE [q EXCEPT !.pc = "split"])
  /\ UNCHANGED <<appt, intent, session, returned, processed, age, world>>

\* What went back of it gets a row of its own.
SplitRow(r) ==
  LET q == req[r]  p == Largest(q.plan) IN
  /\ q.pc = "split" /\ FreeRows # {}
  /\ pay' = [pay EXCEPT ![FirstFree] =
               [status |-> "REFUNDED", amount |-> p.cents, hold |-> FALSE, tx |-> p.tx]]
  /\ Go(r, [q EXCEPT !.pc = "ask", !.plan = @ \ {p}])
  /\ UNCHANGED <<appt, intent, session, returned, processed, age, world>>

-----------------------------------------------------------------------------
\* cancelForTenant.

\* cancel (staff: any booking) and cancelByToken (the customer: one not under way);
\* the status is read first, "cancelling twice must not refund twice".
BeginCancel(r) ==
  \E via \in {"staff", "customer"} :
    /\ "cancel" \in world
    /\ via = "customer" => appt.status = "CONFIRMED"
    /\ Begin(r, [Job("cancel", via) EXCEPT !.was = appt.status])
    /\ UNCHANGED <<appt, pay, intent, session, returned, processed, age, world>>

\* The transaction: the booking is cancelled, its open rows close.
Cancel(r) ==
  LET q == req[r] IN
  /\ q.pc = "cancel"
  /\ appt' = [appt EXCEPT !.status = "CANCELLED",
                          !.by = IF q.via = "sweep" THEN "system" ELSE "people"]
  /\ pay' = [i \in Rows |-> IF pay[i].status = "PENDING" THEN [pay[i] EXCEPT !.status = "FAILED"]
                            ELSE pay[i]]
  /\ IF q.was # "CANCELLED" THEN Go(r, [q EXCEPT !.pc = "money"]) /\ UNCHANGED processed
     ELSE Finish(r, TRUE)
  /\ UNCHANGED <<intent, session, returned, age, world>>

\* cancelMoney: in time everything goes back, later the deposit stays.
Keeps(paid) == {0, IF appt.hold THEN Least(paid, Deposit) ELSE 0}

\* settleCancelledMoney; staff may decide to keep all of it.
CancelMoney(r) ==
  LET q == req[r]  paid == Amount(PaidRows) IN
  /\ q.pc = "money"
  /\ IF paid = 0 THEN Finish(r, TRUE)
     ELSE \E keep \in Keeps(paid) \cup (IF q.via = "staff" THEN {paid} ELSE {}) :
            IF keep = paid THEN Finish(r, TRUE)
            ELSE Go(r, [q EXCEPT !.pc = "read", !.cents = paid - keep]) /\ UNCHANGED processed
  /\ UNCHANGED <<appt, pay, intent, session, returned, age, world>>

-----------------------------------------------------------------------------
\* sweep, every two minutes.

\* Mutant: a hold that ran out is not looked at again.
SweptPending == PendingRows

\* The rows it looks at: PENDING, and holds closed in the last two hours.
Swept == {i \in Rows : pay[i].status = "PENDING" \/ (pay[i].status = "FAILED" /\ pay[i].hold)}

PendingHold(i) == pay[i].status = "PENDING" /\ pay[i].hold

BeginSweep ==
  /\ age # "forgotten" /\ Swept # {}
  /\ Begin(Sweeper, [Job("next", "sweep") EXCEPT !.todo = {<<i, PendingHold(i)>> : i \in Swept}])
  /\ UNCHANGED <<appt, pay, intent, session, returned, processed, age, world>>

\* The round's next row, the oldest first; a hold may be let go afterwards.
TakeRow(pc) ==
  LET q == req[Sweeper]
      t == CHOOSE x \in q.todo : \A y \in q.todo : x[1] <= y[1]
  IN
  /\ q.pc = "next" /\ q.todo # {}
  /\ Go(Sweeper, [q EXCEPT !.todo = @ \ {t}, !.row = IF t[2] THEN t[1] ELSE None,
                           !.was = appt.status, !.pc = pc])
  /\ UNCHANGED <<appt, pay, intent, session, returned, processed, age, world>>

\* A checkout the customer opened is settled; after an hour, in some rounds only.
SweepAsks  == intent.ext # None /\ TakeRow("already")
SweepSkips == (intent.ext = None \/ age # "fresh") /\ TakeRow("hold")

SweepEnds ==
  /\ req[Sweeper].pc = "next" /\ req[Sweeper].todo = {}
  /\ Go(Sweeper, Idle)
  /\ UNCHANGED <<appt, pay, intent, session, returned, processed, age, world>>

\* A hold that ran out is let go, unless the visit is under way.
ReleaseHold ==
  LET q == req[Sweeper] IN
  /\ q.pc = "hold"
  /\ Go(Sweeper, IF q.row # None /\ age = "lapsed" /\ appt.status = "CONFIRMED"
                 THEN [q EXCEPT !.pc = "cancel", !.row = None, !.was = appt.status]
                 ELSE [q EXCEPT !.pc = "next", !.row = None])
  /\ UNCHANGED <<appt, pay, intent, session, returned, processed, age, world>>

\* Time passes: the hold runs out; the row is too old for the sweep.
GrowOld ==
  /\ age' = CASE age = "fresh" -> "lapsed" [] OTHER -> "forgotten"
  /\ age = "fresh" \/ (age = "lapsed" /\ "forget" \in world)
  /\ UNCHANGED <<appt, pay, intent, session, returned, processed, world, req>>

-----------------------------------------------------------------------------
\* She arrives.
Arrive ==
  /\ appt.status = "CONFIRMED"
  /\ appt' = [appt EXCEPT !.status = "ARRIVED"]
  /\ UNCHANGED <<pay, intent, session, returned, processed, age, world, req>>

\* remove, "only an attempt that never took money": read, then deleted by its id.
BeginRemove(r) ==
  \E i \in OpenRows :
    /\ "remove" \in world
    /\ Begin(r, [Job("remove", "staff") EXCEPT !.row = i])
    /\ UNCHANGED <<appt, pay, intent, session, returned, processed, age, world>>

Remove(r) ==
  /\ req[r].pc = "remove"
  /\ pay' = [pay EXCEPT ![req[r].row].status = "deleted"]
  /\ Go(r, Idle)
  /\ UNCHANGED <<appt, intent, session, returned, processed, age, world>>

\* The process restarts (bound: once), and every handler in flight is gone.
Crash ==
  /\ "crash" \in world
  /\ world' = world \ {"crash"}
  /\ req' = [r \in Callers |-> Idle]
  /\ UNCHANGED <<appt, pay, intent, session, returned, processed, age>>

\* What a handler that began does next.
Step(r) ==
  \/ Already(r) \/ Lookup(r) \/ LookupFails(r) \/ OpenRow(r) \/ Record(r)
  \/ ReadPaid(r) \/ AskProvider(r) \/ MarkRefunded(r) \/ SplitRow(r)
  \/ RefundDone(r)
  \/ Cancel(r) \/ CancelMoney(r) \/ Remove(r)

Next ==
  \/ \E s \in Sessions : StartCheckout(s) \/ Pay(s)
  \/ \E r \in Requests : BeginReturn(r) \/ BeginWebhook(r) \/ BeginCancel(r) \/ BeginRemove(r)
  \/ \E r \in Callers : Step(r)
  \/ BeginSweep \/ SweepAsks \/ SweepSkips \/ SweepEnds \/ ReleaseHold
  \/ GrowOld \/ Arrive \/ Crash

Spec == Init /\ [][Next]_vars

\* What the sweep does between its calls of settle.
Round == BeginSweep \/ SweepAsks \/ SweepSkips \/ SweepEnds \/ ReleaseHold

\* A handler that began goes on until its promise settles; the timer comes round, and
\* every ten minutes its round asks about older rows too.
Fairness ==
  /\ \A r \in Callers : WF_vars(Step(r))
  /\ WF_vars(Round) /\ SF_vars(SweepAsks)

FairSpec == Spec /\ Fairness

-----------------------------------------------------------------------------
TypeOK ==
  /\ appt \in ApptRow
  /\ pay \in [Rows -> PayRow]
  /\ intent \in IntentRow
  /\ session \in [Sessions -> {"none", "open", "paid"}]
  /\ returned \in [Sessions -> Nat]
  /\ processed \subseteq Sessions
  /\ age \in {"fresh", "lapsed", "forgotten"}
  /\ \E w \in Worlds : world \subseteq w
  /\ req \in [Callers -> Local]

\* "Never trust the client": what the books call paid, or paid and given back, is a
\* transaction the provider took money for.
NothingFromNowhere ==
  \A i \in Rows : pay[i].status \in {"PAID", "REFUNDED"} =>
    pay[i].tx # None /\ session[pay[i].tx] = "paid"

RowsOf(s, states) == {i \in Rows : pay[i].tx = s /\ pay[i].status \in states}

\* "Recorded - once": the rows of a transaction add up to what it took at most.
RecordedOnce == \A s \in Sessions : Amount(RowsOf(s, {"PAID", "REFUNDED"})) <= Due

AllIdle == \A r \in Callers : req[r] = Idle

\* "Paid after the hold ran out: recorded, then given straight back": once nobody is
\* at work, a booking let go for want of a deposit keeps no money.
LapsedHoldKeepsNothing == AllIdle /\ appt.by = "system" => PaidRows = {}

\* Once nobody is at work, what the books still call paid of a transaction they know
\* is what the provider still has of it.
BooksAgree ==
  AllIdle => \A s \in Sessions : RowsOf(s, {"PAID", "REFUNDED"}) # {} =>
               Amount(RowsOf(s, {"PAID"})) = Due - returned[s]

Settlers == {"return", "webhook"}

\* In a salon without webhook, whose customers do not come back to the page, the sweep
\* is the only one to settle: what was paid is recorded once, and the books agree with
\* the provider, if no row is deleted.
SweepKeepsBooks ==
  world \cap (Settlers \cup {"remove"}) = {} => RecordedOnce /\ BooksAgree

\* There, when nobody but the sweep cancels, a lapsed hold keeps no money.
SweepReturnsAll == world = {"checkout"} => LapsedHoldKeepsNothing

\* Money is given back only for a booking that was cancelled.
OnlyCancelledRefunded == \A s \in Sessions : returned[s] > 0 => appt.status = "CANCELLED"

\* Whoever settles or cancels: no money in the books without a payment, none given back
\* without a cancellation.
NoMoneyWithoutCause == NothingFromNowhere /\ OnlyCancelledRefunded

\* What a customer paid on her hold's checkout ends up in the books, though an answer
\* or the process be lost once, if the row is neither deleted nor too old.
PaidIsRecorded ==
  \A s \in Sessions :
    session[s] = "paid" /\ appt.hold /\ world \cap {"remove", "forget"} = {}
      ~> RowsOf(s, {"PAID", "REFUNDED"}) # {}
=============================================================================
