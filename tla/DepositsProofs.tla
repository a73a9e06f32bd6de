--------------------------- MODULE DepositsProofs ---------------------------
(***************************************************************************)
(* The money of a booking paid online, for any number of checkouts, rows   *)
(* and requests: rows and requests keep their types, what the books call   *)
(* paid was taken by the provider, and only a cancelled booking's money    *)
(* goes back.  Where the sweep alone settles, the books and the provider   *)
(* agree, and a hold that was let go keeps no money.                       *)
(***************************************************************************)
EXTENDS Deposits, Sums

-----------------------------------------------------------------------------
(* Sums of rows, and what allocateRefund plans. *)

Amounts == [i \in Rows |-> pay[i].amount]

LEMMA AmountTotal ==
  ASSUME NEW S, S \subseteq Rows
  PROVE  IsFiniteSet(S) /\ Amount(S) = Total(Amounts, S)
<1> DEFINE G(f) == f = [s \in SUBSET S |-> IF s = {} THEN 0 ELSE pay[Pick(s)].amount + f[s \ {Pick(s)}]]
<1>1. Amount(S) = (CHOOSE f : G(f))[S]
  BY DEF Amount, MapThenSumSet, MapThenFoldSet, Pick
<1>2. IsFiniteSet(S) BY FS_Subset, RowsAssumption
<1>3. \A f : G(f) <=> Adds(f, Amounts, S)
  <2> SUFFICES ASSUME NEW f PROVE G(f) <=> Adds(f, Amounts, S) OBVIOUS
  <2> DEFINE A(s) == IF s = {} THEN 0 ELSE pay[Pick(s)].amount + f[s \ {Pick(s)}]
             B(s) == IF s = {} THEN 0 ELSE Amounts[Pick(s)] + f[s \ {Pick(s)}]
  <2>1. \A s \in SUBSET S : A(s) = B(s) BY PickIn DEF Amounts
  <2>2. (G(f) <=> f = [s \in SUBSET S |-> A(s)]) /\ (Adds(f, Amounts, S) <=> f = [s \in SUBSET S |-> B(s)])
    BY DEF Adds
  <2> HIDE DEF A, B, G
  <2> QED BY <2>1, <2>2
<1> DEFINE F == CHOOSE f : G(f)
           H == CHOOSE f : Adds(f, Amounts, S)
<1>4. Adds(H, Amounts, S) BY <1>2, AddsExists
<1>5. Adds(F, Amounts, S)
  <2> HIDE DEF G
  <2>1. G(H) BY <1>3, <1>4
  <2>2. G(F) BY <2>1
  <2> QED BY <1>3, <2>2
<1>6. Amount(S) = F[S] /\ Total(Amounts, S) = H[S] BY <1>1 DEF Total
<1> HIDE DEF F, H
<1> QED BY <1>2, <1>4, <1>5, <1>6, AddsUnique

LEMMA AmountType ==
  ASSUME TypeOK, NEW S, S \subseteq Rows
  PROVE  Amount(S) \in Nat
<1>1. \A i \in S : Amounts[i] \in Nat BY DEF Amounts, TypeOK, PayRow
<1> QED BY <1>1, AmountTotal, TotalType

LEMMA ShareType ==
  ASSUME TypeOK, NEW S, S \subseteq Rows, NEW cents \in Nat, NEW i \in Rows
  PROVE  Share(S, cents, i) \in Nat /\ Share(S, cents, i) <= pay[i].amount
<1> DEFINE left == cents - Amount(Before(S, i))
<1>1. Before(S, i) \subseteq Rows BY DEF Before
<1>2. left \in Int BY <1>1, AmountType
<1>3. pay[i].amount \in Nat BY DEF TypeOK, PayRow
<1>4. Share(S, cents, i) = IF left <= 0 THEN 0 ELSE Least(left, pay[i].amount) BY DEF Share
<1> HIDE DEF left
<1> QED BY <1>2, <1>3, <1>4 DEF Least

\* A part of a plan takes no more than its row had, and some of it.
Sound(p) == p \in Part /\ p.cents <= p.read /\ p.cents > 0

LEMMA PlanSound ==
  ASSUME TypeOK, NEW cents \in Nat
  PROVE  /\ IsFiniteSet(Plan(PaidRows, cents))
         /\ \A p \in Plan(PaidRows, cents) :
              /\ Sound(p) /\ pay[p.row].status = "PAID" /\ p.read = pay[p.row].amount
              /\ p.tx = pay[p.row].tx /\ p.cents = Share(PaidRows, cents, p.row)
         /\ \A p, o \in Plan(PaidRows, cents) : p.row = o.row => p = o
<1> DEFINE S == {j \in PaidRows : Share(PaidRows, cents, j) > 0}
           part(i) == [row |-> i, cents |-> Share(PaidRows, cents, i), read |-> pay[i].amount, tx |-> pay[i].tx]
<1>1. PaidRows \subseteq Rows /\ S \subseteq Rows /\ IsFiniteSet(S)
  BY FS_Subset, RowsAssumption DEF PaidRows
<1>2. Plan(PaidRows, cents) = {part(i) : i \in S} BY DEF Plan
<1>3. \A i \in Rows : Share(PaidRows, cents, i) \in Nat /\ Share(PaidRows, cents, i) <= pay[i].amount
  BY <1>1, ShareType
<1>4. ASSUME NEW i \in S
      PROVE  /\ Sound(part(i)) /\ part(i).row = i
             /\ pay[i].status = "PAID"
  BY <1>1, <1>3, <1>4 DEF Sound, Part, TypeOK, PayRow, PaidRows
<1>5. IsFiniteSet({part(i) : i \in S})
  <2> DEFINE f == [i \in S |-> part(i)]
  <2>1. f \in Surjection(S, {part(i) : i \in S}) BY DEF Surjection
  <2> HIDE DEF f
  <2> QED BY <1>1, <2>1, FS_Surjection
<1> HIDE DEF S
<1> QED BY <1>2, <1>4, <1>5
\* What the handlers choose is there to choose.
LEMMA LargestIn ==
  ASSUME NEW plan, IsFiniteSet(plan), plan # {}, \A p \in plan : Sound(p)
  PROVE  /\ Largest(plan) \in plan
         /\ \A o \in plan : o.cents <= Largest(plan).cents
<1> DEFINE All == {p.cents : p \in plan}
           f == [p \in plan |-> p.cents]
<1>1. \A p \in plan : p.cents \in Nat /\ p.row \in Nat BY RowsAssumption DEF Sound, Part
<1>2. IsFiniteSet(All)
  <2>1. f \in Surjection(plan, All) BY DEF Surjection
  <2> HIDE DEF f, All
  <2> QED BY <2>1, FS_Surjection
<1>3. (\A n \in All : n \in Nat) /\ All # {} BY <1>1
<1>4. PICK n \in All : \A m \in All : m <= n
  <2> HIDE DEF All
  <2> QED BY <1>2, <1>3, GreatestNumber
<1> DEFINE Top == {p.row : p \in {o \in plan : o.cents = n}}
<1>5. Top \subseteq Nat /\ Top # {} BY <1>1
<1>6. PICK m \in Top : \A k \in Top : m <= k
  <2> HIDE DEF Top
  <2> QED BY <1>5, LeastNumber
<1>7. PICK p \in plan : p.cents = n /\ p.row = m BY <1>6
<1>8. \A o \in plan : p.cents > o.cents \/ (p.cents = o.cents /\ p.row <= o.row)
  <2> SUFFICES ASSUME NEW o \in plan PROVE p.cents > o.cents \/ (p.cents = o.cents /\ p.row <= o.row)
    OBVIOUS
  <2>1. o.cents <= n /\ o.cents \in Nat /\ n \in Nat BY <1>1, <1>3, <1>4
  <2>2. CASE o.cents = n BY <1>6, <1>7, <2>2
  <2>3. CASE o.cents # n BY <1>7, <2>1, <2>3
  <2> QED BY <2>2, <2>3
<1> HIDE DEF All, Top
<1>9. /\ Largest(plan) \in plan
      /\ \A o \in plan : \/ Largest(plan).cents > o.cents
                         \/ Largest(plan).cents = o.cents /\ Largest(plan).row <= o.row
  BY <1>8 DEF Largest
<1> QED BY <1>1, <1>9

LEMMA FreeIn ==
  ASSUME FreeRows # {}
  PROVE  FirstFree \in FreeRows
<1>1. FreeRows \subseteq Nat BY RowsAssumption DEF FreeRows
<1>2. \E i \in FreeRows : \A j \in FreeRows : i <= j BY <1>1, LeastNumber
<1> QED BY <1>2 DEF FirstFree

LEMMA LatestIn ==
  ASSUME OpenRows # {}
  PROVE  (CHOOSE i \in OpenRows : \A j \in OpenRows : j <= i) \in OpenRows
<1>1. (\A i \in OpenRows : i \in Nat) /\ IsFiniteSet(OpenRows)
  BY FS_Subset, RowsAssumption DEF OpenRows
<1>2. \E i \in OpenRows : \A j \in OpenRows : j <= i BY <1>1, GreatestNumber
<1> QED BY <1>2

LEMMA OldestIn ==
  ASSUME NEW todo, todo \in SUBSET (Rows \X BOOLEAN), todo # {}
  PROVE  (CHOOSE x \in todo : \A y \in todo : x[1] <= y[1]) \in todo
<1> DEFINE All == {x[1] : x \in todo}
<1>1. All \subseteq Nat /\ All # {} BY RowsAssumption
<1>2. PICK n \in All : \A m \in All : n <= m
  <2> HIDE DEF All
  <2> QED BY <1>1, LeastNumber
<1>3. \E x \in todo : \A y \in todo : x[1] <= y[1] BY <1>2
<1> QED BY <1>3

-----------------------------------------------------------------------------
(* The inductive invariant: what a row says was taken was taken, and what a *)
(* handler is about to do it may do.                                        *)

Paid(s) == s # None /\ session[s] = "paid"

Let == appt.status = "CANCELLED"

\* What a handler carries.
Fit(q) ==
  /\ IsFiniteSet(q.plan)
  /\ \A p \in q.plan : Sound(p) /\ Paid(p.tx) /\ pay[p.row].tx # None
  /\ q.pc \in {"mark", "split"} => q.plan # {}
  /\ q.via = "webhook" => q.event # None
  /\ q.pc \in {"open", "record"} => q.tx # None
  /\ q.tx # None => Paid(q.tx)
  /\ q.pc \in {"read", "ask", "mark", "split", "money"} => Let
  /\ q.was = "CANCELLED" => Let
  /\ q.pc \in {"next", "hold"} => q.plan = {} /\ q.tx = None /\ q.via # "webhook"

Carried == \A r \in Callers : Fit(req[r])

\* A row that is paid names a transaction, and what it names was paid.
Taken ==
  /\ \A i \in Rows : pay[i].tx # None => Paid(pay[i].tx)
  /\ \A i \in Rows : pay[i].status \in {"PAID", "REFUNDED"} => pay[i].tx # None
  /\ intent.tx # None => Paid(intent.tx)

MoneyInv == TypeOK /\ Carried /\ Taken /\ OnlyCancelledRefunded

\* What never goes away.
Lasting ==
  /\ \A s \in Sessions : session[s] = "paid" => session'[s] = "paid"
  /\ \A i \in Rows : pay[i].tx # None => pay'[i].tx # None
  /\ Let => Let'

LEMMA NothingChanged ==
  ASSUME UNCHANGED <<session, pay, appt>>
  PROVE  Lasting
BY DEF Lasting, Let

LEMMA PaidLasts ==
  ASSUME Lasting, NEW s \in SessionOrNone, Paid(s)
  PROVE  Paid(s)'
BY DEF Lasting, Paid, SessionOrNone

LEMMA FitLasts ==
  ASSUME Lasting, NEW q \in Local, Fit(q)
  PROVE  Fit(q)'
<1>1. q.tx \in SessionOrNone /\ \A p \in q.plan : p.tx \in SessionOrNone /\ p.row \in Rows
  BY DEF Local, Fit, Sound, Part
<1>2. Paid(q.tx) => Paid(q.tx)' BY <1>1, PaidLasts
<1>3. \A p \in q.plan : Paid(p.tx)' /\ pay'[p.row].tx # None
  <2> SUFFICES ASSUME NEW p \in q.plan PROVE Paid(p.tx)' /\ pay'[p.row].tx # None OBVIOUS
  <2>1. Paid(p.tx) /\ pay[p.row].tx # None BY DEF Fit
  <2> QED BY <1>1, <2>1, PaidLasts DEF Lasting
<1> QED BY <1>2, <1>3 DEF Fit, Lasting

\* One handler goes on as z: the others are what they were.
LEMMA OneGoesOn ==
  ASSUME MoneyInv, Lasting, NEW r \in Callers, NEW z \in Local, Fit(z)', Go(r, z)
  PROVE  (req \in [Callers -> Local] /\ Carried)'
<1>1. \A c \in Callers : req[c] \in Local /\ Fit(req[c]) BY DEF MoneyInv, TypeOK, Carried
<1>2. req' = [req EXCEPT ![r] = z] BY DEF Go
<1>3. req' \in [Callers -> Local] BY <1>2 DEF MoneyInv, TypeOK
<1>4. ASSUME NEW c \in Callers PROVE Fit(req[c])'
  <2>1. CASE c = r
    <3>1. req'[c] = z BY <1>2, <2>1 DEF MoneyInv, TypeOK
    <3> QED BY <3>1
  <2>2. CASE c # r
    <3>1. req'[c] = req[c] BY <1>2, <2>2 DEF MoneyInv, TypeOK
    <3>2. PICK o : o = req[c] OBVIOUS
    <3>3. o \in Local /\ Fit(o) BY <1>1, <3>2
    <3>4. Fit(o)' BY <3>3, FitLasts
    <3> QED BY <3>1, <3>2, <3>4
  <2> QED BY <2>1, <2>2
<1> QED BY <1>3, <1>4 DEF Carried

LEMMA NobodyMoves ==
  ASSUME MoneyInv, Lasting, UNCHANGED req
  PROVE  (req \in [Callers -> Local] /\ Carried)'
<1>1. \A c \in Callers : req[c] \in Local /\ Fit(req[c]) BY DEF MoneyInv, TypeOK, Carried
<1>2. ASSUME NEW c \in Callers PROVE Fit(req[c])'
  <2>1. PICK o : o = req[c] OBVIOUS
  <2>2. o \in Local /\ Fit(o) BY <1>1, <2>1
  <2>3. Fit(o)' BY <2>2, FitLasts
  <2> QED BY <2>1, <2>3
<1> QED BY <1>2 DEF Carried, MoneyInv, TypeOK

LEMMA JobLocal ==
  ASSUME NEW pc \in {"already", "next", "cancel", "remove", "idle"},
         NEW via \in {"return", "webhook", "sweep", "staff", "customer", "nobody"}
  PROVE  /\ Job(pc, via) \in Local
         /\ Job(pc, via).plan = {} /\ Job(pc, via).tx = None /\ Job(pc, via).via = via
         /\ Job(pc, via).pc = pc /\ Job(pc, via).was = "CONFIRMED"
BY DEF Job, Local, SessionOrNone, None

\* A handler with nothing in hand.
LEMMA BareFits ==
  ASSUME NEW q, q.plan = {}, q.tx = None, q.via = "webhook" => q.event # None,
         q.pc \notin {"open", "record", "read", "ask", "mark", "split", "money"},
         q.pc \in {"next", "hold"} => q.via # "webhook",
         q.was = "CANCELLED" => Let'
  PROVE  Fit(q)'
BY FS_EmptySet DEF Fit, Paid, Let

LEMMA IdleFits == Idle \in Local /\ Fit(Idle)'
<1>1. Idle = Job("idle", "nobody") BY DEF Idle
<1>2. Idle \in Local /\ Idle.plan = {} /\ Idle.tx = None /\ Idle.via = "nobody" /\ Idle.pc = "idle"
      /\ Idle.was = "CONFIRMED"
  BY <1>1, JobLocal
<1> QED BY <1>2, BareFits

-----------------------------------------------------------------------------
\* What settle's end does, whoever called it.
LEMMA FinishKeeps ==
  ASSUME MoneyInv, Lasting, NEW r \in Callers, NEW settled \in BOOLEAN, Finish(r, settled)
  PROVE  (req \in [Callers -> Local] /\ Carried /\ processed \subseteq Sessions)'
<1> DEFINE After(q) == [q EXCEPT !.pc = IF settled THEN "next" ELSE "hold",
                                 !.tx = None, !.cents = 0, !.plan = {}]
<1>0. PICK q, z : q = req[r] /\ z = After(q) OBVIOUS
<1>1. q \in Local /\ Fit(q) BY <1>0 DEF MoneyInv, TypeOK, Carried
<1>2. Go(r, IF q.via = "sweep" THEN z ELSE Idle) /\ processed' = processed \cup Handled(q)
  BY <1>0 DEF Finish
<1>3. Handled(q) \subseteq Sessions
  BY <1>1 DEF Handled, Fit, Local, SessionOrNone
<1>4. z \in Local /\ z.plan = {} /\ z.tx = None /\ z.via = q.via /\ z.event = q.event /\ z.was = q.was
      /\ z.pc \in {"next", "hold"}
  <2>1. PICK pc \in {"next", "hold"} :
          z = [q EXCEPT !.pc = pc, !.tx = None, !.cents = 0, !.plan = {}]
    <3>1. CASE settled BY <1>0, <3>1
    <3>2. CASE ~settled BY <1>0, <3>2
    <3> QED BY <3>1, <3>2
  <2>2. q \in Local BY <1>1
  <2> HIDE DEF After
  <2> QED BY <2>1, <2>2 DEF Local, SessionOrNone, None
<1> HIDE DEF After
<1>6. (req \in [Callers -> Local] /\ Carried)'
  <2>1. CASE q.via = "sweep"
    <3>1. Fit(z)' BY <1>1, <1>4, <2>1, BareFits DEF Fit, Lasting
    <3> QED BY <1>2, <1>4, <2>1, <3>1, OneGoesOn
  <2>2. CASE q.via # "sweep" BY <1>2, <2>2, IdleFits, OneGoesOn
  <2> QED BY <2>1, <2>2
<1> QED BY <1>2, <1>3, <1>6 DEF MoneyInv, TypeOK

\* A step that only moves handlers, the world and the events.
LEMMA MoneyStays ==
  ASSUME MoneyInv, UNCHANGED <<appt, pay, intent, session, returned>>,
         (req \in [Callers -> Local] /\ Carried)', processed' \subseteq Sessions,
         age' \in {"fresh", "lapsed", "forgotten"}, world' \subseteq world
  PROVE  MoneyInv'
<1>1. Taken' BY DEF MoneyInv, Taken, Paid
<1>2. OnlyCancelledRefunded' BY DEF MoneyInv, OnlyCancelledRefunded
<1>3. TypeOK' BY DEF MoneyInv, TypeOK
<1> QED BY <1>1, <1>2, <1>3 DEF MoneyInv

LEMMA CheckoutKeeps ==
  ASSUME MoneyInv, NEW s \in Sessions, StartCheckout(s) \/ Pay(s)
  PROVE  MoneyInv'
<1> USE DEF MoneyInv
<1>1. UNCHANGED <<appt, pay, returned, processed, age, world, req>> /\ s # None
  BY SessionsAssumption DEF StartCheckout, Pay, None
<1>2. /\ session' \in [Sessions -> {"none", "open", "paid"}] /\ intent' \in IntentRow
      /\ \A t \in Sessions : session[t] = "paid" => session'[t] = "paid"
      /\ intent'.tx # None => intent'.tx = intent.tx
  <2>1. CASE StartCheckout(s)
    <3>1. session' = [session EXCEPT ![s] = "open"] /\ session[s] = "none"
          /\ intent' = [ext |-> s, paid |-> FALSE, tx |-> None]
      BY <2>1 DEF StartCheckout
    <3> QED BY <3>1 DEF TypeOK, IntentRow, SessionOrNone
  <2>2. CASE Pay(s)
    <3>1. session' = [session EXCEPT ![s] = "paid"] /\ intent' = intent BY <2>2 DEF Pay
    <3> QED BY <3>1 DEF TypeOK
  <2> QED BY <2>1, <2>2
<1>3. Lasting BY <1>1, <1>2 DEF Lasting, Let
<1>4. (req \in [Callers -> Local] /\ Carried)' BY <1>1, <1>3, NobodyMoves
<1>5. Taken'
  <2>1. \A i \in Rows : pay[i].tx \in SessionOrNone BY DEF TypeOK, PayRow
  <2>2. intent.tx \in SessionOrNone BY DEF TypeOK, IntentRow
  <2>3. \A i \in Rows : pay'[i].tx # None => Paid(pay[i].tx)'
    <3> SUFFICES ASSUME NEW i \in Rows, pay[i].tx # None PROVE Paid(pay[i].tx)' BY <1>1
    <3>1. PICK t \in SessionOrNone : t = pay[i].tx BY <2>1
    <3>2. Paid(t)' BY <1>3, <3>1, PaidLasts DEF Taken
    <3> QED BY <1>1, <3>1, <3>2
  <2>4. intent'.tx # None => Paid(intent.tx)'
    <3> SUFFICES ASSUME intent'.tx # None PROVE Paid(intent.tx)' OBVIOUS
    <3>1. PICK t \in SessionOrNone : t = intent.tx BY <2>2
    <3>2. Paid(t)' BY <1>2, <1>3, <3>1, PaidLasts DEF Taken
    <3> QED BY <1>2, <3>1, <3>2
  <2> QED BY <1>1, <2>3, <2>4 DEF Taken
<1>6. OnlyCancelledRefunded' BY <1>1 DEF OnlyCancelledRefunded
<1>7. TypeOK' BY <1>1, <1>2 DEF TypeOK
<1> QED BY <1>4, <1>5, <1>6, <1>7

LEMMA ApptTypes ==
  ASSUME TypeOK
  PROVE  appt.status \in {"CONFIRMED", "ARRIVED", "CANCELLED"}
BY DEF TypeOK, ApptRow

LEMMA BeginKeeps ==
  ASSUME MoneyInv, NEW r \in Callers, BeginReturn(r) \/ BeginCancel(r) \/ BeginRemove(r)
  PROVE  MoneyInv'
<1>1. UNCHANGED <<appt, pay, intent, session, returned, processed, age, world>>
  BY DEF BeginReturn, BeginCancel, BeginRemove
<1>2. Lasting BY <1>1, NothingChanged
<1>3. PICK z \in Local : Go(r, z) /\ Fit(z)'
  <2>1. appt.status \in {"CONFIRMED", "ARRIVED", "CANCELLED"} BY ApptTypes DEF MoneyInv
  <2>2. CASE BeginReturn(r)
    <3>1. PICK z : z = [Job("already", "return") EXCEPT !.was = appt.status] OBVIOUS
    <3>2. Go(r, z) BY <2>2, <3>1 DEF BeginReturn, Begin, Go
    <3>3. z \in Local /\ z.plan = {} /\ z.tx = None /\ z.via = "return" /\ z.pc = "already" /\ z.was = appt.status
      <4>1. PICK j \in Local : j = Job("already", "return") /\ j.plan = {} /\ j.tx = None /\ j.via = "return"
                               /\ j.pc = "already"
        BY JobLocal
      <4>2. z = [j EXCEPT !.was = appt.status] BY <3>1, <4>1
      <4> QED BY <2>1, <4>1, <4>2 DEF Local
    <3>4. Fit(z)' BY <1>1, <3>3, BareFits DEF Let
    <3> QED BY <3>2, <3>3, <3>4
  <2>3. CASE BeginCancel(r)
    <3>0. PICK via \in {"staff", "customer"} : Begin(r, [Job("cancel", via) EXCEPT !.was = appt.status])
      BY <2>3 DEF BeginCancel
    <3>1. PICK z : z = [Job("cancel", via) EXCEPT !.was = appt.status] OBVIOUS
    <3>2. Go(r, z) BY <3>0, <3>1 DEF Begin, Go
    <3>3. z \in Local /\ z.plan = {} /\ z.tx = None /\ z.via = via /\ z.pc = "cancel" /\ z.was = appt.status
      <4>1. PICK j \in Local : j = Job("cancel", via) /\ j.plan = {} /\ j.tx = None /\ j.via = via /\ j.pc = "cancel"
        BY JobLocal
      <4>2. z = [j EXCEPT !.was = appt.status] BY <3>1, <4>1
      <4> QED BY <2>1, <4>1, <4>2 DEF Local
    <3>4. Fit(z)' BY <1>1, <3>3, BareFits DEF Let
    <3> QED BY <3>2, <3>3, <3>4
  <2>4. CASE BeginRemove(r)
    <3>0. PICK i \in OpenRows : Begin(r, [Job("remove", "staff") EXCEPT !.row = i])
      BY <2>4 DEF BeginRemove
    <3>1. PICK z : z = [Job("remove", "staff") EXCEPT !.row = i] OBVIOUS
    <3>2. Go(r, z) BY <3>0, <3>1 DEF Begin, Go
    <3>3. i \in Rows BY DEF OpenRows
    <3>4. z \in Local /\ z.plan = {} /\ z.tx = None /\ z.via = "staff" /\ z.pc = "remove" /\ z.was = "CONFIRMED"
      <4>1. PICK j \in Local : j = Job("remove", "staff") /\ j.plan = {} /\ j.tx = None /\ j.via = "staff"
                               /\ j.pc = "remove" /\ j.was = "CONFIRMED"
        BY JobLocal
      <4>2. z = [j EXCEPT !.row = i] BY <3>1, <4>1
      <4> QED BY <3>3, <4>1, <4>2 DEF Local
    <3>5. Fit(z)' BY <3>4, BareFits
    <3> QED BY <3>2, <3>4, <3>5
  <2> QED BY <2>2, <2>3, <2>4
<1>4. (req \in [Callers -> Local] /\ Carried)' BY <1>2, <1>3, OneGoesOn
<1> QED BY <1>1, <1>4, MoneyStays DEF MoneyInv, TypeOK

LEMMA WebhookKeeps ==
  ASSUME MoneyInv, NEW r \in Callers, BeginWebhook(r)
  PROVE  MoneyInv'
<1> PICK s \in Sessions \ processed :
      /\ session[s] = "paid"
      /\ IF intent.ext = s
         THEN /\ intent' = [intent EXCEPT !.paid = TRUE, !.tx = s]
              /\ Go(r, [Job("already", "webhook") EXCEPT !.was = appt.status, !.event = s])
              /\ UNCHANGED processed
         ELSE /\ processed' = processed \cup {s}
              /\ UNCHANGED <<intent, req>>
      /\ UNCHANGED <<appt, pay, session, returned, age, world>>
  BY DEF BeginWebhook
<1>1. Lasting BY NothingChanged
<1>2. s # None /\ s \in SessionOrNone BY SessionsAssumption DEF None, SessionOrNone
<1>3. CASE intent.ext # s
  <2>1. (req \in [Callers -> Local] /\ Carried)' BY <1>1, <1>3, NobodyMoves
  <2> QED BY <1>3, <2>1, MoneyStays DEF MoneyInv, TypeOK
<1>4. CASE intent.ext = s
  <2>1. PICK z : z = [Job("already", "webhook") EXCEPT !.was = appt.status, !.event = s] OBVIOUS
  <2>2. appt.status \in {"CONFIRMED", "ARRIVED", "CANCELLED"} BY ApptTypes DEF MoneyInv
  <2>3. z \in Local /\ z.plan = {} /\ z.tx = None /\ z.event = s /\ z.pc = "already" /\ z.was = appt.status
    <3>1. PICK j \in Local : j = Job("already", "webhook") /\ j.plan = {} /\ j.tx = None /\ j.pc = "already"
      BY JobLocal
    <3>2. z = [j EXCEPT !.was = appt.status, !.event = s] BY <2>1, <3>1
    <3> QED BY <1>2, <2>2, <3>1, <3>2 DEF Local
  <2>4. Fit(z)' BY <1>2, <2>3, BareFits DEF Let
  <2>5. (req \in [Callers -> Local] /\ Carried)' BY <1>1, <1>4, <2>1, <2>3, <2>4, OneGoesOn
  <2>6. intent' \in IntentRow /\ intent'.tx = s BY ZenonT(30), <1>2, <1>4 DEF MoneyInv, TypeOK, IntentRow
  <2>7. Taken' BY <1>2, <2>6 DEF MoneyInv, Taken, Paid
  <2>8. OnlyCancelledRefunded' BY DEF MoneyInv, OnlyCancelledRefunded
  <2>9. TypeOK' BY <1>4, <2>5, <2>6 DEF MoneyInv, TypeOK
  <2> QED BY <2>5, <2>7, <2>8, <2>9 DEF MoneyInv
<1> QED BY <1>3, <1>4

LEMMA AlreadyKeeps ==
  ASSUME MoneyInv, NEW r \in Callers, Already(r)
  PROVE  MoneyInv'
<1>1. UNCHANGED <<appt, pay, intent, session, returned, age, world>> BY DEF Already
<1>2. Lasting BY <1>1, NothingChanged
<1>3. CASE Recorded
  <2>1. Finish(r, TRUE) BY <1>3 DEF Already
  <2>2. (req \in [Callers -> Local] /\ Carried /\ processed \subseteq Sessions)' BY <1>2, <2>1, FinishKeeps
  <2> QED BY <1>1, <2>2, MoneyStays DEF MoneyInv, TypeOK
<1>4. CASE ~Recorded
  <2>1. PICK q, z : q = req[r] /\ z = [q EXCEPT !.pc = "lookup"] OBVIOUS
  <2>2. Go(r, z) /\ UNCHANGED processed BY <1>4, <2>1 DEF Already
  <2>3. q \in Local /\ Fit(q) BY <2>1 DEF MoneyInv, TypeOK, Carried
  <2>4. z \in Local /\ z.plan = q.plan /\ z.tx = q.tx /\ z.via = q.via /\ z.event = q.event /\ z.was = q.was
        /\ z.pc = "lookup"
    BY <2>1, <2>3 DEF Local
  <2>5. Fit(z) BY <2>3, <2>4 DEF Fit
  <2>6. (req \in [Callers -> Local] /\ Carried)' BY <1>2, <2>2, <2>4, <2>5, FitLasts, OneGoesOn
  <2> QED BY <1>1, <2>2, <2>6, MoneyStays DEF MoneyInv, TypeOK
<1> QED BY <1>3, <1>4

LEMMA ApprovedPaid ==
  ASSUME MoneyInv, Approved # None
  PROVE  Approved \in SessionOrNone /\ Paid(Approved)
<1> USE DEF MoneyInv
<1>1. intent.tx \in SessionOrNone /\ intent.ext \in SessionOrNone BY DEF TypeOK, IntentRow
<1>2. CASE intent.paid /\ intent.tx # None BY <1>1, <1>2 DEF Approved, Taken
<1>3. CASE ~(intent.paid /\ intent.tx # None) BY <1>1, <1>3 DEF Approved, Paid
<1> QED BY <1>2, <1>3

LEMMA LookupKeeps ==
  ASSUME MoneyInv, NEW r \in Callers, Lookup(r)
  PROVE  MoneyInv'
<1>1. UNCHANGED <<appt, pay, session, returned, age, world>> BY DEF Lookup
<1>2. Lasting BY <1>1, NothingChanged
<1>3. CASE Approved = None
  <2>1. Finish(r, FALSE) /\ UNCHANGED intent BY <1>3 DEF Lookup
  <2>2. (req \in [Callers -> Local] /\ Carried /\ processed \subseteq Sessions)' BY <1>2, <2>1, FinishKeeps
  <2> QED BY <1>1, <2>1, <2>2, MoneyStays DEF MoneyInv, TypeOK
<1>4. CASE Approved # None
  <2>1. PICK s, q, z : s = Approved /\ q = req[r] /\ z = [q EXCEPT !.pc = "open", !.tx = s] OBVIOUS
  <2>2. Go(r, z) /\ UNCHANGED processed /\ intent' = [intent EXCEPT !.paid = TRUE, !.tx = s]
    BY <1>4, <2>1 DEF Lookup
  <2>3. s \in SessionOrNone /\ Paid(s) BY <1>4, <2>1, ApprovedPaid
  <2>4. q \in Local /\ Fit(q) BY <2>1 DEF MoneyInv, TypeOK, Carried
  <2>5. z \in Local /\ z.plan = q.plan /\ z.tx = s /\ z.via = q.via /\ z.event = q.event /\ z.was = q.was
        /\ z.pc = "open"
    BY ZenonT(30), <2>1, <2>3, <2>4 DEF Local
  <2>6. Fit(z) BY <2>3, <2>4, <2>5 DEF Fit, Paid
  <2>7. (req \in [Callers -> Local] /\ Carried)' BY <1>2, <2>2, <2>5, <2>6, FitLasts, OneGoesOn
  <2>8. intent' \in IntentRow /\ intent'.tx = s BY <2>2, <2>3 DEF MoneyInv, TypeOK, IntentRow
  <2>9. Taken' BY <1>1, <2>3, <2>8 DEF MoneyInv, Taken, Paid
  <2>10. OnlyCancelledRefunded' BY <1>1 DEF MoneyInv, OnlyCancelledRefunded
  <2>11. TypeOK' BY <1>1, <2>2, <2>7, <2>8 DEF MoneyInv, TypeOK
  <2> QED BY <2>7, <2>9, <2>10, <2>11 DEF MoneyInv
<1> QED BY <1>3, <1>4

LEMMA LookupFailsKeeps ==
  ASSUME MoneyInv, NEW r \in Callers, LookupFails(r)
  PROVE  MoneyInv'
<1>1. UNCHANGED <<appt, pay, intent, session, returned, age>> /\ world' \subseteq world BY DEF LookupFails
<1>2. Lasting BY <1>1, NothingChanged
<1>3. PICK settled \in BOOLEAN : Finish(r, settled) BY DEF LookupFails
<1>4. (req \in [Callers -> Local] /\ Carried /\ processed \subseteq Sessions)' BY <1>2, <1>3, FinishKeeps
<1> QED BY <1>1, <1>4, MoneyStays DEF MoneyInv, TypeOK

LEMMA OpenRowKeeps ==
  ASSUME MoneyInv, NEW r \in Callers, OpenRow(r)
  PROVE  MoneyInv'
<1>1. UNCHANGED <<appt, pay, intent, session, returned, processed, age, world>> BY DEF OpenRow
<1>2. Lasting BY <1>1, NothingChanged
<1> DEFINE Latest == IF OpenRows = {} THEN None ELSE CHOOSE i \in OpenRows : \A j \in OpenRows : j <= i
<1>a. Go(r, [req[r] EXCEPT !.pc = "record", !.row = Latest]) /\ req[r].pc = "open" BY DEF OpenRow
<1>b. Latest \in Rows \cup {None}
  <2>1. CASE OpenRows = {} BY <2>1
  <2>2. CASE OpenRows # {} BY <2>2, LatestIn DEF OpenRows
  <2> QED BY <2>1, <2>2
<1> HIDE DEF Latest
<1>3. PICK i, q, z : i = Latest /\ q = req[r] /\ z = [q EXCEPT !.pc = "record", !.row = i] OBVIOUS
<1>4. Go(r, z) /\ q.pc = "open" BY <1>3, <1>a
<1>5. i \in Rows \cup {None} BY <1>3, <1>b
<1>6. q \in Local /\ Fit(q) BY <1>3 DEF MoneyInv, TypeOK, Carried
<1>7. z \in Local /\ z.plan = q.plan /\ z.tx = q.tx /\ z.via = q.via /\ z.event = q.event /\ z.was = q.was
      /\ z.pc = "record"
  <2>1. q \in Local /\ z = [q EXCEPT !.pc = "record", !.row = i] BY <1>3, <1>6
  <2> QED BY <1>5, <2>1 DEF Local
<1>8. Fit(z) BY <1>4, <1>6, <1>7 DEF Fit
<1>9. (req \in [Callers -> Local] /\ Carried)' BY <1>2, <1>4, <1>7, <1>8, FitLasts, OneGoesOn
<1> QED BY <1>1, <1>9, MoneyStays DEF MoneyInv, TypeOK

-----------------------------------------------------------------------------
(* Steps that write rows of the booking. *)

\* Every row keeps its transaction, or gets one that was paid.
Written ==
  /\ pay' \in [Rows -> PayRow]
  /\ \A i \in Rows : \/ pay'[i].tx = pay[i].tx
                     \/ pay'[i].tx # None /\ session[pay'[i].tx] = "paid"
  /\ \A i \in Rows : pay'[i].status \in {"PAID", "REFUNDED"} => pay'[i].tx # None

LEMMA WrittenLasts ==
  ASSUME Written, UNCHANGED session, Let => Let'
  PROVE  Lasting
BY DEF Written, Lasting

LEMMA WrittenKeeps ==
  ASSUME MoneyInv, Written, UNCHANGED <<intent, session, returned, age, world>>,
         appt' \in ApptRow, Let => Let',
         (req \in [Callers -> Local] /\ Carried)', processed' \subseteq Sessions
  PROVE  MoneyInv'
<1>1. Taken' BY DEF MoneyInv, Taken, Paid, Written
<1>2. OnlyCancelledRefunded' BY DEF MoneyInv, OnlyCancelledRefunded, Let
<1>3. TypeOK' BY DEF MoneyInv, TypeOK, Written
<1> QED BY <1>1, <1>2, <1>3 DEF MoneyInv

LEMMA PaidWithType ==
  ASSUME NEW s \in SessionOrNone
  PROVE  PaidWith(s) \in PayRow /\ PaidWith(s).tx = s /\ PaidWith(s).status = "PAID"
<1>1. Due \in Nat BY AmountsAssumption DEF Due
<1> QED BY <1>1 DEF PaidWith, PayRow

\* One row becomes x.
LEMMA RowWritten ==
  ASSUME MoneyInv, NEW i \in Rows, NEW x \in PayRow, Paid(x.tx), pay' = [pay EXCEPT ![i] = x]
  PROVE  Written
<1>1. pay \in [Rows -> PayRow] BY DEF MoneyInv, TypeOK
<1>2. pay' \in [Rows -> PayRow] /\ pay'[i] = x /\ \A j \in Rows : j # i => pay'[j] = pay[j] BY <1>1
<1> QED BY <1>2 DEF Written, MoneyInv, Taken, Paid

LEMMA RecordKeeps ==
  ASSUME MoneyInv, NEW r \in Callers, Record(r)
  PROVE  MoneyInv'
<1>1. UNCHANGED <<appt, intent, session, returned, age, world>> BY DEF Record
<1>2. PICK q, z : q = req[r] /\ z = [q EXCEPT !.pc = "read", !.row = None, !.cents = Due] OBVIOUS
<1>3. q \in Local /\ Fit(q) BY <1>2 DEF MoneyInv, TypeOK, Carried
<1>4. q.pc = "record" BY <1>2 DEF Record
<1>5. q.tx \in SessionOrNone /\ Paid(q.tx) BY <1>3, <1>4 DEF Fit, Local
<1>6. Written
  <2>1. CASE UNCHANGED pay
    BY <2>1 DEF Written, MoneyInv, TypeOK, Taken
  <2>2. CASE \E i \in Rows : pay' = [pay EXCEPT ![i] = PaidWith(q.tx)]
    <3>1. PICK i \in Rows : pay' = [pay EXCEPT ![i] = PaidWith(q.tx)] BY <2>2
    <3>2. PaidWith(q.tx) \in PayRow /\ Paid(PaidWith(q.tx).tx) BY <1>5, PaidWithType DEF Paid
    <3> QED BY <3>1, <3>2, RowWritten
  <2>3. UNCHANGED pay \/ \E i \in Rows : pay' = [pay EXCEPT ![i] = PaidWith(q.tx)]
    <3>1. q.row # None => q.row \in Rows BY <1>3 DEF Local
    <3>2. FreeRows # {} => FirstFree \in Rows BY FreeIn DEF FreeRows
    <3> QED BY <1>2, <3>1, <3>2 DEF Record
  <2> QED BY <2>1, <2>2, <2>3
<1>7. Lasting BY <1>1, <1>6, WrittenLasts DEF Let
<1>8. (req \in [Callers -> Local] /\ Carried /\ processed \subseteq Sessions)'
  <2>1. CASE Finish(r, TRUE) BY <1>7, <2>1, FinishKeeps
  <2>2. CASE Late(q) /\ Go(r, z) /\ UNCHANGED processed
    <3>1. Due \in Nat BY AmountsAssumption DEF Due
    <3>2. z \in Local /\ z.plan = q.plan /\ z.tx = q.tx /\ z.via = q.via /\ z.event = q.event /\ z.was = q.was
          /\ z.pc = "read"
      <4>1. PICK due \in Nat : z = [q EXCEPT !.pc = "read", !.row = None, !.cents = due] BY <1>2, <3>1
      <4> QED BY <1>3, <4>1 DEF Local
    <3>3. Fit(z) BY <1>3, <2>2, <3>2 DEF Fit, Late
    <3>4. (req \in [Callers -> Local] /\ Carried)' BY <1>7, <2>2, <3>2, <3>3, FitLasts, OneGoesOn
    <3> QED BY <2>2, <3>4 DEF MoneyInv, TypeOK
  <2>3. Finish(r, TRUE) \/ (Late(q) /\ Go(r, z) /\ UNCHANGED processed) BY <1>2 DEF Record
  <2> QED BY <2>1, <2>2, <2>3
<1> QED BY <1>1, <1>6, <1>8, WrittenKeeps DEF MoneyInv, TypeOK, Let

LEMMA ReadPaidKeeps ==
  ASSUME MoneyInv, NEW r \in Callers, ReadPaid(r)
  PROVE  MoneyInv'
<1>1. UNCHANGED <<appt, pay, intent, session, returned, processed, age, world>> BY DEF ReadPaid
<1>2. Lasting BY <1>1, NothingChanged
<1>3. PICK q, plan, z : /\ q = req[r] /\ plan = Plan(PaidRows, q.cents)
                        /\ z = [q EXCEPT !.pc = "ask", !.plan = plan]
  OBVIOUS
<1>4. Go(r, z) /\ q.pc = "read" BY <1>3 DEF ReadPaid
<1>5. q \in Local /\ Fit(q) BY <1>3 DEF MoneyInv, TypeOK, Carried
<1>6. q.cents \in Nat BY <1>5 DEF Local
<1>7. /\ IsFiniteSet(plan)
      /\ \A p \in plan : Sound(p) /\ Paid(p.tx) /\ pay[p.row].tx # None
  <2>1. IsFiniteSet(plan) /\ \A p \in plan : Sound(p) /\ pay[p.row].status = "PAID" /\ p.tx = pay[p.row].tx
    BY <1>3, <1>6, PlanSound DEF MoneyInv
  <2> QED BY <2>1 DEF MoneyInv, Taken, Sound, Part
<1>8. z \in Local /\ z.plan = plan /\ z.tx = q.tx /\ z.via = q.via /\ z.event = q.event /\ z.was = q.was
      /\ z.pc = "ask"
  <2>1. plan \subseteq Part BY <1>7 DEF Sound
  <2>2. q \in Local /\ z = [q EXCEPT !.pc = "ask", !.plan = plan] BY <1>3, <1>5
  <2> QED BY <2>1, <2>2 DEF Local
<1>9. Fit(z) BY <1>4, <1>5, <1>7, <1>8 DEF Fit
<1>10. (req \in [Callers -> Local] /\ Carried)' BY <1>2, <1>4, <1>8, <1>9, FitLasts, OneGoesOn
<1> QED BY <1>1, <1>10, MoneyStays DEF MoneyInv, TypeOK

LEMMA DoneKeeps ==
  ASSUME MoneyInv, NEW r \in Callers, RefundDone(r)
  PROVE  MoneyInv'
<1>1. UNCHANGED <<appt, pay, intent, session, returned, age, world>> /\ Finish(r, TRUE) BY DEF RefundDone
<1>2. Lasting BY <1>1, NothingChanged
<1>3. (req \in [Callers -> Local] /\ Carried /\ processed \subseteq Sessions)' BY <1>1, <1>2, FinishKeeps
<1> QED BY <1>1, <1>3, MoneyStays DEF MoneyInv, TypeOK

\* A refund goes on to pc, with the part p done or still in hand.
LEMMA RefundGoesOn ==
  ASSUME MoneyInv, Lasting, NEW r \in Callers, NEW q, q = req[r], q.pc \in {"ask", "mark", "split"},
         NEW plan, plan \subseteq q.plan, NEW pc \in {"ask", "mark", "split"},
         pc = "ask" \/ plan # {}, Go(r, [q EXCEPT !.pc = pc, !.plan = plan])
  PROVE  (req \in [Callers -> Local] /\ Carried)'
<1>1. q \in Local /\ Fit(q) BY DEF MoneyInv, TypeOK, Carried
<1>2. PICK z : z = [q EXCEPT !.pc = pc, !.plan = plan] OBVIOUS
<1>3. z \in Local /\ z.plan = plan /\ z.tx = q.tx /\ z.via = q.via /\ z.event = q.event /\ z.was = q.was
      /\ z.pc = pc
  BY ZenonT(30), <1>1, <1>2 DEF Local
<1>4. IsFiniteSet(plan) BY <1>1, FS_Subset DEF Fit
<1>5. Fit(z) BY <1>1, <1>3, <1>4 DEF Fit
<1> QED BY <1>2, <1>3, <1>5, FitLasts, OneGoesOn

LEMMA NextPart ==
  ASSUME MoneyInv, NEW r \in Callers, req[r].plan # {}
  PROVE  /\ Largest(req[r].plan) \in req[r].plan
         /\ Sound(Largest(req[r].plan))
         /\ Paid(Largest(req[r].plan).tx)
         /\ pay[Largest(req[r].plan).row].tx # None
<1>1. Fit(req[r]) BY DEF MoneyInv, Carried
<1>2. Largest(req[r].plan) \in req[r].plan BY <1>1, LargestIn DEF Fit
<1> QED BY <1>1, <1>2 DEF Fit

LEMMA AskKeeps ==
  ASSUME MoneyInv, NEW r \in Callers, AskProvider(r)
  PROVE  MoneyInv'
<1>1. UNCHANGED <<appt, pay, intent, session, processed, age>> BY DEF AskProvider
<1>2. Lasting BY <1>1, NothingChanged
<1>3. PICK q, p, s : q = req[r] /\ p = Largest(q.plan) /\ s = p.tx OBVIOUS
<1>4. q.pc = "ask" /\ q.plan # {} BY <1>3 DEF AskProvider
<1>5. p \in q.plan /\ Sound(p) /\ Paid(s) BY <1>3, <1>4, NextPart
<1>6. s \in Sessions /\ p.cents \in Nat BY <1>3, <1>5 DEF Sound, Part, SessionOrNone, Paid
<1>7. \/ Go(r, [q EXCEPT !.pc = "mark"])
      \/ Go(r, [q EXCEPT !.plan = @ \ {p}])
  BY <1>3 DEF AskProvider
<1>8. q.pc \in {"ask", "mark", "split"} /\ q \in Local BY <1>3, <1>4 DEF MoneyInv, TypeOK
<1>9. [q EXCEPT !.pc = "mark"] = [q EXCEPT !.pc = "mark", !.plan = q.plan]
      /\ [q EXCEPT !.plan = q.plan \ {p}] = [q EXCEPT !.pc = "ask", !.plan = q.plan \ {p}]
  BY <1>4, <1>8 DEF Local
<1>10. (req \in [Callers -> Local] /\ Carried)'
  <2>1. CASE Go(r, [q EXCEPT !.pc = "mark"])
    <3>1. Go(r, [q EXCEPT !.pc = "mark", !.plan = q.plan]) BY <1>9, <2>1
    <3> QED BY <1>2, <1>3, <1>4, <1>8, <3>1, RefundGoesOn
  <2>2. CASE Go(r, [q EXCEPT !.plan = @ \ {p}])
    <3>1. PICK rest : rest = q.plan \ {p} OBVIOUS
    <3>2. Go(r, [q EXCEPT !.pc = "ask", !.plan = rest]) BY <1>9, <2>2, <3>1
    <3>3. rest \subseteq q.plan BY <3>1
    <3> QED BY <1>2, <1>3, <1>8, <3>2, <3>3, RefundGoesOn
  <2> QED BY <1>7, <2>1, <2>2
<1>11. returned' = [returned EXCEPT ![s] = @ + p.cents] \/ UNCHANGED returned BY <1>3 DEF AskProvider
<1>12. world' \subseteq world BY DEF AskProvider
<1>13. returned' \in [Sessions -> Nat] BY <1>6, <1>11 DEF MoneyInv, TypeOK
<1>14. Let BY <1>3, <1>4 DEF MoneyInv, Carried, Fit
<1>15. OnlyCancelledRefunded' BY <1>1, <1>14 DEF OnlyCancelledRefunded, Let
<1>16. Taken' BY <1>1 DEF MoneyInv, Taken, Paid
<1>17. TypeOK' BY <1>1, <1>10, <1>12, <1>13 DEF MoneyInv, TypeOK
<1> QED BY <1>10, <1>15, <1>16, <1>17 DEF MoneyInv

LEMMA MarkKeeps ==
  ASSUME MoneyInv, NEW r \in Callers, MarkRefunded(r)
  PROVE  MoneyInv'
<1>1. UNCHANGED <<appt, intent, session, returned, processed, age, world>> BY DEF MarkRefunded
<1>2. PICK q, p, i : q = req[r] /\ p = Largest(q.plan) /\ i = p.row OBVIOUS
<1>3. q.pc = "mark" /\ q \in Local /\ Fit(q) BY <1>2 DEF MarkRefunded, MoneyInv, TypeOK, Carried
<1>4. q.plan # {} BY <1>3 DEF Fit
<1>5. p \in q.plan /\ Sound(p) /\ Paid(p.tx) /\ pay[i].tx # None BY <1>2, <1>4, NextPart
<1>6. i \in Rows /\ p.cents \in Nat /\ p.read \in Nat /\ p.cents <= p.read BY <1>2, <1>5 DEF Sound, Part
<1>7. pay[i] \in PayRow /\ Paid(pay[i].tx) BY <1>5, <1>6 DEF MoneyInv, TypeOK, Taken
<1>8. Written
  <2>1. CASE UNCHANGED pay BY <2>1 DEF Written, MoneyInv, TypeOK, Taken
  <2>2. CASE pay' = [pay EXCEPT ![i].status = "REFUNDED"]
    <3>1. PICK x : x = [pay[i] EXCEPT !.status = "REFUNDED"] OBVIOUS
    <3>2. x \in PayRow /\ x.tx = pay[i].tx BY <1>7, <3>1 DEF PayRow
    <3>3. pay' = [pay EXCEPT ![i] = x] BY <2>2, <3>1
    <3>4. Paid(x.tx) BY <1>7, <3>2
    <3> QED BY <1>6, <3>2, <3>3, <3>4, RowWritten
  <2>3. CASE pay' = [pay EXCEPT ![i].amount = Stays(p)]
    <3>1. PICK x : x = [pay[i] EXCEPT !.amount = Stays(p)] OBVIOUS
    <3>2. Stays(p) \in Nat BY <1>6 DEF Stays
    <3>3. x \in PayRow /\ x.tx = pay[i].tx BY <1>7, <3>1, <3>2 DEF PayRow
    <3>4. pay' = [pay EXCEPT ![i] = x] BY <2>3, <3>1
    <3>5. Paid(x.tx) BY <1>7, <3>3
    <3> QED BY <1>6, <3>3, <3>4, <3>5, RowWritten
  <2> QED BY <1>2, <2>1, <2>2, <2>3 DEF MarkRefunded
<1>9. Lasting BY <1>1, <1>8, WrittenLasts DEF Let
<1>10. (req \in [Callers -> Local] /\ Carried)'
  <2>1. CASE Go(r, [q EXCEPT !.pc = "ask", !.plan = @ \ {p}])
    <3>1. PICK rest : rest = q.plan \ {p} OBVIOUS
    <3>2. Go(r, [q EXCEPT !.pc = "ask", !.plan = rest]) BY <1>3, <2>1, <3>1 DEF Local
    <3>3. rest \subseteq q.plan BY <3>1
    <3> QED BY <1>2, <1>3, <1>9, <3>2, <3>3, RefundGoesOn
  <2>2. CASE Go(r, [q EXCEPT !.pc = "split"])
    <3>1. [q EXCEPT !.pc = "split"] = [q EXCEPT !.pc = "split", !.plan = q.plan] BY <1>3 DEF Local
    <3>2. Go(r, [q EXCEPT !.pc = "split", !.plan = q.plan]) BY <2>2, <3>1
    <3> QED BY <1>2, <1>3, <1>4, <1>9, <3>2, RefundGoesOn
  <2> QED BY <1>2, <2>1, <2>2 DEF MarkRefunded
<1> QED BY <1>1, <1>8, <1>10, WrittenKeeps DEF MoneyInv, TypeOK, Let

LEMMA SplitKeeps ==
  ASSUME MoneyInv, NEW r \in Callers, SplitRow(r)
  PROVE  MoneyInv'
<1>1. UNCHANGED <<appt, intent, session, returned, processed, age, world>> BY DEF SplitRow
<1>2. PICK q, p : q = req[r] /\ p = Largest(q.plan) OBVIOUS
<1>3. q.pc = "split" /\ q \in Local /\ Fit(q) BY <1>2 DEF SplitRow, MoneyInv, TypeOK, Carried
<1>4. q.plan # {} BY <1>3 DEF Fit
<1>5. p \in q.plan /\ Sound(p) /\ Paid(p.tx) BY <1>2, <1>4, NextPart
<1>6. FirstFree \in Rows BY FreeIn DEF SplitRow, FreeRows
<1>7. PICK x : x = [status |-> "REFUNDED", amount |-> p.cents, hold |-> FALSE, tx |-> p.tx] OBVIOUS
<1>8. x \in PayRow /\ Paid(x.tx) BY <1>5, <1>7 DEF PayRow, Sound, Part
<1>9. pay' = [pay EXCEPT ![FirstFree] = x] BY <1>2, <1>7 DEF SplitRow
<1>10. Written BY <1>6, <1>8, <1>9, RowWritten
<1>11. Lasting BY <1>1, <1>10, WrittenLasts DEF Let
<1>12. (req \in [Callers -> Local] /\ Carried)'
  <2>1. PICK rest : rest = q.plan \ {p} OBVIOUS
  <2>2. Go(r, [q EXCEPT !.pc = "ask", !.plan = @ \ {p}]) BY <1>2 DEF SplitRow
  <2>3. Go(r, [q EXCEPT !.pc = "ask", !.plan = rest]) BY <1>3, <2>1, <2>2 DEF Local
  <2>4. rest \subseteq q.plan BY <2>1
  <2> QED BY <1>2, <1>3, <1>11, <2>3, <2>4, RefundGoesOn
<1> QED BY <1>1, <1>10, <1>12, WrittenKeeps DEF MoneyInv, TypeOK, Let

-----------------------------------------------------------------------------
(* The cancellation, the removal, the timer's round. *)

LEMMA CancelKeeps ==
  ASSUME MoneyInv, NEW r \in Callers, Cancel(r)
  PROVE  MoneyInv'
<1>1. UNCHANGED <<intent, session, returned, age, world>> BY DEF Cancel
<1>2. Let' /\ appt' \in ApptRow
  <2>1. appt \in ApptRow BY DEF MoneyInv, TypeOK
  <2>2. PICK by \in {"people", "system"} : appt' = [appt EXCEPT !.status = "CANCELLED", !.by = by]
    <3>1. CASE req[r].via = "sweep" BY <3>1 DEF Cancel
    <3>2. CASE req[r].via # "sweep" BY <3>2 DEF Cancel
    <3> QED BY <3>1, <3>2
  <2> QED BY <2>1, <2>2 DEF ApptRow, Let
<1>3. Written
  <2>1. pay' = [i \in Rows |-> IF pay[i].status = "PENDING" THEN [pay[i] EXCEPT !.status = "FAILED"] ELSE pay[i]]
    BY DEF Cancel
  <2>2. ASSUME NEW i \in Rows
        PROVE  /\ pay'[i] \in PayRow /\ pay'[i].tx = pay[i].tx
               /\ pay'[i].status \in {"PAID", "REFUNDED"} => pay[i].tx # None
    <3>1. pay[i] \in PayRow /\ (pay[i].status \in {"PAID", "REFUNDED"} => pay[i].tx # None)
      BY DEF MoneyInv, TypeOK, Taken
    <3>2. CASE pay[i].status = "PENDING"
      <4>1. pay'[i] = [pay[i] EXCEPT !.status = "FAILED"] BY <2>1, <3>2
      <4> QED BY <3>1, <4>1 DEF PayRow
    <3>3. CASE pay[i].status # "PENDING" BY <2>1, <3>1, <3>3
    <3> QED BY <3>2, <3>3
  <2>3. pay' \in [Rows -> PayRow] BY <2>1, <2>2
  <2> QED BY <2>2, <2>3 DEF Written
<1>4. Lasting BY <1>1, <1>2, <1>3, WrittenLasts
<1>5. (req \in [Callers -> Local] /\ Carried /\ processed \subseteq Sessions)'
  <2>1. PICK q, z : q = req[r] /\ z = [q EXCEPT !.pc = "money"] OBVIOUS
  <2>2. q \in Local /\ Fit(q) BY <2>1 DEF MoneyInv, TypeOK, Carried
  <2>3. CASE Finish(r, TRUE) BY <1>4, <2>3, FinishKeeps
  <2>4. CASE Go(r, z) /\ UNCHANGED processed
    <3>1. z \in Local /\ z.plan = q.plan /\ z.tx = q.tx /\ z.via = q.via /\ z.event = q.event /\ z.was = q.was
          /\ z.pc = "money"
      BY <2>1, <2>2 DEF Local
    <3>2. Fit(q)' BY <1>4, <2>2, FitLasts
    <3>3. Fit(z)' BY <1>2, <3>1, <3>2 DEF Fit
    <3>4. (req \in [Callers -> Local] /\ Carried)' BY <1>4, <2>4, <3>1, <3>3, OneGoesOn
    <3> QED BY <2>4, <3>4 DEF MoneyInv, TypeOK
  <2> QED BY <2>1, <2>3, <2>4 DEF Cancel
<1> QED BY <1>1, <1>2, <1>3, <1>5, WrittenKeeps

LEMMA CancelMoneyKeeps ==
  ASSUME MoneyInv, NEW r \in Callers, CancelMoney(r)
  PROVE  MoneyInv'
<1>1. UNCHANGED <<appt, pay, intent, session, returned, age, world>> BY DEF CancelMoney
<1>2. Lasting BY <1>1, NothingChanged
<1>3. PICK q, paid : q = req[r] /\ paid = Amount(PaidRows) OBVIOUS
<1>4. q.pc = "money" /\ q \in Local /\ Fit(q) BY <1>3 DEF CancelMoney, MoneyInv, TypeOK, Carried
<1>5. paid \in Nat BY <1>3, AmountType DEF MoneyInv, PaidRows
<1>6. (req \in [Callers -> Local] /\ Carried /\ processed \subseteq Sessions)'
  <2>1. CASE Finish(r, TRUE) BY <1>2, <2>1, FinishKeeps
  <2>2. CASE ~Finish(r, TRUE)
    <3>1. PICK keep \in Keeps(paid) \cup (IF q.via = "staff" THEN {paid} ELSE {}) :
            IF keep = paid THEN Finish(r, TRUE)
            ELSE Go(r, [q EXCEPT !.pc = "read", !.cents = paid - keep]) /\ UNCHANGED processed
      BY <1>3, <2>2 DEF CancelMoney
    <3>2. paid - keep \in Nat
      <4>1. keep \in Nat /\ keep <= paid BY <1>5, <3>1, AmountsAssumption DEF Keeps, Least
      <4> QED BY <1>5, <4>1
    <3>3. PICK z : z = [q EXCEPT !.pc = "read", !.cents = paid - keep] OBVIOUS
    <3>4. Go(r, z) /\ UNCHANGED processed BY <2>2, <3>1, <3>3
    <3>5. z \in Local /\ z.plan = q.plan /\ z.tx = q.tx /\ z.via = q.via /\ z.event = q.event /\ z.was = q.was
          /\ z.pc = "read"
      BY <1>4, <3>2, <3>3 DEF Local
    <3>6. Fit(z) BY <1>4, <3>5 DEF Fit
    <3>7. (req \in [Callers -> Local] /\ Carried)' BY <1>2, <3>4, <3>5, <3>6, FitLasts, OneGoesOn
    <3> QED BY <3>4, <3>7 DEF MoneyInv, TypeOK
  <2> QED BY <2>1, <2>2
<1> QED BY <1>1, <1>6, MoneyStays DEF MoneyInv, TypeOK

LEMMA RemoveKeeps ==
  ASSUME MoneyInv, NEW r \in Callers, Remove(r)
  PROVE  MoneyInv'
<1>1. UNCHANGED <<appt, intent, session, returned, processed, age, world>> BY DEF Remove
<1>2. PICK i : i = req[r].row OBVIOUS
<1>3. pay' = [pay EXCEPT ![i].status = "deleted"] /\ Go(r, Idle) BY <1>2 DEF Remove
<1>4. pay \in [Rows -> PayRow] BY DEF MoneyInv, TypeOK
<1>5. Written
  <2>1. CASE i \in Rows
    <3>1. pay' \in [Rows -> PayRow] /\ pay'[i].tx = pay[i].tx /\ pay'[i].status = "deleted"
          /\ \A j \in Rows : j # i => pay'[j] = pay[j]
      BY <1>3, <1>4, <2>1 DEF PayRow
    <3> QED BY <3>1 DEF Written, MoneyInv, Taken
  <2>2. CASE i \notin Rows
    <3>1. pay' \in [Rows -> PayRow] /\ \A j \in Rows : pay'[j] = pay[j] BY <1>3, <1>4, <2>2
    <3> QED BY <3>1 DEF Written, MoneyInv, Taken
  <2> QED BY <2>1, <2>2
<1>6. Lasting BY <1>1, <1>5, WrittenLasts DEF Let
<1>7. (req \in [Callers -> Local] /\ Carried)' BY <1>3, <1>6, IdleFits, OneGoesOn
<1> QED BY <1>1, <1>5, <1>7, WrittenKeeps DEF MoneyInv, TypeOK, Let

LEMMA SweeperGoesOn ==
  ASSUME MoneyInv, NEW z \in Local, Go(Sweeper, z), z.plan = {}, z.tx = None, z.via # "webhook",
         z.pc \in {"already", "hold", "next", "idle", "cancel"}, z.was = "CANCELLED" => Let,
         UNCHANGED <<appt, pay, intent, session, returned, processed, age, world>>
  PROVE  MoneyInv'
<1>1. Lasting BY NothingChanged
<1>2. Fit(z)' BY BareFits DEF Let
<1>3. Sweeper \in Callers BY DEF Callers
<1>4. (req \in [Callers -> Local] /\ Carried)' BY <1>1, <1>2, <1>3, OneGoesOn
<1> QED BY <1>4, MoneyStays DEF MoneyInv, TypeOK

LEMMA RoundKeeps ==
  ASSUME MoneyInv, Round
  PROVE  MoneyInv'
<1>1. PICK q, now : q = req[Sweeper] /\ now = appt.status OBVIOUS
<1>2. now \in {"CONFIRMED", "ARRIVED", "CANCELLED"} /\ (now = "CANCELLED" => Let)
  BY <1>1, ApptTypes DEF MoneyInv, Let
<1>3. q \in Local /\ Fit(q) BY <1>1 DEF MoneyInv, TypeOK, Carried, Callers
<1>4. CASE BeginSweep
  <2>1. PICK todo : todo = {<<i, PendingHold(i)>> : i \in Swept} OBVIOUS
  <2>2. PICK z : z = [Job("next", "sweep") EXCEPT !.todo = todo] OBVIOUS
  <2>3. Go(Sweeper, z) BY <1>4, <2>1, <2>2 DEF BeginSweep, Begin, Go
  <2>a. \A i \in Swept : i \in Rows /\ PendingHold(i) \in BOOLEAN BY DEF PendingHold, Swept
  <2>4. todo \subseteq Rows \X BOOLEAN BY <2>1, <2>a
  <2>5. PICK j \in Local : j = Job("next", "sweep") /\ j.plan = {} /\ j.tx = None /\ j.pc = "next"
                           /\ j.via = "sweep" /\ j.was = "CONFIRMED"
    BY JobLocal
  <2>6. z \in Local /\ z.plan = {} /\ z.tx = None /\ z.via = "sweep" /\ z.pc = "next" /\ z.was = "CONFIRMED"
    BY <2>2, <2>4, <2>5 DEF Local
  <2>7. UNCHANGED <<appt, pay, intent, session, returned, processed, age, world>> BY <1>4 DEF BeginSweep
  <2> QED BY <2>3, <2>6, <2>7, SweeperGoesOn
<1>5. ASSUME NEW pc \in {"already", "hold"}, TakeRow(pc)
      PROVE  MoneyInv'
  <2> DEFINE T == CHOOSE x \in q.todo : \A y \in q.todo : x[1] <= y[1]
  <2>1. /\ q.pc = "next" /\ q.todo # {}
        /\ Go(Sweeper, [q EXCEPT !.todo = @ \ {T}, !.row = IF T[2] THEN T[1] ELSE None,
                                 !.was = now, !.pc = pc])
        /\ UNCHANGED <<appt, pay, intent, session, returned, processed, age, world>>
    BY <1>1, <1>5 DEF TakeRow
  <2>2. T \in Rows \X BOOLEAN
    <3>1. q.todo \in SUBSET (Rows \X BOOLEAN) BY <1>3 DEF Local
    <3>2. T \in q.todo BY <2>1, <3>1, OldestIn
    <3> QED BY <3>1, <3>2
  <2> HIDE DEF T
  <2>3. PICK row, todo : row = (IF T[2] THEN T[1] ELSE None) /\ todo = q.todo \ {T} OBVIOUS
  <2>4. row \in Rows \cup {None} BY <2>2, <2>3
  <2>5. todo \in SUBSET (Rows \X BOOLEAN) BY <1>3, <2>3 DEF Local
  <2>6. PICK z : z = [q EXCEPT !.todo = todo, !.row = row, !.was = now, !.pc = pc] OBVIOUS
  <2>7. Go(Sweeper, z) BY <2>1, <2>3, <2>6
  <2>8. z \in Local /\ z.plan = q.plan /\ z.tx = q.tx /\ z.via = q.via /\ z.pc = pc /\ z.was = now
    BY <1>2, <1>3, <2>4, <2>5, <2>6 DEF Local
  <2>9. q.plan = {} /\ q.tx = None /\ q.via # "webhook" BY <1>3, <2>1 DEF Fit
  <2> QED BY <1>2, <2>1, <2>7, <2>8, <2>9, SweeperGoesOn
<1>6. CASE SweepEnds
  <2>1. Go(Sweeper, Idle) /\ UNCHANGED <<appt, pay, intent, session, returned, processed, age, world>>
    BY <1>6 DEF SweepEnds
  <2>2. PICK z \in Local : z = Idle /\ z.plan = {} /\ z.tx = None /\ z.pc = "idle" /\ z.via = "nobody"
                           /\ z.was = "CONFIRMED"
    BY JobLocal DEF Idle
  <2> QED BY <2>1, <2>2, SweeperGoesOn
<1>7. CASE ReleaseHold
  <2>1. q.pc = "hold" /\ UNCHANGED <<appt, pay, intent, session, returned, processed, age, world>>
    BY <1>1, <1>7 DEF ReleaseHold
  <2>2. q.plan = {} /\ q.tx = None /\ q.via # "webhook" BY <1>3, <2>1 DEF Fit
  <2>3. PICK pc \in {"cancel", "next"}, was \in {q.was, now} :
          Go(Sweeper, [q EXCEPT !.pc = pc, !.row = None, !.was = was])
    <3>1. CASE Go(Sweeper, [q EXCEPT !.pc = "cancel", !.row = None, !.was = now]) BY <3>1
    <3>2. CASE Go(Sweeper, [q EXCEPT !.pc = "next", !.row = None])
      <4>1. [q EXCEPT !.pc = "next", !.row = None] = [q EXCEPT !.pc = "next", !.row = None, !.was = q.was]
        BY <1>3 DEF Local
      <4> QED BY <3>2, <4>1
    <3> QED BY <1>1, <1>7, <3>1, <3>2 DEF ReleaseHold
  <2>4. PICK z : z = [q EXCEPT !.pc = pc, !.row = None, !.was = was] OBVIOUS
  <2>5. was \in {"CONFIRMED", "ARRIVED", "CANCELLED"} BY <1>2, <1>3 DEF Local
  <2>6. z \in Local /\ z.plan = q.plan /\ z.tx = q.tx /\ z.via = q.via /\ z.pc = pc /\ z.was = was
    BY <1>3, <2>4, <2>5 DEF Local
  <2>7. was = "CANCELLED" => Let BY <1>2, <1>3 DEF Fit
  <2> QED BY <2>1, <2>2, <2>3, <2>4, <2>6, <2>7, SweeperGoesOn
<1> QED BY <1>4, <1>5, <1>6, <1>7 DEF Round, SweepAsks, SweepSkips

LEMMA RestKeeps ==
  ASSUME MoneyInv, GrowOld \/ Arrive \/ Crash
  PROVE  MoneyInv'
<1>1. CASE GrowOld
  <2>1. UNCHANGED <<appt, pay, intent, session, returned, processed, world, req>>
        /\ age' \in {"fresh", "lapsed", "forgotten"}
    BY <1>1 DEF GrowOld
  <2>2. Lasting BY <2>1, NothingChanged
  <2>3. (req \in [Callers -> Local] /\ Carried)' BY <2>1, <2>2, NobodyMoves
  <2> QED BY <2>1, <2>3, MoneyStays DEF MoneyInv, TypeOK
<1>2. CASE Arrive
  <2>1. UNCHANGED <<pay, intent, session, returned, processed, age, world, req>> /\ ~Let BY <1>2 DEF Arrive, Let
  <2>2. appt' \in ApptRow BY <1>2 DEF Arrive, ApptRow, MoneyInv, TypeOK
  <2>3. Written BY <2>1 DEF Written, MoneyInv, TypeOK, Taken
  <2>4. Lasting BY <2>1, <2>3, WrittenLasts
  <2>5. (req \in [Callers -> Local] /\ Carried)' BY <2>1, <2>4, NobodyMoves
  <2> QED BY <2>1, <2>2, <2>3, <2>5, WrittenKeeps DEF MoneyInv, TypeOK
<1>3. CASE Crash
  <2>1. UNCHANGED <<appt, pay, intent, session, returned, processed, age>> /\ world' \subseteq world
        /\ req' = [r \in Callers |-> Idle]
    BY <1>3 DEF Crash
  <2>2. (req \in [Callers -> Local] /\ Carried)' BY <2>1, IdleFits DEF Carried
  <2> QED BY <2>1, <2>2, MoneyStays DEF MoneyInv, TypeOK
<1> QED BY <1>1, <1>2, <1>3

LEMMA MoneyBegins ==
  ASSUME Init
  PROVE  MoneyInv
<1>1. PICK hold \in BOOLEAN, first \in Rows :
        /\ appt = [status |-> "CONFIRMED", hold |-> hold, by |-> "nobody"]
        /\ pay = [i \in Rows |-> IF i = first
                                 THEN [status |-> "PENDING", amount |-> Deposit, hold |-> hold, tx |-> None]
                                 ELSE NoRow]
        /\ intent = [ext |-> None, paid |-> FALSE, tx |-> None]
        /\ session = [s \in Sessions |-> "none"]
        /\ returned = [s \in Sessions |-> 0]
        /\ processed = {} /\ age = "fresh" /\ world \in Worlds
        /\ req = [r \in Callers |-> Idle]
  BY DEF Init
<1>2. Idle \in Local /\ Idle.plan = {} /\ Idle.tx = None /\ Idle.via = "nobody" /\ Idle.pc = "idle"
      /\ Idle.was = "CONFIRMED"
  BY JobLocal DEF Idle
<1>3. Fit(Idle) BY <1>2, FS_EmptySet DEF Fit
<1>4. appt \in ApptRow BY <1>1 DEF ApptRow
<1>5. \A i \in Rows : pay[i] \in PayRow /\ pay[i].tx = None /\ pay[i].status \in {"PENDING", "none"}
  BY <1>1, AmountsAssumption DEF NoRow, PayRow, SessionOrNone
<1>6. pay \in [Rows -> PayRow] BY <1>1, <1>5
<1>7. intent \in IntentRow /\ intent.tx = None BY <1>1 DEF IntentRow, SessionOrNone
<1>8. TypeOK BY <1>1, <1>2, <1>4, <1>6, <1>7 DEF TypeOK
<1>9. Carried BY <1>1, <1>3 DEF Carried
<1>10. Taken BY <1>5, <1>7 DEF Taken
<1>11. OnlyCancelledRefunded BY <1>1 DEF OnlyCancelledRefunded
<1> QED BY <1>8, <1>9, <1>10, <1>11 DEF MoneyInv

LEMMA MoneyStep ==
  ASSUME MoneyInv, [Next]_vars
  PROVE  MoneyInv'
<1>1. CASE UNCHANGED vars
  <2>1. Lasting BY <1>1, NothingChanged DEF vars
  <2>2. (req \in [Callers -> Local] /\ Carried)' BY <1>1, <2>1, NobodyMoves DEF vars
  <2> QED BY <1>1, <2>2, MoneyStays DEF vars, MoneyInv, TypeOK
<1>2. ASSUME NEW s \in Sessions, StartCheckout(s) \/ Pay(s) PROVE MoneyInv' BY <1>2, CheckoutKeeps
<1>3. ASSUME NEW r \in Requests, BeginReturn(r) \/ BeginWebhook(r) \/ BeginCancel(r) \/ BeginRemove(r)
      PROVE  MoneyInv'
  BY <1>3, BeginKeeps, WebhookKeeps DEF Callers
<1>4. ASSUME NEW r \in Callers, Step(r) PROVE MoneyInv'
  BY <1>4, AlreadyKeeps, LookupKeeps, LookupFailsKeeps, OpenRowKeeps, RecordKeeps, ReadPaidKeeps, AskKeeps,
     MarkKeeps, SplitKeeps, DoneKeeps, CancelKeeps, CancelMoneyKeeps, RemoveKeeps DEF Step
<1>5. CASE Round BY <1>5, RoundKeeps
<1>6. CASE GrowOld \/ Arrive \/ Crash BY <1>6, RestKeeps
<1> QED BY <1>1, <1>2, <1>3, <1>4, <1>5, <1>6 DEF Next, Round

LEMMA MoneyAlways == Spec => []MoneyInv
<1>1. Init => MoneyInv BY MoneyBegins
<1>2. MoneyInv /\ [Next]_vars => MoneyInv' BY MoneyStep
<1> QED BY <1>1, <1>2, PTL DEF Spec

\* Every row and every handler keeps its type, whatever the order of the calls.
THEOREM DepositTypeCorrect == Spec => []TypeOK
<1>1. MoneyInv => TypeOK BY DEF MoneyInv
<1> QED BY <1>1, MoneyAlways, PTL

\* settle never trusts the client: a row that says PAID or REFUNDED names a checkout
\* the provider took money for, whichever of the three callers wrote it.  refundPaid is
\* only reached from a cancelled booking: from cancelForTenant after its transaction, or
\* from settle that read it CANCELLED, and nothing takes that back.
THEOREM CauseCorrect == Spec => []NoMoneyWithoutCause
<1>1. MoneyInv => NothingFromNowhere BY DEF MoneyInv, Taken, NothingFromNowhere, Paid
<1>2. MoneyInv => OnlyCancelledRefunded BY DEF MoneyInv
<1>3. MoneyInv => NoMoneyWithoutCause BY <1>1, <1>2 DEF NoMoneyWithoutCause
<1> QED BY <1>3, MoneyAlways, PTL

-----------------------------------------------------------------------------
(* The sweep that alone settles, and people who cancel meanwhile.  Until   *)
(* something is recorded there is only the row the public booking left;    *)
(* from then on that row, the rows a refund in part made of it and what    *)
(* the handlers have in hand balance with what the provider gave back of   *)
(* the one transaction.                                                    *)

First == CHOOSE i \in Rows : \A j \in Rows : i <= j

\* No settling but the sweep's, and nothing that is lost.
Quiet == world \cap {"return", "webhook", "remove", "lost", "crash"} = {}

Refunding == {"read", "ask", "mark", "split"}

\* Where handler r can be.
Place(r, q) ==
  /\ q.plan # {} => q.pc \in {"ask", "mark", "split"}
  /\ r # Sweeper => q.pc \in Refunding \cup {"idle", "cancel", "money"} /\ q.via # "sweep"
  /\ r = Sweeper =>
       /\ q.pc \notin {"split", "remove"}
       /\ q.pc # "idle" => q.via = "sweep"
       /\ q.todo # {} => q.pc = "next" /\ \E b \in BOOLEAN : q.todo = {<<First, b>>}
       /\ q.pc = "record" => q.row = First
       /\ q.pc = "read" => q.cents = Due

Places == \A r \in Callers : Place(r, req[r])

\* Nothing was recorded yet: the row the public booking left is the only one.
Owing ==
  /\ pay[First].status \in {"PENDING", "FAILED"}
  /\ \A i \in Rows \ {First} : pay[i].status = "none"
  /\ \A s \in Sessions : returned[s] = 0
  /\ \A r \in Callers : req[r].pc \notin Refunding

\* What the books call paid, and what they know of transaction s.
Kept == IF pay[First].status = "PAID" THEN pay[First].amount ELSE 0

Known(s) == Amount(RowsOf(s, {"PAID", "REFUNDED"}))

\* That row was filled with transaction s.
Filled(s) ==
  /\ pay[First].status \in {"PAID", "REFUNDED"} /\ pay[First].tx = s
  /\ \A i \in Rows \ {First} : pay[i].status = "none" \/ (pay[i].status = "REFUNDED" /\ pay[i].tx = s)
  /\ \A t \in Sessions \ {s} : returned[t] = 0

\* Handler r gives back what that row has, the sweep all of it.
Own(s, r, q) ==
  /\ \A p \in q.plan : p.row = First /\ p.tx = s /\ q.plan = {p}
  /\ r = Sweeper =>
       /\ q.pc \in {"idle", "next", "read", "ask", "mark"} /\ q.todo = {}
       /\ \A p \in q.plan : p.cents = p.read /\ Kept <= p.read
  /\ r # Sweeper /\ q.pc = "ask" => \A p \in q.plan : Kept \in {p.read, 0}

Marking(r)   == req[r].pc = "mark"
Splitting(r) == req[r].pc = "split"

\* What the provider gave back that the books do not show yet, if any, is one handler's.
GivenBack(s) ==
  /\ (\A r \in Callers : ~Marking(r)) => Kept + returned[s] = Due
  /\ \A r \in Callers : Marking(r) =>
       /\ \A o \in Callers : Marking(o) => o = r
       /\ \A p \in req[r].plan :
            Kept = p.read /\ Kept + returned[s] = Due + p.cents /\ p.cents <= returned[s]

\* So is what a row lost and no row has yet.
WrittenOff(s) ==
  /\ (\A r \in Callers : ~Splitting(r)) => Known(s) = Due
  /\ \A r \in Callers : Splitting(r) => \A p \in req[r].plan : Known(s) + p.cents = Due

Balanced(s) == Filled(s) /\ (\A r \in Callers : Own(s, r, req[r])) /\ GivenBack(s) /\ WrittenOff(s)

Starts == First \in Rows /\ \A i \in Rows : First <= i

Well == Places /\ (Owing \/ \E s \in Sessions : Balanced(s))

Sweeping == Quiet => Well

Loud == world \cap {"return", "webhook", "remove"} = {} => Quiet

SweepInv == Starts /\ Loud /\ Sweeping

\* One person at a time cancels.
OneRequest == \A r, o \in Requests : r = o

\* Of the others, one is at work.
OneAtWork == \A r, o \in Requests : req[r].pc # "idle" /\ req[o].pc # "idle" => r = o

\* No answer is lost and nothing restarts where the sweep alone settles.
SweepWorlds ==
  \A w \in Worlds : w \cap {"return", "webhook", "remove"} = {} => w \cap {"lost", "crash"} = {}

-----------------------------------------------------------------------------
LEMMA AmountTotals == \A S \in SUBSET Rows : IsFiniteSet(S) /\ Amount(S) = Total(Amounts, S)
BY AmountTotal

LEMMA AmountTotalsNext == (\A S \in SUBSET Rows : IsFiniteSet(S) /\ Amount(S) = Total(Amounts, S))'
BY AmountTotals, PTL

LEMMA AmountNone == Amount({}) = 0
<1>1. Amount({}) = Total(Amounts, {}) /\ IsFiniteSet({}) BY AmountTotal
<1> QED BY <1>1, TotalStep

LEMMA AmountAdds ==
  ASSUME TypeOK, NEW S, S \subseteq Rows, NEW c \in S
  PROVE  Amount(S) = pay[c].amount + Amount(S \ {c})
<1>1. \A i \in S : Amounts[i] \in Nat BY DEF Amounts, TypeOK, PayRow
<1>2. IsFiniteSet(S) /\ Amount(S) = Total(Amounts, S) /\ Amount(S \ {c}) = Total(Amounts, S \ {c})
  BY AmountTotal
<1>3. Total(Amounts, S) = Amounts[c] + Total(Amounts, S \ {c}) BY <1>1, <1>2, TotalRemove
<1> QED BY <1>2, <1>3 DEF Amounts

LEMMA AmountOne ==
  ASSUME TypeOK, NEW c \in Rows
  PROVE  Amount({c}) = pay[c].amount
<1>1. Amount({c}) = pay[c].amount + Amount({c} \ {c}) BY AmountAdds
<1>2. {c} \ {c} = {} OBVIOUS
<1>3. pay[c].amount \in Nat BY DEF TypeOK, PayRow
<1> QED BY <1>1, <1>2, <1>3, AmountNone

LEMMA AmountAddsNext ==
  ASSUME TypeOK', NEW S, S \subseteq Rows, NEW c \in S
  PROVE  Amount(S)' = pay'[c].amount + Amount(S \ {c})'
<1>1. \A i \in S : Amounts'[i] \in Nat BY DEF Amounts, TypeOK, PayRow
<1>2. (\A T \in SUBSET Rows : IsFiniteSet(T) /\ Amount(T) = Total(Amounts, T))' BY AmountTotalsNext
<1>3. IsFiniteSet(S) /\ Amount(S)' = Total(Amounts', S) /\ Amount(S \ {c})' = Total(Amounts', S \ {c})
  BY <1>2
<1>4. Total(Amounts', S) = Amounts'[c] + Total(Amounts', S \ {c}) BY <1>1, <1>3, TotalRemove
<1> QED BY <1>3, <1>4 DEF Amounts

LEMMA AmountSame ==
  ASSUME NEW S, S \subseteq Rows, \A i \in S : pay'[i].amount = pay[i].amount
  PROVE  Amount(S)' = Amount(S)
<1>1. (\A T \in SUBSET Rows : IsFiniteSet(T) /\ Amount(T) = Total(Amounts, T))' BY AmountTotalsNext
<1>2. IsFiniteSet(S) /\ Amount(S)' = Total(Amounts', S) /\ Amount(S) = Total(Amounts, S) BY <1>1, AmountTotal
<1>3. \A i \in S : Amounts'[i] = Amounts[i] BY DEF Amounts
<1> QED BY <1>2, <1>3, TotalSame

\* What the books know of a transaction, when one row changes.
LEMMA KnownChanges ==
  ASSUME TypeOK, TypeOK', NEW s, NEW c \in Rows, \A i \in Rows \ {c} : pay'[i] = pay[i],
         NEW S, NEW T, S = RowsOf(s, {"PAID", "REFUNDED"}), T = RowsOf(s, {"PAID", "REFUNDED"})'
  PROVE  /\ Known(s) = Amount(S \ {c}) + (IF c \in S THEN pay[c].amount ELSE 0)
         /\ Known(s)' = Amount(S \ {c}) + (IF c \in T THEN pay'[c].amount ELSE 0)
         /\ Amount(S \ {c}) \in Nat
<1>1. S \subseteq Rows /\ T \subseteq Rows /\ S \ {c} = T \ {c} BY DEF RowsOf
<1>2. Known(s) = Amount(S) /\ Known(s)' = Amount(T)' BY DEF Known
<1>3. Amount(S \ {c}) \in Nat /\ Amount(S \ {c})' = Amount(S \ {c})
  BY <1>1, AmountType, AmountSame
<1>4. pay[c].amount \in Nat /\ pay'[c].amount \in Nat BY DEF TypeOK, PayRow
<1>5. Amount(S) = Amount(S \ {c}) + (IF c \in S THEN pay[c].amount ELSE 0)
  <2>1. CASE c \in S BY <1>1, <1>3, <1>4, <2>1, AmountAdds
  <2>2. CASE c \notin S
    <3>1. S \ {c} = S BY <2>2
    <3> QED BY <1>3, <2>2, <3>1
  <2> QED BY <2>1, <2>2
<1>6. Amount(T)' = Amount(T \ {c})' + (IF c \in T THEN pay'[c].amount ELSE 0)
  <2>0. Amount(T \ {c})' = Amount(S \ {c}) BY <1>1, <1>3
  <2>1. CASE c \in T
    <3>1. Amount(T)' = pay'[c].amount + Amount(T \ {c})' BY <1>1, <2>1, AmountAddsNext
    <3> QED BY <1>3, <1>4, <2>0, <2>1, <3>1
  <2>2. CASE c \notin T
    <3>1. T \ {c} = T BY <2>2
    <3>2. Amount(T)' = Total(Amounts', T) /\ Amount(T \ {c})' = Total(Amounts', T \ {c})
      BY <1>1, AmountTotalsNext
    <3>3. Amount(T)' = Amount(T \ {c})' BY <3>1, <3>2
    <3> QED BY <1>3, <2>0, <2>2, <3>3
  <2> QED BY <2>1, <2>2
<1>7. Amount(T \ {c})' = Amount(S \ {c}) BY <1>1, <1>3
<1> QED BY <1>2, <1>3, <1>5, <1>6, <1>7

-----------------------------------------------------------------------------
(* How a handler that goes on leaves the others. *)

LEMMA Others ==
  ASSUME TypeOK, NEW r \in Callers, NEW z, Go(r, z)
  PROVE  req'[r] = z /\ \A o \in Callers : o # r => req'[o] = req[o]
BY DEF Go, TypeOK

LEMMA PlacesGo ==
  ASSUME TypeOK, Places, NEW r \in Callers, NEW z, Place(r, z), Go(r, z)
  PROVE  Places'
<1>1. \A o \in Callers : Place(o, req[o]) BY DEF Places
<1>2. \A o \in Callers : Place(o, req'[o]) BY <1>1, Others
<1> QED BY <1>2 DEF Places, Place, First

LEMMA PlacesStay ==
  ASSUME Places, UNCHANGED req
  PROVE  Places'
BY DEF Places, Place, First

LEMMA OwingGoes ==
  ASSUME TypeOK, Owing, NEW r \in Callers, NEW z, z.pc \notin Refunding, Go(r, z), UNCHANGED returned,
         pay'[First].status \in {"PENDING", "FAILED"}, \A i \in Rows \ {First} : pay'[i].status = "none"
  PROVE  Owing'
<1>1. \A o \in Callers : req'[o].pc \notin Refunding BY Others DEF Owing
<1> QED BY <1>1 DEF Owing, First, Refunding

LEMMA BooksSame ==
  ASSUME UNCHANGED pay, NEW s
  PROVE  Kept' = Kept /\ Known(s)' = Known(s)
<1>1. PICK S, T : S = RowsOf(s, {"PAID", "REFUNDED"}) /\ T = RowsOf(s, {"PAID", "REFUNDED"})' OBVIOUS
<1>2. S = T /\ S \subseteq Rows BY <1>1 DEF RowsOf
<1>3. Known(s) = Amount(S) /\ Known(s)' = Amount(T)' BY <1>1 DEF Known
<1>4. Amount(T)' = Amount(T) BY <1>2, AmountSame
<1>5. Kept' = Kept BY DEF Kept, First
<1> QED BY <1>2, <1>3, <1>4, <1>5

\* A handler that was not marking or splitting a row and does not begin to.
LEMMA BalancedGoes ==
  ASSUME TypeOK, NEW s, Balanced(s), NEW r \in Callers, NEW z, Go(r, z), UNCHANGED returned,
         UNCHANGED pay, req[r].pc \notin {"mark", "split"}, z.pc \notin {"mark", "split"}, Own(s, r, z)
  PROVE  Balanced(s)'
<1>1. Filled(s)' BY DEF Balanced, Filled, First
<1>2. Kept' = Kept /\ Known(s)' = Known(s) BY BooksSame
<1>3. ASSUME NEW o \in Callers PROVE Own(s, o, req[o])'
  <2>1. Own(s, o, req'[o]) BY Others DEF Balanced
  <2> QED BY <1>2, <2>1 DEF Own, First
<1>4. \A o \in Callers : /\ Marking(o)' <=> Marking(o)
                         /\ Splitting(o)' <=> Splitting(o)
                         /\ Marking(o) \/ Splitting(o) => req'[o] = req[o]
  BY Others DEF Marking, Splitting
<1>5. GivenBack(s)'
  <2>1. (\A o \in Callers : ~Marking(o)') => Kept' + returned'[s] = Due
    BY <1>2, <1>4 DEF Balanced, GivenBack
  <2>2. ASSUME NEW o \in Callers, Marking(o)'
        PROVE  /\ \A c \in Callers : Marking(c)' => c = o
               /\ \A p \in req'[o].plan :
                    Kept' = p.read /\ Kept' + returned'[s] = Due + p.cents /\ p.cents <= returned'[s]
    BY <1>2, <1>4, <2>2 DEF Balanced, GivenBack
  <2> QED BY <2>1, <2>2 DEF GivenBack
<1>6. WrittenOff(s)'
  <2>1. (\A o \in Callers : ~Splitting(o)') => Known(s)' = Due
    BY <1>2, <1>4 DEF Balanced, WrittenOff
  <2>2. ASSUME NEW o \in Callers, Splitting(o)'
        PROVE  \A p \in req'[o].plan : Known(s)' + p.cents = Due
    BY <1>2, <1>4, <2>2 DEF Balanced, WrittenOff
  <2> QED BY <2>1, <2>2 DEF WrittenOff
<1> QED BY <1>1, <1>3, <1>5, <1>6 DEF Balanced

LEMMA AllStays ==
  ASSUME Well, UNCHANGED <<pay, returned, req>>
  PROVE  Well'
<1> USE DEF Well
<1>1. Places' BY PlacesStay
<1>2. Owing => Owing' BY DEF Owing, First, Refunding
<1>3. ASSUME NEW s \in Sessions, Balanced(s) PROVE Balanced(s)'
  <2>1. Kept' = Kept /\ Known(s)' = Known(s) BY BooksSame
  <2>2. Filled(s)' BY <1>3 DEF Balanced, Filled, First
  <2>3. \A r \in Callers : Own(s, r, req[r])' BY <1>3, <2>1 DEF Balanced, Own, First
  <2>4. GivenBack(s)' BY <1>3, <2>1 DEF Balanced, GivenBack, Marking
  <2>5. WrittenOff(s)' BY <1>3, <2>1 DEF Balanced, WrittenOff, Splitting
  <2> QED BY <2>2, <2>3, <2>4, <2>5 DEF Balanced
<1> QED BY <1>1, <1>2, <1>3

\* How settle ends, for the sweep and for the others.
LEMMA FinishAs ==
  ASSUME MoneyInv, Places, NEW r \in Callers, NEW settled \in BOOLEAN, Finish(r, settled), req[r].pc # "idle",
         req[r].todo = {} \/ r # Sweeper
  PROVE  \E z : /\ Go(r, z) /\ Place(r, z) /\ z.plan = {} /\ z.pc \in {"idle", "next", "hold"}
                /\ r # Sweeper => z = Idle
                /\ r = Sweeper => /\ z.todo = {} /\ z.was = req[r].was
                                  /\ z.pc = IF settled THEN "next" ELSE "hold"
<1>1. Place(r, req[r]) /\ req[r] \in Local BY DEF MoneyInv, TypeOK, Places
<1>2. CASE r # Sweeper
  <2>1. Go(r, Idle) BY <1>1, <1>2 DEF Finish, Place
  <2>2. Idle.plan = {} /\ Idle.pc = "idle" /\ Idle.via = "nobody" BY JobLocal DEF Idle
  <2>3. Place(r, Idle) BY <1>2, <2>2 DEF Place
  <2> QED BY <1>2, <2>1, <2>2, <2>3
<1>3. CASE r = Sweeper
  <2> DEFINE Z == [req[r] EXCEPT !.pc = IF settled THEN "next" ELSE "hold", !.tx = None, !.cents = 0, !.plan = {}]
  <2>0. PICK pc \in {"next", "hold"} : pc = IF settled THEN "next" ELSE "hold"
    <3>1. CASE settled BY <3>1
    <3>2. CASE ~settled BY <3>2
    <3> QED BY <3>1, <3>2
  <2>1. PICK z : z = Z OBVIOUS
  <2>2. Go(r, z) /\ req[r].via = "sweep" BY <1>1, <1>3, <2>1 DEF Finish, Place
  <2>3. z = [req[r] EXCEPT !.pc = pc, !.tx = None, !.cents = 0, !.plan = {}] BY <2>0, <2>1
  <2> HIDE DEF Z
  <2>4. z.plan = {} /\ z.pc = pc /\ z.via = req[r].via /\ z.todo = req[r].todo /\ z.was = req[r].was
    BY <1>1, <2>3 DEF Local
  <2>5. Place(r, z) BY <1>3, <2>2, <2>4 DEF Place
  <2> QED BY <1>3, <2>0, <2>2, <2>4, <2>5
<1> QED BY <1>2, <1>3

-----------------------------------------------------------------------------
(* The steps. *)

\* A handler goes on, and no row or refund changes.
LEMMA WellGoes ==
  ASSUME MoneyInv, Well, NEW r \in Callers, NEW z, Go(r, z), Place(r, z), UNCHANGED <<pay, returned>>,
         req[r].pc \notin {"mark", "split"}, z.pc \notin {"mark", "split"},
         Owing => z.pc \notin Refunding, \A s \in Sessions : Balanced(s) => Own(s, r, z)
  PROVE  Well'
<1>1. Places' BY PlacesGo DEF Well, MoneyInv
<1>2. CASE Owing
  <2>1. Owing' BY <1>2, OwingGoes DEF Owing, MoneyInv
  <2> QED BY <1>1, <2>1 DEF Well
<1>3. ASSUME NEW s \in Sessions, Balanced(s) PROVE Balanced(s)'
  BY <1>3, BalancedGoes DEF MoneyInv
<1> QED BY <1>1, <1>2, <1>3 DEF Well

\* It is done with settle.
LEMMA WellEnds ==
  ASSUME MoneyInv, Well, NEW r \in Callers, NEW settled \in BOOLEAN, Finish(r, settled), req[r].pc # "idle",
         req[r].todo = {} \/ r # Sweeper, UNCHANGED <<pay, returned>>,
         req[r].pc \notin {"mark", "split"}, settled \/ Owing
  PROVE  Well'
<1>1. PICK z : /\ Go(r, z) /\ Place(r, z) /\ z.plan = {} /\ z.pc \in {"idle", "next", "hold"}
               /\ r # Sweeper => z = Idle
               /\ r = Sweeper => /\ z.todo = {} /\ z.was = req[r].was
                                 /\ z.pc = IF settled THEN "next" ELSE "hold"
  BY FinishAs DEF Well
<1>2. z.pc \notin Refunding BY <1>1 DEF Refunding
<1>3. CASE Owing
  <2>1. Places' BY <1>1, PlacesGo DEF Well, MoneyInv
  <2>2. Owing' BY <1>1, <1>2, <1>3, OwingGoes DEF Owing, MoneyInv
  <2> QED BY <2>1, <2>2 DEF Well
<1>4. CASE ~Owing
  <2>1. ASSUME NEW s \in Sessions PROVE Own(s, r, z) BY <1>1, <1>4 DEF Own
  <2> QED BY <1>1, <1>4, <2>1, WellGoes
<1> QED BY <1>3, <1>4

\* What the books call paid, added up.
LEMMA PaidTotal ==
  ASSUME MoneyInv, Starts
  PROVE  /\ Owing => PaidRows = {}
         /\ \A s \in Sessions : Balanced(s) => PaidRows = IF pay[First].status = "PAID" THEN {First} ELSE {}
         /\ Well => Amount(PaidRows) = Kept /\ Kept \in Nat
<1>1. Owing => PaidRows = {} BY DEF Owing, PaidRows, Starts
<1>2. ASSUME NEW s \in Sessions, Balanced(s)
      PROVE  PaidRows = IF pay[First].status = "PAID" THEN {First} ELSE {}
  BY <1>2 DEF Balanced, Filled, PaidRows, Starts
<1>3. ASSUME Well PROVE Amount(PaidRows) = Kept /\ Kept \in Nat
  <2>1. pay[First].amount \in Nat BY DEF MoneyInv, TypeOK, PayRow, Starts
  <2>2. CASE pay[First].status = "PAID"
    <3>1. PaidRows = {First} BY <1>2, <1>3, <2>2 DEF Well, Owing
    <3> QED BY <2>1, <2>2, <3>1, AmountOne DEF Kept, MoneyInv, Starts
  <2>3. CASE pay[First].status # "PAID"
    <3>1. PaidRows = {} BY <1>1, <1>2, <1>3, <2>3 DEF Well
    <3> QED BY <2>3, <3>1, AmountNone DEF Kept
  <2> QED BY <2>2, <2>3
<1> QED BY <1>1, <1>2, <1>3

LEMMA WellBeginCancel ==
  ASSUME MoneyInv, Well, NEW r \in Requests, BeginCancel(r)
  PROVE  Well'
<1>1. PICK via \in {"staff", "customer"} : Begin(r, [Job("cancel", via) EXCEPT !.was = appt.status])
  BY DEF BeginCancel
<1>2. UNCHANGED <<pay, returned>> BY DEF BeginCancel
<1>3. PICK j \in Local : j = Job("cancel", via) /\ j.plan = {} /\ j.pc = "cancel" /\ j.via = via
  BY JobLocal
<1>4. PICK z : z = [j EXCEPT !.was = appt.status] OBVIOUS
<1>5. z.plan = {} /\ z.pc = "cancel" /\ z.via = via BY <1>3, <1>4 DEF Local
<1>6. Go(r, z) /\ req[r] = Idle BY <1>1, <1>3, <1>4 DEF Begin, Go
<1>7. req[r].pc = "idle" BY <1>6, JobLocal DEF Idle
<1>8. r # Sweeper /\ r \in Callers BY SweeperAssumption DEF Callers
<1>9. Place(r, z) /\ \A s \in Sessions : Own(s, r, z) BY <1>5, <1>8 DEF Place, Own
<1> QED BY <1>2, <1>5, <1>6, <1>7, <1>8, <1>9, WellGoes DEF Refunding

\* Only the sweep settles, and only while nothing is recorded.
LEMMA OnlySweepSettles ==
  ASSUME MoneyInv, Well, NEW r \in Callers, req[r].pc \in {"already", "lookup", "open", "record", "hold"}
  PROVE  r = Sweeper /\ Owing /\ req[r].todo = {} /\ req[r].via = "sweep" /\ req[r].plan = {}
<1>1. Place(r, req[r]) BY DEF Well, Places
<1>2. r = Sweeper BY <1>1 DEF Place, Refunding
<1>3. \A s \in Sessions : ~Balanced(s) BY <1>2 DEF Balanced, Own
<1> QED BY <1>1, <1>2, <1>3 DEF Well, Place

LEMMA WellAlready ==
  ASSUME MoneyInv, Starts, Well, NEW r \in Callers, Already(r)
  PROVE  Well'
<1>1. req[r].pc = "already" /\ UNCHANGED <<pay, returned>> BY DEF Already
<1>2. r = Sweeper /\ Owing /\ req[r].todo = {} /\ req[r].via = "sweep" /\ req[r].plan = {}
  BY <1>1, OnlySweepSettles
<1>3. ~Recorded BY <1>2, PaidTotal DEF Recorded
<1>4. PICK q, z : q = req[r] /\ z = [q EXCEPT !.pc = "lookup"] OBVIOUS
<1>5. Go(r, z) BY <1>3, <1>4 DEF Already
<1>6. z.pc = "lookup" /\ z.todo = {} /\ z.via = "sweep" /\ z.plan = {}
  BY <1>2, <1>4 DEF MoneyInv, TypeOK, Local
<1>7. Place(r, z) BY <1>2, <1>6 DEF Place
<1>8. \A s \in Sessions : ~Balanced(s) BY <1>1, <1>2 DEF Balanced, Own
<1> QED BY <1>1, <1>5, <1>6, <1>7, <1>8, WellGoes DEF Refunding

LEMMA WellLookup ==
  ASSUME MoneyInv, Starts, Well, NEW r \in Callers, Lookup(r)
  PROVE  Well'
<1>1. req[r].pc = "lookup" /\ UNCHANGED <<pay, returned>> BY DEF Lookup
<1>2. r = Sweeper /\ Owing /\ req[r].todo = {} /\ req[r].via = "sweep" /\ req[r].plan = {}
  BY <1>1, OnlySweepSettles
<1>3. CASE Finish(r, FALSE) BY <1>1, <1>2, <1>3, WellEnds
<1>4. CASE ~Finish(r, FALSE)
  <2>1. PICK q, z, s : q = req[r] /\ s = Approved /\ z = [q EXCEPT !.pc = "open", !.tx = s] OBVIOUS
  <2>2. Go(r, z) BY <1>4, <2>1 DEF Lookup
  <2>3. z.pc = "open" /\ z.todo = {} /\ z.via = "sweep" /\ z.plan = {}
    BY <1>2, <2>1 DEF MoneyInv, TypeOK, Local
  <2>4. Place(r, z) BY <1>2, <2>3 DEF Place
  <2>5. \A t \in Sessions : ~Balanced(t) BY <1>1, <1>2 DEF Balanced, Own
  <2> QED BY <1>1, <2>2, <2>3, <2>4, <2>5, WellGoes DEF Refunding
<1> QED BY <1>3, <1>4

LEMMA WellOpenRow ==
  ASSUME MoneyInv, Starts, Well, NEW r \in Callers, OpenRow(r)
  PROVE  Well'
<1> DEFINE Latest == CHOOSE i \in OpenRows : \A j \in OpenRows : j <= i
<1>1. req[r].pc = "open" /\ UNCHANGED <<pay, returned>>
      /\ Go(r, [req[r] EXCEPT !.pc = "record", !.row = IF OpenRows = {} THEN None ELSE Latest])
  BY DEF OpenRow
<1>2. r = Sweeper /\ Owing /\ req[r].todo = {} /\ req[r].via = "sweep" /\ req[r].plan = {}
  BY <1>1, OnlySweepSettles
<1>3. OpenRows = {First} BY <1>2 DEF Owing, OpenRows, Starts
<1>4. OpenRows # {} /\ Latest = First BY <1>3, LatestIn
<1> HIDE DEF Latest
<1>5. PICK q, z : q = req[r] /\ z = [q EXCEPT !.pc = "record", !.row = First] OBVIOUS
<1>6. Go(r, z) BY <1>1, <1>4, <1>5
<1>7. z.pc = "record" /\ z.todo = {} /\ z.via = "sweep" /\ z.plan = {} /\ z.row = First
  BY <1>2, <1>5 DEF MoneyInv, TypeOK, Local
<1>8. Place(r, z) BY <1>2, <1>7 DEF Place
<1>9. \A t \in Sessions : ~Balanced(t) BY <1>1, <1>2 DEF Balanced, Own
<1> QED BY <1>1, <1>6, <1>7, <1>8, <1>9, WellGoes DEF Refunding

LEMMA DueType == Due \in Nat /\ Due > 0
BY AmountsAssumption DEF Due

LEMMA WellRecord ==
  ASSUME MoneyInv, MoneyInv', Starts, Well, NEW r \in Callers, Record(r)
  PROVE  Well'
<1>1. req[r].pc = "record" /\ UNCHANGED <<returned, session>> BY DEF Record
<1>2. r = Sweeper /\ Owing /\ req[r].todo = {} /\ req[r].via = "sweep" /\ req[r].plan = {}
  BY <1>1, OnlySweepSettles
<1>3. PICK q, s : q = req[r] /\ s = q.tx OBVIOUS
<1>4. q \in Local /\ Fit(q) /\ Place(r, q) BY <1>3 DEF MoneyInv, TypeOK, Carried, Well, Places
<1>5. s \in Sessions BY <1>1, <1>3, <1>4 DEF Fit, Local, SessionOrNone
<1>6. q.row = First /\ First # None /\ pay[First].status # "deleted"
  BY <1>1, <1>2, <1>3, <1>4, RowsAssumption DEF Place, Starts, Owing, None
<1>7. /\ pay' = [pay EXCEPT ![First] = PaidWith(s)]
      /\ \/ Late(q) /\ Go(r, [q EXCEPT !.pc = "read", !.row = None, !.cents = Due])
         \/ Finish(r, TRUE)
  BY <1>3, <1>6 DEF Record
<1>8. PICK z : /\ Go(r, z) /\ Place(r, z) /\ z.plan = {} /\ z.todo = {} /\ z.pc \in {"read", "next"}
  <2>1. CASE Finish(r, TRUE)
    BY <1>1, <1>2, <2>1, FinishAs DEF Well
  <2>2. CASE Go(r, [q EXCEPT !.pc = "read", !.row = None, !.cents = Due])
    <3>1. PICK z : z = [q EXCEPT !.pc = "read", !.row = None, !.cents = Due] OBVIOUS
    <3>2. z.pc = "read" /\ z.todo = {} /\ z.via = "sweep" /\ z.plan = {} /\ z.cents = Due
      BY <1>2, <1>3, <1>4, <3>1 DEF Local
    <3>3. Place(r, z) BY <1>2, <3>2 DEF Place
    <3> QED BY <2>2, <3>1, <3>2, <3>3
  <2> QED BY <1>7, <2>1, <2>2
<1>9. Places' BY <1>8, PlacesGo DEF Well, MoneyInv
<1>10. /\ pay'[First] = PaidWith(s) /\ \A i \in Rows \ {First} : pay'[i] = pay[i]
       /\ PaidWith(s).status = "PAID" /\ PaidWith(s).tx = s /\ PaidWith(s).amount = Due
  BY <1>7 DEF MoneyInv, TypeOK, Starts, PaidWith
<1>11. Filled(s)' BY <1>1, <1>2, <1>10 DEF Filled, Owing, First
<1>12. Kept' = Due BY <1>10 DEF Kept, First
<1>13. Known(s)' = Due
  <2>1. PICK S, T : S = RowsOf(s, {"PAID", "REFUNDED"}) /\ T = RowsOf(s, {"PAID", "REFUNDED"})' OBVIOUS
  <2>2. S = {} /\ First \in T BY <1>2, <1>10, <2>1 DEF RowsOf, Owing, Starts
  <2>3. Known(s)' = Amount(S \ {First}) + Due
    BY <1>10, <2>1, <2>2, KnownChanges DEF MoneyInv, Starts
  <2>4. S \ {First} = {} BY <2>2
  <2> QED BY <2>3, <2>4, AmountNone, DueType
<1>14. \A o \in Callers : req'[o].plan = {} /\ req'[o].pc \notin {"ask", "mark", "split"}
  <2> SUFFICES ASSUME NEW o \in Callers PROVE req'[o].plan = {} /\ req'[o].pc \notin {"ask", "mark", "split"}
    OBVIOUS
  <2>1. CASE o = r BY <1>8, <2>1, Others DEF MoneyInv
  <2>2. CASE o # r
    <3>1. req'[o] = req[o] BY <1>8, <2>2, Others DEF MoneyInv
    <3>2. req[o].pc \notin Refunding /\ Place(o, req[o]) BY <1>2 DEF Owing, Well, Places
    <3> QED BY <3>1, <3>2 DEF Refunding, Place
  <2> QED BY <2>1, <2>2
<1>15. \A o \in Callers : Own(s, o, req[o])'
  <2>1. req'[Sweeper] = z /\ z.pc \in {"idle", "next", "read", "ask", "mark"}
    BY <1>2, <1>8, Others DEF MoneyInv
  <2> QED BY <1>8, <1>14, <2>1 DEF Own
<1>16. returned'[s] = 0 BY <1>1, <1>2, <1>5 DEF Owing
<1>17. GivenBack(s)' BY <1>12, <1>14, <1>16, DueType DEF GivenBack, Marking
<1>18. WrittenOff(s)' BY <1>13, <1>14 DEF WrittenOff, Splitting
<1> QED BY <1>5, <1>9, <1>11, <1>15, <1>17, <1>18 DEF Well, Balanced

\* A handler that refunds has a transaction to refund, and one part of it in hand.
LEMMA Refunds ==
  ASSUME MoneyInv, Starts, Well, NEW r \in Callers, req[r].pc \in Refunding
  PROVE  \E s \in Sessions : /\ Balanced(s) /\ (req[r].todo = {} \/ r # Sweeper)
                             /\ \A t \in Sessions : Balanced(t) => t = s
<1>1. PICK s \in Sessions : Balanced(s) BY DEF Well, Owing
<1>2. \A t \in Sessions : Balanced(t) => t = s BY <1>1 DEF Balanced, Filled
<1>3. req[r].todo = {} \/ r # Sweeper BY <1>1 DEF Balanced, Own
<1> QED BY <1>1, <1>2, <1>3

LEMMA InHand ==
  ASSUME MoneyInv, Starts, NEW s \in Sessions, Balanced(s), NEW r \in Callers, req[r].plan # {}
  PROVE  \E p \in Part :
           /\ p = Largest(req[r].plan) /\ req[r].plan = {p} /\ p.row = First /\ p.tx = s
           /\ p.cents \in Nat /\ p.read \in Nat /\ p.cents > 0 /\ p.cents <= p.read
<1>1. PICK p : p = Largest(req[r].plan) OBVIOUS
<1>2. p \in req[r].plan /\ Sound(p) BY <1>1, NextPart
<1>3. p.row = First /\ p.tx = s /\ req[r].plan = {p} BY <1>2 DEF Balanced, Own
<1> QED BY <1>1, <1>2, <1>3 DEF Sound, Part

LEMMA Nats ==
  ASSUME MoneyInv, Starts, NEW s \in Sessions
  PROVE  Kept \in Nat /\ returned[s] \in Nat
BY DEF MoneyInv, TypeOK, PayRow, Starts, Kept

LEMMA WellReadPaid ==
  ASSUME MoneyInv, Starts, Well, NEW r \in Callers, ReadPaid(r)
  PROVE  Well'
<1>1. req[r].pc = "read" /\ UNCHANGED <<pay, returned>> BY DEF ReadPaid
<1>2. PICK s \in Sessions : /\ Balanced(s) /\ (req[r].todo = {} \/ r # Sweeper)
                            /\ \A t \in Sessions : Balanced(t) => t = s
  BY <1>1, Refunds DEF Refunding
<1>3. PICK q, plan, z : /\ q = req[r] /\ plan = Plan(PaidRows, q.cents)
                        /\ z = [q EXCEPT !.pc = "ask", !.plan = plan]
  OBVIOUS
<1>4. Go(r, z) BY <1>3 DEF ReadPaid
<1>5. q \in Local /\ Place(r, q) BY <1>3 DEF MoneyInv, TypeOK, Well, Places
<1>6. z.pc = "ask" /\ z.plan = plan /\ z.via = q.via /\ z.todo = q.todo
  BY <1>3, <1>5 DEF Local
<1>7. Place(r, z) BY <1>1, <1>3, <1>5, <1>6 DEF Place, Refunding
<1>8. q.cents \in Nat BY <1>5 DEF Local
<1>9. /\ \A p \in plan : /\ Sound(p) /\ pay[p.row].status = "PAID" /\ p.read = pay[p.row].amount
                         /\ p.tx = pay[p.row].tx /\ p.cents = Share(PaidRows, q.cents, p.row)
      /\ \A p, o \in plan : p.row = o.row => p = o
  BY <1>3, <1>8, PlanSound DEF MoneyInv
<1>10. \A p \in plan : p.row = First /\ p.tx = s /\ p.read = Kept
  <2> SUFFICES ASSUME NEW p \in plan PROVE p.row = First /\ p.tx = s /\ p.read = Kept OBVIOUS
  <2>1. p.row \in Rows /\ pay[p.row].status = "PAID" BY <1>9 DEF Sound, Part
  <2>2. p.row = First BY <1>2, <2>1 DEF Balanced, Filled
  <2> QED BY <1>2, <1>9, <2>1, <2>2 DEF Balanced, Filled, Kept
<1>11. \A p \in plan : plan = {p} BY <1>9, <1>10
<1>12. ASSUME r = Sweeper, NEW p \in plan PROVE p.cents = p.read
  <2>1. q.cents = Due BY <1>1, <1>3, <1>5, <1>12 DEF Place
  <2>2. PaidRows = {First} /\ pay[First].status = "PAID" BY <1>2, <1>9, <1>10, <1>12, PaidTotal
  <2>3. pay[First].amount \in Nat BY DEF MoneyInv, TypeOK, PayRow, Starts
  <2>4. Before({First}, First) = {} BY <2>3, RowsAssumption DEF Before, Starts
  <2>5. Share({First}, Due, First) = IF Due <= 0 THEN 0 ELSE Least(Due, pay[First].amount)
    <3>1. PICK n : n = Amount(Before({First}, First)) OBVIOUS
    <3>2. n = 0 BY <2>4, <3>1, AmountNone
    <3>3. Share({First}, Due, First) = IF Due - n <= 0 THEN 0 ELSE Least(Due - n, pay[First].amount)
      BY <3>1 DEF Share
    <3>4. Due - n = Due BY <3>2, DueType
    <3> QED BY <3>3, <3>4
  <2>6. pay[First].amount <= Due
    <3>1. Kept = pay[First].amount BY <2>2 DEF Kept
    <3>2. returned[s] \in Nat BY Nats
    <3>3. CASE \A o \in Callers : ~Marking(o) BY <1>2, <2>3, <3>1, <3>2, <3>3, DueType DEF Balanced, GivenBack
    <3>4. ASSUME NEW o \in Callers, Marking(o) PROVE pay[First].amount <= Due
      <4>1. req[o].plan # {} BY <3>4 DEF MoneyInv, Carried, Fit, Marking
      <4>2. PICK x \in Part : req[o].plan = {x} /\ x.cents \in Nat BY <1>2, <4>1, InHand
      <4>3. Kept + returned[s] = Due + x.cents /\ x.cents <= returned[s]
        BY <1>2, <3>4, <4>2 DEF Balanced, GivenBack
      <4> QED BY <2>3, <3>1, <3>2, <4>2, <4>3, DueType
    <3> QED BY <3>3, <3>4
  <2>7. p.cents = Share({First}, Due, First) /\ p.read = pay[First].amount
    BY <1>9, <1>10, <1>12, <2>1, <2>2
  <2> QED BY <2>3, <2>5, <2>6, <2>7, DueType DEF Least
<1>13. Own(s, r, z)
  <2>1. Kept \in Nat BY Nats
  <2> QED BY <1>2, <1>3, <1>6, <1>10, <1>11, <1>12, <2>1 DEF Own
<1>14. \A t \in Sessions : Balanced(t) => Own(t, r, z) BY <1>2, <1>13
<1>15. ~Owing BY <1>1 DEF Owing, Refunding
<1> QED BY <1>1, <1>4, <1>6, <1>7, <1>14, <1>15, WellGoes

LEMMA WellRefundDone ==
  ASSUME MoneyInv, Starts, Well, NEW r \in Callers, RefundDone(r)
  PROVE  Well'
<1>1. req[r].pc = "ask" /\ UNCHANGED <<pay, returned>> /\ Finish(r, TRUE) BY DEF RefundDone
<1>2. req[r].todo = {} \/ r # Sweeper BY <1>1, Refunds DEF Refunding
<1> QED BY <1>1, <1>2, WellEnds

\* No handler but one has given back what its row does not show.
LEMMA OneGives ==
  ASSUME MoneyInv, Starts, OneAtWork, NEW s \in Sessions, Balanced(s), NEW r \in Callers,
         NEW p, req[r].plan = {p}, p \in Part, p.cents > 0, returned[s] + p.cents <= Due, req[r].pc = "ask"
  PROVE  \A o \in Callers : ~Marking(o)
<1> SUFFICES ASSUME NEW o \in Callers, Marking(o) PROVE FALSE OBVIOUS
<1>1. req[o].plan # {} BY DEF MoneyInv, Carried, Fit, Marking
<1>2. PICK x \in Part : req[o].plan = {x} /\ x.cents \in Nat /\ x.read \in Nat /\ x.cents > 0 /\ x.cents <= x.read
  BY <1>1, InHand
<1>3. Kept = x.read /\ Kept + returned[s] = Due + x.cents BY <1>2 DEF Balanced, GivenBack
<1>4. Kept \in Nat /\ returned[s] \in Nat BY Nats
<1>5. p.cents \in Nat /\ p.read \in Nat BY DEF Part
<1>6. o # r BY DEF Marking
<1>7. CASE o = Sweeper
  <2>1. x.cents = x.read BY <1>2, <1>7 DEF Balanced, Own
  <2> QED BY <1>2, <1>3, <1>4, <1>5, <2>1, DueType
<1>8. CASE r = Sweeper
  <2>1. p.cents = p.read /\ Kept <= p.read BY <1>8 DEF Balanced, Own
  <2> QED BY <1>2, <1>3, <1>4, <1>5, <2>1, DueType
<1> QED BY <1>6, <1>7, <1>8 DEF OneAtWork, Callers, Marking

LEMMA WellAsk ==
  ASSUME MoneyInv, MoneyInv', Starts, Well, Quiet, OneAtWork, NEW r \in Callers, AskProvider(r)
  PROVE  Well'
<1>1. req[r].pc = "ask" /\ req[r].plan # {} /\ UNCHANGED <<appt, pay>> BY DEF AskProvider
<1>2. PICK s \in Sessions : /\ Balanced(s) /\ (req[r].todo = {} \/ r # Sweeper)
                            /\ \A t \in Sessions : Balanced(t) => t = s
  BY <1>1, Refunds DEF Refunding
<1>3. PICK p \in Part :
        /\ p = Largest(req[r].plan) /\ req[r].plan = {p} /\ p.row = First /\ p.tx = s
        /\ p.cents \in Nat /\ p.read \in Nat /\ p.cents > 0 /\ p.cents <= p.read
  BY <1>1, <1>2, InHand
<1>4. PICK q : q = req[r] OBVIOUS
<1>5. q \in Local /\ Place(r, q) /\ Own(s, r, q) BY <1>2, <1>4 DEF MoneyInv, TypeOK, Well, Places, Balanced
<1>6. "lost" \notin world BY DEF Quiet
<1>7. \/ Go(r, [q EXCEPT !.plan = @ \ {p}]) /\ UNCHANGED returned
      \/ /\ returned[s] + p.cents <= Due /\ returned' = [returned EXCEPT ![s] = @ + p.cents]
         /\ Go(r, [q EXCEPT !.pc = "mark"])
  BY <1>3, <1>4, <1>6 DEF AskProvider, Gives
<1>8. ~Owing BY <1>1 DEF Owing, Refunding
<1>9. CASE Go(r, [q EXCEPT !.plan = @ \ {p}]) /\ UNCHANGED returned
  <2>1. PICK z : z = [q EXCEPT !.plan = @ \ {p}] OBVIOUS
  <2>2. z.plan = {} /\ z.pc = "ask" /\ z.via = q.via /\ z.todo = q.todo
    BY <1>1, <1>3, <1>4, <1>5, <2>1 DEF Local
  <2>3. Place(r, z) BY <1>1, <1>4, <1>5, <2>2 DEF Place
  <2>4. Own(s, r, z) BY <1>1, <1>4, <1>5, <2>2 DEF Own
  <2> QED BY <1>1, <1>2, <1>8, <1>9, <2>1, <2>2, <2>3, <2>4, WellGoes
<1>10. CASE /\ returned[s] + p.cents <= Due /\ returned' = [returned EXCEPT ![s] = @ + p.cents]
            /\ Go(r, [q EXCEPT !.pc = "mark"])
  <2>1. PICK z : z = [q EXCEPT !.pc = "mark"] OBVIOUS
  <2>2. z.plan = {p} /\ z.pc = "mark" /\ z.via = q.via /\ z.todo = q.todo
    BY <1>1, <1>3, <1>4, <1>5, <2>1 DEF Local
  <2>3. Place(r, z) BY <1>1, <1>4, <1>5, <2>2 DEF Place, Refunding
  <2>4. Places' BY <1>10, <2>1, <2>3, PlacesGo DEF Well, MoneyInv
  <2>5. \A o \in Callers : ~Marking(o) BY <1>1, <1>2, <1>3, <1>10, OneGives
  <2>6. Kept + returned[s] = Due BY <1>2, <2>5 DEF Balanced, GivenBack
  <2>7. Kept \in Nat /\ returned[s] \in Nat BY Nats
  <2>8. Kept = p.read
    <3>1. p.cents <= Kept BY <1>3, <1>10, <2>6, <2>7, DueType
    <3>2. CASE r = Sweeper
      <4>1. p.cents = p.read /\ Kept <= p.read BY <1>3, <1>4, <1>5, <3>2 DEF Own
      <4> QED BY <1>3, <2>7, <3>1, <4>1
    <3>3. CASE r # Sweeper
      <4>1. Kept \in {p.read, 0} BY <1>1, <1>3, <1>4, <1>5, <3>3 DEF Own
      <4> QED BY <1>3, <3>1, <4>1
    <3> QED BY <3>2, <3>3
  <2>9. Kept' = Kept /\ Known(s)' = Known(s) BY <1>1, BooksSame
  <2>10. returned'[s] = returned[s] + p.cents /\ \A t \in Sessions \ {s} : returned'[t] = returned[t]
    BY <1>10 DEF MoneyInv, TypeOK
  <2>11. Filled(s)' BY <1>1, <1>2, <2>10 DEF Balanced, Filled, First
  <2>12. req'[r] = z /\ \A o \in Callers : o # r => req'[o] = req[o]
    BY <1>10, <2>1, Others DEF MoneyInv
  <2>13. ASSUME NEW o \in Callers PROVE Own(s, o, req[o])'
    <3>1. Own(s, r, z) BY <1>1, <1>3, <1>4, <1>5, <2>2 DEF Own
    <3>2. Own(s, o, req'[o]) BY <1>2, <2>12, <3>1 DEF Balanced
    <3> QED BY <2>9, <3>2 DEF Own, First
  <2>14. GivenBack(s)'
    <3>1. \A o \in Callers : Marking(o)' <=> o = r BY <2>2, <2>5, <2>12 DEF Marking
    <3>2. Kept' + returned'[s] = Due + p.cents /\ p.cents <= returned'[s]
      <4>1. PICK k \in Nat, g \in Nat : k = Kept /\ g = returned[s] BY <2>7
      <4>2. k + g = Due BY <2>6, <4>1
      <4>3. Kept' = k BY <2>9, <4>1
      <4>4. returned'[s] = g + p.cents BY <2>10, <4>1
      <4>5. PICK c \in Nat : c = p.cents BY <1>3
      <4>6. k + (g + c) = Due + c /\ c <= g + c BY <4>1, <4>2, <4>5
      <4> QED BY <4>3, <4>4, <4>5, <4>6
    <3>3. req'[r].plan = {p} BY <2>2, <2>12
    <3>4. ASSUME NEW o \in Callers, Marking(o)'
          PROVE  /\ \A c \in Callers : Marking(c)' => c = o
                 /\ \A x \in req'[o].plan :
                      Kept' = x.read /\ Kept' + returned'[s] = Due + x.cents /\ x.cents <= returned'[s]
      <4>1. o = r BY <3>1, <3>4
      <4>2. \A x \in req'[o].plan : x = p BY <3>3, <4>1
      <4> QED BY <2>8, <2>9, <3>1, <3>2, <4>1, <4>2
    <3>5. ~ (\A o \in Callers : ~Marking(o)') BY <3>1
    <3> QED BY <3>4, <3>5 DEF GivenBack
  <2>15. WrittenOff(s)'
    <3>1. \A o \in Callers : /\ Splitting(o)' <=> Splitting(o)
                             /\ Splitting(o) => req'[o] = req[o]
      BY <1>1, <2>2, <2>12 DEF Splitting
    <3>2. WrittenOff(s) BY <1>2 DEF Balanced
    <3> QED BY <2>9, <3>1, <3>2 DEF WrittenOff
  <2> QED BY <2>4, <2>11, <2>13, <2>14, <2>15 DEF Well, Balanced
<1> QED BY <1>7, <1>9, <1>10

LEMMA WellMark ==
  ASSUME MoneyInv, MoneyInv', Starts, Well, OneAtWork, NEW r \in Callers, MarkRefunded(r)
  PROVE  Well'
<1>1. req[r].pc = "mark" /\ req[r].plan # {} /\ UNCHANGED returned
  BY DEF MarkRefunded, MoneyInv, Carried, Fit
<1>2. PICK s \in Sessions : Balanced(s) BY <1>1, Refunds DEF Refunding
<1>3. PICK p \in Part :
        /\ p = Largest(req[r].plan) /\ req[r].plan = {p} /\ p.row = First /\ p.tx = s
        /\ p.cents \in Nat /\ p.read \in Nat /\ p.cents > 0 /\ p.cents <= p.read
  BY <1>1, <1>2, InHand
<1>4. PICK q : q = req[r] OBVIOUS
<1>5. q \in Local /\ Place(r, q) /\ Own(s, r, q) BY <1>2, <1>4 DEF MoneyInv, TypeOK, Well, Places, Balanced
<1>6. PICK k \in Nat, g \in Nat, c \in Nat, d \in Nat :
        k = Kept /\ g = returned[s] /\ c = p.cents /\ d = Due
  BY <1>2, <1>3, Nats, DueType
<1>7. k = p.read /\ k + g = d + c /\ \A o \in Callers : Marking(o) => o = r
  BY <1>1, <1>2, <1>3, <1>6 DEF Balanced, GivenBack, Marking
<1>8. pay[First].status = "PAID" /\ pay[First].amount = k BY <1>3, <1>6, <1>7 DEF Kept
<1>9. First \in Rows /\ pay[First] \in PayRow BY DEF Starts, MoneyInv, TypeOK
<1>10. PICK S, T : S = RowsOf(s, {"PAID", "REFUNDED"}) /\ T = RowsOf(s, {"PAID", "REFUNDED"})' OBVIOUS
<1>11. pay[First].tx = s /\ First \in S BY <1>2, <1>8, <1>9, <1>10 DEF Balanced, Filled, RowsOf
<1>12. \A o \in Callers : Splitting(o) => o # r /\ o # Sweeper /\ o \in Requests
  BY <1>1, <1>2 DEF Balanced, Own, Splitting, Callers
<1>13. CASE p.cents = p.read
  <2>1. pay' = [pay EXCEPT ![First].status = "REFUNDED"] /\ Go(r, [q EXCEPT !.pc = "ask", !.plan = @ \ {p}])
    BY <1>3, <1>4, <1>8, <1>13 DEF MarkRefunded
  <2>2. PICK z : z = [q EXCEPT !.pc = "ask", !.plan = @ \ {p}] OBVIOUS
  <2>3. z.plan = {} /\ z.pc = "ask" /\ z.via = q.via /\ z.todo = q.todo
    BY <1>3, <1>4, <1>5, <2>2 DEF Local
  <2>4. Place(r, z) BY <1>1, <1>4, <1>5, <2>3 DEF Place, Refunding
  <2>5. Places' BY <2>1, <2>2, <2>4, PlacesGo DEF Well, MoneyInv
  <2>6. req'[r] = z /\ \A o \in Callers : o # r => req'[o] = req[o]
    BY <2>1, <2>2, Others DEF MoneyInv
  <2>7. /\ pay'[First].status = "REFUNDED" /\ pay'[First].tx = s /\ pay'[First].amount = k
        /\ \A i \in Rows \ {First} : pay'[i] = pay[i]
    BY <1>8, <1>9, <1>11, <2>1 DEF MoneyInv, TypeOK, PayRow
  <2>8. Kept' = 0 BY <2>7 DEF Kept, First
  <2>9. Known(s)' = Known(s)
    <3>1. First \in T BY <1>9, <1>10, <2>7 DEF RowsOf
    <3>2. TypeOK /\ TypeOK' BY DEF MoneyInv
    <3>3. /\ Known(s) = Amount(S \ {First}) + (IF First \in S THEN pay[First].amount ELSE 0)
          /\ Known(s)' = Amount(S \ {First}) + (IF First \in T THEN pay'[First].amount ELSE 0)
      BY <1>9, <1>10, <2>7, <3>2, KnownChanges
    <3> QED BY <1>8, <1>11, <2>7, <3>1, <3>3
  <2>10. Filled(s)' BY <1>1, <1>2, <2>7 DEF Balanced, Filled, First
  <2>11. ASSUME NEW o \in Callers PROVE Own(s, o, req[o])'
    <3>1. CASE o = r BY <1>5, <1>4, <1>1, <2>3, <2>6, <3>1 DEF Own
    <3>2. CASE o # r
      <4>1. PICK u : u = req[o] OBVIOUS
      <4>2. Own(s, o, u) /\ \A x \in u.plan : x.read \in Nat
        BY <1>2, <4>1 DEF Balanced, MoneyInv, Carried, Fit, Sound, Part
      <4>3. Own(s, o, u)' BY <2>8, <4>2 DEF Own, First
      <4> QED BY <2>6, <3>2, <4>1, <4>3
    <3> QED BY <3>1, <3>2
  <2>12. GivenBack(s)'
    <3>1. \A o \in Callers : ~Marking(o)' BY <1>7, <2>3, <2>6 DEF Marking
    <3>2. 0 + g = d BY <1>6, <1>7, <1>13
    <3>3. Kept' + returned'[s] = Due BY <1>1, <1>6, <2>8, <3>2
    <3> QED BY <3>1, <3>3 DEF GivenBack
  <2>13. WrittenOff(s)'
    <3>1. \A o \in Callers : /\ Splitting(o)' <=> Splitting(o)
                             /\ Splitting(o) => req'[o] = req[o]
      BY <1>1, <2>3, <2>6 DEF Splitting
    <3>2. WrittenOff(s) BY <1>2 DEF Balanced
    <3> QED BY <2>9, <3>1, <3>2 DEF WrittenOff
  <2> QED BY <2>5, <2>10, <2>11, <2>12, <2>13 DEF Well, Balanced
<1>14. CASE p.cents # p.read
  <2>0. r # Sweeper BY <1>3, <1>4, <1>5, <1>14 DEF Own
  <2>1. pay' = [pay EXCEPT ![First].amount = k - c] /\ Go(r, [q EXCEPT !.pc = "split"])
    BY <1>3, <1>4, <1>6, <1>7, <1>8, <1>14 DEF MarkRefunded, Stays
  <2>2. PICK z : z = [q EXCEPT !.pc = "split"] OBVIOUS
  <2>3. z.plan = {p} /\ z.pc = "split" /\ z.via = q.via /\ z.todo = q.todo
    BY <1>3, <1>4, <1>5, <2>2 DEF Local
  <2>4. Place(r, z) BY <2>0, <1>4, <1>5, <2>3 DEF Place, Refunding
  <2>5. Places' BY <2>1, <2>2, <2>4, PlacesGo DEF Well, MoneyInv
  <2>6. req'[r] = z /\ \A o \in Callers : o # r => req'[o] = req[o]
    BY <2>1, <2>2, Others DEF MoneyInv
  <2>7. /\ pay'[First].status = "PAID" /\ pay'[First].tx = s /\ pay'[First].amount = k - c
        /\ \A i \in Rows \ {First} : pay'[i] = pay[i]
    BY <1>8, <1>9, <1>11, <2>1 DEF MoneyInv, TypeOK, PayRow
  <2>8. Kept' = k - c /\ k - c \in Nat
    <3>1. c <= k BY <1>3, <1>6, <1>7
    <3>2. Kept' = k - c BY <2>7 DEF Kept, First
    <3> QED BY <3>1, <3>2
  <2>9. Known(s) = d /\ Known(s)' + c = d
    <3>1. First \in T BY <1>9, <1>10, <2>7 DEF RowsOf
    <3>2. PICK a \in Nat : Known(s) = a + k /\ Known(s)' = a + (k - c)
      <4>1. TypeOK /\ TypeOK' BY DEF MoneyInv
      <4>2. /\ Known(s) = Amount(S \ {First}) + (IF First \in S THEN pay[First].amount ELSE 0)
            /\ Known(s)' = Amount(S \ {First}) + (IF First \in T THEN pay'[First].amount ELSE 0)
            /\ Amount(S \ {First}) \in Nat
        BY <1>9, <1>10, <2>7, <4>1, KnownChanges
      <4> QED BY <1>8, <1>11, <2>7, <3>1, <4>2
    <3>3. \A o \in Callers : ~Splitting(o) BY <1>1, <1>12, <2>0 DEF OneAtWork, Callers, Splitting
    <3>4. a + k = d BY <1>2, <1>6, <3>2, <3>3 DEF Balanced, WrittenOff
    <3> QED BY <2>8, <3>2, <3>4
  <2>10. Filled(s)' BY <1>1, <1>2, <2>7 DEF Balanced, Filled, First
  <2>11. ASSUME NEW o \in Callers PROVE Own(s, o, req[o])'
    <3>1. CASE o = r BY <1>3, <2>0, <2>3, <2>6, <3>1 DEF Own
    <3>2. CASE o # r
      <4>2. PICK u : u = req[o] OBVIOUS
      <4>1. o = Sweeper \/ (u.pc = "idle" /\ u.plan = {})
        BY <1>1, <2>0, <3>2, <4>2 DEF OneAtWork, Callers, Well, Places, Place
      <4>3. Own(s, o, u) /\ \A x \in u.plan : x.read \in Nat
        BY <1>2, <4>2 DEF Balanced, MoneyInv, Carried, Fit, Sound, Part
      <4>4. \A x \in u.plan : k - c <= x.read BY <1>6, <4>1, <4>3 DEF Own
      <4>5. Own(s, o, u)' BY <2>8, <4>1, <4>3, <4>4 DEF Own, First
      <4> QED BY <2>6, <3>2, <4>2, <4>5
    <3> QED BY <3>1, <3>2
  <2>12. GivenBack(s)'
    <3>1. \A o \in Callers : ~Marking(o)' BY <1>7, <2>3, <2>6 DEF Marking
    <3>2. (k - c) + g = d BY <1>6, <1>7
    <3>3. Kept' + returned'[s] = Due BY <1>1, <1>6, <2>8, <3>2
    <3> QED BY <3>1, <3>3 DEF GivenBack
  <2>13. WrittenOff(s)'
    <3>1. \A o \in Callers : Splitting(o)' => o = r
      BY <1>1, <1>12, <2>0, <2>6 DEF OneAtWork, Callers, Splitting
    <3>2. Splitting(r)' /\ req'[r].plan = {p} BY <2>3, <2>6 DEF Splitting
    <3>3. \A x \in req'[r].plan : Known(s)' + x.cents = Due BY <1>6, <2>9, <3>2
    <3> QED BY <3>1, <3>2, <3>3 DEF WrittenOff
  <2> QED BY <2>5, <2>10, <2>11, <2>12, <2>13 DEF Well, Balanced
<1> QED BY <1>13, <1>14

LEMMA WellSplit ==
  ASSUME MoneyInv, MoneyInv', Starts, Well, OneAtWork, NEW r \in Callers, SplitRow(r)
  PROVE  Well'
<1>1. req[r].pc = "split" /\ req[r].plan # {} /\ UNCHANGED returned
  BY DEF SplitRow, MoneyInv, Carried, Fit
<1>2. PICK s \in Sessions : Balanced(s) BY <1>1, Refunds DEF Refunding
<1>3. PICK p \in Part :
        /\ p = Largest(req[r].plan) /\ req[r].plan = {p} /\ p.row = First /\ p.tx = s
        /\ p.cents \in Nat /\ p.read \in Nat /\ p.cents > 0 /\ p.cents <= p.read
  BY <1>1, <1>2, InHand
<1>4. PICK q, z, f : q = req[r] /\ z = [q EXCEPT !.pc = "ask", !.plan = @ \ {p}] /\ f = FirstFree OBVIOUS
<1>5. q \in Local /\ Place(r, q) /\ Own(s, r, q) BY <1>2, <1>4 DEF MoneyInv, TypeOK, Well, Places, Balanced
<1>6. r # Sweeper /\ r \in Requests BY <1>1, <1>4, <1>5 DEF Own, Callers
<1>7. /\ f \in Rows /\ pay[f].status = "none"
      /\ pay' = [pay EXCEPT ![f] = [status |-> "REFUNDED", amount |-> p.cents, hold |-> FALSE, tx |-> s]]
      /\ Go(r, z)
  <2>1. f \in FreeRows BY <1>4, FreeIn DEF SplitRow
  <2> QED BY <1>3, <1>4, <2>1 DEF SplitRow, FreeRows
<1>8. z.plan = {} /\ z.pc = "ask" /\ z.via = q.via /\ z.todo = q.todo
  BY <1>3, <1>4, <1>5 DEF Local
<1>9. Place(r, z) BY <1>4, <1>5, <1>6, <1>8 DEF Place, Refunding
<1>10. Places' BY <1>7, <1>9, PlacesGo DEF Well, MoneyInv
<1>11. req'[r] = z /\ \A o \in Callers : o # r => req'[o] = req[o]
  BY <1>7, Others DEF MoneyInv
<1>12. First \in Rows /\ f # First BY <1>2, <1>7 DEF Starts, Balanced, Filled
<1>13. /\ pay'[f].status = "REFUNDED" /\ pay'[f].tx = s /\ pay'[f].amount = p.cents
       /\ \A i \in Rows \ {f} : pay'[i] = pay[i]
  BY <1>7 DEF MoneyInv, TypeOK
<1>14. Filled(s)' BY <1>1, <1>2, <1>12, <1>13 DEF Balanced, Filled, First
<1>15. Kept' = Kept BY <1>12, <1>13 DEF Kept, First
<1>16. PICK d \in Nat, c \in Nat : d = Due /\ c = p.cents BY <1>3, DueType
<1>17. Known(s)' = d
  <2>1. PICK S, T : S = RowsOf(s, {"PAID", "REFUNDED"}) /\ T = RowsOf(s, {"PAID", "REFUNDED"})' OBVIOUS
  <2>2. f \notin S /\ f \in T BY <1>7, <1>13, <2>1 DEF RowsOf
  <2>3. TypeOK /\ TypeOK' BY DEF MoneyInv
  <2>4. /\ Known(s) = Amount(S \ {f}) + (IF f \in S THEN pay[f].amount ELSE 0)
        /\ Known(s)' = Amount(S \ {f}) + (IF f \in T THEN pay'[f].amount ELSE 0)
        /\ Amount(S \ {f}) \in Nat
    <3>1. f \in Rows /\ \A i \in Rows \ {f} : pay'[i] = pay[i] BY <1>7, <1>13
    <3> QED BY <2>1, <2>3, <3>1, KnownChanges
  <2>5. PICK a \in Nat : a = Amount(S \ {f}) BY <2>4
  <2>6. Known(s) = a /\ Known(s)' = a + c BY <1>13, <1>16, <2>2, <2>4, <2>5
  <2>7. Known(s) + c = d BY <1>1, <1>2, <1>3, <1>16 DEF Balanced, WrittenOff, Splitting
  <2> QED BY <2>6, <2>7
<1>18. ASSUME NEW o \in Callers PROVE Own(s, o, req[o])'
  <2>1. PICK u : u = req'[o] OBVIOUS
  <2>2. Own(s, o, u)
    <3>1. CASE o = r BY <1>6, <1>8, <1>11, <2>1, <3>1 DEF Own
    <3>2. CASE o # r BY <1>2, <1>11, <2>1, <3>2 DEF Balanced
    <3> QED BY <3>1, <3>2
  <2>3. Own(s, o, u)' BY <1>15, <2>2 DEF Own, First
  <2> QED BY <2>1, <2>3
<1>19. GivenBack(s)'
  <2>1. \A o \in Callers : /\ Marking(o)' <=> Marking(o)
                           /\ Marking(o) => req'[o] = req[o]
    BY <1>1, <1>8, <1>11 DEF Marking
  <2>2. GivenBack(s) BY <1>2 DEF Balanced
  <2>3. (\A o \in Callers : ~Marking(o)') => Kept' + returned'[s] = Due
    BY <1>1, <1>15, <2>1, <2>2 DEF GivenBack
  <2>4. ASSUME NEW o \in Callers, Marking(o)'
        PROVE  /\ \A x \in Callers : Marking(x)' => x = o
               /\ \A x \in req'[o].plan :
                    Kept' = x.read /\ Kept' + returned'[s] = Due + x.cents /\ x.cents <= returned'[s]
    BY <1>1, <1>15, <2>1, <2>2, <2>4 DEF GivenBack
  <2> QED BY <2>3, <2>4 DEF GivenBack
<1>20. WrittenOff(s)'
  <2>1. \A o \in Callers : ~Splitting(o)'
    <3> SUFFICES ASSUME NEW o \in Callers PROVE req'[o].pc # "split" BY DEF Splitting
    <3>1. CASE o = r BY <1>8, <1>11, <3>1
    <3>2. CASE o # r
      <4>1. o = Sweeper \/ req[o].pc = "idle" BY <1>1, <1>6, <3>2 DEF OneAtWork, Callers
      <4> QED BY <1>2, <1>11, <3>2, <4>1 DEF Balanced, Own
    <3> QED BY <3>1, <3>2
  <2> QED BY <1>16, <1>17, <2>1 DEF WrittenOff
<1> QED BY <1>10, <1>14, <1>18, <1>19, <1>20 DEF Well, Balanced

LEMMA WellCancel ==
  ASSUME MoneyInv, Starts, Well, NEW r \in Callers, Cancel(r)
  PROVE  Well'
<1>1. req[r].pc = "cancel" /\ UNCHANGED returned
      /\ pay' = [i \in Rows |-> IF pay[i].status = "PENDING" THEN [pay[i] EXCEPT !.status = "FAILED"] ELSE pay[i]]
  BY DEF Cancel
<1>2. PICK q : q = req[r] OBVIOUS
<1>3. q \in Local /\ Place(r, q) BY <1>2 DEF MoneyInv, TypeOK, Well, Places
<1>4. q.todo = {} \/ r # Sweeper BY <1>1, <1>2, <1>3 DEF Place
<1>5. PICK z : /\ Go(r, z) /\ Place(r, z) /\ z.plan = {} /\ z.pc \in {"idle", "next", "money"}
               /\ r # Sweeper \/ z.todo = {}
  <2>1. CASE Finish(r, TRUE)
    <3>1. PICK z : /\ Go(r, z) /\ Place(r, z) /\ z.plan = {} /\ z.pc \in {"idle", "next", "hold"}
                   /\ r # Sweeper => z = Idle
                   /\ r = Sweeper => /\ z.todo = {} /\ z.was = req[r].was
                                     /\ z.pc = IF TRUE THEN "next" ELSE "hold"
      BY <1>1, <1>2, <1>4, <2>1, FinishAs DEF Well
    <3>2. r # Sweeper => z.pc = "idle" BY <3>1, JobLocal DEF Idle
    <3> QED BY <3>1, <3>2
  <2>2. CASE Go(r, [q EXCEPT !.pc = "money"])
    <3>1. PICK z : z = [q EXCEPT !.pc = "money"] OBVIOUS
    <3>2. z.pc = "money" /\ z.plan = q.plan /\ z.via = q.via /\ z.todo = q.todo BY <1>3, <3>1 DEF Local
    <3>3. q.plan = {} BY <1>1, <1>2, <1>3 DEF Place
    <3>4. Place(r, z) BY <1>1, <1>2, <1>3, <1>4, <3>2, <3>3 DEF Place
    <3> QED BY <1>4, <2>2, <3>1, <3>2, <3>3, <3>4
  <2> QED BY <1>2, <2>1, <2>2 DEF Cancel
<1>6. Places' BY <1>5, PlacesGo DEF Well, MoneyInv
<1>7. CASE Owing
  <2>1. pay'[First].status = "FAILED" /\ \A i \in Rows \ {First} : pay'[i].status = "none"
    <3>1. pay[First] \in PayRow BY DEF Starts, MoneyInv, TypeOK
    <3>2. pay'[First] = IF pay[First].status = "PENDING" THEN [pay[First] EXCEPT !.status = "FAILED"]
                        ELSE pay[First]
      BY <1>1 DEF Starts
    <3>3. pay'[First].status = "FAILED" BY <1>7, <3>1, <3>2 DEF Owing, PayRow
    <3> QED BY <1>1, <1>7, <3>3 DEF Owing
  <2>2. Owing' BY <1>1, <1>5, <1>7, <2>1, OwingGoes DEF MoneyInv, Refunding
  <2> QED BY <1>6, <2>2 DEF Well
<1>8. ASSUME NEW s \in Sessions, Balanced(s) PROVE Balanced(s)'
  <2>1. r # Sweeper BY <1>1, <1>8 DEF Balanced, Own
  <2>2. \A i \in Rows : pay[i].status # "PENDING" BY <1>8 DEF Balanced, Filled
  <2>3. pay' = pay BY <1>1, <2>2 DEF MoneyInv, TypeOK
  <2>4. Own(s, r, z) BY <1>5, <2>1 DEF Own
  <2> QED BY <1>1, <1>5, <1>8, <2>3, <2>4, BalancedGoes DEF MoneyInv
<1> QED BY <1>6, <1>7, <1>8 DEF Well

LEMMA WellCancelMoney ==
  ASSUME MoneyInv, Starts, Well, NEW r \in Callers, CancelMoney(r)
  PROVE  Well'
<1>1. req[r].pc = "money" /\ UNCHANGED <<pay, returned>> BY DEF CancelMoney
<1>2. PICK q, paid : q = req[r] /\ paid = Amount(PaidRows) OBVIOUS
<1>3. q \in Local /\ Place(r, q) BY <1>2 DEF MoneyInv, TypeOK, Well, Places
<1>4. q.todo = {} \/ r # Sweeper BY <1>1, <1>2, <1>3 DEF Place
<1>5. CASE Finish(r, TRUE) BY <1>1, <1>2, <1>4, <1>5, WellEnds
<1>6. CASE ~Finish(r, TRUE)
  <2>1. paid # 0 BY <1>2, <1>6 DEF CancelMoney
  <2>2. ~Owing BY <1>2, <2>1, AmountNone, PaidTotal
  <2>3. PICK keep : Go(r, [q EXCEPT !.pc = "read", !.cents = paid - keep])
    BY <1>2, <1>6 DEF CancelMoney
  <2>4. PICK s \in Sessions : Balanced(s) BY <2>2 DEF Well
  <2>5. r # Sweeper BY <1>1, <2>4 DEF Balanced, Own
  <2>6. PICK z : z = [q EXCEPT !.pc = "read", !.cents = paid - keep] OBVIOUS
  <2>7. z.pc = "read" /\ z.plan = q.plan /\ z.via = q.via BY <1>3, <2>6 DEF Local
  <2>8. q.plan = {} BY <1>1, <1>2, <1>3 DEF Place
  <2>9. Place(r, z) BY <1>1, <1>2, <1>3, <2>5, <2>7, <2>8 DEF Place, Refunding
  <2>10. \A t \in Sessions : Own(t, r, z) BY <2>5, <2>7, <2>8 DEF Own
  <2> QED BY <1>1, <2>2, <2>3, <2>6, <2>7, <2>9, <2>10, WellGoes
<1> QED BY <1>5, <1>6

\* The sweep between its calls of settle.
LEMMA WellSweepGoes ==
  ASSUME MoneyInv, Well, NEW z, Go(Sweeper, z), z.plan = {}, UNCHANGED <<pay, returned>>,
         req[Sweeper].pc \in {"idle", "next", "hold"},
         (Owing /\ z.pc \in {"already", "hold", "cancel", "next", "idle"}) \/ z.pc = "idle",
         z.pc # "idle" => z.via = "sweep",
         z.todo = {} \/ (z.pc = "next" /\ \E b \in BOOLEAN : z.todo = {<<First, b>>})
  PROVE  Well'
<1>1. Sweeper \in Callers BY DEF Callers
<1>2. Place(Sweeper, z) BY DEF Place
<1>3. CASE Owing
  <2>1. Places' BY <1>1, <1>2, PlacesGo DEF Well, MoneyInv
  <2>2. Owing' BY <1>1, <1>3, OwingGoes DEF Owing, MoneyInv, Refunding
  <2> QED BY <2>1, <2>2 DEF Well
<1>4. CASE ~Owing
  <2>1. z.todo = {} /\ z.pc = "idle" BY <1>4
  <2>2. \A s \in Sessions : Own(s, Sweeper, z) BY <2>1 DEF Own
  <2> QED BY <1>1, <1>2, <1>4, <2>1, <2>2, WellGoes
<1> QED BY <1>3, <1>4

LEMMA WellRound ==
  ASSUME MoneyInv, Starts, Well, Round
  PROVE  Well'
<1>0. Sweeper \in Callers BY DEF Callers
<1>1. PICK q : q = req[Sweeper] OBVIOUS
<1>2. q \in Local /\ Place(Sweeper, q) BY <1>0, <1>1 DEF MoneyInv, TypeOK, Well, Places
<1>3. CASE BeginSweep
  <2>1. PICK todo, j : todo = {<<i, PendingHold(i)>> : i \in Swept} /\ j = Job("next", "sweep") OBVIOUS
  <2>2. PICK z : z = [j EXCEPT !.todo = todo] OBVIOUS
  <2>3. Go(Sweeper, z) /\ req[Sweeper] = Idle /\ Swept # {} /\ UNCHANGED <<pay, returned>>
    BY <1>3, <2>1, <2>2 DEF BeginSweep, Begin, Go
  <2>4. j \in Local /\ j.plan = {} /\ j.pc = "next" /\ j.via = "sweep" BY <2>1, JobLocal
  <2>5. z.plan = {} /\ z.pc = "next" /\ z.via = "sweep" /\ z.todo = todo BY <2>2, <2>4 DEF Local
  <2>6. req[Sweeper].pc = "idle" BY <2>3, JobLocal DEF Idle
  <2>7. Owing BY <2>3 DEF Well, Balanced, Filled, Swept
  <2>8. Swept = {First} BY <2>3, <2>7 DEF Owing, Swept, Starts
  <2>9. PendingHold(First) \in BOOLEAN BY DEF PendingHold
  <2>10. \E b \in BOOLEAN : todo = {<<First, b>>} BY <2>1, <2>8, <2>9
  <2> QED BY <2>3, <2>5, <2>6, <2>7, <2>10, WellSweepGoes
<1>4. ASSUME NEW pc \in {"already", "hold"}, TakeRow(pc)
      PROVE  Well'
  <2> DEFINE T == CHOOSE x \in q.todo : \A y \in q.todo : x[1] <= y[1]
             Row == IF T[2] THEN T[1] ELSE None
  <2>1. /\ q.pc = "next" /\ q.todo # {} /\ UNCHANGED <<pay, returned>>
        /\ Go(Sweeper, [q EXCEPT !.todo = @ \ {T}, !.row = Row, !.was = appt.status, !.pc = pc])
    BY <1>1, <1>4 DEF TakeRow
  <2>2. PICK b \in BOOLEAN : q.todo = {<<First, b>>} BY <1>2, <2>1 DEF Place
  <2>3. T \in q.todo
    <3>1. q.todo \in SUBSET (Rows \X BOOLEAN) BY <1>2 DEF Local
    <3> QED BY <2>1, <3>1, OldestIn
  <2> HIDE DEF T, Row
  <2>4. q.todo \ {T} = {} BY <2>2, <2>3
  <2>5. PICK z : z = [q EXCEPT !.todo = @ \ {T}, !.row = Row, !.was = appt.status, !.pc = pc] OBVIOUS
  <2>6. z.todo = {} /\ z.plan = q.plan /\ z.via = q.via /\ z.pc = pc BY <1>2, <2>4, <2>5 DEF Local
  <2>7. q.plan = {} /\ q.via = "sweep" BY <1>2, <2>1 DEF Place
  <2>8. Owing BY <1>0, <1>1, <2>1 DEF Well, Balanced, Own
  <2>9. Go(Sweeper, z) BY <2>1, <2>5
  <2>10. z.pc \in {"already", "hold"} /\ z.pc # "idle" BY <1>4, <2>6
  <2>11. req[Sweeper].pc = "next" /\ z.plan = {} /\ z.via = "sweep" /\ z.todo = {}
    BY <1>1, <2>1, <2>6, <2>7
  <2> QED BY <2>1, <2>8, <2>9, <2>10, <2>11, WellSweepGoes
<1>5. CASE SweepEnds
  <2>1. Go(Sweeper, Idle) /\ q.pc = "next" /\ UNCHANGED <<pay, returned>> BY <1>1, <1>5 DEF SweepEnds
  <2>2. Idle.plan = {} /\ Idle.pc = "idle" /\ Idle.todo = {} BY DEF Idle, Job
  <2>3. PICK z : z = Idle OBVIOUS
  <2>4. Go(Sweeper, z) /\ z.plan = {} /\ z.pc = "idle" /\ z.todo = {} BY <2>1, <2>2, <2>3
  <2>5. req[Sweeper].pc = "next" BY <1>1, <2>1
  <2> QED BY <2>1, <2>4, <2>5, WellSweepGoes
<1>6. CASE ReleaseHold
  <2>1. q.pc = "hold" /\ UNCHANGED <<pay, returned>> BY <1>1, <1>6 DEF ReleaseHold
  <2>2. Owing /\ q.todo = {} /\ q.via = "sweep" /\ q.plan = {} BY <1>0, <1>1, <2>1, OnlySweepSettles
  <2>3. \/ Go(Sweeper, [q EXCEPT !.pc = "cancel", !.row = None, !.was = appt.status])
        \/ Go(Sweeper, [q EXCEPT !.pc = "next", !.row = None])
    BY <1>1, <1>6 DEF ReleaseHold
  <2>4. PICK z : Go(Sweeper, z) /\ z.todo = {} /\ z.via = "sweep" /\ z.plan = {} /\ z.pc \in {"cancel", "next"}
    <3>1. CASE Go(Sweeper, [q EXCEPT !.pc = "cancel", !.row = None, !.was = appt.status])
      <4>1. PICK z : z = [q EXCEPT !.pc = "cancel", !.row = None, !.was = appt.status] OBVIOUS
      <4>2. z.todo = q.todo /\ z.plan = q.plan /\ z.via = q.via /\ z.pc = "cancel" BY <1>2, <4>1 DEF Local
      <4> QED BY <2>2, <3>1, <4>1, <4>2
    <3>2. CASE Go(Sweeper, [q EXCEPT !.pc = "next", !.row = None])
      <4>1. PICK z : z = [q EXCEPT !.pc = "next", !.row = None] OBVIOUS
      <4>2. z.todo = q.todo /\ z.plan = q.plan /\ z.via = q.via /\ z.pc = "next" BY <1>2, <4>1 DEF Local
      <4> QED BY <2>2, <3>2, <4>1, <4>2
    <3> QED BY <2>3, <3>1, <3>2
  <2>5. req[Sweeper].pc = "hold" BY <1>1, <2>1
  <2>6. z.pc # "idle" /\ z.pc \in {"already", "hold", "cancel", "next", "idle"} BY <2>4
  <2> QED BY <2>1, <2>2, <2>4, <2>5, <2>6, WellSweepGoes
<1> QED BY <1>3, <1>4, <1>5, <1>6 DEF Round, SweepAsks, SweepSkips

-----------------------------------------------------------------------------
\* Where the sweep is alone to settle, every step leaves the books well.
LEMMA WellStep ==
  ASSUME MoneyInv, MoneyInv', Starts, Well, Quiet, OneAtWork, [Next]_vars
  PROVE  Well'
<1>0. /\ "return" \notin world /\ "webhook" \notin world /\ "remove" \notin world
      /\ "lost" \notin world /\ "crash" \notin world
  BY DEF Quiet
<1>1. CASE UNCHANGED vars BY <1>1, AllStays DEF vars
<1>2. ASSUME NEW s \in Sessions, StartCheckout(s) \/ Pay(s) PROVE Well'
  BY <1>2, AllStays DEF StartCheckout, Pay
<1>3. ASSUME NEW r \in Requests, BeginReturn(r) \/ BeginWebhook(r) \/ BeginCancel(r) \/ BeginRemove(r)
      PROVE  Well'
  BY <1>0, <1>3, WellBeginCancel DEF BeginReturn, BeginWebhook, BeginRemove
<1>4. ASSUME NEW r \in Callers, Step(r) PROVE Well'
  <2>1. ~LookupFails(r) BY <1>0 DEF LookupFails
  <2>2. ~Remove(r) BY DEF Remove, Well, Places, Place, Refunding
  <2> QED BY <1>4, <2>1, <2>2, WellAlready, WellLookup, WellOpenRow, WellRecord, WellReadPaid, WellAsk, WellMark,
             WellSplit, WellRefundDone, WellCancel, WellCancelMoney DEF Step
<1>5. CASE Round BY <1>5, WellRound
<1>6. CASE GrowOld \/ Arrive BY <1>6, AllStays DEF GrowOld, Arrive
<1>7. CASE Crash BY <1>0, <1>7 DEF Crash
<1> QED BY <1>1, <1>2, <1>3, <1>4, <1>5, <1>6, <1>7 DEF Next, Round

LEMMA WorldShrinks ==
  ASSUME [Next]_vars
  PROVE  world' \in {world, world \ {"lost"}, world \ {"crash"}}
<1>1. CASE UNCHANGED vars BY <1>1 DEF vars
<1>2. CASE Next
  <2>1. ASSUME NEW r \in Callers, Step(r) PROVE world' \in {world, world \ {"lost"}, world \ {"crash"}}
    BY <2>1 DEF Step, Already, Lookup, LookupFails, OpenRow, Record, ReadPaid, AskProvider, MarkRefunded, SplitRow,
                RefundDone, Cancel, CancelMoney, Remove
  <2>2. ASSUME NEW r \in Requests, BeginReturn(r) \/ BeginWebhook(r) \/ BeginCancel(r) \/ BeginRemove(r)
        PROVE  UNCHANGED world
    BY <2>2 DEF BeginReturn, BeginWebhook, BeginCancel, BeginRemove
  <2>3. ASSUME NEW s \in Sessions, StartCheckout(s) \/ Pay(s) PROVE UNCHANGED world
    BY <2>3 DEF StartCheckout, Pay
  <2> QED BY <1>2, <2>1, <2>2, <2>3 DEF Next, BeginSweep, SweepAsks, SweepSkips, TakeRow, SweepEnds, ReleaseHold,
                                        GrowOld, Arrive, Crash
<1> QED BY <1>1, <1>2

LEMMA SweepStep ==
  ASSUME MoneyInv, MoneyInv', OneRequest, SweepInv, [Next]_vars
  PROVE  SweepInv'
<1>1. Starts' BY DEF SweepInv, Starts, First
<1>2. world' \in {world, world \ {"lost"}, world \ {"crash"}} BY WorldShrinks
<1>3. Loud' BY <1>2 DEF SweepInv, Loud, Quiet
<1>4. Quiet' => Quiet BY <1>2 DEF SweepInv, Loud, Quiet
<1>5. OneAtWork BY DEF OneRequest, OneAtWork
<1>6. Sweeping' BY <1>4, <1>5, WellStep DEF SweepInv, Sweeping
<1> QED BY <1>1, <1>3, <1>6 DEF SweepInv

LEMMA SweepBegins ==
  ASSUME Init, SweepWorlds
  PROVE  SweepInv
<1>1. PICK hold \in BOOLEAN, first \in Rows :
        /\ \A i \in Rows : first <= i
        /\ pay = [i \in Rows |-> IF i = first
                                 THEN [status |-> "PENDING", amount |-> Deposit, hold |-> hold, tx |-> None]
                                 ELSE NoRow]
        /\ returned = [s \in Sessions |-> 0] /\ world \in Worlds
        /\ req = [r \in Callers |-> Idle]
  BY DEF Init
<1>2. First \in Rows /\ \A i \in Rows : First <= i BY <1>1 DEF First
<1>3. First = first BY <1>1, <1>2, RowsAssumption
<1>4. Loud BY <1>1 DEF Loud, Quiet, SweepWorlds
<1>5. Idle.plan = {} /\ Idle.pc = "idle" /\ Idle.todo = {} /\ Idle.via = "nobody" BY DEF Idle, Job
<1>6. Places BY <1>1, <1>5 DEF Places, Place
<1>7. Owing BY <1>1, <1>3, <1>5 DEF Owing, NoRow, Refunding
<1> QED BY <1>2, <1>4, <1>6, <1>7 DEF SweepInv, Starts, Sweeping, Well

LEMMA SweepAlways ==
  ASSUME OneRequest, SweepWorlds
  PROVE  Spec => [](MoneyInv /\ SweepInv)
<1>1. Init => MoneyInv /\ SweepInv BY MoneyBegins, SweepBegins
<1>2. MoneyInv /\ SweepInv /\ [Next]_vars => (MoneyInv /\ SweepInv)' BY MoneyStep, SweepStep
<1> QED BY <1>1, <1>2, PTL DEF Spec

LEMMA MarksAPart ==
  ASSUME MoneyInv, NEW r \in Callers, req[r].pc \in {"mark", "split"}
  PROVE  req[r].plan # {}
BY DEF MoneyInv, Carried, Fit

\* Where nothing was recorded, the books know no transaction; where one was, they know
\* all of it and no other, and what they call paid of it is what the provider still has.
LEMMA WellBooks ==
  ASSUME MoneyInv, Starts, Well
  PROVE  RecordedOnce /\ BooksAgree
<1>1. ASSUME Owing, NEW s \in Sessions PROVE RowsOf(s, {"PAID", "REFUNDED"}) = {}
  BY <1>1 DEF Owing, RowsOf, Starts
<1>2. ASSUME NEW s \in Sessions, Balanced(s)
      PROVE  \A t \in Sessions \ {s} : RowsOf(t, {"PAID", "REFUNDED"}) = {}
  BY <1>2 DEF Balanced, Filled, RowsOf, Starts
<1>3. ASSUME NEW s \in Sessions, Balanced(s) PROVE Known(s) <= Due
  <2>1. Known(s) \in Nat BY AmountType DEF Known, RowsOf, MoneyInv
  <2>2. CASE \A r \in Callers : ~Splitting(r)
    BY <1>3, <2>2, DueType DEF Balanced, WrittenOff
  <2>3. ASSUME NEW r \in Callers, Splitting(r) PROVE Known(s) <= Due
    <3>1. req[r].plan # {} BY <2>3, MarksAPart DEF Splitting
    <3>2. PICK p \in Part : req[r].plan = {p} /\ p.cents \in Nat BY <1>3, <3>1, InHand
    <3>3. Known(s) + p.cents = Due BY <1>3, <2>3, <3>2 DEF Balanced, WrittenOff
    <3> QED BY <2>1, <3>2, <3>3, DueType
  <2> QED BY <2>2, <2>3
<1>4. RecordedOnce
  <2> SUFFICES ASSUME NEW s \in Sessions PROVE Known(s) <= Due BY DEF RecordedOnce, Known
  <2>1. RowsOf(s, {"PAID", "REFUNDED"}) = {} => Known(s) <= Due BY AmountNone, DueType DEF Known
  <2> QED BY <1>1, <1>2, <1>3, <2>1 DEF Well
<1>5. BooksAgree
  <2> SUFFICES ASSUME AllIdle, NEW s \in Sessions, RowsOf(s, {"PAID", "REFUNDED"}) # {}
               PROVE  Amount(RowsOf(s, {"PAID"})) = Due - returned[s]
    BY DEF BooksAgree
  <2>1. Balanced(s) BY <1>1, <1>2 DEF Well
  <2>2. \A r \in Callers : ~Marking(r) BY JobLocal DEF AllIdle, Marking, Idle
  <2>3. Kept + returned[s] = Due BY <2>1, <2>2 DEF Balanced, GivenBack
  <2>4. RowsOf(s, {"PAID"}) = PaidRows BY <2>1 DEF Balanced, Filled, RowsOf, PaidRows, Starts
  <2>5. Amount(PaidRows) = Kept /\ Kept \in Nat BY PaidTotal
  <2> QED BY <2>3, <2>4, <2>5, Nats, DueType
<1> QED BY <1>4, <1>5

\* SweepKeepsBooks, the provider's money and the books where the sweep alone settles,
\* with one person at a time who cancels: whatever the sweep and a cancellation read
\* and write between each other's steps, a payment is recorded once, and what the books
\* call paid is what the provider still has.
THEOREM SweepKeepsBooksCorrect ==
  ASSUME OneRequest, SweepWorlds
  PROVE  Spec => []SweepKeepsBooks
<1>1. MoneyInv /\ SweepInv => SweepKeepsBooks
  <2> SUFFICES ASSUME MoneyInv, SweepInv, world \cap (Settlers \cup {"remove"}) = {}
               PROVE  RecordedOnce /\ BooksAgree
    BY DEF SweepKeepsBooks
  <2>1. world \cap {"return", "webhook", "remove"} = {} BY DEF Settlers
  <2> QED BY <2>1, WellBooks DEF SweepInv, Loud, Sweeping
<1> QED BY <1>1, SweepAlways, PTL

-----------------------------------------------------------------------------
(* Where nobody but the sweep is at work. *)

\* A hold it let go is CANCELLED, and it reads it so; what it records for such a booking
\* it has not finished giving back, and the row is as it read it.
Alone ==
  /\ \A r \in Requests : req[r] = Idle
  /\ appt.by = "system" => appt.status = "CANCELLED"
  /\ pay[First].status = "PAID" => pay[First].amount = Due
  /\ \A p \in req[Sweeper].plan : Kept = p.read
  /\ appt.by = "system" =>
       /\ req[Sweeper].pc \in {"already", "lookup", "open", "record"} => req[Sweeper].was = "CANCELLED"
       /\ pay[First].status = "PAID" => req[Sweeper].pc = "read" \/ req[Sweeper].plan # {}

LEMMA OthersStay ==
  ASSUME TypeOK, Alone, NEW z, Go(Sweeper, z)
  PROVE  req'[Sweeper] = z /\ \A r \in Requests : req'[r] = Idle
<1>1. Sweeper \in Callers /\ \A r \in Requests : r \in Callers /\ r # Sweeper BY SweeperAssumption DEF Callers
<1> QED BY <1>1, Others DEF Alone

\* It goes on, with nothing to give back before or after.
LEMMA AloneGoes ==
  ASSUME TypeOK, Alone, NEW z, Go(Sweeper, z), z.plan = {}, UNCHANGED <<pay, appt>>,
         req[Sweeper].pc # "read", req[Sweeper].plan = {},
         z.pc \in {"already", "lookup", "open", "record"} => z.was = "CANCELLED" \/ appt.by # "system"
  PROVE  Alone'
<1>1. req'[Sweeper] = z /\ \A r \in Requests : req'[r] = Idle BY OthersStay
<1>2. appt.by = "system" => pay[First].status # "PAID" BY DEF Alone
<1> QED BY <1>1, <1>2 DEF Alone, First

LEMMA AloneEnds ==
  ASSUME MoneyInv, Starts, Well, Alone, NEW settled \in BOOLEAN, Finish(Sweeper, settled),
         UNCHANGED <<pay, appt>>, req[Sweeper].pc \notin {"idle", "read", "next"}, req[Sweeper].plan = {}
  PROVE  Alone'
<1>1. Sweeper \in Callers BY DEF Callers
<1>2. req[Sweeper].todo = {} BY <1>1 DEF Well, Places, Place
<1>3. PICK z : Go(Sweeper, z) /\ z.plan = {} /\ z.pc \in {"idle", "next", "hold"}
  BY <1>1, <1>2, FinishAs DEF Well
<1> QED BY <1>3, AloneGoes DEF MoneyInv

LEMMA AloneSettles ==
  ASSUME MoneyInv, Starts, Well, Alone,
         Already(Sweeper) \/ Lookup(Sweeper) \/ OpenRow(Sweeper) \/ RefundDone(Sweeper)
  PROVE  Alone'
<1>0. Sweeper \in Callers BY DEF Callers
<1>1. PICK q : q = req[Sweeper] OBVIOUS
<1>2. q \in Local /\ Place(Sweeper, q) BY <1>0, <1>1 DEF MoneyInv, TypeOK, Well, Places
<1>3. /\ UNCHANGED <<pay, appt>> /\ q.plan = {}
      /\ q.pc \in {"already", "lookup", "open"} \/ q.pc = "ask"
  BY <1>1, <1>2 DEF Already, Lookup, OpenRow, RefundDone, Place
<1>4. CASE \E settled \in BOOLEAN : Finish(Sweeper, settled) BY <1>1, <1>3, <1>4, AloneEnds
<1>5. ASSUME NEW z, Go(Sweeper, z), z.plan = q.plan, z.was = q.was, q.pc \in {"already", "lookup", "open"}
      PROVE  Alone'
  <2>1. appt.by = "system" => z.was = "CANCELLED" BY <1>1, <1>5 DEF Alone
  <2> QED BY <1>1, <1>3, <1>5, <2>1, AloneGoes DEF MoneyInv
<1>6. CASE Already(Sweeper)
  <2>1. CASE Go(Sweeper, [q EXCEPT !.pc = "lookup"])
    <3>1. PICK z : z = [q EXCEPT !.pc = "lookup"] OBVIOUS
    <3>2. z.plan = q.plan /\ z.was = q.was BY <1>2, <3>1 DEF Local
    <3>3. q.pc = "already" BY <1>1, <1>6 DEF Already
    <3> QED BY <1>5, <2>1, <3>1, <3>2, <3>3
  <2> QED BY <1>1, <1>4, <1>6, <2>1 DEF Already
<1>7. CASE Lookup(Sweeper)
  <2>1. PICK a : a = Approved OBVIOUS
  <2>2. CASE Go(Sweeper, [q EXCEPT !.pc = "open", !.tx = a])
    <3>1. PICK z : z = [q EXCEPT !.pc = "open", !.tx = a] OBVIOUS
    <3>2. z.plan = q.plan /\ z.was = q.was BY <1>2, <3>1 DEF Local
    <3>3. q.pc = "lookup" BY <1>1, <1>7 DEF Lookup
    <3> QED BY <1>5, <2>2, <3>1, <3>2, <3>3
  <2> QED BY <1>1, <1>4, <1>7, <2>1, <2>2 DEF Lookup
<1>8. CASE OpenRow(Sweeper)
  <2>1. PICK row : Go(Sweeper, [q EXCEPT !.pc = "record", !.row = row]) /\ q.pc = "open"
    BY <1>1, <1>8 DEF OpenRow
  <2>2. PICK z : z = [q EXCEPT !.pc = "record", !.row = row] OBVIOUS
  <2>3. z.plan = q.plan /\ z.was = q.was BY <1>2, <2>2 DEF Local
  <2> QED BY <1>5, <2>1, <2>2, <2>3
<1>9. CASE RefundDone(Sweeper) BY <1>4, <1>9 DEF RefundDone
<1> QED BY <1>6, <1>7, <1>8, <1>9

\* Recorded for a hold it let go: it goes on to give it back.
LEMMA AloneRecords ==
  ASSUME MoneyInv, MoneyInv', Starts, Well, Alone, Record(Sweeper)
  PROVE  Alone'
<1>0. Sweeper \in Callers BY DEF Callers
<1>1. req[Sweeper].pc = "record" /\ UNCHANGED appt BY DEF Record
<1>2. Owing /\ req[Sweeper].todo = {} /\ req[Sweeper].plan = {} BY <1>0, <1>1, OnlySweepSettles
<1>3. PICK q, s : q = req[Sweeper] /\ s = q.tx OBVIOUS
<1>4. q \in Local /\ Place(Sweeper, q) BY <1>0, <1>3 DEF MoneyInv, TypeOK, Well, Places
<1>5. q.row = First /\ First # None /\ pay[First].status # "deleted"
  BY <1>1, <1>2, <1>3, <1>4, RowsAssumption DEF Place, Starts, Owing, None
<1>6. /\ pay' = [pay EXCEPT ![First] = PaidWith(s)]
      /\ \/ Late(q) /\ Go(Sweeper, [q EXCEPT !.pc = "read", !.row = None, !.cents = Due])
         \/ ~Late(q) /\ Finish(Sweeper, TRUE)
  BY <1>3, <1>5 DEF Record
<1>7. appt.by = "system" => Late(q) BY <1>1, <1>3 DEF Alone, Late
<1>8. PICK z : Go(Sweeper, z) /\ z.plan = {} /\ z.pc \in {"read", "next"} /\ (Late(q) => z.pc = "read")
  <2>1. CASE ~Late(q) /\ Finish(Sweeper, TRUE)
    BY <1>0, <1>1, <1>2, <2>1, FinishAs DEF Well
  <2>2. CASE Late(q) /\ Go(Sweeper, [q EXCEPT !.pc = "read", !.row = None, !.cents = Due])
    <3>1. PICK z : z = [q EXCEPT !.pc = "read", !.row = None, !.cents = Due] OBVIOUS
    <3>2. z.pc = "read" /\ z.plan = {} BY <1>2, <1>3, <1>4, <3>1 DEF Local
    <3> QED BY <2>2, <3>1, <3>2
  <2> QED BY <1>6, <2>1, <2>2
<1>9. req'[Sweeper] = z /\ \A r \in Requests : req'[r] = Idle BY <1>8, OthersStay DEF MoneyInv
<1>10. pay'[First].amount = Due BY <1>6 DEF MoneyInv, TypeOK, Starts, PaidWith
<1> QED BY <1>1, <1>7, <1>8, <1>9, <1>10 DEF Alone, First

\* All of the row is in the plan.
LEMMA AloneReads ==
  ASSUME MoneyInv, Starts, Well, Alone, ReadPaid(Sweeper)
  PROVE  Alone'
<1>0. Sweeper \in Callers BY DEF Callers
<1>1. req[Sweeper].pc = "read" /\ UNCHANGED <<pay, appt>> BY DEF ReadPaid
<1>2. PICK q, plan : q = req[Sweeper] /\ plan = Plan(PaidRows, q.cents) OBVIOUS
<1>3. q \in Local /\ Place(Sweeper, q) BY <1>0, <1>2 DEF MoneyInv, TypeOK, Well, Places
<1>4. q.cents = Due BY <1>1, <1>2, <1>3 DEF Place
<1>5. PICK s \in Sessions : Balanced(s) BY <1>0, <1>1, Refunds DEF Refunding
<1>6. PaidRows = IF pay[First].status = "PAID" THEN {First} ELSE {} BY <1>5, PaidTotal
<1>7. \A p \in plan : p.row \in PaidRows /\ p.read = pay[p.row].amount
  BY <1>2, <1>3, PlanSound DEF MoneyInv, Local, PaidRows, Sound, Part
<1>8. \A p \in plan : Kept = p.read BY <1>6, <1>7 DEF Kept
<1>9. ASSUME pay[First].status = "PAID" PROVE plan # {}
  <2>1. PaidRows = {First} BY <1>6, <1>9
  <2>2. Before({First}, First) = {}
    <3>1. pay[First].amount \in Nat /\ First \in Nat BY RowsAssumption DEF MoneyInv, TypeOK, PayRow, Starts
    <3> QED BY <3>1 DEF Before
  <2>3. pay[First].amount = Due BY <1>9 DEF Alone
  <2>4. Share({First}, Due, First) = Due BY <2>2, <2>3, AmountNone, DueType DEF Share, Least
  <2> QED BY <1>2, <1>4, <2>1, <2>4, DueType DEF Plan
<1>10. PICK z : z = [q EXCEPT !.pc = "ask", !.plan = plan] OBVIOUS
<1>11. Go(Sweeper, z) /\ z.plan = plan /\ z.pc = "ask" BY <1>2, <1>3, <1>10 DEF ReadPaid, Local
<1>12. req'[Sweeper] = z /\ \A r \in Requests : req'[r] = Idle BY <1>11, OthersStay DEF MoneyInv
<1> QED BY <1>1, <1>8, <1>9, <1>11, <1>12 DEF Alone, Kept, First

\* The provider still has it, and does not refuse.
LEMMA AloneAsks ==
  ASSUME MoneyInv, Starts, Well, Quiet, Alone, AskProvider(Sweeper)
  PROVE  Alone'
<1>0. Sweeper \in Callers BY DEF Callers
<1>1. req[Sweeper].pc = "ask" /\ req[Sweeper].plan # {} /\ UNCHANGED <<pay, appt>> BY DEF AskProvider
<1>2. PICK s \in Sessions : Balanced(s) BY <1>0, <1>1, Refunds DEF Refunding
<1>3. PICK p \in Part :
        /\ p = Largest(req[Sweeper].plan) /\ req[Sweeper].plan = {p} /\ p.row = First /\ p.tx = s
        /\ p.cents \in Nat /\ p.read \in Nat /\ p.cents > 0 /\ p.cents <= p.read
  BY <1>0, <1>1, <1>2, InHand
<1>4. PICK q : q = req[Sweeper] OBVIOUS
<1>5. q \in Local BY <1>0, <1>4 DEF MoneyInv, TypeOK
<1>6. p.cents = p.read /\ Kept = p.read BY <1>0, <1>2, <1>3 DEF Balanced, Own, Alone
<1>7. \A r \in Callers : ~Marking(r) BY <1>1, JobLocal DEF Alone, Marking, Callers, Idle
<1>8. Kept + returned[s] = Due BY <1>2, <1>7 DEF Balanced, GivenBack
<1>9. Gives(s, p.cents) BY <1>3, <1>6, <1>8, Nats, DueType DEF Gives
<1>10. Go(Sweeper, [q EXCEPT !.pc = "mark"]) BY <1>3, <1>4, <1>9 DEF AskProvider, Quiet
<1>11. PICK z : z = [q EXCEPT !.pc = "mark"] OBVIOUS
<1>12. z.plan = req[Sweeper].plan /\ z.pc = "mark" BY <1>4, <1>5, <1>11 DEF Local
<1>13. req'[Sweeper] = z /\ \A r \in Requests : req'[r] = Idle BY <1>10, <1>11, OthersStay DEF MoneyInv
<1> QED BY <1>1, <1>12, <1>13 DEF Alone, Kept, First

LEMMA AloneMarks ==
  ASSUME MoneyInv, Starts, Well, Alone, MarkRefunded(Sweeper)
  PROVE  Alone'
<1>0. Sweeper \in Callers BY DEF Callers
<1>1. req[Sweeper].pc = "mark" /\ req[Sweeper].plan # {} /\ UNCHANGED appt
  BY <1>0, MarksAPart DEF MarkRefunded
<1>2. PICK s \in Sessions : Balanced(s) BY <1>0, <1>1, Refunds DEF Refunding
<1>3. PICK p \in Part :
        /\ p = Largest(req[Sweeper].plan) /\ req[Sweeper].plan = {p} /\ p.row = First /\ p.tx = s
        /\ p.cents \in Nat /\ p.read \in Nat /\ p.cents > 0 /\ p.cents <= p.read
  BY <1>0, <1>1, <1>2, InHand
<1>4. PICK q : q = req[Sweeper] OBVIOUS
<1>5. q \in Local BY <1>0, <1>4 DEF MoneyInv, TypeOK
<1>6. p.cents = p.read BY <1>0, <1>2, <1>3 DEF Balanced, Own
<1>7. pay[First].status # "deleted" BY <1>2 DEF Balanced, Filled
<1>8. pay' = [pay EXCEPT ![First].status = "REFUNDED"] /\ Go(Sweeper, [q EXCEPT !.pc = "ask", !.plan = @ \ {p}])
  BY <1>3, <1>4, <1>6, <1>7 DEF MarkRefunded
<1>9. PICK z : z = [q EXCEPT !.pc = "ask", !.plan = @ \ {p}] OBVIOUS
<1>10. z.plan = {} /\ z.pc = "ask" BY <1>3, <1>4, <1>5, <1>9 DEF Local
<1>11. req'[Sweeper] = z /\ \A r \in Requests : req'[r] = Idle BY <1>8, <1>9, OthersStay DEF MoneyInv
<1>12. pay'[First].status = "REFUNDED"
  <2>1. First \in Rows /\ pay[First] \in PayRow BY DEF Starts, MoneyInv, TypeOK
  <2> QED BY <1>8, <2>1 DEF MoneyInv, TypeOK, PayRow
<1> QED BY <1>1, <1>10, <1>11, <1>12 DEF Alone, First

\* It lets a hold go before anything was recorded.
LEMMA AloneCancels ==
  ASSUME MoneyInv, MoneyInv', Starts, Well, Alone, Cancel(Sweeper)
  PROVE  Alone'
<1>0. Sweeper \in Callers BY DEF Callers
<1>1. PICK q : q = req[Sweeper] OBVIOUS
<1>2. q.pc = "cancel" BY <1>1 DEF Cancel
<1>3. q \in Local /\ Place(Sweeper, q) BY <1>0, <1>1 DEF MoneyInv, TypeOK, Well, Places
<1>4. Owing BY <1>0, <1>1, <1>2 DEF Well, Balanced, Own
<1>5. q.todo = {} /\ q.via = "sweep" BY <1>2, <1>3 DEF Place
<1>6. appt' = [appt EXCEPT !.status = "CANCELLED", !.by = "system"] BY <1>1, <1>5 DEF Cancel
<1>7. pay'[First].status # "PAID"
  <2>1. pay[First] \in PayRow /\ First \in Rows BY DEF Starts, MoneyInv, TypeOK
  <2>2. pay'[First] = IF pay[First].status = "PENDING" THEN [pay[First] EXCEPT !.status = "FAILED"]
                      ELSE pay[First]
    BY <2>1 DEF Cancel
  <2> QED BY <1>4, <2>1, <2>2 DEF Owing, PayRow
<1>8. PICK z : Go(Sweeper, z) /\ z.plan = {} /\ z.pc \in {"money", "next"}
  <2>1. CASE Finish(Sweeper, TRUE) BY <1>0, <1>1, <1>2, <1>5, <2>1, FinishAs DEF Well
  <2>2. CASE Go(Sweeper, [q EXCEPT !.pc = "money"])
    <3>1. PICK z : z = [q EXCEPT !.pc = "money"] OBVIOUS
    <3>2. z.pc = "money" /\ z.plan = q.plan BY <1>3, <3>1 DEF Local
    <3>3. q.plan = {} BY <1>2, <1>3 DEF Place
    <3> QED BY <2>2, <3>1, <3>2, <3>3
  <2> QED BY <1>1, <2>1, <2>2 DEF Cancel
<1>9. req'[Sweeper] = z /\ \A r \in Requests : req'[r] = Idle BY <1>8, OthersStay DEF MoneyInv
<1>10. appt'.status = "CANCELLED" BY <1>6 DEF MoneyInv, TypeOK, ApptRow
<1> QED BY <1>7, <1>8, <1>9, <1>10 DEF Alone, First

LEMMA AloneMoney ==
  ASSUME MoneyInv, Starts, Well, Alone, CancelMoney(Sweeper)
  PROVE  Alone'
<1>0. Sweeper \in Callers BY DEF Callers
<1>1. req[Sweeper].pc = "money" /\ UNCHANGED <<pay, appt>> BY DEF CancelMoney
<1>2. Owing /\ req[Sweeper].plan = {} BY <1>0, <1>1 DEF Well, Balanced, Own, Places, Place
<1>3. Amount(PaidRows) = 0 BY <1>2, AmountNone, PaidTotal
<1>4. Finish(Sweeper, TRUE) BY <1>3 DEF CancelMoney
<1> QED BY <1>1, <1>2, <1>4, AloneEnds

LEMMA AloneRound ==
  ASSUME MoneyInv, Starts, Well, Alone, Round
  PROVE  Alone'
<1>0. Sweeper \in Callers BY DEF Callers
<1>1. PICK q : q = req[Sweeper] OBVIOUS
<1>2. q \in Local /\ Place(Sweeper, q) BY <1>0, <1>1 DEF MoneyInv, TypeOK, Well, Places
<1>3. /\ UNCHANGED <<pay, appt>>
      /\ q.pc \in {"idle", "next", "hold"} /\ q.plan = {}
  BY <1>1, <1>2, JobLocal DEF Round, BeginSweep, Begin, SweepAsks, SweepSkips, TakeRow, SweepEnds, ReleaseHold, Place, Idle
<1>4. PICK z : /\ Go(Sweeper, z) /\ z.plan = {}
               /\ z.pc \in {"already", "lookup", "open", "record"} => z.was = appt.status
  <2>1. CASE BeginSweep
    <3>1. PICK todo, j : todo = {<<i, PendingHold(i)>> : i \in Swept} /\ j = Job("next", "sweep") OBVIOUS
    <3>2. PICK z : z = [j EXCEPT !.todo = todo] OBVIOUS
    <3>3. Go(Sweeper, z) BY <2>1, <3>1, <3>2 DEF BeginSweep, Begin, Go
    <3>4. j \in Local /\ j.plan = {} /\ j.pc = "next" BY <3>1, JobLocal
    <3>5. z.plan = {} /\ z.pc = "next" BY <3>2, <3>4 DEF Local
    <3> QED BY <3>3, <3>5
  <2>2. ASSUME NEW pc, TakeRow(pc)
        PROVE  \E z : Go(Sweeper, z) /\ z.plan = {} /\ z.was = appt.status
    <3>1. PICK todo, row : Go(Sweeper, [q EXCEPT !.todo = todo, !.row = row, !.was = appt.status, !.pc = pc])
      BY <1>1, <2>2 DEF TakeRow
    <3>2. PICK z : z = [q EXCEPT !.todo = todo, !.row = row, !.was = appt.status, !.pc = pc] OBVIOUS
    <3>3. z.plan = {} /\ z.was = appt.status BY <1>2, <1>3, <3>2 DEF Local
    <3> QED BY <3>1, <3>2, <3>3
  <2>3. CASE SweepEnds
    <3>1. Go(Sweeper, Idle) BY <2>3 DEF SweepEnds
    <3>2. Idle.plan = {} /\ Idle.pc = "idle" BY DEF Idle, Job
    <3> QED BY <3>1, <3>2
  <2>4. CASE ReleaseHold
    <3>1. \/ Go(Sweeper, [q EXCEPT !.pc = "cancel", !.row = None, !.was = appt.status])
          \/ Go(Sweeper, [q EXCEPT !.pc = "next", !.row = None])
      BY <1>1, <2>4 DEF ReleaseHold
    <3>2. CASE Go(Sweeper, [q EXCEPT !.pc = "cancel", !.row = None, !.was = appt.status])
      <4>1. PICK z : z = [q EXCEPT !.pc = "cancel", !.row = None, !.was = appt.status] OBVIOUS
      <4>2. z.plan = {} /\ z.pc = "cancel" BY <1>2, <1>3, <4>1 DEF Local
      <4> QED BY <3>2, <4>1, <4>2
    <3>3. CASE Go(Sweeper, [q EXCEPT !.pc = "next", !.row = None])
      <4>1. PICK z : z = [q EXCEPT !.pc = "next", !.row = None] OBVIOUS
      <4>2. z.plan = {} /\ z.pc = "next" BY <1>2, <1>3, <4>1 DEF Local
      <4> QED BY <3>3, <4>1, <4>2
    <3> QED BY <3>1, <3>2, <3>3
  <2> QED BY <2>1, <2>2, <2>3, <2>4 DEF Round, SweepAsks, SweepSkips
<1>5. z.pc \in {"already", "lookup", "open", "record"} => z.was = "CANCELLED" \/ appt.by # "system"
  BY <1>4 DEF Alone
<1> QED BY <1>1, <1>3, <1>4, <1>5, AloneGoes DEF MoneyInv

LEMMA AloneStep ==
  ASSUME MoneyInv, MoneyInv', Starts, Well, Alone, world = {"checkout"}, [Next]_vars
  PROVE  Alone'
<1>0. Quiet BY DEF Quiet
<1>1. CASE UNCHANGED <<pay, appt, req>> BY <1>1 DEF Alone, Kept, First
<1>2. ASSUME NEW s \in Sessions, StartCheckout(s) \/ Pay(s) PROVE Alone'
  BY <1>1, <1>2 DEF StartCheckout, Pay
<1>3. ASSUME NEW r \in Requests, BeginReturn(r) \/ BeginWebhook(r) \/ BeginCancel(r) \/ BeginRemove(r)
      PROVE  FALSE
  BY <1>3 DEF BeginReturn, BeginWebhook, BeginCancel, BeginRemove
<1>4. ASSUME NEW r \in Callers, Step(r) PROVE Alone'
  <2>1. r = Sweeper
    <3>1. req[r].pc # "idle"
      BY <1>4 DEF Step, Already, Lookup, LookupFails, OpenRow, Record, ReadPaid, AskProvider, MarkRefunded, SplitRow,
                  RefundDone, Cancel, CancelMoney, Remove
    <3> QED BY <3>1, JobLocal DEF Alone, Idle, Callers
  <2>2. ~LookupFails(r) BY DEF LookupFails
  <2>3. ~Remove(r) BY DEF Remove, Well, Places, Place, Refunding
  <2>4. ~SplitRow(r) BY <2>1 DEF SplitRow, Well, Places, Place
  <2> QED BY <1>0, <1>4, <2>1, <2>2, <2>3, <2>4, AloneSettles, AloneRecords, AloneReads, AloneAsks, AloneMarks,
             AloneCancels, AloneMoney DEF Step
<1>5. CASE Round BY <1>5, AloneRound
<1>6. CASE GrowOld BY <1>1, <1>6 DEF GrowOld
<1>7. CASE Arrive
  <2>1. appt.by # "system" BY <1>7 DEF Alone, Arrive
  <2>2. appt'.by = appt.by BY <1>7 DEF Arrive, MoneyInv, TypeOK, ApptRow
  <2> QED BY <1>7, <2>1, <2>2 DEF Arrive, Alone, Kept, First
<1>8. ~Crash BY DEF Crash
<1> QED BY <1>1, <1>2, <1>3, <1>4, <1>5, <1>6, <1>7, <1>8 DEF Next, Round, vars

\* The world is not another's that shrank: such a world would lose answers or restart.
AloneInv == MoneyInv /\ Starts /\ Loud /\ (world = {"checkout"} => Well /\ Alone)

LEMMA AloneBegins ==
  ASSUME Init, SweepWorlds
  PROVE  AloneInv
<1>1. MoneyInv /\ SweepInv BY MoneyBegins, SweepBegins
<1>2. world = {"checkout"} => Well BY <1>1 DEF SweepInv, Sweeping, Quiet
<1>3. Alone
  <2>1. req[Sweeper] = Idle /\ \A r \in Requests : req[r] = Idle BY DEF Init, Callers
  <2>2. appt.by = "nobody" BY DEF Init
  <2>3. pay[First].status # "PAID"
    <3>1. pay[First].status \in {"PENDING", "none"} BY <1>1 DEF Init, SweepInv, Starts, NoRow
    <3> QED BY <3>1
  <2>4. Idle.plan = {} BY DEF Idle, Job
  <2> QED BY <2>1, <2>2, <2>3, <2>4 DEF Alone
<1> QED BY <1>1, <1>2, <1>3 DEF AloneInv, SweepInv

LEMMA AloneInvStep ==
  ASSUME AloneInv, MoneyInv', [Next]_vars
  PROVE  AloneInv'
<1>1. Starts' BY DEF AloneInv, Starts, First
<1>2. world' \in {world, world \ {"lost"}, world \ {"crash"}} BY WorldShrinks
<1>3. Loud' BY <1>2 DEF AloneInv, Loud, Quiet
<1>4. ASSUME world' = {"checkout"} PROVE Well' /\ Alone'
  <2>1. world \cap {"return", "webhook", "remove"} = {}
    <3>1. \A x \in world : x \in world' \/ x = "lost" \/ x = "crash" BY <1>2
    <3> QED BY <1>4, <3>1
  <2>2. Quiet BY <2>1 DEF AloneInv, Loud
  <2>3. world = {"checkout"} BY <1>2, <1>4, <2>2 DEF Quiet
  <2>4. Well /\ Alone BY <2>3 DEF AloneInv
  <2>5. OneAtWork BY <2>4, JobLocal DEF Alone, OneAtWork, Idle
  <2> QED BY <2>2, <2>3, <2>4, <2>5, WellStep, AloneStep DEF AloneInv
<1> QED BY <1>1, <1>3, <1>4 DEF AloneInv

\* SweepReturnsAll, money for a hold that was let go, where nobody but the sweep is at
\* work: what she paid after all on a hold that ran out, the round that finds it records
\* and gives back whole, whenever she pays and however its rounds fall.
THEOREM SweepReturnsAllCorrect ==
  ASSUME SweepWorlds
  PROVE  Spec => []SweepReturnsAll
<1>1. Init => AloneInv BY AloneBegins
<1>2. AloneInv /\ [Next]_vars => AloneInv'
  <2> SUFFICES ASSUME AloneInv, [Next]_vars PROVE AloneInv' OBVIOUS
  <2>1. MoneyInv' BY MoneyStep DEF AloneInv
  <2> QED BY <2>1, AloneInvStep
<1>3. AloneInv => SweepReturnsAll
  <2> SUFFICES ASSUME AloneInv, world = {"checkout"}, AllIdle, appt.by = "system" PROVE PaidRows = {}
    BY DEF SweepReturnsAll, LapsedHoldKeepsNothing
  <2>1. Well /\ Alone /\ Starts /\ MoneyInv BY DEF AloneInv
  <2>2. req[Sweeper].pc = "idle" /\ req[Sweeper].plan = {} BY DEF AllIdle, Callers, Idle, Job
  <2>3. pay[First].status # "PAID" BY <2>1, <2>2 DEF Alone
  <2>4. CASE Owing BY <2>1, <2>4, PaidTotal
  <2>5. ASSUME NEW s \in Sessions, Balanced(s) PROVE PaidRows = {} BY <2>1, <2>3, <2>5, PaidTotal
  <2> QED BY <2>1, <2>4, <2>5 DEF Well
<1> QED BY <1>1, <1>2, <1>3, PTL DEF Spec
=============================================================================
