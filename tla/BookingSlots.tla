---------------------------- MODULE BookingSlots ----------------------------
(***************************************************************************)
(* The appointment book of one salon: who holds which technician's time.   *)
(*                                                                         *)
(* Source: apps/api/src/bookings/bookings.service.ts and the routines it   *)
(* calls.  A handler of the service is a request r: it reads the booking   *)
(* outside any transaction, then, inside one READ COMMITTED transaction,   *)
(* takes pg_advisory_xact_lock(tenant:staff), queries for an overlap, and  *)
(* writes.  So a handler is three steps here (Begin..., Check, Commit...), *)
(* with every other request free to run in between.  The query and the     *)
(* lock are one step: the statement's snapshot is taken after the lock is  *)
(* granted.  Handlers that write a status in one statement are one step.   *)
(*                                                                         *)
(* One business day is modelled: slots 0 .. Horizon, "now" reaching        *)
(* Horizon when the salon's own midnight has passed.                       *)
(***************************************************************************)
EXTENDS Integers, FiniteSets

CONSTANTS Appointments,  \* ids the appointment table may hold
          Staff,         \* technicians
          Requests,      \* handlers in flight at once
          Timer,         \* the request of HousekeepingService's interval
          None,          \* SQL NULL
          Horizon,       \* number of slots of the day (bound)
          Gap,           \* BookingRules.bufferMinutes, in slots
          Off,           \* approved time off <<staff, slot>>; <<None, slot>>: whole salon
          MustAccept,    \* BookingRules.staffMustAccept
          Ops            \* the operations a run lets happen

ASSUME TimerAssumption   == Timer \in Requests
ASSUME NoneAssumption    == None \notin Staff /\ None \notin Appointments
ASSUME HorizonAssumption == Horizon \in Nat \ {0}
ASSUME GapAssumption     == Gap \in Nat
ASSUME OffAssumption     == Off \subseteq ((Staff \cup {None}) \X Nat)
ASSUME MustAcceptAssumption == MustAccept \in BOOLEAN

VARIABLES now,        \* the clock, in slots
          present,    \* is the row in the table, in the trash, or not yet made
          appt,       \* the row (the trash keeps its last content)
          rejections, \* bookingRejection rows: who refused or stayed silent
          req,        \* the local state of each request
          unchecked   \* history: what nobody checked about a row's placement

vars == <<now, present, appt, rejections, req, unchecked>>

-----------------------------------------------------------------------------
Time     == 0 .. Horizon
StaffOrNone == Staff \cup {None}

BLOCKING_STATUSES == {"ASSIGNED", "ACCEPTED", "CONFIRMED", "ARRIVED"}
ACTIONABLE        == {"PENDING", "ASSIGNED", "ACCEPTED", "CONFIRMED"}
WAITING           == {"PENDING", "ASSIGNED", "ACCEPTED", "REJECTED"}
FINAL             == {"CANCELLED", "COMPLETED", "NO_SHOW", "REJECTED"}
Statuses          == BLOCKING_STATUSES \cup ACTIONABLE \cup FINAL

Row == [status : Statuses, staff : StaffOrNone, start : Time, end : Time,
        deadline : {"none", "set", "passed"}]

\* What a write of a row may leave unchecked: the overlap, or the time off.
Kinds == {"slot", "off"}

\* A request at point pc of handler op, for booking b, technician s, span [st, en).
Job(pc, op, b, s, st, en, keep) ==
  [pc |-> pc, op |-> op, id |-> b, staff |-> s, start |-> st, end |-> en,
   keep |-> keep, vetted |-> {}, todo |-> {}]

Idle == Job("idle", "none", None, None, 0, 0, FALSE)

\* Handlers that hand an existing booking to a technician; a new booking is
\* staffed by the engine as "staffNew" (the desk's) or "staffPublic".
StaffingOps == {"staffNew", "staffPublic"}
EngineOps == StaffingOps \cup {"reject", "autoAssign", "sweep"}
HandOps   == {"assign", "selfTech", "move"} \cup EngineOps
TimeOps   == {"reschedule", "selfMove"}
EndOps    == {"stretch", "addServices"}
MarkOps   == {"accept", "confirmByToken", "arrive", "noShow", "complete"}

LocalRecord ==
         [pc     : {"idle", "check", "commit", "rank", "giveup", "sweep",
                    "clear", "confirm", "seat", "write"},
          op     : {"none", "create", "publicCreate"}
                     \cup HandOps \cup TimeOps \cup EndOps \cup MarkOps,
          id     : Appointments \cup {None},
          staff  : StaffOrNone,
          start  : Time,
          end    : Time,
          keep   : BOOLEAN,
          vetted : SUBSET Kinds,
          todo   : SUBSET (Appointments \X Staff)]

\* What each point of a handler has at hand.
WellFormed(q) ==
  /\ q.pc \in {"check", "commit", "rank", "giveup", "confirm", "seat", "write"}
       => q.id \in Appointments
  /\ q.pc = "check" => q.staff \in Staff
  /\ q.pc = "commit" /\ q.vetted # {} => q.staff \in Staff
  /\ q.pc = "write" => q.op \in MarkOps

Local == {q \in LocalRecord : WellFormed(q)}

Live(b) == present[b] = "live"

\* Half-open intervals, with the salon's rest gap on both sides.
Overlaps(s1, e1, s2, e2, pad) == s1 < e2 + pad /\ s2 < e1 + pad

\* A row takes its technician's time.
Takes(row) == row.status \in BLOCKING_STATUSES /\ row.staff # None
Blocks(b)  == Live(b) /\ Takes(appt[b])

\* The part of a placement g that h asks for is all of h.
Inside(h, g) == h.staff = g.staff /\ g.start <= h.start /\ h.end <= g.end

\* Mutants of the query: only the visits still to come, only the confirmed ones,
\* and only those under way at the instant the new visit starts.
ConflictToCome(s, st, en, pad, except) ==
  \E b \in Appointments \ {except} :
     /\ Live(b) /\ appt[b].status \in BLOCKING_STATUSES \ {"ARRIVED"} /\ appt[b].staff = s
     /\ Overlaps(appt[b].start, appt[b].end, st, en, pad)

ConflictConfirmed(s, st, en, pad, except) ==
  \E b \in Appointments \ {except} :
     /\ Live(b) /\ appt[b].status = "CONFIRMED" /\ appt[b].staff = s
     /\ Overlaps(appt[b].start, appt[b].end, st, en, pad)

ConflictAtStart(s, st, en, pad, except) ==
  \E b \in Appointments \ {except} :
     /\ Blocks(b)
     /\ appt[b].staff = s
     /\ Overlaps(appt[b].start, appt[b].end, st, st + 1, pad)

\* assertNoOverlap's query, for everyone but booking "except".
Conflict(s, st, en, pad, except) ==
  \E b \in Appointments \ {except} :
     /\ Blocks(b)
     /\ appt[b].staff = s
     /\ Overlaps(appt[b].start, appt[b].end, st, en, pad)

\* assertNotOff: the technician's time off, or a whole-salon block.
OffAt(s, st, en) ==
  \E o \in Off : o[1] \in {s, None} /\ st <= o[2] /\ o[2] < en

\* Mutant: the overlap query runs without the advisory lock.
NoLock(s) == FALSE

\* lockStaffSlot is held from the overlap query to the end of the transaction.
SlotLocked(s) == \E q \in Requests : req[q].pc = "commit" /\ req[q].staff = s

-----------------------------------------------------------------------------
\* Every booking update goes through here.  The placement h was checked for the
\* kinds in "ok"; a row that takes no time, or part of what it already took,
\* leaves nothing new unchecked.
WriteRow(b, row, h, ok) ==
  /\ appt' = [appt EXCEPT ![b] = row]
  /\ unchecked' = [unchecked EXCEPT ![b] =
       {k \in Kinds : /\ Takes(row)
                      /\ ~(k \in ok /\ Inside(row, h))
                      /\ ~(Blocks(b) /\ Inside(row, appt[b]) /\ k \notin unchecked[b])}]

\* A write of booking b that no check preceded.
WriteUnchecked(b, row) == WriteRow(b, row, row, {})

\* updateMany({ where: { id } }): no row, no write.
UpdateIfLive(b, row, h, ok) ==
  IF Live(b) THEN WriteRow(b, row, h, ok) ELSE UNCHANGED <<appt, unchecked>>

Begin(r, q) == req[r] = Idle /\ req' = [req EXCEPT ![r] = q]
Goto(r, q)  == req' = [req EXCEPT ![r] = q]

\* Where a request goes when its transaction is over: the sweep to its next
\* booking, a new booking to its confirmation, every other handler home.
ToConfirm(q, s) == Job("confirm", q.op, q.id, s, 0, 0, q.keep)

Resume(q) == CASE q.op \in StaffingOps -> ToConfirm(q, q.staff)
               [] q.op = "sweep" -> [Idle EXCEPT !.pc = "sweep", !.op = "sweep",
                                                 !.todo = q.todo]
               [] OTHER          -> Idle

\* ... and when it throws: createForTenant swallows the engine's failure, the
\* sweep of this salon stops at the first one.
Thrown(q) == IF q.op \in StaffingOps THEN ToConfirm(q, None) ELSE Idle

Init ==
  /\ now = 0
  /\ present = [b \in Appointments |-> "unborn"]
  /\ appt = [b \in Appointments |->
               [status |-> "PENDING", staff |-> None, start |-> 0, end |-> 0,
                deadline |-> "none"]]
  /\ rejections = [b \in Appointments |-> {}]
  /\ req = [r \in Requests |-> Idle]
  /\ unchecked = [b \in Appointments |-> {}]

-----------------------------------------------------------------------------
\* The reads that open a handler.

\* createForTenant up to its transaction; the id is the row it will insert.
BeginCreate(r) ==
  \E op \in {"create", "publicCreate"} \cap Ops, b \in Appointments, s \in StaffOrNone,
     st, en \in Time, confirmNow \in BOOLEAN :
     /\ present[b] = "unborn"
     /\ \A q \in Requests : req[q].id # b
     /\ st < en
     /\ op = "publicCreate" => st > now
     /\ confirmNow => op = "create" /\ s # None
     /\ s = None => ~OffAt(None, st, en)
     /\ Begin(r, Job(IF s = None THEN "commit" ELSE "check", op, b, s, st, en, confirmNow))
     /\ UNCHANGED <<now, present, appt, rejections, unchecked>>

\* assign (the desk) and selfChangeTech (hotline, chat).
BeginAssign(r) ==
  \E op \in {"assign", "selfTech"} \cap Ops, b \in Appointments, s \in Staff :
     /\ Live(b)
     /\ op = "selfTech" => appt[b].status \in ACTIONABLE /\ appt[b].staff # s
     /\ Begin(r, Job("check", op, b, s, appt[b].start, appt[b].end,
                     appt[b].status \in {"CONFIRMED", "ARRIVED"}))
     /\ UNCHANGED <<now, present, appt, rejections, unchecked>>

\* The calendar's drag to another technician.
BeginMove(r) ==
  \E b \in Appointments, s \in Staff, st \in Time :
     LET en == st + appt[b].end - appt[b].start IN
     /\ "move" \in Ops
     /\ Live(b) /\ appt[b].status \notin FINAL
     /\ s # appt[b].staff
     /\ en \in Time
     /\ Begin(r, Job("check", "move", b, s, st, en,
                     appt[b].status \in {"CONFIRMED", "ARRIVED"}))
     /\ UNCHANGED <<now, present, appt, rejections, unchecked>>

\* reschedule (the desk) and selfReschedule (hotline, chat).
BeginReschedule(r) ==
  \E op \in TimeOps \cap Ops, b \in Appointments, st \in Time :
     LET en == st + appt[b].end - appt[b].start IN
     /\ Live(b)
     /\ op = "reschedule" => /\ appt[b].status \notin FINAL
                             /\ appt[b].staff = None => ~OffAt(None, st, en)
     /\ op = "selfMove" => /\ appt[b].status \in ACTIONABLE
                           /\ st > now /\ appt[b].start > now /\ st # appt[b].start
     /\ en \in Time
     /\ Begin(r, Job(IF appt[b].staff = None THEN "commit" ELSE "check", op, b,
                     appt[b].staff, st, en, FALSE))
     /\ UNCHANGED <<now, present, appt, rejections, unchecked>>

\* editLines: the visit gets longer or shorter at its end.  Only a longer one
\* with a technician looks at the calendar.
BeginStretch(r) ==
  \E b \in Appointments, en \in Time :
     LET looks == appt[b].staff # None /\ en > appt[b].end IN
     /\ "stretch" \in Ops
     /\ Live(b) /\ appt[b].status \notin {"CANCELLED", "REJECTED"}
     /\ en > appt[b].start
     /\ Begin(r, Job(IF looks THEN "check" ELSE "commit", "stretch", b,
                     IF looks THEN appt[b].staff ELSE None, appt[b].start, en,
                     appt[b].status \in {"ARRIVED", "COMPLETED"}))
     /\ UNCHANGED <<now, present, appt, rejections, unchecked>>

\* addServicesToAppointment: the visit grows at the end.
BeginAddServices(r) ==
  \E b \in Appointments, en \in Time :
     /\ "addServices" \in Ops
     /\ Live(b) /\ appt[b].status \notin {"CANCELLED", "COMPLETED"}
     /\ en > appt[b].end
     /\ Begin(r, Job(IF appt[b].staff = None THEN "commit" ELSE "check", "addServices", b,
                     appt[b].staff, appt[b].start, en, FALSE))
     /\ UNCHANGED <<now, present, appt, rejections, unchecked>>

\* The technician on an ASSIGNED booking refuses it; then the engine runs.
BeginReject(r) ==
  \E b \in Appointments :
     /\ "reject" \in Ops
     /\ Live(b) /\ appt[b].status = "ASSIGNED" /\ appt[b].staff # None
     /\ rejections' = [rejections EXCEPT ![b] = @ \cup {appt[b].staff}]
     /\ Begin(r, Job("rank", "reject", b, None, 0, 0, FALSE))
     /\ UNCHANGED <<now, present, appt, unchecked>>

\* The desk asks the engine for a technician, whatever the booking's status.
BeginAutoAssign(r) ==
  \E b \in Appointments :
     /\ "autoAssign" \in Ops
     /\ Live(b)
     /\ Begin(r, Job("rank", "autoAssign", b, None, 0, 0, FALSE))
     /\ UNCHANGED <<now, present, appt, rejections, unchecked>>

\* expireAssigned's query: who has been silent past the deadline.
Expired(b) == /\ Live(b)
              /\ appt[b].status = "ASSIGNED"
              /\ appt[b].deadline = "passed"
              /\ appt[b].staff # None

BeginSweep(r) ==
  LET found == {b \in Appointments : Expired(b)} IN
  /\ "sweep" \in Ops
  /\ found # {}
  /\ Begin(r, [Idle EXCEPT !.pc = IF MustAccept THEN "sweep" ELSE "clear", !.op = "sweep",
                           !.todo = {<<b, appt[b].staff>> : b \in found}])
  /\ UNCHANGED <<now, present, appt, rejections, unchecked>>

\* What a handler that reads a status and then writes one requires of the first.
MayMark(op, row) ==
  CASE op = "accept"         -> row.status = "ASSIGNED" /\ row.staff # None
    [] op = "confirmByToken" -> row.status \in ACTIONABLE
    [] op = "arrive"         -> row.status \in ACTIONABLE
    [] op = "noShow"         -> row.status # "COMPLETED"
    [] op = "complete"       -> row.status # "COMPLETED"

MarkTo == [accept |-> "ACCEPTED", confirmByToken |-> "CONFIRMED", arrive |-> "ARRIVED",
           noShow |-> "NO_SHOW", complete |-> "COMPLETED"]

BeginMark(r) ==
  \E op \in MarkOps \cap Ops, b \in Appointments :
     /\ Live(b) /\ MayMark(op, appt[b])
     /\ Begin(r, Job("write", op, b, None, 0, 0, FALSE))
     /\ UNCHANGED <<now, present, appt, rejections, unchecked>>

-----------------------------------------------------------------------------
\* The engine (reassign / rankEligibleStaff / assignStaff).

\* Mutant: the silence is not recorded, so the engine may ask the same one again.
SweepForgets(r) ==
  /\ req[r].pc = "sweep" /\ req[r].todo # {}
  /\ \E e \in req[r].todo :
       Goto(r, [req[r] EXCEPT !.pc = "rank", !.id = e[1], !.todo = @ \ {e}])
  /\ UNCHANGED <<now, present, appt, rejections, unchecked>>

\* The sweep's loop body: the silence is recorded, then the engine runs.
SweepNext(r) ==
  /\ req[r].pc = "sweep" /\ req[r].todo # {}
  /\ \E e \in req[r].todo :
       IF present[e[1]] = "live"
       THEN /\ rejections' = [rejections EXCEPT ![e[1]] = @ \cup {e[2]}]
            /\ Goto(r, [req[r] EXCEPT !.pc = "rank", !.id = e[1], !.todo = @ \ {e}])
       ELSE /\ Goto(r, Idle)                \* the insert has no row to refer to
            /\ UNCHANGED rejections
  /\ UNCHANGED <<now, present, appt, unchecked>>

SweepDone(r) ==
  /\ req[r].pc = "sweep" /\ req[r].todo = {}
  /\ Goto(r, Idle)
  /\ UNCHANGED <<now, present, appt, rejections, unchecked>>

\* A salon that does not ask for Accept: the deadlines found are cleared.
SweepClear(r) ==
  /\ req[r].pc = "clear"
  /\ appt' = [b \in Appointments |->
       IF (\E e \in req[r].todo : e[1] = b) /\ Live(b) /\ appt[b].status = "ASSIGNED"
       THEN [appt[b] EXCEPT !.deadline = "none"] ELSE appt[b]]
  /\ Goto(r, Idle)
  /\ UNCHANGED <<now, present, rejections, unchecked>>

Eligible(b) == {s \in Staff : /\ s \notin rejections[b]
                              /\ ~Conflict(s, appt[b].start, appt[b].end, Gap, b)
                              /\ ~OffAt(s, appt[b].start, appt[b].end)}

\* Mutant: the best candidate is taken without asking whether there is one.
RankBlindly(r) ==
  LET q == req[r]  b == q.id IN
  /\ q.pc = "rank" /\ Live(b)
  /\ \E s \in IF Eligible(b) = {} THEN {None} ELSE Eligible(b) :
       Goto(r, [q EXCEPT !.pc = "check", !.staff = s,
                         !.start = appt[b].start, !.end = appt[b].end])
  /\ UNCHANGED <<now, present, appt, rejections, unchecked>>

\* The order among eligible technicians is scoring: any of them may come first.
Rank(r) ==
  LET q == req[r]  b == q.id IN
  /\ q.pc = "rank"
  /\ \/ /\ ~Live(b)
        /\ Goto(r, Thrown(q))
     \/ /\ Live(b)
        /\ \E s \in Eligible(b) :
             Goto(r, [q EXCEPT !.pc = "check", !.staff = s,
                               !.start = appt[b].start, !.end = appt[b].end])
     \/ /\ Live(b) /\ Eligible(b) = {}
        /\ Goto(r, [q EXCEPT !.pc = "giveup", !.staff = None])
  /\ UNCHANGED <<now, present, appt, rejections, unchecked>>

\* Mutant: the sweep, too, sends a booking nobody can take back to the desk.
GiveUpStrips(r) ==
  LET q == req[r]  b == q.id IN
  /\ q.pc = "giveup"
  /\ UpdateIfLive(b, [appt[b] EXCEPT !.status = "PENDING", !.staff = None,
                                     !.deadline = "none"], q, {})
  /\ Goto(r, Resume(q))
  /\ UNCHANGED <<now, present, rejections>>

\* Nobody qualifies: the sweep leaves the technician and clears the deadline of
\* a booking still ASSIGNED; everyone else sends the booking back to the desk.
GiveUp(r) ==
  LET q == req[r]  b == q.id IN
  /\ q.pc = "giveup"
  /\ IF q.op = "sweep"
     THEN IF Live(b) /\ appt[b].status = "ASSIGNED"
          THEN WriteUnchecked(b, [appt[b] EXCEPT !.deadline = "none"])
          ELSE UNCHANGED <<appt, unchecked>>
     ELSE UpdateIfLive(b, [appt[b] EXCEPT !.status = "PENDING", !.staff = None,
                                          !.deadline = "none"], q, {})
  /\ Goto(r, Resume(q))
  /\ UNCHANGED <<now, present, rejections>>

-----------------------------------------------------------------------------
\* The transaction: lock the technician, look, then write.

Pad(op) == IF op = "publicCreate" THEN Gap ELSE 0

\* A visit already under way records the time it really took (stretch-policy).
MayOverlap(q) == q.op = "stretch" /\ (q.keep \/ q.start <= now)

\* Mutants: time off is asked for the first slot alone, or without the days the whole
\* salon is closed.
OffAtStart(q)      == q.op # "stretch" /\ OffAt(q.staff, q.start, q.start + 1)
OffOfOwn(q)        ==
  q.op # "stretch" /\ \E o \in Off : o[1] = q.staff /\ q.start <= o[2] /\ o[2] < q.end

\* What the checks of the transaction establish; editLines asks no time off.
Clash(q)  == Conflict(q.staff, q.start, q.end, Pad(q.op), q.id)
OffHit(q) == q.op # "stretch" /\ OffAt(q.staff, q.start, q.end)

\* assignStaff reads the status again inside its transaction.
KeepStatus(q) == IF q.op \in EngineOps
                 THEN Live(q.id) /\ appt[q.id].status \in {"CONFIRMED", "ARRIVED"}
                 ELSE q.keep

Check(r) ==
  LET q == req[r] IN
  /\ q.pc = "check"
  /\ ~SlotLocked(q.staff)
  /\ IF (Clash(q) /\ ~MayOverlap(q)) \/ OffHit(q)
     THEN Goto(r, Thrown(q))
     ELSE Goto(r, [q EXCEPT !.pc = "commit", !.keep = KeepStatus(q),
                            !.vetted = (IF Clash(q) THEN {} ELSE {"slot"})
                                         \cup (IF q.op = "stretch" THEN {} ELSE {"off"})])
  /\ UNCHANGED <<now, present, appt, rejections, unchecked>>

\* The insert.  A booking with a technician goes on to its confirmation, one
\* without to the engine (assignmentMode auto) or to its confirmation.
CommitCreate(r) ==
  LET q == req[r]
      status == IF q.keep THEN "CONFIRMED" ELSE IF q.staff # None THEN "ASSIGNED" ELSE "PENDING"
  IN
  /\ q.pc = "commit" /\ q.op \in {"create", "publicCreate"}
  /\ present' = [present EXCEPT ![q.id] = "live"]
  /\ WriteRow(q.id, [status |-> status, staff |-> q.staff, start |-> q.start, end |-> q.end,
                     deadline |-> IF status = "ASSIGNED" THEN "set" ELSE "none"],
              q, q.vetted)
  /\ \/ Goto(r, ToConfirm(q, q.staff))
     \/ /\ q.staff = None
        /\ Goto(r, Job("rank", IF q.op = "create" THEN "staffNew" ELSE "staffPublic",
                       q.id, None, 0, 0, FALSE))
  /\ UNCHANGED <<now, rejections>>

\* Mutant: the new technician is asked, but no deadline is set.
HandWithoutClock(r) ==
  LET q == req[r]
      times == IF q.op = "move" THEN [appt[q.id] EXCEPT !.start = q.start, !.end = q.end]
                                ELSE appt[q.id]
      row == IF q.keep THEN [times EXCEPT !.staff = q.staff]
             ELSE [times EXCEPT !.staff = q.staff, !.status = "ASSIGNED", !.deadline = "none"]
  IN
  /\ q.pc = "commit" /\ q.op \in HandOps
  /\ UpdateIfLive(q.id, row, q, q.vetted)
  /\ Goto(r, Resume(q))
  /\ UNCHANGED <<now, present, rejections>>

\* assign, selfChangeTech, move and the engine: the booking changes hands.  A
\* confirmed or arrived visit keeps its status, any other waits for an answer.
CommitHand(r) ==
  LET q == req[r]
      times == IF q.op = "move" THEN [appt[q.id] EXCEPT !.start = q.start, !.end = q.end]
                                ELSE appt[q.id]
      row == IF q.keep THEN [times EXCEPT !.staff = q.staff]
             ELSE [times EXCEPT !.staff = q.staff, !.status = "ASSIGNED", !.deadline = "set"]
  IN
  /\ q.pc = "commit" /\ q.op \in HandOps
  /\ UpdateIfLive(q.id, row, q, q.vetted)
  /\ Goto(r, Resume(q))
  /\ UNCHANGED <<now, present, rejections>>

\* reschedule and selfReschedule write the two times and nothing else.
CommitTimes(r) ==
  LET q == req[r] IN
  /\ q.pc = "commit" /\ q.op \in TimeOps
  /\ UpdateIfLive(q.id, [appt[q.id] EXCEPT !.start = q.start, !.end = q.end], q, q.vetted)
  /\ Goto(r, Idle)
  /\ UNCHANGED <<now, present, rejections>>

\* editLines and addServicesToAppointment write the end time computed before.
CommitEnd(r) ==
  LET q == req[r] IN
  /\ q.pc = "commit" /\ q.op \in EndOps
  /\ UpdateIfLive(q.id, [appt[q.id] EXCEPT !.end = q.end], q, q.vetted)
  /\ Goto(r, Idle)
  /\ UNCHANGED <<now, present, rejections>>

\* confirmDeskBooking: a fresh booking is confirmed on the spot unless its
\* technician must accept; it is best effort and the salon may switch it off.
\* The desk may add that the customer is already here (arrivedNow).
Confirm(r) ==
  LET q == req[r]  b == q.id IN
  /\ q.pc = "confirm"
  /\ \/ /\ ~q.keep
        /\ ~(q.staff # None /\ MustAccept)
        /\ Live(b) /\ appt[b].status \in {"PENDING", "ASSIGNED"}
        /\ WriteUnchecked(b, [appt[b] EXCEPT !.status = "CONFIRMED", !.deadline = "none"])
     \/ UNCHANGED <<appt, unchecked>>
  /\ \/ Goto(r, Idle)
     \/ /\ q.op \in {"create", "staffNew"} /\ "arriveNow" \in Ops
        /\ Goto(r, Job("seat", q.op, b, None, 0, 0, FALSE))
  /\ UNCHANGED <<now, present, rejections>>

Seat(r) ==
  LET b == req[r].id IN
  /\ req[r].pc = "seat"
  /\ IF Live(b) /\ appt[b].status \in ACTIONABLE
     THEN WriteUnchecked(b, [appt[b] EXCEPT !.status = "ARRIVED"])
     ELSE UNCHANGED <<appt, unchecked>>
  /\ Goto(r, Idle)
  /\ UNCHANGED <<now, present, rejections>>

\* accept, confirmByToken, arrive, noShow, complete: the write, by id alone.
Mark(r) ==
  LET q == req[r] IN
  /\ q.pc = "write"
  /\ IF Live(q.id)
     THEN WriteUnchecked(q.id, [appt[q.id] EXCEPT !.status = MarkTo[q.op]])
     ELSE UNCHANGED <<appt, unchecked>>
  /\ Goto(r, Idle)
  /\ UNCHANGED <<now, present, rejections>>

-----------------------------------------------------------------------------
\* Handlers whose whole effect is one statement.

\* The status dropdown: any status, either direction.
SetStatus(b) ==
  /\ "setStatus" \in Ops
  /\ Live(b)
  /\ \E to \in Statuses \ {appt[b].status} :
       WriteUnchecked(b, [appt[b] EXCEPT !.status = to])
  /\ UNCHANGED <<now, present, rejections, req>>

\* cancelForTenant, whoever asks (desk, reminder link, bot).
Cancel(b) ==
  /\ "cancel" \in Ops
  /\ Live(b)
  /\ WriteUnchecked(b, [appt[b] EXCEPT !.status = "CANCELLED"])
  /\ UNCHANGED <<now, present, rejections, req>>

\* The header's "Cần xác nhận" -> "Xác nhận": conditional on a waiting status.
ConfirmBySalon(b) ==
  /\ "confirmBySalon" \in Ops
  /\ Live(b) /\ appt[b].status \in WAITING
  /\ WriteUnchecked(b, [appt[b] EXCEPT !.status = "CONFIRMED", !.deadline = "none"])
  /\ UNCHANGED <<now, present, rejections, req>>

\* The midnight sweep: a booking nobody touched becomes a no-show.
CloseMissed(b) ==
  /\ "closeMissed" \in Ops
  /\ now = Horizon
  /\ Live(b) /\ appt[b].status \in ACTIONABLE
  /\ WriteUnchecked(b, [appt[b] EXCEPT !.status = "NO_SHOW"])
  /\ UNCHANGED <<now, present, rejections, req>>

\* bookingFollowsFloor: the floor ticket changed technician, the booking follows.
FollowFloor(b) ==
  /\ "floor" \in Ops
  /\ Live(b) /\ appt[b].status \notin {"CANCELLED", "NO_SHOW", "REJECTED"}
  /\ \E s \in Staff \ {appt[b].staff} :
       WriteUnchecked(b, [appt[b] EXCEPT !.staff = s])
  /\ UNCHANGED <<now, present, rejections, req>>

\* remove: the row goes to the trash with its content; its rejections go for
\* good (onDelete: Cascade).
Remove(b) ==
  /\ "remove" \in Ops
  /\ Live(b)
  /\ present' = [present EXCEPT ![b] = "trash"]
  /\ rejections' = [rejections EXCEPT ![b] = {}]
  /\ unchecked' = [unchecked EXCEPT ![b] = {}]
  /\ UNCHANGED <<now, appt, req>>

\* TrashController.restore: the row comes back exactly as it was.
Restore(b) ==
  /\ "remove" \in Ops
  /\ present[b] = "trash"
  /\ present' = [present EXCEPT ![b] = "live"]
  /\ WriteUnchecked(b, appt[b])
  /\ UNCHANGED <<now, rejections, req>>

-----------------------------------------------------------------------------
\* The process restarts, or a transaction is rolled back: nothing was written
\* and the locks are released.
Crash(r) ==
  /\ "crash" \in Ops
  /\ req[r] # Idle
  /\ Goto(r, Idle)
  /\ UNCHANGED <<now, present, appt, rejections, unchecked>>

Tick ==
  /\ "clock" \in Ops
  /\ now < Horizon
  /\ now' = now + 1
  /\ UNCHANGED <<present, appt, rejections, req, unchecked>>

\* Thirty minutes without an answer.
DeadlinePasses(b) ==
  /\ "silence" \in Ops
  /\ appt[b].deadline = "set"
  /\ appt' = [appt EXCEPT ![b].deadline = "passed"]
  /\ UNCHANGED <<now, present, rejections, req, unchecked>>

Continue(r) ==
  \/ SweepNext(r) \/ SweepDone(r) \/ SweepClear(r)
  \/ Rank(r) \/ GiveUp(r) \/ Check(r)
  \/ CommitCreate(r) \/ CommitHand(r) \/ CommitTimes(r) \/ CommitEnd(r)
  \/ Confirm(r) \/ Seat(r) \/ Mark(r)

Next ==
  \/ \E r \in Requests \ {Timer} :
       \/ BeginCreate(r) \/ BeginAssign(r) \/ BeginMove(r) \/ BeginReschedule(r)
       \/ BeginStretch(r) \/ BeginAddServices(r)
       \/ BeginReject(r) \/ BeginAutoAssign(r) \/ BeginMark(r)
  \/ \E r \in Requests : BeginSweep(r) \/ Continue(r) \/ Crash(r)
  \/ \E b \in Appointments :
       \/ SetStatus(b) \/ Cancel(b) \/ ConfirmBySalon(b) \/ CloseMissed(b)
       \/ FollowFloor(b) \/ Remove(b) \/ Restore(b) \/ DeadlinePasses(b)
  \/ Tick

\* A request that began goes on (the process is alive, a transaction commits or
\* rolls back), and the five-minute interval keeps calling the sweep.
Fairness == /\ \A r \in Requests : WF_vars(Continue(r))
            /\ WF_vars(BeginSweep(Timer))

Spec     == Init /\ [][Next]_vars
FairSpec == Spec /\ Fairness

-----------------------------------------------------------------------------
\* Every field keeps its type, and a handler that reached its check, its commit
\* or its final write has the booking and the technician that step needs.
TypeOK == /\ now \in Time
          /\ present \in [Appointments -> {"unborn", "live", "trash"}]
          /\ appt \in [Appointments -> Row]
          /\ rejections \in [Appointments -> SUBSET Staff]
          /\ req \in [Requests -> Local]
          /\ unchecked \in [Appointments -> SUBSET Kinds]

\* Two rows of the table take one technician's time at once.
DoubleBooked(a, b) == /\ a # b
                      /\ Blocks(a) /\ Blocks(b)
                      /\ appt[a].staff = appt[b].staff
                      /\ Overlaps(appt[a].start, appt[a].end, appt[b].start, appt[b].end, 0)

\* A technician is never booked twice at the same time: what assertNoOverlap
\* under lockStaffSlot is for.
NoDoubleBooking == \A a, b \in Appointments : ~DoubleBooked(a, b)

\* When a technician is booked twice, one of the two rows was last placed by a
\* write that ran no overlap check for that placement: two checked placements
\* never clash, however the transactions interleave.
ClashNeedsUncheckedWrite ==
  \A a, b \in Appointments :
     DoubleBooked(a, b) => "slot" \in unchecked[a] \cup unchecked[b]

\* A row of the table takes time its technician, or the whole salon, has off.
OnTimeOff(b) == Blocks(b) /\ OffAt(appt[b].staff, appt[b].start, appt[b].end)

\* When a visit sits on approved time off, it was placed there by a write that did
\* not run assertNotOff for that placement.
TimeOffNeedsUncheckedWrite ==
  \A b \in Appointments : OnTimeOff(b) => "off" \in unchecked[b]

\* At most one transaction is past its check with a given technician's lock.
LockExclusive ==
  \A q, r \in Requests :
     q # r /\ req[q].pc = "commit" /\ req[r].pc = "commit" /\ req[q].staff = req[r].staff
       => req[q].staff = None

\* Everyone in the way of placement h, booking b aside, was written unchecked.
FreeBut(b, h) ==
  \A c \in Appointments \ {b} :
     /\ Blocks(c)
     /\ appt[c].staff = h.staff
     /\ Overlaps(appt[c].start, appt[c].end, h.start, h.end, 0)
     => "slot" \in unchecked[c]

\* Between its check and its write, a transaction's span is met only by rows
\* that were written without a check of their own.
CheckedSpanFree ==
  \A r \in Requests :
     req[r].pc = "commit" /\ "slot" \in req[r].vetted => FreeBut(req[r].id, req[r])

\* ... and it stays clear of approved time off.
CheckedSpanOn ==
  \A r \in Requests :
     req[r].pc = "commit" /\ "off" \in req[r].vetted
       => ~OffAt(req[r].staff, req[r].start, req[r].end)

\* The conjuncts that make both promises inductive: no transaction's check goes
\* stale before its write (proved in BookingSlotsProofs).
Safe == /\ LockExclusive
        /\ CheckedSpanFree
        /\ CheckedSpanOn
        /\ ClashNeedsUncheckedWrite
        /\ TimeOffNeedsUncheckedWrite

IInv == TypeOK /\ Safe

\* A technician asked for an answer has a deadline to give it by: no handler
\* leaves a booking ASSIGNED where the sweep would never look at it.
AskedOnTheClock ==
  \A b \in Appointments :
     Live(b) /\ appt[b].status = "ASSIGNED" /\ appt[b].staff # None
       => appt[b].deadline # "none"

\* While technicians answer late or never, a booking that has a technician is
\* never left without one: the sweep hands it on or leaves it where it is.
NeverStripped ==
  [][\A b \in Appointments : appt[b].staff # None => appt'[b].staff # None]_vars

\* Once a booking is only waited for, its technicians' silence comes to an end:
\* the sweep passes it on until someone answers or nobody is left to ask.
SilenceEnds == \A b \in Appointments : <>[]~Expired(b)

-----------------------------------------------------------------------------
\* The calendar as SlotBook sees it: who holds which span, and for which of
\* them an overlap check stands behind the last write.
NoSpan == [staff |-> None, start |-> 0, end |-> 0]
HeldSpan == [b \in Appointments |->
               IF Blocks(b) THEN [staff |-> appt[b].staff, start |-> appt[b].start,
                                  end |-> appt[b].end]
                            ELSE NoSpan]
\* The rows whose placement an overlap check stands behind.
SureOf == {b \in Appointments : Blocks(b) /\ "slot" \notin unchecked[b]}

Book == INSTANCE SlotBook WITH Visits <- Appointments, Slots <- Time, Nothing <- NoSpan,
                               held <- HeldSpan, sure <- SureOf

\* The handlers implement the calendar: every step takes, forces or gives back
\* one visit's span, and none takes a span the calendar has vouched for.
BookSpec == Book!Spec
=============================================================================
