------------------------- MODULE BookingSlotsProofs -------------------------
(***************************************************************************)
(* Proofs about BookingSlots for any salon: any technicians, appointments, *)
(* number of requests, opening hours and time off.                         *)
(*                                                                         *)
(* First what every operation keeps: types, and a checked write behind     *)
(* every visit.  Then three promises of the book that the whole system     *)
(* breaks, proved for the operations that keep them: whoever is asked to   *)
(* accept has a deadline; nobody is booked twice; a booking that has a     *)
(* technician is not left without one.  Last, that the handlers implement  *)
(* the calendar of SlotBook.                                               *)
(***************************************************************************)
EXTENDS BookingSlots, TLAPS

-----------------------------------------------------------------------------
(* Types of what the actions build.                                        *)

LEMMA TimeInt == Time \subseteq Int /\ 0 \in Time
BY HorizonAssumption DEF Time

LEMMA JobLocal ==
  ASSUME NEW pc \in {"idle", "check", "commit", "rank", "giveup", "confirm", "seat", "write"},
         NEW op \in {"none", "create", "publicCreate"}
                      \cup HandOps \cup TimeOps \cup EndOps \cup MarkOps,
         NEW b \in Appointments \cup {None}, NEW s \in StaffOrNone,
         NEW st \in Time, NEW en \in Time, NEW keep \in BOOLEAN,
         pc # "idle" => b \in Appointments,
         pc = "check" => s \in Staff,
         pc = "write" => op \in MarkOps
  PROVE  Job(pc, op, b, s, st, en, keep) \in Local
BY DEF Job, Local, LocalRecord, WellFormed

LEMMA IdleLocal == Idle \in Local
BY JobLocal, TimeInt DEF Idle, StaffOrNone

LEMMA GotoType ==
  ASSUME req \in [Requests -> Local], NEW r \in Requests, NEW q \in Local, Goto(r, q)
  PROVE  req' \in [Requests -> Local]
BY DEF Goto

LEMMA BeginType ==
  ASSUME req \in [Requests -> Local], NEW r \in Requests, NEW q \in Local, Begin(r, q)
  PROVE  req' \in [Requests -> Local]
BY DEF Begin

LEMMA WriteType ==
  ASSUME appt \in [Appointments -> Row], unchecked \in [Appointments -> SUBSET Kinds],
         NEW b \in Appointments, NEW row \in Row, NEW h, NEW ok, WriteRow(b, row, h, ok)
  PROVE  appt' \in [Appointments -> Row] /\ unchecked' \in [Appointments -> SUBSET Kinds]
BY DEF WriteRow

LEMMA UpdateType ==
  ASSUME appt \in [Appointments -> Row], unchecked \in [Appointments -> SUBSET Kinds],
         NEW b \in Appointments, NEW row \in Row, NEW h, NEW ok, UpdateIfLive(b, row, h, ok)
  PROVE  appt' \in [Appointments -> Row] /\ unchecked' \in [Appointments -> SUBSET Kinds]
BY WriteType DEF UpdateIfLive

LEMMA LocalFields ==
  ASSUME NEW q \in Local
  PROVE  /\ q.op \in {"none", "create", "publicCreate"}
                       \cup HandOps \cup TimeOps \cup EndOps \cup MarkOps
         /\ q.id \in Appointments \cup {None}
         /\ q.staff \in StaffOrNone
         /\ q.start \in Time /\ q.end \in Time
         /\ q.keep \in BOOLEAN
         /\ q.vetted \subseteq Kinds
         /\ q.todo \subseteq Appointments \X Staff
         /\ WellFormed(q)
BY DEF Local, LocalRecord

LEMMA SweepLocal ==
  ASSUME NEW T \in SUBSET (Appointments \X Staff), NEW pc \in {"sweep", "clear"}
  PROVE  [Idle EXCEPT !.pc = pc, !.op = "sweep", !.todo = T] \in Local
BY TimeInt DEF Idle, Job, Local, LocalRecord, WellFormed, StaffOrNone, HandOps, EngineOps

LEMMA ResumeLocal ==
  ASSUME NEW q \in Local, q.id \in Appointments
  PROVE  Resume(q) \in Local /\ Thrown(q) \in Local
         /\ \A s \in StaffOrNone : ToConfirm(q, s) \in Local
<1>1. ASSUME NEW s \in StaffOrNone PROVE ToConfirm(q, s) \in Local
  BY JobLocal, LocalFields, TimeInt DEF ToConfirm
<1>2. None \in StaffOrNone /\ q.staff \in StaffOrNone /\ q.todo \in SUBSET (Appointments \X Staff)
  BY LocalFields DEF StaffOrNone
<1>3. Thrown(q) \in Local
  BY <1>1, <1>2, IdleLocal DEF Thrown
<1>4. Resume(q) \in Local
  BY <1>1, <1>2, IdleLocal, SweepLocal DEF Resume
<1> QED BY <1>1, <1>3, <1>4

LEMMA RowFields ==
  ASSUME TypeOK, NEW b \in Appointments
  PROVE  /\ appt[b] \in Row
         /\ appt[b].staff \in StaffOrNone
         /\ appt[b].start \in Time /\ appt[b].end \in Time
BY DEF TypeOK, Row

-----------------------------------------------------------------------------
(* Every step keeps the types: the handlers' first reads ...               *)

LEMMA TypeBegin ==
  ASSUME TypeOK, NEW r \in Requests,
         \/ BeginCreate(r) \/ BeginAssign(r) \/ BeginMove(r) \/ BeginReschedule(r)
         \/ BeginStretch(r) \/ BeginAddServices(r)
         \/ BeginReject(r) \/ BeginAutoAssign(r) \/ BeginMark(r) \/ BeginSweep(r)
  PROVE  TypeOK'
<1>1. ASSUME NEW q \in Local, Begin(r, q),
             UNCHANGED <<now, present, appt, unchecked>>,
             rejections' \in [Appointments -> SUBSET Staff]
      PROVE  TypeOK'
  BY <1>1, BeginType DEF TypeOK
<1>2. rejections \in [Appointments -> SUBSET Staff]
  BY DEF TypeOK
<1>3. 0 \in Time /\ None \in StaffOrNone /\ FALSE \in BOOLEAN
  BY TimeInt DEF StaffOrNone
<1>4. CASE BeginCreate(r)
  <2>1. PICK op \in {"create", "publicCreate"} \cap Ops, b \in Appointments,
             s \in StaffOrNone, st, en \in Time, confirmNow \in BOOLEAN :
             /\ Begin(r, Job(IF s = None THEN "commit" ELSE "check", op, b, s, st, en, confirmNow))
             /\ UNCHANGED <<now, present, appt, rejections, unchecked>>
    BY <1>4 DEF BeginCreate
  <2>2. Job(IF s = None THEN "commit" ELSE "check", op, b, s, st, en, confirmNow) \in Local
    BY JobLocal DEF StaffOrNone
  <2> QED BY <1>1, <1>2, <2>1, <2>2
<1>5. CASE BeginAssign(r)
  <2>1. PICK op \in {"assign", "selfTech"} \cap Ops, b \in Appointments, s \in Staff :
             /\ Begin(r, Job("check", op, b, s, appt[b].start, appt[b].end,
                             appt[b].status \in {"CONFIRMED", "ARRIVED"}))
             /\ UNCHANGED <<now, present, appt, rejections, unchecked>>
    BY <1>5 DEF BeginAssign
  <2>2. \A keep \in BOOLEAN :
          Job("check", op, b, s, appt[b].start, appt[b].end, keep) \in Local
    BY JobLocal, RowFields DEF StaffOrNone, HandOps
  <2>3. (appt[b].status \in {"CONFIRMED", "ARRIVED"}) \in BOOLEAN
    OBVIOUS
  <2>4. PICK keep \in BOOLEAN : keep = (appt[b].status \in {"CONFIRMED", "ARRIVED"})
    BY <2>3
  <2> QED BY <1>1, <1>2, <2>1, <2>2, <2>4
<1>6. CASE BeginMove(r)
  <2>1. PICK b \in Appointments, s \in Staff, st \in Time :
             LET en == st + appt[b].end - appt[b].start IN
             /\ en \in Time
             /\ Begin(r, Job("check", "move", b, s, st, en,
                             appt[b].status \in {"CONFIRMED", "ARRIVED"}))
             /\ UNCHANGED <<now, present, appt, rejections, unchecked>>
    BY <1>6 DEF BeginMove
  <2>2. \A keep \in BOOLEAN :
          Job("check", "move", b, s, st, st + appt[b].end - appt[b].start, keep) \in Local
    BY <2>1, JobLocal DEF StaffOrNone, HandOps
  <2>3. (appt[b].status \in {"CONFIRMED", "ARRIVED"}) \in BOOLEAN
    OBVIOUS
  <2>4. PICK keep \in BOOLEAN : keep = (appt[b].status \in {"CONFIRMED", "ARRIVED"})
    BY <2>3
  <2> QED BY <1>1, <1>2, <2>1, <2>2, <2>4
<1>7. CASE BeginReschedule(r)
  <2>1. PICK op \in TimeOps \cap Ops, b \in Appointments, st \in Time :
             LET en == st + appt[b].end - appt[b].start IN
             /\ en \in Time
             /\ Begin(r, Job(IF appt[b].staff = None THEN "commit" ELSE "check", op, b,
                             appt[b].staff, st, en, FALSE))
             /\ UNCHANGED <<now, present, appt, rejections, unchecked>>
    BY <1>7 DEF BeginReschedule
  <2>2. Job(IF appt[b].staff = None THEN "commit" ELSE "check", op, b,
            appt[b].staff, st, st + appt[b].end - appt[b].start, FALSE) \in Local
    BY <2>1, <1>3, JobLocal, RowFields DEF StaffOrNone
  <2> QED BY <1>1, <1>2, <2>1, <2>2
<1>8. CASE BeginStretch(r)
  <2>1. PICK b \in Appointments, en \in Time :
             LET looks == appt[b].staff # None /\ en > appt[b].end IN
             /\ Begin(r, Job(IF looks THEN "check" ELSE "commit", "stretch", b,
                             IF looks THEN appt[b].staff ELSE None, appt[b].start, en,
                             appt[b].status \in {"ARRIVED", "COMPLETED"}))
             /\ UNCHANGED <<now, present, appt, rejections, unchecked>>
    BY <1>8 DEF BeginStretch
  <2> DEFINE looks == appt[b].staff # None /\ en > appt[b].end
  <2>2. \A keep \in BOOLEAN :
          Job(IF looks THEN "check" ELSE "commit", "stretch", b,
              IF looks THEN appt[b].staff ELSE None, appt[b].start, en, keep) \in Local
    BY <1>3, JobLocal, RowFields DEF StaffOrNone, EndOps
  <2>3. (appt[b].status \in {"ARRIVED", "COMPLETED"}) \in BOOLEAN
    OBVIOUS
  <2>4. PICK keep \in BOOLEAN : keep = (appt[b].status \in {"ARRIVED", "COMPLETED"})
    BY <2>3
  <2> QED BY <1>1, <1>2, <2>1, <2>2, <2>4
<1>9. CASE BeginAddServices(r)
  <2>1. PICK b \in Appointments, en \in Time :
             /\ Begin(r, Job(IF appt[b].staff = None THEN "commit" ELSE "check", "addServices",
                             b, appt[b].staff, appt[b].start, en, FALSE))
             /\ UNCHANGED <<now, present, appt, rejections, unchecked>>
    BY <1>9 DEF BeginAddServices
  <2>2. Job(IF appt[b].staff = None THEN "commit" ELSE "check", "addServices",
            b, appt[b].staff, appt[b].start, en, FALSE) \in Local
    BY <1>3, JobLocal, RowFields DEF StaffOrNone, EndOps
  <2> QED BY <1>1, <1>2, <2>1, <2>2
<1>10. CASE BeginReject(r)
  <2>1. PICK b \in Appointments :
             /\ appt[b].staff # None
             /\ rejections' = [rejections EXCEPT ![b] = @ \cup {appt[b].staff}]
             /\ Begin(r, Job("rank", "reject", b, None, 0, 0, FALSE))
             /\ UNCHANGED <<now, present, appt, unchecked>>
    BY <1>10 DEF BeginReject
  <2>2. Job("rank", "reject", b, None, 0, 0, FALSE) \in Local
    BY <1>3, JobLocal DEF HandOps, EngineOps
  <2>3. rejections' \in [Appointments -> SUBSET Staff]
    BY <2>1, <1>2, RowFields DEF StaffOrNone
  <2> QED BY <1>1, <2>1, <2>2, <2>3
<1>11. CASE BeginAutoAssign(r)
  <2>1. PICK b \in Appointments :
             /\ Begin(r, Job("rank", "autoAssign", b, None, 0, 0, FALSE))
             /\ UNCHANGED <<now, present, appt, rejections, unchecked>>
    BY <1>11 DEF BeginAutoAssign
  <2>2. Job("rank", "autoAssign", b, None, 0, 0, FALSE) \in Local
    BY <1>3, JobLocal DEF HandOps, EngineOps
  <2> QED BY <1>1, <1>2, <2>1, <2>2
<1>12. CASE BeginMark(r)
  <2>1. PICK op \in MarkOps \cap Ops, b \in Appointments :
             /\ Begin(r, Job("write", op, b, None, 0, 0, FALSE))
             /\ UNCHANGED <<now, present, appt, rejections, unchecked>>
    BY <1>12 DEF BeginMark
  <2>2. Job("write", op, b, None, 0, 0, FALSE) \in Local
    BY <1>3, JobLocal
  <2> QED BY <1>1, <1>2, <2>1, <2>2
<1>13. CASE BeginSweep(r)
  <2> DEFINE found == {b \in Appointments : Expired(b)}
             T == {<<b, appt[b].staff>> : b \in found}
             pc == IF MustAccept THEN "sweep" ELSE "clear"
  <2>1. T \in SUBSET (Appointments \X Staff) /\ pc \in {"sweep", "clear"}
    BY RowFields DEF Expired, StaffOrNone
  <2>2. [Idle EXCEPT !.pc = pc, !.op = "sweep", !.todo = T] \in Local
    BY <2>1, SweepLocal
  <2> QED BY <1>1, <1>2, <1>13, <2>2 DEF BeginSweep
<1> QED BY <1>4, <1>5, <1>6, <1>7, <1>8, <1>9, <1>10, <1>11, <1>12, <1>13

-----------------------------------------------------------------------------
(* ... the engine and the transactions ...                                 *)

LEMMA RankLocal ==
  ASSUME NEW q \in Local, q.pc = "rank", NEW s \in StaffOrNone,
         NEW st \in Time, NEW en \in Time
  PROVE  /\ s \in Staff =>
              [q EXCEPT !.pc = "check", !.staff = s, !.start = st, !.end = en] \in Local
         /\ [q EXCEPT !.pc = "giveup", !.staff = None] \in Local
BY DEF Local, LocalRecord, WellFormed, StaffOrNone

LEMMA NextLocal ==
  ASSUME NEW q \in Local, q.pc = "sweep", NEW e \in q.todo
  PROVE  /\ e[1] \in Appointments /\ e[2] \in Staff
         /\ [q EXCEPT !.pc = "rank", !.id = e[1], !.todo = @ \ {e}] \in Local
<1>1. e \in Appointments \X Staff
  BY LocalFields
<1>2. e[1] \in Appointments /\ e[2] \in Staff
  BY <1>1
<1> QED BY <1>2 DEF Local, LocalRecord, WellFormed

LEMMA CheckedLocal ==
  ASSUME NEW q \in Local, q.pc = "check", NEW keep \in BOOLEAN, NEW V \in SUBSET Kinds
  PROVE  [q EXCEPT !.pc = "commit", !.keep = keep, !.vetted = V] \in Local
BY DEF Local, LocalRecord, WellFormed

LEMMA TypeEngine ==
  ASSUME TypeOK, NEW r \in Requests,
         \/ SweepNext(r) \/ SweepDone(r) \/ SweepClear(r) \/ Rank(r) \/ GiveUp(r) \/ Check(r)
  PROVE  TypeOK'
<1> DEFINE q == req[r]
<1>1. q \in Local
  BY DEF TypeOK
<1>2. q.pc \in {"rank", "giveup", "check"} => q.id \in Appointments
  BY <1>1, LocalFields DEF WellFormed
<1>3. CASE SweepNext(r)
  <2>1. PICK e \in q.todo :
          \/ /\ rejections' = [rejections EXCEPT ![e[1]] = @ \cup {e[2]}]
             /\ Goto(r, [q EXCEPT !.pc = "rank", !.id = e[1], !.todo = @ \ {e}])
          \/ Goto(r, Idle) /\ UNCHANGED rejections
    BY <1>3 DEF SweepNext
  <2>2. q.pc = "sweep" /\ UNCHANGED <<now, present, appt, unchecked>>
    BY <1>3 DEF SweepNext
  <2>3. /\ e[1] \in Appointments /\ e[2] \in Staff
        /\ [q EXCEPT !.pc = "rank", !.id = e[1], !.todo = @ \ {e}] \in Local
    BY <1>1, <2>2, NextLocal
  <2>4. req' \in [Requests -> Local]
    BY <2>1, <2>3, IdleLocal, GotoType DEF TypeOK
  <2>5. rejections' \in [Appointments -> SUBSET Staff]
    BY <2>1, <2>3 DEF TypeOK
  <2> QED BY <2>2, <2>4, <2>5 DEF TypeOK
<1>4. CASE SweepDone(r)
  BY <1>4, IdleLocal, GotoType DEF SweepDone, TypeOK
<1>5. CASE SweepClear(r)
  <2>1. req' \in [Requests -> Local]
    BY <1>5, IdleLocal, GotoType DEF SweepClear, TypeOK
  <2>2. ASSUME NEW b \in Appointments PROVE [appt[b] EXCEPT !.deadline = "none"] \in Row
    BY DEF TypeOK, Row
  <2>3. appt' \in [Appointments -> Row]
    BY <1>5, <2>2 DEF SweepClear, TypeOK
  <2> QED BY <1>5, <2>1, <2>3 DEF SweepClear, TypeOK
<1>6. CASE Rank(r)
  <2>1. q.pc = "rank" /\ q.id \in Appointments /\ UNCHANGED <<now, present, appt, rejections, unchecked>>
    BY <1>2, <1>6 DEF Rank
  <2>2. Thrown(q) \in Local
    BY <1>1, <2>1, ResumeLocal
  <2>3. \A s \in Staff : [q EXCEPT !.pc = "check", !.staff = s, !.start = appt[q.id].start,
                                   !.end = appt[q.id].end] \in Local
    BY <1>1, <2>1, RankLocal, RowFields DEF StaffOrNone
  <2>4. [q EXCEPT !.pc = "giveup", !.staff = None] \in Local
    BY <1>1, <2>1, RankLocal, TimeInt DEF StaffOrNone
  <2>5. \E z \in Local : Goto(r, z)
    BY <1>6, <2>2, <2>3, <2>4 DEF Rank, Eligible
  <2> QED BY <2>1, <2>5, GotoType DEF TypeOK
<1>7. CASE GiveUp(r)
  <2>1. q.id \in Appointments /\ UNCHANGED <<now, present, rejections>> /\ Goto(r, Resume(q))
    BY <1>2, <1>7 DEF GiveUp
  <2>2. req' \in [Requests -> Local]
    BY <1>1, <2>1, ResumeLocal, GotoType DEF TypeOK
  <2>3. /\ [appt[q.id] EXCEPT !.deadline = "none"] \in Row
        /\ [appt[q.id] EXCEPT !.status = "PENDING", !.staff = None, !.deadline = "none"] \in Row
    BY <2>1 DEF TypeOK, Row, StaffOrNone, Statuses, ACTIONABLE
  <2>4. appt' \in [Appointments -> Row] /\ unchecked' \in [Appointments -> SUBSET Kinds]
    BY <1>7, <2>1, <2>3, WriteType, UpdateType DEF GiveUp, WriteUnchecked, TypeOK
  <2> QED BY <2>1, <2>2, <2>4 DEF TypeOK
<1>8. CASE Check(r)
  <2> DEFINE V == (IF Clash(q) THEN {} ELSE {"slot"})
                    \cup (IF q.op = "stretch" THEN {} ELSE {"off"})
  <2>1. /\ q.pc = "check" /\ q.id \in Appointments
        /\ UNCHANGED <<now, present, appt, rejections, unchecked>>
        /\ \/ Goto(r, Thrown(q))
           \/ Goto(r, [q EXCEPT !.pc = "commit", !.keep = KeepStatus(q), !.vetted = V])
    BY <1>2, <1>8 DEF Check
  <2>2. V \in SUBSET Kinds
    BY DEF Kinds
  <2>3. KeepStatus(q) \in BOOLEAN
    BY <1>1, LocalFields DEF KeepStatus
  <2>4. PICK keep \in BOOLEAN : keep = KeepStatus(q)
    BY <2>3
  <2>5. [q EXCEPT !.pc = "commit", !.keep = keep, !.vetted = V] \in Local
    BY <1>1, <2>1, <2>2, CheckedLocal
  <2>6. Thrown(q) \in Local
    BY <1>1, <2>1, ResumeLocal
  <2>7. \E z \in Local : Goto(r, z)
    BY <2>1, <2>4, <2>5, <2>6
  <2> QED BY <2>1, <2>7, GotoType DEF TypeOK
<1> QED BY <1>3, <1>4, <1>5, <1>6, <1>7, <1>8

-----------------------------------------------------------------------------
(* ... the writes that end a handler ...                                   *)

LEMMA RowUpdates ==
  ASSUME NEW row \in Row, NEW st \in Statuses, NEW s \in StaffOrNone,
         NEW t \in Time, NEW u \in Time
  PROVE  /\ [row EXCEPT !.status = st] \in Row
         /\ [row EXCEPT !.status = st, !.deadline = "none"] \in Row
         /\ [row EXCEPT !.staff = s] \in Row
         /\ [row EXCEPT !.staff = s, !.status = "ASSIGNED", !.deadline = "set"] \in Row
         /\ [row EXCEPT !.start = t, !.end = u] \in Row
         /\ [row EXCEPT !.end = u] \in Row
BY DEF Row, Statuses, BLOCKING_STATUSES

LEMMA StatusNames ==
  /\ {"PENDING", "ASSIGNED", "CONFIRMED", "ARRIVED", "CANCELLED", "NO_SHOW"} \subseteq Statuses
  /\ \A op \in MarkOps : MarkTo[op] \in Statuses
BY DEF Statuses, BLOCKING_STATUSES, ACTIONABLE, FINAL, MarkOps, MarkTo

LEMMA TypeWrite ==
  ASSUME TypeOK, NEW b \in Appointments, NEW row \in Row, NEW h, NEW ok,
         \/ WriteRow(b, row, h, ok) \/ UpdateIfLive(b, row, h, ok) \/ WriteUnchecked(b, row)
         \/ UNCHANGED <<appt, unchecked>>
  PROVE  appt' \in [Appointments -> Row] /\ unchecked' \in [Appointments -> SUBSET Kinds]
BY WriteType, UpdateType DEF WriteUnchecked, TypeOK

LEMMA TypeCommit ==
  ASSUME TypeOK, NEW r \in Requests,
         \/ CommitCreate(r) \/ CommitHand(r) \/ CommitTimes(r) \/ CommitEnd(r)
         \/ Confirm(r) \/ Seat(r) \/ Mark(r)
  PROVE  TypeOK'
<1> DEFINE q == req[r]
           old == appt[q.id]
<1>1. /\ q \in Local /\ q.id \in Appointments /\ old \in Row
      /\ q.staff \in StaffOrNone /\ q.start \in Time /\ q.end \in Time
      /\ q.pc = "write" => q.op \in MarkOps
  <2>1. q \in Local
    BY DEF TypeOK
  <2>2. q.pc \in {"commit", "confirm", "seat", "write"}
    BY DEF CommitCreate, CommitHand, CommitTimes, CommitEnd, Confirm, Seat, Mark
  <2> QED BY <2>1, <2>2, LocalFields, RowFields DEF WellFormed
<1>2. None \in StaffOrNone /\ 0 \in Time
  BY TimeInt DEF StaffOrNone
<1>3. ASSUME NEW z \in Local, Goto(r, z), NEW row \in Row, NEW h, NEW ok,
             \/ WriteRow(q.id, row, h, ok) \/ UpdateIfLive(q.id, row, h, ok)
             \/ WriteUnchecked(q.id, row) \/ UNCHANGED <<appt, unchecked>>,
             now' = now, rejections' = rejections,
             present' \in [Appointments -> {"unborn", "live", "trash"}]
      PROVE  TypeOK'
  BY <1>1, <1>3, GotoType, TypeWrite DEF TypeOK
<1>4. present \in [Appointments -> {"unborn", "live", "trash"}]
  BY DEF TypeOK
<1>5. CASE CommitCreate(r)
  <2> DEFINE status == IF q.keep THEN "CONFIRMED"
                       ELSE IF q.staff # None THEN "ASSIGNED" ELSE "PENDING"
             row == [status |-> status, staff |-> q.staff, start |-> q.start, end |-> q.end,
                     deadline |-> IF status = "ASSIGNED" THEN "set" ELSE "none"]
  <2>1. row \in Row
    BY <1>1, StatusNames DEF Row
  <2>2. ToConfirm(q, q.staff) \in Local
    BY <1>1, ResumeLocal
  <2>3. \A op \in {"staffNew", "staffPublic"} : Job("rank", op, q.id, None, 0, 0, FALSE) \in Local
    BY <1>1, <1>2, JobLocal DEF HandOps, EngineOps, StaffingOps
  <2>4. \E z \in Local : Goto(r, z)
    BY <1>5, <2>2, <2>3 DEF CommitCreate
  <2>5. present' \in [Appointments -> {"unborn", "live", "trash"}]
    BY <1>4, <1>5 DEF CommitCreate
  <2>6. WriteRow(q.id, row, q, q.vetted) /\ now' = now /\ rejections' = rejections
    BY <1>5 DEF CommitCreate
  <2> QED BY <1>3, <2>1, <2>4, <2>5, <2>6
<1>6. CASE CommitHand(r)
  <2> DEFINE times == IF q.op = "move" THEN [old EXCEPT !.start = q.start, !.end = q.end] ELSE old
             row == IF q.keep THEN [times EXCEPT !.staff = q.staff]
                    ELSE [times EXCEPT !.staff = q.staff, !.status = "ASSIGNED", !.deadline = "set"]
  <2>1. times \in Row
    BY <1>1, RowUpdates, StatusNames
  <2>2. row \in Row
    BY <1>1, <1>2, <2>1, RowUpdates, StatusNames
  <2>3. Resume(q) \in Local
    BY <1>1, ResumeLocal
  <2>4. /\ UpdateIfLive(q.id, row, q, q.vetted) /\ Goto(r, Resume(q))
        /\ UNCHANGED <<now, present, rejections>>
    BY <1>6 DEF CommitHand
  <2> QED BY <1>3, <1>4, <2>2, <2>3, <2>4
<1>7. CASE CommitTimes(r)
  <2>1. [old EXCEPT !.start = q.start, !.end = q.end] \in Row
    BY <1>1, RowUpdates, StatusNames
  <2> QED BY <1>3, <1>4, <1>7, <2>1, IdleLocal DEF CommitTimes
<1>8. CASE CommitEnd(r)
  <2>1. [old EXCEPT !.end = q.end] \in Row
    BY <1>1, RowUpdates, StatusNames
  <2> QED BY <1>3, <1>4, <1>8, <2>1, IdleLocal DEF CommitEnd
<1>9. CASE Confirm(r)
  <2>1. [old EXCEPT !.status = "CONFIRMED", !.deadline = "none"] \in Row
    BY <1>1, <1>2, RowUpdates, StatusNames
  <2>2. \E z \in Local : Goto(r, z)
    <3>1. q.op \in {"create", "staffNew"} => Job("seat", q.op, q.id, None, 0, 0, FALSE) \in Local
      BY <1>1, <1>2, JobLocal DEF HandOps, EngineOps, StaffingOps
    <3> QED BY <1>9, <3>1, IdleLocal DEF Confirm
  <2> QED BY <1>3, <1>4, <1>9, <2>1, <2>2 DEF Confirm
<1>10. CASE Seat(r)
  <2>1. [old EXCEPT !.status = "ARRIVED"] \in Row
    BY <1>1, <1>2, RowUpdates, StatusNames
  <2> QED BY <1>3, <1>4, <1>10, <2>1, IdleLocal DEF Seat
<1>11. CASE Mark(r)
  <2>1. [old EXCEPT !.status = MarkTo[q.op]] \in Row
    BY <1>1, <1>2, <1>11, RowUpdates, StatusNames DEF Mark
  <2> QED BY <1>3, <1>4, <1>11, <2>1, IdleLocal DEF Mark
<1> QED BY <1>5, <1>6, <1>7, <1>8, <1>9, <1>10, <1>11

-----------------------------------------------------------------------------
(* ... and the one-statement handlers, crashes and the clock.              *)

LEMMA TypeDirect ==
  ASSUME TypeOK, NEW b \in Appointments,
         \/ SetStatus(b) \/ Cancel(b) \/ ConfirmBySalon(b) \/ CloseMissed(b)
         \/ FollowFloor(b) \/ Remove(b) \/ Restore(b) \/ DeadlinePasses(b)
  PROVE  TypeOK'
<1>1. /\ appt[b] \in Row /\ None \in StaffOrNone /\ 0 \in Time
      /\ \A st \in Statuses : [appt[b] EXCEPT !.status = st] \in Row
      /\ \A st \in Statuses : [appt[b] EXCEPT !.status = st, !.deadline = "none"] \in Row
      /\ \A s \in Staff : [appt[b] EXCEPT !.staff = s] \in Row
  <2>1. appt[b] \in Row /\ None \in StaffOrNone /\ 0 \in Time /\ Staff \subseteq StaffOrNone
    BY RowFields, TimeInt DEF StaffOrNone
  <2>2. ASSUME NEW st \in Statuses
        PROVE  /\ [appt[b] EXCEPT !.status = st] \in Row
               /\ [appt[b] EXCEPT !.status = st, !.deadline = "none"] \in Row
    BY <2>1, RowUpdates
  <2>3. ASSUME NEW s \in Staff PROVE [appt[b] EXCEPT !.staff = s] \in Row
    BY <2>1, RowUpdates, StatusNames
  <2> QED BY <2>1, <2>2, <2>3
<1>2. ASSUME NEW row \in Row, WriteUnchecked(b, row), UNCHANGED <<now, rejections, req>>,
             present' \in [Appointments -> {"unborn", "live", "trash"}]
      PROVE  TypeOK'
  BY <1>2, TypeWrite DEF TypeOK
<1>3. present \in [Appointments -> {"unborn", "live", "trash"}]
  BY DEF TypeOK
<1>4. CASE SetStatus(b)
  BY <1>1, <1>2, <1>3, <1>4 DEF SetStatus
<1>5. CASE Cancel(b)
  BY <1>1, <1>2, <1>3, <1>5, StatusNames DEF Cancel
<1>6. CASE ConfirmBySalon(b)
  BY <1>1, <1>2, <1>3, <1>6, StatusNames DEF ConfirmBySalon
<1>7. CASE CloseMissed(b)
  BY <1>1, <1>2, <1>3, <1>7, StatusNames DEF CloseMissed
<1>8. CASE FollowFloor(b)
  BY <1>1, <1>2, <1>3, <1>8 DEF FollowFloor
<1>9. CASE Remove(b)
  BY <1>9 DEF Remove, TypeOK
<1>10. CASE Restore(b)
  BY <1>1, <1>2, <1>3, <1>10 DEF Restore
<1>11. CASE DeadlinePasses(b)
  BY <1>11 DEF DeadlinePasses, TypeOK, Row
<1> QED BY <1>4, <1>5, <1>6, <1>7, <1>8, <1>9, <1>10, <1>11

LEMMA TypeNext == TypeOK /\ [Next]_vars => TypeOK'
<1> SUFFICES ASSUME TypeOK, [Next]_vars PROVE TypeOK'
  OBVIOUS
<1>1. CASE UNCHANGED vars
  BY <1>1 DEF vars, TypeOK
<1>2. ASSUME NEW r \in Requests, Crash(r) PROVE TypeOK'
  BY <1>2, IdleLocal, GotoType DEF Crash, TypeOK
<1>3. CASE Tick
  BY <1>3, HorizonAssumption DEF Tick, TypeOK, Time
<1>4. CASE Next
  BY <1>2, <1>3, <1>4, TypeBegin, TypeEngine, TypeCommit, TypeDirect DEF Next, Continue
<1> QED BY <1>1, <1>4

LEMMA TypeInit == Init => TypeOK
BY TimeInt, IdleLocal DEF Init, TypeOK, Row, Statuses, ACTIONABLE, StaffOrNone

\* Every variable keeps its type, whatever handlers run and in whatever order.
THEOREM TypeCorrect == Spec => []TypeOK
BY TypeInit, TypeNext, PTL DEF Spec

-----------------------------------------------------------------------------
(* Safe.  Its lock and time-off parts read the requests only; the rest     *)
(* reads the calendar too.                                                 *)

\* A record that holds no lock and vouches for nothing.
Harmless(q) == q.pc = "commit" => q.staff = None /\ q.vetted = {}

SameCalendar ==
  /\ unchecked' = unchecked
  /\ \A b \in Appointments :
       /\ Blocks(b)' <=> Blocks(b)
       /\ appt'[b].staff = appt[b].staff
       /\ appt'[b].start = appt[b].start /\ appt'[b].end = appt[b].end

LEMMA HarmlessReq ==
  ASSUME TypeOK, LockExclusive, CheckedSpanOn, NEW r \in Requests, NEW q, Harmless(q),
         req' = [req EXCEPT ![r] = q]
  PROVE  /\ LockExclusive' /\ CheckedSpanOn'
         /\ \A p \in Requests : req'[p].pc = "commit" /\ "slot" \in req'[p].vetted
                                  => p # r /\ req'[p] = req[p]
<1>1. \A p \in Requests : req'[p] = IF p = r THEN q ELSE req[p]
  BY DEF TypeOK
<1> QED BY <1>1 DEF LockExclusive, CheckedSpanOn, Harmless

LEMMA SameCalendarSafe ==
  ASSUME Safe, SameCalendar,
         LockExclusive' /\ CheckedSpanOn',
         \A p \in Requests : req'[p].pc = "commit" /\ "slot" \in req'[p].vetted
                                  => req'[p] = req[p]
  PROVE  Safe'
<1>1. ASSUME NEW b \in Appointments, NEW h, FreeBut(b, h) PROVE FreeBut(b, h)'
  BY <1>1 DEF FreeBut, SameCalendar
<1>2. CheckedSpanFree'
  BY <1>1 DEF CheckedSpanFree, FreeBut, SameCalendar, Safe
<1>3. ClashNeedsUncheckedWrite'
  BY DEF ClashNeedsUncheckedWrite, DoubleBooked, SameCalendar, Safe
<1>4. TimeOffNeedsUncheckedWrite'
  BY DEF TimeOffNeedsUncheckedWrite, OnTimeOff, SameCalendar, Safe
<1> QED BY <1>2, <1>3, <1>4 DEF Safe

LEMMA QuietSafe ==
  ASSUME TypeOK, Safe, SameCalendar, NEW r \in Requests, NEW q, Harmless(q),
         req' = [req EXCEPT ![r] = q]
  PROVE  Safe'
BY HarmlessReq, SameCalendarSafe DEF Safe

LEMMA StillSafe ==
  ASSUME Safe, SameCalendar, req' = req
  PROVE  Safe'
BY SameCalendarSafe DEF Safe, LockExclusive, CheckedSpanOn

-----------------------------------------------------------------------------
(* What a write does to the calendar.                                      *)

\* The write of booking b as row, checked for placement h and the kinds ok.
Written(b, row, h, ok) ==
  /\ WriteRow(b, row, h, ok)
  /\ \A c \in Appointments \ {b} : present'[c] = present[c]
  /\ "slot" \in ok => FreeBut(b, h)
  /\ "off" \in ok => ~OffAt(h.staff, h.start, h.end)

LEMMA WrittenFacts ==
  ASSUME TypeOK, NEW b \in Appointments, NEW row \in Row, NEW h, NEW ok,
         Written(b, row, h, ok)
  PROVE  /\ \A c \in Appointments \ {b} : /\ Blocks(c)' <=> Blocks(c)
                                          /\ appt'[c] = appt[c]
                                          /\ unchecked'[c] = unchecked[c]
         /\ appt'[b] = row
         /\ Blocks(b)' => Takes(row)
         /\ \A k \in Kinds : Takes(row) /\ k \notin unchecked'[b] =>
              \/ k \in ok /\ Inside(row, h)
              \/ Blocks(b) /\ Inside(row, appt[b]) /\ k \notin unchecked[b]
BY DEF TypeOK, Written, WriteRow, Blocks, Live, Takes

\* A placement inside a free one is free; one inside a workable one is workable.
LEMMA InsideFree ==
  ASSUME TypeOK, NEW b \in Appointments, NEW row \in Row, NEW h,
         h.start \in Int, h.end \in Int, Inside(row, h)
  PROVE  /\ FreeBut(b, h) => FreeBut(b, row)
         /\ ~OffAt(h.staff, h.start, h.end) => ~OffAt(row.staff, row.start, row.end)
<1>1. row.start \in Int /\ row.end \in Int
  BY TimeInt DEF Row
<1>2. \A c \in Appointments : appt[c].start \in Int /\ appt[c].end \in Int
  BY RowFields, TimeInt
<1>3. ASSUME FreeBut(b, h) PROVE FreeBut(b, row)
  BY <1>1, <1>2, <1>3 DEF FreeBut, Inside, Overlaps
<1>4. ASSUME ~OffAt(h.staff, h.start, h.end) PROVE ~OffAt(row.staff, row.start, row.end)
  <2>1. \A o \in Off : o[2] \in Int
    BY OffAssumption
  <2> QED BY <1>1, <1>4, <2>1 DEF OffAt, Inside
<1> QED BY <1>3, <1>4

\* What stays checked after a write stands in nobody's way.
LEMMA WrittenFree ==
  ASSUME TypeOK, Safe, NEW b \in Appointments, NEW row \in Row, NEW h, NEW ok,
         h.start \in Int, h.end \in Int,
         Written(b, row, h, ok), Takes(row)
  PROVE  /\ "slot" \notin unchecked'[b] => FreeBut(b, row)
         /\ "off" \notin unchecked'[b] => ~OffAt(row.staff, row.start, row.end)
<1>1. appt[b].start \in Int /\ appt[b].end \in Int
  BY RowFields, TimeInt
<1>2. ASSUME "slot" \notin unchecked'[b] PROVE FreeBut(b, row)
  <2>1. CASE "slot" \in ok /\ Inside(row, h)
    BY <2>1, InsideFree DEF Written
  <2>2. CASE Blocks(b) /\ Inside(row, appt[b]) /\ "slot" \notin unchecked[b]
    <3>1. FreeBut(b, appt[b])
      <4>1. ASSUME NEW c \in Appointments \ {b}, Blocks(c), appt[c].staff = appt[b].staff,
                   Overlaps(appt[c].start, appt[c].end, appt[b].start, appt[b].end, 0)
            PROVE  "slot" \in unchecked[c]
        BY <2>2, <4>1 DEF Safe, ClashNeedsUncheckedWrite, DoubleBooked
      <4> QED BY <4>1 DEF FreeBut
    <3> QED BY <1>1, <2>2, <3>1, InsideFree
  <2> QED BY <1>2, <2>1, <2>2, WrittenFacts DEF Kinds
<1>3. ASSUME "off" \notin unchecked'[b] PROVE ~OffAt(row.staff, row.start, row.end)
  <2>1. CASE "off" \in ok /\ Inside(row, h)
    BY <2>1, InsideFree DEF Written
  <2>2. CASE Blocks(b) /\ Inside(row, appt[b]) /\ "off" \notin unchecked[b]
    <3>1. ~OffAt(appt[b].staff, appt[b].start, appt[b].end)
      BY <2>2 DEF Safe, TimeOffNeedsUncheckedWrite, OnTimeOff
    <3> QED BY <1>1, <2>2, <3>1, InsideFree
  <2> QED BY <1>3, <2>1, <2>2, WrittenFacts DEF Kinds
<1> QED BY <1>2, <1>3

LEMMA WriteSafe ==
  ASSUME TypeOK, Safe, NEW b \in Appointments, NEW row \in Row, NEW h, NEW ok,
         h.start \in Int, h.end \in Int,
         Written(b, row, h, ok),
         LockExclusive' /\ CheckedSpanOn',
         \A p \in Requests : req'[p].pc = "commit" /\ "slot" \in req'[p].vetted
           => req'[p] = req[p] /\ ("slot" \in ok => req[p].staff # h.staff)
  PROVE  Safe'
<1>1. /\ \A c \in Appointments \ {b} : /\ Blocks(c)' <=> Blocks(c)
                                       /\ appt'[c] = appt[c]
                                       /\ unchecked'[c] = unchecked[c]
      /\ appt'[b] = row
      /\ Blocks(b)' => Takes(row)
  BY WrittenFacts
<1>2. ClashNeedsUncheckedWrite'
  <2>1. ASSUME NEW c \in Appointments \ {b}, DoubleBooked(b, c)' \/ DoubleBooked(c, b)'
        PROVE  "slot" \in unchecked'[b] \cup unchecked'[c]
    <3>1. /\ Takes(row) /\ Blocks(c) /\ row.staff = appt[c].staff
          /\ Overlaps(appt[c].start, appt[c].end, row.start, row.end, 0)
      BY <1>1, <2>1 DEF DoubleBooked, Overlaps
    <3>2. "slot" \notin unchecked'[b] => FreeBut(b, row)
      BY <3>1, WrittenFree
    <3> QED BY <1>1, <3>1, <3>2 DEF FreeBut
  <2>2. ASSUME NEW a \in Appointments \ {b}, NEW c \in Appointments \ {b}, DoubleBooked(a, c)'
        PROVE  "slot" \in unchecked'[a] \cup unchecked'[c]
    BY <1>1, <2>2 DEF DoubleBooked, Safe, ClashNeedsUncheckedWrite
  <2>3. ~DoubleBooked(b, b)'
    BY DEF DoubleBooked
  <2> QED BY <2>1, <2>2, <2>3 DEF ClashNeedsUncheckedWrite
<1>3. TimeOffNeedsUncheckedWrite'
  <2>1. ASSUME NEW c \in Appointments \ {b}, OnTimeOff(c)' PROVE "off" \in unchecked'[c]
    BY <1>1, <2>1 DEF OnTimeOff, OffAt, Safe, TimeOffNeedsUncheckedWrite
  <2>2. ASSUME OnTimeOff(b)' PROVE "off" \in unchecked'[b]
    BY <1>1, <2>2, WrittenFree DEF OnTimeOff, OffAt
  <2> QED BY <2>1, <2>2 DEF TimeOffNeedsUncheckedWrite
<1>4. CheckedSpanFree'
  <2>1. SUFFICES ASSUME NEW p \in Requests, req'[p].pc = "commit", "slot" \in req'[p].vetted,
                        NEW c \in Appointments \ {req[p].id},
                        Blocks(c)', appt'[c].staff = req[p].staff,
                        Overlaps(appt'[c].start, appt'[c].end, req[p].start, req[p].end, 0),
                        "slot" \notin unchecked'[c]
                 PROVE  FALSE
    BY DEF CheckedSpanFree, FreeBut
  <2>2. req'[p] = req[p] /\ ("slot" \in ok => req[p].staff # h.staff)
    BY <2>1
  <2>3. FreeBut(req[p].id, req[p])
    BY <2>1, <2>2 DEF Safe, CheckedSpanFree
  <2>4. CASE c # b
    BY <1>1, <2>1, <2>3, <2>4 DEF FreeBut
  <2>5. CASE c = b
    <3>1. \/ "slot" \in ok /\ Inside(row, h)
          \/ Blocks(b) /\ Inside(row, appt[b]) /\ "slot" \notin unchecked[b]
      BY <1>1, <2>1, <2>5, WrittenFacts DEF Kinds
    <3>2. CASE "slot" \in ok /\ Inside(row, h)
      BY <1>1, <2>1, <2>2, <2>5, <3>2 DEF Inside
    <3>3. CASE Blocks(b) /\ Inside(row, appt[b]) /\ "slot" \notin unchecked[b]
      <4>1. /\ row.start \in Int /\ row.end \in Int
            /\ appt[b].start \in Int /\ appt[b].end \in Int
            /\ req[p].start \in Int /\ req[p].end \in Int
        BY RowFields, LocalFields, TimeInt DEF Row, TypeOK
      <4>2. /\ appt[b].staff = req[p].staff
            /\ Overlaps(appt[b].start, appt[b].end, req[p].start, req[p].end, 0)
        BY <1>1, <2>1, <2>5, <3>3, <4>1 DEF Inside, Overlaps
      <4> QED BY <2>1, <2>3, <2>5, <3>3, <4>2 DEF FreeBut
    <3> QED BY <3>1, <3>2, <3>3
  <2> QED BY <2>4, <2>5
<1> QED BY <1>2, <1>3, <1>4 DEF Safe

-----------------------------------------------------------------------------
(* Every step keeps Safe.                                                  *)

LEMMA UntouchedCalendar ==
  ASSUME UNCHANGED <<present, appt, unchecked>> PROVE SameCalendar
BY DEF SameCalendar, Blocks, Live, Takes

LEMMA HarmlessJobs ==
  /\ Harmless(Idle)
  /\ \A pc, op, b, s, st, en, keep :
        (pc = "commit" => s = None) => Harmless(Job(pc, op, b, s, st, en, keep))
  /\ \A q, s : Harmless(ToConfirm(q, s))
  /\ \A q : Harmless(Resume(q)) /\ Harmless(Thrown(q))
BY DEF Harmless, Idle, Job, ToConfirm, Resume, Thrown

LEMMA SafeBegin ==
  ASSUME TypeOK, Safe, NEW r \in Requests,
         \/ BeginCreate(r) \/ BeginAssign(r) \/ BeginMove(r) \/ BeginReschedule(r)
         \/ BeginStretch(r) \/ BeginAddServices(r)
         \/ BeginReject(r) \/ BeginAutoAssign(r) \/ BeginMark(r) \/ BeginSweep(r)
  PROVE  Safe'
<1>1. UNCHANGED <<present, appt, unchecked>>
  BY ZenonT(30) DEF BeginCreate, BeginAssign, BeginMove, BeginReschedule, BeginStretch,
         BeginAddServices, BeginReject, BeginAutoAssign, BeginMark, BeginSweep
<1>2. ASSUME NEW q, Harmless(q), Begin(r, q) PROVE Safe'
  BY <1>1, <1>2, UntouchedCalendar, QuietSafe DEF Begin
<1>3. CASE BeginCreate(r)
  BY <1>2, <1>3, HarmlessJobs DEF BeginCreate
<1>4. CASE BeginAssign(r)
  BY <1>2, <1>4, HarmlessJobs DEF BeginAssign
<1>5. CASE BeginMove(r)
  BY <1>2, <1>5, HarmlessJobs DEF BeginMove
<1>6. CASE BeginReschedule(r)
  BY <1>2, <1>6, HarmlessJobs DEF BeginReschedule
<1>7. CASE BeginStretch(r)
  BY <1>2, <1>7, HarmlessJobs DEF BeginStretch
<1>8. CASE BeginAddServices(r)
  BY <1>2, <1>8, HarmlessJobs DEF BeginAddServices
<1>9. CASE BeginReject(r)
  BY <1>2, <1>9, HarmlessJobs DEF BeginReject
<1>10. CASE BeginAutoAssign(r)
  BY <1>2, <1>10, HarmlessJobs DEF BeginAutoAssign
<1>11. CASE BeginMark(r)
  BY <1>2, <1>11, HarmlessJobs DEF BeginMark
<1>12. CASE BeginSweep(r)
  <2>1. \A T, pc : pc \in {"sweep", "clear"}
          => Harmless([Idle EXCEPT !.pc = pc, !.op = "sweep", !.todo = T])
    BY DEF Harmless, Idle, Job
  <2> QED BY <1>2, <1>12, <2>1 DEF BeginSweep
<1> QED BY <1>3, <1>4, <1>5, <1>6, <1>7, <1>8, <1>9, <1>10, <1>11, <1>12

\* The check: the lock is free, and what it vouches for it has just seen.
LEMMA SafeCheck ==
  ASSUME TypeOK, Safe, NEW r \in Requests, Check(r)
  PROVE  Safe'
<1> DEFINE q == req[r]
           V == (IF Clash(q) THEN {} ELSE {"slot"}) \cup (IF q.op = "stretch" THEN {} ELSE {"off"})
           z == [q EXCEPT !.pc = "commit", !.keep = KeepStatus(q), !.vetted = V]
<1>1. q \in Local /\ q.pc = "check" /\ q.start \in Int /\ q.end \in Int
  BY LocalFields, TimeInt DEF TypeOK, Check
<1>2. UNCHANGED <<present, appt, unchecked>>
  BY DEF Check
<1>3. CASE Goto(r, Thrown(q))
  BY <1>2, <1>3, HarmlessJobs, UntouchedCalendar, QuietSafe DEF Goto
<1>4. CASE Goto(r, z) /\ ~SlotLocked(q.staff) /\ ~OffHit(q)
  <2>1. \A p \in Requests : req'[p] = IF p = r THEN z ELSE req[p]
    BY <1>4 DEF Goto, TypeOK
  <2>2. /\ z.pc = "commit" /\ z.vetted = V
        /\ z.id = q.id /\ z.staff = q.staff /\ z.start = q.start /\ z.end = q.end
    BY <1>1 DEF Local, LocalRecord
  <2> HIDE DEF V, z
  <2>3. LockExclusive'
    <3>1. \A p \in Requests \ {r} : req[p].pc = "commit" => req[p].staff # q.staff
      BY <1>4 DEF SlotLocked
    <3>2. LockExclusive
      BY DEF Safe
    <3> QED BY <2>1, <2>2, <3>1, <3>2 DEF LockExclusive
  <2>4. CheckedSpanOn'
    <3>1. "off" \in V => ~OffAt(q.staff, q.start, q.end)
      BY <1>4 DEF OffHit, V
    <3> QED BY <2>1, <2>2, <3>1 DEF CheckedSpanOn, Safe
  <2>5. "slot" \in V => FreeBut(z.id, z)
    <3>1. SUFFICES ASSUME ~Clash(q) PROVE FreeBut(z.id, z)
      BY DEF V
    <3>2. Pad(q.op) \in Nat
      BY GapAssumption DEF Pad
    <3>3. \A c \in Appointments : appt[c].start \in Int /\ appt[c].end \in Int
      BY RowFields, TimeInt
    <3> QED BY <1>1, <2>2, <3>1, <3>2, <3>3 DEF FreeBut, Clash, Conflict, Overlaps
  <2>6. CheckedSpanFree'
    <3>1. SUFFICES ASSUME NEW p \in Requests, req'[p].pc = "commit", "slot" \in req'[p].vetted
                   PROVE  FreeBut(req[p].id, req[p])'
      BY DEF CheckedSpanFree
    <3>2. CASE p = r
      <4>1. FreeBut(z.id, z) /\ req'[p] = z
        BY <2>1, <2>2, <2>5, <3>1, <3>2
      <4> QED BY <1>2, <4>1 DEF FreeBut, Blocks, Live
    <3>3. CASE p # r
      <4>1. FreeBut(req[p].id, req[p]) /\ req'[p] = req[p]
        BY <2>1, <3>1, <3>3 DEF Safe, CheckedSpanFree
      <4> QED BY <1>2, <4>1 DEF FreeBut, Blocks, Live
    <3> QED BY <3>2, <3>3
  <2>7. ClashNeedsUncheckedWrite' /\ TimeOffNeedsUncheckedWrite'
    BY <1>2 DEF Safe, ClashNeedsUncheckedWrite, TimeOffNeedsUncheckedWrite, DoubleBooked,
                OnTimeOff, Blocks, Live
  <2> QED BY <2>3, <2>4, <2>6, <2>7 DEF Safe
<1> QED BY <1>3, <1>4 DEF Check

LEMMA SafeEngine ==
  ASSUME TypeOK, Safe, NEW r \in Requests,
         \/ SweepNext(r) \/ SweepDone(r) \/ SweepClear(r) \/ Rank(r)
  PROVE  Safe'
<1> DEFINE q == req[r]
<1>1. CASE SweepNext(r)
  <2>1. \A e : Harmless([q EXCEPT !.pc = "rank", !.id = e[1], !.todo = @ \ {e}])
    BY DEF TypeOK, Local, LocalRecord, Harmless
  <2>2. \E z : Harmless(z) /\ Goto(r, z)
    BY <1>1, <2>1, HarmlessJobs DEF SweepNext
  <2>3. SameCalendar
    BY <1>1, UntouchedCalendar DEF SweepNext
  <2> QED BY <2>2, <2>3, QuietSafe DEF Goto
<1>2. CASE SweepDone(r)
  BY <1>2, HarmlessJobs, UntouchedCalendar, QuietSafe DEF SweepDone, Goto
<1>3. CASE SweepClear(r)
  <2>1. SameCalendar
    BY <1>3 DEF SweepClear, SameCalendar, Blocks, Live, Takes, TypeOK, Row
  <2> QED BY <1>3, <2>1, HarmlessJobs, QuietSafe DEF SweepClear, Goto
<1>4. CASE Rank(r)
  <2>1. SameCalendar
    BY <1>4, UntouchedCalendar DEF Rank
  <2>2. /\ \A s, st, en : Harmless([q EXCEPT !.pc = "check", !.staff = s, !.start = st, !.end = en])
        /\ Harmless([q EXCEPT !.pc = "giveup", !.staff = None])
    BY DEF TypeOK, Local, LocalRecord, Harmless
  <2>3. \E z : Harmless(z) /\ Goto(r, z)
    BY <1>4, <2>2, HarmlessJobs DEF Rank
  <2> QED BY <2>1, <2>3, QuietSafe DEF Goto
<1> QED BY <1>1, <1>2, <1>3, <1>4

\* A transaction writes what it checked, under the lock it still holds.
LEMMA CommitSafe ==
  ASSUME TypeOK, Safe, NEW r \in Requests, req[r].pc = "commit",
         NEW z, Harmless(z), Goto(r, z), NEW row \in Row,
         WriteRow(req[r].id, row, req[r], req[r].vetted),
         \A c \in Appointments \ {req[r].id} : present'[c] = present[c]
  PROVE  Safe'
<1> DEFINE q == req[r]
<1>1. /\ q \in Local /\ q.id \in Appointments /\ q.start \in Int /\ q.end \in Int
      /\ q.vetted # {} => q.staff \in Staff
  BY LocalFields, TimeInt DEF TypeOK, WellFormed
<1>2. Written(q.id, row, q, q.vetted)
  BY DEF Written, Safe, CheckedSpanFree, CheckedSpanOn
<1>3. /\ LockExclusive' /\ CheckedSpanOn'
      /\ \A p \in Requests : req'[p].pc = "commit" /\ "slot" \in req'[p].vetted
                               => p # r /\ req'[p] = req[p]
  BY HarmlessReq DEF Safe, Goto
<1>4. ASSUME NEW p \in Requests, req'[p].pc = "commit", "slot" \in req'[p].vetted,
             "slot" \in q.vetted
      PROVE  req[p].staff # q.staff
  BY <1>1, <1>3, <1>4, NoneAssumption DEF Safe, LockExclusive
<1> QED BY <1>1, <1>2, <1>3, <1>4, WriteSafe

LEMMA CommitIfLive ==
  ASSUME TypeOK, Safe, NEW r \in Requests, req[r].pc = "commit",
         NEW z, Harmless(z), Goto(r, z), NEW row \in Row,
         UpdateIfLive(req[r].id, row, req[r], req[r].vetted), present' = present
  PROVE  Safe'
<1>1. CASE Live(req[r].id)
  BY <1>1, CommitSafe DEF UpdateIfLive
<1>2. CASE ~Live(req[r].id)
  BY <1>2, UntouchedCalendar, QuietSafe DEF UpdateIfLive, Goto
<1> QED BY <1>1, <1>2

LEMMA UncheckedIsWritten ==
  ASSUME NEW b \in Appointments, NEW row, NEW h,
         WriteRow(b, row, h, {}), \A c \in Appointments \ {b} : present'[c] = present[c]
  PROVE  Written(b, row, h, {})
BY DEF Written

\* A write that checked nothing, by a request or by a one-statement handler.
LEMMA UncheckedSafe ==
  ASSUME TypeOK, Safe, NEW b \in Appointments, NEW row \in Row,
         NEW h, h.start \in Int, h.end \in Int,
         WriteRow(b, row, h, {}), \A c \in Appointments \ {b} : present'[c] = present[c],
         \/ req' = req
         \/ \E r \in Requests : \E z : Harmless(z) /\ Goto(r, z)
  PROVE  Safe'
<1>1. Written(b, row, h, {})
  BY UncheckedIsWritten
<1>2. CASE req' = req
  <2>1. LockExclusive' /\ CheckedSpanOn'
    BY <1>2 DEF Safe, LockExclusive, CheckedSpanOn
  <2> QED BY <1>1, <1>2, <2>1, WriteSafe
<1>3. CASE \E r \in Requests : \E z : Harmless(z) /\ Goto(r, z)
  <2>1. /\ LockExclusive' /\ CheckedSpanOn'
        /\ \A p \in Requests : req'[p].pc = "commit" /\ "slot" \in req'[p].vetted
                                 => req'[p] = req[p]
    BY <1>3, HarmlessReq DEF Safe, Goto
  <2> QED BY <1>1, <2>1, WriteSafe
<1> QED BY <1>2, <1>3

LEMMA RowSpan == ASSUME NEW row \in Row PROVE row.start \in Int /\ row.end \in Int
BY TimeInt DEF Row

LEMMA SafeCommit ==
  ASSUME TypeOK, TypeOK', Safe, NEW r \in Requests,
         \/ CommitCreate(r) \/ CommitHand(r) \/ CommitTimes(r) \/ CommitEnd(r)
  PROVE  Safe'
<1> DEFINE q == req[r]
           old == appt[q.id]
<1>1. /\ q \in Local /\ q.pc = "commit" /\ q.id \in Appointments /\ old \in Row
      /\ q.staff \in StaffOrNone /\ q.start \in Time /\ q.end \in Time
  BY LocalFields, RowFields DEF TypeOK, WellFormed, CommitCreate, CommitHand, CommitTimes, CommitEnd
<1>2. CASE CommitCreate(r)
  <2>1. PICK row : /\ WriteRow(q.id, row, q, q.vetted)
                   /\ present' = [present EXCEPT ![q.id] = "live"]
    BY <1>2 DEF CommitCreate
  <2>2. row \in Row
    <3>1. appt'[q.id] = row
      BY <1>1, <2>1 DEF WriteRow, TypeOK
    <3> QED BY <1>1, <3>1 DEF TypeOK
  <2>3. \E z : Harmless(z) /\ Goto(r, z)
    BY <1>2, HarmlessJobs DEF CommitCreate
  <2>4. \A c \in Appointments \ {q.id} : present'[c] = present[c]
    BY <2>1 DEF TypeOK
  <2> QED BY <1>1, <2>1, <2>2, <2>3, <2>4, CommitSafe
<1>3. CASE CommitHand(r)
  <2> DEFINE times == IF q.op = "move" THEN [old EXCEPT !.start = q.start, !.end = q.end] ELSE old
             row == IF q.keep THEN [times EXCEPT !.staff = q.staff]
                    ELSE [times EXCEPT !.staff = q.staff, !.status = "ASSIGNED", !.deadline = "set"]
  <2>1. times \in Row
    BY ZenonT(30), <1>1, RowUpdates, StatusNames
  <2>2. row \in Row
    BY <1>1, <2>1, RowUpdates, StatusNames
  <2>3. /\ UpdateIfLive(q.id, row, q, q.vetted) /\ Goto(r, Resume(q)) /\ present' = present
    BY <1>3 DEF CommitHand
  <2> QED BY <1>1, <2>2, <2>3, CommitIfLive, HarmlessJobs
<1>4. CASE CommitTimes(r)
  <2>1. [old EXCEPT !.start = q.start, !.end = q.end] \in Row
    BY <1>1, RowUpdates, StatusNames
  <2> QED BY <1>1, <1>4, <2>1, CommitIfLive, HarmlessJobs DEF CommitTimes
<1>5. CASE CommitEnd(r)
  <2>1. [old EXCEPT !.end = q.end] \in Row
    BY <1>1, RowUpdates, StatusNames
  <2> QED BY <1>1, <1>5, <2>1, CommitIfLive, HarmlessJobs DEF CommitEnd
<1> QED BY <1>2, <1>3, <1>4, <1>5

\* Writes of a request that no transaction guards.
LEMMA SafeBareWrite ==
  ASSUME TypeOK, Safe, NEW r \in Requests,
         GiveUp(r) \/ Confirm(r) \/ Seat(r) \/ Mark(r)
  PROVE  Safe'
<1> DEFINE q == req[r]
           old == appt[q.id]
<1>1. /\ q \in Local /\ q.id \in Appointments /\ old \in Row
      /\ q.start \in Int /\ q.end \in Int
      /\ q.pc = "write" => q.op \in MarkOps
      /\ present' = present
  BY LocalFields, RowFields, TimeInt DEF TypeOK, WellFormed, GiveUp, Confirm, Seat, Mark
<1>2. \E z : Harmless(z) /\ Goto(r, z)
  BY HarmlessJobs DEF GiveUp, Confirm, Seat, Mark
<1>3. ASSUME UNCHANGED <<appt, unchecked>> PROVE Safe'
  BY <1>1, <1>2, <1>3, UntouchedCalendar, QuietSafe DEF Goto
<1>4. ASSUME NEW row \in Row, WriteUnchecked(q.id, row) \/ WriteRow(q.id, row, q, {}) PROVE Safe'
  BY <1>1, <1>2, <1>4, RowSpan, UncheckedSafe DEF WriteUnchecked
<1>5. CASE GiveUp(r)
  <2>1. /\ [old EXCEPT !.deadline = "none"] \in Row
        /\ [old EXCEPT !.status = "PENDING", !.staff = None, !.deadline = "none"] \in Row
    BY <1>1 DEF Row, StaffOrNone, Statuses, ACTIONABLE
  <2> QED BY <1>3, <1>4, <1>5, <2>1 DEF GiveUp, UpdateIfLive
<1>6. CASE Confirm(r)
  <2>1. [old EXCEPT !.status = "CONFIRMED", !.deadline = "none"] \in Row
    BY <1>1 DEF Row, Statuses, ACTIONABLE
  <2> QED BY <1>3, <1>4, <1>6, <2>1 DEF Confirm
<1>7. CASE Seat(r)
  <2>1. [old EXCEPT !.status = "ARRIVED"] \in Row
    BY <1>1 DEF Row, Statuses, BLOCKING_STATUSES
  <2> QED BY <1>3, <1>4, <1>7, <2>1 DEF Seat
<1>8. CASE Mark(r)
  <2>1. [old EXCEPT !.status = MarkTo[q.op]] \in Row
    BY <1>1, <1>8, StatusNames DEF Row, Mark
  <2> QED BY <1>3, <1>4, <1>8, <2>1 DEF Mark
<1> QED BY <1>5, <1>6, <1>7, <1>8

LEMMA SafeDirect ==
  ASSUME TypeOK, TypeOK', Safe, NEW b \in Appointments,
         \/ SetStatus(b) \/ Cancel(b) \/ ConfirmBySalon(b) \/ CloseMissed(b)
         \/ FollowFloor(b) \/ Remove(b) \/ Restore(b) \/ DeadlinePasses(b)
  PROVE  Safe'
<1>1. ASSUME NEW row, WriteUnchecked(b, row), req' = req,
             \A c \in Appointments \ {b} : present'[c] = present[c]
      PROVE  Safe'
  <2>1. appt'[b] = row
    BY <1>1 DEF WriteUnchecked, WriteRow, TypeOK
  <2>2. row \in Row
    BY <2>1 DEF TypeOK
  <2> QED BY <1>1, <2>2, RowSpan, UncheckedSafe DEF WriteUnchecked
<1>2. CASE SetStatus(b)
  BY <1>1, <1>2 DEF SetStatus
<1>3. CASE Cancel(b)
  BY <1>1, <1>3 DEF Cancel
<1>4. CASE ConfirmBySalon(b)
  BY <1>1, <1>4 DEF ConfirmBySalon
<1>5. CASE CloseMissed(b)
  BY <1>1, <1>5 DEF CloseMissed
<1>6. CASE FollowFloor(b)
  BY <1>1, <1>6 DEF FollowFloor
<1>7. CASE Restore(b)
  <2>1. \A c \in Appointments \ {b} : present'[c] = present[c]
    BY <1>7 DEF Restore, TypeOK
  <2> QED BY <1>1, <1>7, <2>1 DEF Restore
<1>8. CASE DeadlinePasses(b)
  <2>1. SameCalendar
    BY <1>8 DEF DeadlinePasses, SameCalendar, Blocks, Live, Takes, TypeOK, Row
  <2> QED BY <1>8, <2>1, StillSafe DEF DeadlinePasses
<1>9. CASE Remove(b)
  <2>1. /\ \A c \in Appointments \ {b} : /\ Blocks(c)' <=> Blocks(c)
                                         /\ unchecked'[c] = unchecked[c]
        /\ ~Blocks(b)'
        /\ appt' = appt /\ req' = req
    BY <1>9 DEF Remove, Blocks, Live, TypeOK
  <2>2. CheckedSpanFree'
    BY <2>1 DEF CheckedSpanFree, FreeBut, Safe
  <2>3. ClashNeedsUncheckedWrite'
    BY <2>1 DEF ClashNeedsUncheckedWrite, DoubleBooked, Safe
  <2>4. TimeOffNeedsUncheckedWrite'
    BY <2>1 DEF TimeOffNeedsUncheckedWrite, OnTimeOff, Safe
  <2> QED BY <2>1, <2>2, <2>3, <2>4 DEF Safe, LockExclusive, CheckedSpanOn
<1> QED BY <1>2, <1>3, <1>4, <1>5, <1>6, <1>7, <1>8, <1>9

LEMMA SafeInit == Init => Safe
BY DEF Init, Idle, Job, Safe, LockExclusive, CheckedSpanFree, CheckedSpanOn,
       ClashNeedsUncheckedWrite, DoubleBooked, TimeOffNeedsUncheckedWrite, OnTimeOff, Blocks, Live

LEMMA SafeNext == TypeOK /\ Safe /\ [Next]_vars => Safe'
<1> SUFFICES ASSUME TypeOK, Safe, [Next]_vars PROVE Safe'
  OBVIOUS
<1>1. TypeOK'
  BY TypeNext
<1>2. CASE UNCHANGED vars
  BY <1>2, UntouchedCalendar, StillSafe DEF vars
<1>3. ASSUME NEW r \in Requests, Crash(r) PROVE Safe'
  BY <1>3, HarmlessJobs, UntouchedCalendar, QuietSafe DEF Crash, Goto
<1>4. CASE Tick
  BY <1>4, UntouchedCalendar, StillSafe DEF Tick
<1>5. CASE Next
  BY <1>1, <1>3, <1>4, <1>5, SafeBegin, SafeCheck, SafeEngine, SafeCommit, SafeBareWrite,
     SafeDirect DEF Next, Continue
<1> QED BY <1>2, <1>5

\* The inductive invariant holds of every run.
THEOREM InvCorrect == Spec => []IInv
<1>1. Init => IInv
  BY TypeInit, SafeInit DEF IInv
<1>2. IInv /\ [Next]_vars => IInv'
  BY TypeNext, SafeNext DEF IInv
<1> QED BY <1>1, <1>2, PTL DEF Spec

\* No transaction's check goes stale before its write: locks are exclusive, and
\* what lockStaffSlot and assertNoOverlap established still holds at the commit.
THEOREM SafeCorrect == Spec => []Safe
<1>1. IInv => Safe
  BY DEF IInv
<1> QED BY <1>1, InvCorrect, PTL

\* Two live bookings share a technician's time only if one of them was put there
\* by a write that did not check the overlap of what it wrote.
THEOREM ClashCorrect == Spec => []ClashNeedsUncheckedWrite
<1>1. IInv => ClashNeedsUncheckedWrite
  BY DEF IInv, Safe
<1> QED BY <1>1, InvCorrect, PTL

\* A booking sits on its technician's time off, or on a blocked salon, only if
\* the write that put it there did not check the time off of what it wrote.
THEOREM TimeOffCorrect == Spec => []TimeOffNeedsUncheckedWrite
<1>1. IInv => TimeOffNeedsUncheckedWrite
  BY DEF IInv, Safe
<1> QED BY <1>1, InvCorrect, PTL

-----------------------------------------------------------------------------
(* On the clock.  No handler but the sweep and the status dropdown leaves  *)
(* a booking ASSIGNED without a deadline, on the table or in the trash.    *)

Ticks(row) == row.status = "ASSIGNED" => row.deadline # "none"

NotSweeping(q) == q.op # "sweep" /\ q.pc \notin {"sweep", "clear"}

ClockInv == /\ \A b \in Appointments : Ticks(appt[b])
            /\ \A r \in Requests : NotSweeping(req[r])

LEMMA TickingWrite ==
  ASSUME TypeOK, \A c \in Appointments : Ticks(appt[c]),
         NEW b \in Appointments, NEW row, Ticks(row), NEW h, NEW ok,
         \/ WriteRow(b, row, h, ok) \/ UpdateIfLive(b, row, h, ok) \/ WriteUnchecked(b, row)
         \/ UNCHANGED <<appt, unchecked>>
  PROVE  \A c \in Appointments : Ticks(appt'[c])
BY DEF TypeOK, WriteRow, UpdateIfLive, WriteUnchecked

LEMMA ClockBegin ==
  ASSUME ClockInv, TypeOK, "sweep" \notin Ops, NEW r \in Requests,
         \/ BeginCreate(r) \/ BeginAssign(r) \/ BeginMove(r) \/ BeginReschedule(r)
         \/ BeginStretch(r) \/ BeginAddServices(r)
         \/ BeginReject(r) \/ BeginAutoAssign(r) \/ BeginMark(r) \/ BeginSweep(r)
  PROVE  ClockInv'
<1>1. \E q : NotSweeping(q) /\ Begin(r, q)
  <2>1. \A pc, op, b, s, st, en, keep :
           op # "sweep" /\ pc \notin {"sweep", "clear"} => NotSweeping(Job(pc, op, b, s, st, en, keep))
    BY DEF NotSweeping, Job
  <2>2. CASE BeginCreate(r)
    BY <2>1, <2>2 DEF BeginCreate
  <2>3. CASE BeginAssign(r) \/ BeginMove(r)
    BY <2>1, <2>3 DEF BeginAssign, BeginMove
  <2>4. CASE BeginReschedule(r)
    BY <2>1, <2>4 DEF BeginReschedule, TimeOps
  <2>5. CASE BeginStretch(r) \/ BeginAddServices(r)
    BY <2>1, <2>5 DEF BeginStretch, BeginAddServices
  <2>6. CASE BeginReject(r) \/ BeginAutoAssign(r)
    BY <2>1, <2>6 DEF BeginReject, BeginAutoAssign
  <2>7. CASE BeginMark(r)
    BY <2>1, <2>7 DEF BeginMark, MarkOps
  <2>8. CASE BeginSweep(r)
    BY <2>8 DEF BeginSweep
  <2> QED
    BY <2>2, <2>3, <2>4, <2>5, <2>6, <2>7, <2>8
<1>2. appt' = appt
  BY ZenonT(30) DEF BeginCreate, BeginAssign, BeginMove, BeginReschedule, BeginStretch, BeginAddServices,
         BeginReject, BeginAutoAssign, BeginMark, BeginSweep
<1> QED
  BY <1>1, <1>2 DEF ClockInv, Begin, TypeOK

LEMMA ClockJobs ==
  ASSUME NEW q, NotSweeping(q)
  PROVE  /\ NotSweeping(Idle) /\ NotSweeping(Resume(q)) /\ NotSweeping(Thrown(q))
         /\ \A s : NotSweeping(ToConfirm(q, s))
         /\ NotSweeping(Job("seat", q.op, q.id, None, 0, 0, FALSE))
         /\ \A op \in StaffingOps : NotSweeping(Job("rank", op, q.id, None, 0, 0, FALSE))
BY DEF NotSweeping, Idle, Job, Resume, Thrown, ToConfirm, StaffingOps

LEMMA ClockContinue ==
  ASSUME ClockInv, TypeOK, NEW r \in Requests, Continue(r)
  PROVE  ClockInv'
<1> DEFINE q == req[r]  old == appt[q.id]
<1>1. /\ NotSweeping(q) /\ q \in Local /\ \A c \in Appointments : Ticks(appt[c])
      /\ q.id \in Appointments => old \in Row
  BY DEF ClockInv, TypeOK
<1>2. ASSUME NEW z, NotSweeping(z), Goto(r, z), \A c \in Appointments : Ticks(appt'[c])
      PROVE  ClockInv'
  BY <1>2 DEF ClockInv, Goto, TypeOK
<1>3. CASE SweepNext(r) \/ SweepDone(r) \/ SweepClear(r)
  BY <1>1, <1>3 DEF SweepNext, SweepDone, SweepClear, NotSweeping
<1>4. CASE Rank(r)
  <2>1. \A s, st, en : NotSweeping([q EXCEPT !.pc = "check", !.staff = s, !.start = st, !.end = en])
    BY <1>1 DEF NotSweeping, Local, LocalRecord
  <2>2. NotSweeping([q EXCEPT !.pc = "giveup", !.staff = None])
    BY <1>1 DEF NotSweeping, Local, LocalRecord
  <2>3. \E z : NotSweeping(z) /\ Goto(r, z)
    BY <1>1, <1>4, <2>1, <2>2, ClockJobs DEF Rank
  <2>4. appt' = appt
    BY <1>4 DEF Rank
  <2> QED
    BY <1>1, <1>2, <2>3, <2>4
<1>5. CASE Check(r)
  <2>1. \A k, v : NotSweeping([q EXCEPT !.pc = "commit", !.keep = k, !.vetted = v])
    BY <1>1 DEF NotSweeping, Local, LocalRecord
  <2>2. \E z : NotSweeping(z) /\ Goto(r, z)
    BY <1>1, <1>5, <2>1, ClockJobs DEF Check
  <2>3. appt' = appt
    BY <1>5 DEF Check
  <2> QED
    BY <1>1, <1>2, <2>2, <2>3
<1>6. q.pc \in {"giveup", "commit", "confirm", "seat", "write"} => q.id \in Appointments /\ old \in Row
  BY <1>1, LocalFields DEF WellFormed
<1>7. CASE GiveUp(r)
  <2>1. Ticks([old EXCEPT !.status = "PENDING", !.staff = None, !.deadline = "none"])
    BY <1>6, <1>7 DEF GiveUp, Ticks, Row
  <2>2. UpdateIfLive(q.id, [old EXCEPT !.status = "PENDING", !.staff = None,
                                        !.deadline = "none"], q, {})
    BY <1>1, <1>7 DEF GiveUp, NotSweeping
  <2>3. \A c \in Appointments : Ticks(appt'[c])
    BY <1>1, <1>6, <1>7, <2>1, <2>2, TickingWrite DEF GiveUp
  <2> QED
    BY <1>1, <1>2, <1>7, <2>3, ClockJobs DEF GiveUp
<1>8. CASE CommitCreate(r)
  <2> DEFINE status == IF q.keep THEN "CONFIRMED"
                       ELSE IF q.staff # None THEN "ASSIGNED" ELSE "PENDING"
             row == [status |-> status, staff |-> q.staff, start |-> q.start, end |-> q.end,
                     deadline |-> IF status = "ASSIGNED" THEN "set" ELSE "none"]
  <2>1. Ticks(row)
    BY DEF Ticks
  <2>2. WriteRow(q.id, row, q, q.vetted)
    BY <1>8 DEF CommitCreate
  <2>3. \A c \in Appointments : Ticks(appt'[c])
    <3> HIDE DEF row
    <3> QED
      BY <1>1, <1>6, <1>8, <2>1, <2>2, TickingWrite DEF CommitCreate
  <2>4. \E z : NotSweeping(z) /\ Goto(r, z)
    BY <1>1, <1>8, ClockJobs DEF CommitCreate, StaffingOps
  <2> QED
    BY <1>2, <2>3, <2>4
<1>9. CASE CommitHand(r)
  <2> DEFINE times == IF q.op = "move" THEN [old EXCEPT !.start = q.start, !.end = q.end] ELSE old
             row == IF q.keep THEN [times EXCEPT !.staff = q.staff]
                    ELSE [times EXCEPT !.staff = q.staff, !.status = "ASSIGNED", !.deadline = "set"]
  <2>1. Ticks(row)
    BY <1>1, <1>6, <1>9 DEF CommitHand, Ticks, Row
  <2>2. UpdateIfLive(q.id, row, q, q.vetted)
    BY <1>9 DEF CommitHand
  <2>3. \A c \in Appointments : Ticks(appt'[c])
    <3> HIDE DEF row
    <3> QED
      BY <1>1, <1>6, <1>9, <2>1, <2>2, TickingWrite DEF CommitHand
  <2> QED
    BY <1>1, <1>2, <1>9, <2>3, ClockJobs DEF CommitHand
<1>10. CASE CommitTimes(r) \/ CommitEnd(r)
  <2>1. /\ q.id \in Appointments
        /\ Ticks([old EXCEPT !.start = q.start, !.end = q.end]) /\ Ticks([old EXCEPT !.end = q.end])
    BY <1>1, <1>6, <1>10 DEF CommitTimes, CommitEnd, Ticks, Row
  <2>2. \A c \in Appointments : Ticks(appt'[c])
    BY <1>1, <1>10, <2>1, TickingWrite DEF CommitTimes, CommitEnd
  <2> QED
    BY <1>1, <1>2, <1>10, <2>2, ClockJobs DEF CommitTimes, CommitEnd
<1>11. CASE Confirm(r)
  <2>1. q.id \in Appointments /\ Ticks([old EXCEPT !.status = "CONFIRMED", !.deadline = "none"])
    BY <1>6, <1>11 DEF Confirm, Ticks, Row
  <2>2. \A c \in Appointments : Ticks(appt'[c])
    BY <1>1, <1>11, <2>1, TickingWrite DEF Confirm
  <2>3. \E z : NotSweeping(z) /\ Goto(r, z)
    BY <1>1, <1>11, ClockJobs DEF Confirm
  <2> QED
    BY <1>2, <2>2, <2>3
<1>12. CASE Seat(r) \/ Mark(r)
  <2>1. /\ q.id \in Appointments /\ Ticks([old EXCEPT !.status = "ARRIVED"])
        /\ q.pc = "write" => Ticks([old EXCEPT !.status = MarkTo[q.op]])
    BY <1>1, <1>6, <1>12, LocalFields DEF Seat, Mark, Ticks, Row, WellFormed, MarkOps, MarkTo
  <2>2. \A c \in Appointments : Ticks(appt'[c])
    BY <1>1, <1>12, <2>1, TickingWrite DEF Seat, Mark
  <2> QED
    BY <1>1, <1>2, <1>12, <2>2, ClockJobs DEF Seat, Mark
<1> QED
  BY <1>3, <1>4, <1>5, <1>7, <1>8, <1>9, <1>10, <1>11, <1>12 DEF Continue

LEMMA ClockDirect ==
  ASSUME ClockInv, TypeOK, "setStatus" \notin Ops, NEW b \in Appointments,
         \/ SetStatus(b) \/ Cancel(b) \/ ConfirmBySalon(b) \/ CloseMissed(b)
         \/ FollowFloor(b) \/ Remove(b) \/ Restore(b) \/ DeadlinePasses(b)
  PROVE  ClockInv'
<1>1. appt[b] \in Row /\ \A c \in Appointments : Ticks(appt[c])
  BY DEF ClockInv, TypeOK
<1>2. req' = req
  BY DEF SetStatus, Cancel, ConfirmBySalon, CloseMissed, FollowFloor, Remove, Restore, DeadlinePasses
<1>3. /\ Ticks([appt[b] EXCEPT !.status = "CANCELLED"]) /\ Ticks([appt[b] EXCEPT !.status = "NO_SHOW"])
      /\ Ticks([appt[b] EXCEPT !.status = "CONFIRMED", !.deadline = "none"])
      /\ \A s : Ticks([appt[b] EXCEPT !.staff = s])
      /\ Ticks([appt[b] EXCEPT !.deadline = "passed"])
  BY <1>1 DEF Ticks, Row
<1>4. \A c \in Appointments : Ticks(appt'[c])
  <2>1. CASE SetStatus(b) \/ Remove(b)
    BY <1>1, <2>1 DEF SetStatus, Remove
  <2>2. CASE Cancel(b) \/ ConfirmBySalon(b) \/ CloseMissed(b)
    BY <1>1, <1>3, <2>2, TickingWrite DEF Cancel, ConfirmBySalon, CloseMissed
  <2>3. CASE FollowFloor(b)
    BY <1>1, <1>3, <2>3, TickingWrite DEF FollowFloor
  <2>4. CASE Restore(b)
    BY <1>1, <2>4, TickingWrite DEF Restore
  <2>5. CASE DeadlinePasses(b)
    BY <1>1, <1>3, <2>5 DEF DeadlinePasses, TypeOK
  <2> QED
    BY <2>1, <2>2, <2>3, <2>4, <2>5
<1> QED
  BY <1>2, <1>4 DEF ClockInv

\* Where neither the sweep runs nor the dropdown is used, a technician who is asked to accept
\* has a deadline, whatever else happens to the booking, restores and restarts included.
THEOREM AskedCorrect ==
  ASSUME Ops \cap {"sweep", "setStatus"} = {}
  PROVE  Spec => []AskedOnTheClock
<1>1. Init => ClockInv
  BY DEF Init, ClockInv, Ticks, NotSweeping, Idle, Job
<1>2. TypeOK /\ ClockInv /\ [Next]_vars => ClockInv'
  <2> SUFFICES ASSUME TypeOK, ClockInv, [Next]_vars PROVE ClockInv'
    OBVIOUS
  <2>1. CASE UNCHANGED vars
    BY <2>1 DEF vars, ClockInv
  <2>2. ASSUME NEW r \in Requests, Crash(r) PROVE ClockInv'
    BY <2>2 DEF Crash, Goto, ClockInv, NotSweeping, Idle, Job, TypeOK
  <2>3. CASE Tick
    BY <2>3 DEF Tick, ClockInv
  <2> QED
    BY <2>1, <2>2, <2>3, ClockBegin, ClockContinue, ClockDirect DEF Next
<1>3. ClockInv => AskedOnTheClock
  BY DEF ClockInv, AskedOnTheClock, Ticks
<1> QED
  BY <1>1, <1>2, <1>3, TypeCorrect, PTL DEF Spec

-----------------------------------------------------------------------------
(* Nobody twice.  With these operations a booking keeps its times once it  *)
(* is made, so that what a request checks is what it writes; and no one    *)
(* confirms a booking but the request that made it.                        *)

FixedTimes == {"create", "publicCreate", "assign", "selfTech", "autoAssign", "reject", "sweep",
               "silence", "cancel", "closeMissed", "clock", "crash"}

Creating == {"create", "publicCreate"}
Making   == Creating \cup StaffingOps
Handing  == HandOps \ {"move"}

\* A row written by these operations: all of its time was asked for.
Vouched(b) ==
  /\ unchecked[b] = {}
  /\ present[b] # "trash"
  /\ appt[b].status \in {"PENDING", "ASSIGNED", "CONFIRMED", "CANCELLED", "NO_SHOW"}

\* A row that nobody confirmed yet: at the desk it has no technician.
Young(row) == row.status # "CONFIRMED" /\ (row.status = "PENDING" => row.staff = None)

\* r made its booking, or is about to, and may still confirm it.
Fresh(r) == req[r].op \in Making /\ ~req[r].keep /\ req[r].id \in Appointments

\* Until then nobody took that booking for a confirmed one.
FirstWord(r) ==
  Fresh(r) => /\ \A p \in Requests \ {r} :
                    req[p].id = req[r].id => ~req[p].keep /\ req[p].op \notin Making
              /\ Live(req[r].id) => Young(appt[req[r].id])

\* A request that makes a row is alone with it; one that hands it on has its times right.
MakesAlone(r) ==
  /\ req[r].op \in Creating /\ present[req[r].id] = "unborn"
  /\ \A p \in Requests \ {r} : req[p].id # req[r].id
  /\ req[r].keep => req[r].staff # None

HandsAsIs(q) ==
  /\ q.op \in Handing /\ Live(q.id)
  /\ q.start = appt[q.id].start /\ q.end = appt[q.id].end

\* What each point of a request stands for.
Placed(q) ==
  /\ q.op \in {"none"} \cup Creating \cup Handing
  /\ q.pc \notin {"write", "seat"}
  /\ q.pc = "rank" => q.op \in EngineOps
  /\ q.pc = "sweep" => q.op = "sweep" /\ ~q.keep
  /\ q.pc = "confirm" => q.op \in Making
  /\ q.op \in StaffingOps => ~q.keep
  /\ q.pc = "commit" => q.staff = None \/ q.vetted = Kinds

Honest(r) ==
  /\ Placed(req[r])
  /\ req[r].pc \in {"check", "commit"} => MakesAlone(r) \/ HandsAsIs(req[r])
  /\ FirstWord(r)

FixedInv == /\ \A b \in Appointments : Vouched(b)
            /\ \A r \in Requests : Honest(r)

\* What a step of another leaves of p's row: its place, its times and, while it is fresh, its youth.
Undisturbed(p) ==
  LET b == req[p].id IN
  b \in Appointments =>
    /\ Live(b) => /\ present'[b] = "live"
                  /\ appt'[b].start = appt[b].start /\ appt'[b].end = appt[b].end
    /\ present[b] = "unborn" => present'[b] = "unborn"
    /\ Fresh(p) /\ present'[b] = "live" => Young(appt'[b])

LEMMA HandedOps ==
  /\ EngineOps \subseteq Handing /\ StaffingOps \subseteq EngineOps /\ "sweep" \in EngineOps
  /\ Creating \cap Handing = {} /\ "none" \notin Making
  /\ \A op \in {"assign", "selfTech", "reject", "autoAssign", "sweep", "none"} : op \notin Making
  /\ "stretch" \notin Creating \cup Handing \cup {"none"}
  /\ (Creating \cup Handing) \cap (TimeOps \cup EndOps \cup {"move", "none"}) = {}
BY DEF EngineOps, StaffingOps, HandOps, Handing, Creating, Making, TimeOps, EndOps

LEMMA StaysHonest ==
  ASSUME TypeOK, FixedInv, NEW p \in Requests, req'[p] = req[p], Undisturbed(p),
         \A o \in Requests \ {p} :
           req[p].id \in Appointments /\ req'[o].id = req[p].id =>
             /\ req[o].id = req[p].id \/ Live(req[p].id)
             /\ Fresh(p) => ~req'[o].keep /\ req'[o].op \notin Making
  PROVE  Honest(p)'
<1>1. Honest(p) /\ req[p] \in Local
  BY DEF FixedInv, TypeOK
<1>2. req[p].pc \in {"check", "commit"} => req[p].id \in Appointments
  BY <1>1, LocalFields DEF WellFormed
<1>3. req[p].pc \in {"check", "commit"} /\ MakesAlone(p) => MakesAlone(p)'
  <2> SUFFICES ASSUME req[p].pc \in {"check", "commit"}, MakesAlone(p) PROVE MakesAlone(p)'
    OBVIOUS
  <2>1. /\ present[req[p].id] = "unborn" /\ present'[req[p].id] = "unborn"
        /\ \A o \in Requests \ {p} : req[o].id # req[p].id
    BY <1>2 DEF MakesAlone, Undisturbed
  <2>2. \A o \in Requests \ {p} : req'[o].id # req[p].id
    BY <1>2, <2>1 DEF Live
  <2> QED
    BY <2>1, <2>2 DEF MakesAlone
<1>4. req[p].pc \in {"check", "commit"} /\ HandsAsIs(req[p]) => HandsAsIs(req[p])'
  BY <1>2 DEF HandsAsIs, Undisturbed, Live
<1>5. FirstWord(p)'
  BY DEF FirstWord, Fresh, Undisturbed, Live
<1>6. Placed(req[p])'
  BY <1>1 DEF Honest, Placed
<1> QED
  BY <1>1, <1>3, <1>4, <1>5, <1>6 DEF Honest

LEMMA QuietUndisturbed ==
  ASSUME FixedInv, UNCHANGED <<present, appt>>, NEW p \in Requests
  PROVE  Undisturbed(p)
BY DEF Undisturbed, FixedInv, Honest, FirstWord, Fresh, Live

\* One row written, its times left alone.
LEMMA WriteUndisturbed ==
  ASSUME TypeOK, FixedInv, NEW p \in Requests, NEW b \in Appointments, NEW row \in Row, NEW h, NEW ok,
         WriteRow(b, row, h, ok), row.start = appt[b].start, row.end = appt[b].end,
         Fresh(p) /\ req[p].id = b => Young(row),
         present' = present
  PROVE  Undisturbed(p)
<1>1. appt'[b] = row /\ \A c \in Appointments \ {b} : appt'[c] = appt[c]
  BY DEF WriteRow, TypeOK
<1>2. FirstWord(p)
  BY DEF FixedInv, Honest
<1> QED
  BY <1>1, <1>2 DEF Undisturbed, FirstWord, Fresh, Live

\* A row written with all its time asked for, or within the time it had, stays vouched for.
LEMMA VouchedWrite ==
  ASSUME TypeOK, FixedInv, NEW b \in Appointments, NEW row \in Row, NEW h, NEW ok,
         WriteRow(b, row, h, ok),
         row.status \in {"PENDING", "ASSIGNED", "CONFIRMED", "CANCELLED", "NO_SHOW"},
         \/ ~Takes(row)
         \/ ok = Kinds /\ Inside(row, h)
         \/ Blocks(b) /\ Inside(row, appt[b]),
         \A c \in Appointments : present'[c] # "trash"
  PROVE  \A c \in Appointments : Vouched(c)'
<1>1. /\ unchecked[b] = {} /\ unchecked \in [Appointments -> SUBSET Kinds]
      /\ appt \in [Appointments -> Row]
  BY DEF FixedInv, Vouched, TypeOK
<1>2. appt'[b] = row /\ \A c \in Appointments \ {b} : appt'[c] = appt[c]
  BY <1>1 DEF WriteRow
<1>3. unchecked'[b] = {} /\ \A c \in Appointments \ {b} : unchecked'[c] = unchecked[c]
  BY <1>1 DEF WriteRow
<1> QED
  BY <1>2, <1>3 DEF FixedInv, Vouched

LEMMA SameVouched ==
  ASSUME FixedInv, UNCHANGED <<appt, unchecked>>, \A c \in Appointments : present'[c] = present[c]
  PROVE  \A c \in Appointments : Vouched(c)'
BY DEF FixedInv, Vouched

\* r goes on with q, and the others as they were.
LEMMA HonestStep ==
  ASSUME TypeOK, FixedInv, NEW r \in Requests, NEW q, req' = [req EXCEPT ![r] = q],
         \A p \in Requests \ {r} : Undisturbed(p),
         \A c \in Appointments : Vouched(c)',
         \/ q.id \in {None, req[r].id}
         \/ q.id \in Appointments /\ Live(q.id)
         \/ \A p \in Requests : req[p].id # q.id,
         \A p \in Requests \ {r} : Fresh(p) /\ q.id = req[p].id => ~q.keep /\ q.op \notin Making,
         Honest(r)'
  PROVE  FixedInv'
<1>1. req'[r] = q /\ \A p \in Requests \ {r} : req'[p] = req[p]
  BY DEF TypeOK
<1>2. ASSUME NEW p \in Requests \ {r} PROVE Honest(p)'
  <2>1. ASSUME NEW o \in Requests \ {p}, req[p].id \in Appointments, req'[o].id = req[p].id
        PROVE  /\ req[o].id = req[p].id \/ Live(req[p].id)
               /\ Fresh(p) => ~req'[o].keep /\ req'[o].op \notin Making
    <3>1. CASE o = r
      BY <1>1, <2>1, <3>1, NoneAssumption
    <3>2. CASE o # r
      BY <1>1, <2>1, <3>2 DEF FixedInv, Honest, FirstWord
    <3> QED
      BY <3>1, <3>2
  <2> QED
    BY <1>1, <2>1, StaysHonest
<1> QED
  BY <1>2 DEF FixedInv

\* r goes where it holds nothing: a booking it may still confirm it made itself.
LEMMA RestStep ==
  ASSUME TypeOK, FixedInv, NEW r \in Requests, NEW q, req' = [req EXCEPT ![r] = q],
         \A p \in Requests \ {r} : Undisturbed(p),
         \A c \in Appointments : Vouched(c)',
         \/ q.id \in {None, req[r].id}
         \/ q.id \in Appointments /\ Live(q.id)
         \/ \A p \in Requests : req[p].id # q.id,
         Placed(q), q.pc \notin {"check", "commit"},
         \/ q.op \notin Making /\ ~q.keep
         \/ /\ q.id = req[r].id /\ req[r].op \in Making /\ (q.keep \/ ~req[r].keep)
            /\ q.id \in Appointments /\ ~q.keep /\ present'[q.id] = "live" => Young(appt'[q.id])
  PROVE  FixedInv'
<1>1. req'[r] = q /\ \A p \in Requests \ {r} : req'[p] = req[p]
  BY DEF TypeOK
<1>2. \A p \in Requests : FirstWord(p)
  BY DEF FixedInv, Honest
<1>3. \A p \in Requests \ {r} : Fresh(p) /\ q.id = req[p].id => ~q.keep /\ q.op \notin Making
  BY <1>2 DEF FirstWord
<1>4. FirstWord(r)'
  BY <1>1, <1>2 DEF FirstWord, Fresh, Live
<1>5. Honest(r)'
  BY <1>1, <1>4 DEF Honest, Placed
<1> QED
  BY <1>3, <1>5, HonestStep

\* r goes on with the same booking, nothing written.
LEMMA GoesOn ==
  ASSUME TypeOK, FixedInv, NEW r \in Requests, NEW q, req' = [req EXCEPT ![r] = q],
         UNCHANGED <<present, appt, unchecked>>,
         q.id = req[r].id, q.op = req[r].op, q.id \in Appointments,
         q.keep => req[r].keep \/ (appt[q.id].status \in {"CONFIRMED", "ARRIVED"} /\ Live(q.id)),
         q.keep = req[r].keep \/ q.op \in EngineOps,
         Placed(q),
         q.pc \in {"check", "commit"} =>
           \/ MakesAlone(r) /\ q.staff = req[r].staff
           \/ HandsAsIs(q)
  PROVE  FixedInv'
<1>1. req'[r] = q /\ \A p \in Requests \ {r} : req'[p] = req[p]
  BY DEF TypeOK
<1>2. (\A c \in Appointments : Vouched(c)') /\ \A p \in Requests : Undisturbed(p)
  BY SameVouched, QuietUndisturbed
<1>3. Vouched(q.id) /\ Placed(req[r]) /\ \A p \in Requests : FirstWord(p)
  BY DEF FixedInv, Honest
<1>4. ASSUME NEW p \in Requests \ {r}, Fresh(p), q.id = req[p].id PROVE ~q.keep /\ q.op \notin Making
  BY <1>3, <1>4 DEF FirstWord, Young, Vouched
<1>5. Fresh(r)' => Fresh(r)
  BY <1>1, <1>3, HandedOps DEF Fresh, Placed, Making
<1>6. FirstWord(r)'
  BY <1>1, <1>3, <1>5 DEF FirstWord, Live, Fresh
<1>7. ASSUME q.pc \in {"check", "commit"} PROVE (MakesAlone(r) \/ HandsAsIs(req[r]))'
  <2>1. CASE MakesAlone(r) /\ q.staff = req[r].staff
    <3>1. q.keep = req[r].keep
      BY <2>1, HandedOps DEF MakesAlone
    <3> QED
      BY <1>1, <2>1, <3>1 DEF MakesAlone
  <2>2. CASE HandsAsIs(q)
    BY <1>1, <2>2 DEF HandsAsIs, Live
  <2> QED
    BY <1>7, <2>1, <2>2
<1>8. Honest(r)'
  BY <1>1, <1>6, <1>7 DEF Honest, Placed
<1> QED
  BY <1>2, <1>4, <1>8, HonestStep

LEMMA FixedBegin ==
  ASSUME TypeOK, FixedInv, Ops \subseteq FixedTimes, NEW r \in Requests,
         \/ BeginCreate(r) \/ BeginAssign(r) \/ BeginMove(r) \/ BeginReschedule(r)
         \/ BeginStretch(r) \/ BeginAddServices(r)
         \/ BeginReject(r) \/ BeginAutoAssign(r) \/ BeginMark(r) \/ BeginSweep(r)
  PROVE  FixedInv'
<1>1. /\ UNCHANGED <<now, present, appt, unchecked>>
      /\ \A p \in Requests : Undisturbed(p)
      /\ \A c \in Appointments : Vouched(c)'
  <2>1. UNCHANGED <<now, present, appt, unchecked>>
    BY ZenonT(30) DEF BeginCreate, BeginAssign, BeginMove, BeginReschedule, BeginStretch, BeginAddServices,
           BeginReject, BeginAutoAssign, BeginMark, BeginSweep
  <2> QED
    BY <2>1, SameVouched, QuietUndisturbed
<1>2. CASE BeginCreate(r)
  <2>1. PICK op, b, q :
          /\ op \in Creating /\ b \in Appointments
          /\ present[b] = "unborn" /\ \A p \in Requests : req[p].id # b
          /\ q.id = b /\ q.op = op /\ q.pc \in {"check", "commit"}
          /\ q.pc = "commit" => q.staff = None
          /\ q.keep => q.staff # None
          /\ req' = [req EXCEPT ![r] = q]
    <3>1. PICK op \in {"create", "publicCreate"} \cap Ops, b \in Appointments, s \in StaffOrNone,
               st \in Time, en \in Time, keep \in BOOLEAN :
            /\ present[b] = "unborn" /\ \A p \in Requests : req[p].id # b
            /\ keep => op = "create" /\ s # None
            /\ Begin(r, Job(IF s = None THEN "commit" ELSE "check", op, b, s, st, en, keep))
      BY <1>2 DEF BeginCreate
    <3> DEFINE z == Job(IF s = None THEN "commit" ELSE "check", op, b, s, st, en, keep)
    <3>2. /\ z.id = b /\ z.op = op /\ z.pc \in {"check", "commit"} /\ z.staff = s /\ z.keep = keep
          /\ z.pc = "commit" => z.staff = None
      BY DEF Job
    <3>3. op \in Creating /\ req' = [req EXCEPT ![r] = z]
      BY <3>1 DEF Creating, Begin
    <3> HIDE DEF z
    <3> QED
      BY <3>1, <3>2, <3>3
  <2>2. req'[r] = q /\ \A p \in Requests \ {r} : req'[p] = req[p]
    BY <2>1 DEF TypeOK
  <2>3. MakesAlone(r)' /\ FirstWord(r)'
    BY <1>1, <2>1, <2>2 DEF MakesAlone, FirstWord, Live
  <2>4. Placed(q)
    BY <2>1, HandedOps DEF Placed
  <2>5. Honest(r)'
    BY <2>2, <2>3, <2>4 DEF Honest, Placed
  <2> QED
    BY <1>1, <2>1, <2>5, HonestStep
<1>3. CASE BeginAssign(r)
  <2>1. PICK op, b, q :
          /\ op \in {"assign", "selfTech"} /\ b \in Appointments
          /\ Live(b)
          /\ q.id = b /\ q.op = op /\ q.pc = "check"
          /\ q.start = appt[b].start /\ q.end = appt[b].end
          /\ q.keep => appt[b].status \in {"CONFIRMED", "ARRIVED"}
          /\ req' = [req EXCEPT ![r] = q]
    <3>1. PICK op \in {"assign", "selfTech"} \cap Ops, b \in Appointments, s \in Staff :
            /\ Live(b)
            /\ Begin(r, Job("check", op, b, s, appt[b].start, appt[b].end,
                            appt[b].status \in {"CONFIRMED", "ARRIVED"}))
      BY <1>3 DEF BeginAssign
    <3> DEFINE z == Job("check", op, b, s, appt[b].start, appt[b].end,
                        appt[b].status \in {"CONFIRMED", "ARRIVED"})
    <3>2. /\ z.id = b /\ z.op = op /\ z.pc = "check"
          /\ z.start = appt[b].start /\ z.end = appt[b].end
          /\ z.keep => appt[b].status \in {"CONFIRMED", "ARRIVED"}
      BY DEF Job
    <3>3. op \in {"assign", "selfTech"} /\ req' = [req EXCEPT ![r] = z]
      BY <3>1 DEF Begin
    <3> HIDE DEF z
    <3> QED
      BY <3>1, <3>2, <3>3
  <2>2. req'[r] = q /\ op \in Handing /\ op \notin Making
    BY <2>1, HandedOps DEF TypeOK, Handing, HandOps
  <2>3. HandsAsIs(req[r])' /\ FirstWord(r)'
    BY <1>1, <2>1, <2>2 DEF HandsAsIs, Live, FirstWord, Fresh
  <2>4. Placed(q)
    BY <2>1, <2>2 DEF Placed, Making
  <2>5. Honest(r)'
    BY <2>2, <2>3, <2>4 DEF Honest, Placed
  <2>6. ASSUME NEW p \in Requests \ {r}, Fresh(p), q.id = req[p].id PROVE ~q.keep /\ q.op \notin Making
    BY <2>1, <2>2, <2>6 DEF FixedInv, Honest, FirstWord, Young, Vouched
  <2> QED
    BY <1>1, <2>1, <2>5, <2>6, HonestStep
<1>4. CASE BeginReject(r) \/ BeginAutoAssign(r)
  <2>1. PICK op \in {"reject", "autoAssign"}, b \in Appointments :
          Live(b) /\ req' = [req EXCEPT ![r] = Job("rank", op, b, None, 0, 0, FALSE)]
    BY <1>4 DEF BeginReject, BeginAutoAssign, Begin
  <2> DEFINE q == Job("rank", op, b, None, 0, 0, FALSE)
  <2>2. q.id = b /\ q.op = op /\ q.op \notin Making /\ ~q.keep /\ q.pc = "rank" /\ Placed(q)
    BY HandedOps DEF Job, EngineOps, Placed
  <2>3. req' = [req EXCEPT ![r] = q]
    BY <2>1
  <2> HIDE DEF q
  <2> QED
    BY <1>1, <2>1, <2>2, <2>3, RestStep
<1>5. CASE BeginSweep(r)
  <2> DEFINE q == [Idle EXCEPT !.pc = IF MustAccept THEN "sweep" ELSE "clear", !.op = "sweep",
                               !.todo = {<<b, appt[b].staff>> :
                                           b \in {c \in Appointments : Expired(c)}}]
  <2>1. req' = [req EXCEPT ![r] = q]
    BY <1>5, Zenon DEF BeginSweep, Begin
  <2>2. /\ q.id = None /\ q.pc \in {"sweep", "clear"} /\ q.op = "sweep" /\ ~q.keep
        /\ q.op \notin Making
    BY HandedOps DEF Idle, Job
  <2> HIDE DEF q
  <2>3. Placed(q)
    BY <2>2, HandedOps DEF Placed
  <2> QED
    BY <1>1, <2>1, <2>2, <2>3, RestStep
<1>6. ~(BeginMove(r) \/ BeginReschedule(r) \/ BeginStretch(r) \/ BeginAddServices(r) \/ BeginMark(r))
  BY DEF FixedTimes, BeginMove, BeginReschedule, BeginStretch, BeginAddServices, BeginMark,
         TimeOps, MarkOps
<1> QED
  BY <1>2, <1>3, <1>4, <1>5, <1>6

\* A request that ends goes where it holds nothing.
LEMMA Ends ==
  ASSUME TypeOK, FixedInv, NEW r \in Requests, NEW q,
         \/ q \in {Idle, Resume(req[r]), Thrown(req[r])}
         \/ req[r].op \in Making /\ \E s : q = ToConfirm(req[r], s),
         req' = [req EXCEPT ![r] = q], req[r].id \in Appointments \/ q = Idle,
         \A p \in Requests : Undisturbed(p),
         \A c \in Appointments : Vouched(c)'
  PROVE  FixedInv'
<1>1. CASE q = Idle
  <2>1. Placed(q) /\ q.pc = "idle" /\ q.id = None /\ q.op \notin Making /\ ~q.keep
    BY <1>1, HandedOps DEF Idle, Job, Placed
  <2> QED
    BY <2>1, RestStep
<1>2. ASSUME NEW T, q = [Idle EXCEPT !.pc = "sweep", !.op = "sweep", !.todo = T] PROVE FixedInv'
  <2>1. Placed(q) /\ q.pc = "sweep" /\ q.id = None /\ q.op \notin Making /\ ~q.keep
    BY <1>2, HandedOps DEF Idle, Job, Placed
  <2> QED
    BY <2>1, RestStep
<1>3. ASSUME NEW s, q = ToConfirm(req[r], s), req[r].op \in Making, req[r].id \in Appointments
      PROVE  FixedInv'
  <2>1. /\ q.pc = "confirm" /\ q.id = req[r].id /\ q.op = req[r].op /\ q.keep = req[r].keep
    BY <1>3 DEF ToConfirm, Job
  <2>2. Placed(req[r])
    BY DEF FixedInv, Honest
  <2>3. Placed(q)
    BY <1>3, <2>1, <2>2 DEF Placed
  <2>4. ~q.keep /\ present'[q.id] = "live" => Young(appt'[q.id])
    BY <1>3, <2>1 DEF Undisturbed, Fresh
  <2> QED
    BY <1>3, <2>1, <2>3, <2>4, RestStep
<1>4. StaffingOps \subseteq Making
  BY DEF Making
<1> QED
  BY <1>1, <1>2, <1>3, <1>4 DEF Resume, Thrown

LEMMA FixedEngine ==
  ASSUME TypeOK, FixedInv, NEW r \in Requests,
         SweepNext(r) \/ SweepDone(r) \/ SweepClear(r) \/ Rank(r) \/ Check(r)
  PROVE  FixedInv'
<1> DEFINE q == req[r]
<1>1. q \in Local /\ q \in LocalRecord /\ Honest(r) /\ Placed(q)
  BY DEF FixedInv, TypeOK, Local, Honest
<1>2. CASE SweepNext(r)
  <2>1. /\ UNCHANGED <<now, present, appt, unchecked>>
        /\ \A p \in Requests : Undisturbed(p)
        /\ \A c \in Appointments : Vouched(c)'
    BY <1>2, SameVouched, QuietUndisturbed DEF SweepNext
  <2>2. PICK e \in q.todo :
          IF present[e[1]] = "live"
          THEN req' = [req EXCEPT ![r] = [q EXCEPT !.pc = "rank", !.id = e[1], !.todo = @ \ {e}]]
          ELSE req' = [req EXCEPT ![r] = Idle]
    BY <1>2 DEF SweepNext, Goto
  <2>3. CASE present[e[1]] = "live"
    <3> DEFINE z == [q EXCEPT !.pc = "rank", !.id = e[1], !.todo = @ \ {e}]
    <3>1. z.pc = "rank" /\ z.id = e[1] /\ z.op = q.op /\ z.keep = q.keep
      BY <1>1 DEF LocalRecord
    <3>2. /\ e[1] \in Appointments /\ Live(e[1])
          /\ q.op = "sweep" /\ ~q.keep
      BY <1>1, <1>2, <2>3, LocalFields DEF Live, Placed, SweepNext
    <3>3. req' = [req EXCEPT ![r] = z]
      BY <2>2, <2>3
    <3>4. Placed(z) /\ z.op \notin Making
      <4> HIDE DEF z
      <4> QED
        BY <3>1, <3>2, HandedOps DEF Placed
    <3> HIDE DEF z
    <3> QED
      BY <2>1, <3>1, <3>2, <3>3, <3>4, RestStep
  <2>4. CASE present[e[1]] # "live"
    <3>1. req' = [req EXCEPT ![r] = Idle]
      BY <2>2, <2>4
    <3> QED
      BY <2>1, <3>1, Ends
  <2> QED
    BY <2>3, <2>4
<1>3. CASE SweepDone(r)
  <2>1. /\ \A p \in Requests : Undisturbed(p)
        /\ \A c \in Appointments : Vouched(c)'
    BY <1>3, SameVouched, QuietUndisturbed DEF SweepDone
  <2> QED
    BY <1>3, <2>1, Ends DEF SweepDone, Goto
<1>4. CASE SweepClear(r)
  <2>1. \A b \in Appointments :
          /\ appt'[b].status = appt[b].status /\ appt'[b].staff = appt[b].staff
          /\ appt'[b].start = appt[b].start /\ appt'[b].end = appt[b].end
    BY <1>4 DEF SweepClear, TypeOK, Row
  <2>2. present' = present /\ unchecked' = unchecked
    BY <1>4 DEF SweepClear
  <2>3. \A c \in Appointments : Vouched(c)'
    BY <2>1, <2>2 DEF FixedInv, Vouched
  <2>4. \A p \in Requests : Undisturbed(p)
    BY <2>1, <2>2 DEF Undisturbed, FixedInv, Honest, FirstWord, Fresh, Young, Live
  <2> QED
    BY <1>4, <2>3, <2>4, Ends DEF SweepClear, Goto
<1>5. CASE Rank(r)
  <2>1. /\ UNCHANGED <<now, present, appt, unchecked>>
        /\ \A p \in Requests : Undisturbed(p)
        /\ \A c \in Appointments : Vouched(c)'
    BY <1>5, SameVouched, QuietUndisturbed DEF Rank
  <2>2. q.id \in Appointments /\ q.op \in EngineOps
    BY <1>1, <1>5, LocalFields DEF Rank, WellFormed, Placed
  <2>3. CASE Goto(r, Thrown(q))
    BY <2>1, <2>2, <2>3, Ends DEF Goto
  <2>4. ASSUME NEW s \in Staff, Live(q.id),
               Goto(r, [q EXCEPT !.pc = "check", !.staff = s,
                                 !.start = appt[q.id].start, !.end = appt[q.id].end])
        PROVE  FixedInv'
    <3> DEFINE z == [q EXCEPT !.pc = "check", !.staff = s,
                              !.start = appt[q.id].start, !.end = appt[q.id].end]
    <3>1. /\ z.pc = "check" /\ z.id = q.id /\ z.op = q.op /\ z.keep = q.keep
          /\ z.start = appt[q.id].start /\ z.end = appt[q.id].end
      BY <1>1 DEF LocalRecord
    <3>2. req' = [req EXCEPT ![r] = z]
      BY <2>4 DEF Goto
    <3> HIDE DEF z
    <3>3. Placed(z) /\ HandsAsIs(z)
      BY <1>1, <2>2, <2>4, <3>1, HandedOps DEF Placed, HandsAsIs
    <3>4. /\ z.keep => q.keep \/ (appt[z.id].status \in {"CONFIRMED", "ARRIVED"} /\ Live(z.id))
          /\ z.pc \in {"check", "commit"} => (MakesAlone(r) /\ z.staff = q.staff) \/ HandsAsIs(z)
      BY <1>1, <3>1, <3>3 DEF LocalRecord
    <3> QED
      BY <2>1, <2>2, <3>1, <3>2, <3>3, <3>4, GoesOn
  <2>5. CASE Goto(r, [q EXCEPT !.pc = "giveup", !.staff = None])
    <3> DEFINE z == [q EXCEPT !.pc = "giveup", !.staff = None]
    <3>1. z.pc = "giveup" /\ z.id = q.id /\ z.op = q.op /\ z.keep = q.keep
      BY <1>1 DEF LocalRecord
    <3>2. req' = [req EXCEPT ![r] = z]
      BY <2>5 DEF Goto
    <3> HIDE DEF z
    <3>3. Placed(z)
      BY <1>1, <3>1 DEF Placed
    <3>4. z.keep => q.keep \/ (appt[z.id].status \in {"CONFIRMED", "ARRIVED"} /\ Live(z.id))
      BY <1>1, <3>1 DEF LocalRecord
    <3> QED
      BY <2>1, <2>2, <3>1, <3>2, <3>3, <3>4, GoesOn
  <2> QED
    BY <1>5, <2>3, <2>4, <2>5 DEF Rank, Eligible
<1>6. CASE Check(r)
  <2>1. /\ UNCHANGED <<now, present, appt, unchecked>>
        /\ \A p \in Requests : Undisturbed(p)
        /\ \A c \in Appointments : Vouched(c)'
    BY <1>6, SameVouched, QuietUndisturbed DEF Check
  <2>2. /\ q.pc = "check" /\ (MakesAlone(r) \/ HandsAsIs(q))
        /\ q.op # "stretch" /\ q.id \in Appointments
    BY <1>1, <1>6, HandedOps, LocalFields DEF Check, Honest, Placed, WellFormed
  <2>3. CASE Goto(r, Thrown(q))
    BY <2>1, <2>2, <2>3, Ends DEF Goto
  <2>4. CASE Goto(r, [q EXCEPT !.pc = "commit", !.keep = KeepStatus(q), !.vetted = Kinds])
    <3> DEFINE z == [q EXCEPT !.pc = "commit", !.keep = KeepStatus(q), !.vetted = Kinds]
    <3>1. /\ z.pc = "commit" /\ z.id = q.id /\ z.op = q.op /\ z.vetted = Kinds
          /\ z.start = q.start /\ z.end = q.end /\ z.staff = q.staff
          /\ z.keep = KeepStatus(q)
      BY <1>1 DEF LocalRecord
    <3>2. req' = [req EXCEPT ![r] = z]
      BY <2>4 DEF Goto
    <3> HIDE DEF z
    <3>3. /\ z.keep => q.keep \/ (appt[q.id].status \in {"CONFIRMED", "ARRIVED"} /\ Live(q.id))
          /\ z.keep = q.keep \/ z.op \in EngineOps
      <4>1. CASE q.op \in EngineOps
        BY <3>1, <4>1, Zenon DEF KeepStatus
      <4>2. CASE q.op \notin EngineOps
        BY <1>1, <3>1, <4>2 DEF KeepStatus, LocalRecord
      <4> QED
        BY <4>1, <4>2
    <3>4. HandsAsIs(q) => HandsAsIs(z)
      BY <3>1 DEF HandsAsIs
    <3>5. z.op \in StaffingOps => ~z.keep
      <4>1. ASSUME z.op \in StaffingOps PROVE ~z.keep
        <5>1. Fresh(r)
          BY <1>1, <2>2, <3>1, <4>1 DEF Fresh, Placed, Making
        <5>2. Live(q.id) => Young(appt[q.id])
          BY <5>1, <1>1 DEF Honest, FirstWord
        <5>3. Vouched(q.id) /\ q.op \in EngineOps
          BY <2>2, <3>1, <4>1, HandedOps DEF FixedInv
        <5> QED
          BY <3>1, <5>2, <5>3 DEF KeepStatus, Young, Vouched
      <4> QED
        BY <4>1
    <3>6. Placed(z)
      BY <1>1, <3>1, <3>5 DEF Placed
    <3> QED
      BY <2>1, <2>2, <3>1, <3>2, <3>3, <3>4, <3>6, GoesOn
  <2>5. \/ Goto(r, Thrown(q))
        \/ Goto(r, [q EXCEPT !.pc = "commit", !.keep = KeepStatus(q), !.vetted = Kinds])
    <3>1. {"slot"} \cup {"off"} = Kinds /\ ~MayOverlap(q)
      BY <2>2 DEF Kinds, MayOverlap
    <3> QED
      BY <1>6, <2>2, <3>1 DEF Check
  <2> QED
    BY <2>3, <2>4, <2>5
<1> QED
  BY <1>2, <1>3, <1>4, <1>5, <1>6

\* A row written by one of these operations: its times stay, and a booking still fresh for
\* another request stays young.
LEMMA Writes ==
  ASSUME TypeOK, FixedInv, NEW b \in Appointments, NEW row \in Row, NEW h, NEW ok,
         NEW P \in SUBSET Requests,
         WriteRow(b, row, h, ok), present' = present,
         row.start = appt[b].start, row.end = appt[b].end,
         row.status \in {"PENDING", "ASSIGNED", "CONFIRMED", "CANCELLED", "NO_SHOW"},
         \/ ~Takes(row)
         \/ ok = Kinds /\ Inside(row, h)
         \/ Blocks(b) /\ Inside(row, appt[b]),
         Young(row) \/ \A p \in P : Fresh(p) => req[p].id # b
  PROVE  /\ \A c \in Appointments : Vouched(c)'
         /\ \A p \in P : Undisturbed(p)
<1>1. \A c \in Appointments : present'[c] # "trash"
  BY DEF FixedInv, Vouched
<1>2. \A c \in Appointments : Vouched(c)'
  BY <1>1, VouchedWrite
<1>3. ASSUME NEW p \in P PROVE Undisturbed(p)
  <2>1. Fresh(p) /\ req[p].id = b => Young(row)
    OBVIOUS
  <2> QED
    BY <2>1, WriteUndisturbed
<1> QED
  BY <1>2, <1>3

\* What a one-field write makes of a vouched row.
LEMMA RowsMade ==
  ASSUME TypeOK, FixedInv, NEW b \in Appointments
  PROVE  /\ \A st \in {"CANCELLED", "NO_SHOW"} :
              LET row == [appt[b] EXCEPT !.status = st] IN
              /\ row \in Row /\ row.status = st /\ ~Takes(row) /\ Young(row)
              /\ row.start = appt[b].start /\ row.end = appt[b].end
         /\ LET row == [appt[b] EXCEPT !.status = "PENDING", !.staff = None, !.deadline = "none"] IN
              /\ row \in Row /\ row.status = "PENDING" /\ ~Takes(row) /\ Young(row)
              /\ row.start = appt[b].start /\ row.end = appt[b].end
         /\ LET row == [appt[b] EXCEPT !.deadline = "none"] IN
              /\ row \in Row /\ row.status = appt[b].status /\ row.staff = appt[b].staff
              /\ row.start = appt[b].start /\ row.end = appt[b].end
         /\ LET row == [appt[b] EXCEPT !.status = "CONFIRMED", !.deadline = "none"] IN
              /\ row \in Row /\ row.status = "CONFIRMED" /\ row.staff = appt[b].staff
              /\ row.start = appt[b].start /\ row.end = appt[b].end
<1>1. appt[b] \in Row
  BY DEF TypeOK
<1>2. /\ {"CANCELLED", "NO_SHOW", "PENDING", "CONFIRMED"} \subseteq Statuses
      /\ {"CANCELLED", "NO_SHOW", "PENDING"} \cap BLOCKING_STATUSES = {}
      /\ None \in StaffOrNone
  BY DEF Statuses, BLOCKING_STATUSES, ACTIONABLE, FINAL, StaffOrNone
<1> QED
  BY <1>1, <1>2 DEF Row, Takes, Young

LEMMA FixedCommit ==
  ASSUME TypeOK, FixedInv, Ops \subseteq FixedTimes, NEW r \in Requests,
         \/ GiveUp(r) \/ CommitHand(r) \/ CommitTimes(r) \/ CommitEnd(r)
         \/ Confirm(r) \/ Seat(r) \/ Mark(r)
  PROVE  FixedInv'
<1> DEFINE q == req[r]  b == q.id  P == Requests \ {r}
<1>1. q \in Local /\ Honest(r) /\ Placed(q) /\ FirstWord(r)
  BY DEF FixedInv, TypeOK, Honest
<1>2. b \in Appointments /\ Vouched(b) /\ appt[b] \in Row
  BY <1>1, LocalFields DEF GiveUp, CommitHand, CommitTimes, CommitEnd, Confirm, Seat, Mark,
                           WellFormed, FixedInv, TypeOK, Placed
<1>3. ASSUME UNCHANGED <<present, appt, unchecked>>
      PROVE  /\ \A c \in Appointments : Vouched(c)'
             /\ \A p \in Requests : Undisturbed(p)
  BY <1>3, SameVouched, QuietUndisturbed
<1>4. CASE GiveUp(r)
  <2>1. (\A c \in Appointments : Vouched(c)') /\ \A p \in Requests : Undisturbed(p)
    <3>1. CASE UNCHANGED <<appt, unchecked>>
      BY <1>3, <1>4, <3>1 DEF GiveUp
    <3>2. CASE /\ Live(b) /\ appt[b].status = "ASSIGNED"
               /\ WriteUnchecked(b, [appt[b] EXCEPT !.deadline = "none"])
      <4> DEFINE row == [appt[b] EXCEPT !.deadline = "none"]
      <4>1. /\ row \in Row /\ row.status = "ASSIGNED" /\ row.staff = appt[b].staff
            /\ row.start = appt[b].start /\ row.end = appt[b].end
        BY <1>2, <3>2, RowsMade
      <4>2. WriteRow(b, row, row, {}) /\ present' = present
        BY <1>4, <3>2 DEF WriteUnchecked, GiveUp
      <4> HIDE DEF row
      <4>3. Young(row) /\ (~Takes(row) \/ (Blocks(b) /\ Inside(row, appt[b])))
        BY <1>2, <3>2, <4>1 DEF Young, Takes, Blocks, Inside, Row, Time
      <4> QED
        BY <1>2, <4>1, <4>2, <4>3, Writes
    <3>3. CASE Live(b) /\ WriteRow(b, [appt[b] EXCEPT !.status = "PENDING", !.staff = None,
                                                      !.deadline = "none"], q, {})
      <4> DEFINE row == [appt[b] EXCEPT !.status = "PENDING", !.staff = None, !.deadline = "none"]
      <4>1. /\ row \in Row /\ row.status = "PENDING" /\ ~Takes(row) /\ Young(row)
            /\ row.start = appt[b].start /\ row.end = appt[b].end
        BY <1>2, RowsMade
      <4>2. WriteRow(b, row, q, {}) /\ present' = present
        BY <1>4, <3>3 DEF GiveUp
      <4> HIDE DEF row
      <4> QED
        BY <1>2, <4>1, <4>2, Writes
    <3> QED
      BY <1>4, <3>1, <3>2, <3>3 DEF GiveUp, UpdateIfLive
  <2> QED
    BY <1>2, <1>4, <2>1, Ends DEF GiveUp, Goto
<1>5. CASE CommitHand(r)
  <2>1. HandsAsIs(q) /\ q.op \in Handing /\ q.op # "move" /\ (q.staff = None \/ q.vetted = Kinds)
    <3>1. q.op \notin Creating
      BY <1>5 DEF CommitHand, HandOps, Creating, EngineOps, StaffingOps
    <3> QED
      BY <1>1, <1>5, <3>1, HandedOps DEF CommitHand, Honest, MakesAlone, Placed, HandsAsIs
  <2> DEFINE row == IF q.keep THEN [appt[b] EXCEPT !.staff = q.staff]
                    ELSE [appt[b] EXCEPT !.staff = q.staff, !.status = "ASSIGNED", !.deadline = "set"]
  <2>2. WriteRow(b, row, q, q.vetted) /\ present' = present
    BY <1>5, <2>1 DEF CommitHand, UpdateIfLive, HandsAsIs
  <2>3. /\ row \in Row /\ row.staff = q.staff /\ row.start = appt[b].start /\ row.end = appt[b].end
        /\ ~q.keep => row.status = "ASSIGNED"
        /\ q.keep => row.status = appt[b].status
    <3>1. "ASSIGNED" \in Statuses /\ q.staff \in StaffOrNone
      BY <1>1, LocalFields DEF Statuses, BLOCKING_STATUSES
    <3> QED
      BY <1>2, <3>1 DEF Row
  <2> HIDE DEF row
  <2>4. row.status \in {"PENDING", "ASSIGNED", "CONFIRMED", "CANCELLED", "NO_SHOW"}
    BY <1>2, <2>3 DEF Vouched
  <2>5. ~Takes(row) \/ (q.vetted = Kinds /\ Inside(row, q))
    BY <1>2, <2>1, <2>3 DEF Takes, Inside, HandsAsIs, Row, Time
  <2>6. Young(row) \/ \A p \in Requests : Fresh(p) => req[p].id # b
    <3>1. CASE q.keep
      BY <3>1 DEF FixedInv, Honest, FirstWord, Fresh
    <3>2. CASE ~q.keep
      BY <2>3, <3>2 DEF Young
    <3> QED
      BY <3>1, <3>2
  <2>7. (\A c \in Appointments : Vouched(c)') /\ \A p \in Requests : Undisturbed(p)
    BY <1>2, <2>2, <2>3, <2>4, <2>5, <2>6, Writes
  <2> QED
    BY <1>2, <1>5, <2>7, Ends DEF CommitHand, Goto
<1>6. CASE Confirm(r)
  <2>1. q.op \in Making
    BY <1>1, <1>6 DEF Confirm, Placed
  <2>2. (\A c \in Appointments : Vouched(c)') /\ \A p \in P : Undisturbed(p)
    <3>1. CASE UNCHANGED <<appt, unchecked>>
      BY <1>3, <1>6, <3>1 DEF Confirm
    <3>2. CASE /\ ~q.keep /\ Live(b) /\ appt[b].status \in {"PENDING", "ASSIGNED"}
               /\ WriteUnchecked(b, [appt[b] EXCEPT !.status = "CONFIRMED", !.deadline = "none"])
      <4> DEFINE row == [appt[b] EXCEPT !.status = "CONFIRMED", !.deadline = "none"]
      <4>1. /\ row \in Row /\ row.status = "CONFIRMED" /\ row.staff = appt[b].staff
            /\ row.start = appt[b].start /\ row.end = appt[b].end
        BY <1>2, RowsMade
      <4>2. WriteRow(b, row, row, {}) /\ present' = present
        BY <1>6, <3>2 DEF WriteUnchecked, Confirm
      <4>3. Fresh(r) /\ Young(appt[b])
        BY <1>1, <1>2, <2>1, <3>2 DEF Fresh, FirstWord
      <4> HIDE DEF row
      <4>4. ~Takes(row) \/ (Blocks(b) /\ Inside(row, appt[b]))
        BY <1>2, <3>2, <4>1, <4>3 DEF Young, Takes, Blocks, Inside, Row, Time, BLOCKING_STATUSES
      <4>5. \A p \in P : Fresh(p) => req[p].id # b
        BY <2>1 DEF FixedInv, Honest, FirstWord
      <4> QED
        BY <1>2, <4>1, <4>2, <4>4, <4>5, Writes
    <3> QED
      BY <1>6, <3>1, <3>2 DEF Confirm
  <2>3. req' = [req EXCEPT ![r] = Idle]
    BY <1>6 DEF Confirm, Goto, FixedTimes
  <2>4. Placed(Idle) /\ Idle.pc = "idle" /\ Idle.id = None /\ Idle.op \notin Making /\ ~Idle.keep
    BY HandedOps DEF Idle, Job, Placed
  <2> QED
    BY <2>2, <2>3, <2>4, RestStep
<1>7. ~(CommitTimes(r) \/ CommitEnd(r) \/ Seat(r) \/ Mark(r))
  BY <1>1, HandedOps DEF CommitTimes, CommitEnd, Seat, Mark, Placed, TimeOps, EndOps
<1> QED
  BY <1>4, <1>5, <1>6, <1>7

LEMMA FixedCreate ==
  ASSUME TypeOK, FixedInv, NEW r \in Requests, CommitCreate(r)
  PROVE  FixedInv'
<1> DEFINE q == req[r]  b == q.id
           status == IF q.keep THEN "CONFIRMED" ELSE IF q.staff # None THEN "ASSIGNED" ELSE "PENDING"
           row == [status |-> status, staff |-> q.staff, start |-> q.start, end |-> q.end,
                   deadline |-> IF status = "ASSIGNED" THEN "set" ELSE "none"]
<1>1. q \in Local /\ Honest(r) /\ Placed(q)
  BY DEF FixedInv, TypeOK, Honest
<1>2. /\ b \in Appointments /\ q.op \in Creating /\ q.op \in Making /\ MakesAlone(r)
      /\ q.staff = None \/ q.vetted = Kinds
  BY <1>1, LocalFields, HandedOps DEF CommitCreate, WellFormed, Honest, Placed, HandsAsIs,
                                      Creating, Making
<1>3. /\ status \in {"CONFIRMED", "ASSIGNED", "PENDING"}
      /\ row.status = status /\ row.staff = q.staff /\ row.start = q.start /\ row.end = q.end
      /\ ~q.keep => Young(row)
  BY DEF Young
<1>4. row \in Row
  <2>1. {"CONFIRMED", "ASSIGNED", "PENDING"} \subseteq Statuses
    BY DEF Statuses, BLOCKING_STATUSES, ACTIONABLE
  <2> QED
    BY <1>1, <1>3, <2>1, LocalFields DEF Row
<1>5. WriteRow(b, row, q, q.vetted) /\ present' = [present EXCEPT ![b] = "live"]
  BY DEF CommitCreate
<1>6. \/ req' = [req EXCEPT ![r] = ToConfirm(q, q.staff)]
      \/ /\ q.staff = None
         /\ \E op \in StaffingOps : req' = [req EXCEPT ![r] = Job("rank", op, b, None, 0, 0, FALSE)]
  BY DEF CommitCreate, Goto, StaffingOps
<1> HIDE DEF row, status
<1>7. /\ \A c \in Appointments : present'[c] # "trash"
      /\ present'[b] = "live" /\ \A c \in Appointments \ {b} : present'[c] = present[c]
      /\ appt'[b] = row /\ \A c \in Appointments \ {b} : appt'[c] = appt[c]
  BY <1>2, <1>5 DEF FixedInv, Vouched, TypeOK, WriteRow
<1>8. \A c \in Appointments : Vouched(c)'
  <2>1. ~Takes(row) \/ (q.vetted = Kinds /\ Inside(row, q))
    BY <1>1, <1>2, <1>3, LocalFields DEF Takes, Inside, Time
  <2> QED
    BY <1>2, <1>3, <1>4, <1>5, <1>7, <2>1, VouchedWrite
<1>9. \A p \in Requests \ {r} : req[p].id # b
  BY <1>2 DEF MakesAlone
<1>10. \A p \in Requests \ {r} : Undisturbed(p)
  BY <1>7, <1>9 DEF Undisturbed, FixedInv, Honest, FirstWord, Fresh, Live
<1>11. ASSUME NEW z, req' = [req EXCEPT ![r] = z], z.id = b, z.op \in Making, Placed(z),
              z.pc \notin {"check", "commit"}, z.keep \/ ~q.keep
       PROVE  FixedInv'
  <2>1. ~z.keep => Young(appt'[b])
    BY <1>3, <1>7, <1>11
  <2> QED
    BY <1>2, <1>8, <1>10, <1>11, <2>1, RestStep
<1>12. CASE req' = [req EXCEPT ![r] = ToConfirm(q, q.staff)]
  <2> DEFINE z == ToConfirm(q, q.staff)
  <2>1. z.id = b /\ z.op = q.op /\ z.pc = "confirm" /\ z.keep = q.keep
    BY DEF ToConfirm, Job
  <2> HIDE DEF z
  <2>2. Placed(z)
    BY <1>1, <1>2, <2>1 DEF Placed
  <2>3. z.keep \/ ~q.keep
    BY <1>1, <2>1, LocalFields DEF Local, LocalRecord
  <2>4. req' = [req EXCEPT ![r] = z]
    BY <1>12 DEF z
  <2> QED
    BY <1>2, <1>11, <2>1, <2>2, <2>3, <2>4
<1>13. ASSUME NEW op \in StaffingOps, q.staff = None,
              req' = [req EXCEPT ![r] = Job("rank", op, b, None, 0, 0, FALSE)]
       PROVE  FixedInv'
  <2> DEFINE z == Job("rank", op, b, None, 0, 0, FALSE)
  <2>1. z.id = b /\ z.op = op /\ z.pc = "rank" /\ ~z.keep
    BY DEF Job
  <2> HIDE DEF z
  <2>2. Placed(z) /\ z.op \in Making
    BY <2>1, HandedOps DEF Placed, Making
  <2>3. ~q.keep
    BY <1>2, <1>13 DEF MakesAlone
  <2>4. req' = [req EXCEPT ![r] = z]
    BY <1>13 DEF z
  <2> QED
    BY <1>11, <2>1, <2>2, <2>3, <2>4
<1> QED
  BY <1>6, <1>12, <1>13

LEMMA FixedDirect ==
  ASSUME TypeOK, FixedInv, Ops \subseteq FixedTimes, NEW b \in Appointments,
         \/ SetStatus(b) \/ Cancel(b) \/ ConfirmBySalon(b) \/ CloseMissed(b)
         \/ FollowFloor(b) \/ Remove(b) \/ Restore(b) \/ DeadlinePasses(b)
  PROVE  FixedInv'
<1>1. ~(SetStatus(b) \/ ConfirmBySalon(b) \/ FollowFloor(b) \/ Remove(b) \/ Restore(b))
  BY DEF SetStatus, ConfirmBySalon, FollowFloor, Remove, Restore, FixedTimes
<1>2. (\A c \in Appointments : Vouched(c)') /\ (\A p \in Requests : Undisturbed(p)) /\ req' = req
  <2>1. CASE Cancel(b) \/ CloseMissed(b)
    <3>1. PICK st \in {"CANCELLED", "NO_SHOW"} : WriteUnchecked(b, [appt[b] EXCEPT !.status = st])
      BY <2>1 DEF Cancel, CloseMissed
    <3> DEFINE row == [appt[b] EXCEPT !.status = st]
    <3>2. /\ row \in Row /\ row.status = st /\ ~Takes(row) /\ Young(row)
          /\ row.start = appt[b].start /\ row.end = appt[b].end
      BY RowsMade
    <3>3. WriteRow(b, row, row, {}) /\ present' = present /\ req' = req
      BY <2>1, <3>1 DEF WriteUnchecked, Cancel, CloseMissed
    <3> HIDE DEF row
    <3> QED
      BY <3>2, <3>3, Writes
  <2>2. CASE DeadlinePasses(b)
    <3>1. \A c \in Appointments :
            /\ appt'[c].status = appt[c].status /\ appt'[c].staff = appt[c].staff
            /\ appt'[c].start = appt[c].start /\ appt'[c].end = appt[c].end
      BY <2>2 DEF DeadlinePasses, TypeOK, Row
    <3>2. present' = present /\ unchecked' = unchecked /\ req' = req
      BY <2>2 DEF DeadlinePasses
    <3> QED
      BY <3>1, <3>2 DEF FixedInv, Vouched, Undisturbed, Honest, FirstWord, Fresh, Young, Live
  <2> QED
    BY <1>1, <2>1, <2>2
<1>3. \A p \in Requests : Honest(p)'
  BY <1>2, StaysHonest DEF FixedInv, Honest, FirstWord
<1> QED
  BY <1>2, <1>3 DEF FixedInv

\* Where bookings keep their times and only the request that made a booking confirms it, no
\* technician is booked twice, whatever is cancelled, refused, handed on or interrupted meanwhile.
THEOREM FixedTimesCorrect ==
  ASSUME Ops \subseteq FixedTimes
  PROVE  Spec => []NoDoubleBooking
<1>1. Init => FixedInv
  BY HandedOps DEF Init, FixedInv, Vouched, Honest, Placed, FirstWord, Fresh, Idle, Job
<1>2. TypeOK /\ FixedInv /\ [Next]_vars => FixedInv'
  <2> SUFFICES ASSUME TypeOK, FixedInv, [Next]_vars PROVE FixedInv'
    OBVIOUS
  <2>1. ASSUME UNCHANGED <<present, appt, unchecked, req>> PROVE FixedInv'
    BY <2>1 DEF FixedInv, Vouched, Honest, FirstWord, Fresh, MakesAlone, HandsAsIs, Live
  <2>2. ASSUME NEW r \in Requests, Crash(r) PROVE FixedInv'
    <3>1. UNCHANGED <<present, appt, unchecked>> /\ req' = [req EXCEPT ![r] = Idle]
      BY <2>2 DEF Crash, Goto
    <3> QED
      BY <3>1, SameVouched, QuietUndisturbed, Ends
  <2>3. ASSUME NEW r \in Requests, Continue(r) PROVE FixedInv'
    BY <2>3, FixedEngine, FixedCommit, FixedCreate DEF Continue
  <2>4. CASE UNCHANGED vars
    BY <2>1, <2>4 DEF vars
  <2>5. CASE Tick
    BY <2>1, <2>5 DEF Tick
  <2> QED
    BY <2>2, <2>3, <2>4, <2>5, FixedBegin, FixedDirect DEF Next
<1>3. FixedInv /\ ClashNeedsUncheckedWrite => NoDoubleBooking
  BY DEF FixedInv, Vouched, ClashNeedsUncheckedWrite, NoDoubleBooking
<1> QED
  BY <1>1, <1>2, <1>3, TypeCorrect, ClashCorrect, PTL DEF Spec

-----------------------------------------------------------------------------
(* Never stripped.  When nobody but the sweep and the engine of a fresh    *)
(* booking hands bookings to technicians, a booking that has one keeps one *)
(* through every other operation, restores and restarts included.          *)

HandedByPeople == {"assign", "selfTech", "move", "reject", "autoAssign", "floor"}

Makes(q) == q.op \in Creating /\ q.pc \in {"check", "commit"}
Needs(q) == q.op \in StaffingOps /\ q.pc \in {"rank", "check", "commit", "giveup"}

\* A request that makes a row finds none; one that looks for the first technician of a
\* booking finds it without one, and the sweep finds each of its bookings with one.
Grounded(q, pr, ap) ==
  /\ q.op \notin HandedByPeople
  /\ q.pc \in {"rank", "giveup"} => q.op \in StaffingOps \cup {"sweep"}
  /\ q.pc = "sweep" => q.op = "sweep"
  /\ q.pc = "commit" /\ q.op \in EngineOps => q.staff # None
  /\ \A e \in q.todo : ap[e[1]].staff # None
  /\ q.op = "sweep" /\ q.id # None => ap[q.id].staff # None
  /\ Makes(q) => pr[q.id] = "unborn"
  /\ Needs(q) => pr[q.id] # "unborn" /\ ap[q.id].staff = None

\* Nobody else is at work on a booking that is being made, and no two requests look for
\* the first technician of one booking.
Apart(p, q) == /\ Makes(p) \/ Makes(q) => p.id # q.id
               /\ Needs(p) /\ Needs(q) => p.id # q.id

StripInv ==
  /\ \A b \in Appointments : present[b] = "unborn" => appt[b].staff = None
  /\ \A r \in Requests : Grounded(req[r], present, appt)
  /\ \A p, r \in Requests : p # r => Apart(req[p], req[r])

StaffKept == \A b \in Appointments : appt[b].staff # None => appt'[b].staff # None

LEMMA AtWork ==
  ASSUME NEW q \in Local
  PROVE  /\ Makes(q) \/ Needs(q) => q.id \in Appointments
         /\ \A e \in q.todo : e[1] \in Appointments
BY LocalFields DEF Makes, Needs, WellFormed

\* A step of r: what it may do to the rows, and to what the other requests count on.
LEMMA StripStep ==
  ASSUME TypeOK, StripInv, NEW r \in Requests, NEW z,
         req' = [req EXCEPT ![r] = z], StaffKept,
         \A b \in Appointments : present[b] # "unborn" => present'[b] # "unborn",
         \A b \in Appointments : present'[b] = "unborn" => appt'[b].staff = None,
         \A p \in Requests \ {r} : /\ Makes(req[p]) => present'[req[p].id] = "unborn"
                                   /\ Needs(req[p]) => appt'[req[p].id].staff = None,
         Grounded(z, present', appt'), \A p \in Requests \ {r} : Apart(req[p], z)
  PROVE  StripInv'
<1>1. req'[r] = z /\ \A p \in Requests \ {r} : req'[p] = req[p]
  BY DEF TypeOK
<1>2. ASSUME NEW p \in Requests \ {r} PROVE Grounded(req[p], present', appt')
  <2>1. Grounded(req[p], present, appt) /\ req[p] \in Local
    BY DEF StripInv, TypeOK
  <2>2. /\ \A e \in req[p].todo : e[1] \in Appointments
        /\ req[p].id \in Appointments \cup {None}
        /\ Makes(req[p]) \/ Needs(req[p]) => req[p].id \in Appointments
    BY <2>1, AtWork, LocalFields
  <2> QED
    BY <2>1, <2>2 DEF Grounded, StaffKept
<1>3. \A p \in Requests : Grounded(req'[p], present', appt')
  BY <1>1, <1>2
<1>4. \A p, q : Apart(p, q) <=> Apart(q, p)
  BY DEF Apart
<1>5. \A p, o \in Requests : p # o => Apart(req'[p], req'[o])
  BY <1>1, <1>4 DEF StripInv
<1> QED
  BY <1>3, <1>5 DEF StripInv

\* A request that goes on with its own booking, or with one of the table that it neither
\* makes nor staffs, stays apart from the others.
LEMMA StaysApart ==
  ASSUME TypeOK, StripInv, NEW r \in Requests, NEW z,
         \/ z.id = req[r].id
         \/ ~Makes(z) /\ ~Needs(z) /\ (z.id = None \/ present[z.id] # "unborn"),
         Makes(z) => Makes(req[r]), Needs(z) => Needs(req[r]),
         NEW p \in Requests \ {r}
  PROVE  Apart(req[p], z)
<1>1. Apart(req[p], req[r]) /\ Grounded(req[p], present, appt)
  BY DEF StripInv
<1>2. Makes(req[p]) => req[p].id \in Appointments
  BY AtWork DEF TypeOK
<1> QED
  BY <1>1, <1>2, NoneAssumption DEF Apart, Grounded

\* The same, for a step that makes no row and gives no booking its first technician.
LEMMA StripQuiet ==
  ASSUME TypeOK, TypeOK', StripInv, NEW r \in Requests, NEW z,
         req' = [req EXCEPT ![r] = z], present' = present,
         \A b \in Appointments : appt'[b].staff = None <=> appt[b].staff = None,
         Grounded(z, present, appt), \A p \in Requests \ {r} : Apart(req[p], z)
  PROVE  StripInv' /\ StaffKept
<1>1. StaffKept /\ \A b \in Appointments : present'[b] = "unborn" => appt'[b].staff = None
  BY DEF StaffKept, StripInv
<1>2. \A p \in Requests \ {r} : /\ Makes(req[p]) => present'[req[p].id] = "unborn"
                                /\ Needs(req[p]) => appt'[req[p].id].staff = None
  BY AtWork DEF StripInv, Grounded, TypeOK
<1>3. z \in Local
  BY DEF TypeOK
<1>4. /\ \A e \in z.todo : e[1] \in Appointments
      /\ z.id \in Appointments \cup {None}
      /\ Makes(z) \/ Needs(z) => z.id \in Appointments
  BY <1>3, AtWork, LocalFields
<1>5. Grounded(z, present', appt')
  BY <1>4 DEF Grounded
<1> QED
  BY <1>1, <1>2, <1>5, StripStep

LEMMA StripJobs ==
  ASSUME NEW q, Grounded(q, present, appt)
  PROVE  /\ Grounded(Idle, present, appt) /\ Idle.id = None /\ ~Makes(Idle) /\ ~Needs(Idle)
         /\ \A z \in {Resume(q), Thrown(q), ToConfirm(q, q.staff)} :
              /\ Grounded(z, present, appt) /\ ~Makes(z) /\ ~Needs(z)
              /\ z.id \in {q.id, None}
         /\ LET z == Job("seat", q.op, q.id, None, 0, 0, FALSE) IN
              Grounded(z, present, appt) /\ ~Makes(z) /\ ~Needs(z) /\ z.id = q.id
<1> DEFINE none == q.op \in {"sweep"} \cup StaffingOps
<1>1. /\ Idle.op = "none" /\ Idle.pc = "idle" /\ Idle.id = None /\ Idle.todo = {}
      /\ "none" \notin HandedByPeople /\ "none" \notin {"sweep"} \cup StaffingOps \cup Creating
  BY DEF Idle, Job, HandedByPeople, StaffingOps, Creating
<1>2. Grounded(Idle, present, appt) /\ ~Makes(Idle) /\ ~Needs(Idle)
  BY <1>1 DEF Grounded, Makes, Needs
<1>3. ASSUME NEW s
      PROVE  LET z == ToConfirm(q, s) IN
             Grounded(z, present, appt) /\ ~Makes(z) /\ ~Needs(z) /\ z.id = q.id
  BY DEF ToConfirm, Job, Grounded, Makes, Needs
<1>4. LET z == Job("seat", q.op, q.id, None, 0, 0, FALSE) IN
      Grounded(z, present, appt) /\ ~Makes(z) /\ ~Needs(z) /\ z.id = q.id
  BY DEF Job, Grounded, Makes, Needs
<1>5. LET z == [Idle EXCEPT !.pc = "sweep", !.op = "sweep", !.todo = q.todo] IN
      Grounded(z, present, appt) /\ ~Makes(z) /\ ~Needs(z) /\ z.id = None
  BY DEF Idle, Job, Grounded, Makes, Needs, HandedByPeople, StaffingOps, EngineOps, Creating
<1> QED
  BY <1>1, <1>2, <1>3, <1>4, <1>5 DEF Resume, Thrown

LEMMA StripBegin ==
  ASSUME TypeOK, TypeOK', StripInv, Ops \cap HandedByPeople = {}, NEW r \in Requests,
         \/ BeginCreate(r) \/ BeginAssign(r) \/ BeginMove(r) \/ BeginReschedule(r)
         \/ BeginStretch(r) \/ BeginAddServices(r)
         \/ BeginReject(r) \/ BeginAutoAssign(r) \/ BeginMark(r) \/ BeginSweep(r)
  PROVE  StripInv' /\ StaffKept
<1>1. present' = present /\ appt' = appt
  BY ZenonT(30) DEF BeginCreate, BeginAssign, BeginMove, BeginReschedule, BeginStretch, BeginAddServices,
         BeginReject, BeginAutoAssign, BeginMark, BeginSweep
<1>2. ASSUME NEW z, Begin(r, z), Grounded(z, present, appt),
             \A p \in Requests \ {r} : Apart(req[p], z)
      PROVE  StripInv' /\ StaffKept
  BY <1>1, <1>2, StripQuiet DEF Begin
<1>3. ASSUME NEW pc \in {"check", "commit", "write"}, NEW op \in TimeOps \cup EndOps \cup MarkOps,
             NEW b \in Appointments, Live(b), NEW s, NEW st, NEW en, NEW keep,
             Begin(r, Job(pc, op, b, s, st, en, keep))
      PROVE  StripInv' /\ StaffKept
  <2> DEFINE z == Job(pc, op, b, s, st, en, keep)
  <2>1. z.pc = pc /\ z.op = op /\ z.id = b /\ z.todo = {}
    BY DEF Job
  <2>2. op \notin {"sweep"} \cup EngineOps \cup StaffingOps \cup Creating \cup HandedByPeople
    BY DEF EngineOps, StaffingOps, Creating, HandedByPeople, TimeOps, EndOps, MarkOps
  <2>3. Begin(r, z)
    BY <1>3
  <2> HIDE DEF z
  <2>4. Grounded(z, present, appt) /\ ~Makes(z) /\ ~Needs(z)
    BY <2>1, <2>2 DEF Grounded, Makes, Needs
  <2>5. present[z.id] # "unborn"
    BY <1>3, <2>1 DEF Live
  <2> QED
    BY <1>2, <2>3, <2>4, <2>5, StaysApart
<1>4. CASE BeginCreate(r)
  <2>1. PICK op \in {"create", "publicCreate"} \cap Ops, b \in Appointments, s \in StaffOrNone,
             st, en \in Time, confirmNow \in BOOLEAN :
          /\ present[b] = "unborn" /\ \A q \in Requests : req[q].id # b
          /\ Begin(r, Job(IF s = None THEN "commit" ELSE "check", op, b, s, st, en, confirmNow))
    BY <1>4 DEF BeginCreate
  <2> DEFINE z == Job(IF s = None THEN "commit" ELSE "check", op, b, s, st, en, confirmNow)
  <2>2. z.pc \in {"check", "commit"} /\ z.op \in {"create", "publicCreate"} /\ z.id = b /\ z.todo = {}
    BY DEF Job
  <2>3. Begin(r, z)
    BY <2>1
  <2> HIDE DEF z
  <2>4. Grounded(z, present, appt) /\ ~Needs(z)
    BY <2>1, <2>2 DEF Grounded, Makes, Needs, HandedByPeople, EngineOps, StaffingOps
  <2>5. \A p \in Requests \ {r} : Apart(req[p], z)
    BY <2>1, <2>2, <2>4 DEF Apart
  <2> QED
    BY <1>2, <2>3, <2>4, <2>5
<1>5. ~(BeginAssign(r) \/ BeginMove(r) \/ BeginReject(r) \/ BeginAutoAssign(r))
  BY DEF BeginAssign, BeginMove, BeginReject, BeginAutoAssign, HandedByPeople
<1>6. CASE BeginReschedule(r)
  BY <1>3, <1>6 DEF BeginReschedule
<1>7. CASE BeginStretch(r) \/ BeginAddServices(r)
  BY <1>3, <1>7 DEF BeginStretch, BeginAddServices, EndOps
<1>8. CASE BeginMark(r)
  BY <1>3, <1>8 DEF BeginMark
<1>9. CASE BeginSweep(r)
  <2> DEFINE z == [Idle EXCEPT !.pc = IF MustAccept THEN "sweep" ELSE "clear", !.op = "sweep",
                               !.todo = {<<b, appt[b].staff>> : b \in {c \in Appointments : Expired(c)}}]
  <2>1. /\ z.pc \in {"sweep", "clear"} /\ z.op = "sweep" /\ z.id = None
        /\ \A e \in z.todo : appt[e[1]].staff # None
    BY DEF Idle, Job, Expired
  <2>2. Begin(r, z)
    BY <1>9 DEF BeginSweep
  <2> HIDE DEF z
  <2>3. Grounded(z, present, appt) /\ ~Makes(z) /\ ~Needs(z)
    BY <2>1 DEF Grounded, Makes, Needs, HandedByPeople, StaffingOps, Creating
  <2> QED
    BY <1>2, <2>1, <2>2, <2>3, StaysApart
<1> QED
  BY <1>4, <1>5, <1>6, <1>7, <1>8, <1>9

\* A step of the engine and the sweep that writes no technician.
LEMMA StripEngine ==
  ASSUME TypeOK, TypeOK', StripInv, NEW r \in Requests,
         \/ SweepNext(r) \/ SweepDone(r) \/ SweepClear(r) \/ Rank(r) \/ Check(r) \/ Crash(r)
  PROVE  StripInv' /\ StaffKept
<1> DEFINE q == req[r]
<1>1. q \in Local /\ Grounded(q, present, appt)
  BY DEF TypeOK, StripInv
<1>2. present' = present /\ \A b \in Appointments : appt'[b].staff = appt[b].staff
  <2>1. CASE SweepClear(r)
    <3>1. ASSUME NEW b \in Appointments PROVE appt'[b].staff = appt[b].staff
      <4>1. appt'[b] = appt[b] \/ appt'[b] = [appt[b] EXCEPT !.deadline = "none"]
        BY <2>1 DEF SweepClear
      <4> QED
        BY <4>1 DEF TypeOK, Row
    <3> QED
      BY <2>1, <3>1 DEF SweepClear
  <2>2. CASE SweepNext(r) \/ SweepDone(r) \/ Rank(r) \/ Check(r) \/ Crash(r)
    BY <2>2 DEF SweepNext, SweepDone, Rank, Check, Crash
  <2> QED
    BY <2>1, <2>2
<1>3. ASSUME NEW z, Goto(r, z), Grounded(z, present, appt),
             \A p \in Requests \ {r} : Apart(req[p], z)
      PROVE  StripInv' /\ StaffKept
  BY <1>2, <1>3, StripQuiet DEF Goto
<1>4. ASSUME NEW z \in {Idle, Thrown(q)}, Goto(r, z)
      PROVE  StripInv' /\ StaffKept
  <2>1. Grounded(z, present, appt) /\ ~Makes(z) /\ ~Needs(z) /\ z.id \in {q.id, None}
    BY <1>1, <1>4, StripJobs
  <2> QED
    BY <1>3, <1>4, <2>1, StaysApart
<1>5. CASE SweepDone(r) \/ SweepClear(r) \/ Crash(r)
  BY <1>4, <1>5 DEF SweepDone, SweepClear, Crash
<1>6. CASE SweepNext(r)
  <2>1. PICK e \in q.todo :
          \/ Goto(r, Idle)
          \/ /\ present[e[1]] = "live"
             /\ Goto(r, [q EXCEPT !.pc = "rank", !.id = e[1], !.todo = @ \ {e}])
    BY <1>6 DEF SweepNext
  <2> DEFINE z == [q EXCEPT !.pc = "rank", !.id = e[1], !.todo = @ \ {e}]
  <2>2. z.pc = "rank" /\ z.op = q.op /\ z.id = e[1] /\ z.todo \subseteq q.todo
    BY <1>1 DEF Local, LocalRecord
  <2>3. q.op = "sweep" /\ appt[e[1]].staff # None /\ \A f \in q.todo : appt[f[1]].staff # None
    BY <1>1, <1>6 DEF Grounded, SweepNext
  <2>4. Goto(r, Idle) \/ (present[e[1]] = "live" /\ Goto(r, z))
    BY <2>1
  <2> HIDE DEF z
  <2>5. Grounded(z, present, appt) /\ ~Makes(z) /\ ~Needs(z)
    BY <2>2, <2>3 DEF Grounded, Makes, Needs, HandedByPeople, StaffingOps, Creating
  <2> QED
    BY <1>3, <1>4, <2>2, <2>4, <2>5, StaysApart
<1>7. CASE Rank(r)
  <2>1. /\ q.op \in StaffingOps \cup {"sweep"} /\ q.pc = "rank" /\ (Needs(q) <=> q.op \in StaffingOps)
    BY <1>1, <1>7 DEF Rank, Grounded, Needs
  <2>2. \E z : /\ Goto(r, z) /\ (z = Thrown(q) \/ (/\ z.pc \in {"check", "giveup"} /\ z.op = q.op
                                                   /\ z.id = q.id /\ z.todo = q.todo))
    <3>1. ASSUME NEW s, NEW st, NEW en
          PROVE LET z == [q EXCEPT !.pc = "check", !.staff = s, !.start = st, !.end = en] IN
                z.pc = "check" /\ z.op = q.op /\ z.id = q.id /\ z.todo = q.todo
      BY <1>1 DEF Local, LocalRecord
    <3>2. LET z == [q EXCEPT !.pc = "giveup", !.staff = None] IN
          z.pc = "giveup" /\ z.op = q.op /\ z.id = q.id /\ z.todo = q.todo
      BY <1>1 DEF Local, LocalRecord
    <3>3. CASE Goto(r, Thrown(q))
      BY <3>3
    <3>4. CASE Goto(r, [q EXCEPT !.pc = "giveup", !.staff = None])
      BY <3>2, <3>4
    <3>5. ASSUME NEW s, NEW st, NEW en,
                 Goto(r, [q EXCEPT !.pc = "check", !.staff = s, !.start = st, !.end = en])
          PROVE \E z : /\ Goto(r, z)
                       /\ z.pc = "check" /\ z.op = q.op /\ z.id = q.id /\ z.todo = q.todo
      <4> DEFINE z == [q EXCEPT !.pc = "check", !.staff = s, !.start = st, !.end = en]
      <4>1. Goto(r, z)
        BY <3>5
      <4>2. z.pc = "check" /\ z.op = q.op /\ z.id = q.id /\ z.todo = q.todo
        BY <3>1
      <4> HIDE DEF z
      <4> QED
        BY <4>1, <4>2
    <3>6. \/ Goto(r, Thrown(q))
          \/ Goto(r, [q EXCEPT !.pc = "giveup", !.staff = None])
          \/ \E s, st, en : Goto(r, [q EXCEPT !.pc = "check", !.staff = s, !.start = st, !.end = en])
      BY <1>7 DEF Rank
    <3>7. CASE \E s, st, en : Goto(r, [q EXCEPT !.pc = "check", !.staff = s, !.start = st, !.end = en])
      BY <3>5, <3>7
    <3> QED
      BY <3>3, <3>4, <3>6, <3>7
  <2>3. PICK z : /\ Goto(r, z)
                 /\ (z = Thrown(q) \/ (/\ z.pc \in {"check", "giveup"} /\ z.op = q.op
                                       /\ z.id = q.id /\ z.todo = q.todo))
    BY <2>2
  <2>4. CASE z = Thrown(q)
    BY <1>4, <2>3, <2>4
  <2>5. CASE z.pc \in {"check", "giveup"} /\ z.op = q.op /\ z.id = q.id /\ z.todo = q.todo
    <3>1. ~Makes(z) /\ (Needs(z) <=> Needs(q))
      BY <2>1, <2>5 DEF Makes, Needs, StaffingOps, Creating
    <3>2. Grounded(z, present, appt)
      BY <1>1, <2>1, <2>5, <3>1 DEF Grounded
    <3> QED
      BY <1>3, <2>3, <2>5, <3>1, <3>2, StaysApart
  <2> QED
    BY <2>3, <2>4, <2>5
<1>8. CASE Check(r)
  <2>1. PICK k, v : Goto(r, Thrown(q)) \/ Goto(r, [q EXCEPT !.pc = "commit", !.keep = k, !.vetted = v])
    BY <1>8 DEF Check
  <2> DEFINE z == [q EXCEPT !.pc = "commit", !.keep = k, !.vetted = v]
  <2>2. z.pc = "commit" /\ z.op = q.op /\ z.id = q.id /\ z.todo = q.todo /\ z.staff = q.staff
    BY <1>1 DEF Local, LocalRecord
  <2>3. q.pc = "check" /\ q.staff # None
    BY <1>1, <1>8, LocalFields, NoneAssumption DEF Check, WellFormed
  <2>4. Goto(r, Thrown(q)) \/ Goto(r, z)
    BY <2>1
  <2> HIDE DEF z
  <2>5. (Makes(z) <=> Makes(q)) /\ (Needs(z) <=> Needs(q))
    BY <2>2, <2>3 DEF Makes, Needs
  <2>6. Grounded(z, present, appt)
    BY <1>1, <2>2, <2>3, <2>5 DEF Grounded
  <2> QED
    BY <1>3, <1>4, <2>2, <2>4, <2>5, <2>6, StaysApart
<1> QED
  BY <1>5, <1>6, <1>7, <1>8

LEMMA SameStaff ==
  ASSUME TypeOK, NEW b \in Appointments, NEW row, row.staff = appt[b].staff, NEW h, NEW ok,
         \/ WriteRow(b, row, h, ok) \/ UpdateIfLive(b, row, h, ok) \/ WriteUnchecked(b, row)
         \/ UNCHANGED <<appt, unchecked>>
  PROVE  \A c \in Appointments : appt'[c].staff = appt[c].staff
BY DEF TypeOK, WriteRow, UpdateIfLive, WriteUnchecked

LEMMA OneField ==
  ASSUME TypeOK, NEW b \in Appointments
  PROVE  /\ \A st : [appt[b] EXCEPT !.status = st].staff = appt[b].staff
         /\ \A st : [appt[b] EXCEPT !.status = st, !.deadline = "none"].staff = appt[b].staff
         /\ [appt[b] EXCEPT !.deadline = "none"].staff = appt[b].staff
         /\ [appt[b] EXCEPT !.deadline = "passed"].staff = appt[b].staff
         /\ \A en : [appt[b] EXCEPT !.end = en].staff = appt[b].staff
         /\ \A st, en : [appt[b] EXCEPT !.start = st, !.end = en].staff = appt[b].staff
         /\ [appt[b] EXCEPT !.status = "PENDING", !.staff = None, !.deadline = "none"].staff = None
BY DEF TypeOK, Row

\* A handler's last write of a booking that it did not make.
LEMMA StripCommit ==
  ASSUME TypeOK, TypeOK', StripInv, NEW r \in Requests,
         \/ GiveUp(r) \/ CommitHand(r) \/ CommitTimes(r) \/ CommitEnd(r)
         \/ Confirm(r) \/ Seat(r) \/ Mark(r)
  PROVE  StripInv' /\ StaffKept
<1> DEFINE q == req[r]  b == q.id
<1>1. q \in Local /\ Grounded(q, present, appt)
  BY DEF TypeOK, StripInv
<1>2. b \in Appointments /\ present' = present
  BY <1>1, LocalFields DEF GiveUp, CommitHand, CommitTimes, CommitEnd, Confirm, Seat, Mark, WellFormed
<1>3. ASSUME NEW z \in {Idle, Resume(q), Job("seat", q.op, b, None, 0, 0, FALSE)}, Goto(r, z)
      PROVE  /\ req' = [req EXCEPT ![r] = z]
             /\ Grounded(z, present, appt) /\ ~Makes(z) /\ ~Needs(z)
             /\ \A p \in Requests \ {r} : Apart(req[p], z)
  <2>1. Grounded(z, present, appt) /\ ~Makes(z) /\ ~Needs(z) /\ z.id \in {b, None}
    BY <1>1, <1>3, StripJobs
  <2> QED
    BY <1>3, <2>1, StaysApart DEF Goto
<1>4. ASSUME NEW z \in {Idle, Resume(q), Job("seat", q.op, b, None, 0, 0, FALSE)}, Goto(r, z),
             \A c \in Appointments : appt'[c].staff = appt[c].staff
      PROVE  StripInv' /\ StaffKept
  BY <1>2, <1>3, <1>4, StripQuiet
<1>5. CASE GiveUp(r)
  <2>1. q.pc = "giveup" /\ Goto(r, Resume(q))
    BY <1>5 DEF GiveUp
  <2>2. CASE q.op = "sweep"
    BY <1>2, <1>4, <1>5, <2>1, <2>2, SameStaff, OneField DEF GiveUp
  <2>3. CASE q.op # "sweep"
    <3>1. appt[b].staff = None
      BY <1>1, <2>1, <2>3 DEF Grounded, Needs
    <3>2. [appt[b] EXCEPT !.status = "PENDING", !.staff = None, !.deadline = "none"].staff
            = appt[b].staff
      BY <1>2, <3>1, OneField
    <3> QED
      BY <1>2, <1>4, <1>5, <2>1, <2>3, <3>2, SameStaff DEF GiveUp
  <2> QED
    BY <2>2, <2>3
<1>6. CASE CommitTimes(r) \/ CommitEnd(r)
  <2>1. \E row : row.staff = appt[b].staff /\ UpdateIfLive(b, row, q, q.vetted)
    <3>1. CASE CommitTimes(r)
      <4> DEFINE row == [appt[b] EXCEPT !.start = q.start, !.end = q.end]
      <4>1. row.staff = appt[b].staff /\ UpdateIfLive(b, row, q, q.vetted)
        BY <1>2, <3>1, OneField DEF CommitTimes
      <4> HIDE DEF row
      <4> QED
        BY <4>1
    <3>2. CASE CommitEnd(r)
      <4> DEFINE row == [appt[b] EXCEPT !.end = q.end]
      <4>1. row.staff = appt[b].staff /\ UpdateIfLive(b, row, q, q.vetted)
        BY <1>2, <3>2, OneField DEF CommitEnd
      <4> HIDE DEF row
      <4> QED
        BY <4>1
    <3> QED
      BY <1>6, <3>1, <3>2
  <2>2. \A c \in Appointments : appt'[c].staff = appt[c].staff
    BY <1>2, <2>1, SameStaff
  <2> QED
    BY <1>4, <1>6, <2>2 DEF CommitTimes, CommitEnd
<1>7. CASE Confirm(r) \/ Seat(r) \/ Mark(r)
  BY <1>2, <1>4, <1>7, SameStaff, OneField DEF Confirm, Seat, Mark
<1>8. CASE CommitHand(r)
  <2> DEFINE times == IF q.op = "move" THEN [appt[b] EXCEPT !.start = q.start, !.end = q.end]
                                        ELSE appt[b]
             row == IF q.keep THEN [times EXCEPT !.staff = q.staff]
                    ELSE [times EXCEPT !.staff = q.staff, !.status = "ASSIGNED", !.deadline = "set"]
  <2>1. q.pc = "commit" /\ q.op \in StaffingOps \cup {"sweep"} /\ q.staff # None
    BY <1>1, <1>8 DEF CommitHand, Grounded, HandOps, EngineOps, HandedByPeople
  <2>2. row.staff = q.staff
    <3>1. times = appt[b]
      BY <2>1 DEF StaffingOps
    <3> QED
      BY <1>2, <3>1 DEF TypeOK, Row
  <2>3. UpdateIfLive(b, row, q, q.vetted) /\ Goto(r, Resume(q))
    BY <1>8 DEF CommitHand
  <2> HIDE DEF row
  <2>4. /\ \A c \in Appointments \ {b} : appt'[c] = appt[c]
        /\ appt'[b] = appt[b] \/ appt'[b].staff = q.staff
    BY <1>2, <2>2, <2>3 DEF UpdateIfLive, WriteRow, TypeOK
  <2>5. StaffKept
    BY <2>1, <2>4 DEF StaffKept
  <2>6. present[b] = "unborn" => appt'[b] = appt[b]
    BY <2>3 DEF UpdateIfLive, Live
  <2>7. \A c \in Appointments : present'[c] = "unborn" => appt'[c].staff = None
    BY <1>2, <2>4, <2>6 DEF StripInv
  <2>8. ASSUME NEW p \in Requests \ {r}
        PROVE  /\ Makes(req[p]) => present'[req[p].id] = "unborn"
               /\ Needs(req[p]) => appt'[req[p].id].staff = None
    <3>1. Grounded(req[p], present, appt) /\ Apart(req[p], q)
      BY DEF StripInv
    <3>2. Needs(req[p]) => req[p].id \in Appointments
      BY AtWork DEF TypeOK
    <3>3. CASE Needs(req[p]) /\ req[p].id = b
      <4>1. q.op = "sweep"
        BY <2>1, <3>1, <3>3 DEF Apart, Needs
      <4> QED
        BY <1>1, <1>2, <3>1, <3>3, <4>1, NoneAssumption DEF Grounded
    <3> QED
      BY <1>2, <2>4, <3>1, <3>2, <3>3 DEF Grounded
  <2> DEFINE z == Resume(q)
  <2>9. /\ req' = [req EXCEPT ![r] = z]
        /\ Grounded(z, present, appt) /\ ~Makes(z) /\ ~Needs(z)
        /\ \A p \in Requests \ {r} : Apart(req[p], z)
    BY <1>3, <2>3
  <2>10. z \in Local
    BY <2>9 DEF TypeOK
  <2> HIDE DEF z
  <2>11. /\ \A e \in z.todo : e[1] \in Appointments
         /\ z.id \in Appointments \cup {None}
    BY <2>10, AtWork, LocalFields
  <2>12. Grounded(z, present', appt')
    BY <1>2, <2>5, <2>9, <2>11 DEF Grounded, StaffKept
  <2> QED
    BY <1>2, <2>5, <2>7, <2>8, <2>9, <2>12, StripStep
<1> QED
  BY <1>5, <1>6, <1>7, <1>8

LEMMA StripCreate ==
  ASSUME TypeOK, TypeOK', StripInv, NEW r \in Requests, CommitCreate(r)
  PROVE  StripInv' /\ StaffKept
<1> DEFINE q == req[r]  b == q.id
           status == IF q.keep THEN "CONFIRMED" ELSE IF q.staff # None THEN "ASSIGNED" ELSE "PENDING"
           row == [status |-> status, staff |-> q.staff, start |-> q.start, end |-> q.end,
                   deadline |-> IF status = "ASSIGNED" THEN "set" ELSE "none"]
<1>1. q \in Local /\ Grounded(q, present, appt) /\ \A p \in Requests \ {r} : Apart(req[p], q)
  BY DEF TypeOK, StripInv
<1>2. b \in Appointments /\ Makes(q) /\ present[b] = "unborn" /\ appt[b].staff = None
      /\ \A p \in Requests \ {r} : req[p].id # b
  BY <1>1, AtWork DEF CommitCreate, Makes, Creating, Grounded, Apart, StripInv
<1>3. WriteRow(b, row, q, q.vetted) /\ present' = [present EXCEPT ![b] = "live"]
      /\ row.staff = q.staff
  BY DEF CommitCreate
<1>4. \/ req' = [req EXCEPT ![r] = ToConfirm(q, q.staff)]
      \/ /\ q.staff = None
         /\ \E op \in StaffingOps : req' = [req EXCEPT ![r] = Job("rank", op, b, None, 0, 0, FALSE)]
  BY DEF CommitCreate, Goto, StaffingOps
<1> HIDE DEF row, status
<1>5. /\ present'[b] = "live" /\ \A c \in Appointments \ {b} : present'[c] = present[c]
      /\ appt'[b] = row /\ \A c \in Appointments \ {b} : appt'[c] = appt[c]
  BY <1>2, <1>3 DEF TypeOK, WriteRow
<1>6. StaffKept /\ \A c \in Appointments : present'[c] = "unborn" => appt'[c].staff = None
  BY <1>2, <1>5 DEF StaffKept, StripInv
<1>7. \A p \in Requests \ {r} : /\ Makes(req[p]) => present'[req[p].id] = "unborn"
                                /\ Needs(req[p]) => appt'[req[p].id].staff = None
  BY <1>2, <1>5, AtWork DEF StripInv, Grounded, TypeOK
<1>8. \A c \in Appointments : present[c] # "unborn" => present'[c] # "unborn"
  BY <1>5
<1>9. CASE req' = [req EXCEPT ![r] = ToConfirm(q, q.staff)]
  <2> DEFINE z == ToConfirm(q, q.staff)
  <2>1. Grounded(z, present, appt) /\ ~Makes(z) /\ ~Needs(z) /\ z.id = b /\ z.todo = {}
        /\ z.op = q.op
    BY <1>1, StripJobs DEF ToConfirm, Job
  <2>2. req' = [req EXCEPT ![r] = z]
    BY <1>9
  <2> HIDE DEF z
  <2>3. q.op # "sweep"
    BY <1>2 DEF Makes, Creating
  <2>4. Grounded(z, present', appt')
    BY <2>1, <2>3 DEF Grounded
  <2>5. \A p \in Requests \ {r} : Apart(req[p], z)
    BY <2>1, <1>2 DEF Apart
  <2> QED
    BY <1>6, <1>7, <1>8, <2>2, <2>4, <2>5, StripStep
<1>10. ASSUME NEW op \in StaffingOps, q.staff = None,
              req' = [req EXCEPT ![r] = Job("rank", op, b, None, 0, 0, FALSE)]
       PROVE  StripInv' /\ StaffKept
  <2> DEFINE z == Job("rank", op, b, None, 0, 0, FALSE)
  <2>1. z.id = b /\ z.op = op /\ z.pc = "rank" /\ z.todo = {}
    BY DEF Job
  <2>2. req' = [req EXCEPT ![r] = z]
    BY <1>10
  <2> HIDE DEF z
  <2>3. op \notin HandedByPeople \cup Creating \cup {"sweep"}
    BY DEF StaffingOps, HandedByPeople, Creating
  <2>4. Grounded(z, present', appt')
    BY <1>3, <1>5, <1>10, <2>1, <2>3 DEF Grounded, Makes
  <2>5. \A p \in Requests \ {r} : Apart(req[p], z)
    BY <2>1, <1>2 DEF Apart
  <2> QED
    BY <1>6, <1>7, <1>8, <2>2, <2>4, <2>5, StripStep
<1> QED
  BY <1>4, <1>9, <1>10

LEMMA StripDirect ==
  ASSUME TypeOK, TypeOK', StripInv, Ops \cap HandedByPeople = {}, NEW b \in Appointments,
         \/ SetStatus(b) \/ Cancel(b) \/ ConfirmBySalon(b) \/ CloseMissed(b)
         \/ FollowFloor(b) \/ Remove(b) \/ Restore(b) \/ DeadlinePasses(b)
  PROVE  StripInv' /\ StaffKept
<1>1. req' = req /\ ~FollowFloor(b)
  BY DEF SetStatus, Cancel, ConfirmBySalon, CloseMissed, FollowFloor, Remove, Restore,
         DeadlinePasses, HandedByPeople
<1>2. \A c \in Appointments : appt'[c].staff = appt[c].staff
  <2>1. CASE SetStatus(b) \/ Cancel(b) \/ ConfirmBySalon(b) \/ CloseMissed(b)
    BY <2>1, SameStaff, OneField DEF SetStatus, Cancel, ConfirmBySalon, CloseMissed
  <2>2. CASE Remove(b) \/ Restore(b)
    BY <2>2, SameStaff DEF Remove, Restore
  <2>3. CASE DeadlinePasses(b)
    BY <2>3, OneField DEF DeadlinePasses, TypeOK
  <2> QED
    BY <1>1, <2>1, <2>2, <2>3
<1>3. \A c \in Appointments : present'[c] = "unborn" <=> present[c] = "unborn"
  BY DEF TypeOK, SetStatus, Cancel, ConfirmBySalon, CloseMissed, FollowFloor, Remove, Restore,
         DeadlinePasses, Live
<1>4. ASSUME NEW r \in Requests PROVE Grounded(req[r], present', appt')
  <2>1. /\ Grounded(req[r], present, appt)
        /\ \A e \in req[r].todo : e[1] \in Appointments
        /\ req[r].id \in Appointments \cup {None}
        /\ Makes(req[r]) \/ Needs(req[r]) => req[r].id \in Appointments
    BY AtWork, LocalFields DEF StripInv, TypeOK
  <2> QED
    BY <1>2, <1>3, <2>1 DEF Grounded
<1> QED
  BY <1>1, <1>2, <1>3, <1>4 DEF StripInv, StaffKept

\* Where nobody hands a booking on but the sweep and the engine of a fresh booking, no
\* step leaves a booking that has a technician without one: not the sweep that finds nobody
\* else, not the desk's other handlers, not the trash, not a restart.
THEOREM StrippedCorrect ==
  ASSUME Ops \cap HandedByPeople = {}
  PROVE  Spec => NeverStripped
<1>1. Init => StripInv
  BY DEF Init, StripInv, Grounded, Apart, Makes, Needs, Idle, Job, HandedByPeople, Creating,
         StaffingOps
<1>2. TypeOK /\ StripInv /\ [Next]_vars => StripInv' /\ StaffKept
  <2> SUFFICES ASSUME TypeOK, StripInv, [Next]_vars PROVE StripInv' /\ StaffKept
    OBVIOUS
  <2>1. TypeOK'
    BY TypeNext
  <2>2. ASSUME UNCHANGED <<present, appt, req>> PROVE StripInv' /\ StaffKept
    BY <2>2 DEF StripInv, StaffKept
  <2>3. CASE UNCHANGED vars
    BY <2>2, <2>3 DEF vars
  <2>4. CASE Tick
    BY <2>2, <2>4 DEF Tick
  <2>5. ASSUME NEW r \in Requests, Continue(r) PROVE StripInv' /\ StaffKept
    BY <2>1, <2>5, StripEngine, StripCommit, StripCreate DEF Continue
  <2>6. ASSUME NEW r \in Requests, Crash(r) PROVE StripInv' /\ StaffKept
    BY <2>1, <2>6, StripEngine
  <2> QED
    BY <2>1, <2>3, <2>4, <2>5, <2>6, StripBegin, StripDirect DEF Next
<1>3. StaffKept => \A b \in Appointments : appt[b].staff # None => appt'[b].staff # None
  BY DEF StaffKept
<1> QED
  BY <1>1, <1>2, <1>3, TypeCorrect, PTL DEF Spec, NeverStripped

-----------------------------------------------------------------------------
(* The refinement.  Every step of the handlers takes, forces or gives back *)
(* one span of SlotBook, or leaves the calendar alone.                     *)

\* At most booking b's span changed; if it stands checked, it meets nobody's.
Touched(b) ==
  /\ \A c \in Appointments \ {b} : /\ Blocks(c)' <=> Blocks(c)
                                   /\ appt'[c] = appt[c]
                                   /\ unchecked'[c] = unchecked[c]
  /\ Blocks(b)' /\ "slot" \notin unchecked'[b] => FreeBut(b, appt'[b])

LEMMA WrittenTouches ==
  ASSUME TypeOK, Safe, NEW b \in Appointments, NEW row \in Row, NEW h, NEW ok,
         h.start \in Int, h.end \in Int, Written(b, row, h, ok)
  PROVE  Touched(b)
BY WrittenFacts, WrittenFree DEF Touched

LEMMA CommitTouches ==
  ASSUME TypeOK, TypeOK', Safe, NEW r \in Requests, req[r].pc = "commit", NEW row,
         WriteRow(req[r].id, row, req[r], req[r].vetted),
         \A c \in Appointments \ {req[r].id} : present'[c] = present[c]
  PROVE  \E b \in Appointments : Touched(b)
<1> DEFINE q == req[r]
<1>1. q \in Local /\ q.id \in Appointments /\ q.start \in Int /\ q.end \in Int
  BY LocalFields, TimeInt DEF TypeOK, WellFormed
<1>2. appt'[q.id] = row
  BY <1>1 DEF WriteRow, TypeOK
<1>3. row \in Row
  BY <1>1, <1>2 DEF TypeOK
<1>4. Written(q.id, row, q, q.vetted)
  BY DEF Written, Safe, CheckedSpanFree, CheckedSpanOn
<1> QED BY <1>1, <1>3, <1>4, WrittenTouches

LEMMA UncheckedTouches ==
  ASSUME TypeOK, TypeOK', Safe, NEW b \in Appointments, NEW row, NEW h,
         WriteUnchecked(b, row) \/ (WriteRow(b, row, h, {}) /\ h.start \in Int /\ h.end \in Int),
         \A c \in Appointments \ {b} : present'[c] = present[c]
  PROVE  Touched(b)
<1>1. appt'[b] = row
  BY DEF WriteUnchecked, WriteRow, TypeOK
<1>2. row \in Row
  BY <1>1 DEF TypeOK
<1> QED BY <1>2, RowSpan, UncheckedIsWritten, WrittenTouches DEF WriteUnchecked

LEMMA RequestShape ==
  ASSUME TypeOK, TypeOK', Safe, NEW r \in Requests, Continue(r)
  PROVE  SameCalendar \/ \E b \in Appointments : Touched(b)
<1> DEFINE q == req[r]
<1>1. /\ q \in Local
      /\ q.pc \in {"commit", "giveup", "confirm", "seat", "write"}
           => q.id \in Appointments /\ q.start \in Int /\ q.end \in Int
  BY LocalFields, TimeInt DEF TypeOK, WellFormed
<1>2. CASE SweepNext(r) \/ SweepDone(r) \/ Rank(r) \/ Check(r)
  BY <1>2, UntouchedCalendar DEF SweepNext, SweepDone, Rank, Check
<1>3. CASE SweepClear(r)
  BY <1>3 DEF SweepClear, SameCalendar, Blocks, Live, Takes, TypeOK, Row
<1>4. CASE CommitCreate(r)
  <2>1. PICK row : /\ WriteRow(q.id, row, q, q.vetted)
                   /\ present' = [present EXCEPT ![q.id] = "live"]
    BY <1>4 DEF CommitCreate
  <2>2. \A c \in Appointments \ {q.id} : present'[c] = present[c]
    BY <2>1 DEF TypeOK
  <2>3. q.pc = "commit"
    BY <1>4 DEF CommitCreate
  <2> QED BY <2>1, <2>2, <2>3, CommitTouches
<1>5. CASE CommitHand(r) \/ CommitTimes(r) \/ CommitEnd(r)
  <2>1. /\ q.pc = "commit" /\ present' = present
        /\ \E row : UpdateIfLive(q.id, row, q, q.vetted)
    BY <1>5 DEF CommitHand, CommitTimes, CommitEnd
  <2>2. CASE UNCHANGED <<appt, unchecked>>
    BY <2>1, <2>2, UntouchedCalendar
  <2>3. CASE \E row : WriteRow(q.id, row, q, q.vetted)
    BY <2>1, <2>3, CommitTouches
  <2> QED BY <2>1, <2>2, <2>3 DEF UpdateIfLive
<1>6. CASE GiveUp(r) \/ Confirm(r) \/ Seat(r) \/ Mark(r)
  <2>1. /\ q.id \in Appointments /\ q.start \in Int /\ q.end \in Int /\ present' = present
        /\ \/ UNCHANGED <<appt, unchecked>>
           \/ \E row : WriteUnchecked(q.id, row) \/ WriteRow(q.id, row, q, {})
    BY <1>1, <1>6 DEF GiveUp, Confirm, Seat, Mark, UpdateIfLive
  <2> QED BY <2>1, UntouchedCalendar, UncheckedTouches
<1> QED BY <1>2, <1>3, <1>4, <1>5, <1>6 DEF Continue

LEMMA DirectShape ==
  ASSUME TypeOK, TypeOK', Safe, NEW b \in Appointments,
         \/ SetStatus(b) \/ Cancel(b) \/ ConfirmBySalon(b) \/ CloseMissed(b)
         \/ FollowFloor(b) \/ Remove(b) \/ Restore(b) \/ DeadlinePasses(b)
  PROVE  SameCalendar \/ Touched(b)
<1>1. CASE SetStatus(b) \/ Cancel(b) \/ ConfirmBySalon(b) \/ CloseMissed(b) \/ FollowFloor(b)
  <2>1. present' = present /\ \E row : WriteUnchecked(b, row)
    BY <1>1 DEF SetStatus, Cancel, ConfirmBySalon, CloseMissed, FollowFloor
  <2> QED BY <2>1, UncheckedTouches
<1>2. CASE Restore(b)
  <2>1. \A c \in Appointments \ {b} : present'[c] = present[c]
    BY <1>2 DEF Restore, TypeOK
  <2> QED BY <1>2, <2>1, UncheckedTouches DEF Restore
<1>3. CASE Remove(b)
  BY <1>3 DEF Remove, Touched, Blocks, Live, TypeOK
<1>4. CASE DeadlinePasses(b)
  BY <1>4 DEF DeadlinePasses, SameCalendar, Blocks, Live, Takes, TypeOK, Row
<1> QED BY <1>1, <1>2, <1>3, <1>4

LEMMA StepShape ==
  ASSUME TypeOK, TypeOK', Safe, [Next]_vars
  PROVE  SameCalendar \/ \E b \in Appointments : Touched(b)
<1>1. CASE UNCHANGED vars
  BY <1>1, UntouchedCalendar DEF vars
<1>2. CASE Tick
  BY <1>2, UntouchedCalendar DEF Tick
<1>3. ASSUME NEW r \in Requests,
             \/ BeginCreate(r) \/ BeginAssign(r) \/ BeginMove(r) \/ BeginReschedule(r)
             \/ BeginStretch(r) \/ BeginAddServices(r) \/ BeginReject(r)
             \/ BeginAutoAssign(r) \/ BeginMark(r) \/ BeginSweep(r) \/ Crash(r)
      PROVE  SameCalendar
  BY ZenonT(30), <1>3, UntouchedCalendar
     DEF BeginCreate, BeginAssign, BeginMove, BeginReschedule, BeginStretch, BeginAddServices,
         BeginReject, BeginAutoAssign, BeginMark, BeginSweep, Crash
<1>4. CASE Next
  BY <1>2, <1>3, <1>4, RequestShape, DirectShape DEF Next
<1> QED BY <1>1, <1>4

-----------------------------------------------------------------------------
LEMMA SameCalendarStutters ==
  ASSUME SameCalendar PROVE UNCHANGED Book!vars
BY DEF SameCalendar, Book!vars, HeldSpan, SureOf

LEMMA TouchedSteps ==
  ASSUME TypeOK, TypeOK', NEW b \in Appointments, Touched(b)
  PROVE  Book!Next
<1> DEFINE g == [staff |-> appt'[b].staff, start |-> appt'[b].start, end |-> appt'[b].end]
<1>1. /\ HeldSpan \in [Appointments -> Book!Span \cup {NoSpan}]
      /\ appt'[b] \in Row
  BY RowFields DEF HeldSpan, Book!Span, Blocks, Takes, StaffOrNone, TypeOK
<1>2. HeldSpan' = [HeldSpan EXCEPT ![b] = IF Blocks(b)' THEN g ELSE NoSpan]
  BY DEF HeldSpan, Touched, NoSpan
<1>3. CASE ~Blocks(b)'
  <2>1. SureOf' = SureOf \ {b}
    BY <1>3 DEF SureOf, Touched
  <2> QED BY <1>2, <1>3, <2>1 DEF Book!Next, Book!GiveBack
<1>4. CASE Blocks(b)'
  <2>1. g \in Book!Span
    BY <1>1, <1>4 DEF Book!Span, Row, Blocks, Takes, StaffOrNone
  <2>2. CASE "slot" \in unchecked'[b]
    <3>1. SureOf' = SureOf \ {b}
      BY <2>2 DEF SureOf, Touched
    <3> QED BY <1>2, <1>4, <2>1, <3>1 DEF Book!Next, Book!Impose
  <2>3. CASE "slot" \notin unchecked'[b]
    <3>1. SureOf' = SureOf \cup {b}
      BY <1>4, <2>3 DEF SureOf, Touched
    <3>2. ASSUME NEW w \in SureOf \ {b} PROVE ~Book!Meets(HeldSpan[w], g)
      <4>1. w \in Appointments \ {b} /\ Blocks(w) /\ "slot" \notin unchecked[w]
        BY DEF SureOf
      <4>2. FreeBut(b, appt'[b])
        BY <1>4, <2>3 DEF Touched
      <4>3. HeldSpan[w] = [staff |-> appt[w].staff, start |-> appt[w].start, end |-> appt[w].end]
        BY <4>1 DEF HeldSpan
      <4>4. /\ appt[w].start \in Int /\ appt[w].end \in Int
            /\ appt'[b].start \in Int /\ appt'[b].end \in Int
        BY <1>1, <4>1, RowFields, RowSpan, TimeInt
      <4> QED BY <4>1, <4>2, <4>3, <4>4 DEF FreeBut, Overlaps, Book!Meets
    <3> QED BY <1>2, <1>4, <2>1, <3>1, <3>2 DEF Book!Next, Book!Take
  <2> QED BY <2>2, <2>3
<1> QED BY <1>3, <1>4

\* Whatever the handlers do, the calendar only ever vouches for spans nobody
\* else it vouches for is using: the detailed book implements the abstract one.
THEOREM BookImplements == Spec => BookSpec
<1>1. Init => Book!Init
  BY DEF Init, Book!Init, HeldSpan, SureOf, Blocks, Live
<1>2. IInv /\ IInv' /\ [Next]_vars => [Book!Next]_(Book!vars)
  BY StepShape, SameCalendarStutters, TouchedSteps DEF IInv
<1> QED BY <1>1, <1>2, InvCorrect, PTL DEF Spec, BookSpec, Book!Spec
=============================================================================
