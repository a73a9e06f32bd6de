-------------------------- MODULE TurnBoardProofs --------------------------
(***************************************************************************)
(* The floor keeps its types; a part of a visit that a technician passed   *)
(* on does not come back to her; the dispatcher gives nobody a second part *)
(* while she is at one, and starts no part beside one it cannot run with;  *)
(* at rest it has left nobody free beside a part she may take; and a       *)
(* booking gets one ticket.  For any technicians, visits, parts, requests  *)
(* and wishes.                                                             *)
(*                                                                         *)
(* All rest on the salon's lock: one request at a time works out a plan    *)
(* and writes it, ticket by ticket (OneHolder).  What its plan says of the *)
(* tickets it has still to write is kept against every step of the others, *)
(* who write without the lock (WritesKeep, SeatsKeep, SeatsApart,          *)
(* PlanFits, PlanSettles).                                                 *)
(***************************************************************************)
EXTENDS TurnBoard, Sums, TLAPS

Board == [LegIds -> Leg]

LEMMA NoLegsOK == NoLeg \in Leg /\ NoLegs \in Board
BY TechsAssumption DEF NoLeg, NoLegs, Board, Leg, Zones

LEMMA NoTicketOK == NoTicket \in Ticket
BY NoLegsOK DEF NoTicket, Ticket, Board

LEMMA RestedOK == Rested \in Request
BY NoLegsOK DEF Rested, Request, Doings, Holding, Board

LEMMA WritesOK ==
  ASSUME NEW pc \in Doings, NEW i \in Tickets, NEW legs \in Board
  PROVE  Writes(pc, i, legs) \in Request
<1>1. Rested.legs \in [Tickets -> Board]
  BY NoLegsOK DEF Rested
<1>2. [Rested.legs EXCEPT ![i] = legs] \in [Tickets -> Board]
  BY <1>1
<1> QED
  BY <1>2 DEF Writes, Request, Board

LEMMA GoesOK ==
  ASSUME desk \in [Desks -> Request], NEW w \in Desks, NEW pc \in Doings,
         NEW i \in Tickets \cup {0}, Goes(w, pc, i)
  PROVE  desk' \in [Desks -> Request]
<1>1. [Rested EXCEPT !.pc = pc, !.ticket = i] \in Request
  BY RestedOK DEF Request
<1> QED
  BY <1>1 DEF Goes

LEMMA SettlesOK ==
  ASSUME desk \in [Desks -> Request], NEW w \in Desks, Settles(w)
  PROVE  desk' \in [Desks -> Request]
BY GoesOK DEF Settles, Doings

LEMMA LeavesOK ==
  ASSUME desk \in [Desks -> Request], NEW w \in Desks, Leaves(w)
  PROVE  desk' \in [Desks -> Request]
BY RestedOK DEF Leaves

LEMMA LegsOK ==
  ASSUME BoardTypeOK, NEW i \in Tickets
  PROVE  /\ ticket[i] \in Ticket
         /\ ticket[i].legs \in Board
         /\ \A p \in LegIds : ticket[i].legs[p] \in Leg
BY DEF BoardTypeOK, Ticket, Board

LEMMA PatchLegOK ==
  ASSUME BoardTypeOK, NEW i \in Tickets, NEW p, NEW leg \in Leg
  PROVE  PatchLeg(i, p, leg) \in Board
BY LegsOK DEF PatchLeg, Board

LEMMA ChangeOK ==
  ASSUME BoardTypeOK, NEW w \in Desks, NEW i \in Tickets, NEW pc \in {"change", "pass"},
         NEW legs \in Board, Change(w, i, pc, legs)
  PROVE  BoardTypeOK'
<1>1. pc \in Doings
  BY DEF Doings, Holding
<1>2. desk' \in [Desks -> Request]
  BY <1>1, WritesOK DEF Change, BoardTypeOK
<1> QED
  BY <1>2 DEF Change, BoardTypeOK, AnyOf

LEMMA SyncTicketOK ==
  ASSUME NEW legs PROVE SyncTicket(legs) \in {"WAITING", "SERVING", "DONE"}
BY DEF SyncTicket

LEMMA WriteItemsOK ==
  ASSUME BoardTypeOK, NEW i \in Tickets, NEW legs \in Board
  PROVE  WriteItems(i, legs) \in [Tickets -> Ticket]
<1>1. [[ticket[i] EXCEPT !.legs = legs] EXCEPT !.status = SyncTicket(legs)] \in Ticket
  BY LegsOK, SyncTicketOK DEF Ticket, Board
<1>2. ticket \in [Tickets -> Ticket]
  BY DEF BoardTypeOK
<1>3. [ticket EXCEPT ![i].legs = legs, ![i].status = SyncTicket(legs)]
        = [ticket EXCEPT ![i] = [[ticket[i] EXCEPT !.legs = legs] EXCEPT !.status = SyncTicket(legs)]]
  BY <1>2
<1> QED
  BY <1>1, <1>2, <1>3 DEF WriteItems

LEMMA ServesOK ==
  ASSUME NEW i \in Tickets, NEW legs \in Board
  PROVE  Serves(i, legs) \subseteq Tickets \X LegIds \X AnyOf
BY DEF Serves, Board, Leg, AnyOf

LEMMA NewLegsOK ==
  ASSUME NEW zones \in Visits, NEW s \in AnyOf
  PROVE  NewLegs(zones, s) \in Board
<1>1. zones \in Seq(Zones)
  BY FloorAssumption
<1> SUFFICES ASSUME NEW p \in LegIds, ~(p > Len(zones))
             PROVE  [NoLeg EXCEPT !.status = "WAITING", !.zone = zones[p],
                                  !.tech = s, !.pinned = (s # Nobody)] \in Leg
  BY NoLegsOK DEF NewLegs, Board
<1>2. p \in 1 .. Len(zones)
  BY <1>1, FloorAssumption
<1>3. zones[p] \in Zones
  BY <1>1, <1>2
<1> QED
  BY <1>3 DEF NoLeg, Leg, AnyOf

LEMMA FloorTypeInit == FloorInit => BoardTypeOK
<1> SUFFICES ASSUME FloorInit PROVE BoardTypeOK
  OBVIOUS
<1> QED
  BY NoTicketOK, RestedOK DEF FloorInit, BoardTypeOK, AnyOf

-----------------------------------------------------------------------------
\* One lemma for each operation.

LEMMA SeatedOK ==
  ASSUME BoardTypeOK, NEW i \in Tickets, NEW f \in Plans
  PROVE  Seated(i, f) \in Board
<1> SUFFICES ASSUME NEW p \in LegIds, <<i, p>> \in Queue, f[<<i, p>>] # Nobody
             PROVE  [ticket[i].legs[p] EXCEPT !.status = "SERVING", !.tech = f[<<i, p>>]] \in Leg
  BY LegsOK DEF Seated, Board
<1>1. f[<<i, p>>] \in Techs
  BY DEF Plans
<1> QED
  BY <1>1, LegsOK DEF Leg

LEMMA DispatchType ==
  ASSUME BoardTypeOK, NEW w \in Desks, Dispatch(w)
  PROVE  BoardTypeOK'
<1>1. PICK f \in Plans :
        LET seats == {i \in Tickets : \E p \in LegIds : <<i, p>> \in Queue /\ f[<<i, p>>] # Nobody}
        IN  IF seats = {} THEN Leaves(w)
            ELSE desk' = [desk EXCEPT ![w] =
                   [Rested EXCEPT !.pc = "seat", !.todo = seats,
                                  !.legs = [i \in Tickets |-> IF i \in seats THEN Seated(i, f)
                                                              ELSE NoLegs]]]
  BY DEF Dispatch
<1> DEFINE seats == {i \in Tickets : \E p \in LegIds : <<i, p>> \in Queue /\ f[<<i, p>>] # Nobody}
           legs  == [i \in Tickets |-> IF i \in seats THEN Seated(i, f) ELSE NoLegs]
<1>2. legs \in [Tickets -> Board]
  BY SeatedOK, NoLegsOK
<1>3. seats \in SUBSET Tickets
  OBVIOUS
<1> HIDE DEF seats, legs
<1>4. [Rested EXCEPT !.pc = "seat", !.todo = seats, !.legs = legs] \in Request
  BY <1>2, <1>3, RestedOK DEF Request, Board, Doings, Holding
<1>5. desk' \in [Desks -> Request]
  BY <1>1, <1>4, LeavesOK DEF BoardTypeOK, seats, legs
<1> QED
  BY <1>5 DEF Dispatch, BoardTypeOK, AnyOf

LEMMA PutTicketType ==
  ASSUME BoardTypeOK, NEW w \in Desks, PutTicket(w)
  PROVE  BoardTypeOK'
<1>1. PICK i \in desk[w].todo :
        LET legs  == desk[w].legs[i]
            rest  == desk[w].todo \ {i}
            kept  == {x \in byHand : x[1] # i \/ x \in Serves(i, legs)}
            fresh == Serves(i, legs) \ Serves(i, ticket[i].legs)
        IN  /\ ticket' = WriteItems(i, legs)
            /\ byHand' = IF DeskAt(w, "seat") THEN kept \ fresh
                         ELSE kept \cup Renewed(i, legs) \cup (IF OnFloor(i) THEN fresh ELSE Serves(i, legs))
            /\ passed' = (IF DeskAt(w, "pass") THEN passed \cup Taken(i, legs) ELSE passed)
                           \ Gone(i, legs)
            /\ IF rest # {}
               THEN desk' = [desk EXCEPT ![w] =
                               [pc |-> @.pc, ticket |-> @.ticket, todo |-> rest,
                                legs |-> [desk[w].legs EXCEPT ![i] = NoLegs]]]
               ELSE IF desk[w].pc \in {"seat", "restore"} THEN Leaves(w) ELSE Settles(w)
  BY DEF PutTicket
<1> DEFINE legs == desk[w].legs[i]  rest == desk[w].todo \ {i}
<1>2. i \in Tickets /\ desk \in [Desks -> Request] /\ desk[w] \in Request
  BY DEF BoardTypeOK, Request
<1>3. legs \in Board /\ ticket[i].legs \in Board
  BY <1>2, LegsOK DEF Request, Board
<1>4. ticket' \in [Tickets -> Ticket]
  BY <1>1, <1>2, <1>3, WriteItemsOK
<1>5. byHand' \subseteq Tickets \X LegIds \X AnyOf
  BY <1>1, <1>2, <1>3, ServesOK DEF BoardTypeOK, Renewed
<1>6. Taken(i, legs) \subseteq Tickets \X LegIds \X AnyOf
  BY <1>2, <1>3 DEF Taken, Board, Leg, AnyOf
<1>7. passed' \subseteq Tickets \X LegIds \X AnyOf
  BY <1>1, <1>6 DEF BoardTypeOK
<1>8. desk' \in [Desks -> Request]
  <2>1. CASE rest # {}
    <3>1. [desk[w].legs EXCEPT ![i] = NoLegs] \in [Tickets -> Board]
      BY <1>2, NoLegsOK DEF Request, Board
    <3>2. [pc |-> desk[w].pc, ticket |-> desk[w].ticket, todo |-> rest,
           legs |-> [desk[w].legs EXCEPT ![i] = NoLegs]] \in Request
      BY <1>2, <3>1 DEF Request, Board
    <3> QED
      BY <1>1, <1>2, <2>1, <3>2
  <2>2. CASE rest = {}
    BY <1>1, <1>2, <2>2, LeavesOK, SettlesOK
  <2> QED
    BY <2>1, <2>2
<1> QED
  BY <1>4, <1>5, <1>7, <1>8 DEF PutTicket, BoardTypeOK

\* Changes of legs under the lock.
LEMMA PartsType ==
  ASSUME BoardTypeOK, NEW w \in Desks, NEW i \in Tickets, NEW p \in LegIds,
         DoneLeg(w, i, p) \/ SkipLeg(w, i, p) \/ RemoveService(w, i, p)
  PROVE  BoardTypeOK'
<1> DEFINE leg == ticket[i].legs[p]
<1>0. leg \in Leg
  BY LegsOK
<1>1. CASE DoneLeg(w, i, p)
  <2>1. [leg EXCEPT !.status = "DONE"] \in Leg
    BY <1>0 DEF Leg
  <2> QED
    BY <1>1, <2>1, PatchLegOK, ChangeOK DEF DoneLeg
<1>2. CASE SkipLeg(w, i, p)
  <2>1. [leg EXCEPT !.status = "WAITING", !.tech = Nobody, !.pinned = FALSE,
                    !.skipped = @ \cup {leg.tech}] \in Leg
    BY <1>0, <1>2 DEF Leg, SkipLeg
  <2> QED
    BY <1>2, <2>1, PatchLegOK, ChangeOK DEF SkipLeg
<1>3. CASE RemoveService(w, i, p)
  BY <1>3, NoLegsOK, PatchLegOK, ChangeOK DEF RemoveService
<1> QED
  BY <1>1, <1>2, <1>3

LEMMA GivenType ==
  ASSUME BoardTypeOK, NEW w \in Desks, NEW i \in Tickets, NEW p \in LegIds, NEW s \in AnyOf,
         NEW start \in BOOLEAN, AssignLeg(w, i, p, s, start) \/ HandLeg(w, i, p, s)
  PROVE  BoardTypeOK'
<1> DEFINE leg == ticket[i].legs[p]
<1>0. leg \in Leg
  BY LegsOK
<1>1. CASE AssignLeg(w, i, p, s, start)
  <2> DEFINE status == IF leg.status = "DONE" THEN "DONE"
                       ELSE IF s = Nobody THEN "WAITING"
                       ELSE IF start THEN "SERVING" ELSE leg.status
  <2>1. [leg EXCEPT !.status = status, !.tech = s, !.pinned = (s # Nobody)] \in Leg
    BY <1>0 DEF Leg, AnyOf
  <2> QED
    BY <1>1, <2>1, PatchLegOK, ChangeOK DEF AssignLeg
<1>2. CASE HandLeg(w, i, p, s)
  <2>1. [leg EXCEPT !.tech = s, !.pinned = (s # Nobody)] \in Leg
    BY <1>0 DEF Leg, AnyOf
  <2> QED
    BY <1>2, <2>1, PatchLegOK, ChangeOK DEF HandLeg
<1> QED
  BY <1>1, <1>2

LEMMA DoneTicketType ==
  ASSUME BoardTypeOK, NEW w \in Desks, NEW i \in Tickets, DoneTicket(w, i)
  PROVE  BoardTypeOK'
<1> DEFINE legs == [p \in LegIds |->
                     IF p \in Present(i) THEN [ticket[i].legs[p] EXCEPT !.status = "DONE"]
                     ELSE ticket[i].legs[p]]
<1>1. \A p \in LegIds : [ticket[i].legs[p] EXCEPT !.status = "DONE"] \in Leg
  BY LegsOK DEF Leg
<1>2. legs \in Board
  BY <1>1, LegsOK DEF Board
<1> QED
  BY <1>2, ChangeOK DEF DoneTicket

LEMMA FollowBookingType ==
  ASSUME BoardTypeOK, NEW w \in Desks, NEW i \in Tickets, NEW from \in AnyOf, NEW to \in Techs,
         FollowBooking(w, i, from, to)
  PROVE  BoardTypeOK'
<1>1. PICK moved :
        Change(w, i, "change",
               [p \in LegIds |-> IF p \in moved
                                 THEN [ticket[i].legs[p] EXCEPT !.tech = to, !.pinned = TRUE]
                                 ELSE ticket[i].legs[p]])
  BY DEF FollowBooking
<1> DEFINE legs == [p \in LegIds |-> IF p \in moved
                                     THEN [ticket[i].legs[p] EXCEPT !.tech = to, !.pinned = TRUE]
                                     ELSE ticket[i].legs[p]]
<1>2. \A p \in LegIds : [ticket[i].legs[p] EXCEPT !.tech = to, !.pinned = TRUE] \in Leg
  BY LegsOK, TechsAssumption DEF Leg
<1>3. legs \in Board
  BY <1>2, LegsOK DEF Board
<1> QED
  BY <1>1, <1>3, ChangeOK

LEMMA AddServiceType ==
  ASSUME BoardTypeOK, NEW w \in Desks, NEW i \in Tickets, NEW zone \in Zones, NEW s \in AnyOf,
         AddService(w, i, zone, s)
  PROVE  BoardTypeOK'
<1> DEFINE legs == ticket[i].legs
<1>1. \/ Change(w, i, "change", legs)
      \/ \E p \in LegIds :
           Change(w, i, "change",
                  PatchLeg(i, p, [legs[p] EXCEPT !.tech = IF @ = Nobody THEN s ELSE @]))
      \/ \E p \in LegIds :
           Change(w, i, "change",
                  PatchLeg(i, p, [NoLeg EXCEPT !.status = "WAITING", !.zone = zone,
                                               !.tech = s, !.pinned = (s # Nobody)]))
  BY DEF AddService, Present
<1>2. \A p \in LegIds : [legs[p] EXCEPT !.tech = IF @ = Nobody THEN s ELSE @] \in Leg
  BY LegsOK DEF Leg, AnyOf
<1>3. [NoLeg EXCEPT !.status = "WAITING", !.zone = zone,
                    !.tech = s, !.pinned = (s # Nobody)] \in Leg
  BY DEF NoLeg, Leg, AnyOf
<1>4. legs \in Board
  BY LegsOK
<1> QED
  BY <1>1, <1>2, <1>3, <1>4, PatchLegOK, ChangeOK

\* Undo of Done, which reads before it locks.
LEMMA ReactivateType ==
  ASSUME BoardTypeOK, NEW w \in Desks,
         (\E i \in Tickets, p \in LegIds : ReadDone(w, i, p)) \/ Reactivate(w)
  PROVE  BoardTypeOK'
<1>1. CASE Reactivate(w)
  <2>1. desk \in [Desks -> Request] /\ desk[w] \in Request
    BY DEF BoardTypeOK
  <2>2. [desk[w] EXCEPT !.pc = "restore"] \in Request
    BY <2>1 DEF Request, Doings, Holding
  <2>3. desk' \in [Desks -> Request]
    BY <1>1, <2>1, <2>2 DEF Reactivate
  <2> QED
    BY <1>1, <2>3 DEF Reactivate, BoardTypeOK
<1>2. CASE \E i \in Tickets, p \in LegIds : ReadDone(w, i, p)
  <2>1. PICK i \in Tickets, p \in LegIds : ReadDone(w, i, p)
    BY <1>2
  <2> DEFINE done == {q \in Present(i) : ticket[i].legs[q].status = "DONE"}
             legs == IF done = {} THEN ticket[i].legs
                     ELSE PatchLeg(i, p, [ticket[i].legs[p] EXCEPT !.status = "SERVING"])
  <2>2. [ticket[i].legs[p] EXCEPT !.status = "SERVING"] \in Leg
    BY LegsOK DEF Leg
  <2>3. legs \in Board
    BY <2>2, LegsOK, PatchLegOK
  <2>4. "reactivate" \in Doings
    BY DEF Doings
  <2>5. Writes("reactivate", i, legs) \in Request
    BY <2>3, <2>4, WritesOK
  <2>6. desk' \in [Desks -> Request]
    BY <2>1, <2>5 DEF ReadDone, BoardTypeOK
  <2> QED
    BY <2>1, <2>6 DEF ReadDone, BoardTypeOK
<1> QED
  BY <1>1, <1>2

\* New tickets.
LEMMA ArrivalType ==
  ASSUME BoardTypeOK, NEW w \in Desks, NEW i \in Tickets, NEW zones \in Visits, NEW s \in AnyOf,
         AddWalkIn(w, i, zones, s) \/ CheckIn(w, i, zones, s)
  PROVE  BoardTypeOK'
<1>0. NewLegs(zones, s) \in Board
  BY NewLegsOK
<1>1. CASE AddWalkIn(w, i, zones, s)
  <2>1. 2 * i \in Nat
    BY FloorAssumption
  <2>2. [NoTicket EXCEPT !.status = "WAITING", !.place = 2 * i, !.legs = NewLegs(zones, s)] \in Ticket
    BY <1>0, <2>1, NoTicketOK DEF Ticket, Board
  <2>3. ticket' \in [Tickets -> Ticket]
    BY <1>1, <2>2 DEF AddWalkIn, BoardTypeOK
  <2>4. desk \in [Desks -> Request] /\ "link" \in Doings
    BY DEF BoardTypeOK, Doings
  <2>5. desk' \in [Desks -> Request]
    BY <1>1, <2>4, GoesOK, SettlesOK, LeavesOK DEF AddWalkIn
  <2> QED
    BY <1>1, <2>3, <2>5 DEF AddWalkIn, BoardTypeOK, AnyOf
<1>2. CASE CheckIn(w, i, zones, s)
  <2>1. PICK k \in Tickets :
          ticket' = [ticket EXCEPT ![i] =
            [NoTicket EXCEPT !.status = IF s = Nobody THEN "WAITING" ELSE "SERVING",
                             !.booked = TRUE, !.place = 2 * k - 1,
                             !.legs = [NewLegs(zones, s) EXCEPT
                                         ![1].status = IF s = Nobody THEN @ ELSE "SERVING"]]]
    BY <1>2 DEF CheckIn
  <2> DEFINE first == NewLegs(zones, s)
             legs  == [first EXCEPT ![1].status = IF s = Nobody THEN @ ELSE "SERVING"]
  <2>2. 2 * k - 1 \in Nat
    BY FloorAssumption
  <2>3. legs \in Board
    <3> HIDE DEF first
    <3>1. first \in Board
      BY <1>0 DEF first
    <3>2. 1 \in LegIds => [first[1] EXCEPT !.status = IF s = Nobody THEN @ ELSE "SERVING"] \in Leg
      BY <3>1 DEF Board, Leg
    <3> QED
      BY <3>1, <3>2 DEF Board
  <2> HIDE DEF legs
  <2>4. [NoTicket EXCEPT !.status = IF s = Nobody THEN "WAITING" ELSE "SERVING",
                         !.booked = TRUE, !.place = 2 * k - 1, !.legs = legs] \in Ticket
    BY <2>2, <2>3, NoTicketOK DEF Ticket, Board
  <2>5. ticket' \in [Tickets -> Ticket]
    BY <2>1, <2>4 DEF BoardTypeOK, legs
  <2>6. desk' \in [Desks -> Request]
    BY <1>2, SettlesOK DEF CheckIn, BoardTypeOK
  <2>7. byHand' \subseteq Tickets \X LegIds \X AnyOf
    <3>1. CASE s = Nobody
      BY <1>2, <3>1 DEF CheckIn, BoardTypeOK
    <3>2. CASE s # Nobody
      <4>1. byHand' = byHand \cup {<<i, 1, s>>}
        BY <1>2, <3>2 DEF CheckIn
      <4>2. <<i, 1, s>> \in Tickets \X LegIds \X AnyOf
        BY FloorAssumption
      <4> QED
        BY <4>1, <4>2 DEF BoardTypeOK, AnyOf
    <3> QED
      BY <3>1, <3>2
  <2> QED
    BY <1>2, <2>5, <2>6, <2>7 DEF CheckIn, BoardTypeOK, AnyOf
<1> QED
  BY <1>1, <1>2

LEMMA PairType ==
  ASSUME BoardTypeOK, NEW w \in Desks, LinkBooking(w) \/ PairBooking(w) \/ BeginCheckIn(w)
  PROVE  BoardTypeOK'
<1>0. /\ desk \in [Desks -> Request] /\ desk[w].ticket \in Tickets \cup {0}
      /\ {"pair", "checkIn"} \subseteq Doings
  BY DEF BoardTypeOK, Request, Doings
<1>1. desk' \in [Desks -> Request]
  BY <1>0, GoesOK, SettlesOK DEF LinkBooking, PairBooking, BeginCheckIn
<1>2. ticket' \in [Tickets -> Ticket]
  <2>1. CASE PairBooking(w)
    <3>1. [ticket EXCEPT ![desk[w].ticket].booked = TRUE] \in [Tickets -> Ticket]
      BY DEF BoardTypeOK, Ticket
    <3> QED
      BY <2>1, <3>1 DEF PairBooking, BoardTypeOK
  <2>2. CASE LinkBooking(w) \/ BeginCheckIn(w)
    BY <2>2 DEF LinkBooking, BeginCheckIn, BoardTypeOK
  <2> QED
    BY <2>1, <2>2
<1> QED
  BY <1>1, <1>2 DEF LinkBooking, PairBooking, BeginCheckIn, BoardTypeOK, AnyOf

-----------------------------------------------------------------------------
\* What does not take the lock: one field or two of a ticket, then the dispatcher or nothing.
LEMMA PayingOK ==
  ASSUME BoardTypeOK, NEW i \in Tickets
  PROVE  /\ [ticket EXCEPT ![i].paying = TRUE] \in [Tickets -> Ticket]
         /\ [ticket EXCEPT ![i].paying = FALSE] \in [Tickets -> Ticket]
BY DEF BoardTypeOK, Ticket

LEMMA ClosedOK ==
  ASSUME BoardTypeOK, NEW i \in Tickets, NEW status \in {"DONE", "CANCELLED"}
  PROVE  /\ [ticket EXCEPT ![i].status = status] \in [Tickets -> Ticket]
         /\ [ticket EXCEPT ![i].status = status, ![i].billed = TRUE] \in [Tickets -> Ticket]
BY ZenonT(30) DEF BoardTypeOK, Ticket

LEMMA TillType ==
  ASSUME BoardTypeOK, NEW w \in Desks, NEW i \in Tickets, WaitPayment(w, i) \/ Checkout(w, i)
  PROVE  BoardTypeOK'
<1>1. ticket' \in [Tickets -> Ticket]
  <2>1. CASE WaitPayment(w, i)
    BY <2>1, PayingOK DEF WaitPayment
  <2>2. CASE Checkout(w, i)
    BY <2>2, ClosedOK DEF Checkout
  <2> QED
    BY <2>1, <2>2
<1>2. desk' \in [Desks -> Request]
  BY SettlesOK DEF WaitPayment, Checkout, BoardTypeOK
<1> QED
  BY <1>1, <1>2 DEF WaitPayment, Checkout, BoardTypeOK, AnyOf

LEMMA BeginEndType ==
  ASSUME BoardTypeOK, NEW w \in Desks, NEW i \in Tickets,
         BeginCancelTicket(w, i) \/ BeginDeleteTicket(w, i)
  PROVE  BoardTypeOK'
<1>1. desk \in [Desks -> Request] /\ {"cancel", "cancelServing", "delete"} \subseteq Doings
  BY DEF BoardTypeOK, Doings
<1>2. desk' \in [Desks -> Request]
  BY <1>1, GoesOK DEF BeginCancelTicket, BeginDeleteTicket
<1> QED
  BY <1>2 DEF BeginCancelTicket, BeginDeleteTicket, BoardTypeOK, AnyOf

LEMMA CancelTicketType ==
  ASSUME BoardTypeOK, NEW w \in Desks, CancelTicket(w) \/ DeleteTicket(w)
  PROVE  BoardTypeOK'
<1>0. desk \in [Desks -> Request] /\ ticket \in [Tickets -> Ticket]
  BY DEF BoardTypeOK
<1>1. desk' \in [Desks -> Request]
  BY <1>0, SettlesOK, LeavesOK DEF CancelTicket, DeleteTicket
<1>2. ticket' \in [Tickets -> Ticket]
  <2>1. CASE DeleteTicket(w)
    <3>1. [NoTicket EXCEPT !.status = "deleted"] \in Ticket
      BY NoTicketOK DEF Ticket
    <3> QED
      BY <1>0, <2>1, <3>1 DEF DeleteTicket
  <2>2. CASE CancelTicket(w)
    <3>1. [ticket EXCEPT ![desk[w].ticket].status = "CANCELLED"] \in [Tickets -> Ticket]
      BY <1>0 DEF Ticket
    <3> QED
      BY <1>0, <2>2, <3>1 DEF CancelTicket
  <2> QED
    BY <2>1, <2>2
<1> QED
  BY <1>1, <1>2 DEF CancelTicket, DeleteTicket, BoardTypeOK, AnyOf

LEMMA MoveType ==
  ASSUME BoardTypeOK, NEW i \in Tickets, NoShow(i) \/ MoveToStation(i) \/ CloseUnpaid(i)
  PROVE  BoardTypeOK'
<1>1. ticket' \in [Tickets -> Ticket]
  <2>1. CASE MoveToStation(i)
    BY <2>1, PayingOK DEF MoveToStation
  <2>2. CASE NoShow(i)
    BY <2>2, ClosedOK DEF NoShow
  <2>3. CASE CloseUnpaid(i)
    BY <2>3, ClosedOK DEF CloseUnpaid
  <2> QED
    BY <2>1, <2>2, <2>3
<1>2. {<<i, p, ticket[i].legs[p].tech>> : p \in Serving(i)} \subseteq Tickets \X LegIds \X AnyOf
  BY LegsOK DEF Serving, Present, Leg, AnyOf
<1>3. byHand' \subseteq Tickets \X LegIds \X AnyOf
  BY <1>2 DEF NoShow, MoveToStation, CloseUnpaid, BoardTypeOK
<1> QED
  BY <1>1, <1>3 DEF NoShow, MoveToStation, CloseUnpaid, BoardTypeOK, AnyOf

LEMMA BreakType ==
  ASSUME BoardTypeOK, NEW w \in Desks, NEW s \in Techs, StartBreak(s) \/ EndBreak(w, s)
  PROVE  BoardTypeOK'
<1>1. desk' \in [Desks -> Request]
  BY SettlesOK DEF StartBreak, EndBreak, BoardTypeOK
<1> QED
  BY <1>1 DEF StartBreak, EndBreak, BoardTypeOK, AnyOf

LEMMA HousekeepingType ==
  ASSUME BoardTypeOK, (\E i \in Tickets : SeeStale(i)) \/ ParkStale \/ RestartFloor
  PROVE  BoardTypeOK'
<1>0. desk \in [Desks -> Request] /\ ticket \in [Tickets -> Ticket] /\ "park" \in Doings
  BY DEF BoardTypeOK, Doings
<1>1. desk' \in [Desks -> Request]
  BY <1>0, GoesOK, SettlesOK, RestedOK, FloorAssumption DEF SeeStale, ParkStale, RestartFloor
<1>2. ticket' \in [Tickets -> Ticket]
  <2>1. CASE ParkStale
    <3>1. [ticket EXCEPT ![desk[Keeper].ticket].paying = TRUE] \in [Tickets -> Ticket]
      BY <1>0 DEF Ticket
    <3> QED
      BY <1>0, <2>1, <3>1 DEF ParkStale
  <2>2. CASE (\E i \in Tickets : SeeStale(i)) \/ RestartFloor
    BY <1>0, <2>2 DEF SeeStale, RestartFloor
  <2> QED
    BY <2>1, <2>2
<1> QED
  BY <1>1, <1>2 DEF SeeStale, ParkStale, RestartFloor, BoardTypeOK, AnyOf

-----------------------------------------------------------------------------
LEMMA FloorTypeNext == BoardTypeOK /\ [FloorNext]_floorVars => BoardTypeOK'
<1> SUFFICES ASSUME BoardTypeOK, [FloorNext]_floorVars PROVE BoardTypeOK'
  OBVIOUS
<1>1. ASSUME NEW w \in Desks, DeskStep(w) PROVE BoardTypeOK'
  BY <1>1, DispatchType, PutTicketType, ReactivateType, PairType, CancelTicketType, ArrivalType
     DEF DeskStep
<1>2. ASSUME NEW w \in Desks, DeskAsks(w) PROVE BoardTypeOK'
  <2>1. ASSUME NEW i \in Tickets, NEW zones \in Visits, NEW s \in AnyOf, AddWalkIn(w, i, zones, s)
        PROVE  BoardTypeOK'
    BY <2>1, ArrivalType
  <2>2. ASSUME NEW i \in Tickets, NEW p \in LegIds,
               DoneLeg(w, i, p) \/ SkipLeg(w, i, p) \/ RemoveService(w, i, p) \/ ReadDone(w, i, p)
        PROVE  BoardTypeOK'
    BY <2>2, PartsType, ReactivateType
  <2>3. ASSUME NEW i \in Tickets, NEW p \in LegIds, NEW s \in AnyOf,
               AssignLeg(w, i, p, s, TRUE) \/ AssignLeg(w, i, p, s, FALSE) \/ HandLeg(w, i, p, s)
        PROVE  BoardTypeOK'
    BY <2>3, GivenType
  <2>4. ASSUME NEW i \in Tickets, NEW zone \in Zones, NEW s \in AnyOf, AddService(w, i, zone, s)
        PROVE  BoardTypeOK'
    BY <2>4, AddServiceType
  <2>5. ASSUME NEW i \in Tickets, NEW from \in AnyOf, NEW to \in Techs,
               FollowBooking(w, i, from, to)
        PROVE  BoardTypeOK'
    BY <2>5, FollowBookingType
  <2>6. ASSUME NEW i \in Tickets,
               \/ DoneTicket(w, i) \/ WaitPayment(w, i) \/ Checkout(w, i)
               \/ BeginCancelTicket(w, i) \/ BeginDeleteTicket(w, i)
        PROVE  BoardTypeOK'
    BY <2>6, DoneTicketType, TillType, BeginEndType
  <2>7. ASSUME NEW s \in Techs, EndBreak(w, s) PROVE BoardTypeOK'
    BY <2>7, BreakType
  <2>8. ASSUME BeginCheckIn(w) PROVE BoardTypeOK'
    BY <2>8, PairType
  <2> QED
    BY <1>2, <2>1, <2>2, <2>3, <2>4, <2>5, <2>6, <2>7, <2>8 DEF DeskAsks
<1>3. ASSUME NEW i \in Tickets, NoShow(i) \/ MoveToStation(i) \/ SeeStale(i) \/ CloseUnpaid(i)
      PROVE  BoardTypeOK'
  BY <1>3, MoveType, HousekeepingType
<1>4. ASSUME NEW s \in Techs, StartBreak(s) PROVE BoardTypeOK'
  BY <1>4, BreakType, FloorAssumption
<1>5. ASSUME ParkStale \/ RestartFloor PROVE BoardTypeOK'
  BY <1>5, HousekeepingType
<1>6. CASE UNCHANGED floorVars
  BY <1>6 DEF floorVars, BoardTypeOK, AnyOf
<1> QED
  BY <1>1, <1>2, <1>3, <1>4, <1>5, <1>6 DEF FloorNext

\* Rows, parts and requests have the shape the code gives them; no part is ever pinned to
\* nobody, which the dispatcher would leave waiting for ever (planDispatch).
THEOREM BoardTypeCorrect == FloorSpec => []BoardTypeOK
BY FloorTypeInit, FloorTypeNext, PTL DEF FloorSpec

-----------------------------------------------------------------------------
\* A part passed on.  Between the read of a change and its write the parts of the visit
\* stay as they were read: one request holds the lock, and what does not take it leaves
\* parts alone, or deletes the ticket.

OneHolder ==
  \A v, w \in Desks : desk[v].pc \in Holding /\ desk[w].pc \in Holding => v = w

NoUndo == \A w \in Desks : desk[w].pc \notin {"reactivate", "restore"}

Empty == {"none", "deleted"}

PartsOK ==
  \A i \in Tickets : /\ ticket[i].status \in Empty => ticket[i].legs = NoLegs
                     /\ \A p \in LegIds : ticket[i].legs[p].status = "none"
                                            => ticket[i].legs[p].skipped = {}

PassedIsSkipped ==
  \A i \in Tickets, p \in LegIds, s \in AnyOf :
    <<i, p, s>> \in passed =>
      ticket[i].status = "deleted" \/ s \in ticket[i].legs[p].skipped

\* Who passed a part on and is at it all the same was asked for, or put there.
Anyway(i, p) ==
  LET leg == ticket[i].legs[p]
  IN  leg.status = "SERVING" /\ leg.tech \in leg.skipped
        => leg.pinned \/ <<i, p, leg.tech>> \in byHand

AtItAnyway == \A i \in Tickets, p \in LegIds : Anyway(i, p)

SameHands(old, new) == old.status = "SERVING" /\ old.tech = new.tech

\* What a write does to a part.
WriteKeeps(pc, old, new) ==
  /\ IF new.status = "none" THEN new.skipped = {} ELSE old.skipped \subseteq new.skipped
  /\ pc = "pass" /\ new.tech # old.tech => old.tech \in new.skipped
  /\ (new.status = "SERVING" /\ new.tech \in new.skipped) =>
       \/ new.pinned
       \/ pc # "seat" /\ ~SameHands(old, new)
       \/ SameHands(old, new) /\ old.tech \in old.skipped /\ ~old.pinned

WritesKeep ==
  \A w \in Desks : \A i \in desk[w].todo :
    desk[w].pc \in Holding =>
      /\ ticket[i].status # "none"
      /\ ticket[i].status # "deleted" =>
           \A p \in LegIds : WriteKeeps(desk[w].pc, ticket[i].legs[p], desk[w].legs[i][p])

BackInv ==
  /\ BoardTypeOK /\ OneHolder
  /\ "reactivate" \notin floorMay =>
       NoUndo /\ PartsOK /\ PassedIsSkipped /\ AtItAnyway /\ WritesKeep

\* About to write, or holding what it read for it.
Restless == Holding \cup {"reactivate", "restore"}

\* Steps that leave the parts alone and start no write.
Quiet ==
  /\ floorMay' = floorMay /\ passed' = passed /\ byHand \subseteq byHand'
  /\ \A i \in Tickets : /\ ticket'[i].legs = ticket[i].legs
                        /\ ticket[i].status \in Empty \/ ticket'[i].status \in Empty
                             => ticket'[i].status = ticket[i].status
  /\ \A w \in Desks : desk'[w] = desk[w] \/ desk'[w].pc \notin Restless

LEMMA QuietBack ==
  ASSUME BackInv, BoardTypeOK', Quiet
  PROVE  BackInv'
<1>1. OneHolder'
  BY DEF Quiet, BackInv, OneHolder, Restless
<1> SUFFICES ASSUME "reactivate" \notin floorMay
             PROVE  NoUndo' /\ PartsOK' /\ PassedIsSkipped' /\ AtItAnyway' /\ WritesKeep'
  BY <1>1 DEF BackInv, Quiet
<1>2. NoUndo'
  BY DEF Quiet, BackInv, NoUndo, Restless
<1>3. PartsOK'
  BY DEF Quiet, BackInv, PartsOK
<1>4. PassedIsSkipped'
  BY DEF Quiet, BackInv, PassedIsSkipped, Empty, AnyOf
<1>5. AtItAnyway'
  BY DEF Quiet, BackInv, AtItAnyway, Anyway
<1>6. WritesKeep'
  <2> SUFFICES ASSUME NEW w \in Desks, NEW i \in desk'[w].todo, desk'[w].pc \in Holding
               PROVE  /\ ticket'[i].status # "none"
                      /\ ticket'[i].status # "deleted" =>
                           \A p \in LegIds : WriteKeeps(desk'[w].pc, ticket'[i].legs[p], desk'[w].legs[i][p])
    BY DEF WritesKeep
  <2>1. desk'[w] = desk[w]
    BY DEF Quiet, Restless
  <2>2. i \in Tickets
    BY <2>1 DEF BackInv, BoardTypeOK, Request
  <2> QED
    BY <2>1, <2>2 DEF Quiet, BackInv, WritesKeep, Empty
<1> QED
  BY <1>2, <1>3, <1>4, <1>5, <1>6

LEMMA DeskQuiet ==
  ASSUME BoardTypeOK, NEW w \in Desks, NEW pc \in Doings \ Restless, NEW i,
         Goes(w, pc, i) \/ Settles(w) \/ Leaves(w)
  PROVE  \A v \in Desks : desk'[v] = desk[v] \/ desk'[v].pc \notin Restless
<1>1. ASSUME NEW to, NEW j, to \notin Restless, Goes(w, to, j)
      PROVE  \A v \in Desks : desk'[v] = desk[v] \/ desk'[v].pc \notin Restless
  <2> DEFINE new == [Rested EXCEPT !.pc = to, !.ticket = j]
  <2>1. new.pc = to
    BY DEF Rested
  <2>2. desk' = [desk EXCEPT ![w] = new]
    BY <1>1 DEF Goes
  <2> HIDE DEF new
  <2> QED
    BY <1>1, <2>1, <2>2 DEF BoardTypeOK
<1>2. CASE Goes(w, pc, i)
  BY <1>1, <1>2
<1>3. CASE Settles(w)
  BY <1>1, <1>3 DEF Settles, Restless, Holding
<1>4. CASE Leaves(w)
  <2>1. Rested.pc \notin Restless
    BY DEF Rested, Restless, Holding
  <2> QED
    BY <1>4, <2>1 DEF Leaves, BoardTypeOK
<1> QED
  BY <1>2, <1>3, <1>4

\* The till, cancelling, breaks, linking, housekeeping.
LEMMA TillBack ==
  ASSUME BackInv, BoardTypeOK', NEW w \in Desks, NEW i \in Tickets,
         \/ WaitPayment(w, i) \/ Checkout(w, i) \/ BeginCancelTicket(w, i)
         \/ BeginDeleteTicket(w, i)
  PROVE  BackInv'
<1>1. \A v \in Desks : desk'[v] = desk[v] \/ desk'[v].pc \notin Restless
  BY DeskQuiet DEF BackInv, WaitPayment, Checkout, BeginCancelTicket, BeginDeleteTicket,
                   Restless, Holding, Doings
<1>2. \A j \in Tickets : /\ ticket'[j].legs = ticket[j].legs
                         /\ ticket[j].status \in Empty \/ ticket'[j].status \in Empty
                              => ticket'[j].status = ticket[j].status
  BY DEF BackInv, BoardTypeOK, Ticket, WaitPayment, Checkout, BeginCancelTicket, BeginDeleteTicket,
         Empty, Exists
<1> QED
  BY <1>1, <1>2, QuietBack DEF Quiet, Restless, WaitPayment, Checkout, BeginCancelTicket,
                               BeginDeleteTicket

LEMMA CancelBack ==
  ASSUME BackInv, BoardTypeOK', NEW w \in Desks,
         CancelTicket(w) \/ LinkBooking(w) \/ PairBooking(w) \/ BeginCheckIn(w)
  PROVE  BackInv'
<1>1. \A v \in Desks : desk'[v] = desk[v] \/ desk'[v].pc \notin Restless
  BY DeskQuiet DEF BackInv, CancelTicket, LinkBooking, PairBooking, BeginCheckIn, Restless,
                   Holding, Doings
<1>2. \A j \in Tickets : /\ ticket'[j].legs = ticket[j].legs
                         /\ ticket[j].status \in Empty \/ ticket'[j].status \in Empty
                              => ticket'[j].status = ticket[j].status
  BY DEF BackInv, BoardTypeOK, Ticket, CancelTicket, LinkBooking, PairBooking, BeginCheckIn,
         Empty, Exists
<1> QED
  BY <1>1, <1>2, QuietBack DEF Quiet, Restless, CancelTicket, LinkBooking, PairBooking,
                               BeginCheckIn

LEMMA AloneBack ==
  ASSUME BackInv, BoardTypeOK', NEW i \in Tickets,
         NoShow(i) \/ MoveToStation(i) \/ CloseUnpaid(i)
  PROVE  BackInv'
<1>1. \A j \in Tickets : /\ ticket'[j].legs = ticket[j].legs
                         /\ ticket[j].status \in Empty \/ ticket'[j].status \in Empty
                              => ticket'[j].status = ticket[j].status
  BY DEF BackInv, BoardTypeOK, Ticket, NoShow, MoveToStation, CloseUnpaid, Empty, Shown
<1> QED
  BY <1>1, QuietBack DEF Quiet, Restless, NoShow, MoveToStation, CloseUnpaid

LEMMA BreakBack ==
  ASSUME BackInv, BoardTypeOK', NEW w \in Desks, NEW s \in Techs, StartBreak(s) \/ EndBreak(w, s)
  PROVE  BackInv'
<1>1. \A v \in Desks : desk'[v] = desk[v] \/ desk'[v].pc \notin Restless
  <2>1. "settle" \in Doings \ Restless
    BY DEF Doings, Restless, Holding
  <2> QED
    BY <2>1, DeskQuiet DEF BackInv, StartBreak, EndBreak
<1> QED
  BY <1>1, QuietBack DEF Quiet, StartBreak, EndBreak

LEMMA KeepingBack ==
  ASSUME BackInv, BoardTypeOK', (\E i \in Tickets : SeeStale(i)) \/ ParkStale \/ RestartFloor
  PROVE  BackInv'
<1>1. \A v \in Desks : desk'[v] = desk[v] \/ desk'[v].pc \notin Restless
  <2>1. CASE RestartFloor
    BY <2>1 DEF RestartFloor, Rested, Restless, Holding
  <2>2. CASE (\E i \in Tickets : SeeStale(i)) \/ ParkStale
    <3>1. {"park", "settle"} \subseteq Doings \ Restless
      BY DEF Doings, Restless, Holding
    <3> QED
      BY <2>2, <3>1, DeskQuiet, FloorAssumption DEF BackInv, SeeStale, ParkStale
  <2> QED
    BY <2>1, <2>2
<1>2. \A j \in Tickets : /\ ticket'[j].legs = ticket[j].legs
                         /\ ticket[j].status \in Empty \/ ticket'[j].status \in Empty
                              => ticket'[j].status = ticket[j].status
  BY DEF BackInv, BoardTypeOK, Ticket, SeeStale, ParkStale, RestartFloor, Empty
<1> QED
  BY <1>1, <1>2, QuietBack DEF Quiet, Restless, SeeStale, ParkStale, RestartFloor

\* A change: read, and the write it is going to do.
LEMMA SameKeeps ==
  ASSUME BackInv, "reactivate" \notin floorMay, NEW i \in Tickets, NEW p \in LegIds, NEW pc
  PROVE  WriteKeeps(pc, ticket[i].legs[p], ticket[i].legs[p])
BY DEF BackInv, PartsOK, WriteKeeps, SameHands

LEMMA ChangeBack ==
  ASSUME BackInv, BoardTypeOK', NEW w \in Desks, NEW i \in Tickets, NEW pc \in {"change", "pass"},
         NEW legs \in Board, Change(w, i, pc, legs), ticket[i].status \notin Empty,
         "reactivate" \notin floorMay =>
           \A p \in LegIds : WriteKeeps(pc, ticket[i].legs[p], legs[p])
  PROVE  BackInv'
<1>1. desk' = [desk EXCEPT ![w] = Writes(pc, i, legs)] /\ LockFree
  BY DEF Change
<1>2. /\ Writes(pc, i, legs).pc = pc /\ Writes(pc, i, legs).todo = {i}
      /\ Writes(pc, i, legs).legs[i] = legs
  BY DEF Writes, Rested
<1>3. /\ desk'[w].pc = pc /\ desk'[w].todo = {i} /\ desk'[w].legs[i] = legs
      /\ \A v \in Desks : v # w => desk'[v] = desk[v] /\ desk'[v].pc \notin Holding
  BY <1>1, <1>2 DEF BackInv, BoardTypeOK, LockFree
<1>4. UNCHANGED <<ticket, byHand, passed, floorMay>>
  BY DEF Change
<1>5. OneHolder'
  BY <1>3 DEF OneHolder
<1> SUFFICES ASSUME "reactivate" \notin floorMay
             PROVE  NoUndo' /\ PartsOK' /\ PassedIsSkipped' /\ AtItAnyway' /\ WritesKeep'
  BY <1>4, <1>5 DEF BackInv
<1>6. NoUndo'
  BY <1>3 DEF BackInv, NoUndo
<1>7. PartsOK' /\ PassedIsSkipped' /\ AtItAnyway'
  BY <1>4 DEF BackInv, PartsOK, PassedIsSkipped, AtItAnyway, Anyway
<1>8. WritesKeep'
  BY <1>3, <1>4 DEF WritesKeep, Empty
<1> QED
  BY <1>6, <1>7, <1>8

LEMMA ShownOK ==
  ASSUME NEW i \in Tickets, Shown(i) PROVE ticket[i].status \notin Empty
BY DEF Shown, Empty

\* A write of one part.
LEMMA PatchBack ==
  ASSUME BackInv, BoardTypeOK', NEW w \in Desks, NEW i \in Tickets, NEW p \in LegIds,
         NEW pc \in {"change", "pass"}, NEW leg \in Leg,
         Change(w, i, pc, PatchLeg(i, p, leg)), Shown(i),
         "reactivate" \notin floorMay => WriteKeeps(pc, ticket[i].legs[p], leg)
  PROVE  BackInv'
<1> DEFINE legs == PatchLeg(i, p, leg)
<1>1. legs \in Board
  BY PatchLegOK DEF BackInv
<1>2. \A q \in LegIds : legs[q] = IF q = p THEN leg ELSE ticket[i].legs[q]
  BY LegsOK DEF BackInv, PatchLeg, Board
<1> HIDE DEF legs
<1>3. "reactivate" \notin floorMay =>
        \A q \in LegIds : WriteKeeps(pc, ticket[i].legs[q], legs[q])
  BY <1>2, SameKeeps
<1>4. Change(w, i, pc, legs)
  BY DEF legs
<1> QED
  BY <1>1, <1>3, <1>4, ShownOK, ChangeBack

LEMMA PartsBack ==
  ASSUME BackInv, BoardTypeOK', NEW w \in Desks, NEW i \in Tickets, NEW p \in LegIds,
         DoneLeg(w, i, p) \/ SkipLeg(w, i, p) \/ RemoveService(w, i, p)
  PROVE  BackInv'
<1> DEFINE leg == ticket[i].legs[p]
<1>0. leg \in Leg
  BY LegsOK DEF BackInv
<1>1. CASE DoneLeg(w, i, p)
  <2>1. [leg EXCEPT !.status = "DONE"] \in Leg
    BY <1>0 DEF Leg
  <2>2. WriteKeeps("change", leg, [leg EXCEPT !.status = "DONE"])
    BY <1>0 DEF Leg, WriteKeeps
  <2> QED
    BY <1>1, <2>1, <2>2, PatchBack DEF DoneLeg
<1>2. CASE SkipLeg(w, i, p)
  <2> DEFINE new == [leg EXCEPT !.status = "WAITING", !.tech = Nobody, !.pinned = FALSE,
                                !.skipped = @ \cup {leg.tech}]
  <2>1. new \in Leg
    BY <1>0, <1>2 DEF Leg, SkipLeg
  <2>2. WriteKeeps("pass", leg, new)
    BY <1>0 DEF Leg, WriteKeeps
  <2> QED
    BY <1>2, <2>1, <2>2, PatchBack DEF SkipLeg
<1>3. CASE RemoveService(w, i, p)
  <2>1. WriteKeeps("change", leg, NoLeg)
    BY DEF NoLeg, WriteKeeps
  <2> QED
    BY <1>3, <2>1, NoLegsOK, PatchBack DEF RemoveService
<1> QED
  BY <1>1, <1>2, <1>3

LEMMA GivenBack ==
  ASSUME BackInv, BoardTypeOK', NEW w \in Desks, NEW i \in Tickets, NEW p \in LegIds,
         NEW s \in AnyOf, NEW start \in BOOLEAN, AssignLeg(w, i, p, s, start) \/ HandLeg(w, i, p, s)
  PROVE  BackInv'
<1> DEFINE leg == ticket[i].legs[p]
<1>0. leg \in Leg /\ leg.status # "none"
  BY LegsOK DEF BackInv, AssignLeg, HandLeg, Present
<1>1. CASE AssignLeg(w, i, p, s, start)
  <2> DEFINE status == IF leg.status = "DONE" THEN "DONE"
                       ELSE IF s = Nobody THEN "WAITING"
                       ELSE IF start THEN "SERVING" ELSE leg.status
             new    == [leg EXCEPT !.status = status, !.tech = s, !.pinned = (s # Nobody)]
  <2>1. new \in Leg
    BY <1>0 DEF Leg, AnyOf
  <2>2. WriteKeeps("change", leg, new)
    BY <1>0 DEF Leg, WriteKeeps
  <2> QED
    BY <1>1, <2>1, <2>2, PatchBack DEF AssignLeg
<1>2. CASE HandLeg(w, i, p, s)
  <2> DEFINE new == [leg EXCEPT !.tech = s, !.pinned = (s # Nobody)]
  <2>1. new \in Leg
    BY <1>0 DEF Leg, AnyOf
  <2>2. WriteKeeps("change", leg, new)
    BY <1>0, <1>2 DEF Leg, WriteKeeps, SameHands, HandLeg
  <2> QED
    BY <1>2, <2>1, <2>2, PatchBack DEF HandLeg
<1> QED
  BY <1>1, <1>2

LEMMA DoneTicketBack ==
  ASSUME BackInv, BoardTypeOK', NEW w \in Desks, NEW i \in Tickets, DoneTicket(w, i)
  PROVE  BackInv'
<1> DEFINE legs == [p \in LegIds |->
                     IF p \in Present(i) THEN [ticket[i].legs[p] EXCEPT !.status = "DONE"]
                     ELSE ticket[i].legs[p]]
<1>1. \A p \in LegIds : [ticket[i].legs[p] EXCEPT !.status = "DONE"] \in Leg
  BY LegsOK DEF BackInv, Leg
<1>2. legs \in Board
  BY <1>1, LegsOK DEF BackInv, Board
<1>3. ASSUME "reactivate" \notin floorMay, NEW p \in LegIds
      PROVE  WriteKeeps("change", ticket[i].legs[p], legs[p])
  <2>1. WriteKeeps("change", ticket[i].legs[p], [ticket[i].legs[p] EXCEPT !.status = "DONE"])
    BY LegsOK DEF BackInv, WriteKeeps, Leg
  <2> QED
    BY <1>3, <2>1, SameKeeps
<1> HIDE DEF legs
<1>4. Change(w, i, "change", legs) /\ Shown(i)
  BY DEF DoneTicket, legs
<1> QED
  BY <1>2, <1>3, <1>4, ShownOK, ChangeBack

LEMMA HandedKeeps ==
  ASSUME BackInv, "reactivate" \notin floorMay, NEW i \in Tickets, NEW to \in Techs, NEW moved,
         \A p \in moved : p \in Present(i), NEW p \in LegIds
  PROVE  WriteKeeps("change", ticket[i].legs[p],
                    IF p \in moved THEN [ticket[i].legs[p] EXCEPT !.tech = to, !.pinned = TRUE]
                    ELSE ticket[i].legs[p])
<1>1. CASE p \in moved
  <2>1. ticket[i].legs[p].status # "none" /\ ticket[i].legs[p] \in Leg
    BY <1>1, LegsOK DEF BackInv, Present
  <2>2. WriteKeeps("change", ticket[i].legs[p],
                   [ticket[i].legs[p] EXCEPT !.tech = to, !.pinned = TRUE])
    BY <2>1 DEF WriteKeeps, Leg
  <2> QED
    BY <1>1, <2>2
<1>2. CASE p \notin moved
  BY <1>2, SameKeeps
<1> QED
  BY <1>1, <1>2

LEMMA FollowBookingBack ==
  ASSUME BackInv, BoardTypeOK', NEW w \in Desks, NEW i \in Tickets, NEW from \in AnyOf,
         NEW to \in Techs, FollowBooking(w, i, from, to)
  PROVE  BackInv'
<1>1. PICK moved :
        /\ \A p \in moved : p \in Present(i)
        /\ Change(w, i, "change",
                  [p \in LegIds |-> IF p \in moved
                                    THEN [ticket[i].legs[p] EXCEPT !.tech = to, !.pinned = TRUE]
                                    ELSE ticket[i].legs[p]])
  <2> DEFINE open  == {p \in Present(i) : /\ ticket[i].legs[p].status # "DONE"
                                          /\ ticket[i].legs[p].tech # to}
             hers  == {p \in open : from # Nobody /\ ticket[i].legs[p].tech = from}
             mine  == IF hers # {} THEN hers ELSE {p \in open : ticket[i].legs[p].tech = Nobody}
  <2>1. Change(w, i, "change",
               [p \in LegIds |-> IF p \in mine
                                 THEN [ticket[i].legs[p] EXCEPT !.tech = to, !.pinned = TRUE]
                                 ELSE ticket[i].legs[p]])
    BY Zenon DEF FollowBooking
  <2>2. \A p \in mine : p \in Present(i)
    OBVIOUS
  <2> HIDE DEF mine
  <2> QED
    BY <2>1, <2>2, Zenon
<1>0. BoardTypeOK /\ ticket[i].status \notin Empty
  <2>1. ticket[i].status \in {"WAITING", "SERVING"}
    BY Zenon DEF FollowBooking
  <2> QED
    BY <2>1 DEF BackInv, Empty
<1> DEFINE legs == [p \in LegIds |-> IF p \in moved
                                     THEN [ticket[i].legs[p] EXCEPT !.tech = to, !.pinned = TRUE]
                                     ELSE ticket[i].legs[p]]
<1>2. \A p \in LegIds : [ticket[i].legs[p] EXCEPT !.tech = to, !.pinned = TRUE] \in Leg
  BY <1>0, LegsOK, TechsAssumption DEF Leg
<1>3. legs \in Board
  <2>1. \A p \in LegIds : legs[p] \in Leg
    <3> SUFFICES ASSUME NEW p \in LegIds PROVE legs[p] \in Leg
      BY Zenon
    <3>1. CASE p \in moved
      BY <1>2, <3>1, Zenon
    <3>2. CASE p \notin moved
      BY <1>0, <3>2, LegsOK, Zenon
    <3> QED
      BY <3>1, <3>2
  <2> QED
    BY <2>1, Zenon DEF Board
<1>4. ASSUME "reactivate" \notin floorMay, NEW p \in LegIds
      PROVE  WriteKeeps("change", ticket[i].legs[p], legs[p])
  BY <1>1, <1>4, HandedKeeps, Zenon
<1> HIDE DEF legs
<1>5. Change(w, i, "change", legs)
  BY <1>1, Zenon DEF legs
<1> QED
  BY <1>0, <1>3, <1>4, <1>5, ChangeBack

LEMMA AddServiceBack ==
  ASSUME BackInv, BoardTypeOK', NEW w \in Desks, NEW i \in Tickets, NEW zone \in Zones,
         NEW s \in AnyOf, AddService(w, i, zone, s)
  PROVE  BackInv'
<1> DEFINE legs == ticket[i].legs
<1>1. \/ Change(w, i, "change", legs)
      \/ \E p \in LegIds :
           /\ p \in Present(i)
           /\ Change(w, i, "change",
                     PatchLeg(i, p, [legs[p] EXCEPT !.tech = IF @ = Nobody THEN s ELSE @]))
      \/ \E p \in LegIds :
           /\ \A q \in Present(i) : q < p
           /\ Change(w, i, "change",
                     PatchLeg(i, p, [NoLeg EXCEPT !.status = "WAITING", !.zone = zone,
                                                  !.tech = s, !.pinned = (s # Nobody)]))
  BY DEF AddService, Present
<1>2. Shown(i)
  BY DEF AddService
<1>3. CASE Change(w, i, "change", legs)
  BY <1>2, <1>3, LegsOK, ShownOK, SameKeeps, ChangeBack DEF BackInv
<1>4. ASSUME NEW p \in LegIds, p \in Present(i),
             Change(w, i, "change",
                    PatchLeg(i, p, [legs[p] EXCEPT !.tech = IF @ = Nobody THEN s ELSE @]))
      PROVE  BackInv'
  <2> DEFINE new == [legs[p] EXCEPT !.tech = IF @ = Nobody THEN s ELSE @]
  <2>1. legs[p] \in Leg /\ legs[p].status # "none"
    BY <1>4, LegsOK DEF BackInv, Present
  <2>2. new \in Leg
    BY <2>1 DEF Leg, AnyOf
  <2>3. "reactivate" \notin floorMay => WriteKeeps("change", legs[p], new)
    BY <2>1 DEF WriteKeeps, SameHands, Leg
  <2> QED
    BY <1>2, <1>4, <2>2, <2>3, PatchBack
<1>5. ASSUME NEW p \in LegIds, \A q \in Present(i) : q < p,
             Change(w, i, "change",
                    PatchLeg(i, p, [NoLeg EXCEPT !.status = "WAITING", !.zone = zone,
                                                 !.tech = s, !.pinned = (s # Nobody)]))
      PROVE  BackInv'
  <2> DEFINE new == [NoLeg EXCEPT !.status = "WAITING", !.zone = zone, !.tech = s,
                                  !.pinned = (s # Nobody)]
  <2>1. new \in Leg
    BY DEF NoLeg, Leg, AnyOf
  <2>2. p \notin Present(i)
    BY <1>5, FloorAssumption
  <2>3. "reactivate" \notin floorMay => WriteKeeps("change", legs[p], new)
    BY <2>2 DEF BackInv, PartsOK, Present, WriteKeeps, NoLeg
  <2> QED
    BY <1>2, <1>5, <2>1, <2>3, PatchBack
<1> QED
  BY <1>1, <1>3, <1>4, <1>5

\* New tickets, and one deleted.
LEMMA NewLegsEmpty ==
  ASSUME NEW zones \in Visits, NEW s \in AnyOf, NEW p \in LegIds
  PROVE  NewLegs(zones, s)[p].skipped = {}
BY DEF NewLegs, NoLeg

LEMMA TicketBack ==
  ASSUME BackInv, BoardTypeOK', NEW w \in Desks, NEW i \in Tickets, NEW row \in Ticket,
         ticket' = [ticket EXCEPT ![i] = row], passed' = passed, floorMay' = floorMay,
         byHand \subseteq byHand',
         \A v \in Desks : desk'[v] = desk[v] \/ desk'[v].pc \notin Restless,
         \/ ticket[i].status = "none" /\ row.status \notin Empty
         \/ row.status = "deleted" /\ row.legs = NoLegs,
         \A p \in LegIds : row.legs[p].skipped = {}
  PROVE  BackInv'
<1>1. OneHolder'
  BY DEF BackInv, OneHolder, Restless
<1>2. /\ ticket'[i] = row
      /\ \A j \in Tickets : j # i => ticket'[j] = ticket[j]
  BY DEF BackInv, BoardTypeOK
<1> SUFFICES ASSUME "reactivate" \notin floorMay
             PROVE  NoUndo' /\ PartsOK' /\ PassedIsSkipped' /\ AtItAnyway' /\ WritesKeep'
  BY <1>1 DEF BackInv
<1>3. NoUndo'
  BY DEF BackInv, NoUndo, Restless
<1>4. PartsOK'
  BY <1>2 DEF BackInv, PartsOK
<1>5. PassedIsSkipped'
  <2> SUFFICES ASSUME NEW j \in Tickets, NEW p \in LegIds, NEW s \in AnyOf,
                      <<j, p, s>> \in passed
               PROVE  ticket'[j].status = "deleted" \/ s \in ticket'[j].legs[p].skipped
    BY DEF PassedIsSkipped, AnyOf
  <2>1. ticket[j].status = "deleted" \/ s \in ticket[j].legs[p].skipped
    BY DEF BackInv, PassedIsSkipped
  <2>2. ASSUME ticket[i].status = "none" PROVE j # i
    <3>1. ticket[i].legs = NoLegs
      BY <2>2 DEF BackInv, PartsOK, Empty
    <3>2. ticket[i].legs[p].skipped = {}
      BY <3>1 DEF NoLegs, NoLeg
    <3> QED
      BY <2>1, <2>2, <3>2
  <2> QED
    BY <1>2, <2>1, <2>2
<1>6. AtItAnyway'
  <2> SUFFICES ASSUME NEW j \in Tickets, NEW p \in LegIds PROVE Anyway(j, p)'
    BY DEF AtItAnyway
  <2>1. CASE j = i
    BY <1>2, <2>1 DEF Anyway
  <2>2. CASE j # i
    BY <1>2, <2>2 DEF BackInv, AtItAnyway, Anyway
  <2> QED
    BY <2>1, <2>2
<1>7. WritesKeep'
  <2> SUFFICES ASSUME NEW v \in Desks, NEW j \in desk'[v].todo, desk'[v].pc \in Holding
               PROVE  /\ ticket'[j].status # "none"
                      /\ ticket'[j].status # "deleted" =>
                           \A p \in LegIds : WriteKeeps(desk'[v].pc, ticket'[j].legs[p], desk'[v].legs[j][p])
    BY DEF WritesKeep
  <2>1. desk'[v] = desk[v]
    BY DEF Restless
  <2>2. j \in Tickets
    BY <2>1 DEF BackInv, BoardTypeOK, Request
  <2>3. /\ ticket[j].status # "none"
        /\ ticket[j].status # "deleted" =>
             \A p \in LegIds : WriteKeeps(desk[v].pc, ticket[j].legs[p], desk[v].legs[j][p])
    BY <2>1 DEF BackInv, WritesKeep
  <2> QED
    BY <1>2, <2>1, <2>2, <2>3 DEF Empty
<1> QED
  BY <1>3, <1>4, <1>5, <1>6, <1>7

LEMMA AddWalkInBack ==
  ASSUME BackInv, BoardTypeOK', NEW w \in Desks, NEW i \in Tickets, NEW zones \in Visits,
         NEW s \in AnyOf, AddWalkIn(w, i, zones, s)
  PROVE  BackInv'
<1> DEFINE row == [NoTicket EXCEPT !.status = "WAITING", !.place = 2 * i,
                                   !.legs = NewLegs(zones, s)]
<1>0. BoardTypeOK
  BY DEF BackInv
<1>1. ticket[i].status = "none" /\ ticket' = [ticket EXCEPT ![i] = row]
  BY Zenon DEF AddWalkIn, NextTicket
<1>2. passed' = passed /\ floorMay' = floorMay /\ byHand' = byHand
  BY Zenon DEF AddWalkIn
<1>3. Settles(w) \/ Goes(w, "link", i) \/ Leaves(w)
  BY Zenon DEF AddWalkIn
<1>4. \A v \in Desks : desk'[v] = desk[v] \/ desk'[v].pc \notin Restless
  <2>1. "link" \in Doings \ Restless
    BY DEF Doings, Restless, Holding
  <2> QED
    BY <1>0, <1>3, <2>1, DeskQuiet
<1>5. row.status = "WAITING" /\ row.legs = NewLegs(zones, s)
  BY DEF NoTicket
<1> HIDE DEF row
<1>6. row \in Ticket
  BY <1>0, <1>1 DEF BoardTypeOK
<1> QED
  BY <1>1, <1>2, <1>4, <1>5, <1>6, NewLegsEmpty, TicketBack DEF Empty

LEMMA CheckInBack ==
  ASSUME BackInv, BoardTypeOK', NEW w \in Desks, NEW i \in Tickets, NEW zones \in Visits,
         NEW s \in AnyOf, CheckIn(w, i, zones, s)
  PROVE  BackInv'
<1> DEFINE first  == NewLegs(zones, s)
           legs   == [first EXCEPT ![1].status = IF s = Nobody THEN @ ELSE "SERVING"]
           row(k) == [NoTicket EXCEPT !.status = IF s = Nobody THEN "WAITING" ELSE "SERVING",
                                      !.booked = TRUE, !.place = 2 * k - 1, !.legs = legs]
<1>0. BoardTypeOK
  BY DEF BackInv
<1>1. /\ ticket[i].status = "none"
      /\ \E k \in Tickets : ticket' = [ticket EXCEPT ![i] = row(k)]
  BY Zenon DEF CheckIn, NextTicket
<1>2. passed' = passed /\ floorMay' = floorMay /\ byHand \subseteq byHand'
  <2>1. passed' = passed /\ floorMay' = floorMay
        /\ byHand' = IF s = Nobody THEN byHand ELSE byHand \cup {<<i, 1, s>>}
    BY Zenon DEF CheckIn
  <2> QED
    BY <2>1
<1>3. \A v \in Desks : desk'[v] = desk[v] \/ desk'[v].pc \notin Restless
  <2>1. Settles(w)
    BY Zenon DEF CheckIn
  <2>2. "settle" \in Doings \ Restless
    BY DEF Doings, Restless, Holding
  <2> QED
    BY <1>0, <2>1, <2>2, DeskQuiet
<1>4. \A p \in LegIds : legs[p].skipped = {}
  <2>1. first \in Board /\ \A p \in LegIds : first[p].skipped = {}
    BY NewLegsOK, NewLegsEmpty
  <2> HIDE DEF first
  <2> QED
    BY <2>1 DEF Board, Leg
<1> HIDE DEF legs
<1>5. \A k \in Tickets : row(k).status \in {"WAITING", "SERVING"} /\ row(k).legs = legs
  BY DEF NoTicket
<1>6. PICK k \in Tickets : ticket' = [ticket EXCEPT ![i] = row(k)]
  BY <1>1, Zenon
<1> HIDE DEF row
<1>7. row(k) \in Ticket
  BY <1>0, <1>6 DEF BoardTypeOK
<1> QED
  BY ZenonT(30), <1>1, <1>2, <1>3, <1>4, <1>5, <1>6, <1>7, TicketBack DEF Empty

LEMMA DeleteBack ==
  ASSUME BackInv, BoardTypeOK', NEW w \in Desks, DeleteTicket(w)
  PROVE  BackInv'
<1> DEFINE i   == desk[w].ticket
           row == [NoTicket EXCEPT !.status = "deleted"]
<1>0. BoardTypeOK /\ i \in Tickets \cup {0}
  BY DEF BackInv, BoardTypeOK, Request
<1>1. row \in Ticket /\ row.status = "deleted" /\ row.legs = NoLegs
  BY NoTicketOK DEF NoTicket, Ticket
<1>2. \A p \in LegIds : row.legs[p].skipped = {}
  BY <1>1 DEF NoLegs, NoLeg
<1>3. ticket' = [ticket EXCEPT ![i] = row]
  BY DEF DeleteTicket
<1>4. \A v \in Desks : desk'[v] = desk[v] \/ desk'[v].pc \notin Restless
  <2>1. "idle" \in Doings \ Restless
    BY DEF Doings, Restless, Holding
  <2> QED
    BY <1>0, <2>1, DeskQuiet DEF DeleteTicket
<1>5. UNCHANGED <<passed, floorMay, byHand>>
  BY DEF DeleteTicket
<1> HIDE DEF row
<1>6. CASE i \in Tickets
  BY <1>1, <1>2, <1>3, <1>4, <1>5, <1>6, TicketBack
<1>7. CASE i \notin Tickets
  <2>1. ticket' = ticket
    BY <1>0, <1>3, <1>7 DEF BoardTypeOK
  <2> QED
    BY <2>1, <1>4, <1>5, QuietBack DEF Quiet
<1> QED
  BY <1>6, <1>7

LEMMA UndoBack ==
  ASSUME BackInv, BoardTypeOK', NEW w \in Desks,
         (\E i \in Tickets, p \in LegIds : ReadDone(w, i, p)) \/ Reactivate(w)
  PROVE  BackInv'
<1>1. "reactivate" \in floorMay
  BY DEF ReadDone, Reactivate, DeskAt, BackInv, NoUndo
<1>2. floorMay' = floorMay
  BY DEF ReadDone, Reactivate
<1>3. OneHolder'
  <2>1. CASE Reactivate(w)
    <3>1. \A v \in Desks : v # w => desk'[v].pc \notin Holding
      BY <2>1 DEF Reactivate, LockFree, BackInv, BoardTypeOK
    <3> QED
      BY <3>1 DEF OneHolder
  <2>2. ASSUME NEW i \in Tickets, NEW p \in LegIds, ReadDone(w, i, p) PROVE OneHolder'
    <3>1. PICK legs : desk' = [desk EXCEPT ![w] = Writes("reactivate", i, legs)]
      BY <2>2 DEF ReadDone
    <3>2. Writes("reactivate", i, legs).pc \notin Holding
      BY DEF Writes, Holding
    <3>3. \A v \in Desks : desk'[v] = desk[v] \/ desk'[v].pc \notin Holding
      BY <3>1, <3>2 DEF BackInv, BoardTypeOK
    <3> QED
      BY <3>3 DEF BackInv, OneHolder
  <2> QED
    BY <2>1, <2>2
<1> QED
  BY <1>1, <1>2, <1>3 DEF BackInv

\* The dispatcher: a part it starts goes to who was asked for, or to one who did not pass it on.
LEMMA SeatedKeeps ==
  ASSUME BackInv, "reactivate" \notin floorMay, NEW i \in Tickets, NEW f \in Plans, NEW p \in LegIds
  PROVE  WriteKeeps("seat", ticket[i].legs[p], Seated(i, f)[p])
<1> DEFINE leg == ticket[i].legs[p]
           new == [leg EXCEPT !.status = "SERVING", !.tech = f[<<i, p>>]]
<1>0. leg \in Leg
  BY LegsOK DEF BackInv
<1>1. CASE <<i, p>> \in Queue /\ f[<<i, p>>] # Nobody
  <2>1. f[<<i, p>>] \in Picks(<<i, p>>, f)
    BY <1>1 DEF Plans
  <2>2. f[<<i, p>>] \in Takers(<<i, p>>, f)
    BY <1>1, <2>1 DEF Picks
  <2>3. leg.pinned \/ f[<<i, p>>] \notin leg.skipped
    BY <2>2 DEF Takers, LegAt
  <2>4. leg.status = "WAITING"
    BY <1>1 DEF Queue, LegAt
  <2>5. WriteKeeps("seat", leg, new)
    BY <1>0, <2>3, <2>4 DEF WriteKeeps, Leg
  <2>6. Seated(i, f)[p] = new
    BY <1>1 DEF Seated
  <2> QED
    BY <2>5, <2>6
<1>2. CASE ~(<<i, p>> \in Queue /\ f[<<i, p>>] # Nobody)
  <2>1. Seated(i, f)[p] = leg
    BY <1>2 DEF Seated
  <2> QED
    BY <2>1, SameKeeps
<1> QED
  BY <1>1, <1>2

LEMMA DispatchBack ==
  ASSUME BackInv, BoardTypeOK', NEW w \in Desks, Dispatch(w)
  PROVE  BackInv'
<1>0. BoardTypeOK /\ UNCHANGED <<ticket, byHand, passed, floorMay>> /\ LockFree
  BY DEF BackInv, Dispatch
<1>1. PICK f \in Plans :
        LET seats == {i \in Tickets : \E p \in LegIds : <<i, p>> \in Queue /\ f[<<i, p>>] # Nobody}
        IN  IF seats = {} THEN Leaves(w)
            ELSE desk' = [desk EXCEPT ![w] =
                   [Rested EXCEPT !.pc = "seat", !.todo = seats,
                                  !.legs = [i \in Tickets |-> IF i \in seats THEN Seated(i, f)
                                                              ELSE NoLegs]]]
  BY Zenon DEF Dispatch
<1> DEFINE seats == {i \in Tickets : \E p \in LegIds : <<i, p>> \in Queue /\ f[<<i, p>>] # Nobody}
           legs  == [i \in Tickets |-> IF i \in seats THEN Seated(i, f) ELSE NoLegs]
           new   == [Rested EXCEPT !.pc = "seat", !.todo = seats, !.legs = legs]
<1>2. \A i \in seats : i \in Tickets /\ ticket[i].status \notin Empty /\ legs[i] = Seated(i, f)
  BY DEF Queue, Empty
<1>3. new.pc = "seat" /\ new.todo = seats /\ new.legs = legs
  BY DEF Rested
<1>4. seats = {} => Leaves(w)
  BY <1>1
<1>5. seats # {} => desk' = [desk EXCEPT ![w] = new]
  BY <1>1
<1> HIDE DEF seats, legs, new
<1>6. CASE Leaves(w)
  <2>1. "idle" \in Doings \ Restless
    BY DEF Doings, Restless, Holding
  <2>2. \A v \in Desks : desk'[v] = desk[v] \/ desk'[v].pc \notin Restless
    BY <1>0, <1>6, <2>1, DeskQuiet
  <2> QED
    BY <1>0, <2>2, QuietBack DEF Quiet
<1>7. CASE desk' = [desk EXCEPT ![w] = new]
  <2>1. /\ desk'[w].pc = "seat" /\ desk'[w].todo = seats /\ desk'[w].legs = legs
        /\ \A v \in Desks : v # w => desk'[v] = desk[v] /\ desk'[v].pc \notin Holding
    BY <1>0, <1>3, <1>7 DEF BoardTypeOK, LockFree
  <2>2. OneHolder'
    BY <2>1 DEF OneHolder
  <2> SUFFICES ASSUME "reactivate" \notin floorMay
               PROVE  NoUndo' /\ PartsOK' /\ PassedIsSkipped' /\ AtItAnyway' /\ WritesKeep'
    BY <1>0, <2>2 DEF BackInv
  <2>3. NoUndo'
    BY <2>1 DEF BackInv, NoUndo
  <2>4. PartsOK' /\ PassedIsSkipped' /\ AtItAnyway'
    BY <1>0 DEF BackInv, PartsOK, PassedIsSkipped, AtItAnyway, Anyway
  <2>5. WritesKeep'
    <3>1. \A i \in seats : /\ ticket'[i].status # "none"
                           /\ \A p \in LegIds :
                                WriteKeeps(desk'[w].pc, ticket'[i].legs[p], desk'[w].legs[i][p])
      BY <1>0, <1>2, <2>1, SeatedKeeps DEF Empty
    <3> QED
      BY <2>1, <3>1 DEF WritesKeep
  <2> QED
    BY <2>3, <2>4, <2>5
<1> QED
  BY <1>4, <1>5, <1>6, <1>7

\* A write: the part is as it was read.
LEMMA PutTicketBack ==
  ASSUME BackInv, BoardTypeOK', NEW w \in Desks, PutTicket(w)
  PROVE  BackInv'
<1>1. PICK i \in desk[w].todo :
        LET legs  == desk[w].legs[i]
            rest  == desk[w].todo \ {i}
            kept  == {x \in byHand : x[1] # i \/ x \in Serves(i, legs)}
            fresh == Serves(i, legs) \ Serves(i, ticket[i].legs)
        IN  /\ ticket' = WriteItems(i, legs)
            /\ byHand' = IF DeskAt(w, "seat") THEN kept \ fresh
                         ELSE kept \cup Renewed(i, legs) \cup (IF OnFloor(i) THEN fresh ELSE Serves(i, legs))
            /\ passed' = (IF DeskAt(w, "pass") THEN passed \cup Taken(i, legs) ELSE passed)
                           \ Gone(i, legs)
            /\ IF rest # {}
               THEN desk' = [desk EXCEPT ![w] =
                               [pc |-> @.pc, ticket |-> @.ticket, todo |-> rest,
                                legs |-> [desk[w].legs EXCEPT ![i] = NoLegs]]]
               ELSE IF desk[w].pc \in {"seat", "restore"} THEN Leaves(w) ELSE Settles(w)
  BY DEF PutTicket
<1> DEFINE pc == desk[w].pc  legs == desk[w].legs[i]  rest == desk[w].todo \ {i}
           kept  == {x \in byHand : x[1] # i \/ x \in Serves(i, legs)}
           fresh == Serves(i, legs) \ Serves(i, ticket[i].legs)
<1>0. /\ BoardTypeOK /\ pc \in Holding /\ floorMay' = floorMay
      /\ desk \in [Desks -> Request] /\ i \in Tickets /\ legs \in Board
  BY DEF BackInv, BoardTypeOK, Request, PutTicket, Board
<1>2. /\ ticket' = WriteItems(i, legs)
      /\ byHand' = IF pc = "seat" THEN kept \ fresh
                   ELSE kept \cup Renewed(i, legs) \cup (IF OnFloor(i) THEN fresh ELSE Serves(i, legs))
      /\ passed' = (IF pc = "pass" THEN passed \cup Taken(i, legs) ELSE passed) \ Gone(i, legs)
  BY <1>1 DEF DeskAt
<1>3. /\ \A v \in Desks : v # w => desk'[v] = desk[v] /\ desk'[v].pc \notin Holding
      /\ \/ desk'[w].pc \notin Restless
         \/ /\ desk'[w].pc = pc /\ desk'[w].todo = rest
            /\ \A j \in rest : desk'[w].legs[j] = desk[w].legs[j]
  <2>1. \A v \in Desks : v # w => desk[v].pc \notin Holding
    BY <1>0 DEF BackInv, OneHolder
  <2>2. CASE rest # {}
    <3> DEFINE new == [pc |-> pc, ticket |-> desk[w].ticket, todo |-> rest,
                       legs |-> [desk[w].legs EXCEPT ![i] = NoLegs]]
    <3>1. desk' = [desk EXCEPT ![w] = new]
      BY <1>1, <2>2
    <3>2. desk'[w] = new /\ \A v \in Desks : v # w => desk'[v] = desk[v]
      BY <1>0, <3>1
    <3>3. \A j \in rest : new.legs[j] = desk[w].legs[j]
      BY <1>0 DEF Request
    <3> QED
      BY <2>1, <3>2, <3>3
  <2>3. CASE rest = {}
    <3>1. Leaves(w) \/ Settles(w)
      BY <1>1, <2>3
    <3>2. \A v \in Desks : v # w => desk'[v] = desk[v]
      BY <1>0, <3>1 DEF Leaves, Settles, Goes
    <3>3. desk'[w].pc \in {"idle", "settle"}
      <4>1. CASE Leaves(w)
        BY <1>0, <4>1 DEF Leaves, Rested
      <4>2. CASE Settles(w)
        <5> DEFINE new == [Rested EXCEPT !.pc = "settle", !.ticket = 0]
        <5>1. desk' = [desk EXCEPT ![w] = new] /\ new.pc = "settle"
          BY <4>2 DEF Settles, Goes, Rested
        <5> HIDE DEF new
        <5> QED
          BY <1>0, <5>1
      <4> QED
        BY <3>1, <4>1, <4>2
    <3> QED
      BY <2>1, <3>2, <3>3 DEF Restless, Holding
  <2> QED
    BY <2>2, <2>3
<1>4. OneHolder'
  BY <1>3 DEF OneHolder
<1> HIDE DEF rest
<1> SUFFICES ASSUME "reactivate" \notin floorMay
             PROVE  NoUndo' /\ PartsOK' /\ PassedIsSkipped' /\ AtItAnyway' /\ WritesKeep'
  BY <1>0, <1>4 DEF BackInv
<1>5. /\ NoUndo /\ PartsOK /\ PassedIsSkipped /\ AtItAnyway
      /\ ticket[i].status # "none"
      /\ ticket[i].status # "deleted" =>
           \A p \in LegIds : WriteKeeps(pc, ticket[i].legs[p], legs[p])
  BY <1>0 DEF BackInv, WritesKeep
<1> HIDE DEF legs, pc
<1>6. /\ \A j \in Tickets : j # i => ticket'[j] = ticket[j]
      /\ ticket[i].status = "deleted" => ticket' = ticket
      /\ ticket[i].status # "deleted" => /\ ticket'[i].legs = legs
                                         /\ ticket'[i].status \in {"WAITING", "SERVING", "DONE"}
  <2>1. CASE Exists(i)
    <3>1. ticket' = [ticket EXCEPT ![i].legs = legs, ![i].status = SyncTicket(legs)]
      BY <1>2, <2>1 DEF WriteItems
    <3>2. ticket \in [Tickets -> Ticket]
      BY <1>0 DEF BoardTypeOK
    <3>3. ticket'[i].legs = legs /\ ticket'[i].status = SyncTicket(legs)
      BY <1>0, <3>1, <3>2 DEF Ticket
    <3> QED
      BY <1>0, <2>1, <3>1, <3>2, <3>3, SyncTicketOK DEF Exists
  <2>2. CASE ~Exists(i)
    BY <1>2, <1>5, <2>2 DEF WriteItems, Exists
  <2> QED
    BY <2>1, <2>2
<1>7. NoUndo'
  <2>1. pc \notin {"reactivate", "restore"}
    BY <1>5 DEF NoUndo, pc
  <2> QED
    BY <1>3, <1>5, <2>1 DEF NoUndo, Restless
<1>8. PartsOK'
  BY <1>5, <1>6 DEF PartsOK, WriteKeeps, Empty
<1>9. PassedIsSkipped'
  <2> SUFFICES ASSUME NEW j \in Tickets, NEW p \in LegIds, NEW s \in AnyOf, <<j, p, s>> \in passed'
               PROVE  ticket'[j].status = "deleted" \/ s \in ticket'[j].legs[p].skipped
    BY DEF PassedIsSkipped, AnyOf
  <2>1. CASE j # i
    <3>1. <<j, p, s>> \in passed
      BY <1>2, <2>1 DEF Taken
    <3> QED
      BY <1>5, <1>6, <2>1, <3>1 DEF PassedIsSkipped
  <2>2. CASE j = i /\ ticket[i].status # "deleted"
    <3>1. s \in ticket[i].legs[p].skipped \/ s \in legs[p].skipped
      <4>1. CASE <<i, p, s>> \in passed
        BY <1>0, <1>5, <2>2, <4>1 DEF PassedIsSkipped
      <4>2. CASE <<i, p, s>> \notin passed
        <5>1. pc = "pass" /\ <<i, p, s>> \in Taken(i, legs)
          BY <1>2, <2>2, <4>2
        <5>2. s = ticket[i].legs[p].tech /\ legs[p].tech # ticket[i].legs[p].tech
          BY <5>1 DEF Taken
        <5> QED
          BY <1>5, <2>2, <5>1, <5>2 DEF WriteKeeps
      <4> QED
        BY <4>1, <4>2
    <3>2. s \in Techs
      BY <1>0, <3>1, LegsOK DEF Board, Leg
    <3>3. legs[p].status # "none"
      BY <1>2, <2>2, <3>2 DEF Gone
    <3> QED
      BY <1>5, <1>6, <2>2, <3>1, <3>3 DEF WriteKeeps
  <2>3. CASE j = i /\ ticket[i].status = "deleted"
    BY <1>6, <2>3
  <2> QED
    BY <2>1, <2>2, <2>3
<1>10. AtItAnyway'
  <2> SUFFICES ASSUME NEW j \in Tickets, NEW p \in LegIds, ticket'[j].legs[p].status = "SERVING",
                      ticket'[j].legs[p].tech \in ticket'[j].legs[p].skipped,
                      ~ticket'[j].legs[p].pinned
               PROVE  <<j, p, ticket'[j].legs[p].tech>> \in byHand'
    BY DEF AtItAnyway, Anyway
  <2>1. CASE j # i
    <3> DEFINE x == <<j, p, ticket[j].legs[p].tech>>
    <3>1. x \in byHand /\ x[1] # i
      BY <1>5, <1>6, <2>1 DEF AtItAnyway, Anyway
    <3>2. x \notin fresh /\ x \in kept
      BY <2>1, <3>1 DEF Serves
    <3> QED
      BY <1>2, <1>6, <2>1, <3>2
  <2>2. CASE j = i /\ ticket[i].status # "deleted"
    <3> DEFINE x == <<i, p, legs[p].tech>>
    <3>1. /\ legs[p].status = "SERVING" /\ legs[p].tech \in legs[p].skipped /\ ~legs[p].pinned
          /\ x \in Serves(i, legs)
      BY <1>6, <2>2 DEF Serves
    <3>2. CASE SameHands(ticket[i].legs[p], legs[p])
      <4>1. x \in byHand
        BY <1>0, <1>5, <2>2, <3>1, <3>2 DEF WriteKeeps, SameHands, AtItAnyway, Anyway
      <4>2. x \in kept
        BY <3>1, <4>1
      <4>3. x \in Serves(i, ticket[i].legs)
        BY <3>2 DEF SameHands, Serves
      <4> QED
        BY <1>2, <1>6, <2>2, <4>2, <4>3
    <3>3. CASE ~SameHands(ticket[i].legs[p], legs[p])
      <4>1. pc # "seat"
        BY <1>5, <2>2, <3>1, <3>3 DEF WriteKeeps
      <4>2. x \notin Serves(i, ticket[i].legs)
        BY <3>3 DEF SameHands, Serves
      <4> QED
        BY <1>2, <1>6, <2>2, <3>1, <4>1, <4>2
    <3> QED
      BY <3>2, <3>3
  <2>3. CASE j = i /\ ticket[i].status = "deleted"
    BY <1>5, <1>6, <2>3 DEF PartsOK, Empty, NoLegs, NoLeg
  <2> QED
    BY <2>1, <2>2, <2>3
<1>11. WritesKeep'
  <2> SUFFICES ASSUME NEW v \in Desks, NEW j \in desk'[v].todo, desk'[v].pc \in Holding
               PROVE  /\ ticket'[j].status # "none"
                      /\ ticket'[j].status # "deleted" =>
                           \A p \in LegIds : WriteKeeps(desk'[v].pc, ticket'[j].legs[p], desk'[v].legs[j][p])
    BY DEF WritesKeep
  <2>1. v = w /\ desk'[w].pc = pc /\ j \in rest /\ desk'[w].legs[j] = desk[w].legs[j]
    BY <1>3 DEF Restless
  <2>2. j \in desk[w].todo /\ j \in Tickets /\ j # i /\ ticket'[j] = ticket[j]
    BY <1>0, <1>6, <2>1 DEF rest, Request
  <2>3. /\ ticket[j].status # "none"
        /\ ticket[j].status # "deleted" =>
             \A p \in LegIds : WriteKeeps(pc, ticket[j].legs[p], desk[w].legs[j][p])
    BY <1>0, <2>2 DEF BackInv, WritesKeep, pc
  <2> QED
    BY <2>1, <2>2, <2>3
<1> QED
  BY <1>7, <1>8, <1>9, <1>10, <1>11

-----------------------------------------------------------------------------
LEMMA BackInit == FloorInit => BackInv
<1> SUFFICES ASSUME FloorInit PROVE BackInv
  OBVIOUS
<1>1. BoardTypeOK
  BY FloorTypeInit
<1>2. \A w \in Desks : desk[w].pc = "idle"
  BY DEF FloorInit, Rested
<1>3. OneHolder /\ NoUndo /\ WritesKeep
  BY <1>2 DEF OneHolder, NoUndo, WritesKeep, Holding
<1>4. \A i \in Tickets : ticket[i].legs = NoLegs /\ ticket[i].status = "none"
  BY DEF FloorInit, NoTicket
<1>5. \A p \in LegIds : NoLegs[p].status = "none" /\ NoLegs[p].skipped = {}
  BY DEF NoLegs, NoLeg
<1>6. PartsOK /\ PassedIsSkipped /\ AtItAnyway
  BY <1>4, <1>5 DEF FloorInit, PartsOK, PassedIsSkipped, AtItAnyway, Anyway, AnyOf
<1> QED
  BY <1>1, <1>3, <1>6 DEF BackInv

LEMMA BackNext == BackInv /\ [FloorNext]_floorVars => BackInv'
<1> SUFFICES ASSUME BackInv, [FloorNext]_floorVars PROVE BackInv'
  OBVIOUS
<1>0. BoardTypeOK'
  BY FloorTypeNext DEF BackInv
<1>1. ASSUME NEW w \in Desks, DeskStep(w) PROVE BackInv'
  <2>1. CASE Dispatch(w) \/ PutTicket(w) \/ Reactivate(w)
    BY <1>0, <2>1, DispatchBack, PutTicketBack, UndoBack
  <2>2. CASE LinkBooking(w) \/ PairBooking(w) \/ CancelTicket(w) \/ DeleteTicket(w)
    BY <1>0, <2>2, CancelBack, DeleteBack
  <2>3. ASSUME NEW i \in Tickets, NEW zones \in Visits, NEW s \in AnyOf, CheckIn(w, i, zones, s)
        PROVE  BackInv'
    BY <1>0, <2>3, CheckInBack
  <2> QED
    BY <1>1, <2>1, <2>2, <2>3 DEF DeskStep
<1>2. ASSUME NEW w \in Desks, DeskAsks(w) PROVE BackInv'
  <2>1. ASSUME NEW i \in Tickets, NEW zones \in Visits, NEW s \in AnyOf, AddWalkIn(w, i, zones, s)
        PROVE  BackInv'
    BY <1>0, <2>1, AddWalkInBack
  <2>2. ASSUME NEW i \in Tickets, NEW p \in LegIds,
               DoneLeg(w, i, p) \/ SkipLeg(w, i, p) \/ RemoveService(w, i, p) \/ ReadDone(w, i, p)
        PROVE  BackInv'
    BY <1>0, <2>2, PartsBack, UndoBack
  <2>3. ASSUME NEW i \in Tickets, NEW p \in LegIds, NEW s \in AnyOf,
               AssignLeg(w, i, p, s, TRUE) \/ AssignLeg(w, i, p, s, FALSE) \/ HandLeg(w, i, p, s)
        PROVE  BackInv'
    BY <1>0, <2>3, GivenBack
  <2>4. ASSUME NEW i \in Tickets, NEW zone \in Zones, NEW s \in AnyOf, AddService(w, i, zone, s)
        PROVE  BackInv'
    BY <1>0, <2>4, AddServiceBack
  <2>5. ASSUME NEW i \in Tickets, NEW from \in AnyOf, NEW to \in Techs,
               FollowBooking(w, i, from, to)
        PROVE  BackInv'
    BY <1>0, <2>5, FollowBookingBack
  <2>6. ASSUME NEW i \in Tickets,
               \/ DoneTicket(w, i) \/ WaitPayment(w, i) \/ Checkout(w, i)
               \/ BeginCancelTicket(w, i) \/ BeginDeleteTicket(w, i)
        PROVE  BackInv'
    BY <1>0, <2>6, DoneTicketBack, TillBack
  <2>7. ASSUME NEW s \in Techs, EndBreak(w, s) PROVE BackInv'
    BY <1>0, <2>7, BreakBack
  <2>8. ASSUME BeginCheckIn(w) PROVE BackInv'
    BY <1>0, <2>8, CancelBack
  <2> QED
    BY <1>2, <2>1, <2>2, <2>3, <2>4, <2>5, <2>6, <2>7, <2>8 DEF DeskAsks
<1>3. ASSUME NEW i \in Tickets, NoShow(i) \/ MoveToStation(i) \/ SeeStale(i) \/ CloseUnpaid(i)
      PROVE  BackInv'
  BY <1>0, <1>3, AloneBack, KeepingBack
<1>4. ASSUME NEW s \in Techs, StartBreak(s) PROVE BackInv'
  BY <1>0, <1>4, BreakBack, FloorAssumption
<1>5. ASSUME ParkStale \/ RestartFloor PROVE BackInv'
  BY <1>0, <1>5, KeepingBack
<1>6. CASE UNCHANGED floorVars
  <2>1. Quiet
    BY <1>6 DEF Quiet, floorVars
  <2> QED
    BY <1>0, <2>1, QuietBack
<1> QED
  BY <1>1, <1>2, <1>3, <1>4, <1>5, <1>6 DEF FloorNext

LEMMA BackHolds == BackInv => NeverBackToHer
<1> SUFFICES ASSUME BackInv, "reactivate" \notin floorMay, NEW i \in Tickets, NEW p \in Serving(i),
                    <<i, p, ticket[i].legs[p].tech>> \in passed
             PROVE  ticket[i].legs[p].pinned \/ <<i, p, ticket[i].legs[p].tech>> \in byHand
  BY DEF NeverBackToHer
<1>1. p \in LegIds /\ ticket[i].legs[p].status = "SERVING" /\ ticket[i].legs[p] \in Leg
  BY LegsOK DEF BackInv, Serving, Present
<1>2. ticket[i].status # "deleted"
  BY <1>1 DEF BackInv, PartsOK, Empty, NoLegs, NoLeg
<1>3. ticket[i].legs[p].tech \in ticket[i].legs[p].skipped
  BY <1>1, <1>2 DEF BackInv, PassedIsSkipped, Leg, AnyOf
<1> QED
  BY <1>1, <1>3 DEF BackInv, AtItAnyway, Anyway

\* A part passed on never comes back to the technician who passed it on, unless the customer
\* asked for her or a person put her there: not even when the ticket is paid, cancelled, moved
\* or deleted between what the dispatcher reads and what it writes (skipLeg, planDispatch).
THEOREM NeverBackCorrect == FloorSpec => []NeverBackToHer
BY BackInit, BackNext, BackHolds, PTL DEF FloorSpec

-----------------------------------------------------------------------------
\* One customer each.  While the dispatcher writes its plan ticket by ticket, those it is
\* still going to seat stay apart from each other and from whoever is at work: only people
\* put technicians to work meanwhile.

WaitsIdle == \A i \in Tickets : ticket[i].status = "WAITING" => Serving(i) = {}

\* At work, and not because a person put her there.
AtWork(i, p) ==
  LET leg == ticket[i].legs[p]
  IN  OnFloor(i) /\ leg.status = "SERVING" /\ leg.tech # Nobody /\ <<i, p, leg.tech>> \notin byHand

OneEach ==
  \A i, j \in Tickets, p, q \in LegIds :
    AtWork(i, p) /\ AtWork(j, q) /\ ticket[i].legs[p].tech = ticket[j].legs[q].tech
      => i = j /\ p = q

\* At work once w has written.
ToSit(w, i, p) ==
  LET old == ticket[i].legs[p]
      new == desk[w].legs[i][p]
  IN  /\ i \in desk[w].todo /\ ticket[i].status # "deleted"
      /\ new.status = "SERVING" /\ new.tech # Nobody
      /\ SameHands(old, new) => <<i, p, new.tech>> \notin byHand

SeatsKeep(w) ==
  \A i \in desk[w].todo :
    /\ ticket[i].status # "none"
    /\ ticket[i].status # "deleted" =>
         \A p \in LegIds : ticket[i].legs[p].status = "SERVING"
                             => desk[w].legs[i][p] = ticket[i].legs[p]

SeatsApart(w) ==
  \A i, j \in Tickets, p, q \in LegIds :
    ToSit(w, i, p) =>
      /\ j \notin desk[w].todo /\ AtWork(j, q) => desk[w].legs[i][p].tech # ticket[j].legs[q].tech
      /\ ToSit(w, j, q) /\ desk[w].legs[i][p].tech = desk[w].legs[j][q].tech => i = j /\ p = q

SeatInv ==
  /\ WaitsIdle /\ OneEach
  /\ \A w \in Desks : desk[w].pc = "seat" => SeatsKeep(w) /\ SeatsApart(w)

\* Steps that put nobody to work but by hand.
Calm ==
  /\ byHand \subseteq byHand'
  /\ \A w \in Desks : desk'[w] = desk[w] \/ desk'[w].pc # "seat"
  /\ \A i \in Tickets :
       \/ ticket'[i] = ticket[i]
       \/ /\ ticket[i].status \notin Empty /\ ticket'[i].status \notin Empty
          /\ ticket'[i].legs = ticket[i].legs
          /\ ticket'[i].status = "WAITING" => ticket[i].status = "WAITING"
          /\ ticket'[i].status = "SERVING" /\ ~ticket'[i].paying =>
               OnFloor(i) \/ \A p \in Serving(i) : <<i, p, ticket[i].legs[p].tech>> \in byHand'
       \/ ticket'[i].status = "deleted"
       \/ /\ ticket[i].status = "none" /\ ticket'[i].status \in {"WAITING", "SERVING"}
          /\ \A p \in LegIds : ticket'[i].legs[p].status = "SERVING" =>
               /\ ticket'[i].status = "SERVING"
               /\ ticket'[i].legs[p].tech = Nobody \/ <<i, p, ticket'[i].legs[p].tech>> \in byHand'
               /\ \A q \in LegIds : ticket'[i].legs[q].status = "SERVING" => q = p

LEMMA CalmWork ==
  ASSUME Calm, NEW i \in Tickets, NEW p \in LegIds, AtWork(i, p)'
  PROVE  AtWork(i, p) /\ ticket'[i].legs[p] = ticket[i].legs[p]
BY DEF Calm, AtWork, OnFloor, Serving, Present

LEMMA CalmSit ==
  ASSUME Calm, NEW w \in Desks, desk'[w] = desk[w], SeatsKeep(w),
         NEW i \in Tickets, NEW p \in LegIds, ToSit(w, i, p)'
  PROVE  ToSit(w, i, p)
<1>1. /\ i \in desk[w].todo /\ ticket'[i].status # "deleted" /\ ticket[i].status # "none"
  BY DEF ToSit, SeatsKeep
<1>2. ticket'[i].legs = ticket[i].legs /\ ticket[i].status # "deleted"
  BY <1>1 DEF Calm, Empty
<1>3. byHand \subseteq byHand'
  BY DEF Calm
<1> QED
  BY <1>1, <1>2, <1>3 DEF ToSit, SameHands

LEMMA CalmSeats ==
  ASSUME BoardTypeOK, BoardTypeOK', SeatInv, Calm
  PROVE  SeatInv'
<1>1. WaitsIdle'
  <2> SUFFICES ASSUME NEW i \in Tickets, ticket'[i].status = "WAITING", NEW p \in LegIds,
                      ticket'[i].legs[p].status = "SERVING"
               PROVE  FALSE
    BY DEF WaitsIdle, Serving, Present
  <2>1. ticket[i].status = "WAITING" /\ ticket'[i].legs = ticket[i].legs
    BY DEF Calm
  <2> QED
    BY <2>1 DEF SeatInv, WaitsIdle, Serving, Present
<1>2. OneEach'
  <2> SUFFICES ASSUME NEW i \in Tickets, NEW j \in Tickets, NEW p \in LegIds, NEW q \in LegIds,
                      AtWork(i, p)', AtWork(j, q)',
                      ticket'[i].legs[p].tech = ticket'[j].legs[q].tech
               PROVE  i = j /\ p = q
    BY DEF OneEach
  <2>1. /\ AtWork(i, p) /\ ticket'[i].legs[p] = ticket[i].legs[p]
        /\ AtWork(j, q) /\ ticket'[j].legs[q] = ticket[j].legs[q]
    BY CalmWork
  <2> QED
    BY <2>1 DEF SeatInv, OneEach
<1>3. ASSUME NEW w \in Desks, desk'[w].pc = "seat" PROVE SeatsKeep(w)' /\ SeatsApart(w)'
  <2>1. desk'[w] = desk[w] /\ SeatsKeep(w) /\ SeatsApart(w)
    BY <1>3 DEF Calm, SeatInv
  <2>2. SeatsKeep(w)'
    <3> SUFFICES ASSUME NEW i \in desk[w].todo
                 PROVE  /\ ticket'[i].status # "none"
                        /\ ticket'[i].status # "deleted" =>
                             \A p \in LegIds : ticket'[i].legs[p].status = "SERVING"
                                                 => desk[w].legs[i][p] = ticket'[i].legs[p]
      BY <2>1 DEF SeatsKeep
    <3>1. i \in Tickets
      BY DEF BoardTypeOK, Request
    <3>2. /\ ticket[i].status # "none"
          /\ ticket[i].status # "deleted" =>
               \A p \in LegIds : ticket[i].legs[p].status = "SERVING"
                                   => desk[w].legs[i][p] = ticket[i].legs[p]
      BY <2>1 DEF SeatsKeep
    <3> QED
      BY <3>1, <3>2 DEF Calm, Empty
  <2>3. SeatsApart(w)'
    <3> SUFFICES ASSUME NEW i \in Tickets, NEW j \in Tickets, NEW p \in LegIds, NEW q \in LegIds,
                        ToSit(w, i, p)'
                 PROVE  /\ j \notin desk[w].todo /\ AtWork(j, q)'
                             => desk[w].legs[i][p].tech # ticket'[j].legs[q].tech
                        /\ ToSit(w, j, q)' /\ desk[w].legs[i][p].tech = desk[w].legs[j][q].tech
                             => i = j /\ p = q
      BY <2>1 DEF SeatsApart
    <3>1. ToSit(w, i, p) /\ (ToSit(w, j, q)' => ToSit(w, j, q))
      BY <2>1, CalmSit
    <3>2. AtWork(j, q)' => AtWork(j, q) /\ ticket'[j].legs[q] = ticket[j].legs[q]
      BY CalmWork
    <3> QED
      BY <2>1, <3>1, <3>2 DEF SeatsApart
  <2> QED
    BY <2>2, <2>3
<1> QED
  BY <1>1, <1>2, <1>3 DEF SeatInv

LEMMA DeskCalm ==
  ASSUME \A v \in Desks : desk'[v] = desk[v] \/ desk'[v].pc \notin Restless
  PROVE  \A v \in Desks : desk'[v] = desk[v] \/ desk'[v].pc # "seat"
BY DEF Restless, Holding

\* Changes of parts write nothing yet.
LEMMA ReadCalm ==
  ASSUME BoardTypeOK, NEW w \in Desks, NEW new, desk' = [desk EXCEPT ![w] = new], new.pc # "seat",
         UNCHANGED <<ticket, byHand>>
  PROVE  Calm
BY DEF BoardTypeOK, Calm

LEMMA ChangeCalm ==
  ASSUME BoardTypeOK, NEW w \in Desks, NEW i, NEW pc \in {"change", "pass"}, NEW legs,
         Change(w, i, pc, legs)
  PROVE  Calm
<1> DEFINE new == Writes(pc, i, legs)
<1>1. new.pc # "seat"
  BY DEF Writes
<1>2. desk' = [desk EXCEPT ![w] = new] /\ UNCHANGED <<ticket, byHand>>
  BY DEF Change
<1> HIDE DEF new
<1> QED
  BY <1>1, <1>2, ReadCalm

LEMMA PartsCalm ==
  ASSUME BoardTypeOK, NEW w \in Desks, NEW i \in Tickets,
         \/ DoneTicket(w, i)
         \/ \E p \in LegIds : DoneLeg(w, i, p) \/ SkipLeg(w, i, p) \/ RemoveService(w, i, p)
         \/ \E p \in LegIds, s \in AnyOf :
              \/ AssignLeg(w, i, p, s, TRUE) \/ AssignLeg(w, i, p, s, FALSE) \/ HandLeg(w, i, p, s)
         \/ \E zone \in Zones, s \in AnyOf : AddService(w, i, zone, s)
         \/ \E from \in AnyOf, to \in Techs : FollowBooking(w, i, from, to)
  PROVE  Calm
<1>1. CASE DoneTicket(w, i)
  <2>1. \E legs : Change(w, i, "change", legs)
    BY <1>1, Zenon DEF DoneTicket
  <2> QED
    BY <2>1, ChangeCalm, Zenon
<1>2. ASSUME NEW p \in LegIds, DoneLeg(w, i, p) \/ SkipLeg(w, i, p) \/ RemoveService(w, i, p)
      PROVE  Calm
  <2>1. \E legs : Change(w, i, "change", legs) \/ Change(w, i, "pass", legs)
    BY <1>2, Zenon DEF DoneLeg, SkipLeg, RemoveService
  <2> QED
    BY <2>1, ChangeCalm, Zenon
<1>3. ASSUME NEW p \in LegIds, NEW s \in AnyOf,
             \/ AssignLeg(w, i, p, s, TRUE) \/ AssignLeg(w, i, p, s, FALSE) \/ HandLeg(w, i, p, s)
      PROVE  Calm
  <2>1. \E legs : Change(w, i, "change", legs)
    BY <1>3, Zenon DEF AssignLeg, HandLeg
  <2> QED
    BY <2>1, ChangeCalm, Zenon
<1>4. ASSUME NEW zone \in Zones, NEW s \in AnyOf, AddService(w, i, zone, s)
      PROVE  Calm
  <2>1. \E legs : Change(w, i, "change", legs)
    BY <1>4, Zenon DEF AddService
  <2> QED
    BY <2>1, ChangeCalm, Zenon
<1>5. ASSUME NEW from \in AnyOf, NEW to \in Techs, FollowBooking(w, i, from, to)
      PROVE  Calm
  <2>1. \E legs : Change(w, i, "change", legs)
    BY <1>5, Zenon DEF FollowBooking
  <2> QED
    BY <2>1, ChangeCalm, Zenon
<1> QED
  BY <1>1, <1>2, <1>3, <1>4, <1>5, Zenon

LEMMA UndoCalm ==
  ASSUME BoardTypeOK, NEW w \in Desks,
         (\E i \in Tickets, p \in LegIds : ReadDone(w, i, p)) \/ Reactivate(w)
  PROVE  Calm
<1>1. CASE Reactivate(w)
  <2>1. desk' = [desk EXCEPT ![w] = [desk[w] EXCEPT !.pc = "restore"]] /\ UNCHANGED <<ticket, byHand>>
    BY <1>1 DEF Reactivate
  <2>2. [desk[w] EXCEPT !.pc = "restore"].pc # "seat"
    BY DEF BoardTypeOK, Request
  <2> QED
    BY <2>1, <2>2, ReadCalm
<1>2. ASSUME NEW i \in Tickets, NEW p \in LegIds, ReadDone(w, i, p) PROVE Calm
  <2>1. PICK legs : desk' = [desk EXCEPT ![w] = Writes("reactivate", i, legs)]
    BY <1>2, Zenon DEF ReadDone
  <2>2. Writes("reactivate", i, legs).pc # "seat" /\ UNCHANGED <<ticket, byHand>>
    BY <1>2 DEF Writes, ReadDone
  <2> QED
    BY <2>1, <2>2, ReadCalm
<1> QED
  BY <1>1, <1>2

\* The till, cancelling, breaks, linking, housekeeping.
LEMMA TillCalm ==
  ASSUME BoardTypeOK, NEW w \in Desks, NEW i \in Tickets,
         \/ WaitPayment(w, i) \/ Checkout(w, i) \/ BeginCancelTicket(w, i)
         \/ BeginDeleteTicket(w, i)
  PROVE  Calm
<1>1. \A v \in Desks : desk'[v] = desk[v] \/ desk'[v].pc # "seat"
  BY DeskQuiet, DeskCalm DEF WaitPayment, Checkout, BeginCancelTicket, BeginDeleteTicket,
                             Restless, Holding, Doings
<1>2. \A j \in Tickets :
        \/ ticket'[j] = ticket[j]
        \/ /\ ticket[j].status \notin Empty /\ ticket'[j].status \notin Empty
           /\ ticket'[j].legs = ticket[j].legs
           /\ ticket'[j].status = "WAITING" => ticket[j].status = "WAITING"
           /\ ticket'[j].status # "SERVING" \/ ticket'[j].paying
  BY DEF BoardTypeOK, Ticket, WaitPayment, Checkout, BeginCancelTicket, BeginDeleteTicket,
         Empty, Exists, Shown
<1> QED
  BY <1>1, <1>2 DEF Calm, WaitPayment, Checkout, BeginCancelTicket, BeginDeleteTicket

LEMMA CancelCalm ==
  ASSUME BoardTypeOK, NEW w \in Desks,
         CancelTicket(w) \/ LinkBooking(w) \/ PairBooking(w) \/ BeginCheckIn(w)
  PROVE  Calm
<1>1. \A v \in Desks : desk'[v] = desk[v] \/ desk'[v].pc # "seat"
  BY DeskQuiet, DeskCalm DEF CancelTicket, LinkBooking, PairBooking, BeginCheckIn, Restless,
                             Holding, Doings
<1>2. \A j \in Tickets :
        \/ ticket'[j] = ticket[j]
        \/ /\ ticket[j].status \notin Empty /\ ticket'[j].status \notin Empty
           /\ ticket'[j].legs = ticket[j].legs
           /\ ticket'[j].status = "WAITING" => ticket[j].status = "WAITING"
           /\ ticket'[j].status = "SERVING" /\ ~ticket'[j].paying
                => ticket[j].status = "SERVING" /\ ~ticket[j].paying
  BY DEF BoardTypeOK, Ticket, CancelTicket, LinkBooking, PairBooking, BeginCheckIn,
         Empty, Exists
<1> QED
  BY <1>1, <1>2 DEF Calm, OnFloor, CancelTicket, LinkBooking, PairBooking, BeginCheckIn

LEMMA AloneCalm ==
  ASSUME BoardTypeOK, NEW i \in Tickets, NoShow(i) \/ MoveToStation(i) \/ CloseUnpaid(i)
  PROVE  Calm
<1>1. \A j \in Tickets :
        \/ ticket'[j] = ticket[j]
        \/ /\ ticket[j].status \notin Empty /\ ticket'[j].status \notin Empty
           /\ ticket'[j].legs = ticket[j].legs
           /\ ticket'[j].status = "WAITING" => ticket[j].status = "WAITING"
           /\ \/ ticket'[j].status # "SERVING"
              \/ \A p \in Serving(j) : <<j, p, ticket[j].legs[p].tech>> \in byHand'
  BY DEF BoardTypeOK, Ticket, NoShow, MoveToStation, CloseUnpaid, Empty, Shown
<1> QED
  BY <1>1 DEF Calm, NoShow, MoveToStation, CloseUnpaid

LEMMA BreakCalm ==
  ASSUME BoardTypeOK, NEW w \in Desks, NEW s \in Techs, StartBreak(s) \/ EndBreak(w, s)
  PROVE  Calm
<1>1. \A v \in Desks : desk'[v] = desk[v] \/ desk'[v].pc # "seat"
  BY DeskQuiet, DeskCalm DEF StartBreak, EndBreak, Doings, Restless, Holding
<1> QED
  BY <1>1 DEF Calm, StartBreak, EndBreak

LEMMA KeepingCalm ==
  ASSUME BoardTypeOK, (\E i \in Tickets : SeeStale(i)) \/ ParkStale \/ RestartFloor
  PROVE  Calm
<1>1. \A v \in Desks : desk'[v] = desk[v] \/ desk'[v].pc # "seat"
  <2>1. CASE RestartFloor
    BY <2>1 DEF RestartFloor, Rested
  <2>2. CASE (\E i \in Tickets : SeeStale(i)) \/ ParkStale
    BY <2>2, DeskQuiet, DeskCalm, FloorAssumption DEF SeeStale, ParkStale, Doings, Restless, Holding
  <2> QED
    BY <2>1, <2>2
<1>2. \A j \in Tickets :
        \/ ticket'[j] = ticket[j]
        \/ /\ ticket[j].status \notin Empty /\ ticket'[j].status \notin Empty
           /\ ticket'[j].legs = ticket[j].legs
           /\ ticket'[j].status = "WAITING" => ticket[j].status = "WAITING"
           /\ ticket'[j].paying
  BY DEF BoardTypeOK, Ticket, SeeStale, ParkStale, RestartFloor, Empty, OnFloor
<1> QED
  BY <1>1, <1>2 DEF Calm, SeeStale, ParkStale, RestartFloor

LEMMA AddWalkInCalm ==
  ASSUME BoardTypeOK, NEW w \in Desks, NEW i \in Tickets, NEW zones \in Visits, NEW s \in AnyOf,
         AddWalkIn(w, i, zones, s)
  PROVE  Calm
<1> DEFINE row == [NoTicket EXCEPT !.status = "WAITING", !.place = 2 * i,
                                   !.legs = NewLegs(zones, s)]
<1>1. ticket[i].status = "none" /\ ticket' = [ticket EXCEPT ![i] = row] /\ byHand' = byHand
  BY Zenon DEF AddWalkIn, NextTicket
<1>2. Settles(w) \/ Goes(w, "link", i) \/ Leaves(w)
  BY Zenon DEF AddWalkIn
<1>3. \A v \in Desks : desk'[v] = desk[v] \/ desk'[v].pc # "seat"
  <2>1. "link" \in Doings \ Restless
    BY DEF Doings, Restless, Holding
  <2> QED
    BY <1>2, <2>1, DeskQuiet, DeskCalm
<1>4. row.status = "WAITING" /\ row.legs = NewLegs(zones, s)
  BY DEF NoTicket
<1>5. \A p \in LegIds : NewLegs(zones, s)[p].status # "SERVING"
  BY DEF NewLegs, NoLeg
<1> HIDE DEF row
<1>6. ticket'[i] = row /\ \A j \in Tickets : j # i => ticket'[j] = ticket[j]
  BY <1>1 DEF BoardTypeOK
<1> QED
  BY <1>1, <1>3, <1>4, <1>5, <1>6 DEF Calm

\* Checked in: the technician starts because the desk says so.
LEMMA CheckInCalm ==
  ASSUME BoardTypeOK, NEW w \in Desks, NEW i \in Tickets, NEW zones \in Visits, NEW s \in AnyOf,
         CheckIn(w, i, zones, s)
  PROVE  Calm
<1> DEFINE first  == NewLegs(zones, s)
           legs   == [first EXCEPT ![1].status = IF s = Nobody THEN @ ELSE "SERVING"]
           status == IF s = Nobody THEN "WAITING" ELSE "SERVING"
           row(k) == [NoTicket EXCEPT !.status = status,
                                      !.booked = TRUE, !.place = 2 * k - 1, !.legs = legs]
<1>1. /\ ticket[i].status = "none"
      /\ \E k \in Tickets : ticket' = [ticket EXCEPT ![i] = row(k)]
  BY Zenon DEF CheckIn, NextTicket
<1>2. byHand' = IF s = Nobody THEN byHand ELSE byHand \cup {<<i, 1, s>>}
  BY Zenon DEF CheckIn
<1>3. \A v \in Desks : desk'[v] = desk[v] \/ desk'[v].pc # "seat"
  <2>1. Settles(w)
    BY Zenon DEF CheckIn
  <2>2. "settle" \in Doings \ Restless
    BY DEF Doings, Restless, Holding
  <2> QED
    BY <2>1, <2>2, DeskQuiet, DeskCalm
<1>4. \A p \in LegIds : legs[p].status = "SERVING" =>
        s # Nobody /\ p = 1 /\ legs[p].tech \in {Nobody, s}
  <2>1. first \in Board
    BY NewLegsOK
  <2>2. \A p \in LegIds : first[p].status # "SERVING" /\ first[p].tech \in {Nobody, s}
    BY DEF NewLegs, NoLeg
  <2> HIDE DEF first
  <2> QED
    BY <2>1, <2>2 DEF Board, Leg
<1> HIDE DEF legs
<1>5. \A k \in Tickets : row(k).status = status /\ row(k).legs = legs
  BY DEF NoTicket
<1>6. PICK k \in Tickets : ticket' = [ticket EXCEPT ![i] = row(k)]
  BY <1>1, Zenon
<1> HIDE DEF row
<1>7. ticket'[i] = row(k) /\ \A j \in Tickets : j # i => ticket'[j] = ticket[j]
  BY <1>6 DEF BoardTypeOK
<1>8. \A p \in LegIds : ticket'[i].legs[p].status = "SERVING" =>
        /\ ticket'[i].status = "SERVING"
        /\ ticket'[i].legs[p].tech = Nobody \/ <<i, p, ticket'[i].legs[p].tech>> \in byHand'
        /\ \A q \in LegIds : ticket'[i].legs[q].status = "SERVING" => q = p
  BY <1>2, <1>4, <1>5, <1>7
<1> QED
  BY <1>1, <1>2, <1>3, <1>5, <1>7, <1>8 DEF Calm

LEMMA DeleteCalm ==
  ASSUME BoardTypeOK, NEW w \in Desks, DeleteTicket(w)
  PROVE  Calm
<1> DEFINE i   == desk[w].ticket
           row == [NoTicket EXCEPT !.status = "deleted"]
<1>1. row.status = "deleted"
  BY DEF NoTicket
<1>2. ticket' = [ticket EXCEPT ![i] = row] /\ byHand' = byHand
  BY DEF DeleteTicket
<1>3. \A v \in Desks : desk'[v] = desk[v] \/ desk'[v].pc # "seat"
  <2>1. "idle" \in Doings \ Restless
    BY DEF Doings, Restless, Holding
  <2> QED
    BY <2>1, DeskQuiet, DeskCalm DEF DeleteTicket
<1> HIDE DEF row, i
<1>4. \A j \in Tickets : ticket'[j] = ticket[j] \/ ticket'[j].status = "deleted"
  BY <1>1, <1>2 DEF BoardTypeOK
<1> QED
  BY <1>2, <1>3, <1>4 DEF Calm

\* The order of the queue leaves no two parts level.
LEMMA AheadTotal ==
  ASSUME BoardTypeOK, NEW l \in Tickets \X LegIds, NEW m \in Tickets \X LegIds, l # m
  PROVE  Ahead(l, m) \/ Ahead(m, l)
<1>1. PICK i \in Tickets, p \in LegIds : l = <<i, p>>
  OBVIOUS
<1>2. PICK j \in Tickets, q \in LegIds : m = <<j, q>>
  OBVIOUS
<1>3. ticket[i].place \in Nat /\ ticket[j].place \in Nat
  BY DEF BoardTypeOK, Ticket
<1>4. i \in Nat /\ j \in Nat /\ p \in Nat /\ q \in Nat
  BY FloorAssumption
<1>5. i # j \/ p # q
  BY <1>1, <1>2
<1>6. Started(i) \in BOOLEAN /\ Started(j) \in BOOLEAN
  BY DEF Started
<1>7. i = j => Started(i) = Started(j) /\ ticket[i].place = ticket[j].place
  OBVIOUS
<1>8. \/ Started(i) /\ ~Started(j)
      \/ Started(j) /\ ~Started(i)
      \/ Started(i) = Started(j)
  BY <1>6
<1> QED
  BY <1>1, <1>2, <1>3, <1>4, <1>5, <1>7, <1>8 DEF Ahead

\* A plan gives a part to someone free, and nobody two parts.
LEMMA PlanApart ==
  ASSUME BoardTypeOK, NEW f \in Plans, NEW l \in Queue, f[l] # Nobody
  PROVE  /\ f[l] \in Techs /\ f[l] \notin Busy
         /\ \A m \in Queue : f[m] = f[l] => m = l
<1>1. \A m \in Queue : f[m] # Nobody => f[m] \in Takers(m, f)
  BY DEF Plans, Picks
<1>2. \A m \in Queue : f[m] # Nobody =>
        f[m] \in (Techs \ (away \cup Busy)) \ {f[n] : n \in {k \in Queue : Ahead(k, m)}}
  <2> SUFFICES ASSUME NEW m \in Queue, f[m] # Nobody
               PROVE  f[m] \in (Techs \ (away \cup Busy)) \ {f[n] : n \in {k \in Queue : Ahead(k, m)}}
    OBVIOUS
  <2> DEFINE free == (Techs \ (away \cup Busy)) \ {f[n] : n \in {k \in Queue : Ahead(k, m)}}
  <2>1. f[m] \in Takers(m, f)
    BY <1>1
  <2>2. Takers(m, f) \subseteq free
    <3> HIDE DEF free
    <3>1. Takers(m, f) = (IF \E z \in RunningBeside(m, f) : ~CanRunTogether(z, LegAt(m).zone) THEN {}
                          ELSE IF LegAt(m).pinned THEN free \cap {LegAt(m).tech}
                          ELSE (free \cap Able(LegAt(m).zone)) \ LegAt(m).skipped)
      BY Zenon DEF Takers, free
    <3> QED
      BY <3>1
  <2> QED
    BY <2>1, <2>2
<1>3. ASSUME NEW m \in Queue, f[m] = f[l], m # l PROVE FALSE
  <2>1. l \in Tickets \X LegIds /\ m \in Tickets \X LegIds
    BY DEF Queue
  <2>2. Ahead(l, m) \/ Ahead(m, l)
    BY <1>3, <2>1, AheadTotal
  <2> QED
    BY <1>2, <1>3, <2>2
<1> QED
  BY <1>2, <1>3

LEMMA WorkIsBusy ==
  ASSUME NEW i \in Tickets, NEW p \in LegIds, AtWork(i, p)
  PROVE  ticket[i].legs[p].tech \in Busy
BY DEF AtWork, Busy, Serving, Present

LEMMA SeatedAt ==
  ASSUME BoardTypeOK, NEW i \in Tickets, NEW f \in Plans, NEW p \in LegIds
  PROVE  \/ /\ <<i, p>> \in Queue /\ f[<<i, p>>] # Nobody
            /\ Seated(i, f)[p].tech = f[<<i, p>>]
            /\ ticket[i].legs[p].status # "SERVING"
         \/ Seated(i, f)[p] = ticket[i].legs[p]
<1>1. CASE <<i, p>> \in Queue /\ f[<<i, p>>] # Nobody
  <2>1. Seated(i, f)[p] = [ticket[i].legs[p] EXCEPT !.status = "SERVING", !.tech = f[<<i, p>>]]
    BY <1>1 DEF Seated
  <2>2. ticket[i].legs[p].status = "WAITING" /\ ticket[i].legs[p] \in Leg
    BY <1>1, LegsOK DEF Queue, LegAt
  <2>3. Seated(i, f)[p].tech = f[<<i, p>>]
    BY <2>1, <2>2 DEF Leg
  <2> QED
    BY <1>1, <2>2, <2>3
<1>2. CASE ~(<<i, p>> \in Queue /\ f[<<i, p>>] # Nobody)
  BY <1>2 DEF Seated
<1> QED
  BY <1>1, <1>2

LEMMA DispatchSeats ==
  ASSUME BoardTypeOK, BoardTypeOK', SeatInv, NEW w \in Desks, Dispatch(w)
  PROVE  SeatInv'
<1>0. UNCHANGED <<ticket, byHand>> /\ LockFree
  BY DEF Dispatch
<1>1. PICK f \in Plans :
        LET seats == {i \in Tickets : \E p \in LegIds : <<i, p>> \in Queue /\ f[<<i, p>>] # Nobody}
        IN  IF seats = {} THEN Leaves(w)
            ELSE desk' = [desk EXCEPT ![w] =
                   [Rested EXCEPT !.pc = "seat", !.todo = seats,
                                  !.legs = [i \in Tickets |-> IF i \in seats THEN Seated(i, f)
                                                              ELSE NoLegs]]]
  BY Zenon DEF Dispatch
<1> DEFINE seats == {i \in Tickets : \E p \in LegIds : <<i, p>> \in Queue /\ f[<<i, p>>] # Nobody}
           legs  == [i \in Tickets |-> IF i \in seats THEN Seated(i, f) ELSE NoLegs]
           new   == [Rested EXCEPT !.pc = "seat", !.todo = seats, !.legs = legs]
<1>2. \A i \in seats : /\ i \in Tickets /\ ticket[i].status \in {"WAITING", "SERVING"}
                       /\ ~ticket[i].paying /\ legs[i] = Seated(i, f)
  BY DEF Queue
<1>3. new.pc = "seat" /\ new.todo = seats /\ new.legs = legs
  BY DEF Rested
<1>4. seats = {} => Leaves(w)
  BY <1>1
<1>5. seats # {} => desk' = [desk EXCEPT ![w] = new]
  BY <1>1
<1> HIDE DEF seats, legs, new
<1>6. CASE Leaves(w)
  <2>1. \A v \in Desks : desk'[v] = desk[v] \/ desk'[v].pc # "seat"
    <3>1. "idle" \in Doings \ Restless
      BY DEF Doings, Restless, Holding
    <3> QED
      BY <1>6, <3>1, DeskQuiet, DeskCalm
  <2>2. Calm
    BY <1>0, <2>1 DEF Calm
  <2> QED
    BY <2>2, CalmSeats
<1>7. CASE desk' = [desk EXCEPT ![w] = new]
  <2>1. /\ desk'[w].pc = "seat" /\ desk'[w].todo = seats /\ desk'[w].legs = legs
        /\ \A v \in Desks : v # w => desk'[v].pc # "seat"
    BY <1>0, <1>3, <1>7 DEF BoardTypeOK, LockFree, Holding
  <2>2. WaitsIdle' /\ OneEach'
    BY <1>0 DEF SeatInv, WaitsIdle, OneEach, AtWork, OnFloor, Serving, Present
  <2>3. ASSUME NEW i \in seats, NEW p \in LegIds
        PROVE  \/ /\ <<i, p>> \in Queue /\ f[<<i, p>>] # Nobody
                  /\ legs[i][p].tech = f[<<i, p>>]
                  /\ ticket[i].legs[p].status # "SERVING"
               \/ legs[i][p] = ticket[i].legs[p]
    <3>1. i \in Tickets /\ legs[i] = Seated(i, f)
      BY <1>2
    <3> QED
      BY <3>1, SeatedAt
  <2>4. SeatsKeep(w)'
    <3> SUFFICES ASSUME NEW i \in seats
                 PROVE  /\ ticket[i].status # "none"
                        /\ \A p \in LegIds : ticket[i].legs[p].status = "SERVING"
                                               => legs[i][p] = ticket[i].legs[p]
      BY <1>0, <2>1 DEF SeatsKeep
    <3> QED
      BY <1>2, <2>3
  <2>5. ASSUME NEW i \in Tickets, NEW p \in LegIds, ToSit(w, i, p)'
        PROVE  \/ /\ <<i, p>> \in Queue /\ f[<<i, p>>] # Nobody
                  /\ legs[i][p].tech = f[<<i, p>>]
               \/ AtWork(i, p) /\ legs[i][p].tech = ticket[i].legs[p].tech
    <3>1. /\ i \in seats /\ legs[i][p].status = "SERVING" /\ legs[i][p].tech # Nobody
          /\ SameHands(ticket[i].legs[p], legs[i][p]) => <<i, p, legs[i][p].tech>> \notin byHand
      BY <1>0, <2>1, <2>5 DEF ToSit, SameHands
    <3>2. CASE legs[i][p] = ticket[i].legs[p]
      <4>1. p \in Serving(i) /\ <<i, p, legs[i][p].tech>> \notin byHand
        BY <3>1, <3>2 DEF Serving, Present, SameHands
      <4>2. OnFloor(i)
        BY <1>2, <3>1, <4>1 DEF SeatInv, WaitsIdle, OnFloor
      <4> QED
        BY <3>1, <3>2, <4>1, <4>2 DEF AtWork
    <3> QED
      BY <2>3, <3>1, <3>2
  <2>6. SeatsApart(w)'
    <3> SUFFICES ASSUME NEW i \in Tickets, NEW j \in Tickets, NEW p \in LegIds, NEW q \in LegIds,
                        ToSit(w, i, p)'
                 PROVE  /\ AtWork(j, q) /\ j \notin seats => legs[i][p].tech # ticket[j].legs[q].tech
                        /\ ToSit(w, j, q)' /\ legs[i][p].tech = legs[j][q].tech => i = j /\ p = q
      BY <1>0, <2>1 DEF SeatsApart, AtWork, OnFloor
    <3>1. i \in seats
      BY <2>1 DEF ToSit
    <3>2. CASE <<i, p>> \in Queue /\ f[<<i, p>>] # Nobody /\ legs[i][p].tech = f[<<i, p>>]
      <4>1. /\ legs[i][p].tech \notin Busy
            /\ \A m \in Queue : f[m] = legs[i][p].tech => m = <<i, p>>
        BY <3>2, PlanApart
      <4>2. AtWork(j, q) => legs[i][p].tech # ticket[j].legs[q].tech
        BY <4>1, WorkIsBusy
      <4>3. ASSUME ToSit(w, j, q)', legs[i][p].tech = legs[j][q].tech PROVE i = j /\ p = q
        <5>1. \/ /\ <<j, q>> \in Queue /\ f[<<j, q>>] # Nobody
                 /\ legs[j][q].tech = f[<<j, q>>]
              \/ AtWork(j, q) /\ legs[j][q].tech = ticket[j].legs[q].tech
          BY <2>5, <4>3
        <5>2. <<j, q>> = <<i, p>>
          BY <4>1, <4>2, <4>3, <5>1
        <5> QED
          BY <5>2
      <4> QED
        BY <4>2, <4>3
    <3>3. CASE AtWork(i, p) /\ legs[i][p].tech = ticket[i].legs[p].tech
      <4>1. AtWork(j, q) /\ legs[i][p].tech = ticket[j].legs[q].tech => i = j /\ p = q
        BY <3>3 DEF SeatInv, OneEach
      <4>2. ASSUME ToSit(w, j, q)', legs[i][p].tech = legs[j][q].tech PROVE i = j /\ p = q
        <5>1. CASE <<j, q>> \in Queue /\ f[<<j, q>>] # Nobody /\ legs[j][q].tech = f[<<j, q>>]
          <6>1. legs[j][q].tech \notin Busy
            BY <5>1, PlanApart
          <6> QED
            BY <3>3, <4>2, <6>1, WorkIsBusy
        <5>2. CASE AtWork(j, q) /\ legs[j][q].tech = ticket[j].legs[q].tech
          BY <4>1, <4>2, <5>2
        <5> QED
          BY <2>5, <4>2, <5>1, <5>2
      <4> QED
        BY <3>1, <4>1, <4>2
    <3> QED
      BY <2>5, <3>2, <3>3
  <2> QED
    BY <2>1, <2>2, <2>4, <2>6 DEF SeatInv
<1> QED
  BY <1>4, <1>5, <1>6, <1>7

\* What a write does, for whoever holds the lock.
PutOf(w, i) ==
  LET legs  == desk[w].legs[i]
      kept  == {x \in byHand : x[1] # i \/ x \in Serves(i, legs)}
      fresh == Serves(i, legs) \ Serves(i, ticket[i].legs)
  IN  /\ i \in desk[w].todo /\ i \in Tickets /\ legs \in Board
      /\ byHand' = IF desk[w].pc = "seat" THEN kept \ fresh
                   ELSE kept \cup Renewed(i, legs) \cup (IF OnFloor(i) THEN fresh ELSE Serves(i, legs))
      /\ \A v \in Desks : v # w => desk'[v].pc \notin Holding
      /\ \/ desk'[w].pc \notin Restless
         \/ /\ desk'[w].pc = desk[w].pc /\ desk'[w].todo = desk[w].todo \ {i}
            /\ \A j \in desk[w].todo \ {i} : desk'[w].legs[j] = desk[w].legs[j]
      /\ \A j \in Tickets : j # i => ticket'[j] = ticket[j]
      /\ Exists(i) => /\ ticket'[i].legs = legs /\ ticket'[i].status = SyncTicket(legs)
                      /\ ticket'[i].paying = ticket[i].paying
      /\ ~Exists(i) => ticket'[i] = ticket[i]

LEMMA PutFacts ==
  ASSUME BoardTypeOK, OneHolder, NEW w \in Desks, PutTicket(w)
  PROVE  \E i \in Tickets : PutOf(w, i)
<1>1. PICK i \in desk[w].todo :
        LET legs  == desk[w].legs[i]
            rest  == desk[w].todo \ {i}
            kept  == {x \in byHand : x[1] # i \/ x \in Serves(i, legs)}
            fresh == Serves(i, legs) \ Serves(i, ticket[i].legs)
        IN  /\ ticket' = WriteItems(i, legs)
            /\ byHand' = IF DeskAt(w, "seat") THEN kept \ fresh
                         ELSE kept \cup Renewed(i, legs) \cup (IF OnFloor(i) THEN fresh ELSE Serves(i, legs))
            /\ IF rest # {}
               THEN desk' = [desk EXCEPT ![w] =
                               [pc |-> @.pc, ticket |-> @.ticket, todo |-> rest,
                                legs |-> [desk[w].legs EXCEPT ![i] = NoLegs]]]
               ELSE IF desk[w].pc \in {"seat", "restore"} THEN Leaves(w) ELSE Settles(w)
  BY DEF PutTicket
<1> DEFINE legs == desk[w].legs[i]  rest == desk[w].todo \ {i}
           kept  == {x \in byHand : x[1] # i \/ x \in Serves(i, legs)}
           fresh == Serves(i, legs) \ Serves(i, ticket[i].legs)
<1>0. /\ desk[w].pc \in Holding /\ i \in Tickets /\ legs \in Board
      /\ desk \in [Desks -> Request] /\ ticket \in [Tickets -> Ticket]
  BY DEF BoardTypeOK, Request, PutTicket, Board
<1>2. byHand' = IF desk[w].pc = "seat" THEN kept \ fresh
                ELSE kept \cup Renewed(i, legs) \cup (IF OnFloor(i) THEN fresh ELSE Serves(i, legs))
  BY <1>1 DEF DeskAt
<1>3. /\ \A v \in Desks : v # w => desk'[v].pc \notin Holding
      /\ \/ desk'[w].pc \notin Restless
         \/ /\ desk'[w].pc = desk[w].pc /\ desk'[w].todo = rest
            /\ \A j \in rest : desk'[w].legs[j] = desk[w].legs[j]
  <2>1. \A v \in Desks : v # w => desk[v].pc \notin Holding
    BY <1>0 DEF OneHolder
  <2>2. CASE rest # {}
    <3> DEFINE new == [pc |-> desk[w].pc, ticket |-> desk[w].ticket, todo |-> rest,
                       legs |-> [desk[w].legs EXCEPT ![i] = NoLegs]]
    <3>1. desk' = [desk EXCEPT ![w] = new]
      BY <1>1, <2>2
    <3>2. desk'[w] = new /\ \A v \in Desks : v # w => desk'[v] = desk[v]
      BY <1>0, <3>1
    <3>3. \A j \in rest : new.legs[j] = desk[w].legs[j]
      BY <1>0 DEF Request
    <3> QED
      BY <2>1, <3>2, <3>3
  <2>3. CASE rest = {}
    <3>1. CASE Leaves(w)
      BY <1>0, <2>1, <3>1 DEF Leaves, Rested, Restless, Holding
    <3>2. CASE Settles(w)
      <4> DEFINE new == [Rested EXCEPT !.pc = "settle", !.ticket = 0]
      <4>1. desk' = [desk EXCEPT ![w] = new] /\ new.pc = "settle"
        BY <3>2 DEF Settles, Goes, Rested
      <4> HIDE DEF new
      <4> QED
        BY <1>0, <2>1, <4>1 DEF Restless, Holding
    <3> QED
      BY <1>1, <2>3, <3>1, <3>2
  <2> QED
    BY <2>2, <2>3
<1>4. /\ \A j \in Tickets : j # i => ticket'[j] = ticket[j]
      /\ Exists(i) => /\ ticket'[i].legs = legs /\ ticket'[i].status = SyncTicket(legs)
                      /\ ticket'[i].paying = ticket[i].paying
      /\ ~Exists(i) => ticket'[i] = ticket[i]
  <2>1. CASE Exists(i)
    <3>1. ticket' = [ticket EXCEPT ![i].legs = legs, ![i].status = SyncTicket(legs)]
      BY <1>1, <2>1 DEF WriteItems
    <3> QED
      BY <1>0, <2>1, <3>1 DEF Ticket
  <2>2. CASE ~Exists(i)
    BY <1>1, <2>2 DEF WriteItems
  <2> QED
    BY <2>1, <2>2
<1> HIDE DEF kept, fresh
<1>5. PutOf(w, i)
  BY <1>0, <1>2, <1>3, <1>4 DEF PutOf, kept, fresh
<1> QED
  BY <1>0, <1>5

LEMMA SyncWaiting ==
  ASSUME NEW legs \in Board, SyncTicket(legs) = "WAITING", NEW p \in LegIds
  PROVE  legs[p].status # "SERVING"
BY DEF SyncTicket

\* Whoever is at work after a write was so before, or was to sit by it.
LEMMA PutWork ==
  ASSUME BoardTypeOK, NEW w \in Desks, NEW i \in Tickets, PutOf(w, i),
         NEW j \in Tickets, NEW p \in LegIds, AtWork(j, p)'
  PROVE  IF j = i /\ desk[w].pc = "seat"
         THEN ToSit(w, i, p) /\ ticket'[i].legs[p].tech = desk[w].legs[i][p].tech
         ELSE AtWork(j, p) /\ ticket'[j].legs[p].tech = ticket[j].legs[p].tech
<1> DEFINE legs  == desk[w].legs[i]
           kept  == {x \in byHand : x[1] # i \/ x \in Serves(i, legs)}
           fresh == Serves(i, legs) \ Serves(i, ticket[i].legs)
           y     == <<j, p, ticket'[j].legs[p].tech>>
<1>1. /\ i \in desk[w].todo
      /\ byHand' = IF desk[w].pc = "seat" THEN kept \ fresh
                   ELSE kept \cup Renewed(i, legs) \cup (IF OnFloor(i) THEN fresh ELSE Serves(i, legs))
      /\ \A k \in Tickets : k # i => ticket'[k] = ticket[k]
      /\ Exists(i) => ticket'[i].legs = legs /\ ticket'[i].paying = ticket[i].paying
      /\ ~Exists(i) => ticket'[i] = ticket[i]
  BY DEF PutOf
<1>2. /\ ticket'[j].status = "SERVING" /\ ~ticket'[j].paying
      /\ ticket'[j].legs[p].status = "SERVING" /\ ticket'[j].legs[p].tech # Nobody
      /\ y \notin byHand'
  BY DEF AtWork, OnFloor
<1>3. CASE j # i
  <2>1. y \notin fresh
    BY <1>3 DEF Serves
  <2>2. y \notin kept
    BY <1>1, <1>2, <2>1
  <2>3. y \notin byHand
    BY <1>3, <2>2
  <2> QED
    BY <1>1, <1>2, <1>3, <2>3 DEF AtWork, OnFloor
<1>4. CASE j = i
  <2>1. Exists(i) /\ ticket'[i].legs = legs /\ ticket[i].status # "deleted"
    BY <1>1, <1>2, <1>4 DEF Exists
  <2>2. y \in Serves(i, legs)
    BY <1>2, <1>4, <2>1 DEF Serves
  <2>3. y \notin kept => y \notin byHand
    BY <2>2
  <2>4. y \in Serves(i, ticket[i].legs) <=> SameHands(ticket[i].legs[p], legs[p])
    BY <1>4, <2>1 DEF Serves, SameHands
  <2>5. CASE desk[w].pc = "seat"
    <3>1. SameHands(ticket[i].legs[p], legs[p]) => y \notin byHand
      BY <1>1, <1>2, <2>3, <2>4, <2>5
    <3> QED
      BY <1>1, <1>2, <1>4, <2>1, <2>5, <3>1 DEF ToSit
  <2>6. CASE desk[w].pc # "seat"
    <3>1. OnFloor(i) /\ y \notin fresh /\ y \notin kept
      BY <1>1, <1>2, <2>2, <2>6
    <3>2. SameHands(ticket[i].legs[p], legs[p]) /\ y \notin byHand
      BY <2>2, <2>3, <2>4, <3>1
    <3> QED
      BY <1>2, <1>4, <2>1, <2>6, <3>1, <3>2 DEF AtWork, SameHands
  <2> QED
    BY <2>5, <2>6
<1> QED
  BY <1>3, <1>4

\* While its ticket has been left alone, a part that is served stays with her in the plan.
LEMMA WorkSits ==
  ASSUME NEW w \in Desks, SeatsKeep(w), NEW j \in Tickets, j \in desk[w].todo,
         NEW q \in LegIds, AtWork(j, q)
  PROVE  ToSit(w, j, q) /\ desk[w].legs[j][q].tech = ticket[j].legs[q].tech
<1>1. ticket[j].status = "SERVING" /\ ticket[j].legs[q].status = "SERVING"
  BY DEF AtWork, OnFloor
<1>2. desk[w].legs[j][q] = ticket[j].legs[q]
  BY <1>1 DEF SeatsKeep
<1> QED
  BY <1>1, <1>2 DEF AtWork, ToSit

LEMMA SitApart ==
  ASSUME NEW w \in Desks, SeatsApart(w),
         NEW i \in Tickets, NEW p \in LegIds, ToSit(w, i, p),
         NEW j \in Tickets, NEW q \in LegIds, ToSit(w, j, q),
         desk[w].legs[i][p].tech = desk[w].legs[j][q].tech
  PROVE  i = j /\ p = q
BY DEF SeatsApart

LEMMA SitNotAtWork ==
  ASSUME NEW w \in Desks, SeatsApart(w),
         NEW i \in Tickets, NEW p \in LegIds, ToSit(w, i, p),
         NEW j \in Tickets, NEW q \in LegIds, j \notin desk[w].todo, AtWork(j, q)
  PROVE  desk[w].legs[i][p].tech # ticket[j].legs[q].tech
BY DEF SeatsApart

LEMMA PutTicketSeats ==
  ASSUME BoardTypeOK, OneHolder, SeatInv, NEW w \in Desks, PutTicket(w)
  PROVE  SeatInv'
<1>1. PICK i \in Tickets : PutOf(w, i)
  BY PutFacts
<1>2. /\ i \in desk[w].todo /\ desk[w].legs[i] \in Board
      /\ \A v \in Desks : v # w => desk'[v].pc \notin Holding
      /\ \/ desk'[w].pc \notin Restless
         \/ /\ desk'[w].pc = desk[w].pc /\ desk'[w].todo = desk[w].todo \ {i}
            /\ \A j \in desk[w].todo \ {i} : desk'[w].legs[j] = desk[w].legs[j]
      /\ \A j \in Tickets : j # i => ticket'[j] = ticket[j]
  BY <1>1 DEF PutOf
<1>3. WaitsIdle'
  <2> SUFFICES ASSUME NEW j \in Tickets, ticket'[j].status = "WAITING", NEW p \in LegIds,
                      ticket'[j].legs[p].status = "SERVING"
               PROVE  FALSE
    BY DEF WaitsIdle, Serving, Present
  <2>1. ticket'[j] # ticket[j]
    BY DEF SeatInv, WaitsIdle, Serving, Present
  <2>2. j = i /\ ticket'[i].legs = desk[w].legs[i] /\ ticket'[i].status = SyncTicket(desk[w].legs[i])
    BY <1>1, <2>1 DEF PutOf
  <2> QED
    BY <1>2, <2>2, SyncWaiting
<1>4. ASSUME NEW p \in LegIds, AtWork(i, p)', desk[w].pc = "seat",
             NEW j \in Tickets, NEW q \in LegIds, AtWork(j, q)',
             ticket'[i].legs[p].tech = ticket'[j].legs[q].tech
      PROVE  i = j /\ p = q
  <2>1. /\ ToSit(w, i, p) /\ ticket'[i].legs[p].tech = desk[w].legs[i][p].tech
        /\ SeatsKeep(w) /\ SeatsApart(w)
    BY <1>1, <1>4, PutWork DEF SeatInv
  <2>2. CASE j = i
    <3>1. ToSit(w, i, q) /\ ticket'[i].legs[q].tech = desk[w].legs[i][q].tech
      BY <1>1, <1>4, <2>2, PutWork
    <3>2. desk[w].legs[i][p].tech = desk[w].legs[i][q].tech
      BY <1>4, <2>1, <2>2, <3>1
    <3>3. p = q
      BY <2>1, <3>1, <3>2, SitApart
    <3> QED
      BY <2>2, <3>3
  <2>3. CASE j # i
    <3>1. AtWork(j, q) /\ ticket'[j].legs[q].tech = ticket[j].legs[q].tech
      BY <1>1, <1>4, <2>3, PutWork
    <3>2. desk[w].legs[i][p].tech = ticket[j].legs[q].tech
      BY <1>4, <2>1, <3>1
    <3>3. CASE j \notin desk[w].todo
      BY <2>1, <3>1, <3>2, <3>3, SitNotAtWork
    <3>4. CASE j \in desk[w].todo
      <4>1. ToSit(w, j, q) /\ desk[w].legs[j][q].tech = ticket[j].legs[q].tech
        BY <2>1, <3>1, <3>4, WorkSits
      <4>2. desk[w].legs[i][p].tech = desk[w].legs[j][q].tech
        BY <3>2, <4>1
      <4> QED
        BY <2>1, <4>1, <4>2, SitApart
    <3> QED
      BY <3>3, <3>4
  <2> QED
    BY <2>2, <2>3
<1>5. OneEach'
  <2> SUFFICES ASSUME NEW j \in Tickets, NEW k \in Tickets, NEW p \in LegIds, NEW q \in LegIds,
                      AtWork(j, p)', AtWork(k, q)',
                      ticket'[j].legs[p].tech = ticket'[k].legs[q].tech
               PROVE  j = k /\ p = q
    BY DEF OneEach
  <2>1. CASE desk[w].pc = "seat" /\ j = i
    BY <1>4, <2>1
  <2>2. CASE desk[w].pc = "seat" /\ k = i
    BY <1>4, <2>2
  <2>3. CASE desk[w].pc # "seat" \/ (j # i /\ k # i)
    <3>1. /\ AtWork(j, p) /\ ticket'[j].legs[p].tech = ticket[j].legs[p].tech
          /\ AtWork(k, q) /\ ticket'[k].legs[q].tech = ticket[k].legs[q].tech
      BY <1>1, <2>3, PutWork
    <3> QED
      BY <3>1 DEF SeatInv, OneEach
  <2> QED
    BY <2>1, <2>2, <2>3
<1>6. ASSUME NEW v \in Desks, desk'[v].pc = "seat" PROVE SeatsKeep(v)' /\ SeatsApart(v)'
  <2>1. /\ v = w /\ desk[w].pc = "seat" /\ desk'[w].todo = desk[w].todo \ {i}
        /\ \A j \in desk[w].todo \ {i} : desk'[w].legs[j] = desk[w].legs[j]
    BY <1>2, <1>6 DEF Restless, Holding
  <2>2. SeatsKeep(w) /\ SeatsApart(w)
    BY <2>1 DEF SeatInv
  <2>3. SeatsKeep(w)'
    <3> SUFFICES ASSUME NEW j \in desk[w].todo \ {i}
                 PROVE  /\ ticket'[j].status # "none"
                        /\ ticket'[j].status # "deleted" =>
                             \A p \in LegIds : ticket'[j].legs[p].status = "SERVING"
                                                 => desk'[w].legs[j][p] = ticket'[j].legs[p]
      BY <2>1 DEF SeatsKeep
    <3>1. j \in Tickets
      BY DEF BoardTypeOK, Request
    <3>2. ticket'[j] = ticket[j] /\ desk'[w].legs[j] = desk[w].legs[j]
      BY <1>2, <2>1, <3>1
    <3> QED
      BY <2>2, <3>2 DEF SeatsKeep
  <2>4. ASSUME NEW j \in Tickets, NEW p \in LegIds, ToSit(w, j, p)'
        PROVE  j # i /\ ToSit(w, j, p) /\ desk'[w].legs[j] = desk[w].legs[j]
    <3>1. j \in desk[w].todo \ {i}
      BY <2>1, <2>4 DEF ToSit
    <3>2. ticket'[j] = ticket[j] /\ desk'[w].legs[j] = desk[w].legs[j]
      BY <1>2, <2>1, <3>1
    <3> DEFINE x == <<j, p, desk[w].legs[j][p].tech>>
    <3>3. x \notin byHand' => x \notin byHand
      <4>1. byHand' = {y \in byHand : y[1] # i \/ y \in Serves(i, desk[w].legs[i])}
                        \ (Serves(i, desk[w].legs[i]) \ Serves(i, ticket[i].legs))
        BY <1>1, <2>1 DEF PutOf
      <4>2. x \notin Serves(i, desk[w].legs[i])
        BY <3>1 DEF Serves
      <4>3. x[1] # i
        BY <3>1
      <4> QED
        BY <4>1, <4>2, <4>3
    <3> QED
      BY <2>4, <3>1, <3>2, <3>3 DEF ToSit, SameHands
  <2>5. SeatsApart(w)'
    <3> SUFFICES ASSUME NEW j \in Tickets, NEW k \in Tickets, NEW p \in LegIds, NEW q \in LegIds,
                        ToSit(w, j, p)'
                 PROVE  /\ k \notin desk[w].todo \ {i} /\ AtWork(k, q)'
                             => desk'[w].legs[j][p].tech # ticket'[k].legs[q].tech
                        /\ ToSit(w, k, q)' /\ desk'[w].legs[j][p].tech = desk'[w].legs[k][q].tech
                             => j = k /\ p = q
      BY <2>1 DEF SeatsApart
    <3>1. j # i /\ ToSit(w, j, p) /\ desk'[w].legs[j] = desk[w].legs[j]
      BY <2>4
    <3>2. ASSUME k \notin desk[w].todo \ {i}, AtWork(k, q)'
          PROVE  desk'[w].legs[j][p].tech # ticket'[k].legs[q].tech
      <4>1. CASE k = i
        <5>1. ToSit(w, i, q) /\ ticket'[i].legs[q].tech = desk[w].legs[i][q].tech
          BY <1>1, <2>1, <3>2, <4>1, PutWork
        <5> QED
          BY <2>2, <3>1, <4>1, <5>1 DEF SeatsApart
      <4>2. CASE k # i
        <5>1. AtWork(k, q) /\ ticket'[k].legs[q].tech = ticket[k].legs[q].tech
          BY <1>1, <3>2, <4>2, PutWork
        <5> QED
          BY <2>2, <3>1, <3>2, <4>2, <5>1 DEF SeatsApart
      <4> QED
        BY <4>1, <4>2
    <3>3. ASSUME ToSit(w, k, q)', desk'[w].legs[j][p].tech = desk'[w].legs[k][q].tech
          PROVE  j = k /\ p = q
      <4>1. ToSit(w, k, q) /\ desk'[w].legs[k] = desk[w].legs[k]
        BY <2>4, <3>3
      <4> QED
        BY <2>2, <3>1, <3>3, <4>1 DEF SeatsApart
    <3> QED
      BY <3>2, <3>3
  <2> QED
    BY <2>1, <2>3, <2>5
<1> QED
  BY <1>3, <1>5, <1>6 DEF SeatInv

-----------------------------------------------------------------------------
LEMMA SeatInit == FloorInit => SeatInv
<1> SUFFICES ASSUME FloorInit PROVE SeatInv
  OBVIOUS
<1>1. \A w \in Desks : desk[w].pc = "idle"
  BY DEF FloorInit, Rested
<1>2. \A i \in Tickets : ticket[i].status = "none"
  BY DEF FloorInit, NoTicket
<1> QED
  BY <1>1, <1>2 DEF SeatInv, WaitsIdle, OneEach, AtWork, OnFloor

\* All but planning and writing is calm.
LEMMA FloorSteps ==
  ASSUME BoardTypeOK, [FloorNext]_floorVars
  PROVE  Calm \/ \E w \in Desks : Dispatch(w) \/ PutTicket(w)
<1> DEFINE Goal == Calm \/ \E w \in Desks : Dispatch(w) \/ PutTicket(w)
<1>1. ASSUME NEW w \in Desks, DeskStep(w) PROVE Goal
  <2>1. CASE Dispatch(w) \/ PutTicket(w)
    BY <2>1
  <2>2. CASE \/ Reactivate(w) \/ LinkBooking(w) \/ PairBooking(w) \/ CancelTicket(w)
             \/ DeleteTicket(w)
    BY <2>2, UndoCalm, CancelCalm, DeleteCalm
  <2>3. ASSUME NEW i \in Tickets, NEW zones \in Visits, NEW s \in AnyOf, CheckIn(w, i, zones, s)
        PROVE  Goal
    BY <2>3, CheckInCalm
  <2> QED
    BY <1>1, <2>1, <2>2, <2>3 DEF DeskStep
<1>2. ASSUME NEW w \in Desks, DeskAsks(w) PROVE Goal
  <2>1. ASSUME NEW i \in Tickets, NEW zones \in Visits, NEW s \in AnyOf, AddWalkIn(w, i, zones, s)
        PROVE  Goal
    BY <2>1, AddWalkInCalm
  <2>2. ASSUME NEW i \in Tickets, NEW p \in LegIds,
               DoneLeg(w, i, p) \/ SkipLeg(w, i, p) \/ RemoveService(w, i, p) \/ ReadDone(w, i, p)
        PROVE  Goal
    BY <2>2, PartsCalm, UndoCalm
  <2>3. ASSUME NEW i \in Tickets, NEW p \in LegIds, NEW s \in AnyOf,
               AssignLeg(w, i, p, s, TRUE) \/ AssignLeg(w, i, p, s, FALSE) \/ HandLeg(w, i, p, s)
        PROVE  Goal
    BY <2>3, PartsCalm
  <2>4. ASSUME NEW i \in Tickets, NEW zone \in Zones, NEW s \in AnyOf, AddService(w, i, zone, s)
        PROVE  Goal
    BY <2>4, PartsCalm
  <2>5. ASSUME NEW i \in Tickets, NEW from \in AnyOf, NEW to \in Techs,
               FollowBooking(w, i, from, to)
        PROVE  Goal
    BY <2>5, PartsCalm
  <2>6. ASSUME NEW i \in Tickets,
               \/ DoneTicket(w, i) \/ WaitPayment(w, i) \/ Checkout(w, i)
               \/ BeginCancelTicket(w, i) \/ BeginDeleteTicket(w, i)
        PROVE  Goal
    BY <2>6, PartsCalm, TillCalm
  <2>7. ASSUME NEW s \in Techs, EndBreak(w, s) PROVE Goal
    BY <2>7, BreakCalm
  <2>8. ASSUME BeginCheckIn(w) PROVE Goal
    BY <2>8, CancelCalm
  <2> QED
    BY <1>2, <2>1, <2>2, <2>3, <2>4, <2>5, <2>6, <2>7, <2>8 DEF DeskAsks
<1>3. ASSUME NEW i \in Tickets, NoShow(i) \/ MoveToStation(i) \/ SeeStale(i) \/ CloseUnpaid(i)
      PROVE  Goal
  BY <1>3, AloneCalm, KeepingCalm
<1>4. ASSUME NEW s \in Techs, StartBreak(s) PROVE Goal
  BY <1>4, BreakCalm, FloorAssumption
<1>5. ASSUME ParkStale \/ RestartFloor PROVE Goal
  BY <1>5, KeepingCalm
<1>6. CASE UNCHANGED floorVars
  BY <1>6 DEF Calm, floorVars
<1> QED
  BY <1>1, <1>2, <1>3, <1>4, <1>5, <1>6 DEF FloorNext

LEMMA SeatNext == BackInv /\ SeatInv /\ [FloorNext]_floorVars => SeatInv'
<1> SUFFICES ASSUME BackInv, SeatInv, [FloorNext]_floorVars PROVE SeatInv'
  OBVIOUS
<1>1. BoardTypeOK /\ BoardTypeOK' /\ OneHolder
  BY FloorTypeNext DEF BackInv
<1>2. Calm \/ \E w \in Desks : Dispatch(w) \/ PutTicket(w)
  BY <1>1, FloorSteps
<1> QED
  BY <1>1, <1>2, CalmSeats, DispatchSeats, PutTicketSeats

LEMMA SeatHolds == SeatInv => OneCustomerEach
<1> SUFFICES ASSUME SeatInv, NEW i \in Tickets, NEW j \in Tickets, OnFloor(i), OnFloor(j),
                    NEW p \in Serving(i), NEW q \in Serving(j), <<i, p>> # <<j, q>>,
                    ticket[i].legs[p].tech # Nobody,
                    ticket[i].legs[p].tech = ticket[j].legs[q].tech
             PROVE  \/ <<i, p, ticket[i].legs[p].tech>> \in byHand
                    \/ <<j, q, ticket[i].legs[p].tech>> \in byHand
  BY DEF OneCustomerEach
<1>1. /\ p \in LegIds /\ ticket[i].legs[p].status = "SERVING"
      /\ q \in LegIds /\ ticket[j].legs[q].status = "SERVING"
  BY DEF Serving, Present
<1>2. ~(AtWork(i, p) /\ AtWork(j, q))
  BY <1>1 DEF SeatInv, OneEach
<1> QED
  BY <1>1, <1>2 DEF AtWork

\* The dispatcher gives no technician a second part while she is at one, on whatever board,
\* with whatever goes on between its plan and its writes: who is at two parts at once was put
\* on one of them by a person (dispatchLocked, planDispatch).
THEOREM OneEachCorrect == FloorSpec => []OneCustomerEach
BY BackInit, BackNext, SeatInit, SeatNext, SeatHolds, PTL DEF FloorSpec
-----------------------------------------------------------------------------
\* Side by side.  Two parts of one customer are served at once as hands and feet, or because
\* of a person; in the row, whatever its status, and in what the dispatcher is going to write.

\* Served, and not because a person said so.
Served(i, p) ==
  LET leg == ticket[i].legs[p]
  IN  leg.status = "SERVING" /\ <<i, p, leg.tech>> \notin byHand

Fitting(legs, p, q) == CanRunTogether(legs[p].zone, legs[q].zone)

RowFits(i) ==
  ticket[i].status \notin Empty =>
    \A p, q \in LegIds : Served(i, p) /\ Served(i, q) /\ p # q => Fitting(ticket[i].legs, p, q)

\* Those that are in the row already are the row's.
PlanFits(w) ==
  \A i \in desk[w].todo : ticket[i].status # "deleted" =>
    \A p, q \in LegIds :
      (desk[w].legs[i][p].status = "SERVING" /\ desk[w].legs[i][q].status = "SERVING" /\ p # q) =>
        \/ Fitting(desk[w].legs[i], p, q)
        \/ ticket[i].legs[p].status = "SERVING" /\ ticket[i].legs[q].status = "SERVING"

BesideInv ==
  /\ \A i \in Tickets : RowFits(i)
  /\ \A w \in Desks : desk[w].pc = "seat" => PlanFits(w)

LEMMA FitsTwoWays ==
  ASSUME NEW legs, NEW p, NEW q, Fitting(legs, p, q)
  PROVE  Fitting(legs, q, p)
BY DEF Fitting, CanRunTogether

LEMMA CalmBeside ==
  ASSUME BoardTypeOK, SeatInv, BesideInv, Calm
  PROVE  BesideInv'
<1>1. ASSUME NEW i \in Tickets PROVE RowFits(i)'
  <2> SUFFICES ASSUME ticket'[i].status \notin Empty, NEW p \in LegIds, NEW q \in LegIds,
                      Served(i, p)', Served(i, q)', p # q
               PROVE  Fitting(ticket'[i].legs, p, q)
    BY DEF RowFits
  <2>1. /\ ticket'[i].legs[p].status = "SERVING" /\ ticket'[i].legs[q].status = "SERVING"
        /\ <<i, p, ticket'[i].legs[p].tech>> \notin byHand'
        /\ <<i, q, ticket'[i].legs[q].tech>> \notin byHand'
    BY DEF Served
  <2>2. ticket[i].status # "none"
    BY <2>1 DEF Calm, Empty
  <2>3. ticket'[i].legs = ticket[i].legs /\ ticket[i].status \notin Empty
    BY <2>2 DEF Calm, Empty
  <2>4. byHand \subseteq byHand'
    BY DEF Calm
  <2>5. Served(i, p) /\ Served(i, q)
    BY <2>1, <2>3, <2>4 DEF Served
  <2> QED
    BY <2>3, <2>5 DEF BesideInv, RowFits
<1>2. ASSUME NEW w \in Desks, desk'[w].pc = "seat" PROVE PlanFits(w)'
  <2>1. desk'[w] = desk[w] /\ SeatsKeep(w) /\ PlanFits(w)
    BY <1>2 DEF Calm, SeatInv, BesideInv
  <2> SUFFICES ASSUME NEW i \in desk[w].todo, ticket'[i].status # "deleted",
                      NEW p \in LegIds, NEW q \in LegIds,
                      desk[w].legs[i][p].status = "SERVING", desk[w].legs[i][q].status = "SERVING",
                      p # q
               PROVE  \/ Fitting(desk[w].legs[i], p, q)
                      \/ ticket'[i].legs[p].status = "SERVING" /\ ticket'[i].legs[q].status = "SERVING"
    BY <2>1 DEF PlanFits
  <2>2. i \in Tickets
    BY DEF BoardTypeOK, Request
  <2>3. ticket[i].status # "none"
    BY <2>1 DEF SeatsKeep
  <2>4. ticket'[i].legs = ticket[i].legs /\ ticket[i].status # "deleted"
    BY <2>2, <2>3 DEF Calm, Empty
  <2> QED
    BY <2>1, <2>4 DEF PlanFits
<1> QED
  BY <1>1, <1>2 DEF BesideInv

\* A plan starts no part beside one it cannot run with.
LEMMA PlannedFits ==
  ASSUME NEW f \in Plans, NEW l \in Queue, f[l] # Nobody, NEW z \in RunningBeside(l, f)
  PROVE  CanRunTogether(z, LegAt(l).zone)
<1>1. f[l] \in Picks(l, f)
  BY DEF Plans
<1>2. Takers(l, f) # {}
  BY <1>1, Zenon DEF Picks
<1> DEFINE free == (Techs \ (away \cup Busy)) \ {f[m] : m \in {n \in Queue : Ahead(n, l)}}
<1>3. Takers(l, f) = (IF \E y \in RunningBeside(l, f) : ~CanRunTogether(y, LegAt(l).zone) THEN {}
                      ELSE IF LegAt(l).pinned THEN free \cap {LegAt(l).tech}
                      ELSE (free \cap Able(LegAt(l).zone)) \ LegAt(l).skipped)
  BY Zenon DEF Takers, free
<1> HIDE DEF free
<1> QED
  BY <1>2, <1>3

\* ... beside one that is served,
LEMMA FitsServed ==
  ASSUME NEW f \in Plans, NEW i \in Tickets, NEW p \in LegIds, NEW q \in LegIds,
         <<i, p>> \in Queue, f[<<i, p>>] # Nobody, ticket[i].legs[q].status = "SERVING"
  PROVE  Fitting(ticket[i].legs, q, p)
<1> DEFINE l == <<i, p>>
<1>1. l[1] = i /\ l[2] = p /\ LegAt(l) = ticket[i].legs[p]
  BY DEF LegAt
<1>2. q \in Serving(i)
  BY DEF Serving, Present
<1>3. ticket[i].legs[q].zone \in RunningBeside(l, f)
  BY <1>1, <1>2 DEF RunningBeside
<1>4. CanRunTogether(ticket[i].legs[q].zone, LegAt(l).zone)
  BY <1>3, PlannedFits
<1> QED
  BY <1>1, <1>4 DEF Fitting

\* ... and beside one planned before it.
LEMMA FitsPlanned ==
  ASSUME NEW f \in Plans, NEW i \in Tickets, NEW p \in LegIds, NEW q \in LegIds,
         <<i, p>> \in Queue, f[<<i, p>>] # Nobody, <<i, q>> \in Queue, f[<<i, q>>] # Nobody,
         Ahead(<<i, q>>, <<i, p>>)
  PROVE  Fitting(ticket[i].legs, q, p)
<1> DEFINE l == <<i, p>>  m == <<i, q>>
<1>1. /\ l[1] = i /\ LegAt(l) = ticket[i].legs[p]
      /\ m[1] = i /\ LegAt(m) = ticket[i].legs[q]
  BY DEF LegAt
<1>2. m \in {n \in Queue : n[1] = l[1] /\ Ahead(n, l) /\ f[n] # Nobody}
  BY <1>1
<1>3. LegAt(m).zone \in RunningBeside(l, f)
  BY <1>2 DEF RunningBeside
<1>4. CanRunTogether(LegAt(m).zone, LegAt(l).zone)
  BY <1>3, PlannedFits
<1> QED
  BY <1>1, <1>4 DEF Fitting

LEMMA SeatedZone ==
  ASSUME BoardTypeOK, NEW i \in Tickets, NEW f \in Plans, NEW p \in LegIds
  PROVE  /\ Seated(i, f)[p].zone = ticket[i].legs[p].zone
         /\ Seated(i, f)[p].status = "SERVING" =>
              \/ ticket[i].legs[p].status = "SERVING"
              \/ <<i, p>> \in Queue /\ f[<<i, p>>] # Nobody
<1>1. ticket[i].legs[p] \in Leg
  BY LegsOK
<1>2. Seated(i, f)[p] =
        IF <<i, p>> \in Queue /\ f[<<i, p>>] # Nobody
        THEN [ticket[i].legs[p] EXCEPT !.status = "SERVING", !.tech = f[<<i, p>>]]
        ELSE ticket[i].legs[p]
  BY DEF Seated
<1> QED
  BY <1>1, <1>2 DEF Leg

LEMMA SeatedFits ==
  ASSUME BoardTypeOK, NEW i \in Tickets, NEW f \in Plans, NEW p \in LegIds, NEW q \in LegIds,
         Seated(i, f)[p].status = "SERVING", Seated(i, f)[q].status = "SERVING", p # q
  PROVE  \/ Fitting(Seated(i, f), p, q)
         \/ ticket[i].legs[p].status = "SERVING" /\ ticket[i].legs[q].status = "SERVING"
<1> DEFINE Planned(n) == <<i, n>> \in Queue /\ f[<<i, n>>] # Nobody
<1>1. /\ ticket[i].legs[p].status = "SERVING" \/ Planned(p)
      /\ ticket[i].legs[q].status = "SERVING" \/ Planned(q)
  BY SeatedZone
<1>2. Fitting(ticket[i].legs, p, q) => Fitting(Seated(i, f), p, q)
  BY SeatedZone DEF Fitting
<1>3. CASE Planned(p) /\ ticket[i].legs[q].status = "SERVING"
  BY <1>2, <1>3, FitsServed, FitsTwoWays
<1>4. CASE Planned(q) /\ ticket[i].legs[p].status = "SERVING"
  BY <1>2, <1>4, FitsServed
<1>5. CASE Planned(p) /\ Planned(q)
  <2>1. Ahead(<<i, p>>, <<i, q>>) \/ Ahead(<<i, q>>, <<i, p>>)
    BY AheadTotal
  <2> QED
    BY <1>2, <1>5, <2>1, FitsPlanned, FitsTwoWays
<1> QED
  BY <1>1, <1>3, <1>4, <1>5

LEMMA DispatchBeside ==
  ASSUME BoardTypeOK, SeatInv, BesideInv, NEW w \in Desks, Dispatch(w)
  PROVE  BesideInv'
<1>0. UNCHANGED <<ticket, byHand>> /\ LockFree
  BY DEF Dispatch
<1>1. PICK f \in Plans :
        LET seats == {i \in Tickets : \E p \in LegIds : <<i, p>> \in Queue /\ f[<<i, p>>] # Nobody}
        IN  IF seats = {} THEN Leaves(w)
            ELSE desk' = [desk EXCEPT ![w] =
                   [Rested EXCEPT !.pc = "seat", !.todo = seats,
                                  !.legs = [i \in Tickets |-> IF i \in seats THEN Seated(i, f)
                                                              ELSE NoLegs]]]
  BY Zenon DEF Dispatch
<1> DEFINE seats == {i \in Tickets : \E p \in LegIds : <<i, p>> \in Queue /\ f[<<i, p>>] # Nobody}
           legs  == [i \in Tickets |-> IF i \in seats THEN Seated(i, f) ELSE NoLegs]
           new   == [Rested EXCEPT !.pc = "seat", !.todo = seats, !.legs = legs]
<1>2. \A i \in seats : i \in Tickets /\ legs[i] = Seated(i, f)
  OBVIOUS
<1>3. new.todo = seats /\ new.legs = legs
  BY DEF Rested
<1>4. seats = {} => Leaves(w)
  BY <1>1
<1>5. seats # {} => desk' = [desk EXCEPT ![w] = new]
  BY <1>1
<1> HIDE DEF seats, legs, new
<1>6. CASE Leaves(w)
  <2>1. \A v \in Desks : desk'[v] = desk[v] \/ desk'[v].pc # "seat"
    <3>1. "idle" \in Doings \ Restless
      BY DEF Doings, Restless, Holding
    <3> QED
      BY <1>6, <3>1, DeskQuiet, DeskCalm
  <2>2. Calm
    BY <1>0, <2>1 DEF Calm
  <2> QED
    BY <2>2, CalmBeside
<1>7. CASE seats # {}
  <2>1. desk'[w] = new /\ \A v \in Desks : v # w => desk'[v] = desk[v]
    BY <1>5, <1>7 DEF BoardTypeOK
  <2>2. \A i \in Tickets : RowFits(i)'
    BY <1>0 DEF BesideInv, RowFits, Served
  <2>3. ASSUME NEW v \in Desks, desk'[v].pc = "seat" PROVE PlanFits(v)'
    <3>1. v = w
      BY <1>0, <2>1, <2>3 DEF LockFree, Holding
    <3> SUFFICES ASSUME NEW i \in seats, NEW p \in LegIds, NEW q \in LegIds,
                        legs[i][p].status = "SERVING", legs[i][q].status = "SERVING", p # q
                 PROVE  \/ Fitting(legs[i], p, q)
                        \/ ticket[i].legs[p].status = "SERVING" /\ ticket[i].legs[q].status = "SERVING"
      BY <1>0, <1>3, <2>1, <3>1 DEF PlanFits
    <3> QED
      BY <1>2, SeatedFits
  <2> QED
    BY <2>2, <2>3 DEF BesideInv
<1> QED
  BY <1>4, <1>6, <1>7

\* A write by a person leaves only what was there before without one; the dispatcher's leaves
\* that, and what it planned.
LEMMA PutServed ==
  ASSUME BoardTypeOK, NEW w \in Desks, NEW i \in Tickets, PutOf(w, i), Exists(i),
         NEW p \in LegIds, Served(i, p)'
  PROVE  /\ ticket'[i].legs = desk[w].legs[i] /\ desk[w].legs[i][p].status = "SERVING"
         /\ desk[w].pc # "seat" =>
              Served(i, p) /\ desk[w].legs[i][p].zone = ticket[i].legs[p].zone
         /\ SameHands(ticket[i].legs[p], desk[w].legs[i][p]) => Served(i, p)
<1> DEFINE legs  == desk[w].legs[i]
           kept  == {x \in byHand : x[1] # i \/ x \in Serves(i, legs)}
           fresh == Serves(i, legs) \ Serves(i, ticket[i].legs)
           y     == <<i, p, legs[p].tech>>
<1>1. /\ byHand' = IF desk[w].pc = "seat" THEN kept \ fresh
                   ELSE kept \cup Renewed(i, legs) \cup (IF OnFloor(i) THEN fresh ELSE Serves(i, legs))
      /\ ticket'[i].legs = legs
  BY DEF PutOf
<1>2. legs[p].status = "SERVING" /\ y \notin byHand'
  BY <1>1 DEF Served
<1>3. y \in Serves(i, legs)
  BY <1>2 DEF Serves
<1>4. y \in Serves(i, ticket[i].legs) <=> SameHands(ticket[i].legs[p], legs[p])
  BY DEF Serves, SameHands
<1>5. SameHands(ticket[i].legs[p], legs[p]) => Served(i, p)
  BY <1>1, <1>2, <1>3, <1>4 DEF Served, SameHands
<1>6. ASSUME desk[w].pc # "seat"
      PROVE  SameHands(ticket[i].legs[p], legs[p]) /\ legs[p].zone = ticket[i].legs[p].zone
  <2>1. y \notin fresh /\ y \notin Renewed(i, legs)
    BY <1>1, <1>2, <1>3, <1>6
  <2> QED
    BY <1>3, <1>4, <2>1 DEF Renewed
<1> QED
  BY <1>1, <1>2, <1>5, <1>6

LEMMA PutTicketBeside ==
  ASSUME BoardTypeOK, OneHolder, SeatInv, BesideInv, NEW w \in Desks, PutTicket(w)
  PROVE  BesideInv'
<1>1. PICK i \in Tickets : PutOf(w, i)
  BY PutFacts
<1>2. /\ i \in desk[w].todo
      /\ \A v \in Desks : v # w => desk'[v].pc \notin Holding
      /\ \/ desk'[w].pc \notin Restless
         \/ /\ desk'[w].pc = desk[w].pc /\ desk'[w].todo = desk[w].todo \ {i}
            /\ \A j \in desk[w].todo \ {i} : desk'[w].legs[j] = desk[w].legs[j]
      /\ \A j \in Tickets : j # i => ticket'[j] = ticket[j]
      /\ ~Exists(i) => ticket'[i] = ticket[i]
  BY <1>1 DEF PutOf
<1>3. RowFits(i)'
  <2> SUFFICES ASSUME ticket'[i].status \notin Empty, NEW p \in LegIds, NEW q \in LegIds,
                      Served(i, p)', Served(i, q)', p # q
               PROVE  Fitting(ticket'[i].legs, p, q)
    BY DEF RowFits
  <2> DEFINE legs == desk[w].legs[i]
  <2>1. Exists(i) /\ ticket[i].status \notin Empty
    BY <1>2 DEF Exists, Empty
  <2>2. /\ ticket'[i].legs = legs
        /\ legs[p].status = "SERVING" /\ legs[q].status = "SERVING"
        /\ desk[w].pc # "seat" =>
             /\ Served(i, p) /\ legs[p].zone = ticket[i].legs[p].zone
             /\ Served(i, q) /\ legs[q].zone = ticket[i].legs[q].zone
        /\ SameHands(ticket[i].legs[p], legs[p]) => Served(i, p)
        /\ SameHands(ticket[i].legs[q], legs[q]) => Served(i, q)
    BY <1>1, <2>1, PutServed
  <2>3. Served(i, p) /\ Served(i, q) => Fitting(ticket[i].legs, p, q)
    BY <2>1 DEF BesideInv, RowFits
  <2>4. CASE desk[w].pc # "seat"
    BY <2>2, <2>3, <2>4 DEF Fitting
  <2>5. CASE desk[w].pc = "seat"
    <3>1. PlanFits(w) /\ SeatsKeep(w)
      BY <2>5 DEF BesideInv, SeatInv
    <3>2. \/ Fitting(legs, p, q)
          \/ ticket[i].legs[p].status = "SERVING" /\ ticket[i].legs[q].status = "SERVING"
      BY <1>2, <2>1, <2>2, <3>1 DEF PlanFits, Empty
    <3>3. ASSUME ticket[i].legs[p].status = "SERVING", ticket[i].legs[q].status = "SERVING"
          PROVE  Fitting(legs, p, q)
      <4>1. legs[p] = ticket[i].legs[p] /\ legs[q] = ticket[i].legs[q]
        BY <1>2, <2>1, <3>1, <3>3 DEF SeatsKeep, Empty
      <4>2. Served(i, p) /\ Served(i, q)
        BY <2>2, <3>3, <4>1 DEF SameHands
      <4> QED
        BY <2>3, <4>1, <4>2 DEF Fitting
    <3> QED
      BY <2>2, <3>2, <3>3
  <2> QED
    BY <2>4, <2>5
<1>4. ASSUME NEW j \in Tickets, j # i PROVE RowFits(j)'
  <2>1. ticket'[j] = ticket[j]
    BY <1>2, <1>4
  <2>2. \A p \in LegIds : Served(j, p)' => Served(j, p)
    <3> SUFFICES ASSUME NEW p \in LegIds, NEW s, <<j, p, s>> \in byHand
                 PROVE  <<j, p, s>> \in byHand'
      BY <2>1 DEF Served
    <3>1. <<j, p, s>>[1] # i
      BY <1>4
    <3>2. <<j, p, s>> \notin Serves(i, desk[w].legs[i])
      BY <1>4 DEF Serves
    <3> QED
      BY <1>1, <3>1, <3>2 DEF PutOf
  <2> QED
    BY <2>1, <2>2 DEF BesideInv, RowFits
<1>5. ASSUME NEW v \in Desks, desk'[v].pc = "seat" PROVE PlanFits(v)'
  <2>1. /\ v = w /\ desk[w].pc = "seat" /\ desk'[w].todo = desk[w].todo \ {i}
        /\ \A j \in desk[w].todo \ {i} : desk'[w].legs[j] = desk[w].legs[j]
    BY <1>2, <1>5 DEF Restless, Holding
  <2>2. PlanFits(w)
    BY <2>1 DEF BesideInv
  <2>3. \A j \in desk[w].todo \ {i} : ticket'[j] = ticket[j]
    BY <1>2 DEF BoardTypeOK, Request
  <2> QED
    BY <2>1, <2>2, <2>3 DEF PlanFits
<1> QED
  BY <1>3, <1>4, <1>5 DEF BesideInv

LEMMA BesideInit == FloorInit => BesideInv
<1> SUFFICES ASSUME FloorInit PROVE BesideInv
  OBVIOUS
<1>1. \A w \in Desks : desk[w].pc = "idle"
  BY DEF FloorInit, Rested
<1>2. \A i \in Tickets : ticket[i].status = "none"
  BY DEF FloorInit, NoTicket
<1> QED
  BY <1>1, <1>2 DEF BesideInv, RowFits, Empty

LEMMA BesideNext == BackInv /\ SeatInv /\ BesideInv /\ [FloorNext]_floorVars => BesideInv'
<1> SUFFICES ASSUME BackInv, SeatInv, BesideInv, [FloorNext]_floorVars PROVE BesideInv'
  OBVIOUS
<1>1. BoardTypeOK /\ BoardTypeOK' /\ OneHolder
  BY FloorTypeNext DEF BackInv
<1>2. Calm \/ \E w \in Desks : Dispatch(w) \/ PutTicket(w)
  BY <1>1, FloorSteps
<1> QED
  BY <1>1, <1>2, CalmBeside, DispatchBeside, PutTicketBeside

LEMMA BesideHolds == BesideInv => TogetherOnlyHandsAndFeet
<1> SUFFICES ASSUME BesideInv, NEW i \in Tickets, OnFloor(i),
                    NEW p \in Serving(i), NEW q \in Serving(i), p # q,
                    ~CanRunTogether(ticket[i].legs[p].zone, ticket[i].legs[q].zone)
             PROVE  \/ <<i, p, ticket[i].legs[p].tech>> \in byHand
                    \/ <<i, q, ticket[i].legs[q].tech>> \in byHand
  BY DEF TogetherOnlyHandsAndFeet
<1>1. /\ p \in LegIds /\ ticket[i].legs[p].status = "SERVING"
      /\ q \in LegIds /\ ticket[i].legs[q].status = "SERVING"
  BY DEF Serving, Present
<1>2. ticket[i].status \notin Empty
  BY DEF OnFloor, Empty
<1>3. ~(Served(i, p) /\ Served(i, q))
  BY <1>1, <1>2 DEF BesideInv, RowFits, Fitting
<1> QED
  BY <1>1, <1>3 DEF Served

\* The dispatcher starts no part beside one of the same customer that it cannot run with,
\* whatever is pressed, undone or paid between its plan and its writes: two parts at once
\* are hands and feet, or one of them was started by a person (canRunTogether).
THEOREM TogetherCorrect == FloorSpec => []TogetherOnlyHandsAndFeet
BY BackInit, BackNext, SeatInit, SeatNext, BesideInit, BesideNext, BesideHolds, PTL DEF FloorSpec

-----------------------------------------------------------------------------
\* The quiet floor.  Of a table of tickets: as it is, or as a plan leaves it.

\* A part of the queue; one that is served; somebody at work.
Waiting(t, i, p) == /\ t[i].status \in {"WAITING", "SERVING"} /\ ~t[i].paying
                    /\ t[i].legs[p].status = "WAITING"
Running(t, i, p) == t[i].legs[p].status = "SERVING"
AtAPart(t, s)    == \E i \in Tickets, p \in LegIds :
                      /\ t[i].status = "SERVING" /\ ~t[i].paying
                      /\ Running(t, i, p) /\ t[i].legs[p].tech = s

\* She is free, nothing that runs beside the part forbids it, and she may have it.
MayTake(t, i, p, s) ==
  LET leg == t[i].legs[p]
  IN  /\ s \notin away /\ ~AtAPart(t, s)
      /\ \A q \in LegIds : Running(t, i, q) => CanRunTogether(t[i].legs[q].zone, leg.zone)
      /\ IF leg.pinned THEN s = leg.tech ELSE s \in Able(leg.zone) \ leg.skipped

\* Nobody is free for a part that waits.
AllTaken(t) ==
  \A i \in Tickets, p \in LegIds, s \in Techs : Waiting(t, i, p) => ~MayTake(t, i, p, s)

\* Requests that end in a run of the dispatcher.
WillDispatch == {"settle", "change", "pass", "link", "pair", "checkIn", "park"}
UnderWay     == \E w \in Desks : desk[w].pc \in WillDispatch

\* The table once w has written what it planned.
Written(w) == [i \in Tickets |-> IF i \in desk[w].todo
                                 THEN [ticket[i] EXCEPT !.legs = desk[w].legs[i], !.status = "SERVING"]
                                 ELSE ticket[i]]

\* A day without what the property names.
QuietDay ==
  floorMay \cap {"queue", "cancel", "remove", "station", "reactivate", "break", "restart"} = {}

OnlyQuiet == away = {} /\ \A w \in Desks : desk[w].pc \in WillDispatch \cup {"idle", "seat"}

\* Until somebody is to dispatch again, the plan being written leaves nobody free for a part,
\* and the tickets it is going to write are as it read them.
PlanSettles(w) ==
  /\ AllTaken(Written(w))
  /\ \A i \in desk[w].todo : /\ ticket[i].status \in {"WAITING", "SERVING"} /\ ~ticket[i].paying
                             /\ SyncTicket(desk[w].legs[i]) = "SERVING"

RestInv ==
  QuietDay =>
    /\ OnlyQuiet
    /\ ~UnderWay => /\ \A w \in Desks : desk[w].pc = "seat" => PlanSettles(w)
                    /\ (\A w \in Desks : desk[w].pc = "idle") => AllTaken(ticket)

\* Some part of the queue, of any number of them, is ahead of the others.
LEMMA QueueFirst ==
  ASSUME BoardTypeOK, NEW S, S \subseteq Queue, S # {}
  PROVE  \E l \in S : \A m \in S : ~Ahead(m, l)
<1>1. \A l \in S : /\ l = <<l[1], l[2]>> /\ l[1] \in Nat /\ l[2] \in Nat
                   /\ ticket[l[1]].place \in Nat
  <2> SUFFICES ASSUME NEW l \in S
               PROVE  /\ l = <<l[1], l[2]>> /\ l[1] \in Nat /\ l[2] \in Nat
                      /\ ticket[l[1]].place \in Nat
    OBVIOUS
  <2>1. PICK i \in Tickets, p \in LegIds : l = <<i, p>>
    BY DEF Queue
  <2> QED
    BY <2>1, FloorAssumption DEF BoardTypeOK, Ticket
<1> DEFINE A == IF \E l \in S : Started(l[1]) THEN {l \in S : Started(l[1])} ELSE S
           Places == {ticket[l[1]].place : l \in A}
<1>2. A # {} /\ A \subseteq S
  OBVIOUS
<1>3. \A l \in A, m \in S : Started(m[1]) => Started(l[1])
  OBVIOUS
<1>4. \A l \in A, m \in S : Started(l[1]) => (Started(m[1]) => m \in A)
  OBVIOUS
<1>5. \A l \in A, m \in S : ~Started(l[1]) => m \in A
  OBVIOUS
<1> HIDE DEF A
<1>6. PICK k \in A : \A m \in A : ticket[k[1]].place <= ticket[m[1]].place
  <2>1. Places \subseteq Nat /\ Places # {}
    BY <1>1, <1>2
  <2>2. PICK n \in Places : \A m \in Places : n <= m
    BY <2>1, LeastNumber
  <2> QED
    BY <2>2
<1> DEFINE B == {m \in A : ticket[m[1]].place = ticket[k[1]].place}
           Ids == {m[1] : m \in B}
<1>7. PICK j \in B : \A m \in B : j[1] <= m[1]
  <2>1. Ids \subseteq Nat /\ Ids # {}
    BY <1>1, <1>2, <1>6
  <2>2. PICK n \in Ids : \A m \in Ids : n <= m
    BY <2>1, LeastNumber
  <2> QED
    BY <2>2
<1> DEFINE C == {m \in B : m[1] = j[1]}
           Legs == {m[2] : m \in C}
<1>8. PICK l \in C : \A m \in C : l[2] <= m[2]
  <2>1. Legs \subseteq Nat /\ Legs # {}
    BY <1>1, <1>2, <1>7
  <2>2. PICK n \in Legs : \A m \in Legs : n <= m
    BY <2>1, LeastNumber
  <2> QED
    BY <2>2
<1>9. ASSUME NEW m \in S, Ahead(m, l) PROVE FALSE
  <2>1. l \in A /\ l \in S /\ l[1] = j[1] /\ ticket[l[1]].place = ticket[k[1]].place
    BY <1>2, <1>7, <1>8
  <2>2. ~(Started(m[1]) /\ ~Started(l[1]))
    BY <1>3, <2>1
  <2>3. /\ Started(m[1]) = Started(l[1])
        /\ \/ ticket[m[1]].place < ticket[l[1]].place
           \/ /\ ticket[m[1]].place = ticket[l[1]].place
              /\ m[1] < l[1] \/ (m[1] = l[1] /\ m[2] < l[2])
    BY <1>9, <2>2 DEF Ahead
  <2>4. m \in A
    BY <1>4, <1>5, <2>1, <2>3
  <2>5. ticket[m[1]].place = ticket[l[1]].place
    <3>1. ticket[l[1]].place <= ticket[m[1]].place
      BY <1>6, <2>1, <2>4
    <3> QED
      BY <1>1, <2>1, <2>3, <3>1
  <2>6. m \in B
    BY <2>1, <2>4, <2>5
  <2>7. m[1] = l[1] /\ m[2] < l[2]
    <3>1. l[1] <= m[1]
      BY <1>7, <2>1, <2>6
    <3>2. l[1] \in Nat /\ m[1] \in Nat /\ ticket[m[1]].place \in Nat
      BY <1>1, <2>1
    <3> QED
      BY <2>3, <2>5, <3>1, <3>2
  <2>8. l[2] <= m[2]
    BY <1>8, <2>1, <2>6, <2>7
  <2> QED
    BY <1>1, <2>1, <2>7, <2>8
<1> QED
  BY <1>2, <1>8, <1>9

\* The queue as the table has it.
LEMMA QueueWaits ==
  ASSUME NEW i \in Tickets, NEW p \in LegIds
  PROVE  <<i, p>> \in Queue <=> Waiting(ticket, i, p)
BY DEF Queue, Waiting, LegAt

LEMMA BusyAtAPart == \A s : s \in Busy <=> AtAPart(ticket, s)
BY DEF Busy, AtAPart, Running, Serving, Present, OnFloor

\* A plan that starts something starts a part that somebody may take as the floor is.
LEMMA PlanTakes ==
  ASSUME BoardTypeOK, NEW f \in Plans, NEW n \in Queue, f[n] # Nobody
  PROVE  ~AllTaken(ticket)
<1> DEFINE S == {m \in Queue : f[m] # Nobody}
<1>1. PICK l \in S : \A m \in S : ~Ahead(m, l)
  <2>1. S \subseteq Queue /\ S # {}
    OBVIOUS
  <2> HIDE DEF S
  <2> QED
    BY <2>1, QueueFirst
<1>2. PICK i \in Tickets, p \in LegIds : l = <<i, p>>
  BY DEF Queue
<1> DEFINE s == f[l]
           ahead == {m \in Queue : Ahead(m, l)}
           free == (Techs \ (away \cup Busy)) \ {f[m] : m \in ahead}
<1>3. s \in Techs /\ s \in Takers(l, f)
  BY <1>1 DEF Plans, Picks
<1> HIDE DEF S
<1>4. Takers(l, f) = (IF \E z \in RunningBeside(l, f) : ~CanRunTogether(z, LegAt(l).zone) THEN {}
                      ELSE IF LegAt(l).pinned THEN free \cap {LegAt(l).tech}
                      ELSE (free \cap Able(LegAt(l).zone)) \ LegAt(l).skipped)
  BY Zenon DEF Takers
<1>5. /\ \A z \in RunningBeside(l, f) : CanRunTogether(z, LegAt(l).zone)
      /\ s \in free
      /\ IF LegAt(l).pinned THEN s = LegAt(l).tech ELSE s \in Able(LegAt(l).zone) \ LegAt(l).skipped
  <2> HIDE DEF free, s
  <2> QED
    BY <1>3, <1>4
<1>6. s \notin away /\ ~AtAPart(ticket, s)
  BY <1>5, BusyAtAPart
<1>7. LegAt(l) = ticket[i].legs[p]
  BY <1>2 DEF LegAt
<1>8. \A q \in LegIds : Running(ticket, i, q) =>
        CanRunTogether(ticket[i].legs[q].zone, ticket[i].legs[p].zone)
  BY <1>2, <1>5, <1>7 DEF RunningBeside, Running, Serving, Present
<1>9. Waiting(ticket, i, p)
  BY <1>1, <1>2, QueueWaits DEF S
<1>10. MayTake(ticket, i, p, s)
  <2> HIDE DEF s, free, ahead
  <2> QED
    BY <1>5, <1>6, <1>7, <1>8 DEF MayTake
<1> QED
  BY <1>3, <1>9, <1>10 DEF AllTaken

\* The table with plan f carried out.
Seats(f)   == {i \in Tickets : \E p \in LegIds : <<i, p>> \in Queue /\ f[<<i, p>>] # Nobody}
Planned(f) == [i \in Tickets |-> IF i \in Seats(f)
                                 THEN [ticket[i] EXCEPT !.legs = Seated(i, f), !.status = "SERVING"]
                                 ELSE ticket[i]]

LEMMA PlannedRow ==
  ASSUME BoardTypeOK, NEW f \in Plans, NEW i \in Tickets
  PROVE  /\ Planned(f)[i].legs = IF i \in Seats(f) THEN Seated(i, f) ELSE ticket[i].legs
         /\ Planned(f)[i].status = IF i \in Seats(f) THEN "SERVING" ELSE ticket[i].status
         /\ Planned(f)[i].paying = ticket[i].paying
<1>1. ticket[i] \in Ticket
  BY LegsOK
<1> QED
  BY <1>1 DEF Planned, Ticket

\* A part carried out: the dispatcher's, or as it was.
LEMMA PlannedPart ==
  ASSUME BoardTypeOK, NEW f \in Plans, NEW i \in Tickets, NEW p \in LegIds
  PROVE  \/ /\ <<i, p>> \in Queue /\ f[<<i, p>>] # Nobody
            /\ Planned(f)[i].legs[p] =
                 [ticket[i].legs[p] EXCEPT !.status = "SERVING", !.tech = f[<<i, p>>]]
         \/ /\ <<i, p>> \in Queue => f[<<i, p>>] = Nobody
            /\ Planned(f)[i].legs[p] = ticket[i].legs[p]
<1>1. <<i, p>> \in Queue /\ f[<<i, p>>] # Nobody => i \in Seats(f)
  BY DEF Seats
<1> QED
  BY <1>1, PlannedRow DEF Seated

\* What runs goes on, and what the plan starts runs, too.
LEMMA PlannedRuns ==
  ASSUME BoardTypeOK, NEW f \in Plans, NEW i \in Tickets, NEW p \in LegIds
  PROVE  /\ (Running(ticket, i, p) \/ (<<i, p>> \in Queue /\ f[<<i, p>>] # Nobody))
              => /\ Running(Planned(f), i, p)
                 /\ Planned(f)[i].legs[p].zone = ticket[i].legs[p].zone
         /\ Running(ticket, i, p) => Planned(f)[i].legs[p].tech = ticket[i].legs[p].tech
         /\ <<i, p>> \in Queue /\ f[<<i, p>>] # Nobody => Planned(f)[i].legs[p].tech = f[<<i, p>>]
<1>1. ticket[i].legs[p] \in Leg
  BY LegsOK
<1>2. <<i, p>> \in Queue => ticket[i].legs[p].status = "WAITING"
  BY QueueWaits DEF Waiting
<1> DEFINE leg == ticket[i].legs[p]
           new == [leg EXCEPT !.status = "SERVING", !.tech = f[<<i, p>>]]
<1>3. new.status = "SERVING" /\ new.tech = f[<<i, p>>] /\ new.zone = leg.zone
  BY <1>1 DEF Leg
<1> HIDE DEF new
<1>4. CASE <<i, p>> \in Queue /\ f[<<i, p>>] # Nobody
  <2>1. Planned(f)[i].legs[p] = new
    BY <1>4, PlannedPart DEF new
  <2> QED
    BY <1>2, <1>3, <1>4, <2>1 DEF Running
<1>5. CASE ~(<<i, p>> \in Queue /\ f[<<i, p>>] # Nobody)
  <2>1. Planned(f)[i].legs[p] = leg
    BY <1>5, PlannedPart
  <2> QED
    BY <1>5, <2>1 DEF Running
<1> QED
  BY <1>4, <1>5

\* A plan leaves nobody free for a part it does not start.
LEMMA PlanTakesAll ==
  ASSUME BoardTypeOK, NEW f \in Plans
  PROVE  AllTaken(Planned(f))
<1> SUFFICES ASSUME NEW i \in Tickets, NEW p \in LegIds, NEW s \in Techs,
                    Waiting(Planned(f), i, p), MayTake(Planned(f), i, p, s)
             PROVE  FALSE
  BY DEF AllTaken
<1> DEFINE l == <<i, p>>  t == Planned(f)
<1>1. /\ t[i].legs[p] = ticket[i].legs[p]
      /\ l \in Queue => f[l] = Nobody
  <2>1. ~(l \in Queue /\ f[l] # Nobody)
    BY PlannedRuns DEF Waiting, Running
  <2> QED
    BY <2>1, PlannedPart
<1>2. l \in Queue
  <2>1. \A q \in LegIds : <<i, q>> \in Queue =>
           ticket[i].status \in {"WAITING", "SERVING"} /\ ~ticket[i].paying
    BY QueueWaits DEF Waiting
  <2>2. i \in Seats(f) => ticket[i].status \in {"WAITING", "SERVING"} /\ ~ticket[i].paying
    BY <2>1 DEF Seats
  <2>3. Waiting(ticket, i, p)
    BY <1>1, <2>2, PlannedRow DEF Waiting
  <2> QED
    BY <2>3, QueueWaits
<1>3. Takers(l, f) = {}
  <2>1. Takers(l, f) \subseteq Techs
    BY DEF Takers
  <2>2. Nobody \notin Takers(l, f)
    BY <2>1, TechsAssumption
  <2>3. f[l] \in Picks(l, f)
    BY <1>2 DEF Plans
  <2> QED
    BY <1>1, <1>2, <2>2, <2>3 DEF Picks
<1>4. \A j \in Tickets, q \in LegIds :
        (t[j].status = "SERVING" /\ ~t[j].paying /\ Running(t, j, q)) => t[j].legs[q].tech # s
  BY DEF MayTake, AtAPart
<1>5. s \notin Busy
  <2> SUFFICES ASSUME NEW j \in Tickets, NEW q \in LegIds, ticket[j].status = "SERVING",
                      ~ticket[j].paying, Running(ticket, j, q), ticket[j].legs[q].tech = s
               PROVE  FALSE
    BY BusyAtAPart DEF AtAPart
  <2>1. Running(t, j, q) /\ t[j].legs[q].tech = s
    BY PlannedRuns
  <2>2. t[j].status = "SERVING" /\ ~t[j].paying
    BY PlannedRow
  <2> QED
    BY <1>4, <2>1, <2>2
<1>6. ASSUME NEW m \in Queue, f[m] = s PROVE FALSE
  <2>1. PICK j \in Tickets, q \in LegIds : m = <<j, q>>
    BY DEF Queue
  <2>2. f[<<j, q>>] # Nobody /\ <<j, q>> \in Queue
    BY <1>6, <2>1, TechsAssumption
  <2>3. Running(t, j, q) /\ t[j].legs[q].tech = s
    BY <1>6, <2>1, <2>2, PlannedRuns
  <2>4. j \in Seats(f) /\ ~ticket[j].paying
    BY <2>2, QueueWaits DEF Seats, Waiting
  <2>5. t[j].status = "SERVING" /\ ~t[j].paying
    BY <2>4, PlannedRow
  <2> QED
    BY <1>4, <2>3, <2>5
<1>7. ASSUME NEW z \in RunningBeside(l, f) PROVE CanRunTogether(z, LegAt(l).zone)
  <2>1. PICK q \in LegIds : /\ ticket[i].legs[q].zone = z
                            /\ Running(ticket, i, q) \/ (<<i, q>> \in Queue /\ f[<<i, q>>] # Nobody)
    <3>1. CASE \E q \in Serving(i) : z = ticket[i].legs[q].zone
      BY <3>1 DEF Serving, Present, Running
    <3>2. CASE \E m \in Queue : m[1] = i /\ f[m] # Nobody /\ z = LegAt(m).zone
      <4>1. PICK m \in Queue : m[1] = i /\ f[m] # Nobody /\ z = LegAt(m).zone
        BY <3>2
      <4>2. PICK q \in LegIds : m = <<i, q>>
        BY <4>1 DEF Queue
      <4> QED
        BY <4>1, <4>2 DEF LegAt
    <3> QED
      BY <1>7, <3>1, <3>2 DEF RunningBeside
  <2>2. Running(t, i, q) /\ t[i].legs[q].zone = z
    BY <2>1, PlannedRuns
  <2>3. CanRunTogether(t[i].legs[q].zone, t[i].legs[p].zone)
    BY <2>2 DEF MayTake
  <2> QED
    BY <1>1, <2>2, <2>3 DEF LegAt
<1> DEFINE free == (Techs \ (away \cup Busy)) \ {f[m] : m \in {n \in Queue : Ahead(n, l)}}
<1>8. s \in free
  BY <1>5, <1>6 DEF MayTake
<1>9. IF LegAt(l).pinned THEN s = LegAt(l).tech ELSE s \in Able(LegAt(l).zone) \ LegAt(l).skipped
  BY <1>1 DEF MayTake, LegAt
<1>10. Takers(l, f) = (IF \E z \in RunningBeside(l, f) : ~CanRunTogether(z, LegAt(l).zone) THEN {}
                       ELSE IF LegAt(l).pinned THEN free \cap {LegAt(l).tech}
                       ELSE (free \cap Able(LegAt(l).zone)) \ LegAt(l).skipped)
  BY Zenon DEF Takers
<1> HIDE DEF free, l
<1> QED
  BY <1>3, <1>7, <1>8, <1>9, <1>10

\* A visit that waits to pay is nobody's work and no part of the queue; no more is one paid for.
LEMMA ClosedTaken ==
  ASSUME NEW t, NEW u, NEW i \in Tickets, AllTaken(t),
         \A j \in Tickets : j # i => u[j] = t[j],
         t[i].paying, u[i].status = "DONE"
  PROVE  AllTaken(u)
<1>1. \A s : AtAPart(t, s) => AtAPart(u, s)
  BY DEF AtAPart, Running
<1> SUFFICES ASSUME NEW j \in Tickets, NEW p \in LegIds, NEW s \in Techs,
                    Waiting(u, j, p), MayTake(u, j, p, s)
             PROVE  FALSE
  BY DEF AllTaken
<1>2. j # i
  BY DEF Waiting
<1>3. Waiting(t, j, p) /\ MayTake(t, j, p, s)
  BY <1>1, <1>2 DEF Waiting, MayTake, Running
<1> QED
  BY <1>3 DEF AllTaken

\* A plan is made when nobody holds the lock, and leaves nobody free for a part.
LEMMA DispatchRests ==
  ASSUME BoardTypeOK, QuietDay, OnlyQuiet, NEW w \in Desks, Dispatch(w)
  PROVE  RestInv'
<1>0. UNCHANGED <<ticket, away, floorMay>> /\ \A v \in Desks : desk[v].pc \notin Holding
  BY DEF Dispatch, LockFree
<1>1. PICK f \in Plans :
        IF Seats(f) = {} THEN Leaves(w)
        ELSE desk' = [desk EXCEPT ![w] =
               [Rested EXCEPT !.pc = "seat", !.todo = Seats(f),
                              !.legs = [i \in Tickets |-> IF i \in Seats(f) THEN Seated(i, f)
                                                          ELSE NoLegs]]]
  BY Zenon DEF Dispatch, Seats
<1> DEFINE legs == [i \in Tickets |-> IF i \in Seats(f) THEN Seated(i, f) ELSE NoLegs]
           new  == [Rested EXCEPT !.pc = "seat", !.todo = Seats(f), !.legs = legs]
<1>2. AllTaken(Planned(f))
  BY PlanTakesAll
<1>3. ticket \in [Tickets -> Ticket] /\ desk \in [Desks -> Request]
  BY DEF BoardTypeOK
<1>4. CASE Seats(f) = {}
  <2>1. Planned(f) = ticket
    BY <1>3, <1>4 DEF Planned
  <2>2. desk'[w].pc = "idle" /\ \A v \in Desks : v # w => desk'[v] = desk[v]
    BY <1>1, <1>3, <1>4 DEF Leaves, Rested
  <2>3. OnlyQuiet' /\ \A v \in Desks : desk'[v].pc # "seat"
    BY <1>0, <2>2 DEF OnlyQuiet, Holding
  <2>4. AllTaken(ticket)'
    BY <1>0, <1>2, <2>1 DEF AllTaken, Waiting, MayTake, AtAPart, Running, Able
  <2> QED
    BY <2>3, <2>4 DEF RestInv
<1>5. CASE Seats(f) # {}
  <2>1. new.pc = "seat" /\ new.todo = Seats(f) /\ new.legs = legs
    BY DEF Rested
  <2>2. desk' = [desk EXCEPT ![w] = new]
    BY <1>1, <1>5
  <2> HIDE DEF new
  <2>3. /\ desk'[w].pc = "seat" /\ desk'[w].todo = Seats(f) /\ desk'[w].legs = legs
        /\ \A v \in Desks : v # w => desk'[v] = desk[v]
    BY <1>3, <2>1, <2>2
  <2>4. OnlyQuiet' /\ \A v \in Desks : desk'[v].pc = "seat" => v = w
    BY <1>0, <2>3 DEF OnlyQuiet, Holding
  <2>5. Written(w)' = Planned(f)
    BY <1>0, <2>3 DEF Written, Planned
  <2>6. AllTaken(Written(w))'
    BY <1>0, <1>2, <2>5 DEF AllTaken, Waiting, MayTake, AtAPart, Running, Able
  <2>7. ASSUME NEW i \in Seats(f)
        PROVE  /\ i \in Tickets /\ ticket[i].status \in {"WAITING", "SERVING"} /\ ~ticket[i].paying
               /\ SyncTicket(legs[i]) = "SERVING"
    <3>1. PICK p \in LegIds : <<i, p>> \in Queue /\ f[<<i, p>>] # Nobody
      BY DEF Seats
    <3>2. i \in Tickets /\ Waiting(ticket, i, p)
      BY <3>1, QueueWaits DEF Seats
    <3>3. legs[i] = Seated(i, f) /\ Planned(f)[i].legs = Seated(i, f)
      BY <3>2, PlannedRow
    <3>4. legs[i][p].status = "SERVING"
      BY <3>1, <3>2, <3>3, PlannedRuns DEF Running
    <3> HIDE DEF legs
    <3>5. SyncTicket(legs[i]) = "SERVING"
      BY <3>4 DEF SyncTicket
    <3> QED
      BY <3>2, <3>5 DEF Waiting
  <2>8. PlanSettles(w)'
    BY <1>0, <2>3, <2>6, <2>7 DEF PlanSettles
  <2> QED
    BY <2>3, <2>4, <2>8 DEF RestInv
<1> QED
  BY <1>4, <1>5

\* The dispatcher's write of one ticket.
LEMMA SeatPut ==
  ASSUME BoardTypeOK, NEW w \in Desks, desk[w].pc = "seat", PutTicket(w)
  PROVE  \E i \in desk[w].todo :
           /\ ticket' = WriteItems(i, desk[w].legs[i])
           /\ \A v \in Desks : v # w => desk'[v] = desk[v]
           /\ IF desk[w].todo = {i} THEN desk'[w].pc = "idle"
              ELSE /\ desk'[w].pc = "seat" /\ desk'[w].todo = desk[w].todo \ {i}
                   /\ \A j \in desk[w].todo \ {i} : desk'[w].legs[j] = desk[w].legs[j]
<1>1. PICK i \in desk[w].todo :
        LET rest == desk[w].todo \ {i}
        IN  /\ ticket' = WriteItems(i, desk[w].legs[i])
            /\ IF rest # {}
               THEN desk' = [desk EXCEPT ![w] =
                               [pc |-> @.pc, ticket |-> @.ticket, todo |-> rest,
                                legs |-> [desk[w].legs EXCEPT ![i] = NoLegs]]]
               ELSE Leaves(w)
  BY DEF PutTicket
<1>2. desk \in [Desks -> Request]
  BY DEF BoardTypeOK
<1>3. CASE desk[w].todo = {i}
  BY <1>1, <1>2, <1>3 DEF Leaves, Rested
<1>4. CASE desk[w].todo # {i}
  <2> DEFINE new == [pc |-> desk[w].pc, ticket |-> desk[w].ticket, todo |-> desk[w].todo \ {i},
                     legs |-> [desk[w].legs EXCEPT ![i] = NoLegs]]
  <2>1. desk' = [desk EXCEPT ![w] = new]
    BY <1>1, <1>4
  <2>2. desk'[w] = new /\ \A v \in Desks : v # w => desk'[v] = desk[v]
    BY <1>2, <2>1
  <2>3. \A j \in desk[w].todo \ {i} : new.legs[j] = desk[w].legs[j]
    BY <1>2 DEF Request
  <2> QED
    BY <1>1, <1>4, <2>2, <2>3
<1> QED
  BY <1>3, <1>4

\* Written ticket by ticket, a plan comes to what it was, while nobody is to dispatch again.
LEMMA PutRests ==
  ASSUME BoardTypeOK, OneHolder, QuietDay, RestInv,
         NEW w \in Desks, desk[w].pc = "seat", PutTicket(w)
  PROVE  RestInv'
<1>0. UNCHANGED <<away, floorMay>> /\ ticket \in [Tickets -> Ticket] /\ desk \in [Desks -> Request]
  BY DEF PutTicket, BoardTypeOK
<1>1. PICK i \in desk[w].todo :
        /\ ticket' = WriteItems(i, desk[w].legs[i])
        /\ \A v \in Desks : v # w => desk'[v] = desk[v]
        /\ IF desk[w].todo = {i} THEN desk'[w].pc = "idle"
           ELSE /\ desk'[w].pc = "seat" /\ desk'[w].todo = desk[w].todo \ {i}
                /\ \A j \in desk[w].todo \ {i} : desk'[w].legs[j] = desk[w].legs[j]
  BY SeatPut
<1>2. OnlyQuiet'
  BY <1>0, <1>1 DEF RestInv, OnlyQuiet
<1>3. CASE UnderWay
  <2>1. UnderWay'
    BY <1>1, <1>3 DEF UnderWay, WillDispatch
  <2> QED
    BY <1>2, <2>1 DEF RestInv
<1>4. CASE ~UnderWay
  <2>1. /\ AllTaken(Written(w))
        /\ \A j \in desk[w].todo : /\ ticket[j].status \in {"WAITING", "SERVING"}
                                   /\ ~ticket[j].paying
                                   /\ SyncTicket(desk[w].legs[j]) = "SERVING"
    BY <1>4 DEF RestInv, PlanSettles
  <2>2. i \in Tickets /\ desk[w].todo \subseteq Tickets
    BY <1>0 DEF Request
  <2>3. /\ ticket'[i] = [ticket[i] EXCEPT !.legs = desk[w].legs[i], !.status = "SERVING"]
        /\ \A j \in Tickets : j # i => ticket'[j] = ticket[j]
        /\ DOMAIN ticket' = Tickets
    <3>1. ticket' = [ticket EXCEPT ![i].legs = desk[w].legs[i], ![i].status = "SERVING"]
      BY <1>1, <2>1 DEF WriteItems, Exists
    <3> QED
      BY <1>0, <2>2, <3>1
  <2>4. \A v \in Desks : v # w => desk[v].pc # "seat" /\ desk'[v].pc # "seat"
    BY <1>1 DEF OneHolder, Holding
  <2>5. CASE desk[w].todo = {i}
    <3>1. \A j \in Tickets : ticket'[j] = Written(w)[j]
      BY <2>3, <2>5 DEF Written
    <3>2. AllTaken(ticket)'
      BY <1>0, <2>1, <3>1 DEF AllTaken, Waiting, MayTake, AtAPart, Running, Able
    <3>3. \A v \in Desks : desk'[v].pc # "seat"
      BY <1>1, <2>4, <2>5
    <3> QED
      BY <1>2, <3>2, <3>3 DEF RestInv
  <2>6. CASE desk[w].todo # {i}
    <3>1. Written(w)' = Written(w)
      BY <1>1, <2>2, <2>3, <2>6 DEF Written
    <3>2. AllTaken(Written(w))'
      BY <1>0, <2>1, <3>1 DEF AllTaken, Waiting, MayTake, AtAPart, Running, Able
    <3>3. PlanSettles(w)'
      BY <1>1, <2>1, <2>2, <2>3, <2>6, <3>2 DEF PlanSettles
    <3>4. \A v \in Desks : desk'[v].pc = "seat" => v = w
      BY <2>4
    <3> QED
      BY <1>1, <1>2, <2>6, <3>3, <3>4 DEF RestInv
  <2> QED
    BY <2>5, <2>6
<1> QED
  BY <1>3, <1>4

LEMMA CloseRests ==
  ASSUME BoardTypeOK, RestInv, NEW i \in Tickets, CloseUnpaid(i)
  PROVE  RestInv'
<1>1. UNCHANGED <<away, desk, floorMay>> /\ ticket[i].status = "SERVING" /\ ticket[i].paying
  BY DEF CloseUnpaid
<1>2. ticket'[i].status = "DONE" /\ \A j \in Tickets : j # i => ticket'[j] = ticket[j]
  BY DEF CloseUnpaid, BoardTypeOK, Ticket
<1>3. SUFFICES ASSUME QuietDay, ~UnderWay
               PROVE  /\ \A w \in Desks : desk[w].pc = "seat" => PlanSettles(w)'
                      /\ (\A w \in Desks : desk[w].pc = "idle") => AllTaken(ticket)'
  BY <1>1 DEF RestInv, QuietDay, OnlyQuiet, UnderWay
<1>4. ASSUME AllTaken(ticket) PROVE AllTaken(ticket)'
  <2>1. AllTaken(ticket')
    BY <1>1, <1>2, <1>4, ClosedTaken
  <2> QED
    BY <1>1, <2>1 DEF AllTaken, Waiting, MayTake, AtAPart, Running, Able
<1>5. ASSUME NEW w \in Desks, PlanSettles(w) PROVE PlanSettles(w)'
  <2>1. i \notin desk[w].todo
    BY <1>1, <1>5 DEF PlanSettles
  <2>2. /\ \A j \in Tickets : j # i => Written(w)'[j] = Written(w)[j]
        /\ Written(w)[i].paying /\ Written(w)'[i].status = "DONE"
    BY <1>1, <1>2, <2>1 DEF Written
  <2>3. AllTaken(Written(w)')
    BY <1>5, <2>2, ClosedTaken DEF PlanSettles
  <2>4. AllTaken(Written(w))'
    BY <1>1, <2>3 DEF AllTaken, Waiting, MayTake, AtAPart, Running, Able
  <2>5. \A j \in desk[w].todo : j \in Tickets
    BY DEF BoardTypeOK, Request
  <2> QED
    BY <1>1, <1>2, <1>5, <2>1, <2>4, <2>5 DEF PlanSettles
<1> QED
  BY <1>3, <1>4, <1>5 DEF RestInv

-----------------------------------------------------------------------------
\* All else, on a quiet day, is on its way to a run of the dispatcher.
Raises == \E w \in Desks : /\ desk'[w].pc \in WillDispatch
                           /\ \A v \in Desks : v # w => desk'[v] = desk[v]
                           /\ away' = away

LEMMA GoesRaises ==
  ASSUME BoardTypeOK, away' = away, NEW w \in Desks, NEW i, NEW pc \in WillDispatch, Goes(w, pc, i)
  PROVE  Raises
<1> DEFINE new == [Rested EXCEPT !.pc = pc, !.ticket = i]
<1>1. new.pc = pc
  BY DEF Rested
<1> HIDE DEF new
<1> QED
  BY <1>1 DEF Goes, Raises, BoardTypeOK, new

LEMMA SettlesRaises ==
  ASSUME BoardTypeOK, away' = away, NEW w \in Desks, Settles(w)
  PROVE  Raises
BY GoesRaises DEF Settles, WillDispatch

LEMMA ChangeRaises ==
  ASSUME BoardTypeOK, NEW w \in Desks, NEW i, NEW pc \in {"change", "pass"}, NEW legs,
         Change(w, i, pc, legs)
  PROVE  Raises
<1> DEFINE new == Writes(pc, i, legs)
<1>1. new.pc = pc
  BY DEF Writes
<1> HIDE DEF new
<1> QED
  BY <1>1 DEF Change, Raises, BoardTypeOK, WillDispatch, new

\* What a request does by itself.
LEMMA DeskRaises ==
  ASSUME BoardTypeOK, QuietDay, OnlyQuiet, NEW w \in Desks, DeskStep(w)
  PROVE  Raises \/ Dispatch(w) \/ (desk[w].pc = "seat" /\ PutTicket(w))
<1>0. desk[w].pc \in WillDispatch \cup {"idle", "seat"}
  BY DEF OnlyQuiet
<1>1. ASSUME PutTicket(w), desk[w].pc # "seat" PROVE Raises
  <2>1. desk[w].pc \in {"change", "pass"} /\ away' = away
    BY <1>0, <1>1 DEF PutTicket, Holding, WillDispatch
  <2>2. PICK i \in desk[w].todo :
          LET rest == desk[w].todo \ {i}
          IN  IF rest # {}
              THEN desk' = [desk EXCEPT ![w] =
                              [pc |-> @.pc, ticket |-> @.ticket, todo |-> rest,
                               legs |-> [desk[w].legs EXCEPT ![i] = NoLegs]]]
              ELSE IF desk[w].pc \in {"seat", "restore"} THEN Leaves(w) ELSE Settles(w)
    BY <1>1 DEF PutTicket
  <2>3. CASE desk[w].todo \ {i} = {}
    <3>1. Settles(w)
      BY <2>1, <2>2, <2>3
    <3> QED
      BY <2>1, <3>1, SettlesRaises
  <2>4. CASE desk[w].todo \ {i} # {}
    <3> DEFINE new == [pc |-> desk[w].pc, ticket |-> desk[w].ticket, todo |-> desk[w].todo \ {i},
                       legs |-> [desk[w].legs EXCEPT ![i] = NoLegs]]
    <3>1. desk' = [desk EXCEPT ![w] = new] /\ new.pc = desk[w].pc
      BY <2>2, <2>4
    <3> HIDE DEF new
    <3> QED
      BY <2>1, <3>1 DEF Raises, BoardTypeOK, WillDispatch
  <2> QED
    BY <2>3, <2>4
<1>2. ASSUME \/ Reactivate(w) \/ LinkBooking(w) \/ PairBooking(w) \/ CancelTicket(w)
             \/ DeleteTicket(w)
      PROVE  Raises
  <2>1. LinkBooking(w) \/ PairBooking(w)
    BY <1>0, <1>2 DEF Reactivate, CancelTicket, DeleteTicket, DeskAt, WillDispatch
  <2>2. away' = away /\ (Settles(w) \/ Goes(w, "pair", desk[w].ticket))
    BY <2>1 DEF LinkBooking, PairBooking
  <2> QED
    BY <2>2, SettlesRaises, GoesRaises DEF WillDispatch
<1>3. ASSUME NEW i \in Tickets, NEW zones \in Visits, NEW s \in AnyOf, CheckIn(w, i, zones, s)
      PROVE  Raises
  BY <1>3, SettlesRaises DEF CheckIn
<1> QED
  BY <1>1, <1>2, <1>3 DEF DeskStep

\* What somebody asks for.
LEMMA AskedRaises ==
  ASSUME BoardTypeOK, QuietDay, OnlyQuiet, NEW w \in Desks, DeskAsks(w)
  PROVE  Raises
<1>1. ASSUME NEW i \in Tickets, NEW zones \in Visits, NEW s \in AnyOf, AddWalkIn(w, i, zones, s)
      PROVE  Raises
  <2>1. away' = away /\ (Settles(w) \/ Goes(w, "link", i))
    BY <1>1 DEF AddWalkIn, QuietDay
  <2> QED
    BY <2>1, SettlesRaises, GoesRaises DEF WillDispatch
<1>2. ASSUME NEW i \in Tickets, NEW p \in LegIds,
             DoneLeg(w, i, p) \/ SkipLeg(w, i, p) \/ RemoveService(w, i, p) \/ ReadDone(w, i, p)
      PROVE  Raises
  <2>1. \E legs : Change(w, i, "change", legs) \/ Change(w, i, "pass", legs)
    BY <1>2 DEF DoneLeg, SkipLeg, RemoveService, ReadDone, QuietDay
  <2> QED
    BY <2>1, ChangeRaises
<1>3. ASSUME NEW i \in Tickets, NEW p \in LegIds, NEW s \in AnyOf,
             AssignLeg(w, i, p, s, TRUE) \/ AssignLeg(w, i, p, s, FALSE) \/ HandLeg(w, i, p, s)
      PROVE  Raises
  <2>1. \E legs : Change(w, i, "change", legs)
    BY <1>3 DEF AssignLeg, HandLeg
  <2> QED
    BY <2>1, ChangeRaises
<1>4. ASSUME NEW i \in Tickets, NEW zone \in Zones, NEW s \in AnyOf, AddService(w, i, zone, s)
      PROVE  Raises
  <2>1. \E legs : Change(w, i, "change", legs)
    BY <1>4 DEF AddService
  <2> QED
    BY <2>1, ChangeRaises
<1>5. ASSUME NEW i \in Tickets, NEW from \in AnyOf, NEW to \in Techs, FollowBooking(w, i, from, to)
      PROVE  Raises
  <2>1. \E legs : Change(w, i, "change", legs)
    BY <1>5 DEF FollowBooking
  <2> QED
    BY <2>1, ChangeRaises
<1>6. ASSUME NEW i \in Tickets, DoneTicket(w, i) PROVE Raises
  <2>1. \E legs : Change(w, i, "change", legs)
    BY <1>6 DEF DoneTicket
  <2> QED
    BY <2>1, ChangeRaises
<1>7. ASSUME NEW i \in Tickets, WaitPayment(w, i) \/ Checkout(w, i) PROVE Raises
  BY <1>7, SettlesRaises DEF WaitPayment, Checkout
<1>8. ASSUME BeginCheckIn(w) PROVE Raises
  BY <1>8, GoesRaises DEF BeginCheckIn, WillDispatch
<1>9. /\ ~\E i \in Tickets : BeginCancelTicket(w, i) \/ BeginDeleteTicket(w, i)
      /\ ~\E s \in Techs : EndBreak(w, s)
  BY DEF BeginCancelTicket, BeginDeleteTicket, EndBreak, QuietDay, OnlyQuiet
<1> QED
  BY <1>1, <1>2, <1>3, <1>4, <1>5, <1>6, <1>7, <1>8, <1>9 DEF DeskAsks

LEMMA RestSteps ==
  ASSUME BoardTypeOK, QuietDay, OnlyQuiet, [FloorNext]_floorVars
  PROVE  \/ UNCHANGED floorVars
         \/ Raises
         \/ \E w \in Desks : Dispatch(w) \/ (desk[w].pc = "seat" /\ PutTicket(w))
         \/ \E i \in Tickets : CloseUnpaid(i)
<1>1. ASSUME NEW i \in Tickets, NoShow(i) \/ MoveToStation(i) \/ SeeStale(i) PROVE Raises
  <2>1. away' = away /\ Goes(Keeper, "park", i)
    BY <1>1 DEF NoShow, MoveToStation, SeeStale, QuietDay
  <2> QED
    BY <2>1, GoesRaises, FloorAssumption DEF WillDispatch
<1>2. ASSUME NEW s \in Techs, StartBreak(s) PROVE FALSE
  BY <1>2 DEF StartBreak, QuietDay
<1>3. ASSUME ParkStale \/ RestartFloor PROVE Raises
  <2>1. away' = away /\ Settles(Keeper)
    BY <1>3 DEF ParkStale, RestartFloor, QuietDay
  <2> QED
    BY <2>1, SettlesRaises, FloorAssumption
<1> QED
  BY <1>1, <1>2, <1>3, DeskRaises, AskedRaises DEF FloorNext

LEMMA RaisesRests ==
  ASSUME QuietDay, OnlyQuiet, Raises
  PROVE  RestInv'
<1>1. UnderWay' /\ OnlyQuiet'
  BY DEF Raises, UnderWay, OnlyQuiet
<1> QED
  BY <1>1 DEF RestInv

\* The operations of a behaviour are chosen once.
LEMMA SameDay ==
  ASSUME [FloorNext]_floorVars
  PROVE  floorMay' = floorMay
<1> DEFINE Same == floorMay' = floorMay
<1>1. ASSUME NEW w \in Desks, DeskStep(w) PROVE Same
  BY <1>1 DEF DeskStep, Dispatch, PutTicket, Reactivate, LinkBooking, PairBooking, CancelTicket,
              DeleteTicket, CheckIn
<1>2. ASSUME NEW w \in Desks, DeskAsks(w) PROVE Same
  <2>1. ASSUME NEW i \in Tickets, NEW pc, NEW legs, Change(w, i, pc, legs) PROVE Same
    BY <2>1 DEF Change
  <2>2. ASSUME NEW i \in Tickets, NEW p \in LegIds,
               DoneLeg(w, i, p) \/ SkipLeg(w, i, p) \/ RemoveService(w, i, p) \/ ReadDone(w, i, p)
        PROVE  Same
    BY <2>1, <2>2 DEF DoneLeg, SkipLeg, RemoveService, ReadDone
  <2>3. ASSUME NEW i \in Tickets, NEW p \in LegIds, NEW s \in AnyOf,
               AssignLeg(w, i, p, s, TRUE) \/ AssignLeg(w, i, p, s, FALSE) \/ HandLeg(w, i, p, s)
        PROVE  Same
    BY <2>1, <2>3 DEF AssignLeg, HandLeg
  <2>4. ASSUME NEW i \in Tickets, NEW zone \in Zones, NEW s \in AnyOf, AddService(w, i, zone, s)
        PROVE  Same
    BY <2>1, <2>4 DEF AddService
  <2>5. ASSUME NEW i \in Tickets, NEW from \in AnyOf, NEW to \in Techs, FollowBooking(w, i, from, to)
        PROVE  Same
    BY <2>1, <2>5 DEF FollowBooking
  <2>6. ASSUME NEW i \in Tickets,
               \/ DoneTicket(w, i) \/ WaitPayment(w, i) \/ Checkout(w, i)
               \/ BeginCancelTicket(w, i) \/ BeginDeleteTicket(w, i)
        PROVE  Same
    BY <2>1, <2>6 DEF DoneTicket, WaitPayment, Checkout, BeginCancelTicket, BeginDeleteTicket
  <2>7. ASSUME NEW i \in Tickets, NEW zones \in Visits, NEW s \in AnyOf, AddWalkIn(w, i, zones, s)
        PROVE  Same
    BY <2>7 DEF AddWalkIn
  <2>8. ASSUME (\E s \in Techs : EndBreak(w, s)) \/ BeginCheckIn(w) PROVE Same
    BY <2>8 DEF EndBreak, BeginCheckIn
  <2> QED
    BY <1>2, <2>2, <2>3, <2>4, <2>5, <2>6, <2>7, <2>8 DEF DeskAsks
<1>3. ASSUME NEW i \in Tickets, NoShow(i) \/ MoveToStation(i) \/ SeeStale(i) \/ CloseUnpaid(i)
      PROVE  Same
  BY <1>3 DEF NoShow, MoveToStation, SeeStale, CloseUnpaid
<1>4. ASSUME (\E s \in Techs : StartBreak(s)) \/ ParkStale \/ RestartFloor PROVE Same
  BY <1>4 DEF StartBreak, ParkStale, RestartFloor
<1>5. CASE UNCHANGED floorVars
  BY <1>5 DEF floorVars
<1> QED
  BY <1>1, <1>2, <1>3, <1>4, <1>5 DEF FloorNext

LEMMA RestInit == FloorInit => RestInv
<1> SUFFICES ASSUME FloorInit PROVE RestInv
  OBVIOUS
<1>1. away = {} /\ \A w \in Desks : desk[w].pc = "idle"
  BY DEF FloorInit, Rested
<1>2. AllTaken(ticket)
  BY DEF FloorInit, NoTicket, AllTaken, Waiting
<1> QED
  BY <1>1, <1>2 DEF RestInv, OnlyQuiet

LEMMA RestNext == BackInv /\ RestInv /\ [FloorNext]_floorVars => RestInv'
<1> SUFFICES ASSUME BackInv, RestInv, [FloorNext]_floorVars PROVE RestInv'
  OBVIOUS
<1>1. BoardTypeOK /\ OneHolder /\ floorMay' = floorMay
  BY SameDay DEF BackInv
<1>2. SUFFICES ASSUME QuietDay PROVE RestInv'
  BY <1>1 DEF RestInv, QuietDay
<1>3. OnlyQuiet
  BY <1>2 DEF RestInv
<1>4. CASE UNCHANGED floorVars
  <2>1. UNCHANGED <<ticket, away, desk, floorMay>>
    BY <1>4 DEF floorVars
  <2>2. AllTaken(ticket)' <=> AllTaken(ticket)
    BY <2>1 DEF AllTaken, Waiting, MayTake, AtAPart, Running, Able
  <2>3. ASSUME NEW w \in Desks PROVE PlanSettles(w)' <=> PlanSettles(w)
    <3>1. Written(w)' = Written(w)
      BY <2>1 DEF Written
    <3>2. AllTaken(Written(w))' <=> AllTaken(Written(w))
      BY <2>1, <3>1 DEF AllTaken, Waiting, MayTake, AtAPart, Running, Able
    <3> QED
      BY <2>1, <3>2 DEF PlanSettles
  <2> QED
    BY <2>1, <2>2, <2>3 DEF RestInv, QuietDay, OnlyQuiet, UnderWay
<1> QED
  BY <1>1, <1>2, <1>3, <1>4, RestSteps, RaisesRests, DispatchRests, PutRests, CloseRests

LEMMA RestHolds == BackInv /\ RestInv => QuietFloor
<1> SUFFICES ASSUME BackInv, RestInv, QuietDay, \A w \in Desks : desk[w].pc = "idle",
                    NEW f \in Plans, NEW l \in Queue
             PROVE  f[l] = Nobody
  BY DEF QuietFloor, QuietDay, DeskAt
<1>1. ~UnderWay
  BY DEF UnderWay, WillDispatch
<1>2. AllTaken(ticket) /\ BoardTypeOK
  BY <1>1 DEF RestInv, BackInv
<1> QED
  BY <1>2, PlanTakes

\* With no request under way nobody is free for a part that waits, on a day without what the
\* property names: whoever changes something that may free a technician runs the dispatcher,
\* and a plan leaves nobody free beside a part she may take, though it is written ticket by
\* ticket while others come and go (settle, dispatchLocked, planDispatch).
THEOREM QuietCorrect == FloorSpec => []QuietFloor
BY BackInit, BackNext, RestInit, RestNext, RestHolds, PTL DEF FloorSpec
-----------------------------------------------------------------------------
\* One ticket for a booking.  Who found no ticket of it is the only one to make one: with one
\* person at the desk nobody else checks in or links meanwhile, the others give no ticket a
\* booking, and none is cancelled that could come back.

HasBooking(row) == row.booked /\ row.status \notin Empty \cup {"CANCELLED"}

\* Between the look and the write.
Pairing == {"checkIn", "pair"}

NoneCancelled ==
  /\ \A i \in Tickets : ticket[i].status # "CANCELLED"
  /\ \A w \in Desks : desk[w].pc \notin {"cancel", "cancelServing"}

OneInv ==
  OneDesk /\ "cancel" \notin floorMay =>
    /\ NoneCancelled /\ OneTicketPerVisit
    /\ desk[Keeper].pc \notin Pairing \cup {"link"}
    /\ \A w \in Desks : desk[w].pc \in Pairing => \A i \in Tickets : ~HasBooking(ticket[i])

\* Steps that give no ticket a booking, and look before they start to.
SameTickets ==
  \A i \in Tickets : /\ HasBooking(ticket'[i]) => HasBooking(ticket[i])
                     /\ ticket'[i].status # "CANCELLED"
Looks(w) ==
  \/ desk'[w] = desk[w]
  \/ desk'[w].pc \notin Pairing \cup {"link", "cancel", "cancelServing"}
  \/ w # Keeper /\ desk'[w].pc = "link"
  \/ w # Keeper /\ desk'[w].pc \in Pairing /\ ~OnTheFloor
Harmless == SameTickets /\ \A w \in Desks : Looks(w)

LEMMA HarmlessOne ==
  ASSUME OneInv, OneDesk, "cancel" \notin floorMay, Harmless
  PROVE  OneInv'
<1>1. NoneCancelled'
  BY DEF OneInv, NoneCancelled, Harmless, SameTickets, Looks, Pairing
<1>2. OneTicketPerVisit'
  BY DEF OneInv, OneTicketPerVisit, Harmless, SameTickets, HasBooking, Exists, Empty
<1>3. desk'[Keeper].pc \notin Pairing \cup {"link"}
  BY FloorAssumption DEF OneInv, Harmless, Looks
<1>4. ASSUME NEW w \in Desks, desk'[w].pc \in Pairing, NEW i \in Tickets
      PROVE  ~HasBooking(ticket'[i])
  <2>1. CASE desk'[w] = desk[w]
    BY <1>4, <2>1 DEF OneInv, Harmless, SameTickets
  <2>2. CASE ~OnTheFloor
    <3>1. ~HasBooking(ticket[i])
      BY <2>2 DEF OnTheFloor, HasBooking, Exists, Empty
    <3> QED
      BY <3>1 DEF Harmless, SameTickets
  <2> QED
    BY <1>4, <2>1, <2>2 DEF Harmless, Looks, Pairing
<1> QED
  BY <1>1, <1>2, <1>3, <1>4 DEF OneInv

\* Where a request is next.
LEMMA DeskNow ==
  ASSUME BoardTypeOK, NEW w \in Desks, NEW pc, NEW i, Goes(w, pc, i)
  PROVE  /\ desk'[w].pc = pc
         /\ \A v \in Desks : v # w => desk'[v] = desk[v]
<1> DEFINE new == [Rested EXCEPT !.pc = pc, !.ticket = i]
<1>1. new.pc = pc
  BY DEF Rested
<1>2. desk' = [desk EXCEPT ![w] = new]
  BY DEF Goes
<1> HIDE DEF new
<1> QED
  BY <1>1, <1>2 DEF BoardTypeOK

LEMMA SettlesLooks ==
  ASSUME BoardTypeOK, NEW w \in Desks, Settles(w) \/ Leaves(w)
  PROVE  /\ desk'[w].pc \in {"settle", "idle"}
         /\ \A v \in Desks : v # w => desk'[v] = desk[v]
         /\ \A v \in Desks : Looks(v)
<1>1. desk'[w].pc \in {"settle", "idle"} /\ \A v \in Desks : v # w => desk'[v] = desk[v]
  <2>1. CASE Settles(w)
    BY <2>1, DeskNow DEF Settles
  <2>2. CASE Leaves(w)
    <3>1. Rested.pc = "idle"
      BY DEF Rested
    <3> QED
      BY <2>2, <3>1 DEF Leaves, BoardTypeOK
  <2> QED
    BY <2>1, <2>2
<1> QED
  BY <1>1 DEF Looks, Pairing

LEMMA ChangeHarmless ==
  ASSUME BoardTypeOK, NoneCancelled, NEW w \in Desks, NEW i,
         NEW pc \in {"change", "pass"}, NEW legs, Change(w, i, pc, legs)
  PROVE  Harmless
<1> DEFINE new == Writes(pc, i, legs)
<1>1. new.pc = pc
  BY DEF Writes
<1>2. desk' = [desk EXCEPT ![w] = new]
  BY DEF Change
<1> HIDE DEF new
<1>3. \A v \in Desks : Looks(v)
  BY <1>1, <1>2 DEF BoardTypeOK, Looks, Pairing
<1>4. SameTickets
  BY DEF Change, SameTickets, NoneCancelled
<1> QED
  BY <1>3, <1>4 DEF Harmless

LEMMA PutHarmless ==
  ASSUME BoardTypeOK, NoneCancelled, NEW w \in Desks, PutTicket(w)
  PROVE  Harmless
<1>1. PICK i \in desk[w].todo :
        /\ ticket' = WriteItems(i, desk[w].legs[i])
        /\ LET rest == desk[w].todo \ {i}
           IN  IF rest # {}
               THEN desk' = [desk EXCEPT ![w] =
                               [pc |-> @.pc, ticket |-> @.ticket, todo |-> rest,
                                legs |-> [desk[w].legs EXCEPT ![i] = NoLegs]]]
               ELSE IF desk[w].pc \in {"seat", "restore"} THEN Leaves(w) ELSE Settles(w)
  BY DEF PutTicket
<1>2. desk[w].pc \in Holding /\ i \in Tickets
  BY DEF PutTicket, BoardTypeOK, Request
<1>3. \A v \in Desks : Looks(v)
  <2>1. CASE desk[w].todo \ {i} = {}
    <3>1. Leaves(w) \/ Settles(w)
      BY <1>1, <2>1
    <3> QED
      BY <3>1, SettlesLooks
  <2>2. CASE desk[w].todo \ {i} # {}
    <3> DEFINE new == [pc |-> desk[w].pc, ticket |-> desk[w].ticket, todo |-> desk[w].todo \ {i},
                       legs |-> [desk[w].legs EXCEPT ![i] = NoLegs]]
    <3>1. desk' = [desk EXCEPT ![w] = new] /\ new.pc = desk[w].pc
      BY <1>1, <2>2
    <3> HIDE DEF new
    <3> QED
      BY <1>2, <3>1 DEF Looks, Pairing, Holding, BoardTypeOK
  <2> QED
    BY <2>1, <2>2
<1>4. SameTickets
  <2> DEFINE legs == desk[w].legs[i]
             status == SyncTicket(legs)
  <2>1. status \in {"WAITING", "SERVING", "DONE"}
    BY SyncTicketOK
  <2>2. ticket' = IF Exists(i) THEN [ticket EXCEPT ![i].legs = legs, ![i].status = status] ELSE ticket
    BY <1>1 DEF WriteItems
  <2> HIDE DEF legs, status
  <2> QED
    BY <1>2, <2>1, <2>2 DEF SameTickets, NoneCancelled, HasBooking, Exists, Empty, BoardTypeOK, Ticket
<1> QED
  BY <1>3, <1>4 DEF Harmless

\* What a request does by itself, but for giving a ticket the booking.
LEMMA DeskHarmless ==
  ASSUME BoardTypeOK, OneInv, OneDesk, "cancel" \notin floorMay, NEW w \in Desks,
         \/ Dispatch(w) \/ PutTicket(w) \/ Reactivate(w) \/ LinkBooking(w) \/ CancelTicket(w)
         \/ DeleteTicket(w)
  PROVE  Harmless
<1>1. NoneCancelled /\ (desk[w].pc = "link" => w # Keeper)
  BY DEF OneInv
<1>2. CASE Dispatch(w)
  <2>1. SameTickets
    BY <1>1, <1>2 DEF Dispatch, SameTickets, NoneCancelled
  <2>2. PICK todo, legs : \/ Leaves(w)
                          \/ desk' = [desk EXCEPT ![w] = [Rested EXCEPT !.pc = "seat", !.todo = todo,
                                                                        !.legs = legs]]
    BY <1>2 DEF Dispatch
  <2>3. CASE Leaves(w)
    BY <2>1, <2>3, SettlesLooks DEF Harmless
  <2>4. CASE ~Leaves(w)
    <3> DEFINE new == [Rested EXCEPT !.pc = "seat", !.todo = todo, !.legs = legs]
    <3>1. new.pc = "seat" /\ desk' = [desk EXCEPT ![w] = new]
      BY <2>2, <2>4 DEF Rested
    <3> HIDE DEF new
    <3> QED
      BY <2>1, <3>1 DEF Harmless, Looks, Pairing, BoardTypeOK
  <2> QED
    BY <2>3, <2>4
<1>3. CASE PutTicket(w)
  BY <1>1, <1>3, PutHarmless
<1>4. CASE Reactivate(w)
  <2>1. SameTickets
    BY <1>1, <1>4 DEF Reactivate, SameTickets, NoneCancelled
  <2>2. \A v \in Desks : Looks(v)
    BY <1>4 DEF Reactivate, Looks, Pairing, BoardTypeOK, Request
  <2> QED
    BY <2>1, <2>2 DEF Harmless
<1>5. CASE LinkBooking(w)
  <2>1. SameTickets
    BY <1>1, <1>5 DEF LinkBooking, SameTickets, NoneCancelled
  <2>2. CASE OnTheFloor
    BY <1>5, <2>1, <2>2, SettlesLooks DEF LinkBooking, Harmless
  <2>3. CASE ~OnTheFloor
    <3>1. Goes(w, "pair", desk[w].ticket) /\ w # Keeper
      BY <1>1, <1>5, <2>3 DEF LinkBooking, DeskAt
    <3> QED
      BY <2>1, <2>3, <3>1, DeskNow DEF Harmless, Looks, Pairing
  <2> QED
    BY <2>2, <2>3
<1>6. CASE CancelTicket(w)
  BY <1>1, <1>6 DEF CancelTicket, NoneCancelled
<1>7. CASE DeleteTicket(w)
  <2>1. SameTickets
    BY <1>1, <1>7 DEF DeleteTicket, SameTickets, NoneCancelled, BoardTypeOK, HasBooking, NoTicket
  <2> QED
    BY <1>7, <2>1, SettlesLooks DEF DeleteTicket, Harmless
<1> QED
  BY <1>2, <1>3, <1>4, <1>5, <1>6, <1>7

\* The booking gets its ticket: nobody else is about to make one.
LEMMA PairingOne ==
  ASSUME BoardTypeOK, OneInv, OneDesk, "cancel" \notin floorMay, NEW w \in Desks,
         NEW i \in Tickets \cup {0}, desk[w].pc \in Pairing, Settles(w),
         \A j \in Tickets : /\ j # i => ticket'[j] = ticket[j]
                            /\ ticket'[j].status # "CANCELLED"
  PROVE  OneInv'
<1>1. /\ NoneCancelled /\ w # Keeper
      /\ desk[Keeper].pc \notin Pairing \cup {"link"}
      /\ \A j \in Tickets : ~HasBooking(ticket[j])
  BY DEF OneInv
<1>2. \A v \in Desks : \/ v = Keeper /\ desk'[v] = desk[v]
                       \/ desk'[v].pc \in {"settle", "idle"}
  BY <1>1, SettlesLooks DEF OneDesk
<1>3. NoneCancelled'
  BY <1>1, <1>2 DEF NoneCancelled
<1>4. OneTicketPerVisit'
  BY <1>1 DEF OneTicketPerVisit, HasBooking, Exists, Empty
<1>5. \A v \in Desks : desk'[v].pc \notin Pairing
  BY <1>1, <1>2 DEF Pairing
<1>6. desk'[Keeper].pc # "link"
  BY <1>1, <1>2, FloorAssumption
<1> QED
  BY <1>3, <1>4, <1>5, <1>6, FloorAssumption DEF OneInv

LEMMA DeskOne ==
  ASSUME BoardTypeOK, OneInv, OneDesk, "cancel" \notin floorMay, NEW w \in Desks, DeskStep(w)
  PROVE  OneInv'
<1>1. NoneCancelled
  BY DEF OneInv
<1>2. CASE PairBooking(w)
  <2>1. desk[w].ticket \in Tickets \cup {0} /\ desk[w].pc \in Pairing /\ Settles(w)
    BY <1>2 DEF PairBooking, BoardTypeOK, Request, DeskAt, Pairing
  <2>2. \A j \in Tickets : /\ j # desk[w].ticket => ticket'[j] = ticket[j]
                           /\ ticket'[j].status # "CANCELLED"
    BY <1>1, <1>2 DEF PairBooking, BoardTypeOK, Ticket, NoneCancelled
  <2> QED
    BY <2>1, <2>2, PairingOne
<1>3. ASSUME NEW i \in Tickets, NEW zones \in Visits, NEW s \in AnyOf, CheckIn(w, i, zones, s)
      PROVE  OneInv'
  <2>1. desk[w].pc \in Pairing /\ Settles(w)
    BY <1>3 DEF CheckIn, DeskAt, Pairing
  <2>2. PICK row : row.status # "CANCELLED" /\ ticket' = [ticket EXCEPT ![i] = row]
    <3>1. PICK k \in Tickets :
            ticket' = [ticket EXCEPT ![i] =
              [NoTicket EXCEPT !.status = IF s = Nobody THEN "WAITING" ELSE "SERVING",
                               !.booked = TRUE, !.place = 2 * k - 1,
                               !.legs = [NewLegs(zones, s) EXCEPT
                                           ![1].status = IF s = Nobody THEN @ ELSE "SERVING"]]]
      BY <1>3 DEF CheckIn
    <3> DEFINE row == [NoTicket EXCEPT !.status = IF s = Nobody THEN "WAITING" ELSE "SERVING",
                               !.booked = TRUE, !.place = 2 * k - 1,
                               !.legs = [NewLegs(zones, s) EXCEPT
                                           ![1].status = IF s = Nobody THEN @ ELSE "SERVING"]]
    <3>2. row.status # "CANCELLED"
      BY DEF NoTicket
    <3>3. ticket' = [ticket EXCEPT ![i] = row]
      BY <3>1
    <3> HIDE DEF row
    <3> QED
      BY <3>2, <3>3
  <2>3. \A j \in Tickets : /\ j # i => ticket'[j] = ticket[j]
                           /\ ticket'[j].status # "CANCELLED"
    BY <1>1, <2>2 DEF BoardTypeOK, NoneCancelled
  <2> QED
    BY <2>1, <2>3, PairingOne
<1> QED
  BY <1>2, <1>3, DeskHarmless, HarmlessOne DEF DeskStep

\* What somebody asks for.
LEMMA AskedHarmless ==
  ASSUME BoardTypeOK, NoneCancelled, "cancel" \notin floorMay, NEW w \in Desks \ {Keeper},
         DeskAsks(w)
  PROVE  Harmless
<1>1. ASSUME NEW i \in Tickets, NEW zones \in Visits, NEW s \in AnyOf, AddWalkIn(w, i, zones, s)
      PROVE  Harmless
  <2> DEFINE row == [NoTicket EXCEPT !.status = "WAITING", !.place = 2 * i, !.legs = NewLegs(zones, s)]
  <2>1. row.status = "WAITING" /\ row.booked = FALSE
    BY DEF NoTicket
  <2>2. ticket' = [ticket EXCEPT ![i] = row]
    BY <1>1 DEF AddWalkIn
  <2> HIDE DEF row
  <2>3. SameTickets
    BY <2>1, <2>2 DEF SameTickets, HasBooking, NoneCancelled, BoardTypeOK
  <2>4. Settles(w) \/ Leaves(w) \/ Goes(w, "link", i)
    BY <1>1 DEF AddWalkIn
  <2>5. \A v \in Desks : Looks(v)
    BY <2>4, SettlesLooks, DeskNow DEF Looks
  <2> QED
    BY <2>3, <2>5 DEF Harmless
<1>2. ASSUME NEW i \in Tickets, NEW p \in LegIds,
             DoneLeg(w, i, p) \/ SkipLeg(w, i, p) \/ RemoveService(w, i, p)
      PROVE  Harmless
  <2>1. \E legs : Change(w, i, "change", legs) \/ Change(w, i, "pass", legs)
    BY <1>2 DEF DoneLeg, SkipLeg, RemoveService
  <2> QED
    BY <2>1, ChangeHarmless
<1>3. ASSUME NEW i \in Tickets, NEW p \in LegIds, ReadDone(w, i, p) PROVE Harmless
  <2>1. PICK legs : desk' = [desk EXCEPT ![w] = Writes("reactivate", i, legs)]
    BY <1>3 DEF ReadDone
  <2> DEFINE new == Writes("reactivate", i, legs)
  <2>2. new.pc = "reactivate"
    BY DEF Writes
  <2>3. SameTickets
    BY <1>3 DEF ReadDone, SameTickets, NoneCancelled
  <2>4. desk' = [desk EXCEPT ![w] = new]
    BY <2>1
  <2> HIDE DEF new
  <2> QED
    BY <2>2, <2>3, <2>4 DEF Harmless, Looks, Pairing, BoardTypeOK
<1>4. ASSUME NEW i \in Tickets, NEW p \in LegIds, NEW s \in AnyOf,
             AssignLeg(w, i, p, s, TRUE) \/ AssignLeg(w, i, p, s, FALSE) \/ HandLeg(w, i, p, s)
      PROVE  Harmless
  <2>1. \E legs : Change(w, i, "change", legs)
    BY <1>4 DEF AssignLeg, HandLeg
  <2> QED
    BY <2>1, ChangeHarmless
<1>5. ASSUME NEW i \in Tickets, NEW zone \in Zones, NEW s \in AnyOf, AddService(w, i, zone, s)
      PROVE  Harmless
  <2>1. \E legs : Change(w, i, "change", legs)
    BY <1>5 DEF AddService
  <2> QED
    BY <2>1, ChangeHarmless
<1>6. ASSUME NEW i \in Tickets, NEW from \in AnyOf, NEW to \in Techs, FollowBooking(w, i, from, to)
      PROVE  Harmless
  <2>1. \E legs : Change(w, i, "change", legs)
    BY <1>6 DEF FollowBooking
  <2> QED
    BY <2>1, ChangeHarmless
<1>7. ASSUME NEW i \in Tickets, DoneTicket(w, i) PROVE Harmless
  <2>1. \E legs : Change(w, i, "change", legs)
    BY <1>7 DEF DoneTicket
  <2> QED
    BY <2>1, ChangeHarmless
<1>8. ASSUME NEW i \in Tickets, WaitPayment(w, i) \/ Checkout(w, i) PROVE Harmless
  <2>1. SameTickets
    <3>1. CASE WaitPayment(w, i)
      BY <3>1 DEF WaitPayment, SameTickets, HasBooking, NoneCancelled, BoardTypeOK, Ticket
    <3>2. CASE Checkout(w, i)
      BY <3>2 DEF Checkout, SameTickets, HasBooking, Exists, Empty, NoneCancelled, BoardTypeOK, Ticket
    <3> QED
      BY <1>8, <3>1, <3>2
  <2>2. Settles(w)
    BY <1>8 DEF WaitPayment, Checkout
  <2> QED
    BY <2>1, <2>2, SettlesLooks DEF Harmless
<1>9. ASSUME NEW i \in Tickets, BeginCancelTicket(w, i) \/ BeginDeleteTicket(w, i) PROVE Harmless
  <2>1. SameTickets /\ Goes(w, "delete", i)
    BY <1>9 DEF BeginCancelTicket, BeginDeleteTicket, SameTickets, NoneCancelled
  <2> QED
    BY <2>1, DeskNow DEF Harmless, Looks, Pairing
<1>10. ASSUME NEW s \in Techs, EndBreak(w, s) PROVE Harmless
  <2>1. SameTickets /\ Settles(w)
    BY <1>10 DEF EndBreak, SameTickets, NoneCancelled
  <2> QED
    BY <2>1, SettlesLooks DEF Harmless
<1>11. ASSUME BeginCheckIn(w) PROVE Harmless
  <2>1. SameTickets /\ ~OnTheFloor /\ Goes(w, "checkIn", 0)
    BY <1>11 DEF BeginCheckIn, SameTickets, NoneCancelled
  <2> QED
    BY <2>1, DeskNow DEF Harmless, Looks, Pairing
<1> QED
  BY <1>1, <1>2, <1>3, <1>4, <1>5, <1>6, <1>7, <1>8, <1>9, <1>10, <1>11 DEF DeskAsks

\* The board, the timer, a restart.
LEMMA AloneHarmless ==
  ASSUME BoardTypeOK, NoneCancelled, "cancel" \notin floorMay,
         \/ \E i \in Tickets : NoShow(i) \/ MoveToStation(i) \/ SeeStale(i) \/ CloseUnpaid(i)
         \/ \E s \in Techs : StartBreak(s)
         \/ ParkStale \/ RestartFloor
  PROVE  Harmless
<1>1. ASSUME NEW i \in Tickets, NoShow(i) \/ MoveToStation(i) \/ CloseUnpaid(i) PROVE Harmless
  <2>1. desk' = desk
    BY <1>1 DEF NoShow, MoveToStation, CloseUnpaid
  <2>2. SameTickets
    <3>1. CASE NoShow(i)
      BY <3>1 DEF NoShow
    <3>2. CASE MoveToStation(i)
      BY <3>2 DEF MoveToStation, SameTickets, HasBooking, NoneCancelled, BoardTypeOK, Ticket
    <3>3. CASE CloseUnpaid(i)
      BY <3>3 DEF CloseUnpaid, SameTickets, HasBooking, Empty, NoneCancelled, BoardTypeOK, Ticket
    <3> QED
      BY <1>1, <3>1, <3>2, <3>3
  <2> QED
    BY <2>1, <2>2 DEF Harmless, Looks
<1>2. ASSUME NEW i \in Tickets, SeeStale(i) PROVE Harmless
  <2>1. SameTickets /\ Goes(Keeper, "park", i)
    BY <1>2 DEF SeeStale, SameTickets, NoneCancelled
  <2> QED
    BY <2>1, DeskNow, FloorAssumption DEF Harmless, Looks, Pairing
<1>3. ASSUME NEW s \in Techs, StartBreak(s) PROVE Harmless
  BY <1>3 DEF StartBreak, Harmless, SameTickets, Looks, NoneCancelled
<1>4. CASE ParkStale
  <2>1. SameTickets
    BY <1>4 DEF ParkStale, SameTickets, HasBooking, NoneCancelled, BoardTypeOK, Ticket
  <2>2. Settles(Keeper)
    BY <1>4 DEF ParkStale
  <2> QED
    BY <2>1, <2>2, SettlesLooks, FloorAssumption DEF Harmless
<1>5. CASE RestartFloor
  <2>1. SameTickets
    BY <1>5 DEF RestartFloor, SameTickets, NoneCancelled
  <2>2. \A w \in Desks : desk'[w].pc = "idle"
    BY <1>5 DEF RestartFloor, Rested
  <2> QED
    BY <2>1, <2>2 DEF Harmless, Looks, Pairing
<1> QED
  BY <1>1, <1>2, <1>3, <1>4, <1>5

LEMMA OneInit == FloorInit => OneInv
<1> SUFFICES ASSUME FloorInit PROVE OneInv
  OBVIOUS
<1>1. \A i \in Tickets : ticket[i].status = "none"
  BY DEF FloorInit, NoTicket
<1>2. \A w \in Desks : desk[w].pc = "idle"
  BY DEF FloorInit, Rested
<1> QED
  BY <1>1, <1>2, FloorAssumption DEF OneInv, NoneCancelled, OneTicketPerVisit, Exists, Pairing

LEMMA OneNext == BackInv /\ OneInv /\ [FloorNext]_floorVars => OneInv'
<1> SUFFICES ASSUME BackInv, OneInv, [FloorNext]_floorVars PROVE OneInv'
  OBVIOUS
<1>1. BoardTypeOK /\ floorMay' = floorMay
  BY SameDay DEF BackInv
<1>2. SUFFICES ASSUME OneDesk, "cancel" \notin floorMay PROVE OneInv'
  BY <1>1 DEF OneInv
<1>3. NoneCancelled
  BY <1>2 DEF OneInv
<1>4. CASE UNCHANGED floorVars
  BY <1>2, <1>3, <1>4, HarmlessOne DEF floorVars, Harmless, SameTickets, Looks, NoneCancelled
<1>5. ASSUME NEW w \in Desks, DeskStep(w) PROVE OneInv'
  BY <1>1, <1>2, <1>5, DeskOne
<1>6. CASE \E w \in Desks \ {Keeper} : DeskAsks(w)
  BY <1>1, <1>2, <1>3, <1>6, AskedHarmless, HarmlessOne
<1> QED
  BY <1>1, <1>2, <1>3, <1>4, <1>5, <1>6, AloneHarmless, HarmlessOne DEF FloorNext

\* One person at the desk, the timer beside: a booking gets one ticket, whichever way it is
\* asked for and whatever became of the first, as long as none is cancelled (seatAppointment
\* 1419, pairTicketWithBooking); any number of technicians, visits and parts.
THEOREM OneTicketCorrect == FloorSpec => []OneTicketEach
<1>1. OneInv => OneTicketEach
  BY DEF OneInv, OneTicketEach
<1> QED
  BY <1>1, BackInit, BackNext, OneInit, OneNext, PTL DEF FloorSpec
=============================================================================
