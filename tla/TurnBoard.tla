----------------------------- MODULE TurnBoard -----------------------------
(***************************************************************************)
(* The floor of a salon: walk-in tickets, the parts (legs) of each visit,  *)
(* and the dispatcher that gives them to technicians.                      *)
(*                                                                         *)
(* Source: apps/api/src/walkins/walkins.service.ts; planDispatch,          *)
(* syncTicket, busyTechs, needFor and attachLines of walkin-legs.ts;       *)
(* handLegsTo of booking-tech-sync.ts; pairTicketWithBooking of            *)
(* booking-link.ts; the till's checkout where it closes a ticket.          *)
(*                                                                         *)
(* Changes of legs and the dispatcher run one at a time (serial); between  *)
(* their read and their writes, what does not take that lock goes on: the  *)
(* till, cancelling, sending to pay, checking in, the housekeeping timer.  *)
(***************************************************************************)
EXTENDS Integers, FiniteSets, Sequences

CONSTANTS Techs, Nobody, \* the technicians; none of them
          Does,          \* which zones each is ticked for
          Tickets,       \* 1 .. n: bound on the visits of a day
          LegIds,         \* 1 .. n: bound on the legs of a visit
          Visits,        \* what customers ask for: sequences of zones
          Desks,         \* requests in flight
          Keeper,        \* ... one of them the housekeeping timer
          FloorWorlds    \* which operations a behaviour may see: sets of them

Zones == {"HAND", "FOOT", "OTHER"}

ASSUME TechsAssumption == Nobody \notin Techs /\ Does \in [Techs -> SUBSET Zones]
ASSUME FloorAssumption == /\ Tickets \subseteq Nat \ {0} /\ LegIds \subseteq Nat \ {0} /\ 1 \in LegIds
                          /\ Visits \subseteq Seq(Zones) /\ Keeper \in Desks

VARIABLES ticket,   \* the walk_in rows
          away,     \* who is on a break
          desk,     \* where each request is
          byHand,   \* legs a person, not the dispatcher, put a technician on
          passed,   \* legs a technician passed on
          floorMay  \* the operations of this behaviour

floorVars == <<ticket, away, desk, byHand, passed, floorMay>>

\* All the lines with one legId; pinned to someone.
Leg == {leg \in [status : {"none", "WAITING", "SERVING", "DONE"}, zone : Zones,
                 tech : Techs \cup {Nobody}, pinned : BOOLEAN, skipped : SUBSET Techs] :
          leg.pinned => leg.tech # Nobody}

\* paying: awaitingPayment; billed: it has an order; booked: it has the appointment's id;
\* place: when it counts as having arrived.
Ticket == [status : {"none", "WAITING", "SERVING", "DONE", "CANCELLED", "deleted"},
           paying : BOOLEAN, billed : BOOLEAN, booked : BOOLEAN, place : Nat,
           legs : [LegIds -> Leg]]

NoLeg    == [status |-> "none", zone |-> "OTHER", tech |-> Nobody, pinned |-> FALSE,
             skipped |-> {}]
NoLegs   == [p \in LegIds |-> NoLeg]
NoTicket == [status |-> "none", paying |-> FALSE, billed |-> FALSE, booked |-> FALSE,
             place |-> 0, legs |-> NoLegs]

\* Where a request is: holding the lock, or on its way to it.
Holding == {"change", "pass", "restore", "seat"}
Doings  == Holding \cup {"idle", "settle", "checkIn", "link", "pair", "cancel",
                         "cancelServing", "delete", "reactivate", "park"}

\* ticket: the one it is about; todo: those it is going to write, legs: what into each.
Request == [pc : Doings, ticket : Tickets \cup {0}, todo : SUBSET Tickets,
            legs : [Tickets -> [LegIds -> Leg]]]
Rested  == [pc |-> "idle", ticket |-> 0, todo |-> {}, legs |-> [i \in Tickets |-> NoLegs]]

FloorInit ==
  /\ ticket = [i \in Tickets |-> NoTicket]
  /\ away = {} /\ byHand = {} /\ passed = {}
  /\ desk = [w \in Desks |-> Rested]
  /\ floorMay \in FloorWorlds

Exists(i)  == ticket[i].status \notin {"none", "deleted"}
Present(i) == {p \in LegIds : ticket[i].legs[p].status # "none"}

\* What the board lets a person press on; a board not refreshed shows closed visits too.
Shown(i) == \/ ticket[i].status \in {"WAITING", "SERVING"}
            \/ "late" \in floorMay /\ ticket[i].status \in {"DONE", "CANCELLED"}

\* serial: one holder of the salon's lock.
LockFree == \A w \in Desks : desk[w].pc \notin Holding

DeskAt(w, pc)      == desk[w].pc = pc
Goes(w, pc, i) == desk' = [desk EXCEPT ![w] = [Rested EXCEPT !.pc = pc, !.ticket = i]]
Settles(w)     == Goes(w, "settle", 0)
Leaves(w)      == desk' = [desk EXCEPT ![w] = Rested]

-----------------------------------------------------------------------------
\* The queue's rules.

\* Two legs of one customer run at once only as hands and feet.
CanRunTogether(a, b) == {a, b} = {"HAND", "FOOT"}

\* What the row says, from its legs (syncTicket).
SyncTicket(legs) ==
  LET here == {p \in LegIds : legs[p].status # "none"}
  IN  IF here # {} /\ \A p \in here : legs[p].status = "DONE" THEN "DONE"
      ELSE IF \E p \in here : legs[p].status # "WAITING" THEN "SERVING" ELSE "WAITING"

\* writeItems: by the row's id, whatever it has become; a deleted row stays away.
WriteItems(i, legs) ==
  IF Exists(i)
  THEN [ticket EXCEPT ![i].legs = legs, ![i].status = SyncTicket(legs)]
  ELSE ticket

Serving(i) == {p \in Present(i) : ticket[i].legs[p].status = "SERVING"}
Started(i) == \E p \in Present(i) : ticket[i].legs[p].status # "WAITING"
OnFloor(i) == ticket[i].status = "SERVING" /\ ~ticket[i].paying

\* Mutant: one technician for each ticket, as before there were legs.
BusyAtFirst ==
  UNION {{ticket[i].legs[p].tech : p \in {q \in Serving(i) : \A r \in Serving(i) : q <= r}} :
           i \in {j \in Tickets : OnFloor(j)}}

\* Technicians working on something right now.
Busy == UNION {{ticket[i].legs[p].tech : p \in Serving(i)} : i \in {j \in Tickets : OnFloor(j)}}

LegAt(l) == ticket[l[1]].legs[l[2]]

\* Legs the dispatcher may start: of tickets not sent to pay.
Queue == {l \in Tickets \X LegIds :
            /\ ticket[l[1]].status \in {"WAITING", "SERVING"} /\ ~ticket[l[1]].paying
            /\ LegAt(l).status = "WAITING"}

\* Customers part-way through a visit first, then by arrival; legs in their order.
Ahead(l, m) ==
  LET i == l[1]  j == m[1]
  IN  \/ Started(i) /\ ~Started(j)
      \/ /\ Started(i) = Started(j)
         /\ \/ ticket[i].place < ticket[j].place
            \/ ticket[i].place = ticket[j].place /\ (i < j \/ (i = j /\ l[2] < m[2]))

\* Technicians a waiting customer asked for by name.
Reserved == {LegAt(l).tech : l \in {m \in Queue : LegAt(m).pinned}}

\* needFor: who does the service; anyone, when nobody at work does.
Able(zone) == LET do == {s \in Techs \ away : zone \in Does[s]}
              IN  IF do = {} THEN Techs \ away ELSE do

\* Mutant: only what ran already counts.
RunningAlready(l, f) == {ticket[l[1]].legs[p].zone : p \in Serving(l[1])}

\* Zones running beside the leg, with those that plan f starts before it.
RunningBeside(l, f) ==
  {ticket[l[1]].legs[p].zone : p \in Serving(l[1])}
    \cup {LegAt(m).zone : m \in {n \in Queue : n[1] = l[1] /\ Ahead(n, l) /\ f[n] # Nobody}}

\* Who is free for it, and may have it, after the legs before it got theirs.
Takers(l, f) ==
  LET free == (Techs \ (away \cup Busy)) \ {f[m] : m \in {n \in Queue : Ahead(n, l)}}
  IN  IF \E z \in RunningBeside(l, f) : ~CanRunTogether(z, LegAt(l).zone) THEN {}
      ELSE IF LegAt(l).pinned THEN free \cap {LegAt(l).tech}
      ELSE (free \cap Able(LegAt(l).zone)) \ LegAt(l).skipped

\* Rather one that no other customer asked for; nobody, if there is none.
Picks(l, f) ==
  LET takers == Takers(l, f)
      spare  == IF LegAt(l).pinned THEN takers ELSE takers \ Reserved
  IN  IF takers = {} THEN {Nobody} ELSE IF spare = {} THEN takers ELSE spare

\* planDispatch: every leg of the queue in its turn; among equals anyone (turns, tie rules).
Plans == {f \in [Queue -> Techs \cup {Nobody}] : \A l \in Queue : f[l] \in Picks(l, f)}

\* The legs of i with the plan carried out.
Seated(i, f) ==
  [p \in LegIds |->
     IF <<i, p>> \in Queue /\ f[<<i, p>>] # Nobody
     THEN [ticket[i].legs[p] EXCEPT !.status = "SERVING", !.tech = f[<<i, p>>]]
     ELSE ticket[i].legs[p]]

\* dispatchLocked: reads the floor, plans, then writes ticket by ticket.
Dispatch(w) ==
  /\ DeskAt(w, "settle") /\ LockFree
  /\ \E f \in Plans :
       LET seats == {i \in Tickets : \E p \in LegIds : <<i, p>> \in Queue /\ f[<<i, p>>] # Nobody}
       IN  IF seats = {} THEN Leaves(w)
           ELSE desk' = [desk EXCEPT ![w] =
                  [Rested EXCEPT !.pc = "seat", !.todo = seats,
                                 !.legs = [i \in Tickets |-> IF i \in seats THEN Seated(i, f)
                                                             ELSE NoLegs]]]
  /\ UNCHANGED <<ticket, away, byHand, passed, floorMay>>

\* Who is at which part of visit i with these legs.
Serves(i, legs) == {<<i, p, legs[p].tech>> : p \in {q \in LegIds : legs[q].status = "SERVING"}}
Taken(i, legs)  == {<<i, p, ticket[i].legs[p].tech>> :
                      p \in {q \in LegIds : legs[q].tech # ticket[i].legs[q].tech}}
\* The ids of removed parts are used again here, in the program never: another part under one.
Renewed(i, legs) == {x \in Serves(i, legs) : legs[x[2]].zone # ticket[i].legs[x[2]].zone}
Gone(i, legs)   == {i} \X {p \in LegIds : legs[p].status = "none"} \X Techs

\* The holder's next write, oldest ticket first; then it gives the lock back.
PutTicket(w) ==
  /\ desk[w].pc \in Holding
  /\ \E i \in desk[w].todo :
       LET legs  == desk[w].legs[i]
           rest  == desk[w].todo \ {i}
           kept  == {x \in byHand : x[1] # i \/ x \in Serves(i, legs)}
           fresh == Serves(i, legs) \ Serves(i, ticket[i].legs)
       IN  /\ \A j \in rest : ticket[i].place <= ticket[j].place
           /\ ticket' = WriteItems(i, legs)
           /\ byHand' = IF DeskAt(w, "seat") THEN kept \ fresh
                        ELSE kept \cup Renewed(i, legs)
                                  \cup (IF OnFloor(i) THEN fresh ELSE Serves(i, legs))
           /\ passed' = (IF DeskAt(w, "pass") THEN passed \cup Taken(i, legs) ELSE passed)
                          \ Gone(i, legs)
           /\ IF rest # {}
              THEN desk' = [desk EXCEPT ![w] =
                              [pc |-> @.pc, ticket |-> @.ticket, todo |-> rest,
                               legs |-> [desk[w].legs EXCEPT ![i] = NoLegs]]]
              ELSE IF desk[w].pc \in {"seat", "restore"} THEN Leaves(w) ELSE Settles(w)
  /\ UNCHANGED <<away, floorMay>>

-----------------------------------------------------------------------------
\* Changes of legs, under the lock: the ticket is read again, then written.

Writes(pc, i, legs) == [pc |-> pc, ticket |-> i, todo |-> {i},
                        legs |-> [Rested.legs EXCEPT ![i] = legs]]

Change(w, i, pc, legs) ==
  /\ DeskAt(w, "idle") /\ LockFree
  /\ desk' = [desk EXCEPT ![w] = Writes(pc, i, legs)]
  /\ UNCHANGED <<ticket, away, byHand, passed, floorMay>>

PatchLeg(i, p, leg) == [ticket[i].legs EXCEPT ![p] = leg]

\* One part is finished: by its technician (on a finished one it only runs the dispatcher).
DoneLeg(w, i, p) ==
  LET leg == ticket[i].legs[p]
  IN  /\ Shown(i) /\ leg.status \in {"WAITING", "SERVING"} /\ leg.tech # Nobody
      /\ Change(w, i, "change", PatchLeg(i, p, [leg EXCEPT !.status = "DONE"]))

\* The whole visit is.
DoneTicket(w, i) ==
  /\ Shown(i)
  /\ Change(w, i, "change",
            [p \in LegIds |-> IF p \in Present(i) THEN [ticket[i].legs[p] EXCEPT !.status = "DONE"]
                             ELSE ticket[i].legs[p]])

\* Mutant: only the last one to pass it on is remembered.
SkipLegForgets(w, i, p) ==
  LET leg == ticket[i].legs[p]
  IN  /\ "skip" \in floorMay
      /\ Shown(i) /\ leg.status \in {"WAITING", "SERVING"} /\ leg.tech # Nobody
      /\ Change(w, i, "pass",
                PatchLeg(i, p, [leg EXCEPT !.status = "WAITING", !.tech = Nobody, !.pinned = FALSE,
                                           !.skipped = {leg.tech}]))

\* Passed on: back to the queue, never again to her.
SkipLeg(w, i, p) ==
  LET leg == ticket[i].legs[p]
  IN  /\ "skip" \in floorMay
      /\ Shown(i) /\ leg.status \in {"WAITING", "SERVING"} /\ leg.tech # Nobody
      /\ Change(w, i, "pass",
                PatchLeg(i, p, [leg EXCEPT !.status = "WAITING", !.tech = Nobody, !.pinned = FALSE,
                                           !.skipped = @ \cup {leg.tech}]))

\* Mutant: a part sent back to the queue stays pinned.
AssignLegPins(w, i, p, s, start) ==
  LET leg == ticket[i].legs[p]
  IN  /\ "assign" \in floorMay
      /\ Shown(i) /\ p \in Present(i)
      /\ Change(w, i, "change",
                PatchLeg(i, p, [leg EXCEPT !.status = IF start THEN "SERVING" ELSE "WAITING",
                                           !.tech = s, !.pinned = TRUE]))

\* The desk moves a part: to a technician, now or when she is free, or back to the queue.
AssignLeg(w, i, p, s, start) ==
  LET leg == ticket[i].legs[p]
      status == IF leg.status = "DONE" THEN "DONE"
                ELSE IF s = Nobody THEN "WAITING"
                ELSE IF start THEN "SERVING" ELSE leg.status
  IN  /\ "assign" \in floorMay
      /\ Shown(i) /\ p \in Present(i)
      /\ Change(w, i, "change",
                PatchLeg(i, p, [leg EXCEPT !.status = status, !.tech = s, !.pinned = (s # Nobody)]))

\* updateService: the part changes hands as it stands.
HandLeg(w, i, p, s) ==
  /\ "edit" \in floorMay
  /\ Shown(i) /\ p \in Present(i) /\ ticket[i].legs[p].tech # s
  /\ Change(w, i, "change",
            PatchLeg(i, p, [ticket[i].legs[p] EXCEPT !.tech = s, !.pinned = (s # Nobody)]))

\* attachLines: a line joins what its technician is at, else the open part of its zone; or it
\* starts a new part.
AddService(w, i, zone, s) ==
  LET legs == ticket[i].legs
      live == s # Nobody /\ \E p \in Serving(i) : legs[p].tech = s
      same == {p \in Present(i) : /\ zone # "OTHER" /\ legs[p].zone = zone
                                  /\ legs[p].status # "DONE"
                                  /\ Nobody \in {s, legs[p].tech} \/ legs[p].tech = s}
      next == {p \in LegIds : \A q \in Present(i) : q < p}
  IN  /\ "edit" \in floorMay /\ Shown(i)
      /\ \/ live /\ Change(w, i, "change", legs)
         \/ \E p \in same :
              /\ ~live /\ \A q \in same : p <= q
              /\ Change(w, i, "change",
                        PatchLeg(i, p, [legs[p] EXCEPT !.tech = IF @ = Nobody THEN s ELSE @]))
         \/ \E p \in next :
              /\ ~live /\ same = {} /\ \A q \in next : p <= q
              /\ Change(w, i, "change",
                        PatchLeg(i, p, [NoLeg EXCEPT !.status = "WAITING", !.zone = zone,
                                                     !.tech = s, !.pinned = (s # Nobody)]))

\* The last line of a part goes, and the part with it.
RemoveService(w, i, p) ==
  /\ "edit" \in floorMay
  /\ Shown(i) /\ p \in Present(i) /\ Present(i) # {p}
  /\ Change(w, i, "change", PatchLeg(i, p, NoLeg))

\* The calendar gave the booking to another technician: the parts still hers follow, or
\* those nobody has.
FollowBooking(w, i, from, to) ==
  LET open  == {p \in Present(i) : /\ ticket[i].legs[p].status # "DONE"
                                   /\ ticket[i].legs[p].tech # to}
      hers  == {p \in open : from # Nobody /\ ticket[i].legs[p].tech = from}
      moved == IF hers # {} THEN hers ELSE {p \in open : ticket[i].legs[p].tech = Nobody}
  IN  /\ "follow" \in floorMay
      /\ ticket[i].booked /\ ticket[i].status \in {"WAITING", "SERVING"} /\ moved # {}
      /\ Change(w, i, "change",
                [p \in LegIds |-> IF p \in moved
                                 THEN [ticket[i].legs[p] EXCEPT !.tech = to, !.pinned = TRUE]
                                 ELSE ticket[i].legs[p]])

\* Undo of Done: what it writes is the row as read before it had the lock.
ReadDone(w, i, p) ==
  LET done == {q \in Present(i) : ticket[i].legs[q].status = "DONE"}
  IN  /\ "reactivate" \in floorMay
      /\ DeskAt(w, "idle") /\ ticket[i].status = "DONE"
      /\ p \in done \/ done = {}
      /\ desk' = [desk EXCEPT ![w] =
                    Writes("reactivate", i,
                           IF done = {} THEN ticket[i].legs
                           ELSE PatchLeg(i, p, [ticket[i].legs[p] EXCEPT !.status = "SERVING"]))]
      /\ UNCHANGED <<ticket, away, byHand, passed, floorMay>>

Reactivate(w) ==
  /\ DeskAt(w, "reactivate") /\ LockFree
  /\ desk' = [desk EXCEPT ![w].pc = "restore"]
  /\ UNCHANGED <<ticket, away, byHand, passed, floorMay>>

-----------------------------------------------------------------------------
\* New tickets.

\* Days with one visit are enough for some operations.
NextTicket(i) ==
  /\ ticket[i].status = "none" /\ \A j \in Tickets : j < i => ticket[j].status # "none"
  /\ \A j \in Tickets : j < i => "others" \in floorMay

\* One part for each zone, pinned when a technician was asked for.
NewLegs(zones, s) ==
  [p \in LegIds |-> IF p > Len(zones) THEN NoLeg
                   ELSE [NoLeg EXCEPT !.status = "WAITING", !.zone = zones[p],
                                      !.tech = s, !.pinned = (s # Nobody)]]

\* add: the dispatcher runs when the desk says Auto or names a technician; a customer who
\* turns out to have a booking gets it linked first.
AddWalkIn(w, i, zones, s) ==
  /\ DeskAt(w, "idle") /\ NextTicket(i)
  /\ s # Nobody => "ask" \in floorMay
  /\ ticket' = [ticket EXCEPT ![i] = [NoTicket EXCEPT !.status = "WAITING", !.place = 2 * i,
                                                      !.legs = NewLegs(zones, s)]]
  /\ \/ Settles(w)
     \/ "link" \in floorMay /\ Goes(w, "link", i)
     \/ "queue" \in floorMay /\ s = Nobody /\ Leaves(w)
  /\ UNCHANGED <<away, byHand, passed, floorMay>>

\* Mutant: a visit that is finished does not count.
OnTheFloorNow ==
  \E i \in Tickets : ticket[i].booked /\ ticket[i].status \in {"WAITING", "SERVING"}

OnTheFloor == \E i \in Tickets : Exists(i) /\ ticket[i].booked /\ ticket[i].status # "CANCELLED"

\* pairTicketWithBooking: is it taken?
LinkBooking(w) ==
  /\ DeskAt(w, "link")
  /\ IF OnTheFloor THEN Settles(w) ELSE Goes(w, "pair", desk[w].ticket)
  /\ UNCHANGED <<ticket, away, byHand, passed, floorMay>>

\* ... then the ticket takes it.
PairBooking(w) ==
  LET i == desk[w].ticket
  IN  /\ DeskAt(w, "pair")
      /\ ticket' = IF Exists(i) THEN [ticket EXCEPT ![i].booked = TRUE] ELSE ticket
      /\ Settles(w)
      /\ UNCHANGED <<away, byHand, passed, floorMay>>

\* seatAppointment: is the booking on the floor already?
BeginCheckIn(w) ==
  /\ "checkIn" \in floorMay
  /\ DeskAt(w, "idle") /\ ~OnTheFloor
  /\ Goes(w, "checkIn", 0)
  /\ UNCHANGED <<ticket, away, byHand, passed, floorMay>>

\* ... then its ticket is made, at its booked time in the line, and the booked technician
\* starts, whatever she is at.
CheckIn(w, i, zones, s) ==
  /\ DeskAt(w, "checkIn") /\ NextTicket(i)
  /\ \E k \in Tickets :
       /\ k <= i
       /\ ticket' = [ticket EXCEPT ![i] =
            [NoTicket EXCEPT !.status = IF s = Nobody THEN "WAITING" ELSE "SERVING",
                             !.booked = TRUE, !.place = 2 * k - 1,
                             !.legs = [NewLegs(zones, s) EXCEPT
                                         ![1].status = IF s = Nobody THEN @ ELSE "SERVING"]]]
  /\ byHand' = IF s = Nobody THEN byHand ELSE byHand \cup {<<i, 1, s>>}
  /\ Settles(w)
  /\ UNCHANGED <<away, passed, floorMay>>

-----------------------------------------------------------------------------
\* What does not take the lock.

\* Off the chair, to wait to pay.
WaitPayment(w, i) ==
  /\ "pay" \in floorMay
  /\ DeskAt(w, "idle") /\ Shown(i)
  /\ ticket' = [ticket EXCEPT ![i].paying = TRUE]
  /\ Settles(w)
  /\ UNCHANGED <<away, byHand, passed, floorMay>>

\* Mutant: the queue does not move up.
CheckoutOnly(w, i) ==
  /\ "pay" \in floorMay
  /\ DeskAt(w, "idle") /\ Exists(i) /\ ~ticket[i].billed
  /\ ticket' = [ticket EXCEPT ![i].status = "DONE", ![i].billed = TRUE]
  /\ Leaves(w)
  /\ UNCHANGED <<away, byHand, passed, floorMay>>

\* The till's checkout of the visit.
Checkout(w, i) ==
  /\ "pay" \in floorMay
  /\ DeskAt(w, "idle") /\ Exists(i) /\ ~ticket[i].billed
  /\ ticket' = [ticket EXCEPT ![i].status = "DONE", ![i].billed = TRUE]
  /\ Settles(w)
  /\ UNCHANGED <<away, byHand, passed, floorMay>>

\* cancel: the status it reads decides whether a technician came free.
BeginCancelTicket(w, i) ==
  /\ "cancel" \in floorMay
  /\ DeskAt(w, "idle") /\ Shown(i)
  /\ Goes(w, IF ticket[i].status = "SERVING" THEN "cancelServing" ELSE "cancel", i)
  /\ UNCHANGED <<ticket, away, byHand, passed, floorMay>>

CancelTicket(w) ==
  LET i == desk[w].ticket
  IN  /\ desk[w].pc \in {"cancel", "cancelServing"}
      /\ IF Exists(i)
         THEN /\ ticket' = [ticket EXCEPT ![i].status = "CANCELLED"]
              /\ IF DeskAt(w, "cancelServing") THEN Settles(w) ELSE Leaves(w)
         ELSE UNCHANGED ticket /\ Leaves(w)
      /\ UNCHANGED <<away, byHand, passed, floorMay>>

\* noShow, by the desk or after the salon's minutes: of a customer still waiting.
NoShow(i) ==
  /\ "cancel" \in floorMay
  /\ ticket[i].status = "WAITING"
  /\ ticket' = [ticket EXCEPT ![i].status = "CANCELLED"]
  /\ UNCHANGED <<away, desk, byHand, passed, floorMay>>

\* remove: refused once there is an order.
BeginDeleteTicket(w, i) ==
  /\ "remove" \in floorMay
  /\ DeskAt(w, "idle") /\ Exists(i) /\ ~ticket[i].billed
  /\ Goes(w, "delete", i)
  /\ UNCHANGED <<ticket, away, byHand, passed, floorMay>>

DeleteTicket(w) ==
  /\ DeskAt(w, "delete")
  /\ ticket' = [ticket EXCEPT ![desk[w].ticket] = [NoTicket EXCEPT !.status = "deleted"]]
  /\ Leaves(w)
  /\ UNCHANGED <<away, byHand, passed, floorMay>>

\* Back to a chair, from wherever the ticket was.
MoveToStation(i) ==
  /\ "station" \in floorMay
  /\ Shown(i) /\ ticket[i].paying
  /\ ticket' = [ticket EXCEPT ![i].paying = FALSE]
  /\ byHand' = byHand \cup {<<i, p, ticket[i].legs[p].tech>> : p \in Serving(i)}
  /\ UNCHANGED <<away, desk, passed, floorMay>>

StartBreak(s) ==
  /\ "break" \in floorMay
  /\ s \notin away /\ away' = away \cup {s}
  /\ UNCHANGED <<ticket, desk, byHand, passed, floorMay>>

EndBreak(w, s) ==
  /\ DeskAt(w, "idle") /\ s \in away
  /\ away' = away \ {s}
  /\ Settles(w)
  /\ UNCHANGED <<ticket, byHand, passed, floorMay>>

-----------------------------------------------------------------------------
\* Housekeeping, every five minutes.

\* parkStale: a visit nobody closed, as it reads it.
SeeStale(i) ==
  /\ DeskAt(Keeper, "idle") /\ OnFloor(i)
  /\ Goes(Keeper, "park", i)
  /\ UNCHANGED <<ticket, away, byHand, passed, floorMay>>

\* Mutant: parked, and nobody told the queue.
ParkOnly ==
  LET i == desk[Keeper].ticket
  IN  /\ DeskAt(Keeper, "park")
      /\ ticket' = IF OnFloor(i) THEN [ticket EXCEPT ![i].paying = TRUE] ELSE ticket
      /\ Leaves(Keeper)
      /\ UNCHANGED <<away, byHand, passed, floorMay>>

ParkStale ==
  LET i == desk[Keeper].ticket
  IN  /\ DeskAt(Keeper, "park")
      /\ ticket' = IF OnFloor(i) THEN [ticket EXCEPT ![i].paying = TRUE] ELSE ticket
      /\ Settles(Keeper)
      /\ UNCHANGED <<away, byHand, passed, floorMay>>

\* closeUnpaidPastDays: what still waits to pay on another day.
CloseUnpaid(i) ==
  /\ ticket[i].status = "SERVING" /\ ticket[i].paying
  /\ ticket' = [ticket EXCEPT ![i].status = "DONE"]
  /\ UNCHANGED <<away, desk, byHand, passed, floorMay>>

\* The process restarts: what was under way is lost, the lock with it.
RestartFloor ==
  /\ "restart" \in floorMay
  /\ desk' = [w \in Desks |-> Rested]
  /\ UNCHANGED <<ticket, away, byHand, passed, floorMay>>

-----------------------------------------------------------------------------
AnyOf == Techs \cup {Nobody}

\* What a request of w does next by itself.
DeskStep(w) ==
  \/ Dispatch(w) \/ PutTicket(w) \/ Reactivate(w)
  \/ LinkBooking(w) \/ PairBooking(w) \/ CancelTicket(w) \/ DeleteTicket(w)
  \/ \E i \in Tickets, zones \in Visits, s \in AnyOf : CheckIn(w, i, zones, s)

DeskAsks(w) ==
  \/ \E i \in Tickets, zones \in Visits, s \in AnyOf : AddWalkIn(w, i, zones, s)
  \/ \E i \in Tickets, p \in LegIds : \/ DoneLeg(w, i, p) \/ SkipLeg(w, i, p)
                                     \/ RemoveService(w, i, p) \/ ReadDone(w, i, p)
  \/ \E i \in Tickets, p \in LegIds, s \in AnyOf : \/ AssignLeg(w, i, p, s, TRUE)
                                                  \/ AssignLeg(w, i, p, s, FALSE)
                                                  \/ HandLeg(w, i, p, s)
  \/ \E i \in Tickets, zone \in Zones, s \in AnyOf : AddService(w, i, zone, s)
  \/ \E i \in Tickets, from \in AnyOf, to \in Techs : FollowBooking(w, i, from, to)
  \/ \E i \in Tickets : \/ DoneTicket(w, i) \/ WaitPayment(w, i) \/ Checkout(w, i)
                        \/ BeginCancelTicket(w, i) \/ BeginDeleteTicket(w, i)
  \/ \E s \in Techs : EndBreak(w, s)
  \/ BeginCheckIn(w)

FloorNext ==
  \/ \E w \in Desks : DeskStep(w)
  \/ \E w \in Desks \ {Keeper} : DeskAsks(w)
  \/ \E i \in Tickets : \/ NoShow(i) \/ MoveToStation(i) \/ SeeStale(i) \/ CloseUnpaid(i)
  \/ \E s \in Techs : StartBreak(s)
  \/ ParkStale \/ RestartFloor

FloorSpec == FloorInit /\ [][FloorNext]_floorVars

-----------------------------------------------------------------------------
\* The rows and the requests; a part pinned to nobody would never be taken (planDispatch).
BoardTypeOK ==
  /\ ticket \in [Tickets -> Ticket]
  /\ away \subseteq Techs
  /\ desk \in [Desks -> Request]
  /\ byHand \subseteq Tickets \X LegIds \X AnyOf
  /\ passed \subseteq Tickets \X LegIds \X AnyOf

\* The dispatcher gives nobody a second customer: a technician at two parts at once was put
\* on one of them by a person (planDispatch under serial).
OneCustomerEach ==
  \A i, j \in {k \in Tickets : OnFloor(k)} : \A p \in Serving(i), q \in Serving(j) :
    LET s == ticket[i].legs[p].tech
    IN  (<<i, p>> # <<j, q>> /\ s # Nobody /\ s = ticket[j].legs[q].tech)
          => {<<i, p, s>>, <<j, q, s>>} \cap byHand # {}

\* It starts no part beside one it cannot run with: two parts of one customer at once are
\* hands and feet, or a person started one (canRunTogether).
TogetherOnlyHandsAndFeet ==
  \A i \in {k \in Tickets : OnFloor(k)} : \A p, q \in Serving(i) :
    \/ p = q
    \/ CanRunTogether(ticket[i].legs[p].zone, ticket[i].legs[q].zone)
    \/ {<<i, p, ticket[i].legs[p].tech>>, <<i, q, ticket[i].legs[q].tech>>} \cap byHand # {}

\* A part passed on does not come back to her, unless someone gives it back (skippedBy);
\* the undo of a finished part may forget it.
NeverBackToHer ==
  "reactivate" \notin floorMay =>
    \A i \in Tickets : \A p \in Serving(i) :
      LET leg == ticket[i].legs[p]
      IN  <<i, p, leg.tech>> \in passed => leg.pinned \/ <<i, p, leg.tech>> \in byHand

\* With no request under way nobody is free for a part that waits: every change that may free
\* a technician runs the dispatcher, but for those named here (dispatch).
QuietFloor ==
  /\ \A w \in Desks : DeskAt(w, "idle")
  /\ floorMay \cap {"queue", "cancel", "remove", "station", "reactivate", "break", "restart"} = {}
  => \A f \in Plans : \A l \in Queue : f[l] = Nobody

\* A booking has one ticket, whoever checks it in and how often (seatAppointment).
OneTicketPerVisit ==
  \A i, j \in {k \in Tickets : Exists(k) /\ ticket[k].booked /\ ticket[k].status # "CANCELLED"} :
    i = j

\* One person at the desk, beside the timer.
OneDesk == \A v, w \in Desks \ {Keeper} : v = w

\* One person never makes it a second ticket, checking in or linking, however often and
\* whatever became of the first; but for a cancelled one that a late press brings back.
OneTicketEach == OneDesk /\ "cancel" \notin floorMay => OneTicketPerVisit

\* Who waits in the queue is seated, or leaves it: a visit nobody closes is parked, its
\* technician is free again, and the dispatcher runs (parkStale, planDispatch).
Waits(i) == ticket[i].status = "WAITING" /\ ~ticket[i].paying
WaitingIsSeated == \A i \in Tickets : Waits(i) ~> ~Waits(i)
=============================================================================
