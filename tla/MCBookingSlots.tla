--------------------------- MODULE MCBookingSlots ---------------------------
(***************************************************************************)
(* Small salons for TLC: the operations each run lets happen, and the      *)
(* symmetry of identifiers the handlers only compare for equality.         *)
(***************************************************************************)
EXTENDS BookingSlots, TLC

CONSTANTS a1, a2, s1, s2, r1, r2, timer

NoOff == {}
\* The salon is blocked in slot 1 and one technician is off in slot 0.
SalonBlock == {<<None, 1>>, <<s1, 0>>}
\* One technician is off in slot 1.
TechOff == {<<s1, 1>>}

\* Handlers that never change the time of a booking once it is made.
FixedTimeOps == {"create", "assign", "autoAssign", "reject", "cancel"}
\* The desk's changes of time and of technician, with restarts.
DragOps == {"create", "arriveNow", "move", "reschedule", "cancel", "crash"}
\* Visits growing and shrinking while the day goes on and technicians stay silent.
StretchOps == {"create", "stretch", "addServices", "clock", "closeMissed", "sweep", "silence"}
\* Every write of a status, the floor, the trash and the sweep, which make no
\* check, around a handler that does.
StatusOps == {"create", "accept", "confirmByToken", "confirmBySalon", "arrive", "noShow",
              "complete", "setStatus", "floor", "remove", "sweep", "silence"}
\* The handlers of the counterexample.
MoveRaceOps == {"create", "assign", "reschedule"}

AllIds == Permutations(Appointments) \cup Permutations(Staff)
            \cup Permutations(Requests \ {Timer})
\* ... when the technicians differ by their time off.
BookingIds == Permutations(Appointments) \cup Permutations(Requests \ {Timer})
=============================================================================
