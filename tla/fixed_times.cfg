CONSTANTS
  a1 = a1  a2 = a2  s1 = s1  s2 = s2  r1 = r1  r2 = r2
  timer = timer  None = None
  Appointments = {a1, a2}
  Staff = {s1, s2}
  Requests = {r1, r2, timer}
  Timer = timer
  Horizon = 2
  Gap = 0
  MustAccept = FALSE
  Off <- TechOff
  Ops <- FixedTimeOps
SPECIFICATION Spec
SYMMETRY BookingIds
INVARIANTS TypeOK NoDoubleBooking AskedOnTheClock
