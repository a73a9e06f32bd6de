CONSTANTS
  c1 = c1  c2 = c2  o1 = o1  o2 = o2  r1 = r1  r2 = r2
  None = None
  Cards = {c1}
  Orders = {o1}
  Requests = {r1, r2}
  Cap = 1
  Ops <- DoubleVoidOps
SPECIFICATION Spec
SYMMETRY Ids
INVARIANTS ReturnedOnce
CHECK_DEADLOCK FALSE
