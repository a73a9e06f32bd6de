CONSTANTS
  c1 = c1  c2 = c2  o1 = o1  o2 = o2  r1 = r1  r2 = r2
  None = None
  Cards = {c1}
  Orders = {o1, o2}
  Requests = {r1, r2}
  Cap = 2
  Ops <- CardOps
SPECIFICATION Spec
SYMMETRY Ids
INVARIANTS CardsKeepTheirMoney
PROPERTIES PurseSpec
CHECK_DEADLOCK FALSE
