CONSTANTS
  c1 = c1  c2 = c2  o1 = o1  o2 = o2  r1 = r1  r2 = r2
  None = None
  Cards = {c1}
  Orders = {o1, o2}
  Requests = {r1}
  Cap = 3
  Ops <- TillOps
SPECIFICATION Spec
SYMMETRY Ids
INVARIANTS TypeOK CardsAddUp ReturnedOnce NeverRefundsMoreThanTaken PaidBillKeepsCardMoney
CHECK_DEADLOCK FALSE
