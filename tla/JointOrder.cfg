SPECIFICATION Spec
CONSTANTS
  p1 = p1  p2 = p2  u1 = u1  u2 = u2
  Pools = {p1, p2}
  Users = {u1, u2}
  Budgets = {600, 1000}
  Prices = {1500}
  MinBudget = 1000
  Funding = 1
  Bidding = 1
  Delivery = 2
  Timeout = 1
  MaxParticipants = 2
  MaxBids = 1
  Horizon = 4
SYMMETRY Alike
CHECK_DEADLOCK FALSE
INVARIANTS Safe Covered
