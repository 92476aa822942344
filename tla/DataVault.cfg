\* a root grant, a part of it delegated and delegated again, three requests
SPECIFICATION Spec
CONSTANTS
  olga = olga  ann = ann  bob = bob  d1 = d1  u1 = u1  u2 = u2
  g1 = g1  g2 = g2  g3 = g3  r1 = r1  r2 = r2  r3 = r3
  None = None
  Owner = olga
  Actors = {olga, ann, bob}
  Data = {d1}
  Uses = {u1, u2}
  Cost <- CostOf
  Grants = {g1, g2, g3}
  Offers <- SomeOffers
  Calls = {r1, r2, r3}
  Requests <- SomeRequests
  MaxDepth = 2
  MaxFanout = 2
  MaxTime = 2
  MaxCrashes = 1
CHECK_DEADLOCK FALSE
INVARIANTS Safe TreeBudget Authorised
PROPERTIES RevocationReaches ImplementsMandate
