\* two escrows in one custody account; their ids opened by two callers under
\* different terms; one crash
SPECIFICATION FairSpec
CONSTANTS
  p1 = p1  p2 = p2  p3 = p3  e1 = e1  e2 = e2  c1 = c1  c2 = c2
  Absent = Absent  Idle = Idle
  Escrows = {e1, e2}
  Parties = {p1, p2, p3}
  Calls = {c1, c2}
  Amounts = {1, 2}
  Terms <- TwoTerms
  Wealth = 3
  MaxCrashes = 1
CHECK_DEADLOCK FALSE
INVARIANTS EachLegOnce CopyIsCurrent CustodyCoversHolds AckIsHeld
PROPERTIES PlanIsIrrevocable HoldsSettle ImplementsPromise
