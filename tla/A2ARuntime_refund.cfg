\* a handler that outlasts its lock
SPECIFICATION Spec
CONSTANTS
  j1 = j1  j2 = j2  w1 = w1  w2 = w2  c1 = c1  c2 = c2
  Workers = {w1, w2}
  Clients = {c1}
  Jobs = {j1}
  Paid = {j1}
  Rejected = {}
  Inline = FALSE
  MaxAttempts = 1
  MaxOverruns = 1
  MaxCrashes = 0
INVARIANT FailedIsNotPaid
