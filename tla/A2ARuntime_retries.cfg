\* the retry bound with restarts
SPECIFICATION Spec
CONSTANTS
  j1 = j1  j2 = j2  w1 = w1  w2 = w2  c1 = c1  c2 = c2
  Workers = {w1}
  Clients = {c1}
  Jobs = {j1}
  Paid = {}
  Rejected = {}
  Inline = FALSE
  MaxAttempts = 2
  MaxOverruns = 0
  MaxCrashes = 2
INVARIANT RetryBound
