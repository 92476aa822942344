\* a worker and two clients that run jobs inline: a lease that may run out
\* early, a restart, two paid jobs of which one is refused its escrow
SPECIFICATION FairSpec
CONSTANTS
  j1 = j1  j2 = j2  w1 = w1  w2 = w2  c1 = c1  c2 = c2
  Workers = {w1}
  Clients = {c1, c2}
  Jobs = {j1, j2}
  Paid = {j1, j2}
  Rejected = {j2}
  Inline = TRUE
  MaxAttempts = 2
  MaxOverruns = 1
  MaxCrashes = 1
INVARIANTS Safe BooksFollowBackend PaidForPassedWork OneExecution
PROPERTIES JobsFinish EscrowDecided
