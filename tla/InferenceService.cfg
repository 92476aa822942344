\* two requests of one user and a deposit, on one node that may register again
SPECIFICATION FairSpec
CONSTANTS
  n1 = n1  u1 = u1  r1 = r1  r2 = r2  d1 = d1
  None = None
  Nodes = {n1}
  Users = {u1}
  Requests = {r1, r2}
  UserOf <- UserOfRequest
  Cost <- CostOfRequest
  Deposits = {d1}
  DepositOf <- DepositOfUser
  Amount <- AmountOf
  Start = 2
  Estimates <- EstimatesOf
  Reports = {"IDLE", "BUSY"}
  MaxRegisters = 2
  MaxCrashes = 1
CHECK_DEADLOCK FALSE
INVARIANTS Safe AccountsBalance
PROPERTIES RequestsEnd
