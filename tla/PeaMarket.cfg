SPECIFICATION MarketSpec
CONSTANTS
  a = a  b = b  c = c  x1 = x1  o1 = o1
  None = None
  Peas = {a, b, c}
  Suppliers = {b, c}
  Owned = {a}
  Texts = {x1}
  Amounts = {1}
  Payees = {c}
  Orders = {o1}
  Payer <- PayerOf
  Team <- TeamOf
  Reward <- RewardOf
  Balance <- StartOf
  DailyLimit = 1
  MaxPerTx = 2
  MaxDepth = 2
  MaxSteps = 2
  MaxAttempts = 2
CONSTRAINT FewJobs
CHECK_DEADLOCK FALSE
INVARIANTS MarketSafe BudgetKept TeamsDeserveIt
