SPECIFICATION Spec
CONSTANTS
  c1 = c1
  c2 = c2
  Clients = {c1, c2}
  Cost = 2
  Rate = 1
  Timeout = 3
  Slack = 2
  Skew <- OneAhead
  MaxSkew = 1
  MaxDelay = 1
  MaxTime = 7
  MaxGrants = 6
CHECK_DEADLOCK FALSE
INVARIANTS
  TypeOK
  BudgetShared
  WaitBounded
