CONSTANTS
  Tokens = {t1}
  Visitors = {v1, v2}
  Workers = {w1}
  Loop = loop
  None = none
  Intents = {i1, i2}
  Price <- MCPrice
  BudgetMax = 3
  MaxWaiting = 1
  MaxRestarts = 1
  MaxSessions = 3
SYMMETRY Symmetric
SPECIFICATION Spec
CHECK_DEADLOCK FALSE
INVARIANTS SessionWithinBudget CurrentOrderCovered KillSwitch HandedOutOnce
PROPERTY ImplementsTokenGuard
