SPECIFICATION FairSpec
CONSTANTS
  c1 = c1
  c2 = c2
  i1 = i1
  i2 = i2
  i3 = i3
  Callers = {c1, c2}
  NoCaller = NoCaller
  Intents = {i1, i2}
  NoIntent = NoIntent
  Basket <- MCBasket
  Amounts = {1}
  BudgetMax = 3
  TxMax = 3
  VelocityMax = 2
  AfaThreshold = 2
  Askable = {}
  DenyRecent = TRUE
  Screens = {"ALLOW", "DENY"}
  Enforcing = FALSE
  Outcomes <- AnyRail
  Multipliers = {1, 2}
  ReportsAmount = TRUE
  VoidAnswers = {"voided", "stands", "exception"}
  ScanComplete = FALSE
  Overlap = TRUE
  MaxCrashes = 1
INVARIANTS
  OneOrderPerIntent
PROPERTIES
  CallsReturn
  PendingSettles
CHECK_DEADLOCK FALSE
