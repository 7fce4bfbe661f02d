SPECIFICATION Spec
CONSTANTS
  c1 = c1
  c2 = c2
  i1 = i1
  i2 = i2
  i3 = i3
  Callers = {c1, c2}
  NoCaller = NoCaller
  Intents = {i1, i2, i3}
  NoIntent = NoIntent
  Basket <- MCBasket
  Amounts = {1, 3}
  BudgetMax = 3
  TxMax = 3
  VelocityMax = 2
  AfaThreshold = 2
  Askable = {i1}
  DenyRecent = FALSE
  Screens = {"ALLOW", "DENY"}
  Enforcing = TRUE
  Outcomes <- SoundRail
  Multipliers = {1, 2}
  ReportsAmount = TRUE
  VoidAnswers = {"voided", "exception"}
  ScanComplete = TRUE
  Overlap = FALSE
  MaxCrashes = 1
SYMMETRY Callers_symmetry
INVARIANTS
  TypeOK
  BudgetHeld
  VelocityHeld
  StandingCovered
  AnswerMatchesRail
PROPERTIES
  SettledIsFinal
  ImplementsGuard
