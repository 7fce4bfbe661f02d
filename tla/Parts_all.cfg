CONSTANTS
  Targets = {x1, x2, x3}
  NoTarget = none
  MaxTime = 5
  Sessions = {s1, s2}
  Intents = {i1}
  MaxItems = 3
  Runs = {r1, r2}
  MaxSteps = 2
  Ceiling = 3
  Attempts = 2
  MaxDay = 2
  MaxMade = 5
  Baskets = {1, 2}
  MaxSandboxes = 2
  MaxProbes = 2
  MaxLeaves = 9
  MaxChanges = 1
  NParts = 5
  Single = 1
  SingleCap = 1
  VelocityPart = 2
  VelocityCap = 2
  Unclear = {3}
  Rules = {4}
  UnsetParts = {5}
  Amounts = {1, 2}
  MinRun = 2
  MaxAttempts = 4
  Keys = {k1, k2}
  MaxLines = 6
  MaxTears = 2
  Callers = {c1, c2}
  Charged = {o1, o2}
  Sums = {1, 2}
  MaxGateways = 2
  Missing = Missing
  Book <- MCBook
  Fold <- MCFold
  Resolved <- MCResolved
  Curated <- MCCurated
  Keyring <- MCKeyring
  MaxAge = 1
  Proposed <- MCProposed
  Policies <- MCPolicies
  Enforcing = TRUE
  MaxClock = 2
  MaxAsked = 1
  MaxOrders = 2
SPECIFICATION PartsSpec
CHECK_DEADLOCK FALSE
INVARIANTS
  SoleWriterSeen
  ApprovedOnce
  CallsCounted
  ApprovedIsGranted
  ProofsDecide
  RecordIsWhole
  TearsAreLocal
  CapturedAsSigned
  PricedBySeller
  WithinMandate
  OncePerBasket
PROPERTIES
  DecisionReachesPage
