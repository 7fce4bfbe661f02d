CONSTANTS
  MaxFlows = 2
  MaxTokens = 1
  MaxClicks = 2
  MaxResets = 1
  Orders <- MCOrders
  RevokeFirst = {"revocation"}
  QuoteFirst = {"revocation"}
  Expected <- MCExpected
  NParts = 2
  Bounds <- MCBounds
  Unset = {1}
  Threads = {t1, t2}
  Nobody = nobody
  MaxRecords = 4
  MaxRestarts = 2
  MaxRuns = 2
  MaxProposals = 2
  MaxPlays = 3
  MaxRows = 2
  MaxOrders = 4
  MaxWeeks = 2
  MaxStarts = 2
  MaxPolls = 2
  MaxLogged = 2
  MaxSessions = 2
  MaxChecks = 2
  MaxRewrites = 1
  Shots <- MCShots
  Inserted = "agent"
  Waiting = {"agent", "sandbox"}
  Waits = {10}
  Ramps = {2, 5}
  MaxTakes = 2
  MaxReads = 1
SPECIFICATION WebSpec
CHECK_DEADLOCK FALSE
INVARIANTS
  WebTyped
  ScreenIsTrue
  PaneIsOneRun
  VerdictIsItsOwn
  HistoryIsSound
  ChecksAreEarned
  SerialHolds
  RecordKept
  SoundOfThePicture
