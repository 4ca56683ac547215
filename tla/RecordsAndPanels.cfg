SPECIFICATION RecordsSpec
CONSTANTS
  Sources <- MCSources
  Replies <- MCReplies
  MaxMessages = 4
  MaxContext = 3
  Writers = {w1, w2}
  OldLogs <- MCLogs
  Retention = 2
  PruneInterval = 2
  MaxRecords = 2
  MaxAuditFaults = 2
  MaxClock = 5
  Savers = {r1, r2}
  MaxSaves = 4
  Procs = {"old", "new"}
  Files <- MCFiles
  Parts = {"bot", "scheduler"}
  ConnectAttempts = 2
  MaxStarts = 2
  People = {"ann", "bob"}
  Handlers = {h1, h2}
  DayMinutes = 2
  MaxPresses = 3
  Pairs = {1, 2, 3, 4}
  ThrottleWindow = 2
  ThrottlePruneAt = 1
  ThrottleStale = 2
  PanelIds = {1, 2, 3, 4}
  PanelMax = 2
  PanelTTL = 2
PROPERTY MemoryIsBounded
PROPERTY PressesAreSound
PROPERTY ReportStands
PROPERTY LogHoldsItsWeek
INVARIANT MigratedOnceBeforeServing
INVARIANT ReportAgrees
SYMMETRY MCSymmetry
INVARIANT QuoteIsBest
CHECK_DEADLOCK FALSE
