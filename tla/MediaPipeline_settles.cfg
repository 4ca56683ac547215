SPECIFICATION FairSpec

CONSTANTS
  m1 = m1
  m2 = m2
  f1 = f1
  NoRow = NoRow
  Rows = {m1, m2}
  Files = {f1}
  FileOf <- OneFile
  Videos = {}
  Unreadable = {m2}
  Procs = {p1}
  Light = {l1}
  Video = {}
  QueueSize = 1
  MaxConcurrent = 1
  ItemTimeout = 1
  RecoveryInterval = 1
  RecoveryBatch = 1
  MaxAttempts = 2
  BaseDelay = 1
  MaxDelay = 1
  Cooldown = 1
  MaxFaults = 1
  MaxChanges = 0

PROPERTY EveryRowSettles

CHECK_DEADLOCK FALSE
