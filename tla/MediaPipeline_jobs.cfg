SPECIFICATION Spec

CONSTANTS
  m1 = m1
  m2 = m2
  f1 = f1
  NoRow = NoRow
  Rows = {m1, m2}
  Files = {f1}
  FileOf <- OneFile
  Videos = {m1, m2}
  Unreadable = {}
  Procs = {p1}
  Light = {}
  Video = {v1, v2}
  QueueSize = 1
  MaxConcurrent = 2
  ItemTimeout = 1
  RecoveryInterval = 1
  RecoveryBatch = 1
  MaxAttempts = 2
  BaseDelay = 1
  MaxDelay = 2
  Cooldown = 2
  MaxFaults = 1
  MaxChanges = 1

INVARIANT AttemptsBounded
PROPERTY OutcomeStays
PROPERTY NoForeignTimeout

INVARIANT PipelineInv
INVARIANT SendsOnlyWhatItMay
SYMMETRY JobSymmetry
CHECK_DEADLOCK FALSE
