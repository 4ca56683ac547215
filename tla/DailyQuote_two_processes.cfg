SPECIFICATION BusySpec

CONSTANTS
  Procs = {p1, p2}
  Presses = {}
  NoRun = NoRun
  NDays = 1
  DayLength = 6
  ToMidnight = 6
  CatchUpTime = 5
  RetryAfter = 2
  StaleAfter = 1
  PublishTimeout = 1
  MaxTime = 2
  MaxRestarts = 0
  MaxChanges = 0
  Faults = {"lost", "refused", "unknown"}

INVARIANT WholeInv
INVARIANT QuoteAtMostOnce
INVARIANT NoLiveRunWrittenOff
PROPERTY KeepsLedger

SYMMETRY ProcSymmetry
CHECK_DEADLOCK FALSE
