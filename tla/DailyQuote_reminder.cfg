SPECIFICATION Spec

CONSTANTS
  Procs = {p1}
  Presses = {c1}
  NoRun = NoRun
  NDays = 2
  DayLength = 2
  ToMidnight = 1
  CatchUpTime = 2
  RetryAfter = 1
  StaleAfter = 1
  PublishTimeout = 1
  MaxTime = 2
  MaxRestarts = 1
  MaxChanges = 1
  Faults = {"db", "gone"}

INVARIANT AskedOnlyForOpenDays
INVARIANT NudgedOncePerStart

CHECK_DEADLOCK FALSE
