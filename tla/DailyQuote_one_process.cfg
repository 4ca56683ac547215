SPECIFICATION Spec

CONSTANTS
  Procs = {p1}
  Presses = {c1}
  NoRun = NoRun
  NDays = 1
  DayLength = 6
  ToMidnight = 6
  CatchUpTime = 5
  RetryAfter = 2
  StaleAfter = 2
  PublishTimeout = 1
  MaxTime = 4
  MaxRestarts = 1
  MaxChanges = 1
  Faults = {"lost", "refused", "unknown"}

INVARIANT SerialInv
INVARIANT PostedIsOnRecord
INVARIANT QuoteOrNotice
PROPERTY UnknownIsFinal
PROPERTY WindowKeptUntilSettled

CHECK_DEADLOCK FALSE
