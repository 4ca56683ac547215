SPECIFICATION Spec

CONSTANTS
  Procs = {p1}
  Presses = {}
  NoRun = NoRun
  NDays = 1
  DayLength = 6
  ToMidnight = 6
  CatchUpTime = 5
  RetryAfter = 2
  StaleAfter = 2
  PublishTimeout = 1
  MaxTime = 4
  MaxRestarts = 1
  MaxChanges = 0
  Faults = {"refused"}

INVARIANT NoticeAtMostOnce

CHECK_DEADLOCK FALSE
