SPECIFICATION Spec

CONSTANTS
  DayLength = 48
  CatchUp = 4
  NDays = 2
  Offsets <- East
  Changes <- Night

INVARIANT AtIsFirst
INVARIANT WindowsTile
INVARIANT EveryDayIsDue
INVARIANT LastClosedIsLatest

INVARIANT DueIsTimely
CHECK_DEADLOCK FALSE
