SPECIFICATION Spec

CONSTANTS
  Slots = {s1, s2}
  Msgs = {m1, m2}
  NoMsg = NoMsg
  Media = {m2}
  Anonymous = {m2}
  SaveTries = 2
  MaxUpdates = 3
  MaxFaults = 1
  MaxEnds = 1

INVARIANT StopFinishesAccepted
INVARIANT SerialIsFaithful

INVARIANT HandledOnce
SYMMETRY SlotSymmetry
CHECK_DEADLOCK FALSE
