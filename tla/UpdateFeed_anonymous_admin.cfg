SPECIFICATION Spec

CONSTANTS
  Slots = {s1}
  Msgs = {}
  NoMsg = NoMsg
  Media = {}
  Anonymous = {}
  SaveTries = 2
  MaxUpdates = 2
  MaxFaults = 0
  MaxEnds = 0

INVARIANT UnsignedMoves

CHECK_DEADLOCK FALSE
