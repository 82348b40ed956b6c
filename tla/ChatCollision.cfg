SPECIFICATION Spec
CONSTANTS
  None = None
  WAS = {w1}
  Rooms = {room1, room2}
  Passes = {pass1}
  MaxLen = 2
  PerMs = 2
  MaxMs = 2
  MaxChurn = 0
  MaxCrash = 0
  MaxFail = 0
INVARIANTS
  SavedInItsRoom
CHECK_DEADLOCK FALSE
