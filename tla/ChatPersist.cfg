SPECIFICATION FairSpec
CONSTANTS
  None = None
  WAS = {w1, w2}
  Rooms = {room1}
  Passes = {pass1, pass2}
  MaxLen = 1
  PerMs = 2
  MaxMs = 1
  MaxChurn = 1
  MaxCrash = 1
  MaxFail = 1
INVARIANTS
  TypeOK
  SavedUpToCursor
  
PROPERTIES
  EventuallySaved
CHECK_DEADLOCK FALSE
