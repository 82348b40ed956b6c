SPECIFICATION FairSpec
CONSTANTS
  None = None
  w1 = w1
  w2 = w2
  alice = alice
  bob = bob
  WAS = {w1, w2}
  Rooms = {room1, room2}
  Players = {alice, bob}
  Caps = {2}
  NewCaps = {1}
  Routes <- MCRoutes
  MaxInputs = 3
INVARIANTS
  TypeOK
  
  
PROPERTIES
  EmptiedRoomReleased
  IdleRoomCollected
CHECK_DEADLOCK FALSE
