SPECIFICATION Spec
CONSTANTS
  w1 = w1
  w2 = w2
  alice = alice
  bob = bob
  WAS = {w1, w2}
  Players = {alice, bob}
  Routes <- MCRoutes
  First = alice
  LogSize = 1
  BatchLogSize = 1
  MaxInputs = 3
INVARIANTS
  TypeOK
  SettledAsStored
  ChatComplete
  BroadcastOnce
  WaitIsServed
CHECK_DEADLOCK FALSE
