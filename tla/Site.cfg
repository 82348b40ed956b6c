SPECIFICATION Spec
CONSTANTS
  u1 = u1
  u2 = u2
  h1 = h1
  h2 = h2
  NaN = NaN
  Users = {u1, u2}
  Hosts = {h1, h2}
  Stored <- MCStored
  Sample <- MCSample
  Patches <- MCPatches
  Played = {2}
  TTL = 2
  MaxSets = 6
  MaxWrites = 2
  TooLong = 3
  Limits = {1, 175, NaN}
  MaxEdits = 5
  MaxQuizzes = 2
  PageSize = 1
  NoCursor = 1
  Grain = 6
  Pins = {1, 2, 3}
  Take = 1
  MaxLoads = 4
  MaxChurn = 1
  Rooms = {1, 2}
  Existing = {1}
  MaxSockets = 2
  MaxInputs = 5
  e1 = e1
  k1 = k1
  k2 = k2
  Emails = {e1}
  Passwords = {k1, k2}
  Guest <- MCGuest
  Tabs = {1, 2}
  MaxRequests = 2
  Audience = {1, 2, 3}
  Me = 1
  Questions = 2
  Pot = 2
  MaxTurns = 3
INVARIANTS
  TypeOK
  StoredPlayable
  GradedAsMarked
  BrowsedAll
  StaleForTTL
  LobbySettles
  RoomShown
  ToldCanLogIn
  ShownSignedIn
  ShownAsPlayed
CHECK_DEADLOCK FALSE
