SPECIFICATION FairSpec
CONSTANTS
  None = None
  WAS = {w1}
  Players = {p1, p2}
  QuizPool = {1, 2}
  QuizCount = 2
  Options = {1, 2}
  Modes = {"RANKING", "SURVIVAL"}
  Pot = 2
  Requests = {r1}
  MidGameStart = FALSE
  MaxGames = 2
  MaxChurn = 2
  MaxCrash = 0
INVARIANTS
  TypeOK
  NoRescoring
  PointsConserved
  ExpiryMatchesState
  GradedAsShown
  DeadSetAgrees
PROPERTIES
  ResultAsShown
  QuizNumMonotone
  ImplementsShow
