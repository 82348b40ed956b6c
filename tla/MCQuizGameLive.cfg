SPECIFICATION HostAloneFairSpec
CONSTANTS
  None = None
  w1 = w1
  w2 = w2
  p1 = p1
  WAS = {w1, w2}
  Players = {p1}
  QuizPool = {1}
  QuizCount = 1
  Options = {1}
  Modes = {"RANKING"}
  Pot = 0
  Requests = {r1}
  MidGameStart = FALSE
  MaxGames = 1
  MaxChurn = 0
  MaxCrash = 0
PROPERTY
  GameEnds
