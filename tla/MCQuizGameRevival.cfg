SPECIFICATION Spec
CONSTANTS
  None = None
  WAS = {w1}
  Players = {p1, p2}
  QuizPool = {1, 2}
  QuizCount = 2
  Options = {1, 2}
  Modes = {"SURVIVAL"}
  Pot = 2
  Requests = {r1}
  MidGameStart = FALSE
  MaxGames = 2
  MaxChurn = 0
  MaxCrash = 0
INVARIANT
  NoGameWithoutQuiz
