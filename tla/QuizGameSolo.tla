-------------------------- MODULE QuizGameSolo --------------------------
(***************************************************************************)
(* A room that one WAS serves, whose host starts a game in the lobby only: *)
(* for every number of players, quizzes and choices the players see the    *)
(* show of QuizShow, no quiz is scored twice, and answers are graded       *)
(* against what was shown.  (With several WAS these fail; see README.)     *)
(***************************************************************************)
EXTENDS MCQuizGameSolo, QuizGameProofs

(* One WAS, and hosts who use the button of the lobby.                      *)
Solo == WAS = {TheWAS} /\ ~MidGameStart

Seen == view[TheWAS]
Handler == tpc[TheWAS]
Scorer == spc[TheWAS][TheWAS]
Mine == local[TheWAS]
Num == currentQuiz.num
Starting == \E r \in Requests : gpc[r] # "idle"
Live == timer # NoTimer \/ Handler # "idle" \/ Scorer # "idle"

(* What the players saw last: nothing but the start, or the result of n;    *)
(* the question n, with its right choice where the answer is stored.        *)
Between(n) == (n = -1 /\ Seen = View("start", -1, 0)) \/ (Seen.event = "result" /\ Seen.num = n)
Asked(n) == Seen = View("question", n, StoredAnswer(QuizAt(n)))

(* A startGame, the timer, the timer handler and the scoring handler follow *)
(* each other; only the ends of the two handlers overlap.                   *)
OneAtATime ==
  /\ \A r, s \in Requests : gpc[r] # "idle" /\ gpc[s] # "idle" => r = s
  /\ \A r \in Requests : gpc[r] # "idle" => gwas[r] = TheWAS
  /\ \A r \in Requests : gpc[r] \in {"clear", "register", "rank", "play"} => status = "waiting"
  /\ \A r \in Requests : gpc[r] \in {"current", "arm"} => status = "playing"
  /\ status = "waiting" \/ Starting => ~Live
  /\ timer # NoTimer => Handler \in {"idle", "unlock"} /\ Scorer \in {"idle", "reset"}
  /\ Scorer # "idle" => Handler \in {"idle", "unlock"}

(* The list of the game has QuizCount quizzes, and the answer of a quiz is  *)
(* moved when the quiz is asked, not before.                                *)
LastAsked == IF Handler = "setCurrent" THEN Mine.num ELSE Num
QuizzesDealt ==
  /\ \A r \in Requests : gpc[r] = "register" => quizSet = {}
  /\ status = "playing" \/ (\E r \in Requests : gpc[r] \in {"rank", "play"}) =>
       Cardinality(quizSet) = QuizCount
  /\ (\E r \in Requests : gpc[r] \in {"rank", "play", "current", "arm"}) =>
       \A q \in quizSet : answer[q] = RightChoice
  /\ Live => \A q \in quizSet : Index(quizSet, q) > LastAsked => answer[q] = RightChoice

TimerFits ==
  \/ timer = NoTimer
  \/ timer \in {Armed("intro", Num), Armed("result", Num)} /\ currentQuiz.state = "end" /\ Between(Num)
  \/ timer = Armed("quiz", Num) /\ currentQuiz.state = "start" /\ Asked(Num)

HandlerFits ==
  /\ Handler = "get" =>
       IF currentQuiz.state = "start" THEN Mine.ticket = Armed("quiz", Num) /\ Asked(Num)
       ELSE Mine.ticket \in {Armed("intro", Num), Armed("result", Num)} /\ Between(Num)
  /\ Handler \in {"readQuiz", "lock", "grade", "award", "publish"} =>
       Mine.ticket = Armed("quiz", Num) /\ Mine.num = Num /\ currentQuiz.state = "start" /\ Asked(Num)
  /\ Handler \in {"lock", "grade", "award"} => Mine.ans = StoredAnswer(QuizAt(Num))
  /\ Handler = "unlock" => Mine.ticket = Armed("quiz", Mine.num)
  /\ Handler = "checkEnd" =>
       /\ Mine.ticket \in {Armed("intro", Num), Armed("result", Num)}
       /\ Mine.num = Num /\ currentQuiz.state = "end" /\ Between(Num)
  /\ Handler \in {"revive", "endGame"} => Seen.event \in {"start", "result"}
  /\ Handler \in {"readNext", "store", "setCurrent"} =>
       Mine.num = Num + 1 /\ currentQuiz.state = "end" /\ Mine.num < QuizCount
  /\ Handler \in {"readNext", "store"} => Between(Num) /\ Mine.quiz = QuizAt(Mine.num)
  /\ Handler = "store" => Mine.stored /\ Mine.ans = RightChoice
  /\ Handler = "setCurrent" => Asked(Mine.num)
  /\ Handler = "arm" => Mine.num = Num /\ currentQuiz.state = "start" /\ Asked(Num)

ScorerFits ==
  /\ Scorer \in {"count", "compare", "results"} => currentQuiz.state = "start" /\ Asked(Num)
  /\ Scorer \in {"setEnd", "arm"} =>
       /\ snum[TheWAS][TheWAS] = Num /\ Seen.event = "result" /\ Seen.num = Num
       /\ Scorer = "arm" => currentQuiz.state = "end"

StartFits ==
  /\ status = "waiting" => Seen = Lobby
  /\ \A r \in Requests : gpc[r] \in {"current", "arm"} => Seen = View("start", -1, 0)
  /\ \A r \in Requests : gpc[r] = "arm" => currentQuiz = [num |-> -1, state |-> "end"]

(* No quiz is scored before it was asked, nor again.                        *)
Unscored ==
  \/ timer.kind = "quiz" \/ Handler \in {"readQuiz", "lock", "grade", "award", "arm"}
  \/ Handler = "get" /\ currentQuiz.state = "start"
ScoredOnce ==
  /\ NoRescoring
  /\ \A r \in Requests : gpc[r] \in {"current", "arm"} => \A k \in QuizNums : passes[k] = 0
  /\ Live => \A k \in QuizNums : k > Num \/ (k = Num /\ Unscored) => passes[k] = 0

(* The inductive invariant of a room that one WAS serves.                   *)
SoloOK == OneAtATime /\ QuizzesDealt /\ TimerFits /\ HandlerFits /\ ScorerFits /\ StartFits /\ ScoredOnce

-----------------------------------------------------------------------------
(* The only WAS, and the types the steps below rely on.                     *)
LEMMA SoloTypes ==
  ASSUME TypeOK, Solo
  PROVE  /\ TheWAS \in WAS /\ (\A w \in WAS : w = TheWAS)
         /\ tpc \in [WAS -> TimerPCs] /\ local \in [WAS -> Locals] /\ Mine \in Locals
         /\ spc \in [WAS -> [WAS -> ScoringPCs]] /\ snum \in [WAS -> [WAS -> QuizNums]]
         /\ spc[TheWAS] \in [WAS -> ScoringPCs] /\ snum[TheWAS] \in [WAS -> QuizNums]
         /\ gpc \in [Requests -> StartPCs] /\ view \in [WAS -> Views] /\ Seen \in Views
         /\ currentQuiz \in [num : QuizNums, state : {"start", "end"}] /\ Num \in QuizNums /\ Num \in Int
         /\ passes \in [QuizNums -> Nat] /\ QuizNums \subseteq Int
BY WASAssumption, QuizNumsType
DEF TypeOK, RedisOK, MemoryOK, TimerTaskOK, ScoringTaskOK, StartTaskOK, Solo, Seen, Mine, Num

(* What no step of the timer handler but a few touches.                     *)
Still == UNCHANGED <<status, quizSet, registered, answer, currentQuiz, timer, view, passes, spc, snum, gpc, gwas>>

LEMMA StillShown ==
  ASSUME Still
  PROVE  /\ Num' = Num /\ Seen' = Seen /\ (Asked(Num)' <=> Asked(Num)) /\ (Between(Num)' <=> Between(Num))
         /\ StoredAnswer(QuizAt(Num))' = StoredAnswer(QuizAt(Num))
         /\ \A n : QuizAt(n)' = QuizAt(n)
BY DEF Still, Num, Seen, Asked, Between, StoredAnswer, QuizAt

(* A step of the timer handler that only moves it on.                       *)
LEMMA StillSolo ==
  ASSUME TypeOK, SoloOK, Still, Handler # "idle", Handler # "setCurrent", Handler' # "setCurrent",
         Handler = "unlock" => Handler' = "idle", Unscored' => Unscored, HandlerFits'
  PROVE  SoloOK'
<1>1. OneAtATime'
  BY DEF SoloOK, OneAtATime, Still, Live, Starting, Scorer
<1>2. QuizzesDealt'
  BY DEF SoloOK, QuizzesDealt, Still, Live, LastAsked, Index, Num
<1>3. TimerFits' /\ ScorerFits' /\ StartFits'
  BY DEF SoloOK, TimerFits, ScorerFits, StartFits, Still, Between, Asked, Num, StoredAnswer, QuizAt, Seen, Scorer
<1>4. ScoredOnce'
  BY DEF SoloOK, ScoredOnce, NoRescoring, Still, Live, Num, Scorer
<1> QED
  BY <1>1, <1>2, <1>3, <1>4 DEF SoloOK

LEMMA GetSolo ==
  ASSUME TypeOK, TypeOK', Solo, SoloOK, GetCurrentQuiz(TheWAS)
  PROVE  SoloOK'
<1>1. /\ Handler = "get" /\ Handler' = IF currentQuiz.state = "start" THEN "readQuiz" ELSE "checkEnd"
      /\ Mine' = [Mine EXCEPT !.num = Num] /\ Still
  BY SoloTypes DEF GetCurrentQuiz, GoTimer, Handler, Mine, Num, Still, redisVars, roomVars, quizVars, history, scoringTask, startTask
<1>2. HandlerFits'
  BY <1>1, SoloTypes DEF SoloOK, HandlerFits, Still, Between, Asked, Num, StoredAnswer, QuizAt, Seen, Locals
<1> QED
  BY <1>1, <1>2, StillSolo DEF Unscored, Still

LEMMA ReadQuizSolo ==
  ASSUME TypeOK, TypeOK', Solo, SoloOK, ReadQuiz(TheWAS)
  PROVE  SoloOK'
<1>1. /\ Handler = "readQuiz" /\ Handler' = "lock" /\ Still
      /\ Mine' = [Mine EXCEPT !.ans = StoredAnswer(QuizAt(Mine.num))]
  BY SoloTypes DEF ReadQuiz, GoTimer, Handler, Mine, Num, Still, redisVars, roomVars, quizVars, history, scoringTask, startTask
<1>2. Mine.ticket = Armed("quiz", Num) /\ Mine.num = Num /\ currentQuiz.state = "start" /\ Asked(Num)
  BY <1>1 DEF SoloOK, HandlerFits
<1>3. Mine'.ticket = Mine.ticket /\ Mine'.num = Mine.num /\ Mine'.ans = StoredAnswer(QuizAt(Num))
  BY <1>1, <1>2, SoloTypes DEF Locals
<1>4. HandlerFits'
  BY <1>1, <1>2, <1>3, StillShown DEF HandlerFits, Still
<1> QED
  BY <1>1, <1>4, StillSolo DEF Unscored, Still

LEMMA LockSolo ==
  ASSUME TypeOK, TypeOK', Solo, SoloOK, TakeScoringLock(TheWAS) \/ MissScoringLock(TheWAS)
  PROVE  SoloOK'
<1>1. Handler = "lock" /\ Handler' \in {"grade", "idle"} /\ Still /\ (Handler' = "grade" => Mine' = Mine)
  BY SoloTypes DEF TakeScoringLock, MissScoringLock, GoTimer, EndTimer, Handler, Mine, Num, Still, redisVars, roomVars,
       quizVars, history, scoringTask, startTask
<1>2. HandlerFits'
  BY <1>1, SoloTypes DEF SoloOK, HandlerFits, Still, Between, Asked, Num, StoredAnswer, QuizAt, Seen
<1> QED
  BY <1>1, <1>2, StillSolo DEF Unscored, Still

LEMMA GradeSolo ==
  ASSUME TypeOK, TypeOK', Solo, SoloOK, Grade(TheWAS)
  PROVE  SoloOK'
<1>1. PICK right \in SUBSET Players :
        /\ Handler = "grade" /\ Handler' = "award" /\ Still
        /\ Mine' = [Mine EXCEPT !.clients = roomPlayers, !.correct = right,
                                !.wrong = {p \in roomPlayers : alive[p]} \ right]
  BY SoloTypes DEF Grade, GoTimer, Handler, Mine, Still, redisVars, roomVars, quizVars, history, scoringTask, startTask,
       TypeOK, RedisOK
<1>2. HandlerFits'
  BY <1>1, SoloTypes DEF SoloOK, HandlerFits, Still, Between, Asked, Num, StoredAnswer, QuizAt, Seen, Locals
<1> QED
  BY <1>1, <1>2, StillSolo DEF Unscored, Still

LEMMA UnlockSolo ==
  ASSUME TypeOK, TypeOK', Solo, SoloOK, ReleaseScoringLock(TheWAS)
  PROVE  SoloOK'
<1>1. Handler = "unlock" /\ Handler' = "idle" /\ Still
  BY SoloTypes DEF ReleaseScoringLock, GoTimer, EndTimer, Handler, Still, redisVars, roomVars,
       quizVars, history, scoringTask, startTask
<1>2. HandlerFits'
  BY <1>1, SoloTypes DEF SoloOK, HandlerFits, Still, Between, Asked, Num, StoredAnswer, QuizAt, Seen
<1> QED
  BY <1>1, <1>2, StillSolo DEF Unscored, Still

LEMMA CheckEndSolo ==
  ASSUME TypeOK, TypeOK', Solo, SoloOK, CheckEnd(TheWAS)
  PROVE  SoloOK'
<1>1. /\ Handler = "checkEnd" /\ Handler' \in {"revive", "readNext"} /\ Still
      /\ Handler' = "readNext" =>
           ~HasNoMoreQuiz(Mine.num + 1) /\ Mine'.num = Mine.num + 1 /\ Mine'.quiz = QuizAt(Mine.num + 1)
  BY SoloTypes DEF CheckEnd, GoTimer, Handler, Mine, Still, redisVars, roomVars, quizVars, history, scoringTask, startTask, Locals
<1>2. Cardinality(quizSet) = QuizCount
  BY <1>1 DEF SoloOK, OneAtATime, QuizzesDealt, Live, TypeOK, RedisOK
<1>3. Handler' = "readNext" => Mine'.num < QuizCount
  BY <1>1, <1>2, SoloTypes, QuizAssumption, FS_CardinalityType DEF HasNoMoreQuiz, SoloOK, HandlerFits
<1>5. /\ Mine.num = Num /\ currentQuiz.state = "end" /\ Between(Num)
      /\ Seen.event \in {"start", "result"}
  BY <1>1 DEF SoloOK, HandlerFits, Between, View
<1>4. HandlerFits'
  BY <1>1, <1>3, <1>5, StillShown DEF HandlerFits, Still
<1> QED
  BY <1>1, <1>4, StillSolo DEF Unscored, Still

LEMMA ReviveSolo ==
  ASSUME TypeOK, TypeOK', Solo, SoloOK, Revive(TheWAS)
  PROVE  SoloOK'
<1>1. Handler = "revive" /\ Handler' = "endGame" /\ Still
  BY SoloTypes DEF Revive, GoTimer, Handler, Still, redisVars, roomVars, quizVars, history, scoringTask, startTask
<1>2. HandlerFits'
  BY <1>1 DEF SoloOK, HandlerFits, Still, Seen
<1> QED
  BY <1>1, <1>2, StillSolo DEF Unscored, Still

(* The quiz at an index of the list.                                        *)
LEMMA QuizAtIs ==
  ASSUME TypeOK, NEW n \in Nat, n < Cardinality(quizSet)
  PROVE  QuizAt(n) \in quizSet /\ Index(quizSet, QuizAt(n)) = n
<1>1. \E q \in quizSet : Index(quizSet, q) = n
  BY IndexExists, QuizAssumption, FS_Subset DEF TypeOK, RedisOK
<1> QED
  BY <1>1 DEF QuizAt

(* While a handler prepares quiz n, n is an index of the list, and the quiz *)
(* there has not been asked yet.                                            *)
LEMMA NextIs ==
  ASSUME TypeOK, Solo, SoloOK, QuizSetStored, Handler \in {"readNext", "store"}
  PROVE  /\ Mine.num \in Nat /\ Mine.num = Num + 1 /\ Mine.quiz \in quizSet /\ Index(quizSet, Mine.quiz) = Mine.num
         /\ StoredAnswer(Mine.quiz) = RightChoice /\ Mine.quiz \in registered /\ Mine.quiz = QuizAt(Mine.num)
         /\ Mine.quiz \in QuizPool
<1>1. Mine.num = Num + 1 /\ Mine.num < QuizCount /\ Mine.quiz = QuizAt(Mine.num) /\ Live
  BY DEF SoloOK, HandlerFits, Live
<1>2. Cardinality(quizSet) = QuizCount
  BY <1>1 DEF SoloOK, OneAtATime, QuizzesDealt, TypeOK, RedisOK
<1>3. Mine.num \in Nat
  BY <1>1, SoloTypes, FS_CardinalityType, QuizAssumption DEF QuizNums
<1>4. Mine.quiz \in quizSet /\ Index(quizSet, Mine.quiz) = Mine.num
  BY <1>1, <1>2, <1>3, QuizAtIs
<1>5. answer[Mine.quiz] = RightChoice
  BY <1>1, <1>4, SoloTypes DEF SoloOK, QuizzesDealt, LastAsked
<1> QED
  BY <1>1, <1>3, <1>4, <1>5 DEF StoredAnswer, QuizSetStored, TypeOK, RedisOK

LEMMA ReadNextSolo ==
  ASSUME TypeOK, TypeOK', Solo, SoloOK, QuizSetStored, ReadNext(TheWAS)
  PROVE  SoloOK'
<1>1. /\ Handler = "readNext" /\ Handler' = "store" /\ Still
      /\ Mine' = [Mine EXCEPT !.stored = Mine.quiz \in registered, !.ans = StoredAnswer(Mine.quiz)]
  BY SoloTypes DEF ReadNext, GoTimer, Handler, Mine, Still, redisVars, roomVars, quizVars, history, scoringTask, startTask
<1>2. Mine.quiz \in registered /\ StoredAnswer(Mine.quiz) = RightChoice
  BY <1>1, NextIs
<1>3. Mine' = [Mine EXCEPT !.stored = TRUE, !.ans = RightChoice]
  BY <1>1, <1>2
<1>5. /\ Mine.num = Num + 1 /\ currentQuiz.state = "end" /\ Mine.num < QuizCount /\ Between(Num)
      /\ Mine.quiz = QuizAt(Mine.num)
  BY <1>1 DEF SoloOK, HandlerFits
<1>6. Mine'.num = Mine.num /\ Mine'.quiz = Mine.quiz /\ Mine'.stored /\ Mine'.ans = RightChoice
  BY <1>3, SoloTypes DEF Locals
<1>7. QuizAt(Mine.num)' = QuizAt(Mine.num)
  BY <1>1, <1>6 DEF QuizAt, Still
<1>4. HandlerFits'
  BY <1>1, <1>5, <1>6, <1>7, StillShown DEF HandlerFits, Still
<1> QED
  BY <1>1, <1>4, StillSolo DEF Unscored, Still

-----------------------------------------------------------------------------
(* The steps of the timer handler that the players, or another handler, see *)

LEMMA AwardSolo ==
  ASSUME TypeOK, TypeOK', Solo, SoloOK, Award(TheWAS)
  PROVE  SoloOK'
<1>1. /\ Handler = "award" /\ Handler' = "publish" /\ Mine' = Mine
      /\ passes' = [passes EXCEPT ![Mine.num] = @ + 1]
      /\ UNCHANGED <<status, quizSet, registered, answer, currentQuiz, timer, view, spc, snum, gpc, gwas>>
  BY SoloTypes DEF Award, GoTimer, Handler, Mine, roomVars, quizVars, history, scoringTask, startTask
<1>2. OneAtATime'
  BY <1>1 DEF SoloOK, OneAtATime, Live, Starting, Scorer
<1>3. QuizzesDealt'
  BY <1>1 DEF SoloOK, QuizzesDealt, Live, LastAsked, Index, Num
<1>4. TimerFits' /\ ScorerFits' /\ StartFits'
  BY <1>1 DEF SoloOK, TimerFits, ScorerFits, StartFits, Between, Asked, Num, StoredAnswer, QuizAt, Seen, Scorer
<1>5. HandlerFits'
  BY <1>1 DEF SoloOK, HandlerFits, Between, Asked, Num, StoredAnswer, QuizAt, Seen
<1>6. Mine.num = Num /\ Live /\ ~Starting /\ timer = NoTimer
  BY <1>1 DEF SoloOK, OneAtATime, HandlerFits, Live
<1>7. passes[Num] = 0 /\ (\A k \in QuizNums : k > Num => passes[k] = 0) /\ NoRescoring
  BY <1>1, <1>6, SoloTypes DEF SoloOK, ScoredOnce, Unscored
<1>8. \A k \in QuizNums : passes'[k] = IF k = Num THEN 1 ELSE passes[k]
  BY <1>1, <1>6, <1>7, SoloTypes
<1>9. ~Unscored' /\ Num' = Num
  BY <1>1, <1>6 DEF Unscored, NoTimer, Num
<1>10. NoRescoring'
  BY <1>7, <1>8 DEF NoRescoring
<1>11. ~Starting'
  BY <1>1, <1>6 DEF Starting
<1>12. ScoredOnce'
  <2>1. \A k \in QuizNums : k > Num => passes'[k] = 0
    BY <1>7, <1>8, SoloTypes
  <2> QED
    BY <2>1, <1>9, <1>10, <1>11 DEF ScoredOnce, Starting
<1> QED
  BY <1>2, <1>3, <1>4, <1>5, <1>12 DEF SoloOK

LEMMA PublishSolo ==
  ASSUME TypeOK, TypeOK', Solo, SoloOK, PublishScoring(TheWAS)
  PROVE  SoloOK'
<1>1. /\ Handler = "publish" /\ Handler' = "unlock" /\ Mine' = Mine /\ Scorer' = "count"
      /\ UNCHANGED <<status, quizSet, registered, answer, currentQuiz, timer, view, passes, snum, gpc, gwas>>
  BY SoloTypes DEF PublishScoring, GoTimer, Handler, Mine, Scorer, redisVars, roomVars, quizVars, history, startTask
<1>2. /\ Mine.ticket = Armed("quiz", Num) /\ Mine.num = Num /\ currentQuiz.state = "start" /\ Asked(Num)
      /\ timer = NoTimer /\ ~Starting /\ status # "waiting" /\ Live
  BY <1>1 DEF SoloOK, HandlerFits, OneAtATime, Live
<1>3. OneAtATime'
  BY <1>1, <1>2 DEF SoloOK, OneAtATime, Live, Starting
<1>4. QuizzesDealt'
  BY <1>1, <1>2 DEF SoloOK, QuizzesDealt, Live, LastAsked, Index, Num
<1>5. TimerFits' /\ StartFits'
  BY <1>1 DEF SoloOK, TimerFits, StartFits, Between, Asked, Num, StoredAnswer, QuizAt, Seen
<1>6. HandlerFits' /\ ScorerFits'
  BY <1>1, <1>2 DEF HandlerFits, ScorerFits, Asked, Num, StoredAnswer, QuizAt, Seen
<1>7. ScoredOnce'
  BY <1>1, <1>2 DEF SoloOK, ScoredOnce, NoRescoring, Unscored, Num
<1> QED
  BY <1>3, <1>4, <1>5, <1>6, <1>7 DEF SoloOK

LEMMA EndGameSolo ==
  ASSUME TypeOK, TypeOK', Solo, SoloOK, EndGame(TheWAS)
  PROVE  SoloOK'
<1>1. /\ Handler = "endGame" /\ Handler' = "idle" /\ status' = "waiting" /\ Seen' = Lobby
      /\ UNCHANGED <<quizSet, registered, answer, currentQuiz, timer, passes, spc, snum, gpc, gwas>>
  BY SoloTypes DEF EndGame, EndTimer, GoTimer, Handler, Seen, Scorer, redisVars, roomVars, quizVars, history, startTask,
       scoringTask
<1>2. timer = NoTimer /\ Scorer = "idle" /\ ~Starting
  BY <1>1 DEF SoloOK, OneAtATime, Live
<1>3. ~Live' /\ ~Starting' /\ Scorer' = "idle"
  BY <1>1, <1>2 DEF Live, Starting, Scorer
<1>4. OneAtATime' /\ TimerFits' /\ HandlerFits' /\ ScorerFits' /\ StartFits'
  BY <1>1, <1>2, <1>3 DEF OneAtATime, TimerFits, HandlerFits, ScorerFits, StartFits, Starting
<1>5. QuizzesDealt'
  BY <1>1, <1>3 DEF QuizzesDealt, Starting
<1>6. ScoredOnce'
  BY <1>1, <1>3 DEF SoloOK, ScoredOnce, NoRescoring, Starting
<1> QED
  BY <1>4, <1>5, <1>6 DEF SoloOK

LEMMA StoreSolo ==
  ASSUME TypeOK, TypeOK', Solo, SoloOK, QuizSetStored, StoreAnswer(TheWAS)
  PROVE  SoloOK'
<1> DEFINE l == Mine
<1>1. Mine.stored /\ Mine.ans = RightChoice /\ Handler = "store"
  BY SoloTypes DEF SoloOK, HandlerFits, StoreAnswer, GoTimer, Handler
<1>2. PICK f \in Shuffles :
        /\ Handler' = "setCurrent" /\ Mine' = Mine
        /\ answer' = [answer EXCEPT ![Mine.quiz] = PlaceOf(f, RightChoice)]
        /\ Seen' = View("question", Mine.num, PlaceOf(f, RightChoice))
        /\ UNCHANGED <<status, quizSet, registered, currentQuiz, timer, passes, spc, snum, gpc, gwas>>
  BY <1>1, SoloTypes DEF StoreAnswer, GoTimer, Handler, Mine, Seen, roomVars, quizVars, history, scoringTask, startTask
<1>3. /\ Mine.num \in Nat /\ Mine.num = Num + 1 /\ Mine.quiz \in quizSet /\ Index(quizSet, Mine.quiz) = Mine.num
      /\ Mine.quiz \in registered /\ Mine.quiz = QuizAt(Mine.num) /\ Mine.quiz \in QuizPool
  BY <1>1, NextIs
<1>4. /\ timer = NoTimer /\ Scorer = "idle" /\ ~Starting /\ status # "waiting" /\ Live
      /\ currentQuiz.state = "end" /\ Mine.num < QuizCount
  BY <1>1 DEF SoloOK, OneAtATime, HandlerFits, Live
<1>5. OneAtATime'
  BY <1>1, <1>2, <1>4 DEF SoloOK, OneAtATime, Live, Starting, Scorer
<1>6. QuizzesDealt'
  <2>1. \A q \in quizSet : Index(quizSet, q) > Mine.num => answer'[q] = RightChoice
    <3>1. SUFFICES ASSUME NEW q \in quizSet, Index(quizSet, q) > Mine.num PROVE answer'[q] = RightChoice
      OBVIOUS
    <3>2. q # Mine.quiz /\ Index(quizSet, q) > Num
      <4>1. Index(quizSet, q) \in Nat
        BY FS_Subset, FS_CardinalityType, QuizAssumption DEF Index, TypeOK, RedisOK
      <4> QED
        BY <1>3, <3>1, <4>1, SoloTypes
    <3>3. answer[q] = RightChoice
      BY <1>1, <1>4, <3>2 DEF SoloOK, QuizzesDealt, LastAsked
    <3> QED
      BY <1>2, <3>2, <3>3 DEF TypeOK, RedisOK
  <2>2. LastAsked' = Mine.num
    BY <1>2 DEF LastAsked
  <2>3. \A q : Index(quizSet, q)' = Index(quizSet, q)
    BY <1>2 DEF Index
  <2> QED
    BY <1>2, <1>4, <2>1, <2>2, <2>3 DEF SoloOK, QuizzesDealt, Starting
<1>7. Asked(Mine.num)'
  <2>1. QuizAt(Mine.num)' = Mine.quiz
    BY <1>2, <1>3 DEF QuizAt
  <2>2. answer'[Mine.quiz] = PlaceOf(f, RightChoice)
    BY <1>2, <1>3 DEF TypeOK, RedisOK
  <2>3. StoredAnswer(QuizAt(Mine.num))' = PlaceOf(f, RightChoice)
    BY <1>2, <1>3, <2>1, <2>2 DEF StoredAnswer
  <2> QED
    BY <1>2, <2>3 DEF Asked
<1>8. Num' = Num /\ Scorer' = "idle"
  BY <1>2, <1>4 DEF Num, Scorer
<1>9. TimerFits' /\ ScorerFits' /\ StartFits'
  BY <1>2, <1>4, <1>8 DEF TimerFits, ScorerFits, StartFits, Starting
<1>10. HandlerFits'
  BY <1>2, <1>3, <1>4, <1>7, <1>8 DEF HandlerFits
<1>11. ScoredOnce'
  BY <1>1, <1>2, <1>4, <1>8 DEF SoloOK, ScoredOnce, NoRescoring, Unscored, Starting
<1> QED
  BY <1>5, <1>6, <1>9, <1>10, <1>11 DEF SoloOK

LEMMA SetQuizStartSolo ==
  ASSUME TypeOK, TypeOK', Solo, SoloOK, SetQuizStart(TheWAS)
  PROVE  SoloOK'
<1>1. /\ Handler = "setCurrent" /\ Handler' = "arm" /\ Mine' = Mine
      /\ currentQuiz' = [num |-> Mine.num, state |-> "start"]
      /\ UNCHANGED <<status, quizSet, registered, answer, timer, view, passes, spc, snum, gpc, gwas>>
  BY SoloTypes DEF SetQuizStart, GoTimer, Handler, Mine, roomVars, quizVars, history, scoringTask, startTask
<1>2. /\ timer = NoTimer /\ Scorer = "idle" /\ ~Starting /\ status # "waiting" /\ Live
      /\ Asked(Mine.num) /\ Mine.num = Num + 1
  BY <1>1 DEF SoloOK, OneAtATime, HandlerFits, Live
<1>3. Num' = Mine.num /\ Scorer' = "idle" /\ LastAsked' = Mine.num
  BY <1>1, <1>2 DEF Num, Scorer, LastAsked
<1>4. Asked(Mine.num)'
  BY <1>1, <1>2 DEF Asked, StoredAnswer, QuizAt, Seen
<1>5. OneAtATime'
  BY <1>1, <1>2 DEF SoloOK, OneAtATime, Live, Starting, Scorer
<1>6. QuizzesDealt'
  BY <1>1, <1>2, <1>3 DEF SoloOK, QuizzesDealt, Starting, LastAsked, Index
<1>7. TimerFits' /\ ScorerFits' /\ StartFits'
  BY <1>1, <1>2, <1>3 DEF TimerFits, ScorerFits, StartFits, Starting
<1>8. HandlerFits'
  BY <1>1, <1>3, <1>4 DEF HandlerFits
<1>9. ScoredOnce'
  <2>1. \A k \in QuizNums : k > Num => passes[k] = 0
    BY <1>2 DEF SoloOK, ScoredOnce
  <2>2. \A k \in QuizNums : k >= Mine.num => passes[k] = 0
    BY <1>2, <2>1, SoloTypes
  <2> QED
    BY <1>1, <1>2, <1>3, <2>2, SoloTypes DEF SoloOK, ScoredOnce, NoRescoring, Starting
<1> QED
  BY <1>5, <1>6, <1>7, <1>8, <1>9 DEF SoloOK

LEMMA ArmQuizSolo ==
  ASSUME TypeOK, TypeOK', Solo, SoloOK, ArmQuizTimer(TheWAS)
  PROVE  SoloOK'
<1>1. /\ Handler = "arm" /\ Handler' = "idle" /\ timer' \in {timer, ArmNX("quiz", Mine.num)}
      /\ UNCHANGED <<status, quizSet, registered, answer, currentQuiz, view, passes, spc, snum, gpc, gwas>>
  BY SoloTypes DEF ArmQuizTimer, EndTimer, GoTimer, Handler, Mine, roomVars, quizVars, history, scoringTask, startTask
<1>2. /\ timer = NoTimer /\ Scorer = "idle" /\ ~Starting /\ status # "waiting" /\ Live
      /\ Asked(Num) /\ Mine.num = Num /\ currentQuiz.state = "start"
  BY <1>1 DEF SoloOK, OneAtATime, HandlerFits, Live
<1>3. timer' \in {NoTimer, Armed("quiz", Num)} /\ Num' = Num /\ Scorer' = "idle" /\ Asked(Num)'
  BY <1>1, <1>2 DEF ArmNX, Num, Scorer, Asked, StoredAnswer, QuizAt, Seen
<1>4. OneAtATime'
  BY <1>1, <1>2, <1>3 DEF SoloOK, OneAtATime, Live, Starting
<1>5. QuizzesDealt'
  BY <1>1, <1>2, <1>3 DEF SoloOK, QuizzesDealt, Starting, LastAsked, Index
<1>6. TimerFits'
  BY <1>1, <1>2, <1>3 DEF TimerFits
<1>7. HandlerFits' /\ ScorerFits' /\ StartFits'
  BY <1>1, <1>2, <1>3 DEF HandlerFits, ScorerFits, StartFits, Starting
<1>8. ScoredOnce'
  BY <1>1, <1>2, <1>3 DEF SoloOK, ScoredOnce, NoRescoring, Starting, Unscored
<1> QED
  BY <1>4, <1>5, <1>6, <1>7, <1>8 DEF SoloOK

-----------------------------------------------------------------------------
(* The scoring handler                                                      *)

(* The count, and the comparison that goes on or gives up.                  *)
LEMMA CountSolo ==
  ASSUME TypeOK, TypeOK', Solo, SoloOK,
         \/ CountClients(TheWAS, TheWAS) \/ ScoringComplete(TheWAS, TheWAS)
         \/ ScoringIncomplete(TheWAS, TheWAS) \/ ResetScoringCount(TheWAS, TheWAS)
  PROVE  SoloOK'
<1>1. /\ Scorer # "idle" /\ Scorer' \in {"idle", "compare", "results"}
      /\ Scorer' # "idle" => Scorer \in {"count", "compare"}
      /\ Handler' = Handler /\ Mine' = Mine
      /\ UNCHANGED <<status, quizSet, registered, answer, currentQuiz, timer, view, passes, gpc, gwas>>
  BY SoloTypes DEF CountClients, ScoringComplete, ScoringIncomplete, ResetScoringCount, GoScoring, EndScoring, Scorer,
       Handler, Mine, redisVars, roomVars, quizVars, history, timerTask, startTask
<1>2. OneAtATime'
  BY <1>1 DEF SoloOK, OneAtATime, Live, Starting
<1>3. QuizzesDealt'
  BY <1>1 DEF SoloOK, QuizzesDealt, Live, LastAsked, Index, Num
<1>4. TimerFits' /\ StartFits'
  BY <1>1 DEF SoloOK, TimerFits, StartFits, Between, Asked, Num, StoredAnswer, QuizAt, Seen
<1>5. HandlerFits'
  BY <1>1 DEF SoloOK, HandlerFits, Between, Asked, Num, StoredAnswer, QuizAt, Seen
<1>6. ScorerFits'
  BY <1>1 DEF SoloOK, ScorerFits, Asked, Num, StoredAnswer, QuizAt, Seen
<1>7. ScoredOnce'
  BY <1>1 DEF SoloOK, ScoredOnce, NoRescoring, Live, Unscored, Num
<1> QED
  BY <1>2, <1>3, <1>4, <1>5, <1>6, <1>7 DEF SoloOK

LEMMA ResultsSolo ==
  ASSUME TypeOK, TypeOK', Solo, SoloOK, AnnounceResults(TheWAS, TheWAS)
  PROVE  SoloOK'
<1>1. /\ Scorer = "results" /\ Scorer' = "setEnd" /\ Handler' = Handler /\ Mine' = Mine
      /\ snum'[TheWAS][TheWAS] = Num /\ Seen' = View("result", Num, StoredAnswer(QuizAt(Num)))
      /\ UNCHANGED <<status, quizSet, registered, answer, currentQuiz, timer, passes, gpc, gwas>>
  BY SoloTypes DEF AnnounceResults, GoScoring, Scorer, Seen, Num,
       Handler, Mine, redisVars, roomVars, quizVars, timerTask, startTask
<1>2. /\ timer = NoTimer /\ Handler \in {"idle", "unlock"} /\ ~Starting /\ status # "waiting" /\ Live
  BY <1>1 DEF SoloOK, OneAtATime, Live
<1>3. Num' = Num /\ Seen'.event = "result" /\ Seen'.num = Num
  BY <1>1 DEF Num, View
<1>4. OneAtATime'
  BY <1>1 DEF SoloOK, OneAtATime, Live, Starting
<1>5. QuizzesDealt'
  BY <1>1, <1>2 DEF SoloOK, QuizzesDealt, Starting, LastAsked, Index, Num
<1>6. TimerFits' /\ StartFits' /\ ScorerFits'
  BY <1>1, <1>2, <1>3 DEF TimerFits, StartFits, ScorerFits, Starting
<1>7. HandlerFits'
  BY <1>1, <1>2 DEF SoloOK, HandlerFits
<1>8. ScoredOnce'
  BY <1>1, <1>2 DEF SoloOK, ScoredOnce, NoRescoring, Starting, Unscored, Num
<1> QED
  BY <1>4, <1>5, <1>6, <1>7, <1>8 DEF SoloOK

LEMMA SetQuizEndSolo ==
  ASSUME TypeOK, TypeOK', Solo, SoloOK, SetQuizEnd(TheWAS, TheWAS)
  PROVE  SoloOK'
<1>1. /\ Scorer = "setEnd" /\ Scorer' = "arm" /\ Handler' = Handler /\ Mine' = Mine
      /\ currentQuiz' = [num |-> snum[TheWAS][TheWAS], state |-> "end"]
      /\ UNCHANGED <<status, quizSet, registered, answer, timer, view, passes, snum, gpc, gwas>>
  BY SoloTypes DEF SetQuizEnd, GoScoring, Scorer, Handler, Mine, roomVars, quizVars, history, timerTask, startTask
<1>2. /\ timer = NoTimer /\ Handler \in {"idle", "unlock"} /\ ~Starting /\ status # "waiting" /\ Live
      /\ snum[TheWAS][TheWAS] = Num /\ Seen.event = "result" /\ Seen.num = Num
  BY <1>1 DEF SoloOK, OneAtATime, Live, ScorerFits
<1>3. currentQuiz' = [num |-> Num, state |-> "end"] /\ Num' = Num /\ Seen' = Seen
  BY <1>1, <1>2 DEF Num, Seen
<1>4. OneAtATime'
  BY <1>1 DEF SoloOK, OneAtATime, Live, Starting
<1>5. QuizzesDealt'
  BY <1>1, <1>2, <1>3 DEF SoloOK, QuizzesDealt, Starting, LastAsked, Index
<1>6. TimerFits' /\ StartFits' /\ ScorerFits'
  BY <1>1, <1>2, <1>3 DEF TimerFits, StartFits, ScorerFits, Starting
<1>7. HandlerFits'
  BY <1>1, <1>2 DEF SoloOK, HandlerFits
<1>8. ScoredOnce'
  BY <1>1, <1>2, <1>3 DEF SoloOK, ScoredOnce, NoRescoring, Starting, Unscored
<1> QED
  BY <1>4, <1>5, <1>6, <1>7, <1>8 DEF SoloOK

LEMMA ArmResultSolo ==
  ASSUME TypeOK, TypeOK', Solo, SoloOK, ArmResultTimer(TheWAS, TheWAS)
  PROVE  SoloOK'
<1>1. /\ Scorer = "arm" /\ Scorer' = "reset" /\ Handler' = Handler /\ Mine' = Mine
      /\ timer' = ArmNX("result", snum[TheWAS][TheWAS])
      /\ UNCHANGED <<status, quizSet, registered, answer, currentQuiz, view, passes, gpc, gwas>>
  BY SoloTypes DEF ArmResultTimer, GoScoring, Scorer, Handler, Mine, roomVars, quizVars, history, timerTask, startTask
<1>2. /\ timer = NoTimer /\ Handler \in {"idle", "unlock"} /\ ~Starting /\ status # "waiting" /\ Live
      /\ snum[TheWAS][TheWAS] = Num /\ Seen.event = "result" /\ Seen.num = Num /\ currentQuiz.state = "end"
  BY <1>1 DEF SoloOK, OneAtATime, Live, ScorerFits
<1>3. timer' = Armed("result", Num) /\ Num' = Num /\ Seen' = Seen
  BY <1>1, <1>2 DEF Num, Seen, ArmNX
<1>4. OneAtATime'
  BY <1>1, <1>2 DEF SoloOK, OneAtATime, Live, Starting
<1>5. QuizzesDealt'
  BY <1>1, <1>2, <1>3 DEF SoloOK, QuizzesDealt, Starting, LastAsked, Index
<1>6. TimerFits' /\ StartFits' /\ ScorerFits'
  BY <1>1, <1>2, <1>3 DEF TimerFits, StartFits, ScorerFits, Starting, Between
<1>7. HandlerFits'
  BY <1>1, <1>2 DEF SoloOK, HandlerFits
<1>8. ScoredOnce'
  BY <1>1, <1>2, <1>3 DEF SoloOK, ScoredOnce, NoRescoring, Starting, Unscored, Armed
<1> QED
  BY <1>4, <1>5, <1>6, <1>7, <1>8 DEF SoloOK

-----------------------------------------------------------------------------
(* startGame and the timer                                                  *)

LEMMA RequestSolo ==
  ASSUME TypeOK, TypeOK', Solo, SoloOK, NEW r \in Requests, RequestStart(r)
  PROVE  SoloOK'
<1>1. /\ status = "waiting" /\ ~Starting /\ gpc' = [gpc EXCEPT ![r] = "clear"]
      /\ gwas' = [gwas EXCEPT ![r] = TheWAS]
      /\ UNCHANGED <<status, quizSet, registered, answer, currentQuiz, timer, view, passes, spc, snum, tpc, local>>
  BY SoloTypes DEF RequestStart, GoStart, Starting, Solo, TypeOK, RedisOK, MemoryOK, redisVars, roomVars, quizVars, history,
       timerTask, scoringTask
<1>2. /\ \A x \in Requests : x # r => gpc[x] = "idle" /\ gpc'[x] = "idle"
      /\ gpc'[r] = "clear" /\ gwas'[r] = TheWAS
  BY <1>1, SoloTypes DEF Starting, TypeOK, StartTaskOK
<1>3. ~Live /\ ~Live' /\ Scorer' = Scorer
  BY <1>1 DEF SoloOK, OneAtATime, Live, Handler, Scorer
<1>4. OneAtATime'
  BY <1>1, <1>2, <1>3 DEF OneAtATime, Live
<1>5. QuizzesDealt'
  BY <1>1, <1>2, <1>3 DEF QuizzesDealt
<1>6. TimerFits' /\ HandlerFits' /\ ScorerFits'
  BY <1>3 DEF Live, TimerFits, HandlerFits, ScorerFits
<1>7. StartFits'
  BY <1>1, <1>2 DEF SoloOK, StartFits, Seen
<1>8. ScoredOnce'
  BY <1>1, <1>2, <1>3 DEF SoloOK, ScoredOnce, NoRescoring
<1> QED
  BY <1>4, <1>5, <1>6, <1>7, <1>8 DEF SoloOK

(* While a startGame runs nothing else does.                                *)
LEMMA StartingAlone ==
  ASSUME TypeOK, SoloOK, NEW r \in Requests, NEW to, gpc[r] # "idle", gpc' = [gpc EXCEPT ![r] = to],
         UNCHANGED <<tpc, local, spc, snum>>
  PROVE  /\ \A x \in Requests : x # r => gpc[x] = "idle" /\ gpc'[x] = "idle"
         /\ gpc'[r] = to /\ gwas[r] = TheWAS
         /\ timer = NoTimer /\ Handler = "idle" /\ Scorer = "idle" /\ Handler' = "idle" /\ Scorer' = "idle"
         /\ HandlerFits' /\ ScorerFits'
<1>1. gpc'[r] = to /\ gwas[r] = TheWAS /\ \A x \in Requests : x # r => gpc[x] = "idle" /\ gpc'[x] = "idle"
  BY DEF SoloOK, OneAtATime, TypeOK, StartTaskOK
<1>2. timer = NoTimer /\ Handler = "idle" /\ Scorer = "idle" /\ Handler' = "idle" /\ Scorer' = "idle"
  BY DEF SoloOK, OneAtATime, Starting, Live, Handler, Scorer
<1> QED
  BY <1>1, <1>2 DEF HandlerFits, ScorerFits

LEMMA StartSolo ==
  ASSUME TypeOK, TypeOK', Solo, SoloOK, NEW r \in Requests, StartStep(r)
  PROVE  SoloOK'
<1> USE DEF redisVars, roomVars, quizVars, history, timerTask, scoringTask, GoStart
<1>1. CASE ClearQuizzes(r)
  <2>1. /\ gpc[r] = "clear" /\ gpc' = [gpc EXCEPT ![r] = "register"] /\ quizSet' = {} /\ UNCHANGED gwas
        /\ UNCHANGED <<status, currentQuiz, timer, view, passes, spc, snum, tpc, local>>
    BY <1>1 DEF ClearQuizzes
  <2>2. /\ \A x \in Requests : x # r => gpc[x] = "idle" /\ gpc'[x] = "idle"
        /\ gpc'[r] = "register" /\ gwas[r] = TheWAS /\ status = "waiting"
        /\ timer = NoTimer /\ Handler' = "idle" /\ Scorer' = "idle" /\ HandlerFits' /\ ScorerFits'
    BY <2>1, StartingAlone DEF SoloOK, OneAtATime
  <2>3. OneAtATime' /\ QuizzesDealt' /\ TimerFits'
    BY <2>1, <2>2 DEF OneAtATime, QuizzesDealt, TimerFits, Live
  <2>4. StartFits' /\ ScoredOnce'
    BY <2>1, <2>2 DEF SoloOK, StartFits, ScoredOnce, NoRescoring, Live, Seen
  <2> QED
    BY <2>2, <2>3, <2>4 DEF SoloOK
<1>2. CASE RegisterQuizzes(r)
  <2>1. PICK sel \in SUBSET QuizPool :
        /\ gpc[r] = "register" /\ gpc' = [gpc EXCEPT ![r] = "rank"] /\ quizSet' = quizSet \cup sel /\ UNCHANGED gwas
        /\ Cardinality(sel) = QuizCount /\ answer' = [q \in QuizPool |-> IF q \in sel THEN RightChoice ELSE answer[q]]
        /\ UNCHANGED <<status, currentQuiz, timer, view, passes, spc, snum, tpc, local>>
    BY <1>2 DEF RegisterQuizzes
  <2>2. /\ \A x \in Requests : x # r => gpc[x] = "idle" /\ gpc'[x] = "idle"
        /\ gpc'[r] = "rank" /\ gwas[r] = TheWAS /\ status = "waiting" /\ quizSet = {}
        /\ timer = NoTimer /\ Handler' = "idle" /\ Scorer' = "idle" /\ HandlerFits' /\ ScorerFits'
    BY <2>1, StartingAlone DEF SoloOK, OneAtATime, QuizzesDealt
  <2>3. quizSet' = sel /\ Cardinality(quizSet') = QuizCount /\ \A q \in quizSet' : answer'[q] = RightChoice
    BY <2>1, <2>2
  <2>4. OneAtATime' /\ QuizzesDealt' /\ TimerFits'
    BY <2>1, <2>2, <2>3 DEF OneAtATime, QuizzesDealt, TimerFits, Live
  <2>5. StartFits' /\ ScoredOnce'
    BY <2>1, <2>2 DEF SoloOK, StartFits, ScoredOnce, NoRescoring, Live, Seen
  <2> QED
    BY <2>2, <2>4, <2>5 DEF SoloOK
<1>3. CASE ResetLeaderboard(r)
  <2>1. /\ gpc[r] = "rank" /\ gpc' = [gpc EXCEPT ![r] = "play"] /\ UNCHANGED gwas
        /\ UNCHANGED <<status, quizSet, answer, currentQuiz, timer, view, passes, spc, snum, tpc, local>>
    BY <1>3 DEF ResetLeaderboard
  <2>2. /\ \A x \in Requests : x # r => gpc[x] = "idle" /\ gpc'[x] = "idle"
        /\ gpc'[r] = "play" /\ gwas[r] = TheWAS /\ status = "waiting"
        /\ timer = NoTimer /\ Handler' = "idle" /\ Scorer' = "idle" /\ HandlerFits' /\ ScorerFits'
        /\ Cardinality(quizSet) = QuizCount /\ \A q \in quizSet : answer[q] = RightChoice
    BY <2>1, StartingAlone DEF SoloOK, OneAtATime, QuizzesDealt
  <2>3. OneAtATime' /\ QuizzesDealt' /\ TimerFits'
    BY <2>1, <2>2 DEF OneAtATime, QuizzesDealt, TimerFits, Live
  <2>4. StartFits' /\ ScoredOnce'
    BY <2>1, <2>2 DEF SoloOK, StartFits, ScoredOnce, NoRescoring, Live, Seen
  <2> QED
    BY <2>2, <2>3, <2>4 DEF SoloOK
<1>4. CASE AnnounceGame(r)
  <2>1. /\ gpc[r] = "play" /\ gpc' = [gpc EXCEPT ![r] = "current"] /\ UNCHANGED gwas /\ status' = "playing"
        /\ Seen' = View("start", -1, 0) /\ passes' = [n \in QuizNums |-> 0]
        /\ UNCHANGED <<quizSet, answer, currentQuiz, timer, spc, snum, tpc, local>>
    BY <1>4, SoloTypes DEF AnnounceGame, Seen
  <2>2. /\ \A x \in Requests : x # r => gpc[x] = "idle" /\ gpc'[x] = "idle"
        /\ gpc'[r] = "current" /\ gwas[r] = TheWAS
        /\ timer = NoTimer /\ Handler' = "idle" /\ Scorer' = "idle" /\ HandlerFits' /\ ScorerFits'
        /\ Cardinality(quizSet) = QuizCount /\ \A q \in quizSet : answer[q] = RightChoice
    BY <2>1, StartingAlone DEF SoloOK, OneAtATime, QuizzesDealt
  <2>3. OneAtATime' /\ QuizzesDealt' /\ TimerFits'
    BY <2>1, <2>2 DEF OneAtATime, QuizzesDealt, TimerFits, Live
  <2>4. StartFits' /\ ScoredOnce'
    BY <2>1, <2>2 DEF StartFits, ScoredOnce, NoRescoring, Live
  <2> QED
    BY <2>2, <2>3, <2>4 DEF SoloOK
<1>5. CASE ResetCurrentQuiz(r)
  <2>1. /\ gpc[r] = "current" /\ gpc' = [gpc EXCEPT ![r] = "arm"] /\ UNCHANGED gwas
        /\ currentQuiz' = [num |-> -1, state |-> "end"]
        /\ UNCHANGED <<status, quizSet, answer, timer, view, passes, spc, snum, tpc, local>>
    BY <1>5 DEF ResetCurrentQuiz
  <2>2. /\ \A x \in Requests : x # r => gpc[x] = "idle" /\ gpc'[x] = "idle"
        /\ gpc'[r] = "arm" /\ gwas[r] = TheWAS /\ status = "playing"
        /\ timer = NoTimer /\ Handler' = "idle" /\ Scorer' = "idle" /\ HandlerFits' /\ ScorerFits'
        /\ Cardinality(quizSet) = QuizCount /\ \A q \in quizSet : answer[q] = RightChoice
    BY <2>1, StartingAlone DEF SoloOK, OneAtATime, QuizzesDealt
  <2>3. OneAtATime' /\ QuizzesDealt' /\ TimerFits'
    BY <2>1, <2>2 DEF OneAtATime, QuizzesDealt, TimerFits, Live
  <2>4. StartFits' /\ ScoredOnce'
    BY <2>1, <2>2 DEF SoloOK, StartFits, ScoredOnce, NoRescoring, Live, Seen
  <2> QED
    BY <2>2, <2>3, <2>4 DEF SoloOK
<1>6. CASE ArmIntroTimer(r)
  <2>1. /\ gpc[r] = "arm" /\ gpc' = [gpc EXCEPT ![r] = "idle"] /\ timer' = Armed("intro", -1)
        /\ UNCHANGED <<status, quizSet, answer, currentQuiz, view, passes, spc, snum, tpc, local>>
    BY <1>6 DEF ArmIntroTimer
  <2>2. /\ \A x \in Requests : gpc'[x] = "idle"
        /\ status = "playing" /\ Handler' = "idle" /\ Scorer' = "idle" /\ HandlerFits' /\ ScorerFits'
        /\ Cardinality(quizSet) = QuizCount /\ \A q \in quizSet : answer[q] = RightChoice
    BY <2>1, StartingAlone DEF SoloOK, OneAtATime, QuizzesDealt
  <2>3. /\ currentQuiz = [num |-> -1, state |-> "end"] /\ Seen = View("start", -1, 0)
        /\ \A k \in QuizNums : passes[k] = 0
    BY <2>1 DEF SoloOK, StartFits, ScoredOnce
  <2>4. OneAtATime' /\ QuizzesDealt'
    BY <2>1, <2>2 DEF OneAtATime, QuizzesDealt, Live, Starting
  <2>5. TimerFits' /\ StartFits' /\ ScoredOnce'
    BY <2>1, <2>2, <2>3 DEF TimerFits, Between, Seen, Num, StartFits, ScoredOnce, NoRescoring, Live
  <2> QED
    BY <2>2, <2>4, <2>5 DEF SoloOK
<1> QED
  BY <1>1, <1>2, <1>3, <1>4, <1>5, <1>6 DEF StartStep

LEMMA ExpireSolo ==
  ASSUME TypeOK, TypeOK', Solo, SoloOK, ExpireTimer
  PROVE  SoloOK'
<1>1. /\ timer # NoTimer /\ timer' = NoTimer /\ Handler = "idle" /\ Scorer = "idle"
      /\ Handler' = "get" /\ Mine' = Fresh(timer) /\ Scorer' = "idle"
      /\ UNCHANGED <<status, quizSet, registered, answer, currentQuiz, view, passes, spc, snum, gpc, gwas>>
  BY SoloTypes DEF ExpireTimer, Quiet, Handler, Mine, Scorer, roomVars, quizVars, history, scoringTask, startTask
<1>2. Live /\ ~Starting /\ status # "waiting"
  BY <1>1 DEF SoloOK, OneAtATime, Live
<1>3. Num' = Num /\ Seen' = Seen /\ (Asked(Num)' <=> Asked(Num)) /\ (Between(Num)' <=> Between(Num))
  BY <1>1 DEF Num, Seen, Asked, Between, StoredAnswer, QuizAt
<1>4. OneAtATime'
  BY <1>1, <1>2 DEF SoloOK, OneAtATime, Live, Starting
<1>5. QuizzesDealt'
  BY <1>1, <1>2 DEF SoloOK, QuizzesDealt, Starting, LastAsked, Index, Num
<1>6. TimerFits' /\ ScorerFits'
  BY <1>1 DEF TimerFits, ScorerFits
<1>7. StartFits'
  BY <1>1 DEF SoloOK, StartFits, Seen
<1>8. HandlerFits'
  <2>1. Mine'.ticket = timer
    BY <1>1 DEF Fresh
  <2> QED
    BY <1>1, <1>3, <2>1 DEF SoloOK, TimerFits, HandlerFits
<1>9. ScoredOnce'
  <2>1. Unscored' => Unscored
    BY <1>1 DEF Unscored, SoloOK, TimerFits, Armed, NoTimer
  <2> QED
    BY <1>1, <1>2, <1>3, <2>1 DEF SoloOK, ScoredOnce, NoRescoring
<1> QED
  BY <1>4, <1>5, <1>6, <1>7, <1>8, <1>9 DEF SoloOK

(* A restart stops everything but the timer.                                *)
LEMMA RestartSolo ==
  ASSUME TypeOK, TypeOK', Solo, SoloOK, Restart(TheWAS)
  PROVE  SoloOK'
<1>1. /\ Handler' = "idle" /\ Scorer' = "idle" /\ (\A r \in Requests : gpc'[r] = "idle")
      /\ UNCHANGED <<status, quizSet, registered, answer, currentQuiz, timer, view, passes>>
  <2>1. \A r \in Requests : gpc'[r] = IF gwas[r] = TheWAS THEN "idle" ELSE gpc[r]
    BY DEF Restart
  <2>2. \A r \in Requests : gpc'[r] = "idle"
    BY <2>1 DEF SoloOK, OneAtATime
  <2> QED
    BY <2>2, SoloTypes DEF Restart, Handler, Scorer, redisVars, roomVars, quizVars
<1>2. Num' = Num /\ Seen' = Seen /\ (Asked(Num)' <=> Asked(Num)) /\ (Between(Num)' <=> Between(Num))
  BY <1>1 DEF Num, Seen, Asked, Between, StoredAnswer, QuizAt
<1>3. OneAtATime'
  BY <1>1 DEF SoloOK, OneAtATime, Live, Starting
<1>4. QuizzesDealt'
  BY <1>1, SoloTypes DEF SoloOK, QuizzesDealt, OneAtATime, Live, LastAsked, Index, Num
<1>5. TimerFits'
  BY <1>1, <1>2 DEF SoloOK, TimerFits
<1>6. HandlerFits' /\ ScorerFits'
  BY <1>1 DEF HandlerFits, ScorerFits
<1>7. StartFits'
  BY <1>1, <1>2 DEF SoloOK, StartFits
<1>8. ScoredOnce'
  BY <1>1, <1>2 DEF SoloOK, ScoredOnce, NoRescoring, Live, Unscored
<1> QED
  BY <1>3, <1>4, <1>5, <1>6, <1>7, <1>8 DEF SoloOK

(* The coming and going of players leaves the game alone.                   *)
LEMMA PlayerFrame ==
  ASSUME PlayerStep \/ (\E p \in Players : FinishJoin(p)) \/ UNCHANGED vars
  PROVE  UNCHANGED <<status, quizVars, currentQuiz, timer, scoringTask, timerTask, startTask, view, passes, broke,
                      scoringStatus, scoringCount>>
BY DEF PlayerStep, Kick, DropInGame, LeaveLobby, Reconnect, BeginJoin, FinishJoin, vars, redisVars, roomVars, quizVars,
       lockVars, memoryVars, timerTask, scoringTask, startTask, history

LEMMA PlayerSolo ==
  ASSUME SoloOK, UNCHANGED <<status, quizVars, currentQuiz, timer, scoringTask, timerTask, startTask, view, passes>>
  PROVE  SoloOK'
<1>1. UNCHANGED <<status, quizSet, registered, answer, currentQuiz, timer, spc, snum, tpc, local, gpc, gwas, view, passes>>
  BY DEF quizVars, scoringTask, timerTask, startTask
<1>2. /\ Num' = Num /\ Seen' = Seen /\ (Asked(Num)' <=> Asked(Num)) /\ (Between(Num)' <=> Between(Num))
      /\ (\A n : QuizAt(n)' = QuizAt(n)) /\ (\A q : StoredAnswer(q)' = StoredAnswer(q))
      /\ Handler' = Handler /\ Scorer' = Scorer /\ Mine' = Mine /\ LastAsked' = LastAsked /\ (Live' <=> Live)
      /\ (Unscored' <=> Unscored) /\ (Starting' <=> Starting)
  BY <1>1 DEF Num, Seen, Asked, Between, StoredAnswer, QuizAt, Handler, Scorer, Mine, LastAsked, Live, Unscored, Starting
<1>3. OneAtATime' /\ QuizzesDealt'
  BY <1>1, <1>2 DEF SoloOK, OneAtATime, QuizzesDealt, Index
<1>4. TimerFits' /\ ScorerFits' /\ StartFits' /\ ScoredOnce'
  BY <1>1, <1>2 DEF SoloOK, TimerFits, ScorerFits, StartFits, ScoredOnce, NoRescoring
<1>5. HandlerFits'
  BY <1>1, <1>2 DEF SoloOK, HandlerFits, Asked
<1> QED
  BY <1>3, <1>4, <1>5 DEF SoloOK

LEMMA InitSolo == Init /\ Solo => SoloOK
<1> SUFFICES ASSUME Init, Solo PROVE SoloOK
  OBVIOUS
<1>1. /\ status = "waiting" /\ timer = NoTimer /\ Handler = "idle" /\ Scorer = "idle" /\ Seen = Lobby
      /\ (\A r \in Requests : gpc[r] = "idle") /\ \A n \in QuizNums : passes[n] = 0
  BY WASAssumption DEF Init, Solo, Handler, Scorer, Seen
<1> QED
  BY <1>1 DEF SoloOK, OneAtATime, QuizzesDealt, TimerFits, HandlerFits, ScorerFits, StartFits, ScoredOnce, NoRescoring,
              Live, Starting

LEMMA SoloInvariant ==
  ASSUME TypeOK, TypeOK', Solo, SoloOK, QuizSetStored, [Next]_vars
  PROVE  SoloOK'
<1>a. TheWAS \in WAS /\ \A w \in WAS : w = TheWAS
  BY SoloTypes
<1>1. ASSUME NEW r \in Requests, RequestStart(r) \/ StartStep(r) PROVE SoloOK'
  BY <1>1, RequestSolo, StartSolo
<1>2. ASSUME NEW w \in WAS, TimerStep(w) PROVE SoloOK'
  <2>1. TimerStep(TheWAS)
    BY <1>a, <1>2
  <2> QED
    BY <2>1, GetSolo, ReadQuizSolo, LockSolo, GradeSolo, AwardSolo, PublishSolo, UnlockSolo, CheckEndSolo, ReviveSolo,
       EndGameSolo, ReadNextSolo, StoreSolo, SetQuizStartSolo, ArmQuizSolo DEF TimerStep
<1>3. ASSUME NEW w \in WAS, NEW h \in WAS, ScoringStep(w, h) PROVE SoloOK'
  <2>1. ScoringStep(TheWAS, TheWAS)
    BY <1>a, <1>3
  <2> QED
    BY <2>1, CountSolo, ResultsSolo, SetQuizEndSolo, ArmResultSolo DEF ScoringStep
<1>4. ASSUME NEW w \in WAS, Restart(w) PROVE SoloOK'
  BY <1>a, <1>4, RestartSolo
<1>5. CASE PlayerStep \/ (\E p \in Players : FinishJoin(p)) \/ UNCHANGED vars
  BY <1>5, PlayerFrame, PlayerSolo
<1> QED
  BY <1>1, <1>2, <1>3, <1>4, <1>5, ExpireSolo DEF Next, Rest

(* The game follows its course, for every value of the constants.           *)
LEMMA SoloHolds == ASSUME Solo PROVE Spec => [](TypeOK /\ QuizSetStored /\ SoloOK)
<1>1. Init => QuizSetStored /\ SoloOK
  BY InitSolo DEF Init, QuizSetStored
<1>2. TypeOK /\ TypeOK' /\ SoloOK /\ QuizSetStored /\ [Next]_vars => SoloOK' /\ QuizSetStored'
  BY SoloInvariant, StoredInvariant
<1> QED
  BY <1>1, <1>2, TypeCorrect, PTL DEF Spec

-----------------------------------------------------------------------------
(* What it means for the players                                            *)

(* With one WAS no quiz is scored twice: the lock that several WAS slip     *)
(* past one after the other is not even needed.                             *)
THEOREM SoloScoresOnce == ASSUME Solo PROVE Spec => []NoRescoring
<1>1. SoloOK => NoRescoring
  BY DEF SoloOK, ScoredOnce
<1> QED
  BY <1>1, SoloHolds, PTL

(* A handler finds the current quiz in the state its timer was armed for.   *)
THEOREM SoloExpiryMatches == ASSUME Solo PROVE Spec => []ExpiryMatchesState
<1>1. TypeOK /\ SoloOK => ExpiryMatchesState
  <2> SUFFICES ASSUME TypeOK, SoloOK, NEW w \in WAS
               PROVE  /\ tpc[w] \in {"readQuiz", "lock"} \cup Critical => local[w].ticket = Armed("quiz", local[w].num)
                      /\ tpc[w] = "checkEnd" => local[w].ticket \in {Armed("intro", local[w].num),
                                                                    Armed("result", local[w].num)}
    BY DEF ExpiryMatchesState
  <2>1. w = TheWAS
    BY SoloTypes
  <2> QED
    BY <2>1 DEF SoloOK, HandlerFits, Handler, Mine, Critical
<1> QED
  BY <1>1, SoloHolds, PTL

(* The positions of the players are graded against the shuffle they saw.    *)
THEOREM SoloGradesAsShown == ASSUME Solo PROVE Spec => []GradedAsShown
<1>1. TypeOK /\ SoloOK => GradedAsShown
  <2> SUFFICES ASSUME TypeOK, SoloOK, NEW w \in WAS, NEW x \in WAS, tpc[w] \in {"grade", "award"}
               PROVE  view[x] = View("question", local[w].num, local[w].ans)
    BY DEF GradedAsShown
  <2>1. w = TheWAS /\ x = TheWAS
    BY SoloTypes
  <2> QED
    BY <2>1 DEF SoloOK, HandlerFits, Handler, Mine, Asked, Seen
<1> QED
  BY <1>1, SoloHolds, PTL

(* The players' screen changes in six steps only.                           *)
LEMMA ScreenSteps ==
  ASSUME TypeOK, TypeOK', Solo, SoloOK, [Next]_vars
  PROVE  \/ Seen' = Seen
         \/ Seen = Lobby /\ Seen' = View("start", -1, 0)
         \/ Seen.event \in {"start", "result"} /\ Seen' = Lobby
         \/ /\ Seen.event \in {"start", "result"} /\ Seen.num + 1 < QuizCount
            /\ Seen'.event = "question" /\ Seen'.num = Seen.num + 1
         \/ Seen.event = "question" /\ Seen' = [Seen EXCEPT !.event = "result"]
<1>a. TheWAS \in WAS /\ (\A w \in WAS : w = TheWAS) /\ view \in [WAS -> Views]
  BY SoloTypes
<1>1. ASSUME NEW r \in Requests, RequestStart(r) \/ StartStep(r)
      PROVE  Seen' = Seen \/ (Seen = Lobby /\ Seen' = View("start", -1, 0))
  <2>1. CASE AnnounceGame(r)
    <3>1. Seen' = View("start", -1, 0) /\ gpc[r] = "play"
      BY <1>a, <2>1 DEF AnnounceGame, GoStart, Seen
    <3> QED
      BY <3>1 DEF SoloOK, OneAtATime, StartFits
  <2> QED
    BY <1>1, <2>1 DEF RequestStart, StartStep, ClearQuizzes, RegisterQuizzes, ResetLeaderboard, ResetCurrentQuiz,
                      ArmIntroTimer, history, Seen
<1>2. ASSUME NEW w \in WAS, TimerStep(w)
      PROVE  \/ Seen' = Seen
             \/ Seen.event \in {"start", "result"} /\ Seen' = Lobby
             \/ /\ Seen.event \in {"start", "result"} /\ Seen.num + 1 < QuizCount
                /\ Seen'.event = "question" /\ Seen'.num = Seen.num + 1
  <2>0. TimerStep(TheWAS)
    BY <1>a, <1>2
  <2>1. CASE EndGame(TheWAS)
    <3>1. Seen' = Lobby /\ Handler = "endGame"
      BY <1>a, <2>1 DEF EndGame, EndTimer, GoTimer, Handler, Seen
    <3> QED
      BY <3>1 DEF SoloOK, HandlerFits
  <2>2. CASE StoreAnswer(TheWAS)
    <3>1. Handler = "store" /\ Seen'.event = "question" /\ Seen'.num = Mine.num
      BY <1>a, <2>2 DEF StoreAnswer, GoTimer, Handler, Seen, Mine, View
    <3>2. Mine.num = Num + 1 /\ Mine.num < QuizCount /\ Between(Num)
      BY <3>1 DEF SoloOK, HandlerFits
    <3>3. Seen.event \in {"start", "result"} /\ Seen.num = Num
      BY <3>2 DEF Between, View
    <3> QED
      BY <3>1, <3>2, <3>3
  <2> QED
    BY <2>0, <2>1, <2>2 DEF TimerStep, GetCurrentQuiz, ReadQuiz, TakeScoringLock, MissScoringLock, Grade, Award,
       PublishScoring, ReleaseScoringLock, CheckEnd, Revive, ReadNext, SetQuizStart, ArmQuizTimer, EndTimer, history, Seen
<1>3. ASSUME NEW w \in WAS, NEW h \in WAS, ScoringStep(w, h)
      PROVE  Seen' = Seen \/ (Seen.event = "question" /\ Seen' = [Seen EXCEPT !.event = "result"])
  <2>0. ScoringStep(TheWAS, TheWAS)
    BY <1>a, <1>3
  <2>1. CASE AnnounceResults(TheWAS, TheWAS)
    <3>1. Scorer = "results" /\ Seen' = View("result", Num, StoredAnswer(QuizAt(Num)))
      BY <1>a, <2>1 DEF AnnounceResults, GoScoring, Scorer, Seen, Num
    <3>2. Seen = View("question", Num, StoredAnswer(QuizAt(Num)))
      BY <3>1 DEF SoloOK, ScorerFits, Asked
    <3> QED
      BY <3>1, <3>2 DEF View
  <2> QED
    BY <2>0, <2>1 DEF ScoringStep, CountClients, ScoringComplete, ScoringIncomplete, SetQuizEnd, ArmResultTimer,
       ResetScoringCount, history, Seen
<1>4. ASSUME NEW w \in WAS, Restart(w) PROVE Seen' = Seen
  BY <1>4 DEF Restart, Seen
<1>5. CASE PlayerStep \/ (\E p \in Players : FinishJoin(p)) \/ UNCHANGED vars
  BY <1>5, PlayerFrame DEF Seen
<1>6. CASE ExpireTimer
  BY <1>6 DEF ExpireTimer, history, Seen
<1> QED
  BY <1>1, <1>2, <1>3, <1>4, <1>5, <1>6 DEF Next, Rest

(* The result that is announced for a quiz names the place the right choice *)
(* had in the list the players were sent.                                   *)
THEOREM SoloResultAsShown == ASSUME Solo PROVE Spec => ResultAsShown
<1>1. TypeOK /\ TypeOK' /\ SoloOK /\ [Next]_vars =>
        [\A w \in WAS : view'[w] # view[w] /\ view'[w].event = "result" =>
           view[w] = [view'[w] EXCEPT !.event = "question"]]_view
  <2> SUFFICES ASSUME TypeOK, TypeOK', SoloOK, [Next]_vars, NEW w \in WAS, view'[w] # view[w],
                      view'[w].event = "result"
               PROVE  view[w] = [view'[w] EXCEPT !.event = "question"]
    OBVIOUS
  <2>1. w = TheWAS /\ Seen \in Views
    BY SoloTypes
  <2>2. Seen' # Seen /\ Seen'.event = "result"
    BY <2>1 DEF Seen
  <2>3. Seen.event = "question" /\ Seen' = [Seen EXCEPT !.event = "result"]
    BY <2>2, ScreenSteps DEF Lobby, View
  <2>4. Seen = [Seen' EXCEPT !.event = "question"]
    BY <2>1, <2>3 DEF Views
  <2> QED
    BY <2>1, <2>4 DEF Seen
<1> QED
  BY <1>1, SoloHolds, PTL DEF ResultAsShown, Spec

(* The room implements the show, step by step: a game begins in the lobby,  *)
(* asks the quizzes one by one in order, each followed by its own result,   *)
(* QuizCount of them at most, and ends after a result or before the first   *)
(* question.  (That it ends is left to the model checker.)                  *)
THEOREM SoloIsShow == ASSUME Solo PROVE Spec => Show!ShowInit /\ [][Show!ShowNext]_(Show!showVars)
<1>1. Init => Show!ShowInit
  BY WASAssumption DEF Init, Show!ShowInit, Lobby, View, Solo
<1>2. TypeOK /\ TypeOK' /\ SoloOK /\ [Next]_vars => [Show!ShowNext]_(Show!showVars)
  <2> SUFFICES ASSUME TypeOK, TypeOK', SoloOK, [Next]_vars PROVE [Show!ShowNext]_(Show!showVars)
    OBVIOUS
  <2>1. Seen \in Views
    BY SoloTypes
  <2>2. CASE Seen' = Seen
    BY <2>2 DEF Show!showVars, Seen
  <2>3. CASE Seen = Lobby /\ Seen' = View("start", -1, 0)
    BY <2>3 DEF Show!ShowNext, Show!Begin, Seen, Lobby, View
  <2>4. CASE Seen.event \in {"start", "result"} /\ Seen' = Lobby
    BY <2>4 DEF Show!ShowNext, Show!End, Seen, Lobby, View
  <2>5. CASE /\ Seen.event \in {"start", "result"} /\ Seen.num + 1 < QuizCount
             /\ Seen'.event = "question" /\ Seen'.num = Seen.num + 1
    BY <2>5 DEF Show!ShowNext, Show!Ask, Seen
  <2>6. CASE Seen.event = "question" /\ Seen' = [Seen EXCEPT !.event = "result"]
    <3>1. Seen'.event = "result" /\ Seen'.num = Seen.num
      BY <2>1, <2>6 DEF Views
    <3> QED
      BY <2>6, <3>1 DEF Show!ShowNext, Show!Reveal, Seen
  <2> QED
    BY <2>2, <2>3, <2>4, <2>5, <2>6, ScreenSteps
<1> QED
  BY <1>1, <1>2, SoloHolds, PTL DEF Spec

(* Only startGame moves the room back to an earlier quiz.                   *)
THEOREM SoloNumMonotone == ASSUME Solo PROVE Spec => QuizNumMonotone
<1>1. TypeOK /\ TypeOK' /\ SoloOK /\ [Next]_vars => [gpc' = gpc => currentQuiz'.num >= currentQuiz.num]_currentQuiz
  <2> SUFFICES ASSUME TypeOK, TypeOK', SoloOK, [Next]_vars, gpc' = gpc, currentQuiz' # currentQuiz
               PROVE  currentQuiz'.num >= currentQuiz.num
    OBVIOUS
  <2>a. TheWAS \in WAS /\ (\A w \in WAS : w = TheWAS) /\ currentQuiz.num \in Int /\ currentQuiz'.num \in Int
    BY SoloTypes DEF TypeOK, RedisOK, QuizNums, Num
  <2>1. ASSUME NEW w \in WAS, TimerStep(w) PROVE currentQuiz'.num >= currentQuiz.num
    <3>1. SetQuizStart(TheWAS)
      BY <2>a, <2>1 DEF TimerStep, GetCurrentQuiz, ReadQuiz, TakeScoringLock, MissScoringLock, Grade, Award,
         PublishScoring, ReleaseScoringLock, CheckEnd, Revive, EndGame, ReadNext, StoreAnswer, ArmQuizTimer, redisVars
    <3>2. Handler = "setCurrent" /\ currentQuiz'.num = Mine.num
      BY <3>1 DEF SetQuizStart, GoTimer, Handler, Mine
    <3> QED
      BY <2>a, <3>2 DEF SoloOK, HandlerFits, Num
  <2>2. ASSUME NEW w \in WAS, NEW h \in WAS, ScoringStep(w, h) PROVE currentQuiz'.num >= currentQuiz.num
    <3>1. SetQuizEnd(TheWAS, TheWAS)
      BY <2>a, <2>2 DEF ScoringStep, CountClients, ScoringComplete, ScoringIncomplete, AnnounceResults, ArmResultTimer,
         ResetScoringCount, redisVars
    <3>2. Scorer = "setEnd" /\ currentQuiz'.num = snum[TheWAS][TheWAS]
      BY <3>1 DEF SetQuizEnd, GoScoring, Scorer
    <3> QED
      BY <2>a, <3>2 DEF SoloOK, ScorerFits, Num
  <2>3. ASSUME NEW r \in Requests, RequestStart(r) \/ StartStep(r) PROVE FALSE
    <3>1. gpc[r] # gpc'[r]
      BY <2>3 DEF RequestStart, StartStep, ClearQuizzes, RegisterQuizzes, ResetLeaderboard, AnnounceGame,
                  ResetCurrentQuiz, ArmIntroTimer, GoStart, TypeOK, StartTaskOK
    <3> QED
      BY <3>1
  <2>4. ASSUME NEW w \in WAS, Restart(w) PROVE FALSE
    BY <2>4 DEF Restart, redisVars
  <2>5. CASE ExpireTimer
    BY <2>5 DEF ExpireTimer
  <2>6. CASE PlayerStep \/ (\E p \in Players : FinishJoin(p)) \/ UNCHANGED vars
    BY <2>6, PlayerFrame
  <2> QED
    BY <2>1, <2>2, <2>3, <2>4, <2>5, <2>6 DEF Next, Rest
<1> QED
  BY <1>1, SoloHolds, PTL DEF QuizNumMonotone, Spec

-----------------------------------------------------------------------------
(* The count of scored clients                                              *)

(* Between passes the count is 0.                                           *)
CountKept == ~broke /\ Scorer \in {"idle", "count"} => scoringCount = 0

(* A pass whose count falls short of the room would leave it behind; in a   *)
(* game that is driven none does, since nobody joins while handlers run.    *)
LEMMA CountInvariant ==
  ASSUME TypeOK, TypeOK', Solo, SoloOK, GameDriven, CountKept, [Next]_vars
  PROVE  CountKept'
<1> SUFFICES ASSUME ~broke', Scorer' \in {"idle", "count"} PROVE scoringCount' = 0
  BY DEF CountKept
<1>a. TheWAS \in WAS /\ (\A w \in WAS : w = TheWAS) /\ spc \in [WAS -> [WAS -> ScoringPCs]] /\ broke \in BOOLEAN
  BY SoloTypes DEF TypeOK, MemoryOK
<1>1. CASE UNCHANGED <<scoringCount, spc, broke>>
  BY <1>1 DEF CountKept, Scorer
<1>2. ASSUME NEW r \in Requests, RequestStart(r) \/ StartStep(r) PROVE scoringCount' = 0
  <2>1. UNCHANGED <<scoringCount, spc, broke>>
    BY <1>2 DEF RequestStart, StartStep, ClearQuizzes, RegisterQuizzes, ResetLeaderboard, AnnounceGame,
                ResetCurrentQuiz, ArmIntroTimer, redisVars, lockVars, scoringTask, history
  <2> QED
    BY <1>1, <2>1
<1>3. ASSUME NEW w \in WAS, TimerStep(w) PROVE scoringCount' = 0
  <2>1. CASE PublishScoring(TheWAS)
    <3>1. Handler = "publish" /\ UNCHANGED <<scoringCount, broke>>
      BY <2>1 DEF PublishScoring, GoTimer, Handler, redisVars, lockVars, history
    <3>2. Scorer = "idle"
      BY <3>1 DEF SoloOK, OneAtATime
    <3> QED
      BY <3>1, <3>2 DEF CountKept
  <2>2. CASE ~PublishScoring(TheWAS)
    <3>1. UNCHANGED <<scoringCount, spc, broke>>
      BY <1>a, <1>3, <2>2 DEF TimerStep, GetCurrentQuiz, ReadQuiz, TakeScoringLock, MissScoringLock, Grade, Award,
         ReleaseScoringLock, CheckEnd, Revive, EndGame, ReadNext, StoreAnswer, SetQuizStart, ArmQuizTimer, EndTimer,
         redisVars, lockVars, scoringTask, history
    <3> QED
      BY <1>1, <3>1
  <2> QED
    BY <2>1, <2>2
<1>4. ASSUME NEW w \in WAS, NEW h \in WAS, ScoringStep(w, h) PROVE scoringCount' = 0
  <2>0. ScoringStep(TheWAS, TheWAS)
    BY <1>a, <1>4
  <2>1. CASE ResetScoringCount(TheWAS, TheWAS)
    BY <2>1 DEF ResetScoringCount
  <2>2. CASE ScoringIncomplete(TheWAS, TheWAS)
    <3>1. Scorer = "compare" /\ ~EverybodyCounted(TheWAS, TheWAS) /\ broke' = broke
      BY <2>2 DEF ScoringIncomplete, EndScoring, GoScoring, Scorer, history
    <3>2. status = "playing" /\ timer = NoTimer /\ \A r \in Requests : gpc[r] = "idle"
      BY <3>1 DEF SoloOK, OneAtATime, Live, Starting, TypeOK, RedisOK
    <3>3. EverybodyCounted(TheWAS, TheWAS)
      BY <1>a, <3>1, <3>2 DEF GameDriven, Driven, Scorer
    <3> QED
      BY <3>1, <3>3
  <2>3. CASE CountClients(TheWAS, TheWAS)
    BY <1>a, <2>3 DEF CountClients, GoScoring, Scorer
  <2>4. CASE \/ ScoringComplete(TheWAS, TheWAS) \/ AnnounceResults(TheWAS, TheWAS) \/ SetQuizEnd(TheWAS, TheWAS)
             \/ ArmResultTimer(TheWAS, TheWAS)
    BY <1>a, <2>4 DEF ScoringComplete, AnnounceResults, SetQuizEnd, ArmResultTimer, GoScoring, Scorer
  <2> QED
    BY <2>0, <2>1, <2>2, <2>3, <2>4 DEF ScoringStep
<1>5. ASSUME NEW w \in WAS, Restart(w) PROVE scoringCount' = 0
  <2>1. ~Busy(TheWAS) /\ ~broke /\ scoringCount' = scoringCount
    BY <1>a, <1>5 DEF Restart, redisVars, lockVars
  <2>2. Scorer = "idle"
    BY <1>a, <2>1 DEF Busy, Scorer
  <2> QED
    BY <2>1, <2>2 DEF CountKept
<1>6. CASE PlayerStep \/ (\E p \in Players : FinishJoin(p)) \/ UNCHANGED vars
  BY <1>1, <1>6, PlayerFrame DEF scoringTask
<1>7. CASE ExpireTimer
  BY <1>1, <1>7 DEF ExpireTimer, lockVars, scoringTask, history
<1> QED
  BY <1>2, <1>3, <1>4, <1>5, <1>6, <1>7 DEF Next, Rest

(* What one quiz counted never leaks into the next one.                     *)
THEOREM SoloCountSettles == ASSUME Solo PROVE Spec => []ScoringCountSettles
<1>1. Init => CountKept
  BY DEF Init, CountKept
<1>2. TypeOK /\ TypeOK' /\ SoloOK /\ GameDriven /\ CountKept /\ [Next]_vars => CountKept'
  BY CountInvariant
<1>3. TypeOK /\ CountKept => ScoringCountSettles
  BY SoloTypes DEF CountKept, ScoringCountSettles, Quiet, Scorer
<1> QED
  BY <1>1, <1>2, <1>3, GameAlwaysDriven, SoloHolds, PTL DEF Spec

-----------------------------------------------------------------------------
(* The dead                                                                 *)

(* While nobody comes or goes in the first game, the memory of the WAS has  *)
(* exactly the players that are dead in Redis, until the end revives them.  *)
DeadKept ==
  /\ games = 0 => status = "waiting" /\ ~Starting
  /\ churn = 0 => \A p \in Players : joining[p] = None
  /\ games <= 1 /\ churn = 0 /\ crashes = 0 =>
       /\ Handler = "award" => Mine.wrong \subseteq roomPlayers
       /\ \/ status = "waiting" /\ games = 1 /\ ~Starting
          \/ Handler = "endGame"
          \/ dead[TheWAS] = {p \in roomPlayers : ~alive[p]}

(* Steps that touch neither the players nor the dead.                       *)
LEMMA DeadFrame ==
  ASSUME TypeOK, SoloOK, DeadKept, UNCHANGED <<status, gpc, games, churn, crashes, joining, roomPlayers, alive, dead>>,
         Handler' = "award" => Handler = "award" /\ Mine' = Mine, Handler # "endGame"
  PROVE  DeadKept'
BY DEF DeadKept, Starting

LEMMA DeadInvariant ==
  ASSUME TypeOK, TypeOK', Solo, SoloOK, DeadKept, [Next]_vars
  PROVE  DeadKept'
<1>a. /\ TheWAS \in WAS /\ (\A w \in WAS : w = TheWAS) /\ tpc \in [WAS -> TimerPCs] /\ local \in [WAS -> Locals]
      /\ dead \in [WAS -> SUBSET Players] /\ alive \in [Players -> BOOLEAN] /\ roomPlayers \in SUBSET Players
      /\ games \in Nat /\ churn \in Nat /\ crashes \in Nat /\ gpc \in [Requests -> StartPCs]
  BY SoloTypes, BoundsAssumption DEF TypeOK, MemoryOK, RedisOK, StartTaskOK
<1>1. ASSUME NEW r \in Requests, RequestStart(r) PROVE DeadKept'
  <2>1. /\ status = "waiting" /\ ~Starting /\ games' = games + 1
        /\ UNCHANGED <<churn, crashes, joining, roomPlayers, alive, dead, tpc, local>>
    BY <1>1 DEF RequestStart, Starting, Solo, redisVars, memberVars, memoryVars, timerTask, bounds
  <2>2. ~Live
    BY <2>1 DEF SoloOK, OneAtATime
  <2> QED
    BY <1>a, <2>1, <2>2 DEF DeadKept, Live, Handler
<1>2. ASSUME NEW r \in Requests, StartStep(r) PROVE DeadKept'
  <2>1. Starting /\ Handler = "idle" /\ UNCHANGED <<games, churn, crashes, joining, roomPlayers, alive, dead, tpc>>
    BY <1>2 DEF StartStep, ClearQuizzes, RegisterQuizzes, ResetLeaderboard, AnnounceGame, ResetCurrentQuiz,
                ArmIntroTimer, GoStart, Starting, SoloOK, OneAtATime, Live, redisVars, memberVars, memoryVars, timerTask, bounds
  <2> QED
    BY <2>1 DEF DeadKept, Handler
<1>3. ASSUME NEW w \in WAS, TimerStep(w) PROVE DeadKept'
  <2>0. TimerStep(TheWAS)
    BY <1>a, <1>3
  <2> USE DEF redisVars, roomVars, memberVars, memoryVars, startTask, bounds
  <2>1. CASE Award(TheWAS)
    <3>1. /\ Handler = "award" /\ Handler' = "publish"
          /\ UNCHANGED <<status, gpc, games, churn, crashes, joining, roomPlayers>>
      BY <1>a, <2>1 DEF Award, GoTimer, Handler
    <3>2. CASE AwardRanking(TheWAS)
      BY <3>1, <3>2, DeadFrame DEF AwardRanking
    <3>3. CASE AwardSurvival(TheWAS)
      <4>1. /\ dead'[TheWAS] = dead[TheWAS] \cup Mine.wrong
            /\ \A p \in Players : alive'[p] = (alive[p] /\ p \notin Mine.wrong)
        BY <1>a, <3>3 DEF AwardSurvival, Mine
      <4>2. status # "waiting" /\ games # 0
        BY <3>1 DEF SoloOK, OneAtATime, Live, DeadKept
      <4>3. ASSUME games <= 1, churn = 0, crashes = 0
            PROVE  dead'[TheWAS] = {p \in roomPlayers : ~alive'[p]}
        <5>1. Mine.wrong \subseteq roomPlayers /\ dead[TheWAS] = {p \in roomPlayers : ~alive[p]}
          BY <3>1, <4>2, <4>3 DEF DeadKept
        <5> QED
          BY <1>a, <4>1, <5>1
      <4> QED
        BY <3>1, <4>2, <4>3 DEF DeadKept
    <3> QED
      BY <2>1, <3>2, <3>3 DEF Award
  <2>2. CASE Grade(TheWAS)
    <3>1. /\ Handler = "grade" /\ Handler' = "award" /\ Mine'.wrong \subseteq roomPlayers
          /\ UNCHANGED <<status, gpc, games, churn, crashes, joining, roomPlayers, alive, dead>>
      <4>1. PICK right : local' = [local EXCEPT ![TheWAS].clients = roomPlayers, ![TheWAS].correct = right,
                                     ![TheWAS].wrong = {p \in roomPlayers : alive[p]} \ right]
        BY <2>2 DEF Grade
      <4>2. Mine'.wrong = {p \in roomPlayers : alive[p]} \ right
        BY <1>a, <4>1 DEF Mine, Locals
      <4> QED
        BY <1>a, <2>2, <4>2 DEF Grade, GoTimer, Handler
    <3> QED
      BY <3>1 DEF DeadKept, Starting
  <2>3. CASE Revive(TheWAS)
    <3>1. /\ Handler = "revive" /\ Handler' = "endGame"
          /\ UNCHANGED <<status, gpc, games, churn, crashes, joining>>
      BY <1>a, <2>3 DEF Revive, GoTimer, Handler
    <3> QED
      BY <3>1 DEF DeadKept, Starting
  <2>4. CASE EndGame(TheWAS)
    <3>1. /\ Handler = "endGame" /\ Handler' = "idle" /\ status' = "waiting"
          /\ UNCHANGED <<gpc, games, churn, crashes, joining>>
      BY <1>a, <2>4 DEF EndGame, EndTimer, GoTimer, Handler
    <3>2. status # "waiting" /\ ~Starting
      BY <3>1 DEF SoloOK, OneAtATime, Live
    <3> QED
      BY <1>a, <3>1, <3>2 DEF DeadKept, Starting
  <2>5. CASE \/ GetCurrentQuiz(TheWAS) \/ ReadQuiz(TheWAS) \/ TakeScoringLock(TheWAS) \/ MissScoringLock(TheWAS)
             \/ PublishScoring(TheWAS) \/ ReleaseScoringLock(TheWAS) \/ CheckEnd(TheWAS) \/ ReadNext(TheWAS)
             \/ StoreAnswer(TheWAS) \/ SetQuizStart(TheWAS) \/ ArmQuizTimer(TheWAS)
    <3>1. /\ Handler # "endGame" /\ Handler' # "award"
          /\ UNCHANGED <<status, gpc, games, churn, crashes, joining, roomPlayers, alive, dead>>
      BY <1>a, <2>5 DEF GetCurrentQuiz, ReadQuiz, TakeScoringLock, MissScoringLock, PublishScoring, ReleaseScoringLock,
         CheckEnd, ReadNext, StoreAnswer, SetQuizStart, ArmQuizTimer, EndTimer, GoTimer, Handler
    <3> QED
      BY <3>1, DeadFrame
  <2> QED
    BY <2>0, <2>1, <2>2, <2>3, <2>4, <2>5 DEF TimerStep
<1>4. ASSUME NEW w \in WAS, NEW h \in WAS, ScoringStep(w, h) PROVE DeadKept'
  <2>1. ScoringStep(TheWAS, TheWAS)
    BY <1>a, <1>4
  <2>2. Scorer # "idle" /\ UNCHANGED <<status, gpc, games, churn, crashes, joining, roomPlayers, alive, dead, tpc, local>>
    BY <2>1 DEF ScoringStep, CountClients, ScoringComplete, ScoringIncomplete, AnnounceResults, SetQuizEnd, ArmResultTimer,
       ResetScoringCount, GoScoring, EndScoring, Scorer, redisVars, roomVars, memberVars, memoryVars, startTask, bounds, timerTask
  <2>3. Handler # "endGame" /\ Handler' = Handler /\ Mine' = Mine
    BY <2>2 DEF SoloOK, OneAtATime, Handler, Mine
  <2> QED
    BY <2>2, <2>3, DeadFrame
<1>5. ASSUME NEW w \in WAS, Restart(w) PROVE DeadKept'
  <2>1. /\ crashes' # 0 /\ UNCHANGED <<status, games, churn>>
        /\ \A r \in Requests : gpc'[r] = "idle" \/ gpc'[r] = gpc[r]
        /\ \A p \in Players : joining'[p] = None \/ joining'[p] = joining[p]
    BY <1>a, <1>5 DEF Restart, redisVars, roomVars
  <2> QED
    BY <2>1 DEF DeadKept, Starting
<1>6. CASE PlayerStep
  <2>1. churn' # 0 /\ UNCHANGED <<status, gpc, games>>
    BY <1>a, <1>6 DEF PlayerStep, Kick, DropInGame, LeaveLobby, Reconnect, BeginJoin, Churn, redisVars, roomVars, startTask
  <2> QED
    BY <2>1 DEF DeadKept, Starting
<1>7. ASSUME NEW p \in Players, FinishJoin(p) PROVE DeadKept'
  <2>1. joining[p] # None /\ UNCHANGED <<status, gpc, games, churn>>
    BY <1>7 DEF FinishJoin, roomVars, startTask, bounds
  <2> QED
    BY <2>1 DEF DeadKept, Starting
<1>8. CASE ExpireTimer
  <2>1. /\ Handler = "idle" /\ Handler' = "get"
        /\ UNCHANGED <<status, gpc, games, churn, crashes, joining, roomPlayers, alive, dead>>
    BY <1>a, <1>8 DEF ExpireTimer, Quiet, Handler, roomVars, memberVars, memoryVars, startTask, bounds
  <2> QED
    BY <2>1, DeadFrame
<1>9. CASE UNCHANGED vars
  BY <1>9 DEF DeadKept, Starting, Handler, Mine, vars, redisVars, roomVars, memberVars, memoryVars, startTask, timerTask, bounds
<1> QED
  BY <1>1, <1>2, <1>3, <1>4, <1>5, <1>6, <1>7, <1>8, <1>9 DEF Next, Rest

(* SURVIVAL: what the WAS remembers of the dead is what Redis says.         *)
THEOREM SoloDeadAgree == ASSUME Solo PROVE Spec => []DeadSetAgrees
<1>1. Init => DeadKept
  BY WASAssumption DEF Init, DeadKept, Starting, Handler, Solo
<1>2. TypeOK /\ TypeOK' /\ SoloOK /\ DeadKept /\ [Next]_vars => DeadKept'
  BY DeadInvariant
<1>3. TypeOK /\ SoloOK /\ DeadKept => DeadSetAgrees
  <2> SUFFICES ASSUME TypeOK, SoloOK, DeadKept, Quiet, games <= 1, churn = 0, crashes = 0, NEW w \in WAS,
                      view[w].event # "lobby"
               PROVE  dead[w] = {p \in roomPlayers : ~alive[p]}
    BY DEF DeadSetAgrees
  <2>1. w = TheWAS /\ Handler = "idle" /\ Seen # Lobby
    BY SoloTypes DEF Quiet, Handler, Seen, Lobby, View
  <2>2. status # "waiting"
    BY <2>1 DEF SoloOK, StartFits
  <2> QED
    BY <2>1, <2>2 DEF DeadKept
<1> QED
  BY <1>1, <1>2, <1>3, SoloHolds, PTL DEF Spec

-----------------------------------------------------------------------------
(* Sums over finite sets                                                    *)

(* Of finite sets, one has no smaller one among them.                       *)
LEMMA SmallestSet ==
  ASSUME NEW D, NEW B \in SUBSET FiniteSubsetsOf(D), B # {}
  PROVE  \E S \in B : \A T \in B : T \subseteq S => T = S
<1>1. PICK S \in B : \A T \in B : <<T, S>> \notin StrictSubsetOrdering(D)
  BY FS_StrictSubsetOrderingWellFounded, WFMin
<1>2. ASSUME NEW T \in B, T \subseteq S, T # S PROVE FALSE
  BY <1>1, <1>2 DEF StrictSubsetOrdering, FiniteSubsetsOf
<1> QED
  BY <1>2

(* The sums of f over the subsets of S, as SumFunctionOnSet folds them.     *)
Any(S) == CHOOSE x \in S : TRUE
Sums(g, S, f) == g = [s \in SUBSET S |-> IF s = {} THEN 0 ELSE f[Any(s)] + g[s \ {Any(s)}]]

(* They do not depend on the set whose subsets are summed.                  *)
LEMMA SumsAgree ==
  ASSUME NEW S, NEW T, NEW f, NEW g, NEW h, Sums(g, S, f), Sums(h, T, f),
         NEW u, u \subseteq S, u \subseteq T, IsFiniteSet(u)
  PROVE  g[u] = h[u]
<1> DEFINE B == {v \in FiniteSubsetsOf(u) : g[v] # h[v]}
<1> SUFFICES ASSUME B # {} PROVE FALSE
  BY DEF FiniteSubsetsOf
<1>1. PICK v \in B : \A t \in B : t \subseteq v => t = v
  <2>1. B \in SUBSET FiniteSubsetsOf(u)
    OBVIOUS
  <2> HIDE DEF B
  <2> QED
    BY <2>1, SmallestSet
<1>2. v \subseteq u /\ IsFiniteSet(v) /\ g[v] # h[v] /\ v \in SUBSET S /\ v \in SUBSET T
  BY DEF FiniteSubsetsOf
<1>3. v # {}
  BY <1>2 DEF Sums
<1> DEFINE w == v \ {Any(v)}
<1>4. Any(v) \in v
  BY <1>3 DEF Any
<1>5. w \subseteq v /\ w # v /\ w \subseteq u /\ IsFiniteSet(w)
  BY <1>2, <1>4, FS_Subset
<1>6. g[w] = h[w]
  BY <1>1, <1>5 DEF FiniteSubsetsOf
<1>7. g[v] = f[Any(v)] + g[w] /\ h[v] = f[Any(v)] + h[w]
  BY <1>2, <1>3 DEF Sums
<1> QED
  BY <1>2, <1>6, <1>7

(* The recursion over the subsets defines a function.                       *)
LEMMA SumsExists ==
  ASSUME NEW S, IsFiniteSet(S), NEW f
  PROVE  \E g : Sums(g, S, f)
<1> DEFINE B == {v \in FiniteSubsetsOf(S) : ~\E g : Sums(g, v, f)}
<1> SUFFICES ASSUME B # {} PROVE FALSE
  BY DEF FiniteSubsetsOf
<1>1. PICK v \in B : \A t \in B : t \subseteq v => t = v
  <2>1. B \in SUBSET FiniteSubsetsOf(S)
    OBVIOUS
  <2> HIDE DEF B
  <2> QED
    BY <2>1, SmallestSet
<1>2. v \subseteq S /\ IsFiniteSet(v) /\ ~\E g : Sums(g, v, f)
  BY DEF FiniteSubsetsOf
<1> DEFINE H(t) == CHOOSE h : Sums(h, t, f)
           Rem(t) == t \ {Any(t)}
           g == [s \in SUBSET v |-> IF s = {} THEN 0 ELSE f[Any(s)] + H(Rem(s))[Rem(s)]]
<1>3. ASSUME NEW t, t \subseteq v, t # v PROVE Sums(H(t), t, f) /\ IsFiniteSet(t)
  <2>1. t \in FiniteSubsetsOf(S) /\ t \notin B /\ IsFiniteSet(t)
    BY <1>1, <1>2, <1>3, FS_Subset DEF FiniteSubsetsOf
  <2>2. \E h : Sums(h, t, f)
    BY <2>1
  <2> QED
    BY <2>1, <2>2
<1>4. ASSUME NEW t, t \subseteq v, t # {} PROVE Rem(t) \subseteq t /\ Rem(t) # t /\ Rem(t) # v /\ Rem(t) \subseteq v
  BY <1>4 DEF Any
<1> HIDE DEF B, H, Rem
<1>5. ASSUME NEW t, t \subseteq v, t # v PROVE g[t] = H(t)[t]
  <2>1. Sums(H(t), t, f) /\ t \in SUBSET v /\ t \in SUBSET t
    BY <1>3, <1>5
  <2>2. CASE t = {}
    BY <2>1, <2>2 DEF Sums
  <2>3. CASE t # {}
    <3>1. H(t)[t] = f[Any(t)] + H(t)[Rem(t)]
      BY <2>1, <2>3 DEF Sums, Rem
    <3>2. H(t)[Rem(t)] = H(Rem(t))[Rem(t)]
      <4>1. Sums(H(Rem(t)), Rem(t), f) /\ IsFiniteSet(Rem(t)) /\ Rem(t) \subseteq t
        BY <1>3, <1>4, <1>5, <2>3
      <4> QED
        BY <2>1, <4>1, SumsAgree
    <3>3. g[t] = f[Any(t)] + H(Rem(t))[Rem(t)]
      BY <2>1, <2>3
    <3> QED
      BY <3>1, <3>2, <3>3
  <2> QED
    BY <2>2, <2>3
<1>6. g = [s \in SUBSET v |-> IF s = {} THEN 0 ELSE f[Any(s)] + g[Rem(s)]]
  <2>1. \A s \in SUBSET v : s # {} => H(Rem(s))[Rem(s)] = g[Rem(s)]
    BY <1>4, <1>5
  <2> HIDE DEF g
  <2>2. g = [s \in SUBSET v |-> IF s = {} THEN 0 ELSE f[Any(s)] + H(Rem(s))[Rem(s)]]
    BY DEF g
  <2> QED
    BY <2>1, <2>2
<1> HIDE DEF g
<1>7. Sums(g, v, f)
  BY <1>6 DEF Sums, Rem
<1> QED
  BY <1>2, <1>7

(* SumFunctionOnSet, one element after another.                             *)
LEMMA SumFolds ==
  ASSUME NEW S, IsFiniteSet(S), NEW f
  PROVE  /\ S = {} => SumFunctionOnSet(f, S) = 0
         /\ S # {} => SumFunctionOnSet(f, S) = f[Any(S)] + SumFunctionOnSet(f, S \ {Any(S)})
<1> DEFINE H(t) == CHOOSE h : Sums(h, t, f)
<1>1. \A t : SumFunctionOnSet(f, t) = H(t)[t]
  BY DEF SumFunctionOnSet, FoldFunctionOnSet, MapThenFoldSet, Sums, Any
<1>2. ASSUME NEW t, IsFiniteSet(t) PROVE Sums(H(t), t, f)
  BY <1>2, SumsExists
<1> HIDE DEF H
<1>3. Sums(H(S), S, f) /\ S \in SUBSET S
  BY <1>2
<1>4. S = {} => H(S)[S] = 0
  BY <1>3 DEF Sums
<1>5. ASSUME S # {} PROVE H(S)[S] = f[Any(S)] + H(S \ {Any(S)})[S \ {Any(S)}]
  <2>1. H(S)[S] = f[Any(S)] + H(S)[S \ {Any(S)}]
    BY <1>3, <1>5 DEF Sums
  <2>2. IsFiniteSet(S \ {Any(S)})
    BY FS_RemoveElement
  <2>3. H(S)[S \ {Any(S)}] = H(S \ {Any(S)})[S \ {Any(S)}]
    BY <1>2, <1>3, <2>2, SumsAgree
  <2> QED
    BY <2>1, <2>3
<1> QED
  BY <1>1, <1>4, <1>5

(* Sums of naturals are naturals.                                           *)
LEMMA SumType ==
  ASSUME NEW D, IsFiniteSet(D), NEW f \in [D -> Nat]
  PROVE  \A S \in SUBSET D : SumFunctionOnSet(f, S) \in Nat
<1> DEFINE B == {v \in FiniteSubsetsOf(D) : SumFunctionOnSet(f, v) \notin Nat}
<1>0. SUFFICES ASSUME B # {} PROVE FALSE
  <2>1. \A S \in SUBSET D : S \in FiniteSubsetsOf(D)
    BY FS_Subset DEF FiniteSubsetsOf
  <2> QED
    BY <2>1
<1>1. PICK v \in B : \A t \in B : t \subseteq v => t = v
  <2>1. B \in SUBSET FiniteSubsetsOf(D)
    OBVIOUS
  <2> HIDE DEF B
  <2> QED
    BY <1>0, <2>1, SmallestSet
<1>2. v \subseteq D /\ IsFiniteSet(v) /\ SumFunctionOnSet(f, v) \notin Nat
  BY DEF FiniteSubsetsOf
<1>3. v # {}
  <2>1. v = {} => SumFunctionOnSet(f, v) = 0
    BY <1>2, SumFolds
  <2> QED
    BY <1>2, <2>1
<1>4. Any(v) \in v /\ f[Any(v)] \in Nat
  BY <1>2, <1>3 DEF Any
<1>5. v \ {Any(v)} \notin B /\ v \ {Any(v)} \in FiniteSubsetsOf(D)
  BY <1>1, <1>2, <1>4, FS_Subset DEF FiniteSubsetsOf
<1>6. SumFunctionOnSet(f, v \ {Any(v)}) \in Nat
  BY <1>5
<1>7. SumFunctionOnSet(f, v) = f[Any(v)] + SumFunctionOnSet(f, v \ {Any(v)})
  BY <1>2, <1>3, SumFolds
<1> QED
  BY <1>2, <1>4, <1>6, <1>7

(* The order does not matter: any element may be taken first.               *)
LEMMA SumTake ==
  ASSUME NEW D, IsFiniteSet(D), NEW f \in [D -> Nat]
  PROVE  \A S \in SUBSET D : \A x \in S : SumFunctionOnSet(f, S) = f[x] + SumFunctionOnSet(f, S \ {x})
<1> DEFINE Takes(S) == \A x \in S : SumFunctionOnSet(f, S) = f[x] + SumFunctionOnSet(f, S \ {x})
           B == {v \in FiniteSubsetsOf(D) : ~Takes(v)}
<1>0. SUFFICES ASSUME B # {} PROVE FALSE
  <2>1. \A S \in SUBSET D : S \in FiniteSubsetsOf(D)
    BY FS_Subset DEF FiniteSubsetsOf
  <2> QED
    BY <2>1
<1>1. PICK v \in B : \A t \in B : t \subseteq v => t = v
  <2>1. B \in SUBSET FiniteSubsetsOf(D)
    OBVIOUS
  <2> HIDE DEF B
  <2> QED
    BY <1>0, <2>1, SmallestSet
<1>2. v \subseteq D /\ IsFiniteSet(v) /\ ~Takes(v)
  BY DEF FiniteSubsetsOf
<1>3. PICK x \in v : SumFunctionOnSet(f, v) # f[x] + SumFunctionOnSet(f, v \ {x})
  BY <1>2
<1> DEFINE y == Any(v)
<1>4. y \in v /\ SumFunctionOnSet(f, v) = f[y] + SumFunctionOnSet(f, v \ {y}) /\ y # x
  BY <1>2, <1>3, SumFolds DEF Any
<1> HIDE DEF y
<1>5. v \ {x} \in FiniteSubsetsOf(D) /\ v \ {y} \in FiniteSubsetsOf(D)
  BY <1>2, FS_Subset DEF FiniteSubsetsOf
<1>6. Takes(v \ {x}) /\ Takes(v \ {y})
  BY <1>1, <1>4, <1>5
<1>7. SumFunctionOnSet(f, v \ {x}) = f[y] + SumFunctionOnSet(f, (v \ {x}) \ {y})
  BY <1>4, <1>6
<1>8. SumFunctionOnSet(f, v \ {y}) = f[x] + SumFunctionOnSet(f, (v \ {y}) \ {x})
  BY <1>4, <1>6
<1>9. (v \ {y}) \ {x} = (v \ {x}) \ {y} /\ (v \ {x}) \ {y} \in SUBSET D
  BY <1>2
<1>10. SumFunctionOnSet(f, (v \ {x}) \ {y}) \in Nat /\ f[x] \in Nat /\ f[y] \in Nat
  BY <1>2, <1>4, <1>9, SumType
<1> DEFINE a == SumFunctionOnSet(f, (v \ {x}) \ {y})
           b == SumFunctionOnSet(f, v)
           c == SumFunctionOnSet(f, v \ {x})
           d == SumFunctionOnSet(f, v \ {y})
<1>11. a \in Nat /\ c = f[y] + a /\ d = f[x] + a /\ b = f[y] + d /\ b # f[x] + c
  BY <1>3, <1>4, <1>7, <1>8, <1>9, <1>10
<1> HIDE DEF a, b, c, d
<1> QED
  BY <1>10, <1>11

(* Zeros do not count.                                                      *)
LEMMA SumWithin ==
  ASSUME NEW D, IsFiniteSet(D), NEW f \in [D -> Nat], NEW R \in SUBSET D, \A x \in D \ R : f[x] = 0
  PROVE  SumFunctionOnSet(f, D) = SumFunctionOnSet(f, R)
<1> DEFINE B == {v \in FiniteSubsetsOf(D) : R \subseteq v /\ SumFunctionOnSet(f, v) # SumFunctionOnSet(f, R)}
<1>0. SUFFICES ASSUME B # {} PROVE FALSE
  BY DEF FiniteSubsetsOf
<1>1. PICK v \in B : \A t \in B : t \subseteq v => t = v
  <2>1. B \in SUBSET FiniteSubsetsOf(D)
    OBVIOUS
  <2> HIDE DEF B
  <2> QED
    BY <1>0, <2>1, SmallestSet
<1>2. v \subseteq D /\ IsFiniteSet(v) /\ R \subseteq v /\ SumFunctionOnSet(f, v) # SumFunctionOnSet(f, R)
  BY DEF FiniteSubsetsOf
<1>3. PICK x \in v : x \notin R
  BY <1>2
<1>4. v \ {x} \in FiniteSubsetsOf(D) /\ R \subseteq v \ {x} /\ v \ {x} # v /\ v \ {x} \subseteq D
  BY <1>2, <1>3, FS_Subset DEF FiniteSubsetsOf
<1>5. SumFunctionOnSet(f, v \ {x}) = SumFunctionOnSet(f, R)
  BY <1>1, <1>4
<1>6. SumFunctionOnSet(f, v) = f[x] + SumFunctionOnSet(f, v \ {x})
  BY <1>2, <1>3, SumTake
<1>7. f[x] = 0 /\ SumFunctionOnSet(f, v \ {x}) \in Nat
  BY <1>2, <1>3, <1>4, SumType
<1> QED
  BY <1>2, <1>5, <1>6, <1>7

(* When no term grows by more than k, and only those of C grow, the sum     *)
(* grows by k times their number at most.                                   *)
LEMMA SumGrows ==
  ASSUME NEW D, IsFiniteSet(D), NEW f \in [D -> Nat], NEW g \in [D -> Nat], NEW C \in SUBSET D, NEW k \in Nat,
         \A x \in D : g[x] <= f[x] + (IF x \in C THEN k ELSE 0)
  PROVE  SumFunctionOnSet(g, D) <= SumFunctionOnSet(f, D) + k * Cardinality(C)
<1> DEFINE Bound(v) == SumFunctionOnSet(g, v) <= SumFunctionOnSet(f, v) + k * Cardinality(C \cap v)
           B == {v \in FiniteSubsetsOf(D) : ~Bound(v)}
<1>0. SUFFICES ASSUME B # {} PROVE FALSE
  <2>1. D \in FiniteSubsetsOf(D) /\ C \cap D = C
    BY DEF FiniteSubsetsOf
  <2> QED
    BY <2>1
<1>1. PICK v \in B : \A t \in B : t \subseteq v => t = v
  <2>1. B \in SUBSET FiniteSubsetsOf(D)
    OBVIOUS
  <2> HIDE DEF B
  <2> QED
    BY <1>0, <2>1, SmallestSet
<1>2. v \subseteq D /\ IsFiniteSet(v) /\ ~Bound(v)
  BY DEF FiniteSubsetsOf
<1>3. v # {}
  <2>1. SumFunctionOnSet(g, {}) = 0 /\ SumFunctionOnSet(f, {}) = 0 /\ Cardinality(C \cap {}) = 0
    BY SumFolds, FS_EmptySet
  <2> QED
    BY <1>2, <2>1
<1>4. PICK x \in v : TRUE
  BY <1>3
<1> DEFINE w == v \ {x}
<1>5. w \in FiniteSubsetsOf(D) /\ w # v /\ w \subseteq v
  BY <1>2, FS_Subset DEF FiniteSubsetsOf
<1>6. Bound(w)
  BY <1>1, <1>5
<1>7. SumFunctionOnSet(g, v) = g[x] + SumFunctionOnSet(g, w) /\ SumFunctionOnSet(f, v) = f[x] + SumFunctionOnSet(f, w)
  BY <1>2, SumTake
<1>8. SumFunctionOnSet(g, w) \in Nat /\ SumFunctionOnSet(f, w) \in Nat /\ g[x] \in Nat /\ f[x] \in Nat
  BY <1>2, <1>5, SumType DEF FiniteSubsetsOf
<1>9. /\ IsFiniteSet(C \cap w) /\ Cardinality(C \cap w) \in Nat
      /\ Cardinality(C \cap v) = IF x \in C THEN Cardinality(C \cap w) + 1 ELSE Cardinality(C \cap w)
  <2>1. IsFiniteSet(C \cap w)
    BY <1>2, FS_Subset
  <2>2. x \in C => C \cap v = (C \cap w) \cup {x} /\ x \notin C \cap w
    OBVIOUS
  <2>3. x \notin C => C \cap v = C \cap w
    OBVIOUS
  <2> HIDE DEF w
  <2> QED
    BY <2>1, <2>2, <2>3, FS_AddElement, FS_CardinalityType
<1> DEFINE n == Cardinality(C \cap w)
           m == Cardinality(C \cap v)
           a == SumFunctionOnSet(g, w)
           b == SumFunctionOnSet(f, w)
<1>10. /\ n \in Nat /\ a \in Nat /\ b \in Nat /\ a <= b + k * n
       /\ m = IF x \in C THEN n + 1 ELSE n
       /\ ~(g[x] + a <= f[x] + b + k * m)
  BY <1>2, <1>6, <1>7, <1>8, <1>9
<1>11. g[x] <= f[x] + (IF x \in C THEN k ELSE 0)
  BY <1>2
<1> HIDE DEF n, m, a, b, w, Bound
<1>12. k * (n + 1) = k * n + k /\ k * n \in Nat
  BY <1>10
<1>13. CASE x \in C
  <2>1. m = n + 1 /\ g[x] <= f[x] + k
    BY <1>10, <1>11, <1>13
  <2>2. k * m = k * n + k
    BY <2>1, <1>12
  <2> DEFINE e == k * n
  <2> HIDE DEF e
  <2>3. e \in Nat /\ a <= b + e /\ ~(g[x] + a <= f[x] + b + (e + k))
    BY <1>10, <1>12, <2>2 DEF e
  <2> QED
    BY <1>8, <1>10, <2>1, <2>3
<1>14. CASE x \notin C
  <2>1. m = n /\ g[x] <= f[x] + 0
    BY <1>10, <1>11, <1>14
  <2> DEFINE e == k * n
  <2> HIDE DEF e
  <2>3. e \in Nat /\ a <= b + e /\ ~(g[x] + a <= f[x] + b + e)
    BY <1>10, <1>12, <2>1 DEF e
  <2> QED
    BY <1>8, <1>10, <2>1, <2>3
<1> QED
  BY <1>13, <1>14

(* What is shared is not more than there is.                                *)
LEMMA ShareOut ==
  ASSUME NEW n \in Nat, NEW c \in Nat \ {0}
  PROVE  n \div c \in Nat /\ (n \div c) * c <= n
OBVIOUS

-----------------------------------------------------------------------------
(* The points                                                               *)

(* Who is not ranked has no points, a game is announced with no points, and *)
(* the points of all the players are paid for by the quizzes scored.        *)
Paid == Cardinality({n \in QuizNums : passes[n] > 0})
PointsKept ==
  /\ \A p \in Players \ ranked : leaderboard[p] = 0
  /\ (\E r \in Requests : gpc[r] = "play") => \A p \in Players : leaderboard[p] = 0
  /\ mode = Ranking => SumFunctionOnSet(leaderboard, Players) <= Pot * Paid

(* The sums and products of which the invariant speaks are numbers.         *)
LEMMA PointsTypes ==
  ASSUME TypeOK
  PROVE  /\ IsFiniteSet({n \in QuizNums : passes[n] > 0}) /\ Paid \in Nat /\ Pot \in Nat /\ Pot * Paid \in Nat
         /\ IsFiniteSet(Players) /\ leaderboard \in [Players -> Nat] /\ ranked \in SUBSET Players
         /\ SumFunctionOnSet(leaderboard, Players) \in Nat
<1>1. Cardinality(QuizPool) \in Int /\ IsFiniteSet(QuizNums)
  <2>1. Cardinality(QuizPool) \in Nat
    BY QuizNumsType
  <2> DEFINE c == Cardinality(QuizPool)
  <2> HIDE DEF c
  <2>2. c \in Int /\ -1 \in Int /\ c - 1 \in Int
    BY <2>1 DEF c
  <2>3. IsFiniteSet(-1..(c - 1))
    BY <2>2, FS_Interval
  <2> QED
    BY <2>2, <2>3 DEF c, QuizNums
<1>2. IsFiniteSet({n \in QuizNums : passes[n] > 0})
  BY <1>1, FS_Subset
<1>3. Paid \in Nat /\ Pot \in Nat
  BY <1>2, FS_CardinalityType, BoundsAssumption DEF Paid
<1>4. Pot * Paid \in Nat
  BY <1>3
<1>5. IsFiniteSet(Players) /\ leaderboard \in [Players -> Nat] /\ ranked \in SUBSET Players
  BY PlayersAssumption DEF TypeOK, RedisOK
<1> QED
  BY <1>2, <1>3, <1>4, <1>5, SumType

(* Nobody has anything: nothing has to be paid for.                         *)
LEMMA NoPoints ==
  ASSUME TypeOK, \A p \in Players : leaderboard[p] = 0
  PROVE  SumFunctionOnSet(leaderboard, Players) = 0
<1>1. SumFunctionOnSet(leaderboard, Players) = SumFunctionOnSet(leaderboard, {})
  <2>1. {} \in SUBSET Players /\ \A p \in Players \ {} : leaderboard[p] = 0
    OBVIOUS
  <2> QED
    BY <2>1, SumWithin, PointsTypes
<1> QED
  BY <1>1, SumFolds, FS_EmptySet

(* A step after which nobody has more, and no quiz counts less.             *)
LEMMA PointsFrame ==
  ASSUME TypeOK, TypeOK', PointsKept, mode' = mode, passes' = passes,
         \A p \in Players : leaderboard'[p] <= leaderboard[p],
         \A p \in Players : p \notin ranked' => leaderboard'[p] = 0,
         \A r \in Requests : gpc'[r] = "play" => gpc[r] = "play" \/ \A p \in Players : leaderboard'[p] = 0
  PROVE  PointsKept'
<1>1. leaderboard \in [Players -> Nat] /\ leaderboard' \in [Players -> Nat] /\ IsFiniteSet(Players)
  BY PointsTypes, PlayersAssumption DEF TypeOK, RedisOK
<1>2. (\E r \in Requests : gpc'[r] = "play") => \A p \in Players : leaderboard'[p] = 0
  <2>1. (\E r \in Requests : gpc[r] = "play") => \A p \in Players : leaderboard'[p] = 0
    BY <1>1 DEF PointsKept
  <2> QED
    BY <2>1
<1>3. ASSUME mode = Ranking PROVE SumFunctionOnSet(leaderboard', Players) <= Pot * Paid'
  <2>1. SumFunctionOnSet(leaderboard', Players) <= SumFunctionOnSet(leaderboard, Players) + 0 * Cardinality({})
    <3>1. \A p \in Players : leaderboard'[p] <= leaderboard[p] + (IF p \in {} THEN 0 ELSE 0)
      BY <1>1
    <3>2. {} \in SUBSET Players /\ 0 \in Nat
      OBVIOUS
    <3> QED
      BY <1>1, <3>1, <3>2, SumGrows
  <2>2. Cardinality({}) = 0
    BY FS_EmptySet
  <2>3. SumFunctionOnSet(leaderboard, Players) \in Nat /\ SumFunctionOnSet(leaderboard', Players) \in Nat
    BY <1>1, SumType
  <2>4. Paid' = Paid /\ Pot * Paid \in Nat
    BY PointsTypes DEF Paid
  <2>5. SumFunctionOnSet(leaderboard, Players) <= Pot * Paid
    BY <1>3 DEF PointsKept
  <2> DEFINE a == SumFunctionOnSet(leaderboard', Players)
             b == SumFunctionOnSet(leaderboard, Players)
             c == Pot * Paid
  <2>6. a \in Nat /\ b \in Nat /\ c \in Nat /\ a <= b + 0 * 0 /\ b <= c
    BY <2>1, <2>2, <2>3, <2>4, <2>5
  <2>7. a <= c
    <3> HIDE DEF a, b, c
    <3> QED
      BY <2>6
  <2> QED
    BY <2>4, <2>7
<1> QED
  BY <1>2, <1>3 DEF PointsKept

(* What a quiz pays is at most the pot, and it had not paid before.         *)
LEMMA AwardPays ==
  ASSUME TypeOK, TypeOK', Solo, SoloOK, PointsKept, Award(TheWAS)
  PROVE  PointsKept'
<1>1. /\ Handler = "award" /\ mode' = mode /\ gpc' = gpc /\ Mine.num = Num /\ Num \in QuizNums
      /\ passes' = [passes EXCEPT ![Num] = @ + 1] /\ passes[Num] = 0 /\ passes \in [QuizNums -> Nat]
      /\ Mine.correct \in SUBSET Players /\ ~Starting
  <2>1. Handler = "award" /\ mode' = mode /\ gpc' = gpc /\ passes' = [passes EXCEPT ![Mine.num] = @ + 1]
    BY SoloTypes DEF Award, GoTimer, Handler, Mine, roomVars, startTask
  <2>2. Mine.num = Num /\ Live /\ ~Starting
    BY <2>1 DEF SoloOK, OneAtATime, HandlerFits, Live
  <2>3. passes[Num] = 0
    BY <2>1, <2>2, SoloTypes DEF SoloOK, ScoredOnce, Unscored
  <2> QED
    BY <2>1, <2>2, <2>3, SoloTypes DEF Locals
<1>2. ~(\E r \in Requests : gpc'[r] = "play")
  BY <1>1 DEF Starting
<1>3. /\ leaderboard \in [Players -> Nat] /\ leaderboard' \in [Players -> Nat] /\ IsFiniteSet(Players)
      /\ Pot \in Nat /\ Paid \in Nat /\ IsFiniteSet({n \in QuizNums : passes[n] > 0})
  BY PointsTypes, PlayersAssumption DEF TypeOK, RedisOK
<1>4. CASE AwardSurvival(TheWAS)
  <2>1. mode' # Ranking
    BY <1>1, <1>4 DEF AwardSurvival, Ranking, Survival
  <2>2. \A p \in Players \ ranked' : leaderboard'[p] = 0
    BY <1>3, <1>4 DEF AwardSurvival, PointsKept, Mine
  <2> QED
    BY <1>2, <2>1, <2>2 DEF PointsKept
<1>5. CASE AwardRanking(TheWAS)
  <2> DEFINE C == Mine.correct
             k == IF C = {} THEN 0 ELSE Pot \div Cardinality(C)
  <2>1. /\ \A p \in Players : leaderboard'[p] = leaderboard[p] + (IF p \in C THEN Pot \div Cardinality(C) ELSE 0)
        /\ ranked' = ranked \cup C
    BY <1>5 DEF AwardRanking, Mine
  <2>2. \A p \in Players \ ranked' : leaderboard'[p] = 0
    BY <1>3, <2>1 DEF PointsKept
  <2>3. IsFiniteSet(C) /\ Cardinality(C) \in Nat /\ (C # {} => Cardinality(C) # 0)
    BY <1>1, <1>3, FS_Subset, FS_CardinalityType, FS_EmptySet
  <2>4. k \in Nat /\ k * Cardinality(C) <= Pot
    <3>1. CASE C = {}
      BY <1>3, <2>3, <3>1
    <3>2. CASE C # {}
      BY <1>3, <2>3, <3>2, ShareOut
    <3> QED
      BY <3>1, <3>2
  <2>5. SumFunctionOnSet(leaderboard', Players) <= SumFunctionOnSet(leaderboard, Players) + k * Cardinality(C)
    <3>1. \A p \in Players : leaderboard'[p] = leaderboard[p] + (IF p \in C THEN k ELSE 0)
      BY <2>1
    <3>2. C \in SUBSET Players
      BY <1>1
    <3> HIDE DEF C, k
    <3>3. \A p \in Players : leaderboard'[p] <= leaderboard[p] + (IF p \in C THEN k ELSE 0)
      BY <1>3, <2>4, <3>1
    <3> QED
      BY <1>3, <2>4, <3>2, <3>3, SumGrows
  <2>6. Paid' = Paid + 1
    <3>1. {n \in QuizNums : passes'[n] > 0} = {n \in QuizNums : passes[n] > 0} \cup {Num}
      BY <1>1
    <3>2. Num \notin {n \in QuizNums : passes[n] > 0}
      BY <1>1
    <3> QED
      BY <1>3, <3>1, <3>2, FS_AddElement DEF Paid
  <2>7. SumFunctionOnSet(leaderboard, Players) \in Nat /\ SumFunctionOnSet(leaderboard', Players) \in Nat
    BY <1>3, SumType
  <2>8. ASSUME mode = Ranking PROVE SumFunctionOnSet(leaderboard', Players) <= Pot * Paid'
    <3> DEFINE a == SumFunctionOnSet(leaderboard', Players)
               b == SumFunctionOnSet(leaderboard, Players)
               c == Cardinality(C)
    <3>1. b <= Pot * Paid
      BY <2>8 DEF PointsKept
    <3>2. a \in Nat /\ b \in Nat /\ c \in Nat /\ k \in Nat /\ a <= b + k * c /\ k * c <= Pot /\ b <= Pot * Paid
      BY <2>3, <2>4, <2>5, <2>7, <3>1
    <3>3. Pot * (Paid + 1) = Pot * Paid + Pot /\ Pot * Paid \in Nat
      BY <1>3
    <3>4. k * c \in Nat
      <4> HIDE DEF k, c
      <4> QED
        BY <3>2
    <3> DEFINE e == k * c
               d == Pot * Paid
    <3>5. a <= d + Pot
      <4>1. a \in Nat /\ b \in Nat /\ e \in Nat /\ d \in Nat /\ Pot \in Nat /\ a <= b + e /\ e <= Pot /\ b <= d
        BY <1>3, <3>2, <3>3, <3>4
      <4> HIDE DEF a, b, e, d
      <4> QED
        BY <4>1
    <3> QED
      BY <2>6, <3>3, <3>5
  <2> QED
    BY <1>1, <1>2, <2>2, <2>8 DEF PointsKept
<1> QED
  BY <1>4, <1>5 DEF Award

(* Only a scoring pass adds points, and only to what the games have paid.   *)
LEMMA PointsInvariant ==
  ASSUME TypeOK, TypeOK', Solo, SoloOK, PointsKept, [Next]_vars
  PROVE  PointsKept'
<1>a. /\ TheWAS \in WAS /\ (\A w \in WAS : w = TheWAS) /\ leaderboard \in [Players -> Nat]
      /\ gpc \in [Requests -> StartPCs]
  BY SoloTypes, PointsTypes
<1>1. ASSUME UNCHANGED <<mode, passes, leaderboard, ranked>>,
             \A r \in Requests : gpc'[r] = "play" => gpc[r] = "play"
      PROVE  PointsKept'
  BY <1>1, <1>a, PointsFrame DEF PointsKept
<1>2. ASSUME NEW r \in Requests, RequestStart(r) PROVE PointsKept'
  <2>1. UNCHANGED <<mode, passes, leaderboard, ranked>> /\ gpc' = [gpc EXCEPT ![r] = "clear"]
    BY <1>2 DEF RequestStart, GoStart, redisVars, roomVars, memberVars, history
  <2> QED
    BY <1>1, <1>a, <2>1
<1>3. ASSUME NEW r \in Requests, StartStep(r) PROVE PointsKept'
  <2>1. CASE ClearQuizzes(r) \/ RegisterQuizzes(r) \/ ResetCurrentQuiz(r) \/ ArmIntroTimer(r)
    <3>1. /\ UNCHANGED <<mode, passes, leaderboard, ranked>>
          /\ \E to \in {"register", "rank", "arm", "idle"} : gpc' = [gpc EXCEPT ![r] = to]
      BY <2>1 DEF ClearQuizzes, RegisterQuizzes, ResetCurrentQuiz, ArmIntroTimer, GoStart, roomVars, memberVars, history
    <3> QED
      BY <1>1, <1>a, <3>1
  <2>2. CASE ResetLeaderboard(r)
    <3>1. /\ UNCHANGED <<mode, passes, ranked>>
          /\ \A p \in Players : leaderboard'[p] = IF p \in ranked THEN 0 ELSE leaderboard[p]
      BY <2>2 DEF ResetLeaderboard, roomVars, history
    <3>2. \A p \in Players : leaderboard'[p] = 0
      BY <3>1 DEF PointsKept
    <3> QED
      BY <1>a, <3>1, <3>2, PointsFrame
  <2>3. CASE AnnounceGame(r)
    <3>1. gpc[r] = "play" /\ UNCHANGED <<mode, leaderboard, ranked>> /\ passes' = [n \in QuizNums |-> 0]
      BY <2>3 DEF AnnounceGame, GoStart, memberVars
    <3>2. \A p \in Players : leaderboard'[p] = 0
      BY <3>1 DEF PointsKept
    <3>3. SumFunctionOnSet(leaderboard', Players) = 0
      BY <3>1, <3>2, NoPoints
    <3>4. Paid' = 0
      <4>1. {n \in QuizNums : passes'[n] > 0} = {}
        BY <3>1
      <4> QED
        BY <4>1, FS_EmptySet DEF Paid
    <3>5. 0 <= Pot * 0
      BY BoundsAssumption
    <3> QED
      BY <3>2, <3>3, <3>4, <3>5 DEF PointsKept
  <2> QED
    BY <1>3, <2>1, <2>2, <2>3 DEF StartStep
<1>4. ASSUME NEW w \in WAS, TimerStep(w) PROVE PointsKept'
  <2>1. TimerStep(TheWAS)
    BY <1>a, <1>4
  <2>2. CASE Award(TheWAS)
    BY <2>2, AwardPays
  <2>3. CASE ~Award(TheWAS)
    <3>1. UNCHANGED <<mode, passes, leaderboard, ranked, gpc>>
      BY <2>1, <2>3 DEF TimerStep, GetCurrentQuiz, ReadQuiz, TakeScoringLock, MissScoringLock, Grade, PublishScoring,
         ReleaseScoringLock, CheckEnd, Revive, EndGame, ReadNext, StoreAnswer, SetQuizStart, ArmQuizTimer,
         redisVars, roomVars, memberVars, startTask, history
    <3> QED
      BY <1>1, <3>1
  <2> QED
    BY <2>2, <2>3
<1>5. ASSUME NEW w \in WAS, NEW h \in WAS, ScoringStep(w, h) PROVE PointsKept'
  <2>1. UNCHANGED <<mode, passes, leaderboard, ranked, gpc>>
    BY <1>5 DEF ScoringStep, CountClients, ScoringComplete, ScoringIncomplete, AnnounceResults, SetQuizEnd, ArmResultTimer,
       ResetScoringCount, redisVars, roomVars, memberVars, startTask, history
  <2> QED
    BY <1>1, <2>1
<1>6. ASSUME NEW w \in WAS, Restart(w) PROVE PointsKept'
  <2>1. /\ UNCHANGED <<mode, passes, leaderboard, ranked>>
        /\ \A r \in Requests : gpc'[r] = "idle" \/ gpc'[r] = gpc[r]
    BY <1>6 DEF Restart, redisVars, roomVars, memberVars
  <2> QED
    BY <1>1, <2>1
<1>7. ASSUME NEW p \in Players, UNCHANGED <<mode, passes, gpc>>, leaderboard' = [leaderboard EXCEPT ![p] = 0],
             \A x \in Players : x # p /\ x \in ranked => x \in ranked'
      PROVE  PointsKept'
  <2>1. \A x \in Players : leaderboard'[x] = IF x = p THEN 0 ELSE leaderboard[x]
    BY <1>7, <1>a
  <2>2. \A x \in Players : leaderboard'[x] <= leaderboard[x]
    BY <1>a, <2>1
  <2>3. \A x \in Players : x \notin ranked' => leaderboard'[x] = 0
    BY <1>7, <2>1 DEF PointsKept
  <2> QED
    BY <1>7, <2>2, <2>3, PointsFrame
<1>8. CASE PlayerStep
  <2>1. ASSUME NEW p \in Players, Kick(p) \/ DropInGame(p) PROVE PointsKept'
    BY <1>1, <2>1 DEF Kick, DropInGame, redisVars, roomVars, memberVars, startTask, history
  <2>2. ASSUME NEW p \in Players, LeaveLobby(p) PROVE PointsKept'
    BY <1>7, <2>2 DEF LeaveLobby, ExitRoom, startTask, history
  <2>3. ASSUME NEW p \in Players, NEW w \in WAS, Reconnect(p, w) PROVE PointsKept'
    BY <1>1, <2>3 DEF Reconnect, redisVars, roomVars, memberVars, startTask, history
  <2>4. ASSUME NEW p \in Players, NEW w \in WAS, BeginJoin(p, w) PROVE PointsKept'
    <3>1. CASE p \in known
      BY <1>7, <2>4, <3>1 DEF BeginJoin, ExitRoom, startTask, history
    <3>2. CASE p \notin known
      BY <1>1, <2>4, <3>2 DEF BeginJoin, startTask, history
    <3> QED
      BY <3>1, <3>2
  <2> QED
    BY <1>8, <2>1, <2>2, <2>3, <2>4 DEF PlayerStep
<1>9. ASSUME NEW p \in Players, FinishJoin(p) PROVE PointsKept'
  BY <1>7, <1>9 DEF FinishJoin, roomVars, startTask, history
<1>10. CASE ExpireTimer
  BY <1>1, <1>10 DEF ExpireTimer, roomVars, memberVars, startTask, history
<1>11. CASE UNCHANGED vars
  BY <1>1, <1>11 DEF vars, redisVars, roomVars, memberVars, startTask, history
<1> QED
  BY <1>2, <1>3, <1>4, <1>5, <1>6, <1>8, <1>9, <1>10, <1>11 DEF Next, Rest

(* RANKING: a quiz gives its pot away once at most, so the points of those  *)
(* on the leaderboard never exceed a pot for each quiz that was scored.     *)
THEOREM SoloPointsConserved == ASSUME Solo PROVE Spec => []PointsConserved
<1>1. Init => PointsKept
  <2> SUFFICES ASSUME Init PROVE PointsKept
    OBVIOUS
  <2>1. TypeOK /\ \A p \in Players : leaderboard[p] = 0
    BY InitTypeOK DEF Init
  <2>2. SumFunctionOnSet(leaderboard, Players) = 0
    BY <2>1, NoPoints
  <2>3. 0 <= Pot * Paid
    BY <2>1, PointsTypes
  <2> QED
    BY <2>1, <2>2, <2>3 DEF PointsKept
<1>2. TypeOK /\ TypeOK' /\ SoloOK /\ PointsKept /\ [Next]_vars => PointsKept'
  BY PointsInvariant
<1>3. TypeOK /\ PointsKept => PointsConserved
  BY SumWithin, PointsTypes DEF PointsKept, PointsConserved, Paid
<1> QED
  BY <1>1, <1>2, <1>3, SoloHolds, PTL DEF Spec
=============================================================================
