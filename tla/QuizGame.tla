------------------------------ MODULE QuizGame ------------------------------
(***************************************************************************)
(* The quiz state machine of one game room.                                *)
(*                                                                         *)
(* A room is served by several WAS processes that share one Redis.  The    *)
(* expiry of the room's timer key is published to every WAS, and each WAS  *)
(* runs the same asynchronous handler on it: a scoring pass when the       *)
(* current quiz is "n:start", the next quiz when it is "n:end".  A scoring *)
(* pass publishes its result to every WAS, and each WAS announces it and   *)
(* arms the next timer.  Each action below is the stretch of a handler     *)
(* between two awaits; a step of Redis is atomic, everything else of       *)
(* different handlers interleaves.                                         *)
(***************************************************************************)
EXTENDS Integers, FiniteSets, Functions

CONSTANTS
  WAS,           (* server processes                                          *)
  Players,       (* client ids                                                *)
  None,          (* "connected to no WAS"                                     *)
  QuizPool,      (* quiz ids of the room's quiz set (database integers)       *)
  QuizCount,     (* room.quizCount: quizzes picked for one game               *)
  Options,       (* the choice keys of a quiz, 1..n                           *)
  Modes,         (* the room modes to consider                                *)
  Pot,           (* points shared by the winners of a quiz (1000 in the code) *)
  Requests,      (* startGame requests that may be in flight together         *)
  MidGameStart,  (* TRUE: a host may send startGame while a game is running   *)
  MaxGames,      (* bound: startGame requests                                 *)
  MaxChurn,      (* bound: kicks, disconnects, reconnects and joins           *)
  MaxCrash       (* bound: WAS restarts                                       *)

Ranking  == "RANKING"
Survival == "SURVIVAL"

(* The choice that is right, as stored by startGame.                        *)
RightChoice == 1

(* A quiz id that no quiz has.                                              *)
NoQuiz == -1

ASSUME WASAssumption == IsFiniteSet(WAS) /\ WAS # {} /\ None \notin WAS
ASSUME PlayersAssumption == IsFiniteSet(Players)
ASSUME QuizAssumption ==
  /\ QuizPool \subseteq Nat /\ IsFiniteSet(QuizPool)
  /\ QuizCount \in 1..Cardinality(QuizPool)
ASSUME OptionsAssumption == Options \subseteq Nat \ {0} /\ RightChoice \in Options
ASSUME ModesAssumption == Modes \subseteq {Ranking, Survival}
ASSUME BoundsAssumption ==
  /\ Pot \in Nat /\ MidGameStart \in BOOLEAN
  /\ MaxGames \in Nat /\ MaxChurn \in Nat /\ MaxCrash \in Nat

VARIABLES
  \* Redis
  status,         (* Room.status (isWaiting moves with it)                   *)
  mode,           (* Room.gameMode                                           *)
  host,           (* Room.host                                               *)
  roomPlayers,    (* SMEMBERS Room:Players                                   *)
  ranked,         (* members of the sorted set Room:Leaderboard              *)
  leaderboard,    (* their scores                                            *)
  alive,          (* Player.isAlive                                          *)
  known,          (* who has a Player hash with the gameId of the room       *)
  quizSet,        (* SMEMBERS Room:QuizSet                                   *)
  registered,     (* quizzes whose hash and choices are stored               *)
  answer,         (* Room:Quiz:<id>.answer, 0 when absent or '0'             *)
  currentQuiz,    (* Room:CurrentQuiz, "num:state"                           *)
  timer,          (* Room:Timer and, as history, which timer it is           *)
  scoringStatus,  (* Room:ScoringStatus, the scoring lock                    *)
  scoringCount,   (* Room:ScoringCount                                       *)
  \* memory of the WAS processes
  conn,           (* the WAS a player's socket is connected to               *)
  joining,        (* the WAS running joinRoom for a player                   *)
  clients,        (* localClientCounts of each WAS                           *)
  dead,           (* deadPlayerIds of each WAS                               *)
  tpc, local,     (* the timer handler of each WAS: where it is, its locals  *)
  spc, scnt, snum,  (* the scoring handler of each WAS for each publisher    *)
  gpc, gwas, games, (* startGame requests: where they are, on which WAS      *)
  view,           (* history: what the clients of each WAS were sent last    *)
  passes,         (* history: scoring passes of each quiz of the game        *)
  broke,          (* history: a restart has cut a handler off                *)
  churn, crashes  (* counters behind the bounds                              *)

roomVars == <<status, mode, host>>
memberVars == <<roomPlayers, ranked, leaderboard, alive, known>>
quizVars == <<quizSet, registered, answer>>
lockVars == <<scoringStatus, scoringCount>>
redisVars == <<roomVars, memberVars, quizVars, currentQuiz, timer, lockVars>>
memoryVars == <<conn, joining, clients, dead>>
timerTask == <<tpc, local>>
scoringTask == <<spc, scnt, snum>>
startTask == <<gpc, gwas, games>>
history == <<view, passes, broke>>
bounds == <<churn, crashes>>
vars == <<redisVars, memoryVars, timerTask, scoringTask, startTask, history, bounds>>

-----------------------------------------------------------------------------
(* Values                                                                   *)

(* The numbers of quizzes, and -1 before the first one.                     *)
QuizNums == -1..(Cardinality(QuizPool) - 1)
NoTimer == [kind |-> "none", num |-> 0]
Timers == [kind : {"none", "intro", "quiz", "result"}, num : QuizNums]
Armed(k, n) == [kind |-> k, num |-> n]

(* SET Room:Timer ... NX: an armed timer is left alone.                     *)
ArmNX(k, n) == IF timer = NoTimer THEN Armed(k, n) ELSE timer

(* The local variables of a timer handler; ticket is history, the timer     *)
(* whose expiry started it.                                                 *)
Fresh(t) == [num |-> 0, quiz |-> NoQuiz, ans |-> 0, stored |-> FALSE, clients |-> {},
             correct |-> {}, wrong |-> {}, ticket |-> t]

(* What the clients of a WAS last saw of the game: an event, its quiz       *)
(* number and the position of the right choice in the list that was sent.   *)
View(e, n, p) == [event |-> e, num |-> n, place |-> p]
Lobby == View("lobby", 0, 0)

(* quizList[n]: SMEMBERS returns a set of integers in ascending order, so   *)
(* the element at index n is the one with n smaller elements, if there is.  *)
Index(S, q) == Cardinality({x \in S : x < q})
QuizAt(n) ==
  IF \E q \in quizSet : Index(quizSet, q) = n
  THEN CHOOSE q \in quizSet : Index(quizSet, q) = n
  ELSE NoQuiz

(* quiz.answer in Redis.                                                    *)
StoredAnswer(q) == IF q \in registered THEN answer[q] ELSE 0

(* The order a shuffle puts the choices in: the place of each choice key.   *)
Shuffles == Bijection(Options, Options)
PlaceOf(f, key) == IF key \in Options THEN f[key] ELSE 0

LocalPlayers(w) == {p \in Players : conn[p] = w}
TopScorers == {p \in ranked : \A o \in ranked : leaderboard[o] <= leaderboard[p]}

(* Handlers take milliseconds and the shortest timer three seconds: a timer *)
(* runs out only when the handlers of the previous expiry, and the joins    *)
(* that were under way, have ended.                                         *)
Quiet ==
  /\ \A w \in WAS : tpc[w] = "idle"
  /\ \A w, h \in WAS : spc[w][h] = "idle"
  /\ \A p \in Players : joining[p] = None

(* A timer handler between taking the scoring lock and releasing it.        *)
Critical == {"grade", "award", "publish", "unlock"}

(* The control of the handlers.  One that ends forgets its local variables. *)
GoStart(r, from, to) == gpc[r] = from /\ gpc' = [gpc EXCEPT ![r] = to]
GoTimer(w, from, to) == tpc[w] = from /\ tpc' = [tpc EXCEPT ![w] = to]
EndTimer(w, from) ==
  /\ GoTimer(w, from, "idle")
  /\ local' = [local EXCEPT ![w] = Fresh(NoTimer)]
GoScoring(w, h, from, to) == spc[w][h] = from /\ spc' = [spc EXCEPT ![w][h] = to]
EndScoring(w, h, from) ==
  /\ GoScoring(w, h, from, "idle")
  /\ scnt' = [scnt EXCEPT ![w][h] = 0] /\ snum' = [snum EXCEPT ![w][h] = 0]

-----------------------------------------------------------------------------
(* Faults: what the definitions below could have got wrong.  None of them   *)
(* is part of the specification; each breaks a property stated at the end.  *)

ClearQuizzesButTheSet(r) ==
  /\ GoStart(r, "clear", "register")
  /\ registered' = registered \ quizSet
  /\ answer' = [q \in QuizPool |-> IF q \in quizSet THEN 0 ELSE answer[q]]
  /\ UNCHANGED <<roomVars, memberVars, quizSet, currentQuiz, timer, lockVars, memoryVars,
                  timerTask, scoringTask, gwas, games, history, bounds>>

GetCurrentQuizInverted(w) ==
  /\ GoTimer(w, "get", IF currentQuiz.state = "end" THEN "readQuiz" ELSE "checkEnd")
  /\ local' = [local EXCEPT ![w].num = currentQuiz.num]
  /\ UNCHANGED <<redisVars, memoryVars, scoringTask, startTask, history, bounds>>

TakeScoringLockWithoutNX(w) ==
  /\ GoTimer(w, "lock", "grade")
  /\ scoringStatus' = TRUE
  /\ UNCHANGED <<roomVars, memberVars, quizVars, currentQuiz, timer, scoringCount,
                  memoryVars, local, scoringTask, startTask, history, bounds>>

AwardRankingUnshared(w) ==
  /\ mode = Ranking
  /\ leaderboard' = [p \in Players |-> leaderboard[p] + IF p \in local[w].correct THEN Pot ELSE 0]
  /\ ranked' = ranked \cup local[w].correct
  /\ UNCHANGED <<alive, dead>>

AwardSurvivalUnnoticed(w) ==
  /\ mode = Survival
  /\ leaderboard' = [p \in Players |-> IF p \in local[w].correct THEN 1
                                       ELSE IF p \in local[w].wrong THEN 0 ELSE leaderboard[p]]
  /\ ranked' = ranked \cup local[w].correct \cup local[w].wrong
  /\ alive' = [p \in Players |-> alive[p] /\ p \notin local[w].wrong]
  /\ UNCHANGED dead

HasNoMoreQuizLate(n) == Cardinality(quizSet) < n

StoreAnswerUnmoved(w) ==
  /\ GoTimer(w, "store", "setCurrent")
  /\ \E f \in Shuffles :
       view' = [view EXCEPT ![w] = View("question", local[w].num, PlaceOf(f, RightChoice))]
  /\ UNCHANGED <<redisVars, memoryVars, local, scoringTask, startTask, passes, broke,
                  bounds>>

SetQuizStartAsEnd(w) ==
  /\ GoTimer(w, "setCurrent", "arm")
  /\ currentQuiz' = [num |-> local[w].num, state |-> "end"]
  /\ UNCHANGED <<roomVars, memberVars, quizVars, timer, lockVars, memoryVars, local,
                  scoringTask, startTask, history, bounds>>

EverybodyCountedStrictly(w, h) == scnt[w][h] > Cardinality(roomPlayers)

AnnounceNextResults(w, h) ==
  /\ GoScoring(w, h, "results", "setEnd")
  /\ snum' = [snum EXCEPT ![w][h] = currentQuiz.num]
  /\ view' = [view EXCEPT ![w] = View("result", currentQuiz.num,
                                      StoredAnswer(QuizAt(currentQuiz.num + 1)))]
  /\ UNCHANGED <<redisVars, memoryVars, timerTask, scnt, startTask, passes, broke,
                  bounds>>

SetQuizEndAsStart(w, h) ==
  /\ GoScoring(w, h, "setEnd", "arm")
  /\ currentQuiz' = [num |-> snum[w][h], state |-> "start"]
  /\ UNCHANGED <<roomVars, memberVars, quizVars, timer, lockVars, memoryVars,
                  timerTask, scnt, snum, startTask, history, bounds>>

SetQuizEndBehind(w, h) ==
  /\ GoScoring(w, h, "setEnd", "arm")
  /\ currentQuiz' = [num |-> snum[w][h] - 1, state |-> "end"]
  /\ UNCHANGED <<roomVars, memberVars, quizVars, timer, lockVars, memoryVars,
                  timerTask, scnt, snum, startTask, history, bounds>>

ArmResultTimerNever(w, h) ==
  /\ GoScoring(w, h, "arm", "reset")
  /\ UNCHANGED <<redisVars, memoryVars, timerTask, scnt, snum, startTask, history, bounds>>

ResetScoringCountNever(w, h) ==
  /\ EndScoring(w, h, "reset")
  /\ UNCHANGED <<redisVars, memoryVars, timerTask, startTask, history, bounds>>

-----------------------------------------------------------------------------
Init ==
  /\ status = "waiting"
  /\ mode \in Modes
  /\ roomPlayers \in (SUBSET Players) \ {{}}
  /\ host \in roomPlayers
  /\ ranked = roomPlayers
  /\ leaderboard = [p \in Players |-> 0]
  /\ alive = [p \in Players |-> TRUE]
  /\ known = roomPlayers
  /\ quizSet = {} /\ registered = {}
  /\ answer = [q \in QuizPool |-> 0]
  /\ currentQuiz = [num |-> -1, state |-> "end"]
  /\ timer = NoTimer
  /\ scoringStatus = FALSE /\ scoringCount = 0
  /\ conn \in [Players -> WAS \cup {None}]
  /\ \A p \in Players : conn[p] # None <=> p \in roomPlayers
  /\ joining = [p \in Players |-> None]
  /\ clients = [w \in WAS |-> Cardinality({p \in Players : conn[p] = w})]
  /\ dead = [w \in WAS |-> {}]
  /\ tpc = [w \in WAS |-> "idle"]
  /\ local = [w \in WAS |-> Fresh(NoTimer)]
  /\ spc = [w \in WAS |-> [h \in WAS |-> "idle"]]
  /\ scnt = [w \in WAS |-> [h \in WAS |-> 0]]
  /\ snum = [w \in WAS |-> [h \in WAS |-> 0]]
  /\ gpc = [r \in Requests |-> "idle"] /\ gwas = [r \in Requests |-> None]
  /\ games = 0
  /\ view = [w \in WAS |-> Lobby]
  /\ passes = [n \in QuizNums |-> 0]
  /\ broke = FALSE
  /\ churn = 0 /\ crashes = 0

-----------------------------------------------------------------------------
(* startGame                                                                *)

(* The host asks for a game.  The handler checks that the room exists and   *)
(* that the sender is its host; it does not look at the room's status.  The *)
(* front end offers the button in the lobby only (MidGameStart = FALSE).    *)
RequestStart(r) ==
  /\ games < MaxGames
  /\ conn[host] # None
  /\ MidGameStart \/ (status = "waiting" /\ \A x \in Requests : gpc[x] = "idle")
  /\ GoStart(r, "idle", "clear")
  /\ gwas' = [gwas EXCEPT ![r] = conn[host]]
  /\ games' = games + 1
  /\ UNCHANGED <<redisVars, memoryVars, timerTask, scoringTask, history, bounds>>

ClearQuizzes(r) ==
  /\ GoStart(r, "clear", "register")
  /\ registered' = registered \ quizSet
  /\ answer' = [q \in QuizPool |-> IF q \in quizSet THEN 0 ELSE answer[q]]
  /\ quizSet' = {}
  /\ UNCHANGED <<roomVars, memberVars, currentQuiz, timer, lockVars, memoryVars,
                  timerTask, scoringTask, gwas, games, history, bounds>>

RegisterQuizzes(r) ==
  /\ GoStart(r, "register", "rank")
  /\ \E sel \in SUBSET QuizPool :
       /\ Cardinality(sel) = QuizCount
       /\ quizSet' = quizSet \cup sel
       /\ registered' = registered \cup sel
       /\ answer' = [q \in QuizPool |-> IF q \in sel THEN RightChoice ELSE answer[q]]
  /\ UNCHANGED <<roomVars, memberVars, currentQuiz, timer, lockVars, memoryVars,
                  timerTask, scoringTask, gwas, games, history, bounds>>

ResetLeaderboard(r) ==
  /\ GoStart(r, "rank", "play")
  /\ leaderboard' = [p \in Players |-> IF p \in ranked THEN 0 ELSE leaderboard[p]]
  /\ UNCHANGED <<roomVars, roomPlayers, ranked, alive, known, quizVars, currentQuiz,
                  timer, lockVars, memoryVars, timerTask, scoringTask, gwas, games, history,
                  bounds>>

(* status = playing, and START_GAME to the clients of every WAS.            *)
AnnounceGame(r) ==
  /\ GoStart(r, "play", "current")
  /\ status' = "playing"
  /\ view' = [w \in WAS |-> View("start", -1, 0)]
  /\ passes' = [n \in QuizNums |-> 0]
  /\ UNCHANGED <<mode, host, memberVars, quizVars, currentQuiz, timer, lockVars,
                  memoryVars, timerTask, scoringTask, gwas, games, broke, bounds>>

ResetCurrentQuiz(r) ==
  /\ GoStart(r, "current", "arm")
  /\ currentQuiz' = [num |-> -1, state |-> "end"]
  /\ UNCHANGED <<roomVars, memberVars, quizVars, timer, lockVars, memoryVars,
                  timerTask, scoringTask, gwas, games, history, bounds>>

(* The only SET of the timer without NX.                                    *)
ArmIntroTimer(r) ==
  /\ GoStart(r, "arm", "idle")
  /\ gwas' = [gwas EXCEPT ![r] = None]
  /\ timer' = Armed("intro", -1)
  /\ UNCHANGED <<roomVars, memberVars, quizVars, currentQuiz, lockVars, memoryVars,
                  timerTask, scoringTask, games, history, bounds>>

StartStep(r) ==
  \/ ClearQuizzes(r) \/ RegisterQuizzes(r) \/ ResetLeaderboard(r) \/ AnnounceGame(r)
  \/ ResetCurrentQuiz(r) \/ ArmIntroTimer(r)

-----------------------------------------------------------------------------
(* The timer runs out: the expired event reaches every WAS.                 *)

ExpireTimer ==
  /\ timer # NoTimer
  /\ Quiet
  /\ timer' = NoTimer
  /\ tpc' = [w \in WAS |-> "get"]
  /\ local' = [w \in WAS |-> Fresh(timer)]
  /\ UNCHANGED <<roomVars, memberVars, quizVars, currentQuiz, lockVars, memoryVars,
                  scoringTask, startTask, history, bounds>>

(* GET Room:CurrentQuiz decides between scoring and the next quiz.          *)
GetCurrentQuiz(w) ==
  /\ GoTimer(w, "get", IF currentQuiz.state = "start" THEN "readQuiz" ELSE "checkEnd")
  /\ local' = [local EXCEPT ![w].num = currentQuiz.num]
  /\ UNCHANGED <<redisVars, memoryVars, scoringTask, startTask, history, bounds>>

-----------------------------------------------------------------------------
(* handleQuizScoring                                                        *)

ReadQuiz(w) ==
  /\ GoTimer(w, "readQuiz", "lock")
  /\ local' = [local EXCEPT ![w].ans = StoredAnswer(QuizAt(local[w].num))]
  /\ UNCHANGED <<redisVars, memoryVars, scoringTask, startTask, history, bounds>>

(* SET Room:ScoringStatus NX succeeds.                                      *)
TakeScoringLock(w) ==
  /\ ~scoringStatus
  /\ GoTimer(w, "lock", "grade")
  /\ scoringStatus' = TRUE
  /\ UNCHANGED <<roomVars, memberVars, quizVars, currentQuiz, timer, scoringCount,
                  memoryVars, local, scoringTask, startTask, history, bounds>>

(* SET Room:ScoringStatus NX fails: another WAS is scoring.                 *)
MissScoringLock(w) ==
  /\ scoringStatus
  /\ EndTimer(w, "lock")
  /\ UNCHANGED <<redisVars, memoryVars, scoringTask, startTask, history, bounds>>

(* Read the players, their positions and isAlive; compare with the answer.  *)
(* Every player stands somewhere, so any set of living players may be right.*)
Grade(w) ==
  /\ GoTimer(w, "grade", "award")
  /\ LET graded == {p \in roomPlayers : alive[p]}
     IN  \E right \in SUBSET graded :
           /\ local[w].ans \notin Options => right = {}
           /\ local' = [local EXCEPT ![w].clients = roomPlayers, ![w].correct = right,
                                     ![w].wrong = graded \ right]
  /\ UNCHANGED <<redisVars, memoryVars, scoringTask, startTask, history, bounds>>

(* RANKING: the pot is shared by those who were right.                      *)
AwardRanking(w) ==
  /\ mode = Ranking
  /\ leaderboard' = [p \in Players |->
       leaderboard[p]
         + IF p \in local[w].correct THEN Pot \div Cardinality(local[w].correct) ELSE 0]
  /\ ranked' = ranked \cup local[w].correct
  /\ UNCHANGED <<alive, dead>>

(* SURVIVAL: 1 for the right, 0 and death for the wrong; the dead set is    *)
(* the memory of this WAS alone.                                            *)
AwardSurvival(w) ==
  /\ mode = Survival
  /\ leaderboard' = [p \in Players |-> IF p \in local[w].correct THEN 1
                                       ELSE IF p \in local[w].wrong THEN 0 ELSE leaderboard[p]]
  /\ ranked' = ranked \cup local[w].correct \cup local[w].wrong
  /\ alive' = [p \in Players |-> alive[p] /\ p \notin local[w].wrong]
  /\ dead' = [dead EXCEPT ![w] = @ \cup local[w].wrong]

Award(w) ==
  /\ GoTimer(w, "award", "publish")
  /\ AwardRanking(w) \/ AwardSurvival(w)
  /\ passes' = [passes EXCEPT ![local[w].num] = @ + 1]
  /\ UNCHANGED <<roomVars, roomPlayers, known, quizVars, currentQuiz, timer, lockVars,
                  conn, joining, clients, local, scoringTask, startTask, view, broke,
                  bounds>>

(* PUBLISH scoring:<gameId> clients.length, to every WAS.                   *)
PublishScoring(w) ==
  /\ GoTimer(w, "publish", "unlock")
  /\ spc' = [x \in WAS |-> [spc[x] EXCEPT ![w] = "count"]]
  /\ scnt' = [x \in WAS |-> [scnt[x] EXCEPT ![w] = Cardinality(local[w].clients)]]
  /\ UNCHANGED <<redisVars, memoryVars, local, snum, startTask, history, bounds>>

(* DEL Room:ScoringStatus.                                                  *)
ReleaseScoringLock(w) ==
  /\ EndTimer(w, "unlock")
  /\ scoringStatus' = FALSE
  /\ UNCHANGED <<roomVars, memberVars, quizVars, currentQuiz, timer, scoringCount,
                  memoryVars, scoringTask, startTask, history, bounds>>

-----------------------------------------------------------------------------
(* handleNextQuiz                                                           *)

HasNoMoreQuiz(n) == Cardinality(quizSet) <= n
CheckSurvivalEnd(players, aliveCount) == Cardinality(players) > 1 /\ aliveCount <= 1

(* Read the quiz list and the players, count the dead in memory, and decide.*)
CheckEnd(w) ==
  /\ LET n == local[w].num + 1
         aliveCount == Cardinality(roomPlayers) - Cardinality(dead[w])
         over == HasNoMoreQuiz(n) \/ CheckSurvivalEnd(roomPlayers, aliveCount)
     IN  /\ GoTimer(w, "checkEnd", IF over THEN "revive" ELSE "readNext")
         /\ local' = [local EXCEPT ![w].num = n, ![w].clients = roomPlayers,
                                   ![w].quiz = IF over THEN NoQuiz ELSE QuizAt(n)]
  /\ UNCHANGED <<redisVars, memoryVars, scoringTask, startTask, history, bounds>>

Revive(w) ==
  /\ GoTimer(w, "revive", "endGame")
  /\ alive' = [p \in Players |-> alive[p] \/ p \in local[w].clients]
  /\ UNCHANGED <<roomVars, roomPlayers, ranked, leaderboard, known, quizVars, currentQuiz,
                  timer, lockVars, memoryVars, local, scoringTask, startTask,
                  history, bounds>>

(* The top of the leaderboard becomes host, the room waits again, and the   *)
(* clients of this WAS get END_GAME.                                        *)
EndGame(w) ==
  /\ EndTimer(w, "endGame")
  /\ host' \in TopScorers
  /\ status' = "waiting"
  /\ view' = [view EXCEPT ![w] = Lobby]
  /\ UNCHANGED <<mode, memberVars, quizVars, currentQuiz, timer, lockVars,
                  memoryVars, scoringTask, startTask, passes, broke, bounds>>

(* HGETALL of the next quiz and of its choices.                             *)
ReadNext(w) ==
  /\ GoTimer(w, "readNext", "store")
  /\ local' = [local EXCEPT ![w].stored = local[w].quiz \in registered,
                            ![w].ans = StoredAnswer(local[w].quiz)]
  /\ UNCHANGED <<redisVars, memoryVars, scoringTask, startTask, history, bounds>>

(* Shuffle the choices, store where the one named by the answer that was    *)
(* read has gone, and send the list with START_QUIZ_TIME to the clients of  *)
(* this WAS.  A quiz that was deleted meanwhile has no choices.             *)
StoreAnswer(w) ==
  /\ GoTimer(w, "store", "setCurrent")
  /\ \E f \in Shuffles :
       LET Placed(key) == IF local[w].stored THEN PlaceOf(f, key) ELSE 0
       IN  /\ answer' = [answer EXCEPT ![local[w].quiz] = Placed(local[w].ans)]
           /\ view' = [view EXCEPT ![w] =
                         View("question", local[w].num, Placed(RightChoice))]
  /\ UNCHANGED <<roomVars, memberVars, quizSet, registered, currentQuiz, timer,
                  lockVars, memoryVars, local, scoringTask, startTask, passes, broke,
                  bounds>>

SetQuizStart(w) ==
  /\ GoTimer(w, "setCurrent", "arm")
  /\ currentQuiz' = [num |-> local[w].num, state |-> "start"]
  /\ UNCHANGED <<roomVars, memberVars, quizVars, timer, lockVars, memoryVars, local,
                  scoringTask, startTask, history, bounds>>

(* SET Room:Timer EX limitTime+3 NX; without a limitTime (the quiz was      *)
(* deleted) Redis refuses the command and the handler dies.                 *)
ArmQuizTimer(w) ==
  /\ EndTimer(w, "arm")
  /\ timer' = IF local[w].stored THEN ArmNX("quiz", local[w].num) ELSE timer
  /\ UNCHANGED <<roomVars, memberVars, quizVars, currentQuiz, lockVars, memoryVars,
                  scoringTask, startTask, history, bounds>>

TimerStep(w) ==
  \/ GetCurrentQuiz(w) \/ ReadQuiz(w) \/ TakeScoringLock(w) \/ MissScoringLock(w)
  \/ Grade(w) \/ Award(w) \/ PublishScoring(w) \/ ReleaseScoringLock(w)
  \/ CheckEnd(w) \/ Revive(w) \/ EndGame(w)
  \/ ReadNext(w) \/ StoreAnswer(w) \/ SetQuizStart(w) \/ ArmQuizTimer(w)

-----------------------------------------------------------------------------
(* handleScoring: WAS w handles the message published by WAS h.             *)

(* SET NX 0 (a missing counter counts as 0) and INCRBY.                     *)
CountClients(w, h) ==
  /\ GoScoring(w, h, "count", "compare")
  /\ scoringCount' = scoringCount + scnt[w][h]
  /\ scnt' = [scnt EXCEPT ![w][h] = scoringCount']
  /\ UNCHANGED <<roomVars, memberVars, quizVars, currentQuiz, timer, scoringStatus,
                  memoryVars, timerTask, snum, startTask, history, bounds>>

(* SCARD Room:Players: the count is compared with the players of the room.  *)
EverybodyCounted(w, h) == scnt[w][h] >= Cardinality(roomPlayers)

(* The scoring is complete ...                                              *)
ScoringComplete(w, h) ==
  /\ EverybodyCounted(w, h)
  /\ GoScoring(w, h, "compare", "results")
  /\ UNCHANGED <<redisVars, memoryVars, timerTask, scnt, snum, startTask, history,
                  bounds>>

(* ... or not yet.                                                          *)
ScoringIncomplete(w, h) ==
  /\ ~EverybodyCounted(w, h)
  /\ EndScoring(w, h, "compare")
  /\ UNCHANGED <<redisVars, memoryVars, timerTask, startTask, history, bounds>>

(* getQuizResults, and END_QUIZ_TIME to the clients of this WAS.            *)
AnnounceResults(w, h) ==
  /\ GoScoring(w, h, "results", "setEnd")
  /\ snum' = [snum EXCEPT ![w][h] = currentQuiz.num]
  /\ view' = [view EXCEPT ![w] = View("result", currentQuiz.num,
                                      StoredAnswer(QuizAt(currentQuiz.num)))]
  /\ UNCHANGED <<redisVars, memoryVars, timerTask, scnt, startTask, passes, broke,
                  bounds>>

SetQuizEnd(w, h) ==
  /\ GoScoring(w, h, "setEnd", "arm")
  /\ currentQuiz' = [num |-> snum[w][h], state |-> "end"]
  /\ UNCHANGED <<roomVars, memberVars, quizVars, timer, lockVars, memoryVars,
                  timerTask, scnt, snum, startTask, history, bounds>>

ArmResultTimer(w, h) ==
  /\ GoScoring(w, h, "arm", "reset")
  /\ timer' = ArmNX("result", snum[w][h])
  /\ UNCHANGED <<roomVars, memberVars, quizVars, currentQuiz, lockVars, memoryVars,
                  timerTask, scnt, snum, startTask, history, bounds>>

ResetScoringCount(w, h) ==
  /\ EndScoring(w, h, "reset")
  /\ scoringCount' = 0
  /\ UNCHANGED <<roomVars, memberVars, quizVars, currentQuiz, timer, scoringStatus,
                  memoryVars, timerTask, startTask, history, bounds>>

ScoringStep(w, h) ==
  \/ CountClients(w, h) \/ ScoringComplete(w, h) \/ ScoringIncomplete(w, h)
  \/ AnnounceResults(w, h) \/ SetQuizEnd(w, h) \/ ArmResultTimer(w, h)
  \/ ResetScoringCount(w, h)

-----------------------------------------------------------------------------
(* Players come and go                                                      *)

Churn == churn < MaxChurn /\ churn' = churn + 1

(* kickRoom: the host's WAS marks the player dead, whatever the status and  *)
(* wherever the player is; having a Player hash is enough.                  *)
Kick(p) ==
  /\ Churn
  /\ conn[host] # None
  /\ p \in known
  /\ alive' = [alive EXCEPT ![p] = FALSE]
  /\ dead' = [dead EXCEPT ![conn[host]] = @ \cup {p}]
  /\ UNCHANGED <<roomVars, roomPlayers, ranked, leaderboard, known, quizVars, currentQuiz,
                  timer, lockVars, conn, joining, clients, timerTask, scoringTask, startTask,
                  history, crashes>>

(* handlePlayerExit, the part in the memory of the WAS: when the count of   *)
(* local clients runs out, the room's dead set goes with it.                *)
ExitLocally(p, w) ==
  LET last == clients[w] <= 1
  IN  /\ clients' = [clients EXCEPT ![w] = IF last THEN 0 ELSE @ - 1]
      /\ dead' = [dead EXCEPT ![w] = IF last THEN {} ELSE @ \ {p}]

(* handlePlayerExit, the part in Redis: the player leaves the room's sets   *)
(* and the host role moves on.  (The last one to leave deletes the room;    *)
(* this module follows a room that is in use.)                              *)
ExitRoom(p) ==
  /\ roomPlayers \ {p} # {}
  /\ roomPlayers' = roomPlayers \ {p}
  /\ ranked' = ranked \ {p}
  /\ leaderboard' = [leaderboard EXCEPT ![p] = 0]
  /\ IF host = p THEN host' \in roomPlayers' ELSE host' = host

(* A socket closes while a game runs: the player stays in the room's sets.  *)
DropInGame(p) ==
  /\ Churn
  /\ conn[p] # None /\ status # "waiting"
  /\ ExitLocally(p, conn[p])
  /\ conn' = [conn EXCEPT ![p] = None]
  /\ UNCHANGED <<redisVars, joining, timerTask, scoringTask, startTask, history,
                  crashes>>

(* A socket closes in the lobby.  The player's hash keeps its gameId.       *)
LeaveLobby(p) ==
  /\ Churn
  /\ conn[p] # None /\ status = "waiting"
  /\ ExitLocally(p, conn[p])
  /\ ExitRoom(p)
  /\ conn' = [conn EXCEPT ![p] = None]
  /\ UNCHANGED <<status, mode, alive, known, quizVars, currentQuiz, timer, lockVars, joining,
                  timerTask, scoringTask, startTask, history, crashes>>

(* joinRoom while a game runs: who has a hash with the room's gameId is let *)
(* in again, on any WAS, a player of the running game or not.               *)
Reconnect(p, w) ==
  /\ Churn
  /\ conn[p] = None /\ joining[p] = None /\ p \in known /\ status # "waiting"
  /\ conn' = [conn EXCEPT ![p] = w]
  /\ clients' = [clients EXCEPT ![w] = @ + 1]
  /\ UNCHANGED <<redisVars, joining, dead, timerTask, scoringTask, startTask,
                  history, crashes>>

(* joinRoom in the lobby: the room is read first.  A player who was here    *)
(* before still has the gameId, and exits (again) on the WAS joined now,    *)
(* whether or not that WAS ever counted the player ...                      *)
BeginJoin(p, w) ==
  /\ Churn
  /\ conn[p] = None /\ joining[p] = None /\ status = "waiting"
  /\ joining' = [joining EXCEPT ![p] = w]
  /\ IF p \in known
     THEN ExitLocally(p, w) /\ ExitRoom(p)
     ELSE UNCHANGED <<clients, dead, roomPlayers, ranked, leaderboard, host>>
  /\ UNCHANGED <<status, mode, alive, known, quizVars, currentQuiz, timer, lockVars, conn,
                  timerTask, scoringTask, startTask, history, crashes>>

(* ... and the player is written afterwards, without a second look.         *)
FinishJoin(p) ==
  /\ joining[p] # None
  /\ joining' = [joining EXCEPT ![p] = None]
  /\ conn' = [conn EXCEPT ![p] = joining[p]]
  /\ clients' = [clients EXCEPT ![joining[p]] = @ + 1]
  /\ alive' = [alive EXCEPT ![p] = TRUE]
  /\ leaderboard' = [leaderboard EXCEPT ![p] = 0]
  /\ ranked' = ranked \cup {p}
  /\ roomPlayers' = roomPlayers \cup {p}
  /\ known' = known \cup {p}
  /\ UNCHANGED <<roomVars, quizVars, currentQuiz, timer, lockVars, dead, timerTask,
                  scoringTask, startTask, history, bounds>>

Busy(w) ==
  \/ tpc[w] # "idle"
  \/ \E h \in WAS : spc[w][h] # "idle"
  \/ \E r \in Requests : gwas[r] = w

(* A WAS restarts: its handlers and its memory are gone, its sockets closed.*)
Restart(w) ==
  /\ crashes < MaxCrash
  /\ crashes' = crashes + 1
  /\ broke' = (broke \/ Busy(w))
  /\ conn' = [p \in Players |-> IF conn[p] = w THEN None ELSE conn[p]]
  /\ joining' = [p \in Players |-> IF joining[p] = w THEN None ELSE joining[p]]
  /\ clients' = [clients EXCEPT ![w] = 0]
  /\ dead' = [dead EXCEPT ![w] = {}]
  /\ tpc' = [tpc EXCEPT ![w] = "idle"]
  /\ local' = [local EXCEPT ![w] = Fresh(NoTimer)]
  /\ spc' = [spc EXCEPT ![w] = [h \in WAS |-> "idle"]]
  /\ scnt' = [scnt EXCEPT ![w] = [h \in WAS |-> 0]]
  /\ snum' = [snum EXCEPT ![w] = [h \in WAS |-> 0]]
  /\ gpc' = [r \in Requests |-> IF gwas[r] = w THEN "idle" ELSE gpc[r]]
  /\ gwas' = [r \in Requests |-> IF gwas[r] = w THEN None ELSE gwas[r]]
  /\ UNCHANGED <<redisVars, games, view, passes, churn>>

PlayerStep ==
  \/ \E p \in Players : Kick(p) \/ DropInGame(p) \/ LeaveLobby(p)
  \/ \E p \in Players, w \in WAS : Reconnect(p, w) \/ BeginJoin(p, w)

(* Nothing is under way and nobody starts a game: the room may rest.        *)
Rest ==
  /\ status = "waiting" /\ timer = NoTimer /\ Quiet
  /\ \A r \in Requests : gpc[r] = "idle"
  /\ UNCHANGED vars

Next ==
  \/ \E r \in Requests : RequestStart(r) \/ StartStep(r)
  \/ ExpireTimer
  \/ \E w \in WAS : TimerStep(w) \/ Restart(w)
  \/ \E w, h \in WAS : ScoringStep(w, h)
  \/ PlayerStep
  \/ \E p \in Players : FinishJoin(p)
  \/ Rest

(* Redis answers and expires keys, and an event loop runs its handlers.     *)
Fairness ==
  /\ WF_vars(ExpireTimer)
  /\ \A r \in Requests : WF_vars(StartStep(r))
  /\ \A w \in WAS : WF_vars(TimerStep(w))
  /\ \A w, h \in WAS : WF_vars(ScoringStep(w, h))
  /\ \A p \in Players : WF_vars(FinishJoin(p))

Spec == Init /\ [][Next]_vars
FairSpec == Spec /\ Fairness

-----------------------------------------------------------------------------
(* Properties                                                               *)

TimerPCs == {"idle", "get", "readQuiz", "lock", "checkEnd", "revive", "endGame", "readNext",
             "store", "setCurrent", "arm"} \cup Critical
ScoringPCs == {"idle", "count", "compare", "results", "setEnd", "arm", "reset"}
StartPCs == {"idle", "clear", "register", "rank", "play", "current", "arm"}
Answers == Options \cup {0}
Views == [event : {"lobby", "start", "question", "result"}, num : QuizNums, place : Answers]
Locals == [num : -1..Cardinality(QuizPool), quiz : QuizPool \cup {NoQuiz}, ans : Answers,
           stored : BOOLEAN, clients : SUBSET Players, correct : SUBSET Players,
           wrong : SUBSET Players, ticket : Timers]

RedisOK ==
  /\ status \in {"waiting", "playing"} /\ mode \in Modes /\ host \in Players
  /\ roomPlayers \in SUBSET Players /\ ranked \in SUBSET Players
  /\ leaderboard \in [Players -> Nat] /\ alive \in [Players -> BOOLEAN]
  /\ known \in SUBSET Players
  /\ quizSet \in SUBSET QuizPool /\ registered \in SUBSET QuizPool
  /\ answer \in [QuizPool -> Answers]
  /\ currentQuiz \in [num : QuizNums, state : {"start", "end"}]
  /\ timer \in Timers
  /\ scoringStatus \in BOOLEAN /\ scoringCount \in Nat

MemoryOK ==
  /\ conn \in [Players -> WAS \cup {None}] /\ joining \in [Players -> WAS \cup {None}]
  /\ clients \in [WAS -> Nat] /\ dead \in [WAS -> SUBSET Players]
  /\ view \in [WAS -> Views] /\ passes \in [QuizNums -> Nat] /\ broke \in BOOLEAN
  /\ churn \in 0..MaxChurn /\ crashes \in 0..MaxCrash

TimerTaskOK ==
  /\ tpc \in [WAS -> TimerPCs] /\ local \in [WAS -> Locals]
  /\ \A w \in WAS : tpc[w] \notin {"revive", "endGame"} => local[w].num \in QuizNums

ScoringTaskOK ==
  /\ spc \in [WAS -> [WAS -> ScoringPCs]]
  /\ scnt \in [WAS -> [WAS -> Nat]] /\ snum \in [WAS -> [WAS -> QuizNums]]

StartTaskOK ==
  /\ gpc \in [Requests -> StartPCs] /\ gwas \in [Requests -> WAS \cup {None}]
  /\ games \in 0..MaxGames

(* Every variable keeps to the values the code can give it: list indices    *)
(* stay within the quiz list, answers within the options.                   *)
TypeOK == RedisOK /\ MemoryOK /\ TimerTaskOK /\ ScoringTaskOK /\ StartTaskOK

(* The scoring lock (SET NX ... DEL, without owner or expiry): two WAS are  *)
(* never inside a scoring pass together, the lock is held during a pass,    *)
(* and unless a restart has cut a handler off it is never left behind.      *)
ScoringExclusive ==
  /\ \A v, w \in WAS : tpc[v] \in Critical /\ tpc[w] \in Critical => v = w
  /\ (\E w \in WAS : tpc[w] \in Critical) => scoringStatus
  /\ scoringStatus /\ ~broke => \E w \in WAS : tpc[w] \in Critical

(* A running game always has something to move it on: when every handler is *)
(* at rest the timer is armed, or a startGame that will arm it is under way.*)
(* NX timers, lost locks and incomplete counts could all leave it without.  *)
NoStall ==
  status = "playing" /\ ~broke /\ Quiet =>
    timer # NoTimer \/ \E r \in Requests : gpc[r] # "idle"

(* Why it has: a game with neither timer nor request is driven by handlers, *)
(* each of which hands over to another, arms the timer or ends the game.    *)
ScoringMoves == \E w, h \in WAS : spc[w][h] \in ScoringPCs \ {"idle", "reset"}
Driven ==
  /\ (\E w \in WAS : tpc[w] \in TimerPCs \ {"idle", "unlock"}) \/ ScoringMoves
  /\ (\E w \in WAS : tpc[w] = "unlock") => ScoringMoves
  /\ \A p \in Players : joining[p] = None
  /\ \A w, h \in WAS : spc[w][h] \in {"count", "compare"} => EverybodyCounted(w, h)
  /\ \A w \in WAS : tpc[w] \in {"award", "publish"} => local[w].clients = roomPlayers
  /\ \A w \in WAS : tpc[w] = "readNext" => local[w].quiz \in registered
  /\ \A w \in WAS : tpc[w] \in {"store", "setCurrent", "arm"} => local[w].stored

GameDriven ==
  status = "playing" /\ ~broke =>
    timer # NoTimer \/ (\E r \in Requests : gpc[r] # "idle") \/ Driven

(* Every quiz of the room's list has its hash and its choices stored, also  *)
(* while startGame requests replace each other's list.                      *)
QuizSetStored == quizSet \subseteq registered

(* The count of scored clients is back at 0 when the scoring handlers rest: *)
(* what one quiz counted never leaks into the next one.                     *)
ScoringCountSettles == Quiet /\ ~broke => scoringCount = 0

(* "Lock against double scoring": a quiz is scored once in a game.          *)
NoRescoring == \A n \in QuizNums : passes[n] <= 1

(* RANKING: the pot of 1000 points is given away at most once per quiz, no  *)
(* matter who joins, leaves, is kicked or comes back.                       *)
PointsConserved ==
  mode = Ranking =>
    SumFunctionOnSet(leaderboard, ranked) <= Pot * Cardinality({n \in QuizNums : passes[n] > 0})

(* A handler does what its timer was armed for: quiz n is scored because    *)
(* the timer of quiz n ran out, and the next quiz follows the introduction  *)
(* or the result of the one before.                                         *)
ExpiryMatchesState ==
  \A w \in WAS :
    /\ tpc[w] \in {"readQuiz", "lock"} \cup Critical =>
         local[w].ticket = Armed("quiz", local[w].num)
    /\ tpc[w] = "checkEnd" => local[w].ticket \in {Armed("intro", local[w].num),
                                                  Armed("result", local[w].num)}

(* Positions are graded against the place where the players saw the right   *)
(* choice: the shuffle that was sent is the one whose answer was stored.    *)
GradedAsShown ==
  \A w, x \in WAS :
    tpc[w] \in {"grade", "award"} /\ LocalPlayers(x) # {} =>
      view[x] = View("question", local[w].num, local[w].ans)

(* The result announced for a quiz names the place the players were shown.  *)
ResultAsShown ==
  [][\A w \in WAS : view'[w] # view[w] /\ view'[w].event = "result" =>
       view[w] = [view'[w] EXCEPT !.event = "question"]]_view

(* Only startGame moves the room back to an earlier quiz.                   *)
QuizNumMonotone ==
  [][gpc' = gpc => currentQuiz'.num >= currentQuiz.num]_currentQuiz

(* SURVIVAL: what the WAS remembers of the dead, on which it decides        *)
(* whether a game goes on, is what Redis says (first game, nobody leaving). *)
DeadSetAgrees ==
  Quiet /\ games <= 1 /\ churn = 0 /\ crashes = 0 =>
    \A w \in WAS : view[w].event # "lobby" => dead[w] = {p \in roomPlayers : ~alive[p]}

(* "Everybody is revived for the next game": no game ends before its first  *)
(* question while all players are there.                                    *)
NoGameWithoutQuiz ==
  \A w \in WAS : tpc[w] \in {"revive", "endGame"} /\ churn = 0 => local[w].num > 0

(* A game that has started comes to its end.                                *)
GameEnds == status = "playing" ~> status = "waiting"
=============================================================================
