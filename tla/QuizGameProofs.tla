--------------------------- MODULE QuizGameProofs ---------------------------
(***************************************************************************)
(* Theorems about QuizGame, for every value of its constants: its types,   *)
(* and what keeps a game correct and moving: the scoring lock excludes,    *)
(* every quiz of the list is stored, and a game never stalls unless a      *)
(* restart cuts a handler off.                                             *)
(***************************************************************************)
EXTENDS QuizGame, FiniteSetTheorems, WellFoundedInduction, TLAPS

-----------------------------------------------------------------------------
(* Lemmas about the values                                                  *)

(* There is at least one quiz, so -1 and 0 are quiz numbers.                *)
LEMMA QuizNumsType ==
  /\ Cardinality(QuizPool) \in Nat \ {0}
  /\ QuizNums \subseteq Int
  /\ -1 \in QuizNums /\ 0 \in QuizNums
<1>1. Cardinality(QuizPool) \in Nat
  BY FS_CardinalityType, QuizAssumption
<1>2. Cardinality(QuizPool) # 0
  BY <1>1, QuizAssumption
<1> QED
  BY <1>1, <1>2 DEF QuizNums

(* quizList[n] is a quiz of the room, or nothing.                           *)
LEMMA QuizAtType ==
  ASSUME RedisOK, NEW n
  PROVE  QuizAt(n) \in QuizPool \cup {NoQuiz}
<1>1. CASE \E q \in quizSet : Index(quizSet, q) = n
  <2>1. (CHOOSE q \in quizSet : Index(quizSet, q) = n) \in quizSet
    BY <1>1
  <2> QED
    BY <1>1, <2>1 DEF QuizAt, RedisOK
<1>2. CASE ~ \E q \in quizSet : Index(quizSet, q) = n
  BY <1>2 DEF QuizAt
<1> QED
  BY <1>1, <1>2

(* What Redis returns as the answer of a quiz is a place or 0.              *)
LEMMA StoredAnswerType ==
  ASSUME RedisOK, NEW q
  PROVE  StoredAnswer(q) \in Answers
BY DEF RedisOK, StoredAnswer, Answers

(* A shuffle puts a choice in one of the places.                            *)
LEMMA PlaceType ==
  ASSUME NEW f \in Shuffles, NEW key
  PROVE  PlaceOf(f, key) \in Answers
BY DEF PlaceOf, Answers, Shuffles, Bijection, Injection, Surjection

(* The share of the pot is a natural number.                                *)
LEMMA ShareType ==
  ASSUME NEW S \in SUBSET Players, S # {}
  PROVE  Pot \div Cardinality(S) \in Nat
<1>1. IsFiniteSet(S)
  BY FS_Subset, PlayersAssumption
<1>2. Cardinality(S) \in Nat /\ Cardinality(S) # 0
  BY <1>1, FS_CardinalityType, FS_EmptySet
<1>3. Pot \in Nat
  BY BoundsAssumption
<1> DEFINE c == Cardinality(S)
<1> HIDE DEF c
<1>4. c \in Nat /\ c # 0
  BY <1>2 DEF c
<1>5. Pot \div c \in Nat
  BY <1>3, <1>4
<1> QED
  BY <1>5 DEF c

(* The locals of a handler that starts or has ended.                        *)
LEMMA FreshType ==
  ASSUME NEW t \in Timers
  PROVE  Fresh(t) \in Locals /\ Fresh(t).num \in QuizNums
<1>1. 0 \in -1..Cardinality(QuizPool)
  BY QuizNumsType
<1> QED
  BY <1>1, QuizNumsType DEF Fresh, Locals, Answers

(* A step of the timer handler of one WAS.                                  *)
LEMMA TimerStepType ==
  ASSUME TimerTaskOK, NEW w \in WAS, NEW from, NEW to \in TimerPCs, GoTimer(w, from, to),
         NEW l \in Locals, to \notin {"revive", "endGame"} => l.num \in QuizNums,
         local' = [local EXCEPT ![w] = l]
  PROVE  TimerTaskOK'
BY DEF TimerTaskOK, GoTimer

LEMMA EndTimerType ==
  ASSUME TimerTaskOK, NEW w \in WAS, NEW from, EndTimer(w, from)
  PROVE  TimerTaskOK'
<1>1. NoTimer \in Timers
  BY QuizNumsType DEF NoTimer, Timers
<1> QED
  BY <1>1, FreshType, TimerStepType DEF EndTimer, TimerPCs

-----------------------------------------------------------------------------
(* Type correctness                                                         *)

LEMMA InitTypeOK == Init => TypeOK
<1> SUFFICES ASSUME Init PROVE TypeOK
  OBVIOUS
<1> USE QuizNumsType DEF Init
<1>1. RedisOK
  BY DEF RedisOK, Answers, NoTimer, Timers
<1>2. MemoryOK
  <2>1. \A w \in WAS : Cardinality({p \in Players : conn[p] = w}) \in Nat
    <3> SUFFICES ASSUME NEW w \in WAS
                 PROVE  Cardinality({p \in Players : conn[p] = w}) \in Nat
      OBVIOUS
    <3>1. IsFiniteSet({p \in Players : conn[p] = w})
      BY FS_Subset, PlayersAssumption
    <3> QED
      BY <3>1, FS_CardinalityType
  <2>2. clients \in [WAS -> Nat]
    BY <2>1
  <2>3. view \in [WAS -> Views]
    BY DEF Lobby, View, Views, Answers
  <2>4. conn \in [Players -> WAS \cup {None}] /\ joining \in [Players -> WAS \cup {None}]
    OBVIOUS
  <2>5. dead \in [WAS -> SUBSET Players] /\ passes \in [QuizNums -> Nat] /\ broke \in BOOLEAN
    OBVIOUS
  <2>6. churn \in 0..MaxChurn /\ crashes \in 0..MaxCrash
    BY BoundsAssumption
  <2> QED
    BY <2>2, <2>3, <2>4, <2>5, <2>6 DEF MemoryOK
<1>3. TimerTaskOK
  BY FreshType DEF TimerTaskOK, TimerPCs, NoTimer, Timers
<1>4. ScoringTaskOK
  BY DEF ScoringTaskOK, ScoringPCs
<1>5. StartTaskOK
  BY BoundsAssumption DEF StartTaskOK, StartPCs
<1> QED
  BY <1>1, <1>2, <1>3, <1>4, <1>5 DEF TypeOK

LEMMA StartTypeOK ==
  ASSUME TypeOK, NEW r \in Requests, RequestStart(r) \/ StartStep(r)
  PROVE  TypeOK'
<1> USE QuizNumsType, BoundsAssumption
    DEF TypeOK, RedisOK, MemoryOK, TimerTaskOK, ScoringTaskOK, StartTaskOK, GoStart, StartPCs, vars, redisVars, roomVars,
        memberVars, quizVars, lockVars, memoryVars, timerTask, scoringTask, startTask,
        history, bounds
<1>1. CASE RequestStart(r)
  BY <1>1 DEF RequestStart
<1>2. CASE ClearQuizzes(r)
  BY <1>2 DEF ClearQuizzes, Answers
<1>3. CASE RegisterQuizzes(r)
  BY <1>3, OptionsAssumption DEF RegisterQuizzes, Answers
<1>4. CASE ResetLeaderboard(r)
  BY <1>4 DEF ResetLeaderboard
<1>5. CASE AnnounceGame(r)
  BY <1>5 DEF AnnounceGame, View, Views, Answers
<1>6. CASE ResetCurrentQuiz(r)
  BY <1>6 DEF ResetCurrentQuiz
<1>7. CASE ArmIntroTimer(r)
  BY <1>7 DEF ArmIntroTimer, Armed, Timers
<1> QED
  BY <1>1, <1>2, <1>3, <1>4, <1>5, <1>6, <1>7 DEF StartStep

(* The expired event reaches every WAS.                                     *)
LEMMA ExpireTypeOK == TypeOK /\ ExpireTimer => TypeOK'
<1> SUFFICES ASSUME TypeOK, ExpireTimer PROVE TypeOK'
  OBVIOUS
<1> USE DEF TypeOK, ExpireTimer, redisVars, roomVars, memberVars, quizVars, lockVars,
        memoryVars, timerTask, scoringTask, startTask, history, bounds
<1>1. RedisOK'
  BY QuizNumsType DEF RedisOK, NoTimer, Timers
<1>2. MemoryOK'
  BY DEF MemoryOK
<1>3. TimerTaskOK'
  BY FreshType DEF TimerTaskOK, TimerPCs, RedisOK
<1>4. ScoringTaskOK' /\ StartTaskOK'
  BY DEF ScoringTaskOK, StartTaskOK
<1> QED
  BY <1>1, <1>2, <1>3, <1>4

(* A step of a timer handler.                                               *)
LEMMA TimerTypeOK ==
  ASSUME TypeOK, NEW w \in WAS, TimerStep(w)
  PROVE  TypeOK'
<1> USE DEF TypeOK, redisVars, roomVars, memberVars, quizVars, lockVars, memoryVars, timerTask,
        scoringTask, startTask, history, bounds
<1>a. local[w] \in Locals /\ tpc[w] \in TimerPCs
  BY DEF TimerTaskOK
<1>b. tpc[w] \notin {"revive", "endGame"} => local[w].num \in QuizNums
  BY DEF TimerTaskOK
<1>1. CASE GetCurrentQuiz(w)
  <2>1. TimerTaskOK'
    <3> DEFINE l == [local[w] EXCEPT !.num = currentQuiz.num]
    <3>1. local' = [local EXCEPT ![w] = l]
      BY <1>1 DEF GetCurrentQuiz
    <3>2. l \in Locals
      BY <1>a, QuizNumsType DEF Locals, RedisOK, QuizNums
    <3>3. PICK to \in TimerPCs : tpc[w] \notin {"revive", "endGame"} /\ GoTimer(w, tpc[w], to)
             /\ (to \notin {"revive", "endGame"} => l.num \in QuizNums)
      BY <1>1, <1>a, <1>b DEF GetCurrentQuiz, GoTimer, TimerPCs, Critical, Locals, RedisOK
    <3> HIDE DEF l
    <3> QED
      BY <3>2, <3>1, <3>3, TimerStepType
  <2>2. RedisOK'
    BY <1>1 DEF GetCurrentQuiz, RedisOK
  <2>3. MemoryOK'
    BY <1>1 DEF GetCurrentQuiz, MemoryOK
  <2>4. ScoringTaskOK' /\ StartTaskOK'
    BY <1>1 DEF GetCurrentQuiz, ScoringTaskOK, StartTaskOK
  <2> QED
    BY <2>1, <2>2, <2>3, <2>4
<1>2. CASE ReadQuiz(w)
  <2>1. TimerTaskOK'
    <3> DEFINE l == [local[w] EXCEPT !.ans = StoredAnswer(QuizAt(local[w].num))]
    <3>1. local' = [local EXCEPT ![w] = l]
      BY <1>2 DEF ReadQuiz
    <3>2. l \in Locals
      BY <1>a, StoredAnswerType DEF Locals
    <3>3. PICK to \in TimerPCs : tpc[w] \notin {"revive", "endGame"} /\ GoTimer(w, tpc[w], to)
             /\ (to \notin {"revive", "endGame"} => l.num \in QuizNums)
      BY <1>2, <1>a, <1>b DEF ReadQuiz, GoTimer, TimerPCs, Critical, Locals
    <3> HIDE DEF l
    <3> QED
      BY <3>2, <3>1, <3>3, TimerStepType
  <2>2. RedisOK'
    BY <1>2 DEF ReadQuiz, RedisOK
  <2>3. MemoryOK'
    BY <1>2 DEF ReadQuiz, MemoryOK
  <2>4. ScoringTaskOK' /\ StartTaskOK'
    BY <1>2 DEF ReadQuiz, ScoringTaskOK, StartTaskOK
  <2> QED
    BY <2>1, <2>2, <2>3, <2>4
<1>3. CASE TakeScoringLock(w)
  <2>1. TimerTaskOK'
    <3>1. local' = [local EXCEPT ![w] = local[w]]
      BY <1>3 DEF TakeScoringLock, TimerTaskOK
    <3>3. PICK to \in TimerPCs : tpc[w] \notin {"revive", "endGame"} /\ GoTimer(w, tpc[w], to)
             /\ (to \notin {"revive", "endGame"} => local[w].num \in QuizNums)
      BY <1>3, <1>a, <1>b DEF TakeScoringLock, GoTimer, TimerPCs, Critical, Locals
    <3> QED
      BY <1>a, <3>1, <3>3, TimerStepType
  <2>2. RedisOK'
    BY <1>3 DEF TakeScoringLock, RedisOK
  <2>3. MemoryOK'
    BY <1>3 DEF TakeScoringLock, MemoryOK
  <2>4. ScoringTaskOK' /\ StartTaskOK'
    BY <1>3 DEF TakeScoringLock, ScoringTaskOK, StartTaskOK
  <2> QED
    BY <2>1, <2>2, <2>3, <2>4
<1>4. CASE MissScoringLock(w)
  <2>1. TimerTaskOK'
    BY <1>4, EndTimerType DEF MissScoringLock
  <2>2. RedisOK'
    BY <1>4 DEF MissScoringLock, RedisOK
  <2>3. MemoryOK'
    BY <1>4 DEF MissScoringLock, MemoryOK
  <2>4. ScoringTaskOK' /\ StartTaskOK'
    BY <1>4 DEF MissScoringLock, ScoringTaskOK, StartTaskOK
  <2> QED
    BY <2>1, <2>2, <2>3, <2>4
<1>5. CASE Grade(w)
  <2>1. TimerTaskOK'
    <3>1. PICK right \in SUBSET {p \in roomPlayers : alive[p]} :
                 local' = [local EXCEPT ![w].clients = roomPlayers, ![w].correct = right,
                             ![w].wrong = {p \in roomPlayers : alive[p]} \ right]
      BY <1>5 DEF Grade
    <3> DEFINE l == [local[w] EXCEPT !.clients = roomPlayers, !.correct = right,
                                     !.wrong = {p \in roomPlayers : alive[p]} \ right]
    <3>2. local' = [local EXCEPT ![w] = l]
      BY <3>1
    <3>3. l \in Locals /\ l.num \in QuizNums
      BY <1>a, <1>b, <1>5 DEF Grade, GoTimer, Locals, RedisOK
    <3>4. GoTimer(w, "grade", "award") /\ "award" \in TimerPCs
      BY <1>5 DEF Grade, TimerPCs, Critical
    <3> HIDE DEF l
    <3> QED
      BY <3>2, <3>3, <3>4, TimerStepType
  <2>2. RedisOK'
    BY <1>5 DEF Grade, RedisOK
  <2>3. MemoryOK'
    BY <1>5 DEF Grade, MemoryOK
  <2>4. ScoringTaskOK' /\ StartTaskOK'
    BY <1>5 DEF Grade, ScoringTaskOK, StartTaskOK
  <2> QED
    BY <2>1, <2>2, <2>3, <2>4
<1>6. CASE Award(w)
  <2>1. TimerTaskOK'
    <3>1. local' = [local EXCEPT ![w] = local[w]]
      BY <1>6 DEF Award, TimerTaskOK
    <3>3. PICK to \in TimerPCs : tpc[w] \notin {"revive", "endGame"} /\ GoTimer(w, tpc[w], to)
             /\ (to \notin {"revive", "endGame"} => local[w].num \in QuizNums)
      BY <1>6, <1>a, <1>b DEF Award, GoTimer, TimerPCs, Critical, Locals
    <3> QED
      BY <1>a, <3>1, <3>3, TimerStepType
  <2>2. RedisOK'
    <3>1. CASE AwardRanking(w)
      <4>1. \A p \in local[w].correct : Pot \div Cardinality(local[w].correct) \in Nat
        BY <1>a, ShareType DEF Locals
      <4> DEFINE share == Pot \div Cardinality(local[w].correct)
      <4>2. leaderboard' = [p \in Players |-> leaderboard[p] + IF p \in local[w].correct THEN share ELSE 0]
        BY <3>1 DEF AwardRanking
      <4> HIDE DEF share
      <4>3. leaderboard' \in [Players -> Nat]
        BY <4>1, <4>2 DEF RedisOK, share
      <4> QED
        BY <1>6, <1>a, <3>1, <4>3 DEF Award, AwardRanking, RedisOK, Locals
    <3>2. CASE AwardSurvival(w)
      BY <1>6, <1>a, <3>2 DEF Award, AwardSurvival, RedisOK, Locals
    <3> QED
      BY <1>6, <3>1, <3>2 DEF Award
  <2>3. MemoryOK'
    <3>1. local[w].num \in QuizNums
      BY <1>6, <1>b DEF Award, GoTimer
    <3>2. passes' \in [QuizNums -> Nat]
      BY <1>6, <3>1 DEF Award, MemoryOK
    <3>3. dead' \in [WAS -> SUBSET Players]
      BY <1>6, <1>a DEF Award, AwardRanking, AwardSurvival, MemoryOK, Locals
    <3> QED
      BY <1>6, <3>2, <3>3 DEF Award, MemoryOK
  <2>4. ScoringTaskOK' /\ StartTaskOK'
    BY <1>6 DEF Award, ScoringTaskOK, StartTaskOK
  <2> QED
    BY <2>1, <2>2, <2>3, <2>4
<1>7. CASE PublishScoring(w)
  <2>1. TimerTaskOK'
    <3>1. local' = [local EXCEPT ![w] = local[w]]
      BY <1>7 DEF PublishScoring, TimerTaskOK
    <3>3. PICK to \in TimerPCs : tpc[w] \notin {"revive", "endGame"} /\ GoTimer(w, tpc[w], to)
             /\ (to \notin {"revive", "endGame"} => local[w].num \in QuizNums)
      BY <1>7, <1>a, <1>b DEF PublishScoring, GoTimer, TimerPCs, Critical, Locals
    <3> QED
      BY <1>a, <3>1, <3>3, TimerStepType
  <2>2. RedisOK'
    BY <1>7 DEF PublishScoring, RedisOK
  <2>3. MemoryOK'
    BY <1>7 DEF PublishScoring, MemoryOK
  <2>4. ScoringTaskOK' /\ StartTaskOK'
    <3>1. Cardinality(local[w].clients) \in Nat
      BY <1>a, FS_Subset, FS_CardinalityType, PlayersAssumption DEF Locals
    <3>2. spc' \in [WAS -> [WAS -> ScoringPCs]]
      BY <1>7 DEF PublishScoring, ScoringTaskOK, ScoringPCs
    <3>3. scnt' \in [WAS -> [WAS -> Nat]]
      BY <1>7, <3>1 DEF PublishScoring, ScoringTaskOK
    <3> QED
      BY <1>7, <3>2, <3>3 DEF PublishScoring, ScoringTaskOK, StartTaskOK
  <2> QED
    BY <2>1, <2>2, <2>3, <2>4
<1>8. CASE ReleaseScoringLock(w)
  <2>1. TimerTaskOK'
    BY <1>8, EndTimerType DEF ReleaseScoringLock
  <2>2. RedisOK'
    BY <1>8 DEF ReleaseScoringLock, RedisOK
  <2>3. MemoryOK'
    BY <1>8 DEF ReleaseScoringLock, MemoryOK
  <2>4. ScoringTaskOK' /\ StartTaskOK'
    BY <1>8 DEF ReleaseScoringLock, ScoringTaskOK, StartTaskOK
  <2> QED
    BY <2>1, <2>2, <2>3, <2>4
<1>9. CASE CheckEnd(w)
  <2>1. TimerTaskOK'
    <3> DEFINE n == local[w].num + 1
               over == HasNoMoreQuiz(n)
                       \/ CheckSurvivalEnd(roomPlayers, Cardinality(roomPlayers) - Cardinality(dead[w]))
               l == [local[w] EXCEPT !.num = n, !.clients = roomPlayers,
                                     !.quiz = IF over THEN NoQuiz ELSE QuizAt(n)]
               to == IF over THEN "revive" ELSE "readNext"
    <3>1. GoTimer(w, "checkEnd", to) /\ local' = [local EXCEPT ![w] = l]
      BY <1>9 DEF CheckEnd
    <3>2. local[w].num \in QuizNums
      BY <1>9, <1>b DEF CheckEnd, GoTimer
    <3>3. QuizAt(n) \in QuizPool \cup {NoQuiz}
      BY QuizAtType
    <3>4. l \in Locals
      <4>1. n \in -1..Cardinality(QuizPool)
        BY <3>2, QuizNumsType DEF QuizNums
      <4>2. (IF over THEN NoQuiz ELSE QuizAt(n)) \in QuizPool \cup {NoQuiz}
        BY <3>3
      <4> HIDE DEF n, over
      <4> QED
        BY <1>a, <4>1, <4>2 DEF Locals, RedisOK
    <3>5. ~over => n \in QuizNums
      <4>1. Cardinality(quizSet) \in Nat /\ Cardinality(quizSet) <= Cardinality(QuizPool)
        BY FS_Subset, FS_CardinalityType, QuizAssumption DEF RedisOK
      <4> QED
        BY <3>2, <4>1, QuizNumsType DEF HasNoMoreQuiz, QuizNums
    <3>6. to \in TimerPCs /\ (to \notin {"revive", "endGame"} => l.num \in QuizNums)
      <4>1. l.num = n
        BY <1>a DEF Locals
      <4> HIDE DEF l, n, over
      <4> QED
        BY <4>1, <3>5 DEF TimerPCs
    <3> HIDE DEF l, to
    <3> QED
      BY <3>1, <3>4, <3>6, TimerStepType
  <2>2. RedisOK'
    BY <1>9 DEF CheckEnd, RedisOK
  <2>3. MemoryOK'
    BY <1>9 DEF CheckEnd, MemoryOK
  <2>4. ScoringTaskOK' /\ StartTaskOK'
    BY <1>9 DEF CheckEnd, ScoringTaskOK, StartTaskOK
  <2> QED
    BY <2>1, <2>2, <2>3, <2>4
<1>10. CASE Revive(w)
  <2>1. TimerTaskOK'
    <3>1. local' = [local EXCEPT ![w] = local[w]]
      BY <1>10 DEF Revive, TimerTaskOK
    <3>3. GoTimer(w, "revive", "endGame")
      BY <1>10 DEF Revive
    <3> QED
      BY <1>a, <3>1, <3>3, TimerStepType DEF TimerPCs
  <2>2. RedisOK'
    BY <1>10 DEF Revive, RedisOK
  <2>3. MemoryOK'
    BY <1>10 DEF Revive, MemoryOK
  <2>4. ScoringTaskOK' /\ StartTaskOK'
    BY <1>10 DEF Revive, ScoringTaskOK, StartTaskOK
  <2> QED
    BY <2>1, <2>2, <2>3, <2>4
<1>11. CASE EndGame(w)
  <2>1. TimerTaskOK'
    BY <1>11, EndTimerType DEF EndGame
  <2>2. RedisOK'
    BY <1>11 DEF EndGame, RedisOK, TopScorers
  <2>3. MemoryOK'
    BY <1>11, QuizNumsType DEF EndGame, MemoryOK, Lobby, View, Views, Answers
  <2>4. ScoringTaskOK' /\ StartTaskOK'
    BY <1>11 DEF EndGame, ScoringTaskOK, StartTaskOK
  <2> QED
    BY <2>1, <2>2, <2>3, <2>4
<1>12. CASE ReadNext(w)
  <2>1. TimerTaskOK'
    <3> DEFINE l == [local[w] EXCEPT !.stored = local[w].quiz \in registered,
                                      !.ans = StoredAnswer(local[w].quiz)]
    <3>1. local' = [local EXCEPT ![w] = l]
      BY <1>12 DEF ReadNext
    <3>2. l \in Locals
      <4>1. StoredAnswer(local[w].quiz) \in Answers /\ (local[w].quiz \in registered) \in BOOLEAN
        BY StoredAnswerType
      <4> QED
        BY <1>a, <4>1 DEF Locals
    <3>3. PICK to \in TimerPCs : tpc[w] \notin {"revive", "endGame"} /\ GoTimer(w, tpc[w], to)
             /\ (to \notin {"revive", "endGame"} => l.num \in QuizNums)
      BY <1>12, <1>a, <1>b DEF ReadNext, GoTimer, TimerPCs, Critical, Locals
    <3> HIDE DEF l
    <3> QED
      BY <3>2, <3>1, <3>3, TimerStepType
  <2>2. RedisOK'
    BY <1>12 DEF ReadNext, RedisOK
  <2>3. MemoryOK'
    BY <1>12 DEF ReadNext, MemoryOK
  <2>4. ScoringTaskOK' /\ StartTaskOK'
    BY <1>12 DEF ReadNext, ScoringTaskOK, StartTaskOK
  <2> QED
    BY <2>1, <2>2, <2>3, <2>4
<1>13. CASE StoreAnswer(w)
  <2>1. TimerTaskOK'
    <3>1. local' = [local EXCEPT ![w] = local[w]]
      BY <1>13 DEF StoreAnswer, TimerTaskOK
    <3>3. PICK to \in TimerPCs : tpc[w] \notin {"revive", "endGame"} /\ GoTimer(w, tpc[w], to)
             /\ (to \notin {"revive", "endGame"} => local[w].num \in QuizNums)
      BY <1>13, <1>a, <1>b DEF StoreAnswer, GoTimer, TimerPCs, Critical, Locals
    <3> QED
      BY <1>a, <3>1, <3>3, TimerStepType
  <2>2. RedisOK'
    <3>1. PICK f \in Shuffles :
             answer' = [answer EXCEPT ![local[w].quiz] =
                          IF local[w].stored THEN PlaceOf(f, local[w].ans) ELSE 0]
      BY <1>13 DEF StoreAnswer
    <3>2. PlaceOf(f, local[w].ans) \in Answers
      BY PlaceType
    <3>3. answer' \in [QuizPool -> Answers]
      BY <3>1, <3>2 DEF RedisOK, Answers
    <3> QED
      BY <1>13, <3>3 DEF StoreAnswer, RedisOK
  <2>3. MemoryOK'
    <3>1. PICK f \in Shuffles :
             view' = [view EXCEPT ![w] = View("question", local[w].num,
                        IF local[w].stored THEN PlaceOf(f, RightChoice) ELSE 0)]
      BY <1>13 DEF StoreAnswer
    <3>2. PlaceOf(f, RightChoice) \in Answers /\ 0 \in Answers
      BY PlaceType DEF Answers
    <3>3. local[w].num \in QuizNums
      BY <1>13, <1>b DEF StoreAnswer, GoTimer
    <3>4. view' \in [WAS -> Views]
      BY <3>1, <3>2, <3>3 DEF MemoryOK, View, Views
    <3> QED
      BY <1>13, <3>4 DEF StoreAnswer, MemoryOK
  <2>4. ScoringTaskOK' /\ StartTaskOK'
    BY <1>13 DEF StoreAnswer, ScoringTaskOK, StartTaskOK
  <2> QED
    BY <2>1, <2>2, <2>3, <2>4
<1>14. CASE SetQuizStart(w)
  <2>1. TimerTaskOK'
    <3>1. local' = [local EXCEPT ![w] = local[w]]
      BY <1>14 DEF SetQuizStart, TimerTaskOK
    <3>3. PICK to \in TimerPCs : tpc[w] \notin {"revive", "endGame"} /\ GoTimer(w, tpc[w], to)
             /\ (to \notin {"revive", "endGame"} => local[w].num \in QuizNums)
      BY <1>14, <1>a, <1>b DEF SetQuizStart, GoTimer, TimerPCs, Critical, Locals
    <3> QED
      BY <1>a, <3>1, <3>3, TimerStepType
  <2>2. RedisOK'
    BY <1>14, <1>b DEF SetQuizStart, RedisOK, GoTimer, EndTimer
  <2>3. MemoryOK'
    BY <1>14 DEF SetQuizStart, MemoryOK
  <2>4. ScoringTaskOK' /\ StartTaskOK'
    BY <1>14 DEF SetQuizStart, ScoringTaskOK, StartTaskOK
  <2> QED
    BY <2>1, <2>2, <2>3, <2>4
<1>15. CASE ArmQuizTimer(w)
  <2>1. TimerTaskOK'
    BY <1>15, EndTimerType DEF ArmQuizTimer
  <2>2. RedisOK'
    BY <1>15, <1>b DEF ArmQuizTimer, RedisOK, ArmNX, Armed, Timers, GoTimer, EndTimer
  <2>3. MemoryOK'
    BY <1>15 DEF ArmQuizTimer, MemoryOK
  <2>4. ScoringTaskOK' /\ StartTaskOK'
    BY <1>15 DEF ArmQuizTimer, ScoringTaskOK, StartTaskOK
  <2> QED
    BY <2>1, <2>2, <2>3, <2>4
<1> QED
  BY <1>1, <1>2, <1>3, <1>4, <1>5, <1>6, <1>7, <1>8, <1>9, <1>10, <1>11, <1>12, <1>13, <1>14, <1>15 DEF TimerStep

(* A step of a scoring handler.                                             *)
LEMMA ScoringTypeOK ==
  ASSUME TypeOK, NEW w \in WAS, NEW h \in WAS, ScoringStep(w, h)
  PROVE  TypeOK'
<1> USE DEF TypeOK, redisVars, roomVars, memberVars, quizVars, lockVars, memoryVars, timerTask,
        scoringTask, startTask, history, bounds
<1>a. scnt[w][h] \in Nat /\ snum[w][h] \in QuizNums /\ scoringCount \in Nat
  BY DEF ScoringTaskOK, RedisOK
<1>1. CASE CountClients(w, h)
  <2>1. TimerTaskOK' /\ StartTaskOK'
    BY <1>1 DEF CountClients, EndScoring, TimerTaskOK, StartTaskOK
  <2>2. RedisOK'
    BY <1>1, <1>a DEF CountClients, EndScoring, RedisOK
  <2>3. MemoryOK'
    BY <1>1 DEF CountClients, EndScoring, MemoryOK
  <2>4. ScoringTaskOK'
    BY <1>1, <1>a, QuizNumsType DEF CountClients, GoScoring, EndScoring, ScoringTaskOK, ScoringPCs
  <2> QED
    BY <2>1, <2>2, <2>3, <2>4
<1>2. CASE ScoringComplete(w, h)
  <2>1. TimerTaskOK' /\ StartTaskOK'
    BY <1>2 DEF ScoringComplete, EndScoring, TimerTaskOK, StartTaskOK
  <2>2. RedisOK'
    BY <1>2, <1>a DEF ScoringComplete, EndScoring, RedisOK
  <2>3. MemoryOK'
    BY <1>2 DEF ScoringComplete, EndScoring, MemoryOK
  <2>4. ScoringTaskOK'
    BY <1>2, <1>a, QuizNumsType DEF ScoringComplete, GoScoring, EndScoring, ScoringTaskOK, ScoringPCs
  <2> QED
    BY <2>1, <2>2, <2>3, <2>4
<1>3. CASE ScoringIncomplete(w, h)
  <2>1. TimerTaskOK' /\ StartTaskOK'
    BY <1>3 DEF ScoringIncomplete, EndScoring, TimerTaskOK, StartTaskOK
  <2>2. RedisOK'
    BY <1>3, <1>a DEF ScoringIncomplete, EndScoring, RedisOK
  <2>3. MemoryOK'
    BY <1>3 DEF ScoringIncomplete, EndScoring, MemoryOK
  <2>4. ScoringTaskOK'
    BY <1>3, <1>a, QuizNumsType DEF ScoringIncomplete, GoScoring, EndScoring, ScoringTaskOK, ScoringPCs
  <2> QED
    BY <2>1, <2>2, <2>3, <2>4
<1>4. CASE AnnounceResults(w, h)
  <2>1. TimerTaskOK' /\ StartTaskOK'
    BY <1>4 DEF AnnounceResults, EndScoring, TimerTaskOK, StartTaskOK
  <2>2. RedisOK'
    BY <1>4, <1>a DEF AnnounceResults, EndScoring, RedisOK
  <2>3. MemoryOK'
    <3>1. currentQuiz.num \in QuizNums /\ StoredAnswer(QuizAt(currentQuiz.num)) \in Answers
      BY StoredAnswerType DEF RedisOK
    <3>2. view' \in [WAS -> Views]
      BY <1>4, <3>1 DEF AnnounceResults, MemoryOK, View, Views
    <3> QED
      BY <1>4, <3>2 DEF AnnounceResults, MemoryOK
  <2>4. ScoringTaskOK'
    BY <1>4, <1>a, QuizNumsType DEF AnnounceResults, GoScoring, EndScoring, ScoringTaskOK, ScoringPCs, RedisOK
  <2> QED
    BY <2>1, <2>2, <2>3, <2>4
<1>5. CASE SetQuizEnd(w, h)
  <2>1. TimerTaskOK' /\ StartTaskOK'
    BY <1>5 DEF SetQuizEnd, EndScoring, TimerTaskOK, StartTaskOK
  <2>2. RedisOK'
    BY <1>5, <1>a DEF SetQuizEnd, EndScoring, RedisOK
  <2>3. MemoryOK'
    BY <1>5 DEF SetQuizEnd, EndScoring, MemoryOK
  <2>4. ScoringTaskOK'
    BY <1>5, <1>a, QuizNumsType DEF SetQuizEnd, GoScoring, EndScoring, ScoringTaskOK, ScoringPCs
  <2> QED
    BY <2>1, <2>2, <2>3, <2>4
<1>6. CASE ArmResultTimer(w, h)
  <2>1. TimerTaskOK' /\ StartTaskOK'
    BY <1>6 DEF ArmResultTimer, EndScoring, TimerTaskOK, StartTaskOK
  <2>2. RedisOK'
    BY <1>6, <1>a DEF ArmResultTimer, EndScoring, RedisOK, ArmNX, Armed, Timers
  <2>3. MemoryOK'
    BY <1>6 DEF ArmResultTimer, EndScoring, MemoryOK
  <2>4. ScoringTaskOK'
    BY <1>6, <1>a, QuizNumsType DEF ArmResultTimer, GoScoring, EndScoring, ScoringTaskOK, ScoringPCs
  <2> QED
    BY <2>1, <2>2, <2>3, <2>4
<1>7. CASE ResetScoringCount(w, h)
  <2>1. TimerTaskOK' /\ StartTaskOK'
    BY <1>7 DEF ResetScoringCount, EndScoring, TimerTaskOK, StartTaskOK
  <2>2. RedisOK'
    BY <1>7, <1>a DEF ResetScoringCount, EndScoring, RedisOK
  <2>3. MemoryOK'
    BY <1>7 DEF ResetScoringCount, EndScoring, MemoryOK
  <2>4. ScoringTaskOK'
    BY <1>7, <1>a, QuizNumsType DEF ResetScoringCount, GoScoring, EndScoring, ScoringTaskOK, ScoringPCs
  <2> QED
    BY <2>1, <2>2, <2>3, <2>4
<1> QED
  BY <1>1, <1>2, <1>3, <1>4, <1>5, <1>6, <1>7 DEF ScoringStep

(* A player comes or goes, or a WAS restarts.                               *)
LEMMA PlayerTypeOK ==
  ASSUME TypeOK, PlayerStep \/ \E p \in Players : FinishJoin(p)
  PROVE  TypeOK'
<1> USE DEF TypeOK, redisVars, roomVars, memberVars, quizVars, lockVars, memoryVars, timerTask,
        scoringTask, startTask, history, bounds
<1> USE BoundsAssumption DEF Churn, ExitLocally, ExitRoom
<1>1. ASSUME NEW p \in Players, Kick(p) PROVE TypeOK'
  <2>1. TimerTaskOK' /\ ScoringTaskOK' /\ StartTaskOK'
    BY <1>1 DEF Kick, TimerTaskOK, ScoringTaskOK, StartTaskOK
  <2>2. RedisOK'
    BY <1>1 DEF Kick, RedisOK
  <2>3. MemoryOK'
    BY <1>1 DEF Kick, MemoryOK, RedisOK
  <2> QED
    BY <2>1, <2>2, <2>3
<1>2. ASSUME NEW p \in Players, DropInGame(p) PROVE TypeOK'
  <2>1. TimerTaskOK' /\ ScoringTaskOK' /\ StartTaskOK'
    BY <1>2 DEF DropInGame, TimerTaskOK, ScoringTaskOK, StartTaskOK
  <2>2. RedisOK'
    BY <1>2 DEF DropInGame, RedisOK
  <2>3. MemoryOK'
    BY <1>2 DEF DropInGame, MemoryOK
  <2> QED
    BY <2>1, <2>2, <2>3
<1>3. ASSUME NEW p \in Players, LeaveLobby(p) PROVE TypeOK'
  <2>1. TimerTaskOK' /\ ScoringTaskOK' /\ StartTaskOK'
    BY <1>3 DEF LeaveLobby, TimerTaskOK, ScoringTaskOK, StartTaskOK
  <2>2. RedisOK'
    BY <1>3 DEF LeaveLobby, RedisOK
  <2>3. MemoryOK'
    BY <1>3 DEF LeaveLobby, MemoryOK
  <2> QED
    BY <2>1, <2>2, <2>3
<1>4. ASSUME NEW p \in Players, NEW w \in WAS, Reconnect(p, w) PROVE TypeOK'
  <2>1. TimerTaskOK' /\ ScoringTaskOK' /\ StartTaskOK'
    BY <1>4 DEF Reconnect, TimerTaskOK, ScoringTaskOK, StartTaskOK
  <2>2. RedisOK'
    BY <1>4 DEF Reconnect, RedisOK
  <2>3. MemoryOK'
    BY <1>4 DEF Reconnect, MemoryOK
  <2> QED
    BY <2>1, <2>2, <2>3
<1>5. ASSUME NEW p \in Players, NEW w \in WAS, BeginJoin(p, w) PROVE TypeOK'
  <2>1. TimerTaskOK' /\ ScoringTaskOK' /\ StartTaskOK'
    BY <1>5 DEF BeginJoin, TimerTaskOK, ScoringTaskOK, StartTaskOK
  <2>2. RedisOK'
    BY <1>5 DEF BeginJoin, RedisOK
  <2>3. MemoryOK'
    BY <1>5 DEF BeginJoin, MemoryOK
  <2> QED
    BY <2>1, <2>2, <2>3
<1>6. ASSUME NEW p \in Players, FinishJoin(p) PROVE TypeOK'
  <2>1. TimerTaskOK' /\ ScoringTaskOK' /\ StartTaskOK'
    BY <1>6 DEF FinishJoin, TimerTaskOK, ScoringTaskOK, StartTaskOK
  <2>2. RedisOK'
    BY <1>6 DEF FinishJoin, RedisOK
  <2>3. MemoryOK'
    BY <1>6 DEF FinishJoin, MemoryOK
  <2> QED
    BY <2>1, <2>2, <2>3
<1> QED
  BY <1>1, <1>2, <1>3, <1>4, <1>5, <1>6 DEF PlayerStep

LEMMA RestartTypeOK ==
  ASSUME TypeOK, NEW w \in WAS, Restart(w)
  PROVE  TypeOK'
<1> USE DEF TypeOK, Restart, redisVars, roomVars, memberVars, quizVars, lockVars, memoryVars, timerTask,
        scoringTask, startTask, history, bounds
<1>1. RedisOK'
  BY DEF RedisOK
<1>2. MemoryOK'
  BY BoundsAssumption DEF MemoryOK, Busy
<1>3. TimerTaskOK'
  <2>1. Fresh(NoTimer) \in Locals /\ Fresh(NoTimer).num \in QuizNums
    BY FreshType, QuizNumsType DEF NoTimer, Timers
  <2> QED
    BY <2>1 DEF TimerTaskOK, TimerPCs
<1>4. ScoringTaskOK'
  BY QuizNumsType DEF ScoringTaskOK, ScoringPCs
<1>5. StartTaskOK'
  BY DEF StartTaskOK, StartPCs
<1> QED
  BY <1>1, <1>2, <1>3, <1>4, <1>5

LEMMA TypeInvariant == TypeOK /\ [Next]_vars => TypeOK'
<1> SUFFICES ASSUME TypeOK, [Next]_vars PROVE TypeOK'
  OBVIOUS
<1>1. CASE UNCHANGED vars \/ Rest
  BY <1>1 DEF Rest, TypeOK, RedisOK, MemoryOK, TimerTaskOK, ScoringTaskOK, StartTaskOK, vars,
              redisVars, roomVars, memberVars, quizVars, lockVars, memoryVars, timerTask,
              scoringTask, startTask, history, bounds
<1>2. ASSUME NEW r \in Requests, RequestStart(r) \/ StartStep(r) PROVE TypeOK'
  BY <1>2, StartTypeOK
<1>3. CASE ExpireTimer
  BY <1>3, ExpireTypeOK
<1>4. ASSUME NEW w \in WAS, TimerStep(w) \/ Restart(w) PROVE TypeOK'
  BY <1>4, TimerTypeOK, RestartTypeOK
<1>5. ASSUME NEW w \in WAS, NEW h \in WAS, ScoringStep(w, h) PROVE TypeOK'
  BY <1>5, ScoringTypeOK
<1>6. CASE PlayerStep \/ \E p \in Players : FinishJoin(p)
  BY <1>6, PlayerTypeOK
<1> QED
  BY <1>1, <1>2, <1>3, <1>4, <1>5, <1>6 DEF Next

(* The types are an invariant of the room, whatever the number of WAS,      *)
(* players, quizzes and requests: no list index of the handlers leaves the  *)
(* quiz list and no answer the options.                                     *)
THEOREM TypeCorrect == Spec => []TypeOK
<1>1. Init => TypeOK
  BY InitTypeOK
<1>2. TypeOK /\ [Next]_vars => TypeOK'
  BY TypeInvariant
<1> QED
  BY <1>1, <1>2, PTL DEF Spec

-----------------------------------------------------------------------------
(* The quiz list                                                            *)

(* A set of naturals has a least element.  (The finite sets 0..m are well   *)
(* founded by inclusion.)                                                   *)
LEMMA LeastNat ==
  ASSUME NEW T \in SUBSET Nat, T # {}
  PROVE  \E m \in T : \A k \in T : m <= k
<1> DEFINE Below == {0..m : m \in T}
<1>1. Below \subseteq FiniteSubsetsOf(Nat)
  <2> SUFFICES ASSUME NEW m \in T PROVE 0..m \in FiniteSubsetsOf(Nat)
    OBVIOUS
  <2>1. m \in Int /\ 0..m \in SUBSET Nat
    OBVIOUS
  <2> QED
    BY <2>1, FS_Interval DEF FiniteSubsetsOf
<1>2. PICK I \in Below : \A J \in Below : <<J, I>> \notin StrictSubsetOrdering(Nat)
  <2>1. Below # {}
    OBVIOUS
  <2> HIDE DEF Below
  <2> QED
    BY <1>1, <2>1, FS_StrictSubsetOrderingWellFounded, WFMin
<1>3. PICK m \in T : I = 0..m
  BY <1>2
<1>4. ASSUME NEW k \in T, k < m PROVE FALSE
  <2>1. 0..k \subseteq 0..m /\ 0..k # 0..m /\ 0..k \in SUBSET Nat /\ 0..m \in SUBSET Nat
    BY <1>4
  <2>2. <<0..k, 0..m>> \in StrictSubsetOrdering(Nat)
    BY <2>1 DEF StrictSubsetOrdering
  <2> QED
    BY <1>2, <1>3, <2>2
<1> QED
  BY <1>4

(* A list of n quizzes has a quiz at every index below n.                   *)
LEMMA IndexExists ==
  ASSUME NEW S \in SUBSET Nat, IsFiniteSet(S), NEW n \in Nat, n < Cardinality(S)
  PROVE  \E q \in S : Index(S, q) = n
<1> DEFINE Smaller(q) == {x \in S : x < q}
           Missing == {i \in Nat : i < Cardinality(S) /\ \A q \in S : Cardinality(Smaller(q)) # i}
<1>a. \A q \in S : IsFiniteSet(Smaller(q)) /\ Cardinality(Smaller(q)) \in Nat
  <2> SUFFICES ASSUME NEW q \in S PROVE IsFiniteSet(Smaller(q)) /\ Cardinality(Smaller(q)) \in Nat
    OBVIOUS
  <2>1. IsFiniteSet(Smaller(q))
    BY FS_Subset
  <2> QED
    BY <2>1, FS_CardinalityType
<1>1. SUFFICES ASSUME Missing # {} PROVE FALSE
  BY DEF Index
<1>2. PICK i \in Missing : \A k \in Missing : i <= k
  BY <1>1, LeastNat
<1>3. CASE i = 0
  <2>1. S # {}
    BY <1>2, <1>3, FS_EmptySet
  <2>2. PICK q \in S : \A x \in S : q <= x
    BY <2>1, LeastNat
  <2>3. Smaller(q) = {}
    <3>1. \A x \in S : x \in Nat /\ ~(x < q)
      BY <2>2
    <3> QED
      BY <3>1
  <2> QED
    BY <1>2, <1>3, <2>3, FS_EmptySet
<1>4. CASE i # 0
  <2>1. i - 1 \in Nat /\ i - 1 < Cardinality(S) /\ i - 1 \notin Missing
    <3>1. i \in Nat /\ i < Cardinality(S) /\ Cardinality(S) \in Nat
      BY <1>2, FS_CardinalityType
    <3> QED
      BY <1>2, <1>4, <3>1
  <2>2. PICK q \in S : Cardinality(Smaller(q)) = i - 1
    BY <2>1
  <2> DEFINE UpTo == Smaller(q) \cup {q}
             Above == {x \in S : x > q}
  <2>3. IsFiniteSet(UpTo) /\ Cardinality(UpTo) = i
    <3>1. q \notin Smaller(q)
      OBVIOUS
    <3>2. IsFiniteSet(UpTo) /\ Cardinality(UpTo) = Cardinality(Smaller(q)) + 1
      BY <1>a, <3>1, FS_AddElement
    <3> QED
      BY <2>1, <2>2, <3>2
  <2>4. Above # {}
    <3>1. SUFFICES ASSUME Above = {} PROVE FALSE
      OBVIOUS
    <3>2. \A x \in S : x < q \/ x = q \/ x > q
      OBVIOUS
    <3>3. S = UpTo
      BY <3>1, <3>2
    <3> QED
      BY <1>2, <2>3, <3>3
  <2>5. PICK m \in Above : \A x \in Above : m <= x
    BY <2>4, LeastNat
  <2>6. Smaller(m) = UpTo
    <3>1. m \in S /\ q < m
      BY <2>5
    <3>2. \A x \in S : x < m <=> x < q \/ x = q
      BY <2>5, <3>1
    <3> QED
      BY <3>1, <3>2
  <2> QED
    BY <1>2, <2>3, <2>5, <2>6
<1> QED
  BY <1>3, <1>4

-----------------------------------------------------------------------------
(* The scoring lock                                                         *)

(* Steps that are not of a timer handler leave its place and the lock alone.*)
LEMMA LockFrame ==
  ASSUME Next, ~ \E w \in WAS : TimerStep(w) \/ Restart(w), ~ExpireTimer
  PROVE  UNCHANGED <<tpc, scoringStatus, broke>>
<1> USE DEF redisVars, roomVars, memberVars, quizVars, lockVars, memoryVars, timerTask, scoringTask,
        startTask, history, bounds, vars
<1>1. ASSUME NEW r \in Requests, RequestStart(r) \/ StartStep(r)
      PROVE  UNCHANGED <<tpc, scoringStatus, broke>>
  BY <1>1 DEF RequestStart, StartStep, ClearQuizzes, RegisterQuizzes, ResetLeaderboard,
              AnnounceGame, ResetCurrentQuiz, ArmIntroTimer
<1>2. ASSUME NEW w \in WAS, NEW h \in WAS, ScoringStep(w, h)
      PROVE  UNCHANGED <<tpc, scoringStatus, broke>>
  BY <1>2 DEF ScoringStep, CountClients, ScoringComplete, ScoringIncomplete, AnnounceResults,
              SetQuizEnd, ArmResultTimer, ResetScoringCount
<1>3. CASE PlayerStep \/ \E p \in Players : FinishJoin(p)
  BY <1>3 DEF PlayerStep, Kick, DropInGame, LeaveLobby, Reconnect, BeginJoin, FinishJoin
<1>4. CASE Rest
  BY <1>4 DEF Rest
<1> QED
  BY <1>1, <1>2, <1>3, <1>4 DEF Next

LEMMA ExclusionInvariant == TypeOK /\ ScoringExclusive /\ [Next]_vars => ScoringExclusive'
<1> SUFFICES ASSUME TypeOK, ScoringExclusive, [Next]_vars PROVE ScoringExclusive'
  OBVIOUS
<1> USE DEF ScoringExclusive
<1>a. tpc \in [WAS -> TimerPCs] /\ scoringStatus \in BOOLEAN /\ broke \in BOOLEAN
  BY DEF TypeOK, TimerTaskOK, RedisOK, MemoryOK
<1>1. CASE UNCHANGED <<tpc, scoringStatus, broke>>
  BY <1>1
<1>2. CASE ExpireTimer
  <2>1. \A w \in WAS : tpc[w] \notin Critical /\ tpc'[w] \notin Critical
    BY <1>2 DEF ExpireTimer, Quiet, Critical
  <2> QED
    BY <1>2, <2>1 DEF ExpireTimer, lockVars, history
<1>3. ASSUME NEW w \in WAS, TimerStep(w) PROVE ScoringExclusive'
  <2>1. CASE TakeScoringLock(w)
    BY <2>1, <1>a DEF TakeScoringLock, GoTimer, Critical, history
  <2>2. CASE ReleaseScoringLock(w)
    BY <2>2, <1>a DEF ReleaseScoringLock, EndTimer, GoTimer, Critical, history
  <2>3. CASE Grade(w) \/ Award(w) \/ PublishScoring(w)
    <3>1. /\ tpc[w] \in Critical /\ tpc'[w] \in Critical
          /\ \A v \in WAS \ {w} : tpc'[v] = tpc[v]
          /\ UNCHANGED <<scoringStatus, broke>>
      BY <2>3, <1>a DEF Grade, Award, PublishScoring, GoTimer, Critical, history, redisVars, lockVars
    <3> QED
      BY <3>1
  <2>4. CASE GetCurrentQuiz(w) \/ ReadQuiz(w) \/ MissScoringLock(w) \/ CheckEnd(w) \/ Revive(w)
             \/ EndGame(w) \/ ReadNext(w) \/ StoreAnswer(w) \/ SetQuizStart(w) \/ ArmQuizTimer(w)
    <3>1. /\ tpc[w] \notin Critical /\ tpc'[w] \notin Critical
          /\ \A v \in WAS \ {w} : tpc'[v] = tpc[v]
          /\ UNCHANGED <<scoringStatus, broke>>
      BY <2>4, <1>a DEF GetCurrentQuiz, ReadQuiz, MissScoringLock, CheckEnd, Revive, EndGame,
         ReadNext, StoreAnswer, SetQuizStart, ArmQuizTimer, EndTimer, GoTimer, Critical, history,
         redisVars, lockVars
    <3> QED
      BY <3>1
  <2> QED
    BY <1>3, <2>1, <2>2, <2>3, <2>4 DEF TimerStep
<1>4. ASSUME NEW w \in WAS, Restart(w) PROVE ScoringExclusive'
  <2>1. /\ tpc'[w] \notin Critical
        /\ \A v \in WAS \ {w} : tpc'[v] = tpc[v]
        /\ UNCHANGED scoringStatus
    BY <1>4, <1>a DEF Restart, Critical, redisVars, lockVars
  <2>2. ~broke' => ~broke /\ tpc[w] \notin Critical
    BY <1>4 DEF Restart, Busy, Critical
  <2> QED
    BY <2>1, <2>2
<1>5. CASE UNCHANGED vars
  BY <1>1, <1>5 DEF vars, redisVars, lockVars, timerTask, history
<1> QED
  BY <1>1, <1>2, <1>3, <1>4, <1>5, LockFrame

(* Two WAS never score together, a pass holds the lock, and only a restart  *)
(* in the middle of a handler can leave the lock behind.                    *)
THEOREM ScoringExcludes == Spec => []ScoringExclusive
<1>1. Init => ScoringExclusive
  BY DEF Init, ScoringExclusive, Critical
<1>2. TypeOK /\ ScoringExclusive /\ [Next]_vars => ScoringExclusive'
  BY ExclusionInvariant
<1> QED
  BY <1>1, <1>2, TypeCorrect, PTL DEF Spec

-----------------------------------------------------------------------------
(* A game keeps moving                                                      *)

LEMMA StoredInvariant == QuizSetStored /\ [Next]_vars => QuizSetStored'
<1> SUFFICES ASSUME QuizSetStored, [Next]_vars PROVE QuizSetStored'
  OBVIOUS
<1> USE DEF QuizSetStored, redisVars, quizVars
<1>1. ASSUME NEW r \in Requests, RequestStart(r) \/ StartStep(r) PROVE QuizSetStored'
  BY <1>1 DEF RequestStart, StartStep, ClearQuizzes, RegisterQuizzes, ResetLeaderboard,
              AnnounceGame, ResetCurrentQuiz, ArmIntroTimer
<1>2. CASE ExpireTimer
  BY <1>2 DEF ExpireTimer
<1>3. ASSUME NEW w \in WAS, TimerStep(w) \/ Restart(w) PROVE QuizSetStored'
  BY <1>3 DEF TimerStep, GetCurrentQuiz, ReadQuiz, TakeScoringLock, MissScoringLock, Grade, Award,
     PublishScoring, ReleaseScoringLock, CheckEnd, Revive, EndGame, ReadNext, StoreAnswer,
     SetQuizStart, ArmQuizTimer, Restart
<1>4. ASSUME NEW w \in WAS, NEW h \in WAS, ScoringStep(w, h) PROVE QuizSetStored'
  BY <1>4 DEF ScoringStep, CountClients, ScoringComplete, ScoringIncomplete, AnnounceResults,
              SetQuizEnd, ArmResultTimer, ResetScoringCount
<1>5. CASE PlayerStep \/ \E p \in Players : FinishJoin(p)
  BY <1>5 DEF PlayerStep, Kick, DropInGame, LeaveLobby, Reconnect, BeginJoin, FinishJoin
<1>6. CASE Rest \/ UNCHANGED vars
  BY <1>6 DEF Rest, vars
<1> QED
  BY <1>1, <1>2, <1>3, <1>4, <1>5, <1>6 DEF Next

(* A step of a timer handler that neither arms the timer nor ends the game  *)
(* leaves the game driven: it goes on itself, has published its result, or  *)
(* found another WAS scoring.                                               *)
LEMMA TimerDrives ==
  ASSUME TypeOK, ScoringExclusive, QuizSetStored, Driven, ~broke, NEW w \in WAS, TimerStep(w),
         status' = "playing", timer' = NoTimer, timer = NoTimer
  PROVE  Driven'
<1>a. /\ tpc \in [WAS -> TimerPCs] /\ local \in [WAS -> Locals]
      /\ spc \in [WAS -> [WAS -> ScoringPCs]] /\ scnt \in [WAS -> [WAS -> Nat]]
      /\ tpc[w] \notin {"revive", "endGame"} => local[w].num \in QuizNums
  BY DEF TypeOK, TimerTaskOK, ScoringTaskOK
<1> USE DEF Driven, ScoringMoves, EverybodyCounted, TimerPCs, Critical, GoTimer, EndTimer,
            redisVars, roomVars, memberVars, quizVars, memoryVars, scoringTask
<1>1. CASE GetCurrentQuiz(w)
  BY <1>1, <1>a DEF GetCurrentQuiz, Locals
<1>2. CASE ReadQuiz(w)
  BY <1>2, <1>a DEF ReadQuiz, Locals
<1>3. CASE TakeScoringLock(w)
  BY <1>3, <1>a DEF TakeScoringLock, Locals
<1>4. CASE MissScoringLock(w)
  <2>1. PICK v \in WAS : tpc[v] \in Critical
    BY <1>4 DEF MissScoringLock, ScoringExclusive
  <2>2. v # w /\ tpc'[v] = tpc[v]
    BY <1>4, <1>a, <2>1 DEF MissScoringLock
  <2> QED
    BY <1>4, <1>a, <2>1, <2>2 DEF MissScoringLock
<1>5. CASE Grade(w)
  BY <1>5, <1>a DEF Grade, Locals
<1>6. CASE Award(w)
  BY <1>6, <1>a DEF Award, Locals
<1>7. CASE PublishScoring(w)
  <2>1. /\ tpc' = [tpc EXCEPT ![w] = "unlock"]
        /\ \A x, h \in WAS : spc'[x][h] = IF h = w THEN "count" ELSE spc[x][h]
        /\ \A x, h \in WAS : scnt'[x][h] = IF h = w THEN Cardinality(local[w].clients)
                                            ELSE scnt[x][h]
        /\ UNCHANGED <<local, joining, roomPlayers, registered>>
    BY <1>7, <1>a DEF PublishScoring
  <2>2. local[w].clients = roomPlayers
    BY <1>7 DEF PublishScoring
  <2>3. Cardinality(roomPlayers) \in Nat
    BY FS_Subset, FS_CardinalityType, PlayersAssumption DEF TypeOK, RedisOK
  <2>4. ScoringMoves'
    BY <2>1 DEF ScoringPCs
  <2>5. \A x, h \in WAS : spc'[x][h] \in {"count", "compare"} =>
                            scnt'[x][h] >= Cardinality(roomPlayers')
    BY <2>1, <2>2, <2>3
  <2> QED
    BY <1>a, <2>1, <2>4, <2>5
<1>8. CASE ReleaseScoringLock(w)
  BY <1>8, <1>a DEF ReleaseScoringLock, Locals
<1>9. CASE CheckEnd(w)
  <2> DEFINE n == local[w].num + 1
  <2>1. CASE tpc'[w] = "revive"
    BY <1>9, <1>a, <2>1 DEF CheckEnd
  <2>2. CASE tpc'[w] # "revive"
    <3>1. /\ tpc' = [tpc EXCEPT ![w] = "readNext"] /\ ~HasNoMoreQuiz(n)
          /\ local' = [local EXCEPT ![w] = [local[w] EXCEPT !.num = n, !.clients = roomPlayers,
                                                            !.quiz = QuizAt(n)]]
          /\ UNCHANGED <<spc, scnt, joining, roomPlayers, registered>>
      BY <1>9, <1>a, <2>2 DEF CheckEnd
    <3>2. n \in Nat
      BY <1>9, <1>a, QuizNumsType DEF CheckEnd, QuizNums
    <3>3. quizSet \in SUBSET Nat /\ IsFiniteSet(quizSet) /\ Cardinality(quizSet) \in Nat
      BY FS_Subset, FS_CardinalityType, QuizAssumption DEF TypeOK, RedisOK
    <3>4. n < Cardinality(quizSet)
      BY <3>1, <3>2, <3>3 DEF HasNoMoreQuiz
    <3>5. \E q \in quizSet : Index(quizSet, q) = n
      BY <3>2, <3>3, <3>4, IndexExists
    <3>6. QuizAt(n) \in registered
      BY <3>5 DEF QuizAt, QuizSetStored
    <3>7. local'[w].quiz \in registered'
      BY <1>a, <3>1, <3>6 DEF Locals
    <3>8. \A v \in WAS \ {w} : tpc'[v] = tpc[v] /\ local'[v] = local[v]
      BY <1>a, <3>1
    <3>9. tpc[w] = "checkEnd" /\ tpc'[w] = "readNext"
      BY <1>9, <1>a, <3>1 DEF CheckEnd
    <3> HIDE DEF n
    <3> QED
      BY <3>1, <3>7, <3>8, <3>9
  <2> QED
    BY <2>1, <2>2
<1>10. CASE Revive(w)
  BY <1>10, <1>a DEF Revive, Locals
<1>11. CASE EndGame(w)
  BY <1>11 DEF EndGame
<1>12. CASE ReadNext(w)
  <2>1. /\ tpc[w] = "readNext" /\ tpc' = [tpc EXCEPT ![w] = "store"]
        /\ local' = [local EXCEPT ![w].stored = local[w].quiz \in registered,
                                  ![w].ans = StoredAnswer(local[w].quiz)]
        /\ UNCHANGED <<spc, scnt, joining, roomPlayers, registered>>
    BY <1>12 DEF ReadNext
  <2>2. local[w].quiz \in registered
    BY <2>1
  <2>3. tpc'[w] = "store" /\ local'[w].stored
    BY <1>a, <2>1, <2>2 DEF Locals
  <2>4. \A v \in WAS \ {w} : tpc'[v] = tpc[v] /\ local'[v] = local[v]
    BY <1>a, <2>1
  <2>5. UNCHANGED <<spc, scnt, joining, roomPlayers, registered>>
    BY <2>1
  <2> QED
    BY <2>3, <2>4, <2>5
<1>13. CASE StoreAnswer(w)
  BY <1>13, <1>a DEF StoreAnswer, Locals
<1>14. CASE SetQuizStart(w)
  BY <1>14, <1>a DEF SetQuizStart, Locals
<1>15. CASE ArmQuizTimer(w)
  BY <1>15, <1>a DEF ArmQuizTimer, ArmNX, Armed, NoTimer
<1> QED
  BY <1>1, <1>2, <1>3, <1>4, <1>5, <1>6, <1>7, <1>8, <1>9, <1>10, <1>11, <1>12, <1>13, <1>14, <1>15 DEF TimerStep

(* A scoring handler goes on until it arms the timer: while the game is     *)
(* driven, everybody is counted.                                            *)
LEMMA ScoringDrives ==
  ASSUME TypeOK, Driven, NEW w \in WAS, NEW h \in WAS, ScoringStep(w, h),
         timer' = NoTimer, timer = NoTimer
  PROVE  Driven'
<1>a. /\ spc \in [WAS -> [WAS -> ScoringPCs]] /\ scnt \in [WAS -> [WAS -> Nat]]
      /\ scoringCount \in Nat
  BY DEF TypeOK, ScoringTaskOK, RedisOK
<1>b. Cardinality(roomPlayers) \in Nat
  BY FS_Subset, FS_CardinalityType, PlayersAssumption DEF TypeOK, RedisOK
<1> USE DEF Driven, ScoringMoves, EverybodyCounted, ScoringPCs, GoScoring, EndScoring,
            redisVars, roomVars, memberVars, quizVars, memoryVars, timerTask
<1>1. CASE CountClients(w, h)
  <2>1. /\ spc' = [spc EXCEPT ![w][h] = "compare"]
        /\ scnt' = [scnt EXCEPT ![w][h] = scoringCount + scnt[w][h]]
        /\ UNCHANGED <<tpc, local, joining, roomPlayers, registered>>
    BY <1>1 DEF CountClients
  <2>2. scnt[w][h] >= Cardinality(roomPlayers)
    BY <1>1 DEF CountClients
  <2>3. scoringCount + scnt[w][h] >= Cardinality(roomPlayers)
    BY <1>a, <1>b, <2>2
  <2>4. ScoringMoves'
    BY <1>a, <2>1
  <2>5. \A x, y \in WAS : spc'[x][y] \in {"count", "compare"} =>
                            scnt'[x][y] >= Cardinality(roomPlayers')
    <3>1. SUFFICES ASSUME NEW x \in WAS, NEW y \in WAS, spc'[x][y] \in {"count", "compare"}
                   PROVE  scnt'[x][y] >= Cardinality(roomPlayers')
      OBVIOUS
    <3>2. CASE x = w /\ y = h
      BY <1>a, <2>1, <2>3, <3>2
    <3>3. CASE ~(x = w /\ y = h)
      BY <1>a, <2>1, <3>1, <3>3
    <3> QED
      BY <3>2, <3>3
  <2> QED
    BY <2>1, <2>4, <2>5
<1>2. CASE ScoringComplete(w, h)
  BY <1>2, <1>a DEF ScoringComplete
<1>3. CASE ScoringIncomplete(w, h)
  BY <1>3, <1>a DEF ScoringIncomplete
<1>4. CASE AnnounceResults(w, h)
  BY <1>4, <1>a DEF AnnounceResults
<1>5. CASE SetQuizEnd(w, h)
  BY <1>5, <1>a DEF SetQuizEnd
<1>6. CASE ArmResultTimer(w, h)
  BY <1>6 DEF ArmResultTimer, ArmNX, Armed, NoTimer
<1>7. CASE ResetScoringCount(w, h)
  BY <1>7, <1>a DEF ResetScoringCount
<1> QED
  BY <1>1, <1>2, <1>3, <1>4, <1>5, <1>6, <1>7 DEF ScoringStep

(* Whoever finds the timer gone and no request left finds the game driven.  *)
LEMMA GameDrivenInvariant ==
  TypeOK /\ ScoringExclusive /\ QuizSetStored /\ GameDriven /\ [Next]_vars => GameDriven'
<1> SUFFICES ASSUME TypeOK, ScoringExclusive, QuizSetStored, GameDriven, [Next]_vars,
                    status' = "playing", ~broke', timer' = NoTimer,
                    \A r \in Requests : gpc'[r] = "idle"
             PROVE  Driven'
  BY DEF GameDriven
<1>a. /\ tpc \in [WAS -> TimerPCs] /\ spc \in [WAS -> [WAS -> ScoringPCs]]
      /\ gpc \in [Requests -> StartPCs] /\ broke \in BOOLEAN
  BY DEF TypeOK, TimerTaskOK, ScoringTaskOK, StartTaskOK, MemoryOK
<1> DEFINE Kept == UNCHANGED <<tpc, local, spc, scnt, joining, roomPlayers, registered>>
<1>b. Driven /\ Kept => Driven'
  BY DEF Driven, ScoringMoves, EverybodyCounted
<1>c. UNCHANGED <<status, timer, gpc>> /\ ~broke => Driven
  BY DEF GameDriven
<1>1. ASSUME NEW r \in Requests, RequestStart(r) \/ StartStep(r) PROVE Driven'
  <2>1. CASE ArmIntroTimer(r)
    BY <2>1 DEF ArmIntroTimer, Armed, NoTimer
  <2>2. CASE ~ArmIntroTimer(r)
    <3>1. gpc'[r] # "idle"
      BY <1>1, <1>a, <2>2 DEF RequestStart, StartStep, GoStart, ClearQuizzes, RegisterQuizzes,
         ResetLeaderboard, AnnounceGame, ResetCurrentQuiz
    <3> QED
      BY <3>1
  <2> QED
    BY <2>1, <2>2
<1>2. CASE ExpireTimer
  <2>1. /\ tpc' = [w \in WAS |-> "get"]
        /\ \A w, h \in WAS : spc'[w][h] = "idle"
        /\ \A p \in Players : joining'[p] = None
    BY <1>2 DEF ExpireTimer, Quiet, scoringTask, memoryVars
  <2> QED
    BY <2>1, WASAssumption DEF Driven, ScoringMoves, TimerPCs
<1>3. ASSUME NEW w \in WAS, TimerStep(w) PROVE Driven'
  <2>1. UNCHANGED <<gpc, broke>>
    BY <1>3 DEF TimerStep, GetCurrentQuiz, ReadQuiz, TakeScoringLock, MissScoringLock, Grade, Award,
       PublishScoring, ReleaseScoringLock, CheckEnd, Revive, EndGame, ReadNext, StoreAnswer,
       SetQuizStart, ArmQuizTimer, startTask, history
  <2>2. status = "playing" /\ timer = NoTimer
    BY <1>3 DEF TimerStep, GetCurrentQuiz, ReadQuiz, TakeScoringLock, MissScoringLock, Grade, Award,
       PublishScoring, ReleaseScoringLock, CheckEnd, Revive, EndGame, ReadNext, StoreAnswer,
       SetQuizStart, ArmQuizTimer, ArmNX, redisVars, roomVars
  <2>3. Driven
    BY <2>1, <2>2 DEF GameDriven
  <2> QED
    BY <1>3, <2>1, <2>2, <2>3, TimerDrives
<1>4. ASSUME NEW w \in WAS, NEW h \in WAS, ScoringStep(w, h) PROVE Driven'
  <2>1. UNCHANGED <<gpc, broke, status>>
    BY <1>4 DEF ScoringStep, CountClients, ScoringComplete, ScoringIncomplete, AnnounceResults,
       SetQuizEnd, ArmResultTimer, ResetScoringCount, startTask, history, redisVars, roomVars
  <2>2. timer = NoTimer
    BY <1>4 DEF ScoringStep, CountClients, ScoringComplete, ScoringIncomplete, AnnounceResults,
       SetQuizEnd, ArmResultTimer, ResetScoringCount, ArmNX, redisVars
  <2>3. Driven
    BY <2>1, <2>2 DEF GameDriven
  <2> QED
    BY <1>4, <2>2, <2>3, ScoringDrives
<1>5. CASE PlayerStep
  <2>1. /\ UNCHANGED <<status, timer, gpc, broke, tpc, local, spc, scnt, registered>>
        /\ status = "waiting" \/ UNCHANGED <<joining, roomPlayers>>
    BY <1>5 DEF PlayerStep, Kick, DropInGame, LeaveLobby, Reconnect, BeginJoin, redisVars, roomVars,
       memberVars, quizVars, timerTask, scoringTask, startTask, history
  <2> QED
    BY <1>b, <1>c, <2>1
<1>6. ASSUME NEW p \in Players, FinishJoin(p) PROVE Driven'
  <2>1. UNCHANGED <<status, timer, gpc, broke>> /\ joining[p] # None
    BY <1>6 DEF FinishJoin, roomVars, startTask, history
  <2> QED
    BY <1>c, <2>1 DEF Driven
<1>7. ASSUME NEW w \in WAS, Restart(w) PROVE Driven'
  <2>1. ~broke /\ ~Busy(w)
    BY <1>7 DEF Restart
  <2>2. /\ tpc[w] = "idle" /\ \A h \in WAS : spc[w][h] = "idle"
        /\ \A r \in Requests : gwas[r] # w
    BY <2>1 DEF Busy
  <2>3. UNCHANGED <<status, timer, roomPlayers, registered>>
    BY <1>7 DEF Restart, redisVars, roomVars, memberVars, quizVars
  <2>4. gpc' = gpc
    BY <1>7, <1>a, <2>2 DEF Restart
  <2>5. Driven
    BY <1>c, <2>1, <2>3, <2>4
  <2>6. /\ tpc' = tpc
        /\ \A x, y \in WAS : spc'[x][y] = spc[x][y]
        /\ \A x, y \in WAS : spc'[x][y] # "idle" => scnt'[x][y] = scnt[x][y]
        /\ \A x \in WAS : tpc'[x] # "idle" => local'[x] = local[x]
    <3>1. scnt \in [WAS -> [WAS -> Nat]] /\ local \in [WAS -> Locals]
      BY DEF TypeOK, ScoringTaskOK, TimerTaskOK
    <3> QED
      BY <1>7, <1>a, <2>2, <3>1 DEF Restart
  <2>7. \A p \in Players : joining'[p] = None
    BY <1>7, <2>5 DEF Restart, Driven
  <2>8. (\E x \in WAS : tpc'[x] \in TimerPCs \ {"idle", "unlock"}) \/ ScoringMoves'
    BY <2>5, <2>6 DEF Driven, ScoringMoves
  <2>9. (\E x \in WAS : tpc'[x] = "unlock") => ScoringMoves'
    BY <2>5, <2>6 DEF Driven, ScoringMoves
  <2>10. \A x, y \in WAS : spc'[x][y] \in {"count", "compare"} => EverybodyCounted(x, y)'
    BY <2>3, <2>5, <2>6 DEF Driven, EverybodyCounted
  <2> QED
    BY <2>3, <2>5, <2>6, <2>7, <2>8, <2>9, <2>10 DEF Driven
<1>8. CASE Rest \/ UNCHANGED vars
  <2>1. UNCHANGED <<status, timer, gpc, broke>> /\ Kept
    BY <1>8 DEF Rest, vars, redisVars, roomVars, memberVars, quizVars, memoryVars, timerTask,
       scoringTask, startTask, history
  <2> QED
    BY <1>b, <1>c, <2>1
<1> QED
  BY <1>1, <1>2, <1>3, <1>4, <1>5, <1>6, <1>7, <1>8 DEF Next

(* Every quiz of the room's list has its hash and choices, also while       *)
(* startGame requests replace each other's list.                            *)
THEOREM ListStored == Spec => []QuizSetStored
<1>1. Init => QuizSetStored
  BY DEF Init, QuizSetStored
<1> QED
  BY <1>1, StoredInvariant, PTL DEF Spec

(* A game that waits for nothing is driven: by a handler that hands over to *)
(* another, arms the timer or ends the game.                                *)
THEOREM GameAlwaysDriven == Spec => []GameDriven
<1>1. Init => GameDriven
  BY DEF Init, GameDriven
<1>2. TypeOK /\ ScoringExclusive /\ QuizSetStored /\ GameDriven /\ [Next]_vars => GameDriven'
  BY GameDrivenInvariant
<1> QED
  BY <1>1, <1>2, TypeCorrect, ScoringExcludes, ListStored, PTL DEF Spec

(* With all handlers at rest a game in progress has its timer armed, or a   *)
(* startGame under way, unless a restart has cut a handler off.             *)
THEOREM GameNeverStalls == Spec => []NoStall
<1>1. GameDriven => NoStall
  BY DEF GameDriven, NoStall, Driven, ScoringMoves, Quiet
<1> QED
  BY <1>1, GameAlwaysDriven, PTL
=============================================================================
