------------------------------- MODULE Screen -------------------------------
(***************************************************************************)
(* The page of a game as one player, Me, sees it while the room plays the  *)
(* show of QuizShow: header, board, list of players and results follow the *)
(* events of the server, timers of the page, and the button that closes    *)
(* the results, which the player may press at any time.  The server's own  *)
(* work between two events is QuizGame; an event is sent and heard at once.*)
(***************************************************************************)
EXTENDS Integers, FiniteSets, SequencesExt

CONSTANTS
  Audience, Me,   (* the players who may come, and the one in front          *)
  Questions,      (* quizzes of a game                                       *)
  Pot,            (* points of a quiz, shared by those who are right         *)
  MaxTurns        (* bound: games, kicks, comings and goings                 *)

ASSUME ScreenBounds ==
  Me \in Audience /\ IsFiniteSet(Audience) /\ {Questions, Pot, MaxTurns} \subseteq Nat \ {0}

VARIABLES
  event, num,     (* of the show                                             *)
  stage,          (* the room: mode; points (Leaderboard, of its players);
                     alive (isAlive); correct (isAnswerCorrect).  History:
                     winners of the last quiz, survivors and played of the
                     last game, and kicked, who is out of every list         *)
  screen,         (* gameState; quizState; quiz (currentQuiz) and whether it
                     has begun; list (players of usePlayerStore); fading, the
                     3 s timer runs; verdict, the AnswerModal counts down;
                     results, the ResultModal is open                        *)
  attentive,      (* history: Me closed the last results before the next game,
                     and no snapshot came since then, nor showed anybody who
                     had been kicked before                                  *)
  turns

show == <<event, num, stage, screen, attentive, turns>>

Show == INSTANCE QuizShow WITH Count <- Questions

NoQuiz == -1
Entry(alive, answer, score) == [alive |-> alive, answer |-> answer, score |-> score]
Fresh == Entry(TRUE, TRUE, 0)
Present == DOMAIN stage.points
OnList == DOMAIN screen.list
InGame == event # "lobby"

With(f, p, x) == [q \in DOMAIN f \union {p} |-> IF q = p THEN x ELSE f[q]]
Without(f, p) == [q \in DOMAIN f \ {p} |-> f[q]]
Turn == turns < MaxTurns /\ turns' = turns + 1

ScreenInit ==
  /\ Show!ShowInit
  /\ \E mode \in {"RANKING", "SURVIVAL"} :
       stage = [mode |-> mode, points |-> [p \in Audience |-> 0], alive |-> Audience, correct |-> {},
                winners |-> {}, survivors |-> {}, played |-> {}, kicked |-> {}]
  /\ screen = [gameState |-> "WAIT", quizState |-> "progress", quiz |-> NoQuiz, begun |-> FALSE,
               list |-> [p \in Audience |-> Fresh], fading |-> FALSE, verdict |-> FALSE, results |-> FALSE]
  /\ attentive = TRUE /\ turns = 0

-----------------------------------------------------------------------------
(* What is drawn                                                            *)

Header ==
  CASE screen.gameState = "WAIT"                         -> "lobby"
    [] screen.gameState # "WAIT" /\ screen.quiz = NoQuiz -> "soon"
    [] OTHER -> IF screen.begun THEN "question" ELSE "countdown"

(* The right choice glows on the board.                                     *)
Revealed == screen.quizState = "end" /\ screen.quiz # NoQuiz /\ screen.begun

(* Characters on the board, and the list of survivors.                      *)
ShownAlive == {p \in OnList : screen.list[p].alive}

Verdict ==
  CASE ~screen.verdict \/ Header # "question" -> "none"
    [] OTHER -> IF ~screen.list[Me].alive THEN "announcement"
                ELSE IF screen.list[Me].answer THEN "right" ELSE "wrong"

(* calculateRanks, over the players sorted by their scores.                 *)
Sorted ==
  CHOOSE s \in SetToSeqs(OnList) : \A i, j \in DOMAIN s : i < j => screen.list[s[i]].score >= screen.list[s[j]].score
CalculateRanks ==
  LET Score(i) == screen.list[Sorted[i]].score
      rank[i \in DOMAIN Sorted] == IF i > 1 /\ Score(i) = Score(i - 1) THEN rank[i - 1] ELSE i
  IN rank

-----------------------------------------------------------------------------
(* The show.  The timers of the page are over in 3 s, the result stands for *)
(* 10 s and a question for 3 s more than its countdown.                     *)

Rested == ~screen.fading /\ ~screen.verdict

(* The button is the host's; whoever has not closed the last results sees   *)
(* the new game all the same.                                               *)
StartGame ==
  /\ Show!Begin /\ Turn
  /\ stage' = [stage EXCEPT !.points = [p \in Present |-> 0]]
  /\ screen' = [screen EXCEPT !.gameState = "PROGRESS"]
  /\ attentive' = (attentive /\ ~screen.results)

StartQuizTime ==
  /\ Show!Ask /\ Rested
  /\ screen' = [screen EXCEPT !.quizState = "start", !.quiz = num', !.begun = FALSE]
  /\ UNCHANGED <<stage, attentive, turns>>

Begins ==
  /\ screen.quiz # NoQuiz /\ ~screen.begun
  /\ screen' = [screen EXCEPT !.begun = TRUE]
  /\ UNCHANGED <<event, num, stage, attentive, turns>>

(* handleQuizScoring: who is right and alive shares the pot, or the wrong   *)
(* ones die.                                                                *)
Scored(right) ==
  LET graded == stage.alive \intersect Present
      ranking == stage.mode = "RANKING" IN
  [stage EXCEPT
    !.winners = right, !.correct = (@ \ graded) \union right,
    !.points = [p \in Present |->
      IF p \notin graded THEN @[p]
      ELSE IF ranking THEN @[p] + (IF p \in right THEN Pot \div Cardinality(right) ELSE 0)
      ELSE IF p \in right THEN 1 ELSE 0],
    !.alive = IF ranking THEN @ ELSE @ \ (graded \ right)]

(* The list is that of the leaderboard; of who was not listed nothing but   *)
(* the score is known.                                                      *)
Results(s) ==
  [p \in DOMAIN s.points |->
    Entry(p \in OnList /\ screen.list[p].alive, p \in s.correct, s.points[p])]

EndQuizTime ==
  /\ Show!Reveal /\ (screen.quiz # NoQuiz => screen.begun)
  /\ \E right \in SUBSET (stage.alive \intersect Present) : stage' = Scored(right)
  /\ screen' = [screen EXCEPT !.quizState = "end", !.list = Results(stage'),
                              !.fading = stage.mode = "SURVIVAL", !.verdict = Header = "question"]
  /\ UNCHANGED <<attentive, turns>>

(* The timer of endQuizTime looks at the list as it is by now.              *)
Fade ==
  /\ screen.fading
  /\ screen' = [screen EXCEPT !.fading = FALSE,
                              !.list = [p \in OnList |-> [screen.list[p] EXCEPT !.alive = @ /\ screen.list[p].answer]]]
  /\ UNCHANGED <<event, num, stage, attentive, turns>>

VerdictEnds ==
  /\ screen.verdict /\ screen' = [screen EXCEPT !.verdict = FALSE]
  /\ UNCHANGED <<event, num, stage, attentive, turns>>

EndGame ==
  /\ Show!End /\ Rested
  /\ stage' = [stage EXCEPT !.survivors = stage.alive, !.alive = @ \union Present, !.played = Present]
  /\ screen' = [screen EXCEPT !.gameState = "END", !.quiz = NoQuiz, !.begun = FALSE, !.results = TRUE]
  /\ UNCHANGED <<attentive, turns>>

-----------------------------------------------------------------------------
(* The player and the others                                                *)

(* resetScore *)
(* Fault: only the scores.                                                  *)
ResetPoints == [p \in OnList |-> [screen.list[p] EXCEPT !.score = 0]]
ResetScore == [p \in OnList |-> Fresh]

(* handleEndGame: the page goes back to the waiting room, wherever the game *)
(* has got to by then.                                                      *)
CloseResults ==
  /\ screen.results
  /\ screen' = [screen EXCEPT !.gameState = "WAIT", !.list = ResetScore, !.results = FALSE, !.verdict = FALSE]
  /\ attentive' = (~InGame /\ OnList \intersect stage.kicked \subseteq stage.alive)
  /\ UNCHANGED <<event, num, stage, turns>>

(* A kicked player stays in the room until it goes: only the lists drop it. *)
Kick(p) ==
  /\ p \in Present \ {Me} /\ Turn
  /\ stage' = [stage EXCEPT !.alive = @ \ {p}, !.kicked = @ \union {p}]
  /\ screen' = [screen EXCEPT !.list = Without(@, p)]
  /\ UNCHANGED <<event, num, attentive>>

(* Joins and exits of a waiting room; who drops out of a game stays in it.  *)
Enters(p) ==
  /\ ~InGame /\ p \in Audience \ Present /\ Turn
  /\ stage' = [stage EXCEPT !.points = With(@, p, 0), !.alive = @ \union {p},
                            !.kicked = @ \ {p}, !.played = @ \ {p}]
  /\ screen' = [screen EXCEPT !.list = With(@, p, Fresh)]
  /\ UNCHANGED <<event, num, attentive>>

Exits(p) ==
  /\ ~InGame /\ p \in Present \ {Me} /\ Turn
  /\ stage' = [stage EXCEPT !.points = Without(@, p), !.played = @ \ {p}]
  /\ screen' = [screen EXCEPT !.list = Without(@, p)]
  /\ UNCHANGED <<event, num, attentive>>

(* The connection drops and comes back: the stores are reset, and the       *)
(* snapshot of joinRoom shows everybody alive and without points.  The      *)
(* state of the page itself, the results, stays.                            *)
Reconnects ==
  /\ Turn
  /\ stage' = IF InGame THEN stage
              ELSE [stage EXCEPT !.points = [@ EXCEPT ![Me] = 0], !.alive = @ \union {Me}, !.played = @ \ {Me}]
  /\ screen' = [screen EXCEPT !.gameState = IF InGame THEN "PROGRESS" ELSE "WAIT", !.quizState = "progress",
                              !.quiz = NoQuiz, !.begun = FALSE, !.verdict = FALSE,
                              !.list = [p \in Present |-> Fresh]]
  /\ attentive' = FALSE /\ UNCHANGED <<event, num>>

ShowSteps ==
  \/ StartGame \/ StartQuizTime \/ Begins \/ EndQuizTime \/ Fade \/ VerdictEnds \/ EndGame
  \/ CloseResults \/ Reconnects
  \/ \E p \in Audience : Kick(p) \/ Enters(p) \/ Exits(p)

-----------------------------------------------------------------------------
ScreenTypeOK ==
  /\ num \in -1..(Questions - 1) /\ turns \in 0..MaxTurns
  /\ Present \subseteq Audience /\ Me \in Present
  /\ \A p \in Present : stage.points[p] \in 0..(Pot * Questions)
  /\ OnList \subseteq Audience /\ screen.quiz \in NoQuiz..(Questions - 1)
=============================================================================
