------------------------------ MODULE QuizShow ------------------------------
(***************************************************************************)
(* What the players of a room are promised: after START_GAME the quizzes   *)
(* come one by one in order, each question (START_QUIZ_TIME) is followed   *)
(* by its own result (END_QUIZ_TIME), there are at most Count of them, and *)
(* the game ends (END_GAME) after a result, or before the first question   *)
(* when too few players are left.                                          *)
(***************************************************************************)
EXTENDS Integers

CONSTANT Count     (* quizzes of a game *)
VARIABLES event,   (* the last event the players received *)
          num      (* the quiz it was about *)

showVars == <<event, num>>

ShowInit == event = "lobby" /\ num = 0

Begin == event = "lobby" /\ event' = "start" /\ num' = -1

Ask ==
  /\ event \in {"start", "result"}
  /\ num + 1 < Count
  /\ event' = "question" /\ num' = num + 1

Reveal == event = "question" /\ event' = "result" /\ num' = num

End == event \in {"start", "result"} /\ event' = "lobby" /\ num' = 0

ShowNext == Begin \/ Ask \/ Reveal \/ End

ShowSpec == ShowInit /\ [][ShowNext]_showVars /\ WF_showVars(Ask \/ Reveal \/ End)
=============================================================================
