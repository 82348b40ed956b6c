--------------------------- MODULE MCQuizGameSolo ---------------------------
(* One WAS: every promise to the players is checked here.                   *)
EXTENDS QuizGame

(* The players of the only WAS see the show of QuizShow.                    *)
TheWAS == CHOOSE w \in WAS : TRUE
Show == INSTANCE QuizShow WITH Count <- QuizCount, event <- view[TheWAS].event,
                               num <- view[TheWAS].num

(* The room implements the show: no question is skipped, repeated or left   *)
(* without its result, and a game that has begun ends.                      *)
ImplementsShow == Show!ShowSpec
=============================================================================
