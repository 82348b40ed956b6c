----------------------------- MODULE QuizBoard -----------------------------
(***************************************************************************)
(* A quiz as it is played: startGame writes the quizzes of a copy to       *)
(* Redis, each quiz is dealt to the browsers with its choices shuffled,    *)
(* QuizOptionBoard highlights the choice that is clicked, and              *)
(* calculateAnswer reads the choice back from the position.  The client    *)
(* and the server compute it each in its own way.                          *)
(***************************************************************************)
EXTENDS Integers, FiniteSetsExt, SequencesExt

CONSTANT Grain  (* bound: the board is clicked in steps of 1 / Grain         *)

ASSUME BoardGrain == Grain \in Nat \ {0}

VARIABLES
  game,       (* what is left of Room:<id>:QuizSet, and the quiz being shown *)
  board       (* the player's stored position, and its browser's highlight   *)

table == <<game, board>>

NoGame == [set |-> 0, left |-> {}, quizzes |-> << >>, shown |-> 0, options |-> << >>, answer |-> 0]
NoPlace == [pos |-> <<0, 0>>, selected |-> -1, clicked |-> FALSE]

BoardInit == game = NoGame /\ board = NoPlace

-----------------------------------------------------------------------------
(* startGame: the hash of a quiz, with the number of its answer, and the    *)
(* hash of its choices by their numbers.  A set without an answer would end *)
(* the request with an exception.                                           *)
Keys(q) == {q.choices[i].order : i \in DOMAIN q.choices}
AnswerOf(q) == LET i == Min({i \in DOMAIN q.choices : q.choices[i].answer}) IN q.choices[i].order
RedisQuiz(q) == [answer |-> AnswerOf(q), count |-> Len(q.choices), keys |-> Keys(q)]
Answerable(qs) == \A i \in DOMAIN qs : \E j \in DOMAIN qs[i].choices : qs[i].choices[j].answer

Launch(id, qs) ==
  /\ Answerable(qs)
  /\ game' = [NoGame EXCEPT !.set = id, !.left = DOMAIN qs, !.quizzes = [i \in DOMAIN qs |-> RedisQuiz(qs[i])]]
  /\ UNCHANGED board

(* startNewQuiz: the choices in any order, the answer where it went.        *)
Shuffles(S) == {f \in [1..Cardinality(S) -> S] : \A i, j \in 1..Cardinality(S) : i # j => f[i] # f[j]}
PlaceOf(options, key) == CHOOSE i \in DOMAIN options : options[i] = key

(* The browser keeps the highlight of the last quiz.                        *)
Deal(q, options) ==
  /\ q \in game.left
  /\ game' = [game EXCEPT !.left = @ \ {q}, !.shown = q, !.options = options,
                          !.answer = PlaceOf(options, game.quizzes[q].answer)]
  /\ board' = [board EXCEPT !.clicked = FALSE]

-----------------------------------------------------------------------------
(* The board has two columns                                                *)

Halves(n) == (n + 1) \div 2
Rounded(k) == (2 * k + Grain) \div (2 * Grain)

(* handleMove: x and y are k / Grain and l / Grain of the board's width and *)
(* height.  The position travels as [y, x].  Bound: one click a quiz, as    *)
(* the last one overwrites what the others left.                            *)
OptionAt(x, y, n) == Rounded(x) + ((y * Halves(n)) \div Grain) * 2

Click(x, y) ==
  /\ game.shown # 0 /\ ~board.clicked
  /\ board' = [pos |-> <<y, x>>, clicked |-> TRUE, selected |-> OptionAt(x, y, Len(game.options))]
  /\ UNCHANGED game

(* calculateAnswer. *)
(* Fault: the number of rows is rounded down.                               *)
CalculateAnswerByFloor(pos, n) ==
  LET x == pos[2] y == pos[1] rows == n \div 2
  IN Min({((y * rows) \div Grain) * 2 + Rounded(x) + 1, n})
CalculateAnswer(pos, n) ==
  LET x == pos[2] y == pos[1] rows == (n + 1) \div 2
  IN Min({((y * rows) \div Grain) * 2 + Rounded(x) + 1, n})

Graded == CalculateAnswer(board.pos, game.quizzes[game.shown].count)

(* A choice of this quiz is highlighted, and by a click in this quiz.       *)
Highlighted == board.clicked /\ board.selected + 1 \in DOMAIN game.options

-----------------------------------------------------------------------------
BoardTypeOK ==
  /\ game.left \subseteq DOMAIN game.quizzes /\ game.shown \in 0..Len(game.quizzes)
  /\ game.answer \in 0..Len(game.options)
  /\ board.pos \in (0..Grain) \X (0..Grain) /\ board.selected \in Int /\ board.clicked \in BOOLEAN
=============================================================================
