------------------------------ MODULE QuizForm ------------------------------
(***************************************************************************)
(* QuizSetupPage: the form a quiz set is written in.  A text is only known *)
(* to be filled in or blank.  Nothing keeps the submit button from being   *)
(* pressed again while an answer is on its way.                            *)
(***************************************************************************)
EXTENDS QuizSets

CONSTANTS
  TooLong,    (* addChoice stops beyond this many choices: 5                 *)
  Limits,     (* what is typed as a time limit                               *)
  MaxEdits,   (* bound: inputs to the form                                   *)
  MaxQuizzes  (* bound: quizzes in the form                                  *)

ASSUME FormInputs ==
  Limits \subseteq Int \union {NaN} /\ TooLong \in Nat /\ TooLong >= 2 /\ MaxQuizzes \in Nat \ {0}

VARIABLES
  form,       (* title, category and quizSet: the fields                     *)
  marks,      (* titleError, quizErrorIndex, choiceErrorIndex                *)
  sent,       (* createQuizSet requests that are not answered                *)
  edits       (* bound: inputs used                                          *)

page == <<form, marks, sent, edits>>

NewChoice(n, right) == [order |-> n, answer |-> right, filled |-> FALSE]
NewQuiz == [filled |-> FALSE, limit |-> 10, choices |-> <<NewChoice(1, TRUE), NewChoice(2, FALSE)>>]

(* The effect that runs when the form has no quiz left.                     *)
Mounted(qs) == IF qs = << >> THEN <<NewQuiz>> ELSE qs
Blank == [title |-> FALSE, category |-> FALSE, quizzes |-> Mounted(<< >>)]
NoMarks == [title |-> FALSE, quiz |-> 0, choice |-> <<0, 0>>]

(* A form that is filled in, with a third choice.                           *)
FilledQuiz ==
  [filled |-> TRUE, limit |-> 10,
   choices |-> [i \in 1..3 |-> [order |-> i, answer |-> i = 1, filled |-> TRUE]]]
Filled == [title |-> TRUE, category |-> TRUE, quizzes |-> <<FilledQuiz>>]

FormInit == /\ form \in {Blank, Filled}
            /\ marks = NoMarks /\ sent = {} /\ edits = 0

-----------------------------------------------------------------------------
(* Fields                                                                   *)

Edit == edits < MaxEdits /\ edits' = edits + 1
Quizzes == form.quizzes
ChoicesOf(i) == Quizzes[i].choices

Type(field, b) ==
  /\ Edit /\ form' = [form EXCEPT ![field] = b]
  /\ marks' = IF field = "title" THEN [marks EXCEPT !.title = FALSE] ELSE marks
  /\ UNCHANGED sent

TypeQuiz(i, b) ==
  /\ Edit /\ form' = [form EXCEPT !.quizzes[i].filled = b]
  /\ marks' = IF marks.quiz = i THEN [marks EXCEPT !.quiz = 0] ELSE marks
  /\ UNCHANGED sent

(* parseInt, the last digit of what is too long, then the bounds.           *)
LimitOf(typed) ==
  IF typed = NaN THEN NaN
  ELSE LET n == IF typed > 99 THEN typed % 10 ELSE typed IN CASE n < 3 -> 3 [] n > 60 -> 60 [] OTHER -> n

TypeLimit(i, typed) ==
  /\ Edit /\ form' = [form EXCEPT !.quizzes[i].limit = LimitOf(typed)]
  /\ UNCHANGED <<marks, sent>>

(* A mark is taken off by typing in the field, not by removing it.          *)
TypeChoice(i, j, b) ==
  /\ Edit /\ form' = [form EXCEPT !.quizzes[i].choices[j].filled = b]
  /\ marks' = IF marks.choice = <<i, j>> THEN [marks EXCEPT !.choice = <<0, 0>>] ELSE marks
  /\ UNCHANGED sent

(* Fault: the other choices keep their mark.                                *)
MarkedToo(cs, j) == [cs EXCEPT ![j].answer = TRUE]
Marked(cs, j) == [k \in DOMAIN cs |-> [cs[k] EXCEPT !.answer = (k = j)]]

MarkAnswer(i, j) ==
  /\ Edit /\ form' = [form EXCEPT !.quizzes[i].choices = Marked(@, j)]
  /\ UNCHANGED <<marks, sent>>

-----------------------------------------------------------------------------
(* Quizzes and choices                                                      *)

AddQuiz ==
  /\ Edit /\ Len(Quizzes) < MaxQuizzes
  /\ form' = [form EXCEPT !.quizzes = Append(@, NewQuiz)]
  /\ UNCHANGED <<marks, sent>>

RemoveQuiz(i) ==
  /\ Edit /\ Len(Quizzes) > 1
  /\ form' = [form EXCEPT !.quizzes = Mounted(RemoveAt(@, i))]
  /\ UNCHANGED <<marks, sent>>

(* The number is the count plus one, whatever was removed in between.       *)
AddChoice(i) ==
  /\ Edit /\ Len(ChoicesOf(i)) <= TooLong
  /\ form' = [form EXCEPT !.quizzes[i].choices = Append(@, NewChoice(Len(@) + 1, FALSE))]
  /\ UNCHANGED <<marks, sent>>

(* Two choices stay, and so does the answer.                                *)
(* Fault: one choice stays.                                                 *)
RemovableToOne(cs, j) == Len(cs) > 1 /\ ~cs[j].answer
Removable(cs, j) == Len(cs) > 2 /\ ~cs[j].answer
RemoveChoice(i, j) ==
  /\ Edit /\ Removable(ChoicesOf(i), j)
  /\ form' = [form EXCEPT !.quizzes[i].choices = RemoveAt(@, j)]
  /\ UNCHANGED <<marks, sent>>

-----------------------------------------------------------------------------
(* handleSubmit                                                             *)

First(S) == IF S = {} THEN 0 ELSE Min(S)
BlankQuiz == First({i \in DOMAIN Quizzes : ~Quizzes[i].filled})
BlankChoices(i) == {j \in DOMAIN ChoicesOf(i) : ~ChoicesOf(i)[j].filled}
QuizOfBlank == First({i \in DOMAIN Quizzes : BlankChoices(i) # {}})

(* What the request says: the fields, without whether a text is blank.      *)
Payload ==
  [category |-> form.category,
   quizzes |-> [i \in DOMAIN Quizzes |->
     [limit |-> Quizzes[i].limit,
      choices |-> [j \in DOMAIN ChoicesOf(i) |-> [order |-> ChoicesOf(i)[j].order, answer |-> ChoicesOf(i)[j].answer]]]]]

Submit ==
  /\ Edit /\ UNCHANGED form
  /\ \/ ~form.title /\ marks' = [marks EXCEPT !.title = TRUE] /\ UNCHANGED sent
     \/ form.title /\ BlankQuiz # 0 /\ marks' = [marks EXCEPT !.quiz = BlankQuiz] /\ UNCHANGED sent
     \/ /\ form.title /\ BlankQuiz = 0 /\ QuizOfBlank # 0
        /\ marks' = [marks EXCEPT !.choice = <<QuizOfBlank, First(BlankChoices(QuizOfBlank))>>]
        /\ UNCHANGED sent
     \/ /\ form.title /\ BlankQuiz = 0 /\ QuizOfBlank = 0
        /\ sent' = sent \union {[no |-> edits, body |-> Payload]} /\ UNCHANGED marks

(* The form is emptied, whatever was typed since the request was sent.      *)
Served(r, u) ==
  /\ r.body.category /\ Accepted(r.body.quizzes) /\ Insert(u, TRUE, r.body.quizzes)
  /\ sent' = sent \ {r} /\ form' = Blank
  /\ UNCHANGED <<marks, edits, cache, starts, retired, writes>>

(* Refused, or never reached the server: the form stays as it is.           *)
Refused(r) ==
  /\ sent' = sent \ {r} /\ UNCHANGED <<form, marks, edits, catalog>>

(* Stored, but the answer came too late for axios: the form stays too, and  *)
(* the author may well store the set again.                                 *)
TimedOut(r, u) ==
  /\ r.body.category /\ Accepted(r.body.quizzes) /\ Insert(u, TRUE, r.body.quizzes)
  /\ sent' = sent \ {r}
  /\ UNCHANGED <<form, marks, edits, cache, starts, retired, writes>>

Typing ==
  \/ \E b \in BOOLEAN : Type("title", b)
  \/ Type("category", TRUE)
  \/ AddQuiz \/ Submit
  \/ \E i \in DOMAIN Quizzes :
       \/ \E b \in BOOLEAN : TypeQuiz(i, b)
       \/ \E typed \in Limits : TypeLimit(i, typed)
       \/ RemoveQuiz(i) \/ AddChoice(i)
       \/ \E j \in DOMAIN ChoicesOf(i) :
            (\E b \in BOOLEAN : TypeChoice(i, j, b)) \/ MarkAnswer(i, j) \/ RemoveChoice(i, j)

-----------------------------------------------------------------------------
FormTypeOK ==
  /\ form.title \in BOOLEAN /\ form.category \in BOOLEAN
  /\ Len(Quizzes) \in 1..MaxQuizzes
  /\ \A i \in DOMAIN Quizzes : Len(ChoicesOf(i)) \in 2..(TooLong + 1)
  /\ marks.title \in BOOLEAN /\ marks.quiz \in 0..MaxQuizzes
=============================================================================
