------------------------------- MODULE MCSite -------------------------------
EXTENDS Site

CONSTANTS u1, u2, h1, h2, e1, k1, k2

(* A quiz with n choices, of which the k-th is right, as the form makes it. *)
Quiz(n, k) == [limit |-> 10, choices |-> [i \in 1..n |-> [order |-> i, answer |-> i = k]]]
Set(u, h, qs) == [owner |-> u, live |-> TRUE, hit |-> h, quizzes |-> qs, patched |-> FALSE]

MCStored == <<Set(u1, TRUE, <<Quiz(2, 1)>>), Set(u1, TRUE, <<Quiz(3, 3)>>), Set(u2, FALSE, <<Quiz(4, 2), Quiz(2, 2)>>),
              Set(u1, TRUE, <<Quiz(5, 4), Quiz(2, 1)>>)>>
MCGuest == [email |-> "admin", password |-> "admin"]
MCSample == <<Quiz(2, 1)>>
MCPatches == {[hit |-> {}, quizzes |-> <<[i \in 1..2 |-> i = 2]>>], [hit |-> {FALSE}, quizzes |-> << >>]}
=============================================================================
