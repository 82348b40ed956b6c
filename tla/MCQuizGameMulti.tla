--------------------------- MODULE MCQuizGameMulti ---------------------------
(* Several WAS: the interleavings of their handlers.                        *)
EXTENDS QuizGame, TLC

(* Nothing tells one player, or one WAS, from another.                      *)
Symmetry == Permutations(WAS) \cup Permutations(Players)

(* The room has its host; whoever else plays has to join first.             *)
HostAlone == Init /\ roomPlayers = {host}
HostAloneSpec == HostAlone /\ [][Next]_vars

(* The same for liveness, where TLC takes no symmetry: the host is on one   *)
(* of the WAS, no matter which.                                             *)
HostSomewhere == HostAlone /\ conn[host] = CHOOSE w \in WAS : TRUE
HostAloneFairSpec == HostSomewhere /\ [][Next]_vars /\ Fairness
=============================================================================
