------------------------------ MODULE Delivery ------------------------------
(***************************************************************************)
(* The two pipelines over the same sockets: a join, a departure and a lost *)
(* quiz are one event for both, and otherwise they run by their own timers.*)
(* In a behaviour the players either move or talk (topic): the pipelines   *)
(* share nothing but the sockets, so a run of both at once only multiplies *)
(* the states.                                                             *)
(***************************************************************************)
EXTENDS PositionPipeline, ChatPipeline, Functions

VARIABLE topic       (* bound: what the players of this behaviour do         *)

vars == <<sockets, positions, chats, topic>>

Start == SocketsInit /\ PositionInit /\ ChatInit

(* An empty room, or one everybody has joined and moved in once.            *)
Init == /\ topic \in {"moves", "talk"}
        /\ Start \/ (topic = "moves" /\ SocketsMidway /\ PositionMidway /\ ChatInit)

-----------------------------------------------------------------------------
Join(p)     == SocketJoins(p) /\ PositionJoins(p) /\ ChatJoins(p)
Announce(p) == SocketAnnounced(p) /\ PositionAnnounced(p) /\ ChatForgets(Present)
SnapRead(p) == SocketReads(p) /\ PositionReads(p) /\ UNCHANGED chats
SnapEmit(p) == SocketSettles(p) /\ PositionSettles(p) /\ ChatForgets({p})
Leave(p)    == SocketLeaves(p, OnTheWay(p)) /\ PositionLeaves(p) /\ ChatLeaves(p)
Loses(p)    == (\E w \in WAS : Lose(p, w)) /\ UNCHANGED <<positions, chats>>

JoinSteps(p) == Announce(p) \/ SnapRead(p) \/ SnapEmit(p)
Inputs(p) ==
  \/ Leave(p) \/ Loses(p)
  \/ topic = "moves" /\ Move(p) /\ UNCHANGED chats
  \/ topic = "talk" /\ Say(p) /\ UNCHANGED positions

Running ==          \* timers, Redis, requests and joins under way
  \/ \E p \in Players : JoinSteps(p)
  \/ \E w \in WAS : PositionTimers(w) /\ UNCHANGED chats
  \/ \E w \in WAS : ChatTimers(w) /\ UNCHANGED positions
  \/ (\E r \in reqs : PositionRequest(r)) /\ UNCHANGED chats
  \/ (\E r \in creqs : ChatRequest(r)) /\ UNCHANGED positions

Next ==
  /\ (\E p \in Players : Join(p) \/ Inputs(p)) \/ Running
  /\ UNCHANGED topic

Spec == Init /\ [][Next]_vars

-----------------------------------------------------------------------------
TypeOK ==
  /\ SocketsTypeOK /\ PositionTypeOK /\ ChatTypeOK
  /\ topic \in {"moves", "talk"}

(* No join is under way.                                                    *)
Joined == \A p \in Players : stage[p] \in {"out", "in", "gone"}

(* When nothing is on its way any more, every browser shows each player it  *)
(* lists where Redis has it, whichever of the merged batch, the batch of    *)
(* the other WAS, the replayed log and the snapshot came last.  Players who *)
(* have lost are left out (the living are not told where they are), and so  *)
(* are those a browser heard of between the snapshot's reads and its        *)
(* emission, or while a retransmission it had forgotten was still out.      *)
SettledAsStored ==
  PositionQuiet /\ Joined =>
    \A c \in Players : stage[c] = "in" =>
      \A q \in DOMAIN tab[c].shown \ blurred[c] :
        alive[q] /\ (\A w \in WAS : q \notin dead[w]) => tab[c].shown[q] = pos[q]

(* When nothing is on its way any more, a browser has shown every message   *)
(* of a living player that reached the stream while its socket was in the   *)
(* room, on whichever WAS both are; what the last client of another WAS     *)
(* deleted unread is lost and not asked for.                                *)
ChatComplete ==
  ChatQuiet /\ Joined =>
    \A c \in Players : stage[c] = "in" => due[c] \subseteq Range(ctab[c].shown)

(* A message is broadcast to a browser once: only the answer to a           *)
(* retransmission repeats what it has.                                      *)
BroadcastOnce ==
  \A c \in Players : ctab[c].again \/ IsInjective(ctab[c].shown)

(* A browser that has asked for what it missed, and will not ask again      *)
(* before it hears, has a request on its way through the WAS: none is       *)
(* dropped without an answer, unless the counters were deleted under it, or *)
(* under a batch it was to hear, by the last client of a WAS.               *)
Awaited(c, rs) == \E r \in rs : r.who = c
WaitIsServed ==
  \A c \in Players : stage[c] = "in" /\ ~wiped =>
    (tab[c].waits => Awaited(c, reqs)) /\ (ctab[c].waits => Awaited(c, creqs))
=============================================================================
