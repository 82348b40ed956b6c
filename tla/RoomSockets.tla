---------------------------- MODULE RoomSockets -----------------------------
(***************************************************************************)
(* What the position and the chat pipelines share: which sockets of a room *)
(* are on which WAS, how far the join of each has come, and who has lost.  *)
(* There is one room; each player joins it once and may leave again (who   *)
(* returns, and the clean-up of rooms, are the subject of RoomPresence).   *)
(***************************************************************************)
EXTENDS Integers, Sequences, FiniteSets, TLC

CONSTANTS
  WAS,          (* server processes                                          *)
  Players,      (* browsers                                                  *)
  Routes,       (* the ways the load balancer may spread the players         *)
  First,        (* bound: the players are alike, this one joins first        *)
  MaxInputs     (* bound: moves or messages, losses and departures           *)

ASSUME SocketsRoutes == Routes \subseteq [Players -> WAS]
ASSUME SocketsBound == First \in Players /\ MaxInputs \in Nat

VARIABLES
  home,      (* the WAS each player's socket is on                           *)
  stage,     (* how far joinRoom has come for a player                       *)
  seen,      (* currentPlayers of that joinRoom                              *)
  members,   (* Room:<id>:Players                                            *)
  alive,     (* isAlive of Player:<id>, and the browser's own view of it     *)
  dead,      (* deadPlayerIds of each WAS                                    *)
  wiped,     (* history: a cleanupRoom deleted numbers that were still in use*)
  used       (* inputs so far; also the value of the next move or message    *)

sockets == <<home, stage, seen, members, alive, dead, wiped, used>>

Stages == {"out", "registered", "announced", "reading", "in", "gone"}

(* The players in playerSocketMap of a WAS, or in the socket.io room: the   *)
(* sockets that have registered and not closed.                             *)
Clients(w) == {p \in Players : home[p] = w /\ stage[p] \notin {"out", "gone"}}
Present == UNION {Clients(w) : w \in WAS}

(* The entries of a sequence at some of its places, in their order.         *)
Picked(s, places) ==
  LET picked[n \in 0..Len(s)] ==
        IF n = 0 THEN << >>
        ELSE IF n \in places THEN Append(picked[n - 1], s[n]) ELSE picked[n - 1]
  IN  picked[Len(s)]

Larger(m, n) == IF m > n THEN m ELSE n
Input == used < MaxInputs /\ used' = used + 1
To(p, s) == stage' = [stage EXCEPT ![p] = s]

SocketsInit ==
  /\ home \in Routes
  /\ stage = [p \in Players |-> "out"] /\ seen = [p \in Players |-> {}]
  /\ members = {} /\ alive = [p \in Players |-> TRUE]
  /\ dead = [w \in WAS |-> {}]
  /\ wiped = FALSE /\ used = 0

(* A later start: everybody has joined.                                     *)
SocketsMidway ==
  /\ home \in Routes
  /\ stage = [p \in Players |-> "in"] /\ seen = [p \in Players |-> {}]
  /\ members = Players /\ alive = [p \in Players |-> TRUE]
  /\ dead = [w \in WAS |-> {}]
  /\ wiped = FALSE /\ used = 0

-----------------------------------------------------------------------------
(* The join of a player, up to its snapshot, and its departure              *)

(* joinRoom to the HSET of the player: the socket enters the room.          *)
SocketJoins(p) ==
  /\ stage[p] = "out" /\ (p = First \/ stage[First] # "out") /\ To(p, "registered")
  /\ seen' = [seen EXCEPT ![p] = members]
  /\ alive' = [alive EXCEPT ![p] = TRUE]
  /\ UNCHANGED <<home, members, dead, wiped, used>>

(* SADD, and the Join message that every WAS relays to its sockets.         *)
SocketAnnounced(p) ==
  /\ stage[p] = "registered" /\ To(p, "announced")
  /\ members' = members \union {p}
  /\ UNCHANGED <<home, seen, alive, dead, wiped, used>>

(* sendCurrentInformation reads the players that joinRoom saw, ...          *)
SocketReads(p) ==
  /\ stage[p] = "announced" /\ To(p, "reading")
  /\ UNCHANGED <<home, seen, members, alive, dead, wiped, used>>

(* ... and sends them.                                                      *)
SocketSettles(p) ==
  /\ stage[p] = "reading" /\ To(p, "in")
  /\ seen' = [seen EXCEPT ![p] = {}]
  /\ UNCHANGED <<home, members, alive, dead, wiped, used>>

(* The last client of a WAS takes the state of the room there along.        *)
LastOfWAS(p) == Clients(home[p]) = {p}

(* handlePlayerExit: onRoomLeft and onPlayerLeft; in a lobby the player     *)
(* also leaves the set of the room, during a game it stays.  What the last  *)
(* client of a WAS deletes may be in use by another WAS, or by batches that *)
(* are still on their way.                                                  *)
SocketLeaves(p, onTheWay) ==
  /\ stage[p] = "in" /\ Input /\ To(p, "gone")
  /\ \/ members' = members \ {p}
     \/ UNCHANGED members
  /\ dead' = [dead EXCEPT ![home[p]] = IF LastOfWAS(p) THEN {} ELSE @ \ {p}]
  /\ wiped' = (wiped \/ (LastOfWAS(p) /\ (Present # {p} \/ onTheWay)))
  /\ UNCHANGED <<home, seen, alive>>

(* A wrong answer in a SURVIVAL game: the hash says so, and the dead set of *)
(* the WAS that scored, which need not be the player's own.                 *)
Lose(p, w) ==
  /\ stage[p] = "in" /\ alive[p] /\ Input
  /\ alive' = [alive EXCEPT ![p] = FALSE]
  /\ dead' = [dead EXCEPT ![w] = @ \union {p}]
  /\ UNCHANGED <<home, stage, seen, members, wiped>>

SocketsTypeOK ==
  /\ home \in Routes
  /\ stage \in [Players -> Stages] /\ seen \in [Players -> SUBSET Players]
  /\ members \subseteq Players /\ alive \in [Players -> BOOLEAN]
  /\ dead \in [WAS -> SUBSET Players]
  /\ wiped \in BOOLEAN /\ used \in 0..MaxInputs
=============================================================================
