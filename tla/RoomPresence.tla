---------------------------- MODULE RoomPresence ----------------------------
(***************************************************************************)
(* Who is in a room, as four places see it: the set of the room in Redis,  *)
(* the Player hash, the client counts in the memory of each WAS, and the   *)
(* player list of each browser.  GameRoomService changes them one Redis    *)
(* command at a time, every WAS relays the playerState channel to its      *)
(* sockets, and a room nobody is left in, or nobody uses, is cleaned up by *)
(* every WAS.  The quiz itself (QuizGame) is one step to start and one to  *)
(* end.  An action is one Redis command with the synchronous code before   *)
(* it; consecutive reads of a handler are one action, and so are the       *)
(* handover to a new host and the relay of a message with its publication. *)
(***************************************************************************)
EXTENDS Integers, Sequences, FiniteSets

CONSTANTS
  WAS,          (* server processes                                          *)
  Rooms,        (* pins                                                      *)
  Players,      (* browsers, known by their playerId cookie                  *)
  None,         (* no room, no player, no process                            *)
  Caps,         (* values of maxPlayerCount a room is created with           *)
  NewCaps,      (* values updateRoomOption sets                              *)
  Routes,       (* bound: the WAS the load balancer gives each player        *)
  MaxInputs     (* bound: sockets opened, requests, games started, joins     *)
                (* that lose Redis and half hours without activity, together *)

ASSUME RoomNone == None \notin WAS /\ None \notin Rooms /\ None \notin Players
ASSUME RoomFinite == IsFiniteSet(WAS) /\ IsFiniteSet(Players)
ASSUME RoomRoutes == Routes \in [Players -> SUBSET WAS]
ASSUME RoomBounds ==
  /\ Caps \subseteq Nat /\ NewCaps \subseteq Nat
  /\ MaxInputs \in Nat

VARIABLES
  \* Redis
  room,      (* Room:<id>: title present, host, waiting, capacity, activity  *)
  active,    (* ActiveRooms                                                  *)
  members,   (* Room:<id>:Players                                            *)
  gameId,    (* gameId of Player:<id>; None when the hash is gone            *)
  \* memory of the WAS processes
  was,       (* the WAS a player's socket, or its last handler, is on        *)
  sock,      (* the socket.io room of the player's socket                    *)
  count,     (* localClientCounts                                            *)
  job,       (* the handler that runs for the player                         *)
  told,      (* room:cleanup messages of a room that no WAS has taken yet    *)
  sweep,     (* the cleanupRoom that runs for a room                         *)
  \* browsers
  view,      (* players of usePlayerStore                                    *)
  \* history, and the inputs so far
  drawn,     (* pins handed out                                              *)
  swept,     (* rooms whose data were deleted                                *)
  emptied,   (* rooms whose last member was removed by an exit               *)
  strays,    (* <<w, r>>: a clean-up deleted the hash of a client in r on w  *)
  unlisted,  (* <<r, p>>: a member unlisted, or whose join failed unannounced   *)
  missed,    (* messages a browser could not use: it was joining             *)
  used

redis == <<room, active, members, gameId>>
net == <<told, sweep>>
history == <<drawn, swept, emptied, strays, unlisted, missed>>
vars == <<redis, was, sock, count, job, net, view, history, used>>

-----------------------------------------------------------------------------
(* Values                                                                   *)

(* A Room hash; an absent one, or one left with stray fields only, has no   *)
(* title and is not found by validateRoomExists.                            *)
Room(live, host, waiting, cap, stamp) ==
  [live |-> live, host |-> host, waiting |-> waiting, cap |-> cap, stamp |-> stamp]
NoRoom == Room(FALSE, None, FALSE, 0, "none")

(* A handler of a player: where it is, the room it is about, the room it is *)
(* leaving, the players it read, what follows its exit ("join", "end"), and *)
(* the member drawn as the next host.                                       *)
Job(pc, r, from, seen, then) ==
  [pc |-> pc, room |-> r, from |-> from, seen |-> seen, then |-> then, heir |-> None]
Idle == Job("idle", None, None, {}, "end")

Settled(p) == was[p] # None /\ job[p].pc = "idle"
Go(p, pc) == job' = [job EXCEPT ![p].pc = pc]
Input == used < MaxInputs /\ used' = used + 1
(* Every WAS receives the message; a second one is as good as the first     *)
(* while none has been taken.                                               *)
ToSweep(r) == told' = [told EXCEPT ![r] = Cardinality(WAS)]

(* Fault: the count goes below zero instead of being dropped with the entry.*)
LeavesUnfloored(w, r) == [count EXCEPT ![w][r] = @ - 1]

(* onRoomLeft: the last client of a WAS takes the entry of the room along.  *)
Leaves(w, r) == [count EXCEPT ![w][r] = IF @ <= 1 THEN 0 ELSE @ - 1]

(* onRoomJoined *)
Joins(w, r) == [count EXCEPT ![w][r] = @ + 1]

(* A playerState message, relayed by server.to(gameId).emit on every WAS:   *)
(* JOIN_ROOM adds the player to the lists of the sockets in the room,       *)
(* EXIT_ROOM removes it.  A browser that is joining misses a Join before    *)
(* its socket is in the room, and an Exit before the snapshot that shows    *)
(* the player again.                                                        *)
Joining(p, r) ==
  job[p].room = r /\ job[p].then # "end" /\ job[p].pc # "read"

ToSockets(type, r, q) ==
  /\ view' = [p \in Players |-> IF sock[p] # r THEN view[p]
                                ELSE IF type = "Join" THEN view[p] \union {q} ELSE view[p] \ {q}]
  /\ missed' = [p \in Players |->
                  IF Joining(p, r) /\ (IF type = "Join" THEN sock[p] = None ELSE q \in job[p].seen)
                  THEN missed[p] \union {q} ELSE missed[p]]

NoSweep == [on |-> FALSE, players |-> {}]

Init ==
  /\ room = [r \in Rooms |-> NoRoom] /\ active = {}
  /\ members = [r \in Rooms |-> {}] /\ gameId = [p \in Players |-> None]
  /\ was = [p \in Players |-> None] /\ sock = [p \in Players |-> None]
  /\ count = [w \in WAS |-> [r \in Rooms |-> 0]]
  /\ job = [p \in Players |-> Idle]
  /\ told = [r \in Rooms |-> 0]
  /\ sweep = [r \in Rooms |-> NoSweep]
  /\ view = [p \in Players |-> {}]
  /\ drawn = {} /\ swept = {} /\ emptied = {} /\ strays = {} /\ unlisted = {}
  /\ missed = [p \in Players |-> {}]
  /\ used = 0

-----------------------------------------------------------------------------
(* handleConnection: create, then join                                      *)

(* A socket opens with the pin of a room, one that exists or not.           *)
ConnectToJoin(p, w, r) ==
  /\ was[p] = None /\ Input
  /\ was' = [was EXCEPT ![p] = w] /\ job' = [job EXCEPT ![p] = Job("read", r, None, {}, "join")]
  /\ UNCHANGED <<redis, sock, count, net, view, history>>

(* A socket opens to create a room: a pin is drawn, the room is written and *)
(* listed; the creator joins it like anybody else.  Pins nobody has drawn   *)
(* are alike, so it does not matter which one comes next.                   *)
ConnectToCreate(p, w, cap) ==
  LET r == CHOOSE r \in Rooms \ drawn : TRUE IN
  /\ was[p] = None /\ Rooms \ drawn # {} /\ Input
  /\ room' = [room EXCEPT ![r] = Room(TRUE, p, TRUE, cap, "fresh")]
  /\ active' = active \union {r} /\ drawn' = drawn \union {r}
  /\ was' = [was EXCEPT ![p] = w] /\ job' = [job EXCEPT ![p] = Job("read", r, None, {}, "join")]
  /\ UNCHANGED <<members, gameId, sock, count, net, view, swept, emptied, strays, unlisted, missed>>

(* A join that throws: handleConnection closes the socket, and              *)
(* handleDisconnect runs handlePlayerExit with the gameId of the hash.      *)
Rejected(p) == job' = [job EXCEPT ![p] = Job("exit", None, None, {}, "end")]

RejectJoin(p) ==
  LET r == job[p].room IN
  /\ job[p].pc = "read"
  /\ \/ ~room[r].live
     \/ ~room[r].waiting /\ gameId[p] # r
     \/ room[r].waiting /\ Cardinality(members[r]) >= room[r].cap
  /\ Rejected(p)
  /\ UNCHANGED <<redis, was, sock, count, net, view, history, used>>

AdmitToLobby(p) ==
  LET r == job[p].room IN
  /\ job[p].pc = "read" /\ room[r].live /\ room[r].waiting
  /\ Cardinality(members[r]) < room[r].cap
  /\ job' = [job EXCEPT ![p].pc = "exit", ![p].seen = members[r]]
  /\ UNCHANGED <<redis, was, sock, count, net, view, history, used>>

(* The game runs and the hash says the player belongs to it.                *)
Rejoin(p) ==
  LET r == job[p].room IN
  /\ job[p].pc = "read" /\ room[r].live /\ ~room[r].waiting /\ gameId[p] = r
  /\ sock' = [sock EXCEPT ![p] = r] /\ count' = Joins(was[p], r)
  /\ job' = [job EXCEPT ![p] = Job("inform", r, None, members[r], "rejoin")]
  /\ UNCHANGED <<redis, was, net, view, history, used>>

Enter(p) ==
  LET r == job[p].room IN
  /\ job[p].pc = "enter"
  /\ sock' = [sock EXCEPT ![p] = r] /\ count' = Joins(was[p], r)
  /\ gameId' = [gameId EXCEPT ![p] = r]
  /\ Go(p, "enrol")
  /\ UNCHANGED <<room, active, members, was, net, view, history, used>>

Enrol(p) ==
  LET r == job[p].room IN
  /\ job[p].pc = "enrol"
  /\ members' = [members EXCEPT ![r] = @ \union {p}]
  /\ emptied' = emptied \ {r}
  /\ Go(p, "announce")
  /\ UNCHANGED <<room, active, gameId, was, sock, count, net, view, drawn, swept, strays,
                 unlisted, missed, used>>

AnnounceJoin(p) ==
  /\ job[p].pc = "announce" /\ ToSockets("Join", job[p].room, p) /\ Go(p, "inform")
  /\ UNCHANGED <<redis, was, sock, count, net, drawn, swept, emptied, strays, unlisted, used>>

(* Fault: the snapshot replaces the list instead of being added to it.      *)
InformByReplacing(p) ==
  /\ job[p].pc = "inform"
  /\ view' = [view EXCEPT ![p] = job[p].seen]
  /\ job' = [job EXCEPT ![p] = Idle]
  /\ UNCHANGED <<redis, was, sock, count, net, history, used>>

(* sendCurrentInformation, with the list read before the join.              *)
Inform(p) ==
  /\ job[p].pc = "inform"
  /\ view' = [view EXCEPT ![p] = @ \union job[p].seen]
  /\ job' = [job EXCEPT ![p] = Idle]
  /\ UNCHANGED <<redis, was, sock, count, net, history, used>>

(* A Redis command of a join fails.  Before and while it writes the hash,   *)
(* nothing is kept; afterwards the catch block undoes the local count (not  *)
(* for a rejoin, which has no such block), and the socket is closed.        *)
JoinFails(p) ==
  /\ job[p].pc \in {"enter", "enrol", "announce", "inform"}
  /\ Input
  /\ count' = IF job[p].pc = "enter" \/ job[p].then = "rejoin" THEN count
              ELSE Leaves(was[p], job[p].room)
  /\ job' = [job EXCEPT ![p] = Job("exit", IF job[p].then = "rejoin" THEN sock[p] ELSE None,
                                   None, {}, "end")]
  /\ sock' = [sock EXCEPT ![p] = None] /\ view' = [view EXCEPT ![p] = {}]
  /\ unlisted' = IF job[p].pc = "announce" THEN unlisted \union {<<job[p].room, p>>} ELSE unlisted
  /\ UNCHANGED <<redis, was, net, drawn, swept, emptied, strays, missed>>

-----------------------------------------------------------------------------
(* handleDisconnect and handlePlayerExit                                    *)

Disconnect(p) ==
  /\ Settled(p)
  /\ job' = [job EXCEPT ![p] = Job("exit", sock[p], None, {}, "end")]
  /\ sock' = [sock EXCEPT ![p] = None] /\ view' = [view EXCEPT ![p] = {}]
  /\ UNCHANGED <<redis, was, count, net, history, used>>

(* What follows the exit: the rest of the join, or nothing.                 *)
ExitDone(p) ==
  IF job[p].then = "join" THEN /\ job' = [job EXCEPT ![p].pc = "enter", ![p].from = None]
                               /\ UNCHANGED <<was, missed>>
  ELSE /\ job' = [job EXCEPT ![p] = Idle] /\ was' = [was EXCEPT ![p] = None]
       /\ missed' = [missed EXCEPT ![p] = {}]

(* Fault: the game check comes before the local count, as it once did.      *)
ExitLocalAfterCheck(p) ==
  LET r == gameId[p] IN
  /\ job[p].pc = "exit"
  /\ IF r # None /\ room[r].waiting
     THEN /\ count' = Leaves(was[p], r)
          /\ job' = [job EXCEPT ![p].pc = "remove", ![p].from = r]
          /\ UNCHANGED <<was, missed>>
     ELSE count' = count /\ ExitDone(p)
  /\ UNCHANGED <<redis, sock, net, view, drawn, swept, emptied, strays, unlisted, used>>

(* The room is the one the hash names: for a client that joins, the one it  *)
(* was in last, even if it has left it before; for a client that has lost   *)
(* its hash, none.  The local count goes down whatever state the room is    *)
(* in; while a game runs the player stays a member.                         *)
ExitLocal(p) ==
  LET r == gameId[p] IN
  /\ job[p].pc = "exit"
  /\ count' = IF r = None THEN count ELSE Leaves(was[p], r)
  /\ IF r # None /\ room[r].waiting
     THEN /\ job' = [job EXCEPT ![p].pc = "remove", ![p].from = r]
          /\ UNCHANGED <<was, missed>>
     ELSE ExitDone(p)
  /\ UNCHANGED <<redis, sock, net, view, drawn, swept, emptied, strays, unlisted, used>>

ExitRemove(p) ==
  LET r == job[p].from  left == members[r] \ {p} IN
  /\ job[p].pc = "remove"
  /\ members' = [members EXCEPT ![r] = left]
  /\ emptied' = IF p \in members[r] /\ left = {} THEN emptied \union {r} ELSE emptied
  /\ ToSockets("Exit", r, p) /\ Go(p, "host")
  /\ UNCHANGED <<room, active, gameId, was, sock, count, net, drawn, swept, strays, unlisted, used>>

(* The host has left: a member drawn at random becomes the host.            *)
HandOver(p) ==
  LET r == job[p].from IN
  /\ job[p].pc = "host"
  /\ IF room[r].host = p /\ members[r] # {}
     THEN \E n \in members[r] : room' = [room EXCEPT ![r].host = n]
     ELSE room' = room
  /\ Go(p, "release")
  /\ UNCHANGED <<active, members, gameId, was, sock, count, net, view, history, used>>

(* Fault: the room is released when one player is left instead of none.     *)
ReleaseRoomAtOne(p) ==
  LET r == job[p].from IN
  /\ job[p].pc = "release"
  /\ IF Cardinality(members[r]) = 1 THEN ToSweep(r) ELSE told' = told
  /\ ExitDone(p)
  /\ UNCHANGED <<redis, sock, count, sweep, view, drawn, swept, emptied, strays, unlisted, used>>

(* SCARD, and room:cleanup when it is 0.                                    *)
ReleaseRoom(p) ==
  LET r == job[p].from IN
  /\ job[p].pc = "release"
  /\ IF members[r] = {} THEN ToSweep(r) ELSE told' = told
  /\ ExitDone(p)
  /\ UNCHANGED <<redis, sock, count, sweep, view, drawn, swept, emptied, strays, unlisted,
                 used>>

-----------------------------------------------------------------------------
(* Requests of a client that has joined                                     *)

IsHost(p) == sock[p] # None /\ room[sock[p]].live /\ room[sock[p]].host = p

(* updateRoomOption and kickRoom check the room they read ...               *)
Ask(p, what, target) ==
  /\ Settled(p) /\ IsHost(p) /\ Input
  /\ job' = [job EXCEPT ![p] = [Job(what, sock[p], None, {}, "end") EXCEPT !.heir = target]]
  /\ UNCHANGED <<redis, was, sock, count, net, view, history>>

(* ... and write: HSET title, maxPlayerCount, ... brings a deleted hash     *)
(* back, without a status, a host, or a place among the active rooms.       *)
SetOption(p, cap) ==
  LET r == job[p].room IN
  /\ job[p].pc = "option"
  /\ room' = [room EXCEPT ![r].live = TRUE, ![r].cap = cap]
  /\ Go(p, "touch")
  /\ UNCHANGED <<active, members, gameId, was, sock, count, net, view, history, used>>

(* The kicked player stays a member until it leaves by itself.              *)
Kick(p) ==
  /\ job[p].pc = "kick"
  /\ ToSockets("Exit", job[p].room, job[p].heir)
  /\ unlisted' = unlisted \union {<<job[p].room, job[p].heir>>}
  /\ Go(p, "touch")
  /\ UNCHANGED <<redis, was, sock, count, net, drawn, swept, emptied, strays, used>>

(* Any other request behind GameActivityInterceptor: a quiz set chosen, a   *)
(* retransmission.                                                          *)
Request(p) ==
  /\ Settled(p) /\ Input
  /\ job' = [job EXCEPT ![p] = Job("touch", sock[p], None, {}, "end")]
  /\ UNCHANGED <<redis, was, sock, count, net, view, history>>

(* updateRoomActivity, after the handler: HSET, the room being there or not. *)
Touch(p) ==
  /\ job[p].pc = "touch"
  /\ room' = [room EXCEPT ![job[p].room].stamp = "fresh"]
  /\ job' = [job EXCEPT ![p] = Idle]
  /\ UNCHANGED <<active, members, gameId, was, sock, count, net, view, history, used>>

(* The quiz, from the lobby's point of view.                                *)
GameStarts(r) ==
  /\ room[r].waiting /\ \E p \in Players : Settled(p) /\ sock[p] = r /\ IsHost(p)
  /\ Input
  /\ room' = [room EXCEPT ![r].waiting = FALSE, ![r].stamp = "fresh"]
  /\ UNCHANGED <<active, members, gameId, was, sock, count, job, net, view, history>>

(* END_GAME hands the room to a player of the leaderboard.                  *)
GameEnds(r) ==
  /\ room[r].live /\ ~room[r].waiting /\ r \notin swept
  /\ \E h \in members[r] \union {room[r].host} :
       room' = [room EXCEPT ![r].waiting = TRUE, ![r].host = h]
  /\ UNCHANGED <<active, members, gameId, was, sock, count, job, net, view, history, used>>

-----------------------------------------------------------------------------
(* RoomCleanupSubscriber and InactiveRoomScheduler                          *)

(* cleanupRoom reads the members and the quizzes ...                        *)
SweepRead(r) ==
  /\ told[r] > 0 /\ ~sweep[r].on
  /\ told' = [told EXCEPT ![r] = @ - 1]
  /\ sweep' = [sweep EXCEPT ![r] = [on |-> TRUE, players |-> members[r]]]
  /\ UNCHANGED <<redis, was, sock, count, job, view, history, used>>

(* ... and deletes their hashes and everything the room has.  A client      *)
(* whose hash goes this way, in this room or in another by now, is one its  *)
(* WAS will not find when it leaves.                                        *)
SweepDelete(r) ==
  LET gone == sweep[r].players IN
  /\ sweep[r].on
  /\ room' = [room EXCEPT ![r] = NoRoom] /\ active' = active \ {r}
  /\ members' = [members EXCEPT ![r] = {}]
  /\ gameId' = [p \in Players |-> IF p \in gone THEN None ELSE gameId[p]]
  /\ sweep' = [sweep EXCEPT ![r] = NoSweep]
  /\ swept' = swept \union {r} /\ emptied' = emptied \ {r}
  /\ strays' = strays \union ({<<was[p], job[p].room>> : p \in gone}
                              \union {<<was[p], sock[p]>> : p \in gone})
  /\ UNCHANGED <<was, sock, count, job, told, view, drawn, unlisted, missed, used>>

(* Half an hour passes without activity in the room.                        *)
Age(r) ==
  /\ room[r].stamp = "fresh" /\ Input
  /\ room' = [room EXCEPT ![r].stamp = "old"]
  /\ UNCHANGED <<active, members, gameId, was, sock, count, job, net, view, history>>

(* Fault: rooms in which a game runs are not looked at.                     *)
CheckInactiveLobbies(r) ==
  /\ r \in active /\ room[r].stamp = "old" /\ room[r].waiting
  /\ told[r] = 0 /\ ToSweep(r)
  /\ UNCHANGED <<redis, was, sock, count, job, sweep, view, history, used>>

(* checkInactiveRooms, every ten minutes on every WAS.                      *)
CheckInactive(r) ==
  /\ r \in active /\ room[r].stamp = "old"
  /\ told[r] = 0 /\ ToSweep(r)
  /\ UNCHANGED <<redis, was, sock, count, job, sweep, view, history, used>>

-----------------------------------------------------------------------------
HandlerStep(p) ==
  \/ RejectJoin(p) \/ AdmitToLobby(p) \/ Rejoin(p)
  \/ Enter(p) \/ Enrol(p) \/ AnnounceJoin(p) \/ Inform(p)
  \/ ExitLocal(p) \/ ExitRemove(p)
  \/ HandOver(p) \/ ReleaseRoom(p)
  \/ \E cap \in NewCaps : SetOption(p, cap)
  \/ Kick(p) \/ Touch(p)

ClientStep(p) ==
  \/ \E w \in Routes[p], r \in Rooms : ConnectToJoin(p, w, r)
  \/ \E w \in Routes[p], cap \in Caps : ConnectToCreate(p, w, cap)
  \/ Disconnect(p) \/ JoinFails(p) \/ Request(p)
  \/ Ask(p, "option", None)
  \/ \E q \in Players : Ask(p, "kick", q)

Next ==
  \/ \E p \in Players : HandlerStep(p) \/ ClientStep(p)
  \/ \E r \in Rooms : SweepRead(r) \/ SweepDelete(r)
  \/ \E r \in Rooms : GameStarts(r) \/ GameEnds(r) \/ Age(r) \/ CheckInactive(r)

Spec == Init /\ [][Next]_vars

(* A handler runs on, a WAS takes its messages, the cron job comes round.   *)
(* Nothing makes a client act, and no clock has to tick.                    *)
Fairness ==
  /\ \A p \in Players : WF_vars(HandlerStep(p))
  /\ \A r \in Rooms : WF_vars(SweepRead(r) \/ SweepDelete(r)) /\ WF_vars(CheckInactive(r))

FairSpec == Spec /\ Fairness

-----------------------------------------------------------------------------
(* Properties                                                               *)

RoomHashes == [live : BOOLEAN, host : Players \union {None}, waiting : BOOLEAN,
               cap : Caps \union NewCaps \union {0}, stamp : {"none", "fresh", "old"}]

StoresOK ==
  /\ room \in [Rooms -> RoomHashes]
  /\ active \subseteq Rooms /\ members \in [Rooms -> SUBSET Players]
  /\ gameId \in [Players -> Rooms \union {None}] /\ was \in [Players -> WAS \union {None}]
  /\ sock \in [Players -> Rooms \union {None}] /\ count \in [WAS -> [Rooms -> Nat]]
  /\ told \in [Rooms -> 0..Cardinality(WAS)] /\ view \in [Players -> SUBSET Players]

TypeOK ==
  /\ StoresOK
  /\ \A p \in Players : job[p].seen \subseteq Players /\ (was[p] = None => job[p] = Idle)

(* The clients of room r on w: sockets in it, and sockets that have closed  *)
(* and whose handleDisconnect has not yet reached onRoomLeft.               *)
Clients(w, r) ==
  {p \in Players : was[p] = w /\ (sock[p] = r \/ (job[p].pc = "exit" /\ job[p].room = r
                                                  /\ job[p].then = "end"))}

(* A WAS never counts a client that is not there: a count that is too high  *)
(* keeps the room's queues and timers for ever and makes scoring wait for   *)
(* players who do not exist.  Left aside are the rooms of a WAS whose       *)
(* client lost its hash to a clean-up (onRoomLeft is then skipped).         *)
NoPhantomClients ==
  \A w \in WAS, r \in Rooms :
    <<w, r>> \notin strays => count[w][r] <= Cardinality(Clients(w, r))

(* A room whose last member has left is deleted, unless somebody enters.    *)
EmptiedRoomReleased == \A r \in Rooms : r \in emptied ~> r \notin emptied

(* A listed room that nobody uses for half an hour is deleted or used again. *)
IdleRoomCollected ==
  \A r \in Rooms : (r \in active /\ room[r].stamp = "old")
                   ~> (r \notin active \/ room[r].stamp # "old")

AtRest == \A p \in Players : job[p].pc = "idle"

(* At rest every browser lists the members of its room, apart from players  *)
(* whose coming or going it was told of while it was joining, and players   *)
(* kicked, or never announced.                                               *)
ViewsMatch ==
  AtRest => \A p \in Players :
    was[p] # None /\ sock[p] \notin swept =>
      /\ view[p] \ members[sock[p]] \subseteq missed[p]
      /\ \A q \in members[sock[p]] \ view[p] : q \in missed[p] \/ <<sock[p], q>> \in unlisted
=============================================================================
