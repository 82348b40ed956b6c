------------------------- MODULE RoomPresenceProofs -------------------------
(***************************************************************************)
(* The types of RoomPresence, for every value of its constants, with what  *)
(* the handler of a client tells of its socket, and from them two safety   *)
(* properties: a WAS never counts a client that is not there, and at rest  *)
(* the lists of the browsers are the members of their rooms.               *)
(***************************************************************************)
EXTENDS RoomPresence, FiniteSetTheorems, TLAPS

-----------------------------------------------------------------------------
(* Types                                                                    *)

JobPCs == {"idle", "read", "exit", "remove", "host", "release", "enter", "enrol", "announce",
           "inform", "option", "kick", "touch"}
Jobs == [pc : JobPCs, room : Rooms \union {None}, from : Rooms \union {None}, seen : SUBSET Players,
         then : {"join", "rejoin", "end"}, heir : Players \union {None}]

(* What a handler knows of its client: before a join enters the room, and   *)
(* after the socket has closed, no socket is in a room; from then on it is  *)
(* in the room the handler is about.                                        *)
Outside == {"read", "exit", "remove", "host", "release", "enter"}
Joins3  == {"enrol", "announce", "inform"}
JobFits(p) ==
  /\ was[p] = None => job[p] = Idle /\ sock[p] = None
  /\ job[p].pc = "idle" => job[p] = Idle /\ (was[p] # None => sock[p] # None)
  /\ job[p].pc \in Outside => sock[p] = None /\ job[p].then \in {"join", "end"}
  /\ job[p].then = "join" => job[p].room # None
  /\ job[p].pc \in {"read", "enter"} => job[p].then = "join"
  /\ job[p].pc \in {"remove", "host", "release"} => job[p].from # None
  /\ job[p].pc \in Joins3 \union {"option", "kick", "touch"} =>
       job[p].room # None /\ sock[p] = job[p].room
  /\ job[p].pc \in {"enrol", "announce"} => job[p].then = "join"
  /\ job[p].pc = "inform" => job[p].then # "end"
  /\ job[p].pc \in {"idle", "option", "kick", "touch"} => job[p].then = "end"
  /\ job[p].pc = "kick" => job[p].heir # None

OthersOK ==
  /\ sweep \in [Rooms -> [on : BOOLEAN, players : SUBSET Players]]
  /\ missed \in [Players -> SUBSET Players] /\ used \in Nat
  /\ drawn \subseteq Rooms /\ swept \subseteq Rooms /\ emptied \subseteq Rooms

PresenceOK ==
  /\ StoresOK /\ OthersOK
  /\ job \in [Players -> Jobs]
  /\ \A p \in Players : JobFits(p)

-----------------------------------------------------------------------------
LEMMA WASCount == Cardinality(WAS) \in Nat
BY RoomFinite, FS_CardinalityType

(* Steps of one handler.                                                    *)
JobMoves(p, j) == job' = [job EXCEPT ![p] = j]

LEMMA JobsType ==
  ASSUME NEW pc \in JobPCs, NEW r \in Rooms \union {None}, NEW from \in Rooms \union {None},
         NEW seen \in SUBSET Players, NEW then \in {"join", "rejoin", "end"}
  PROVE  Job(pc, r, from, seen, then) \in Jobs
BY DEF Job, Jobs

LEMMA PcType ==
  ASSUME NEW j \in Jobs, NEW pc \in JobPCs
  PROVE  [j EXCEPT !.pc = pc] \in Jobs
BY DEF Jobs

LEMMA IdleType == Idle \in Jobs
BY JobsType DEF Idle, JobPCs

(* A step of p is about the job of p only.                                  *)
LEMMA JobFrame ==
  ASSUME job \in [Players -> Jobs], NEW p \in Players, NEW j \in Jobs, JobMoves(p, j)
  PROVE  /\ job' \in [Players -> Jobs] /\ job'[p] = j
         /\ \A q \in Players \ {p} : job'[q] = job[q]
BY DEF JobMoves

LEMMA FitsFrame ==
  ASSUME NEW p \in Players, \A q \in Players : JobFits(q), JobFits(p)',
         \A q \in Players \ {p} : job'[q] = job[q] /\ sock'[q] = sock[q] /\ was'[q] = was[q]
  PROVE  \A q \in Players : JobFits(q)'
<1> SUFFICES ASSUME NEW q \in Players, q # p PROVE JobFits(q)'
  OBVIOUS
<1>1. job'[q] = job[q] /\ sock'[q] = sock[q] /\ was'[q] = was[q] /\ JobFits(q)
  OBVIOUS
<1> QED
  BY <1>1 DEF JobFits

LEMMA CountType ==
  ASSUME count \in [WAS -> [Rooms -> Nat]], NEW w \in WAS, NEW r \in Rooms
  PROVE  /\ Joins(w, r) \in [WAS -> [Rooms -> Nat]] /\ Leaves(w, r) \in [WAS -> [Rooms -> Nat]]
<1>1. count[w] \in [Rooms -> Nat] /\ count[w][r] \in Nat
  OBVIOUS
<1>2. [count[w] EXCEPT ![r] = @ + 1] \in [Rooms -> Nat]
  BY <1>1
<1>3. [count[w] EXCEPT ![r] = IF @ <= 1 THEN 0 ELSE @ - 1] \in [Rooms -> Nat]
  BY <1>1
<1> QED
  BY <1>2, <1>3 DEF Joins, Leaves

LEMMA SocketsType ==
  ASSUME StoresOK, missed \in [Players -> SUBSET Players], NEW r, NEW q \in Players, NEW type,
         ToSockets(type, r, q)
  PROVE  view' \in [Players -> SUBSET Players] /\ missed' \in [Players -> SUBSET Players]
BY DEF ToSockets, StoresOK

LEMMA HashType ==
  ASSUME NEW h \in RoomHashes
  PROVE  /\ [h EXCEPT !.stamp = "fresh"] \in RoomHashes /\ [h EXCEPT !.stamp = "old"] \in RoomHashes
         /\ [h EXCEPT !.waiting = FALSE, !.stamp = "fresh"] \in RoomHashes
         /\ \A n \in Players \union {None} :
              [h EXCEPT !.host = n] \in RoomHashes /\ [h EXCEPT !.waiting = TRUE, !.host = n] \in RoomHashes
         /\ \A cap \in NewCaps : [h EXCEPT !.live = TRUE, !.cap = cap] \in RoomHashes
BY DEF RoomHashes

(* The end of an exit.                                                      *)
LEMMA ExitDoneType ==
  ASSUME PresenceOK, NEW p \in Players, job[p].pc \in {"exit", "release"}, ExitDone(p), sock' = sock
  PROVE  /\ job' \in [Players -> Jobs] /\ was' \in [Players -> WAS \union {None}]
         /\ missed' \in [Players -> SUBSET Players] /\ \A q \in Players : JobFits(q)'
<1>a. /\ job \in [Players -> Jobs] /\ job[p] \in Jobs /\ was \in [Players -> WAS \union {None}]
      /\ sock \in [Players -> Rooms \union {None}] /\ missed \in [Players -> SUBSET Players]
      /\ (\A q \in Players : JobFits(q)) /\ JobFits(p) /\ sock[p] = None
  BY DEF PresenceOK, StoresOK, OthersOK, JobFits, Outside
<1>1. CASE job[p].then = "join"
  <2> DEFINE j == [job[p] EXCEPT !.pc = "enter", !.from = None]
  <2>1. j \in Jobs /\ JobMoves(p, j) /\ was' = was /\ missed' = missed
    BY <1>1, <1>a DEF ExitDone, Jobs, JobPCs, JobMoves
  <2>2. j.pc = "enter" /\ j.then = "join" /\ j.room = job[p].room
    BY <1>1, <1>a DEF Jobs
  <2> HIDE DEF j
  <2>3. job' \in [Players -> Jobs] /\ job'[p] = j /\ \A q \in Players \ {p} : job'[q] = job[q]
    BY <1>a, <2>1, JobFrame
  <2>4. JobFits(p)'
    BY <1>a, <1>1, <2>1, <2>2, <2>3 DEF JobFits, Outside, Joins3, Idle, Job
  <2> QED
    BY <1>a, <2>1, <2>3, <2>4, FitsFrame
<1>2. CASE job[p].then # "join"
  <2>1. JobMoves(p, Idle) /\ was' = [was EXCEPT ![p] = None] /\ missed' = [missed EXCEPT ![p] = {}]
    BY <1>2 DEF ExitDone, JobMoves
  <2>2. job' \in [Players -> Jobs] /\ job'[p] = Idle /\ \A q \in Players \ {p} : job'[q] = job[q]
    BY <1>a, <2>1, JobFrame, IdleType
  <2>3. JobFits(p)'
    BY <1>a, <2>1, <2>2 DEF JobFits, Outside, Joins3, Idle, Job
  <2> QED
    BY <1>a, <2>1, <2>2, <2>3, FitsFrame
<1> QED
  BY <1>1, <1>2

(* A step of a handler that keeps the types and fits its client.            *)
Does(p, j) ==
  job' \in [Players -> Jobs] /\ job'[p] = j /\ \A q \in Players \ {p} : job'[q] = job[q]

LEMMA DoesMove ==
  ASSUME job \in [Players -> Jobs], NEW p \in Players, NEW j \in Jobs, JobMoves(p, j)
  PROVE  Does(p, j)
BY JobFrame DEF Does

LEMMA DoesGo ==
  ASSUME job \in [Players -> Jobs], NEW p \in Players, NEW pc \in JobPCs, Go(p, pc)
  PROVE  \E j \in Jobs :
           /\ Does(p, j) /\ j.pc = pc /\ j.room = job[p].room /\ j.from = job[p].from
           /\ j.seen = job[p].seen /\ j.then = job[p].then /\ j.heir = job[p].heir
<1> DEFINE j == [job[p] EXCEPT !.pc = pc]
<1>1. j \in Jobs
  BY PcType
<1>2. JobMoves(p, j)
  BY DEF Go, JobMoves
<1>3. /\ j.pc = pc /\ j.room = job[p].room /\ j.from = job[p].from
      /\ j.seen = job[p].seen /\ j.then = job[p].then /\ j.heir = job[p].heir
  BY DEF Jobs
<1> QED
  BY <1>1, <1>2, <1>3, DoesMove

LEMMA HandlerFits ==
  ASSUME PresenceOK, NEW p \in Players, NEW j \in Jobs, Does(p, j), JobFits(p)', StoresOK', OthersOK',
         \A q \in Players \ {p} : sock'[q] = sock[q] /\ was'[q] = was[q]
  PROVE  PresenceOK'
<1>1. \A q \in Players : JobFits(q)'
  BY FitsFrame DEF PresenceOK, Does
<1> QED
  BY <1>1 DEF PresenceOK, Does

LEMMA PresenceTypes ==
  ASSUME PresenceOK, NEW p \in Players
  PROVE  /\ job \in [Players -> Jobs] /\ job[p] \in Jobs /\ JobFits(p)
         /\ (job[p].room \in Rooms => members[job[p].room] \in SUBSET Players)
         /\ (was[p] # None => was[p] \in WAS) /\ (job[p].room # None => job[p].room \in Rooms)
         /\ (job[p].from # None => job[p].from \in Rooms) /\ (sock[p] # None => sock[p] \in Rooms)
         /\ (gameId[p] # None => gameId[p] \in Rooms) /\ job[p].seen \in SUBSET Players
         /\ job[p].heir \in Players \union {None}
BY DEF PresenceOK, StoresOK, Jobs

-----------------------------------------------------------------------------
(* Steps of a join                                                          *)

LEMMA PresenceRead ==
  ASSUME PresenceOK, NEW p \in Players, RejectJoin(p) \/ AdmitToLobby(p)
  PROVE  PresenceOK'
<1>a. job[p].pc = "read" /\ UNCHANGED <<redis, was, sock, count, net, view, history, used>>
  BY DEF RejectJoin, AdmitToLobby
<1>b. StoresOK' /\ OthersOK' /\ was' = was /\ sock' = sock
  BY <1>a DEF PresenceOK, StoresOK, OthersOK, redis, net, history
<1>c. job[p].room \in Rooms /\ job[p].room # None /\ job[p].then = "join" /\ sock[p] = None /\ was[p] # None
  BY <1>a, PresenceTypes DEF JobFits, Outside, Idle, Job
<1>1. CASE RejectJoin(p)
  <2> DEFINE j == Job("exit", None, None, {}, "end")
  <2>1. j \in Jobs
    BY JobsType DEF JobPCs
  <2>2. Does(p, j)
    BY <1>1, <2>1, PresenceTypes, DoesMove DEF RejectJoin, Rejected, JobMoves
  <2>3. JobFits(p)'
    BY <1>b, <1>c, <2>2, PresenceTypes DEF Does, JobFits, Outside, Joins3, Idle, Job
  <2> QED
    BY <1>b, <2>1, <2>2, <2>3, HandlerFits
<1>2. CASE AdmitToLobby(p)
  <2> DEFINE j == [job[p] EXCEPT !.pc = "exit", !.seen = members[job[p].room]]
  <2>9. job[p] \in Jobs /\ members[job[p].room] \in SUBSET Players
    BY <1>c, PresenceTypes
  <2>1. j \in Jobs
    BY <2>9 DEF Jobs, JobPCs
  <2>0. JobMoves(p, j)
    BY <1>2 DEF AdmitToLobby, JobMoves
  <2>2. j.pc = "exit" /\ j.then = "join" /\ j.room = job[p].room
    BY <1>c, PresenceTypes DEF Jobs
  <2> HIDE DEF j
  <2>3. Does(p, j)
    BY <2>0, <2>1, PresenceTypes, DoesMove
  <2>4. JobFits(p)'
    BY <1>b, <1>c, <2>2, <2>3 DEF Does, JobFits, Outside, Joins3, Idle, Job
  <2> QED
    BY <1>b, <2>1, <2>3, <2>4, HandlerFits
<1> QED
  BY <1>1, <1>2

LEMMA PresenceRejoin ==
  ASSUME PresenceOK, NEW p \in Players, Rejoin(p)
  PROVE  PresenceOK'
<1> DEFINE r == job[p].room
           j == Job("inform", r, None, members[r], "rejoin")
<1>a. r \in Rooms /\ r # None /\ was[p] \in WAS /\ was[p] # None /\ sock[p] = None
  BY PresenceTypes DEF Rejoin, JobFits, Outside, Idle, Job
<1>1. sock' = [sock EXCEPT ![p] = r] /\ count' = Joins(was[p], r)
      /\ UNCHANGED <<redis, was, net, view, history, used>> /\ JobMoves(p, j)
  BY DEF Rejoin, JobMoves
<1>2. j \in Jobs /\ Does(p, j)
  BY <1>a, <1>1, JobsType, DoesMove, PresenceTypes DEF JobPCs
<1>3. StoresOK' /\ OthersOK' /\ was' = was
  BY <1>a, <1>1, CountType DEF PresenceOK, StoresOK, OthersOK, redis, net, history
<1>4. JobFits(p)' /\ \A q \in Players \ {p} : sock'[q] = sock[q]
  BY <1>a, <1>1, <1>2 DEF PresenceOK, StoresOK, Does, JobFits, Outside, Joins3, Idle, Job, redis
<1> QED
  BY <1>2, <1>3, <1>4, HandlerFits

LEMMA PresenceEnter ==
  ASSUME PresenceOK, NEW p \in Players, Enter(p)
  PROVE  PresenceOK'
<1> DEFINE r == job[p].room
<1>a. r \in Rooms /\ r # None /\ was[p] \in WAS /\ was[p] # None /\ sock[p] = None /\ job[p].then = "join" /\ job[p].pc = "enter"
  BY PresenceTypes DEF Enter, JobFits, Outside, Idle, Job
<1>1. sock' = [sock EXCEPT ![p] = r] /\ count' = Joins(was[p], r) /\ gameId' = [gameId EXCEPT ![p] = r]
      /\ UNCHANGED <<room, active, members, was, net, view, history, used>> /\ Go(p, "enrol")
  BY DEF Enter
<1>2. PICK j \in Jobs : Does(p, j) /\ j.pc = "enrol" /\ j.room = r /\ j.then = "join"
  BY <1>a, <1>1, DoesGo, PresenceTypes DEF JobPCs
<1>3. StoresOK' /\ OthersOK' /\ was' = was
  BY <1>a, <1>1, CountType DEF PresenceOK, StoresOK, OthersOK, net, history
<1>4. JobFits(p)' /\ \A q \in Players \ {p} : sock'[q] = sock[q]
  BY <1>a, <1>1, <1>2 DEF PresenceOK, StoresOK, Does, JobFits, Outside, Joins3, Idle, Job
<1> QED
  BY <1>2, <1>3, <1>4, HandlerFits

LEMMA PresenceEnrol ==
  ASSUME PresenceOK, NEW p \in Players, Enrol(p)
  PROVE  PresenceOK'
<1> DEFINE r == job[p].room
<1>a. r \in Rooms /\ r # None /\ was[p] \in WAS /\ was[p] # None /\ sock[p] = r /\ job[p].then = "join" /\ job[p].pc = "enrol"
  BY PresenceTypes DEF Enrol, JobFits, Outside, Joins3, Idle, Job
<1>1. members' = [members EXCEPT ![r] = @ \union {p}] /\ emptied' = emptied \ {r}
      /\ UNCHANGED <<room, active, gameId, was, sock, count, net, view, drawn, swept, strays,
                 unlisted, missed, used>> /\ Go(p, "announce")
  BY DEF Enrol
<1>2. PICK j \in Jobs : Does(p, j) /\ j.pc = "announce" /\ j.room = r /\ j.then = "join"
  BY <1>a, <1>1, DoesGo, PresenceTypes DEF JobPCs
<1>3. StoresOK' /\ OthersOK' /\ was' = was /\ sock' = sock
  BY <1>a, <1>1 DEF PresenceOK, StoresOK, OthersOK, net
<1>4. JobFits(p)'
  BY <1>a, <1>2, <1>3 DEF Does, JobFits, Outside, Joins3, Idle, Job
<1> QED
  BY <1>2, <1>3, <1>4, HandlerFits

LEMMA PresenceAnnounce ==
  ASSUME PresenceOK, NEW p \in Players, AnnounceJoin(p)
  PROVE  PresenceOK'
<1> DEFINE r == job[p].room
<1>a. r \in Rooms /\ r # None /\ was[p] \in WAS /\ was[p] # None /\ sock[p] = r /\ job[p].then = "join" /\ job[p].pc = "announce"
  BY PresenceTypes DEF AnnounceJoin, JobFits, Outside, Joins3, Idle, Job
<1>1. ToSockets("Join", r, p) /\ Go(p, "inform")
      /\ UNCHANGED <<redis, was, sock, count, net, drawn, swept, emptied, strays, unlisted, used>>
  BY DEF AnnounceJoin
<1>2. PICK j \in Jobs : Does(p, j) /\ j.pc = "inform" /\ j.room = r /\ j.then = "join"
  BY <1>a, <1>1, DoesGo, PresenceTypes DEF JobPCs
<1>b. view' \in [Players -> SUBSET Players] /\ missed' \in [Players -> SUBSET Players]
  BY <1>1, SocketsType DEF PresenceOK, OthersOK
<1>3. StoresOK' /\ OthersOK' /\ was' = was /\ sock' = sock
  BY <1>b, <1>1 DEF PresenceOK, StoresOK, OthersOK, net, redis
<1>4. JobFits(p)'
  BY <1>a, <1>2, <1>3 DEF Does, JobFits, Outside, Joins3, Idle, Job
<1> QED
  BY <1>2, <1>3, <1>4, HandlerFits

LEMMA PresenceInform ==
  ASSUME PresenceOK, NEW p \in Players, Inform(p)
  PROVE  PresenceOK'
<1>a. job[p].room \in Rooms /\ was[p] \in WAS /\ was[p] # None /\ sock[p] # None /\ job[p].seen \subseteq Players
  BY PresenceTypes DEF Inform, JobFits, Outside, Joins3, Idle, Job
<1>1. view' = [view EXCEPT ![p] = @ \union job[p].seen] /\ JobMoves(p, Idle)
      /\ UNCHANGED <<redis, was, sock, count, net, history, used>>
  BY DEF Inform, JobMoves
<1>2. Idle \in Jobs /\ Does(p, Idle)
  BY <1>1, IdleType, DoesMove, PresenceTypes
<1>3. StoresOK' /\ OthersOK' /\ was' = was /\ sock' = sock
  BY <1>a, <1>1 DEF PresenceOK, StoresOK, OthersOK, net, redis, history
<1>4. JobFits(p)'
  BY <1>a, <1>2, <1>3 DEF Does, JobFits, Outside, Joins3, Idle, Job
<1> QED
  BY <1>2, <1>3, <1>4, HandlerFits

(* What a step writes to a Room hash.                                       *)
LEMMA RoomType ==
  ASSUME StoresOK, NEW r \in Rooms,
         \/ room' = room
         \/ \E n \in Players \union {None} :
              \/ room' = [room EXCEPT ![r].host = n]
              \/ room' = [room EXCEPT ![r].waiting = TRUE, ![r].host = n]
         \/ \E cap \in NewCaps : room' = [room EXCEPT ![r].live = TRUE, ![r].cap = cap]
         \/ room' = [room EXCEPT ![r].stamp = "fresh"] \/ room' = [room EXCEPT ![r].stamp = "old"]
         \/ room' = [room EXCEPT ![r].waiting = FALSE, ![r].stamp = "fresh"]
  PROVE  room' \in [Rooms -> RoomHashes]
<1>1. room \in [Rooms -> RoomHashes] /\ room[r] \in RoomHashes
  BY DEF StoresOK
<1>2. ASSUME NEW h \in RoomHashes, room' = [room EXCEPT ![r] = h] PROVE room' \in [Rooms -> RoomHashes]
  BY <1>1, <1>2
<1>3. ASSUME NEW n \in Players \union {None}, room' = [room EXCEPT ![r].host = n]
      PROVE room' \in [Rooms -> RoomHashes]
  <2>1. [room[r] EXCEPT !.host = n] \in RoomHashes /\ room' = [room EXCEPT ![r] = [room[r] EXCEPT !.host = n]]
    BY <1>1, <1>3, HashType
  <2> QED
    BY <2>1, <1>2
<1>4. ASSUME NEW n \in Players \union {None}, room' = [room EXCEPT ![r].waiting = TRUE, ![r].host = n]
      PROVE room' \in [Rooms -> RoomHashes]
  <2>1. [room[r] EXCEPT !.waiting = TRUE, !.host = n] \in RoomHashes
        /\ room' = [room EXCEPT ![r] = [room[r] EXCEPT !.waiting = TRUE, !.host = n]]
    BY <1>1, <1>4, HashType
  <2> QED
    BY <2>1, <1>2
<1>5. ASSUME NEW cap \in NewCaps, room' = [room EXCEPT ![r].live = TRUE, ![r].cap = cap]
      PROVE room' \in [Rooms -> RoomHashes]
  <2>1. [room[r] EXCEPT !.live = TRUE, !.cap = cap] \in RoomHashes
        /\ room' = [room EXCEPT ![r] = [room[r] EXCEPT !.live = TRUE, !.cap = cap]]
    BY <1>1, <1>5, HashType
  <2> QED
    BY <2>1, <1>2
<1>6. CASE \/ room' = [room EXCEPT ![r].stamp = "fresh"] \/ room' = [room EXCEPT ![r].stamp = "old"]
           \/ room' = [room EXCEPT ![r].waiting = FALSE, ![r].stamp = "fresh"]
  <2>1. \/ room' = [room EXCEPT ![r] = [room[r] EXCEPT !.stamp = "fresh"]]
        \/ room' = [room EXCEPT ![r] = [room[r] EXCEPT !.stamp = "old"]]
        \/ room' = [room EXCEPT ![r] = [room[r] EXCEPT !.waiting = FALSE, !.stamp = "fresh"]]
    BY <1>6
  <2> QED
    BY <1>1, <2>1, <1>2, HashType
<1> QED
  BY <1>1, <1>3, <1>4, <1>5, <1>6

(* The socket closes and the exit of the client begins.                     *)
LEMMA PresenceClosing ==
  ASSUME PresenceOK, NEW p \in Players, JoinFails(p) \/ Disconnect(p)
  PROVE  PresenceOK'
<1>a. was[p] \in WAS /\ was[p] # None /\ sock[p] \in Rooms \union {None}
      /\ (job[p].pc \in {"enter", "enrol", "announce", "inform"} => job[p].room \in Rooms)
  BY PresenceTypes
  DEF JoinFails, Disconnect, Settled, JobFits, Outside, Joins3, Idle, Job, PresenceOK, StoresOK
<1>1. PICK at \in Rooms \union {None} : JobMoves(p, Job("exit", at, None, {}, "end"))
  BY <1>a DEF JoinFails, Disconnect, JobMoves
<1> DEFINE j == Job("exit", at, None, {}, "end")
<1>2. j \in Jobs /\ Does(p, j)
  BY <1>1, JobsType, DoesMove, PresenceTypes DEF JobPCs
<1>3. count' \in [WAS -> [Rooms -> Nat]]
  BY <1>a, CountType DEF JoinFails, Disconnect, PresenceOK, StoresOK
<1>4. /\ sock' = [sock EXCEPT ![p] = None] /\ view' = [view EXCEPT ![p] = {}]
      /\ UNCHANGED <<redis, was, net, drawn, swept, emptied, strays, missed>> /\ used' \in Nat
  BY DEF JoinFails, Disconnect, history, Input, PresenceOK, OthersOK
<1>5. StoresOK' /\ OthersOK' /\ was' = was
  BY <1>3, <1>4 DEF PresenceOK, StoresOK, OthersOK, net, redis
<1>6. JobFits(p)' /\ \A q \in Players \ {p} : sock'[q] = sock[q]
  BY <1>a, <1>2, <1>4, <1>5 DEF Does, JobFits, Outside, Joins3, Idle, Job, PresenceOK, StoresOK
<1> QED
  BY <1>2, <1>5, <1>6, HandlerFits

-----------------------------------------------------------------------------
(* Steps of an exit                                                         *)

LEMMA PresenceExitLocal ==
  ASSUME PresenceOK, NEW p \in Players, ExitLocal(p)
  PROVE  PresenceOK'
<1> DEFINE r == gameId[p]
<1>a. /\ was[p] \in WAS /\ was[p] # None /\ sock[p] = None /\ r \in Rooms \union {None}
      /\ job[p].pc = "exit" /\ job[p].then \in {"join", "end"}
      /\ (job[p].then = "join" => job[p].room # None)
  BY PresenceTypes DEF ExitLocal, JobFits, Outside, Idle, Job
<1>1. UNCHANGED <<redis, sock, net, view, drawn, swept, emptied, strays, unlisted, used>>
  BY DEF ExitLocal
<1>2. count' \in [WAS -> [Rooms -> Nat]]
  BY <1>a, CountType DEF ExitLocal, PresenceOK, StoresOK
<1>3. CASE r # None /\ room[r].waiting
  <2> DEFINE j == [job[p] EXCEPT !.pc = "remove", !.from = r]
  <2>1. JobMoves(p, j) /\ was' = was /\ missed' = missed
    BY <1>3 DEF ExitLocal, JobMoves
  <2>0. job[p] \in Jobs
    BY PresenceTypes
  <2>2. j \in Jobs
    BY <1>a, <2>0 DEF Jobs, JobPCs
  <2>3. j.pc = "remove" /\ j.from = r /\ j.then = job[p].then /\ j.room = job[p].room
    BY PresenceTypes DEF Jobs
  <2> HIDE DEF j
  <2>4. Does(p, j)
    BY <2>1, <2>2, DoesMove, PresenceTypes
  <2>5. StoresOK' /\ OthersOK' /\ sock' = sock
    BY <1>1, <1>2, <2>1 DEF PresenceOK, StoresOK, OthersOK, net, redis
  <2>6. JobFits(p)'
    BY <1>a, <1>3, <2>1, <2>3, <2>4, <2>5 DEF Does, JobFits, Outside, Joins3, Idle, Job
  <2> QED
    BY <2>1, <2>2, <2>4, <2>5, <2>6, HandlerFits
<1>4. CASE ~(r # None /\ room[r].waiting)
  <2>1. ExitDone(p) /\ sock' = sock
    BY <1>1, <1>4 DEF ExitLocal
  <2>2. /\ job' \in [Players -> Jobs] /\ was' \in [Players -> WAS \union {None}]
        /\ missed' \in [Players -> SUBSET Players] /\ \A q \in Players : JobFits(q)'
    BY <1>a, <2>1, ExitDoneType
  <2> QED
    BY <1>1, <1>2, <2>2 DEF PresenceOK, StoresOK, OthersOK, net, redis
<1> QED
  BY <1>3, <1>4

LEMMA PresenceExitRemove ==
  ASSUME PresenceOK, NEW p \in Players, ExitRemove(p)
  PROVE  PresenceOK'
<1> DEFINE r == job[p].from
<1>a. /\ was[p] # None /\ sock[p] = None /\ r \in Rooms /\ r # None /\ job[p].then \in {"join", "end"}
      /\ (job[p].then = "join" => job[p].room # None)
  BY PresenceTypes DEF ExitRemove, JobFits, Outside, Idle, Job
<1>1. /\ members' = [members EXCEPT ![r] = members[r] \ {p}]
      /\ emptied' \in {emptied, emptied \union {r}} /\ ToSockets("Exit", r, p) /\ Go(p, "host")
      /\ UNCHANGED <<room, active, gameId, was, sock, count, net, drawn, swept, strays, unlisted, used>>
  BY DEF ExitRemove
<1>2. PICK j \in Jobs : Does(p, j) /\ j.pc = "host" /\ j.from = r /\ j.then = job[p].then
                        /\ j.room = job[p].room
  BY <1>1, DoesGo, PresenceTypes DEF JobPCs
<1>b. view' \in [Players -> SUBSET Players] /\ missed' \in [Players -> SUBSET Players]
  BY <1>1, SocketsType DEF PresenceOK, OthersOK
<1>3. StoresOK' /\ OthersOK' /\ was' = was /\ sock' = sock
  BY <1>a, <1>b, <1>1 DEF PresenceOK, StoresOK, OthersOK, net
<1>4. JobFits(p)'
  BY <1>a, <1>2, <1>3 DEF Does, JobFits, Outside, Joins3, Idle, Job
<1> QED
  BY <1>2, <1>3, <1>4, HandlerFits

LEMMA PresenceHandOver ==
  ASSUME PresenceOK, NEW p \in Players, HandOver(p)
  PROVE  PresenceOK'
<1> DEFINE r == job[p].from
<1>a. /\ was[p] # None /\ sock[p] = None /\ r \in Rooms /\ r # None /\ job[p].then \in {"join", "end"}
      /\ (job[p].then = "join" => job[p].room # None)
  BY PresenceTypes DEF HandOver, JobFits, Outside, Idle, Job
<1>1. /\ Go(p, "release")
      /\ UNCHANGED <<active, members, gameId, was, sock, count, net, view, history, used>>
  BY DEF HandOver
<1>2. PICK j \in Jobs : Does(p, j) /\ j.pc = "release" /\ j.from = r /\ j.then = job[p].then
                        /\ j.room = job[p].room
  BY <1>1, DoesGo, PresenceTypes DEF JobPCs
<1>b. room' = room \/ \E n \in Players \union {None} : room' = [room EXCEPT ![r].host = n]
  BY <1>a DEF HandOver, PresenceOK, StoresOK
<1>c. room' \in [Rooms -> RoomHashes]
  BY <1>a, <1>b, RoomType DEF PresenceOK
<1>3. StoresOK' /\ OthersOK' /\ was' = was /\ sock' = sock
  BY <1>c, <1>1 DEF PresenceOK, StoresOK, OthersOK, net, history
<1>4. JobFits(p)'
  BY <1>a, <1>2, <1>3 DEF Does, JobFits, Outside, Joins3, Idle, Job
<1> QED
  BY <1>2, <1>3, <1>4, HandlerFits

LEMMA ToldType ==
  ASSUME told \in [Rooms -> 0..Cardinality(WAS)], NEW r \in Rooms, ToSweep(r)
  PROVE  told' \in [Rooms -> 0..Cardinality(WAS)]
<1>1. Cardinality(WAS) \in 0..Cardinality(WAS)
  BY WASCount
<1> QED
  BY <1>1 DEF ToSweep

LEMMA PresenceRelease ==
  ASSUME PresenceOK, NEW p \in Players, ReleaseRoom(p)
  PROVE  PresenceOK'
<1> DEFINE r == job[p].from
<1>a. job[p].pc = "release" /\ r \in Rooms
  BY PresenceTypes DEF ReleaseRoom, JobFits
<1>1. /\ (ToSweep(r) \/ told' = told) /\ ExitDone(p)
      /\ UNCHANGED <<redis, sock, count, sweep, view, drawn, swept, emptied, strays, unlisted, used>>
  BY DEF ReleaseRoom
<1>2. told' \in [Rooms -> 0..Cardinality(WAS)]
  BY <1>a, <1>1, ToldType DEF PresenceOK, StoresOK
<1>3. /\ job' \in [Players -> Jobs] /\ was' \in [Players -> WAS \union {None}]
      /\ missed' \in [Players -> SUBSET Players] /\ \A q \in Players : JobFits(q)'
  BY <1>a, <1>1, ExitDoneType
<1> QED
  BY <1>1, <1>2, <1>3 DEF PresenceOK, StoresOK, OthersOK, redis

-----------------------------------------------------------------------------
(* Requests, and sockets that open                                          *)

LEMMA PresenceRequest ==
  ASSUME PresenceOK, NEW p \in Players,
         Request(p) \/ Ask(p, "option", None) \/ \E q \in Players : Ask(p, "kick", q)
  PROVE  PresenceOK'
<1>a. /\ was[p] # None /\ sock[p] \in Rooms /\ sock[p] # None
  BY PresenceTypes DEF Request, Ask, Settled, JobFits
<1>b. ASSUME NEW what \in {"option", "kick"}, NEW q \in Players \union {None}, Ask(p, what, q),
             what = "kick" => q # None
      PROVE  \E j \in Jobs : /\ JobMoves(p, j) /\ j.pc \in {"option", "kick", "touch"} /\ j.room = sock[p]
                             /\ j.then = "end" /\ (j.pc = "kick" => j.heir # None)
  <2> DEFINE j == [Job(what, sock[p], None, {}, "end") EXCEPT !.heir = q]
  <2>1. Job(what, sock[p], None, {}, "end") \in Jobs
    BY <1>a, JobsType DEF JobPCs
  <2>2. j \in Jobs /\ JobMoves(p, j)
    BY <1>b, <2>1 DEF Ask, JobMoves, Jobs
  <2>3. j.pc = what /\ j.room = sock[p] /\ j.then = "end" /\ j.heir = q
    BY <2>1 DEF Job
  <2> HIDE DEF j
  <2> QED
    BY <1>b, <2>2, <2>3
<1>c. ASSUME Request(p)
      PROVE  \E j \in Jobs : /\ JobMoves(p, j) /\ j.pc \in {"option", "kick", "touch"} /\ j.room = sock[p]
                             /\ j.then = "end" /\ (j.pc = "kick" => j.heir # None)
  <2> DEFINE j == Job("touch", sock[p], None, {}, "end")
  <2>1. j \in Jobs /\ JobMoves(p, j)
    BY <1>a, <1>c, JobsType DEF JobPCs, Request, JobMoves
  <2>2. j.pc = "touch" /\ j.room = sock[p] /\ j.then = "end"
    BY DEF Job
  <2> HIDE DEF j
  <2> QED
    BY <2>1, <2>2
<1>d. PICK j \in Jobs : /\ JobMoves(p, j) /\ j.pc \in {"option", "kick", "touch"} /\ j.room = sock[p]
                        /\ j.then = "end" /\ (j.pc = "kick" => j.heir # None)
  BY <1>b, <1>c, RoomNone
<1>2. Does(p, j)
  BY <1>d, DoesMove, PresenceTypes
<1>3. /\ UNCHANGED <<redis, was, sock, count, net, view, history>> /\ used' \in Nat
  BY DEF Request, Ask, Input, PresenceOK, OthersOK
<1>4. StoresOK' /\ OthersOK' /\ was' = was /\ sock' = sock
  BY <1>3 DEF PresenceOK, StoresOK, OthersOK, net, redis, history
<1>5. JobFits(p)'
  BY <1>a, <1>d, <1>2, <1>4 DEF Does, JobFits, Outside, Joins3, Idle, Job
<1> QED
  BY <1>2, <1>4, <1>5, HandlerFits

LEMMA PresenceConnect ==
  ASSUME PresenceOK, NEW p \in Players, NEW w \in Routes[p],
         \/ \E r \in Rooms : ConnectToJoin(p, w, r)
         \/ \E cap \in Caps : ConnectToCreate(p, w, cap)
  PROVE  PresenceOK'
<1>b. w \in WAS /\ w # None
  BY RoomRoutes, RoomNone
<1>a. was[p] = None /\ sock[p] = None
  BY PresenceTypes DEF ConnectToJoin, ConnectToCreate, JobFits
<1>1. PICK r \in Rooms : /\ JobMoves(p, Job("read", r, None, {}, "join"))
                         /\ \/ room' = room
                            \/ \E cap \in Caps : room' = [room EXCEPT ![r] = Room(TRUE, p, TRUE, cap, "fresh")]
                         /\ active' \in {active, active \union {r}} /\ drawn' \in {drawn, drawn \union {r}}
  <2>1. CASE \E r \in Rooms : ConnectToJoin(p, w, r)
    BY <2>1 DEF ConnectToJoin, JobMoves, redis, history
  <2>2. CASE \E cap \in Caps : ConnectToCreate(p, w, cap)
    <3> DEFINE r == CHOOSE r \in Rooms \ drawn : TRUE
    <3>1. r \in Rooms
      BY <2>2 DEF ConnectToCreate
    <3>2. JobMoves(p, Job("read", r, None, {}, "join"))
          /\ (\E cap \in Caps : room' = [room EXCEPT ![r] = Room(TRUE, p, TRUE, cap, "fresh")])
          /\ active' = active \union {r} /\ drawn' = drawn \union {r}
      BY <2>2 DEF ConnectToCreate, JobMoves
    <3> HIDE DEF r
    <3> QED
      BY <3>1, <3>2
  <2> QED
    BY <2>1, <2>2
<1>2. /\ UNCHANGED <<members, gameId, sock, count, net, view, swept, emptied, strays, unlisted, missed>>
      /\ was' = [was EXCEPT ![p] = w] /\ used' = used + 1
  BY DEF ConnectToJoin, ConnectToCreate, redis, history, Input
<1> DEFINE j == Job("read", r, None, {}, "join")
<1>3. j \in Jobs /\ Does(p, j)
  BY <1>1, JobsType, DoesMove, PresenceTypes DEF JobPCs
<1>c. \A cap \in Caps : Room(TRUE, p, TRUE, cap, "fresh") \in RoomHashes
  BY DEF RoomHashes, Room
<1>4. room' \in [Rooms -> RoomHashes]
  BY <1>1, <1>c DEF PresenceOK, StoresOK
<1>5. StoresOK' /\ OthersOK' /\ sock' = sock
  BY <1>b, <1>1, <1>2, <1>4 DEF PresenceOK, StoresOK, OthersOK, net
<1>6. JobFits(p)' /\ \A q \in Players \ {p} : was'[q] = was[q]
  BY <1>a, <1>b, <1>1, <1>2, <1>3, <1>5, RoomNone DEF Does, JobFits, Outside, Joins3, Idle, Job, PresenceOK, StoresOK
<1> QED
  BY <1>3, <1>5, <1>6, HandlerFits

LEMMA PresenceWrite ==
  ASSUME PresenceOK, NEW p \in Players, (\E cap \in NewCaps : SetOption(p, cap)) \/ Kick(p)
  PROVE  PresenceOK'
<1> DEFINE r == job[p].room
<1>a. /\ was[p] # None /\ sock[p] = r /\ r \in Rooms /\ r # None
      /\ job[p].pc \in {"option", "kick"} /\ job[p].then = "end"
  BY PresenceTypes DEF SetOption, Kick, JobFits, Idle, Job
<1>1. /\ UNCHANGED <<active, members, gameId, was, sock, count, net, drawn, swept, emptied, strays, used>>
      /\ Go(p, "touch")
  BY DEF SetOption, Kick, redis, history
<1>2. PICK j \in Jobs : Does(p, j) /\ j.pc = "touch" /\ j.room = r /\ j.then = "end"
  BY <1>a, <1>1, DoesGo, PresenceTypes DEF JobPCs
<1>b. room' = room \/ \E cap \in NewCaps : room' = [room EXCEPT ![r].live = TRUE, ![r].cap = cap]
  BY DEF SetOption, Kick, redis
<1>c. room' \in [Rooms -> RoomHashes]
  BY <1>a, <1>b, RoomType DEF PresenceOK
<1>d. view' \in [Players -> SUBSET Players] /\ missed' \in [Players -> SUBSET Players]
  <2>1. CASE \E cap \in NewCaps : SetOption(p, cap)
    BY <2>1 DEF SetOption, history, PresenceOK, StoresOK, OthersOK
  <2>2. CASE Kick(p)
    <3>1. job[p].heir \in Players
      BY <2>2, PresenceTypes DEF Kick, JobFits
    <3> QED
      BY <2>2, <3>1, SocketsType DEF Kick, PresenceOK, OthersOK
  <2> QED
    BY <2>1, <2>2
<1>3. StoresOK' /\ OthersOK' /\ was' = was /\ sock' = sock
  BY <1>c, <1>d, <1>1 DEF PresenceOK, StoresOK, OthersOK, net
<1>4. JobFits(p)'
  BY <1>a, <1>2, <1>3 DEF Does, JobFits, Outside, Joins3, Idle, Job
<1> QED
  BY <1>2, <1>3, <1>4, HandlerFits

LEMMA PresenceTouch ==
  ASSUME PresenceOK, NEW p \in Players, Touch(p)
  PROVE  PresenceOK'
<1> DEFINE r == job[p].room
<1>a. was[p] # None /\ sock[p] # None /\ r \in Rooms
  BY PresenceTypes DEF Touch, JobFits, Idle, Job
<1>1. /\ UNCHANGED <<active, members, gameId, was, sock, count, net, view, history, used>>
      /\ JobMoves(p, Idle)
  BY DEF Touch, JobMoves
<1>2. Does(p, Idle)
  BY <1>1, IdleType, DoesMove, PresenceTypes
<1>3. room' = [room EXCEPT ![r].stamp = "fresh"]
  BY DEF Touch
<1>4. room' \in [Rooms -> RoomHashes]
  BY <1>a, <1>3, RoomType DEF PresenceOK
<1>5. StoresOK' /\ OthersOK' /\ was' = was /\ sock' = sock
  BY <1>4, <1>1 DEF PresenceOK, StoresOK, OthersOK, net, history
<1>6. JobFits(p)'
  BY <1>a, <1>2, <1>5 DEF Does, JobFits, Outside, Joins3, Idle, Job
<1> QED
  BY <1>2, <1>5, <1>6, IdleType, HandlerFits

-----------------------------------------------------------------------------
(* Steps of a room                                                          *)

LEMMA PresenceRoom ==
  ASSUME PresenceOK, NEW r \in Rooms,
         SweepRead(r) \/ SweepDelete(r) \/ GameStarts(r) \/ GameEnds(r) \/ Age(r) \/ CheckInactive(r)
  PROVE  PresenceOK'
<1>0. UNCHANGED <<was, sock, job, missed>>
  BY DEF SweepRead, SweepDelete, GameStarts, GameEnds, Age, CheckInactive, history
<1>1. job' \in [Players -> Jobs] /\ \A q \in Players : JobFits(q)'
  BY <1>0 DEF PresenceOK, JobFits
<1>2. CASE SweepRead(r)
  <2>1. /\ told' = [told EXCEPT ![r] = @ - 1] /\ told[r] > 0
        /\ sweep' = [sweep EXCEPT ![r] = [on |-> TRUE, players |-> members[r]]]
        /\ UNCHANGED <<redis, was, sock, count, job, view, history, used>>
    BY <1>2 DEF SweepRead
  <2>2. told' \in [Rooms -> 0..Cardinality(WAS)]
    BY <2>1, WASCount DEF PresenceOK, StoresOK
  <2> QED
    BY <1>1, <2>1, <2>2 DEF PresenceOK, StoresOK, OthersOK, redis, history
<1>3. CASE SweepDelete(r)
  <2>1. NoRoom \in RoomHashes /\ NoSweep \in [on : BOOLEAN, players : SUBSET Players]
    BY DEF NoRoom, Room, RoomHashes, NoSweep
  <2>2. /\ room' = [room EXCEPT ![r] = NoRoom] /\ active' = active \ {r}
        /\ members' = [members EXCEPT ![r] = {}]
        /\ gameId' = [p \in Players |-> IF p \in sweep[r].players THEN None ELSE gameId[p]]
        /\ sweep' = [sweep EXCEPT ![r] = NoSweep] /\ swept' = swept \union {r} /\ emptied' = emptied \ {r}
        /\ UNCHANGED <<was, sock, count, job, told, view, drawn, unlisted, missed, used>>
    BY <1>3 DEF SweepDelete
  <2>3. room' \in [Rooms -> RoomHashes] /\ gameId' \in [Players -> Rooms \union {None}]
        /\ sweep' \in [Rooms -> [on : BOOLEAN, players : SUBSET Players]]
    BY <2>1, <2>2 DEF PresenceOK, StoresOK, OthersOK
  <2> QED
    BY <1>1, <2>2, <2>3 DEF PresenceOK, StoresOK, OthersOK
<1>4. CASE GameStarts(r) \/ Age(r)
  <2>1. \/ room' = [room EXCEPT ![r].waiting = FALSE, ![r].stamp = "fresh"]
        \/ room' = [room EXCEPT ![r].stamp = "old"]
    BY <1>4 DEF GameStarts, Age
  <2>3. /\ UNCHANGED <<active, members, gameId, was, sock, count, job, net, view, history>>
        /\ used' = used + 1
    BY <1>4 DEF GameStarts, Age, Input
  <2>2. room' \in [Rooms -> RoomHashes]
    BY <2>1, RoomType DEF PresenceOK
  <2> QED
    BY <1>1, <2>3, <2>2 DEF PresenceOK, StoresOK, OthersOK, net, history
<1>5. CASE GameEnds(r)
  <2>1. /\ \E h \in members[r] \union {room[r].host} :
             room' = [room EXCEPT ![r].waiting = TRUE, ![r].host = h]
        /\ UNCHANGED <<active, members, gameId, was, sock, count, job, net, view, history, used>>
    BY <1>5 DEF GameEnds
  <2>2. members[r] \union {room[r].host} \subseteq Players \union {None}
    BY DEF PresenceOK, StoresOK, RoomHashes
  <2>3. room' \in [Rooms -> RoomHashes]
    BY <2>1, <2>2, RoomType DEF PresenceOK
  <2> QED
    BY <1>1, <2>1, <2>3 DEF PresenceOK, StoresOK, OthersOK, net, history
<1>6. CASE CheckInactive(r)
  <2>1. ToSweep(r) /\ UNCHANGED <<redis, was, sock, count, job, sweep, view, history, used>>
    BY <1>6 DEF CheckInactive
  <2>2. told' \in [Rooms -> 0..Cardinality(WAS)]
    BY <2>1, ToldType DEF PresenceOK, StoresOK
  <2> QED
    BY <1>1, <2>1, <2>2 DEF PresenceOK, StoresOK, OthersOK, redis, history
<1> QED
  BY <1>2, <1>3, <1>4, <1>5, <1>6

-----------------------------------------------------------------------------
LEMMA PresenceInit == Init => PresenceOK
<1> SUFFICES ASSUME Init PROVE PresenceOK
  OBVIOUS
<1>1. room \in [Rooms -> RoomHashes]
  BY DEF Init, NoRoom, Room, RoomHashes
<1>2. told \in [Rooms -> 0..Cardinality(WAS)] /\ count \in [WAS -> [Rooms -> Nat]]
  BY WASCount DEF Init
<1>3. StoresOK
  BY <1>1, <1>2 DEF Init, StoresOK
<1>4. OthersOK
  BY DEF Init, OthersOK, NoSweep
<1>5. job \in [Players -> Jobs] /\ \A p \in Players : JobFits(p)
  BY IdleType DEF Init, JobFits, Outside, Joins3, Idle, Job
<1> QED
  BY <1>3, <1>4, <1>5 DEF PresenceOK

LEMMA PresenceStep == PresenceOK /\ [Next]_vars => PresenceOK'
<1> SUFFICES ASSUME PresenceOK, [Next]_vars PROVE PresenceOK'
  OBVIOUS
<1>1. ASSUME NEW p \in Players, HandlerStep(p) PROVE PresenceOK'
  BY <1>1, PresenceRead, PresenceRejoin, PresenceEnter, PresenceEnrol, PresenceAnnounce, PresenceInform,
     PresenceExitLocal, PresenceExitRemove, PresenceHandOver, PresenceRelease, PresenceWrite, PresenceTouch
  DEF HandlerStep
<1>2. ASSUME NEW p \in Players, ClientStep(p) PROVE PresenceOK'
  BY <1>2, PresenceConnect, PresenceClosing, PresenceRequest DEF ClientStep
<1>3. CASE UNCHANGED vars
  BY <1>3 DEF vars, redis, net, history, PresenceOK, StoresOK, OthersOK, JobFits
<1> QED
  BY <1>1, <1>2, <1>3, PresenceRoom DEF Next

LEMMA PresenceImpliesTypeOK == PresenceOK => TypeOK
BY DEF PresenceOK, TypeOK, JobFits, Jobs

(* The stores hold rooms, clients and counts of the right kind, and only a  *)
(* client that is connected has a handler running.                          *)
THEOREM RoomTypeCorrect == Spec => []TypeOK
<1>1. Spec => []PresenceOK
  BY PresenceInit, PresenceStep, PTL DEF Spec
<1> QED
  BY <1>1, PresenceImpliesTypeOK, PTL

-----------------------------------------------------------------------------
(* The counts                                                               *)

(* The Player hash of a client names its room, from entering the room until *)
(* the count is taken down, unless a clean-up has deleted it.               *)
HashHeld(p) ==
  /\ sock[p] # None => gameId[p] = sock[p] \/ <<was[p], sock[p]>> \in strays
  /\ job[p].pc = "exit" /\ job[p].then = "end" /\ job[p].room # None =>
       gameId[p] = job[p].room \/ <<was[p], job[p].room>> \in strays
HashesHeld == \A p \in Players : HashHeld(p)

IsClient(p, w, r) ==
  was[p] = w /\ (sock[p] = r \/ (job[p].pc = "exit" /\ job[p].room = r /\ job[p].then = "end"))

(* What a step of p does to the count of a room on a WAS: it lets it be or  *)
(* lowers it while p stays, adds p, or takes one client down.               *)
CountMoves(p, w, r) ==
  \/ count'[w][r] <= count[w][r] /\ (IsClient(p, w, r) => IsClient(p, w, r)')
  \/ count'[w][r] = count[w][r] + 1 /\ ~IsClient(p, w, r) /\ IsClient(p, w, r)'
  \/ count'[w][r] = IF count[w][r] <= 1 THEN 0 ELSE count[w][r] - 1

LEMMA ClientsFinite == \A w, r : IsFiniteSet(Clients(w, r)) /\ Cardinality(Clients(w, r)) \in Nat
<1> SUFFICES ASSUME NEW w, NEW r
             PROVE  IsFiniteSet(Clients(w, r)) /\ Cardinality(Clients(w, r)) \in Nat
  OBVIOUS
<1>1. Clients(w, r) \subseteq Players
  BY DEF Clients
<1> QED
  BY <1>1, RoomFinite, FS_Subset, FS_CardinalityType

(* A count that was right stays right.                                      *)
LEMMA CountStaysRight ==
  ASSUME PresenceOK, PresenceOK', NEW p \in Players, NEW w \in WAS, NEW r \in Rooms,
         count[w][r] <= Cardinality(Clients(w, r)), CountMoves(p, w, r),
         \A q \in Players \ {p} : IsClient(q, w, r) => IsClient(q, w, r)'
  PROVE  count'[w][r] <= Cardinality(Clients(w, r)')
<1> DEFINE C == Clients(w, r)
           D == Clients(w, r)'
<1>a. IsFiniteSet(C) /\ Cardinality(C) \in Nat
  BY ClientsFinite
<1>b. C = {q \in Players : IsClient(q, w, r)}
  BY DEF Clients, IsClient
<1>1. /\ IsFiniteSet(C) /\ Cardinality(C) \in Nat
      /\ C = {q \in Players : IsClient(q, w, r)}
  BY <1>a, <1>b
<1>2. D = {q \in Players : IsClient(q, w, r)'}
  BY DEF Clients, IsClient
<1>3. IsFiniteSet(D) /\ Cardinality(D) \in Nat
  BY <1>2, RoomFinite, FS_Subset, FS_CardinalityType
<1>4. count[w][r] \in Nat /\ count'[w][r] \in Nat
  BY DEF PresenceOK, StoresOK
<1>5. C \ {p} \subseteq D
  BY <1>1, <1>2
<1>6. IsFiniteSet(C \ {p}) /\ Cardinality(C \ {p}) = IF p \in C THEN Cardinality(C) - 1 ELSE Cardinality(C)
  BY <1>1, FS_RemoveElement
<1>7. Cardinality(C \ {p}) <= Cardinality(D)
  BY <1>3, <1>5, FS_Subset
<1>8. CASE count'[w][r] <= count[w][r] /\ (IsClient(p, w, r) => IsClient(p, w, r)')
  <2>1. C \subseteq D
    BY <1>1, <1>2, <1>8
  <2>2. Cardinality(C) <= Cardinality(D)
    BY <2>1, <1>3, FS_Subset
  <2> QED
    BY <1>1, <1>3, <1>4, <1>8, <2>2
<1>9. CASE count'[w][r] = count[w][r] + 1 /\ ~IsClient(p, w, r) /\ IsClient(p, w, r)'
  <2>1. C \union {p} \subseteq D /\ p \notin C
    BY <1>1, <1>2, <1>9
  <2>2. IsFiniteSet(C \union {p}) /\ Cardinality(C \union {p}) = Cardinality(C) + 1
    BY <1>1, <2>1, FS_AddElement
  <2>3. Cardinality(C \union {p}) <= Cardinality(D)
    BY <2>1, <1>3, FS_Subset
  <2> QED
    BY <1>1, <1>3, <1>4, <1>9, <2>2, <2>3
<1>10. CASE count'[w][r] = IF count[w][r] <= 1 THEN 0 ELSE count[w][r] - 1
  <2>1. Cardinality(C) - 1 <= Cardinality(D)
    BY <1>1, <1>3, <1>6, <1>7
  <2>2. count[w][r] <= Cardinality(C)
    OBVIOUS
  <2>3. SUFFICES count'[w][r] <= Cardinality(D)
    OBVIOUS
  <2> HIDE DEF C, D
  <2>4. CASE count[w][r] <= 1
    BY <1>3, <1>10, <2>4
  <2>5. CASE ~(count[w][r] <= 1)
    BY <1>1, <1>3, <1>4, <1>10, <2>1, <2>2, <2>5
  <2> QED
    BY <2>4, <2>5
<1> QED
  BY <1>8, <1>9, <1>10 DEF CountMoves

CountsOK == PresenceOK /\ HashesHeld /\ NoPhantomClients

(* A step of p, who is the only client it is about.                         *)
LEMMA HandlerCounts ==
  ASSUME CountsOK, PresenceOK', NEW p \in Players, HashHeld(p)', strays' = strays,
         \A q \in Players \ {p} : job'[q] = job[q] /\ sock'[q] = sock[q] /\ was'[q] = was[q]
                                  /\ gameId'[q] = gameId[q],
         \A w \in WAS, r \in Rooms : <<w, r>> \notin strays => CountMoves(p, w, r)
  PROVE  CountsOK'
<1>1. ASSUME NEW q \in Players \ {p} PROVE HashHeld(q)'
  BY DEF CountsOK, HashesHeld, HashHeld
<1>2. ASSUME NEW q \in Players \ {p}, NEW w, NEW r PROVE IsClient(q, w, r) => IsClient(q, w, r)'
  BY DEF IsClient
<1>3. ASSUME NEW w \in WAS, NEW r \in Rooms, <<w, r>> \notin strays'
      PROVE  count'[w][r] <= Cardinality(Clients(w, r)')
  BY <1>2, <1>3, CountStaysRight DEF CountsOK, NoPhantomClients
<1> QED
  BY <1>1, <1>3 DEF CountsOK, HashesHeld, NoPhantomClients

(* What a step does to the handler of its client, and to no other.          *)
LEMMA JobAfter ==
  ASSUME PresenceOK, NEW p \in Players, NEW j, JobMoves(p, j)
  PROVE  job'[p] = j /\ \A q \in Players \ {p} : job'[q] = job[q]
BY DEF PresenceOK, JobMoves

LEMMA PcAfter ==
  ASSUME PresenceOK, NEW p \in Players, NEW pc \in JobPCs, Go(p, pc)
  PROVE  job'[p].pc = pc /\ \A q \in Players \ {p} : job'[q] = job[q]
BY DoesGo DEF PresenceOK, Does

(* Steps of a handler that leave the counts and the hashes alone, and the   *)
(* client where it is.                                                      *)
LEMMA QuietCounts ==
  ASSUME CountsOK, PresenceOK', NEW p \in Players,
         UNCHANGED <<gameId, was, sock, count, strays>>,
         job[p].pc # "exit" \/ job[p].then # "end",
         job'[p].pc = "exit" /\ job'[p].then = "end" => job'[p].room = None,
         \A q \in Players \ {p} : job'[q] = job[q]
  PROVE  CountsOK'
<1>1. HashHeld(p)'
  BY DEF CountsOK, HashesHeld, HashHeld
<1>2. \A w \in WAS, r \in Rooms : CountMoves(p, w, r)
  BY DEF CountMoves, IsClient, CountsOK, PresenceOK, StoresOK
<1> QED
  BY <1>1, <1>2, HandlerCounts

LEMMA CountsReadsAndRequests ==
  ASSUME CountsOK, PresenceOK', NEW p \in Players,
         \/ RejectJoin(p) \/ AdmitToLobby(p) \/ Inform(p) \/ Touch(p) \/ Request(p)
         \/ Ask(p, "option", None) \/ \E q \in Players : Ask(p, "kick", q)
  PROVE  CountsOK'
<1>1. UNCHANGED <<gameId, was, sock, count, strays>>
  BY DEF RejectJoin, AdmitToLobby, Inform, Touch, Request, Ask, redis, history
<1>2. job[p].pc # "exit"
  BY DEF RejectJoin, AdmitToLobby, Inform, Touch, Request, Ask, Settled
<1>3. PresenceOK /\ job[p] \in Jobs /\ (job[p].pc = "read" => job[p].then = "join")
  BY PresenceTypes DEF CountsOK, JobFits
<1>4. \E j : JobMoves(p, j) /\ (j.pc = "exit" /\ j.then = "end" => j.room = None)
  <2>1. CASE RejectJoin(p)
    <3>1. JobMoves(p, Job("exit", None, None, {}, "end"))
      BY <2>1 DEF RejectJoin, Rejected, JobMoves
    <3>2. Job("exit", None, None, {}, "end").room = None
      BY DEF Job
    <3> QED
      BY <3>1, <3>2
  <2>2. CASE AdmitToLobby(p)
    <3>1. JobMoves(p, [job[p] EXCEPT !.pc = "exit", !.seen = members[job[p].room]]) /\ job[p].pc = "read"
      BY <2>2 DEF AdmitToLobby, JobMoves
    <3>2. [job[p] EXCEPT !.pc = "exit", !.seen = members[job[p].room]].then = "join"
      BY <1>3, <3>1 DEF Jobs
    <3> QED
      BY <3>1, <3>2
  <2>3. CASE Inform(p) \/ Touch(p)
    BY <2>3 DEF Inform, Touch, JobMoves, Idle, Job
  <2>4. CASE Request(p)
    <3>1. JobMoves(p, Job("touch", sock[p], None, {}, "end"))
      BY <2>4 DEF Request, JobMoves
    <3>2. Job("touch", sock[p], None, {}, "end").pc = "touch"
      BY DEF Job
    <3> QED
      BY <3>1, <3>2
  <2>5. ASSUME NEW what \in {"option", "kick"}, NEW q, Ask(p, what, q)
        PROVE  <1>4
    <3> DEFINE j == [Job(what, sock[p], None, {}, "end") EXCEPT !.heir = q]
    <3>1. JobMoves(p, j) /\ j.pc = what
      BY <2>5 DEF Ask, JobMoves, Job
    <3> HIDE DEF j
    <3> QED
      BY <3>1
  <2> QED
    BY <2>1, <2>2, <2>3, <2>4, <2>5
<1>5. /\ job'[p].pc = "exit" /\ job'[p].then = "end" => job'[p].room = None
      /\ \A q \in Players \ {p} : job'[q] = job[q]
  BY <1>3, <1>4, JobAfter
<1> QED
  BY <1>1, <1>2, <1>5, QuietCounts

LEMMA CountsWrites ==
  ASSUME CountsOK, PresenceOK', NEW p \in Players,
         \/ Enrol(p) \/ AnnounceJoin(p) \/ ExitRemove(p) \/ HandOver(p)
         \/ (\E cap \in NewCaps : SetOption(p, cap)) \/ Kick(p)
  PROVE  CountsOK'
<1>1. UNCHANGED <<gameId, was, sock, count, strays>> /\ job[p].pc # "exit"
  BY DEF Enrol, AnnounceJoin, ExitRemove, HandOver, SetOption, Kick, redis, history
<1>2. \/ Go(p, "announce") \/ Go(p, "inform") \/ Go(p, "host") \/ Go(p, "release") \/ Go(p, "touch")
  BY DEF Enrol, AnnounceJoin, ExitRemove, HandOver, SetOption, Kick
<1>3. job'[p].pc # "exit" /\ \A q \in Players \ {p} : job'[q] = job[q]
  BY <1>2, PcAfter DEF CountsOK, JobPCs
<1> QED
  BY <1>1, <1>3, QuietCounts

(* The socket enters the room and is counted.                               *)
LEMMA CountsEntering ==
  ASSUME CountsOK, PresenceOK', NEW p \in Players, Rejoin(p) \/ Enter(p)
  PROVE  CountsOK'
<1> DEFINE r == job[p].room
<1>1. PresenceOK /\ r \in Rooms /\ r # None /\ was[p] \in WAS /\ sock[p] = None /\ job[p].pc # "exit"
  BY PresenceTypes DEF CountsOK, Rejoin, Enter, JobFits, Outside, Idle, Job
<1>2. /\ sock' = [sock EXCEPT ![p] = r] /\ count' = Joins(was[p], r) /\ was' = was /\ strays' = strays
      /\ gameId' = [gameId EXCEPT ![p] = r]
  BY <1>1 DEF Rejoin, Enter, redis, history, PresenceOK, StoresOK
<1>3. job'[p].pc # "exit" /\ \A q \in Players \ {p} : job'[q] = job[q]
  <2>1. CASE Rejoin(p)
    BY <1>1, <2>1, JobAfter DEF Rejoin, JobMoves, Job
  <2>2. CASE Enter(p)
    <3>1. Go(p, "enrol")
      BY <2>2 DEF Enter
    <3> QED
      BY <1>1, <3>1, PcAfter DEF JobPCs
  <2> QED
    BY <2>1, <2>2
<1>4. HashHeld(p)' /\ \A q \in Players \ {p} : sock'[q] = sock[q] /\ gameId'[q] = gameId[q]
  BY <1>1, <1>2, <1>3 DEF HashHeld, PresenceOK, StoresOK
<1>5. ASSUME NEW w \in WAS, NEW s \in Rooms PROVE CountMoves(p, w, s)
  <2>1. count'[w][s] = IF w = was[p] /\ s = r THEN count[w][s] + 1 ELSE count[w][s]
    BY <1>1, <1>2 DEF Joins, PresenceOK, StoresOK
  <2>2. ~IsClient(p, w, s) /\ (IsClient(p, w, s)' <=> w = was[p] /\ s = r)
    BY <1>1, <1>2, <1>3, RoomNone DEF IsClient, PresenceOK, StoresOK
  <2>3. count[w][s] \in Nat
    BY <1>1 DEF PresenceOK, StoresOK
  <2> QED
    BY <2>1, <2>2, <2>3 DEF CountMoves
<1> QED
  BY <1>2, <1>3, <1>4, <1>5, HandlerCounts

LEMMA LeavesAt ==
  ASSUME count \in [WAS -> [Rooms -> Nat]], NEW w \in WAS, NEW r \in Rooms, NEW v \in WAS, NEW s \in Rooms
  PROVE  /\ Leaves(w, r)[v][s] \in Nat /\ Leaves(w, r)[v][s] <= count[v][s]
         /\ v = w /\ s = r => Leaves(w, r)[v][s] = IF count[v][s] <= 1 THEN 0 ELSE count[v][s] - 1
         /\ v # w \/ s # r => Leaves(w, r)[v][s] = count[v][s]
<1>1. count[w] \in [Rooms -> Nat] /\ count[v] \in [Rooms -> Nat] /\ count[v][s] \in Nat
  OBVIOUS
<1>2. Leaves(w, r)[v][s] = IF v = w /\ s = r THEN IF count[v][s] <= 1 THEN 0 ELSE count[v][s] - 1
                           ELSE count[v][s]
  BY <1>1 DEF Leaves
<1> QED
  BY <1>1, <1>2

(* The socket closes: a join that fails takes its count down itself, the    *)
(* clients of a room stay clients until handlePlayerExit.                   *)
LEMMA CountsClosing ==
  ASSUME CountsOK, PresenceOK', NEW p \in Players, JoinFails(p) \/ Disconnect(p)
  PROVE  CountsOK'
<1> DEFINE undone == JoinFails(p) /\ job[p].pc # "enter" /\ job[p].then # "rejoin"
           at == IF undone THEN None ELSE sock[p]
           j == Job("exit", at, None, {}, "end")
<1>1. PresenceOK /\ JobFits(p) /\ was[p] \in WAS /\ was[p] # None
      /\ sock \in [Players -> Rooms \union {None}] /\ count \in [WAS -> [Rooms -> Nat]]
      /\ (undone => sock[p] = job[p].room /\ sock[p] \in Rooms)
      /\ (JoinFails(p) /\ job[p].pc = "enter" => sock[p] = None /\ job[p].then # "rejoin")
      /\ job[p].pc # "exit"
  <2>1. PresenceOK
    BY DEF CountsOK
  <2> QED
    BY <2>1, PresenceTypes
    DEF JoinFails, Disconnect, Settled, JobFits, Outside, Joins3, Idle, Job, PresenceOK, StoresOK
<1>2. /\ JobMoves(p, j) /\ sock' = [sock EXCEPT ![p] = None] /\ UNCHANGED <<was, gameId, strays>>
      /\ count' = IF undone THEN Leaves(was[p], sock[p]) ELSE count
  <2>1. CASE Disconnect(p)
    <3>1. ~JoinFails(p)
      BY <2>1 DEF Disconnect, Settled, JoinFails
    <3> QED
      BY <2>1, <3>1 DEF Disconnect, JobMoves, redis, history
  <2>2. CASE JoinFails(p)
    BY <1>1, <2>2 DEF JoinFails, JobMoves, redis
  <2> QED
    BY <2>1, <2>2
<1>3. job'[p].pc = "exit" /\ job'[p].then = "end" /\ job'[p].room = at
      /\ \A q \in Players \ {p} : job'[q] = job[q]
  <2>1. job'[p] = j /\ \A q \in Players \ {p} : job'[q] = job[q]
    BY <1>1, <1>2, JobAfter
  <2> HIDE DEF at
  <2> QED
    BY <2>1 DEF Job
<1>4. HashHeld(p)' /\ \A q \in Players \ {p} : sock'[q] = sock[q]
  BY <1>1, <1>2, <1>3 DEF HashHeld, CountsOK, HashesHeld
<1>5. ASSUME NEW w \in WAS, NEW s \in Rooms PROVE CountMoves(p, w, s)
  <2>1. CASE undone
    <3>1. (w = was[p] /\ s = sock[p]) \/ ~IsClient(p, w, s)
      BY <1>1, <2>1 DEF IsClient
    <3> QED
      BY <1>1, <1>2, <2>1, <3>1, LeavesAt DEF CountMoves
  <2>2. CASE ~undone
    <3>1. IsClient(p, w, s) => IsClient(p, w, s)'
      BY <1>1, <1>2, <1>3, <2>2 DEF IsClient
    <3> QED
      BY <1>1, <1>2, <2>2, <3>1 DEF CountMoves
  <2> QED
    BY <2>1, <2>2
<1> QED
  BY <1>2, <1>3, <1>4, <1>5, HandlerCounts

(* A handler that exits goes on with its join, or the client is gone.       *)
LEMMA ExitMoves ==
  ASSUME PresenceOK, NEW p \in Players, ExitLocal(p) \/ ReleaseRoom(p)
  PROVE  /\ \A q \in Players \ {p} : job'[q] = job[q] /\ was'[q] = was[q] /\ missed'[q] = missed[q]
         /\ \/ /\ was' = was /\ missed' = missed /\ job'[p].pc \in {"remove", "enter"}
               /\ job'[p].room = job[p].room /\ job'[p].then = job[p].then /\ job'[p].seen = job[p].seen
            \/ was' = [was EXCEPT ![p] = None] /\ missed'[p] = {} /\ job'[p] = Idle
<1>a. /\ job \in [Players -> Jobs] /\ was \in [Players -> WAS \union {None}] /\ job[p] \in Jobs
      /\ missed \in [Players -> SUBSET Players]
  BY PresenceTypes DEF PresenceOK, StoresOK, OthersOK
<1>b. \/ /\ was' = was /\ missed' = missed
         /\ \E j : /\ JobMoves(p, j) /\ j.pc \in {"remove", "enter"}
                   /\ j.room = job[p].room /\ j.then = job[p].then /\ j.seen = job[p].seen
      \/ was' = [was EXCEPT ![p] = None] /\ missed' = [missed EXCEPT ![p] = {}] /\ JobMoves(p, Idle)
  <2>1. CASE ExitDone(p)
    <3> DEFINE j == [job[p] EXCEPT !.pc = "enter", !.from = None]
    <3>1. j.pc = "enter" /\ j.room = job[p].room /\ j.then = job[p].then /\ j.seen = job[p].seen
      BY <1>a DEF Jobs
    <3>2. CASE job[p].then = "join"
      <4>1. was' = was /\ missed' = missed /\ JobMoves(p, j)
        BY <2>1, <3>2 DEF ExitDone, JobMoves
      <4> HIDE DEF j
      <4> QED
        BY <3>1, <4>1
    <3> QED
      BY <2>1, <3>2 DEF ExitDone, JobMoves
  <2>2. CASE ~ExitDone(p)
    <3> DEFINE j == [job[p] EXCEPT !.pc = "remove", !.from = gameId[p]]
    <3>1. j.pc = "remove" /\ j.room = job[p].room /\ j.then = job[p].then /\ j.seen = job[p].seen
      BY <1>a DEF Jobs
    <3>2. was' = was /\ missed' = missed /\ JobMoves(p, j)
      BY <2>2 DEF ExitLocal, ReleaseRoom, JobMoves
    <3> HIDE DEF j
    <3> QED
      BY <3>1, <3>2
  <2> QED
    BY <2>1, <2>2
<1>3. \A q \in Players \ {p} : job'[q] = job[q] /\ was'[q] = was[q] /\ missed'[q] = missed[q]
  BY <1>a, <1>b, JobAfter
<1>4. CASE was' = was
  BY <1>a, <1>b, <1>3, <1>4, JobAfter
<1>5. CASE was' # was
  BY <1>a, <1>b, <1>3, <1>5, JobAfter
<1> QED
  BY <1>4, <1>5

(* handlePlayerExit: the count goes down in the room the hash names.        *)
LEMMA CountsExiting ==
  ASSUME CountsOK, PresenceOK', NEW p \in Players, ExitLocal(p) \/ ReleaseRoom(p)
  PROVE  CountsOK'
<1>1. PresenceOK /\ JobFits(p) /\ was[p] \in WAS /\ was[p] # None /\ sock[p] = None
      /\ gameId[p] \in Rooms \union {None} /\ count \in [WAS -> [Rooms -> Nat]] /\ job[p] \in Jobs
      /\ job[p].pc \in {"exit", "release"} /\ job[p].then \in {"join", "end"}
  <2>1. PresenceOK
    BY DEF CountsOK
  <2> QED
    BY <2>1, PresenceTypes DEF ExitLocal, ReleaseRoom, JobFits, Outside, Idle, Job, PresenceOK, StoresOK
<1>2. UNCHANGED <<sock, gameId, strays>>
  BY DEF ExitLocal, ReleaseRoom, redis
<1>3. \A q \in Players \ {p} : job'[q] = job[q] /\ was'[q] = was[q]
  BY <1>1, ExitMoves
<1>4. job'[p].pc # "exit"
  BY <1>1, ExitMoves DEF Idle, Job
<1>5. HashHeld(p)' /\ \A q \in Players \ {p} : sock'[q] = sock[q]
  BY <1>1, <1>2, <1>4 DEF HashHeld
<1>6. ASSUME NEW w \in WAS, NEW s \in Rooms, <<w, s>> \notin strays PROVE CountMoves(p, w, s)
  <2>1. CASE ReleaseRoom(p)
    <3>1. ~IsClient(p, w, s) /\ count' = count
      BY <1>1, <2>1, RoomNone DEF IsClient, ReleaseRoom
    <3> QED
      BY <1>1, <3>1 DEF CountMoves
  <2>2. CASE ExitLocal(p)
    <3>1. count' = IF gameId[p] = None THEN count ELSE Leaves(was[p], gameId[p])
      BY <2>2 DEF ExitLocal
    <3>2. IsClient(p, w, s) => w = was[p] /\ s = gameId[p] /\ gameId[p] # None
      BY <1>1, <1>6, RoomNone DEF IsClient, CountsOK, HashesHeld, HashHeld
    <3>3. CASE gameId[p] = None
      BY <1>1, <3>1, <3>2, <3>3 DEF CountMoves
    <3>4. CASE gameId[p] # None
      BY <1>1, <3>1, <3>2, <3>4, LeavesAt DEF CountMoves
    <3> QED
      BY <3>3, <3>4
  <2> QED
    BY <2>1, <2>2
<1> QED
  BY <1>2, <1>3, <1>5, <1>6, HandlerCounts

LEMMA CountsConnect ==
  ASSUME CountsOK, PresenceOK', NEW p \in Players, NEW w \in Routes[p],
         \/ \E r \in Rooms : ConnectToJoin(p, w, r)
         \/ \E cap \in Caps : ConnectToCreate(p, w, cap)
  PROVE  CountsOK'
<1>1. PresenceOK /\ was[p] = None /\ sock[p] = None /\ count \in [WAS -> [Rooms -> Nat]]
  <2>1. PresenceOK /\ was[p] = None
    BY DEF CountsOK, ConnectToJoin, ConnectToCreate
  <2> QED
    BY <2>1, PresenceTypes DEF JobFits, PresenceOK, StoresOK
<1>2. UNCHANGED <<sock, count, gameId, strays>> /\ was' = [was EXCEPT ![p] = w]
  BY DEF ConnectToJoin, ConnectToCreate, redis, history
<1>3. \E r : JobMoves(p, Job("read", r, None, {}, "join"))
  BY DEF ConnectToJoin, ConnectToCreate, JobMoves
<1>4. job'[p].pc # "exit" /\ \A q \in Players \ {p} : job'[q] = job[q] /\ was'[q] = was[q]
  BY <1>1, <1>2, <1>3, JobAfter DEF Job, PresenceOK, StoresOK
<1>5. HashHeld(p)'
  BY <1>1, <1>2, <1>4 DEF HashHeld
<1>6. ASSUME NEW v \in WAS, NEW s \in Rooms PROVE CountMoves(p, v, s)
  BY <1>1, <1>2, RoomNone DEF CountMoves, IsClient
<1> QED
  BY <1>2, <1>4, <1>5, <1>6, HandlerCounts

(* Steps of a room: only a clean-up takes hashes, and it names its strays.  *)
LEMMA CountsRoom ==
  ASSUME CountsOK, PresenceOK', NEW r \in Rooms,
         SweepRead(r) \/ SweepDelete(r) \/ GameStarts(r) \/ GameEnds(r) \/ Age(r) \/ CheckInactive(r)
  PROVE  CountsOK'
<1>1. UNCHANGED <<was, sock, job, count>> /\ strays \subseteq strays'
  BY DEF SweepRead, SweepDelete, GameStarts, GameEnds, Age, CheckInactive, history
<1>2. HashesHeld'
  <2>1. CASE SweepDelete(r)
    <3> SUFFICES ASSUME NEW q \in Players PROVE HashHeld(q)'
      BY DEF HashesHeld
    <3>1. HashHeld(q)
      BY DEF CountsOK, HashesHeld
    <3>2. CASE q \in sweep[r].players
      <4>1. <<was[q], sock[q]>> \in strays' /\ <<was[q], job[q].room>> \in strays'
        BY <2>1, <3>2 DEF SweepDelete
      <4> QED
        BY <1>1, <4>1 DEF HashHeld
    <3>3. CASE q \notin sweep[r].players
      <4>1. gameId'[q] = gameId[q]
        BY <2>1, <3>3 DEF SweepDelete
      <4> QED
        BY <1>1, <3>1, <4>1 DEF HashHeld
    <3> QED
      BY <3>2, <3>3
  <2>2. CASE gameId' = gameId
    BY <1>1, <2>2 DEF CountsOK, HashesHeld, HashHeld
  <2> QED
    BY <2>1, <2>2 DEF SweepRead, GameStarts, GameEnds, Age, CheckInactive, redis
<1>3. \A w, s : Clients(w, s)' = Clients(w, s)
  BY <1>1 DEF Clients
<1> QED
  BY <1>1, <1>2, <1>3 DEF CountsOK, NoPhantomClients

LEMMA CountsInit == Init => CountsOK
<1> SUFFICES ASSUME Init PROVE CountsOK
  OBVIOUS
<1>1. PresenceOK /\ HashesHeld
  BY PresenceInit DEF Init, HashesHeld, HashHeld, Idle, Job
<1>2. \A w \in WAS, r \in Rooms : count[w][r] = 0
  BY DEF Init
<1> QED
  BY <1>1, <1>2, ClientsFinite DEF CountsOK, NoPhantomClients

(* The counts of its quizzes are read: the page is complete and goes to the *)
(* front end.                                                               *)
LEMMA CountsStep == CountsOK /\ [Next]_vars => CountsOK'
<1> SUFFICES ASSUME CountsOK, [Next]_vars PROVE CountsOK'
  OBVIOUS
<1>0. PresenceOK'
  BY PresenceStep DEF CountsOK
<1>1. ASSUME NEW p \in Players, HandlerStep(p) PROVE CountsOK'
  BY <1>0, <1>1, CountsReadsAndRequests, CountsWrites, CountsEntering, CountsExiting DEF HandlerStep
<1>2. ASSUME NEW p \in Players, ClientStep(p) PROVE CountsOK'
  BY <1>0, <1>2, CountsConnect, CountsClosing, CountsReadsAndRequests DEF ClientStep
<1>3. CASE UNCHANGED vars
  <2>1. \A w, s : Clients(w, s)' = Clients(w, s)
    BY <1>3 DEF Clients, vars
  <2> QED
    BY <1>0, <1>3, <2>1 DEF vars, redis, history, CountsOK, HashesHeld, HashHeld, NoPhantomClients
<1> QED
  BY <1>0, <1>1, <1>2, <1>3, CountsRoom DEF Next

(* A WAS never counts a client that is not there, whatever number of        *)
(* players, rooms and WAS there are.                                        *)
THEOREM PhantomsNever == Spec => []NoPhantomClients
<1>1. CountsOK => NoPhantomClients
  BY DEF CountsOK
<1> QED
  BY <1>1, CountsInit, CountsStep, PTL DEF Spec

-----------------------------------------------------------------------------
(* The lists of the browsers                                                *)

(* Between SADD and the message about it.                                   *)
Announcing(q, r) == job[q].pc = "announce" /\ job[q].room = r

(* Why a browser may lack a member.                                         *)
Excused(p, q, r) == q \in missed[p] \/ <<r, q>> \in unlisted \/ Announcing(q, r)

(* The list of a browser, and the list it is about to be sent, against the  *)
(* members of the room.                                                     *)
SeesIn(p, r) ==
  /\ sock[p] = r => view[p] \subseteq members[r] \union missed[p]
  /\ Joining(p, r) => job[p].seen \subseteq members[r] \union missed[p]
  /\ sock[p] = r =>
       \A q \in members[r] : q \in view[p] \/ Excused(p, q, r) \/ (Joining(p, r) /\ q \in job[p].seen)
  /\ Joining(p, r) /\ sock[p] = None =>
       \A q \in members[r] : q \in job[p].seen \/ Excused(p, q, r)

ListFits(p) ==
  /\ sock[p] = None => view[p] = {}
  /\ job[p].pc = "announce" => p \in members[job[p].room] \/ job[p].room \in swept
  /\ \A r \in Rooms \ swept : SeesIn(p, r)
ListsFit == \A p \in Players : ListFits(p)

ListsOK == PresenceOK /\ ListsFit

(* An excuse holds on while p is the only one that moves, unless p's own    *)
(* announcement ends without a trace.                                       *)
LEMMA ExcuseStays ==
  ASSUME NEW p \in Players, unlisted \subseteq unlisted', \A x \in Players \ {p} : job'[x] = job[x],
         \A r \in Rooms : Announcing(p, r) => Announcing(p, r)' \/ <<r, p>> \in unlisted',
         NEW q \in Players, NEW x \in Players, NEW r \in Rooms,
         missed[q] \subseteq missed'[q], Excused(q, x, r)
  PROVE  Excused(q, x, r)'
BY DEF Excused, Announcing

(* A browser whose socket, list and join are not touched.                   *)
LEMMA FitStays ==
  ASSUME ListsOK, NEW q \in Players, members' = members, swept \subseteq swept',
         sock'[q] = sock[q], view'[q] = view[q], missed'[q] = missed[q],
         job'[q].pc = "announce" => job'[q] = job[q],
         \A r \in Rooms : Joining(q, r)' <=> Joining(q, r),
         \A r \in Rooms : Joining(q, r) => job'[q].seen = job[q].seen,
         \A x \in Players, r \in Rooms : Excused(q, x, r) => Excused(q, x, r)'
  PROVE  ListFits(q)'
<1>1. ListFits(q) /\ members \in [Rooms -> SUBSET Players]
  BY DEF ListsOK, ListsFit, PresenceOK, StoresOK
<1>2. ASSUME NEW r \in Rooms \ swept' PROVE SeesIn(q, r)'
  <2>1. SeesIn(q, r) /\ members[r] \subseteq Players
    BY <1>1 DEF ListFits
  <2> QED
    BY <2>1 DEF SeesIn
<1> QED
  BY <1>1, <1>2 DEF ListFits

(* A browser that is in no room and not on its way into one.                *)
LEMMA FitOutside ==
  ASSUME NEW p \in Players, sock'[p] = None, view'[p] = {}, job'[p].pc # "announce",
         job'[p].then = "end" \/ job'[p].pc = "read"
  PROVE  ListFits(p)'
<1>1. ASSUME NEW r \in Rooms PROVE r # None /\ ~Joining(p, r)'
  BY RoomNone DEF Joining
<1> QED
  BY <1>1 DEF ListFits, SeesIn

(* A step of p that concerns its own list only.                             *)
LEMMA HandlerLists ==
  ASSUME ListsOK, PresenceOK', NEW p \in Players, members' = members, swept' = swept,
         unlisted \subseteq unlisted', ListFits(p)',
         \A q \in Players \ {p} : /\ job'[q] = job[q] /\ sock'[q] = sock[q]
                                  /\ view'[q] = view[q] /\ missed'[q] = missed[q],
         \A r \in Rooms : Announcing(p, r) => Announcing(p, r)' \/ <<r, p>> \in unlisted'
  PROVE  ListsOK'
<1>1. ASSUME NEW q \in Players \ {p} PROVE ListFits(q)'
  <2>1. \A r \in Rooms : Joining(q, r)' <=> Joining(q, r)
    BY DEF Joining
  <2>2. \A x \in Players, r \in Rooms : Excused(q, x, r) => Excused(q, x, r)'
    BY ExcuseStays
  <2> QED
    BY <2>1, <2>2, FitStays
<1> QED
  BY <1>1 DEF ListsOK, ListsFit

(* The client leaves the room, is refused, or opens a socket.               *)
LEMMA ListsOutside ==
  ASSUME ListsOK, PresenceOK', NEW p \in Players,
         \/ RejectJoin(p) \/ JoinFails(p) \/ Disconnect(p)
         \/ (\E w \in Routes[p], r \in Rooms : ConnectToJoin(p, w, r))
         \/ (\E w \in Routes[p], cap \in Caps : ConnectToCreate(p, w, cap))
         \/ (ExitLocal(p) \/ ReleaseRoom(p)) /\ job'[p] = Idle
  PROVE  ListsOK'
<1>1. PresenceOK /\ JobFits(p) /\ ListFits(p) /\ view \in [Players -> SUBSET Players]
      /\ sock \in [Players -> Rooms \union {None}] /\ missed \in [Players -> SUBSET Players]
      /\ job \in [Players -> Jobs]
  BY PresenceTypes DEF ListsOK, ListsFit, PresenceOK, StoresOK, OthersOK
<1>2. members' = members /\ swept' = swept /\ unlisted \subseteq unlisted'
  BY DEF RejectJoin, JoinFails, Disconnect, ConnectToJoin, ConnectToCreate, ExitLocal, ReleaseRoom,
         redis, history
<1>3. sock'[p] = None /\ view'[p] = {} /\ \A q \in Players \ {p} : sock'[q] = sock[q] /\ view'[q] = view[q]
  <2>1. CASE JoinFails(p) \/ Disconnect(p)
    BY <1>1, <2>1 DEF JoinFails, Disconnect
  <2>2. CASE ~(JoinFails(p) \/ Disconnect(p))
    <3>1. sock' = sock /\ view' = view
      BY <2>2 DEF RejectJoin, ConnectToJoin, ConnectToCreate, ExitLocal, ReleaseRoom
    <3>2. sock[p] = None
      BY <1>1, <2>2 DEF RejectJoin, ConnectToJoin, ConnectToCreate, ExitLocal, ReleaseRoom, JobFits, Outside
    <3> QED
      BY <1>1, <3>1, <3>2 DEF ListFits
  <2> QED
    BY <2>1, <2>2
<1>4. /\ job'[p].pc # "announce" /\ (job'[p].then = "end" \/ job'[p].pc = "read")
      /\ \A q \in Players \ {p} : job'[q] = job[q]
  <2>1. CASE RejectJoin(p) \/ JoinFails(p) \/ Disconnect(p)
    <3>1. PICK r : JobMoves(p, Job("exit", r, None, {}, "end"))
      BY <2>1 DEF RejectJoin, Rejected, JoinFails, Disconnect, JobMoves
    <3> QED
      BY <1>1, <3>1, JobAfter DEF Job
  <2>2. CASE \/ (\E w \in Routes[p], r \in Rooms : ConnectToJoin(p, w, r))
             \/ (\E w \in Routes[p], cap \in Caps : ConnectToCreate(p, w, cap))
    <3>1. PICK r : JobMoves(p, Job("read", r, None, {}, "join"))
      BY <2>2 DEF ConnectToJoin, ConnectToCreate, JobMoves
    <3> QED
      BY <1>1, <3>1, JobAfter DEF Job
  <2>3. CASE (ExitLocal(p) \/ ReleaseRoom(p)) /\ job'[p] = Idle
    BY <1>1, <2>3, ExitMoves DEF Idle, Job
  <2> QED
    BY <2>1, <2>2, <2>3
<1>5. \A q \in Players \ {p} : missed'[q] = missed[q]
  <2>1. CASE ExitLocal(p) \/ ReleaseRoom(p)
    BY <1>1, <2>1, ExitMoves
  <2>2. CASE ~(ExitLocal(p) \/ ReleaseRoom(p))
    BY <2>2 DEF RejectJoin, JoinFails, Disconnect, ConnectToJoin, ConnectToCreate, history
  <2> QED
    BY <2>1, <2>2
<1>6. ASSUME NEW r \in Rooms, Announcing(p, r) PROVE <<r, p>> \in unlisted'
  <2>1. job[p].pc = "announce" /\ job[p].room = r /\ was[p] # None
    BY <1>1, <1>6 DEF Announcing, JobFits, Idle, Job
  <2>2. JoinFails(p)
    BY <2>1 DEF RejectJoin, Disconnect, ConnectToJoin, ConnectToCreate, Settled, ExitLocal, ReleaseRoom
  <2> QED
    BY <2>1, <2>2 DEF JoinFails
<1>7. ListFits(p)'
  BY <1>3, <1>4, FitOutside
<1> QED
  BY <1>2, <1>3, <1>4, <1>5, <1>6, <1>7, HandlerLists

(* The handler moves on; its browser and what the browser will be sent stay.*)
LEMMA ListsOn ==
  ASSUME ListsOK, PresenceOK', NEW p \in Players,
         \/ (ExitLocal(p) \/ ReleaseRoom(p)) /\ job'[p] # Idle
         \/ HandOver(p) \/ (\E cap \in NewCaps : SetOption(p, cap)) \/ Touch(p) \/ Request(p)
         \/ Ask(p, "option", None) \/ \E q \in Players : Ask(p, "kick", q)
  PROVE  ListsOK'
<1>1. PresenceOK /\ JobFits(p) /\ JobFits(p)' /\ job \in [Players -> Jobs]
  BY PresenceTypes DEF ListsOK, PresenceOK
<1>2. members' = members /\ swept' = swept /\ unlisted = unlisted' /\ sock' = sock /\ view' = view
  BY DEF ExitLocal, ReleaseRoom, HandOver, SetOption, Touch, Request, Ask, redis, history
<1>3. job[p].pc \notin {"announce", "read"}
  BY DEF ExitLocal, ReleaseRoom, HandOver, SetOption, Touch, Request, Ask, Settled
<1>4. /\ missed' = missed /\ (\A q \in Players \ {p} : job'[q] = job[q]) /\ job'[p].pc # "announce"
      /\ \/ job[p].then = "end" /\ job'[p].then = "end"
         \/ /\ job'[p].then = job[p].then /\ job'[p].room = job[p].room /\ job'[p].seen = job[p].seen
            /\ job'[p].pc # "read"
  <2>1. CASE (ExitLocal(p) \/ ReleaseRoom(p)) /\ job'[p] # Idle
    BY <1>1, <2>1, ExitMoves
  <2>2. CASE HandOver(p)
    <3>1. Go(p, "release") /\ missed' = missed
      BY <2>2 DEF HandOver, history
    <3> QED
      BY <1>1, <3>1, DoesGo DEF JobPCs, Does
  <2>3. CASE \E cap \in NewCaps : SetOption(p, cap)
    <3>1. Go(p, "touch") /\ missed' = missed
      BY <2>3 DEF SetOption, history
    <3> QED
      BY <1>1, <3>1, DoesGo DEF JobPCs, Does
  <2>4. CASE Touch(p)
    <3>1. job[p].then = "end" /\ JobMoves(p, Idle) /\ missed' = missed
      BY <1>1, <2>4 DEF Touch, JobFits, JobMoves, history
    <3> QED
      BY <1>1, <3>1, JobAfter DEF Idle, Job
  <2>5. CASE Request(p)
    <3>1. job[p].then = "end" /\ JobMoves(p, Job("touch", sock[p], None, {}, "end")) /\ missed' = missed
      BY <1>1, <2>5 DEF Request, Settled, JobFits, JobMoves, history
    <3> QED
      BY <1>1, <3>1, JobAfter DEF Job
  <2>6. ASSUME NEW what \in {"option", "kick"}, NEW q, Ask(p, what, q) PROVE <1>4
    <3> DEFINE j == [Job(what, sock[p], None, {}, "end") EXCEPT !.heir = q]
    <3>1. job[p].then = "end" /\ JobMoves(p, j) /\ j.pc = what /\ j.then = "end" /\ missed' = missed
      BY <1>1, <2>6 DEF Ask, Settled, JobFits, JobMoves, history, Job
    <3> HIDE DEF j
    <3> QED
      BY <1>1, <3>1, JobAfter
  <2> QED
    BY <2>1, <2>2, <2>3, <2>4, <2>5, <2>6
<1>5. \A r \in Rooms : (Joining(p, r)' <=> Joining(p, r)) /\ (Joining(p, r) => job'[p].seen = job[p].seen)
  BY <1>3, <1>4 DEF Joining
<1>6. \A r \in Rooms : ~Announcing(p, r)
  BY <1>3 DEF Announcing
<1>7. \A x \in Players, r \in Rooms : Excused(p, x, r) => Excused(p, x, r)'
  BY <1>2, <1>4, <1>6, ExcuseStays
<1>8. ListFits(p)'
  BY <1>2, <1>4, <1>5, <1>7, FitStays
<1> QED
  BY <1>2, <1>4, <1>6, <1>8, HandlerLists

(* The list of the room is read, before the exit or after it is known that  *)
(* the player belongs to the game.                                          *)
LEMMA ListsRead ==
  ASSUME ListsOK, PresenceOK', NEW p \in Players, AdmitToLobby(p) \/ Rejoin(p)
  PROVE  ListsOK'
<1> DEFINE r == job[p].room
<1>1. /\ PresenceOK /\ JobFits(p) /\ ListFits(p) /\ job \in [Players -> Jobs] /\ job[p] \in Jobs
      /\ r \in Rooms /\ r # None /\ job[p].pc = "read" /\ job[p].then = "join" /\ sock[p] = None /\ view[p] = {}
      /\ sock \in [Players -> Rooms \union {None}]
  <2>1. PresenceOK /\ JobFits(p) /\ ListFits(p)
    BY PresenceTypes DEF ListsOK, ListsFit
  <2>2. r \in Rooms /\ r # None /\ job[p].pc = "read" /\ job[p].then = "join" /\ sock[p] = None
    BY <2>1, PresenceTypes DEF AdmitToLobby, Rejoin, JobFits, Outside
  <2> QED
    BY <2>1, <2>2, PresenceTypes DEF ListFits, PresenceOK, StoresOK
<1>2. UNCHANGED <<members, swept, unlisted, view, missed>>
  BY DEF AdmitToLobby, Rejoin, redis, history
<1>3. /\ (\A q \in Players \ {p} : job'[q] = job[q] /\ sock'[q] = sock[q])
      /\ job'[p].pc \notin {"announce", "read"} /\ job'[p].room = r /\ job'[p].then # "end"
      /\ job'[p].seen = members[r] /\ sock'[p] \in {None, r}
  <2>1. CASE AdmitToLobby(p)
    <3> DEFINE j == [job[p] EXCEPT !.pc = "exit", !.seen = members[r]]
    <3>1. JobMoves(p, j) /\ sock' = sock
      BY <2>1 DEF AdmitToLobby, JobMoves
    <3>2. j.pc = "exit" /\ j.room = r /\ j.then = "join" /\ j.seen = members[r]
      BY <1>1 DEF Jobs
    <3> HIDE DEF j
    <3> QED
      BY <1>1, <3>1, <3>2, JobAfter
  <2>2. CASE Rejoin(p)
    <3>1. JobMoves(p, Job("inform", r, None, members[r], "rejoin")) /\ sock' = [sock EXCEPT ![p] = r]
      BY <2>2 DEF Rejoin, JobMoves
    <3> QED
      BY <1>1, <3>1, JobAfter DEF Job
  <2> QED
    BY <2>1, <2>2
<1>4. \A s \in Rooms : Joining(p, s)' => s = r
  BY <1>3 DEF Joining
<1>5. Joining(p, r)'
  BY <1>3 DEF Joining
<1>6. ASSUME NEW s \in Rooms PROVE SeesIn(p, s)'
  BY <1>1, <1>2, <1>3, <1>4, <1>5, RoomNone DEF SeesIn
<1>7. ListFits(p)'
  BY <1>1, <1>2, <1>3, <1>6 DEF ListFits
<1>8. \A s \in Rooms : ~Announcing(p, s)
  BY <1>1 DEF Announcing
<1> QED
  BY <1>2, <1>3, <1>7, <1>8, HandlerLists

(* The socket enters the room: from here on it is told of everybody.        *)
LEMMA ListsEnter ==
  ASSUME ListsOK, PresenceOK', NEW p \in Players, Enter(p)
  PROVE  ListsOK'
<1> DEFINE r == job[p].room
<1>1. /\ PresenceOK /\ ListFits(p) /\ job \in [Players -> Jobs] /\ view[p] = {} /\ r # None
      /\ r \in Rooms /\ job[p].pc = "enter" /\ job[p].then = "join" /\ sock[p] = None
      /\ sock \in [Players -> Rooms \union {None}]
  <2>1. PresenceOK /\ JobFits(p) /\ ListFits(p)
    BY PresenceTypes DEF ListsOK, ListsFit
  <2>2. r \in Rooms /\ r # None /\ job[p].pc = "enter" /\ job[p].then = "join" /\ sock[p] = None
    BY <2>1, PresenceTypes DEF Enter, JobFits, Outside
  <2> QED
    BY <2>1, <2>2 DEF ListFits, PresenceOK, StoresOK
<1>2. UNCHANGED <<members, swept, unlisted, view, missed>> /\ sock' = [sock EXCEPT ![p] = r] /\ Go(p, "enrol")
  BY DEF Enter, history
<1>3. PICK j \in Jobs : /\ Does(p, j) /\ j.pc = "enrol" /\ j.room = r /\ j.seen = job[p].seen
                        /\ j.then = "join"
  BY <1>1, <1>2, DoesGo DEF JobPCs
<1>4. \A s \in Rooms : (Joining(p, s) <=> s = r) /\ (Joining(p, s)' <=> s = r)
  BY <1>1, <1>3 DEF Joining, Does
<1>5. \A x \in Players : Excused(p, x, r) => Excused(p, x, r)'
  BY <1>1, <1>2, <1>3, ExcuseStays DEF Announcing, Does
<1>6. ASSUME NEW s \in Rooms \ swept PROVE SeesIn(p, s)'
  <2>1. SeesIn(p, s) /\ members[s] \subseteq Players
    BY <1>1 DEF ListFits, PresenceOK, StoresOK
  <2>2. sock'[p] = r /\ job'[p] = j /\ view'[p] = {}
    BY <1>1, <1>2, <1>3 DEF Does
  <2>3. CASE s = r
    BY <1>1, <1>2, <1>3, <1>4, <1>5, <2>1, <2>2, <2>3 DEF SeesIn
  <2>4. CASE s # r
    BY <1>4, <2>2, <2>4 DEF SeesIn
  <2> QED
    BY <2>3, <2>4
<1>7. ListFits(p)'
  BY <1>1, <1>2, <1>3, <1>6 DEF ListFits, Does
<1>8. \A s \in Rooms : ~Announcing(p, s)
  BY <1>1 DEF Announcing
<1> QED
  BY <1>1, <1>2, <1>3, <1>7, <1>8, HandlerLists DEF Does

(* The list read earlier arrives and is added to what was learnt since.     *)
LEMMA ListsInform ==
  ASSUME ListsOK, PresenceOK', NEW p \in Players, Inform(p)
  PROVE  ListsOK'
<1> DEFINE r == job[p].room
<1>1. /\ PresenceOK /\ ListFits(p) /\ job \in [Players -> Jobs]
      /\ r \in Rooms /\ job[p].pc = "inform" /\ job[p].then # "end" /\ sock[p] = r
      /\ view \in [Players -> SUBSET Players] /\ sock[p] # None
  <2>1. PresenceOK /\ JobFits(p) /\ ListFits(p)
    BY PresenceTypes DEF ListsOK, ListsFit
  <2>2. r \in Rooms /\ r # None /\ job[p].pc = "inform" /\ job[p].then # "end" /\ sock[p] = r
    BY <2>1, PresenceTypes DEF Inform, JobFits, Outside, Joins3
  <2> QED
    BY <2>1, <2>2 DEF PresenceOK, StoresOK
<1>2. /\ UNCHANGED <<members, sock, swept, unlisted, missed>> /\ JobMoves(p, Idle)
      /\ view' = [view EXCEPT ![p] = @ \union job[p].seen]
  BY DEF Inform, redis, history, JobMoves
<1>3. job'[p] = Idle /\ \A q \in Players \ {p} : job'[q] = job[q]
  BY <1>1, <1>2, JobAfter
<1>4. \A s \in Rooms : (Joining(p, s) <=> s = r) /\ ~Joining(p, s)'
  BY <1>1, <1>3 DEF Joining, Idle, Job
<1>8. \A s \in Rooms : ~Announcing(p, s)
  BY <1>1 DEF Announcing
<1>5. \A x \in Players, s \in Rooms : Excused(p, x, s) => Excused(p, x, s)'
  BY <1>1, <1>2, <1>3 DEF Excused, Announcing
<1>6. ASSUME NEW s \in Rooms \ swept PROVE SeesIn(p, s)'
  <2>1. SeesIn(p, s) /\ members[s] \subseteq Players
    BY <1>1 DEF ListFits, PresenceOK, StoresOK
  <2>2. sock'[p] = r /\ view'[p] = view[p] \union job[p].seen
    BY <1>1, <1>2
  <2>3. CASE s = r
    <3>1. view[p] \subseteq members[r] \union missed[p] /\ job[p].seen \subseteq members[r] \union missed[p]
      BY <1>1, <1>4, <2>1, <2>3 DEF SeesIn
    <3>2. \A x \in members[r] : x \in view[p] \union job[p].seen \/ Excused(p, x, r)
      BY <1>1, <2>1, <2>3 DEF SeesIn
    <3> QED
      BY <1>1, <1>2, <1>4, <1>5, <2>1, <2>2, <2>3, <3>1, <3>2 DEF SeesIn
  <2>4. CASE s # r
    BY <1>4, <2>2, <2>4 DEF SeesIn
  <2> QED
    BY <2>3, <2>4
<1>7. ListFits(p)'
  BY <1>1, <1>2, <1>3, <1>6 DEF ListFits, Idle, Job
<1> QED
  BY <1>1, <1>2, <1>3, <1>7, <1>8, HandlerLists

-----------------------------------------------------------------------------
(* Steps the others are told of                                             *)

(* A Join message, against the list of a browser.                           *)
LEMMA ToldJoin ==
  ASSUME ListsOK, NEW p \in Players, NEW r \in Rooms, ToSockets("Join", r, p), p \in members[r] \/ r \in swept,
         UNCHANGED <<members, swept, sock>>, NEW q \in Players,
         \A s \in Rooms : Joining(q, s)' <=> Joining(q, s), job'[q].seen = job[q].seen,
         job'[q].pc = "announce" => job'[q] = job[q],
         \A x \in Players, s \in Rooms :
           Excused(q, x, s) => Excused(q, x, s)' \/ (x = p /\ s = r)
  PROVE  ListFits(q)'
<1>1. /\ ListFits(q) /\ members \in [Rooms -> SUBSET Players] /\ view[q] \in SUBSET Players
      /\ missed[q] \in SUBSET Players
  BY DEF ListsOK, ListsFit, PresenceOK, StoresOK, OthersOK
<1>2. /\ view'[q] = IF sock[q] = r THEN view[q] \union {p} ELSE view[q]
      /\ missed'[q] = IF Joining(q, r) /\ sock[q] = None THEN missed[q] \union {p} ELSE missed[q]
  BY DEF ToSockets
<1>3. missed[q] \subseteq missed'[q]
  BY <1>2
<1>4. ASSUME NEW s \in Rooms \ swept PROVE SeesIn(q, s)'
  <2>1. SeesIn(q, s) /\ members[s] \subseteq Players /\ members'[s] = members[s] /\ sock'[q] = sock[q]
        /\ (Joining(q, s)' <=> Joining(q, s))
    BY <1>1 DEF ListFits
  <2>2. sock[q] = s => view'[q] \subseteq members[s] \union missed'[q]
    BY <1>2, <1>3, <2>1 DEF SeesIn
  <2>3. Joining(q, s) => job[q].seen \subseteq members[s] \union missed'[q]
    BY <1>3, <2>1 DEF SeesIn
  <2>4. ASSUME sock[q] = s, NEW x \in members[s]
        PROVE  x \in view'[q] \/ Excused(q, x, s)' \/ (Joining(q, s) /\ x \in job[q].seen)
    BY <1>2, <2>1, <2>4 DEF SeesIn
  <2>5. ASSUME Joining(q, s), sock[q] = None, NEW x \in members[s]
        PROVE  x \in job[q].seen \/ Excused(q, x, s)'
    <3>1. CASE x = p /\ s = r
      BY <1>2, <2>5, <3>1 DEF Excused
    <3>2. CASE ~(x = p /\ s = r)
      BY <2>1, <2>5, <3>2 DEF SeesIn
    <3> QED
      BY <3>1, <3>2
  <2> QED
    BY <2>1, <2>2, <2>3, <2>4, <2>5 DEF SeesIn
<1>5. sock'[q] = None => view'[q] = {}
  BY <1>1, <1>2, RoomNone DEF ListFits
<1> QED
  BY <1>1, <1>4, <1>5 DEF ListFits

(* An Exit message, against the list of a browser.                          *)
LEMMA ToldExit ==
  ASSUME ListsOK, NEW gone \in Players, NEW r \in Rooms, ToSockets("Exit", r, gone),
         UNCHANGED <<swept, sock>>, NEW q \in Players,
         members' \in {members, [members EXCEPT ![r] = @ \ {gone}]},
         gone \notin members'[r] \/ <<r, gone>> \in unlisted',
         \A s \in Rooms : Joining(q, s)' <=> Joining(q, s), job'[q].seen = job[q].seen,
         job'[q].pc = "announce" => q # gone \/ members' = members, job'[q].pc = "announce" => job'[q] = job[q],
         \A x \in Players, s \in Rooms : Excused(q, x, s) => Excused(q, x, s)'
  PROVE  ListFits(q)'
<1>1. /\ ListFits(q) /\ members \in [Rooms -> SUBSET Players] /\ view[q] \in SUBSET Players
      /\ missed[q] \in SUBSET Players
  BY DEF ListsOK, ListsFit, PresenceOK, StoresOK, OthersOK
<1>2. /\ view'[q] = IF sock[q] = r THEN view[q] \ {gone} ELSE view[q]
      /\ missed'[q] = IF Joining(q, r) /\ gone \in job[q].seen THEN missed[q] \union {gone} ELSE missed[q]
  BY DEF ToSockets
<1>3. missed[q] \subseteq missed'[q]
  BY <1>2
<1>4. ASSUME NEW s \in Rooms \ swept PROVE SeesIn(q, s)'
  <2>1. SeesIn(q, s) /\ members[s] \subseteq Players /\ sock'[q] = sock[q] /\ (Joining(q, s)' <=> Joining(q, s))
    BY <1>1 DEF ListFits
  <2>a. /\ members'[s] \subseteq members[s] /\ (s # r => members'[s] = members[s])
        /\ members[s] \subseteq members'[s] \union {gone}
    BY <1>1
  <2>2. sock[q] = s => view'[q] \subseteq members'[s] \union missed'[q]
    BY <1>2, <1>3, <2>1, <2>a DEF SeesIn
  <2>3. Joining(q, s) => job[q].seen \subseteq members'[s] \union missed'[q]
    BY <1>2, <1>3, <2>1, <2>a DEF SeesIn
  <2>4. ASSUME sock[q] = s, NEW x \in members'[s]
        PROVE  x \in view'[q] \/ Excused(q, x, s)' \/ (Joining(q, s) /\ x \in job[q].seen)
    <3>1. CASE x = gone /\ s = r
      BY <2>4, <3>1 DEF Excused
    <3>2. CASE ~(x = gone /\ s = r)
      BY <1>2, <2>1, <2>a, <2>4, <3>2 DEF SeesIn
    <3> QED
      BY <3>1, <3>2
  <2>5. ASSUME Joining(q, s), sock[q] = None, NEW x \in members'[s]
        PROVE  x \in job[q].seen \/ Excused(q, x, s)'
    BY <2>1, <2>a, <2>5 DEF SeesIn
  <2> QED
    BY <2>1, <2>2, <2>3, <2>4, <2>5 DEF SeesIn
<1>5. sock'[q] = None => view'[q] = {}
  BY <1>1, <1>2, RoomNone DEF ListFits
<1>6. job'[q].pc = "announce" => q \in members'[job'[q].room] \/ job'[q].room \in swept'
  <2>1. job[q].pc = "announce" => job[q].room \in Rooms
    BY PresenceTypes DEF ListsOK, JobFits, Joins3
  <2> QED
    BY <1>1, <2>1 DEF ListFits
<1> QED
  BY <1>4, <1>5, <1>6 DEF ListFits

LEMMA ListsAnnounce ==
  ASSUME ListsOK, PresenceOK', NEW p \in Players, AnnounceJoin(p)
  PROVE  ListsOK'
<1>0. job[p].room \in Rooms
  BY PresenceTypes DEF ListsOK, AnnounceJoin, JobFits, Joins3
<1> PICK r \in Rooms : r = job[p].room
  BY <1>0
<1>1. /\ PresenceOK /\ ListFits(p) /\ job \in [Players -> Jobs]
      /\ missed \in [Players -> SUBSET Players] /\ job[p].pc = "announce"
  <2>1. PresenceOK /\ JobFits(p) /\ ListFits(p)
    BY PresenceTypes DEF ListsOK, ListsFit
  <2> QED
    BY <2>1, PresenceTypes DEF AnnounceJoin, JobFits, Joins3, PresenceOK, OthersOK
<1>2. ToSockets("Join", r, p) /\ Go(p, "inform") /\ UNCHANGED <<members, swept, sock, unlisted>>
  BY DEF AnnounceJoin, redis
<1>3. PICK j \in Jobs : /\ Does(p, j) /\ j.pc = "inform" /\ j.room = r /\ j.seen = job[p].seen
                        /\ j.then = job[p].then
  BY <1>1, <1>2, DoesGo DEF JobPCs
<1>4. p \in members[r] \/ r \in swept
  BY <1>1 DEF ListFits
<1>5. ASSUME NEW q \in Players PROVE ListFits(q)'
  <2>1. /\ \A s \in Rooms : Joining(q, s)' <=> Joining(q, s)
        /\ job'[q].seen = job[q].seen /\ (job'[q].pc = "announce" => job'[q] = job[q])
    BY <1>1, <1>3 DEF Does, Joining
  <2>2. missed[q] \subseteq missed'[q]
    BY <1>2 DEF ToSockets
  <2>3. \A x \in Players, s \in Rooms : Excused(q, x, s) => Excused(q, x, s)' \/ (x = p /\ s = r)
    BY <1>1, <1>2, <1>3, <2>2 DEF Excused, Announcing, Does
  <2> QED
    BY <1>2, <1>4, <2>1, <2>3, ToldJoin
<1> QED
  BY <1>5 DEF ListsOK, ListsFit

LEMMA ListsExitRemove ==
  ASSUME ListsOK, PresenceOK', NEW p \in Players, ExitRemove(p)
  PROVE  ListsOK'
<1> DEFINE r == job[p].from
<1>1. PresenceOK /\ job \in [Players -> Jobs] /\ r \in Rooms /\ job[p].pc = "remove"
      /\ members \in [Rooms -> SUBSET Players]
  <2>1. PresenceOK /\ JobFits(p)
    BY PresenceTypes DEF ListsOK
  <2> QED
    BY <2>1, PresenceTypes DEF ExitRemove, JobFits, PresenceOK, StoresOK
<1>2. ToSockets("Exit", r, p) /\ Go(p, "host") /\ UNCHANGED <<swept, sock, unlisted>>
      /\ members' = [members EXCEPT ![r] = @ \ {p}]
  BY <1>1 DEF ExitRemove
<1>3. PICK j \in Jobs : /\ Does(p, j) /\ j.pc = "host" /\ j.room = job[p].room /\ j.seen = job[p].seen
                        /\ j.then = job[p].then
  BY <1>1, <1>2, DoesGo DEF JobPCs
<1>4. p \notin members'[r]
  BY <1>1, <1>2
<1>5. ASSUME NEW q \in Players PROVE ListFits(q)'
  <2>1. /\ \A s \in Rooms : Joining(q, s)' <=> Joining(q, s)
        /\ job'[q].seen = job[q].seen /\ (job'[q].pc = "announce" => job'[q] = job[q] /\ q # p)
    BY <1>1, <1>3 DEF Does, Joining
  <2>2. missed[q] \subseteq missed'[q]
    BY <1>2 DEF ToSockets
  <2>3. \A x \in Players, s \in Rooms : Excused(q, x, s) => Excused(q, x, s)'
    BY <1>1, <1>2, <1>3, <2>2 DEF Excused, Announcing, Does
  <2> QED
    BY <1>1, <1>2, <1>4, <2>1, <2>3, ToldExit
<1> QED
  BY <1>5 DEF ListsOK, ListsFit

LEMMA ListsKick ==
  ASSUME ListsOK, PresenceOK', NEW p \in Players, Kick(p)
  PROVE  ListsOK'
<1> DEFINE r == job[p].room
           gone == job[p].heir
<1>1. PresenceOK /\ job \in [Players -> Jobs] /\ r \in Rooms /\ gone \in Players /\ job[p].pc = "kick"
  <2>1. PresenceOK /\ JobFits(p)
    BY PresenceTypes DEF ListsOK
  <2> QED
    BY <2>1, PresenceTypes DEF Kick, JobFits, PresenceOK
<1>2. ToSockets("Exit", r, gone) /\ Go(p, "touch") /\ UNCHANGED <<members, swept, sock>>
      /\ unlisted' = unlisted \union {<<r, gone>>}
  BY DEF Kick, redis
<1>3. PICK j \in Jobs : /\ Does(p, j) /\ j.pc = "touch" /\ j.room = job[p].room /\ j.seen = job[p].seen
                        /\ j.then = job[p].then
  BY <1>1, <1>2, DoesGo DEF JobPCs
<1>4. <<r, gone>> \in unlisted'
  BY <1>2
<1>5. ASSUME NEW q \in Players PROVE ListFits(q)'
  <2>1. /\ \A s \in Rooms : Joining(q, s)' <=> Joining(q, s)
        /\ job'[q].seen = job[q].seen /\ (job'[q].pc = "announce" => job'[q] = job[q])
    BY <1>1, <1>3 DEF Does, Joining
  <2>2. missed[q] \subseteq missed'[q]
    BY <1>2 DEF ToSockets
  <2>3. \A x \in Players, s \in Rooms : Excused(q, x, s) => Excused(q, x, s)'
    BY <1>1, <1>2, <1>3, <2>2 DEF Excused, Announcing, Does
  <2> QED
    BY <1>1, <1>2, <1>4, <2>1, <2>3, ToldExit
<1> QED
  BY <1>5 DEF ListsOK, ListsFit

(* SADD: the new member is about to be announced.                           *)
LEMMA ListsEnrol ==
  ASSUME ListsOK, PresenceOK', NEW p \in Players, Enrol(p)
  PROVE  ListsOK'
<1> DEFINE r == job[p].room
<1>1. PresenceOK /\ job \in [Players -> Jobs] /\ r \in Rooms /\ job[p].pc = "enrol"
      /\ members \in [Rooms -> SUBSET Players]
  <2>1. PresenceOK /\ JobFits(p)
    BY PresenceTypes DEF ListsOK
  <2> QED
    BY <2>1, PresenceTypes DEF Enrol, JobFits, Joins3, PresenceOK, StoresOK
<1>2. /\ Go(p, "announce") /\ UNCHANGED <<swept, sock, view, missed, unlisted>>
      /\ members' = [members EXCEPT ![r] = @ \union {p}]
  BY DEF Enrol
<1>3. PICK j \in Jobs : /\ Does(p, j) /\ j.pc = "announce" /\ j.room = job[p].room /\ j.seen = job[p].seen
                        /\ j.then = job[p].then
  BY <1>1, <1>2, DoesGo DEF JobPCs
<1>4. ASSUME NEW q \in Players PROVE ListFits(q)'
  <2>1. /\ \A s \in Rooms : Joining(q, s)' <=> Joining(q, s)
        /\ job'[q].seen = job[q].seen /\ (job'[q].pc = "announce" => job'[q] = job[q] \/ q = p)
    BY <1>1, <1>3 DEF Does, Joining
  <2>2. \A x \in Players, s \in Rooms : Excused(q, x, s) => Excused(q, x, s)'
    BY <1>1, <1>2, <1>3 DEF Excused, Announcing, Does
  <2>3. \A s \in Rooms : s = r => Excused(q, p, s)'
    BY <1>3 DEF Excused, Announcing, Does
  <2>4. ListFits(q)
    BY DEF ListsOK, ListsFit
  <2>5. ASSUME NEW s \in Rooms \ swept PROVE SeesIn(q, s)'
    <3>1. SeesIn(q, s)
      BY <2>4 DEF ListFits
    <3>2. members[s] \subseteq members'[s] /\ members'[s] \subseteq members[s] \union {p}
          /\ (s # r => members'[s] = members[s]) /\ members[s] \subseteq Players
      BY <1>1, <1>2
    <3>3. \A x \in members'[s] \ members[s] : Excused(q, x, s)'
      BY <2>3, <3>2 DEF Excused
    <3> QED
      BY <1>2, <2>1, <2>2, <3>1, <3>2, <3>3 DEF SeesIn
  <2>6. job'[q].pc = "announce" => q \in members'[job'[q].room] \/ job'[q].room \in swept'
    <3>1. CASE q = p
      BY <1>1, <1>2, <1>3, <3>1 DEF Does
    <3>2. CASE q # p
      <4>1. job'[q].pc = "announce" => q \in members[job[q].room] \/ job[q].room \in swept
        BY <2>1, <2>4, <3>2 DEF ListFits
      <4>2. \A s : members[s] \subseteq members'[s] \/ s \notin Rooms
        BY <1>1, <1>2
      <4>3. job'[q].pc = "announce" => job[q].room \in Rooms
        BY <1>1, <2>1, <3>2, PresenceTypes DEF JobFits, Joins3
      <4> QED
        BY <1>2, <2>1, <3>2, <4>1, <4>2, <4>3
    <3> QED
      BY <3>1, <3>2
  <2> QED
    BY <1>2, <2>4, <2>5, <2>6 DEF ListFits
<1> QED
  BY <1>4 DEF ListsOK, ListsFit

LEMMA ListsRoom ==
  ASSUME ListsOK, PresenceOK', NEW r \in Rooms,
         SweepRead(r) \/ SweepDelete(r) \/ GameStarts(r) \/ GameEnds(r) \/ Age(r) \/ CheckInactive(r)
  PROVE  ListsOK'
<1>1. UNCHANGED <<sock, job, view, missed, unlisted>>
  BY DEF SweepRead, SweepDelete, GameStarts, GameEnds, Age, CheckInactive, history
<1>2. \/ members' = members /\ swept' = swept
      \/ members' = [members EXCEPT ![r] = {}] /\ swept' = swept \union {r}
  BY DEF SweepRead, SweepDelete, GameStarts, GameEnds, Age, CheckInactive, redis, history
<1>3. ASSUME NEW q \in Players PROVE ListFits(q)'
  <2>1. ListFits(q) /\ members \in [Rooms -> SUBSET Players]
    BY DEF ListsOK, ListsFit, PresenceOK, StoresOK
  <2>2. \A s \in Rooms \ swept' : s \notin swept /\ members'[s] = members[s]
    BY <1>2, <2>1
  <2>3. \A s, x : (Joining(q, s)' <=> Joining(q, s)) /\ (Excused(q, x, s)' <=> Excused(q, x, s))
    BY <1>1 DEF Joining, Excused, Announcing
  <2>4. \A s \in Rooms \ swept' : SeesIn(q, s)'
    BY <1>1, <2>1, <2>2, <2>3 DEF ListFits, SeesIn
  <2>5. job[q].pc = "announce" => q \in members'[job[q].room] \/ job[q].room \in swept'
    <3>1. job[q].pc = "announce" => job[q].room \in Rooms
      BY PresenceTypes DEF ListsOK, JobFits, Joins3
    <3> QED
      BY <1>2, <2>1, <3>1 DEF ListFits
  <2> QED
    BY <1>1, <2>1, <2>4, <2>5 DEF ListFits
<1> QED
  BY <1>3 DEF ListsOK, ListsFit

LEMMA ListsInit == Init => ListsOK
<1> SUFFICES ASSUME Init PROVE ListsOK
  OBVIOUS
<1>1. ASSUME NEW p \in Players PROVE ListFits(p)
  <2>1. ASSUME NEW r \in Rooms PROVE SeesIn(p, r)
    BY RoomNone DEF Init, SeesIn, Joining, Idle, Job
  <2> QED
    BY <2>1 DEF Init, ListFits, Idle, Job
<1> QED
  BY <1>1, PresenceInit DEF ListsOK, ListsFit

LEMMA ListsStep == ListsOK /\ [Next]_vars => ListsOK'
<1> SUFFICES ASSUME ListsOK, [Next]_vars PROVE ListsOK'
  OBVIOUS
<1>0. PresenceOK'
  BY PresenceStep DEF ListsOK
<1>1. ASSUME NEW p \in Players, HandlerStep(p) PROVE ListsOK'
  BY <1>0, <1>1, ListsOutside, ListsOn, ListsRead, ListsEnter, ListsEnrol, ListsAnnounce, ListsInform,
     ListsExitRemove, ListsKick DEF HandlerStep
<1>2. ASSUME NEW p \in Players, ClientStep(p) PROVE ListsOK'
  BY <1>0, <1>2, ListsOutside, ListsOn DEF ClientStep
<1>3. CASE UNCHANGED vars
  <2>1. \A p, q, r : (Joining(p, r)' <=> Joining(p, r)) /\ (Excused(p, q, r)' <=> Excused(p, q, r))
    BY <1>3 DEF vars, history, Joining, Excused, Announcing
  <2>2. \A p, r : SeesIn(p, r)' <=> SeesIn(p, r)
    BY <1>3, <2>1 DEF vars, redis, history, SeesIn
  <2> QED
    BY <1>0, <1>3, <2>2 DEF vars, redis, history, ListsOK, ListsFit, ListFits
<1> QED
  BY <1>0, <1>1, <1>2, <1>3, ListsRoom DEF Next

LEMMA ListsImplyViewsMatch == ListsOK => ViewsMatch
<1> SUFFICES ASSUME ListsOK, AtRest, NEW p \in Players, was[p] # None, sock[p] \notin swept
             PROVE  /\ view[p] \ members[sock[p]] \subseteq missed[p]
                    /\ \A q \in members[sock[p]] \ view[p] : q \in missed[p] \/ <<sock[p], q>> \in unlisted
  BY DEF ViewsMatch
<1>1. /\ PresenceOK /\ JobFits(p) /\ ListFits(p) /\ (\A q \in Players : job[q].pc = "idle")
      /\ members \in [Rooms -> SUBSET Players]
  BY DEF ListsOK, ListsFit, PresenceOK, StoresOK, AtRest
<1>2. sock[p] \in Rooms /\ job[p].then = "end"
  BY <1>1, PresenceTypes DEF JobFits
<1>3. SeesIn(p, sock[p]) /\ ~Joining(p, sock[p]) /\ \A q \in Players : ~Announcing(q, sock[p])
  BY <1>1, <1>2 DEF ListFits, Joining, Announcing
<1> QED
  BY <1>1, <1>2, <1>3 DEF SeesIn, Excused

(* At rest every browser lists the members of its room, apart from those it *)
(* was told of while it was joining, the kicked and the unannounced.        *)
THEOREM ViewsAgree == Spec => []ViewsMatch
<1> QED
  BY ListsInit, ListsStep, ListsImplyViewsMatch, PTL DEF Spec
=============================================================================
