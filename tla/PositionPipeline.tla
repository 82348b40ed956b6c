-------------------------- MODULE PositionPipeline --------------------------
(***************************************************************************)
(* PositionBroadcastService and the browser's side of it.  A WAS collects  *)
(* the moves of its players; an IN timer writes them to Redis by a script, *)
(* which numbers the batch, logs it and publishes it to the other WAS; an  *)
(* OUT timer emits it to the local sockets.  A browser that sees a number  *)
(* skipped asks for what it missed, from the log or as a snapshot.         *)
(***************************************************************************)
EXTENDS RoomSockets

CONSTANT LogSize      (* POSITION_HISTORY_SIZE                               *)

ASSUME PositionLog == LogSize \in Nat \ {0}

VARIABLES
  pos,       (* positionX/Y of Player:<id>; 0 is where it starts             *)
  seq,       (* Room:<id>:Seq                                                *)
  plog,      (* Room:<id>:PositionLog                                        *)
  inq,       (* inputQueue of each WAS                                       *)
  flown,     (* batches written whose number has not come back yet           *)
  pend,      (* pendingBroadcasts                                            *)
  chan,      (* published batches a WAS has not handled yet                  *)
  tab,       (* what each browser shows and remembers                        *)
  snap,      (* positions a joinRoom has read                                *)
  reqs,      (* retransmissions under way                                    *)
  blurred    (* history: players a browser may have been told of backwards   *)

positions == <<pos, seq, plog, inq, flown, pend, chan, tab, snap, reqs, blurred>>

Update(p, at, live) == [who |-> p, at |-> at, alive |-> live]
Batch(s, ups) == [seq |-> s, ups |-> ups]
Who(ups) == {u.who : u \in ups}

(* A browser: the players it lists with their positions (usePlayerStore),   *)
(* roomSeqMap, playerAppliedSeqMap and retransmitPending.                   *)
NewTab == [shown |-> << >>, last |-> 0, applied |-> [q \in Players |-> 0], waits |-> FALSE]

PositionInit ==
  /\ pos = [p \in Players |-> 0] /\ seq = 0 /\ plog = << >>
  /\ inq = [w \in WAS |-> {}] /\ flown = [w \in WAS |-> << >>]
  /\ pend = [w \in WAS |-> << >>] /\ chan = [w \in WAS |-> << >>]
  /\ tab = [p \in Players |-> NewTab] /\ snap = [p \in Players |-> << >>]
  /\ reqs = {} /\ blurred = [p \in Players |-> {}]

-----------------------------------------------------------------------------
(* Moves on their way to Redis                                              *)

(* getPlayerState: whether a player is a spectator is what its WAS knows.   *)
PlayerLives(p) == p \notin dead[home[p]]

(* enqueueUpdate: the latest move of a player in a period wins.             *)
Enqueued(queue, u) == {v \in queue : v.who # u.who} \union {u}

(* updatePosition *)
Move(p) ==
  /\ stage[p] = "in" /\ Input
  /\ inq' = [inq EXCEPT ![home[p]] = Enqueued(@, Update(p, used + 1, PlayerLives(p)))]
  /\ UNCHANGED <<home, stage, seen, members, alive, dead, wiped>>
  /\ UNCHANGED <<pos, seq, plog, flown, pend, chan, tab, snap, reqs, blurred>>

(* Fault: the log is never trimmed.                                         *)
LoggedWhole(b) == Append(plog, b)

(* RPUSH and LTRIM.                                                         *)
Logged(b) == LET l == Append(plog, b) IN
             IF Len(l) > LogSize THEN SubSeq(l, Len(l) - LogSize + 1, Len(l)) ELSE l

(* execFlush: the positions of a batch go to the hashes of its players.     *)
Stored(b) ==
  [p \in Players |-> IF p \in Who(b.ups) THEN (CHOOSE u \in b.ups : u.who = p).at ELSE pos[p]]

(* writeRoom and its Lua script: number, store, publish and log a batch.    *)
Flush(w) ==
  LET b == Batch(seq + 1, inq[w]) IN
  /\ inq[w] # {} /\ inq' = [inq EXCEPT ![w] = {}]
  /\ seq' = b.seq /\ plog' = Logged(b)
  /\ pos' = Stored(b)
  /\ chan' = [v \in WAS |-> IF v = w THEN chan[v] ELSE Append(chan[v], b)]
  /\ flown' = [flown EXCEPT ![w] = Append(@, b)]
  /\ UNCHANGED <<sockets, pend, tab, snap, reqs, blurred>>

(* The number comes back, and the batch waits for the OUT timer.            *)
FlushReturns(w) ==
  /\ flown[w] # << >> /\ flown' = [flown EXCEPT ![w] = Tail(@)]
  /\ pend' = [pend EXCEPT ![w] = Append(@, Head(flown[w]))]
  /\ UNCHANGED <<sockets, pos, seq, plog, inq, chan, tab, snap, reqs, blurred>>

-----------------------------------------------------------------------------
(* Broadcasts and what a browser makes of them                              *)

(* broadcastToDeadPlayers: the local sockets of the dead set; a set that    *)
(* holds remote players only gives to([]), which is every socket.           *)
DeadAudience(w) ==
  IF dead[w] # {} /\ dead[w] \intersect Clients(w) = {} THEN Clients(w)
  ELSE dead[w] \intersect Clients(w)

(* The updates of a batch that reach a browser, alive ones first; for a     *)
(* player with both, the later one stays.                                   *)
Reaching(c, ups) == {u \in ups : u.alive \/ c \in DeadAudience(home[c])}
Told(ups, q) == CHOOSE u \in ups : u.who = q /\ (u.alive => \A v \in ups : v.who = q => v.alive)

(* Batch b skips numbers, and no request is out.                            *)
Skips(t, b) == t.last > 0 /\ b.seq > t.last + 1 /\ ~t.waits

(* updatePosition of the browser: positions are taken as they come.         *)
Hear(t, b) ==
  [shown   |-> [q \in DOMAIN t.shown |-> IF q \in Who(b.ups) THEN Told(b.ups, q).at ELSE t.shown[q]],
   last    |-> Larger(t.last, b.seq),
   applied |-> [q \in Players |-> IF q \in Who(b.ups) THEN b.seq ELSE t.applied[q]],
   waits   |-> t.waits \/ Skips(t, b)]

(* A request of a browser; from: the last number it has seen.               *)
Request(c, from) == [who |-> c, pc |-> "sent", from |-> from, cur |-> 0, ups |-> {}, alive |-> TRUE]

Deliver(w, b) ==
  LET heard == {c \in Clients(w) : Reaching(c, b.ups) # {}} IN
  /\ tab' = [c \in Players |-> IF c \in heard THEN Hear(tab[c], Batch(b.seq, Reaching(c, b.ups)))
                               ELSE tab[c]]
  /\ reqs' = reqs \union {Request(c, tab[c].last) : c \in {c \in heard : Skips(tab[c], b)}}
  /\ blurred' = [c \in Players |-> IF c \in heard /\ stage[c] = "reading"
                                   THEN blurred[c] \union Who(b.ups) ELSE blurred[c]]

(* mergeBatches: the latest alive and the latest dead update of a player,   *)
(* under the number of the last batch.                                      *)
MergeBatches(bs) ==
  Batch(bs[Len(bs)].seq,
        UNION {{u \in bs[i].ups : \A j \in (i + 1)..Len(bs) : \A v \in bs[j].ups :
                                    v.who # u.who \/ v.alive # u.alive} : i \in 1..Len(bs)})

(* A WAS has the room in a timer slot from its first client to its last.    *)
Assigned(w) == Clients(w) # {}

(* broadcastRoom *)
Broadcast(w) ==
  /\ pend[w] # << >> /\ Assigned(w)
  /\ pend' = [pend EXCEPT ![w] = << >>]
  /\ Deliver(w, MergeBatches(pend[w]))
  /\ UNCHANGED <<sockets, pos, seq, plog, inq, flown, chan, snap>>

(* handlePositionMessage: a batch of another WAS is emitted at once, or     *)
(* dropped when nobody here is in the room.                                 *)
Remote(w) ==
  /\ chan[w] # << >> /\ chan' = [chan EXCEPT ![w] = Tail(@)]
  /\ IF ~Assigned(w) THEN UNCHANGED <<tab, reqs, blurred>> ELSE Deliver(w, Head(chan[w]))
  /\ UNCHANGED <<sockets, pos, seq, plog, inq, flown, pend, snap>>

-----------------------------------------------------------------------------
(* Retransmission                                                           *)

Missing(from) == Picked(plog, {i \in DOMAIN plog : plog[i].seq > from})
TooOld(from) == Missing(from) = << >> \/ from < plog[1].seq - 1

(* The log replayed: the last update of each player.                        *)
Replay(bs) == UNION {{u \in bs[i].ups : \A j \in (i + 1)..Len(bs) : u.who \notin Who(bs[j].ups)} :
                     i \in 1..Len(bs)}

(* handleRetransmit: the requester and the number first; a request that is  *)
(* not behind gets no answer.                                               *)
ReadSeq(r) ==
  /\ r \in reqs /\ r.pc = "sent"
  /\ reqs' = (reqs \ {r}) \union
       (IF r.from >= seq THEN {} ELSE {[r EXCEPT !.pc = "log", !.cur = seq, !.alive = alive[r.who]]})
  /\ UNCHANGED <<sockets, pos, seq, plog, inq, flown, pend, chan, tab, snap, blurred>>

(* Fault: a request the log does not reach back to is dropped.              *)
ReadLogUnanswered(r) ==
  /\ r \in reqs /\ r.pc = "log"
  /\ reqs' = (reqs \ {r}) \union
       (IF TooOld(r.from) THEN {} ELSE {[r EXCEPT !.pc = "ready", !.ups = Replay(Missing(r.from))]})
  /\ UNCHANGED <<sockets, pos, seq, plog, inq, flown, pend, chan, tab, snap, blurred>>

(* Then the log, into which a batch may have come in between; a snapshot    *)
(* when it does not reach back far enough.                                  *)
ReadLog(r) ==
  /\ r \in reqs /\ r.pc = "log"
  /\ reqs' = (reqs \ {r}) \union
       {IF TooOld(r.from) THEN [r EXCEPT !.pc = "snapshot"]
        ELSE [r EXCEPT !.pc = "ready", !.ups = Replay(Missing(r.from))]}
  /\ UNCHANGED <<sockets, pos, seq, plog, inq, flown, pend, chan, tab, snap, blurred>>

ReadSnapshot(r) ==
  /\ r \in reqs /\ r.pc = "snapshot"
  /\ reqs' = (reqs \ {r}) \union
       {[r EXCEPT !.pc = "ready", !.ups = {Update(q, pos[q], alive[q]) : q \in members}]}
  /\ UNCHANGED <<sockets, pos, seq, plog, inq, flown, pend, chan, tab, snap, blurred>>

(* Fault: the answer overwrites positions that are newer.                   *)
ResponseUnchecked(t, r) ==
  LET fresh == {u \in r.ups : ~r.alive \/ u.alive} IN
  [shown |-> [q \in DOMAIN t.shown |-> IF q \in Who(fresh) THEN Told(fresh, q).at ELSE t.shown[q]],
   last |-> Larger(t.last, r.cur), applied |-> t.applied, waits |-> FALSE]

(* positionRetransmitResponse: the spectators' positions only for a         *)
(* spectator, and only what is newer than the last update of the player.    *)
Response(t, r) ==
  LET fresh == {u \in r.ups : (~r.alive \/ u.alive) /\ r.cur > t.applied[u.who]} IN
  [shown   |-> [q \in DOMAIN t.shown |-> IF q \in Who(fresh) THEN Told(fresh, q).at ELSE t.shown[q]],
   last    |-> Larger(t.last, r.cur),
   applied |-> [q \in Players |-> IF q \in Who(fresh) THEN r.cur ELSE t.applied[q]],
   waits   |-> FALSE]

Answer(r) ==
  /\ r \in reqs /\ r.pc = "ready" /\ reqs' = reqs \ {r}
  /\ tab' = [tab EXCEPT ![r.who] = Response(@, r)]
  /\ UNCHANGED <<sockets, pos, seq, plog, inq, flown, pend, chan, snap, blurred>>

(* The same with everybody joined, and one batch delivered to all.          *)
PositionMidway ==
  LET b == Batch(1, {Update(First, 0, TRUE)}) IN
  /\ pos = [p \in Players |-> 0] /\ seq = 1 /\ plog = <<b>>
  /\ inq = [w \in WAS |-> {}] /\ flown = [w \in WAS |-> << >>]
  /\ pend = [w \in WAS |-> << >>] /\ chan = [w \in WAS |-> << >>]
  /\ tab = [p \in Players |-> Hear([NewTab EXCEPT !.shown = [q \in Players |-> 0]], b)]
  /\ snap = [p \in Players |-> << >>]
  /\ reqs = {} /\ blurred = [p \in Players |-> {}]

-----------------------------------------------------------------------------
(* What a join and a departure do here                                      *)

(* joinRoom of the browser: players are added or replaced, and everything   *)
(* it remembers about numbers and requests is cleared.                      *)
HearJoin(t, new) ==
  [NewTab EXCEPT !.shown = [q \in DOMAIN t.shown \union DOMAIN new |->
                              IF q \in DOMAIN new THEN new[q] ELSE t.shown[q]]]

(* A request whose answer is still out when they are cleared can undo what  *)
(* the browser hears in between.                                            *)
Confused(c) == IF \E r \in reqs : r.who = c THEN Players ELSE {}

PositionJoins(p) ==
  /\ pos' = [pos EXCEPT ![p] = 0]
  /\ UNCHANGED <<seq, plog, inq, flown, pend, chan, tab, snap, reqs, blurred>>

PositionAnnounced(p) ==
  /\ tab' = [c \in Players |-> IF c \in Present THEN HearJoin(tab[c], [q \in {p} |-> 0]) ELSE tab[c]]
  /\ blurred' = [c \in Players |-> IF c \in Present THEN blurred[c] \union Confused(c) ELSE blurred[c]]
  /\ UNCHANGED <<pos, seq, plog, inq, flown, pend, chan, snap, reqs>>

PositionReads(p) ==
  /\ snap' = [snap EXCEPT ![p] = [q \in seen[p] |-> pos[q]]]
  /\ UNCHANGED <<pos, seq, plog, inq, flown, pend, chan, tab, reqs, blurred>>

PositionSettles(p) ==
  /\ tab' = [tab EXCEPT ![p] = HearJoin(@, snap[p])]
  /\ snap' = [snap EXCEPT ![p] = << >>]
  /\ blurred' = [blurred EXCEPT ![p] = @ \union Confused(p)]
  /\ UNCHANGED <<pos, seq, plog, inq, flown, pend, chan, reqs>>

(* Numbered batches that a departure leaves behind.                         *)
OnTheWay(p) ==
  \E w \in WAS : flown[w] # << >> \/ chan[w] # << >> \/ (w # home[p] /\ pend[w] # << >>)

(* onPlayerLeft, and cleanupRoom, which also deletes the number and the log *)
(* in Redis; the browser forgets the room, the others drop the player when  *)
(* the exit is published.                                                   *)
PositionLeaves(p) ==
  LET w == home[p] IN
  /\ IF LastOfWAS(p)
     THEN /\ inq' = [inq EXCEPT ![w] = {}] /\ pend' = [pend EXCEPT ![w] = << >>]
          /\ seq' = 0 /\ plog' = << >>
     ELSE UNCHANGED <<inq, pend, seq, plog>>
  /\ tab' = [c \in Players |->
               IF c = p THEN NewTab
               ELSE IF c \in Present /\ p \notin members'
                    THEN [tab[c] EXCEPT !.shown = [q \in DOMAIN @ \ {p} |-> @[q]]] ELSE tab[c]]
  /\ reqs' = {r \in reqs : r.who # p}
  /\ blurred' = [c \in Players |-> IF LastOfWAS(p) THEN blurred[c] \union Confused(c) ELSE blurred[c]]
  /\ UNCHANGED <<pos, flown, chan, snap>>

-----------------------------------------------------------------------------
PositionTimers(w) == Flush(w) \/ FlushReturns(w) \/ Broadcast(w) \/ Remote(w)
PositionRequest(r) == ReadSeq(r) \/ ReadLog(r) \/ ReadSnapshot(r) \/ Answer(r)

PositionQuiet ==
  /\ reqs = {}
  /\ \A w \in WAS : inq[w] = {} /\ flown[w] = << >> /\ chan[w] = << >>
                       /\ (Clients(w) # {} => pend[w] = << >>)

PositionTypeOK ==
  /\ pos \in [Players -> 0..MaxInputs] /\ seq \in 0..(MaxInputs + 1)
  /\ \A i \in 1..Len(plog) : plog[i].seq \in 1..(MaxInputs + 1) /\ plog[i].ups # {}
  /\ Len(plog) <= LogSize
  /\ \A w \in WAS : Who(inq[w]) \subseteq Players /\ Cardinality(Who(inq[w])) = Cardinality(inq[w])
  /\ \A w \in WAS : inq[w] # {} => Clients(w) # {}
  /\ \A c \in Players : DOMAIN tab[c].shown \subseteq Players /\ tab[c].last \in 0..(MaxInputs + 1)
=============================================================================
