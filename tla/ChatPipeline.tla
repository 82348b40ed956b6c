---------------------------- MODULE ChatPipeline ----------------------------
(***************************************************************************)
(* The live half of GameChatService (ChatPersist has the stored half) and  *)
(* the browser's side of it.  Messages are queued on the sender's WAS,     *)
(* added to one Redis stream per room, and every WAS reads the stream and  *)
(* emits what is new to its own sockets, under a number that all WAS draw  *)
(* from one counter.                                                       *)
(***************************************************************************)
EXTENDS RoomSockets, SequencesExt


CONSTANT BatchLogSize  (* CHAT_BATCH_HISTORY_SIZE                            *)

ASSUME ChatLog == BatchLogSize \in Nat \ {0}

VARIABLES
  cq,        (* inputQueue of each WAS                                       *)
  stream,    (* all entries ever added to Room:<id>:ChatStream               *)
  cut,       (* how many of them were deleted with the stream                *)
  lastId,    (* lastStreamIdMap: the entries a WAS has read                  *)
  busy,      (* broadcastingRooms                                            *)
  out,       (* batches read and not emitted yet                             *)
  cseq,      (* Room:<id>:ChatSeq                                            *)
  blog,      (* batchLogMap                                                  *)
  ctab,      (* what each browser shows and remembers                        *)
  creqs,     (* retransmissions under way                                    *)
  due        (* history: messages each browser has to show                   *)

chats == <<cq, stream, cut, lastId, busy, out, cseq, blog, ctab, creqs, due>>

(* A message is known by its number; alive: its sender was, to its WAS.     *)
Message(m, live) == [m |-> m, alive |-> live]
Texts(es) == [i \in 1..Len(es) |-> es[i].m]

(* The messages of the living, and those of the dead.                       *)
Living(es) == Picked(es, {i \in DOMAIN es : es[i].alive})
Ghosts(es) == Picked(es, {i \in DOMAIN es : ~es[i].alive})

(* A browser: useChatStore, chatSeqMap, chatRetransmitPending; again: some  *)
(* answer to a retransmission was added to its list.                        *)
NewChat == [shown |-> << >>, last |-> 0, waits |-> FALSE, again |-> FALSE]

ChatInit ==
  /\ cq = [w \in WAS |-> << >>] /\ stream = << >> /\ cut = 0
  /\ lastId = [w \in WAS |-> 0] /\ busy = [w \in WAS |-> FALSE]
  /\ out = [w \in WAS |-> << >>] /\ cseq = 0 /\ blog = [w \in WAS |-> << >>]
  /\ ctab = [p \in Players |-> NewChat] /\ creqs = {}
  /\ due = [p \in Players |-> {}]

-----------------------------------------------------------------------------
(* From a sender to every browser                                           *)

(* chatMessage: the name is cached, so it runs through without waiting.     *)
Say(p) ==
  LET w == home[p] IN
  /\ stage[p] = "in" /\ Input
  /\ cq' = [cq EXCEPT ![w] = Append(@, Message(used + 1, p \notin dead[w]))]
  /\ UNCHANGED <<home, stage, seen, members, alive, dead, wiped>>
  /\ UNCHANGED <<stream, cut, lastId, busy, out, cseq, blog, ctab, creqs, due>>

(* writeRoom: the queue is drained into the stream.  The living's messages  *)
(* are due to everyone whose socket is in the room by now.                  *)
WriteChat(w) ==
  /\ cq[w] # << >> /\ cq' = [cq EXCEPT ![w] = << >>]
  /\ stream' = stream \o cq[w]
  /\ due' = [c \in Players |-> IF c \in Present THEN due[c] \union {e.m : e \in {e \in Range(cq[w]) : e.alive}}
                               ELSE due[c]]
  /\ UNCHANGED <<sockets, cut, lastId, busy, out, cseq, blog, ctab, creqs>>

Unread(w) == SubSeq(stream, Larger(cut, lastId[w]) + 1, Len(stream))

(* broadcastRoom, to its first await: everything after the last entry read. *)
(* A guard keeps a second pass of the timer out until the batch is emitted. *)
ChatRead(w) ==
  /\ ~busy[w] /\ Clients(w) # {} /\ Unread(w) # << >>
  /\ out' = [out EXCEPT ![w] = Append(@, Unread(w))] /\ busy' = [busy EXCEPT ![w] = TRUE]
  /\ lastId' = [lastId EXCEPT ![w] = Len(stream)]
  /\ UNCHANGED <<sockets, cq, stream, cut, cseq, blog, ctab, creqs, due>>

(* chatMessage of the browser: a batch of the living, numbered.             *)
ChatSkips(t, s) == t.last > 0 /\ s > t.last + 1 /\ ~t.waits
HearLiving(t, s, ms) ==
  IF ms = << >> THEN t
  ELSE [t EXCEPT !.shown = @ \o ms, !.last = Larger(@, s), !.waits = @ \/ ChatSkips(t, s)]

(* A batch of the dead has no number and is shown to the dead only.         *)
HearGhosts(t, dying, ms) == IF dying THEN [t EXCEPT !.shown = @ \o ms] ELSE t

Ask(c, from) == [who |-> c, pc |-> "sent", from |-> from, cur |-> 0, alive |-> TRUE]

Kept(w, s, ms) ==
  IF Clients(w) = {} THEN blog[w]
  ELSE Append(IF Len(blog[w]) >= BatchLogSize THEN Tail(blog[w]) ELSE blog[w], [seq |-> s, texts |-> ms])

(* Fault: the position in the stream is taken when the pass ends.           *)
ChatEmitSkipping(w) ==
  LET living == Texts(Living(Head(out[w])))
      s      == cseq + 1
      hears  == {c \in Clients(w) : living # << >>} IN
  /\ out[w] # << >> /\ out' = [out EXCEPT ![w] = Tail(@)]
  /\ busy' = [busy EXCEPT ![w] = FALSE]
  /\ IF living = << >> THEN UNCHANGED <<cseq, blog>>
     ELSE /\ cseq' = s
          /\ blog' = [blog EXCEPT ![w] = Kept(w, s, living)]
  /\ ctab' = [c \in Players |->
                IF c \in Clients(w)
                THEN HearGhosts(HearLiving(ctab[c], s, living), ~alive[c], Texts(Ghosts(Head(out[w]))))
                ELSE ctab[c]]
  /\ creqs' = creqs \union {Ask(c, ctab[c].last) : c \in {c \in hears : ChatSkips(ctab[c], s)}}
  /\ lastId' = [lastId EXCEPT ![w] = Len(stream)]
  /\ UNCHANGED <<sockets, cq, stream, cut, due>>

(* The rest of broadcastRoom: a number only when somebody living has spoken.*)
ChatEmit(w) ==
  LET living == Texts(Living(Head(out[w])))
      s      == cseq + 1
      hears  == {c \in Clients(w) : living # << >>} IN
  /\ out[w] # << >> /\ out' = [out EXCEPT ![w] = Tail(@)]
  /\ busy' = [busy EXCEPT ![w] = FALSE]
  /\ IF living = << >> THEN UNCHANGED <<cseq, blog>>
     ELSE /\ cseq' = s
          /\ blog' = [blog EXCEPT ![w] = Kept(w, s, living)]
  /\ ctab' = [c \in Players |->
                IF c \in Clients(w)
                THEN HearGhosts(HearLiving(ctab[c], s, living), ~alive[c], Texts(Ghosts(Head(out[w]))))
                ELSE ctab[c]]
  /\ creqs' = creqs \union {Ask(c, ctab[c].last) : c \in {c \in hears : ChatSkips(ctab[c], s)}}
  /\ UNCHANGED <<sockets, cq, stream, cut, lastId, due>>

-----------------------------------------------------------------------------
(* Retransmission                                                           *)

(* handleRetransmit: who asks, and how far the counter is.                  *)
ReadChatSeq(r) ==
  /\ r \in creqs /\ r.pc = "sent"
  /\ creqs' = (creqs \ {r}) \union
       (IF r.from >= cseq THEN {} ELSE {[r EXCEPT !.pc = "serve", !.cur = cseq, !.alive = alive[r.who]]})
  /\ UNCHANGED <<sockets, cq, stream, cut, lastId, busy, out, cseq, blog, ctab, due>>

(* Batches of this WAS after the number, or else the whole stream; the      *)
(* browser adds all of it to its list (chatRetransmitResponse).             *)
ServeChat(r) ==
  LET log     == blog[home[r.who]]
      missing == Picked(log, {i \in DOMAIN log : log[i].seq > r.from})
      whole   == SubSeq(stream, cut + 1, Len(stream))
      texts   == IF missing # << >> THEN FlattenSeq([i \in 1..Len(missing) |-> missing[i].texts])
                 ELSE Texts(IF r.alive THEN Living(whole) ELSE whole) IN
  /\ r \in creqs /\ r.pc = "serve" /\ creqs' = creqs \ {r}
  /\ ctab' = [ctab EXCEPT ![r.who] =
                [shown |-> @.shown \o texts, last |-> Larger(@.last, r.cur), waits |-> FALSE, again |-> TRUE]]
  /\ UNCHANGED <<sockets, cq, stream, cut, lastId, busy, out, cseq, blog, due>>

-----------------------------------------------------------------------------
(* What a join and a departure do here                                      *)

(* Fault: every client that joins starts the room of its WAS anew.          *)
ChatJoinsAnew(p) ==
  /\ cq' = [cq EXCEPT ![home[p]] = << >>] /\ lastId' = [lastId EXCEPT ![home[p]] = 0]
  /\ blog' = [blog EXCEPT ![home[p]] = << >>]
  /\ UNCHANGED <<stream, cut, busy, out, cseq, ctab, creqs, due>>

(* onRoomJoined: the first client of a WAS starts the stream from the top.  *)
ChatJoins(p) ==
  LET w == home[p] IN
  /\ IF Clients(w) = {}
     THEN /\ cq' = [cq EXCEPT ![w] = << >>] /\ lastId' = [lastId EXCEPT ![w] = 0]
          /\ blog' = [blog EXCEPT ![w] = << >>]
     ELSE UNCHANGED <<cq, lastId, blog>>
  /\ UNCHANGED <<stream, cut, busy, out, cseq, ctab, creqs, due>>

(* joinRoom of a browser, its own or another's: numbers and requests are    *)
(* forgotten.                                                               *)
ChatForgets(P) ==
  /\ ctab' = [c \in Players |-> IF c \in P THEN [ctab[c] EXCEPT !.last = 0, !.waits = FALSE] ELSE ctab[c]]
  /\ UNCHANGED <<cq, stream, cut, lastId, busy, out, cseq, blog, creqs, due>>

(* onRoomLeft and cleanupRoom: the stream and the counter go with the last  *)
(* client of any WAS, whatever the others still had to read.                *)
ChatLeaves(p) ==
  LET w == home[p] IN
  /\ IF LastOfWAS(p)
     THEN /\ cq' = [cq EXCEPT ![w] = << >>] /\ lastId' = [lastId EXCEPT ![w] = 0]
          /\ blog' = [blog EXCEPT ![w] = << >>] /\ busy' = [busy EXCEPT ![w] = FALSE]
          /\ cut' = Len(stream) /\ cseq' = 0
          /\ due' = [c \in Players |-> due[c] \ {e.m : e \in Range(Unread(home[c]))}]
     ELSE UNCHANGED <<cq, lastId, blog, busy, cut, cseq, due>>
  /\ ctab' = [ctab EXCEPT ![p] = NewChat]
  /\ creqs' = {r \in creqs : r.who # p}
  /\ UNCHANGED <<stream, out>>

-----------------------------------------------------------------------------
ChatTimers(w) == WriteChat(w) \/ ChatRead(w) \/ ChatEmit(w)
ChatRequest(r) == ReadChatSeq(r) \/ ServeChat(r)

ChatQuiet ==
  /\ creqs = {}
  /\ \A w \in WAS : cq[w] = << >> /\ out[w] = << >> /\ (Clients(w) # {} => Unread(w) = << >>)

ChatTypeOK ==
  /\ cut \in 0..Len(stream) /\ Len(stream) <= MaxInputs
  /\ \A w \in WAS : lastId[w] \in 0..Len(stream) /\ Len(blog[w]) <= BatchLogSize
  /\ \A w \in WAS : busy[w] => out[w] # << >>
  /\ \A c \in Players : due[c] \subseteq 1..MaxInputs
=============================================================================
