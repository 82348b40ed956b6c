--------------------------- MODULE DeliveryProofs ---------------------------
(***************************************************************************)
(* Theorems about Delivery: the state stays well typed and inside its      *)
(* bounds, a browser that waits for what it missed is always served, and   *)
(* when nothing is on its way it shows the players where Redis has them.   *)
(***************************************************************************)
EXTENDS Delivery, FiniteSetTheorems, SequenceTheorems, TLAPS

-----------------------------------------------------------------------------
(* The inductive invariant                                                  *)

Numbers == 1..(MaxInputs + 1)
Updates == [who : Players, at : 0..MaxInputs, alive : BOOLEAN]
Batches == [seq : Numbers, ups : (SUBSET Updates) \ {{}}]
InRoom  == Stages \ {"out", "gone"}

SocketsOK == SocketsTypeOK /\ topic \in {"moves", "talk"}

(* Moves that wait are of clients of their WAS, one for each.               *)
QueuesOK ==
  /\ inq \in [WAS -> SUBSET Updates]
  /\ \A w \in WAS : \A u \in inq[w] : home[u.who] = w
  /\ \A w \in WAS : inq[w] # {} => Clients(w) # {}
  /\ \A w \in WAS : \A u, v \in inq[w] : u.who = v.who => u = v

BatchesOK ==
  /\ seq \in Nat /\ pos \in [Players -> 0..MaxInputs]
  /\ plog \in Seq(Batches) /\ Len(plog) <= LogSize
  /\ flown \in [WAS -> Seq(Batches)] /\ pend \in [WAS -> Seq(Batches)] /\ chan \in [WAS -> Seq(Batches)]

(* A number is drawn for moves that were made, once.                        *)
Waiting == UNION {inq[w] : w \in WAS}
BudgetOK == IsFiniteSet(Waiting) /\ Cardinality(Waiting) + seq <= used + 1

IsTab(t) ==
  /\ DOMAIN t = {"shown", "last", "applied", "waits"} /\ DOMAIN t.shown \subseteq Players
  /\ t.last \in 0..(MaxInputs + 1) /\ t.waits \in BOOLEAN
IsRequest(r) ==
  /\ DOMAIN r = {"who", "pc", "from", "cur", "ups", "alive"}
  /\ r.who \in Players /\ r.from \in Nat /\ r.cur \in 0..(MaxInputs + 1)

TabsOK ==
  /\ DOMAIN tab = Players /\ \A c \in Players : IsTab(tab[c])
  /\ DOMAIN snap = Players /\ \A c \in Players : DOMAIN snap[c] \subseteq Players
  /\ \A r \in reqs : IsRequest(r) /\ stage[r.who] \in InRoom

IsChat(t) ==
  /\ DOMAIN t = {"shown", "last", "waits", "again"} /\ t.last \in Nat /\ t.waits \in BOOLEAN
IsAsk(r) ==
  /\ DOMAIN r = {"who", "pc", "from", "cur", "alive"}
  /\ r.who \in Players /\ r.from \in Nat /\ r.cur \in Nat

AsksOK ==
  /\ cseq \in Nat /\ DOMAIN ctab = Players /\ \A c \in Players : IsChat(ctab[c])
  /\ \A r \in creqs : IsAsk(r) /\ stage[r.who] \in InRoom

(* As long as no number was deleted in use: no batch is ahead of the        *)
(* counter, and a request that the WAS has not read yet is behind it.       *)
Behind(q, n) == \A i \in 1..Len(q) : q[i].seq <= n
NumbersOK ==
  /\ \A w \in WAS : Behind(flown[w], seq) /\ Behind(pend[w], seq) /\ Behind(chan[w], seq)
  /\ \A r \in reqs : r.pc = "sent" => r.from < seq
  /\ \A r \in creqs : r.pc = "sent" => r.from < cseq
AwaitOK == \A c \in Players : (tab[c].waits => Awaited(c, reqs)) /\ (ctab[c].waits => Awaited(c, creqs))
ServedOK == ~wiped => NumbersOK /\ AwaitOK

PositionsOK == QueuesOK /\ BatchesOK /\ BudgetOK /\ TabsOK

-----------------------------------------------------------------------------
LEMMA SocketsStart == Init => SocketsOK
<1> USE DEF SocketsOK, SocketsTypeOK, Stages
<1>1. ASSUME SocketsInit PROVE SocketsTypeOK
  <2>1. wiped \in BOOLEAN
    BY <1>1 DEF SocketsInit
  <2>2. stage \in [Players -> Stages] /\ used \in 0..MaxInputs
    BY <1>1, SocketsBound DEF SocketsInit
  <2> QED
    BY <1>1, <2>1, <2>2 DEF SocketsInit
<1>2. ASSUME SocketsMidway PROVE SocketsTypeOK
  <2>1. wiped \in BOOLEAN
    BY <1>2 DEF SocketsMidway
  <2>2. stage \in [Players -> Stages] /\ used \in 0..MaxInputs
    BY <1>2, SocketsBound DEF SocketsMidway
  <2> QED
    BY <1>2, <2>1, <2>2 DEF SocketsMidway
<1> QED
  BY <1>1, <1>2 DEF Init, Start

(* The actions of Next, one by one.                                         *)
LEMMA Steps ==
  ASSUME Next
  PROVE  /\ UNCHANGED topic
         /\ \/ \E p \in Players : \/ Join(p) \/ Announce(p) \/ SnapRead(p) \/ SnapEmit(p)
                                  \/ Leave(p) \/ Loses(p)
                                  \/ Move(p) /\ UNCHANGED chats
                                  \/ Say(p) /\ UNCHANGED positions
            \/ \E w \in WAS : \/ Flush(w) /\ UNCHANGED chats
                              \/ FlushReturns(w) /\ UNCHANGED chats
                              \/ Broadcast(w) /\ UNCHANGED chats
                              \/ Remote(w) /\ UNCHANGED chats
            \/ \E w \in WAS : (WriteChat(w) \/ ChatRead(w) \/ ChatEmit(w)) /\ UNCHANGED positions
            \/ \E r \in reqs : (ReadSeq(r) \/ ReadLog(r) \/ ReadSnapshot(r) \/ Answer(r)) /\ UNCHANGED chats
            \/ \E r \in creqs : (ReadChatSeq(r) \/ ServeChat(r)) /\ UNCHANGED positions
<1> QED
  BY DEF Next, Inputs, JoinSteps, Running, PositionTimers, PositionRequest, ChatTimers, ChatRequest

LEMMA SocketsStep ==
  ASSUME SocketsOK, Next
  PROVE  SocketsOK'
<1> USE DEF SocketsOK, SocketsTypeOK
<1>1. ASSUME NEW p \in Players, Join(p) PROVE SocketsOK'
  BY <1>1, Steps DEF Join, SocketJoins, To, Stages
<1>2. ASSUME NEW p \in Players, Announce(p) PROVE SocketsOK'
  BY <1>2, Steps DEF Announce, SocketAnnounced, To, Stages
<1>3. ASSUME NEW p \in Players, SnapRead(p) PROVE SocketsOK'
  BY <1>3, Steps DEF SnapRead, SocketReads, To, Stages
<1>4. ASSUME NEW p \in Players, SnapEmit(p) PROVE SocketsOK'
  BY <1>4, Steps DEF SnapEmit, SocketSettles, To, Stages
<1>5. ASSUME NEW p \in Players, Leave(p) PROVE SocketsOK'
  <2>1. wiped' \in BOOLEAN
    BY <1>5 DEF Leave, SocketLeaves
  <2>2. stage' \in [Players -> Stages] /\ used' \in 0..MaxInputs /\ members' \subseteq Players
    BY <1>5, SocketsBound DEF Leave, SocketLeaves, To, Stages, Input
  <2>3. dead' \in [WAS -> SUBSET Players]
    BY <1>5 DEF Leave, SocketLeaves
  <2>4. UNCHANGED <<home, seen, alive, topic>>
    BY <1>5, Steps DEF Leave, SocketLeaves
  <2> QED
    BY <2>1, <2>2, <2>3, <2>4
<1>6. ASSUME NEW p \in Players, Loses(p) PROVE SocketsOK'
  BY <1>6, Steps, SocketsBound DEF Loses, Lose, Input
<1>7. ASSUME NEW p \in Players, Move(p) \/ Say(p) PROVE SocketsOK'
  BY <1>7, Steps, SocketsBound DEF Move, Say, Input
<1>8. ASSUME UNCHANGED sockets PROVE SocketsOK'
  BY <1>8, Steps DEF sockets
<1>9. ASSUME NEW w \in WAS, Flush(w) \/ FlushReturns(w) \/ Broadcast(w) \/ Remote(w) PROVE UNCHANGED sockets
  BY <1>9 DEF Flush, FlushReturns, Broadcast, Remote
<1>10. ASSUME NEW w \in WAS, WriteChat(w) \/ ChatRead(w) \/ ChatEmit(w) PROVE UNCHANGED sockets
  BY <1>10 DEF WriteChat, ChatRead, ChatEmit
<1>11. ASSUME NEW r \in reqs, ReadSeq(r) \/ ReadLog(r) \/ ReadSnapshot(r) \/ Answer(r) PROVE UNCHANGED sockets
  BY <1>11 DEF ReadSeq, ReadLog, ReadSnapshot, Answer
<1>12. ASSUME NEW r \in creqs, ReadChatSeq(r) \/ ServeChat(r) PROVE UNCHANGED sockets
  BY <1>12 DEF ReadChatSeq, ServeChat
<1> QED
  BY <1>1, <1>2, <1>3, <1>4, <1>5, <1>6, <1>7, <1>8, <1>9, <1>10, <1>11, <1>12, Steps

-----------------------------------------------------------------------------
(* Which actions change which variable                                      *)

PositionFrames ==
  /\ \/ UNCHANGED seq
     \/ \E p \in Players : Leave(p)
     \/ \E w \in WAS : Flush(w)
  /\ \/ UNCHANGED plog
     \/ \E p \in Players : Leave(p)
     \/ \E w \in WAS : Flush(w)
  /\ \/ UNCHANGED inq
     \/ \E p \in Players : Leave(p) \/ Move(p)
     \/ \E w \in WAS : Flush(w)
  /\ \/ UNCHANGED flown
     \/ \E w \in WAS : Flush(w) \/ FlushReturns(w)
  /\ \/ UNCHANGED pend
     \/ \E p \in Players : Leave(p)
     \/ \E w \in WAS : FlushReturns(w) \/ Broadcast(w)
  /\ \/ UNCHANGED chan
     \/ \E w \in WAS : Flush(w) \/ Remote(w)
  /\ \/ UNCHANGED pos
     \/ \E p \in Players : Join(p)
     \/ \E w \in WAS : Flush(w)
  /\ \/ UNCHANGED tab
     \/ \E p \in Players : Announce(p) \/ SnapEmit(p) \/ Leave(p)
     \/ \E w \in WAS : Broadcast(w) \/ Remote(w)
     \/ \E r \in reqs : Answer(r)
  /\ \/ UNCHANGED snap
     \/ \E p \in Players : SnapRead(p) \/ SnapEmit(p)
  /\ \/ UNCHANGED reqs
     \/ \E p \in Players : Leave(p)
     \/ \E w \in WAS : Broadcast(w) \/ Remote(w)
     \/ \E r \in reqs : ReadSeq(r) \/ ReadLog(r) \/ ReadSnapshot(r) \/ Answer(r)

ChatFrames ==
  /\ \/ UNCHANGED cq
     \/ \E p \in Players : Join(p) \/ Leave(p) \/ Say(p)
     \/ \E w \in WAS : WriteChat(w)
  /\ \/ UNCHANGED stream
     \/ \E w \in WAS : WriteChat(w)
  /\ \/ UNCHANGED cut
     \/ \E p \in Players : Leave(p)
  /\ \/ UNCHANGED lastId
     \/ \E p \in Players : Join(p) \/ Leave(p)
     \/ \E w \in WAS : ChatRead(w)
  /\ \/ UNCHANGED busy
     \/ \E p \in Players : Leave(p)
     \/ \E w \in WAS : ChatRead(w) \/ ChatEmit(w)
  /\ \/ UNCHANGED out
     \/ \E w \in WAS : ChatRead(w) \/ ChatEmit(w)
  /\ \/ UNCHANGED cseq
     \/ \E p \in Players : Leave(p)
     \/ \E w \in WAS : ChatEmit(w)
  /\ \/ UNCHANGED blog
     \/ \E p \in Players : Join(p) \/ Leave(p)
     \/ \E w \in WAS : ChatEmit(w)
  /\ \/ UNCHANGED ctab
     \/ \E p \in Players : Announce(p) \/ SnapEmit(p) \/ Leave(p)
     \/ \E w \in WAS : ChatEmit(w)
     \/ \E r \in creqs : ServeChat(r)
  /\ \/ UNCHANGED creqs
     \/ \E p \in Players : Leave(p)
     \/ \E w \in WAS : ChatEmit(w)
     \/ \E r \in creqs : ReadChatSeq(r) \/ ServeChat(r)
  /\ \/ UNCHANGED due
     \/ \E p \in Players : Leave(p)
     \/ \E w \in WAS : WriteChat(w)

Frames ==
  /\ UNCHANGED home
  /\ UNCHANGED stage \/ \E p \in Players : Join(p) \/ Announce(p) \/ SnapRead(p) \/ SnapEmit(p) \/ Leave(p)
  /\ used' \in {used, used + 1}
  /\ UNCHANGED wiped \/ \E p \in Players : Leave(p)
  /\ PositionFrames /\ ChatFrames

LEMMA Framed ==
  ASSUME SocketsOK, Next
  PROVE  Frames
<1>1. ASSUME NEW p \in Players, Join(p) PROVE Frames
  <2>1. /\ UNCHANGED <<seq, plog, inq, flown, pend, chan, tab, snap, reqs, stream,
                       cut, busy, out, cseq, ctab, creqs, due, home, wiped>>
        /\ used' \in {used, used + 1}
    BY <1>1 DEF Join, SocketJoins, PositionJoins, ChatJoins
  <2> QED
    BY <1>1, <2>1 DEF Frames, PositionFrames, ChatFrames
<1>2. ASSUME NEW p \in Players, Announce(p) PROVE Frames
  <2>1. /\ UNCHANGED <<seq, plog, inq, flown, pend, chan, pos, snap, reqs, cq,
                       stream, cut, lastId, busy, out, cseq, blog, creqs, due,
                       home, wiped>>
        /\ used' \in {used, used + 1}
    BY <1>2 DEF Announce, SocketAnnounced, PositionAnnounced, ChatForgets
  <2> QED
    BY <1>2, <2>1 DEF Frames, PositionFrames, ChatFrames
<1>3. ASSUME NEW p \in Players, SnapRead(p) PROVE Frames
  <2>1. /\ UNCHANGED <<seq, plog, inq, flown, pend, chan, pos, tab, reqs, cq,
                       stream, cut, lastId, busy, out, cseq, blog, ctab, creqs,
                       due, home, wiped>>
        /\ used' \in {used, used + 1}
    BY <1>3 DEF SnapRead, SocketReads, PositionReads, chats
  <2> QED
    BY <1>3, <2>1 DEF Frames, PositionFrames, ChatFrames
<1>4. ASSUME NEW p \in Players, SnapEmit(p) PROVE Frames
  <2>1. /\ UNCHANGED <<seq, plog, inq, flown, pend, chan, pos, reqs, cq, stream,
                       cut, lastId, busy, out, cseq, blog, creqs, due, home, wiped>>
        /\ used' \in {used, used + 1}
    BY <1>4 DEF SnapEmit, SocketSettles, PositionSettles, ChatForgets
  <2> QED
    BY <1>4, <2>1 DEF Frames, PositionFrames, ChatFrames
<1>5. ASSUME NEW p \in Players, Leave(p) PROVE Frames
  <2>1. /\ UNCHANGED <<flown, chan, pos, snap, stream, out, home>>
        /\ used' \in {used, used + 1}
    BY <1>5 DEF Leave, SocketLeaves, PositionLeaves, ChatLeaves, Input
  <2> QED
    BY <1>5, <2>1 DEF Frames, PositionFrames, ChatFrames
<1>6. ASSUME NEW p \in Players, Loses(p) PROVE Frames
  <2>1. /\ UNCHANGED <<seq, plog, inq, flown, pend, chan, pos, tab, snap, reqs, cq,
                       stream, cut, lastId, busy, out, cseq, blog, ctab, creqs,
                       due, home, stage, wiped>>
        /\ used' \in {used, used + 1}
    BY <1>6 DEF Loses, Lose, positions, chats, Input
  <2> QED
    BY <1>6, <2>1 DEF Frames, PositionFrames, ChatFrames
<1>7. ASSUME NEW p \in Players, Move(p), UNCHANGED chats PROVE Frames
  <2>1. /\ UNCHANGED <<seq, plog, flown, pend, chan, pos, tab, snap, reqs, cq,
                       stream, cut, lastId, busy, out, cseq, blog, ctab, creqs,
                       due, home, stage, wiped>>
        /\ used' \in {used, used + 1}
    BY <1>7 DEF Move, chats, Input
  <2> QED
    BY <1>7, <2>1 DEF Frames, PositionFrames, ChatFrames
<1>8. ASSUME NEW p \in Players, Say(p), UNCHANGED positions PROVE Frames
  <2>1. /\ UNCHANGED <<seq, plog, inq, flown, pend, chan, pos, tab, snap, reqs,
                       stream, cut, lastId, busy, out, cseq, blog, ctab, creqs,
                       due, home, stage, wiped>>
        /\ used' \in {used, used + 1}
    BY <1>8 DEF Say, positions, Input
  <2> QED
    BY <1>8, <2>1 DEF Frames, PositionFrames, ChatFrames
<1>9. ASSUME NEW w \in WAS, Flush(w), UNCHANGED chats PROVE Frames
  <2>1. /\ UNCHANGED <<pend, tab, snap, reqs, cq, stream, cut, lastId, busy, out,
                       cseq, blog, ctab, creqs, due, home, stage, wiped>>
        /\ used' \in {used, used + 1}
    BY <1>9 DEF Flush, sockets, chats
  <2> QED
    BY <1>9, <2>1 DEF Frames, PositionFrames, ChatFrames
<1>10. ASSUME NEW w \in WAS, FlushReturns(w), UNCHANGED chats PROVE Frames
  <2>1. /\ UNCHANGED <<seq, plog, inq, chan, pos, tab, snap, reqs, cq, stream, cut,
                       lastId, busy, out, cseq, blog, ctab, creqs, due, home,
                       stage, wiped>>
        /\ used' \in {used, used + 1}
    BY <1>10 DEF FlushReturns, sockets, chats
  <2> QED
    BY <1>10, <2>1 DEF Frames, PositionFrames, ChatFrames
<1>11. ASSUME NEW w \in WAS, Broadcast(w), UNCHANGED chats PROVE Frames
  <2>1. /\ UNCHANGED <<seq, plog, inq, flown, chan, pos, snap, cq, stream, cut,
                       lastId, busy, out, cseq, blog, ctab, creqs, due, home,
                       stage, wiped>>
        /\ used' \in {used, used + 1}
    BY <1>11 DEF Broadcast, sockets, chats
  <2> QED
    BY <1>11, <2>1 DEF Frames, PositionFrames, ChatFrames
<1>12. ASSUME NEW w \in WAS, Remote(w), UNCHANGED chats PROVE Frames
  <2>1. /\ UNCHANGED <<seq, plog, inq, flown, pend, pos, snap, cq, stream, cut,
                       lastId, busy, out, cseq, blog, ctab, creqs, due, home,
                       stage, wiped>>
        /\ used' \in {used, used + 1}
    BY <1>12 DEF Remote, sockets, chats
  <2> QED
    BY <1>12, <2>1 DEF Frames, PositionFrames, ChatFrames
<1>13. ASSUME NEW r \in reqs, ReadSeq(r), UNCHANGED chats PROVE Frames
  <2>1. /\ UNCHANGED <<seq, plog, inq, flown, pend, chan, pos, tab, snap, cq,
                       stream, cut, lastId, busy, out, cseq, blog, ctab, creqs,
                       due, home, stage, wiped>>
        /\ used' \in {used, used + 1}
    BY <1>13 DEF ReadSeq, sockets, chats
  <2> QED
    BY <1>13, <2>1 DEF Frames, PositionFrames, ChatFrames
<1>14. ASSUME NEW r \in reqs, ReadLog(r), UNCHANGED chats PROVE Frames
  <2>1. /\ UNCHANGED <<seq, plog, inq, flown, pend, chan, pos, tab, snap, cq,
                       stream, cut, lastId, busy, out, cseq, blog, ctab, creqs,
                       due, home, stage, wiped>>
        /\ used' \in {used, used + 1}
    BY <1>14 DEF ReadLog, sockets, chats
  <2> QED
    BY <1>14, <2>1 DEF Frames, PositionFrames, ChatFrames
<1>15. ASSUME NEW r \in reqs, ReadSnapshot(r), UNCHANGED chats PROVE Frames
  <2>1. /\ UNCHANGED <<seq, plog, inq, flown, pend, chan, pos, tab, snap, cq,
                       stream, cut, lastId, busy, out, cseq, blog, ctab, creqs,
                       due, home, stage, wiped>>
        /\ used' \in {used, used + 1}
    BY <1>15 DEF ReadSnapshot, sockets, chats
  <2> QED
    BY <1>15, <2>1 DEF Frames, PositionFrames, ChatFrames
<1>16. ASSUME NEW r \in reqs, Answer(r), UNCHANGED chats PROVE Frames
  <2>1. /\ UNCHANGED <<seq, plog, inq, flown, pend, chan, pos, snap, cq, stream,
                       cut, lastId, busy, out, cseq, blog, ctab, creqs, due, home,
                       stage, wiped>>
        /\ used' \in {used, used + 1}
    BY <1>16 DEF Answer, sockets, chats
  <2> QED
    BY <1>16, <2>1 DEF Frames, PositionFrames, ChatFrames
<1>17. ASSUME NEW w \in WAS, WriteChat(w), UNCHANGED positions PROVE Frames
  <2>1. /\ UNCHANGED <<seq, plog, inq, flown, pend, chan, pos, tab, snap, reqs,
                       cut, lastId, busy, out, cseq, blog, ctab, creqs, home,
                       stage, wiped>>
        /\ used' \in {used, used + 1}
    BY <1>17 DEF WriteChat, sockets, positions
  <2> QED
    BY <1>17, <2>1 DEF Frames, PositionFrames, ChatFrames
<1>18. ASSUME NEW w \in WAS, ChatRead(w), UNCHANGED positions PROVE Frames
  <2>1. /\ UNCHANGED <<seq, plog, inq, flown, pend, chan, pos, tab, snap, reqs, cq,
                       stream, cut, cseq, blog, ctab, creqs, due, home, stage,
                       wiped>>
        /\ used' \in {used, used + 1}
    BY <1>18 DEF ChatRead, sockets, positions
  <2> QED
    BY <1>18, <2>1 DEF Frames, PositionFrames, ChatFrames
<1>19. ASSUME NEW w \in WAS, ChatEmit(w), UNCHANGED positions PROVE Frames
  <2>1. /\ UNCHANGED <<seq, plog, inq, flown, pend, chan, pos, tab, snap, reqs, cq,
                       stream, cut, lastId, due, home, stage, wiped>>
        /\ used' \in {used, used + 1}
    BY <1>19 DEF ChatEmit, sockets, positions
  <2> QED
    BY <1>19, <2>1 DEF Frames, PositionFrames, ChatFrames
<1>20. ASSUME NEW r \in creqs, ReadChatSeq(r), UNCHANGED positions PROVE Frames
  <2>1. /\ UNCHANGED <<seq, plog, inq, flown, pend, chan, pos, tab, snap, reqs, cq,
                       stream, cut, lastId, busy, out, cseq, blog, ctab, due, home,
                       stage, wiped>>
        /\ used' \in {used, used + 1}
    BY <1>20 DEF ReadChatSeq, sockets, positions
  <2> QED
    BY <1>20, <2>1 DEF Frames, PositionFrames, ChatFrames
<1>21. ASSUME NEW r \in creqs, ServeChat(r), UNCHANGED positions PROVE Frames
  <2>1. /\ UNCHANGED <<seq, plog, inq, flown, pend, chan, pos, tab, snap, reqs, cq,
                       stream, cut, lastId, busy, out, cseq, blog, due, home,
                       stage, wiped>>
        /\ used' \in {used, used + 1}
    BY <1>21 DEF ServeChat, sockets, positions
  <2> QED
    BY <1>21, <2>1 DEF Frames, PositionFrames, ChatFrames
<1> QED
  BY <1>1, <1>2, <1>3, <1>4, <1>5, <1>6, <1>7, <1>8, <1>9, <1>10, <1>11, <1>12, <1>13, <1>14, <1>15, <1>16, <1>17, <1>18, <1>19, <1>20, <1>21, Steps

-----------------------------------------------------------------------------
(* Clients come by a join and go by a departure.                            *)
LEMMA ClientsStay ==
  ASSUME SocketsOK, Next, NEW w \in WAS
  PROVE  Clients(w) \subseteq Clients(w)' \/ \E p \in Players : Leave(p)
<1>1. ASSUME NEW p \in Players, Join(p) \/ Announce(p) \/ SnapRead(p) \/ SnapEmit(p)
      PROVE  Clients(w) \subseteq Clients(w)'
  BY <1>1 DEF SocketsOK, SocketsTypeOK, Join, Announce, SnapRead, SnapEmit, SocketJoins, SocketAnnounced,
              SocketReads, SocketSettles, To, Clients
<1>2. ASSUME UNCHANGED stage PROVE Clients(w) \subseteq Clients(w)'
  BY <1>2, Framed DEF Frames, Clients
<1> QED
  BY <1>1, <1>2, Framed DEF Frames

LEMMA LeavingClients ==
  ASSUME SocketsOK, NEW p \in Players, Leave(p)
  PROVE  /\ home[p] \in WAS /\ p \in Clients(home[p])
         /\ \A w \in WAS : Clients(w)' = Clients(w) \ {p}
         /\ \A w \in WAS : w # home[p] => Clients(w)' = Clients(w)
<1>1. stage[p] = "in" /\ stage' = [stage EXCEPT ![p] = "gone"] /\ home' = home
  BY DEF Leave, SocketLeaves, To
<1>2. home \in [Players -> WAS] /\ stage \in [Players -> Stages]
  BY SocketsRoutes DEF SocketsOK, SocketsTypeOK
<1> QED
  BY <1>1, <1>2 DEF Clients

LEMMA QueuesStart == Init => QueuesOK
<1>1. Init => inq = [w \in WAS |-> {}]
  BY DEF Init, Start, PositionInit, PositionMidway
<1> QED
  BY <1>1 DEF QueuesOK

LEMMA QueuesStep ==
  ASSUME SocketsOK, QueuesOK, Next
  PROVE  QueuesOK'
<1>0. home' = home /\ home \in [Players -> WAS] /\ \A p \in Players : used + 1 \in 0..MaxInputs \/ ~Input
  BY Framed, SocketsRoutes, SocketsBound DEF Frames, SocketsOK, SocketsTypeOK, Input
<1>1. ASSUME NEW p \in Players, Leave(p) PROVE QueuesOK'
  <2>1. inq' = IF Clients(home[p]) = {p} THEN [inq EXCEPT ![home[p]] = {}] ELSE inq
    BY <1>1 DEF Leave, PositionLeaves, LastOfWAS
  <2>2. inq' \in [WAS -> SUBSET Updates] /\ \A w \in WAS : inq'[w] \subseteq inq[w]
    BY <1>0, <2>1 DEF QueuesOK
  <2>3. ASSUME NEW w \in WAS, inq'[w] # {} PROVE Clients(w)' # {}
    <3>1. CASE w = home[p]
      <4>1. Clients(home[p]) # {p}
        BY <2>1, <2>3, <3>1, <1>0 DEF QueuesOK
      <4> QED
        BY <1>1, <3>1, <4>1, LeavingClients
    <3>2. CASE w # home[p]
      BY <1>1, <2>2, <2>3, <3>2, LeavingClients DEF QueuesOK
    <3> QED
      BY <3>1, <3>2
  <2> QED
    BY <1>0, <2>2, <2>3 DEF QueuesOK
<1>2. ASSUME NEW p \in Players, Move(p) PROVE QueuesOK'
  <2> DEFINE u == Update(p, used + 1, PlayerLives(p))
  <2>1. u \in Updates /\ u.who = p
    BY <1>0, <1>2 DEF Updates, Update, PlayerLives, Move
  <2>2. inq' = [inq EXCEPT ![home[p]] = {v \in inq[home[p]] : v.who # u.who} \union {u}]
    BY <1>2 DEF Move, Enqueued
  <2>3. stage[p] = "in" /\ UNCHANGED stage
    BY <1>2 DEF Move
  <2> HIDE DEF u
  <2>4. inq' \in [WAS -> SUBSET Updates]
    BY <1>0, <2>1, <2>2 DEF QueuesOK
  <2>5. \A w \in WAS : Clients(w)' = Clients(w)
    BY <1>0, <2>3 DEF Clients
  <2>6. p \in Clients(home[p])
    BY <2>3 DEF Clients
  <2>7. \A w \in WAS : IF w = home[p] THEN inq'[w] = {v \in inq[w] : v.who # p} \union {u} ELSE inq'[w] = inq[w]
    BY <1>0, <2>1, <2>2 DEF QueuesOK
  <2>8. \A w \in WAS : \A v \in inq'[w] : home[v.who] = w
    BY <2>1, <2>7 DEF QueuesOK
  <2>9. \A w \in WAS : inq'[w] # {} => Clients(w)' # {}
    BY <2>5, <2>6, <2>7 DEF QueuesOK
  <2>10. \A w \in WAS : \A v, x \in inq'[w] : v.who = x.who => v = x
    BY <2>1, <2>7 DEF QueuesOK
  <2> QED
    BY <1>0, <2>4, <2>8, <2>9, <2>10 DEF QueuesOK
<1>3. ASSUME NEW w \in WAS, Flush(w) PROVE QueuesOK'
  <2>1. inq' = [inq EXCEPT ![w] = {}] /\ UNCHANGED stage
    BY <1>3 DEF Flush, sockets
  <2>2. \A v \in WAS : Clients(v)' = Clients(v)
    BY <1>0, <2>1 DEF Clients
  <2> QED
    BY <1>0, <2>1, <2>2 DEF QueuesOK
<1>4. ASSUME UNCHANGED inq, ~\E p \in Players : Leave(p) PROVE QueuesOK'
  BY <1>0, <1>4, ClientsStay DEF QueuesOK
<1> QED
  BY <1>1, <1>2, <1>3, <1>4, Framed DEF Frames, PositionFrames

-----------------------------------------------------------------------------
(* Batches                                                                  *)

LEMMA LoggedOK ==
  ASSUME NEW b \in Batches, plog \in Seq(Batches), Len(plog) <= LogSize
  PROVE  Logged(b) \in Seq(Batches) /\ Len(Logged(b)) <= LogSize
<1> DEFINE l == Append(plog, b)
<1>1. l \in Seq(Batches) /\ Len(l) = Len(plog) + 1
  OBVIOUS
<1>2. LogSize \in Nat /\ LogSize > 0
  BY PositionLog
<1> HIDE DEF l
<1>3. ASSUME Len(l) > LogSize
      PROVE  SubSeq(l, Len(l) - LogSize + 1, Len(l)) \in Seq(Batches) /\ Len(SubSeq(l, Len(l) - LogSize + 1, Len(l))) = LogSize
  BY <1>1, <1>2, <1>3, SubSeqProperties
<1> QED
  BY <1>1, <1>2, <1>3 DEF Logged, l

LEMMA MergedOK ==
  ASSUME NEW bs \in Seq(Batches), bs # << >>
  PROVE  /\ MergeBatches(bs) \in [seq : Numbers, ups : SUBSET Updates]
         /\ MergeBatches(bs).seq = bs[Len(bs)].seq
<1>1. Len(bs) \in DOMAIN bs /\ bs[Len(bs)] \in Batches
  OBVIOUS
<1>2. ASSUME NEW i \in 1..Len(bs) PROVE bs[i].ups \subseteq Updates
  <2>1. bs[i] \in Batches
    OBVIOUS
  <2> QED
    BY <2>1 DEF Batches
<1> QED
  BY <1>1, <1>2 DEF MergeBatches, Batch, Batches

LEMMA StoredOK ==
  ASSUME NEW b \in [seq : Nat, ups : SUBSET Updates], pos \in [Players -> 0..MaxInputs]
  PROVE  Stored(b) \in [Players -> 0..MaxInputs]
<1>1. ASSUME NEW p \in Players, p \in Who(b.ups) PROVE (CHOOSE u \in b.ups : u.who = p).at \in 0..MaxInputs
  BY <1>1 DEF Who, Updates
<1> QED
  BY <1>1 DEF Stored

LEMMA FewerWait ==
  ASSUME BudgetOK, NEW S, S \subseteq Waiting
  PROVE  IsFiniteSet(S) /\ Cardinality(S) \in Nat /\ Cardinality(Waiting) \in Nat /\ Cardinality(S) <= Cardinality(Waiting)
BY FS_Subset, FS_CardinalityType DEF BudgetOK

LEMMA BudgetStart == Init => BudgetOK
<1>1. Init => inq = [w \in WAS |-> {}] /\ seq \in {0, 1} /\ used = 0
  BY DEF Init, Start, PositionInit, PositionMidway, SocketsInit, SocketsMidway
<1>2. inq = [w \in WAS |-> {}] => Waiting = {}
  BY DEF Waiting
<1> QED
  BY <1>1, <1>2, FS_EmptySet DEF BudgetOK

LEMMA BudgetStep ==
  ASSUME SocketsOK, QueuesOK, BatchesOK, BudgetOK, Next
  PROVE  BudgetOK' /\ seq' \in Nat /\ seq' <= MaxInputs + 1
<1>0. /\ used' \in {used, used + 1} /\ used \in Nat /\ seq \in Nat /\ used' <= MaxInputs /\ MaxInputs \in Nat
      /\ home \in [Players -> WAS] /\ DOMAIN inq = WAS
  <2>1. used' \in {used, used + 1}
    BY Framed DEF Frames
  <2>2. used' <= MaxInputs /\ used \in Nat
    BY SocketsStep, SocketsBound DEF SocketsOK, SocketsTypeOK
  <2>3. home \in [Players -> WAS] /\ DOMAIN inq = WAS /\ seq \in Nat
    BY SocketsRoutes DEF SocketsOK, SocketsTypeOK, BatchesOK, QueuesOK
  <2> QED
    BY <2>1, <2>2, <2>3, SocketsBound
<1>1. ASSUME Waiting' \subseteq Waiting, seq' \in {0, seq} PROVE BudgetOK' /\ seq' \in Nat /\ seq' <= MaxInputs + 1
  <2>1. IsFiniteSet(Waiting') /\ Cardinality(Waiting') \in Nat /\ Cardinality(Waiting) \in Nat
        /\ Cardinality(Waiting') <= Cardinality(Waiting)
    BY <1>1, FewerWait
  <2> QED
    BY <1>0, <1>1, <2>1 DEF BudgetOK
<1>2. ASSUME NEW p \in Players, Leave(p) PROVE Waiting' \subseteq Waiting /\ seq' \in {0, seq}
  <2>1. /\ inq' = IF Clients(home[p]) = {p} THEN [inq EXCEPT ![home[p]] = {}] ELSE inq
        /\ seq' \in {0, seq}
    BY <1>2 DEF Leave, PositionLeaves, LastOfWAS
  <2>2. \A w \in WAS : inq'[w] \subseteq inq[w]
    BY <1>0, <2>1
  <2> QED
    BY <2>1, <2>2 DEF Waiting
<1>3. ASSUME NEW p \in Players, Move(p) PROVE BudgetOK' /\ seq' \in Nat /\ seq' <= MaxInputs + 1
  <2> DEFINE u == Update(p, used + 1, PlayerLives(p))
  <2>1. /\ inq' = [inq EXCEPT ![home[p]] = {v \in inq[home[p]] : v.who # u.who} \union {u}]
        /\ used' = used + 1 /\ seq' = seq
    BY <1>3 DEF Move, Enqueued, Input
  <2> HIDE DEF u
  <2>2. \A w \in WAS : inq'[w] \subseteq inq[w] \union {u}
    BY <1>0, <2>1
  <2>3. Waiting' \subseteq Waiting \union {u}
    BY <2>2 DEF Waiting
  <2>4. /\ IsFiniteSet(Waiting \union {u}) /\ Cardinality(Waiting \union {u}) <= Cardinality(Waiting) + 1
        /\ Cardinality(Waiting) \in Nat /\ Cardinality(Waiting \union {u}) \in Nat
    <3>1. IsFiniteSet(Waiting) /\ Cardinality(Waiting) \in Nat
      BY FS_CardinalityType DEF BudgetOK
    <3>2. /\ IsFiniteSet(Waiting \union {u})
          /\ Cardinality(Waiting \union {u}) = IF u \in Waiting THEN Cardinality(Waiting) ELSE Cardinality(Waiting) + 1
      BY <3>1, FS_AddElement
    <3> QED
      BY <3>1, <3>2
  <2>5. IsFiniteSet(Waiting') /\ Cardinality(Waiting') <= Cardinality(Waiting \union {u}) /\ Cardinality(Waiting') \in Nat
    BY <2>3, <2>4, FS_Subset, FS_CardinalityType
  <2> QED
    BY <1>0, <2>1, <2>4, <2>5 DEF BudgetOK
<1>4. ASSUME NEW w \in WAS, Flush(w) PROVE BudgetOK' /\ seq' \in Nat /\ seq' <= MaxInputs + 1
  <2>1. inq[w] # {} /\ inq' = [inq EXCEPT ![w] = {}] /\ seq' = seq + 1
    BY <1>4 DEF Flush, Batch
  <2>2. PICK u \in inq[w] : TRUE
    BY <2>1
  <2>3. \A v \in WAS : inq'[v] \subseteq inq[v] /\ u \notin inq'[v]
    BY <1>0, <2>1, <2>2 DEF QueuesOK
  <2>4. Waiting' \subseteq Waiting \ {u} /\ u \in Waiting
    BY <2>2, <2>3 DEF Waiting
  <2>5. /\ IsFiniteSet(Waiting \ {u}) /\ Cardinality(Waiting \ {u}) = Cardinality(Waiting) - 1
        /\ Cardinality(Waiting) \in Nat
    BY <2>4, FS_RemoveElement, FS_CardinalityType DEF BudgetOK
  <2>6. IsFiniteSet(Waiting') /\ Cardinality(Waiting') <= Cardinality(Waiting \ {u}) /\ Cardinality(Waiting') \in Nat
    BY <2>4, <2>5, FS_Subset, FS_CardinalityType
  <2> QED
    BY <1>0, <2>1, <2>5, <2>6 DEF BudgetOK
<1>5. ASSUME UNCHANGED <<inq, seq>> PROVE Waiting' \subseteq Waiting /\ seq' \in {0, seq}
  BY <1>5 DEF Waiting
<1>6. ASSUME NEW p \in Players, Move(p) PROVE UNCHANGED seq
  BY <1>6 DEF Move
<1> QED
  BY <1>1, <1>2, <1>3, <1>4, <1>5, <1>6, Framed DEF Frames, PositionFrames

LEMMA BatchesStart == Init => BatchesOK
<1>1. ASSUME PositionInit PROVE BatchesOK
  BY <1>1, SocketsBound, PositionLog DEF PositionInit, BatchesOK
<1>2. ASSUME PositionMidway PROVE BatchesOK
  <2> DEFINE u == Update(First, 0, TRUE)
             b == Batch(1, {u})
  <2>1. u \in Updates
    BY SocketsBound DEF Update, Updates
  <2>2. b \in Batches
    <3> HIDE DEF u
    <3>1. {u} \in (SUBSET Updates) \ {{}} /\ 1 \in Numbers
      BY <2>1, SocketsBound DEF Numbers
    <3> QED
      BY <3>1 DEF Batch, Batches
  <2>3. seq = 1 /\ plog = <<b>> /\ pos = [p \in Players |-> 0] /\ \A f \in {flown, pend, chan} : f = [w \in WAS |-> << >>]
    BY <1>2 DEF PositionMidway
  <2> HIDE DEF b
  <2>4. <<b>> \in Seq(Batches) /\ Len(<<b>>) = 1
    BY <2>2
  <2>5. << >> \in Seq(Batches)
    OBVIOUS
  <2>6. flown \in [WAS -> Seq(Batches)] /\ pend \in [WAS -> Seq(Batches)] /\ chan \in [WAS -> Seq(Batches)]
    BY <2>3, <2>5
  <2> QED
    BY <2>3, <2>4, <2>6, SocketsBound, PositionLog DEF BatchesOK
<1> QED
  BY <1>1, <1>2 DEF Init, Start

LEMMA BatchesStep ==
  ASSUME SocketsOK, QueuesOK, BatchesOK, BudgetOK, Next
  PROVE  BatchesOK'
<1>0. seq' \in Nat /\ seq' <= MaxInputs + 1 /\ MaxInputs \in Nat
  BY BudgetStep, SocketsBound
<1>1. ASSUME NEW w \in WAS, Flush(w) PROVE BatchesOK'
  <2> DEFINE b == Batch(seq + 1, inq[w])
  <2>1. /\ inq[w] # {} /\ seq' = seq + 1 /\ plog' = Logged(b) /\ pos' = Stored(b)
        /\ chan' = [v \in WAS |-> IF v = w THEN chan[v] ELSE Append(chan[v], b)]
        /\ flown' = [flown EXCEPT ![w] = Append(@, b)] /\ pend' = pend
    BY <1>1 DEF Flush, Batch
  <2>2. b \in Batches /\ b \in [seq : Nat, ups : SUBSET Updates]
    BY <1>0, <2>1 DEF Batch, Batches, Numbers, QueuesOK, BatchesOK
  <2> HIDE DEF b
  <2>3. plog' \in Seq(Batches) /\ Len(plog') <= LogSize
    BY <2>1, <2>2, LoggedOK DEF BatchesOK
  <2>4. pos' \in [Players -> 0..MaxInputs]
    BY <2>1, <2>2, StoredOK DEF BatchesOK
  <2>5. chan' \in [WAS -> Seq(Batches)] /\ flown' \in [WAS -> Seq(Batches)]
    BY <2>1, <2>2 DEF BatchesOK
  <2> QED
    BY <1>0, <2>1, <2>3, <2>4, <2>5 DEF BatchesOK
<1>2. plog' \in Seq(Batches) /\ Len(plog') <= LogSize
  <2>1. ASSUME NEW p \in Players, Leave(p) PROVE plog' \in {plog, << >>}
    BY <2>1 DEF Leave, PositionLeaves
  <2>2. << >> \in Seq(Batches) /\ Len(<< >>) <= LogSize
    BY PositionLog
  <2> QED
    BY <1>1, <2>1, <2>2, Framed DEF Frames, PositionFrames, BatchesOK
<1>3. pos' \in [Players -> 0..MaxInputs]
  <2>1. ASSUME NEW p \in Players, Join(p) PROVE pos' \in [Players -> 0..MaxInputs]
    <3>1. pos' = [pos EXCEPT ![p] = 0]
      BY <2>1 DEF Join, PositionJoins
    <3> QED
      BY <3>1, <1>0 DEF BatchesOK
  <2>2. ASSUME UNCHANGED pos PROVE pos' \in [Players -> 0..MaxInputs]
    BY <2>2 DEF BatchesOK
  <2>3. ASSUME NEW w \in WAS, Flush(w) PROVE pos' \in [Players -> 0..MaxInputs]
    BY <1>1, <2>3 DEF BatchesOK
  <2> QED
    BY <2>1, <2>2, <2>3, Framed DEF Frames, PositionFrames
<1>4. ASSUME NEW w \in WAS, FlushReturns(w) PROVE flown' \in [WAS -> Seq(Batches)] /\ pend' \in [WAS -> Seq(Batches)]
  <2>1. flown[w] \in Seq(Batches) /\ flown[w] # << >>
    BY <1>4 DEF FlushReturns, BatchesOK
  <2>2. Head(flown[w]) \in Batches /\ Tail(flown[w]) \in Seq(Batches)
    BY <2>1
  <2> QED
    BY <1>4, <2>2 DEF FlushReturns, BatchesOK
<1>5. ASSUME NEW w \in WAS, Broadcast(w) PROVE pend' \in [WAS -> Seq(Batches)]
  BY <1>5 DEF Broadcast, BatchesOK
<1>6. ASSUME NEW p \in Players, Leave(p) PROVE pend' \in [WAS -> Seq(Batches)]
  <2>1. pend' = pend \/ pend' = [pend EXCEPT ![home[p]] = << >>]
    BY <1>6 DEF Leave, PositionLeaves
  <2>2. << >> \in Seq(Batches)
    OBVIOUS
  <2> QED
    BY <2>1, <2>2 DEF BatchesOK
<1>7. ASSUME NEW w \in WAS, Remote(w) PROVE chan' \in [WAS -> Seq(Batches)]
  <2>1. chan[w] \in Seq(Batches) /\ chan[w] # << >>
    BY <1>7 DEF Remote, BatchesOK
  <2>2. Tail(chan[w]) \in Seq(Batches)
    BY <2>1
  <2> QED
    BY <1>7, <2>2 DEF Remote, BatchesOK
<1>8. flown' \in [WAS -> Seq(Batches)]
  BY <1>1, <1>4, Framed DEF Frames, PositionFrames, BatchesOK
<1>9. pend' \in [WAS -> Seq(Batches)]
  BY <1>1, <1>4, <1>5, <1>6, Framed DEF Frames, PositionFrames, BatchesOK
<1>10. chan' \in [WAS -> Seq(Batches)]
  BY <1>1, <1>7, Framed DEF Frames, PositionFrames, BatchesOK
<1> QED
  BY <1>0, <1>2, <1>3, <1>8, <1>9, <1>10 DEF BatchesOK

-----------------------------------------------------------------------------
(* Browsers and their requests                                              *)

(* What a batch does to the browsers of a WAS.                              *)
LEMMA Delivered ==
  ASSUME TabsOK, NEW w \in WAS, NEW b, b.seq \in Numbers, Deliver(w, b), MaxInputs \in Nat
  PROVE  /\ DOMAIN tab' = Players /\ \A c \in Players : IsTab(tab'[c])
         /\ reqs \subseteq reqs'
         /\ \A c \in Players : tab'[c].waits => tab[c].waits \/ \E r \in reqs' : r.who = c
         /\ \A r \in reqs' \ reqs : IsRequest(r) /\ r.who \in Clients(w) /\ r.from < b.seq
<1> DEFINE heard == {c \in Clients(w) : Reaching(c, b.ups) # {}}
           B(c)  == Batch(b.seq, Reaching(c, b.ups))
<1>1. /\ tab' = [c \in Players |-> IF c \in heard THEN Hear(tab[c], B(c)) ELSE tab[c]]
      /\ reqs' = reqs \union {Request(c, tab[c].last) : c \in {c \in heard : Skips(tab[c], b)}}
  BY DEF Deliver
<1>2. heard \subseteq Players
  BY DEF Clients
<1>3. ASSUME NEW c \in Players
      PROVE  /\ IsTab(Hear(tab[c], B(c)))
             /\ Hear(tab[c], B(c)).waits => tab[c].waits \/ Skips(tab[c], b)
  <2>1. B(c).seq = b.seq
    BY DEF Batch
  <2> HIDE DEF B
  <2>2. IsTab(tab[c])
    BY DEF TabsOK
  <2>3. Larger(tab[c].last, b.seq) \in 0..(MaxInputs + 1)
    BY <2>2 DEF IsTab, Larger, Numbers
  <2> QED
    BY <2>1, <2>2, <2>3 DEF IsTab, Hear, Skips
<1>4. ASSUME NEW c \in Players, Skips(tab[c], b) PROVE IsRequest(Request(c, tab[c].last)) /\ tab[c].last < b.seq
  BY <1>4 DEF TabsOK, IsTab, IsRequest, Request, Skips, Numbers
<1>5. \A c \in Players : IsTab(tab[c])
  BY DEF TabsOK
<1> HIDE DEF heard, B
<1>6. DOMAIN tab' = Players /\ \A c \in Players : IsTab(tab'[c])
  BY <1>1, <1>3, <1>5
<1>7. ASSUME NEW c \in Players, tab'[c].waits PROVE tab[c].waits \/ \E r \in reqs' : r.who = c
  <2>1. c \in heard \/ tab'[c] = tab[c]
    BY <1>1
  <2>2. CASE c \in heard /\ Skips(tab[c], b)
    <3>1. Request(c, tab[c].last) \in reqs'
      BY <1>1, <2>2
    <3> QED
      BY <3>1 DEF Request
  <2>3. CASE c \in heard /\ ~Skips(tab[c], b)
    BY <1>1, <1>3, <1>7, <2>3
  <2> QED
    BY <1>7, <2>1, <2>2, <2>3
<1>8. ASSUME NEW r \in reqs' \ reqs PROVE IsRequest(r) /\ r.who \in Clients(w) /\ r.from < b.seq
  <2>1. PICK c \in heard : Skips(tab[c], b) /\ r = Request(c, tab[c].last)
    BY <1>1, <1>8
  <2>2. c \in Clients(w) /\ c \in Players
    BY <1>2 DEF heard
  <2> QED
    BY <1>4, <2>1, <2>2 DEF Request
<1> QED
  BY <1>1, <1>6, <1>7, <1>8

LEMMA ClientsInRoom ==
  ASSUME SocketsOK
  PROVE  /\ \A w \in WAS : \A c \in Clients(w) : c \in Players /\ stage[c] \in InRoom
         /\ \A c \in Players : stage[c] \in InRoom => c \in Clients(home[c]) /\ home[c] \in WAS
BY SocketsRoutes DEF SocketsOK, SocketsTypeOK, Clients, InRoom, Stages

(* A stage of the room is left by a departure only.                         *)
LEMMA StaysInRoom ==
  ASSUME SocketsOK, Next, NEW c \in Players, stage[c] \in InRoom
  PROVE  stage'[c] \in InRoom \/ Leave(c)
<1>1. PICK w \in WAS : c \in Clients(w)
  BY ClientsInRoom
<1>2. ASSUME c \in Clients(w)' PROVE stage'[c] \in InRoom
  BY <1>2, SocketsStep DEF Clients, SocketsOK, SocketsTypeOK, InRoom
<1>3. ASSUME NEW p \in Players, Leave(p) PROVE c \in Clients(w)' \/ Leave(c)
  BY <1>1, <1>3, LeavingClients
<1> QED
  BY <1>1, <1>2, <1>3, ClientsStay

LEMMA TabsStart == Init => TabsOK
<1>1. IsTab(NewTab)
  BY SocketsBound DEF IsTab, NewTab
<1>2. ASSUME PositionInit PROVE TabsOK
  BY <1>1, <1>2 DEF PositionInit, TabsOK
<1>3. ASSUME PositionMidway PROVE TabsOK
  <2> DEFINE t == Hear([NewTab EXCEPT !.shown = [q \in Players |-> 0]], Batch(1, {Update(First, 0, TRUE)}))
  <2>1. IsTab(t)
    BY SocketsBound DEF IsTab, Hear, NewTab, Batch, Larger, Skips
  <2>2. tab = [p \in Players |-> t] /\ snap = [p \in Players |-> << >>] /\ reqs = {}
    BY <1>3 DEF PositionMidway
  <2> HIDE DEF t
  <2> QED
    BY <2>1, <2>2 DEF TabsOK
<1> QED
  BY <1>2, <1>3 DEF Init, Start

LEMMA TabsStep ==
  ASSUME SocketsOK, QueuesOK, BatchesOK, BudgetOK, TabsOK, Next
  PROVE  TabsOK'
<1>0. /\ MaxInputs \in Nat /\ 0 \in 0..(MaxInputs + 1) /\ IsTab(NewTab) /\ DOMAIN tab = Players /\ DOMAIN snap = Players
      /\ \A c \in Players : IsTab(tab[c]) /\ DOMAIN snap[c] \subseteq Players
  BY SocketsBound DEF IsTab, NewTab, TabsOK
<1>1. ASSUME NEW p \in Players, Announce(p) PROVE DOMAIN tab' = Players /\ \A c \in Players : IsTab(tab'[c])
  <2> DEFINE new == [q \in {p} |-> 0]
  <2>1. tab' = [c \in Players |-> IF c \in Present THEN HearJoin(tab[c], new) ELSE tab[c]]
    BY <1>1 DEF Announce, PositionAnnounced
  <2>2. DOMAIN new \subseteq Players
    OBVIOUS
  <2> HIDE DEF new
  <2>3. ASSUME NEW c \in Players PROVE IsTab(HearJoin(tab[c], new))
    BY <1>0, <2>2 DEF IsTab, HearJoin, NewTab
  <2> QED
    BY <1>0, <2>1, <2>3
<1>2. ASSUME NEW p \in Players, SnapEmit(p) PROVE DOMAIN tab' = Players /\ \A c \in Players : IsTab(tab'[c])
  <2>1. tab' = [tab EXCEPT ![p] = HearJoin(tab[p], snap[p])]
    BY <1>2 DEF SnapEmit, PositionSettles
  <2>2. IsTab(HearJoin(tab[p], snap[p]))
    BY <1>0 DEF IsTab, HearJoin, NewTab
  <2> QED
    BY <1>0, <2>1, <2>2
<1>3. ASSUME NEW p \in Players, Leave(p) PROVE DOMAIN tab' = Players /\ \A c \in Players : IsTab(tab'[c])
  <2>1. tab' = [c \in Players |->
                  IF c = p THEN NewTab
                  ELSE IF c \in Present /\ p \notin members'
                       THEN [tab[c] EXCEPT !.shown = [q \in DOMAIN @ \ {p} |-> @[q]]] ELSE tab[c]]
    BY <1>3 DEF Leave, PositionLeaves
  <2>2. ASSUME NEW c \in Players PROVE IsTab([tab[c] EXCEPT !.shown = [q \in DOMAIN @ \ {p} |-> @[q]]])
    BY <1>0 DEF IsTab
  <2> QED
    BY <1>0, <2>1, <2>2
<1>4. ASSUME NEW r \in reqs, Answer(r) PROVE DOMAIN tab' = Players /\ \A c \in Players : IsTab(tab'[c])
  <2>1. tab' = [tab EXCEPT ![r.who] = Response(tab[r.who], r)] /\ IsRequest(r)
    BY <1>4 DEF Answer, TabsOK
  <2>2. r.who \in Players /\ r.cur \in 0..(MaxInputs + 1)
    BY <2>1 DEF IsRequest
  <2>3. Larger(tab[r.who].last, r.cur) \in 0..(MaxInputs + 1)
    BY <1>0, <2>2 DEF IsTab, Larger
  <2>4. IsTab(Response(tab[r.who], r))
    BY <1>0, <2>2, <2>3 DEF IsTab, Response
  <2> QED
    BY <1>0, <2>1, <2>2, <2>4
<1>5. ASSUME NEW w \in WAS, Broadcast(w) \/ Remote(w), ~UNCHANGED <<tab, reqs>>
      PROVE  \E b : b.seq \in Numbers /\ Deliver(w, b)
  <2>1. CASE Broadcast(w)
    <3>1. pend[w] \in Seq(Batches) /\ pend[w] # << >>
      BY <2>1 DEF Broadcast, BatchesOK
    <3> QED
      BY <2>1, <3>1, MergedOK DEF Broadcast
  <2>2. CASE Remote(w)
    <3>1. Head(chan[w]) \in Batches
      BY <2>2 DEF Remote, BatchesOK
    <3> QED
      BY <1>5, <2>2, <3>1 DEF Remote, Batches
  <2> QED
    BY <1>5, <2>1, <2>2
<1>6. DOMAIN tab' = Players /\ \A c \in Players : IsTab(tab'[c])
  BY <1>0, <1>1, <1>2, <1>3, <1>4, <1>5, Delivered, Framed DEF Frames, PositionFrames
<1>7. DOMAIN snap' = Players /\ \A c \in Players : DOMAIN snap'[c] \subseteq Players
  <2>1. ASSUME NEW p \in Players, SnapRead(p) PROVE snap' = [snap EXCEPT ![p] = [q \in seen[p] |-> pos[q]]]
    BY <2>1 DEF SnapRead, PositionReads
  <2>2. ASSUME NEW p \in Players, SnapEmit(p) PROVE snap' = [snap EXCEPT ![p] = << >>]
    BY <2>2 DEF SnapEmit, PositionSettles
  <2>3. \A p \in Players : seen[p] \subseteq Players
    BY DEF SocketsOK, SocketsTypeOK
  <2>4. DOMAIN << >> = {}
    OBVIOUS
  <2> QED
    BY <1>0, <2>1, <2>2, <2>3, <2>4, Framed DEF Frames, PositionFrames
<1>8. \A s \in reqs : IsRequest(s) /\ s.who \in Players /\ stage[s.who] \in InRoom
  BY DEF TabsOK, IsRequest
<1>9. ASSUME NEW w \in WAS, Broadcast(w) \/ Remote(w), NEW r \in reqs' PROVE IsRequest(r) /\ stage'[r.who] \in InRoom
  <2>1. UNCHANGED stage
    BY <1>9 DEF Broadcast, Remote, sockets
  <2>2. CASE r \in reqs
    BY <1>8, <2>1, <2>2
  <2>3. CASE r \notin reqs
    <3>1. PICK b : b.seq \in Numbers /\ Deliver(w, b)
      BY <1>5, <1>9, <2>3
    <3>2. IsRequest(r) /\ r.who \in Clients(w)
      BY <1>0, <2>3, <3>1, Delivered
    <3> QED
      BY <2>1, <3>2, ClientsInRoom
  <2> QED
    BY <2>2, <2>3
<1>10. ASSUME NEW s \in reqs, ReadSeq(s) \/ ReadLog(s) \/ ReadSnapshot(s) \/ Answer(s), NEW r \in reqs'
       PROVE  IsRequest(r) /\ stage'[r.who] \in InRoom
  <2>1. UNCHANGED stage
    BY <1>10 DEF ReadSeq, ReadLog, ReadSnapshot, Answer, sockets
  <2>2. r \in reqs \/ (IsRequest(r) /\ r.who = s.who)
    <3>1. CASE ReadSeq(s)
      <4> DEFINE live == alive[s.who]
                 x == [s EXCEPT !.pc = "log", !.cur = seq, !.alive = live]
      <4>1. r \in reqs \/ r = x
        BY <1>10, <3>1 DEF ReadSeq
      <4>2. seq \in 0..(MaxInputs + 1)
        BY <1>0, FewerWait DEF BudgetOK, BatchesOK, SocketsOK, SocketsTypeOK
      <4> HIDE DEF live
      <4>3. IsRequest(x) /\ x.who = s.who
        BY <1>8, <4>2 DEF IsRequest
      <4> HIDE DEF x
      <4> QED
        BY <4>1, <4>3
    <3>2. CASE ReadLog(s)
      <4> DEFINE x == [s EXCEPT !.pc = "snapshot"]
                 ups == Replay(Missing(s.from))
                 y == [s EXCEPT !.pc = "ready", !.ups = ups]
      <4>1. r \in reqs \/ r = x \/ r = y
        BY <1>10, <3>2 DEF ReadLog
      <4> HIDE DEF ups
      <4>2. IsRequest(x) /\ x.who = s.who /\ IsRequest(y) /\ y.who = s.who
        BY <1>8 DEF IsRequest
      <4> HIDE DEF x, y
      <4> QED
        BY <4>1, <4>2
    <3>3. CASE ReadSnapshot(s)
      <4> DEFINE ups == {Update(q, pos[q], alive[q]) : q \in members}
                 y == [s EXCEPT !.pc = "ready", !.ups = ups]
      <4>1. r \in reqs \/ r = y
        BY <1>10, <3>3 DEF ReadSnapshot
      <4> HIDE DEF ups
      <4>2. IsRequest(y) /\ y.who = s.who
        BY <1>8 DEF IsRequest
      <4> HIDE DEF y
      <4> QED
        BY <4>1, <4>2
    <3>4. CASE Answer(s)
      <4>1. reqs' = reqs \ {s}
        BY <3>4 DEF Answer
      <4> QED
        BY <1>10, <4>1
    <3> QED
      BY <1>10, <3>1, <3>2, <3>3, <3>4
  <2> QED
    BY <1>8, <2>1, <2>2
<1>11. ASSUME NEW p \in Players, Leave(p), NEW r \in reqs' PROVE IsRequest(r) /\ stage'[r.who] \in InRoom
  <2>1. r \in reqs /\ r.who # p /\ stage' = [stage EXCEPT ![p] = "gone"]
    BY <1>11 DEF Leave, PositionLeaves, SocketLeaves, To
  <2> QED
    BY <1>8, <2>1 DEF SocketsOK, SocketsTypeOK
<1>12. ASSUME UNCHANGED reqs, ~\E p \in Players : Leave(p), NEW r \in reqs' PROVE IsRequest(r) /\ stage'[r.who] \in InRoom
  BY <1>8, <1>12, StaysInRoom
<1>13. \A r \in reqs' : IsRequest(r) /\ stage'[r.who] \in InRoom
  BY <1>9, <1>10, <1>11, <1>12, Framed DEF Frames, PositionFrames
<1> QED
  BY <1>6, <1>7, <1>13 DEF TabsOK

-----------------------------------------------------------------------------
(* The chat's browsers and their requests                                   *)

(* What the rest of broadcastRoom does to the browsers of a WAS.            *)
LEMMA Emitted ==
  ASSUME AsksOK, NEW w \in WAS, ChatEmit(w)
  PROVE  /\ DOMAIN ctab' = Players /\ \A c \in Players : IsChat(ctab'[c])
         /\ cseq' \in Nat /\ cseq <= cseq' /\ creqs \subseteq creqs'
         /\ \A c \in Players : ctab'[c].waits => ctab[c].waits \/ \E r \in creqs' : r.who = c
         /\ \A r \in creqs' \ creqs : IsAsk(r) /\ r.who \in Clients(w) /\ r.from < cseq'
<1> DEFINE living == Texts(Living(Head(out[w])))
           ghosts == Texts(Ghosts(Head(out[w])))
           s      == cseq + 1
           hears  == {c \in Clients(w) : living # << >>}
           N(c)   == HearGhosts(HearLiving(ctab[c], s, living), ~alive[c], ghosts)
<1>1. /\ IF living = << >> THEN UNCHANGED <<cseq, blog>> ELSE cseq' = s
      /\ ctab' = [c \in Players |-> IF c \in Clients(w) THEN N(c) ELSE ctab[c]]
      /\ creqs' = creqs \union {Ask(c, ctab[c].last) : c \in {c \in hears : ChatSkips(ctab[c], s)}}
  BY DEF ChatEmit
<1>2. cseq \in Nat /\ s \in Nat /\ s = cseq + 1
  BY DEF AsksOK
<1>3. hears \subseteq Clients(w) /\ Clients(w) \subseteq Players /\ (hears # {} => living # << >>)
  BY DEF Clients
<1>4. \A c \in Players : IsChat(ctab[c])
  BY DEF AsksOK
<1>5. \A c \in Clients(w) : living # << >> => c \in hears
  OBVIOUS
<1> HIDE DEF living, ghosts, s, hears
<1>6. ASSUME NEW c \in Players
      PROVE  IsChat(N(c)) /\ (N(c).waits => ctab[c].waits \/ (living # << >> /\ ChatSkips(ctab[c], s)))
  <2> DEFINE h == HearLiving(ctab[c], s, living)
  <2>1. Larger(ctab[c].last, s) \in Nat
    BY <1>2, <1>4 DEF IsChat, Larger
  <2>2. IsChat(h) /\ (h.waits => ctab[c].waits \/ (living # << >> /\ ChatSkips(ctab[c], s)))
    BY <1>4, <2>1 DEF IsChat, HearLiving, ChatSkips
  <2> HIDE DEF h
  <2>3. IsChat(HearGhosts(h, ~alive[c], ghosts)) /\ HearGhosts(h, ~alive[c], ghosts).waits = h.waits
    BY <2>2 DEF IsChat, HearGhosts
  <2> QED
    BY <2>2, <2>3 DEF h
<1>7. ASSUME NEW c \in Players, ChatSkips(ctab[c], s) PROVE IsAsk(Ask(c, ctab[c].last)) /\ ctab[c].last < s
  BY <1>2, <1>4, <1>7 DEF IsChat, IsAsk, Ask, ChatSkips
<1> HIDE DEF N
<1>8. DOMAIN ctab' = Players /\ \A c \in Players : IsChat(ctab'[c])
  BY <1>1, <1>4, <1>6
<1>9. ASSUME NEW c \in Players, ctab'[c].waits PROVE ctab[c].waits \/ \E r \in creqs' : r.who = c
  <2>1. CASE c \in hears /\ ChatSkips(ctab[c], s)
    <3>1. Ask(c, ctab[c].last) \in creqs'
      BY <1>1, <2>1
    <3> QED
      BY <3>1 DEF Ask
  <2>2. CASE c \in Clients(w) /\ ~(c \in hears /\ ChatSkips(ctab[c], s))
    BY <1>1, <1>5, <1>6, <1>9, <2>2
  <2>3. CASE c \notin Clients(w)
    BY <1>1, <1>9, <2>3
  <2> QED
    BY <2>1, <2>2, <2>3
<1>10. ASSUME NEW r \in creqs' \ creqs PROVE IsAsk(r) /\ r.who \in Clients(w) /\ r.from < cseq'
  <2>1. PICK c \in hears : ChatSkips(ctab[c], s) /\ r = Ask(c, ctab[c].last)
    BY <1>1, <1>10
  <2>2. cseq' = s /\ c \in Clients(w) /\ c \in Players
    BY <1>1, <1>3, <2>1
  <2> QED
    BY <1>7, <2>1, <2>2 DEF Ask
<1> QED
  BY <1>1, <1>2, <1>8, <1>9, <1>10

LEMMA AsksStart == Init => AsksOK
<1>1. ASSUME ChatInit PROVE AsksOK
  BY <1>1 DEF ChatInit, AsksOK, IsChat, NewChat
<1> QED
  BY <1>1 DEF Init, Start

LEMMA AsksStep ==
  ASSUME SocketsOK, AsksOK, Next
  PROVE  AsksOK'
<1>0. /\ cseq \in Nat /\ DOMAIN ctab = Players /\ \A c \in Players : IsChat(ctab[c])
      /\ \A r \in creqs : IsAsk(r) /\ r.who \in Players /\ stage[r.who] \in InRoom
  BY DEF AsksOK, IsAsk
<1>1. ASSUME NEW p \in Players, Announce(p) \/ SnapEmit(p) PROVE DOMAIN ctab' = Players /\ \A c \in Players : IsChat(ctab'[c])
  <2>1. ASSUME NEW P, ChatForgets(P) PROVE DOMAIN ctab' = Players /\ \A c \in Players : IsChat(ctab'[c])
    BY <1>0, <2>1 DEF ChatForgets, IsChat
  <2> QED
    BY <1>1, <2>1 DEF Announce, SnapEmit
<1>2. ASSUME NEW p \in Players, Leave(p)
      PROVE  /\ DOMAIN ctab' = Players /\ \A c \in Players : IsChat(ctab'[c])
             /\ cseq' \in {0, cseq} /\ \A r \in creqs' : r \in creqs /\ stage'[r.who] \in InRoom
  <2>1. ctab' = [ctab EXCEPT ![p] = NewChat] /\ cseq' \in {0, cseq} /\ creqs' = {r \in creqs : r.who # p}
    BY <1>2 DEF Leave, ChatLeaves
  <2>2. IsChat(NewChat)
    BY DEF IsChat, NewChat
  <2>3. stage' = [stage EXCEPT ![p] = "gone"] /\ DOMAIN stage = Players
    BY <1>2 DEF Leave, SocketLeaves, To, SocketsOK, SocketsTypeOK
  <2> QED
    BY <1>0, <2>1, <2>2, <2>3
<1>3. ASSUME NEW s \in creqs, ServeChat(s)
      PROVE  DOMAIN ctab' = Players /\ (\A c \in Players : IsChat(ctab'[c])) /\ creqs' = creqs \ {s}
  <2>1. PICK shown : ctab' = [ctab EXCEPT ![s.who] = [shown |-> shown, last |-> Larger(ctab[s.who].last, s.cur),
                                                      waits |-> FALSE, again |-> TRUE]]
    BY <1>3 DEF ServeChat
  <2>2. s.who \in Players /\ Larger(ctab[s.who].last, s.cur) \in Nat
    BY <1>0 DEF IsAsk, IsChat, Larger
  <2>3. IsChat([shown |-> shown, last |-> Larger(ctab[s.who].last, s.cur), waits |-> FALSE, again |-> TRUE])
    BY <2>2 DEF IsChat
  <2>4. creqs' = creqs \ {s}
    BY <1>3 DEF ServeChat
  <2> QED
    BY <1>0, <2>1, <2>2, <2>3, <2>4
<1>4. DOMAIN ctab' = Players /\ \A c \in Players : IsChat(ctab'[c])
  BY <1>0, <1>1, <1>2, <1>3, Emitted, Framed DEF Frames, ChatFrames
<1>5. cseq' \in Nat
  BY <1>0, <1>2, Emitted, Framed DEF Frames, ChatFrames
<1>6. ASSUME NEW s \in creqs, ReadChatSeq(s), NEW r \in creqs' PROVE r \in creqs \/ (IsAsk(r) /\ r.who = s.who)
  <2> DEFINE live == alive[s.who]
             x    == [s EXCEPT !.pc = "serve", !.cur = cseq, !.alive = live]
  <2>1. r \in creqs \/ r = x
    BY <1>6 DEF ReadChatSeq
  <2> HIDE DEF live
  <2>2. IsAsk(x) /\ x.who = s.who
    BY <1>0 DEF IsAsk
  <2> HIDE DEF x
  <2> QED
    BY <2>1, <2>2
<1>7. ASSUME NEW s \in creqs, ReadChatSeq(s) \/ ServeChat(s), NEW r \in creqs' PROVE IsAsk(r) /\ stage'[r.who] \in InRoom
  <2>1. UNCHANGED stage
    BY <1>7 DEF ReadChatSeq, ServeChat, sockets
  <2>2. r \in creqs \/ (IsAsk(r) /\ r.who = s.who)
    BY <1>3, <1>6, <1>7
  <2> QED
    BY <1>0, <2>1, <2>2
<1>8. ASSUME NEW w \in WAS, ChatEmit(w), NEW r \in creqs' PROVE IsAsk(r) /\ stage'[r.who] \in InRoom
  <2>1. UNCHANGED stage
    BY <1>8 DEF ChatEmit, sockets
  <2>2. r \in creqs \/ (IsAsk(r) /\ r.who \in Clients(w))
    BY <1>8, Emitted
  <2> QED
    BY <1>0, <2>1, <2>2, ClientsInRoom
<1>9. ASSUME UNCHANGED creqs, ~\E p \in Players : Leave(p), NEW r \in creqs' PROVE IsAsk(r) /\ stage'[r.who] \in InRoom
  BY <1>0, <1>9, StaysInRoom
<1>10. \A r \in creqs' : IsAsk(r) /\ stage'[r.who] \in InRoom
  BY <1>0, <1>2, <1>7, <1>8, <1>9, Framed DEF Frames, ChatFrames
<1> QED
  BY <1>4, <1>5, <1>10 DEF AsksOK

-----------------------------------------------------------------------------
(* Whoever waits is served                                                  *)

LEMMA ServedStart == Init => ServedOK
<1>1. ASSUME ChatInit PROVE \A c \in Players : ~ctab[c].waits
  BY <1>1 DEF ChatInit, NewChat
<1>2. ASSUME PositionInit \/ PositionMidway PROVE \A c \in Players : ~tab[c].waits
  <2>1. NewTab.waits = FALSE /\ NewTab.last = 0
    BY DEF NewTab
  <2>2. ASSUME NEW b PROVE ~Hear([NewTab EXCEPT !.shown = [q \in Players |-> 0]], b).waits
    <3> DEFINE t == [NewTab EXCEPT !.shown = [q \in Players |-> 0]]
    <3>1. t.last = 0 /\ t.waits = FALSE
      BY DEF NewTab
    <3> HIDE DEF t
    <3>2. Hear(t, b).waits = (t.waits \/ Skips(t, b))
      BY DEF Hear
    <3>3. ~Skips(t, b)
      BY <3>1 DEF Skips
    <3> QED
      BY <3>1, <3>2, <3>3 DEF t
  <2> QED
    BY <1>2, <2>1, <2>2 DEF PositionInit, PositionMidway
<1>3. Init => reqs = {} /\ creqs = {} /\ \A w \in WAS : flown[w] = << >> /\ pend[w] = << >> /\ chan[w] = << >>
  BY DEF Init, Start, PositionInit, PositionMidway, ChatInit
<1>4. \A i \in 1..Len(<< >>) : FALSE
  OBVIOUS
<1> QED
  BY <1>1, <1>2, <1>3, <1>4 DEF Init, Start, ServedOK, NumbersOK, AwaitOK, Behind

(* The last client of the whole room takes everything along.                *)
LEMMA LeavingServed ==
  ASSUME SocketsOK, BatchesOK, TabsOK, AsksOK, ServedOK, NEW p \in Players, Leave(p), ~wiped'
  PROVE  NumbersOK' /\ AwaitOK'
<1>1. NumbersOK /\ AwaitOK
  BY DEF ServedOK, Leave, SocketLeaves
<1>2. /\ LastOfWAS(p) => Present = {p} /\ ~OnTheWay(p)
      /\ reqs' = {r \in reqs : r.who # p} /\ creqs' = {r \in creqs : r.who # p}
      /\ flown' = flown /\ chan' = chan /\ home[p] \in WAS
  BY LeavingClients DEF Leave, SocketLeaves, PositionLeaves, ChatLeaves
<1>3. \A c \in Players : (tab'[c].waits => c # p /\ tab[c].waits) /\ (ctab'[c].waits => c # p /\ ctab[c].waits)
  <2>1. ctab' = [ctab EXCEPT ![p] = NewChat]
    BY DEF Leave, ChatLeaves
  <2>2. tab' = [c \in Players |->
                  IF c = p THEN NewTab
                  ELSE IF c \in Present /\ p \notin members'
                       THEN [tab[c] EXCEPT !.shown = [q \in DOMAIN @ \ {p} |-> @[q]]] ELSE tab[c]]
    BY DEF Leave, PositionLeaves
  <2>3. \A c \in Players : [tab[c] EXCEPT !.shown = [q \in DOMAIN @ \ {p} |-> @[q]]].waits = tab[c].waits
    BY DEF TabsOK, IsTab
  <2> QED
    BY <2>1, <2>2, <2>3 DEF NewTab, NewChat, AsksOK
<1>4. AwaitOK'
  BY <1>1, <1>2, <1>3 DEF AwaitOK, Awaited
<1>5. CASE ~LastOfWAS(p)
  <2>1. pend' = pend /\ seq' = seq /\ cseq' = cseq
    BY <1>5 DEF Leave, PositionLeaves, ChatLeaves
  <2> QED
    BY <1>1, <1>2, <1>4, <2>1 DEF NumbersOK
<1>6. CASE LastOfWAS(p)
  <2>1. pend' = [pend EXCEPT ![home[p]] = << >>]
    BY <1>6 DEF Leave, PositionLeaves
  <2>2. \A w \in WAS : flown'[w] = << >> /\ chan'[w] = << >> /\ pend'[w] = << >>
    BY <1>2, <1>6, <2>1 DEF OnTheWay, BatchesOK
  <2>3. \A r \in reqs \union creqs : r.who \in Present
    BY ClientsInRoom DEF TabsOK, AsksOK, IsRequest, IsAsk, Present
  <2>4. reqs' = {} /\ creqs' = {}
    BY <1>2, <1>6, <2>3
  <2>5. \A i \in 1..Len(<< >>) : FALSE
    OBVIOUS
  <2> QED
    BY <1>4, <2>2, <2>4, <2>5 DEF NumbersOK, Behind
<1> QED
  BY <1>5, <1>6

LEMMA BehindOps ==
  ASSUME NEW q \in Seq(Batches), NEW m \in Nat, Behind(q, m)
  PROVE  /\ q # << >> => Head(q).seq <= m /\ q[Len(q)].seq <= m /\ Behind(Tail(q), m)
         /\ \A b \in Batches : b.seq <= m => Behind(Append(q, b), m)
         /\ Behind(q, m + 1)
<1>1. \A i \in 1..Len(q) : q[i] \in Batches /\ q[i].seq \in Nat /\ q[i].seq <= m
  <2>1. \A b \in Batches : b.seq \in Nat
    BY SocketsBound DEF Batches, Numbers
  <2> QED
    BY <2>1 DEF Behind
<1>2. ASSUME q # << >> PROVE Head(q).seq <= m /\ q[Len(q)].seq <= m
  BY <1>1, <1>2
<1>3. ASSUME q # << >> PROVE Behind(Tail(q), m)
  <2>1. Len(Tail(q)) = Len(q) - 1 /\ \A i \in 1..Len(Tail(q)) : Tail(q)[i] = q[i + 1]
    BY <1>3
  <2> QED
    BY <1>1, <2>1 DEF Behind
<1>4. ASSUME NEW b \in Batches, b.seq <= m PROVE Behind(Append(q, b), m)
  BY <1>1, <1>4 DEF Behind
<1>5. Behind(q, m + 1)
  BY <1>1 DEF Behind
<1> QED
  BY <1>2, <1>3, <1>4, <1>5

LEMMA NumbersStep ==
  ASSUME SocketsOK, QueuesOK, BatchesOK, BudgetOK, TabsOK, AsksOK, NumbersOK, Next, ~\E p \in Players : Leave(p)
  PROVE  NumbersOK'
<1>0. /\ seq \in Nat /\ cseq \in Nat /\ cseq' \in Nat /\ MaxInputs \in Nat
      /\ \A w \in WAS : flown[w] \in Seq(Batches) /\ pend[w] \in Seq(Batches) /\ chan[w] \in Seq(Batches)
      /\ DOMAIN flown = WAS /\ DOMAIN pend = WAS /\ DOMAIN chan = WAS
      /\ \A w \in WAS : Behind(flown[w], seq) /\ Behind(pend[w], seq) /\ Behind(chan[w], seq)
  BY AsksStep, SocketsBound DEF BatchesOK, AsksOK, NumbersOK
<1>1. ASSUME NEW w \in WAS, Flush(w)
      PROVE  /\ seq' = seq + 1
             /\ \A v \in WAS : Behind(flown'[v], seq') /\ Behind(pend'[v], seq') /\ Behind(chan'[v], seq')
  <2> DEFINE b == Batch(seq + 1, inq[w])
  <2>1. /\ seq' = seq + 1 /\ b.seq = seq + 1
        /\ chan' = [v \in WAS |-> IF v = w THEN chan[v] ELSE Append(chan[v], b)]
        /\ flown' = [flown EXCEPT ![w] = Append(@, b)] /\ pend' = pend
    BY <1>1 DEF Flush, Batch
  <2>2. b \in Batches
    <3>1. inq[w] \in (SUBSET Updates) \ {{}}
      BY <1>1 DEF Flush, QueuesOK
    <3>2. seq + 1 \in Numbers
      BY <1>0, <2>1, BudgetStep DEF Numbers
    <3> QED
      BY <3>1, <3>2 DEF Batch, Batches
  <2> HIDE DEF b
  <2>3. \A v \in WAS : Behind(flown[v], seq + 1) /\ Behind(pend[v], seq + 1) /\ Behind(chan[v], seq + 1)
    BY <1>0, BehindOps
  <2>4. \A v \in WAS : Behind(Append(flown[v], b), seq + 1) /\ Behind(Append(chan[v], b), seq + 1)
    BY <1>0, <2>1, <2>2, <2>3, BehindOps
  <2> QED
    BY <1>0, <2>1, <2>3, <2>4
<1>2. seq' \in Nat /\ seq <= seq' /\ (UNCHANGED seq \/ \E w \in WAS : Flush(w))
  BY <1>0, <1>1, Framed DEF Frames, PositionFrames
<1>3. ASSUME NEW w \in WAS, FlushReturns(w)
      PROVE  \A v \in WAS : Behind(flown'[v], seq) /\ Behind(pend'[v], seq)
  <2>1. /\ flown[w] # << >> /\ flown' = [flown EXCEPT ![w] = Tail(@)]
        /\ pend' = [pend EXCEPT ![w] = Append(@, Head(flown[w]))]
    BY <1>3 DEF FlushReturns
  <2>2. Behind(Tail(flown[w]), seq) /\ Head(flown[w]).seq <= seq /\ Head(flown[w]) \in Batches
    BY <1>0, <2>1, BehindOps
  <2>3. Behind(Append(pend[w], Head(flown[w])), seq)
    BY <1>0, <2>2, BehindOps
  <2> QED
    BY <1>0, <2>1, <2>2, <2>3
<1>4. ASSUME NEW w \in WAS, Broadcast(w) PROVE \A v \in WAS : Behind(pend'[v], seq)
  <2>1. pend' = [pend EXCEPT ![w] = << >>] /\ Behind(<< >>, seq)
    BY <1>4 DEF Broadcast, Behind
  <2> QED
    BY <1>0, <2>1
<1>5. ASSUME NEW w \in WAS, Remote(w) PROVE \A v \in WAS : Behind(chan'[v], seq)
  <2>1. chan[w] # << >> /\ chan' = [chan EXCEPT ![w] = Tail(@)]
    BY <1>5 DEF Remote
  <2> QED
    BY <1>0, <2>1, BehindOps
<1>6. \A w \in WAS : Behind(flown'[w], seq') /\ Behind(pend'[w], seq') /\ Behind(chan'[w], seq')
  <2>1. CASE \E w \in WAS : Flush(w)
    BY <1>1, <2>1
  <2>2. CASE UNCHANGED seq /\ ~\E w \in WAS : Flush(w)
    BY <1>0, <1>3, <1>4, <1>5, <2>2, Framed DEF Frames, PositionFrames
  <2> QED
    BY <1>2, <2>1, <2>2
<1>7. ASSUME NEW w \in WAS, Broadcast(w) \/ Remote(w), NEW r \in reqs', r \notin reqs
      PROVE  r.from \in Nat /\ r.from < seq
  <2>1. CASE Broadcast(w)
    <3>1. pend[w] # << >> /\ Deliver(w, MergeBatches(pend[w]))
      BY <2>1 DEF Broadcast
    <3>2. MergeBatches(pend[w]).seq \in Numbers /\ MergeBatches(pend[w]).seq <= seq
      BY <1>0, <3>1, MergedOK, BehindOps
    <3>3. r.from \in Nat /\ r.from < MergeBatches(pend[w]).seq
      BY <1>0, <1>7, <3>1, <3>2, Delivered DEF IsRequest
    <3> QED
      BY <1>0, <3>2, <3>3 DEF Numbers
  <2>2. CASE Remote(w)
    <3>1. chan[w] # << >> /\ Deliver(w, Head(chan[w]))
      BY <1>7, <2>2 DEF Remote
    <3>2. Head(chan[w]) \in Batches
      BY <1>0, <3>1
    <3>3. Head(chan[w]).seq \in Numbers /\ Head(chan[w]).seq <= seq
      BY <1>0, <3>1, <3>2, BehindOps DEF Batches
    <3>4. r.from \in Nat /\ r.from < Head(chan[w]).seq
      BY <1>0, <1>7, <3>1, <3>3, Delivered DEF IsRequest
    <3> QED
      BY <1>0, <3>3, <3>4 DEF Numbers
  <2> QED
    BY <1>7, <2>1, <2>2
<1>8. ASSUME NEW s \in reqs, ReadSeq(s) \/ ReadLog(s) \/ ReadSnapshot(s) \/ Answer(s), NEW r \in reqs', r \notin reqs
      PROVE  r.pc # "sent"
  <2>1. IsRequest(s)
    BY DEF TabsOK
  <2> DEFINE live == alive[s.who]
             ups  == Replay(Missing(s.from))
             all  == {Update(q, pos[q], alive[q]) : q \in members}
             x    == [s EXCEPT !.pc = "log", !.cur = seq, !.alive = live]
             y    == [s EXCEPT !.pc = "snapshot"]
             z(u) == [s EXCEPT !.pc = "ready", !.ups = u]
  <2>2. r = x \/ r = y \/ r = z(ups) \/ r = z(all)
    BY <1>8 DEF ReadSeq, ReadLog, ReadSnapshot, Answer
  <2> HIDE DEF live, ups, all
  <2>3. x.pc # "sent" /\ y.pc # "sent" /\ z(ups).pc # "sent" /\ z(all).pc # "sent"
    BY <2>1 DEF IsRequest
  <2> HIDE DEF x, y, z
  <2> QED
    BY <2>2, <2>3
<1>9. ASSUME NEW r \in reqs', r.pc = "sent" PROVE r.from < seq'
  <2>1. CASE r \in reqs
    BY <1>0, <1>2, <1>9, <2>1 DEF NumbersOK, TabsOK, IsRequest
  <2>2. CASE r \notin reqs
    BY <1>0, <1>2, <1>7, <1>8, <1>9, <2>2, Framed DEF Frames, PositionFrames
  <2> QED
    BY <2>1, <2>2
<1>10. cseq <= cseq'
  BY <1>0, Emitted, Framed DEF Frames, ChatFrames
<1>11. ASSUME NEW s \in creqs, ReadChatSeq(s) \/ ServeChat(s), NEW r \in creqs', r \notin creqs
       PROVE  r.pc # "sent"
  <2>1. IsAsk(s)
    BY DEF AsksOK
  <2> DEFINE live == alive[s.who]
             x    == [s EXCEPT !.pc = "serve", !.cur = cseq, !.alive = live]
  <2>2. r = x
    BY <1>11 DEF ReadChatSeq, ServeChat
  <2> HIDE DEF live
  <2>3. x.pc # "sent"
    BY <2>1 DEF IsAsk
  <2> QED
    BY <2>2, <2>3
<1>12. ASSUME NEW r \in creqs', r.pc = "sent" PROVE r.from < cseq'
  <2>1. CASE r \in creqs
    BY <1>0, <1>10, <1>12, <2>1 DEF NumbersOK, AsksOK, IsAsk
  <2>2. CASE r \notin creqs
    BY <1>11, <1>12, <2>2, Emitted, Framed DEF Frames, ChatFrames
  <2> QED
    BY <2>1, <2>2
<1> QED
  BY <1>6, <1>9, <1>12 DEF NumbersOK

(* Only its answer takes a request away, and with it the wait.              *)
LEMMA AwaitStep ==
  ASSUME SocketsOK, QueuesOK, BatchesOK, BudgetOK, TabsOK, AsksOK, NumbersOK, AwaitOK, Next, ~\E p \in Players : Leave(p)
  PROVE  AwaitOK'
<1>0. /\ MaxInputs \in Nat /\ seq \in Nat /\ cseq \in Nat
      /\ \A s \in reqs : IsRequest(s) /\ s.who \in Players /\ s.from \in Nat
      /\ \A s \in creqs : IsAsk(s) /\ s.who \in Players /\ s.from \in Nat
  BY SocketsBound DEF TabsOK, AsksOK, IsRequest, IsAsk, BatchesOK
<1>1. ASSUME NEW s \in reqs, ReadSeq(s) \/ ReadLog(s) \/ ReadSnapshot(s), NEW r \in reqs PROVE Awaited(r.who, reqs')
  <2> DEFINE live == alive[s.who]
             ups  == Replay(Missing(s.from))
             all  == {Update(q, pos[q], alive[q]) : q \in members}
             x    == [s EXCEPT !.pc = "log", !.cur = seq, !.alive = live]
             y    == [s EXCEPT !.pc = "snapshot"]
             z(u) == [s EXCEPT !.pc = "ready", !.ups = u]
  <2>1. ReadSeq(s) => s.from < seq
    BY DEF NumbersOK, ReadSeq
  <2>2. \E t \in {x, y, z(ups), z(all)} : reqs' = (reqs \ {s}) \union {t}
    <3>1. CASE ReadSeq(s)
      <4>1. ~(s.from >= seq)
        BY <1>0, <2>1, <3>1
      <4> QED
        BY <3>1, <4>1 DEF ReadSeq
    <3>2. CASE ReadLog(s)
      BY <3>2 DEF ReadLog
    <3>3. CASE ReadSnapshot(s)
      BY <3>3 DEF ReadSnapshot
    <3> QED
      BY <1>1, <3>1, <3>2, <3>3
  <2> HIDE DEF live, ups, all
  <2>3. x.who = s.who /\ y.who = s.who /\ z(ups).who = s.who /\ z(all).who = s.who
    BY <1>0 DEF IsRequest
  <2> HIDE DEF x, y, z
  <2> QED
    BY <2>2, <2>3 DEF Awaited
<1>2. ASSUME NEW s \in reqs, Answer(s), NEW c \in Players, tab'[c].waits PROVE tab[c].waits /\ \E r \in reqs' : r \in reqs /\ r.who = c
  <2>1. tab' = [tab EXCEPT ![s.who] = Response(tab[s.who], s)] /\ reqs' = reqs \ {s}
    BY <1>2 DEF Answer
  <2>2. ~Response(tab[s.who], s).waits
    BY DEF Response
  <2>3. c # s.who /\ tab[c].waits
    BY <1>0, <1>2, <2>1, <2>2 DEF TabsOK
  <2> QED
    BY <2>1, <2>3 DEF AwaitOK, Awaited
<1>3. ASSUME NEW c \in Players, tab'[c].waits PROVE Awaited(c, reqs')
  <2>1. ASSUME NEW p \in Players, Announce(p) \/ SnapEmit(p) PROVE tab[c].waits
    <3>1. ASSUME NEW t, NEW new PROVE HearJoin(t, new).waits = FALSE
      BY DEF HearJoin, NewTab
    <3>2. tab'[c] = tab[c] \/ \E t, new : tab'[c] = HearJoin(t, new)
      BY <2>1 DEF Announce, PositionAnnounced, SnapEmit, PositionSettles, TabsOK
    <3> QED
      BY <1>3, <3>1, <3>2
  <2>2. ASSUME NEW w \in WAS, Broadcast(w) \/ Remote(w), tab' # tab \/ reqs' # reqs PROVE Awaited(c, reqs')
    <3>1. PICK b : b.seq \in Numbers /\ Deliver(w, b)
      <4>1. CASE Broadcast(w)
        BY <4>1, MergedOK DEF Broadcast, BatchesOK
      <4>2. CASE Remote(w)
        <5>1. Head(chan[w]) \in Batches
          BY <4>2 DEF Remote, BatchesOK
        <5> QED
          BY <2>2, <4>2, <5>1 DEF Remote, Batches
      <4> QED
        BY <2>2, <4>1, <4>2
    <3>2. reqs \subseteq reqs' /\ (tab[c].waits \/ \E r \in reqs' : r.who = c)
      BY <1>0, <1>3, <3>1, Delivered
    <3> QED
      BY <3>2 DEF AwaitOK, Awaited
  <2>3. ASSUME tab[c].waits, UNCHANGED reqs PROVE Awaited(c, reqs')
    BY <2>3 DEF AwaitOK, Awaited
  <2>4. ASSUME tab[c].waits, NEW s \in reqs, ReadSeq(s) \/ ReadLog(s) \/ ReadSnapshot(s) PROVE Awaited(c, reqs')
    BY <1>1, <2>4 DEF AwaitOK, Awaited
  <2>5. ASSUME NEW s \in reqs, Answer(s) PROVE Awaited(c, reqs')
    BY <1>2, <1>3, <2>5 DEF Awaited
  <2>6. CASE \E w \in WAS : Broadcast(w) \/ Remote(w)
    BY <1>3, <2>2, <2>3, <2>6
  <2>7. CASE \E s \in reqs : ReadSeq(s) \/ ReadLog(s) \/ ReadSnapshot(s) \/ Answer(s)
    <3>1. PICK s \in reqs : ReadSeq(s) \/ ReadLog(s) \/ ReadSnapshot(s) \/ Answer(s)
      BY <2>7
    <3>2. ReadSeq(s) \/ ReadLog(s) \/ ReadSnapshot(s) => tab' = tab
      BY DEF ReadSeq, ReadLog, ReadSnapshot
    <3> QED
      BY <1>3, <2>4, <2>5, <3>1, <3>2
  <2>8. CASE UNCHANGED reqs /\ (UNCHANGED tab \/ \E p \in Players : Announce(p) \/ SnapEmit(p))
    BY <1>3, <2>1, <2>3, <2>8
  <2> QED
    BY <2>6, <2>7, <2>8, Framed DEF Frames, PositionFrames
<1>4. ASSUME NEW c \in Players, ctab'[c].waits PROVE Awaited(c, creqs')
  <2>1. ASSUME NEW p \in Players, Announce(p) \/ SnapEmit(p) PROVE ctab[c].waits
    <3>1. ASSUME NEW P, ChatForgets(P) PROVE ctab[c].waits
      <4>1. ctab'[c] = IF c \in P THEN [ctab[c] EXCEPT !.last = 0, !.waits = FALSE] ELSE ctab[c]
        BY <3>1 DEF ChatForgets
      <4>2. IsChat(ctab[c])
        BY DEF AsksOK
      <4>3. [ctab[c] EXCEPT !.last = 0, !.waits = FALSE].waits = FALSE
        BY <4>2 DEF IsChat
      <4> QED
        BY <1>4, <4>1, <4>3
    <3> QED
      BY <2>1, <3>1 DEF Announce, SnapEmit
  <2>2. ASSUME NEW w \in WAS, ChatEmit(w) PROVE Awaited(c, creqs')
    <3>1. creqs \subseteq creqs' /\ (ctab[c].waits \/ \E r \in creqs' : r.who = c)
      BY <1>4, <2>2, Emitted
    <3> QED
      BY <3>1 DEF AwaitOK, Awaited
  <2>3. ASSUME NEW s \in creqs, ReadChatSeq(s) PROVE Awaited(c, creqs')
    <3> DEFINE live == alive[s.who]
               x    == [s EXCEPT !.pc = "serve", !.cur = cseq, !.alive = live]
    <3>1. ~(s.from >= cseq)
      BY <1>0, <2>3 DEF NumbersOK, ReadChatSeq
    <3>2. creqs' = (creqs \ {s}) \union {x} /\ ctab' = ctab
      BY <2>3, <3>1 DEF ReadChatSeq
    <3> HIDE DEF live
    <3>3. x.who = s.who
      BY <1>0 DEF IsAsk
    <3> HIDE DEF x
    <3> QED
      BY <1>4, <3>2, <3>3 DEF AwaitOK, Awaited
  <2>4. ASSUME NEW s \in creqs, ServeChat(s) PROVE Awaited(c, creqs')
    <3>1. creqs' = creqs \ {s} /\ \E shown, last : ctab' = [ctab EXCEPT ![s.who] = [shown |-> shown, last |-> last,
                                                      waits |-> FALSE, again |-> TRUE]]
      BY <2>4 DEF ServeChat
    <3>2. c # s.who /\ ctab[c].waits
      BY <1>0, <1>4, <3>1 DEF AsksOK
    <3> QED
      BY <3>1, <3>2 DEF AwaitOK, Awaited
  <2>5. ASSUME ctab[c].waits, UNCHANGED creqs PROVE Awaited(c, creqs')
    BY <2>5 DEF AwaitOK, Awaited
  <2> QED
    BY <1>4, <2>1, <2>2, <2>3, <2>4, <2>5, Framed DEF Frames, ChatFrames
<1> QED
  BY <1>3, <1>4 DEF AwaitOK

-----------------------------------------------------------------------------
(* The invariant of the specification                                       *)

DeliveryOK == SocketsOK /\ PositionsOK /\ AsksOK /\ ServedOK

LEMMA DeliveryStart == Init => DeliveryOK
BY SocketsStart, QueuesStart, BatchesStart, BudgetStart, TabsStart, AsksStart, ServedStart DEF DeliveryOK, PositionsOK

LEMMA DeliveryStep ==
  ASSUME DeliveryOK, [Next]_vars
  PROVE  DeliveryOK'
<1>a. SocketsOK /\ QueuesOK /\ BatchesOK /\ BudgetOK /\ TabsOK /\ AsksOK /\ ServedOK /\ PositionsOK
  BY DEF DeliveryOK, PositionsOK
<1>1. ASSUME Next PROVE SocketsOK' /\ PositionsOK' /\ AsksOK'
  <2>1. SocketsOK' /\ QueuesOK' /\ BatchesOK' /\ BudgetOK' /\ TabsOK' /\ AsksOK'
    BY <1>a, <1>1, SocketsStep, QueuesStep, BatchesStep, BudgetStep, TabsStep, AsksStep
  <2> QED
    BY <2>1 DEF PositionsOK
<1>2. ASSUME Next, ~wiped' PROVE NumbersOK' /\ AwaitOK'
  <2>1. CASE \E p \in Players : Leave(p)
    BY <1>a, <1>2, <2>1, LeavingServed
  <2>2. CASE ~\E p \in Players : Leave(p)
    <3>1. ~wiped
      BY <1>a, <1>2, <2>2, Framed DEF Frames
    <3> QED
      BY <1>a, <1>2, <2>2, <3>1, NumbersStep, AwaitStep DEF ServedOK
  <2> QED
    BY <2>1, <2>2
<1>3. CASE UNCHANGED vars
  <2>1. UNCHANGED <<home, stage, seen, members, alive, dead, wiped, used, topic, pos, seq, plog, inq, flown, pend,
                    chan, tab, snap, reqs, cseq, ctab, creqs>>
    BY <1>3 DEF vars, sockets, positions, chats
  <2>2. SocketsOK' /\ QueuesOK' /\ BatchesOK'
    <3>1. SocketsOK' /\ BatchesOK'
      BY <1>a, <2>1 DEF SocketsOK, SocketsTypeOK, BatchesOK
    <3>2. QueuesOK'
      BY <1>a, <2>1 DEF QueuesOK, Clients
    <3> QED
      BY <3>1, <3>2
  <2>3. BudgetOK' /\ AsksOK'
    BY <1>a, <2>1 DEF BudgetOK, Waiting, AsksOK
  <2>4. TabsOK'
    BY <1>a, <2>1 DEF TabsOK
  <2>5. ServedOK'
    BY <1>a, <2>1 DEF ServedOK, NumbersOK, AwaitOK, Awaited
  <2> QED
    BY <2>2, <2>3, <2>4, <2>5 DEF DeliveryOK, PositionsOK
<1> QED
  BY <1>1, <1>2, <1>3 DEF DeliveryOK, ServedOK

(* Queues, batches, tabs and requests keep to their types, and as long as   *)
(* no number was deleted in use, batches and requests under way are where   *)
(* the counters allow them to be.                                           *)
THEOREM DeliveryInvariant == Spec => []DeliveryOK
BY DeliveryStart, DeliveryStep, PTL DEF Spec

(* A browser that has asked for positions or messages it missed, and so     *)
(* does not ask again, has a request on its way through handleRetransmit,   *)
(* which drops those that are not behind: whatever the players, WAS, logs   *)
(* and batches under way, unless a cleanupRoom deleted numbers in use.      *)
THEOREM DeliveryServes == Spec => []WaitIsServed
<1>1. DeliveryOK => WaitIsServed
  BY DEF DeliveryOK, ServedOK, AwaitOK, WaitIsServed
<1> QED
  BY <1>1, DeliveryInvariant, PTL

-----------------------------------------------------------------------------
(* Filters                                                                  *)

LEMMA LeastNat ==
  ASSUME NEW T \in SUBSET Nat, T # {}
  PROVE  \E m \in T : \A k \in T : m <= k
<1> DEFINE Below == {0..m : m \in T}
<1>1. Below \subseteq FiniteSubsetsOf(Nat)
  <2> SUFFICES ASSUME NEW m \in T PROVE 0..m \in FiniteSubsetsOf(Nat)
    OBVIOUS
  <2>1. m \in Int /\ 0..m \in SUBSET Nat
    OBVIOUS
  <2> QED
    BY <2>1, FS_Interval DEF FiniteSubsetsOf
<1>2. PICK I \in Below : \A J \in Below : <<J, I>> \notin StrictSubsetOrdering(Nat)
  <2>1. Below # {}
    OBVIOUS
  <2> HIDE DEF Below
  <2> QED
    BY <1>1, <2>1, FS_StrictSubsetOrderingWellFounded, WFMin
<1>3. PICK m \in T : I = 0..m
  BY <1>2
<1>4. ASSUME NEW k \in T, k < m PROVE FALSE
  <2>1. 0..k \subseteq 0..m /\ 0..k # 0..m /\ 0..k \in SUBSET Nat /\ 0..m \in SUBSET Nat
    BY <1>4
  <2>2. <<0..k, 0..m>> \in StrictSubsetOrdering(Nat)
    BY <2>1 DEF StrictSubsetOrdering
  <2> QED
    BY <1>2, <1>3, <2>2
<1> QED
  BY <1>4


(* What holds at 0 and passes from a number to the next holds up to n.      *)
LEMMA Upward ==
  ASSUME NEW n \in Nat, NEW T, 0 \in T, \A k \in 0..n : k \in T /\ k < n => k + 1 \in T
  PROVE  n \in T
<1> DEFINE Out == {k \in 0..n : k \notin T}
<1>1. SUFFICES ASSUME n \notin T PROVE FALSE
  OBVIOUS
<1>2. Out \in SUBSET Nat /\ Out # {}
  BY <1>1
<1>3. PICK m \in Out : \A k \in Out : m <= k
  BY <1>2, LeastNat
<1>4. m # 0 /\ m - 1 \in 0..n /\ m - 1 < n /\ m - 1 \notin Out
  BY <1>3
<1> QED
  BY <1>3, <1>4

Picks(p, n, s, I) ==
  p = [k \in 0..n |-> IF k = 0 THEN << >>
                      ELSE IF k \in I THEN Append(p[k - 1], s[k]) ELSE p[k - 1]]

LEMMA PicksExist ==
  ASSUME NEW s, NEW I, NEW n \in Nat
  PROVE  \E p : Picks(p, n, s, I)
<1> DEFINE T == {k \in 0..n : \E p : Picks(p, k, s, I)}
<1>1. 0 \in T
  <2> DEFINE p == [k \in 0..0 |-> << >>]
  <2>1. Picks(p, 0, s, I)
    BY DEF Picks
  <2> QED
    BY <2>1
<1>2. ASSUME NEW k \in 0..n, k \in T, k < n PROVE k + 1 \in T
  <2>1. PICK p : Picks(p, k, s, I)
    BY <1>2
  <2> DEFINE x == IF k + 1 \in I THEN Append(p[k], s[k + 1]) ELSE p[k]
             q == [j \in 0..(k + 1) |-> IF j = k + 1 THEN x ELSE p[j]]
  <2>2. p = [j \in 0..k |-> IF j = 0 THEN << >> ELSE IF j \in I THEN Append(p[j - 1], s[j]) ELSE p[j - 1]]
    BY <2>1 DEF Picks
  <2>3. ASSUME NEW j \in 0..(k + 1)
        PROVE  q[j] = IF j = 0 THEN << >> ELSE IF j \in I THEN Append(q[j - 1], s[j]) ELSE q[j - 1]
    <3>1. CASE j = k + 1
      <4>1. q[j - 1] = p[k] /\ q[j] = x
        BY <3>1
      <4> QED
        BY <3>1, <4>1
    <3>2. CASE j \in 0..k
      <4>1. q[j] = p[j] /\ (j # 0 => q[j - 1] = p[j - 1])
        BY <3>2
      <4>2. p[j] = IF j = 0 THEN << >> ELSE IF j \in I THEN Append(p[j - 1], s[j]) ELSE p[j - 1]
        BY <2>2, <3>2
      <4> QED
        BY <4>1, <4>2
    <3> QED
      BY <3>1, <3>2
  <2>4. Picks(q, k + 1, s, I)
    BY <2>3 DEF Picks
  <2>5. k + 1 \in 0..n
    BY <1>2
  <2> HIDE DEF q
  <2> QED
    BY <2>4, <2>5
<1> HIDE DEF T
<1>3. n \in T
  BY <1>1, <1>2, Upward
<1> QED
  BY <1>3 DEF T

(* Sequence x holds the entries of s at the places in I up to k, in order.  *)
PicksTo(x, k, s, I, S) ==
  /\ x \in Seq(S)
  /\ \E g \in [1..Len(x) -> I \intersect (1..k)] :
       /\ \A j \in 1..Len(x) : x[j] = s[g[j]]
       /\ \A j, i \in 1..Len(x) : g[j] = g[i] => j = i
       /\ \A j, i \in 1..Len(x) : j < i => g[j] < g[i]
       /\ \A i \in I \intersect (1..k) : \E j \in 1..Len(x) : g[j] = i

LEMMA PicksNext ==
  ASSUME NEW S, NEW s \in Seq(S), NEW I, NEW k \in Nat, k < Len(s), NEW x, PicksTo(x, k, s, I, S)
  PROVE  PicksTo(IF k + 1 \in I THEN Append(x, s[k + 1]) ELSE x, k + 1, s, I, S)
<1>1. x \in Seq(S) /\ s[k + 1] \in S
  BY DEF PicksTo
<1>2. PICK g \in [1..Len(x) -> I \intersect (1..k)] :
         /\ \A j \in 1..Len(x) : x[j] = s[g[j]]
         /\ \A j, i \in 1..Len(x) : g[j] = g[i] => j = i
         /\ \A j, i \in 1..Len(x) : j < i => g[j] < g[i]
         /\ \A i \in I \intersect (1..k) : \E j \in 1..Len(x) : g[j] = i
  BY DEF PicksTo
<1>3. CASE k + 1 \notin I
  <2>1. I \intersect (1..(k + 1)) = I \intersect (1..k)
    BY <1>3
  <2>2. PicksTo(x, k + 1, s, I, S)
    BY <2>1, Zenon DEF PicksTo
  <2> QED
    BY <1>3, <2>2
<1>4. CASE k + 1 \in I
  <2> DEFINE y == Append(x, s[k + 1])
             h == [j \in 1..(Len(x) + 1) |-> IF j = Len(x) + 1 THEN k + 1 ELSE g[j]]
  <2>1. /\ y \in Seq(S) /\ Len(y) = Len(x) + 1 /\ Len(x) \in Nat
        /\ y[Len(x) + 1] = s[k + 1] /\ \A j \in 1..Len(x) : y[j] = x[j]
    BY <1>1
  <2> HIDE DEF y
  <2>2. I \intersect (1..(k + 1)) = (I \intersect (1..k)) \union {k + 1} /\ k + 1 \notin 1..k
    BY <1>4
  <2>3. h \in [1..Len(y) -> I \intersect (1..(k + 1))]
    BY <1>2, <2>1, <2>2
  <2>4. \A j \in 1..Len(x) : h[j] = g[j] /\ g[j] \in I \intersect (1..k) /\ j \in 1..Len(y)
    BY <1>2, <2>1
  <2>5. Len(x) + 1 \in 1..Len(y) /\ h[Len(x) + 1] = k + 1 /\ \A j \in 1..Len(y) : j \in 1..Len(x) \/ j = Len(x) + 1
    BY <2>1
  <2> HIDE DEF h
  <2>6. \A j \in 1..Len(y) : y[j] = s[h[j]]
    BY <1>2, <2>1, <2>4, <2>5
  <2>7. ASSUME NEW j \in 1..Len(y), NEW i \in 1..Len(y), h[j] = h[i] PROVE j = i
    <3>1. CASE j \in 1..Len(x) /\ i \in 1..Len(x)
      BY <1>2, <2>4, <2>7, <3>1
    <3>2. CASE j = Len(x) + 1 /\ i = Len(x) + 1
      BY <3>2
    <3>3. CASE ~(j \in 1..Len(x) <=> i \in 1..Len(x))
      BY <2>2, <2>4, <2>5, <2>7, <3>3
    <3> QED
      BY <2>5, <3>1, <3>2, <3>3
  <2>8. ASSUME NEW i \in I \intersect (1..(k + 1)) PROVE \E j \in 1..Len(y) : h[j] = i
    <3>1. CASE i = k + 1
      BY <2>5, <3>1
    <3>2. CASE i \in I \intersect (1..k)
      BY <1>2, <2>4, <3>2
    <3> QED
      BY <2>2, <3>1, <3>2
  <2>9. ASSUME NEW j \in 1..Len(y), NEW i \in 1..Len(y), j < i PROVE h[j] < h[i]
    <3>1. j \in 1..Len(x)
      BY <2>1, <2>9
    <3>2. CASE i \in 1..Len(x)
      BY <1>2, <2>4, <2>9, <3>1, <3>2
    <3>3. CASE i = Len(x) + 1
      BY <2>4, <2>5, <3>1, <3>3
    <3> QED
      BY <2>5, <3>2, <3>3
  <2>10. PicksTo(y, k + 1, s, I, S)
    BY <2>1, <2>3, <2>6, <2>7, <2>8, <2>9 DEF PicksTo
  <2> QED
    BY <1>4, <2>10 DEF y
<1> QED
  BY <1>3, <1>4

(* The filtered sequence: its entries are those at the places, in order.    *)
LEMMA PickedAt ==
  ASSUME NEW S, NEW s \in Seq(S), NEW I
  PROVE  PicksTo(Picked(s, I), Len(s), s, I, S)
<1> DEFINE n == Len(s)
           p == CHOOSE p : Picks(p, n, s, I)
<1>1. n \in Nat /\ Picks(p, n, s, I)
  <2>1. n \in Nat
    OBVIOUS
  <2> HIDE DEF n
  <2> QED
    BY <2>1, PicksExist
<1>2. Picked(s, I) = p[n]
  BY DEF Picked, Picks
<1> HIDE DEF p
<1>3. p[0] = << >> /\ \A k \in 1..n : p[k] = IF k \in I THEN Append(p[k - 1], s[k]) ELSE p[k - 1]
  <2> HIDE DEF n
  <2>1. p = [k \in 0..n |-> IF k = 0 THEN << >> ELSE IF k \in I THEN Append(p[k - 1], s[k]) ELSE p[k - 1]] /\ n \in Nat
    BY <1>1 DEF Picks
  <2>2. ASSUME NEW k \in 0..n
        PROVE  p[k] = IF k = 0 THEN << >> ELSE IF k \in I THEN Append(p[k - 1], s[k]) ELSE p[k - 1]
    BY <2>1, Zenon
  <2>3. 0 \in 0..n /\ \A k \in 1..n : k \in 0..n /\ k # 0
    BY <2>1
  <2> QED
    BY <2>2, <2>3
<1> DEFINE T == {k \in 0..n : PicksTo(p[k], k, s, I, S)}
<1>4. 0 \in T
  <2>1. << >> \in [{} -> I \intersect (1..0)] /\ << >> \in Seq(S) /\ 1..0 = {} /\ 1..Len(<< >>) = {}
    OBVIOUS
  <2>2. PicksTo(<< >>, 0, s, I, S)
    BY <2>1 DEF PicksTo
  <2> QED
    BY <1>1, <1>3, <2>2
<1>5. ASSUME NEW k \in 0..n, k \in T, k < n PROVE k + 1 \in T
  <2>1. PicksTo(p[k], k, s, I, S) /\ k \in Nat /\ k + 1 \in 1..n /\ (k + 1) - 1 = k
    BY <1>1, <1>5
  <2>2. p[k + 1] = IF k + 1 \in I THEN Append(p[k], s[k + 1]) ELSE p[k]
    BY <1>3, <2>1
  <2>3. PicksTo(p[k + 1], k + 1, s, I, S)
    BY <1>5, <2>1, <2>2, PicksNext
  <2> QED
    BY <1>1, <2>1, <2>3
<1> HIDE DEF T
<1>6. n \in T
  BY <1>1, <1>4, <1>5, Upward
<1> QED
  BY <1>2, <1>6 DEF T

-----------------------------------------------------------------------------
(* Where browsers show the players                                          *)

(* The batches of a WAS that its own sockets have still to hear; those on   *)
(* their way to the sockets of a WAS in which player q may be.              *)
Queued(w) == pend[w] \o flown[w]
Way(w, q) == IF home[q] = w THEN Queued(w) ELSE chan[w]
About(s, q) == \E i \in 1..Len(s) : q \in Who(s[i].ups)

(* One move for each player; the last move of each is the place it is at.   *)
Single(ups) == \A u, v \in ups : u.who = v.who => u = v
Newest(s, at) ==
  \A i \in 1..Len(s) : \A u \in s[i].ups :
    (\A j \in 1..Len(s) : j > i => u.who \notin Who(s[j].ups)) => u.at = at[u.who]

(* Who has not moved yet lives and stands at the start; the living are in   *)
(* no dead set, and are told of as alive.                                   *)
ToldAlive(u) == alive[u.who] => u.alive
LivesOK ==
  /\ \A p \in Players : stage[p] \notin {"in", "gone"} => alive[p] /\ pos[p] = 0
  /\ \A p \in Players : alive[p] => \A w \in WAS : p \notin dead[w]
  /\ \A w \in WAS : \A u \in inq[w] : ToldAlive(u) /\ stage[u.who] \in {"in", "gone"}

(* A batch comes from the WAS of its players, and has one move for each.    *)
OriginOK ==
  \A w \in WAS :
    /\ \A i \in 1..Len(Queued(w)) :
         /\ Single(Queued(w)[i].ups)
         /\ \A u \in Queued(w)[i].ups : home[u.who] = w /\ ToldAlive(u)
    /\ \A i \in 1..Len(chan[w]) :
         /\ Single(chan[w][i].ups)
         /\ \A u \in chan[w][i].ups : home[u.who] # w /\ ToldAlive(u)

(* The log is in the order of its numbers.                                  *)
LogOK ==
  /\ \A i \in 1..Len(plog) : Single(plog[i].ups) /\ plog[i].seq <= seq
  /\ \A i, j \in 1..Len(plog) : i < j => plog[i].seq < plog[j].seq

(* On each way, and in the log, the last move of a player is what is stored.*)
NewestOK ==
  /\ Newest(plog, pos)
  /\ \A w \in WAS : Newest(Queued(w), pos) /\ Newest(chan[w], pos)

(* What a browser shows of a player, and what a join has read for it, is    *)
(* where the player is, or it has something newer to come.                  *)
UpToDate(c, q, at) == alive[q] /\ ~About(Way(home[c], q), q) => at = pos[q]
ShownPlaces ==
  \A c \in Players :
    /\ stage[c] = "out" => DOMAIN tab[c].shown = {}
    /\ stage[c] \in InRoom => \A q \in DOMAIN tab[c].shown \ blurred[c] : UpToDate(c, q, tab[c].shown[q])
SnapPlaces ==
  \A c \in Players : stage[c] = "reading" =>
    \A q \in DOMAIN snap[c] \ blurred[c] : UpToDate(c, q, snap[c][q])

(* An answer to c that was read at number n is not taken for q, or          *)
(* something numbered later is still to come.                               *)
Later(s, i, n) == \A j \in 1..Len(s) : j >= i => s[j].seq > n
PassedBy(s, a, q, n) ==
  \/ a >= n /\ Later(s, 1, n)
  \/ \E i \in 1..Len(s) : q \in Who(s[i].ups) /\ Later(s, i, n)
Passed(c, q, n) == PassedBy(Way(home[c], q), tab[c].applied[q], q, n)
AnswerOK(r) ==
  /\ r.pc # "sent" => r.cur <= seq
  /\ r.pc = "ready" => \A u \in r.ups :
       u.who \in Players /\ (alive[u.who] => u.at = pos[u.who] \/ Passed(r.who, u.who, r.cur))
RequestPlaces ==
  \A r \in reqs : (r.pc = "ready" => Single(r.ups)) /\ (blurred[r.who] = Players \/ AnswerOK(r))
AppliedOK == \A c, q \in Players : tab[c].applied[q] \in Nat
BlurOK == blurred \in [Players -> SUBSET Players]

PlacesOK ==
  /\ LivesOK /\ OriginOK /\ LogOK /\ NewestOK
  /\ AppliedOK /\ BlurOK /\ ShownPlaces /\ SnapPlaces /\ RequestPlaces

-----------------------------------------------------------------------------
(* Ways                                                                     *)

(* Sequence t is s without its first k entries.                             *)
Rear(t, s, k) == k \in 0..Len(s) /\ Len(t) = Len(s) - k /\ \A i \in 1..Len(t) : t[i] = s[i + k]

(* What is left of a way keeps its newest moves.                            *)
LEMMA RearNewest ==
  ASSUME NEW S, NEW s \in Seq(S), NEW t \in Seq(S), NEW k, Rear(t, s, k), NEW at, Newest(s, at)
  PROVE  Newest(t, at)
<1> SUFFICES ASSUME NEW i \in 1..Len(t), NEW u \in t[i].ups, \A j \in 1..Len(t) : j > i => u.who \notin Who(t[j].ups)
             PROVE  u.at = at[u.who]
  BY DEF Newest
<1>1. Len(s) \in Nat /\ Len(t) \in Nat /\ k \in Nat /\ Len(t) = Len(s) - k
  BY DEF Rear
<1>2. i + k \in 1..Len(s) /\ u \in s[i + k].ups
  BY <1>1 DEF Rear
<1>3. ASSUME NEW j \in 1..Len(s), j > i + k PROVE u.who \notin Who(s[j].ups)
  <2>1. j - k \in 1..Len(t) /\ j - k > i /\ (j - k) + k = j
    BY <1>1, <1>3
  <2>2. t[j - k] = s[j]
    BY <2>1 DEF Rear
  <2> QED
    BY <2>1, <2>2
<1> QED
  BY <1>2, <1>3 DEF Newest

(* A batch put behind a way brings the places of its players up to date.    *)
LEMMA AppendNewest ==
  ASSUME NEW S, NEW s \in Seq(S), NEW b \in S, NEW at, NEW to, Newest(s, at),
         \A u \in b.ups : to[u.who] = u.at,
         \A i \in 1..Len(s) : \A u \in s[i].ups : u.who \notin Who(b.ups) => to[u.who] = at[u.who]
  PROVE  Newest(Append(s, b), to)
<1> DEFINE t == Append(s, b)
<1>1. Len(s) \in Nat /\ Len(t) = Len(s) + 1 /\ t[Len(s) + 1] = b /\ \A i \in 1..Len(s) : t[i] = s[i]
  BY AppendProperties
<1> HIDE DEF t
<1> SUFFICES ASSUME NEW i \in 1..Len(t), NEW u \in t[i].ups, \A j \in 1..Len(t) : j > i => u.who \notin Who(t[j].ups)
             PROVE  u.at = to[u.who]
  BY DEF Newest, t
<1>2. CASE i = Len(s) + 1
  BY <1>1, <1>2
<1>3. CASE i \in 1..Len(s)
  <2>1. u \in s[i].ups /\ u.who \notin Who(b.ups)
    BY <1>1, <1>3
  <2>2. ASSUME NEW j \in 1..Len(s), j > i PROVE u.who \notin Who(s[j].ups)
    BY <1>1, <1>3, <2>2
  <2> QED
    BY <1>3, <2>1, <2>2 DEF Newest
<1> QED
  BY <1>1, <1>2, <1>3

(* Moves of players who have not moved on stay the newest.                  *)
LEMMA SameNewest ==
  ASSUME NEW s, NEW at, NEW to, Newest(s, at), \A i \in 1..Len(s) : \A u \in s[i].ups : to[u.who] = at[u.who]
  PROVE  Newest(s, to)
BY DEF Newest

(* Of the batches about a player one is the last.                           *)
LEMMA LastAbout ==
  ASSUME NEW S, NEW s \in Seq(S), NEW q, About(s, q)
  PROVE  \E i \in 1..Len(s) : q \in Who(s[i].ups) /\ \A j \in 1..Len(s) : j > i => q \notin Who(s[j].ups)
<1>0. Len(s) \in Nat
  OBVIOUS
<1> DEFINE T == {n \in 0..Len(s) : n < Len(s) /\ q \in Who(s[Len(s) - n].ups)}
<1>1. T \in SUBSET Nat /\ T # {}
  <2>1. PICK i \in 1..Len(s) : q \in Who(s[i].ups)
    BY DEF About
  <2>2. Len(s) - i \in 0..Len(s) /\ Len(s) - i < Len(s) /\ Len(s) - (Len(s) - i) = i
    BY <1>0
  <2>3. Len(s) - i \in T
    BY <2>1, <2>2
  <2> QED
    BY <1>0, <2>3
<1>2. PICK m \in T : \A k \in T : m <= k
  <2> HIDE DEF T
  <2> QED
    BY <1>1, LeastNat
<1>3. m \in 0..Len(s) /\ m < Len(s) /\ q \in Who(s[Len(s) - m].ups)
  OBVIOUS
<1>4. ASSUME NEW j \in 1..Len(s), j > Len(s) - m, q \in Who(s[j].ups) PROVE FALSE
  <2>1. Len(s) - j \in 0..Len(s) /\ Len(s) - j < m /\ Len(s) - j < Len(s) /\ Len(s) - (Len(s) - j) = j
    BY <1>0, <1>3, <1>4
  <2>2. Len(s) - j \in T
    BY <1>4, <2>1
  <2>3. m <= Len(s) - j
    BY <1>2, <2>2
  <2> QED
    BY <1>0, <1>3, <2>1, <2>3
<1>5. Len(s) - m \in 1..Len(s)
  BY <1>0, <1>3
<1> QED
  BY <1>3, <1>4, <1>5

(* A longer way is about whom it was about and whom the new batch is about. *)
LEMMA AboutAppend ==
  ASSUME NEW S, NEW s \in Seq(S), NEW b \in S, NEW q
  PROVE  About(Append(s, b), q) <=> About(s, q) \/ q \in Who(b.ups)
<1> DEFINE t == Append(s, b)
<1>1. Len(s) \in Nat /\ Len(t) = Len(s) + 1 /\ t[Len(s) + 1] = b /\ \A i \in 1..Len(s) : t[i] = s[i]
  BY AppendProperties
<1> HIDE DEF t
<1>2. \A i \in 1..Len(s) : i \in 1..Len(t)
  BY <1>1
<1>3. Len(s) + 1 \in 1..Len(t) /\ \A i \in 1..Len(t) : i = Len(s) + 1 \/ i \in 1..Len(s)
  BY <1>1
<1>4. About(t, q) <=> About(s, q) \/ q \in Who(b.ups)
  BY <1>1, <1>2, <1>3 DEF About
<1> QED
  BY <1>4 DEF t

(* The ways are sequences of batches, and how the steps change them.        *)
LEMMA WayType ==
  ASSUME BatchesOK, NEW w \in WAS
  PROVE  /\ pend[w] \in Seq(Batches) /\ flown[w] \in Seq(Batches) /\ chan[w] \in Seq(Batches)
         /\ Queued(w) \in Seq(Batches) /\ \A q : Way(w, q) \in Seq(Batches)
<1>1. pend[w] \in Seq(Batches) /\ flown[w] \in Seq(Batches) /\ chan[w] \in Seq(Batches)
  BY DEF BatchesOK
<1>2. Queued(w) \in Seq(Batches)
  BY <1>1, ConcatProperties DEF Queued
<1> QED
  BY <1>1, <1>2 DEF Way

(* Of two sequences one behind the other, the second is the rear.           *)
LEMMA QueuedRear ==
  ASSUME NEW S, NEW s \in Seq(S), NEW t \in Seq(S)
  PROVE  /\ Rear(t, s \o t, Len(s)) /\ \A i \in 1..Len(s) : (s \o t)[i] = s[i]
         /\ Len(s) \in 0..Len(s \o t) /\ << >> \o t = t
<1>1. /\ Len(s \o t) = Len(s) + Len(t) /\ Len(s) \in Nat /\ Len(t) \in Nat
      /\ \A i \in 1..(Len(s) + Len(t)) : (s \o t)[i] = IF i <= Len(s) THEN s[i] ELSE t[i - Len(s)]
  BY ConcatProperties
<1>2. \A i \in 1..Len(t) : (s \o t)[i + Len(s)] = t[i]
  BY <1>1
<1>3. \A i \in 1..Len(s) : (s \o t)[i] = s[i]
  BY <1>1
<1>4. << >> \o t = t
  BY ConcatEmptySeq
<1> QED
  BY <1>1, <1>2, <1>3, <1>4 DEF Rear

(* The first entry of the second may as well end the first.                 *)
LEMMA QueuedShift ==
  ASSUME NEW S, NEW s \in Seq(S), NEW t \in Seq(S), t # << >>
  PROVE  Append(s, Head(t)) \o Tail(t) = s \o t
<1> DEFINE x == Append(s, Head(t)) \o Tail(t)
           y == s \o t
<1>1. Head(t) \in S /\ Tail(t) \in Seq(S) /\ Len(Tail(t)) = Len(t) - 1 /\ \A i \in 1..Len(Tail(t)) : Tail(t)[i] = t[i + 1]
  BY HeadTailProperties
<1>2. /\ Append(s, Head(t)) \in Seq(S) /\ Len(Append(s, Head(t))) = Len(s) + 1
      /\ Append(s, Head(t))[Len(s) + 1] = Head(t) /\ \A i \in 1..Len(s) : Append(s, Head(t))[i] = s[i]
  BY <1>1, AppendProperties
<1>3. Len(s) \in Nat /\ Len(t) \in Nat /\ Len(t) > 0 /\ Head(t) = t[1]
  BY EmptySeq
<1>4. /\ x \in Seq(S) /\ Len(x) = Len(s) + 1 + (Len(t) - 1)
      /\ \A i \in 1..(Len(s) + 1 + (Len(t) - 1)) : x[i] = IF i <= Len(s) + 1 THEN Append(s, Head(t))[i] ELSE Tail(t)[i - (Len(s) + 1)]
  BY <1>1, <1>2, ConcatProperties
<1>5. /\ y \in Seq(S) /\ Len(y) = Len(s) + Len(t)
      /\ \A i \in 1..(Len(s) + Len(t)) : y[i] = IF i <= Len(s) THEN s[i] ELSE t[i - Len(s)]
  BY ConcatProperties
<1> HIDE DEF x, y
<1>6. ASSUME NEW i \in 1..Len(y) PROVE x[i] = y[i]
  <2>0. i \in 1..(Len(s) + 1 + (Len(t) - 1)) /\ i \in 1..(Len(s) + Len(t))
    BY <1>3, <1>5
  <2>1. CASE i <= Len(s)
    <3>1. i \in 1..Len(s) /\ i <= Len(s) + 1
      BY <1>3, <2>0, <2>1
    <3>2. x[i] = Append(s, Head(t))[i] /\ y[i] = s[i]
      BY <1>4, <1>5, <2>0, <2>1, <3>1
    <3> QED
      BY <1>2, <3>1, <3>2
  <2>2. CASE i = Len(s) + 1
    <3>1. i <= Len(s) + 1 /\ ~(i <= Len(s)) /\ i - Len(s) = 1
      BY <1>3, <2>2
    <3>2. x[i] = Append(s, Head(t))[i] /\ y[i] = t[1]
      BY <1>4, <1>5, <2>0, <3>1
    <3> QED
      BY <1>2, <1>3, <2>2, <3>2
  <2>3. CASE i > Len(s) + 1
    <3>1. i - (Len(s) + 1) \in 1..(Len(t) - 1) /\ (i - (Len(s) + 1)) + 1 = i - Len(s)
      BY <1>3, <1>5, <2>3
    <3>2. x[i] = Tail(t)[i - (Len(s) + 1)] /\ y[i] = t[i - Len(s)]
      BY <1>3, <1>4, <1>5, <2>3
    <3> QED
      BY <1>1, <3>1, <3>2
  <2> QED
    BY <1>3, <1>5, <2>1, <2>2, <2>3
<1>7. x = y
  <2>1. Len(x) = Len(y) /\ Len(x) \in Nat
    BY <1>3, <1>4, <1>5
  <2>2. x \in [1..Len(x) -> S] /\ y \in [1..Len(y) -> S]
    BY <1>4, <1>5, LenProperties
  <2> QED
    BY <1>6, <2>1, <2>2
<1> QED
  BY <1>7 DEF x, y

(* What is put behind the second is put behind both.                        *)
LEMMA QueuedAppend ==
  ASSUME NEW S, NEW s \in Seq(S), NEW t \in Seq(S), NEW b \in S
  PROVE  s \o Append(t, b) = Append(s \o t, b)
<1>1. <<b>> \in Seq(S) /\ s \o t \in Seq(S)
  BY ConcatProperties
<1>2. Append(t, b) = t \o <<b>> /\ Append(s \o t, b) = (s \o t) \o <<b>>
  BY <1>1, AppendIsConcat
<1>3. (s \o t) \o <<b>> = s \o (t \o <<b>>)
  BY <1>1, ConcatAssociative
<1> QED
  BY <1>2, <1>3

-----------------------------------------------------------------------------
(* Broadcasts                                                               *)

(* What a browser hears of a living player in a batch is that player's one  *)
(* move; every other place it shows stays.                                  *)
Tells(c, q, n, at) ==
  /\ tab'[c].applied[q] = n /\ (stage[c] = "reading" => q \in blurred'[c])
  /\ q \in DOMAIN tab[c].shown => tab'[c].shown[q] = at
Silent(c, q) ==
  /\ tab'[c].applied[q] = tab[c].applied[q]
  /\ q \in DOMAIN tab[c].shown => tab'[c].shown[q] = tab[c].shown[q]

(* What hearing a batch changes for one player.                             *)
LEMMA HeardAs ==
  ASSUME NEW t, NEW n, NEW ups, NEW q \in Players, DOMAIN t.shown \subseteq Players
  PROVE  LET h == Hear(t, Batch(n, ups)) IN
         /\ DOMAIN h.shown = DOMAIN t.shown
         /\ h.applied[q] = IF q \in Who(ups) THEN n ELSE t.applied[q]
         /\ q \in DOMAIN t.shown => h.shown[q] = IF q \in Who(ups) THEN Told(ups, q).at ELSE t.shown[q]
BY DEF Hear, Batch

(* Of one move of a player, that move is told.                              *)
LEMMA ToldOnly ==
  ASSUME NEW ups, NEW u \in ups, \A v \in ups : v.who = u.who => v = u
  PROVE  Told(ups, u.who) = u
<1> DEFINE Ok(v) == v.who = u.who /\ (v.alive => \A x \in ups : x.who = u.who => x.alive)
<1>1. Ok(u)
  OBVIOUS
<1>2. \A v \in ups : Ok(v) => v = u
  OBVIOUS
<1>3. Told(ups, u.who) = CHOOSE v \in ups : Ok(v)
  BY DEF Told
<1> HIDE DEF Ok
<1> QED
  BY <1>1, <1>2, <1>3

(* What the emission of a batch does to the browsers.                       *)
LEMMA DeliverTells ==
  ASSUME DOMAIN tab = Players, \A c \in Players : DOMAIN tab[c].shown \subseteq Players,
         BlurOK, NEW w \in WAS, NEW b, Deliver(w, b)
  PROVE  /\ BlurOK' \/ ~(Who(b.ups) \subseteq Players)
         /\ \A c \in Players : DOMAIN tab'[c].shown = DOMAIN tab[c].shown /\ blurred[c] \subseteq blurred'[c]
         /\ \A c, q \in Players : c \notin Clients(w) \/ q \notin Who(b.ups) => Silent(c, q)
         /\ \A c \in Clients(w) : \A u \in b.ups :
              u.who \in Players /\ u.alive /\ (\A v \in b.ups : v.who = u.who => v = u) =>
                Tells(c, u.who, b.seq, u.at)
         /\ \A r \in reqs' \ reqs : r.pc = "sent"
<1> DEFINE heard == {c \in Clients(w) : Reaching(c, b.ups) # {}}
<1>1. /\ tab' = [c \in Players |-> IF c \in heard THEN Hear(tab[c], Batch(b.seq, Reaching(c, b.ups))) ELSE tab[c]]
      /\ reqs' = reqs \union {Request(c, tab[c].last) : c \in {c \in heard : Skips(tab[c], b)}}
      /\ blurred' = [c \in Players |-> IF c \in heard /\ stage[c] = "reading"
                                       THEN blurred[c] \union Who(b.ups) ELSE blurred[c]]
  BY DEF Deliver
<1>2. /\ heard \subseteq Clients(w) /\ Clients(w) \subseteq Players
      /\ \A c : Reaching(c, b.ups) \subseteq b.ups /\ Who(Reaching(c, b.ups)) \subseteq Who(b.ups)
  BY DEF Clients, Reaching, Who
<1>3. \A c \in Players : blurred[c] \subseteq blurred'[c]
  BY <1>1
<1>4. BlurOK' \/ ~(Who(b.ups) \subseteq Players)
  BY <1>1 DEF BlurOK
<1>5. ASSUME NEW c \in Players, NEW q \in Players, c \in heard
      PROVE  /\ DOMAIN tab'[c].shown = DOMAIN tab[c].shown
             /\ tab'[c].applied[q] = IF q \in Who(Reaching(c, b.ups)) THEN b.seq ELSE tab[c].applied[q]
             /\ q \in DOMAIN tab[c].shown => tab'[c].shown[q] =
                  IF q \in Who(Reaching(c, b.ups)) THEN Told(Reaching(c, b.ups), q).at ELSE tab[c].shown[q]
  <2>1. tab'[c] = Hear(tab[c], Batch(b.seq, Reaching(c, b.ups))) /\ DOMAIN tab[c].shown \subseteq Players
    BY <1>1, <1>5
  <2> QED
    BY <2>1, HeardAs
<1>6. ASSUME NEW c \in Players, c \notin heard PROVE tab'[c] = tab[c]
  BY <1>1, <1>6
<1>7. ASSUME NEW c \in Clients(w), NEW u \in b.ups, u.who \in Players, u.alive,
             \A v \in b.ups : v.who = u.who => v = u
      PROVE  Tells(c, u.who, b.seq, u.at)
  <2>1. u \in Reaching(c, b.ups) /\ u.who \in Who(Reaching(c, b.ups)) /\ c \in heard
    BY <1>7 DEF Reaching, Who
  <2>2. Told(Reaching(c, b.ups), u.who) = u
    <3>1. \A v \in Reaching(c, b.ups) : v.who = u.who => v = u
      BY <1>2, <1>7
    <3> QED
      BY <2>1, <3>1, ToldOnly
  <2>3. stage[c] = "reading" => u.who \in blurred'[c]
    <3>1. u.who \in Who(b.ups) /\ c \in Players
      BY <1>2 DEF Who
    <3> HIDE DEF heard
    <3> QED
      BY <1>1, <2>1, <3>1
  <2> HIDE DEF heard
  <2>4. c \in Players
    BY <1>2
  <2> QED
    BY <1>5, <1>7, <2>1, <2>2, <2>3, <2>4 DEF Tells
<1>8. ASSUME NEW c \in Players, NEW q \in Players, c \notin Clients(w) \/ q \notin Who(b.ups) PROVE Silent(c, q)
  <2>1. c \notin heard \/ q \notin Who(Reaching(c, b.ups))
    BY <1>2, <1>8
  <2> HIDE DEF heard
  <2> QED
    BY <1>5, <1>6, <2>1 DEF Silent
<1>9. \A r \in reqs' \ reqs : r.pc = "sent"
  BY <1>1 DEF Request
<1>10. Players # {}
  BY SocketsBound
<1> HIDE DEF heard
<1>11. \A c \in Players : DOMAIN tab'[c].shown = DOMAIN tab[c].shown
  BY <1>5, <1>6, <1>10
<1> QED
  BY <1>3, <1>4, <1>7, <1>8, <1>9, <1>11

(* Of a living player whose moves are all told as alive, a merged batch has *)
(* the last move.                                                           *)
LEMMA MergedAbout ==
  ASSUME NEW bs \in Seq(Batches), bs # << >>, NEW q,
         \A i \in 1..Len(bs) : Single(bs[i].ups) /\ \A u \in bs[i].ups : u.who = q => u.alive
  PROVE  LET m == MergeBatches(bs) IN
         /\ m.seq = bs[Len(bs)].seq /\ Len(bs) \in 1..Len(bs)
         /\ q \in Who(m.ups) <=> About(bs, q)
         /\ \A u \in m.ups : \E i \in 1..Len(bs) : u \in bs[i].ups
         /\ \A i \in 1..Len(bs) : \A u \in bs[i].ups :
              u.who = q /\ (\A j \in 1..Len(bs) : j > i => q \notin Who(bs[j].ups)) =>
                u \in m.ups /\ \A v \in m.ups : v.who = q => v = u
<1> DEFINE m == MergeBatches(bs)
           Latest(i) == {u \in bs[i].ups : \A j \in (i + 1)..Len(bs) : \A v \in bs[j].ups :
                                           v.who # u.who \/ v.alive # u.alive}
<1>0. Len(bs) \in Nat /\ Len(bs) # 0
  BY EmptySeq
<1>1. m.seq = bs[Len(bs)].seq /\ m.ups = UNION {Latest(i) : i \in 1..Len(bs)} /\ Len(bs) \in 1..Len(bs)
  BY <1>0 DEF MergeBatches, Batch
<1> HIDE DEF m
<1>2. \A u : u \in m.ups <=> \E i \in 1..Len(bs) : u \in Latest(i)
  BY <1>1
<1>3. \A u \in m.ups : \E i \in 1..Len(bs) : u \in bs[i].ups
  BY <1>2
<1>4. ASSUME NEW i \in 1..Len(bs), NEW u \in bs[i].ups, u.who = q,
             \A j \in 1..Len(bs) : j > i => q \notin Who(bs[j].ups)
      PROVE  u \in m.ups /\ \A v \in m.ups : v.who = q => v = u
  <2>1. \A j \in (i + 1)..Len(bs) : j \in 1..Len(bs) /\ j > i
    BY <1>0
  <2>2. u \in Latest(i)
    BY <1>4, <2>1 DEF Who
  <2>3. ASSUME NEW v \in m.ups, v.who = q PROVE v = u
    <3>1. PICK k \in 1..Len(bs) : v \in Latest(k)
      BY <1>2
    <3>2. v \in bs[k].ups /\ v.alive /\ u.alive
      BY <1>4, <2>3, <3>1
    <3>3. ~(k > i)
      BY <1>4, <2>3, <3>2 DEF Who
    <3>4. CASE k = i
      BY <1>4, <2>3, <3>2, <3>4 DEF Single
    <3>5. CASE k < i
      <4>1. i \in (k + 1)..Len(bs)
        BY <1>0, <3>5
      <4>2. u.who # v.who \/ u.alive # v.alive
        BY <3>1, <4>1
      <4>3. bs[i] \in Batches /\ bs[k] \in Batches
        OBVIOUS
      <4>4. u.alive \in BOOLEAN /\ v.alive \in BOOLEAN
        BY <3>2, <4>3 DEF Batches, Updates
      <4>5. u.alive = TRUE /\ v.alive = TRUE
        BY <3>2, <4>4
      <4> QED
        BY <1>4, <2>3, <4>2, <4>5
    <3> QED
      BY <1>0, <3>3, <3>4, <3>5
  <2>4. u \in m.ups
    BY <1>2, <2>2
  <2> QED
    BY <2>3, <2>4
<1>5. q \in Who(m.ups) <=> About(bs, q)
  <2>1. ASSUME q \in Who(m.ups) PROVE About(bs, q)
    BY <1>3, <2>1 DEF Who, About
  <2>2. ASSUME About(bs, q) PROVE q \in Who(m.ups)
    <3>1. PICK i \in 1..Len(bs) : q \in Who(bs[i].ups) /\ \A j \in 1..Len(bs) : j > i => q \notin Who(bs[j].ups)
      BY <2>2, LastAbout
    <3>2. PICK u \in bs[i].ups : u.who = q
      BY <3>1 DEF Who
    <3> QED
      BY <1>4, <3>1, <3>2 DEF Who
  <2> QED
    BY <2>1, <2>2
<1> QED
  BY <1>1, <1>3, <1>4, <1>5 DEF m

-----------------------------------------------------------------------------
(* What a broadcast does to a way                                           *)

(* A browser hears of q what the first k batches of a way say, of which t   *)
(* is the rest.                                                             *)
Taken(s, k, q) == \E i \in 1..k : q \in Who(s[i].ups)
HandsOver(c, q, s, t, k) ==
  /\ Rear(t, s, k)
  /\ ~Taken(s, k, q) => Silent(c, q)
  /\ Taken(s, k, q) =>
       \E i \in 1..k : \E u \in s[i].ups :
         /\ u.who = q /\ \A j \in 1..k : j > i => q \notin Who(s[j].ups)
         /\ Tells(c, q, s[k].seq, u.at)

(* A browser that hears nothing of q has been handed nothing.               *)
LEMMA HandsNothing ==
  ASSUME NEW S, NEW s \in Seq(S), NEW c, NEW q, Silent(c, q)
  PROVE  HandsOver(c, q, s, s, 0)
<1>1. Len(s) \in Nat /\ 1..0 = {} /\ 0 \in 0..Len(s) /\ Len(s) - 0 = Len(s) /\ \A i \in 1..Len(s) : i + 0 = i
  OBVIOUS
<1> QED
  BY <1>1 DEF HandsOver, Rear, Taken

(* The batches that are on their way to somebody tell of players as their   *)
(* places say.                                                              *)
LEMMA PendFacts ==
  ASSUME BatchesOK, OriginOK, NEW w \in WAS
  PROVE  /\ pend[w] \in Seq(Batches) /\ Len(pend[w]) \in Nat
         /\ \A i \in 1..Len(pend[w]) :
              /\ pend[w][i] = Queued(w)[i] /\ i \in 1..Len(Queued(w)) /\ Single(pend[w][i].ups)
              /\ \A u \in pend[w][i].ups : home[u.who] = w /\ ToldAlive(u) /\ u.who \in Players
<1>1. pend[w] \in Seq(Batches) /\ flown[w] \in Seq(Batches) /\ Queued(w) = pend[w] \o flown[w]
  BY WayType DEF Queued
<1>2. /\ \A i \in 1..Len(pend[w]) : (pend[w] \o flown[w])[i] = pend[w][i]
      /\ Len(pend[w]) \in 0..Len(pend[w] \o flown[w])
  BY <1>1, QueuedRear
<1>3. Len(pend[w]) \in Nat /\ Len(Queued(w)) \in Nat
  <2>1. Queued(w) \in Seq(Batches)
    BY WayType
  <2> QED
    BY <1>1, <2>1, LenProperties
<1>4. ASSUME NEW i \in 1..Len(pend[w]) PROVE i \in 1..Len(Queued(w)) /\ pend[w][i] = Queued(w)[i]
  <2>1. Len(pend[w]) \in 0..Len(Queued(w)) /\ Queued(w)[i] = pend[w][i]
    BY <1>1, <1>2
  <2> QED
    BY <1>3, <2>1
<1>5. ASSUME NEW i \in 1..Len(pend[w]) PROVE \A u \in pend[w][i].ups : u.who \in Players
  <2>1. pend[w][i] \in Batches
    BY <1>1
  <2> QED
    BY <2>1 DEF Batches, Updates
<1> QED
  BY <1>1, <1>3, <1>4, <1>5 DEF OriginOK

(* broadcastRoom hands the browsers of a WAS what was pending there.        *)
LEMMA BroadcastHands ==
  ASSUME SocketsOK, BatchesOK, TabsOK, BlurOK, OriginOK, NEW w \in WAS, Broadcast(w)
  PROVE  /\ BlurOK' /\ \A r \in reqs' \ reqs : r.pc = "sent"
         /\ \A c \in Players : DOMAIN tab'[c].shown = DOMAIN tab[c].shown /\ blurred[c] \subseteq blurred'[c]
         /\ \A c, q \in Players : stage[c] \in InRoom /\ alive[q] =>
              \E k \in Nat : HandsOver(c, q, Way(home[c], q), Way(home[c], q)', k)
<1> DEFINE b == MergeBatches(pend[w])
<1>1. /\ Deliver(w, b) /\ pend[w] # << >> /\ pend' = [pend EXCEPT ![w] = << >>]
      /\ UNCHANGED <<home, stage, alive, flown, chan>>
  BY DEF Broadcast, sockets
<1>2. DOMAIN tab = Players /\ \A c \in Players : DOMAIN tab[c].shown \subseteq Players
  BY DEF TabsOK, IsTab
<1>3. /\ pend[w] \in Seq(Batches) /\ Len(pend[w]) \in Nat
      /\ \A i \in 1..Len(pend[w]) :
           /\ pend[w][i] = Queued(w)[i] /\ i \in 1..Len(Queued(w)) /\ Single(pend[w][i].ups)
           /\ \A u \in pend[w][i].ups : home[u.who] = w /\ ToldAlive(u) /\ u.who \in Players
  BY PendFacts
<1>4. b.seq = pend[w][Len(pend[w])].seq /\ Len(pend[w]) \in 1..Len(pend[w])
      /\ \A u \in b.ups : \E i \in 1..Len(pend[w]) : u \in pend[w][i].ups
  <2>1. \E q : q \notin UNION {Who(pend[w][i].ups) : i \in 1..Len(pend[w])}
    <3>1. UNION {Who(pend[w][i].ups) : i \in 1..Len(pend[w])} \subseteq Players
      BY <1>3 DEF Who
    <3>2. \E q : q \notin Players
      BY NoSetContainsEverything
    <3> QED
      BY <3>1, <3>2
  <2>2. PICK q : q \notin UNION {Who(pend[w][i].ups) : i \in 1..Len(pend[w])}
    BY <2>1
  <2>3. \A i \in 1..Len(pend[w]) : \A u \in pend[w][i].ups : u.who # q
    BY <2>2 DEF Who
  <2> HIDE DEF b
  <2>4. \A i \in 1..Len(pend[w]) : Single(pend[w][i].ups) /\ \A u \in pend[w][i].ups : u.who = q => u.alive
    BY <1>3, <2>3
  <2> DEFINE bs == pend[w]
  <2>5. bs \in Seq(Batches) /\ bs # << >> /\ \A i \in 1..Len(bs) : Single(bs[i].ups) /\ \A u \in bs[i].ups : u.who = q => u.alive
    BY <1>1, <1>3, <2>4
  <2> HIDE DEF bs
  <2>6. /\ MergeBatches(bs).seq = bs[Len(bs)].seq /\ Len(bs) \in 1..Len(bs)
        /\ \A u \in MergeBatches(bs).ups : \E i \in 1..Len(bs) : u \in bs[i].ups
    BY <2>5, MergedAbout
  <2> QED
    BY <2>6 DEF b, bs
<1>5. \A u \in b.ups : home[u.who] = w /\ u.who \in Players
  BY <1>3, <1>4
<1>6. Who(b.ups) \subseteq Players
  BY <1>5 DEF Who
<1> HIDE DEF b
<1>7. /\ BlurOK' /\ \A r \in reqs' \ reqs : r.pc = "sent"
      /\ \A c \in Players : DOMAIN tab'[c].shown = DOMAIN tab[c].shown /\ blurred[c] \subseteq blurred'[c]
      /\ \A c, q \in Players : c \notin Clients(w) \/ q \notin Who(b.ups) => Silent(c, q)
      /\ \A c \in Clients(w) : \A u \in b.ups :
           u.who \in Players /\ u.alive /\ (\A v \in b.ups : v.who = u.who => v = u) =>
             Tells(c, u.who, b.seq, u.at)
  BY <1>1, <1>2, <1>6, DeliverTells
<1>8. ASSUME NEW c \in Players, NEW q \in Players, stage[c] \in InRoom, alive[q]
      PROVE  \E k \in Nat : HandsOver(c, q, Way(home[c], q), Way(home[c], q)', k)
  <2>0. home[c] \in WAS /\ home[q] \in WAS /\ Way(home[c], q) \in Seq(Batches)
    <3>1. home \in [Players -> WAS]
      BY SocketsRoutes DEF SocketsOK, SocketsTypeOK
    <3> QED
      BY <3>1, WayType
  <2>1. CASE home[c] # w \/ home[q] # w
    <3>1. Way(home[c], q)' = Way(home[c], q)
      <4>1. home[c] # w => Queued(home[c])' = Queued(home[c])
        BY <1>1, <2>0 DEF Queued, BatchesOK
      <4> QED
        BY <1>1, <2>1, <4>1 DEF Way
    <3>2. c \notin Clients(w) \/ q \notin Who(b.ups)
      BY <1>5, <2>1 DEF Clients, Who
    <3>3. Silent(c, q)
      BY <1>7, <3>2
    <3>4. HandsOver(c, q, Way(home[c], q), Way(home[c], q), 0)
      BY <2>0, <3>3, HandsNothing
    <3> QED
      BY <3>1, <3>4
  <2>2. CASE home[c] = w /\ home[q] = w
    <3> DEFINE k == Len(pend[w])
               s == Queued(w)
    <3>1. Way(home[c], q) = s /\ Way(home[c], q)' = flown[w]
      <4>1. pend'[w] = << >> /\ flown'[w] = flown[w] /\ flown[w] \in Seq(Batches)
        BY <1>1, WayType DEF BatchesOK
      <4>2. Queued(w)' = flown[w]
        BY <4>1, QueuedRear DEF Queued
      <4> QED
        BY <1>1, <2>2, <4>2 DEF Way
    <3>2. Rear(flown[w], s, k)
      BY <1>3, WayType, QueuedRear DEF Queued
    <3>3. c \in Clients(w)
      BY <2>2, <1>8 DEF Clients, InRoom
    <3>4. \A i \in 1..k : pend[w][i] = s[i]
      BY <1>3
    <3>5. /\ q \in Who(b.ups) <=> About(pend[w], q)
          /\ \A i \in 1..k : \A u \in pend[w][i].ups :
              u.who = q /\ (\A j \in 1..k : j > i => q \notin Who(pend[w][j].ups)) =>
                u \in b.ups /\ \A v \in b.ups : v.who = q => v = u
      <4>1. \A i \in 1..Len(pend[w]) : Single(pend[w][i].ups) /\ \A u \in pend[w][i].ups : u.who = q => u.alive
        BY <1>3, <1>8 DEF ToldAlive
      <4> QED
        BY <1>1, <1>3, <4>1, MergedAbout DEF b
    <3>6. Taken(s, k, q) <=> About(pend[w], q)
      BY <3>4 DEF Taken, About
    <3>7. ASSUME ~Taken(s, k, q) PROVE Silent(c, q)
      BY <1>7, <3>5, <3>6, <3>7
    <3>8. ASSUME Taken(s, k, q)
          PROVE  \E i \in 1..k : \E u \in s[i].ups :
                   /\ u.who = q /\ \A j \in 1..k : j > i => q \notin Who(s[j].ups)
                   /\ Tells(c, q, s[k].seq, u.at)
      <4>1. PICK i \in 1..k : q \in Who(pend[w][i].ups) /\ \A j \in 1..k : j > i => q \notin Who(pend[w][j].ups)
        BY <1>3, <3>6, <3>8, LastAbout
      <4>2. PICK u \in pend[w][i].ups : u.who = q
        BY <4>1 DEF Who
      <4>3. u \in b.ups /\ \A v \in b.ups : v.who = q => v = u
        BY <3>5, <4>1, <4>2
      <4>4. u.alive
        BY <1>3, <1>8, <4>2 DEF ToldAlive
      <4>5. Tells(c, q, b.seq, u.at)
        BY <1>7, <3>3, <4>2, <4>3, <4>4
      <4>6. b.seq = s[k].seq
        BY <1>4, <3>4
      <4> QED
        BY <3>4, <4>1, <4>2, <4>5, <4>6
    <3>9. k \in Nat
      BY <1>3
    <3> HIDE DEF k, s
    <3>10. HandsOver(c, q, s, flown[w], k)
      BY <3>2, <3>7, <3>8 DEF HandsOver
    <3> QED
      BY <3>1, <3>9, <3>10
  <2> QED
    BY <2>1, <2>2
<1> QED
  BY <1>7, <1>8

(* handlePositionMessage hands them the first batch of the other WAS.       *)
LEMMA RemoteHands ==
  ASSUME SocketsOK, BatchesOK, TabsOK, BlurOK, OriginOK, NEW w \in WAS, Remote(w)
  PROVE  /\ BlurOK' /\ \A r \in reqs' \ reqs : r.pc = "sent"
         /\ \A c \in Players : DOMAIN tab'[c].shown = DOMAIN tab[c].shown /\ blurred[c] \subseteq blurred'[c]
         /\ \A c, q \in Players : stage[c] \in InRoom /\ alive[q] =>
              \E k \in Nat : HandsOver(c, q, Way(home[c], q), Way(home[c], q)', k)
<1> DEFINE b == Head(chan[w])
<1>1. /\ chan[w] # << >> /\ chan' = [chan EXCEPT ![w] = Tail(@)] /\ UNCHANGED <<home, stage, alive, flown, pend>>
      /\ IF ~Assigned(w) THEN UNCHANGED <<tab, reqs, blurred>> ELSE Deliver(w, b)
  BY DEF Remote, sockets
<1>2. DOMAIN tab = Players /\ \A c \in Players : DOMAIN tab[c].shown \subseteq Players
  BY DEF TabsOK, IsTab
<1>3. /\ chan[w] \in Seq(Batches) /\ Len(chan[w]) \in Nat /\ 1 \in 1..Len(chan[w]) /\ b = chan[w][1] /\ b \in Batches
      /\ Tail(chan[w]) \in Seq(Batches) /\ Len(Tail(chan[w])) = Len(chan[w]) - 1
      /\ \A i \in 1..Len(Tail(chan[w])) : Tail(chan[w])[i] = chan[w][i + 1]
  <2>1. chan[w] \in Seq(Batches)
    BY WayType
  <2>2. Len(chan[w]) \in Nat /\ Len(chan[w]) # 0
    BY <1>1, <2>1, EmptySeq
  <2> QED
    BY <1>1, <2>1, <2>2, HeadTailProperties
<1>4. Single(b.ups) /\ \A u \in b.ups : home[u.who] # w /\ ToldAlive(u)
  BY <1>3 DEF OriginOK
<1>5. Who(b.ups) \subseteq Players /\ \A u \in b.ups : u.who \in Players
  BY <1>3 DEF Batches, Updates, Who
<1> HIDE DEF b
<1>6. /\ BlurOK' /\ \A r \in reqs' \ reqs : r.pc = "sent"
      /\ \A c \in Players : DOMAIN tab'[c].shown = DOMAIN tab[c].shown /\ blurred[c] \subseteq blurred'[c]
      /\ \A c, q \in Players : c \notin Clients(w) \/ q \notin Who(b.ups) => Silent(c, q)
      /\ \A c \in Clients(w) : \A u \in b.ups :
           u.who \in Players /\ u.alive /\ (\A v \in b.ups : v.who = u.who => v = u) =>
             Tells(c, u.who, b.seq, u.at)
  <2>1. CASE Assigned(w)
    BY <1>1, <1>2, <1>5, <2>1, DeliverTells
  <2>2. CASE ~Assigned(w)
    <3>1. UNCHANGED <<tab, reqs, blurred>> /\ Clients(w) = {}
      BY <1>1, <2>2 DEF Assigned
    <3> QED
      BY <3>1 DEF BlurOK, Silent
  <2> QED
    BY <2>1, <2>2
<1>7. ASSUME NEW c \in Players, NEW q \in Players, stage[c] \in InRoom, alive[q]
      PROVE  \E k \in Nat : HandsOver(c, q, Way(home[c], q), Way(home[c], q)', k)
  <2>0. home[c] \in WAS /\ home[q] \in WAS /\ Way(home[c], q) \in Seq(Batches)
    <3>1. home \in [Players -> WAS]
      BY SocketsRoutes DEF SocketsOK, SocketsTypeOK
    <3> QED
      BY <3>1, WayType
  <2>1. CASE home[c] # w \/ home[q] = w
    <3>1. Way(home[c], q)' = Way(home[c], q)
      <4>1. Queued(home[c])' = Queued(home[c])
        BY <1>1 DEF Queued
      <4>2. home[c] # w => chan'[home[c]] = chan[home[c]]
        BY <1>1, <2>0 DEF BatchesOK
      <4> QED
        BY <1>1, <2>1, <4>1, <4>2 DEF Way
    <3>2. c \notin Clients(w) \/ q \notin Who(b.ups)
      BY <1>4, <2>1 DEF Clients, Who
    <3>3. Silent(c, q)
      BY <1>6, <3>2
    <3>4. HandsOver(c, q, Way(home[c], q), Way(home[c], q), 0)
      BY <2>0, <3>3, HandsNothing
    <3> QED
      BY <3>1, <3>4
  <2>2. CASE home[c] = w /\ home[q] # w
    <3> DEFINE s == chan[w]
    <3>1. Way(home[c], q) = s /\ Way(home[c], q)' = Tail(s)
      BY <1>1, <2>2 DEF Way, BatchesOK
    <3>2. Rear(Tail(s), s, 1)
      BY <1>3 DEF Rear
    <3>3. c \in Clients(w)
      BY <2>2, <1>7 DEF Clients, InRoom
    <3>4. Taken(s, 1, q) <=> q \in Who(b.ups)
      BY <1>3 DEF Taken
    <3>5. ASSUME ~Taken(s, 1, q) PROVE Silent(c, q)
      BY <1>6, <3>4, <3>5
    <3>6. ASSUME Taken(s, 1, q)
          PROVE  \E i \in 1..1 : \E u \in s[i].ups :
                   /\ u.who = q /\ \A j \in 1..1 : j > i => q \notin Who(s[j].ups)
                   /\ Tells(c, q, s[1].seq, u.at)
      <4>1. PICK u \in b.ups : u.who = q
        BY <3>4, <3>6 DEF Who
      <4>2. u.alive /\ u.who \in Players /\ \A v \in b.ups : v.who = u.who => v = u
        BY <1>4, <1>5, <1>7, <4>1 DEF ToldAlive, Single
      <4>3. Tells(c, q, s[1].seq, u.at)
        BY <1>3, <1>6, <3>3, <4>1, <4>2
      <4>4. 1 \in 1..1 /\ \A j \in 1..1 : ~(j > 1)
        OBVIOUS
      <4> QED
        BY <1>3, <4>1, <4>3, <4>4
    <3> HIDE DEF s
    <3>7. HandsOver(c, q, s, Tail(s), 1)
      BY <3>2, <3>5, <3>6 DEF HandsOver
    <3> QED
      BY <3>1, <3>7
  <2> QED
    BY <2>1, <2>2
<1> QED
  BY <1>6, <1>7

-----------------------------------------------------------------------------
(* How the ways change                                                      *)

(* A sequence is its own rear.                                              *)
LEMMA RearSame ==
  ASSUME NEW S, NEW s \in Seq(S)
  PROVE  Rear(s, s, 0) /\ 0 \in Nat
<1>1. Len(s) \in Nat /\ 0 \in 0..Len(s) /\ Len(s) - 0 = Len(s) /\ \A i \in 1..Len(s) : i + 0 = i
  OBVIOUS
<1> QED
  BY <1>1 DEF Rear

(* The number comes back: the batch stays where it is on the way.           *)
LEMMA ReturnKeeps ==
  ASSUME BatchesOK, NEW w \in WAS, FlushReturns(w)
  PROVE  \A v \in WAS : Queued(v)' = Queued(v)
<1>1. /\ flown[w] # << >> /\ flown' = [flown EXCEPT ![w] = Tail(@)]
      /\ pend' = [pend EXCEPT ![w] = Append(@, Head(flown[w]))]
  BY DEF FlushReturns
<1> SUFFICES ASSUME NEW v \in WAS PROVE Queued(v)' = Queued(v)
  OBVIOUS
<1>2. CASE v = w
  <2>1. pend'[w] = Append(pend[w], Head(flown[w])) /\ flown'[w] = Tail(flown[w])
    BY <1>1 DEF BatchesOK
  <2>2. pend[w] \in Seq(Batches) /\ flown[w] \in Seq(Batches)
    BY WayType
  <2>3. pend'[w] \o flown'[w] = pend[w] \o flown[w]
    BY <1>1, <2>1, <2>2, QueuedShift
  <2> QED
    BY <1>2, <2>3 DEF Queued
<1>3. CASE v # w
  BY <1>1, <1>3 DEF BatchesOK, Queued
<1> QED
  BY <1>2, <1>3

(* The last client of a WAS takes what has come back.                       *)
LEMMA LeaveTakes ==
  ASSUME BatchesOK, NEW p \in Players, Leave(p), NEW v \in WAS
  PROVE  /\ \E k \in Nat : Rear(Queued(v)', Queued(v), k)
         /\ Queued(v)' = Queued(v) \/ (v = home[p] /\ LastOfWAS(p))
<1>1. flown' = flown /\ (pend' = pend \/ (LastOfWAS(p) /\ pend' = [pend EXCEPT ![home[p]] = << >>]))
  BY DEF Leave, PositionLeaves
<1>2. pend[v] \in Seq(Batches) /\ flown[v] \in Seq(Batches) /\ Queued(v) \in Seq(Batches)
  BY WayType
<1>3. CASE Queued(v)' = Queued(v)
  <2>1. Rear(Queued(v), Queued(v), 0) /\ 0 \in Nat
    BY <1>2, RearSame
  <2>2. Rear(Queued(v)', Queued(v), 0)
    BY <1>3, <2>1
  <2> QED
    BY <1>3, <2>1, <2>2
<1>4. CASE pend'[v] = << >> /\ v = home[p] /\ LastOfWAS(p)
  <2>1. Queued(v)' = flown[v]
    BY <1>1, <1>2, <1>4, QueuedRear DEF Queued
  <2>2. Rear(flown[v], Queued(v), Len(pend[v])) /\ Len(pend[v]) \in Nat
    BY <1>2, QueuedRear, LenProperties DEF Queued
  <2> QED
    BY <1>4, <2>1, <2>2
<1>5. Queued(v)' = Queued(v) \/ (pend'[v] = << >> /\ v = home[p] /\ LastOfWAS(p))
  BY <1>1 DEF Queued, BatchesOK
<1> QED
  BY <1>3, <1>4, <1>5

(* Unless a batch is written, what is on its way only goes on.              *)
LEMMA WaysRun ==
  ASSUME SocketsOK, BatchesOK, Next, \A w \in WAS : ~Flush(w), NEW v \in WAS
  PROVE  /\ \E k \in Nat : Rear(Queued(v)', Queued(v), k)
         /\ \E k \in Nat : Rear(chan'[v], chan[v], k)
<1>1. pend[v] \in Seq(Batches) /\ flown[v] \in Seq(Batches) /\ Queued(v) \in Seq(Batches) /\ chan[v] \in Seq(Batches)
  BY WayType
<1>2. \E k \in Nat : Rear(chan'[v], chan[v], k)
  <2>1. CASE chan'[v] = chan[v]
    BY <1>1, <2>1, RearSame
  <2>2. ASSUME NEW w \in WAS, Remote(w), chan'[v] # chan[v] PROVE Rear(chan'[v], chan[v], 1)
    <3>1. v = w /\ chan[v] # << >> /\ chan'[v] = Tail(chan[v])
      BY <2>2 DEF Remote, BatchesOK
    <3>2. Len(chan[v]) \in Nat /\ Len(chan[v]) # 0 /\ Len(Tail(chan[v])) = Len(chan[v]) - 1
          /\ \A i \in 1..Len(Tail(chan[v])) : Tail(chan[v])[i] = chan[v][i + 1]
      BY <1>1, <3>1, EmptySeq, HeadTailProperties
    <3> QED
      BY <3>1, <3>2 DEF Rear
  <2>3. UNCHANGED chan \/ \E w \in WAS : Remote(w)
    BY Framed DEF Frames, PositionFrames
  <2> QED
    BY <2>1, <2>2, <2>3
<1>3. \E k \in Nat : Rear(Queued(v)', Queued(v), k)
  <2>1. CASE Queued(v)' = Queued(v)
    BY <1>1, <2>1, RearSame
  <2>2. ASSUME NEW p \in Players, Leave(p) PROVE \E k \in Nat : Rear(Queued(v)', Queued(v), k)
    BY <2>2, LeaveTakes
  <2>3. ASSUME NEW w \in WAS, FlushReturns(w) PROVE Queued(v)' = Queued(v)
    BY <2>3, ReturnKeeps
  <2>4. ASSUME NEW w \in WAS, Broadcast(w), Queued(v)' # Queued(v) PROVE \E k \in Nat : Rear(Queued(v)', Queued(v), k)
    <3>1. pend' = [pend EXCEPT ![w] = << >>] /\ flown' = flown
      BY <2>4 DEF Broadcast
    <3>2. v = w /\ pend'[v] = << >>
      BY <2>4, <3>1 DEF Queued, BatchesOK
    <3>3. Queued(v)' = flown[v]
      BY <1>1, <3>1, <3>2, QueuedRear DEF Queued
    <3>4. Rear(flown[v], Queued(v), Len(pend[v])) /\ Len(pend[v]) \in Nat
      BY <1>1, QueuedRear, LenProperties DEF Queued
    <3> QED
      BY <3>3, <3>4
  <2>5. \/ UNCHANGED <<pend, flown>>
        \/ \E p \in Players : Leave(p)
        \/ \E w \in WAS : FlushReturns(w) \/ Broadcast(w)
    BY Framed DEF Frames, PositionFrames
  <2>6. UNCHANGED <<pend, flown>> => Queued(v)' = Queued(v)
    BY DEF Queued
  <2> QED
    BY <2>1, <2>2, <2>3, <2>4, <2>5, <2>6
<1> QED
  BY <1>2, <1>3

(* The way to a browser that stays is changed by a broadcast or a new batch.*)
LEMMA WaySteady ==
  ASSUME SocketsOK, BatchesOK, Next, NEW c \in Players, stage'[c] \in InRoom, NEW q \in Players,
         \A w \in WAS : ~Flush(w) /\ ~Broadcast(w) /\ ~Remote(w)
  PROVE  Way(home[c], q)' = Way(home[c], q)
<1>1. UNCHANGED <<home, chan>> /\ home \in [Players -> WAS]
  BY Framed, SocketsRoutes DEF Frames, PositionFrames, SocketsOK, SocketsTypeOK
<1>2. PICK v \in WAS : v = home[c] /\ v = home'[c]
  BY <1>1
<1>3. Queued(v)' = Queued(v)
  <2>1. ASSUME NEW p \in Players, Leave(p) PROVE Queued(v)' = Queued(v)
    <3>1. stage[c] \in InRoom /\ c # p
      BY <2>1 DEF Leave, SocketLeaves, To, SocketsOK, SocketsTypeOK, InRoom
    <3>2. v = home[p] => ~LastOfWAS(p)
      BY <1>2, <3>1, ClientsInRoom DEF LastOfWAS
    <3> QED
      BY <2>1, <3>2, LeaveTakes
  <2>2. ASSUME NEW w \in WAS, FlushReturns(w) PROVE Queued(v)' = Queued(v)
    BY <2>2, ReturnKeeps
  <2>3. UNCHANGED <<pend, flown>> => Queued(v)' = Queued(v)
    BY DEF Queued
  <2>4. \/ UNCHANGED <<pend, flown>>
        \/ \E p \in Players : Leave(p)
        \/ \E w \in WAS : FlushReturns(w)
    BY Framed DEF Frames, PositionFrames
  <2> QED
    BY <2>1, <2>2, <2>3, <2>4
<1> QED
  BY <1>1, <1>2, <1>3 DEF Way, Queued

(* A batch is written: every way that it is not kept from has it last.      *)
LEMMA FlushWrites ==
  ASSUME SocketsOK, QueuesOK, BatchesOK, BudgetOK, Next, NEW w \in WAS, Flush(w)
  PROVE  LET b == Batch(seq + 1, inq[w]) IN
         /\ b \in Batches /\ b.seq = seq + 1 /\ seq' = seq + 1 /\ b.ups = inq[w] /\ Single(b.ups)
         /\ plog' = Logged(b) /\ UNCHANGED <<stage, alive, home, tab, snap, reqs, blurred>>
         /\ \A p \in Players : p \notin Who(b.ups) => pos'[p] = pos[p]
         /\ \A u \in b.ups : u.who \in Players /\ pos'[u.who] = u.at /\ home[u.who] = w
         /\ \A v \in WAS : /\ Queued(v)' = IF v = w THEN Append(Queued(v), b) ELSE Queued(v)
                           /\ chan'[v] = IF v = w THEN chan[v] ELSE Append(chan[v], b)
<1> DEFINE b == Batch(seq + 1, inq[w])
<1>1. /\ inq[w] # {} /\ seq' = seq + 1 /\ plog' = Logged(b) /\ pos' = Stored(b)
      /\ chan' = [v \in WAS |-> IF v = w THEN chan[v] ELSE Append(chan[v], b)]
      /\ flown' = [flown EXCEPT ![w] = Append(@, b)] /\ pend' = pend
      /\ UNCHANGED <<stage, alive, home, tab, snap, reqs, blurred>>
      /\ b.seq = seq + 1 /\ b.ups = inq[w]
  BY DEF Flush, Batch, sockets
<1>2. b \in Batches
  <2>1. seq' \in Nat /\ seq' <= MaxInputs + 1 /\ MaxInputs \in Nat
    BY BudgetStep, SocketsBound
  <2> QED
    BY <1>1, <2>1 DEF Batch, Batches, Numbers, QueuesOK, BatchesOK
<1>3. Single(b.ups) /\ \A u \in b.ups : u.who \in Players /\ home[u.who] = w
  BY <1>1 DEF QueuesOK, Single, Updates
<1> HIDE DEF b
<1>4. \A p \in Players : p \notin Who(b.ups) => pos'[p] = pos[p]
  BY <1>1 DEF Stored
<1>5. ASSUME NEW u \in b.ups PROVE pos'[u.who] = u.at
  <2>1. u.who \in Players /\ u.who \in Who(b.ups) /\ \A v \in b.ups : v.who = u.who => v = u
    BY <1>3 DEF Who, Single
  <2> DEFINE Ok(v) == v.who = u.who
  <2>2. pos'[u.who] = (CHOOSE v \in b.ups : Ok(v)).at
    BY <1>1, <2>1 DEF Stored
  <2>3. Ok(u) /\ \A v \in b.ups : Ok(v) => v = u
    BY <2>1
  <2> HIDE DEF Ok
  <2>4. (CHOOSE v \in b.ups : Ok(v)) = u
    BY <2>3
  <2> QED
    BY <2>2, <2>4
<1>6. ASSUME NEW v \in WAS
      PROVE  /\ Queued(v)' = IF v = w THEN Append(Queued(v), b) ELSE Queued(v)
             /\ chan'[v] = IF v = w THEN chan[v] ELSE Append(chan[v], b)
  <2>1. flown'[v] = IF v = w THEN Append(flown[v], b) ELSE flown[v]
    BY <1>1 DEF BatchesOK
  <2>2. pend[v] \o Append(flown[v], b) = Append(pend[v] \o flown[v], b)
    <3>1. pend[v] \in Seq(Batches) /\ flown[v] \in Seq(Batches)
      BY WayType
    <3> DEFINE s == pend[v]
               t == flown[v]
    <3>2. s \in Seq(Batches) /\ t \in Seq(Batches)
      BY <3>1
    <3> HIDE DEF s, t
    <3>3. s \o Append(t, b) = Append(s \o t, b)
      BY <1>2, <3>2, QueuedAppend
    <3> QED
      BY <3>3 DEF s, t
  <2>3. Queued(v)' = IF v = w THEN Append(Queued(v), b) ELSE Queued(v)
    <3>1. pend'[v] = pend[v]
      BY <1>1
    <3> QED
      BY <2>1, <2>2, <3>1 DEF Queued
  <2> QED
    BY <1>1, <2>3
<1> QED
  BY <1>1, <1>2, <1>3, <1>4, <1>5, <1>6 DEF b

-----------------------------------------------------------------------------
(* Who lives, and what is said of them                                      *)

(* At the start everybody lives, and nobody has moved.                      *)
LEMMA LivesStart == Init => LivesOK
<1>1. ASSUME SocketsInit \/ SocketsMidway
      PROVE  (\A p \in Players : alive[p]) /\ (\A w \in WAS : dead[w] = {})
  BY <1>1 DEF SocketsInit, SocketsMidway
<1>2. ASSUME PositionInit \/ PositionMidway
      PROVE  (\A w \in WAS : inq[w] = {}) /\ (\A p \in Players : pos[p] = 0)
  BY <1>2 DEF PositionInit, PositionMidway
<1>3. Init => (SocketsInit \/ SocketsMidway) /\ (PositionInit \/ PositionMidway)
  BY DEF Init, Start
<1> QED
  BY <1>1, <1>2, <1>3 DEF LivesOK

(* Who is born and who loses.                                               *)
LEMMA LivesFramed ==
  ASSUME Next
  PROVE  /\ UNCHANGED alive \/ \E p \in Players : Join(p) \/ Loses(p)
         /\ UNCHANGED dead \/ \E p \in Players : Leave(p) \/ Loses(p)
<1>1. ASSUME NEW p \in Players, Announce(p) \/ SnapRead(p) \/ SnapEmit(p) \/ Move(p) \/ Say(p)
      PROVE  UNCHANGED <<alive, dead>>
  BY <1>1 DEF Announce, SnapRead, SnapEmit, Move, Say, SocketAnnounced, SocketReads, SocketSettles
<1>2. ASSUME NEW p \in Players PROVE (Join(p) => UNCHANGED dead) /\ (Leave(p) => UNCHANGED alive)
  BY DEF Join, Leave, SocketJoins, SocketLeaves
<1>3. ASSUME NEW w \in WAS, Flush(w) \/ FlushReturns(w) \/ Broadcast(w) \/ Remote(w) \/ WriteChat(w) \/ ChatRead(w) \/ ChatEmit(w)
      PROVE  UNCHANGED <<alive, dead>>
  BY <1>3 DEF Flush, FlushReturns, Broadcast, Remote, WriteChat, ChatRead, ChatEmit, sockets
<1>4. ASSUME NEW r \in reqs, ReadSeq(r) \/ ReadLog(r) \/ ReadSnapshot(r) \/ Answer(r) PROVE UNCHANGED <<alive, dead>>
  BY <1>4 DEF ReadSeq, ReadLog, ReadSnapshot, Answer, sockets
<1>5. ASSUME NEW r \in creqs, ReadChatSeq(r) \/ ServeChat(r) PROVE UNCHANGED <<alive, dead>>
  BY <1>5 DEF ReadChatSeq, ServeChat, sockets
<1> QED
  BY <1>1, <1>2, <1>3, <1>4, <1>5, Steps

(* Nobody comes back to life, and a join leaves a player where it was.      *)
LEMMA LivesStay ==
  ASSUME SocketsOK, BatchesOK, LivesOK, Next
  PROVE  /\ \A p \in Players : alive'[p] => alive[p]
         /\ UNCHANGED pos \/ \E w \in WAS : Flush(w)
<1>0. alive \in [Players -> BOOLEAN] /\ pos \in [Players -> 0..MaxInputs]
  BY DEF SocketsOK, SocketsTypeOK, BatchesOK
<1>1. ASSUME NEW p \in Players, Join(p) PROVE alive' = alive /\ pos' = pos
  <2>1. stage[p] = "out" /\ alive' = [alive EXCEPT ![p] = TRUE] /\ pos' = [pos EXCEPT ![p] = 0]
    BY <1>1 DEF Join, SocketJoins, PositionJoins
  <2>2. alive[p] /\ pos[p] = 0
    BY <2>1 DEF LivesOK
  <2> QED
    BY <1>0, <2>1, <2>2
<1>2. ASSUME NEW p \in Players, Loses(p) PROVE \A q \in Players : alive'[q] => alive[q]
  BY <1>0, <1>2 DEF Loses, Lose
<1>3. UNCHANGED alive \/ \E p \in Players : Join(p) \/ Loses(p)
  BY LivesFramed
<1>4. UNCHANGED pos \/ (\E p \in Players : Join(p)) \/ \E w \in WAS : Flush(w)
  BY Framed DEF Frames, PositionFrames
<1> QED
  BY <1>1, <1>2, <1>3, <1>4

(* Who comes into a dead set has lost.                                      *)
LEMMA DeadGrows ==
  ASSUME SocketsOK, Next, NEW w \in WAS
  PROVE  \A p \in dead'[w] : p \in dead[w] \/ ~alive'[p]
<1>0. dead \in [WAS -> SUBSET Players] /\ alive \in [Players -> BOOLEAN]
  BY DEF SocketsOK, SocketsTypeOK
<1>1. ASSUME NEW p \in Players, Loses(p) PROVE \A q \in dead'[w] : q \in dead[w] \/ ~alive'[q]
  BY <1>0, <1>1 DEF Loses, Lose
<1>2. ASSUME NEW p \in Players, Leave(p) PROVE dead'[w] \subseteq dead[w]
  BY <1>0, <1>2 DEF Leave, SocketLeaves
<1> QED
  BY <1>1, <1>2, LivesFramed

(* Every step keeps what is known of the living.                            *)
LEMMA LivesStep ==
  ASSUME SocketsOK, QueuesOK, BatchesOK, BudgetOK, LivesOK, Next
  PROVE  LivesOK'
<1>0. /\ home \in [Players -> WAS] /\ stage \in [Players -> Stages] /\ alive \in [Players -> BOOLEAN]
      /\ alive' \in [Players -> BOOLEAN]
  BY SocketsRoutes, SocketsStep DEF SocketsOK, SocketsTypeOK
<1>1. /\ \A p \in Players : alive'[p] => alive[p]
      /\ UNCHANGED pos \/ \E w \in WAS : Flush(w)
  BY LivesStay
<1>2. ASSUME NEW p \in Players, stage'[p] \notin {"in", "gone"} PROVE stage[p] \notin {"in", "gone"}
  <2>1. ASSUME NEW q \in Players, Join(q) \/ Announce(q) \/ SnapRead(q) \/ SnapEmit(q) \/ Leave(q)
        PROVE  stage[p] \notin {"in", "gone"}
    BY <1>0, <1>2, <2>1 DEF Join, Announce, SnapRead, SnapEmit, Leave, SocketJoins, SocketAnnounced, SocketReads,
                            SocketSettles, SocketLeaves, To
  <2> QED
    BY <1>2, <2>1, Framed DEF Frames
<1>3. ASSUME NEW p \in Players, stage'[p] \notin {"in", "gone"} PROVE alive'[p]
  <2>1. alive[p] /\ stage[p] \notin {"in", "gone"}
    BY <1>2, <1>3 DEF LivesOK
  <2>2. ASSUME NEW q \in Players, Loses(q) PROVE p # q
    BY <2>1, <2>2 DEF Loses, Lose
  <2>3. ASSUME NEW q \in Players, Loses(q) PROVE alive'[p]
    BY <1>0, <2>1, <2>2, <2>3 DEF Loses, Lose
  <2>4. ASSUME NEW q \in Players, Join(q) PROVE alive'[p]
    BY <1>0, <2>1, <2>4 DEF Join, SocketJoins
  <2> QED
    BY <2>1, <2>3, <2>4, LivesFramed
<1>4. ASSUME NEW p \in Players, stage'[p] \notin {"in", "gone"} PROVE pos'[p] = 0
  <2>1. pos[p] = 0 /\ stage[p] \notin {"in", "gone"}
    BY <1>2, <1>4 DEF LivesOK
  <2>2. ASSUME NEW w \in WAS, Flush(w) PROVE pos'[p] = pos[p]
    <3> DEFINE b == Batch(seq + 1, inq[w])
    <3>1. b.ups = inq[w] /\ (p \notin Who(b.ups) => pos'[p] = pos[p])
      BY <2>2, FlushWrites
    <3>2. p \notin Who(inq[w])
      BY <2>1 DEF LivesOK, Who
    <3> HIDE DEF b
    <3> QED
      BY <3>1, <3>2
  <2> QED
    BY <1>1, <2>1, <2>2
<1>5. ASSUME NEW p \in Players, alive'[p], NEW w \in WAS PROVE p \notin dead'[w]
  BY <1>1, <1>5, DeadGrows DEF LivesOK
<1>6. ASSUME NEW w \in WAS, NEW u \in inq'[w] PROVE ToldAlive(u)' /\ stage'[u.who] \in {"in", "gone"}
  <2>1. ASSUME u \in inq[w] PROVE ToldAlive(u)' /\ stage'[u.who] \in {"in", "gone"}
    <3>1. ToldAlive(u) /\ stage[u.who] \in {"in", "gone"} /\ u.who \in Players
      BY <2>1 DEF LivesOK, QueuesOK, Updates
    <3> QED
      BY <1>1, <1>2, <3>1 DEF ToldAlive
  <2>2. ASSUME NEW p \in Players, Move(p) PROVE ToldAlive(u)' /\ stage'[u.who] \in {"in", "gone"}
    <3>1. /\ stage[p] = "in" /\ UNCHANGED <<stage, alive, dead>>
          /\ inq' = [inq EXCEPT ![home[p]] = Enqueued(@, Update(p, used + 1, PlayerLives(p)))]
      BY <2>2 DEF Move
    <3>2. CASE u = Update(p, used + 1, PlayerLives(p))
      <4>1. u.who = p /\ u.alive = PlayerLives(p)
        BY <3>2 DEF Update
      <4>2. alive[p] => PlayerLives(p)
        BY <1>0 DEF PlayerLives, LivesOK
      <4> QED
        BY <3>1, <4>1, <4>2 DEF ToldAlive
    <3>3. u \in inq[w] \/ u = Update(p, used + 1, PlayerLives(p))
      BY <3>1, <1>0, <1>6 DEF Enqueued, QueuesOK
    <3> QED
      BY <2>1, <3>2, <3>3
  <2>3. ASSUME NEW p \in Players, Leave(p) PROVE inq'[w] \subseteq inq[w]
    BY <2>3 DEF Leave, PositionLeaves, QueuesOK
  <2>4. ASSUME NEW v \in WAS, Flush(v) PROVE inq'[w] \subseteq inq[w]
    BY <2>4 DEF Flush, QueuesOK
  <2> QED
    BY <1>6, <2>1, <2>2, <2>3, <2>4, Framed DEF Frames, PositionFrames
<1> QED
  BY <1>3, <1>4, <1>5, <1>6 DEF LivesOK

-----------------------------------------------------------------------------
(* What the batches say                                                     *)

(* At the start nothing is on its way, and the log has the first place.     *)
LEMMA WaysStart == Init => OriginOK /\ LogOK /\ NewestOK
<1> SUFFICES ASSUME Init PROVE OriginOK /\ LogOK /\ NewestOK
  OBVIOUS
<1>1. PositionInit \/ PositionMidway
  BY DEF Init, Start
<1>2. \A w \in WAS : flown[w] = << >> /\ pend[w] = << >> /\ chan[w] = << >>
  BY <1>1 DEF PositionInit, PositionMidway
<1>3. \A w \in WAS : Len(Queued(w)) = 0 /\ Len(chan[w]) = 0
  <2>1. << >> \o << >> = << >> /\ Len(<< >>) = 0
    BY ConcatEmptySeq
  <2> QED
    BY <1>2, <2>1 DEF Queued
<1>4. OriginOK /\ \A w \in WAS : Newest(Queued(w), pos) /\ Newest(chan[w], pos)
  BY <1>3 DEF OriginOK, Newest
<1>5. CASE plog = << >>
  BY <1>4, <1>5 DEF LogOK, NewestOK, Newest
<1>6. CASE plog # << >>
  <2> DEFINE u == Update(First, 0, TRUE)
             b == Batch(1, {u})
  <2>1. plog = <<b>> /\ seq = 1 /\ pos = [p \in Players |-> 0]
    BY <1>1, <1>6 DEF PositionInit, PositionMidway
  <2>2. b.seq = 1 /\ b.ups = {u} /\ u.who = First /\ u.at = 0
    BY DEF Batch, Update
  <2>3. pos[First] = 0
    BY <2>1, SocketsBound
  <2> HIDE DEF b, u
  <2>4. Len(plog) = 1 /\ plog[1] = b /\ \A i \in 1..Len(plog) : i = 1
    BY <2>1
  <2>5. LogOK
    BY <2>1, <2>2, <2>4 DEF LogOK, Single
  <2>6. Newest(plog, pos)
    BY <2>2, <2>3, <2>4 DEF Newest
  <2> QED
    BY <1>4, <2>5, <2>6 DEF NewestOK
<1> QED
  BY <1>5, <1>6

(* Every step keeps the batches on the ways of their players.               *)
LEMMA OriginStep ==
  ASSUME SocketsOK, QueuesOK, BatchesOK, BudgetOK, LivesOK, OriginOK, Next
  PROVE  OriginOK'
<1>0. (\A p \in Players : alive'[p] => alive[p]) /\ UNCHANGED home
  BY LivesStay, Framed DEF Frames
<1>1. ASSUME NEW u, u.who \in Players, ToldAlive(u) PROVE ToldAlive(u)'
  BY <1>0, <1>1 DEF ToldAlive
<1> SUFFICES ASSUME NEW v \in WAS
             PROVE  /\ \A i \in 1..Len(Queued(v)') :
                         /\ Single(Queued(v)'[i].ups)
                         /\ \A u \in Queued(v)'[i].ups : home[u.who] = v /\ ToldAlive(u)'
                    /\ \A i \in 1..Len(chan'[v]) :
                         /\ Single(chan'[v][i].ups)
                         /\ \A u \in chan'[v][i].ups : home[u.who] # v /\ ToldAlive(u)'
  BY <1>0 DEF OriginOK
<1>2. Queued(v) \in Seq(Batches) /\ chan[v] \in Seq(Batches)
  BY WayType
<1>3. \A b \in Batches : \A u \in b.ups : u.who \in Players
  BY DEF Batches, Updates
<1>4. ASSUME NEW i \in 1..Len(Queued(v))
      PROVE  Single(Queued(v)[i].ups) /\ \A u \in Queued(v)[i].ups : home[u.who] = v /\ ToldAlive(u)'
  <2>1. Queued(v)[i] \in Batches
    BY <1>2
  <2> QED
    BY <1>1, <1>3, <2>1 DEF OriginOK
<1>5. ASSUME NEW i \in 1..Len(chan[v])
      PROVE  Single(chan[v][i].ups) /\ \A u \in chan[v][i].ups : home[u.who] # v /\ ToldAlive(u)'
  <2>1. chan[v][i] \in Batches
    BY <1>2
  <2> QED
    BY <1>1, <1>3, <2>1 DEF OriginOK
<1>6. ASSUME NEW w \in WAS, Flush(w)
      PROVE  /\ \A i \in 1..Len(Queued(v)') :
                  /\ Single(Queued(v)'[i].ups)
                  /\ \A u \in Queued(v)'[i].ups : home[u.who] = v /\ ToldAlive(u)'
             /\ \A i \in 1..Len(chan'[v]) :
                  /\ Single(chan'[v][i].ups)
                  /\ \A u \in chan'[v][i].ups : home[u.who] # v /\ ToldAlive(u)'
  <2> DEFINE b == Batch(seq + 1, inq[w])
  <2>1. /\ b \in Batches /\ b.ups = inq[w] /\ Single(b.ups)
        /\ \A u \in b.ups : u.who \in Players /\ home[u.who] = w
        /\ Queued(v)' = IF v = w THEN Append(Queued(v), b) ELSE Queued(v)
        /\ chan'[v] = IF v = w THEN chan[v] ELSE Append(chan[v], b)
    BY <1>6, FlushWrites
  <2>2. \A u \in b.ups : ToldAlive(u)'
    BY <1>1, <2>1 DEF LivesOK
  <2> HIDE DEF b
  <2>3. CASE v = w
    <3>1. /\ Queued(v)' = Append(Queued(v), b) /\ chan'[v] = chan[v] /\ Len(Queued(v)) \in Nat
          /\ Len(Append(Queued(v), b)) = Len(Queued(v)) + 1
          /\ Append(Queued(v), b)[Len(Queued(v)) + 1] = b
          /\ \A i \in 1..Len(Queued(v)) : Append(Queued(v), b)[i] = Queued(v)[i]
      BY <1>2, <2>1, <2>3, AppendProperties
    <3>2. ASSUME NEW i \in 1..Len(Queued(v)')
          PROVE  i = Len(Queued(v)) + 1 \/ i \in 1..Len(Queued(v))
      BY <3>1
    <3> QED
      BY <1>4, <1>5, <2>1, <2>2, <2>3, <3>1, <3>2
  <2>4. CASE v # w
    <3>1. /\ Queued(v)' = Queued(v) /\ chan'[v] = Append(chan[v], b) /\ Len(chan[v]) \in Nat
          /\ Len(Append(chan[v], b)) = Len(chan[v]) + 1
          /\ Append(chan[v], b)[Len(chan[v]) + 1] = b
          /\ \A i \in 1..Len(chan[v]) : Append(chan[v], b)[i] = chan[v][i]
      BY <1>2, <2>1, <2>4, AppendProperties
    <3>2. ASSUME NEW i \in 1..Len(chan'[v])
          PROVE  i = Len(chan[v]) + 1 \/ i \in 1..Len(chan[v])
      BY <3>1
    <3> QED
      BY <1>4, <1>5, <2>1, <2>2, <2>4, <3>1, <3>2
  <2> QED
    BY <2>3, <2>4
<1>7. ASSUME \A w \in WAS : ~Flush(w)
      PROVE  /\ \A i \in 1..Len(Queued(v)') :
                  /\ Single(Queued(v)'[i].ups)
                  /\ \A u \in Queued(v)'[i].ups : home[u.who] = v /\ ToldAlive(u)'
             /\ \A i \in 1..Len(chan'[v]) :
                  /\ Single(chan'[v][i].ups)
                  /\ \A u \in chan'[v][i].ups : home[u.who] # v /\ ToldAlive(u)'
  <2>1. PICK k \in Nat : Rear(Queued(v)', Queued(v), k)
    BY <1>7, WaysRun
  <2>2. PICK l \in Nat : Rear(chan'[v], chan[v], l)
    BY <1>7, WaysRun
  <2>3. ASSUME NEW i \in 1..Len(Queued(v)')
        PROVE  i + k \in 1..Len(Queued(v)) /\ Queued(v)'[i] = Queued(v)[i + k]
    <3>1. Len(Queued(v)) \in Nat /\ Len(Queued(v)') = Len(Queued(v)) - k /\ Queued(v)'[i] = Queued(v)[i + k]
      BY <1>2, <2>1, LenProperties DEF Rear
    <3> QED
      BY <3>1
  <2>4. ASSUME NEW i \in 1..Len(chan'[v])
        PROVE  i + l \in 1..Len(chan[v]) /\ chan'[v][i] = chan[v][i + l]
    <3>1. Len(chan[v]) \in Nat /\ Len(chan'[v]) = Len(chan[v]) - l /\ chan'[v][i] = chan[v][i + l]
      BY <1>2, <2>2, LenProperties DEF Rear
    <3> QED
      BY <3>1
  <2> QED
    BY <1>4, <1>5, <2>3, <2>4
<1> QED
  BY <1>6, <1>7

(* The log is cut at the front.                                             *)
LEMMA LoggedRear ==
  ASSUME BatchesOK, NEW b \in Batches
  PROVE  \E k \in Nat : Rear(Logged(b), Append(plog, b), k)
<1> DEFINE l == Append(plog, b)
<1>1. l \in Seq(Batches) /\ Len(l) \in Nat /\ LogSize \in Nat /\ LogSize # 0
  BY PositionLog DEF BatchesOK
<1> HIDE DEF l
<1>2. CASE Len(l) > LogSize
  <2> DEFINE k == Len(l) - LogSize
             t == SubSeq(l, k + 1, Len(l))
  <2>1. k \in Nat /\ k + 1 \in Int /\ Len(l) \in Int /\ k \in 0..Len(l) /\ k + 1 \in 1..Len(l)
    BY <1>1, <1>2
  <2>2. Len(t) = Len(l) - k /\ \A i \in 1..Len(t) : t[i] = l[i + k]
    <3> HIDE DEF k
    <3>1. Len(t) = IF k + 1 <= Len(l) THEN Len(l) - (k + 1) + 1 ELSE 0
      BY <1>1, <2>1, SubSeqProperties
    <3>2. Len(t) = Len(l) - k
      BY <1>1, <2>1, <3>1
    <3>3. \A i \in 1..(Len(l) - (k + 1) + 1) : t[i] = l[(k + 1) + i - 1]
      BY <1>1, <2>1, SubSeqProperties
    <3>4. ASSUME NEW i \in 1..Len(t) PROVE t[i] = l[i + k]
      <4>1. i \in 1..(Len(l) - (k + 1) + 1) /\ (k + 1) + i - 1 = i + k
        BY <1>1, <2>1, <3>2
      <4> QED
        BY <3>3, <4>1
    <3> QED
      BY <3>2, <3>4
  <2>3. Logged(b) = t
    BY <1>1, <1>2 DEF Logged, l
  <2> HIDE DEF t, k
  <2> QED
    BY <2>1, <2>2, <2>3 DEF Rear, l
<1>3. CASE ~(Len(l) > LogSize)
  <2>1. Logged(b) = l
    BY <1>3 DEF Logged, l
  <2>2. Rear(l, l, 0) /\ 0 \in Nat
    BY <1>1, RearSame
  <2> QED
    BY <2>1, <2>2 DEF l
<1> QED
  BY <1>2, <1>3

(* Every step keeps the log in order.                                       *)
LEMMA LogStep ==
  ASSUME SocketsOK, QueuesOK, BatchesOK, BudgetOK, LogOK, Next
  PROVE  LogOK'
<1>0. seq \in Nat /\ plog \in Seq(Batches) /\ Len(plog) \in Nat /\ \A i \in 1..Len(plog) : plog[i].seq \in Nat
  <2>1. \A b \in Batches : b.seq \in Nat
    BY DEF Batches, Numbers
  <2> QED
    BY <2>1 DEF BatchesOK
<1>1. ASSUME NEW w \in WAS, Flush(w) PROVE LogOK'
  <2> DEFINE b == Batch(seq + 1, inq[w])
             l == Append(plog, b)
  <2>1. b \in Batches /\ b.seq = seq + 1 /\ seq' = seq + 1 /\ Single(b.ups) /\ plog' = Logged(b)
    BY <1>1, FlushWrites
  <2> HIDE DEF b
  <2>2. /\ Len(l) = Len(plog) + 1 /\ l[Len(plog) + 1] = b
        /\ \A i \in 1..Len(plog) : l[i] = plog[i]
    BY <1>0, <2>1, AppendProperties
  <2>3. PICK k \in Nat : Rear(plog', l, k)
    BY <2>1, LoggedRear
  <2> HIDE DEF l
  <2>4. ASSUME NEW i \in 1..Len(plog')
        PROVE  /\ i + k \in 1..Len(l) /\ plog'[i] = l[i + k]
               /\ \/ i + k \in 1..Len(plog) /\ plog'[i] = plog[i + k]
                  \/ i + k = Len(plog) + 1 /\ plog'[i] = b
    <3>1. Len(plog') = Len(l) - k /\ plog'[i] = l[i + k]
      BY <2>3 DEF Rear
    <3>2. i + k \in 1..Len(l) /\ (i + k \in 1..Len(plog) \/ i + k = Len(plog) + 1)
      BY <1>0, <2>2, <3>1
    <3> QED
      BY <2>2, <3>1, <3>2
  <2>5. ASSUME NEW i \in 1..Len(plog') PROVE Single(plog'[i].ups) /\ plog'[i].seq <= seq'
    BY <1>0, <2>1, <2>4 DEF LogOK
  <2>6. ASSUME NEW i \in 1..Len(plog'), NEW j \in 1..Len(plog'), i < j PROVE plog'[i].seq < plog'[j].seq
    <3>1. CASE j + k \in 1..Len(plog) /\ plog'[j] = plog[j + k]
      <4>1. i + k \in 1..Len(plog) /\ i + k < j + k
        BY <1>0, <2>4, <2>6, <3>1
      <4>2. plog'[i] = plog[i + k]
        BY <1>0, <2>4, <4>1
      <4> QED
        BY <3>1, <4>1, <4>2 DEF LogOK
    <3>2. CASE j + k = Len(plog) + 1 /\ plog'[j] = b
      <4>1. i + k \in 1..Len(plog)
        BY <1>0, <2>4, <2>6, <3>2
      <4>2. plog'[i] = plog[i + k]
        BY <1>0, <2>4, <4>1
      <4> QED
        BY <1>0, <2>1, <3>2, <4>1, <4>2 DEF LogOK
    <3> QED
      BY <2>4, <3>1, <3>2
  <2> QED
    BY <2>5, <2>6 DEF LogOK
<1>2. ASSUME NEW p \in Players, Leave(p) PROVE LogOK'
  <2>1. UNCHANGED <<seq, plog>> \/ (seq' = 0 /\ plog' = << >>)
    BY <1>2 DEF Leave, PositionLeaves
  <2> QED
    BY <2>1 DEF LogOK
<1>3. UNCHANGED <<seq, plog>> => LogOK'
  BY DEF LogOK
<1>4. UNCHANGED <<seq, plog>> \/ (\E p \in Players : Leave(p)) \/ \E w \in WAS : Flush(w)
  BY Framed DEF Frames, PositionFrames
<1> QED
  BY <1>1, <1>2, <1>3, <1>4

(* Every step keeps the last moves what is stored.                          *)
LEMMA NewestStep ==
  ASSUME SocketsOK, QueuesOK, BatchesOK, BudgetOK, LivesOK, OriginOK, NewestOK, Next
  PROVE  NewestOK'
<1>0. plog \in Seq(Batches) /\ plog' \in Seq(Batches)
  BY BatchesStep DEF BatchesOK
<1>1. \A v \in WAS : Queued(v) \in Seq(Batches) /\ chan[v] \in Seq(Batches)
  BY WayType
<1>2. \A v \in WAS : Queued(v)' \in Seq(Batches) /\ chan'[v] \in Seq(Batches)
  <2>1. BatchesOK'
    BY BatchesStep
  <2>2. \A v \in WAS : pend'[v] \in Seq(Batches) /\ flown'[v] \in Seq(Batches) /\ chan'[v] \in Seq(Batches)
    BY <2>1 DEF BatchesOK
  <2>3. \A v \in WAS : Queued(v)' \in Seq(Batches)
    BY <2>2, ConcatProperties DEF Queued
  <2> QED
    BY <2>2, <2>3
<1>3. \A b \in Batches : \A u \in b.ups : u.who \in Players
  BY DEF Batches, Updates
<1>4. ASSUME NEW w \in WAS, Flush(w) PROVE NewestOK'
  <2> DEFINE b == Batch(seq + 1, inq[w])
  <2>1. /\ b \in Batches /\ plog' = Logged(b)
        /\ \A p \in Players : p \notin Who(b.ups) => pos'[p] = pos[p]
        /\ \A u \in b.ups : u.who \in Players /\ pos'[u.who] = u.at /\ home[u.who] = w
        /\ \A v \in WAS : /\ Queued(v)' = IF v = w THEN Append(Queued(v), b) ELSE Queued(v)
                          /\ chan'[v] = IF v = w THEN chan[v] ELSE Append(chan[v], b)
    BY <1>4, FlushWrites
  <2> HIDE DEF b
  <2>2. ASSUME NEW s \in Seq(Batches), Newest(s, pos) PROVE Newest(Append(s, b), pos')
    <3>1. ASSUME NEW i \in 1..Len(s), NEW u \in s[i].ups, u.who \notin Who(b.ups) PROVE pos'[u.who] = pos[u.who]
      <4>1. s[i] \in Batches
        OBVIOUS
      <4> QED
        BY <1>3, <2>1, <3>1, <4>1
    <3>2. \A i \in 1..Len(s) : \A u \in s[i].ups : u.who \notin Who(b.ups) => pos'[u.who] = pos[u.who]
      BY <3>1
    <3> DEFINE to == pos'
    <3>3. /\ \A u \in b.ups : to[u.who] = u.at
          /\ \A i \in 1..Len(s) : \A u \in s[i].ups : u.who \notin Who(b.ups) => to[u.who] = pos[u.who]
      BY <2>1, <3>2
    <3> HIDE DEF to
    <3>4. Newest(Append(s, b), to)
      BY <2>1, <2>2, <3>3, AppendNewest
    <3> QED
      BY <3>4 DEF to
  <2>3. Newest(plog', pos')
    <3>1. Newest(Append(plog, b), pos') /\ Append(plog, b) \in Seq(Batches)
      BY <1>0, <2>1, <2>2 DEF NewestOK
    <3>2. PICK k \in Nat : Rear(plog', Append(plog, b), k)
      BY <2>1, LoggedRear
    <3> QED
      BY <1>0, <3>1, <3>2, RearNewest
  <2>4. ASSUME NEW v \in WAS PROVE Newest(Queued(v)', pos')
    <3>1. CASE v = w
      BY <1>1, <2>1, <2>2, <3>1 DEF NewestOK
    <3>2. CASE v # w
      <4>1. ASSUME NEW i \in 1..Len(Queued(v)), NEW u \in Queued(v)[i].ups PROVE pos'[u.who] = pos[u.who]
        <5>1. Queued(v)[i] \in Batches
          BY <1>1
        <5>2. u.who \in Players /\ home[u.who] = v
          BY <1>3, <5>1 DEF OriginOK
        <5>3. u.who \notin Who(b.ups)
          BY <2>1, <3>2, <5>2 DEF Who
        <5> QED
          BY <2>1, <5>2, <5>3
      <4> DEFINE s == Queued(v)
      <4>2. Newest(s, pos) /\ \A i \in 1..Len(s) : \A u \in s[i].ups : pos'[u.who] = pos[u.who]
        BY <4>1 DEF NewestOK
      <4>3. Queued(v)' = s
        BY <2>1, <3>2
      <4> HIDE DEF s
      <4>4. Newest(s, pos')
        BY <4>2, SameNewest
      <4> QED
        BY <4>3, <4>4
    <3> QED
      BY <3>1, <3>2
  <2>5. ASSUME NEW v \in WAS PROVE Newest(chan'[v], pos')
    <3>1. CASE v # w
      BY <1>1, <2>1, <2>2, <3>1 DEF NewestOK
    <3>2. CASE v = w
      <4>1. ASSUME NEW i \in 1..Len(chan[v]), NEW u \in chan[v][i].ups PROVE pos'[u.who] = pos[u.who]
        <5>1. chan[v][i] \in Batches
          BY <1>1
        <5>2. u.who \in Players /\ home[u.who] # v
          BY <1>3, <5>1 DEF OriginOK
        <5>3. u.who \notin Who(b.ups)
          BY <2>1, <3>2, <5>2 DEF Who
        <5> QED
          BY <2>1, <5>2, <5>3
      <4> DEFINE s == chan[v]
      <4>2. Newest(s, pos) /\ \A i \in 1..Len(s) : \A u \in s[i].ups : pos'[u.who] = pos[u.who]
        BY <4>1 DEF NewestOK
      <4>3. chan'[v] = s
        BY <2>1, <3>2
      <4> HIDE DEF s
      <4>4. Newest(s, pos')
        BY <4>2, SameNewest
      <4> QED
        BY <4>3, <4>4
    <3> QED
      BY <3>1, <3>2
  <2> QED
    BY <2>3, <2>4, <2>5 DEF NewestOK
<1>5. ASSUME \A w \in WAS : ~Flush(w) PROVE NewestOK'
  <2>1. pos' = pos
    BY <1>5, LivesStay
  <2>2. Newest(plog', pos)
    <3>1. plog' = plog \/ plog' = << >>
      <4>1. ASSUME NEW p \in Players, Leave(p) PROVE plog' = plog \/ plog' = << >>
        BY <4>1 DEF Leave, PositionLeaves
      <4> QED
        BY <1>5, <4>1, Framed DEF Frames, PositionFrames
    <3>2. Newest(<< >>, pos)
      BY DEF Newest
    <3> QED
      BY <3>1, <3>2 DEF NewestOK
  <2>3. ASSUME NEW v \in WAS PROVE Newest(Queued(v)', pos) /\ Newest(chan'[v], pos)
    <3>1. PICK k \in Nat : Rear(Queued(v)', Queued(v), k)
      BY <1>5, WaysRun
    <3>2. PICK l \in Nat : Rear(chan'[v], chan[v], l)
      BY <1>5, WaysRun
    <3>3. Newest(Queued(v)', pos)
      BY <1>1, <1>2, <3>1, RearNewest DEF NewestOK
    <3>4. Newest(chan'[v], pos)
      BY <1>1, <1>2, <3>2, RearNewest DEF NewestOK
    <3> QED
      BY <3>3, <3>4
  <2> QED
    BY <2>1, <2>2, <2>3 DEF NewestOK
<1> QED
  BY <1>4, <1>5

-----------------------------------------------------------------------------
(* What browsers remember                                                   *)

(* At the start the browsers show nobody, or everybody at the start.        *)
LEMMA PlacesStart ==
  Init => AppliedOK /\ BlurOK /\ ShownPlaces /\ SnapPlaces /\ RequestPlaces
<1> SUFFICES ASSUME Init PROVE AppliedOK /\ BlurOK /\ ShownPlaces /\ SnapPlaces /\ RequestPlaces
  OBVIOUS
<1>1. blurred = [p \in Players |-> {}] /\ reqs = {} /\ pos = [p \in Players |-> 0]
  BY DEF Init, Start, PositionInit, PositionMidway
<1>2. BlurOK /\ RequestPlaces
  BY <1>1 DEF BlurOK, RequestPlaces
<1>3. CASE Start
  <2>1. stage = [p \in Players |-> "out"] /\ tab = [p \in Players |-> NewTab]
    BY <1>3 DEF Start, SocketsInit, PositionInit
  <2>2. DOMAIN NewTab.shown = {} /\ \A q \in Players : NewTab.applied[q] = 0
    BY DEF NewTab
  <2> QED
    BY <1>2, <2>1, <2>2 DEF AppliedOK, ShownPlaces, SnapPlaces, InRoom
<1>4. CASE SocketsMidway /\ PositionMidway
  <2> DEFINE t == [NewTab EXCEPT !.shown = [q \in Players |-> 0]]
             ups == {Update(First, 0, TRUE)}
  <2>1. stage = [p \in Players |-> "in"] /\ tab = [p \in Players |-> Hear(t, Batch(1, ups))]
    BY <1>4 DEF SocketsMidway, PositionMidway
  <2>2. DOMAIN t.shown = Players /\ \A q \in Players : t.shown[q] = 0 /\ t.applied[q] = 0
    BY DEF NewTab
  <2>3. Told(ups, First).at = 0 /\ Who(ups) = {First}
    <3>1. Told(ups, Update(First, 0, TRUE).who) = Update(First, 0, TRUE)
      BY ToldOnly
    <3> QED
      BY <3>1 DEF Update, Who
  <2> HIDE DEF t, ups
  <2>4. ASSUME NEW q \in Players
        PROVE  /\ DOMAIN Hear(t, Batch(1, ups)).shown = Players /\ Hear(t, Batch(1, ups)).shown[q] = 0
               /\ Hear(t, Batch(1, ups)).applied[q] \in {0, 1}
    BY <2>2, <2>3, HeardAs
  <2>5. ASSUME NEW c \in Players, NEW q \in Players
        PROVE  tab[c].shown[q] = 0 /\ tab[c].applied[q] \in {0, 1} /\ DOMAIN tab[c].shown = Players
    BY <2>1, <2>4
  <2>6. AppliedOK
    BY <2>5 DEF AppliedOK
  <2>7. ShownPlaces
    BY <1>1, <2>1, <2>5 DEF ShownPlaces, UpToDate
  <2>8. SnapPlaces
    BY <2>1 DEF SnapPlaces
  <2> QED
    BY <1>2, <2>6, <2>7, <2>8
<1> QED
  BY <1>3, <1>4 DEF Init

(* Which actions may leave a browser wrong about a player.                  *)
LEMMA BlurFramed ==
  ASSUME Next
  PROVE  \/ UNCHANGED blurred
         \/ \E p \in Players : Announce(p) \/ SnapEmit(p) \/ Leave(p)
         \/ \E w \in WAS : Broadcast(w) \/ Remote(w)
<1>1. ASSUME NEW p \in Players, Join(p) \/ SnapRead(p) \/ Loses(p) \/ Move(p) PROVE UNCHANGED blurred
  BY <1>1 DEF Join, SnapRead, Loses, Move, PositionJoins, PositionReads, positions
<1>2. ASSUME NEW w \in WAS, Flush(w) \/ FlushReturns(w) PROVE UNCHANGED blurred
  BY <1>2 DEF Flush, FlushReturns
<1>3. ASSUME NEW r \in reqs, ReadSeq(r) \/ ReadLog(r) \/ ReadSnapshot(r) \/ Answer(r) PROVE UNCHANGED blurred
  BY <1>3 DEF ReadSeq, ReadLog, ReadSnapshot, Answer
<1>4. UNCHANGED positions => UNCHANGED blurred
  BY DEF positions
<1> QED
  BY <1>1, <1>2, <1>3, <1>4, Steps

(* Once a browser may be wrong about a player, that is not forgotten.       *)
LEMMA BlurStep ==
  ASSUME SocketsOK, BatchesOK, TabsOK, BlurOK, OriginOK, Next
  PROVE  BlurOK' /\ \A c \in Players : blurred[c] \subseteq blurred'[c]
<1>0. \A c \in Players : Confused(c) \subseteq Players
  BY DEF Confused
<1>1. ASSUME NEW p \in Players, Announce(p) PROVE BlurOK' /\ \A c \in Players : blurred[c] \subseteq blurred'[c]
  BY <1>0, <1>1 DEF Announce, PositionAnnounced, BlurOK
<1>2. ASSUME NEW p \in Players, SnapEmit(p) PROVE BlurOK' /\ \A c \in Players : blurred[c] \subseteq blurred'[c]
  <2>1. blurred' = [blurred EXCEPT ![p] = blurred[p] \union Confused(p)]
    BY <1>2 DEF SnapEmit, PositionSettles
  <2>2. blurred[p] \union Confused(p) \in SUBSET Players
    BY <1>0 DEF BlurOK
  <2> QED
    BY <2>1, <2>2 DEF BlurOK
<1>3. ASSUME NEW p \in Players, Leave(p) PROVE BlurOK' /\ \A c \in Players : blurred[c] \subseteq blurred'[c]
  <2>1. blurred' = [c \in Players |-> IF LastOfWAS(p) THEN blurred[c] \union Confused(c) ELSE blurred[c]]
    BY <1>3 DEF Leave, PositionLeaves
  <2> QED
    BY <1>0, <2>1 DEF BlurOK
<1>4. ASSUME NEW w \in WAS, Broadcast(w) \/ Remote(w) PROVE BlurOK' /\ \A c \in Players : blurred[c] \subseteq blurred'[c]
  BY <1>4, BroadcastHands, RemoteHands
<1> QED
  BY <1>1, <1>2, <1>3, <1>4, BlurFramed DEF BlurOK

(* What an answer does to a browser.                                        *)
LEMMA AnswerTells ==
  ASSUME TabsOK, AppliedOK, NEW r \in reqs, Answer(r)
  PROVE  LET c == r.who IN
         /\ c \in Players /\ stage[c] \in InRoom /\ reqs' = reqs \ {r} /\ r.pc = "ready" /\ r.cur \in Nat
         /\ \A d \in Players \ {c} : tab'[d] = tab[d]
         /\ DOMAIN tab'[c].shown = DOMAIN tab[c].shown
         /\ \A q \in Players :
              \/ Silent(c, q)
              \/ /\ r.cur > tab[c].applied[q] /\ tab'[c].applied[q] = r.cur
                 /\ \E u \in r.ups :
                      /\ u.who = q
                      /\ Single(r.ups) /\ q \in DOMAIN tab[c].shown => tab'[c].shown[q] = u.at
<1> DEFINE c == r.who
           t == tab[c]
           fresh == {u \in r.ups : (~r.alive \/ u.alive) /\ r.cur > t.applied[u.who]}
<1>1. /\ r.pc = "ready" /\ reqs' = reqs \ {r} /\ tab' = [tab EXCEPT ![c] = Response(t, r)]
      /\ c \in Players /\ stage[c] \in InRoom /\ r.cur \in Nat /\ DOMAIN tab = Players /\ DOMAIN t.shown \subseteq Players
  <2>1. IsRequest(r) /\ stage[c] \in InRoom /\ DOMAIN tab = Players
    BY DEF TabsOK
  <2>2. c \in Players /\ r.cur \in 0..(MaxInputs + 1)
    BY <2>1 DEF IsRequest
  <2>3. DOMAIN t.shown \subseteq Players /\ r.cur \in Nat
    BY <2>2, SocketsBound DEF TabsOK, IsTab
  <2> QED
    BY <2>1, <2>2, <2>3 DEF Answer
<1>2. tab'[c] = Response(t, r)
  BY <1>1
<1>3. /\ DOMAIN Response(t, r).shown = DOMAIN t.shown
      /\ \A q \in DOMAIN t.shown : Response(t, r).shown[q] = IF q \in Who(fresh) THEN Told(fresh, q).at ELSE t.shown[q]
      /\ \A q \in Players : Response(t, r).applied[q] = IF q \in Who(fresh) THEN r.cur ELSE t.applied[q]
  BY DEF Response
<1>4. ASSUME NEW q \in Players
      PROVE  \/ Silent(c, q)
             \/ /\ r.cur > tab[c].applied[q] /\ tab'[c].applied[q] = r.cur
                /\ \E u \in r.ups :
                     /\ u.who = q
                     /\ Single(r.ups) /\ q \in DOMAIN tab[c].shown => tab'[c].shown[q] = u.at
  <2>1. CASE q \notin Who(fresh)
    <3> HIDE DEF fresh
    <3> QED
      BY <1>2, <1>3, <2>1 DEF Silent
  <2>2. CASE q \in Who(fresh)
    <3>1. PICK u \in fresh : u.who = q
      BY <2>2 DEF Who
    <3>2. u \in r.ups /\ r.cur > tab[c].applied[q] /\ fresh \subseteq r.ups
      BY <3>1
    <3>3. ASSUME Single(r.ups), q \in DOMAIN tab[c].shown PROVE tab'[c].shown[q] = u.at
      <4>1. \A v \in fresh : v.who = u.who => v = u
        BY <3>2, <3>3 DEF Single
      <4> HIDE DEF fresh
      <4>2. Told(fresh, u.who) = u
        BY <3>1, <4>1, ToldOnly
      <4> QED
        BY <1>2, <1>3, <2>2, <3>1, <3>3, <4>2
    <3> HIDE DEF fresh
    <3> QED
      BY <1>2, <1>3, <2>2, <3>1, <3>2, <3>3
  <2> QED
    BY <2>1, <2>2
<1> HIDE DEF fresh
<1> QED
  BY <1>1, <1>2, <1>3, <1>4

(* Every step keeps the numbers of what was applied.                        *)
LEMMA AppliedStep ==
  ASSUME SocketsOK, BatchesOK, TabsOK, AppliedOK, Next
  PROVE  AppliedOK'
<1>0. DOMAIN tab = Players
  BY DEF TabsOK
<1>1. \A t, new : \A q \in Players : HearJoin(t, new).applied[q] = 0 /\ NewTab.applied[q] = 0
  BY DEF HearJoin, NewTab
<1>2. ASSUME NEW p \in Players, Announce(p) \/ SnapEmit(p) PROVE AppliedOK'
  <2>1. \A c \in Players : tab'[c] = tab[c] \/ \E new : tab'[c] = HearJoin(tab[c], new)
    BY <1>0, <1>2 DEF Announce, SnapEmit, PositionAnnounced, PositionSettles
  <2> QED
    BY <1>1, <2>1 DEF AppliedOK
<1>3. ASSUME NEW p \in Players, Leave(p) PROVE AppliedOK'
  <2>1. tab' = [c \in Players |->
                  IF c = p THEN NewTab
                  ELSE IF c \in Present /\ p \notin members'
                       THEN [tab[c] EXCEPT !.shown = [q \in DOMAIN tab[c].shown \ {p} |-> tab[c].shown[q]]] ELSE tab[c]]
    BY <1>3 DEF Leave, PositionLeaves
  <2>2. ASSUME NEW c \in Players, NEW f PROVE [tab[c] EXCEPT !.shown = f].applied = tab[c].applied
    <3>1. DOMAIN tab[c] = {"shown", "last", "applied", "waits"}
      BY DEF TabsOK, IsTab
    <3> QED
      BY <3>1
  <2>3. \A c \in Players : tab'[c] = NewTab \/ tab'[c].applied = tab[c].applied
    BY <2>1, <2>2
  <2>4. \A q \in Players : NewTab.applied[q] = 0
    BY DEF NewTab
  <2> QED
    BY <2>3, <2>4 DEF AppliedOK
<1>4. ASSUME NEW w \in WAS, NEW b, Deliver(w, b), b.seq \in Nat PROVE AppliedOK'
  <2>1. ASSUME NEW c \in Players PROVE tab'[c] = tab[c] \/ \E ups : tab'[c] = Hear(tab[c], Batch(b.seq, ups))
    BY <1>4 DEF Deliver
  <2>2. ASSUME NEW c \in Players, NEW ups, NEW q \in Players
        PROVE  Hear(tab[c], Batch(b.seq, ups)).applied[q] \in {b.seq, tab[c].applied[q]}
    BY DEF Hear, Batch
  <2> QED
    BY <1>4, <2>1, <2>2 DEF AppliedOK
<1>5. ASSUME NEW w \in WAS, Broadcast(w) PROVE AppliedOK'
  <2>1. pend[w] \in Seq(Batches) /\ pend[w] # << >> /\ Deliver(w, MergeBatches(pend[w]))
    BY <1>5, WayType DEF Broadcast
  <2>2. MergeBatches(pend[w]).seq \in Nat
    BY <2>1, MergedOK DEF Numbers
  <2> QED
    BY <1>4, <2>1, <2>2
<1>6. ASSUME NEW w \in WAS, Remote(w) PROVE AppliedOK'
  <2>1. chan[w] \in Seq(Batches) /\ chan[w] # << >> /\ (UNCHANGED tab \/ Deliver(w, Head(chan[w])))
    BY <1>6, WayType DEF Remote
  <2>2. Head(chan[w]) \in Batches
    BY <2>1, HeadTailProperties
  <2>3. Head(chan[w]).seq \in Nat
    BY <2>2 DEF Batches, Numbers
  <2> QED
    BY <1>4, <2>1, <2>3 DEF AppliedOK
<1>7. ASSUME NEW r \in reqs, Answer(r) PROVE AppliedOK'
  <2>1. /\ r.who \in Players /\ r.cur \in Nat
        /\ \A d \in Players \ {r.who} : tab'[d] = tab[d]
        /\ \A q \in Players : Silent(r.who, q) \/ tab'[r.who].applied[q] = r.cur
    BY <1>7, AnswerTells
  <2> QED
    BY <2>1 DEF AppliedOK, Silent
<1>8. UNCHANGED tab => AppliedOK'
  BY DEF AppliedOK
<1> QED
  BY <1>2, <1>3, <1>5, <1>6, <1>7, <1>8, Framed DEF Frames, PositionFrames

-----------------------------------------------------------------------------
(* What browsers show                                                       *)

(* A batch has been written: q's place is new, and on the way to c, or what *)
(* it was.                                                                  *)
LEMMA FlushOnWay ==
  ASSUME SocketsOK, QueuesOK, BatchesOK, BudgetOK, Next, NEW w \in WAS, Flush(w), NEW c \in Players, NEW q \in Players
  PROVE  LET b == Batch(seq + 1, inq[w]) IN
         /\ b \in Batches /\ b.seq = seq + 1
         /\ q \in Who(b.ups) \/ pos'[q] = pos[q]
         /\ \/ Way(home[c], q)' = Append(Way(home[c], q), b)
            \/ Way(home[c], q)' = Way(home[c], q) /\ q \notin Who(b.ups)
<1> DEFINE b == Batch(seq + 1, inq[w])
<1>1. /\ b \in Batches /\ b.seq = seq + 1 /\ home' = home
      /\ \A p \in Players : p \notin Who(b.ups) => pos'[p] = pos[p]
      /\ \A u \in b.ups : u.who \in Players /\ pos'[u.who] = u.at /\ home[u.who] = w
      /\ \A v \in WAS : /\ Queued(v)' = IF v = w THEN Append(Queued(v), b) ELSE Queued(v)
                        /\ chan'[v] = IF v = w THEN chan[v] ELSE Append(chan[v], b)
  BY FlushWrites
<1> HIDE DEF b
<1>2. PICK v \in WAS : v = home[c] /\ v = home'[c]
  BY <1>1, SocketsRoutes DEF SocketsOK, SocketsTypeOK
<1>3. q \in Who(b.ups) => home[q] = w
  BY <1>1 DEF Who
<1>4. /\ Way(home[c], q) = IF home[q] = v THEN Queued(v) ELSE chan[v]
      /\ Way(home[c], q)' = IF home[q] = v THEN Queued(v)' ELSE chan'[v]
  BY <1>1, <1>2 DEF Way, Queued
<1>5. \/ Way(home[c], q)' = Append(Way(home[c], q), b)
      \/ Way(home[c], q)' = Way(home[c], q) /\ q \notin Who(b.ups)
  <2>1. /\ Queued(v)' = IF v = w THEN Append(Queued(v), b) ELSE Queued(v)
        /\ chan'[v] = IF v = w THEN chan[v] ELSE Append(chan[v], b)
    BY <1>1
  <2> QED
    BY <1>3, <1>4, <2>1
<1> QED
  BY <1>1, <1>5 DEF b

(* The way to a browser, with its newest moves.                             *)
LEMMA WayNewest ==
  ASSUME SocketsOK, BatchesOK, NewestOK, NEW c \in Players, NEW q
  PROVE  Way(home[c], q) \in Seq(Batches) /\ Newest(Way(home[c], q), pos)
<1>1. home[c] \in WAS
  BY SocketsRoutes DEF SocketsOK, SocketsTypeOK
<1> QED
  BY <1>1, WayType DEF Way, NewestOK

(* Whoever has heard all there is about q has heard where it is.            *)
LEMMA HandedPlace ==
  ASSUME NEW s \in Seq(Batches), NEW t, NEW k \in Nat, NEW c, NEW q,
         HandsOver(c, q, s, t, k), Newest(s, pos), ~About(t, q)
  PROVE  \/ ~About(s, q) /\ Silent(c, q)
         \/ /\ stage[c] = "reading" => q \in blurred'[c]
            /\ q \in DOMAIN tab[c].shown => tab'[c].shown[q] = pos[q]
<1>1. Rear(t, s, k) /\ Len(s) \in Nat /\ k \in 0..Len(s) /\ Len(t) = Len(s) - k
  BY DEF HandsOver, Rear
<1>2. ASSUME NEW j \in 1..Len(s), j > k PROVE q \notin Who(s[j].ups)
  <2>1. j - k \in 1..Len(t) /\ (j - k) + k = j
    BY <1>1, <1>2
  <2>2. t[j - k] = s[j]
    BY <1>1, <2>1 DEF Rear
  <2> QED
    BY <2>1, <2>2 DEF About
<1>3. CASE ~Taken(s, k, q)
  <2>1. ASSUME NEW j \in 1..Len(s) PROVE q \notin Who(s[j].ups)
    <3>1. j > k \/ j \in 1..k
      BY <1>1
    <3> QED
      BY <1>2, <1>3, <3>1 DEF Taken
  <2> QED
    BY <1>3, <2>1 DEF HandsOver, About
<1>4. CASE Taken(s, k, q)
  <2>1. PICK i \in 1..k : \E u \in s[i].ups :
          /\ u.who = q /\ \A j \in 1..k : j > i => q \notin Who(s[j].ups)
          /\ Tells(c, q, s[k].seq, u.at)
    BY <1>4 DEF HandsOver
  <2>2. PICK u \in s[i].ups :
          /\ u.who = q /\ \A j \in 1..k : j > i => q \notin Who(s[j].ups)
          /\ Tells(c, q, s[k].seq, u.at)
    BY <2>1
  <2>3. ASSUME NEW j \in 1..Len(s), j > i PROVE q \notin Who(s[j].ups)
    <3>1. j > k \/ j \in 1..k
      BY <1>1
    <3> QED
      BY <1>2, <2>2, <2>3, <3>1
  <2>4. i \in 1..Len(s)
    BY <1>1
  <2>5. u.at = pos[q]
    BY <2>2, <2>3, <2>4 DEF Newest
  <2> QED
    BY <2>2, <2>5 DEF Tells
<1> QED
  BY <1>3, <1>4

(* Broadcasts keep what is shown and what was read up to date.              *)
LEMMA HandedStays ==
  ASSUME SocketsOK, BatchesOK, TabsOK, BlurOK, OriginOK, NewestOK, NEW w \in WAS, Broadcast(w) \/ Remote(w),
         NEW c \in Players, stage[c] \in InRoom, NEW q \in Players, alive[q], ~About(Way(home[c], q)', q)
  PROVE  /\ DOMAIN tab'[c].shown = DOMAIN tab[c].shown
         /\ \/ ~About(Way(home[c], q), q) /\ Silent(c, q)
            \/ /\ stage[c] = "reading" => q \in blurred'[c]
               /\ q \in DOMAIN tab[c].shown => tab'[c].shown[q] = pos[q]
<1>1. /\ DOMAIN tab'[c].shown = DOMAIN tab[c].shown
      /\ \E k \in Nat : HandsOver(c, q, Way(home[c], q), Way(home[c], q)', k)
  BY BroadcastHands, RemoteHands
<1>2. PICK k \in Nat : HandsOver(c, q, Way(home[c], q), Way(home[c], q)', k)
  BY <1>1
<1>3. Way(home[c], q) \in Seq(Batches) /\ Newest(Way(home[c], q), pos)
  BY WayNewest
<1> DEFINE s == Way(home[c], q)
           t == Way(home[c], q)'
<1>4. s \in Seq(Batches) /\ Newest(s, pos) /\ HandsOver(c, q, s, t, k) /\ ~About(t, q)
  <2>1. About(Way(home[c], q)', q) = About(t, q)
    BY DEF About
  <2> QED
    BY <1>2, <1>3, <2>1
<1> HIDE DEF s, t
<1>5. \/ ~About(s, q) /\ Silent(c, q)
      \/ /\ stage[c] = "reading" => q \in blurred'[c]
         /\ q \in DOMAIN tab[c].shown => tab'[c].shown[q] = pos[q]
  BY <1>4, HandedPlace
<1> QED
  BY <1>1, <1>5 DEF s

(* Where the stages come from.                                              *)
LEMMA StageComes ==
  ASSUME SocketsOK, Next, NEW c \in Players
  PROVE  /\ stage'[c] \in InRoom => stage[c] \in InRoom \/ (stage[c] = "out" /\ Join(c))
         /\ stage'[c] = "out" => stage[c] = "out"
         /\ stage'[c] = "reading" => stage[c] = "reading" \/ SnapRead(c)
<1>0. stage \in [Players -> Stages]
  BY DEF SocketsOK, SocketsTypeOK
<1>1. ASSUME NEW p \in Players, Join(p) \/ Announce(p) \/ SnapRead(p) \/ SnapEmit(p) \/ Leave(p), c # p
      PROVE  stage'[c] = stage[c]
  BY <1>0, <1>1 DEF Join, Announce, SnapRead, SnapEmit, Leave, SocketJoins, SocketAnnounced, SocketReads,
                    SocketSettles, SocketLeaves, To
<1>2. Join(c) => stage[c] = "out" /\ stage'[c] = "registered"
  BY <1>0 DEF Join, SocketJoins, To
<1>3. Announce(c) => stage[c] = "registered" /\ stage'[c] = "announced"
  BY <1>0 DEF Announce, SocketAnnounced, To
<1>4. SnapRead(c) => stage[c] = "announced" /\ stage'[c] = "reading"
  BY <1>0 DEF SnapRead, SocketReads, To
<1>5. SnapEmit(c) => stage[c] = "reading" /\ stage'[c] = "in"
  BY <1>0 DEF SnapEmit, SocketSettles, To
<1>6. Leave(c) => stage[c] = "in" /\ stage'[c] = "gone"
  BY <1>0 DEF Leave, SocketLeaves, To
<1>7. UNCHANGED stage \/ \E p \in Players : Join(p) \/ Announce(p) \/ SnapRead(p) \/ SnapEmit(p) \/ Leave(p)
  BY Framed DEF Frames
<1>8. /\ "out" \notin InRoom /\ "gone" \notin InRoom /\ "registered" \in InRoom /\ "announced" \in InRoom
      /\ "reading" \in InRoom /\ "in" \in InRoom
  BY DEF InRoom, Stages
<1> QED
  BY <1>1, <1>2, <1>3, <1>4, <1>5, <1>6, <1>7, <1>8

(* Who has not joined is shown nobody.                                      *)
LEMMA EmptyStays ==
  ASSUME SocketsOK, BatchesOK, TabsOK, BlurOK, OriginOK, AppliedOK, ShownPlaces, Next, NEW c \in Players, stage'[c] = "out"
  PROVE  DOMAIN tab'[c].shown = {}
<1>1. stage[c] = "out" /\ DOMAIN tab[c].shown = {} /\ "out" \notin InRoom
  BY StageComes DEF ShownPlaces, InRoom
<1>2. ASSUME NEW p \in Players, Announce(p) PROVE tab'[c] = tab[c]
  BY <1>1, <1>2 DEF Announce, PositionAnnounced, Present, Clients
<1>3. ASSUME NEW p \in Players, SnapEmit(p) PROVE tab'[c] = tab[c]
  BY <1>1, <1>3 DEF SnapEmit, SocketSettles, PositionSettles, TabsOK
<1>4. ASSUME NEW p \in Players, Leave(p) PROVE tab'[c] = tab[c]
  BY <1>1, <1>4 DEF Leave, SocketLeaves, PositionLeaves, Present, Clients
<1>5. ASSUME NEW w \in WAS, Broadcast(w) \/ Remote(w) PROVE DOMAIN tab'[c].shown = DOMAIN tab[c].shown
  BY <1>5, BroadcastHands, RemoteHands
<1>6. ASSUME NEW r \in reqs, Answer(r) PROVE tab'[c] = tab[c]
  <2>1. stage[r.who] \in InRoom /\ \A d \in Players \ {r.who} : tab'[d] = tab[d]
    BY <1>6, AnswerTells
  <2> QED
    BY <1>1, <2>1
<1> QED
  BY <1>1, <1>2, <1>3, <1>4, <1>5, <1>6, Framed DEF Frames, PositionFrames

(* What a browser shows after a step is where the player is, or something   *)
(* newer is on its way.                                                     *)
LEMMA PlacesShown ==
  ASSUME SocketsOK, QueuesOK, BatchesOK, BudgetOK, TabsOK, PlacesOK, Next,
         NEW c \in Players, stage'[c] \in InRoom, NEW q \in DOMAIN tab'[c].shown \ blurred'[c],
         alive'[q], ~About(Way(home[c], q)', q)
  PROVE  tab'[c].shown[q] = pos'[q]
<1>0. /\ LivesOK /\ OriginOK /\ LogOK /\ NewestOK /\ AppliedOK /\ BlurOK
      /\ ShownPlaces /\ SnapPlaces /\ RequestPlaces
  BY DEF PlacesOK
<1>1. q \in Players
  <2>1. TabsOK'
    BY TabsStep DEF PositionsOK
  <2> QED
    BY <2>1 DEF TabsOK, IsTab
<1>2. alive[q] /\ q \notin blurred[c] /\ DOMAIN tab = Players /\ DOMAIN snap = Players
  BY <1>0, <1>1, LivesStay, BlurStep DEF TabsOK
<1>3. stage[c] = "out" => stage'[c] \in InRoom /\ DOMAIN tab[c].shown = {} /\ Join(c)
  <2>1. "out" \notin InRoom
    BY DEF InRoom
  <2> QED
    BY <1>0, <2>1, StageComes DEF ShownPlaces
<1>4. CASE stage[c] = "out"
  <2>1. tab' = tab
    BY <1>3, <1>4 DEF Join, PositionJoins
  <2> QED
    BY <1>3, <1>4, <2>1
<1>5. CASE stage[c] \in InRoom
  <2>0. ~About(Way(home[c], q), q) /\ q \in DOMAIN tab[c].shown => tab[c].shown[q] = pos[q]
    BY <1>0, <1>2, <1>5 DEF ShownPlaces, UpToDate
  <2>1. ASSUME NEW w \in WAS, Flush(w) PROVE tab'[c].shown[q] = pos'[q]
    <3> DEFINE b == Batch(seq + 1, inq[w])
               s == Way(home[c], q)
    <3>1. /\ b \in Batches
          /\ q \in Who(b.ups) \/ pos'[q] = pos[q]
          /\ \/ Way(home[c], q)' = Append(s, b)
             \/ Way(home[c], q)' = s /\ q \notin Who(b.ups)
      BY <1>1, <2>1, FlushOnWay
    <3>2. s \in Seq(Batches) /\ tab' = tab /\ b \in Batches
      BY <1>0, <2>1, WayNewest, FlushOnWay, <1>1 DEF Flush
    <3> HIDE DEF b, s
    <3>3. About(Append(s, b), q) <=> About(s, q) \/ q \in Who(b.ups)
      BY <3>2, AboutAppend
    <3>4. ~About(s, q) /\ q \notin Who(b.ups)
      <4>1. CASE Way(home[c], q)' = Append(s, b)
        <5>1. ~About(Append(s, b), q)
          BY <4>1
        <5> QED
          BY <3>3, <5>1
      <4>2. CASE Way(home[c], q)' = s /\ q \notin Who(b.ups)
        BY <4>2
      <4> QED
        BY <3>1, <4>1, <4>2
    <3> QED
      BY <2>0, <3>1, <3>2, <3>4 DEF s
  <2>2. ASSUME NEW w \in WAS, Broadcast(w) \/ Remote(w) PROVE tab'[c].shown[q] = pos'[q]
    <3>1. /\ DOMAIN tab'[c].shown = DOMAIN tab[c].shown
          /\ \/ ~About(Way(home[c], q), q) /\ Silent(c, q)
             \/ q \in DOMAIN tab[c].shown => tab'[c].shown[q] = pos[q]
      BY <1>0, <1>1, <1>2, <1>5, <2>2, HandedStays
    <3>2. pos' = pos
      BY <2>2 DEF Broadcast, Remote
    <3> QED
      BY <2>0, <3>1, <3>2 DEF Silent
  <2>3. ASSUME \A w \in WAS : ~Flush(w) /\ ~Broadcast(w) /\ ~Remote(w) PROVE tab'[c].shown[q] = pos'[q]
    <3>1. pos' = pos /\ Way(home[c], q)' = Way(home[c], q)
      BY <1>0, <1>1, <2>3, LivesStay, WaySteady
    <3>2. ~About(Way(home[c], q), q)
      BY <3>1
    <3>3. q \in DOMAIN tab[c].shown => tab[c].shown[q] = pos[q]
      BY <2>0, <3>2
    <3>4. ASSUME NEW p \in Players, Announce(p) PROVE tab'[c].shown[q] = pos[q]
      <4>1. tab'[c] = HearJoin(tab[c], [x \in {p} |-> 0]) \/ tab'[c] = tab[c]
        BY <3>4 DEF Announce, PositionAnnounced
      <4>2. pos[p] = 0
        BY <1>0, <3>4 DEF Announce, SocketAnnounced, LivesOK
      <4>3. CASE tab'[c] = HearJoin(tab[c], [x \in {p} |-> 0])
        <5>1. tab'[c].shown = [x \in DOMAIN tab[c].shown \union {p} |-> IF x \in {p} THEN [y \in {p} |-> 0][x] ELSE tab[c].shown[x]]
          BY <4>3 DEF HearJoin, NewTab
        <5> QED
          BY <3>3, <4>2, <5>1
      <4> QED
        BY <3>3, <4>1, <4>3
    <3>5. ASSUME NEW p \in Players, SnapEmit(p) PROVE tab'[c].shown[q] = pos[q]
      <4>1. CASE c = p
        <5>1. stage[c] = "reading" /\ tab'[c] = HearJoin(tab[c], snap[c])
          BY <1>2, <3>5, <4>1 DEF SnapEmit, SocketSettles, PositionSettles
        <5>2. tab'[c].shown = [x \in DOMAIN tab[c].shown \union DOMAIN snap[c] |->
                                 IF x \in DOMAIN snap[c] THEN snap[c][x] ELSE tab[c].shown[x]]
          BY <5>1 DEF HearJoin, NewTab
        <5>3. q \in DOMAIN snap[c] => snap[c][q] = pos[q]
          BY <1>0, <1>2, <3>2, <5>1 DEF SnapPlaces, UpToDate
        <5> QED
          BY <3>3, <5>2, <5>3
      <4>2. CASE c # p
        <5>1. tab'[c] = tab[c]
          BY <1>2, <3>5, <4>2 DEF SnapEmit, PositionSettles
        <5> QED
          BY <3>3, <5>1
      <4> QED
        BY <4>1, <4>2
    <3>6. ASSUME NEW p \in Players, Leave(p) PROVE tab'[c].shown[q] = pos[q]
      <4>1. c # p
        BY <3>6, LeavingClients DEF Leave, SocketLeaves, To, SocketsOK, SocketsTypeOK, InRoom
      <4>2. \/ tab'[c] = tab[c]
            \/ tab'[c] = [tab[c] EXCEPT !.shown = [x \in DOMAIN tab[c].shown \ {p} |-> tab[c].shown[x]]]
        BY <3>6, <4>1 DEF Leave, PositionLeaves
      <4>3. DOMAIN tab[c] = {"shown", "last", "applied", "waits"}
        BY DEF TabsOK, IsTab
      <4>4. tab'[c].shown = tab[c].shown \/ tab'[c].shown = [x \in DOMAIN tab[c].shown \ {p} |-> tab[c].shown[x]]
        BY <4>2, <4>3
      <4> QED
        BY <3>3, <4>4
    <3>7. ASSUME NEW r \in reqs, Answer(r) PROVE tab'[c].shown[q] = pos[q]
      <4>1. /\ r.pc = "ready" /\ r.cur \in Nat
            /\ \A d \in Players \ {r.who} : tab'[d] = tab[d]
            /\ DOMAIN tab'[r.who].shown = DOMAIN tab[r.who].shown
            /\ \/ Silent(r.who, q)
               \/ /\ r.cur > tab[r.who].applied[q] /\ tab'[r.who].applied[q] = r.cur
                  /\ \E u \in r.ups :
                       /\ u.who = q
                       /\ Single(r.ups) /\ q \in DOMAIN tab[r.who].shown => tab'[r.who].shown[q] = u.at
        BY <1>0, <1>1, <3>7, AnswerTells
      <4>2. CASE c = r.who
        <5>1. CASE Silent(c, q)
          BY <3>3, <4>1, <4>2, <5>1 DEF Silent
        <5>2. CASE ~Silent(c, q)
          <6>1. PICK u \in r.ups :
                  /\ r.cur > tab[c].applied[q] /\ u.who = q
                  /\ Single(r.ups) /\ q \in DOMAIN tab[c].shown => tab'[c].shown[q] = u.at
            BY <4>1, <4>2, <5>2
          <6>2. blurred[c] # Players
            BY <1>1, <1>2
          <6>3. Single(r.ups) /\ (u.at = pos[q] \/ Passed(c, q, r.cur))
            BY <1>0, <1>2, <4>1, <4>2, <6>1, <6>2 DEF RequestPlaces, AnswerOK
          <6>4. ~Passed(c, q, r.cur)
            <7>1. tab[c].applied[q] \in Nat /\ ~(tab[c].applied[q] >= r.cur)
              BY <1>0, <1>1, <4>1, <6>1 DEF AppliedOK
            <7>2. \A i \in 1..Len(Way(home[c], q)) : q \notin Who(Way(home[c], q)[i].ups)
              BY <3>2 DEF About
            <7> QED
              BY <7>1, <7>2 DEF Passed, PassedBy
          <6> QED
            BY <4>1, <4>2, <6>1, <6>3, <6>4
        <5> QED
          BY <5>1, <5>2
      <4>3. CASE c # r.who
        <5>1. tab'[c] = tab[c]
          BY <4>1, <4>3
        <5> QED
          BY <3>3, <5>1
      <4> QED
        BY <4>2, <4>3
    <3>8. CASE UNCHANGED tab
      BY <3>1, <3>3, <3>8
    <3>9. \/ UNCHANGED tab
          \/ \E p \in Players : Announce(p) \/ SnapEmit(p) \/ Leave(p)
          \/ \E r \in reqs : Answer(r)
      BY <2>3, Framed DEF Frames, PositionFrames
    <3> QED
      BY <3>1, <3>4, <3>5, <3>6, <3>7, <3>8, <3>9
  <2> QED
    BY <2>1, <2>2, <2>3
<1> QED
  BY <1>3, <1>4, <1>5, StageComes

(* So is what a join has read.                                              *)
LEMMA PlacesRead ==
  ASSUME SocketsOK, QueuesOK, BatchesOK, BudgetOK, TabsOK, PlacesOK, Next,
         NEW c \in Players, stage'[c] = "reading", NEW q \in DOMAIN snap'[c] \ blurred'[c],
         alive'[q], ~About(Way(home[c], q)', q)
  PROVE  snap'[c][q] = pos'[q]
<1>0. /\ LivesOK /\ OriginOK /\ NewestOK /\ BlurOK /\ SnapPlaces
  BY DEF PlacesOK
<1>1. q \in Players
  <2>1. TabsOK'
    BY TabsStep DEF PositionsOK
  <2> QED
    BY <2>1 DEF TabsOK
<1>2. alive[q] /\ q \notin blurred[c] /\ DOMAIN snap = Players /\ "reading" \in InRoom
  BY <1>0, <1>1, LivesStay, BlurStep DEF TabsOK, InRoom, Stages
<1>3. CASE SnapRead(c)
  <2>1. snap' = [snap EXCEPT ![c] = [x \in seen[c] |-> pos[x]]] /\ pos' = pos
    BY <1>3 DEF SnapRead, PositionReads
  <2> QED
    BY <1>2, <2>1
<1>4. CASE stage[c] = "reading"
  <2>0. snap'[c] = snap[c]
    <3>1. ASSUME NEW p \in Players, SnapRead(p) \/ SnapEmit(p) PROVE c # p
      BY <1>4, <3>1 DEF SnapRead, SnapEmit, SocketReads, SocketSettles, To, SocketsOK, SocketsTypeOK
    <3>2. ASSUME NEW p \in Players, SnapRead(p) \/ SnapEmit(p) PROVE snap'[c] = snap[c]
      BY <1>2, <3>1, <3>2 DEF SnapRead, SnapEmit, PositionReads, PositionSettles
    <3> QED
      BY <3>2, Framed DEF Frames, PositionFrames
  <2>1. ~About(Way(home[c], q), q) => snap[c][q] = pos[q]
    BY <1>0, <1>2, <1>4, <2>0 DEF SnapPlaces, UpToDate
  <2>2. ASSUME NEW w \in WAS, Flush(w) PROVE snap'[c][q] = pos'[q]
    <3> DEFINE b == Batch(seq + 1, inq[w])
               s == Way(home[c], q)
    <3>1. /\ b \in Batches
          /\ q \in Who(b.ups) \/ pos'[q] = pos[q]
          /\ \/ Way(home[c], q)' = Append(s, b)
             \/ Way(home[c], q)' = s /\ q \notin Who(b.ups)
      BY <1>1, <2>2, FlushOnWay
    <3>2. s \in Seq(Batches)
      BY <1>0, WayNewest
    <3> HIDE DEF b, s
    <3>3. About(Append(s, b), q) <=> About(s, q) \/ q \in Who(b.ups)
      BY <3>1, <3>2, AboutAppend
    <3>4. ~About(s, q) /\ q \notin Who(b.ups)
      <4>1. CASE Way(home[c], q)' = Append(s, b)
        <5>1. ~About(Append(s, b), q)
          BY <4>1
        <5> QED
          BY <3>3, <5>1
      <4>2. CASE Way(home[c], q)' = s /\ q \notin Who(b.ups)
        BY <4>2
      <4> QED
        BY <3>1, <4>1, <4>2
    <3> QED
      BY <2>0, <2>1, <3>1, <3>4 DEF s
  <2>3. ASSUME NEW w \in WAS, Broadcast(w) \/ Remote(w) PROVE snap'[c][q] = pos'[q]
    <3>1. ~About(Way(home[c], q), q) \/ q \in blurred'[c]
      BY <1>0, <1>1, <1>2, <1>4, <2>3, HandedStays
    <3>2. pos' = pos
      BY <2>3 DEF Broadcast, Remote
    <3> QED
      BY <2>0, <2>1, <3>1, <3>2
  <2>4. ASSUME \A w \in WAS : ~Flush(w) /\ ~Broadcast(w) /\ ~Remote(w) PROVE snap'[c][q] = pos'[q]
    <3>1. pos' = pos /\ Way(home[c], q)' = Way(home[c], q)
      BY <1>0, <1>1, <1>2, <2>4, LivesStay, WaySteady
    <3>2. ~About(Way(home[c], q), q)
      BY <3>1
    <3> QED
      BY <2>0, <2>1, <3>1, <3>2
  <2> QED
    BY <2>2, <2>3, <2>4
<1> QED
  BY <1>3, <1>4, StageComes

-----------------------------------------------------------------------------
(* Answers on their way                                                     *)

(* Behind a newer batch, and after what is handed over, an answer that was  *)
(* overtaken still is.                                                      *)
LEMMA PassedAppend ==
  ASSUME NEW S, NEW s \in Seq(S), NEW b \in S, NEW a, NEW q, NEW n, b.seq > n,
         PassedBy(s, a, q, n) \/ q \in Who(b.ups)
  PROVE  PassedBy(Append(s, b), a, q, n)
<1> DEFINE t == Append(s, b)
<1>1. Len(s) \in Nat /\ Len(t) = Len(s) + 1 /\ t[Len(s) + 1] = b /\ \A i \in 1..Len(s) : t[i] = s[i]
  BY AppendProperties
<1> HIDE DEF t
<1>2. Len(s) + 1 \in 1..Len(t) /\ \A j \in 1..Len(t) : j \in 1..Len(s) \/ j = Len(s) + 1
  BY <1>1
<1>3. ASSUME NEW i, Later(s, i, n) PROVE Later(t, i, n)
  BY <1>1, <1>2, <1>3 DEF Later
<1>4. CASE a >= n /\ Later(s, 1, n)
  BY <1>3, <1>4 DEF PassedBy, t
<1>5. CASE \E i \in 1..Len(s) : q \in Who(s[i].ups) /\ Later(s, i, n)
  <2>1. PICK i \in 1..Len(s) : q \in Who(s[i].ups) /\ Later(s, i, n)
    BY <1>5
  <2>2. i \in 1..Len(t) /\ q \in Who(t[i].ups) /\ Later(t, i, n)
    BY <1>1, <1>3, <2>1
  <2> QED
    BY <2>2 DEF PassedBy, t
<1>6. CASE q \in Who(b.ups)
  <2>1. Later(t, Len(s) + 1, n)
    <3>1. \A j \in 1..Len(t) : j >= Len(s) + 1 => j = Len(s) + 1
      BY <1>1
    <3> QED
      BY <1>1, <3>1 DEF Later
  <2> QED
    BY <1>1, <1>2, <1>6, <2>1 DEF PassedBy, t
<1> QED
  BY <1>4, <1>5, <1>6 DEF PassedBy

(* What was overtaken by a batch handed over is overtaken by its number.    *)
LEMMA PassedHanded ==
  ASSUME NEW s \in Seq(Batches), NEW t, NEW k \in Nat, NEW c \in Players, NEW q \in Players,
         HandsOver(c, q, s, t, k), NEW n \in Nat, tab[c].applied[q] \in Nat, PassedBy(s, tab[c].applied[q], q, n)
  PROVE  PassedBy(t, tab'[c].applied[q], q, n)
<1>1. Rear(t, s, k) /\ Len(s) \in Nat /\ Len(t) \in Nat /\ k \in 0..Len(s) /\ Len(t) = Len(s) - k
      /\ \A i \in 1..Len(t) : t[i] = s[i + k]
  BY DEF HandsOver, Rear
<1>2. ASSUME NEW i \in 1..Len(s), Later(s, i, n), NEW j \in Int, j + k >= i PROVE Later(t, j, n)
  <2>1. ASSUME NEW m \in 1..Len(t), m >= j PROVE t[m].seq > n
    <3>1. m + k \in 1..Len(s) /\ m + k >= i /\ t[m] = s[m + k]
      BY <1>1, <1>2, <2>1
    <3> QED
      BY <1>2, <3>1 DEF Later
  <2> QED
    BY <2>1 DEF Later
<1>3. \A i \in 1..Len(s) : s[i].seq \in Nat
  <2> TAKE i \in 1..Len(s)
  <2>1. s[i] \in Batches
    OBVIOUS
  <2> QED
    BY <2>1 DEF Batches, Numbers
<1>4. Later(s, 1, n) => Later(t, 1, n)
  <2>1. CASE Len(s) = 0
    <3>1. k = 0
      BY <1>1, <2>1
    <3>2. 1..Len(t) = {}
      BY <1>1, <2>1, <3>1
    <3> QED
      BY <3>2 DEF Later
  <2>2. CASE Len(s) # 0
    <3>1. 1 \in 1..Len(s) /\ 1 \in Int /\ 1 + k >= 1
      BY <1>1, <2>2
    <3> QED
      BY <1>2, <3>1
  <2> QED
    BY <2>1, <2>2
<1>5. ASSUME Taken(s, k, q), NEW i \in 1..Len(s), i <= k, Later(s, i, n) PROVE PassedBy(t, tab'[c].applied[q], q, n)
  <2>1. tab'[c].applied[q] = s[k].seq /\ k \in 1..Len(s) /\ k >= i
    BY <1>1, <1>5 DEF HandsOver, Tells
  <2>2. s[k].seq > n
    BY <1>5, <2>1 DEF Later
  <2>3. s[k].seq >= n
    BY <1>3, <2>1, <2>2
  <2>4. Later(t, 1, n)
    BY <1>1, <1>2, <1>5
  <2> QED
    BY <2>1, <2>3, <2>4 DEF PassedBy
<1>6. CASE \E i \in 1..Len(s) : q \in Who(s[i].ups) /\ Later(s, i, n)
  <2>1. PICK i \in 1..Len(s) : q \in Who(s[i].ups) /\ Later(s, i, n)
    BY <1>6
  <2>2. CASE i <= k
    <3>1. Taken(s, k, q)
      BY <2>1, <2>2 DEF Taken
    <3> QED
      BY <1>5, <2>1, <2>2, <3>1
  <2>3. CASE i > k
    <3>1. i - k \in 1..Len(t) /\ (i - k) + k = i /\ i - k \in Int
      BY <1>1, <2>3
    <3>2. q \in Who(t[i - k].ups) /\ Later(t, i - k, n)
      BY <1>1, <1>2, <2>1, <3>1
    <3> QED
      BY <3>1, <3>2 DEF PassedBy
  <2> QED
    BY <1>1, <2>2, <2>3
<1>7. CASE tab[c].applied[q] >= n /\ Later(s, 1, n)
  <2>1. CASE Taken(s, k, q)
    <3>1. 1 \in 1..Len(s) /\ 1 <= k
      BY <1>1, <2>1 DEF Taken
    <3> QED
      BY <1>5, <1>7, <2>1, <3>1
  <2>2. CASE ~Taken(s, k, q)
    <3>1. tab'[c].applied[q] = tab[c].applied[q]
      BY <2>2 DEF HandsOver, Silent
    <3> QED
      BY <1>4, <1>7, <3>1 DEF PassedBy
  <2> QED
    BY <2>1, <2>2
<1> QED
  BY <1>6, <1>7 DEF PassedBy

(* The log replayed from a number on: of each player one move, its last,    *)
(* which is where it is when the log is long enough to have it.             *)
LEMMA ReplayNewest ==
  ASSUME plog \in Seq(Batches), LogOK, Newest(plog, pos), NEW from \in Nat
  PROVE  Single(Replay(Missing(from))) /\ \A u \in Replay(Missing(from)) : u.who \in Players /\ u.at = pos[u.who]
<1> DEFINE I == {i \in DOMAIN plog : plog[i].seq > from}
           x == Missing(from)
           n == Len(plog)
<1>1. PicksTo(x, n, plog, I, Batches)
  <2>1. x = Picked(plog, I)
    BY DEF Missing
  <2> HIDE DEF I, x
  <2> QED
    BY <2>1, PickedAt
<1>2. n \in Nat /\ \A i : i \in I <=> i \in 1..n /\ plog[i].seq > from
  OBVIOUS
<1> HIDE DEF I, x, n
<1>3. PICK g \in [1..Len(x) -> I \intersect (1..n)] :
         /\ \A j \in 1..Len(x) : x[j] = plog[g[j]]
         /\ \A j, i \in 1..Len(x) : g[j] = g[i] => j = i
         /\ \A j, i \in 1..Len(x) : j < i => g[j] < g[i]
         /\ \A i \in I \intersect (1..n) : \E j \in 1..Len(x) : g[j] = i
  BY <1>1 DEF PicksTo
<1>4. x \in Seq(Batches) /\ Len(x) \in Nat
  BY <1>1 DEF PicksTo
<1>5. ASSUME NEW u \in Replay(x)
      PROVE  \E j \in 1..Len(x) : u \in x[j].ups /\ \A i \in 1..Len(x) : i > j => u.who \notin Who(x[i].ups)
  <2>1. PICK j \in 1..Len(x) : u \in x[j].ups /\ \A i \in (j + 1)..Len(x) : u.who \notin Who(x[i].ups)
    BY DEF Replay
  <2>2. \A i \in 1..Len(x) : i > j => i \in (j + 1)..Len(x)
    BY <1>4
  <2> QED
    BY <2>1, <2>2
<1>6. ASSUME NEW u \in Replay(x) PROVE u.who \in Players /\ u.at = pos[u.who]
  <2>1. PICK j \in 1..Len(x) : u \in x[j].ups /\ \A i \in 1..Len(x) : i > j => u.who \notin Who(x[i].ups)
    BY <1>5
  <2>2. g[j] \in I \intersect (1..n) /\ x[j] = plog[g[j]]
    BY <1>3
  <2>3. ASSUME NEW i \in 1..n, i > g[j] PROVE u.who \notin Who(plog[i].ups)
    <3>1. plog[g[j]].seq < plog[i].seq /\ plog[g[j]].seq > from
      BY <1>2, <2>2, <2>3 DEF LogOK, n
    <3>2. plog[g[j]].seq \in Nat /\ plog[i].seq \in Nat
      <4>1. plog[g[j]] \in Batches /\ plog[i] \in Batches
        BY <1>2, <2>2 DEF n
      <4> QED
        BY <4>1 DEF Batches, Numbers
    <3>3. i \in I \intersect (1..n)
      BY <1>2, <3>1, <3>2
    <3>4. PICK m \in 1..Len(x) : g[m] = i
      BY <1>3, <3>3
    <3>5. m > j
      <4>1. m = j \/ m < j \/ m > j
        BY <1>4
      <4>2. g[m] \in 1..n /\ g[j] \in 1..n
        BY <1>3
      <4>3. m < j => g[m] < g[j]
        BY <1>3
      <4> QED
        BY <1>2, <2>3, <3>4, <4>1, <4>2, <4>3
    <3> QED
      BY <1>3, <2>1, <3>4, <3>5
  <2>4. u.at = pos[u.who]
    BY <2>1, <2>2, <2>3 DEF Newest, n
  <2>5. x[j] \in Batches
    BY <1>4
  <2> QED
    BY <2>1, <2>4, <2>5 DEF Batches, Updates
<1>7. ASSUME NEW u \in Replay(x), NEW v \in Replay(x), u.who = v.who PROVE u = v
  <2>1. PICK j \in 1..Len(x) : u \in x[j].ups /\ \A i \in 1..Len(x) : i > j => u.who \notin Who(x[i].ups)
    BY <1>5
  <2>2. PICK m \in 1..Len(x) : v \in x[m].ups /\ \A i \in 1..Len(x) : i > m => v.who \notin Who(x[i].ups)
    BY <1>5
  <2>3. ~(m > j) /\ ~(j > m)
    BY <1>7, <2>1, <2>2 DEF Who
  <2>4. m = j
    BY <2>3
  <2>5. Single(x[j].ups)
    <3>1. x[j] = plog[g[j]] /\ g[j] \in 1..n
      BY <1>3
    <3> QED
      BY <3>1 DEF LogOK, n
  <2> QED
    BY <1>7, <2>1, <2>2, <2>4, <2>5 DEF Single
<1> QED
  BY <1>6, <1>7 DEF Single, x

-----------------------------------------------------------------------------
(* A browser with an answer on its way keeps what it has applied, unless it *)
(* is told to clear it: then it may be wrong about everybody.               *)
LEMMA AppliedKept ==
  ASSUME SocketsOK, QueuesOK, BatchesOK, BudgetOK, TabsOK, AppliedOK, BlurOK, OriginOK, Next,
         \A w \in WAS : ~Flush(w) /\ ~Broadcast(w) /\ ~Remote(w),
         NEW r \in reqs, r \in reqs'
  PROVE  \/ blurred'[r.who] = Players
         \/ seq' = seq /\ \A q \in Players : tab'[r.who].applied[q] >= tab[r.who].applied[q]
<1> DEFINE c == r.who
<1>1. /\ c \in Players /\ stage[c] \in InRoom /\ stage'[c] \in InRoom /\ Confused(c) = Players
      /\ DOMAIN tab = Players /\ \A q \in Players : tab[c].applied[q] \in Nat
  <2>1. TabsOK'
    BY TabsStep DEF PositionsOK
  <2>2. IsRequest(r) /\ stage[c] \in InRoom /\ stage'[c] \in InRoom /\ DOMAIN tab = Players
    BY <2>1 DEF TabsOK
  <2>3. c \in Players
    BY <2>2 DEF IsRequest
  <2> QED
    BY <2>2, <2>3 DEF Confused, AppliedOK
<1> DEFINE Grows == \A q \in Players : tab'[c].applied[q] >= tab[c].applied[q]
<1>2. tab'[c].applied = tab[c].applied => Grows
  BY <1>1
<1>3. BlurOK' /\ \A d \in Players : blurred[d] \subseteq blurred'[d]
  BY BlurStep
<1>4. ASSUME NEW p \in Players, Announce(p) PROVE blurred'[c] = Players
  <2>1. blurred' = [d \in Players |-> IF d \in Present THEN blurred[d] \union Confused(d) ELSE blurred[d]]
    BY <1>4 DEF Announce, PositionAnnounced
  <2>2. c \in Present
    BY <1>1, ClientsInRoom DEF Present
  <2> QED
    BY <1>1, <1>3, <2>1, <2>2 DEF BlurOK
<1>5. ASSUME NEW p \in Players, SnapEmit(p) PROVE blurred'[c] = Players \/ (seq' = seq /\ Grows)
  <2>1. /\ blurred' = [blurred EXCEPT ![p] = @ \union Confused(p)] /\ seq' = seq
        /\ tab' = [tab EXCEPT ![p] = HearJoin(@, snap[p])]
    BY <1>5 DEF SnapEmit, PositionSettles
  <2>2. CASE c = p
    BY <1>1, <1>3, <2>1, <2>2 DEF BlurOK
  <2>3. CASE c # p
    <3>1. tab'[c].applied = tab[c].applied
      BY <1>1, <2>1, <2>3
    <3> QED
      BY <1>2, <2>1, <3>1
  <2> QED
    BY <2>2, <2>3
<1>6. ASSUME NEW p \in Players, Leave(p) PROVE blurred'[c] = Players \/ (seq' = seq /\ Grows)
  <2>1. CASE LastOfWAS(p)
    <3>1. blurred' = [d \in Players |-> IF LastOfWAS(p) THEN blurred[d] \union Confused(d) ELSE blurred[d]]
      BY <1>6 DEF Leave, PositionLeaves
    <3> QED
      BY <1>1, <1>3, <2>1, <3>1 DEF BlurOK
  <2>2. CASE ~LastOfWAS(p)
    <3>1. c # p
      BY <1>1, <1>6 DEF Leave, SocketLeaves, To, SocketsOK, SocketsTypeOK, InRoom
    <3>2. seq' = seq
      BY <1>6, <2>2 DEF Leave, PositionLeaves
    <3>3. \/ tab'[c] = tab[c]
          \/ tab'[c] = [tab[c] EXCEPT !.shown = [x \in DOMAIN tab[c].shown \ {p} |-> tab[c].shown[x]]]
      BY <1>1, <1>6, <3>1 DEF Leave, PositionLeaves
    <3>4. DOMAIN tab[c] = {"shown", "last", "applied", "waits"}
      BY <1>1 DEF TabsOK, IsTab
    <3>5. tab'[c].applied = tab[c].applied
      BY <3>3, <3>4
    <3> QED
      BY <1>2, <3>2, <3>5
  <2> QED
    BY <2>1, <2>2
<1>7. ASSUME NEW x \in reqs, Answer(x) PROVE seq' = seq /\ Grows
  <2>1. /\ x.who \in Players /\ x.cur \in Nat /\ \A d \in Players \ {x.who} : tab'[d] = tab[d]
        /\ \A q \in Players : \/ Silent(x.who, q)
                              \/ x.cur > tab[x.who].applied[q] /\ tab'[x.who].applied[q] = x.cur
    BY <1>7, AnswerTells
  <2>2. seq' = seq
    BY <1>7 DEF Answer
  <2>3. CASE c = x.who
    <3> SUFFICES ASSUME NEW q \in Players PROVE tab'[c].applied[q] >= tab[c].applied[q]
      BY <2>2
    <3>1. tab[c].applied[q] \in Nat
      BY <1>1
    <3>2. CASE Silent(c, q)
      BY <3>1, <3>2 DEF Silent
    <3>3. CASE x.cur > tab[c].applied[q] /\ tab'[c].applied[q] = x.cur
      BY <2>1, <3>1, <3>3
    <3> QED
      BY <2>1, <2>3, <3>2, <3>3
  <2>4. CASE c # x.who
    BY <1>1, <1>2, <2>1, <2>2, <2>4
  <2> QED
    BY <2>3, <2>4
<1>8. UNCHANGED tab => Grows
  BY <1>1
<1> HIDE DEF Grows, c
<1>9. /\ seq' = seq \/ \E p \in Players : Leave(p)
      /\ \/ UNCHANGED tab
         \/ \E p \in Players : Announce(p) \/ SnapEmit(p) \/ Leave(p)
         \/ \E x \in reqs : Answer(x)
  BY Framed DEF Frames, PositionFrames
<1>10. blurred'[c] = Players \/ (seq' = seq /\ Grows)
  BY <1>4, <1>5, <1>6, <1>7, <1>8, <1>9
<1> QED
  BY <1>10 DEF Grows, c

(* What was overtaken stays so when more has been applied.                  *)
LEMMA PassedMore ==
  ASSUME NEW s, NEW a \in Nat, NEW b \in Nat, b >= a, NEW q, NEW n \in Nat, PassedBy(s, a, q, n)
  PROVE  PassedBy(s, b, q, n)
BY DEF PassedBy

(* What is on its way to a browser stays true of where the player is, or    *)
(* overtaken.                                                               *)
LEMMA AnswerKept ==
  ASSUME SocketsOK, QueuesOK, BatchesOK, BudgetOK, TabsOK, PlacesOK, Next, NEW r \in reqs, r \in reqs'
  PROVE  blurred'[r.who] = Players \/ AnswerOK(r)'
<1>0. /\ LivesOK /\ OriginOK /\ LogOK /\ NewestOK /\ AppliedOK /\ BlurOK /\ RequestPlaces
  BY DEF PlacesOK
<1> DEFINE c == r.who
           n == r.cur
<1>1. c \in Players /\ n \in Nat /\ stage[c] \in InRoom /\ stage'[c] \in InRoom /\ seq \in Nat
  <2>1. TabsOK'
    BY TabsStep DEF PositionsOK
  <2>2. IsRequest(r) /\ stage[c] \in InRoom /\ stage'[c] \in InRoom
    BY <2>1 DEF TabsOK
  <2> QED
    BY <2>2, SocketsBound DEF IsRequest, BatchesOK
<1>2. AppliedOK' /\ BlurOK' /\ blurred[c] \subseteq blurred'[c] /\ \A p \in Players : alive'[p] => alive[p]
  BY <1>0, <1>1, AppliedStep, BlurStep, LivesStay
<1>3. CASE blurred[c] = Players
  BY <1>1, <1>2, <1>3 DEF BlurOK
<1>4. ASSUME blurred[c] # Players, blurred'[c] # Players PROVE AnswerOK(r)'
  <2>0. /\ r.pc # "sent" => n <= seq
        /\ r.pc = "ready" => \A u \in r.ups :
              u.who \in Players /\ (alive[u.who] => u.at = pos[u.who] \/ PassedBy(Way(home[c], u.who), tab[c].applied[u.who], u.who, n))
    BY <1>0, <1>4 DEF RequestPlaces, AnswerOK, Passed
  <2>1. ASSUME NEW w \in WAS, Flush(w)
        PROVE  /\ n <= seq => n <= seq'
               /\ \A q \in Players : \A at :
                    /\ n <= seq /\ (at = pos[q] \/ PassedBy(Way(home[c], q), tab[c].applied[q], q, n))
                    => at = pos'[q] \/ PassedBy(Way(home[c], q)', tab'[c].applied[q], q, n)
    <3> DEFINE b == Batch(seq + 1, inq[w])
    <3>0. seq' = seq + 1 /\ tab' = tab
      BY <2>1, FlushWrites
    <3> SUFFICES ASSUME NEW q \in Players, NEW at, n <= seq,
                        at = pos[q] \/ PassedBy(Way(home[c], q), tab[c].applied[q], q, n)
                 PROVE  at = pos'[q] \/ PassedBy(Way(home[c], q)', tab'[c].applied[q], q, n)
      BY <1>1, <3>0
    <3> DEFINE s == Way(home[c], q)
               t == Way(home[c], q)'
               a == tab[c].applied[q]
    <3>1. /\ b \in Batches /\ b.seq = seq + 1 /\ (q \in Who(b.ups) \/ pos'[q] = pos[q])
          /\ t = Append(s, b) \/ (t = s /\ q \notin Who(b.ups))
      BY <1>1, <2>1, FlushOnWay
    <3>2. s \in Seq(Batches) /\ tab'[c].applied[q] = a
      BY <1>0, <1>1, <3>0, WayNewest
    <3>3. at = pos[q] \/ PassedBy(s, a, q, n)
      OBVIOUS
    <3> HIDE DEF b, s, t, a
    <3>4. PassedBy(s, a, q, n) \/ q \in Who(b.ups) => PassedBy(Append(s, b), a, q, n)
      <4>1. b.seq > n
        BY <1>1, <3>1
      <4> QED
        BY <3>1, <3>2, <4>1, PassedAppend
    <3>5. at = pos'[q] \/ PassedBy(t, a, q, n)
      BY <3>1, <3>3, <3>4
    <3> QED
      BY <3>2, <3>5 DEF t
  <2>2. ASSUME NEW w \in WAS, Broadcast(w) \/ Remote(w)
        PROVE  /\ n <= seq => n <= seq'
               /\ \A q \in Players : \A at :
                    /\ alive[q] /\ (at = pos[q] \/ PassedBy(Way(home[c], q), tab[c].applied[q], q, n))
                    => at = pos'[q] \/ PassedBy(Way(home[c], q)', tab'[c].applied[q], q, n)
    <3>0. seq' = seq /\ pos' = pos
      BY <2>2 DEF Broadcast, Remote
    <3> SUFFICES ASSUME NEW q \in Players, alive[q], PassedBy(Way(home[c], q), tab[c].applied[q], q, n)
                 PROVE  PassedBy(Way(home[c], q)', tab'[c].applied[q], q, n)
      BY <3>0
    <3>1. PICK k \in Nat : HandsOver(c, q, Way(home[c], q), Way(home[c], q)', k)
      BY <1>0, <1>1, <2>2, BroadcastHands, RemoteHands
    <3> DEFINE s == Way(home[c], q)
               t == Way(home[c], q)'
    <3>2. s \in Seq(Batches)
      BY <1>0, <1>1, WayNewest
    <3>3. HandsOver(c, q, s, t, k) /\ PassedBy(s, tab[c].applied[q], q, n) /\ tab[c].applied[q] \in Nat
      BY <1>0, <1>1, <3>1 DEF AppliedOK
    <3> HIDE DEF s, t, c, n
    <3>4. c \in Players /\ n \in Nat
      BY <1>1
    <3>5. PassedBy(t, tab'[c].applied[q], q, n)
      BY <3>2, <3>3, <3>4, PassedHanded
    <3> QED
      BY <3>5 DEF t
  <2>3. ASSUME \A w \in WAS : ~Flush(w) /\ ~Broadcast(w) /\ ~Remote(w)
        PROVE  /\ n <= seq => n <= seq'
               /\ \A q \in Players : \A at :
                    at = pos[q] \/ PassedBy(Way(home[c], q), tab[c].applied[q], q, n)
                    => at = pos'[q] \/ PassedBy(Way(home[c], q)', tab'[c].applied[q], q, n)
    <3>0. seq' = seq /\ pos' = pos /\ \A q \in Players : tab'[c].applied[q] >= tab[c].applied[q]
      BY <1>0, <1>1, <1>4, <2>3, AppliedKept, LivesStay
    <3> SUFFICES ASSUME NEW q \in Players, PassedBy(Way(home[c], q), tab[c].applied[q], q, n)
                 PROVE  PassedBy(Way(home[c], q)', tab'[c].applied[q], q, n)
      BY <3>0
    <3>1. Way(home[c], q)' = Way(home[c], q)
      BY <1>1, <2>3, WaySteady
    <3> DEFINE s == Way(home[c], q)
               a == tab[c].applied[q]
               b == tab'[c].applied[q]
    <3>2. PassedBy(s, a, q, n) /\ a \in Nat /\ b \in Nat /\ b >= a /\ n \in Nat
      BY <1>0, <1>1, <1>2, <3>0 DEF AppliedOK
    <3> HIDE DEF s, a, b, n
    <3>3. PassedBy(s, b, q, n)
      BY <3>2, PassedMore
    <3> QED
      BY <3>1, <3>3 DEF s, b
  <2>4. /\ n <= seq => n <= seq'
        /\ \A q \in Players : \A at :
             /\ n <= seq /\ alive[q] /\ (at = pos[q] \/ PassedBy(Way(home[c], q), tab[c].applied[q], q, n))
             => at = pos'[q] \/ PassedBy(Way(home[c], q)', tab'[c].applied[q], q, n)
    <3>1. (\E w \in WAS : Flush(w)) \/ (\E w \in WAS : Broadcast(w) \/ Remote(w))
          \/ \A w \in WAS : ~Flush(w) /\ ~Broadcast(w) /\ ~Remote(w)
      OBVIOUS
    <3> QED
      BY <2>1, <2>2, <2>3, <3>1
  <2>5. ASSUME r.pc = "ready", NEW u \in r.ups
        PROVE  u.who \in Players /\ (alive'[u.who] => u.at = pos'[u.who] \/ Passed(c, u.who, n)')
    <3>1. u.who \in Players /\ (alive[u.who] => u.at = pos[u.who] \/ PassedBy(Way(home[c], u.who), tab[c].applied[u.who], u.who, n))
      BY <2>0, <2>5
    <3>2. n <= seq
      BY <2>0, <2>5
    <3>3. alive'[u.who] => u.at = pos'[u.who] \/ PassedBy(Way(home[c], u.who)', tab'[c].applied[u.who], u.who, n)
      BY <1>2, <2>4, <3>1, <3>2
    <3> QED
      BY <3>1, <3>3 DEF Passed
  <2> QED
    BY <2>0, <2>4, <2>5 DEF AnswerOK
<1> QED
  BY <1>3, <1>4

(* What a request reads is true when it reads it.                           *)
LEMMA RequestPlacesStep ==
  ASSUME SocketsOK, QueuesOK, BatchesOK, BudgetOK, TabsOK, PlacesOK, Next
  PROVE  RequestPlaces'
<1>0. /\ LogOK /\ NewestOK /\ RequestPlaces /\ BlurOK /\ OriginOK /\ plog \in Seq(Batches) /\ seq \in Nat
  BY DEF PlacesOK, BatchesOK
<1>1. ASSUME NEW r \in reqs, r \in reqs'
      PROVE  (r.pc = "ready" => Single(r.ups)) /\ (blurred'[r.who] = Players \/ AnswerOK(r)')
  BY <1>0, <1>1, AnswerKept DEF RequestPlaces
<1>2. ASSUME NEW x \in reqs, ReadSeq(x) \/ ReadLog(x) \/ ReadSnapshot(x), NEW r \in reqs', r \notin reqs
      PROVE  (r.pc = "ready" => Single(r.ups)) /\ (blurred'[r.who] = Players \/ AnswerOK(r)')
  <2>1. UNCHANGED <<pos, alive, seq, blurred, tab, home, pend, flown, chan>>
    BY <1>2 DEF ReadSeq, ReadLog, ReadSnapshot, sockets
  <2>2. /\ IsRequest(x) /\ x.cur \in Nat /\ x.from \in Nat
        /\ blurred[x.who] = Players \/ AnswerOK(x)
    <3>1. IsRequest(x) /\ (blurred[x.who] = Players \/ AnswerOK(x))
      BY <1>0 DEF TabsOK, RequestPlaces
    <3> QED
      BY <3>1, SocketsBound DEF IsRequest
  <2>3. DOMAIN x = {"who", "pc", "from", "cur", "ups", "alive"}
    BY <2>2 DEF IsRequest
  <2>4. CASE ReadSeq(x)
    <3>1. r = [x EXCEPT !.pc = "log", !.cur = seq, !.alive = alive[x.who]]
      BY <1>2, <2>4 DEF ReadSeq
    <3>2. r.pc = "log" /\ r.cur = seq
      BY <2>3, <3>1
    <3> QED
      BY <1>0, <2>1, <3>2 DEF AnswerOK
  <2>5. CASE ReadLog(x)
    <3>0. x.pc = "log" /\ (r = [x EXCEPT !.pc = "snapshot"] \/ r = [x EXCEPT !.pc = "ready", !.ups = Replay(Missing(x.from))])
      BY <1>2, <2>5 DEF ReadLog
    <3>1. r.who = x.who /\ r.cur = x.cur /\ (r.pc = "snapshot" \/ (r.pc = "ready" /\ r.ups = Replay(Missing(x.from))))
      BY <2>3, <3>0
    <3>2. blurred[x.who] = Players \/ r.cur <= seq
      BY <2>2, <3>0, <3>1 DEF AnswerOK
    <3>3. Single(Replay(Missing(x.from))) /\ \A u \in Replay(Missing(x.from)) : u.who \in Players /\ u.at = pos[u.who]
      BY <1>0, <2>2, ReplayNewest DEF NewestOK
    <3> QED
      BY <2>1, <3>1, <3>2, <3>3 DEF AnswerOK
  <2>6. CASE ReadSnapshot(x)
    <3> DEFINE ups == {Update(q, pos[q], alive[q]) : q \in members}
    <3>0. x.pc = "snapshot" /\ r = [x EXCEPT !.pc = "ready", !.ups = ups]
      BY <1>2, <2>6 DEF ReadSnapshot
    <3>1. r.who = x.who /\ r.cur = x.cur /\ r.pc = "ready" /\ r.ups = ups
      BY <2>3, <3>0
    <3>2. blurred[x.who] = Players \/ r.cur <= seq
      BY <2>2, <3>0, <3>1 DEF AnswerOK
    <3>3. Single(ups) /\ \A u \in ups : u.who \in Players /\ u.at = pos[u.who]
      <4>1. members \subseteq Players
        BY DEF SocketsOK, SocketsTypeOK
      <4>2. \A u \in ups : u.who \in members /\ u = Update(u.who, pos[u.who], alive[u.who])
        BY DEF Update
      <4> HIDE DEF ups
      <4>3. \A u \in ups : u.at = pos[u.who]
        BY <4>2 DEF Update
      <4> QED
        BY <4>1, <4>2, <4>3 DEF Single
    <3> HIDE DEF ups
    <3> QED
      BY <2>1, <3>1, <3>2, <3>3 DEF AnswerOK
  <2> QED
    BY <1>2, <2>4, <2>5, <2>6
<1>3. ASSUME NEW w \in WAS, Broadcast(w) \/ Remote(w), NEW r \in reqs', r \notin reqs
      PROVE  (r.pc = "ready" => Single(r.ups)) /\ (blurred'[r.who] = Players \/ AnswerOK(r)')
  <2>1. r.pc = "sent"
    BY <1>0, <1>3, BroadcastHands, RemoteHands
  <2> QED
    BY <2>1 DEF AnswerOK
<1>4. ASSUME NEW r \in reqs', r \notin reqs
      PROVE  \/ \E w \in WAS : Broadcast(w) \/ Remote(w)
             \/ \E x \in reqs : ReadSeq(x) \/ ReadLog(x) \/ ReadSnapshot(x)
  <2>1. ASSUME NEW p \in Players, Leave(p) PROVE reqs' \subseteq reqs
    BY <2>1 DEF Leave, PositionLeaves
  <2>2. ASSUME NEW x \in reqs, Answer(x) PROVE reqs' \subseteq reqs
    BY <2>2 DEF Answer
  <2> QED
    BY <1>4, <2>1, <2>2, Framed DEF Frames, PositionFrames
<1> QED
  BY <1>1, <1>2, <1>3, <1>4 DEF RequestPlaces

(* Every step keeps the places.                                             *)
LEMMA PlacesStep ==
  ASSUME SocketsOK, PositionsOK, PlacesOK, Next
  PROVE  PlacesOK'
<1>0. /\ QueuesOK /\ BatchesOK /\ BudgetOK /\ TabsOK
      /\ LivesOK /\ OriginOK /\ LogOK /\ NewestOK /\ AppliedOK /\ BlurOK /\ ShownPlaces
  BY DEF PlacesOK, PositionsOK
<1>1. LivesOK' /\ OriginOK' /\ LogOK' /\ NewestOK' /\ AppliedOK' /\ BlurOK'
  BY <1>0, LivesStep, OriginStep, LogStep, NewestStep, AppliedStep, BlurStep
<1>2. ShownPlaces'
  <2>1. ASSUME NEW c \in Players, stage'[c] = "out" PROVE DOMAIN tab'[c].shown = {}
    BY <1>0, <2>1, EmptyStays
  <2>2. ASSUME NEW c \in Players, stage'[c] \in InRoom, NEW q \in DOMAIN tab'[c].shown \ blurred'[c]
        PROVE  UpToDate(c, q, tab[c].shown[q])'
    BY <1>0, <2>2, PlacesShown DEF UpToDate
  <2> QED
    BY <2>1, <2>2 DEF ShownPlaces
<1>3. SnapPlaces'
  <2>1. ASSUME NEW c \in Players, stage'[c] = "reading", NEW q \in DOMAIN snap'[c] \ blurred'[c]
        PROVE  UpToDate(c, q, snap[c][q])'
    BY <1>0, <2>1, PlacesRead DEF UpToDate
  <2> QED
    BY <2>1 DEF SnapPlaces
<1>4. RequestPlaces'
  BY <1>0, RequestPlacesStep
<1> QED
  BY <1>1, <1>2, <1>3, <1>4 DEF PlacesOK

(* A stutter keeps the places.                                              *)
LEMMA PlacesStutter ==
  ASSUME PlacesOK, UNCHANGED vars
  PROVE  PlacesOK'
<1>1. UNCHANGED <<home, stage, alive, dead, pos, seq, plog, inq, flown, pend, chan, tab, snap, reqs, blurred>>
  BY DEF vars, sockets, positions
<1>2. \A w, q : /\ Queued(w)' = Queued(w)
                /\ Way(w, q)' = Way(w, q)
  BY <1>1 DEF Queued, Way
<1> QED
  BY <1>1, <1>2 DEF PlacesOK, LivesOK, OriginOK, LogOK, NewestOK, AppliedOK, BlurOK, ShownPlaces,
     SnapPlaces, RequestPlaces, AnswerOK, ToldAlive, UpToDate, Passed

(* When nothing is on its way, what is shown is where the player is.        *)
LEMMA QuietPlaces ==
  ASSUME SocketsOK, PlacesOK
  PROVE  SettledAsStored
<1> SUFFICES ASSUME PositionQuiet, NEW c \in Players, stage[c] = "in",
                    NEW q \in DOMAIN tab[c].shown \ blurred[c], alive[q]
             PROVE  tab[c].shown[q] = pos[q]
  BY DEF SettledAsStored
<1>1. stage[c] \in InRoom /\ home[c] \in WAS /\ c \in Clients(home[c])
  <2>1. stage[c] \in InRoom
    BY DEF InRoom, Stages
  <2> QED
    BY <2>1, ClientsInRoom
<1>2. pend[home[c]] = << >> /\ flown[home[c]] = << >> /\ chan[home[c]] = << >>
  BY <1>1 DEF PositionQuiet
<1>3. Len(Way(home[c], q)) = 0
  <2>1. << >> \in Seq(Batches) /\ Len(<< >>) = 0
    OBVIOUS
  <2>2. << >> \o << >> = << >>
    BY <2>1, ConcatEmptySeq
  <2> QED
    BY <1>2, <2>1, <2>2 DEF Way, Queued
<1>4. ~About(Way(home[c], q), q)
  BY <1>3 DEF About
<1> QED
  BY <1>1, <1>4 DEF PlacesOK, ShownPlaces, UpToDate

(* When nothing is on its way any more, every browser shows each player     *)
(* where Redis has it (broadcastRoom, handlePositionMessage, the            *)
(* retransmission and the snapshot of a joinRoom, with the browser's        *)
(* positionUpdateListener).                                                 *)
THEOREM DeliverySettles == Spec => []SettledAsStored
<1>1. Init => PlacesOK
  BY LivesStart, WaysStart, PlacesStart DEF PlacesOK
<1>2. ASSUME DeliveryOK, PlacesOK, [Next]_vars PROVE PlacesOK'
  BY <1>2, PlacesStep, PlacesStutter DEF DeliveryOK
<1>3. DeliveryOK /\ PlacesOK => SettledAsStored
  BY QuietPlaces DEF DeliveryOK
<1> QED
  BY <1>1, <1>2, <1>3, DeliveryInvariant, PTL DEF Spec
=============================================================================
