---------------------------- MODULE ChatDelivery ----------------------------
(***************************************************************************)
(* Theorems about what the chat pipeline of Delivery shows: no message is  *)
(* broadcast twice to a browser, and none of those due to it is lost.      *)
(***************************************************************************)
EXTENDS DeliveryProofs

-----------------------------------------------------------------------------
(* The inductive invariant                                                  *)

MessageNumbers == 1..MaxInputs
Messages == [m : MessageNumbers, alive : BOOLEAN]
Entries  == [seq : Nat, texts : Seq(MessageNumbers)]
Distinct(es) == \A i, j \in 1..Len(es) : es[i].m = es[j].m => i = j

(* A number is drawn once, and is in one queue or in the stream.            *)
StoreOK ==
  /\ stream \in Seq(Messages) /\ cq \in [WAS -> Seq(Messages)] /\ cut \in 0..Len(stream)
  /\ Distinct(stream) /\ \A i \in 1..Len(stream) : stream[i].m <= used
  /\ \A w \in WAS : Distinct(cq[w]) /\ \A i \in 1..Len(cq[w]) : cq[w][i].m <= used
  /\ \A w \in WAS : \A i \in 1..Len(cq[w]) :
       /\ \A j \in 1..Len(stream) : cq[w][i].m # stream[j].m
       /\ \A v \in WAS \ {w} : \A j \in 1..Len(cq[v]) : cq[w][i].m # cq[v][j].m

(* How far a WAS has come in the stream, and what it still has in hand: a   *)
(* part of that, each message once.                                         *)
Upto(w) == Larger(cut, lastId[w])
CursorOK ==
  /\ lastId \in [WAS -> Nat] /\ \A w \in WAS : lastId[w] <= Len(stream)
  /\ \A w \in WAS : Clients(w) = {} => lastId[w] = 0
Among(x, s, n) == \E k \in 1..n : x = s[k]
Within(q, s, n) == \A j \in 1..Len(q) : \A e \in 1..Len(q[j]) : Among(q[j][e], s, n)
Apart(q) ==
  \A j, l \in 1..Len(q) : \A e \in 1..Len(q[j]) : \A f \in 1..Len(q[l]) :
    q[j][e].m = q[l][f].m => (j = l /\ e = f)
InHandOK ==
  /\ out \in [WAS -> Seq(Seq(Messages))]
  /\ \A w \in WAS : Within(out[w], stream, Upto(w)) /\ Apart(out[w])

(* The messages of a batch, those of the living in it, and those of the     *)
(* batches in hand; what a stream has up to a place, and the living after.  *)
Ms(es) == {es[i].m : i \in 1..Len(es)}
Alives(es) == {es[i].m : i \in {i \in 1..Len(es) : es[i].alive}}
Hand(q) == UNION {Ms(q[j]) : j \in 1..Len(q)}
HandAlive(q) == UNION {Alives(q[j]) : j \in 1..Len(q)}
UpTo(s, n) == {s[k].m : k \in 1..n}
AliveAfter(s, n) == {s[k].m : k \in {k \in (n + 1)..Len(s) : s[k].alive}}

(* What a browser shows is what its WAS has read and has not in hand.       *)
Fits(shown, s, n, q) ==
  /\ IsInjective(shown) /\ Range(shown) \subseteq UpTo(s, n)
  /\ Range(shown) \intersect Hand(q) = {}
ShownOK ==
  \A c \in Players :
    /\ ctab[c].shown \in Seq(MessageNumbers)
    /\ stage[c] \notin InRoom => ctab[c].shown = << >>
    /\ stage[c] \in InRoom => ctab[c].again \/ Fits(ctab[c].shown, stream, Upto(home[c]), out[home[c]])

(* What is due to a browser it shows, or its WAS has in hand or unread.     *)
DueOK ==
  \A c \in Players :
    /\ due[c] \subseteq MessageNumbers
    /\ stage[c] = "out" => due[c] = {}
    /\ stage[c] \in InRoom =>
         due[c] \subseteq Range(ctab[c].shown) \union HandAlive(out[home[c]]) \union AliveAfter(stream, Upto(home[c]))

LogsOK ==
  /\ blog \in [WAS -> Seq(Entries)] /\ \A w \in WAS : Len(blog[w]) <= BatchLogSize
  /\ busy \in [WAS -> BOOLEAN] /\ \A w \in WAS : busy[w] => out[w] # << >>

-----------------------------------------------------------------------------
(* Messages are stored once                                                 *)

LEMMA StoreStart == Init => StoreOK
<1>1. Init => cq = [w \in WAS |-> << >>] /\ stream = << >> /\ cut = 0
  BY DEF Init, Start, ChatInit
<1>2. << >> \in Seq(Messages) /\ Len(<< >>) = 0 /\ 1..0 = {} /\ 0 \in 0..0
  OBVIOUS
<1> QED
  BY <1>1, <1>2 DEF StoreOK, Distinct

LEMMA StoreStep ==
  ASSUME SocketsOK, StoreOK, Next
  PROVE  StoreOK'
<1>0. /\ used \in Nat /\ used' \in {used, used + 1} /\ MaxInputs \in Nat /\ home \in [Players -> WAS]
      /\ \A x \in Messages : x.m \in Nat
      /\ \A w \in WAS : cq[w] \in Seq(Messages)
  <2>1. used \in Nat /\ MaxInputs \in Nat /\ home \in [Players -> WAS]
    BY SocketsBound, SocketsRoutes DEF SocketsOK, SocketsTypeOK
  <2>2. used' \in {used, used + 1}
    BY Framed DEF Frames
  <2>3. \A x \in Messages : x.m \in Nat
    BY <2>1 DEF Messages, MessageNumbers
  <2>4. \A w \in WAS : cq[w] \in Seq(Messages)
    BY DEF StoreOK
  <2> QED
    BY <2>1, <2>2, <2>3, <2>4
<1>s. /\ stream \in Seq(Messages) /\ Distinct(stream)
      /\ \A i \in 1..Len(stream) : stream[i].m \in Nat /\ stream[i].m <= used
  BY <1>0 DEF StoreOK
<1>q. ASSUME NEW w \in WAS
      PROVE  /\ cq[w] \in Seq(Messages) /\ Distinct(cq[w])
             /\ \A i \in 1..Len(cq[w]) :
                  /\ cq[w][i].m \in Nat /\ cq[w][i].m <= used
                  /\ \A j \in 1..Len(stream) : cq[w][i].m # stream[j].m
  BY <1>0 DEF StoreOK
<1>v. ASSUME NEW w \in WAS, NEW v \in WAS, v # w, NEW i \in 1..Len(cq[w]), NEW j \in 1..Len(cq[v])
      PROVE  cq[w][i].m # cq[v][j].m
  BY <1>v DEF StoreOK
<1>1. ASSUME NEW p \in Players, Say(p) PROVE StoreOK'
  <2> DEFINE w == home[p]
             x == Message(used + 1, p \notin dead[w])
  <2>1. /\ cq' = [cq EXCEPT ![w] = Append(@, x)] /\ UNCHANGED <<stream, cut>>
        /\ used < MaxInputs /\ used' = used + 1 /\ w \in WAS
    BY <1>0, <1>1 DEF Say, Input
  <2>2. x \in Messages /\ x.m = used + 1
    BY <1>0, <2>1 DEF Message, Messages, MessageNumbers
  <2> HIDE DEF x, w
  <2>3. /\ cq'[w] \in Seq(Messages) /\ Len(cq'[w]) = Len(cq[w]) + 1 /\ cq'[w][Len(cq[w]) + 1] = x
        /\ \A i \in 1..Len(cq[w]) : cq'[w][i] = cq[w][i]
        /\ \A v \in WAS \ {w} : cq'[v] = cq[v]
        /\ Len(cq[w]) \in Nat /\ cq' \in [WAS -> Seq(Messages)]
    BY <1>0, <2>1, <2>2 DEF StoreOK
  <2>4. \A i \in 1..Len(cq'[w]) : i \in 1..Len(cq[w]) \/ (i = Len(cq[w]) + 1 /\ cq'[w][i].m = used + 1)
    BY <2>2, <2>3
  <2>5. /\ \A i \in 1..Len(stream) : stream[i].m \in Nat /\ stream[i].m <= used
        /\ \A v \in WAS : \A i \in 1..Len(cq[v]) : cq[v][i].m \in Nat /\ cq[v][i].m <= used
    BY <1>s, <1>q
  <2>6. ASSUME NEW i \in 1..Len(cq'[w]), NEW j \in 1..Len(cq'[w]), cq'[w][i].m = cq'[w][j].m PROVE i = j
    <3>1. CASE i \in 1..Len(cq[w]) /\ j \in 1..Len(cq[w])
      BY <1>q, <2>1, <2>3, <2>6, <3>1 DEF Distinct
    <3>2. CASE ~(i \in 1..Len(cq[w]) /\ j \in 1..Len(cq[w]))
      BY <1>0, <1>q, <2>1, <2>3, <2>4, <2>6, <3>2
    <3> QED
      BY <3>1, <3>2
  <2>7. ASSUME NEW v \in WAS PROVE Distinct(cq'[v]) /\ \A i \in 1..Len(cq'[v]) : cq'[v][i].m <= used'
    <3>1. CASE v = w
      <4>1. Distinct(cq'[v])
        BY <2>6, <3>1 DEF Distinct
      <4>2. ASSUME NEW i \in 1..Len(cq'[v]) PROVE cq'[v][i].m <= used'
        <5>1. \/ i \in 1..Len(cq[w]) /\ cq'[w][i] = cq[w][i] /\ cq[w][i].m \in Nat /\ cq[w][i].m <= used
              \/ cq'[w][i].m = used + 1
          BY <1>q, <2>1, <2>3, <2>4, <3>1
        <5> QED
          BY <1>0, <2>1, <3>1, <5>1
      <4> QED
        BY <4>1, <4>2
    <3>2. CASE v # w
      <4>1. cq'[v] = cq[v] /\ Distinct(cq[v])
        BY <1>q, <2>3, <3>2
      <4>2. ASSUME NEW i \in 1..Len(cq[v]) PROVE cq[v][i].m <= used + 1
        <5>1. cq[v][i].m \in Nat /\ cq[v][i].m <= used
          BY <1>q
        <5> QED
          BY <1>0, <5>1
      <4> QED
        BY <2>1, <4>1, <4>2
    <3> QED
      BY <3>1, <3>2
  <2>8. ASSUME NEW v \in WAS, NEW i \in 1..Len(cq'[v]), NEW j \in 1..Len(stream) PROVE cq'[v][i].m # stream[j].m
    <3>1. CASE v = w /\ i \notin 1..Len(cq[w])
      <4>1. cq'[w][i].m = used + 1
        BY <2>4, <3>1
      <4> QED
        BY <1>0, <1>s, <3>1, <4>1
    <3>2. CASE v # w \/ i \in 1..Len(cq[w])
      <4>1. i \in 1..Len(cq[v]) /\ cq'[v][i] = cq[v][i]
        BY <2>3, <3>2
      <4> QED
        BY <1>q, <4>1
    <3> QED
      BY <3>1, <3>2
  <2>9. ASSUME NEW v \in WAS, NEW u \in WAS \ {v}, NEW i \in 1..Len(cq'[v]), NEW j \in 1..Len(cq'[u])
        PROVE  cq'[v][i].m # cq'[u][j].m
    <3>1. CASE v = w /\ i \notin 1..Len(cq[w])
      <4>1. cq'[u] = cq[u]
        BY <2>3, <3>1
      <4> QED
        BY <1>0, <1>q, <2>4, <3>1, <4>1
    <3>2. CASE u = w /\ j \notin 1..Len(cq[w])
      <4>1. cq'[v] = cq[v]
        BY <2>3, <3>2
      <4> QED
        BY <1>0, <1>q, <2>4, <3>2, <4>1
    <3>3. CASE ~(v = w /\ i \notin 1..Len(cq[w])) /\ ~(u = w /\ j \notin 1..Len(cq[w]))
      <4>1. i \in 1..Len(cq[v]) /\ cq'[v][i] = cq[v][i]
        BY <2>3, <3>3
      <4>2. j \in 1..Len(cq[u]) /\ cq'[u][j] = cq[u][j]
        BY <2>3, <3>3
      <4> QED
        BY <1>v, <4>1, <4>2
    <3> QED
      BY <3>1, <3>2, <3>3
  <2>10. cut \in 0..Len(stream) /\ stream \in Seq(Messages) /\ Distinct(stream)
         /\ \A i \in 1..Len(stream) : stream[i].m <= used'
    BY <1>0, <1>s, <2>1 DEF StoreOK
  <2> QED
    BY <2>1, <2>3, <2>7, <2>8, <2>9, <2>10 DEF StoreOK, Distinct
<1>2. ASSUME NEW w \in WAS, WriteChat(w) PROVE StoreOK'
  <2>1. cq' = [cq EXCEPT ![w] = << >>] /\ stream' = stream \o cq[w] /\ UNCHANGED <<cut, used>>
    BY <1>2 DEF WriteChat, sockets
  <2>2. /\ stream \in Seq(Messages) /\ cq[w] \in Seq(Messages) /\ stream' \in Seq(Messages)
        /\ Len(stream') = Len(stream) + Len(cq[w]) /\ Len(stream) \in Nat /\ Len(cq[w]) \in Nat
        /\ \A i \in 1..Len(stream) : stream'[i] = stream[i]
        /\ \A i \in 1..Len(cq[w]) : stream'[Len(stream) + i] = cq[w][i]
    BY <1>0, <2>1 DEF StoreOK
  <2>3. ASSUME NEW i \in 1..Len(stream')
        PROVE  i \in 1..Len(stream) \/ (i - Len(stream) \in 1..Len(cq[w]) /\ stream'[i] = cq[w][i - Len(stream)])
    <3>1. CASE i > Len(stream)
      <4>1. i - Len(stream) \in 1..Len(cq[w]) /\ Len(stream) + (i - Len(stream)) = i
        BY <2>2, <3>1
      <4> QED
        BY <2>2, <4>1
    <3> QED
      BY <2>2, <3>1
  <2>4. Distinct(stream')
    <3> SUFFICES ASSUME NEW i \in 1..Len(stream'), NEW j \in 1..Len(stream'), stream'[i].m = stream'[j].m
                 PROVE  i = j
      BY DEF Distinct
    <3>1. CASE i \in 1..Len(stream) /\ j \in 1..Len(stream)
      BY <2>2, <3>1 DEF StoreOK, Distinct
    <3>2. CASE i \notin 1..Len(stream) /\ j \notin 1..Len(stream)
      <4>0. /\ i - Len(stream) \in 1..Len(cq[w]) /\ stream'[i] = cq[w][i - Len(stream)]
            /\ j - Len(stream) \in 1..Len(cq[w]) /\ stream'[j] = cq[w][j - Len(stream)]
        BY <2>3, <3>2
      <4>1. i - Len(stream) = j - Len(stream)
        BY <1>q, <4>0 DEF Distinct
      <4> QED
        BY <2>2, <4>1
    <3>3. CASE i \in 1..Len(stream) /\ j \notin 1..Len(stream)
      <4>1. stream'[i] = stream[i] /\ j - Len(stream) \in 1..Len(cq[w]) /\ stream'[j] = cq[w][j - Len(stream)]
        BY <2>2, <2>3, <3>3
      <4> QED
        BY <1>q, <3>3, <4>1
    <3>4. CASE i \notin 1..Len(stream) /\ j \in 1..Len(stream)
      <4>1. stream'[j] = stream[j] /\ i - Len(stream) \in 1..Len(cq[w]) /\ stream'[i] = cq[w][i - Len(stream)]
        BY <2>2, <2>3, <3>4
      <4> QED
        BY <1>q, <3>4, <4>1
    <3> QED
      BY <3>1, <3>2, <3>3, <3>4
  <2>5. \A i \in 1..Len(stream') : stream'[i].m <= used
    BY <2>2, <2>3 DEF StoreOK
  <2>6. cq' \in [WAS -> Seq(Messages)] /\ cq'[w] = << >> /\ Len(<< >>) = 0 /\ 1..0 = {} /\ \A v \in WAS \ {w} : cq'[v] = cq[v]
    BY <2>1 DEF StoreOK
  <2>7. ASSUME NEW v \in WAS, NEW i \in 1..Len(cq'[v])
        PROVE  /\ v # w /\ cq'[v] = cq[v]
               /\ \A j \in 1..Len(stream') : cq'[v][i].m # stream'[j].m
    <3>1. v # w /\ cq'[v] = cq[v] /\ i \in 1..Len(cq[v])
      BY <2>6
    <3>2. ASSUME NEW j \in 1..Len(stream') PROVE cq'[v][i].m # stream'[j].m
      <4>1. CASE j \in 1..Len(stream)
        <5>1. stream'[j] = stream[j]
          BY <2>2, <4>1
        <5>2. cq[v][i].m # stream[j].m
          BY <1>q, <3>1, <4>1
        <5> QED
          BY <3>1, <5>1, <5>2
      <4>2. CASE j \notin 1..Len(stream)
        <5>1. j - Len(stream) \in 1..Len(cq[w]) /\ stream'[j] = cq[w][j - Len(stream)]
          BY <2>3, <4>2
        <5>2. cq[v][i].m # cq[w][j - Len(stream)].m
          BY <1>v, <3>1, <5>1
        <5> QED
          BY <3>1, <5>1, <5>2
      <4> QED
        BY <4>1, <4>2
    <3> QED
      BY <3>1, <3>2
  <2>8. cut \in 0..Len(stream')
    BY <2>2 DEF StoreOK
  <2>9. ASSUME NEW v \in WAS PROVE Distinct(cq'[v]) /\ \A i \in 1..Len(cq'[v]) : cq'[v][i].m <= used
    <3>1. CASE v = w
      BY <2>6, <3>1 DEF Distinct
    <3>2. CASE v # w
      BY <1>q, <2>6, <3>2
    <3> QED
      BY <3>1, <3>2
  <2>10. \A v \in WAS : \A i \in 1..Len(cq'[v]) : \A u \in WAS \ {v} : \A j \in 1..Len(cq'[u]) : cq'[v][i].m # cq'[u][j].m
    BY <2>7 DEF StoreOK
  <2> QED
    BY <2>1, <2>2, <2>4, <2>5, <2>6, <2>7, <2>8, <2>9, <2>10 DEF StoreOK, Distinct
<1>3. ASSUME UNCHANGED stream, cut' \in {cut, Len(stream)},
             UNCHANGED cq \/ \E w \in WAS : cq' = [cq EXCEPT ![w] = << >>]
      PROVE  StoreOK'
  <2>1. /\ cq' \in [WAS -> Seq(Messages)] /\ Len(<< >>) = 0 /\ 1..0 = {}
        /\ \A w \in WAS : cq'[w] = cq[w] \/ cq'[w] = << >>
    <3>1. cq \in [WAS -> Seq(Messages)] /\ << >> \in Seq(Messages)
      BY DEF StoreOK
    <3> QED
      <4>1. CASE UNCHANGED cq
        BY <3>1, <4>1
      <4>2. CASE \E w \in WAS : cq' = [cq EXCEPT ![w] = << >>]
        BY <3>1, <4>2
      <4> QED
        BY <1>3, <4>1, <4>2
  <2>2. cut' \in 0..Len(stream) /\ \A i \in 1..Len(stream) : stream[i].m <= used'
    BY <1>0, <1>3 DEF StoreOK
  <2>3. ASSUME NEW w \in WAS PROVE Distinct(cq'[w]) /\ \A i \in 1..Len(cq'[w]) : cq'[w][i].m <= used'
    <3>1. Distinct(cq[w]) /\ \A i \in 1..Len(cq[w]) : cq[w][i].m \in Nat /\ cq[w][i].m <= used
      BY <1>q
    <3>2. CASE cq'[w] = cq[w]
      BY <1>0, <3>1, <3>2
    <3>3. CASE cq'[w] = << >>
      BY <2>1, <3>3 DEF Distinct
    <3> QED
      BY <2>1, <3>2, <3>3
  <2>4. \A v \in WAS : \A i \in 1..Len(cq'[v]) :
          /\ \A j \in 1..Len(stream) : cq'[v][i].m # stream[j].m
          /\ \A u \in WAS \ {v} : \A j \in 1..Len(cq'[u]) : cq'[v][i].m # cq'[u][j].m
    BY <2>1 DEF StoreOK
  <2> QED
    BY <1>3, <2>1, <2>2, <2>3, <2>4 DEF StoreOK, Distinct
<1>4. ASSUME NEW p \in Players, Join(p) \/ Leave(p)
      PROVE  cut' \in {cut, Len(stream)} /\ (UNCHANGED cq \/ \E w \in WAS : cq' = [cq EXCEPT ![w] = << >>])
  BY <1>0, <1>4 DEF Join, ChatJoins, Leave, ChatLeaves
<1> QED
  BY <1>1, <1>2, <1>3, <1>4, Framed DEF Frames, ChatFrames

(* Numbers up to used, each at most once: the stream is no longer than that.*)
LEMMA StreamBounded ==
  ASSUME SocketsOK, StoreOK
  PROVE  Len(stream) \in Nat /\ Len(stream) <= MaxInputs
<1> DEFINE n == Len(stream)
           f == [i \in 1..n |-> stream[i].m]
<1>1. n \in Nat /\ used \in Nat /\ used <= MaxInputs /\ MaxInputs \in Nat
  BY SocketsBound DEF SocketsOK, SocketsTypeOK, StoreOK
<1>2. ASSUME NEW i \in 1..n PROVE stream[i].m \in 1..MaxInputs
  <2>1. stream[i] \in Messages
    BY DEF StoreOK
  <2> QED
    BY <2>1 DEF Messages, MessageNumbers
<1>3. f \in [1..n -> 1..MaxInputs] /\ \A i, j \in 1..n : f[i] = f[j] => i = j
  BY <1>2 DEF StoreOK, Distinct
<1>4. f \in Injection(1..n, 1..MaxInputs)
  BY <1>3 DEF Injection, IsInjective
<1>5. IsFiniteSet(1..n) /\ Cardinality(1..n) = n /\ IsFiniteSet(1..MaxInputs) /\ Cardinality(1..MaxInputs) = MaxInputs
  <2> HIDE DEF n
  <2> QED
    BY <1>1, FS_Interval
<1>6. Cardinality(1..n) <= Cardinality(1..MaxInputs)
  BY <1>4, <1>5, FS_Injection DEF ExistsInjection
<1> QED
  BY <1>1, <1>5, <1>6

-----------------------------------------------------------------------------
(* The cursors of the WAS                                                   *)

LEMMA CursorStart == Init => CursorOK
<1>1. Init => lastId = [w \in WAS |-> 0] /\ stream = << >>
  BY DEF Init, Start, ChatInit
<1> QED
  BY <1>1 DEF CursorOK

LEMMA StreamGrows ==
  ASSUME SocketsOK, StoreOK, Next
  PROVE  /\ Len(stream) \in Nat /\ Len(stream') \in Nat /\ Len(stream) <= Len(stream')
         /\ \A i \in 1..Len(stream) : stream'[i] = stream[i]
<1>1. ASSUME NEW w \in WAS, WriteChat(w)
      PROVE  Len(stream) <= Len(stream') /\ \A i \in 1..Len(stream) : stream'[i] = stream[i]
  <2>1. stream \in Seq(Messages) /\ cq[w] \in Seq(Messages) /\ stream' = stream \o cq[w]
    BY <1>1 DEF WriteChat, StoreOK
  <2> QED
    BY <2>1
<1>2. Len(stream) \in Nat /\ Len(stream') \in Nat
  BY StoreStep DEF StoreOK
<1> QED
  BY <1>1, <1>2, Framed DEF Frames, ChatFrames

LEMMA CursorStep ==
  ASSUME SocketsOK, StoreOK, CursorOK, Next
  PROVE  CursorOK' /\ \A w \in WAS : Upto(w) \in 0..Len(stream) /\ Upto(w)' \in 0..Len(stream') /\ Upto(w) <= Upto(w)'
<1>0. /\ Len(stream) \in Nat /\ Len(stream') \in Nat /\ Len(stream) <= Len(stream')
      /\ cut \in 0..Len(stream) /\ cut' \in 0..Len(stream')
      /\ lastId \in [WAS -> Nat] /\ \A w \in WAS : lastId[w] <= Len(stream)
      /\ home \in [Players -> WAS]
  BY StreamGrows, StoreStep, SocketsRoutes DEF StoreOK, CursorOK, SocketsOK, SocketsTypeOK
<1>1. cut <= cut'
  <2>1. ASSUME NEW p \in Players, Leave(p) PROVE cut' \in {cut, Len(stream)}
    BY <2>1 DEF Leave, ChatLeaves
  <2> QED
    BY <1>0, <2>1, Framed DEF Frames, ChatFrames
<1> DEFINE Goal == /\ lastId' \in [WAS -> Nat] /\ \A w \in WAS : lastId'[w] <= Len(stream')
                   /\ \A w \in WAS : Clients(w)' = {} => lastId'[w] = 0
                   /\ \A w \in WAS : lastId[w] <= lastId'[w] \/ Len(stream) = cut'
<1>2. ASSUME NEW p \in Players, Join(p) PROVE Goal
  <2>1. UNCHANGED lastId \/ (Clients(home[p]) = {} /\ lastId' = [lastId EXCEPT ![home[p]] = 0])
    BY <1>2 DEF Join, ChatJoins
  <2>2. \A w \in WAS : lastId'[w] = lastId[w]
    BY <1>0, <2>1 DEF CursorOK
  <2>3. \A w \in WAS : Clients(w)' = {} => Clients(w) = {}
    <3>1. ~\E q \in Players : Leave(q)
      BY <1>2 DEF Join, SocketJoins, Leave, SocketLeaves, To, SocketsOK, SocketsTypeOK
    <3> QED
      BY <3>1, ClientsStay
  <2> QED
    BY <1>0, <2>1, <2>2, <2>3 DEF CursorOK
<1>3. ASSUME NEW p \in Players, Leave(p) PROVE Goal
  <2>1. IF Clients(home[p]) = {p} THEN lastId' = [lastId EXCEPT ![home[p]] = 0] /\ cut' = Len(stream) ELSE UNCHANGED lastId
    BY <1>3 DEF Leave, ChatLeaves, LastOfWAS
  <2>2. ASSUME NEW w \in WAS, Clients(w)' = {} PROVE lastId'[w] = 0
    <3>1. CASE w = home[p]
      <4>1. Clients(home[p]) = {p}
        BY <1>3, <2>2, <3>1, LeavingClients
      <4> QED
        BY <1>0, <2>1, <3>1, <4>1
    <3>2. CASE w # home[p]
      <4>1. Clients(w) = {}
        BY <1>3, <2>2, <3>2, LeavingClients
      <4> QED
        BY <1>0, <2>1, <3>2, <4>1 DEF CursorOK
    <3> QED
      BY <3>1, <3>2
  <2>3. lastId' \in [WAS -> Nat] /\ \A w \in WAS : lastId'[w] \in {0, lastId[w]}
    BY <1>0, <2>1
  <2> QED
    BY <1>0, <2>1, <2>2, <2>3
<1>4. ASSUME NEW w \in WAS, ChatRead(w) PROVE Goal
  <2>1. lastId' = [lastId EXCEPT ![w] = Len(stream)] /\ Clients(w) # {} /\ UNCHANGED <<home, stage>>
    BY <1>4 DEF ChatRead, sockets
  <2>2. \A v \in WAS : Clients(v)' = Clients(v)
    BY <2>1 DEF Clients
  <2> QED
    BY <1>0, <2>1, <2>2 DEF CursorOK
<1>5. ASSUME UNCHANGED lastId, ~\E p \in Players : Leave(p) PROVE Goal
  <2>1. \A w \in WAS : Clients(w)' = {} => Clients(w) = {}
    BY <1>5, ClientsStay
  <2> QED
    BY <1>0, <1>5, <2>1 DEF CursorOK
<1>6. Goal
  BY <1>2, <1>3, <1>4, <1>5, Framed DEF Frames, ChatFrames
<1>7. ASSUME NEW w \in WAS
      PROVE  Upto(w) \in 0..Len(stream) /\ Upto(w)' \in 0..Len(stream') /\ Upto(w) <= Upto(w)'
  <2>1. /\ lastId[w] \in 0..Len(stream) /\ lastId'[w] \in 0..Len(stream')
        /\ lastId[w] <= lastId'[w] \/ Len(stream) = cut'
    BY <1>0, <1>6
  <2>2. /\ cut \in 0..Len(stream) /\ cut' \in 0..Len(stream') /\ cut <= cut'
        /\ Len(stream) \in Nat /\ Len(stream') \in Nat
    BY <1>0, <1>1
  <2> QED
    BY <2>1, <2>2 DEF Upto, Larger
<1> QED
  BY <1>6, <1>7 DEF CursorOK

-----------------------------------------------------------------------------
(* What a WAS has in hand                                                   *)

LEMMA InHandStart == Init => InHandOK
<1>1. Init => out = [w \in WAS |-> << >>]
  BY DEF Init, Start, ChatInit
<1>2. << >> \in Seq(Seq(Messages)) /\ Len(<< >>) = 0 /\ 1..0 = {}
  OBVIOUS
<1> QED
  BY <1>1, <1>2 DEF InHandOK, Within, Apart

(* What is unread is the stream from where the WAS has come to its end.     *)
LEMMA UnreadAt ==
  ASSUME StoreOK, CursorOK, NEW w \in WAS
  PROVE  /\ Unread(w) \in Seq(Messages) /\ Upto(w) \in 0..Len(stream)
         /\ \A e \in 1..Len(Unread(w)) : Upto(w) + e \in 1..Len(stream) /\ Unread(w)[e] = stream[Upto(w) + e]
         /\ \A k \in (Upto(w) + 1)..Len(stream) : \E e \in 1..Len(Unread(w)) : Unread(w)[e] = stream[k]
<1>2. stream \in Seq(Messages) /\ Len(stream) \in Nat /\ Upto(w) \in 0..Len(stream)
  BY DEF StoreOK, CursorOK, Upto, Larger
<1> DEFINE u == Upto(w)
<1>3. Unread(w) = SubSeq(stream, u + 1, Len(stream))
  BY DEF Unread, Upto
<1> HIDE DEF u
<1>4. u \in 0..Len(stream) /\ u = Upto(w)
  BY <1>2 DEF u
<1>5. /\ Unread(w) \in Seq(Messages) /\ Len(Unread(w)) = Len(stream) - u
      /\ \A e \in 1..(Len(stream) - u) : Unread(w)[e] = stream[u + e]
  <2>1. CASE u < Len(stream)
    <3>1. u + 1 \in 1..(Len(stream) + 1)
      BY <1>2, <1>4
    <3> QED
      BY <1>2, <1>3, <1>4, <2>1, SubSeqProperties
  <2>2. CASE u = Len(stream)
    BY <1>2, <1>3, <1>4, <2>2, SubSeqProperties
  <2> QED
    BY <1>2, <1>4, <2>1, <2>2
<1>6. \A e \in 1..Len(Unread(w)) : u + e \in 1..Len(stream) /\ Unread(w)[e] = stream[u + e]
  BY <1>2, <1>4, <1>5
<1>7. ASSUME NEW k \in (u + 1)..Len(stream) PROVE \E e \in 1..Len(Unread(w)) : Unread(w)[e] = stream[k]
  <2>1. k - u \in 1..(Len(stream) - u) /\ u + (k - u) = k
    BY <1>2, <1>4
  <2> QED
    BY <1>5, <2>1
<1> QED
  BY <1>2, <1>4, <1>5, <1>6, <1>7

(* A batch that is taken in hand holds what was unread.                     *)
LEMMA ReadsUnread ==
  ASSUME StoreOK, CursorOK, NEW w \in WAS, ChatRead(w), out[w] \in Seq(Seq(Messages))
  PROVE  /\ out' = [out EXCEPT ![w] = Append(@, Unread(w))] /\ Unread(w) \in Seq(Messages)
         /\ Upto(w) \in 0..Len(stream) /\ Upto(w)' = Len(stream) /\ stream' = stream
         /\ \A e \in 1..Len(Unread(w)) : Upto(w) + e \in 1..Len(stream) /\ Unread(w)[e] = stream[Upto(w) + e]
         /\ \A k \in (Upto(w) + 1)..Len(stream) : \E e \in 1..Len(Unread(w)) : Unread(w)[e] = stream[k]
<1>1. /\ out' = [out EXCEPT ![w] = Append(@, Unread(w))] /\ lastId' = [lastId EXCEPT ![w] = Len(stream)]
      /\ UNCHANGED <<cut, stream>>
  BY DEF ChatRead
<1>2. Upto(w)' = Len(stream)
  BY <1>1 DEF StoreOK, CursorOK, Upto, Larger
<1> QED
  BY <1>1, <1>2, UnreadAt

LEMMA WithinGrows ==
  ASSUME NEW q, NEW s, NEW n \in Nat, Within(q, s, n), NEW t, NEW m \in Nat, n <= m, \A k \in 1..n : t[k] = s[k]
  PROVE  Within(q, t, m)
<1> SUFFICES ASSUME NEW j \in 1..Len(q), NEW e \in 1..Len(q[j]) PROVE Among(q[j][e], t, m)
  BY DEF Within
<1>1. PICK k \in 1..n : q[j][e] = s[k]
  BY DEF Within, Among
<1>2. k \in 1..m /\ t[k] = s[k]
  OBVIOUS
<1> QED
  BY <1>1, <1>2 DEF Among

LEMMA HandedOver ==
  ASSUME NEW q \in Seq(Seq(Messages)), q # << >>, NEW s, NEW n, Within(q, s, n), Apart(q)
  PROVE  Tail(q) \in Seq(Seq(Messages)) /\ Within(Tail(q), s, n) /\ Apart(Tail(q))
<1> DEFINE t == Tail(q)
<1>1. t \in Seq(Seq(Messages)) /\ \A j \in 1..Len(t) : j + 1 \in 1..Len(q) /\ t[j] = q[j + 1] /\ j \in Int
  OBVIOUS
<1> HIDE DEF t
<1>2. Within(t, s, n)
  BY <1>1 DEF Within
<1>3. ASSUME NEW j \in 1..Len(t), NEW l \in 1..Len(t), NEW e \in 1..Len(t[j]), NEW f \in 1..Len(t[l]),
             t[j][e].m = t[l][f].m
      PROVE  j = l /\ e = f
  <2>1. j + 1 \in 1..Len(q) /\ t[j] = q[j + 1] /\ l + 1 \in 1..Len(q) /\ t[l] = q[l + 1] /\ j \in Int /\ l \in Int
    BY <1>1
  <2> DEFINE a == j + 1
             b == l + 1
  <2>a. a \in 1..Len(q) /\ b \in 1..Len(q) /\ e \in 1..Len(q[a]) /\ f \in 1..Len(q[b]) /\ q[a][e].m = q[b][f].m
    BY <1>3, <2>1
  <2> HIDE DEF a, b
  <2>b. a = b /\ e = f
    <3>1. \A x \in 1..Len(q[a]) : \A y \in 1..Len(q[b]) : q[a][x].m = q[b][y].m => (a = b /\ x = y)
      BY <2>a DEF Apart
    <3> QED
      BY <2>a, <3>1
  <2>2. j + 1 = l + 1 /\ e = f
    BY <2>b DEF a, b
  <2> QED
    BY <2>1, <2>2
<1> QED
  BY <1>1, <1>2, <1>3 DEF t, Apart

LEMMA TakenInHand ==
  ASSUME NEW q \in Seq(Seq(Messages)), NEW u \in Seq(Messages), NEW s, NEW n \in Nat, NEW m \in Nat, n <= m,
         Within(q, s, n), Apart(q), \A i, j \in 1..m : s[i].m = s[j].m => i = j,
         \A e \in 1..Len(u) : n + e \in 1..m /\ u[e] = s[n + e]
  PROVE  Append(q, u) \in Seq(Seq(Messages)) /\ Within(Append(q, u), s, m) /\ Apart(Append(q, u))
<1> DEFINE t == Append(q, u)
           last == Len(q) + 1
<1>1. /\ t \in Seq(Seq(Messages)) /\ t[last] = u /\ Len(q) \in Nat
      /\ \A j \in 1..Len(q) : t[j] = q[j]
      /\ \A j \in 1..Len(t) : j \in 1..Len(q) \/ j = last
  OBVIOUS
<1> HIDE DEF t, last
<1>2. ASSUME NEW j \in 1..Len(t), NEW e \in 1..Len(t[j]) PROVE Among(t[j][e], s, m)
  <2>1. CASE j \in 1..Len(q)
    <3>1. t[j] = q[j] /\ Within(q, s, m)
      BY <1>1, <2>1, WithinGrows
    <3> QED
      BY <2>1, <3>1 DEF Within
  <2>2. CASE j = last
    BY <1>1, <2>2 DEF Among
  <2> QED
    BY <1>1, <2>1, <2>2
<1>3. ASSUME NEW j \in 1..Len(q), NEW e \in 1..Len(q[j]), NEW f \in 1..Len(u) PROVE q[j][e].m # u[f].m
  <2>1. PICK k \in 1..n : q[j][e] = s[k]
    BY DEF Within, Among
  <2>a. n + f \in 1..m /\ u[f] = s[n + f]
    OBVIOUS
  <2>2. k \in 1..m /\ n + f \in 1..m /\ u[f] = s[n + f] /\ k # n + f
    BY <2>a
  <2> QED
    BY <2>1, <2>2
<1>4. ASSUME NEW e \in 1..Len(u), NEW f \in 1..Len(u), u[e].m = u[f].m PROVE e = f
  <2>1. n + e \in 1..m /\ n + f \in 1..m /\ s[n + e].m = s[n + f].m
    BY <1>4
  <2>2. n + e = n + f
    BY <2>1
  <2> QED
    BY <2>2
<1>5. ASSUME NEW j \in 1..Len(t), NEW l \in 1..Len(t), NEW e \in 1..Len(t[j]), NEW f \in 1..Len(t[l]),
             t[j][e].m = t[l][f].m
      PROVE  j = l /\ e = f
  <2>1. CASE j \in 1..Len(q) /\ l \in 1..Len(q)
    <3>1. t[j] = q[j] /\ t[l] = q[l] /\ e \in 1..Len(q[j]) /\ f \in 1..Len(q[l])
      BY <1>1, <2>1
    <3>2. q[j][e].m = q[l][f].m
      BY <1>5, <3>1
    <3>3. \A x \in 1..Len(q[j]) : \A y \in 1..Len(q[l]) : q[j][x].m = q[l][y].m => (j = l /\ x = y)
      BY <2>1 DEF Apart
    <3> QED
      BY <3>1, <3>2, <3>3
  <2>2. CASE j = last /\ l = last
    <3>1. e \in 1..Len(u) /\ f \in 1..Len(u) /\ u[e].m = u[f].m
      BY <1>1, <1>5, <2>2
    <3> QED
      BY <1>4, <2>2, <3>1
  <2>3. CASE j \in 1..Len(q) /\ l = last
    <3>1. t[j] = q[j] /\ t[l] = u /\ e \in 1..Len(q[j]) /\ f \in 1..Len(u)
      BY <1>1, <2>3
    <3>2. q[j][e].m = u[f].m
      BY <1>5, <3>1
    <3> QED
      BY <1>3, <2>3, <3>1, <3>2
  <2>4. CASE j = last /\ l \in 1..Len(q)
    <3>1. t[j] = u /\ t[l] = q[l] /\ e \in 1..Len(u) /\ f \in 1..Len(q[l])
      BY <1>1, <2>4
    <3>2. u[e].m = q[l][f].m
      BY <1>5, <3>1
    <3> QED
      BY <1>3, <2>4, <3>1, <3>2
  <2> QED
    BY <1>1, <2>1, <2>2, <2>3, <2>4
<1> QED
  BY <1>1, <1>2, <1>5 DEF t, Within, Apart

LEMMA InHandStep ==
  ASSUME SocketsOK, StoreOK, CursorOK, InHandOK, Next
  PROVE  InHandOK'
<1>0. /\ Len(stream) \in Nat /\ Len(stream') \in Nat /\ Len(stream) <= Len(stream')
      /\ \A i \in 1..Len(stream) : stream'[i] = stream[i]
      /\ \A w \in WAS : Upto(w) \in 0..Len(stream) /\ Upto(w)' \in 0..Len(stream') /\ Upto(w) <= Upto(w)'
      /\ out \in [WAS -> Seq(Seq(Messages))]
      /\ \A i, j \in 1..Len(stream) : stream[i].m = stream[j].m => i = j
  BY StreamGrows, CursorStep DEF InHandOK, StoreOK, Distinct
<1>1. ASSUME NEW w \in WAS, NEW q, Within(q, stream, Upto(w)) PROVE Within(q, stream', Upto(w)')
  <2>1. Upto(w) \in Nat /\ Upto(w)' \in Nat /\ \A k \in 1..Upto(w) : stream'[k] = stream[k]
    BY <1>0
  <2> QED
    BY <1>0, <1>1, <2>1, WithinGrows
<1>2. \A w \in WAS : Within(out[w], stream, Upto(w)) /\ Apart(out[w])
  BY DEF InHandOK
<1>3. CASE UNCHANGED out
  BY <1>0, <1>1, <1>2, <1>3 DEF InHandOK
<1>4. ASSUME NEW w \in WAS, ChatEmit(w) PROVE InHandOK'
  <2>1. out[w] # << >> /\ out' = [out EXCEPT ![w] = Tail(@)]
    BY <1>4 DEF ChatEmit
  <2>2. Tail(out[w]) \in Seq(Seq(Messages)) /\ Within(Tail(out[w]), stream, Upto(w)) /\ Apart(Tail(out[w]))
    BY <1>0, <1>2, <2>1, HandedOver
  <2>3. \A v \in WAS : out'[v] \in Seq(Seq(Messages)) /\ Within(out'[v], stream, Upto(v)) /\ Apart(out'[v])
    BY <1>0, <1>2, <2>1, <2>2
  <2>4. out' \in [WAS -> Seq(Seq(Messages))]
    BY <1>0, <2>1, <2>2
  <2> QED
    BY <1>1, <2>3, <2>4 DEF InHandOK
<1>5. ASSUME NEW w \in WAS, ChatRead(w) PROVE InHandOK'
  <2> DEFINE u == Unread(w)
  <2>1. /\ out' = [out EXCEPT ![w] = Append(@, u)] /\ u \in Seq(Messages)
        /\ Upto(w)' = Len(stream) /\ stream' = stream
        /\ \A e \in 1..Len(u) : Upto(w) + e \in 1..Len(stream) /\ u[e] = stream[Upto(w) + e]
    BY <1>0, <1>5, ReadsUnread
  <2> HIDE DEF u
  <2>2. /\ Append(out[w], u) \in Seq(Seq(Messages))
        /\ Within(Append(out[w], u), stream, Len(stream)) /\ Apart(Append(out[w], u))
    <3>1. Upto(w) \in Nat /\ Upto(w) <= Len(stream) /\ out[w] \in Seq(Seq(Messages))
      BY <1>0
    <3> QED
      BY <1>0, <1>2, <2>1, <3>1, TakenInHand
  <2>3. out' \in [WAS -> Seq(Seq(Messages))] /\ out'[w] = Append(out[w], u) /\ \A v \in WAS \ {w} : out'[v] = out[v]
    BY <1>0, <2>1, <2>2
  <2>4. \A v \in WAS : Within(out'[v], stream', Upto(v)') /\ Apart(out'[v])
    BY <1>1, <1>2, <2>1, <2>2, <2>3
  <2> QED
    BY <2>3, <2>4 DEF InHandOK
<1> QED
  BY <1>3, <1>4, <1>5, Framed DEF Frames, ChatFrames

-----------------------------------------------------------------------------
(* Batches as sets                                                          *)

LEMMA FilteredTexts ==
  ASSUME NEW es \in Seq(Messages), NEW I \in SUBSET (1..Len(es))
  PROVE  /\ Texts(Picked(es, I)) \in Seq(MessageNumbers)
         /\ Range(Texts(Picked(es, I))) = {es[i].m : i \in I}
         /\ Distinct(es) => IsInjective(Texts(Picked(es, I)))
<1> DEFINE x == Picked(es, I)
           t == Texts(x)
<1>0. PicksTo(x, Len(es), es, I, Messages)
  BY PickedAt
<1> HIDE DEF x
<1>1. PICK g \in [1..Len(x) -> I \intersect (1..Len(es))] :
         /\ \A j \in 1..Len(x) : x[j] = es[g[j]]
         /\ \A j, i \in 1..Len(x) : g[j] = g[i] => j = i
         /\ \A i \in I \intersect (1..Len(es)) : \E j \in 1..Len(x) : g[j] = i
  BY <1>0 DEF PicksTo
<1>2. x \in Seq(Messages)
  BY <1>0 DEF PicksTo
<1>3. t = [j \in 1..Len(x) |-> x[j].m] /\ \A j \in 1..Len(x) : x[j].m \in MessageNumbers
  <2>1. t = [j \in 1..Len(x) |-> x[j].m]
    BY DEF Texts
  <2>2. ASSUME NEW j \in 1..Len(x) PROVE x[j].m \in MessageNumbers
    <3>1. x[j] \in Messages
      BY <1>2
    <3> QED
      BY <3>1 DEF Messages
  <2> QED
    BY <2>1, <2>2
<1>4. t \in Seq(MessageNumbers) /\ Len(t) = Len(x) /\ DOMAIN t = 1..Len(x) /\ \A j \in 1..Len(x) : t[j] = es[g[j]].m
  <2>1. t \in [1..Len(x) -> MessageNumbers] /\ Len(x) \in Nat
    BY <1>2, <1>3
  <2> QED
    BY <1>1, <1>3, <2>1
<1> HIDE DEF t
<1>5. Range(t) = {es[i].m : i \in I}
  <2>1. ASSUME NEW v \in Range(t) PROVE v \in {es[i].m : i \in I}
    BY <1>1, <1>4 DEF Range
  <2>2. ASSUME NEW i \in I PROVE es[i].m \in Range(t)
    <3>1. PICK j \in 1..Len(x) : g[j] = i
      BY <1>1
    <3> QED
      BY <1>4, <3>1 DEF Range
  <2> QED
    BY <2>1, <2>2
<1>6. ASSUME Distinct(es) PROVE IsInjective(t)
  <2> SUFFICES ASSUME NEW j \in 1..Len(x), NEW i \in 1..Len(x), t[j] = t[i] PROVE j = i
    BY <1>4 DEF IsInjective
  <2>1. g[j] \in 1..Len(es) /\ g[i] \in 1..Len(es) /\ es[g[j]].m = es[g[i]].m
    BY <1>1, <1>4
  <2>2. g[j] = g[i]
    BY <1>6, <2>1 DEF Distinct
  <2> QED
    BY <1>1, <2>2
<1> QED
  BY <1>4, <1>5, <1>6 DEF t, x

LEMMA BatchTexts ==
  ASSUME NEW es \in Seq(Messages)
  PROVE  /\ Texts(Living(es)) \in Seq(MessageNumbers) /\ Texts(Ghosts(es)) \in Seq(MessageNumbers)
         /\ Range(Texts(Living(es))) = Alives(es)
         /\ Range(Texts(Living(es))) \subseteq Ms(es) /\ Range(Texts(Ghosts(es))) \subseteq Ms(es)
         /\ Distinct(es) => /\ IsInjective(Texts(Living(es))) /\ IsInjective(Texts(Ghosts(es)))
                            /\ Range(Texts(Living(es))) \intersect Range(Texts(Ghosts(es))) = {}
<1> DEFINE I == {i \in 1..Len(es) : es[i].alive}
           J == {i \in 1..Len(es) : ~es[i].alive}
<1>1. Living(es) = Picked(es, I) /\ Ghosts(es) = Picked(es, J)
  <2>1. DOMAIN es = 1..Len(es)
    OBVIOUS
  <2> QED
    BY <2>1, Zenon DEF Living, Ghosts
<1>2. I \in SUBSET (1..Len(es)) /\ J \in SUBSET (1..Len(es)) /\ \A i \in I, j \in J : i # j
  OBVIOUS
<1>3. Alives(es) = {es[i].m : i \in I} /\ {es[i].m : i \in I} \subseteq Ms(es) /\ {es[i].m : i \in J} \subseteq Ms(es)
  BY DEF Alives, Ms
<1> HIDE DEF I, J
<1>4. Distinct(es) => {es[i].m : i \in I} \intersect {es[i].m : i \in J} = {}
  BY <1>2 DEF Distinct
<1> QED
  BY <1>1, <1>2, <1>3, <1>4, FilteredTexts

LEMMA Concatenated ==
  ASSUME NEW x \in Seq(MessageNumbers), NEW y \in Seq(MessageNumbers)
  PROVE  /\ x \o y \in Seq(MessageNumbers) /\ Range(x \o y) = Range(x) \union Range(y)
         /\ (IsInjective(x) /\ IsInjective(y) /\ Range(x) \intersect Range(y) = {}) => IsInjective(x \o y)
<1> DEFINE z == x \o y
<1>1. /\ z \in Seq(MessageNumbers) /\ DOMAIN z = 1..(Len(x) + Len(y)) /\ Len(x) \in Nat /\ Len(y) \in Nat
      /\ DOMAIN x = 1..Len(x) /\ DOMAIN y = 1..Len(y)
      /\ \A i \in 1..Len(x) : z[i] = x[i] /\ i \in DOMAIN z
      /\ \A i \in 1..Len(y) : z[Len(x) + i] = y[i] /\ Len(x) + i \in DOMAIN z
  OBVIOUS
<1> HIDE DEF z
<1>2. ASSUME NEW i \in DOMAIN z
      PROVE  \/ i \in DOMAIN x /\ z[i] = x[i]
             \/ i - Len(x) \in DOMAIN y /\ i \notin DOMAIN x /\ i \in Nat /\ z[i] = y[i - Len(x)]
  <2>1. CASE i <= Len(x)
    BY <1>1, <2>1
  <2>2. CASE i > Len(x)
    <3>1. i - Len(x) \in 1..Len(y) /\ Len(x) + (i - Len(x)) = i
      BY <1>1, <2>2
    <3> QED
      BY <1>1, <2>2, <3>1
  <2> QED
    BY <1>1, <2>1, <2>2
<1>3. Range(z) = Range(x) \union Range(y)
  <2>1. ASSUME NEW v \in Range(z) PROVE v \in Range(x) \union Range(y)
    BY <1>2 DEF Range
  <2>2. Range(x) \subseteq Range(z)
    BY <1>1 DEF Range
  <2>3. Range(y) \subseteq Range(z)
    BY <1>1 DEF Range
  <2> QED
    BY <2>1, <2>2, <2>3
<1>4. ASSUME IsInjective(x), IsInjective(y), Range(x) \intersect Range(y) = {} PROVE IsInjective(z)
  <2> SUFFICES ASSUME NEW i \in DOMAIN z, NEW j \in DOMAIN z, z[i] = z[j] PROVE i = j
    BY DEF IsInjective
  <2>1. CASE i \in DOMAIN x /\ j \in DOMAIN x
    BY <1>1, <1>4, <2>1 DEF IsInjective
  <2>2. CASE i \notin DOMAIN x /\ j \notin DOMAIN x
    <3>1. i - Len(x) = j - Len(x) /\ i \in Nat /\ j \in Nat
      BY <1>2, <1>4, <2>2 DEF IsInjective
    <3> QED
      BY <1>1, <3>1
  <2>3. CASE i \in DOMAIN x /\ j \notin DOMAIN x
    <3>1. z[i] \in Range(x) /\ z[j] \in Range(y)
      BY <1>2, <1>1, <2>3 DEF Range
    <3> QED
      BY <1>4, <3>1
  <2>4. CASE i \notin DOMAIN x /\ j \in DOMAIN x
    <3>1. z[j] \in Range(x) /\ z[i] \in Range(y)
      BY <1>2, <1>1, <2>4 DEF Range
    <3> QED
      BY <1>4, <3>1
  <2> QED
    BY <2>1, <2>2, <2>3, <2>4
<1> QED
  BY <1>1, <1>3, <1>4 DEF z

(* The batches in hand, when one is taken and when one is emitted.          *)
LEMMA HandSets ==
  ASSUME NEW q \in Seq(Seq(Messages))
  PROVE  /\ \A u \in Seq(Messages) : /\ Hand(Append(q, u)) = Hand(q) \union Ms(u)
                                     /\ HandAlive(Append(q, u)) = HandAlive(q) \union Alives(u)
         /\ q # << >> => /\ Hand(Tail(q)) \subseteq Hand(q) /\ Ms(Head(q)) \subseteq Hand(q)
                         /\ HandAlive(q) = Alives(Head(q)) \union HandAlive(Tail(q))
                         /\ Head(q) \in Seq(Messages)
                         /\ Apart(q) => Distinct(Head(q)) /\ Ms(Head(q)) \intersect Hand(Tail(q)) = {}
<1>1. ASSUME NEW u \in Seq(Messages)
      PROVE  /\ Hand(Append(q, u)) = Hand(q) \union Ms(u)
             /\ HandAlive(Append(q, u)) = HandAlive(q) \union Alives(u)
  <2> DEFINE t == Append(q, u)
             n == Len(q)
  <2>1. /\ n \in Nat /\ t[n + 1] = u /\ n + 1 \in 1..Len(t) /\ \A j \in 1..n : t[j] = q[j] /\ j \in 1..Len(t)
        /\ \A j \in 1..Len(t) : j \in 1..n \/ j = n + 1
    OBVIOUS
  <2> HIDE DEF t, n
  <2>2. ASSUME NEW j \in 1..Len(t) PROVE Ms(t[j]) \subseteq Hand(q) \union Ms(u)
    BY <2>1 DEF Hand, n
  <2>3. ASSUME NEW j \in 1..Len(t) PROVE Alives(t[j]) \subseteq HandAlive(q) \union Alives(u)
    BY <2>1 DEF HandAlive, n
  <2>4. Hand(t) \subseteq Hand(q) \union Ms(u) /\ HandAlive(t) \subseteq HandAlive(q) \union Alives(u)
    BY <2>2, <2>3 DEF Hand, HandAlive
  <2>5. Ms(u) \subseteq Hand(t) /\ Alives(u) \subseteq HandAlive(t)
    BY <2>1 DEF Hand, HandAlive
  <2>6. Hand(q) \subseteq Hand(t)
    BY <2>1 DEF Hand, n
  <2>7. HandAlive(q) \subseteq HandAlive(t)
    BY <2>1 DEF HandAlive, n
  <2> QED
    BY <2>4, <2>5, <2>6, <2>7 DEF t
<1>2. ASSUME q # << >>
      PROVE  /\ Hand(Tail(q)) \subseteq Hand(q) /\ Ms(Head(q)) \subseteq Hand(q)
             /\ HandAlive(q) = Alives(Head(q)) \union HandAlive(Tail(q))
             /\ Head(q) \in Seq(Messages)
             /\ Apart(q) => Distinct(Head(q)) /\ Ms(Head(q)) \intersect Hand(Tail(q)) = {}
  <2> DEFINE t == Tail(q)
             n == Len(q)
  <2>1. /\ n \in Nat /\ n > 0 /\ Head(q) = q[1] /\ 1 \in 1..n /\ Len(t) = n - 1
        /\ \A j \in 1..Len(t) : t[j] = q[j + 1] /\ j + 1 \in 1..n /\ j + 1 # 1
        /\ q[1] \in Seq(Messages)
    BY <1>2
  <2>2. ASSUME NEW j \in 1..n, j # 1 PROVE j - 1 \in 1..Len(t) /\ t[j - 1] = q[j]
    <3>1. j - 1 \in 1..Len(t) /\ (j - 1) + 1 = j
      BY <2>1, <2>2
    <3> QED
      BY <2>1, <3>1
  <2> HIDE DEF t, n
  <2>i. \A j \in 1..Len(t) : t[j] = q[j + 1] /\ j + 1 \in 1..n
    BY <2>1
  <2>3. Hand(t) \subseteq Hand(q) /\ Ms(q[1]) \subseteq Hand(q)
    <3>1. ASSUME NEW v \in Hand(t) PROVE v \in Hand(q)
      <4>1. PICK j \in 1..Len(t) : v \in Ms(t[j])
        BY DEF Hand
      <4>2. v \in Ms(q[j + 1]) /\ j + 1 \in 1..n
        BY <2>i, <4>1
      <4> QED
        BY <4>2 DEF Hand, n
    <3> QED
      BY <2>1, <3>1 DEF Hand, n
  <2>4. HandAlive(q) = Alives(q[1]) \union HandAlive(t)
    <3>1. ASSUME NEW v \in HandAlive(t) PROVE v \in HandAlive(q)
      <4>1. PICK j \in 1..Len(t) : v \in Alives(t[j])
        BY DEF HandAlive
      <4>2. v \in Alives(q[j + 1]) /\ j + 1 \in 1..n
        BY <2>i, <4>1
      <4> QED
        BY <4>2 DEF HandAlive, n
    <3>2. ASSUME NEW v \in HandAlive(q) PROVE v \in Alives(q[1]) \union HandAlive(t)
      <4>1. PICK j \in 1..n : v \in Alives(q[j])
        BY DEF HandAlive, n
      <4>2. CASE j = 1
        BY <4>1, <4>2
      <4>3. CASE j # 1
        <5>1. j - 1 \in 1..Len(t) /\ v \in Alives(t[j - 1])
          BY <2>2, <4>1, <4>3
        <5> QED
          BY <5>1 DEF HandAlive
      <4> QED
        BY <4>2, <4>3
    <3>3. Alives(q[1]) \subseteq HandAlive(q)
      BY <2>1 DEF HandAlive, n
    <3> QED
      BY <3>1, <3>2, <3>3
  <2>5. Apart(q) => Distinct(q[1])
    <3> SUFFICES ASSUME Apart(q), NEW e \in 1..Len(q[1]), NEW f \in 1..Len(q[1]), q[1][e].m = q[1][f].m PROVE e = f
      BY DEF Distinct
    <3>1. 1 \in 1..Len(q)
      BY <2>1 DEF n
    <3> QED
      BY <3>1, Zenon DEF Apart
  <2>6. ASSUME Apart(q), NEW v \in Ms(q[1]), v \in Hand(t) PROVE FALSE
    <3>1. PICK e \in 1..Len(q[1]) : v = q[1][e].m
      BY DEF Ms
    <3>2. PICK j \in 1..Len(t) : v \in Ms(t[j])
      BY <2>6 DEF Hand
    <3>3. PICK f \in 1..Len(t[j]) : v = t[j][f].m
      BY <3>2 DEF Ms
    <3>4. j + 1 \in 1..n /\ f \in 1..Len(q[j + 1]) /\ q[1][e].m = q[j + 1][f].m /\ 1 # j + 1
      BY <2>1, <3>1, <3>3
    <3> QED
      BY <2>1, <2>6, <3>1, <3>4 DEF Apart, n
  <2>7. Apart(q) => Ms(q[1]) \intersect Hand(t) = {}
    BY <2>6
  <2> QED
    BY <2>1, <2>3, <2>4, <2>5, <2>7 DEF t
<1> QED
  BY <1>1, <1>2

LEMMA WithinSet ==
  ASSUME NEW q, NEW s, NEW n, Within(q, s, n)
  PROVE  Hand(q) \subseteq UpTo(s, n)
<1> SUFFICES ASSUME NEW j \in 1..Len(q), NEW e \in 1..Len(q[j]) PROVE q[j][e].m \in UpTo(s, n)
  BY DEF Hand, Ms
<1>1. PICK k \in 1..n : q[j][e] = s[k]
  BY DEF Within, Among
<1> QED
  BY <1>1 DEF UpTo
-----------------------------------------------------------------------------
(* What the browsers show                                                   *)

Flattens(f, n, s) == f = [i \in 1..n |-> IF i = 1 THEN s[i] ELSE f[i - 1] \o s[i]]

LEMMA FlattensExist ==
  ASSUME NEW s, NEW n \in Nat
  PROVE  \E f : Flattens(f, n, s)
<1> DEFINE T == {k \in 0..n : \E f : Flattens(f, k, s)}
<1>1. 0 \in T
  <2> DEFINE f == [i \in 1..0 |-> << >>]
  <2>1. Flattens(f, 0, s)
    BY DEF Flattens
  <2> QED
    BY <2>1
<1>2. ASSUME NEW k \in 0..n, k \in T, k < n PROVE k + 1 \in T
  <2>1. PICK f : Flattens(f, k, s)
    BY <1>2
  <2> DEFINE x == IF k + 1 = 1 THEN s[k + 1] ELSE f[k] \o s[k + 1]
             h == [i \in 1..(k + 1) |-> IF i = k + 1 THEN x ELSE f[i]]
  <2>2. f = [i \in 1..k |-> IF i = 1 THEN s[i] ELSE f[i - 1] \o s[i]]
    BY <2>1 DEF Flattens
  <2>3. ASSUME NEW i \in 1..(k + 1) PROVE h[i] = IF i = 1 THEN s[i] ELSE h[i - 1] \o s[i]
    <3>1. CASE i = k + 1
      <4>1. h[i] = x /\ (i # 1 => h[i - 1] = f[k])
        BY <3>1
      <4> QED
        BY <3>1, <4>1
    <3>2. CASE i \in 1..k
      <4>1. h[i] = f[i] /\ (i # 1 => h[i - 1] = f[i - 1])
        BY <3>2
      <4>2. f[i] = IF i = 1 THEN s[i] ELSE f[i - 1] \o s[i]
        BY <2>2, <3>2
      <4> QED
        BY <4>1, <4>2
    <3> QED
      BY <3>1, <3>2
  <2>4. Flattens(h, k + 1, s)
    BY <2>3 DEF Flattens
  <2>5. k + 1 \in 0..n
    BY <1>2
  <2> HIDE DEF h
  <2> QED
    BY <2>4, <2>5
<1> HIDE DEF T
<1>3. n \in T
  BY <1>1, <1>2, Upward
<1> QED
  BY <1>3 DEF T

LEMMA Flattened ==
  ASSUME NEW S, NEW s \in Seq(Seq(S)), s # << >>
  PROVE  FlattenSeq(s) \in Seq(S)
<1> DEFINE n == Len(s)
           f == CHOOSE f : Flattens(f, n, s)
<1>1. n \in Nat /\ n # 0
  OBVIOUS
<1>2. Flattens(f, n, s)
  <2> HIDE DEF n
  <2> QED
    BY <1>1, FlattensExist
<1>3. FlattenSeq(s) = f[n]
  BY <1>1, Zenon DEF FlattenSeq, Flattens
<1>4. \A i \in 1..n : s[i] \in Seq(S)
  OBVIOUS
<1> HIDE DEF f, n
<1>5. f = [i \in 1..n |-> IF i = 1 THEN s[i] ELSE f[i - 1] \o s[i]]
  BY <1>2 DEF Flattens
<1> DEFINE T == {k \in 0..n : k = 0 \/ f[k] \in Seq(S)}
<1>6. 0 \in T
  BY <1>1
<1>7. ASSUME NEW k \in 0..n, k \in T, k < n PROVE k + 1 \in T
  <2>1. k + 1 \in 1..n /\ (k + 1) - 1 = k
    BY <1>1, <1>7
  <2>2. f[k + 1] = IF k + 1 = 1 THEN s[k + 1] ELSE f[k] \o s[k + 1]
    BY <1>5, <2>1
  <2>3. s[k + 1] \in Seq(S)
    BY <1>4, <2>1
  <2>4. f[k + 1] \in Seq(S)
    <3>1. CASE k = 0
      BY <2>2, <2>3, <3>1
    <3>2. CASE k # 0
      <4>0. k + 1 # 1
        BY <3>2
      <4>1. f[k] \in Seq(S) /\ f[k + 1] = f[k] \o s[k + 1]
        BY <1>7, <2>2, <3>2, <4>0
      <4> QED
        BY <2>3, <4>1
    <3> QED
      BY <3>1, <3>2
  <2> QED
    BY <2>1, <2>4
<1> HIDE DEF T
<1>8. n \in T
  BY <1>1, <1>6, <1>7, Upward
<1> QED
  BY <1>1, <1>3, <1>8 DEF T

(* A browser after its WAS has emitted a batch.                             *)
LEMMA EmitShown ==
  ASSUME AsksOK, InHandOK, NEW w \in WAS, ChatEmit(w), NEW c \in Players, ctab[c].shown \in Seq(MessageNumbers)
  PROVE  /\ ctab'[c].again = ctab[c].again /\ (c \notin Clients(w) => ctab'[c] = ctab[c])
         /\ ctab'[c].shown \in Seq(MessageNumbers) /\ Range(ctab[c].shown) \subseteq Range(ctab'[c].shown)
         /\ Range(ctab'[c].shown) \subseteq Range(ctab[c].shown) \union Ms(Head(out[w]))
         /\ c \in Clients(w) => Alives(Head(out[w])) \subseteq Range(ctab'[c].shown)
         /\ (IsInjective(ctab[c].shown) /\ Distinct(Head(out[w])) /\ Range(ctab[c].shown) \intersect Ms(Head(out[w])) = {})
              => IsInjective(ctab'[c].shown)
<1> DEFINE es == Head(out[w])
           L == Texts(Living(es))
           G == Texts(Ghosts(es))
           t == ctab[c]
           h == HearLiving(t, cseq + 1, L)
           n == HearGhosts(h, ~alive[c], G)
<1>1. es \in Seq(Messages)
  BY HandSets DEF InHandOK, ChatEmit
<1>2. ctab'[c] = IF c \in Clients(w) THEN n ELSE t
  BY DEF ChatEmit
<1>3. /\ L \in Seq(MessageNumbers) /\ G \in Seq(MessageNumbers) /\ Range(L) = Alives(es)
      /\ Range(L) \subseteq Ms(es) /\ Range(G) \subseteq Ms(es)
      /\ Distinct(es) => IsInjective(L) /\ IsInjective(G) /\ Range(L) \intersect Range(G) = {}
  <2> HIDE DEF es
  <2> QED
    BY <1>1, BatchTexts
<1>4. IsChat(t)
  BY DEF AsksOK
<1> HIDE DEF L, G, es, t
<1>5. Range(<< >>) = {}
  BY DEF Range
<1>6. h.shown = (IF L = << >> THEN t.shown ELSE t.shown \o L) /\ h.again = t.again /\ DOMAIN h = DOMAIN t
  BY <1>4 DEF HearLiving, IsChat
<1>7. DOMAIN h = {"shown", "last", "waits", "again"}
  BY <1>4, <1>6 DEF IsChat
<1> HIDE DEF h
<1>8. n.shown = (IF alive[c] THEN h.shown ELSE h.shown \o G) /\ n.again = h.again
  BY <1>7 DEF HearGhosts
<1> HIDE DEF n
<1>9. t.shown \in Seq(MessageNumbers)
  BY DEF t
<1>10. /\ h.shown \in Seq(MessageNumbers) /\ Range(h.shown) = Range(t.shown) \union Range(L)
       /\ (IsInjective(t.shown) /\ IsInjective(L) /\ Range(t.shown) \intersect Range(L) = {}) => IsInjective(h.shown)
  <2>1. CASE L = << >>
    BY <1>5, <1>6, <1>9, <2>1
  <2>2. CASE L # << >>
    BY <1>3, <1>6, <1>9, <2>2, Concatenated
  <2> QED
    BY <2>1, <2>2
<1>11. /\ n.shown \in Seq(MessageNumbers) /\ Range(h.shown) \subseteq Range(n.shown)
       /\ Range(n.shown) \subseteq Range(h.shown) \union Range(G)
       /\ (IsInjective(h.shown) /\ IsInjective(G) /\ Range(h.shown) \intersect Range(G) = {}) => IsInjective(n.shown)
  <2>1. CASE alive[c]
    BY <1>8, <1>10, <2>1
  <2>2. CASE ~alive[c]
    BY <1>3, <1>8, <1>10, <2>2, Concatenated
  <2> QED
    BY <2>1, <2>2
<1>12. CASE c \in Clients(w)
  <2>1. ctab'[c] = n /\ ctab[c] = t
    BY <1>2, <1>12 DEF t
  <2>2. n.again = t.again
    BY <1>6, <1>8
  <2>3. ASSUME IsInjective(t.shown), Distinct(es), Range(t.shown) \intersect Ms(es) = {} PROVE IsInjective(n.shown)
    BY <1>3, <1>10, <1>11, <2>3
  <2>4. Range(t.shown) \subseteq Range(n.shown) /\ Range(n.shown) \subseteq Range(t.shown) \union Ms(es) /\ Alives(es) \subseteq Range(n.shown)
    BY <1>3, <1>10, <1>11
  <2> QED
    BY <1>11, <1>12, <2>1, <2>2, <2>3, <2>4 DEF es
<1>13. CASE c \notin Clients(w)
  BY <1>2, <1>9, <1>13 DEF t
<1> QED
  BY <1>12, <1>13

LEMMA LogsStart == Init => LogsOK
<1>1. Init => blog = [w \in WAS |-> << >>] /\ busy = [w \in WAS |-> FALSE]
  BY DEF Init, Start, ChatInit
<1>2. << >> \in Seq(Entries) /\ Len(<< >>) = 0 /\ 0 <= BatchLogSize
  BY ChatLog
<1> QED
  BY <1>1, <1>2 DEF LogsOK

LEMMA KeptLog ==
  ASSUME AsksOK, LogsOK, InHandOK, NEW w \in WAS, ChatEmit(w)
  PROVE  blog' \in [WAS -> Seq(Entries)] /\ \A v \in WAS : Len(blog'[v]) <= BatchLogSize
<1> DEFINE es == Head(out[w])
           L == Texts(Living(es))
           x == [seq |-> cseq + 1, texts |-> L]
           b == blog[w]
           k == Kept(w, cseq + 1, L)
<1>1. UNCHANGED blog \/ blog' = [blog EXCEPT ![w] = k]
  BY DEF ChatEmit
<1>2. es \in Seq(Messages)
  BY HandSets DEF InHandOK, ChatEmit
<1> HIDE DEF es
<1>3. x \in Entries
  BY <1>2, BatchTexts DEF AsksOK, Entries
<1>4. b \in Seq(Entries) /\ Len(b) <= BatchLogSize /\ BatchLogSize \in Nat \ {0}
  BY ChatLog DEF LogsOK
<1>5. k \in {b, Append(b, x), Append(Tail(b), x)} /\ (k = Append(b, x) => Len(b) < BatchLogSize \/ k = Append(Tail(b), x) \/ k = b)
      /\ (k = Append(Tail(b), x) => Len(b) >= BatchLogSize \/ k = Append(b, x) \/ k = b)
  BY <1>4 DEF Kept
<1> HIDE DEF x, b, k
<1>6. k \in Seq(Entries) /\ Len(k) <= BatchLogSize
  <2>1. CASE k = b
    BY <1>4, <2>1
  <2>2. CASE k = Append(b, x) /\ Len(b) < BatchLogSize
    BY <1>3, <1>4, <2>2
  <2>3. CASE k = Append(Tail(b), x) /\ Len(b) >= BatchLogSize
    <3>1. b # << >> /\ Tail(b) \in Seq(Entries) /\ Len(Tail(b)) = Len(b) - 1
      BY <1>4, <2>3
    <3> QED
      BY <1>3, <1>4, <2>3, <3>1
  <2> QED
    BY <1>4, <1>5, <2>1, <2>2, <2>3
<1> QED
  BY <1>1, <1>6 DEF LogsOK

LEMMA LogsStep ==
  ASSUME SocketsOK, AsksOK, InHandOK, LogsOK, Next
  PROVE  LogsOK'
<1>1. blog' \in [WAS -> Seq(Entries)] /\ \A v \in WAS : Len(blog'[v]) <= BatchLogSize
  <2>1. ASSUME NEW p \in Players, Join(p) \/ Leave(p)
        PROVE  blog' \in [WAS -> Seq(Entries)] /\ \A v \in WAS : Len(blog'[v]) <= BatchLogSize
    <3>1. UNCHANGED blog \/ blog' = [blog EXCEPT ![home[p]] = << >>]
      BY <2>1 DEF Join, Leave, ChatJoins, ChatLeaves
    <3>2. << >> \in Seq(Entries) /\ Len(<< >>) = 0 /\ 0 <= BatchLogSize
      BY ChatLog
    <3> QED
      BY <3>1, <3>2 DEF LogsOK
  <2>2. ASSUME UNCHANGED blog
        PROVE  blog' \in [WAS -> Seq(Entries)] /\ \A v \in WAS : Len(blog'[v]) <= BatchLogSize
    BY <2>2 DEF LogsOK
  <2> QED
    BY <2>1, <2>2, KeptLog, Framed DEF Frames, ChatFrames
<1> DEFINE Goal == busy' \in [WAS -> BOOLEAN] /\ \A w \in WAS : busy'[w] => out'[w] # << >>
<1>o. out \in [WAS -> Seq(Seq(Messages))] /\ busy \in [WAS -> BOOLEAN] /\ \A w \in WAS : busy[w] => out[w] # << >>
  BY DEF InHandOK, LogsOK
<1>2. ASSUME NEW p \in Players, Leave(p), UNCHANGED out PROVE Goal
  <2>1. UNCHANGED busy \/ busy' = [busy EXCEPT ![home[p]] = FALSE]
    BY <1>2 DEF Leave, ChatLeaves
  <2> QED
    BY <1>o, <1>2, <2>1
<1>3. ASSUME NEW w \in WAS, ChatRead(w) PROVE Goal
  <2>1. out' = [out EXCEPT ![w] = Append(@, Unread(w))] /\ busy' = [busy EXCEPT ![w] = TRUE]
    BY <1>3 DEF ChatRead
  <2> DEFINE u == Unread(w)
  <2>2. Append(out[w], u) # << >>
    <3> HIDE DEF u
    <3> QED
      BY <1>o
  <2> QED
    BY <1>o, <2>1, <2>2
<1>4. ASSUME NEW w \in WAS, ChatEmit(w) PROVE Goal
  <2>1. out' = [out EXCEPT ![w] = Tail(@)] /\ busy' = [busy EXCEPT ![w] = FALSE]
    BY <1>4 DEF ChatEmit
  <2> QED
    BY <1>o, <2>1
<1>5. ASSUME NEW p \in Players, Leave(p) PROVE UNCHANGED out
  BY <1>5 DEF Leave, ChatLeaves
<1>6. Goal
  <2>1. CASE UNCHANGED <<busy, out>>
    BY <1>o, <2>1
  <2> QED
    BY <1>2, <1>3, <1>4, <1>5, <2>1, Framed DEF Frames, ChatFrames
<1> QED
  BY <1>1, <1>6 DEF LogsOK

(* What a retransmission adds to the list of a browser.                     *)
LEMMA ServedTexts ==
  ASSUME SocketsOK, StoreOK, AsksOK, LogsOK, NEW r \in creqs, ServeChat(r)
  PROVE  \E texts \in Seq(MessageNumbers) :
           ctab' = [ctab EXCEPT ![r.who] = [shown |-> ctab[r.who].shown \o texts, last |-> Larger(ctab[r.who].last, r.cur),
                                            waits |-> FALSE, again |-> TRUE]]
<1> DEFINE log     == blog[home[r.who]]
           missing == Picked(log, {i \in DOMAIN log : log[i].seq > r.from})
           logged  == [i \in 1..Len(missing) |-> missing[i].texts]
           whole   == SubSeq(stream, cut + 1, Len(stream))
           texts   == IF missing # << >> THEN FlattenSeq(logged)
                      ELSE Texts(IF r.alive THEN Living(whole) ELSE whole)
<1>1. ctab' = [ctab EXCEPT ![r.who] = [shown |-> ctab[r.who].shown \o texts, last |-> Larger(ctab[r.who].last, r.cur),
                                       waits |-> FALSE, again |-> TRUE]]
  BY DEF ServeChat
<1>2. log \in Seq(Entries)
  BY SocketsRoutes DEF LogsOK, AsksOK, IsAsk, SocketsOK, SocketsTypeOK
<1>3. missing \in Seq(Entries)
  <2> DEFINE I == {i \in DOMAIN log : log[i].seq > r.from}
  <2> HIDE DEF log, I
  <2>1. PicksTo(Picked(log, I), Len(log), log, I, Entries)
    BY <1>2, PickedAt
  <2> QED
    BY <2>1 DEF PicksTo, I
<1>4. stream \in Seq(Messages) /\ cut \in Nat /\ cut <= Len(stream) /\ Len(stream) \in Nat
  BY DEF StoreOK
<1>5. whole \in Seq(Messages)
  BY <1>4
<1> HIDE DEF missing, whole, log
<1>6. missing # << >> => FlattenSeq(logged) \in Seq(MessageNumbers)
  <2>1. \A i \in 1..Len(missing) : missing[i].texts \in Seq(MessageNumbers)
    <3> TAKE i \in 1..Len(missing)
    <3>1. missing[i] \in Entries
      BY <1>3
    <3> QED
      BY <3>1 DEF Entries
  <2>2. logged \in Seq(Seq(MessageNumbers)) /\ Len(logged) = Len(missing) /\ Len(missing) \in Nat
    BY <1>3, <2>1
  <2> HIDE DEF logged
  <2>3. missing # << >> => logged # << >>
    BY <1>3, <2>2
  <2> QED
    BY <2>2, <2>3, Flattened
<1>7. Texts(whole) \in Seq(MessageNumbers)
  <2>1. \A i \in 1..Len(whole) : whole[i].m \in MessageNumbers
    <3> TAKE i \in 1..Len(whole)
    <3>1. whole[i] \in Messages
      BY <1>5
    <3> QED
      BY <3>1 DEF Messages
  <2>2. [i \in 1..Len(whole) |-> whole[i].m] \in Seq(MessageNumbers)
    BY <1>5, <2>1
  <2> QED
    BY <2>2 DEF Texts
<1>8. Texts(Living(whole)) \in Seq(MessageNumbers)
  BY <1>5, BatchTexts
<1> HIDE DEF logged
<1>9. texts \in Seq(MessageNumbers)
  BY <1>6, <1>7, <1>8
<1> HIDE DEF texts
<1> QED
  BY <1>1, <1>9

(* How the list of a browser changes.                                       *)
LEMMA ShownChanges ==
  ASSUME SocketsOK, StoreOK, AsksOK, InHandOK, LogsOK, Next, NEW c \in Players
  PROVE  \/ ctab'[c].shown = ctab[c].shown /\ ctab'[c].again = ctab[c].again
         \/ Leave(c) /\ ctab'[c] = NewChat
         \/ \E w \in WAS : ChatEmit(w) /\ c \in Clients(w)
         \/ /\ stage[c] \in InRoom /\ ctab'[c].again /\ (\E r \in creqs : ServeChat(r))
            /\ \E texts \in Seq(MessageNumbers) : ctab'[c].shown = ctab[c].shown \o texts
<1>0. DOMAIN ctab = Players /\ IsChat(ctab[c])
  BY DEF AsksOK
<1>1. ASSUME NEW P, ChatForgets(P) PROVE ctab'[c].shown = ctab[c].shown /\ ctab'[c].again = ctab[c].again
  BY <1>0, <1>1 DEF ChatForgets, IsChat
<1>2. ASSUME NEW p \in Players, Leave(p) PROVE ctab'[c] = ctab[c] \/ (Leave(c) /\ ctab'[c] = NewChat)
  <2>1. ctab' = [ctab EXCEPT ![p] = NewChat]
    BY <1>2 DEF Leave, ChatLeaves
  <2> QED
    BY <1>0, <1>2, <2>1
<1>3. ASSUME NEW w \in WAS, ChatEmit(w), c \notin Clients(w) PROVE ctab'[c] = ctab[c]
  BY <1>3 DEF ChatEmit
<1>4. ASSUME NEW r \in creqs, ServeChat(r)
      PROVE  \/ ctab'[c] = ctab[c]
             \/ /\ stage[c] \in InRoom /\ ctab'[c].again
                /\ \E texts \in Seq(MessageNumbers) : ctab'[c].shown = ctab[c].shown \o texts
  <2>1. PICK texts \in Seq(MessageNumbers) :
          ctab' = [ctab EXCEPT ![r.who] = [shown |-> ctab[r.who].shown \o texts, last |-> Larger(ctab[r.who].last, r.cur),
                                           waits |-> FALSE, again |-> TRUE]]
    BY <1>4, ServedTexts
  <2>2. stage[r.who] \in InRoom
    BY DEF AsksOK
  <2>3. CASE r.who = c
    <3> DEFINE x == [shown |-> ctab[c].shown \o texts, last |-> Larger(ctab[c].last, r.cur), waits |-> FALSE, again |-> TRUE]
    <3>1. x.shown = ctab[c].shown \o texts /\ x.again
      OBVIOUS
    <3>2. ctab' = [ctab EXCEPT ![c] = x]
      BY <2>1, <2>3
    <3> HIDE DEF x
    <3>3. ctab'[c] = x
      BY <1>0, <3>2
    <3> QED
      BY <2>2, <2>3, <3>1, <3>3
  <2>4. CASE r.who # c
    BY <1>0, <2>1, <2>4
  <2> QED
    BY <2>3, <2>4
<1>5. UNCHANGED ctab \/ \E p \in Players : Announce(p) \/ SnapEmit(p) \/ Leave(p)
      \/ (\E w \in WAS : ChatEmit(w)) \/ \E r \in creqs : ServeChat(r)
  BY Framed DEF Frames, ChatFrames
<1>6. ASSUME NEW p \in Players, Announce(p) \/ SnapEmit(p) PROVE \E P : ChatForgets(P)
  BY <1>6 DEF Announce, SnapEmit
<1> QED
  BY <1>1, <1>2, <1>3, <1>4, <1>5, <1>6

LEMMA FitsStill ==
  ASSUME NEW shown, NEW s, NEW n \in Nat, NEW q, Fits(shown, s, n, q), NEW t, NEW m \in Nat, n <= m,
         \A k \in 1..n : t[k] = s[k], NEW r, Hand(r) \intersect Range(shown) = {}
  PROVE  Fits(shown, t, m, r)
<1>1. UpTo(s, n) \subseteq UpTo(t, m)
  <2> SUFFICES ASSUME NEW k \in 1..n PROVE s[k].m \in UpTo(t, m)
    BY DEF UpTo
  <2>1. k \in 1..m /\ t[k] = s[k]
    OBVIOUS
  <2> QED
    BY <2>1 DEF UpTo
<1> QED
  BY <1>1 DEF Fits

LEMMA ShownStart == Init => ShownOK
<1>1. Init => ctab = [p \in Players |-> NewChat]
  BY DEF Init, Start, ChatInit
<1>2. << >> \in Seq(MessageNumbers) /\ Range(<< >>) = {} /\ IsInjective(<< >>)
  BY DEF Range, IsInjective
<1>3. Init => \A c \in Players : ctab[c].shown = << >>
  BY <1>1 DEF NewChat
<1>4. \A s, n, q : Fits(<< >>, s, n, q)
  BY <1>2 DEF Fits
<1> QED
  BY <1>2, <1>3, <1>4 DEF ShownOK

(* What comes in hand was not read before.                                  *)
LEMMA UnreadIsNew ==
  ASSUME StoreOK, CursorOK, NEW w \in WAS
  PROVE  Ms(Unread(w)) \intersect UpTo(stream, Upto(w)) = {}
<1> SUFFICES ASSUME NEW e \in 1..Len(Unread(w)), NEW k \in 1..Upto(w), Unread(w)[e].m = stream[k].m PROVE FALSE
  BY DEF Ms, UpTo
<1>1. /\ Upto(w) \in 0..Len(stream) /\ Upto(w) + e \in 1..Len(stream) /\ Unread(w)[e] = stream[Upto(w) + e]
      /\ Unread(w) \in Seq(Messages) /\ Len(stream) \in Nat
  BY UnreadAt DEF StoreOK
<1>2. k \in 1..Len(stream) /\ Upto(w) + e # k
  BY <1>1
<1> QED
  BY <1>1, <1>2 DEF StoreOK, Distinct

LEMMA ShownStep ==
  ASSUME SocketsOK, StoreOK, CursorOK, AsksOK, InHandOK, LogsOK, ShownOK, Next
  PROVE  ShownOK'
<1> SUFFICES ASSUME NEW c \in Players
             PROVE  /\ ctab'[c].shown \in Seq(MessageNumbers)
                    /\ stage'[c] \notin InRoom => ctab'[c].shown = << >>
                    /\ stage'[c] \in InRoom => ctab'[c].again \/ Fits(ctab'[c].shown, stream', Upto(home[c])', out'[home[c]])
  BY Framed DEF ShownOK, Frames
<1>0. /\ ctab[c].shown \in Seq(MessageNumbers)
      /\ stage[c] \notin InRoom => ctab[c].shown = << >>
      /\ stage[c] \in InRoom => ctab[c].again \/ Fits(ctab[c].shown, stream, Upto(home[c]), out[home[c]])
  BY DEF ShownOK
<1>h. home[c] \in WAS
  BY SocketsRoutes DEF SocketsOK, SocketsTypeOK
<1> DEFINE v == home[c]
<1>u. /\ Upto(v) \in 0..Len(stream) /\ Upto(v)' \in Nat /\ Upto(v) <= Upto(v)' /\ Upto(v) \in Nat
      /\ Len(stream) \in Nat
      /\ \A k \in 1..Upto(v) : stream'[k] = stream[k]
  <2>1. \A w \in WAS : Upto(w) \in 0..Len(stream) /\ Upto(w)' \in 0..Len(stream') /\ Upto(w) <= Upto(w)'
    BY CursorStep
  <2>2. Len(stream) \in Nat /\ Len(stream') \in Nat /\ \A i \in 1..Len(stream) : stream'[i] = stream[i]
    BY StreamGrows
  <2>3. PICK w \in WAS : w = v
    BY <1>h
  <2>4. v' = v
    BY Framed DEF Frames
  <2>5. Upto(v)' = Upto(w)'
    BY <2>3, <2>4 DEF Upto
  <2>6. Upto(v) = Upto(w)
    BY <2>3
  <2> QED
    BY <2>1, <2>2, <2>5, <2>6
<1>e. << >> \in Seq(MessageNumbers) /\ Range(<< >>) = {} /\ IsInjective(<< >>)
  BY DEF Range, IsInjective
<1>1. CASE ctab'[c].shown = ctab[c].shown /\ ctab'[c].again = ctab[c].again
  <2>1. ASSUME stage'[c] \notin InRoom PROVE ctab'[c].shown = << >>
    <3>1. CASE stage[c] \notin InRoom
      BY <1>0, <1>1, <3>1
    <3>2. CASE stage[c] \in InRoom
      <4>1. ctab' = [ctab EXCEPT ![c] = NewChat]
        BY <2>1, <3>2, StaysInRoom DEF Leave, ChatLeaves
      <4> QED
        BY <4>1 DEF AsksOK, NewChat
    <3> QED
      BY <3>1, <3>2
  <2>2. ASSUME stage'[c] \in InRoom, ~ctab'[c].again PROVE Fits(ctab'[c].shown, stream', Upto(v)', out'[v])
    <3>1. CASE stage[c] \notin InRoom
      BY <1>0, <1>1, <1>e, <3>1 DEF Fits
    <3>2. CASE stage[c] \in InRoom
      <4>1. Fits(ctab[c].shown, stream, Upto(v), out[v])
        BY <1>0, <1>1, <2>2, <3>2
      <4>2. Hand(out[v]) \intersect Range(ctab[c].shown) = {} /\ Range(ctab[c].shown) \subseteq UpTo(stream, Upto(v))
        BY <4>1 DEF Fits
      <4>3. Hand(out'[v]) \intersect Range(ctab[c].shown) = {}
        <5>1. CASE out'[v] = out[v]
          BY <4>2, <5>1
        <5>2. ASSUME NEW w \in WAS, ChatEmit(w), w = v PROVE Hand(out'[v]) \subseteq Hand(out[v])
          <6>1. out[v] # << >> /\ out'[v] = Tail(out[v]) /\ out[v] \in Seq(Seq(Messages))
            BY <5>2 DEF ChatEmit, InHandOK
          <6> QED
            BY <6>1, HandSets
        <5>3. ASSUME NEW w \in WAS, ChatRead(w), w = v PROVE Hand(out'[v]) = Hand(out[v]) \union Ms(Unread(v))
          <6>1. Unread(w) \in Seq(Messages) /\ out' = [out EXCEPT ![w] = Append(@, Unread(w))] /\ out[w] \in Seq(Seq(Messages))
            BY <5>3, UnreadAt DEF ChatRead, InHandOK
          <6>2. out'[w] = Append(out[w], Unread(w))
            BY <6>1 DEF InHandOK
          <6> QED
            BY <5>3, <6>1, <6>2, HandSets
        <5>4. Ms(Unread(v)) \intersect Range(ctab[c].shown) = {}
          BY <1>h, <4>2, UnreadIsNew
        <5>5. out'[v] = out[v] \/ \E w \in WAS : w = v /\ (ChatEmit(w) \/ ChatRead(w))
          <6>1. ASSUME NEW w \in WAS, ChatEmit(w) \/ ChatRead(w) PROVE w = v \/ out'[v] = out[v]
            BY <1>h, <6>1 DEF ChatEmit, ChatRead, InHandOK
          <6> QED
            BY <6>1, Framed DEF Frames, ChatFrames
        <5> HIDE DEF v
        <5> QED
          BY <4>2, <5>1, <5>2, <5>3, <5>4, <5>5
      <4> HIDE DEF v
      <4>4. Fits(ctab[c].shown, stream', Upto(v)', out'[v])
        BY <1>u, <4>1, <4>3, FitsStill
      <4> QED
        BY <1>1, <4>4
    <3> QED
      BY <3>1, <3>2
  <2> QED
    BY <1>0, <1>1, <2>1, <2>2
<1>2. CASE Leave(c) /\ ctab'[c] = NewChat
  <2>1. stage'[c] = "gone"
    BY <1>2 DEF Leave, SocketLeaves, To, SocketsOK, SocketsTypeOK
  <2>2. ctab'[c].shown = << >>
    BY <1>2 DEF NewChat
  <2> QED
    BY <1>e, <2>1, <2>2 DEF InRoom
<1>3. CASE \E w \in WAS : ChatEmit(w) /\ c \in Clients(w)
  <2>1. PICK w \in WAS : ChatEmit(w) /\ c \in Clients(w)
    BY <1>3
  <2>2. w = v /\ stage[c] \in InRoom /\ UNCHANGED <<stage, stream, cut, lastId>>
    BY <2>1, ClientsInRoom DEF Clients, ChatEmit, sockets
  <2>3. /\ ctab'[c].again = ctab[c].again /\ ctab'[c].shown \in Seq(MessageNumbers)
        /\ Range(ctab'[c].shown) \subseteq Range(ctab[c].shown) \union Ms(Head(out[w]))
        /\ (IsInjective(ctab[c].shown) /\ Distinct(Head(out[w])) /\ Range(ctab[c].shown) \intersect Ms(Head(out[w])) = {})
              => IsInjective(ctab'[c].shown)
    BY <1>0, <2>1, EmitShown
  <2>4. out[w] \in Seq(Seq(Messages)) /\ out[w] # << >> /\ out'[w] = Tail(out[w])
    BY <2>1 DEF ChatEmit, InHandOK
  <2>5. /\ Hand(out'[w]) \subseteq Hand(out[w]) /\ Ms(Head(out[w])) \subseteq Hand(out[w]) /\ Distinct(Head(out[w]))
        /\ Ms(Head(out[w])) \intersect Hand(out'[w]) = {}
    BY <2>4, HandSets DEF InHandOK
  <2>6. Hand(out[w]) \subseteq UpTo(stream, Upto(w))
    BY WithinSet DEF InHandOK
  <2>7. Upto(w)' = Upto(w)
    BY <2>2 DEF Upto
  <2>8. ASSUME ~ctab[c].again PROVE Fits(ctab'[c].shown, stream, Upto(w), out'[w])
    <3>1. Fits(ctab[c].shown, stream, Upto(w), out[w])
      BY <1>0, <2>2, <2>8
    <3> QED
      BY <2>3, <2>5, <2>6, <3>1 DEF Fits
  <2>9. ctab'[c].again \/ Fits(ctab'[c].shown, stream', Upto(w)', out'[w])
    BY <2>2, <2>3, <2>7, <2>8
  <2>10. home' = home
    BY Framed DEF Frames
  <2>11. Upto(v)' = Upto(w)'
    BY <2>2, <2>10 DEF Upto
  <2> QED
    BY <2>2, <2>3, <2>9, <2>11
<1>4. CASE /\ stage[c] \in InRoom /\ ctab'[c].again /\ (\E r \in creqs : ServeChat(r))
           /\ \E texts \in Seq(MessageNumbers) : ctab'[c].shown = ctab[c].shown \o texts
  <2>1. UNCHANGED stage
    BY <1>4 DEF ServeChat, sockets
  <2> QED
    BY <1>0, <1>4, <2>1, Concatenated
<1> HIDE DEF v
<1> QED
  BY <1>1, <1>2, <1>3, <1>4, ShownChanges DEF v

-----------------------------------------------------------------------------
(* What is due                                                              *)

LEMMA DueStart == Init => DueOK
<1>1. Init => due = [p \in Players |-> {}]
  BY DEF Init, Start, ChatInit
<1> QED
  BY <1>1 DEF DueOK

(* How far a WAS has come changes when it reads, or when a WAS is left.     *)
LEMMA UptoChanges ==
  ASSUME SocketsOK, CursorOK, Next, NEW w \in WAS
  PROVE  Upto(w)' = Upto(w) \/ (\E p \in Players : Leave(p)) \/ ChatRead(w)
<1>0. lastId \in [WAS -> Nat] /\ \A v \in WAS : Clients(v) = {} => lastId[v] = 0
  BY DEF CursorOK
<1>1. ASSUME NEW p \in Players, Join(p) PROVE lastId'[w] = lastId[w]
  <2>1. UNCHANGED lastId \/ (Clients(home[p]) = {} /\ lastId' = [lastId EXCEPT ![home[p]] = 0])
    BY <1>1 DEF Join, ChatJoins
  <2> QED
    BY <1>0, <2>1
<1>2. ASSUME NEW v \in WAS, v # w, ChatRead(v) PROVE lastId'[w] = lastId[w]
  BY <1>0, <1>2 DEF ChatRead
<1>3. ASSUME ~\E p \in Players : Leave(p), ~ChatRead(w) PROVE lastId'[w] = lastId[w] /\ cut' = cut
  BY <1>1, <1>2, <1>3, Framed DEF Frames, ChatFrames
<1> QED
  BY <1>3 DEF Upto

LEMMA AliveGrows ==
  ASSUME NEW s \in Seq(Messages), NEW q \in Seq(Messages), NEW n \in 0..Len(s)
  PROVE  AliveAfter(s \o q, n) = AliveAfter(s, n) \union {e.m : e \in {e \in Range(q) : e.alive}}
<1> DEFINE t == s \o q
<1>1. /\ Len(t) = Len(s) + Len(q) /\ Len(s) \in Nat /\ Len(q) \in Nat /\ DOMAIN q = 1..Len(q)
      /\ \A k \in 1..Len(s) : t[k] = s[k]
      /\ \A k \in 1..Len(q) : t[Len(s) + k] = q[k]
  OBVIOUS
<1> HIDE DEF t
<1>2. ASSUME NEW k \in (n + 1)..Len(t), t[k].alive
      PROVE  t[k].m \in AliveAfter(s, n) \union {e.m : e \in {e \in Range(q) : e.alive}}
  <2>1. CASE k <= Len(s)
    <3>1. k \in (n + 1)..Len(s) /\ t[k] = s[k]
      BY <1>1, <2>1
    <3> QED
      BY <1>2, <3>1 DEF AliveAfter
  <2>2. CASE k > Len(s)
    <3>1. k - Len(s) \in 1..Len(q) /\ t[k] = q[k - Len(s)]
      <4>1. k - Len(s) \in 1..Len(q) /\ Len(s) + (k - Len(s)) = k
        BY <1>1, <2>2
      <4> QED
        BY <1>1, <4>1
    <3> QED
      BY <1>1, <1>2, <3>1 DEF Range
  <2> QED
    BY <1>1, <2>1, <2>2
<1>3. ASSUME NEW k \in (n + 1)..Len(s), s[k].alive PROVE s[k].m \in AliveAfter(t, n)
  <2>1. k \in (n + 1)..Len(t) /\ t[k] = s[k]
    BY <1>1
  <2> QED
    BY <1>3, <2>1 DEF AliveAfter
<1>4. ASSUME NEW e \in Range(q), e.alive PROVE e.m \in AliveAfter(t, n)
  <2>1. PICK k \in 1..Len(q) : e = q[k]
    BY <1>1 DEF Range
  <2>2. Len(s) + k \in (n + 1)..Len(t) /\ t[Len(s) + k] = e
    BY <1>1, <2>1
  <2> QED
    BY <1>4, <2>2 DEF AliveAfter
<1>5. AliveAfter(t, n) \subseteq AliveAfter(s, n) \union {e.m : e \in {e \in Range(q) : e.alive}}
  BY <1>2 DEF AliveAfter
<1>6. AliveAfter(s, n) \subseteq AliveAfter(t, n)
  BY <1>3 DEF AliveAfter
<1>7. {e.m : e \in {e \in Range(q) : e.alive}} \subseteq AliveAfter(t, n)
  BY <1>4
<1> QED
  BY <1>5, <1>6, <1>7 DEF t

LEMMA AliveUnread ==
  ASSUME StoreOK, CursorOK, NEW w \in WAS
  PROVE  /\ AliveAfter(stream, Upto(w)) \subseteq Alives(Unread(w))
         /\ AliveAfter(stream, Upto(w)) \subseteq {e.m : e \in Range(Unread(w))}
<1> SUFFICES ASSUME NEW k \in (Upto(w) + 1)..Len(stream), stream[k].alive
             PROVE  stream[k].m \in Alives(Unread(w)) /\ stream[k].m \in {e.m : e \in Range(Unread(w))}
  BY DEF AliveAfter
<1>1. PICK e \in 1..Len(Unread(w)) : Unread(w)[e] = stream[k]
  BY UnreadAt
<1>2. stream[k].m \in Alives(Unread(w))
  BY <1>1 DEF Alives
<1>3. Unread(w) \in Seq(Messages) /\ DOMAIN Unread(w) = 1..Len(Unread(w))
  BY UnreadAt
<1>4. Unread(w)[e] \in Range(Unread(w))
  BY <1>3 DEF Range
<1> QED
  BY <1>1, <1>2, <1>4

(* What a browser has been shown it goes on showing, until it leaves.       *)
LEMMA ShownStays ==
  ASSUME SocketsOK, StoreOK, AsksOK, InHandOK, LogsOK, ShownOK, Next, NEW c \in Players, ~Leave(c)
  PROVE  Range(ctab[c].shown) \subseteq Range(ctab'[c].shown)
<1>1. ctab[c].shown \in Seq(MessageNumbers)
  BY DEF ShownOK
<1>2. ASSUME NEW w \in WAS, ChatEmit(w) PROVE Range(ctab[c].shown) \subseteq Range(ctab'[c].shown)
  BY <1>1, <1>2, EmitShown
<1>3. ASSUME NEW texts \in Seq(MessageNumbers), ctab'[c].shown = ctab[c].shown \o texts
      PROVE  Range(ctab[c].shown) \subseteq Range(ctab'[c].shown)
  BY <1>1, <1>3, Concatenated
<1> QED
  BY <1>2, <1>3, ShownChanges

LEMMA DueStep ==
  ASSUME SocketsOK, StoreOK, CursorOK, AsksOK, InHandOK, LogsOK, ShownOK, DueOK, Next
  PROVE  DueOK'
<1> SUFFICES ASSUME NEW c \in Players
             PROVE  /\ due'[c] \subseteq MessageNumbers
                    /\ stage'[c] = "out" => due'[c] = {}
                    /\ stage'[c] \in InRoom =>
                         due'[c] \subseteq Range(ctab'[c].shown) \union HandAlive(out'[home[c]])
                                           \union AliveAfter(stream', Upto(home[c])')
  BY Framed DEF DueOK, Frames
<1> DEFINE w == home[c]
<1>h. w \in WAS /\ home' = home
  BY SocketsRoutes, Framed DEF SocketsOK, SocketsTypeOK, Frames
<1>w. \E v \in WAS : v = w /\ Upto(w)' = Upto(v)'
  <2>1. PICK v \in WAS : v = w
    BY <1>h
  <2>2. Upto(w)' = Upto(v)'
    BY <1>h, <2>1 DEF Upto
  <2> QED
    BY <2>1, <2>2
<1>0. /\ due[c] \subseteq MessageNumbers
      /\ stage[c] = "out" => due[c] = {}
      /\ stage[c] \in InRoom =>
           due[c] \subseteq Range(ctab[c].shown) \union HandAlive(out[w]) \union AliveAfter(stream, Upto(w))
  BY DEF DueOK
<1>s. /\ stage' = stage \/ \E p \in Players : Join(p) \/ Announce(p) \/ SnapRead(p) \/ SnapEmit(p) \/ Leave(p)
  BY Framed DEF Frames
<1>t. stage \in [Players -> Stages]
  BY DEF SocketsOK, SocketsTypeOK
<1>o. stage'[c] = "out" => stage[c] = "out"
  BY <1>s, <1>t DEF Join, Announce, SnapRead, SnapEmit, Leave, SocketJoins, SocketAnnounced, SocketReads, SocketSettles,
                   SocketLeaves, To
<1>i. stage'[c] \in InRoom => stage[c] \in InRoom \/ stage[c] = "out"
  BY <1>s, <1>t DEF Join, Announce, SnapRead, SnapEmit, Leave, SocketJoins, SocketAnnounced, SocketReads, SocketSettles,
                   SocketLeaves, To, InRoom, Stages
<1>l. Leave(c) => stage'[c] = "gone"
  BY <1>t DEF Leave, SocketLeaves, To
<1>v. UNCHANGED due \/ (\E p \in Players : Leave(p)) \/ \E v \in WAS : WriteChat(v)
  BY Framed DEF Frames, ChatFrames
<1>1. ASSUME NEW v \in WAS, WriteChat(v)
      PROVE  /\ due'[c] \subseteq MessageNumbers
             /\ stage'[c] = "out" => due'[c] = {}
             /\ stage'[c] \in InRoom =>
                  due'[c] \subseteq Range(ctab'[c].shown) \union HandAlive(out'[w]) \union AliveAfter(stream', Upto(w)')
  <2> DEFINE new == {e.m : e \in {e \in Range(cq[v]) : e.alive}}
  <2>1. /\ stream' = stream \o cq[v] /\ UNCHANGED <<stage, home, out, ctab, cut, lastId>>
        /\ due'[c] = IF c \in Present THEN due[c] \union new ELSE due[c]
    BY <1>1 DEF WriteChat, sockets
  <2>2. cq[v] \in Seq(Messages) /\ stream \in Seq(Messages)
    BY DEF StoreOK
  <2>3. new \subseteq MessageNumbers
    <3> SUFFICES ASSUME NEW e \in Range(cq[v]) PROVE e.m \in MessageNumbers
      OBVIOUS
    <3>1. e \in Messages
      BY <2>2 DEF Range
    <3> QED
      BY <3>1 DEF Messages
  <2>4. c \in Present => stage[c] \in InRoom
    BY ClientsInRoom DEF Present
  <2>5. Upto(w) \in 0..Len(stream) /\ Upto(w)' = Upto(w)
    BY <1>h, <2>1, UnreadAt DEF Upto
  <2>6. AliveAfter(stream', Upto(w)') = AliveAfter(stream, Upto(w)) \union new
    BY <2>1, <2>2, <2>5, AliveGrows
  <2>7. stage[c] \in InRoom => stage[c] # "out"
    BY DEF InRoom
  <2> HIDE DEF new, w
  <2> QED
    BY <1>0, <2>1, <2>3, <2>4, <2>6, <2>7
<1>2. ASSUME NEW p \in Players, Leave(p)
      PROVE  /\ due'[c] \subseteq MessageNumbers
             /\ stage'[c] = "out" => due'[c] = {}
             /\ stage'[c] \in InRoom =>
                  due'[c] \subseteq Range(ctab'[c].shown) \union HandAlive(out'[w]) \union AliveAfter(stream', Upto(w)')
  <2>1. UNCHANGED <<out, stream>>
    BY <1>2 DEF Leave, ChatLeaves
  <2>2. \/ UNCHANGED <<due, lastId, cut>>
        \/ due'[c] = due[c] \ {e.m : e \in Range(Unread(w))}
    BY <1>2 DEF Leave, ChatLeaves
  <2>3. UNCHANGED <<due, lastId, cut>> => due' = due /\ Upto(w)' = Upto(w)
    BY <1>h DEF Upto
  <2>4. AliveAfter(stream, Upto(w)) \subseteq {e.m : e \in Range(Unread(w))}
    BY <1>h, AliveUnread
  <2>5. ASSUME stage'[c] \in InRoom, stage[c] \in InRoom PROVE Range(ctab[c].shown) \subseteq Range(ctab'[c].shown)
    <3>1. ~Leave(c)
      BY <1>l, <2>5 DEF InRoom
    <3> QED
      BY <3>1, ShownStays
  <2> HIDE DEF w
  <2> QED
    BY <1>0, <1>i, <1>o, <2>1, <2>2, <2>3, <2>4, <2>5
<1>3. ASSUME UNCHANGED due, ~\E p \in Players : Leave(p), ~\E v \in WAS : WriteChat(v)
      PROVE  /\ due'[c] \subseteq MessageNumbers
             /\ stage'[c] = "out" => due'[c] = {}
             /\ stage'[c] \in InRoom =>
                  due'[c] \subseteq Range(ctab'[c].shown) \union HandAlive(out'[w]) \union AliveAfter(stream', Upto(w)')
  <2> SUFFICES ASSUME stage[c] \in InRoom
               PROVE  due[c] \subseteq Range(ctab'[c].shown) \union HandAlive(out'[w]) \union AliveAfter(stream', Upto(w)')
    BY <1>0, <1>3, <1>o, <1>i
  <2>1. Range(ctab[c].shown) \subseteq Range(ctab'[c].shown) /\ stream' = stream
    BY <1>3, ShownStays, Framed DEF Frames, ChatFrames
  <2>2. ASSUME ChatEmit(w)
        PROVE  /\ HandAlive(out[w]) \subseteq Range(ctab'[c].shown) \union HandAlive(out'[w])
               /\ Upto(w)' = Upto(w)
    <3>1. out[w] \in Seq(Seq(Messages)) /\ out[w] # << >> /\ out'[w] = Tail(out[w])
      BY <1>h, <2>2 DEF ChatEmit, InHandOK
    <3>2. c \in Clients(w) /\ ctab[c].shown \in Seq(MessageNumbers)
      BY ClientsInRoom DEF ShownOK
    <3>3. Alives(Head(out[w])) \subseteq Range(ctab'[c].shown)
      BY <1>h, <2>2, <3>2, EmitShown
    <3>4. HandAlive(out[w]) = Alives(Head(out[w])) \union HandAlive(Tail(out[w]))
      BY <3>1, HandSets
    <3>5. Upto(w)' = Upto(w)
      BY <1>h, <2>2 DEF ChatEmit, Upto
    <3> QED
      BY <3>1, <3>3, <3>4, <3>5
  <2>3. ASSUME ChatRead(w)
        PROVE  HandAlive(out'[w]) = HandAlive(out[w]) \union Alives(Unread(w))
    <3>1. out[w] \in Seq(Seq(Messages)) /\ out'[w] = Append(out[w], Unread(w))
      BY <1>h, <2>3 DEF ChatRead, InHandOK
    <3>2. Unread(w) \in Seq(Messages)
      BY <1>h, UnreadAt
    <3> QED
      BY <3>1, <3>2, HandSets
  <2>4. AliveAfter(stream, Upto(w)) \subseteq Alives(Unread(w))
    BY <1>h, AliveUnread
  <2>5. out'[w] = out[w] \/ ChatEmit(w) \/ ChatRead(w)
    <3>1. ASSUME NEW v \in WAS, ChatEmit(v) \/ ChatRead(v) PROVE w = v \/ out'[w] = out[w]
      BY <1>h, <3>1 DEF ChatEmit, ChatRead, InHandOK
    <3> QED
      BY <3>1, Framed DEF Frames, ChatFrames
  <2>6. Upto(w)' = Upto(w) \/ ChatRead(w)
    BY <1>3, <1>w, UptoChanges
  <2> HIDE DEF w
  <2> QED
    BY <1>0, <2>1, <2>2, <2>3, <2>4, <2>5, <2>6
<1> HIDE DEF w
<1> QED
  BY <1>1, <1>2, <1>3, <1>v DEF w

-----------------------------------------------------------------------------
(* The theorems                                                             *)

ChatOK == StoreOK /\ CursorOK /\ InHandOK /\ ShownOK /\ DueOK /\ LogsOK

LEMMA ChatStep ==
  ASSUME DeliveryOK, ChatOK, [Next]_vars
  PROVE  ChatOK'
<1>0. SocketsOK /\ AsksOK /\ StoreOK /\ CursorOK /\ InHandOK /\ ShownOK /\ DueOK /\ LogsOK
  BY DEF DeliveryOK, ChatOK
<1>1. CASE Next
  BY <1>0, <1>1, StoreStep, CursorStep, InHandStep, ShownStep, DueStep, LogsStep DEF ChatOK
<1>2. CASE UNCHANGED vars
  <2>1. UNCHANGED <<home, stage, used, cq, stream, cut, lastId, busy, out, blog, ctab, due>>
    BY <1>2 DEF vars, sockets, chats
  <2>2. StoreOK' /\ CursorOK' /\ LogsOK'
    BY <1>0, <2>1 DEF StoreOK, CursorOK, LogsOK, Clients
  <2>3. InHandOK' /\ ShownOK' /\ DueOK'
    BY <1>0, <2>1 DEF InHandOK, ShownOK, DueOK, Upto
  <2> QED
    BY <2>2, <2>3 DEF ChatOK
<1> QED
  BY <1>1, <1>2

LEMMA ChatInvariant == Spec => []ChatOK
<1>1. Init => ChatOK
  BY StoreStart, CursorStart, InHandStart, ShownStart, DueStart, LogsStart DEF ChatOK
<1> QED
  BY <1>1, ChatStep, DeliveryInvariant, PTL DEF Spec

(* No message is broadcast to a browser twice: a WAS takes every entry of   *)
(* the stream in hand once, however the timers, joins and departures of     *)
(* the others fall, and only the answer to a retransmission repeats.        *)
THEOREM DeliveryOnce == Spec => []BroadcastOnce
<1>1. ASSUME DeliveryOK, ChatOK PROVE BroadcastOnce
  <2> SUFFICES ASSUME NEW c \in Players, ~ctab[c].again PROVE IsInjective(ctab[c].shown)
    BY DEF BroadcastOnce
  <2>1. CASE stage[c] \in InRoom
    BY <1>1, <2>1 DEF ChatOK, ShownOK, Fits
  <2>2. CASE stage[c] \notin InRoom
    <3>1. ctab[c].shown = << >>
      BY <1>1, <2>2 DEF ChatOK, ShownOK
    <3> QED
      BY <3>1 DEF IsInjective
  <2> QED
    BY <2>1, <2>2
<1> QED
  BY <1>1, DeliveryInvariant, ChatInvariant, PTL

(* Once nothing is under way, every browser shows all that was due to it:   *)
(* what the living said and what reached the stream while it was there,     *)
(* whichever WAS wrote it, except what a cleanupRoom deleted unread.        *)
THEOREM DeliveryComplete == Spec => []ChatComplete
<1>1. ASSUME DeliveryOK, ChatOK PROVE ChatComplete
  <2> SUFFICES ASSUME ChatQuiet, NEW c \in Players, stage[c] = "in" PROVE due[c] \subseteq Range(ctab[c].shown)
    BY DEF ChatComplete
  <2>1. SocketsOK /\ StoreOK /\ CursorOK /\ DueOK /\ InHandOK
    BY <1>1 DEF DeliveryOK, ChatOK
  <2>2. stage[c] \in InRoom
    BY DEF InRoom, Stages
  <2>3. home[c] \in WAS /\ Clients(home[c]) # {}
    BY <2>1, <2>2, ClientsInRoom
  <2> DEFINE w == home[c]
  <2>4. out[w] = << >> /\ Unread(w) = << >>
    BY <2>3 DEF ChatQuiet
  <2>5. HandAlive(out[w]) = {}
    BY <2>4 DEF HandAlive
  <2>6. AliveAfter(stream, Upto(w)) = {}
    BY <2>1, <2>3, <2>4, AliveUnread DEF Alives
  <2> QED
    BY <2>1, <2>2, <2>5, <2>6 DEF DueOK
<1> QED
  BY <1>1, DeliveryInvariant, ChatInvariant, PTL

(* Every queue, stream, log and number keeps to its bounds, and a WAS has   *)
(* at most one waiting move of a player, and none without clients.          *)
THEOREM DeliveryTypes == Spec => []TypeOK
<1>1. ASSUME DeliveryOK, ChatOK PROVE TypeOK
  <2>0. SocketsOK /\ QueuesOK /\ BatchesOK /\ BudgetOK /\ TabsOK /\ StoreOK /\ CursorOK /\ DueOK /\ LogsOK
    BY <1>1 DEF DeliveryOK, PositionsOK, ChatOK
  <2>1. SocketsTypeOK /\ topic \in {"moves", "talk"}
    BY <2>0 DEF SocketsOK
  <2>2. seq \in 0..(MaxInputs + 1)
    <3>1. Cardinality(Waiting) \in Nat
      BY <2>0, FS_CardinalityType DEF BudgetOK
    <3> QED
      BY <2>0, <2>1, <3>1, SocketsBound DEF BatchesOK, BudgetOK, SocketsTypeOK
  <2>3. ASSUME NEW i \in 1..Len(plog) PROVE plog[i].seq \in 1..(MaxInputs + 1) /\ plog[i].ups # {}
    <3>1. plog[i] \in Batches
      BY <2>0 DEF BatchesOK
    <3> QED
      BY <3>1 DEF Batches, Numbers
  <2>4. ASSUME NEW w \in WAS PROVE Who(inq[w]) \subseteq Players /\ Cardinality(Who(inq[w])) = Cardinality(inq[w])
    <3> DEFINE f == [u \in inq[w] |-> u.who]
    <3>1. IsFiniteSet(inq[w])
      BY <2>0, FewerWait DEF Waiting
    <3>2. inq[w] \subseteq Updates /\ \A u, x \in inq[w] : u.who = x.who => u = x
      BY <2>0 DEF QueuesOK
    <3>3. Who(inq[w]) \subseteq Players
      BY <3>2 DEF Who, Updates
    <3>4. f \in Bijection(inq[w], Who(inq[w]))
      <4>1. f \in [inq[w] -> Who(inq[w])]
        BY DEF Who
      <4>2. \A u, x \in inq[w] : f[u] = f[x] => u = x
        BY <3>2
      <4>3. \A y \in Who(inq[w]) : \E u \in inq[w] : f[u] = y
        BY DEF Who
      <4> HIDE DEF f
      <4> QED
        BY <4>1, <4>2, <4>3, Zenon DEF Bijection, Injection, Surjection, IsInjective
    <3>5. Cardinality(Who(inq[w])) = Cardinality(inq[w])
      <4> HIDE DEF f
      <4>1. ExistsBijection(inq[w], Who(inq[w]))
        BY <3>4 DEF ExistsBijection
      <4> QED
        BY <3>1, <4>1, FS_Bijection
    <3> QED
      BY <3>3, <3>5
  <2>5. ASSUME NEW c \in Players PROVE DOMAIN tab[c].shown \subseteq Players /\ tab[c].last \in 0..(MaxInputs + 1)
    BY <2>0 DEF TabsOK, IsTab
  <2>6. PositionTypeOK
    BY <2>0, <2>2, <2>3, <2>4, <2>5 DEF PositionTypeOK, BatchesOK, QueuesOK
  <2>7. Len(stream) <= MaxInputs
    BY <2>0, StreamBounded
  <2>8. ChatTypeOK
    <3>1. \A w \in WAS : lastId[w] \in 0..Len(stream)
      BY <2>0 DEF StoreOK, CursorOK
    <3>2. \A c \in Players : due[c] \subseteq 1..MaxInputs
      BY <2>0 DEF DueOK, MessageNumbers
    <3> QED
      BY <2>0, <2>7, <3>1, <3>2 DEF ChatTypeOK, StoreOK, LogsOK
  <2> QED
    BY <2>1, <2>6, <2>8 DEF TypeOK
<1> QED
  BY <1>1, DeliveryInvariant, ChatInvariant, PTL
=============================================================================
