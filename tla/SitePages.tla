------------------------------ MODULE SitePages ------------------------------
(***************************************************************************)
(* Theorems about what the pages of Site show, for every value of its      *)
(* constants: that the tab of a visitor is in the room its page is of, that*)
(* the screen of a game shows the game as it was played, and that the list *)
(* of waiting rooms comes to have them all; and then, from these and from  *)
(* SiteProofs, that the state of every part is of its type.                *)
(***************************************************************************)
EXTENDS SiteProofs

-----------------------------------------------------------------------------
(* A visit                                                                  *)

RoomNames == Rooms \union {NoRoom}
AllPages == Pages \union {Pin(r) : r \in Rooms}
Handlers == [on : {"createRoom", "disconnect", "exception", "joinRoom"}, of : AllPages \union {App}]
SocketStates == [query : RoomNames, at : {"connecting", "connected", "joined", "closed"}, room : RoomNames,
                 handlers : SUBSET Handlers]
BrowserTabs == [page : AllPages, gameId : RoomNames, socket : Nat, chosen : BOOLEAN, handlers : SUBSET Handlers,
                waiting : Seq(RoomNames), sockets : Seq(SocketStates)]

TabShape(t) ==
  /\ t \in BrowserTabs /\ t.socket \in 0..Len(t.sockets)
  /\ \A s \in DOMAIN t.sockets : t.sockets[s].at \in {"connecting", "closed"} => t.sockets[s].room = NoRoom

(* The handlers of the service, and those of the socket it has.             *)
Hears(t, hs) == t.handlers = hs /\ (t.socket # 0 => t.sockets[t.socket].handlers = hs)
HearsPage(t) == Hears(t, AppHandlers \union PageHandlers(t.page))

(* Nothing but handlers is different.                                       *)
Alike(t, u) ==
  /\ u.socket = t.socket /\ u.chosen = t.chosen /\ u.waiting = t.waiting /\ Len(u.sockets) = Len(t.sockets)
  /\ \A s \in DOMAIN t.sockets :
       /\ u.sockets[s].query = t.sockets[s].query /\ u.sockets[s].at = t.sockets[s].at
       /\ u.sockets[s].room = t.sockets[s].room

(* The pages of the front end and the room each is about.                   *)
LEMMA PageFacts ==
  /\ AllPages \subseteq [at : {"main", "setup", "lobby", "pin", "not found", "game"}, room : RoomNames]
  /\ \A pg \in AllPages : pg.at = "game" => pg.room \in Rooms /\ pg = Game(pg.room)
  /\ \A pg \in AllPages : pg.at = "main" <=> pg = Main
  /\ \A pg \in AllPages : pg.at = "setup" <=> pg = PageAt("setup", NoRoom)
  /\ \A pg \in AllPages : pg.at = "lobby" => pg.room = NoRoom
  /\ \A pg \in AllPages : pg.at = "not found" <=> pg = NotFound
  /\ \A pg \in AllPages : pg # App
  /\ \A r \in Rooms : Game(r) \in AllPages /\ Pin(r) \in AllPages
  /\ Main \in AllPages /\ NotFound \in AllPages /\ PageAt("lobby", NoRoom) \in AllPages
  /\ PageAt("setup", NoRoom) \in AllPages /\ Pin(NoRoom) \in AllPages
<1>1. \A pg \in AllPages :
        \/ pg \in {Main, PageAt("setup", NoRoom), PageAt("lobby", NoRoom), Pin(NoRoom), NotFound}
        \/ \E r \in Rooms : pg = Game(r) \/ pg = Pin(r)
  BY DEF AllPages, Pages
<1>2. ASSUME NEW pg \in AllPages
      PROVE  /\ pg \in [at : {"main", "setup", "lobby", "pin", "not found", "game"}, room : RoomNames]
             /\ pg.at = "game" => pg.room \in Rooms /\ pg = Game(pg.room)
             /\ pg.at = "main" => pg = Main
             /\ pg.at = "setup" => pg = PageAt("setup", NoRoom)
             /\ pg.at = "lobby" => pg.room = NoRoom
             /\ pg.at = "not found" => pg = NotFound
  <2>1. ASSUME NEW at \in {"main", "setup", "lobby", "pin", "not found", "game"}, NEW r \in RoomNames, pg = PageAt(at, r)
        PROVE  pg.at = at /\ pg.room = r
               /\ pg \in [at : {"main", "setup", "lobby", "pin", "not found", "game"}, room : RoomNames]
    BY <2>1 DEF PageAt
  <2>2. NoRoom \in RoomNames /\ Rooms \subseteq RoomNames
    BY DEF RoomNames
  <2>3. CASE pg = Main
    BY <2>1, <2>2, <2>3 DEF Main
  <2>4. CASE pg = PageAt("setup", NoRoom)
    BY <2>1, <2>2, <2>4
  <2>5. CASE pg = PageAt("lobby", NoRoom)
    BY <2>1, <2>2, <2>5
  <2>6. CASE pg = Pin(NoRoom)
    BY <2>1, <2>2, <2>6 DEF Pin
  <2>7. CASE pg = NotFound
    BY <2>1, <2>2, <2>7 DEF NotFound
  <2>8. ASSUME NEW r \in Rooms, pg = Game(r)
        PROVE  pg.at = "game" /\ pg.room = r /\ pg \in [at : {"main", "setup", "lobby", "pin", "not found", "game"}, room : RoomNames]
    BY <2>1, <2>2, <2>8 DEF Game
  <2>9. ASSUME NEW r \in Rooms, pg = Pin(r)
        PROVE  pg.at = "pin" /\ pg \in [at : {"main", "setup", "lobby", "pin", "not found", "game"}, room : RoomNames]
    BY <2>1, <2>2, <2>9 DEF Pin
  <2> QED
    BY <1>1, <2>3, <2>4, <2>5, <2>6, <2>7, <2>8, <2>9
<1>5. Main.at = "main" /\ NotFound.at = "not found" /\ PageAt("setup", NoRoom).at = "setup" /\ App.at = "app"
  BY DEF Main, NotFound, App, PageAt
<1>6. \A pg \in AllPages : pg # App
  BY <1>2, <1>5
<1>7. /\ \A r \in Rooms : Game(r) \in AllPages /\ Pin(r) \in AllPages
      /\ Main \in AllPages /\ NotFound \in AllPages /\ PageAt("lobby", NoRoom) \in AllPages
      /\ PageAt("setup", NoRoom) \in AllPages /\ Pin(NoRoom) \in AllPages
  BY DEF AllPages, Pages
<1> QED
  BY <1>2, <1>5, <1>6, <1>7

(* The handlers of a page are its own, and are not those of the             *)
(* application.                                                             *)
LEMMA HandlerFacts ==
  /\ AppHandlers \subseteq Handlers
  /\ \A pg \in AllPages : PageHandlers(pg) \subseteq Handlers /\ PageHandlers(pg) \intersect AppHandlers = {}
  /\ \A pg \in AllPages : \A h \in PageHandlers(pg) : h.of = pg
<1>1. AppHandlers \subseteq Handlers
  BY DEF AppHandlers, Handlers, Handler
<1>2. ASSUME NEW pg \in AllPages
      PROVE  PageHandlers(pg) \subseteq Handlers /\ (\A h \in PageHandlers(pg) : h.of = pg)
  BY DEF PageHandlers, Handlers, Handler
<1>3. \A pg \in AllPages : PageHandlers(pg) \intersect AppHandlers = {}
  <2>1. \A h \in AppHandlers : h.of = App
    BY DEF AppHandlers, Handler
  <2> QED
    BY <1>2, <2>1, PageFacts
<1> QED
  BY <1>1, <1>2, <1>3

(* Putting a socket in the place of another.                                *)
LEMMA SocketPut ==
  ASSUME NEW ss \in Seq(SocketStates), NEW s \in DOMAIN ss, NEW row \in SocketStates
  PROVE  /\ [ss EXCEPT ![s] = row] \in Seq(SocketStates) /\ Len([ss EXCEPT ![s] = row]) = Len(ss)
         /\ DOMAIN [ss EXCEPT ![s] = row] = DOMAIN ss
         /\ \A i \in DOMAIN ss : [ss EXCEPT ![s] = row][i] = IF i = s THEN row ELSE ss[i]
OBVIOUS

(* On and Off: new handlers for the service and its socket.                 *)
Rehandled(t, hs) ==
  [t EXCEPT !.handlers = hs, !.sockets = IF t.socket = 0 THEN @ ELSE [@ EXCEPT ![t.socket].handlers = hs]]

(* Giving the handlers hs to every socket of a tab leaves all else of it as *)
(* it was.                                                                  *)
LEMMA RehandledFacts ==
  ASSUME NEW t, TabShape(t), NEW hs \in SUBSET Handlers
  PROVE  /\ TabShape(Rehandled(t, hs)) /\ Hears(Rehandled(t, hs), hs) /\ Alike(t, Rehandled(t, hs))
         /\ Rehandled(t, hs).page = t.page /\ Rehandled(t, hs).gameId = t.gameId
<1> DEFINE u == Rehandled(t, hs)
<1>1. t \in BrowserTabs /\ t.sockets \in Seq(SocketStates) /\ t.socket \in Nat /\ t.socket \in 0..Len(t.sockets)
  BY DEF TabShape, BrowserTabs
<1>2. CASE t.socket = 0
  <2>1. u = [t EXCEPT !.handlers = hs]
    BY <1>1, <1>2 DEF Rehandled, BrowserTabs
  <2>2. u \in BrowserTabs /\ u.sockets = t.sockets /\ u.handlers = hs /\ u.socket = t.socket /\ u.chosen = t.chosen
        /\ u.waiting = t.waiting /\ u.page = t.page /\ u.gameId = t.gameId
    BY <1>1, <2>1 DEF BrowserTabs
  <2> QED
    BY <1>2, <2>2 DEF TabShape, Hears, Alike
<1>3. CASE t.socket # 0
  <2>0. t.socket \in DOMAIN t.sockets
    BY <1>1, <1>3
  <2> DEFINE row == [t.sockets[t.socket] EXCEPT !.handlers = hs]
             ss == [t.sockets EXCEPT ![t.socket] = row]
  <2>1. t.sockets[t.socket] \in SocketStates
    BY <1>1, <2>0
  <2>2. row \in SocketStates /\ row.handlers = hs /\ row.query = t.sockets[t.socket].query
        /\ row.at = t.sockets[t.socket].at /\ row.room = t.sockets[t.socket].room
    BY <2>1 DEF SocketStates
  <2>3. u = [t EXCEPT !.handlers = hs, !.sockets = ss]
    BY <1>1, <1>3 DEF Rehandled, BrowserTabs
  <2> HIDE DEF row
  <2>4. /\ ss \in Seq(SocketStates) /\ Len(ss) = Len(t.sockets) /\ DOMAIN ss = DOMAIN t.sockets
        /\ \A i \in DOMAIN ss : ss[i] = IF i = t.socket THEN row ELSE t.sockets[i]
    BY <1>1, <2>0, <2>2, SocketPut
  <2> HIDE DEF ss
  <2>5. u \in BrowserTabs /\ u.sockets = ss /\ u.handlers = hs /\ u.socket = t.socket /\ u.chosen = t.chosen
        /\ u.waiting = t.waiting /\ u.page = t.page /\ u.gameId = t.gameId
    BY <1>1, <2>3, <2>4 DEF BrowserTabs
  <2>6. Hears(u, hs)
    BY <2>0, <2>2, <2>4, <2>5 DEF Hears
  <2>7. Alike(t, u)
    BY <2>2, <2>4, <2>5 DEF Alike
  <2>8. TabShape(u)
    BY <2>2, <2>4, <2>5 DEF TabShape
  <2> QED
    BY <2>5, <2>6, <2>7, <2>8
<1> QED
  BY <1>2, <1>3

(* Adding or removing handlers, in a tab whose sockets all have the         *)
(* handlers hs.                                                             *)
LEMMA OnOff ==
  ASSUME NEW t, TabShape(t), NEW hs, Hears(t, hs), NEW more
  PROVE  On(t, more) = Rehandled(t, hs \union more) /\ Off(t, more) = Rehandled(t, hs \ more)
<1>1. t \in BrowserTabs /\ t.sockets \in Seq(SocketStates) /\ t.socket \in 0..Len(t.sockets)
  BY DEF TabShape, BrowserTabs
<1>2. CASE t.socket = 0
  BY <1>1, <1>2 DEF On, Off, Rehandled, Hears, BrowserTabs
<1>3. CASE t.socket # 0
  <2>1. t.socket \in DOMAIN t.sockets /\ t.sockets[t.socket].handlers = hs /\ t.handlers = hs
    BY <1>1, <1>3 DEF Hears
  <2>a. On(t, more) = [t EXCEPT !.handlers = t.handlers \union more, !.sockets = [t.sockets EXCEPT ![t.socket].handlers = @ \union more]]
    BY <1>1, <1>3 DEF On, BrowserTabs
  <2>b. Off(t, more) = [t EXCEPT !.handlers = t.handlers \ more, !.sockets = [t.sockets EXCEPT ![t.socket].handlers = @ \ more]]
    BY <1>1, <1>3 DEF Off, BrowserTabs
  <2>c. \A h : Rehandled(t, h) = [t EXCEPT !.handlers = h, !.sockets = [t.sockets EXCEPT ![t.socket].handlers = h]]
    BY <1>1, <1>3 DEF Rehandled, BrowserTabs
  <2>2. [t.sockets EXCEPT ![t.socket].handlers = @ \union more] = [t.sockets EXCEPT ![t.socket].handlers = hs \union more]
    BY <2>1
  <2>3. [t.sockets EXCEPT ![t.socket].handlers = @ \ more] = [t.sockets EXCEPT ![t.socket].handlers = hs \ more]
    BY <2>1
  <2> QED
    BY <1>3, <2>1, <2>2, <2>3, <2>a, <2>b, <2>c
<1> QED
  BY <1>2, <1>3

(* The same, with the handlers that result named by their elements.         *)
LEMMA OnOffAll ==
  ASSUME NEW t, TabShape(t), NEW hs, Hears(t, hs), NEW more, NEW all
  PROVE  /\ (\A h : h \in all <=> h \in hs \/ h \in more) => On(t, more) = Rehandled(t, all)
         /\ (\A h : h \in all <=> h \in hs /\ h \notin more) => Off(t, more) = Rehandled(t, all)
<1> DEFINE plus == hs \union more
           minus == hs \ more
<1>1. On(t, more) = Rehandled(t, plus) /\ Off(t, more) = Rehandled(t, minus)
  BY OnOff
<1>2. (\A h : h \in all <=> h \in hs \/ h \in more) => all = plus
  OBVIOUS
<1>3. (\A h : h \in all <=> h \in hs /\ h \notin more) => all = minus
  OBVIOUS
<1> HIDE DEF plus, minus
<1> QED
  BY <1>1, <1>2, <1>3

(* What becomes of the sockets of a tab, whatever their handlers.           *)
SameSocket(t, u, s) ==
  /\ u.sockets[s].query = t.sockets[s].query /\ u.sockets[s].at = t.sockets[s].at
  /\ u.sockets[s].room = t.sockets[s].room

Left(t, u) ==       \* disconnect()
  /\ u.socket = t.socket /\ u.waiting = t.waiting /\ Len(u.sockets) = Len(t.sockets) /\ u.chosen = FALSE
  /\ \A s \in DOMAIN t.sockets : IF s = t.socket /\ IsActive(t) THEN u.sockets[s].at = "closed" ELSE SameSocket(t, u, s)

Opened(t, u, query) ==
  /\ u.socket = Len(t.sockets) + 1 /\ Len(u.sockets) = Len(t.sockets) + 1
  /\ \A s \in DOMAIN t.sockets : SameSocket(t, u, s)
  /\ u.sockets[u.socket].query = query /\ u.sockets[u.socket].at = "connecting" /\ u.sockets[u.socket].room = NoRoom

Connects(t, u, query) ==    \* connect()
  \/ IsActive(t) /\ Alike(t, u)
  \/ ~IsActive(t) /\ Opened(t, u, query) /\ u.waiting = t.waiting
  \/ /\ ~IsActive(t) /\ u.waiting = Append(t.waiting, query)
     /\ u.socket = t.socket /\ Len(u.sockets) = Len(t.sockets) /\ \A s \in DOMAIN t.sockets : SameSocket(t, u, s)

(* A socket goes: it alone changes, and its room with it.                   *)
LEMMA GoneFacts ==
  ASSUME NEW t, TabShape(t), NEW s \in DOMAIN t.sockets, NEW at \in {"connecting", "closed"}
  PROVE  LET u == Gone(t, s, at) IN
         /\ TabShape(u) /\ (\A hs : Hears(t, hs) => Hears(u, hs))
         /\ u.page = t.page /\ u.socket = t.socket /\ u.chosen = t.chosen /\ u.waiting = t.waiting
         /\ u.gameId \in {t.gameId, NoRoom} /\ Len(u.sockets) = Len(t.sockets)
         /\ \A i \in DOMAIN t.sockets \ {s} : u.sockets[i] = t.sockets[i]
         /\ u.sockets[s].query = t.sockets[s].query /\ u.sockets[s].at = at /\ u.sockets[s].room = NoRoom
<1> DEFINE u == Gone(t, s, at)
           row == [t.sockets[s] EXCEPT !.at = at, !.room = NoRoom]
           ss == [t.sockets EXCEPT ![s] = row]
           id == IF Handler("disconnect", App) \in t.sockets[s].handlers THEN NoRoom ELSE t.gameId
<1>1. t \in BrowserTabs /\ t.sockets \in Seq(SocketStates) /\ t.socket \in 0..Len(t.sockets) /\ t.sockets[s] \in SocketStates
      /\ t.gameId \in RoomNames
  <2>1. t \in BrowserTabs /\ t.sockets \in Seq(SocketStates) /\ t.socket \in 0..Len(t.sockets) /\ t.gameId \in RoomNames
    BY DEF TabShape, BrowserTabs
  <2> QED
    BY <2>1
<1>2. row \in SocketStates /\ row.handlers = t.sockets[s].handlers /\ row.query = t.sockets[s].query
      /\ row.at = at /\ row.room = NoRoom
  BY <1>1 DEF SocketStates, RoomNames
<1>3. id \in RoomNames /\ id \in {t.gameId, NoRoom}
  BY <1>1 DEF RoomNames
<1>4. u = [t EXCEPT !.sockets = ss, !.gameId = id]
  BY <1>1 DEF Gone, BrowserTabs, SocketStates
<1> HIDE DEF row, id
<1>5. /\ ss \in Seq(SocketStates) /\ Len(ss) = Len(t.sockets) /\ DOMAIN ss = DOMAIN t.sockets
      /\ \A i \in DOMAIN ss : ss[i] = IF i = s THEN row ELSE t.sockets[i]
  BY <1>1, <1>2, SocketPut
<1> HIDE DEF ss
<1>6. u \in BrowserTabs /\ u.sockets = ss /\ u.handlers = t.handlers /\ u.socket = t.socket /\ u.chosen = t.chosen
      /\ u.waiting = t.waiting /\ u.page = t.page /\ u.gameId = id
  BY <1>1, <1>3, <1>4, <1>5 DEF BrowserTabs
<1> HIDE DEF u
<1>7. \A hs : Hears(t, hs) => Hears(u, hs)
  BY <1>1, <1>2, <1>5, <1>6 DEF Hears
<1>8. TabShape(u)
  BY <1>2, <1>5, <1>6 DEF TabShape
<1> QED
  BY <1>2, <1>3, <1>5, <1>6, <1>7, <1>8 DEF u

(* disconnect: the tab has no socket, and its old one is closed.            *)
LEMMA DisconnectFacts ==
  ASSUME NEW t, TabShape(t)
  PROVE  LET u == Disconnect(t) IN
         /\ TabShape(u) /\ (\A hs : Hears(t, hs) => Hears(u, hs)) /\ Left(t, u)
         /\ u.page = t.page /\ u.gameId \in {t.gameId, NoRoom}
<1>1. t \in BrowserTabs /\ t.socket \in 0..Len(t.sockets) /\ t.sockets \in Seq(SocketStates)
  BY DEF TabShape, BrowserTabs
<1>2. ASSUME NEW g, TabShape(g)
      PROVE  LET u == [g EXCEPT !.chosen = FALSE] IN
             /\ TabShape(u) /\ (\A hs : Hears(g, hs) => Hears(u, hs)) /\ u.chosen = FALSE
             /\ u.page = g.page /\ u.gameId = g.gameId /\ u.socket = g.socket /\ u.waiting = g.waiting /\ u.sockets = g.sockets
  BY <1>2 DEF TabShape, BrowserTabs, Hears
<1>3. CASE IsActive(t)
  <2>1. t.socket \in DOMAIN t.sockets
    BY <1>1, <1>3 DEF IsActive
  <2> DEFINE g == Gone(t, t.socket, "closed")
  <2>2. /\ TabShape(g) /\ (\A hs : Hears(t, hs) => Hears(g, hs))
        /\ g.page = t.page /\ g.socket = t.socket /\ g.chosen = t.chosen /\ g.waiting = t.waiting
        /\ g.gameId \in {t.gameId, NoRoom} /\ Len(g.sockets) = Len(t.sockets)
        /\ \A i \in DOMAIN t.sockets \ {t.socket} : g.sockets[i] = t.sockets[i]
        /\ g.sockets[t.socket].at = "closed"
    BY <2>1, GoneFacts
  <2>3. Disconnect(t) = [g EXCEPT !.chosen = FALSE]
    BY <1>3 DEF Disconnect
  <2> HIDE DEF g
  <2> QED
    BY <1>2, <1>3, <2>2, <2>3 DEF Left, SameSocket
<1>4. CASE ~IsActive(t)
  <2>1. Disconnect(t) = [t EXCEPT !.chosen = FALSE]
    BY <1>4 DEF Disconnect
  <2> QED
    BY <1>2, <1>4, <2>1 DEF Left, SameSocket
<1> QED
  BY <1>3, <1>4

(* A socket is opened for a room: it is the last one and has the handlers   *)
(* of the others.                                                           *)
LEMMA OpenSocketFacts ==
  ASSUME NEW t, TabShape(t), NEW query \in RoomNames
  PROVE  LET u == OpenSocket(t, query) IN
         /\ TabShape(u) /\ (\A hs : Hears(t, hs) => Hears(u, hs)) /\ Opened(t, u, query)
         /\ u.page = t.page /\ u.gameId = t.gameId /\ u.waiting = t.waiting /\ u.chosen = t.chosen
<1> DEFINE u == OpenSocket(t, query)
           row == [query |-> query, at |-> "connecting", room |-> NoRoom, handlers |-> t.handlers]
           ss == Append(t.sockets, row)
           n == Len(t.sockets) + 1
<1>1. t \in BrowserTabs /\ t.sockets \in Seq(SocketStates) /\ t.socket \in 0..Len(t.sockets) /\ t.handlers \in SUBSET Handlers
      /\ Len(t.sockets) \in Nat /\ DOMAIN t.sockets = 1..Len(t.sockets)
  BY DEF TabShape, BrowserTabs
<1>2. row \in SocketStates /\ row.handlers = t.handlers /\ row.query = query /\ row.at = "connecting" /\ row.room = NoRoom
  BY <1>1 DEF SocketStates, RoomNames
<1>3. u = [t EXCEPT !.sockets = ss, !.socket = n]
  BY DEF OpenSocket
<1> HIDE DEF row
<1>4. /\ ss \in Seq(SocketStates) /\ Len(ss) = n /\ DOMAIN ss = 1..n /\ ss[n] = row
      /\ \A i \in DOMAIN t.sockets : ss[i] = t.sockets[i]
  BY <1>1, <1>2
<1> HIDE DEF ss
<1>5. u \in BrowserTabs /\ u.sockets = ss /\ u.handlers = t.handlers /\ u.socket = n /\ u.chosen = t.chosen
      /\ u.waiting = t.waiting /\ u.page = t.page /\ u.gameId = t.gameId
  <2>1. n \in Nat
    BY <1>1
  <2> HIDE DEF n
  <2> QED
    BY <1>1, <1>3, <1>4, <2>1 DEF BrowserTabs
<1> HIDE DEF u
<1>6. TabShape(u)
  <2>1. u.socket \in 0..Len(u.sockets)
    BY <1>1, <1>4, <1>5
  <2>2. \A s \in DOMAIN u.sockets : s \in DOMAIN t.sockets \/ s = n
    BY <1>1, <1>4, <1>5
  <2> QED
    BY <1>2, <1>4, <1>5, <2>1, <2>2 DEF TabShape
<1>7. \A hs : Hears(t, hs) => Hears(u, hs)
  BY <1>2, <1>4, <1>5 DEF Hears
<1>8. Opened(t, u, query)
  BY <1>2, <1>4, <1>5 DEF Opened, SameSocket
<1> QED
  BY <1>5, <1>6, <1>7, <1>8 DEF u

(* connect: nothing if the tab is on its way to the same room, otherwise a  *)
(* new socket.                                                              *)
LEMMA ConnectFacts ==
  ASSUME NEW t, TabShape(t), NEW query \in RoomNames
  PROVE  LET u == Connect(t, query) IN
         /\ TabShape(u) /\ (\A hs : Hears(t, hs) => Hears(u, hs)) /\ Connects(t, u, query)
         /\ u.page = t.page /\ u.gameId = t.gameId
<1>1. CASE IsActive(t)
  BY <1>1 DEF Connect, Connects, Alike
<1>2. CASE ~IsActive(t) /\ t.chosen
  BY <1>2, OpenSocketFacts DEF Connect, Connects
<1>3. CASE ~IsActive(t) /\ ~t.chosen
  <2>1. Connect(t, query) = [t EXCEPT !.waiting = Append(t.waiting, query)]
    BY <1>3 DEF Connect
  <2>2. t \in BrowserTabs /\ Append(t.waiting, query) \in Seq(RoomNames)
    BY DEF TabShape, BrowserTabs
  <2> DEFINE w == Append(t.waiting, query)
             u == [t EXCEPT !.waiting = w]
  <2> HIDE DEF w
  <2>3. u \in BrowserTabs /\ u.sockets = t.sockets /\ u.handlers = t.handlers /\ u.socket = t.socket
        /\ u.waiting = w /\ u.page = t.page /\ u.gameId = t.gameId
    BY <2>2 DEF BrowserTabs, w
  <2> HIDE DEF u
  <2>4. TabShape(u) /\ (\A hs : Hears(t, hs) => Hears(u, hs)) /\ Connects(t, u, query)
    BY <1>3, <2>3 DEF TabShape, Hears, Connects, SameSocket, w
  <2>5. Connect(t, query) = u
    BY <2>1 DEF u, w
  <2> QED
    BY <2>3, <2>4, <2>5
<1> QED
  BY <1>1, <1>2, <1>3

(* What a page does when it is shown.                                       *)
Moves(t, u, pg) ==
  /\ u.page = pg
  /\ pg.at = "main" => Left(t, u) /\ u.gameId \in {t.gameId, NoRoom}
  /\ pg.at = "game" => Connects(t, u, pg.room) /\ u.gameId = pg.room
  /\ pg.at \notin {"main", "game"} => Alike(t, u) /\ u.gameId = t.gameId

(* The effects of a page that has come: they connect, disconnect or leave   *)
(* the socket alone.                                                        *)
LEMMA EffectsFacts ==
  ASSUME NEW t, TabShape(t), NEW pg \in AllPages, t.page = pg
  PROVE  LET u == Effects(t, pg) IN TabShape(u) /\ (\A hs : Hears(t, hs) => Hears(u, hs)) /\ Moves(t, u, pg)
<1>1. CASE pg.at = "main"
  BY <1>1, DisconnectFacts DEF Effects, Moves
<1>2. CASE pg.at = "game"
  <2> DEFINE c == Connect(t, pg.room)
             u == [c EXCEPT !.gameId = pg.room]
  <2>1. pg.room \in Rooms /\ pg.room \in RoomNames
    BY <1>2, PageFacts DEF RoomNames
  <2>2. TabShape(c) /\ (\A hs : Hears(t, hs) => Hears(c, hs)) /\ Connects(t, c, pg.room) /\ c.page = t.page
    BY <2>1, ConnectFacts
  <2> HIDE DEF c
  <2>3. c \in BrowserTabs
    BY <2>2 DEF TabShape
  <2>4. u \in BrowserTabs /\ u.sockets = c.sockets /\ u.handlers = c.handlers /\ u.socket = c.socket /\ u.chosen = c.chosen
        /\ u.waiting = c.waiting /\ u.page = c.page /\ u.gameId = pg.room
    BY <2>1, <2>3 DEF BrowserTabs
  <2>5. Effects(t, pg) = u
    BY <1>2 DEF Effects, c
  <2> HIDE DEF u
  <2>6. TabShape(u) /\ (\A hs : Hears(t, hs) => Hears(u, hs))
    BY <2>2, <2>4 DEF TabShape, Hears
  <2>7. Connects(t, u, pg.room)
    BY <2>2, <2>4 DEF Connects, Alike, Opened, SameSocket
  <2> QED
    BY <1>2, <2>2, <2>4, <2>5, <2>6, <2>7 DEF Moves
<1>3. CASE pg.at \notin {"main", "game"}
  BY <1>3 DEF Effects, Moves, Alike
<1> QED
  BY <1>1, <1>2, <1>3

(* What is done to a tab like another is done to the other.                 *)
LEMMA LikeThat ==
  ASSUME NEW t, NEW a, NEW b, NEW u, NEW pg, TabShape(t), TabShape(a), TabShape(b), TabShape(u), Alike(t, a), Alike(b, u),
         a.gameId = t.gameId, u.gameId = b.gameId, u.page = b.page, Moves(a, b, pg)
  PROVE  Moves(t, u, pg)
<1>0. /\ t.socket \in 0..Len(t.sockets) /\ DOMAIN t.sockets = 1..Len(t.sockets) /\ Len(t.sockets) \in Nat
      /\ DOMAIN a.sockets = 1..Len(a.sockets) /\ DOMAIN b.sockets = 1..Len(b.sockets) /\ DOMAIN u.sockets = 1..Len(u.sockets)
  BY DEF TabShape, BrowserTabs
<1>1. IsActive(a) <=> IsActive(t)
  BY <1>0 DEF IsActive, Alike
<1>2. ASSUME Left(a, b) PROVE Left(t, u)
  BY <1>0, <1>1, <1>2 DEF Left, Alike, SameSocket
<1>3. ASSUME Alike(a, b) PROVE Alike(t, u)
  BY <1>0, <1>3 DEF Alike
<1>4. ASSUME NEW q, Connects(a, b, q) PROVE Connects(t, u, q)
  <2>1. CASE IsActive(a) /\ Alike(a, b)
    BY <1>1, <1>3, <2>1 DEF Connects
  <2>2. CASE ~IsActive(a) /\ Opened(a, b, q) /\ b.waiting = a.waiting
    <3>1. \A s \in DOMAIN t.sockets : s \in DOMAIN a.sockets /\ s \in DOMAIN b.sockets /\ SameSocket(a, b, s)
      BY <1>0, <2>2 DEF Opened, Alike
    <3>2. \A s \in DOMAIN t.sockets : SameSocket(t, u, s)
      BY <1>0, <3>1 DEF Alike, SameSocket
    <3>3. b.socket \in DOMAIN b.sockets
      BY <1>0, <2>2 DEF Opened, Alike
    <3>4. Opened(t, u, q) /\ u.waiting = t.waiting
      BY <1>0, <2>2, <3>2, <3>3 DEF Opened, Alike
    <3> QED
      BY <1>1, <2>2, <3>4 DEF Connects
  <2>3. CASE /\ ~IsActive(a) /\ b.waiting = Append(a.waiting, q)
             /\ b.socket = a.socket /\ Len(b.sockets) = Len(a.sockets) /\ \A s \in DOMAIN a.sockets : SameSocket(a, b, s)
    BY <1>0, <1>1, <2>3 DEF Connects, Alike, SameSocket
  <2> QED
    BY <1>4, <2>1, <2>2, <2>3 DEF Connects
<1> QED
  BY <1>2, <1>3, <1>4 DEF Moves

(* A page is shown, by whatever means.                                      *)
LEMMA ShownFacts ==
  ASSUME NEW t, TabShape(t), HearsPage(t), NEW pg \in AllPages, t.page \in AllPages
  PROVE  LET u == Shown(t, pg) IN
         /\ TabShape(u) /\ HearsPage(u) /\ u.page = pg
         /\ pg = t.page => u = t
         /\ pg # t.page => Moves(t, u, pg)
<1>1. CASE pg = t.page
  BY <1>1 DEF Shown
<1>2. CASE pg # t.page
  <2> DEFINE old == PageHandlers(t.page)
             new == PageHandlers(pg)
             a == Off(t, old)
             b == [a EXCEPT !.page = pg]
             c == Effects(b, pg)
             u == On(c, new)
  <2>1. /\ AppHandlers \union old \in SUBSET Handlers /\ (AppHandlers \union old) \ old = AppHandlers
        /\ AppHandlers \in SUBSET Handlers /\ AppHandlers \union new \in SUBSET Handlers
    BY HandlerFacts
  <2>2. Hears(t, AppHandlers \union old)
    BY DEF HearsPage
  <2>3. a = Rehandled(t, AppHandlers)
    BY <2>1, <2>2, OnOff
  <2>4. TabShape(a) /\ Hears(a, AppHandlers) /\ Alike(t, a) /\ a.gameId = t.gameId
    BY <2>1, <2>3, RehandledFacts
  <2> HIDE DEF a
  <2>5. a \in BrowserTabs
    BY <2>4 DEF TabShape
  <2>6. b \in BrowserTabs /\ b.sockets = a.sockets /\ b.handlers = a.handlers /\ b.socket = a.socket /\ b.chosen = a.chosen
        /\ b.waiting = a.waiting /\ b.page = pg /\ b.gameId = a.gameId
    BY <2>5 DEF BrowserTabs
  <2> HIDE DEF b
  <2>7. TabShape(b) /\ Hears(b, AppHandlers) /\ Alike(t, b)
    BY <2>4, <2>6 DEF TabShape, Hears, Alike
  <2>8. TabShape(c) /\ Hears(c, AppHandlers) /\ Moves(b, c, pg)
    BY <2>6, <2>7, EffectsFacts
  <2> HIDE DEF c
  <2>9. u = Rehandled(c, AppHandlers \union new)
    <3> DEFINE all == AppHandlers \union new
    <3>1. \A h : h \in all <=> h \in AppHandlers \/ h \in new
      OBVIOUS
    <3> HIDE DEF all, new
    <3>2. On(c, new) = Rehandled(c, all)
      BY <2>8, <3>1, OnOffAll
    <3> QED
      BY <3>2 DEF all
  <2>10. TabShape(u) /\ Hears(u, AppHandlers \union new) /\ Alike(c, u) /\ u.page = c.page /\ u.gameId = c.gameId
    BY <2>1, <2>8, <2>9, RehandledFacts
  <2>11. Shown(t, pg) = u
    BY <1>2 DEF Shown, a, b, c
  <2> HIDE DEF u
  <2>12. Moves(t, u, pg)
    BY <2>4, <2>6, <2>7, <2>8, <2>10, LikeThat
  <2>13. u.page = pg
    BY <2>12 DEF Moves
  <2> QED
    BY <1>2, <2>10, <2>11, <2>12, <2>13 DEF HearsPage, new
<1> QED
  BY <1>1, <1>2

(* A socket becomes another, and the name of the room with it.              *)
Put(t, s, row, id) == [t EXCEPT !.sockets = [t.sockets EXCEPT ![s] = row], !.gameId = id]

(* A socket is put in the place of another with the same handlers.          *)
LEMMA PutFacts ==
  ASSUME NEW t, TabShape(t), NEW s \in DOMAIN t.sockets, NEW row \in SocketStates, NEW id \in RoomNames,
         row.handlers = t.sockets[s].handlers, row.at \in {"connecting", "closed"} => row.room = NoRoom
  PROVE  LET u == Put(t, s, row, id) IN
         /\ TabShape(u) /\ (\A hs : Hears(t, hs) => Hears(u, hs))
         /\ u.page = t.page /\ u.socket = t.socket /\ u.chosen = t.chosen /\ u.waiting = t.waiting
         /\ u.gameId = id /\ Len(u.sockets) = Len(t.sockets) /\ u.sockets[s] = row
         /\ \A i \in DOMAIN t.sockets \ {s} : u.sockets[i] = t.sockets[i]
<1> DEFINE u == Put(t, s, row, id)
           ss == [t.sockets EXCEPT ![s] = row]
<1>1. t \in BrowserTabs /\ t.sockets \in Seq(SocketStates) /\ t.socket \in 0..Len(t.sockets)
  BY DEF TabShape, BrowserTabs
<1>2. u = [t EXCEPT !.sockets = ss, !.gameId = id]
  BY DEF Put
<1>3. /\ ss \in Seq(SocketStates) /\ Len(ss) = Len(t.sockets) /\ DOMAIN ss = DOMAIN t.sockets
      /\ \A i \in DOMAIN ss : ss[i] = IF i = s THEN row ELSE t.sockets[i]
  BY <1>1, SocketPut
<1> HIDE DEF ss
<1>4. u \in BrowserTabs /\ u.sockets = ss /\ u.handlers = t.handlers /\ u.socket = t.socket /\ u.chosen = t.chosen
      /\ u.waiting = t.waiting /\ u.page = t.page /\ u.gameId = id
  BY <1>1, <1>2, <1>3 DEF BrowserTabs
<1> HIDE DEF u
<1>5. \A hs : Hears(t, hs) => Hears(u, hs)
  BY <1>1, <1>3, <1>4 DEF Hears
<1>6. TabShape(u)
  BY <1>3, <1>4 DEF TabShape
<1> QED
  BY <1>3, <1>4, <1>5, <1>6 DEF u

-----------------------------------------------------------------------------
(* The one room a calm tab is about.                                        *)
IsOpen(t) == t.socket # 0 /\ t.sockets[t.socket].at # "closed"
Quiet(t) == t.waiting = << >> /\ ~IsOpen(t)

Joining(t, query) ==      \* on the way there
  /\ t.waiting # << >> => t.waiting[1] = query
  /\ IsOpen(t) => /\ t.sockets[t.socket].at \in {"connecting", "connected"} /\ t.sockets[t.socket].query = query
                  /\ t.sockets[t.socket].room = NoRoom

Playing(t, r) ==       \* there, or on the way
  /\ t.gameId \in {NoRoom, r} /\ (t.waiting # << >> => t.waiting[1] = r)
  /\ IsOpen(t) => \/ t.sockets[t.socket].query = r
                  \/ /\ t.sockets[t.socket].query = CreateRoom /\ t.sockets[t.socket].room = r
                     /\ t.sockets[t.socket].at \in {"connected", "joined"}
  /\ IsOpen(t) /\ t.sockets[t.socket].at = "joined" => t.sockets[t.socket].room = r

PageFits(t) ==
  /\ t.page.at # "not found"
  /\ t.page.at \in {"main", "lobby"} => Quiet(t)
  /\ t.page.at = "setup" => Joining(t, CreateRoom)
  /\ t.page.at = "pin" => Joining(t, t.page.room) /\ (t.page.room = NoRoom => Quiet(t))
  /\ t.page.at = "game" => Playing(t, t.page.room)

OneSocket(t) ==
  /\ \A s \in DOMAIN t.sockets : s # t.socket => t.sockets[s].at = "closed"
  /\ t.waiting # << >> => Len(t.waiting) = 1 /\ ~IsOpen(t)

OneRoom(t) == OneSocket(t) /\ PageFits(t)

(* A tab that waits for nothing and has no socket open fits every page but  *)
(* that of a game and the one that is not there.                            *)
LEMMA QuietFits ==
  ASSUME NEW t, OneSocket(t), Quiet(t), t.page.at \notin {"game", "not found"}
  PROVE  OneRoom(t)
BY DEF OneRoom, PageFits, Joining, Quiet

(* Once every attempt has ended a calm tab is in its room or in none.       *)
LEMMA Settled ==
  ASSUME NEW t, TabShape(t), OneRoom(t), ~Attempting(t)
  PROVE  /\ t.waiting = << >> /\ (IsOpen(t) <=> IsActive(t))
         /\ t.page.at \in {"main", "lobby", "setup", "pin"} => Quiet(t)
<1>1. t.waiting = << >> /\ t.socket \in 0..Len(t.sockets) /\ DOMAIN t.sockets = 1..Len(t.sockets) /\ Len(t.sockets) \in Nat
  BY DEF Attempting, TabShape, BrowserTabs
<1>2. ASSUME t.socket # 0
      PROVE  t.socket \in DOMAIN t.sockets /\ t.sockets[t.socket].at \in {"joined", "closed"}
  <2>1. t.socket \in DOMAIN t.sockets /\ t.sockets[t.socket] \in SocketStates
    BY <1>1, <1>2 DEF TabShape, BrowserTabs
  <2> QED
    BY <2>1 DEF Attempting, SocketStates
<1>3. IsOpen(t) <=> IsActive(t)
  BY <1>2 DEF IsOpen, IsActive
<1>4. t.page.at \in {"setup", "pin"} => ~IsOpen(t)
  BY <1>2 DEF OneRoom, PageFits, Joining, IsOpen
<1> QED
  BY <1>1, <1>3, <1>4 DEF OneRoom, PageFits, Quiet

(* What changes nothing but handlers keeps the sockets, and where they are. *)
LEMMA AlikeFacts ==
  ASSUME NEW t, NEW u, TabShape(t), TabShape(u), Alike(t, u)
  PROVE  /\ OneSocket(t) => OneSocket(u)
         /\ IsOpen(u) <=> IsOpen(t)
         /\ Quiet(u) <=> Quiet(t)
         /\ \A q : Joining(t, q) => Joining(u, q)
         /\ IsOpen(t) => /\ u.sockets[u.socket].query = t.sockets[t.socket].query
                         /\ u.sockets[u.socket].at = t.sockets[t.socket].at
                         /\ u.sockets[u.socket].room = t.sockets[t.socket].room
<1>1. /\ t.socket \in 0..Len(t.sockets) /\ DOMAIN t.sockets = 1..Len(t.sockets) /\ Len(t.sockets) \in Nat
      /\ DOMAIN u.sockets = 1..Len(u.sockets)
  BY DEF TabShape, BrowserTabs
<1>2. t.socket # 0 => t.socket \in DOMAIN t.sockets
  BY <1>1
<1>3. IsOpen(u) <=> IsOpen(t)
  BY <1>2 DEF IsOpen, Alike
<1>4. IsOpen(t) => /\ u.sockets[u.socket].query = t.sockets[t.socket].query
                   /\ u.sockets[u.socket].at = t.sockets[t.socket].at
                   /\ u.sockets[u.socket].room = t.sockets[t.socket].room
  BY <1>2 DEF IsOpen, Alike
<1>5. OneSocket(t) => OneSocket(u)
  BY <1>1, <1>3 DEF OneSocket, Alike
<1>6. Quiet(u) <=> Quiet(t)
  BY <1>3 DEF Quiet, Alike
<1>7. \A q : Joining(t, q) => Joining(u, q)
  BY <1>3, <1>4 DEF Joining, Alike
<1> QED
  BY <1>3, <1>4, <1>5, <1>6, <1>7

(* A tab at rest connects: one attempt, and no socket open besides.         *)
LEMMA ConnectsFacts ==
  ASSUME NEW t, NEW u, NEW q \in RoomNames, TabShape(t), TabShape(u), OneSocket(t), Quiet(t), Connects(t, u, q)
  PROVE  OneSocket(u) /\ Joining(u, q)
<1>1. /\ t.socket \in 0..Len(t.sockets) /\ DOMAIN t.sockets = 1..Len(t.sockets) /\ Len(t.sockets) \in Nat
      /\ u.socket \in 0..Len(u.sockets) /\ DOMAIN u.sockets = 1..Len(u.sockets)
  BY DEF TabShape, BrowserTabs
<1>2. ~IsActive(t) /\ t.waiting = << >>
  BY DEF Quiet, IsOpen, IsActive
<1>3. \A s \in DOMAIN t.sockets : t.sockets[s].at = "closed"
  BY <1>1 DEF OneSocket, Quiet, IsOpen
<1>4. CASE Opened(t, u, q) /\ u.waiting = t.waiting
  <2>1. \A s \in DOMAIN u.sockets : s # u.socket => s \in DOMAIN t.sockets
    BY <1>1, <1>4 DEF Opened
  <2> QED
    BY <1>2, <1>3, <1>4, <2>1 DEF Opened, SameSocket, OneSocket, Joining, IsOpen
<1>5. CASE /\ u.waiting = Append(t.waiting, q)
           /\ u.socket = t.socket /\ Len(u.sockets) = Len(t.sockets) /\ \A s \in DOMAIN t.sockets : SameSocket(t, u, s)
  <2>1. \A s \in DOMAIN u.sockets : u.sockets[s].at = "closed"
    BY <1>1, <1>3, <1>5 DEF SameSocket
  <2>2. ~IsOpen(u)
    BY <1>1, <2>1 DEF IsOpen
  <2>3. Len(u.waiting) = 1 /\ u.waiting[1] = q
    BY <1>2, <1>5
  <2> QED
    BY <2>1, <2>2, <2>3 DEF OneSocket, Joining
<1> QED
  BY <1>2, <1>4, <1>5 DEF Connects

(* On the way to a room is the room's page's business.                      *)
LEMMA JoiningPlays ==
  ASSUME NEW t, NEW q, Joining(t, q), t.gameId \in {NoRoom, q}
  PROVE  Playing(t, q)
BY DEF Joining, Playing

(* Where the links of a page lead.                                          *)
LEMMA LinkFacts ==
  ASSUME NEW from \in AllPages, NEW pg \in Links(from)
  PROVE  /\ pg \in AllPages
         /\ \/ pg.at = "main"
            \/ from.at = "main" /\ pg.at \in {"setup", "lobby", "pin"}
            \/ from.at = "lobby" /\ pg.at = "game"
<1>1. from = Main \/ from.at = "lobby" \/ (from # Main /\ from.at # "lobby")
  OBVIOUS
<1>2. Main.at = "main" /\ PageAt("setup", NoRoom).at = "setup" /\ PageAt("lobby", NoRoom).at = "lobby" /\ Pin(NoRoom).at = "pin"
      /\ \A r : Game(r).at = "game"
  BY DEF Main, PageAt, Pin, Game
<1>3. CASE from = Main
  BY <1>2, <1>3, PageFacts DEF Links
<1>4. CASE from # Main /\ from.at = "lobby"
  <2>1. pg \in {Main} \union {Game(r) : r \in Rooms}
    BY <1>4 DEF Links
  <2>2. ASSUME NEW r \in Rooms, pg = Game(r) PROVE pg \in AllPages /\ pg.at = "game"
    BY <1>2, <2>2, PageFacts
  <2>3. pg = Main => pg \in AllPages /\ pg.at = "main"
    BY <1>2, PageFacts
  <2> QED
    BY <1>4, <2>1, <2>2, <2>3
<1>5. CASE from # Main /\ from.at # "lobby"
  <2>1. pg = Main
    BY <1>5 DEF Links
  <2> QED
    BY <1>2, <2>1, PageFacts
<1> QED
  BY <1>3, <1>4, <1>5

(* A patient user follows a link.                                           *)
LEMMA FollowFits ==
  ASSUME NEW t, TabShape(t), HearsPage(t), t.page \in AllPages, NEW pg \in Links(t.page), OneRoom(t), ~Attempting(t)
  PROVE  OneRoom(Shown(t, pg))
<1> DEFINE u == Shown(t, pg)
<1> SUFFICES OneRoom(u)
  OBVIOUS
<1>1. pg \in AllPages
  BY LinkFacts
<1>2. TabShape(u) /\ u.page = pg /\ (pg = t.page => u = t) /\ (pg # t.page => Moves(t, u, pg))
  BY <1>1, ShownFacts
<1> HIDE DEF u
<1>3. t.waiting = << >> /\ (IsOpen(t) <=> IsActive(t)) /\ OneSocket(t)
      /\ (t.page.at \in {"main", "lobby", "setup", "pin"} => Quiet(t))
  BY Settled DEF OneRoom
<1>4. /\ t.socket \in 0..Len(t.sockets) /\ DOMAIN t.sockets = 1..Len(t.sockets) /\ Len(t.sockets) \in Nat
      /\ u.socket \in 0..Len(u.sockets) /\ DOMAIN u.sockets = 1..Len(u.sockets)
  BY <1>2 DEF TabShape, BrowserTabs
<1>5. CASE pg = t.page
  BY <1>2, <1>5
<1>6. CASE pg # t.page /\ pg.at = "main"
  <2>1. Left(t, u)
    BY <1>2, <1>6 DEF Moves
  <2>2. \A s \in DOMAIN u.sockets : u.sockets[s].at = "closed"
    <3> SUFFICES ASSUME NEW s \in DOMAIN t.sockets PROVE u.sockets[s].at = "closed"
      BY <1>4, <2>1 DEF Left
    <3>1. CASE s = t.socket /\ IsActive(t)
      BY <2>1, <3>1 DEF Left
    <3>2. CASE ~(s = t.socket /\ IsActive(t))
      <4>1. t.sockets[s].at = "closed"
        BY <1>3, <1>4, <3>2 DEF OneSocket, IsOpen
      <4> QED
        BY <2>1, <3>2, <4>1 DEF Left, SameSocket
    <3> QED
      BY <3>1, <3>2
  <2>3. OneSocket(u) /\ Quiet(u)
    BY <1>3, <1>4, <2>1, <2>2 DEF OneSocket, Quiet, IsOpen, Left
  <2> QED
    BY <1>2, <1>6, <2>3, QuietFits
<1>7. CASE pg # t.page /\ t.page.at = "main" /\ pg.at \in {"setup", "lobby", "pin"}
  <2>1. Alike(t, u)
    BY <1>2, <1>7 DEF Moves
  <2>2. OneSocket(u) /\ Quiet(u)
    BY <1>2, <1>3, <1>7, <2>1, AlikeFacts
  <2> QED
    BY <1>2, <1>7, <2>2, QuietFits
<1>8. CASE pg # t.page /\ t.page.at = "lobby" /\ pg.at = "game"
  <2>1. Connects(t, u, pg.room) /\ u.gameId = pg.room
    BY <1>2, <1>8 DEF Moves
  <2>2. pg.room \in RoomNames
    BY <1>1, <1>8, PageFacts DEF RoomNames
  <2>3. OneSocket(u) /\ Joining(u, pg.room)
    BY <1>2, <1>3, <1>8, <2>1, <2>2, ConnectsFacts
  <2>4. Playing(u, pg.room)
    BY <2>1, <2>3, JoiningPlays
  <2> QED
    BY <1>2, <1>8, <2>3, <2>4 DEF OneRoom, PageFits
<1> QED
  BY <1>5, <1>6, <1>7, <1>8, LinkFacts

-----------------------------------------------------------------------------
VisitShape ==
  /\ TabShape(tab) /\ HearsPage(tab) /\ tab.page \in AllPages
  /\ Existing \subseteq rooms /\ rooms \subseteq Rooms
VisitInv == VisitShape /\ (calm => OneRoom(tab))

(* What the user does keeps a calm tab to one room only if it waited.       *)
LEMMA InputKeeps ==
  ASSUME VisitInv, NEW t, NEW patient \in BOOLEAN, Input(t, patient), TabShape(t), HearsPage(t), t.page \in AllPages,
         patient /\ OneRoom(tab) /\ ~Attempting(tab) => OneRoom(t)
  PROVE  VisitInv'
<1>1. tab' = t /\ rooms' = rooms /\ calm' = (calm /\ patient /\ ~Attempting(tab))
  BY DEF Input
<1>2. VisitShape'
  BY <1>1 DEF VisitShape, VisitInv
<1>3. calm' => OneRoom(tab)'
  <2>1. ASSUME calm' PROVE OneRoom(t)
    BY <1>1, <2>1 DEF VisitInv
  <2> QED
    BY <1>1, <2>1
<1> QED
  BY <1>2, <1>3 DEF VisitInv

(* A link is followed.                                                      *)
LEMMA FollowKeeps ==
  ASSUME VisitInv, Follow
  PROVE  VisitInv'
<1>1. PICK pg \in Links(tab.page) : Input(Shown(tab, pg), TRUE)
  BY DEF Follow
<1>2. TabShape(tab) /\ HearsPage(tab) /\ tab.page \in AllPages
  BY DEF VisitInv, VisitShape
<1>3. pg \in AllPages
  BY <1>2, LinkFacts
<1>4. TabShape(Shown(tab, pg)) /\ HearsPage(Shown(tab, pg)) /\ Shown(tab, pg).page = pg
  BY <1>2, <1>3, ShownFacts
<1>5. OneRoom(tab) /\ ~Attempting(tab) => OneRoom(Shown(tab, pg))
  BY <1>2, FollowFits
<1> QED
  BY <1>1, <1>3, <1>4, <1>5, InputKeeps

(* The back button.                                                         *)
LEMMA BackKeeps ==
  ASSUME VisitInv, Back
  PROVE  VisitInv'
<1>1. PICK pg \in Pages \ {tab.page} : Input(Shown(tab, pg), FALSE)
  BY DEF Back
<1>2. TabShape(tab) /\ HearsPage(tab) /\ tab.page \in AllPages /\ pg \in AllPages
  BY DEF VisitInv, VisitShape, AllPages
<1>3. TabShape(Shown(tab, pg)) /\ HearsPage(Shown(tab, pg)) /\ Shown(tab, pg).page = pg
  BY <1>2, ShownFacts
<1> QED
  BY <1>1, <1>2, <1>3, InputKeeps

(* Another number: handlers of the old page give way to those of the new.   *)
LEMMA TypePinKeeps ==
  ASSUME VisitInv, NEW r \in Rooms, TypePin(r)
  PROVE  VisitInv'
<1> DEFINE new == PageHandlers(Pin(r))
           a == Off(tab, PageHandlers(tab.page))
           b == [a EXCEPT !.page = Pin(r)]
           u == On(b, new)
<1>1. tab.page.at = "pin" /\ Input(u, TRUE)
  BY DEF TypePin
<1>2. TabShape(tab) /\ HearsPage(tab) /\ tab.page \in AllPages
  BY DEF VisitInv, VisitShape
<1>3. Pin(r) \in AllPages /\ Pin(r).at = "pin"
  BY PageFacts DEF Pin, PageAt
<1>4. /\ AppHandlers \in SUBSET Handlers
      /\ \A h : h \in AppHandlers <=> h \in AppHandlers \union PageHandlers(tab.page) /\ h \notin PageHandlers(tab.page)
  BY <1>2, HandlerFacts
<1>5. a = Rehandled(tab, AppHandlers)
  BY <1>2, <1>4, OnOffAll DEF HearsPage
<1>6. TabShape(a) /\ Hears(a, AppHandlers) /\ Alike(tab, a)
  BY <1>2, <1>4, <1>5, RehandledFacts
<1> HIDE DEF a
<1>7. b \in BrowserTabs /\ b.sockets = a.sockets /\ b.handlers = a.handlers /\ b.socket = a.socket /\ b.chosen = a.chosen
      /\ b.waiting = a.waiting /\ b.page = Pin(r) /\ b.gameId = a.gameId
  BY <1>3, <1>6 DEF TabShape, BrowserTabs
<1> HIDE DEF b
<1>8. TabShape(b) /\ Hears(b, AppHandlers) /\ Alike(tab, b)
  BY <1>6, <1>7 DEF TabShape, Hears, Alike
<1> DEFINE all == AppHandlers \union new
<1>9. all \in SUBSET Handlers /\ \A h : h \in all <=> h \in AppHandlers \/ h \in new
  BY <1>3, HandlerFacts
<1> HIDE DEF all, new
<1>11. u = Rehandled(b, all)
  BY <1>8, <1>9, OnOffAll
<1>12. TabShape(u) /\ Hears(u, all) /\ Alike(b, u) /\ u.page = Pin(r)
  BY <1>7, <1>8, <1>9, <1>11, RehandledFacts
<1> HIDE DEF u
<1>13. HearsPage(u)
  BY <1>12 DEF HearsPage, all, new
<1>14. ASSUME OneRoom(tab), ~Attempting(tab) PROVE OneRoom(u)
  <2>1. Quiet(tab) /\ OneSocket(tab)
    BY <1>1, <1>2, <1>14, Settled DEF OneRoom
  <2>2. Quiet(b) /\ OneSocket(b)
    BY <1>2, <1>8, <2>1, AlikeFacts
  <2>3. Quiet(u) /\ OneSocket(u)
    BY <1>8, <1>12, <2>2, AlikeFacts
  <2> QED
    BY <1>3, <1>12, <2>3, QuietFits
<1> QED
  BY <1>1, <1>3, <1>12, <1>13, <1>14, InputKeeps

(* Both forms leave what is open and connect.                               *)
LEMMA Submits ==
  ASSUME VisitInv, NEW q \in RoomNames, Input(Connect(Disconnect(tab), q), TRUE),
         \/ tab.page.at = "pin" /\ q = tab.page.room /\ q # NoRoom
         \/ tab.page.at = "setup" /\ q = CreateRoom
  PROVE  VisitInv'
<1> DEFINE d == Disconnect(tab)
           u == Connect(d, q)
<1>1. TabShape(tab) /\ HearsPage(tab) /\ tab.page \in AllPages
  BY DEF VisitInv, VisitShape
<1>2. TabShape(d) /\ (\A hs : Hears(tab, hs) => Hears(d, hs)) /\ Left(tab, d) /\ d.page = tab.page
  BY <1>1, DisconnectFacts
<1> HIDE DEF d
<1>3. TabShape(u) /\ (\A hs : Hears(d, hs) => Hears(u, hs)) /\ Connects(d, u, q) /\ u.page = d.page
  BY <1>2, ConnectFacts
<1>4. Input(u, TRUE)
  BY DEF d
<1> HIDE DEF u
<1>5. HearsPage(u) /\ u.page = tab.page
  BY <1>1, <1>2, <1>3 DEF HearsPage
<1>6. ASSUME OneRoom(tab), ~Attempting(tab) PROVE OneRoom(u)
  <2>1. Quiet(tab) /\ OneSocket(tab) /\ ~IsActive(tab)
    BY <1>1, <1>6, Settled DEF OneRoom, Quiet
  <2>2. /\ tab.socket \in 0..Len(tab.sockets) /\ DOMAIN tab.sockets = 1..Len(tab.sockets)
        /\ d.socket \in 0..Len(d.sockets) /\ DOMAIN d.sockets = 1..Len(d.sockets)
    BY <1>1, <1>2 DEF TabShape, BrowserTabs
  <2>3. Quiet(d) /\ OneSocket(d)
    BY <1>2, <2>1, <2>2 DEF Left, SameSocket, Quiet, OneSocket, IsOpen
  <2>4. OneSocket(u) /\ Joining(u, q)
    BY <1>2, <1>3, <2>3, ConnectsFacts
  <2> QED
    BY <1>5, <2>4 DEF OneRoom, PageFits
<1> QED
  BY <1>1, <1>3, <1>4, <1>5, <1>6, InputKeeps

(* Every step of the user.                                                  *)
LEMMA UserKeeps ==
  ASSUME VisitInv, UserSteps
  PROVE  VisitInv'
<1>1. tab.page \in AllPages /\ tab.page.room \in RoomNames
  BY PageFacts DEF VisitInv, VisitShape
<1>2. ASSUME HandleJoin PROVE VisitInv'
  BY <1>1, <1>2, Submits DEF HandleJoin
<1>3. ASSUME HandleSubmit PROVE VisitInv'
  <2>1. CreateRoom \in RoomNames
    BY DEF CreateRoom, RoomNames
  <2> QED
    BY <1>3, <2>1, Submits DEF HandleSubmit
<1> QED
  BY <1>2, <1>3, FollowKeeps, BackKeeps, TypePinKeeps DEF UserSteps

(* A socket hears something, and the tab is no worse for it.                *)
LEMMA BecomesKeeps ==
  ASSUME VisitInv, NEW t, Becomes(t), TabShape(t), HearsPage(t), t.page \in AllPages,
         Existing \subseteq rooms', rooms' \subseteq Rooms, calm' => OneRoom(t)
  PROVE  VisitInv'
BY DEF Becomes, VisitInv, VisitShape

(* The handlers that a socket has for a room joined.                        *)
LEMMA PinHandlers ==
  ASSUME NEW t, TabShape(t), HearsPage(t), t.page \in AllPages, NEW s \in DOMAIN t.sockets
  PROVE  LET pins == {h.of : h \in {g \in t.sockets[s].handlers : g.on = "joinRoom"}}
         IN /\ pins \subseteq AllPages \union {App}
            /\ s = t.socket => pins = IF t.page.at = "pin" THEN {t.page} ELSE {}
<1> DEFINE pins == {h.of : h \in {g \in t.sockets[s].handlers : g.on = "joinRoom"}}
<1>1. t.sockets[s] \in SocketStates /\ t.socket \in 0..Len(t.sockets) /\ DOMAIN t.sockets = 1..Len(t.sockets)
      /\ Len(t.sockets) \in Nat
  BY DEF TabShape, BrowserTabs
<1>2. t.sockets[s].handlers \subseteq Handlers
  BY <1>1 DEF SocketStates
<1>3. \A h \in Handlers : h.of \in AllPages \union {App}
  BY DEF Handlers
<1>4. ASSUME s = t.socket PROVE pins = IF t.page.at = "pin" THEN {t.page} ELSE {}
  <2>1. t.sockets[s].handlers = AppHandlers \union PageHandlers(t.page)
    BY <1>1, <1>4 DEF HearsPage, Hears
  <2>2. \A g \in AppHandlers : g.on # "joinRoom"
    BY DEF AppHandlers, Handler
  <2>3. CASE t.page.at = "pin"
    <3>1. PageHandlers(t.page) = {Handler("joinRoom", t.page), Handler("exception", t.page)}
      BY <2>3 DEF PageHandlers
    <3>2. \A g \in PageHandlers(t.page) : g.on = "joinRoom" <=> g = Handler("joinRoom", t.page)
      BY <3>1 DEF Handler
    <3>3. Handler("joinRoom", t.page).of = t.page
      BY DEF Handler
    <3>4. {g \in t.sockets[s].handlers : g.on = "joinRoom"} = {Handler("joinRoom", t.page)}
      BY <2>1, <2>2, <3>1, <3>2
    <3> QED
      BY <2>3, <3>3, <3>4
  <2>4. CASE t.page.at # "pin"
    <3>1. \A g \in PageHandlers(t.page) : g.on # "joinRoom"
      BY <2>4 DEF PageHandlers, Handler
    <3> QED
      BY <2>1, <2>2, <2>4, <3>1
  <2> QED
    BY <2>3, <2>4
<1> QED
  BY <1>2, <1>3, <1>4

(* joinRoom is heard: the page of the PIN becomes the game of its room,     *)
(* another stays.                                                           *)
LEMMA HeardJoin ==
  ASSUME NEW t, TabShape(t), HearsPage(t), t.page \in AllPages, NEW s \in DOMAIN t.sockets, HearJoinRoom(t, s)
  PROVE  \E u : /\ Becomes(u) /\ TabShape(u) /\ HearsPage(u) /\ u.page \in AllPages
                /\ s = t.socket =>
                     IF t.page.at = "pin"
                     THEN t.page.room # NoRoom => t.page.room \in Rooms /\ u = Shown(t, Game(t.page.room))
                     ELSE u = t
<1> DEFINE pins == {h.of : h \in {g \in t.sockets[s].handlers : g.on = "joinRoom"}}
           After(p) == IF p.room = NoRoom THEN NotFound ELSE Game(p.room)
<1>1. pins \subseteq AllPages \union {App} /\ (s = t.socket => pins = IF t.page.at = "pin" THEN {t.page} ELSE {})
  BY PinHandlers
<1>2. IF pins = {} THEN Becomes(t) ELSE \E p \in pins : Becomes(Shown(t, After(p)))
  BY DEF HearJoinRoom
<1>3. \A p \in AllPages \union {App} : p.room \in RoomNames
  <2>1. App.room = NoRoom
    BY DEF App, PageAt
  <2> QED
    BY <2>1, PageFacts DEF RoomNames
<1>4. \A p \in AllPages \union {App} : After(p) \in AllPages /\ (p.room # NoRoom => p.room \in Rooms)
  BY <1>3, PageFacts DEF RoomNames
<1> HIDE DEF pins
<1>5. CASE pins = {}
  BY <1>1, <1>2, <1>5
<1>6. CASE pins # {}
  <2>1. PICK p \in pins : Becomes(Shown(t, After(p)))
    BY <1>2, <1>6
  <2>2. TabShape(Shown(t, After(p))) /\ HearsPage(Shown(t, After(p))) /\ Shown(t, After(p)).page \in AllPages
    BY <1>1, <1>4, <2>1, ShownFacts
  <2>3. s = t.socket => t.page.at = "pin" /\ p = t.page
    BY <1>1, <2>1
  <2>4. p.room # NoRoom => p.room \in Rooms /\ After(p) = Game(p.room)
    BY <1>1, <1>4, <2>1
  <2> HIDE DEF After
  <2> DEFINE u == Shown(t, After(p))
  <2>5. s = t.socket =>
          IF t.page.at = "pin"
          THEN t.page.room # NoRoom => t.page.room \in Rooms /\ u = Shown(t, Game(t.page.room))
          ELSE u = t
    BY <2>3, <2>4
  <2>6. Becomes(u) /\ TabShape(u) /\ HearsPage(u) /\ u.page \in AllPages
    BY <2>1, <2>2
  <2> HIDE DEF u
  <2> QED
    BY <2>5, <2>6
<1> QED
  BY <1>5, <1>6

(* The one socket leads the player from a form to its room.                 *)
LEMMA Arrives ==
  ASSUME NEW t, TabShape(t), HearsPage(t), t.page \in AllPages, t.page.at # "game", NEW r \in Rooms,
         OneSocket(t), IsActive(t),
         t.sockets[t.socket].query = r \/ (t.sockets[t.socket].query = CreateRoom /\ t.sockets[t.socket].room = r),
         t.sockets[t.socket].at = "joined" => t.sockets[t.socket].room = r
  PROVE  OneRoom(Shown(t, Game(r)))
<1> DEFINE u == Shown(t, Game(r))
<1>1. Game(r) \in AllPages /\ Game(r).at = "game" /\ Game(r).room = r
  BY PageFacts DEF Game, PageAt
<1>2. TabShape(u) /\ u.page = Game(r) /\ Moves(t, u, Game(r))
  BY <1>1, ShownFacts
<1> SUFFICES OneRoom(u)
  OBVIOUS
<1> HIDE DEF u
<1>3. Alike(t, u) /\ u.gameId = r
  BY <1>1, <1>2 DEF Moves, Connects
<1>4. IsOpen(t)
  BY DEF IsActive, IsOpen
<1>5. OneSocket(u) /\ IsOpen(u) /\ u.sockets[u.socket].query = t.sockets[t.socket].query
      /\ u.sockets[u.socket].at = t.sockets[t.socket].at /\ u.sockets[u.socket].room = t.sockets[t.socket].room
  BY <1>2, <1>3, <1>4, AlikeFacts
<1>6. u.sockets[u.socket].at \in {"connected", "joined"}
  BY <1>5 DEF IsActive
<1>7. Playing(u, r)
  BY <1>3, <1>5, <1>6 DEF Playing, OneSocket
<1> QED
  BY <1>1, <1>2, <1>5, <1>7 DEF OneRoom, PageFits

-----------------------------------------------------------------------------
(* What an open socket of a calm tab tells of the page.                     *)
LEMMA OpenTells ==
  ASSUME NEW t, TabShape(t), t.page \in AllPages, OneRoom(t), NEW s \in DOMAIN t.sockets, t.sockets[s].at # "closed"
  PROVE  /\ s = t.socket /\ IsOpen(t) /\ t.waiting = << >>
         /\ \/ t.page.at = "setup" /\ Joining(t, CreateRoom)
            \/ t.page.at = "pin" /\ t.page.room # NoRoom /\ Joining(t, t.page.room)
            \/ t.page.at = "game" /\ Playing(t, t.page.room)
<1>1. t.socket \in 0..Len(t.sockets) /\ DOMAIN t.sockets = 1..Len(t.sockets) /\ Len(t.sockets) \in Nat
  BY DEF TabShape, BrowserTabs
<1>2. s = t.socket /\ IsOpen(t)
  BY <1>1 DEF OneRoom, OneSocket, IsOpen
<1>3. t.waiting = << >>
  BY <1>2 DEF OneRoom, OneSocket
<1>4. ~Quiet(t)
  BY <1>2 DEF Quiet
<1>5. t.page.at \in {"main", "setup", "lobby", "pin", "not found", "game"}
  BY PageFacts
<1> QED
  BY <1>2, <1>3, <1>4, <1>5 DEF OneRoom, PageFits

(* The server of a room is known: the socket to it is opened.               *)
LEMMA PickServerKeeps ==
  ASSUME VisitInv, NEW i \in DOMAIN tab.waiting, PickServer(i)
  PROVE  VisitInv'
<1> DEFINE w == RemoveAt(tab.waiting, i)
           t == [tab EXCEPT !.waiting = w, !.chosen = TRUE]
           u == OpenSocket(t, tab.waiting[i])
<1>1. TabShape(tab) /\ HearsPage(tab) /\ tab.page \in AllPages /\ tab \in BrowserTabs /\ tab.waiting \in Seq(RoomNames)
      /\ Existing \subseteq rooms /\ rooms \subseteq Rooms
  BY DEF VisitInv, VisitShape, TabShape, BrowserTabs
<1>2. Becomes(u) /\ rooms' = rooms /\ calm' = calm
  BY DEF PickServer
<1>3. w \in Seq(RoomNames) /\ tab.waiting[i] \in RoomNames
  BY <1>1 DEF RemoveAt
<1>4. Len(tab.waiting) = 1 => w = << >> /\ i = 1
  BY <1>1 DEF RemoveAt
<1> HIDE DEF w
<1>5. /\ t \in BrowserTabs /\ t.sockets = tab.sockets /\ t.handlers = tab.handlers /\ t.socket = tab.socket
      /\ t.waiting = w /\ t.page = tab.page /\ t.gameId = tab.gameId
  BY <1>1, <1>3 DEF BrowserTabs
<1> HIDE DEF t
<1>6. TabShape(t) /\ HearsPage(t)
  BY <1>1, <1>5 DEF TabShape, HearsPage, Hears
<1>7. TabShape(u) /\ (\A hs : Hears(t, hs) => Hears(u, hs)) /\ Opened(t, u, tab.waiting[i])
      /\ u.page = t.page /\ u.gameId = t.gameId /\ u.waiting = t.waiting
  BY <1>3, <1>6, OpenSocketFacts
<1> HIDE DEF u
<1>8. HearsPage(u) /\ u.page = tab.page
  BY <1>5, <1>6, <1>7 DEF HearsPage
<1>9. ASSUME OneRoom(tab) PROVE OneRoom(u)
  <2>1. tab.waiting # << >>
    BY <1>1
  <2>2. Len(tab.waiting) = 1 /\ ~IsOpen(tab)
    BY <1>9, <2>1 DEF OneRoom, OneSocket
  <2>3. /\ tab.socket \in 0..Len(tab.sockets) /\ DOMAIN tab.sockets = 1..Len(tab.sockets) /\ Len(tab.sockets) \in Nat
        /\ u.socket \in 0..Len(u.sockets) /\ DOMAIN u.sockets = 1..Len(u.sockets)
    BY <1>1, <1>7 DEF TabShape, BrowserTabs
  <2>4. \A s \in DOMAIN tab.sockets : tab.sockets[s].at = "closed"
    BY <1>9, <2>2, <2>3 DEF OneRoom, OneSocket, IsOpen
  <2>5. \A s \in DOMAIN u.sockets : s # u.socket => s \in DOMAIN tab.sockets
    BY <1>5, <1>7, <2>3 DEF Opened
  <2>6. OneSocket(u)
    BY <1>4, <1>5, <1>7, <2>2, <2>4, <2>5 DEF OneSocket, Opened, SameSocket
  <2>7. u.waiting = << >> /\ Joining(u, tab.waiting[1])
    BY <1>4, <1>5, <1>7, <2>2 DEF Joining, Opened
  <2>8. ~Quiet(tab)
    BY <2>1 DEF Quiet
  <2>9. PageFits(u)
    <3>1. tab.page.at = "setup" => tab.waiting[1] = CreateRoom
      BY <1>9, <2>1 DEF OneRoom, PageFits, Joining
    <3>2. tab.page.at = "pin" => tab.waiting[1] = tab.page.room
      BY <1>9, <2>1 DEF OneRoom, PageFits, Joining
    <3>3. tab.page.at = "game" => tab.waiting[1] = tab.page.room /\ tab.gameId \in {NoRoom, tab.page.room}
      BY <1>9, <2>1 DEF OneRoom, PageFits, Playing
    <3>4. tab.page.at = "game" => Playing(u, u.page.room)
      BY <1>5, <1>7, <1>8, <2>7, <3>3, JoiningPlays
    <3> QED
      BY <1>8, <1>9, <2>7, <2>8, <3>1, <3>2, <3>4 DEF OneRoom, PageFits
  <2> QED
    BY <2>6, <2>9 DEF OneRoom
<1>10. Becomes(u) /\ rooms' = rooms /\ (calm' => OneRoom(u))
  BY <1>2, <1>9 DEF VisitInv, u, t, w
<1> QED
  BY <1>1, <1>7, <1>8, <1>10, BecomesKeeps

(* One socket of the tab changes and nothing else that is heard of.         *)
LEMMA PutShape ==
  ASSUME VisitInv, NEW s \in DOMAIN tab.sockets, NEW row \in SocketStates, NEW id \in RoomNames,
         row.handlers = tab.sockets[s].handlers, row.at \in {"connecting", "closed"} => row.room = NoRoom
  PROVE  LET u == Put(tab, s, row, id) IN
         /\ TabShape(u) /\ HearsPage(u) /\ u.page = tab.page /\ u.page \in AllPages
         /\ u.socket = tab.socket /\ u.waiting = tab.waiting
         /\ u.gameId = id /\ Len(u.sockets) = Len(tab.sockets) /\ u.sockets[s] = row
         /\ \A i \in DOMAIN tab.sockets \ {s} : u.sockets[i] = tab.sockets[i]
<1>1. TabShape(tab) /\ HearsPage(tab) /\ tab.page \in AllPages
  BY DEF VisitInv, VisitShape
<1> DEFINE u == Put(tab, s, row, id)
<1>2. /\ TabShape(u) /\ (\A hs : Hears(tab, hs) => Hears(u, hs))
      /\ u.page = tab.page /\ u.socket = tab.socket /\ u.waiting = tab.waiting
      /\ u.gameId = id /\ Len(u.sockets) = Len(tab.sockets) /\ u.sockets[s] = row
      /\ \A i \in DOMAIN tab.sockets \ {s} : u.sockets[i] = tab.sockets[i]
  BY <1>1, PutFacts
<1> HIDE DEF u
<1>3. HearsPage(u)
  BY <1>1, <1>2 DEF HearsPage
<1> QED
  BY <1>1, <1>2, <1>3 DEF u

(* If it is the one open socket of a calm tab it stays the one.             *)
LEMMA OneStays ==
  ASSUME NEW t, NEW u, TabShape(t), TabShape(u), OneSocket(t), t.socket \in DOMAIN t.sockets, t.waiting = << >>,
         u.socket = t.socket, u.waiting = t.waiting, Len(u.sockets) = Len(t.sockets),
         \A i \in DOMAIN t.sockets \ {t.socket} : u.sockets[i].at = t.sockets[i].at
  PROVE  OneSocket(u)
<1>1. DOMAIN t.sockets = 1..Len(t.sockets) /\ DOMAIN u.sockets = 1..Len(u.sockets)
  BY DEF TabShape, BrowserTabs
<1> QED
  BY <1>1 DEF OneSocket

(* What every socket of the tab is.                                         *)
LEMMA SocketFacts ==
  ASSUME VisitInv, NEW s \in DOMAIN tab.sockets
  PROVE  /\ TabShape(tab) /\ HearsPage(tab) /\ tab.page \in AllPages /\ tab \in BrowserTabs
         /\ tab.sockets \in Seq(SocketStates) /\ tab.sockets[s] \in SocketStates /\ tab.gameId \in RoomNames
         /\ Existing \subseteq rooms /\ rooms \subseteq Rooms /\ Rooms \subseteq Nat \ {0}
         /\ tab.sockets[s].at \in {"connecting", "closed"} => tab.sockets[s].room = NoRoom
<1>1. TabShape(tab) /\ HearsPage(tab) /\ tab.page \in AllPages /\ Existing \subseteq rooms /\ rooms \subseteq Rooms
  BY DEF VisitInv, VisitShape
<1>2. tab \in BrowserTabs /\ tab.sockets \in Seq(SocketStates) /\ tab.gameId \in RoomNames
      /\ (tab.sockets[s].at \in {"connecting", "closed"} => tab.sockets[s].room = NoRoom)
  BY <1>1 DEF TabShape, BrowserTabs
<1> QED
  BY <1>1, <1>2, VisitBounds

(* A socket is accepted.                                                    *)
LEMMA AcceptedKeeps ==
  ASSUME VisitInv, NEW s \in DOMAIN tab.sockets, ConnectAccepted(s)
  PROVE  VisitInv'
<1> DEFINE row == [tab.sockets[s] EXCEPT !.at = "connected"]
           u == Put(tab, s, row, tab.gameId)
<1>1. /\ TabShape(tab) /\ tab.page \in AllPages /\ tab \in BrowserTabs
      /\ tab.sockets \in Seq(SocketStates) /\ tab.sockets[s] \in SocketStates /\ tab.gameId \in RoomNames
      /\ Existing \subseteq rooms /\ rooms \subseteq Rooms
      /\ (tab.sockets[s].at \in {"connecting", "closed"} => tab.sockets[s].room = NoRoom)
  BY SocketFacts
<1>2. tab.sockets[s].at = "connecting" /\ rooms' = rooms /\ calm' = calm /\ Becomes([tab EXCEPT !.sockets[s].at = "connected"])
  BY DEF ConnectAccepted, At
<1>3. row \in SocketStates /\ row.handlers = tab.sockets[s].handlers /\ row.query = tab.sockets[s].query
      /\ row.at = "connected" /\ row.room = NoRoom
  BY <1>1, <1>2 DEF SocketStates
<1>4. Becomes(u)
  <2>1. [tab EXCEPT !.sockets[s].at = "connected"] = u
    BY <1>1 DEF Put, BrowserTabs
  <2> QED
    BY <1>2, <2>1
<1> HIDE DEF row
<1>5. /\ TabShape(u) /\ HearsPage(u) /\ u.page = tab.page /\ u.page \in AllPages
      /\ u.socket = tab.socket /\ u.waiting = tab.waiting
      /\ u.gameId = tab.gameId /\ Len(u.sockets) = Len(tab.sockets) /\ u.sockets[s] = row
      /\ \A i \in DOMAIN tab.sockets \ {s} : u.sockets[i] = tab.sockets[i]
  BY <1>1, <1>3, PutShape
<1> HIDE DEF u
<1>6. ASSUME OneRoom(tab) PROVE OneRoom(u)
  <2>1. /\ s = tab.socket /\ IsOpen(tab) /\ tab.waiting = << >>
        /\ \/ tab.page.at = "setup" /\ Joining(tab, CreateRoom)
           \/ tab.page.at = "pin" /\ tab.page.room # NoRoom /\ Joining(tab, tab.page.room)
           \/ tab.page.at = "game" /\ Playing(tab, tab.page.room)
    BY <1>1, <1>2, <1>6, OpenTells
  <2>2. OneSocket(u)
    BY <1>1, <1>5, <1>6, <2>1, OneStays DEF OneRoom
  <2>3. \A q : Joining(tab, q) => Joining(u, q)
    BY <1>3, <1>5, <2>1 DEF Joining
  <2>4. \A q : Playing(tab, q) => Playing(u, q)
    BY <1>2, <1>3, <1>5, <2>1 DEF Playing
  <2> QED
    BY <1>5, <2>1, <2>2, <2>3, <2>4 DEF OneRoom, PageFits
<1> QED
  BY <1>1, <1>2, <1>4, <1>5, <1>6, BecomesKeeps DEF VisitInv

(* createRoom is answered.                                                  *)
LEMMA CreatedKeeps ==
  ASSUME VisitInv, NEW s \in DOMAIN tab.sockets, NEW r \in Rooms, RoomCreated(s, r)
  PROVE  VisitInv'
<1> DEFINE row == [tab.sockets[s] EXCEPT !.room = r]
           said == Put(tab, s, row, r)
           heard == \E h \in tab.sockets[s].handlers : h.on = "createRoom" /\ h.of # App
           u == IF heard THEN Shown(said, Game(r)) ELSE said
<1>1. /\ TabShape(tab) /\ HearsPage(tab) /\ tab.page \in AllPages /\ tab \in BrowserTabs
      /\ tab.sockets \in Seq(SocketStates) /\ tab.sockets[s] \in SocketStates
      /\ Existing \subseteq rooms /\ rooms \subseteq Rooms /\ Rooms \subseteq Nat \ {0}
  BY SocketFacts
<1>2. /\ tab.sockets[s].at = "connected" /\ tab.sockets[s].query = CreateRoom /\ tab.sockets[s].room = NoRoom
      /\ rooms' = rooms \union {r} /\ calm' = calm
      /\ Becomes(IF heard THEN Shown([tab EXCEPT !.sockets[s].room = r, !.gameId = r], Game(r))
                 ELSE [tab EXCEPT !.sockets[s].room = r, !.gameId = r])
  BY DEF RoomCreated, At
<1>3. row \in SocketStates /\ row.handlers = tab.sockets[s].handlers /\ row.query = CreateRoom
      /\ row.at = "connected" /\ row.room = r /\ r \in RoomNames
  BY <1>1, <1>2 DEF SocketStates, RoomNames
<1>4. Becomes(u)
  <2>1. [tab EXCEPT !.sockets[s].room = r, !.gameId = r] = said
    BY <1>1 DEF Put, BrowserTabs
  <2> HIDE DEF said, heard
  <2> QED
    BY <1>2, <2>1
<1> HIDE DEF row
<1>5. /\ TabShape(said) /\ HearsPage(said) /\ said.page = tab.page /\ said.page \in AllPages
      /\ said.socket = tab.socket /\ said.waiting = tab.waiting
      /\ said.gameId = r /\ Len(said.sockets) = Len(tab.sockets) /\ said.sockets[s] = row
      /\ \A i \in DOMAIN tab.sockets \ {s} : said.sockets[i] = tab.sockets[i]
  BY <1>1, <1>3, PutShape
<1> HIDE DEF said
<1>6. TabShape(u) /\ HearsPage(u) /\ u.page \in AllPages
  <2>1. Game(r) \in AllPages
    BY PageFacts
  <2>2. TabShape(Shown(said, Game(r))) /\ HearsPage(Shown(said, Game(r))) /\ Shown(said, Game(r)).page \in AllPages
    BY <1>5, <2>1, ShownFacts
  <2> HIDE DEF heard
  <2> QED
    BY <1>5, <2>2
<1>7. ASSUME OneRoom(tab) PROVE OneRoom(u)
  <2>1. /\ s = tab.socket /\ IsOpen(tab) /\ tab.waiting = << >>
        /\ \/ tab.page.at = "setup" /\ Joining(tab, CreateRoom)
           \/ tab.page.at = "pin" /\ tab.page.room # NoRoom /\ Joining(tab, tab.page.room)
           \/ tab.page.at = "game" /\ Playing(tab, tab.page.room)
    BY <1>1, <1>2, <1>7, OpenTells
  <2>2. tab.page.at = "setup"
    <3>1. tab.page.at = "game" => tab.page.room \in Rooms
      BY <1>1, PageFacts
    <3>2. tab.page.at # "pin"
      BY <1>2, <2>1 DEF Joining, CreateRoom
    <3>3. tab.page.at # "game"
      BY <1>1, <1>2, <2>1, <3>1 DEF Playing, CreateRoom, NoRoom
    <3> QED
      BY <2>1, <3>2, <3>3
  <2>3. heard
    <3>1. tab.sockets[s].handlers = AppHandlers \union PageHandlers(tab.page)
      BY <1>1, <2>1 DEF HearsPage, Hears, IsOpen
    <3>2. Handler("createRoom", tab.page) \in PageHandlers(tab.page)
      BY <2>2 DEF PageHandlers
    <3>3. tab.page # App
      BY <1>1, PageFacts
    <3>4. Handler("createRoom", tab.page).on = "createRoom" /\ Handler("createRoom", tab.page).of # App
      BY <3>3 DEF Handler
    <3> QED
      BY <3>1, <3>2, <3>4
  <2>4. OneSocket(said)
    BY <1>1, <1>5, <1>7, <2>1, OneStays DEF OneRoom, IsOpen
  <2>5. IsActive(said)
    BY <1>3, <1>5, <2>1 DEF IsActive, IsOpen
  <2>6. OneRoom(Shown(said, Game(r)))
    BY <1>3, <1>5, <2>1, <2>2, <2>4, <2>5, Arrives
  <2> HIDE DEF heard
  <2> QED
    BY <2>3, <2>6
<1> HIDE DEF u
<1>8. Existing \subseteq rooms' /\ rooms' \subseteq Rooms
  BY <1>1, <1>2
<1> QED
  BY <1>2, <1>4, <1>6, <1>7, <1>8, BecomesKeeps DEF VisitInv

(* The player joins a room.                                                 *)
LEMMA JoinsKeeps ==
  ASSUME VisitInv, NEW s \in DOMAIN tab.sockets, Joins(s)
  PROVE  VisitInv'
<1> DEFINE r == IF tab.sockets[s].query = CreateRoom THEN tab.sockets[s].room ELSE tab.sockets[s].query
           row == [tab.sockets[s] EXCEPT !.at = "joined", !.room = r]
           t == Put(tab, s, row, tab.gameId)
<1>1. /\ TabShape(tab) /\ HearsPage(tab) /\ tab.page \in AllPages /\ tab \in BrowserTabs
      /\ tab.sockets \in Seq(SocketStates) /\ tab.sockets[s] \in SocketStates /\ tab.gameId \in RoomNames
      /\ Existing \subseteq rooms /\ rooms \subseteq Rooms /\ Rooms \subseteq Nat \ {0}
  BY SocketFacts
<1>2. /\ tab.sockets[s].at = "connected" /\ r \in rooms /\ rooms' = rooms /\ calm' = calm
      /\ HearJoinRoom([tab EXCEPT !.sockets[s].at = "joined", !.sockets[s].room = r], s)
  BY DEF Joins, At
<1>3. r \in Rooms /\ r # NoRoom
  BY <1>1, <1>2 DEF NoRoom
<1>4. tab.sockets[s].query = r \/ (tab.sockets[s].query = CreateRoom /\ tab.sockets[s].room = r)
  OBVIOUS
<1> HIDE DEF r
<1>5. row \in SocketStates /\ row.handlers = tab.sockets[s].handlers /\ row.query = tab.sockets[s].query
      /\ row.at = "joined" /\ row.room = r
  BY <1>1, <1>3 DEF SocketStates, RoomNames
<1>6. HearJoinRoom(t, s)
  <2>1. [tab EXCEPT !.sockets[s].at = "joined", !.sockets[s].room = r] = t
    BY <1>1 DEF Put, BrowserTabs, SocketStates
  <2> QED
    BY <1>2, <2>1
<1> HIDE DEF row
<1>7. /\ TabShape(t) /\ HearsPage(t) /\ t.page = tab.page /\ t.page \in AllPages
      /\ t.socket = tab.socket /\ t.waiting = tab.waiting
      /\ t.gameId = tab.gameId /\ Len(t.sockets) = Len(tab.sockets) /\ t.sockets[s] = row
      /\ \A i \in DOMAIN tab.sockets \ {s} : t.sockets[i] = tab.sockets[i]
  BY <1>1, <1>5, PutShape
<1> HIDE DEF t
<1>8. s \in DOMAIN t.sockets
  BY <1>1, <1>7 DEF TabShape, BrowserTabs
<1>9. PICK u : /\ Becomes(u) /\ TabShape(u) /\ HearsPage(u) /\ u.page \in AllPages
               /\ s = t.socket =>
                    IF t.page.at = "pin"
                    THEN t.page.room # NoRoom => t.page.room \in Rooms /\ u = Shown(t, Game(t.page.room))
                    ELSE u = t
  BY <1>6, <1>7, <1>8, HeardJoin
<1>10. ASSUME OneRoom(tab) PROVE OneRoom(u)
  <2>1. /\ s = tab.socket /\ IsOpen(tab) /\ tab.waiting = << >>
        /\ \/ tab.page.at = "setup" /\ Joining(tab, CreateRoom)
           \/ tab.page.at = "pin" /\ tab.page.room # NoRoom /\ Joining(tab, tab.page.room)
           \/ tab.page.at = "game" /\ Playing(tab, tab.page.room)
    BY <1>1, <1>2, <1>10, OpenTells
  <2>2. OneSocket(t) /\ IsActive(t) /\ IsOpen(t)
    BY <1>1, <1>5, <1>7, <1>10, <2>1, OneStays DEF OneRoom, IsOpen, IsActive
  <2>3. CASE tab.page.at = "setup" /\ Joining(tab, CreateRoom)
    BY <1>3, <1>4, <2>1, <2>3 DEF Joining, CreateRoom
  <2>4. CASE tab.page.at = "pin" /\ tab.page.room # NoRoom /\ Joining(tab, tab.page.room)
    <3>1. r = tab.page.room /\ tab.sockets[s].query = r
      BY <1>4, <2>1, <2>4 DEF Joining, CreateRoom
    <3>2. u = Shown(t, Game(r))
      BY <1>7, <1>9, <2>1, <2>4, <3>1
    <3>3. OneRoom(Shown(t, Game(r)))
      BY <1>3, <1>5, <1>7, <2>1, <2>2, <2>4, <3>1, Arrives
    <3> QED
      BY <3>2, <3>3
  <2>5. CASE tab.page.at = "game" /\ Playing(tab, tab.page.room)
    <3>1. tab.page.room \in Rooms /\ tab.page.room # NoRoom
      BY <1>1, <2>5, PageFacts DEF NoRoom
    <3>2. r = tab.page.room
      BY <1>3, <1>4, <2>1, <2>5, <3>1 DEF Playing, CreateRoom
    <3>3. u = t
      BY <1>7, <1>9, <2>1, <2>5
    <3>4. Playing(t, t.page.room)
      BY <1>4, <1>5, <1>7, <2>1, <2>5, <3>2, <1>2 DEF Playing
    <3> QED
      BY <1>7, <2>2, <2>5, <3>3, <3>4 DEF OneRoom, PageFits
  <2> QED
    BY <2>1, <2>3, <2>4, <2>5
<1> QED
  BY <1>1, <1>2, <1>9, <1>10, BecomesKeeps DEF VisitInv

(* Another player joins the room of a socket.                               *)
LEMMA OtherKeeps ==
  ASSUME VisitInv, NEW s \in DOMAIN tab.sockets, OtherJoins(s)
  PROVE  VisitInv'
<1>1. /\ TabShape(tab) /\ HearsPage(tab) /\ tab.page \in AllPages
      /\ Existing \subseteq rooms /\ rooms \subseteq Rooms
  BY SocketFacts
<1>2. tab.sockets[s].at = "joined" /\ HearJoinRoom(tab, s) /\ rooms' = rooms /\ calm' = calm
  BY DEF OtherJoins, At
<1>3. PICK u : /\ Becomes(u) /\ TabShape(u) /\ HearsPage(u) /\ u.page \in AllPages
               /\ s = tab.socket =>
                    IF tab.page.at = "pin"
                    THEN tab.page.room # NoRoom => tab.page.room \in Rooms /\ u = Shown(tab, Game(tab.page.room))
                    ELSE u = tab
  BY <1>1, <1>2, HeardJoin
<1>4. ASSUME OneRoom(tab) PROVE OneRoom(u)
  <2>1. /\ s = tab.socket /\ IsOpen(tab)
        /\ \/ tab.page.at = "setup" /\ Joining(tab, CreateRoom)
           \/ tab.page.at = "pin" /\ tab.page.room # NoRoom /\ Joining(tab, tab.page.room)
           \/ tab.page.at = "game" /\ Playing(tab, tab.page.room)
    BY <1>1, <1>2, <1>4, OpenTells
  <2>2. tab.page.at = "game"
    BY <1>2, <2>1 DEF Joining
  <2> QED
    BY <1>3, <1>4, <2>1, <2>2
<1> QED
  BY <1>1, <1>2, <1>3, <1>4, BecomesKeeps DEF VisitInv

(* A socket is refused.                                                     *)
LEMMA RefusedKeeps ==
  ASSUME VisitInv, NEW s \in DOMAIN tab.sockets, ConnectRefused(s)
  PROVE  VisitInv'
<1> DEFINE u == Gone(tab, s, "closed")
<1>1. /\ TabShape(tab) /\ HearsPage(tab) /\ tab.page \in AllPages
      /\ Existing \subseteq rooms /\ rooms \subseteq Rooms
  BY SocketFacts
<1>2. tab.sockets[s].at = "connected" /\ Becomes(u) /\ rooms' = rooms /\ calm' = calm
  BY DEF ConnectRefused, At
<1>3. /\ TabShape(u) /\ (\A hs : Hears(tab, hs) => Hears(u, hs))
      /\ u.page = tab.page /\ u.socket = tab.socket /\ u.waiting = tab.waiting
      /\ u.gameId \in {tab.gameId, NoRoom} /\ Len(u.sockets) = Len(tab.sockets)
      /\ \A i \in DOMAIN tab.sockets \ {s} : u.sockets[i] = tab.sockets[i]
      /\ u.sockets[s].at = "closed"
  BY <1>1, GoneFacts
<1> HIDE DEF u
<1>4. HearsPage(u)
  BY <1>1, <1>3 DEF HearsPage
<1>5. ASSUME OneRoom(tab) PROVE OneRoom(u)
  <2>1. /\ s = tab.socket /\ IsOpen(tab) /\ tab.waiting = << >>
        /\ \/ tab.page.at = "setup" /\ Joining(tab, CreateRoom)
           \/ tab.page.at = "pin" /\ tab.page.room # NoRoom /\ Joining(tab, tab.page.room)
           \/ tab.page.at = "game" /\ Playing(tab, tab.page.room)
    BY <1>1, <1>2, <1>5, OpenTells
  <2>2. OneSocket(u) /\ Quiet(u)
    BY <1>1, <1>3, <1>5, <2>1, OneStays DEF OneRoom, IsOpen, Quiet
  <2>3. tab.page.at = "game" => Playing(u, tab.page.room)
    BY <1>3, <2>1, <2>2 DEF Playing, Quiet
  <2> QED
    BY <1>3, <2>1, <2>2, <2>3, QuietFits DEF OneRoom, PageFits
<1> QED
  BY <1>1, <1>2, <1>3, <1>4, <1>5, BecomesKeeps DEF VisitInv

(* A connection is lost.                                                    *)
LEMMA DropsKeeps ==
  ASSUME VisitInv, NEW s \in DOMAIN tab.sockets, Drops(s)
  PROVE  VisitInv'
<1> DEFINE u == Gone(tab, s, "connecting")
<1>1. /\ TabShape(tab) /\ HearsPage(tab) /\ tab.page \in AllPages
      /\ Existing \subseteq rooms /\ rooms \subseteq Rooms
  BY SocketFacts
<1>2. /\ tab.sockets[s].at \in {"connected", "joined"} /\ Becomes(u) /\ rooms' = rooms
      /\ calm' = (calm /\ tab.sockets[s].query # CreateRoom)
  BY DEF Drops
<1>3. /\ TabShape(u) /\ (\A hs : Hears(tab, hs) => Hears(u, hs))
      /\ u.page = tab.page /\ u.socket = tab.socket /\ u.waiting = tab.waiting
      /\ u.gameId \in {tab.gameId, NoRoom} /\ Len(u.sockets) = Len(tab.sockets)
      /\ \A i \in DOMAIN tab.sockets \ {s} : u.sockets[i] = tab.sockets[i]
      /\ u.sockets[s].query = tab.sockets[s].query /\ u.sockets[s].at = "connecting" /\ u.sockets[s].room = NoRoom
  BY <1>1, GoneFacts
<1> HIDE DEF u
<1>4. HearsPage(u)
  BY <1>1, <1>3 DEF HearsPage
<1>5. ASSUME OneRoom(tab), tab.sockets[s].query # CreateRoom PROVE OneRoom(u)
  <2>1. /\ s = tab.socket /\ IsOpen(tab) /\ tab.waiting = << >>
        /\ \/ tab.page.at = "setup" /\ Joining(tab, CreateRoom)
           \/ tab.page.at = "pin" /\ tab.page.room # NoRoom /\ Joining(tab, tab.page.room)
           \/ tab.page.at = "game" /\ Playing(tab, tab.page.room)
    BY <1>1, <1>2, <1>5, OpenTells
  <2>2. OneSocket(u)
    BY <1>1, <1>3, <1>5, <2>1, OneStays DEF OneRoom
  <2>3. \A q : Joining(tab, q) => Joining(u, q)
    BY <1>3, <2>1 DEF Joining
  <2>4. \A q : Playing(tab, q) => Playing(u, q)
    BY <1>3, <1>5, <2>1 DEF Playing
  <2> QED
    BY <1>3, <2>1, <2>2, <2>3, <2>4 DEF OneRoom, PageFits
<1>6. calm' => OneRoom(u)
  BY <1>2, <1>5 DEF VisitInv
<1> QED
  BY <1>1, <1>2, <1>3, <1>4, <1>6, BecomesKeeps

(* Every step of a socket.                                                  *)
LEMMA SocketKeeps ==
  ASSUME VisitInv, SocketSteps
  PROVE  VisitInv'
BY PickServerKeeps, AcceptedKeeps, CreatedKeeps, JoinsKeeps, OtherKeeps, RefusedKeeps, DropsKeeps DEF SocketSteps

(* A tab that was just opened.                                              *)
LEMMA VisitInitial ==
  ASSUME VisitInit
  PROVE  VisitInv
<1>1. tab = [page |-> Main, gameId |-> NoRoom, socket |-> 0, chosen |-> FALSE, handlers |-> AppHandlers,
             waiting |-> << >>, sockets |-> << >>] /\ rooms = Existing
  BY DEF VisitInit
<1>2. Main \in AllPages /\ AppHandlers \in SUBSET Handlers /\ NoRoom \in RoomNames /\ Main.at = "main"
  BY PageFacts, HandlerFacts DEF RoomNames
<1>3. tab \in BrowserTabs
  BY <1>1, <1>2 DEF BrowserTabs
<1>4. TabShape(tab)
  BY <1>1, <1>3 DEF TabShape
<1>5. HearsPage(tab)
  <2>1. PageHandlers(Main) = {}
    BY <1>2 DEF PageHandlers
  <2> QED
    BY <1>1, <2>1 DEF HearsPage, Hears
<1>6. OneSocket(tab) /\ Quiet(tab)
  BY <1>1 DEF OneSocket, Quiet, IsOpen
<1>7. OneRoom(tab)
  BY <1>1, <1>2, <1>6, QuietFits
<1> QED
  BY <1>1, <1>2, <1>4, <1>5, <1>7, VisitBounds DEF VisitInv, VisitShape

(* Every step of the site; only the topic of the visit disturbs it.         *)
LEMMA VisitStep ==
  ASSUME VisitInv, [Next]_vars
  PROVE  VisitInv'
<1>1. CASE UserSteps \/ SocketSteps
  BY <1>1, UserKeeps, SocketKeeps
<1>2. CASE UNCHANGED visit
  BY <1>2 DEF visit, VisitInv, VisitShape
<1> QED
  BY <1>1, <1>2 DEF Next, vars, others

(* The invariant of the tab, of every behaviour of the site.                *)
LEMMA VisitInvariant == Spec => []VisitInv
<1>1. Init => VisitInv
  BY VisitInitial DEF Init
<1>2. VisitInv /\ [Next]_vars => VisitInv'
  BY VisitStep
<1> QED
  BY <1>1, <1>2, PTL DEF Spec

(* A player who lets every attempt to connect end before doing anything     *)
(* else is in the room that the page shows.                                 *)
THEOREM RoomIsShown == Spec => []RoomShown
<1>1. VisitInv => RoomShown
  <2> SUFFICES ASSUME VisitInv, calm, tab.page.at = "game", tab.socket # 0, At(tab.socket, "joined")
               PROVE  /\ tab.sockets[tab.socket].room = tab.page.room
                      /\ tab.gameId \in {NoRoom, tab.page.room}
                      /\ tab.sockets[tab.socket].handlers = AppHandlers \union PageHandlers(tab.page)
                      /\ \A s \in DOMAIN tab.sockets \ {tab.socket} : At(s, "closed")
    BY DEF RoomShown
  <2>1. OneSocket(tab) /\ Playing(tab, tab.page.room) /\ IsOpen(tab) /\ HearsPage(tab)
    BY DEF VisitInv, VisitShape, OneRoom, PageFits, IsOpen, At
  <2> QED
    BY <2>1 DEF Playing, OneSocket, HearsPage, Hears, At
<1> QED
  BY <1>1, VisitInvariant, PTL

-----------------------------------------------------------------------------
(* The show                                                                 *)

Points == UNION {[S -> Nat] : S \in SUBSET Audience}
Entries == [alive : BOOLEAN, answer : BOOLEAN, score : Nat]
Lists == UNION {[S -> Entries] : S \in SUBSET Audience}
Stages ==
  [mode : {"RANKING", "SURVIVAL"}, points : Points, alive : SUBSET Audience, correct : SUBSET Audience,
   winners : SUBSET Audience, survivors : SUBSET Audience, played : SUBSET Audience, kicked : SUBSET Audience]
Screens ==
  [gameState : {"WAIT", "PROGRESS", "END"}, quizState : {"progress", "start", "end"}, quiz : Int, begun : BOOLEAN,
   list : Lists, fading : BOOLEAN, verdict : BOOLEAN, results : BOOLEAN]

(* Whoever is in the room and was not kicked is on the list.                *)
ShowShape ==
  /\ stage \in Stages /\ screen \in Screens /\ attentive \in BOOLEAN /\ turns \in 0..MaxTurns
  /\ event \in {"lobby", "start", "question", "result"}
  /\ event = "lobby" => num = 0
  /\ event = "start" => num = -1
  /\ event \in {"question", "result"} => num \in 0..(Questions - 1)
  /\ Me \in Present /\ Me \notin stage.kicked
  /\ Present \ stage.kicked \subseteq OnList /\ OnList \subseteq Present

(* What the page never does, however little the player attends to it.       *)
Always ==
  /\ screen.quiz \in {NoQuiz, num} /\ (event \in {"lobby", "start"} => screen.quiz = NoQuiz)
  /\ event = "question" => screen.quizState # "end"
  /\ screen.fading => event = "result" /\ stage.mode = "SURVIVAL"
  /\ screen.verdict => event = "result"
  /\ ~InGame => Present \ stage.kicked \subseteq stage.alive
  /\ stage.mode = "RANKING" => Present \ stage.kicked \subseteq stage.alive /\ OnList \ stage.kicked \subseteq ShownAlive
  /\ ~InGame /\ ~screen.results => OnList \subseteq ShownAlive /\ \A p \in OnList : screen.list[p].score = 0

(* No quiz brings anybody more than the pot.                                *)
Most ==
  CASE event = "lobby" -> Pot * Questions
    [] event = "start" -> 0
    [] event = "question" -> Pot * num
    [] OTHER -> Pot * num + Pot
Bounded == \A p \in Present : stage.points[p] <= Most

ToSurvive == {p \in OnList : screen.list[p].alive /\ screen.list[p].answer}

AliveShown(shown) == shown \subseteq stage.alive /\ (stage.alive \intersect Present) \ stage.kicked \subseteq shown

Attended ==
  /\ InGame => screen.gameState = "PROGRESS" /\ ~screen.results
  /\ event \in {"question", "result"} => screen.quiz = num
  /\ event = "result" => screen.quizState = "end" /\ screen.begun
  /\ screen.verdict => (Me \in ToSurvive <=> Me \in stage.winners)
  /\ InGame \/ screen.results => \A p \in OnList : screen.list[p].score = stage.points[p]
  /\ ~InGame /\ ~screen.results => OnList \subseteq stage.alive
  /\ stage.mode = "SURVIVAL" /\ InGame => AliveShown(IF screen.fading THEN ToSurvive ELSE ShownAlive)
  /\ screen.results => \A p \in (stage.played \intersect OnList) \ stage.kicked : p \in ShownAlive <=> p \in stage.survivors

ShowInv == ShowShape /\ Always /\ Bounded /\ (attentive => Attended)

(* What the shape says of the parts.                                        *)
LEMMA ShowParts ==
  ASSUME ShowShape
  PROVE  /\ stage.mode \in {"RANKING", "SURVIVAL"} /\ stage.points \in Points /\ Present \subseteq Audience
         /\ \A p \in Present : stage.points[p] \in Nat
         /\ stage.alive \subseteq Audience /\ stage.correct \subseteq Audience /\ stage.winners \subseteq Audience
         /\ stage.survivors \subseteq Audience /\ stage.played \subseteq Audience /\ stage.kicked \subseteq Audience
         /\ screen.gameState \in {"WAIT", "PROGRESS", "END"} /\ screen.quizState \in {"progress", "start", "end"}
         /\ screen.quiz \in Int /\ screen.begun \in BOOLEAN /\ screen.fading \in BOOLEAN /\ screen.verdict \in BOOLEAN
         /\ screen.results \in BOOLEAN /\ screen.list \in Lists /\ \A p \in OnList : screen.list[p] \in Entries
         /\ OnList \subseteq Audience /\ Questions \in Nat \ {0} /\ Pot \in Nat \ {0} /\ Me \in Audience
         /\ Me \in OnList /\ num \in Int /\ turns \in 0..MaxTurns /\ MaxTurns \in Nat
<1>1. /\ stage.mode \in {"RANKING", "SURVIVAL"} /\ stage.points \in Points
      /\ stage.alive \subseteq Audience /\ stage.correct \subseteq Audience /\ stage.winners \subseteq Audience
      /\ stage.survivors \subseteq Audience /\ stage.played \subseteq Audience /\ stage.kicked \subseteq Audience
  BY DEF ShowShape, Stages
<1>2. /\ screen.gameState \in {"WAIT", "PROGRESS", "END"} /\ screen.quizState \in {"progress", "start", "end"}
      /\ screen.quiz \in Int /\ screen.begun \in BOOLEAN /\ screen.fading \in BOOLEAN /\ screen.verdict \in BOOLEAN
      /\ screen.results \in BOOLEAN /\ screen.list \in Lists
  BY DEF ShowShape, Screens
<1>3. Present \subseteq Audience /\ \A p \in Present : stage.points[p] \in Nat
  BY <1>1 DEF Points, Present
<1>4. OnList \subseteq Audience /\ \A p \in OnList : screen.list[p] \in Entries
  BY <1>2 DEF Lists, OnList
<1>5. Questions \in Nat \ {0} /\ Pot \in Nat \ {0} /\ MaxTurns \in Nat /\ Me \in Audience
  BY ScreenBounds
<1>6. num \in Int
  BY <1>5 DEF ShowShape
<1> QED
  BY <1>1, <1>2, <1>3, <1>4, <1>5, <1>6 DEF ShowShape

(* Maps over some of the players.                                           *)
LEMMA MapFacts ==
  /\ \A S \in SUBSET Audience : \A f \in [S -> Nat] : f \in Points
  /\ \A S \in SUBSET Audience : \A f \in [S -> Entries] : f \in Lists
  /\ \A a, b \in BOOLEAN, n \in Nat : /\ Entry(a, b, n) \in Entries /\ Entry(a, b, n).alive = a
                                      /\ Entry(a, b, n).answer = b /\ Entry(a, b, n).score = n
  /\ Fresh \in Entries /\ Fresh.alive = TRUE /\ Fresh.answer = TRUE /\ Fresh.score = 0
BY DEF Points, Lists, Entries, Entry, Fresh

(* The game starts on the screen.                                           *)
LEMMA StartGameStep ==
  ASSUME ShowInv, StartGame
  PROVE  ShowInv'
<1> DEFINE zero == [p \in Present |-> 0]
<1>0. ShowShape /\ Always /\ (attentive => Attended)
  BY DEF ShowInv
<1> USE ShowParts
<1>1. /\ event = "lobby" /\ event' = "start" /\ num' = -1 /\ turns' \in 0..MaxTurns
      /\ stage' = [stage EXCEPT !.points = zero]
      /\ screen' = [screen EXCEPT !.gameState = "PROGRESS"]
      /\ attentive' = (attentive /\ ~screen.results)
  BY <1>0 DEF StartGame, Turn, Show!Begin
<1>2. zero \in Points /\ DOMAIN zero = Present /\ \A p \in Present : zero[p] = 0
  BY <1>0, MapFacts
<1> HIDE DEF zero
<1>3. /\ stage' \in Stages /\ stage'.points = zero /\ stage'.mode = stage.mode /\ stage'.alive = stage.alive
      /\ stage'.correct = stage.correct /\ stage'.winners = stage.winners /\ stage'.survivors = stage.survivors
      /\ stage'.played = stage.played /\ stage'.kicked = stage.kicked
  BY <1>0, <1>1, <1>2 DEF ShowShape, Stages
<1>4. /\ screen' \in Screens /\ screen'.gameState = "PROGRESS" /\ screen'.quizState = screen.quizState
      /\ screen'.quiz = screen.quiz /\ screen'.begun = screen.begun /\ screen'.list = screen.list
      /\ screen'.fading = screen.fading /\ screen'.verdict = screen.verdict /\ screen'.results = screen.results
  BY <1>0, <1>1 DEF ShowShape, Screens
<1>5. Present' = Present /\ OnList' = OnList /\ ShownAlive' = ShownAlive /\ InGame' /\ ~InGame
  BY <1>1, <1>2, <1>3, <1>4 DEF Present, OnList, ShownAlive, InGame
<1>6. ShowShape'
  BY <1>0, <1>1, <1>3, <1>4, <1>5 DEF ShowShape
<1>7. Always'
  BY <1>0, <1>1, <1>3, <1>4, <1>5 DEF Always
<1>8. Bounded'
  BY <1>1, <1>2, <1>3, <1>5 DEF Bounded, Most
<1>9. ASSUME attentive' PROVE Attended'
  <2>1. attentive /\ ~screen.results /\ OnList \subseteq stage.alive /\ OnList \subseteq ShownAlive
    BY <1>0, <1>1, <1>5, <1>9 DEF Attended, Always
  <2>2. \A p \in OnList : screen.list[p].score = 0 /\ p \in Present
    BY <1>0, <1>5, <2>1 DEF Always, ShowShape
  <2>3. AliveShown(ShownAlive)'
    BY <1>0, <1>3, <1>5, <2>1 DEF AliveShown, ShowShape, ShownAlive
  <2>4. ~screen'.fading /\ ~screen'.verdict
    BY <1>0, <1>1, <1>4 DEF Always
  <2> QED
    BY <1>1, <1>2, <1>3, <1>4, <1>5, <2>1, <2>2, <2>3, <2>4 DEF Attended
<1> QED
  BY <1>6, <1>7, <1>8, <1>9 DEF ShowInv

(* A quiz is shown with its countdown.                                      *)
LEMMA StartQuizTimeStep ==
  ASSUME ShowInv, StartQuizTime
  PROVE  ShowInv'
<1>0. ShowShape /\ Always /\ Bounded /\ (attentive => Attended)
  BY DEF ShowInv
<1> USE ShowParts
<1>1. /\ event \in {"start", "result"} /\ event' = "question" /\ num' = num + 1 /\ num + 1 < Questions
      /\ screen' = [screen EXCEPT !.quizState = "start", !.quiz = num', !.begun = FALSE]
      /\ stage' = stage /\ attentive' = attentive /\ turns' = turns /\ ~screen.fading /\ ~screen.verdict
  BY DEF StartQuizTime, Rested, Show!Ask
<1>a. num' \in Int
  BY <1>0, <1>1
<1>2. /\ screen' \in Screens /\ screen'.gameState = screen.gameState /\ screen'.quizState = "start"
      /\ screen'.quiz = num' /\ screen'.begun = FALSE /\ screen'.list = screen.list
      /\ screen'.fading = screen.fading /\ screen'.verdict = screen.verdict /\ screen'.results = screen.results
  BY <1>0, <1>1, <1>a DEF ShowShape, Screens
<1>3. Present' = Present /\ OnList' = OnList /\ ShownAlive' = ShownAlive /\ InGame' /\ InGame
  BY <1>1, <1>2 DEF Present, OnList, ShownAlive, InGame
<1>4. num \in -1..(Questions - 1) /\ num' \in 0..(Questions - 1)
  BY <1>0, <1>1 DEF ShowShape
<1>5. ShowShape'
  BY <1>0, <1>1, <1>2, <1>3, <1>4 DEF ShowShape
<1>6. Always'
  BY <1>0, <1>1, <1>2, <1>3 DEF Always
<1>7. Bounded'
  <2>1. Most' = Pot * (num + 1)
    BY <1>1 DEF Most
  <2>2. Pot * (num + 1) = Pot * num + Pot
    BY <1>0
  <2>3. Most = Pot * num + Pot
    <3>1. CASE event = "start"
      BY <1>0, <3>1 DEF Most, ShowShape
    <3>2. CASE event = "result"
      BY <3>2 DEF Most
    <3> QED
      BY <1>1, <3>1, <3>2
  <2> QED
    BY <1>0, <1>1, <1>3, <2>1, <2>2, <2>3 DEF Bounded
<1>8. ASSUME attentive' PROVE Attended'
  BY <1>0, <1>1, <1>2, <1>3, <1>8 DEF Attended, AliveShown
<1> QED
  BY <1>5, <1>6, <1>7, <1>8 DEF ShowInv

(* The time of a quiz begins.                                               *)
LEMMA BeginsStep ==
  ASSUME ShowInv, Begins
  PROVE  ShowInv'
<1>0. ShowShape /\ Always /\ Bounded /\ (attentive => Attended)
  BY DEF ShowInv
<1> USE ShowParts
<1>1. /\ screen' = [screen EXCEPT !.begun = TRUE]
      /\ event' = event /\ num' = num /\ stage' = stage /\ attentive' = attentive /\ turns' = turns
  BY DEF Begins
<1>2. /\ screen' \in Screens /\ screen'.gameState = screen.gameState /\ screen'.quizState = screen.quizState
      /\ screen'.quiz = screen.quiz /\ screen'.begun = TRUE /\ screen'.list = screen.list
      /\ screen'.fading = screen.fading /\ screen'.verdict = screen.verdict /\ screen'.results = screen.results
  BY <1>0, <1>1 DEF ShowShape, Screens
<1>3. Present' = Present /\ OnList' = OnList /\ ShownAlive' = ShownAlive /\ ToSurvive' = ToSurvive
      /\ (InGame' <=> InGame) /\ Most' = Most
  BY <1>1, <1>2 DEF Present, OnList, ShownAlive, ToSurvive, InGame, Most
<1>5. ShowShape'
  BY <1>0, <1>1, <1>2, <1>3 DEF ShowShape
<1>6. Always'
  BY <1>0, <1>1, <1>2, <1>3 DEF Always
<1>7. Bounded'
  BY <1>0, <1>1, <1>3 DEF Bounded
<1>8. ASSUME attentive' PROVE Attended'
  BY <1>0, <1>1, <1>2, <1>3, <1>8 DEF Attended, AliveShown
<1> QED
  BY <1>5, <1>6, <1>7, <1>8 DEF ShowInv

(* A share of the pot is no more than the pot.                              *)
LEMMA Share ==
  ASSUME NEW a \in Nat, NEW b \in Nat \ {0}
  PROVE  a \div b \in Nat /\ a \div b <= a
OBVIOUS

(* What a quiz makes of the room.                                           *)
LEMMA ScoredFacts ==
  ASSUME ShowShape, NEW right \in SUBSET (stage.alive \intersect Present)
  PROVE  LET s == Scored(right)
             graded == stage.alive \intersect Present IN
         /\ s \in Stages /\ s.mode = stage.mode /\ s.winners = right /\ s.correct = (stage.correct \ graded) \union right
         /\ s.survivors = stage.survivors /\ s.played = stage.played /\ s.kicked = stage.kicked
         /\ DOMAIN s.points = Present
         /\ \A p \in Present : s.points[p] \in Nat
                               /\ (s.points[p] <= stage.points[p] + Pot \/ s.points[p] <= Pot)
         /\ s.alive = IF stage.mode = "RANKING" THEN stage.alive ELSE stage.alive \ (graded \ right)
<1> DEFINE graded == stage.alive \intersect Present
           ranking == stage.mode = "RANKING"
           share == Pot \div Cardinality(right)
           points == [p \in Present |->
                        IF p \notin graded THEN stage.points[p]
                        ELSE IF ranking THEN stage.points[p] + (IF p \in right THEN share ELSE 0)
                        ELSE IF p \in right THEN 1 ELSE 0]
           alive == IF ranking THEN stage.alive ELSE stage.alive \ (graded \ right)
           correct == (stage.correct \ graded) \union right
<1>1. /\ stage.mode \in {"RANKING", "SURVIVAL"} /\ stage.points \in Points /\ Present \subseteq Audience
      /\ \A p \in Present : stage.points[p] \in Nat
      /\ stage.alive \subseteq Audience /\ stage.correct \subseteq Audience /\ Pot \in Nat \ {0} /\ stage \in Stages
  BY ShowParts DEF ShowShape
<1>2. ASSUME NEW p \in right PROVE share \in Nat /\ share <= Pot
  <2>1. IsFiniteSet(right)
    BY <1>1, ScreenBounds, FS_Subset
  <2>2. Cardinality(right) \in Nat /\ Cardinality(right) # 0
    BY <2>1, FS_CardinalityType, FS_EmptySet
  <2> QED
    BY <1>1, <2>2, Share
<1> HIDE DEF share
<1>3. \A p \in Present : points[p] \in Nat /\ (points[p] <= stage.points[p] + Pot \/ points[p] <= Pot)
  <2> SUFFICES ASSUME NEW p \in Present
               PROVE  points[p] \in Nat /\ (points[p] <= stage.points[p] + Pot \/ points[p] <= Pot)
    OBVIOUS
  <2>1. stage.points[p] \in Nat /\ (p \in right => share \in Nat /\ share <= Pot)
    BY <1>1, <1>2
  <2> QED
    BY <1>1, <2>1
<1>4. points \in Points /\ DOMAIN points = Present
  <2>1. points \in [Present -> Nat]
    BY <1>3
  <2> QED
    BY <1>1, <2>1, MapFacts
<1>5. alive \subseteq Audience /\ correct \subseteq Audience /\ right \subseteq Audience
  BY <1>1
<1>6. Scored(right) = [stage EXCEPT !.winners = right, !.correct = correct, !.points = points, !.alive = alive]
  BY <1>1 DEF Scored, share, Stages
<1> HIDE DEF points, correct
<1>7. /\ Scored(right).mode = stage.mode /\ Scored(right).winners = right /\ Scored(right).correct = correct
      /\ Scored(right).survivors = stage.survivors /\ Scored(right).played = stage.played
      /\ Scored(right).kicked = stage.kicked /\ Scored(right).points = points /\ Scored(right).alive = alive
      /\ Scored(right) \in Stages
  <2> HIDE DEF alive
  <2> QED
    BY <1>1, <1>4, <1>5, <1>6 DEF Stages
<1> QED
  BY <1>3, <1>4, <1>7 DEF correct

(* The time of a quiz is over: answers, scores and the fallen are known.    *)
LEMMA EndQuizTimeStep ==
  ASSUME ShowInv, EndQuizTime
  PROVE  ShowInv'
<1>0. ShowShape /\ Always /\ Bounded /\ (attentive => Attended)
  BY DEF ShowInv
<1> USE ShowParts
<1>1. PICK right \in SUBSET (stage.alive \intersect Present) : stage' = Scored(right)
  BY DEF EndQuizTime
<1> DEFINE list == Results(stage')
           graded == stage.alive \intersect Present
<1>2. /\ event = "question" /\ event' = "result" /\ num' = num /\ (screen.quiz # NoQuiz => screen.begun)
      /\ screen' = [screen EXCEPT !.quizState = "end", !.list = list,
                                  !.fading = stage.mode = "SURVIVAL", !.verdict = Header = "question"]
      /\ attentive' = attentive /\ turns' = turns
  BY DEF EndQuizTime, Show!Reveal
<1>3. /\ stage' \in Stages /\ stage'.mode = stage.mode /\ stage'.winners = right
      /\ stage'.correct = (stage.correct \ graded) \union right
      /\ stage'.survivors = stage.survivors /\ stage'.played = stage.played /\ stage'.kicked = stage.kicked
      /\ DOMAIN stage'.points = Present
      /\ \A p \in Present : stage'.points[p] \in Nat /\ (stage'.points[p] <= stage.points[p] + Pot \/ stage'.points[p] <= Pot)
      /\ stage'.alive = IF stage.mode = "RANKING" THEN stage.alive ELSE stage.alive \ (graded \ right)
  BY <1>0, <1>1, ScoredFacts
<1>4. Present' = Present
  BY <1>3 DEF Present
<1>5. /\ list \in Lists /\ DOMAIN list = Present
      /\ \A p \in Present : /\ list[p].alive <=> p \in ShownAlive
                            /\ list[p].answer <=> p \in stage'.correct
                            /\ list[p].score = stage'.points[p]
  <2>1. \A p \in Present : list[p] = Entry(p \in OnList /\ screen.list[p].alive, p \in stage'.correct, stage'.points[p])
    BY <1>3 DEF Results
  <2>2. ASSUME NEW p \in Present
        PROVE  /\ list[p] \in Entries /\ (list[p].alive <=> p \in ShownAlive)
               /\ (list[p].answer <=> p \in stage'.correct) /\ list[p].score = stage'.points[p]
    <3>1. (p \in OnList /\ screen.list[p].alive) \in BOOLEAN /\ (p \in stage'.correct) \in BOOLEAN
      OBVIOUS
    <3>2. (p \in OnList /\ screen.list[p].alive) <=> p \in ShownAlive
      BY DEF ShownAlive
    <3> DEFINE a == p \in OnList /\ screen.list[p].alive
               b == p \in stage'.correct
    <3>3. a \in BOOLEAN /\ b \in BOOLEAN /\ stage'.points[p] \in Nat /\ list[p] = Entry(a, b, stage'.points[p])
      BY <1>3, <2>1, <3>1
    <3>4. list[p] \in Entries /\ list[p].alive = a /\ list[p].answer = b /\ list[p].score = stage'.points[p]
      <4> HIDE DEF a, b, list
      <4> QED
        BY <3>3, MapFacts
    <3> HIDE DEF list
    <3> QED
      BY <3>2, <3>4
  <2>3. DOMAIN list = Present
    BY <1>3 DEF Results
  <2>4. list \in [Present -> Entries]
    BY <1>3, <2>2 DEF Results
  <2> QED
    BY <1>0, <2>2, <2>3, <2>4, MapFacts
<1> HIDE DEF list
<1>6. /\ screen' \in Screens /\ screen'.gameState = screen.gameState /\ screen'.quizState = "end"
      /\ screen'.quiz = screen.quiz /\ screen'.begun = screen.begun /\ screen'.list = list
      /\ (screen'.fading <=> stage.mode = "SURVIVAL") /\ (screen'.verdict <=> Header = "question")
      /\ screen'.results = screen.results
  BY <1>0, <1>2, <1>5 DEF ShowShape, Screens
<1>7. /\ OnList' = Present /\ InGame' /\ InGame
      /\ ShownAlive' = ShownAlive /\ ToSurvive' = ShownAlive \intersect stage'.correct
  <2>1. ShownAlive \subseteq Present
    BY <1>0 DEF ShownAlive, ShowShape
  <2> QED
    BY <1>2, <1>5, <1>6, <2>1 DEF OnList, InGame, ShownAlive, ToSurvive
<1>8. ShowShape'
  BY <1>0, <1>2, <1>3, <1>4, <1>6, <1>7 DEF ShowShape
<1>9. Always'
  BY <1>0, <1>2, <1>3, <1>4, <1>6, <1>7 DEF Always, ShowShape
<1>10. Bounded'
  <2>1. Most' = Pot * num + Pot /\ Most = Pot * num
    BY <1>2 DEF Most
  <2>2. Pot * num \in Nat
    BY <1>0, <1>2 DEF ShowShape
  <2>3. \A p \in Present : stage.points[p] <= Pot * num /\ stage.points[p] \in Nat
    BY <1>0, <2>1 DEF Bounded
  <2> DEFINE most == Pot * num
  <2> HIDE DEF most
  <2>4. \A p \in Present : stage'.points[p] <= most + Pot
    BY <1>0, <1>3, <2>2, <2>3 DEF most
  <2> QED
    BY <1>4, <2>1, <2>4 DEF Bounded, most
<1>11. ASSUME attentive' PROVE Attended'
  <2>1. attentive /\ screen.gameState = "PROGRESS" /\ ~screen.results /\ screen.quiz = num /\ screen.quiz # NoQuiz /\ screen.begun
    BY <1>0, <1>2, <1>7, <1>11 DEF Attended, ShowShape, NoQuiz
  <2>2. ~screen.fading
    BY <1>0, <1>2 DEF Always
  <2>3. stage.mode = "SURVIVAL" => AliveShown(ShownAlive)
    BY <1>0, <1>7, <2>1, <2>2 DEF Attended
  <2>4. stage.mode = "RANKING" => Present \ stage.kicked \subseteq stage.alive /\ OnList \ stage.kicked \subseteq ShownAlive
    BY <1>0 DEF Always
  <2>5. Me \in ShownAlive <=> Me \in stage.alive
    BY <1>0, <2>3, <2>4 DEF AliveShown, ShowShape
  <2>6. Me \in ToSurvive' <=> Me \in right
    BY <1>0, <1>3, <1>7, <2>5 DEF ShowShape
  <2>7. stage.mode = "SURVIVAL" => AliveShown(ToSurvive)'
    <3> SUFFICES ASSUME stage.mode = "SURVIVAL" PROVE AliveShown(ToSurvive)'
      OBVIOUS
    <3>1. ShownAlive \subseteq stage.alive /\ (stage.alive \intersect Present) \ stage.kicked \subseteq ShownAlive
      BY <2>3 DEF AliveShown
    <3>2. ShownAlive \subseteq Present
      BY <1>0 DEF ShownAlive, ShowShape
    <3>3. stage'.alive = stage.alive \ (graded \ right)
      BY <1>3
    <3>4. ShownAlive \intersect stage'.correct \subseteq stage'.alive
      BY <1>3, <3>1, <3>2, <3>3
    <3>5. (stage'.alive \intersect Present) \ stage.kicked \subseteq ShownAlive \intersect stage'.correct
      BY <1>3, <3>1, <3>3
    <3> QED
      BY <1>3, <1>4, <1>7, <3>4, <3>5 DEF AliveShown
  <2>8. \A p \in OnList' : screen'.list[p].score = stage'.points[p]
    BY <1>5, <1>6, <1>7
  <2> QED
    BY <1>2, <1>3, <1>6, <1>7, <2>1, <2>6, <2>7, <2>8 DEF Attended
<1> QED
  BY <1>8, <1>9, <1>10, <1>11 DEF ShowInv

(* The fallen fade from the list.                                           *)
LEMMA FadeStep ==
  ASSUME ShowInv, Fade
  PROVE  ShowInv'
<1>0. ShowShape /\ Always /\ Bounded /\ (attentive => Attended)
  BY DEF ShowInv
<1> USE ShowParts
<1> DEFINE list == [p \in OnList |-> [screen.list[p] EXCEPT !.alive = screen.list[p].alive /\ screen.list[p].answer]]
<1>1. /\ screen.fading /\ screen' = [screen EXCEPT !.fading = FALSE, !.list = list]
      /\ event' = event /\ num' = num /\ stage' = stage /\ attentive' = attentive /\ turns' = turns
  <2>1. \A p \in OnList : [screen.list[p] EXCEPT !.alive = @ /\ screen.list[p].answer]
                          = [screen.list[p] EXCEPT !.alive = screen.list[p].alive /\ screen.list[p].answer]
    BY <1>0 DEF Entries
  <2>2. [p \in OnList |-> [screen.list[p] EXCEPT !.alive = @ /\ screen.list[p].answer]] = list
    BY <2>1
  <2> HIDE DEF list
  <2> QED
    BY <1>0, <2>2 DEF Fade, ShowShape, Screens
<1>2. /\ list \in Lists /\ DOMAIN list = OnList
      /\ \A p \in OnList : /\ list[p].alive <=> screen.list[p].alive /\ screen.list[p].answer
                           /\ list[p].answer = screen.list[p].answer
                           /\ list[p].score = screen.list[p].score
  <2>1. ASSUME NEW p \in OnList
        PROVE  /\ list[p] \in Entries /\ (list[p].alive <=> screen.list[p].alive /\ screen.list[p].answer)
               /\ list[p].answer = screen.list[p].answer /\ list[p].score = screen.list[p].score
    <3>1. screen.list[p] \in Entries
      BY <1>0
    <3> QED
      BY <3>1 DEF Entries
  <2>2. list \in [OnList -> Entries]
    BY <2>1
  <2> QED
    BY <1>0, <2>1, <2>2, MapFacts
<1> HIDE DEF list
<1>3. /\ screen' \in Screens /\ screen'.gameState = screen.gameState /\ screen'.quizState = screen.quizState
      /\ screen'.quiz = screen.quiz /\ screen'.begun = screen.begun /\ screen'.list = list
      /\ screen'.fading = FALSE /\ screen'.verdict = screen.verdict /\ screen'.results = screen.results
  BY <1>0, <1>1, <1>2 DEF ShowShape, Screens
<1>4. Present' = Present /\ OnList' = OnList /\ ShownAlive' = ToSurvive /\ ToSurvive' = ToSurvive
      /\ (InGame' <=> InGame) /\ Most' = Most
  BY <1>1, <1>2, <1>3 DEF Present, OnList, ShownAlive, ToSurvive, InGame, Most
<1>5. ShowShape'
  BY <1>0, <1>1, <1>3, <1>4 DEF ShowShape
<1>6. event = "result" /\ stage.mode = "SURVIVAL" /\ InGame
  BY <1>0, <1>1 DEF Always, InGame
<1>7. Always'
  BY <1>0, <1>1, <1>3, <1>4, <1>6 DEF Always
<1>8. Bounded'
  BY <1>0, <1>1, <1>4 DEF Bounded
<1>9. ASSUME attentive' PROVE Attended'
  <2>1. Attended
    BY <1>0, <1>1, <1>9
  <2>2. AliveShown(ShownAlive)'
    BY <1>1, <1>4, <1>6, <2>1 DEF Attended, AliveShown
  <2> QED
    BY <1>1, <1>2, <1>3, <1>4, <1>6, <2>1, <2>2 DEF Attended
<1> QED
  BY <1>5, <1>7, <1>8, <1>9 DEF ShowInv

(* The verdict is taken off the screen.                                     *)
LEMMA VerdictEndsStep ==
  ASSUME ShowInv, VerdictEnds
  PROVE  ShowInv'
<1>0. ShowShape /\ Always /\ Bounded /\ (attentive => Attended)
  BY DEF ShowInv
<1> USE ShowParts
<1>1. /\ screen' = [screen EXCEPT !.verdict = FALSE]
      /\ event' = event /\ num' = num /\ stage' = stage /\ attentive' = attentive /\ turns' = turns
  BY DEF VerdictEnds
<1>2. /\ screen' \in Screens /\ screen'.gameState = screen.gameState /\ screen'.quizState = screen.quizState
      /\ screen'.quiz = screen.quiz /\ screen'.begun = screen.begun /\ screen'.list = screen.list
      /\ screen'.fading = screen.fading /\ screen'.verdict = FALSE /\ screen'.results = screen.results
  BY <1>0, <1>1 DEF ShowShape, Screens
<1>3. Present' = Present /\ OnList' = OnList /\ ShownAlive' = ShownAlive /\ ToSurvive' = ToSurvive
      /\ (InGame' <=> InGame) /\ Most' = Most
  BY <1>1, <1>2 DEF Present, OnList, ShownAlive, ToSurvive, InGame, Most
<1>5. ShowShape'
  BY <1>0, <1>1, <1>2, <1>3 DEF ShowShape
<1>6. Always'
  BY <1>0, <1>1, <1>2, <1>3 DEF Always
<1>7. Bounded'
  BY <1>0, <1>1, <1>3 DEF Bounded
<1>8. ASSUME attentive' PROVE Attended'
  BY <1>0, <1>1, <1>2, <1>3, <1>8 DEF Attended, AliveShown
<1> QED
  BY <1>5, <1>6, <1>7, <1>8 DEF ShowInv

(* The game is over: the results are shown.                                 *)
LEMMA EndGameStep ==
  ASSUME ShowInv, EndGame
  PROVE  ShowInv'
<1>0. ShowShape /\ Always /\ Bounded /\ (attentive => Attended)
  BY DEF ShowInv
<1> USE ShowParts
<1>1. /\ event \in {"start", "result"} /\ event' = "lobby" /\ num' = 0 /\ ~screen.fading /\ ~screen.verdict
      /\ stage' = [stage EXCEPT !.survivors = stage.alive, !.alive = stage.alive \union Present, !.played = Present]
      /\ screen' = [screen EXCEPT !.gameState = "END", !.quiz = NoQuiz, !.begun = FALSE, !.results = TRUE]
      /\ attentive' = attentive /\ turns' = turns
  BY <1>0 DEF EndGame, Rested, Show!End, ShowShape, Stages
<1>2. /\ stage' \in Stages /\ stage'.mode = stage.mode /\ stage'.points = stage.points /\ stage'.alive = stage.alive \union Present
      /\ stage'.survivors = stage.alive /\ stage'.played = Present /\ stage'.kicked = stage.kicked
  BY <1>0, <1>1 DEF ShowShape, Stages
<1>3. /\ screen' \in Screens /\ screen'.gameState = "END" /\ screen'.quizState = screen.quizState
      /\ screen'.quiz = NoQuiz /\ screen'.list = screen.list
      /\ screen'.fading = screen.fading /\ screen'.verdict = screen.verdict /\ screen'.results = TRUE
  <2>1. NoQuiz \in Int
    BY DEF NoQuiz
  <2> QED
    BY <1>0, <1>1, <2>1 DEF ShowShape, Screens
<1>4. Present' = Present /\ OnList' = OnList /\ ShownAlive' = ShownAlive /\ InGame /\ ~InGame'
  BY <1>1, <1>2, <1>3 DEF Present, OnList, ShownAlive, InGame
<1>5. ShowShape'
  BY <1>0, <1>1, <1>2, <1>3, <1>4 DEF ShowShape
<1>6. Always'
  BY <1>0, <1>1, <1>2, <1>3, <1>4 DEF Always
<1>7. Bounded'
  <2>1. Most' = Pot * Questions
    BY <1>1 DEF Most
  <2>2. Most <= Pot * Questions /\ Most \in Nat
    <3>1. CASE event = "start"
      BY <1>0, <3>1 DEF Most
    <3>2. CASE event = "result"
      <4>1. num + 1 <= Questions /\ num + 1 \in Nat
        BY <1>0, <3>2 DEF ShowShape
      <4>2. Pot * (num + 1) <= Pot * Questions /\ Pot * (num + 1) = Pot * num + Pot /\ Pot * (num + 1) \in Nat
        BY <1>0, <4>1
      <4> QED
        BY <3>2, <4>2 DEF Most
    <3> QED
      BY <1>1, <3>1, <3>2
  <2>3. Pot * Questions \in Nat
    BY <1>0
  <2> DEFINE most == Pot * Questions
  <2> HIDE DEF most
  <2>4. \A p \in Present : stage.points[p] <= most
    BY <1>0, <2>2, <2>3 DEF Bounded, most
  <2> QED
    BY <1>2, <1>4, <2>1, <2>4 DEF Bounded, most
<1>8. ASSUME attentive' PROVE Attended'
  <2>1. Attended
    BY <1>0, <1>1, <1>8
  <2>2. ASSUME NEW p \in OnList \ stage.kicked PROVE p \in ShownAlive <=> p \in stage.alive
    <3>1. CASE stage.mode = "SURVIVAL"
      <4>1. AliveShown(ShownAlive)
        BY <1>1, <1>4, <2>1, <3>1 DEF Attended
      <4> QED
        BY <1>0, <2>2, <4>1 DEF AliveShown, ShowShape
    <3>2. CASE stage.mode = "RANKING"
      BY <1>0, <2>2, <3>2 DEF Always, ShowShape
    <3> QED
      BY <1>0, <3>1, <3>2
  <2>3. \A p \in OnList : screen.list[p].score = stage.points[p]
    BY <1>4, <2>1 DEF Attended
  <2> QED
    BY <1>1, <1>2, <1>3, <1>4, <2>2, <2>3 DEF Attended
<1> QED
  BY <1>5, <1>6, <1>7, <1>8 DEF ShowInv

(* The results are closed and the room waits again.                         *)
LEMMA CloseResultsStep ==
  ASSUME ShowInv, CloseResults
  PROVE  ShowInv'
<1>0. ShowShape /\ Always /\ Bounded /\ (attentive => Attended)
  BY DEF ShowInv
<1> USE ShowParts
<1> DEFINE list == [p \in OnList |-> Fresh]
<1>1. /\ screen' = [screen EXCEPT !.gameState = "WAIT", !.list = list, !.results = FALSE, !.verdict = FALSE]
      /\ attentive' = (~InGame /\ OnList \intersect stage.kicked \subseteq stage.alive)
      /\ event' = event /\ num' = num /\ stage' = stage /\ turns' = turns
  BY DEF CloseResults, ResetScore
<1>2. list \in Lists /\ DOMAIN list = OnList /\ \A p \in OnList : list[p].alive /\ list[p].score = 0
  <2>1. list \in [OnList -> Entries]
    BY MapFacts
  <2> QED
    BY <1>0, <2>1, MapFacts
<1> HIDE DEF list
<1>3. /\ screen' \in Screens /\ screen'.gameState = "WAIT" /\ screen'.quizState = screen.quizState
      /\ screen'.quiz = screen.quiz /\ screen'.begun = screen.begun /\ screen'.list = list
      /\ screen'.fading = screen.fading /\ screen'.verdict = FALSE /\ screen'.results = FALSE
  BY <1>0, <1>1, <1>2 DEF ShowShape, Screens
<1>4. Present' = Present /\ OnList' = OnList /\ ShownAlive' = OnList
      /\ (InGame' <=> InGame) /\ Most' = Most
  BY <1>1, <1>2, <1>3 DEF Present, OnList, ShownAlive, InGame, Most
<1>5. ShowShape'
  BY <1>0, <1>1, <1>3, <1>4 DEF ShowShape
<1>6. Always'
  BY <1>0, <1>1, <1>2, <1>3, <1>4 DEF Always
<1>7. Bounded'
  BY <1>0, <1>1, <1>4 DEF Bounded
<1>8. ASSUME attentive' PROVE Attended'
  <2>1. ~InGame /\ OnList \intersect stage.kicked \subseteq stage.alive
    BY <1>1, <1>8
  <2>2. OnList \subseteq stage.alive
    BY <1>0, <2>1 DEF Always, ShowShape
  <2> QED
    BY <1>1, <1>3, <1>4, <2>1, <2>2 DEF Attended, InGame
<1> QED
  BY <1>5, <1>6, <1>7, <1>8 DEF ShowInv

(* Somebody is left out of a map.                                           *)
LEMMA WithoutFacts ==
  ASSUME NEW f, NEW p
  PROVE  /\ DOMAIN Without(f, p) = DOMAIN f \ {p} /\ \A q \in DOMAIN f \ {p} : Without(f, p)[q] = f[q]
         /\ f \in Points => Without(f, p) \in Points
         /\ f \in Lists => Without(f, p) \in Lists
<1>1. DOMAIN Without(f, p) = DOMAIN f \ {p} /\ \A q \in DOMAIN f \ {p} : Without(f, p)[q] = f[q]
  BY DEF Without
<1>2. ASSUME f \in Points PROVE Without(f, p) \in Points
  <2>1. PICK S \in SUBSET Audience : f \in [S -> Nat]
    BY <1>2 DEF Points
  <2>2. Without(f, p) \in [S \ {p} -> Nat]
    BY <2>1 DEF Without
  <2> QED
    BY <2>2, MapFacts
<1>3. ASSUME f \in Lists PROVE Without(f, p) \in Lists
  <2>1. PICK S \in SUBSET Audience : f \in [S -> Entries]
    BY <1>3 DEF Lists
  <2>2. Without(f, p) \in [S \ {p} -> Entries]
    BY <2>1 DEF Without
  <2> QED
    BY <2>2, MapFacts
<1> QED
  BY <1>1, <1>2, <1>3

(* And put into one.                                                        *)
LEMMA WithFacts ==
  ASSUME NEW p \in Audience, NEW f, NEW x, NEW g, g = With(f, p, x)
  PROVE  /\ \A q : q \in DOMAIN g <=> q \in DOMAIN f \/ q = p
         /\ g[p] = x /\ \A q \in DOMAIN f : q # p => g[q] = f[q]
         /\ f \in Points /\ x \in Nat => g \in Points
         /\ f \in Lists /\ x \in Entries => g \in Lists
<1>1. /\ \A q : q \in DOMAIN g <=> q \in DOMAIN f \/ q = p
      /\ g[p] = x /\ \A q \in DOMAIN f : q # p => g[q] = f[q]
  BY DEF With
<1>2. ASSUME f \in Points, x \in Nat PROVE g \in Points
  <2>1. PICK S \in SUBSET Audience : f \in [S -> Nat]
    BY <1>2 DEF Points
  <2>2. g \in [S \union {p} -> Nat]
    BY <1>2, <2>1 DEF With
  <2> QED
    BY <2>2, MapFacts
<1>3. ASSUME f \in Lists, x \in Entries PROVE g \in Lists
  <2>1. PICK S \in SUBSET Audience : f \in [S -> Entries]
    BY <1>3 DEF Lists
  <2>2. g \in [S \union {p} -> Entries]
    BY <1>3, <2>1 DEF With
  <2> QED
    BY <2>2, MapFacts
<1> QED
  BY <1>1, <1>2, <1>3

(* A player is kicked.                                                      *)
LEMMA KickStep ==
  ASSUME ShowInv, NEW p \in Audience, Kick(p)
  PROVE  ShowInv'
<1>0. ShowShape /\ Always /\ Bounded /\ (attentive => Attended)
  BY DEF ShowInv
<1> USE ShowParts
<1> DEFINE list == Without(screen.list, p)
<1>1. /\ p \in Present \ {Me} /\ turns' \in 0..MaxTurns
      /\ stage' = [stage EXCEPT !.alive = stage.alive \ {p}, !.kicked = stage.kicked \union {p}]
      /\ screen' = [screen EXCEPT !.list = list]
      /\ event' = event /\ num' = num /\ attentive' = attentive
  BY <1>0 DEF Kick, Turn, ShowShape, Stages, Screens
<1>2. list \in Lists /\ DOMAIN list = OnList \ {p} /\ \A q \in OnList \ {p} : list[q] = screen.list[q]
  BY <1>0, WithoutFacts DEF OnList
<1> HIDE DEF list
<1>3. /\ stage' \in Stages /\ stage'.mode = stage.mode /\ stage'.points = stage.points /\ stage'.alive = stage.alive \ {p}
      /\ stage'.winners = stage.winners /\ stage'.survivors = stage.survivors /\ stage'.played = stage.played
      /\ stage'.kicked = stage.kicked \union {p}
  BY <1>0, <1>1 DEF ShowShape, Stages
<1>4. /\ screen' \in Screens /\ screen'.gameState = screen.gameState /\ screen'.quizState = screen.quizState
      /\ screen'.quiz = screen.quiz /\ screen'.begun = screen.begun /\ screen'.list = list
      /\ screen'.fading = screen.fading /\ screen'.verdict = screen.verdict /\ screen'.results = screen.results
  BY <1>0, <1>1, <1>2 DEF ShowShape, Screens
<1>5. /\ Present' = Present /\ OnList' = OnList \ {p} /\ ShownAlive' = ShownAlive \ {p} /\ ToSurvive' = ToSurvive \ {p}
      /\ (InGame' <=> InGame) /\ Most' = Most
  BY <1>1, <1>2, <1>3, <1>4 DEF Present, OnList, ShownAlive, ToSurvive, InGame, Most
<1>6. ShowShape'
  BY <1>0, <1>1, <1>3, <1>4, <1>5 DEF ShowShape
<1>7. Always'
  BY <1>0, <1>1, <1>2, <1>3, <1>4, <1>5 DEF Always
<1>8. Bounded'
  BY <1>0, <1>1, <1>3, <1>5 DEF Bounded
<1>9. ASSUME attentive' PROVE Attended'
  <2>1. Attended
    BY <1>0, <1>1, <1>9
  <2>2. AliveShown(ShownAlive) => AliveShown(ShownAlive)'
    BY <1>3, <1>5 DEF AliveShown
  <2>3. AliveShown(ToSurvive) => AliveShown(ToSurvive)'
    BY <1>3, <1>5 DEF AliveShown
  <2>4. stage'.mode = "SURVIVAL" /\ InGame' => IF screen'.fading THEN AliveShown(ToSurvive)' ELSE AliveShown(ShownAlive)'
    BY <1>0, <1>3, <1>4, <1>5, <2>1, <2>2, <2>3 DEF Attended
  <2>5. (Me \in ToSurvive' <=> Me \in ToSurvive)
    BY <1>1, <1>5
  <2>6. screen'.results => \A q \in (stage'.played \intersect OnList') \ stage'.kicked : q \in ShownAlive' <=> q \in stage'.survivors
    BY <1>3, <1>4, <1>5, <2>1 DEF Attended
  <2>7. InGame' \/ screen'.results => \A q \in OnList' : screen'.list[q].score = stage'.points[q]
    BY <1>2, <1>3, <1>4, <1>5, <2>1 DEF Attended
  <2>8. ~InGame' /\ ~screen'.results => OnList' \subseteq stage'.alive
    BY <1>3, <1>4, <1>5, <2>1 DEF Attended
  <2>9. /\ InGame' => screen'.gameState = "PROGRESS" /\ ~screen'.results
        /\ event' \in {"question", "result"} => screen'.quiz = num'
        /\ event' = "result" => screen'.quizState = "end" /\ screen'.begun
        /\ screen'.verdict => (Me \in ToSurvive' <=> Me \in stage'.winners)
    BY <1>1, <1>3, <1>4, <1>5, <2>1, <2>5 DEF Attended
  <2> QED
    BY <2>4, <2>6, <2>7, <2>8, <2>9 DEF Attended, AliveShown
<1> QED
  BY <1>6, <1>7, <1>8, <1>9 DEF ShowInv

(* A player enters.                                                         *)
LEMMA EntersStep ==
  ASSUME ShowInv, NEW p \in Audience, Enters(p)
  PROVE  ShowInv'
<1>0. ShowShape /\ Always /\ Bounded /\ (attentive => Attended)
  BY DEF ShowInv
<1> USE ShowParts
<1> DEFINE list == With(screen.list, p, Fresh)
           points == With(stage.points, p, 0)
<1>1. /\ ~InGame /\ p \notin Present /\ turns' \in 0..MaxTurns
      /\ stage' = [stage EXCEPT !.points = points, !.alive = stage.alive \union {p}, !.kicked = stage.kicked \ {p},
                                !.played = stage.played \ {p}]
      /\ screen' = [screen EXCEPT !.list = list]
      /\ event' = event /\ num' = num /\ attentive' = attentive
  BY <1>0 DEF Enters, Turn, ShowShape, Stages, Screens
<1>2. /\ list \in Lists /\ DOMAIN list = OnList \union {p} /\ list[p] = Fresh /\ Fresh.alive /\ Fresh.score = 0
      /\ \A q \in OnList \ {p} : list[q] = screen.list[q]
  <2>1. Fresh \in Entries /\ Fresh.alive /\ Fresh.score = 0 /\ screen.list \in Lists
    BY <1>0, MapFacts
  <2>2. list \in Lists /\ (\A q : q \in DOMAIN list <=> q \in OnList \/ q = p)
        /\ list[p] = Fresh /\ \A q \in OnList : q # p => list[q] = screen.list[q]
    BY <2>1, WithFacts DEF OnList
  <2> QED
    BY <2>1, <2>2
<1>a. points \in Points /\ DOMAIN points = Present \union {p} /\ points[p] = 0
      /\ \A q \in Present \ {p} : points[q] = stage.points[q]
  <2>1. points \in Points /\ (\A q : q \in DOMAIN points <=> q \in Present \/ q = p)
        /\ points[p] = 0 /\ \A q \in Present : q # p => points[q] = stage.points[q]
    BY <1>0, WithFacts DEF Present
  <2> QED
    BY <2>1
<1> HIDE DEF list, points
<1>3. /\ stage' \in Stages /\ stage'.mode = stage.mode /\ stage'.points = points /\ stage'.alive = stage.alive \union {p}
      /\ stage'.winners = stage.winners /\ stage'.survivors = stage.survivors /\ stage'.played = stage.played \ {p}
      /\ stage'.kicked = stage.kicked \ {p}
  BY <1>0, <1>1, <1>a DEF ShowShape, Stages
<1>4. /\ screen' \in Screens /\ screen'.gameState = screen.gameState /\ screen'.quizState = screen.quizState
      /\ screen'.quiz = screen.quiz /\ screen'.begun = screen.begun /\ screen'.list = list
      /\ screen'.fading = screen.fading /\ screen'.verdict = screen.verdict /\ screen'.results = screen.results
  BY <1>0, <1>1, <1>2 DEF ShowShape, Screens
<1>5. /\ Present' = Present \union {p} /\ OnList' = OnList \union {p} /\ ShownAlive' = ShownAlive \union {p}
      /\ ~InGame' /\ Most' = Most /\ p \notin OnList
  <2>1. p \notin OnList
    BY <1>0, <1>1 DEF ShowShape
  <2> QED
    BY <1>1, <1>2, <1>a, <1>3, <1>4, <2>1 DEF Present, OnList, ShownAlive, InGame, Most
<1>6. ShowShape'
  BY <1>0, <1>1, <1>3, <1>4, <1>5 DEF ShowShape
<1>7. Always'
  BY <1>0, <1>1, <1>2, <1>3, <1>4, <1>5 DEF Always
<1>8. Bounded'
  <2>1. Most = Pot * Questions /\ Pot * Questions \in Nat
    BY <1>0, <1>1 DEF Most, InGame
  <2> QED
    BY <1>0, <1>1, <1>a, <1>3, <1>5, <2>1 DEF Bounded
<1>9. ASSUME attentive' PROVE Attended'
  <2>1. Attended /\ ~screen.verdict /\ event = "lobby"
    BY <1>0, <1>1, <1>9 DEF Always, InGame
  <2>2. screen'.results => \A q \in OnList' : screen'.list[q].score = stage'.points[q]
    <3> SUFFICES ASSUME screen.results, NEW q \in OnList' PROVE screen'.list[q].score = stage'.points[q]
      BY <1>4
    <3>1. CASE q = p
      BY <1>2, <1>a, <1>3, <1>4, <3>1
    <3>2. CASE q # p
      <4>1. q \in OnList \ {p} /\ q \in Present \ {p}
        BY <1>0, <1>5, <3>2 DEF ShowShape
      <4> QED
        BY <1>2, <1>a, <1>3, <1>4, <2>1, <4>1 DEF Attended
    <3> QED
      BY <3>1, <3>2
  <2>3. screen'.results => \A q \in (stage'.played \intersect OnList') \ stage'.kicked : q \in ShownAlive' <=> q \in stage'.survivors
    BY <1>3, <1>4, <1>5, <2>1 DEF Attended
  <2>4. ~screen'.results => OnList' \subseteq stage'.alive
    BY <1>1, <1>3, <1>4, <1>5, <2>1 DEF Attended
  <2>5. ~screen'.verdict /\ event' = "lobby"
    BY <1>1, <1>4, <2>1
  <2> QED
    BY <1>5, <2>2, <2>3, <2>4, <2>5 DEF Attended
<1> QED
  BY <1>6, <1>7, <1>8, <1>9 DEF ShowInv

(* A player leaves.                                                         *)
LEMMA ExitsStep ==
  ASSUME ShowInv, NEW p \in Audience, Exits(p)
  PROVE  ShowInv'
<1>0. ShowShape /\ Always /\ Bounded /\ (attentive => Attended)
  BY DEF ShowInv
<1> USE ShowParts
<1> DEFINE list == Without(screen.list, p)
           points == Without(stage.points, p)
<1>1. /\ ~InGame /\ p # Me /\ turns' \in 0..MaxTurns
      /\ stage' = [stage EXCEPT !.points = points, !.played = stage.played \ {p}]
      /\ screen' = [screen EXCEPT !.list = list]
      /\ event' = event /\ num' = num /\ attentive' = attentive
  BY <1>0 DEF Exits, Turn, ShowShape, Stages, Screens
<1>2. list \in Lists /\ DOMAIN list = OnList \ {p} /\ \A q \in OnList \ {p} : list[q] = screen.list[q]
  BY <1>0, WithoutFacts DEF OnList
<1>a. points \in Points /\ DOMAIN points = Present \ {p} /\ \A q \in Present \ {p} : points[q] = stage.points[q]
  BY <1>0, WithoutFacts DEF Present
<1> HIDE DEF list, points
<1>3. /\ stage' \in Stages /\ stage'.mode = stage.mode /\ stage'.points = points /\ stage'.alive = stage.alive
      /\ stage'.winners = stage.winners /\ stage'.survivors = stage.survivors /\ stage'.played = stage.played \ {p}
      /\ stage'.kicked = stage.kicked
  BY <1>0, <1>1, <1>a DEF ShowShape, Stages
<1>4. /\ screen' \in Screens /\ screen'.gameState = screen.gameState /\ screen'.quizState = screen.quizState
      /\ screen'.quiz = screen.quiz /\ screen'.begun = screen.begun /\ screen'.list = list
      /\ screen'.fading = screen.fading /\ screen'.verdict = screen.verdict /\ screen'.results = screen.results
  BY <1>0, <1>1, <1>2 DEF ShowShape, Screens
<1>5. /\ Present' = Present \ {p} /\ OnList' = OnList \ {p} /\ ShownAlive' = ShownAlive \ {p}
      /\ ~InGame' /\ Most' = Most
  BY <1>1, <1>2, <1>a, <1>3, <1>4 DEF Present, OnList, ShownAlive, InGame, Most
<1>6. ShowShape'
  BY <1>0, <1>1, <1>3, <1>4, <1>5 DEF ShowShape
<1>7. Always'
  BY <1>0, <1>1, <1>2, <1>3, <1>4, <1>5 DEF Always
<1>8. Bounded'
  BY <1>0, <1>1, <1>a, <1>3, <1>5 DEF Bounded
<1>9. ASSUME attentive' PROVE Attended'
  <2>1. Attended /\ ~screen.verdict /\ event = "lobby"
    BY <1>0, <1>1, <1>9 DEF Always, InGame
  <2>2. screen'.results => \A q \in OnList' : screen'.list[q].score = stage'.points[q]
    <3>1. OnList' \subseteq Present \ {p}
      BY <1>0, <1>5 DEF ShowShape
    <3> QED
      BY <1>2, <1>a, <1>3, <1>4, <1>5, <2>1, <3>1 DEF Attended
  <2>3. screen'.results => \A q \in (stage'.played \intersect OnList') \ stage'.kicked : q \in ShownAlive' <=> q \in stage'.survivors
    BY <1>3, <1>4, <1>5, <2>1 DEF Attended
  <2>4. ~screen'.results => OnList' \subseteq stage'.alive
    BY <1>1, <1>3, <1>4, <1>5, <2>1 DEF Attended
  <2>5. ~screen'.verdict /\ event' = "lobby"
    BY <1>1, <1>4, <2>1
  <2> QED
    BY <1>5, <2>2, <2>3, <2>4, <2>5 DEF Attended
<1> QED
  BY <1>6, <1>7, <1>8, <1>9 DEF ShowInv

(* The connection was lost and is there again.                              *)
LEMMA ReconnectsStep ==
  ASSUME ShowInv, Reconnects
  PROVE  ShowInv'
<1>0. ShowShape /\ Always /\ Bounded
  BY DEF ShowInv
<1> USE ShowParts
<1> DEFINE list == [p \in Present |-> Fresh]
           points == [stage.points EXCEPT ![Me] = 0]
<1>1. /\ turns' \in 0..MaxTurns
      /\ stage' = IF InGame THEN stage
                  ELSE [stage EXCEPT !.points = points, !.alive = stage.alive \union {Me}, !.played = stage.played \ {Me}]
      /\ screen' = [screen EXCEPT !.gameState = IF InGame THEN "PROGRESS" ELSE "WAIT", !.quizState = "progress",
                                  !.quiz = NoQuiz, !.begun = FALSE, !.verdict = FALSE, !.list = list]
      /\ attentive' = FALSE /\ event' = event /\ num' = num
  BY <1>0 DEF Reconnects, Turn, ShowShape, Stages
<1>2. list \in Lists /\ DOMAIN list = Present /\ \A p \in Present : list[p].alive /\ list[p].score = 0
  <2>1. list \in [Present -> Entries]
    BY MapFacts
  <2> QED
    BY <1>0, <2>1, MapFacts
<1>a. points \in Points /\ DOMAIN points = Present /\ \A p \in Present : points[p] = IF p = Me THEN 0 ELSE stage.points[p]
  <2>1. PICK S \in SUBSET Audience : stage.points \in [S -> Nat]
    BY <1>0 DEF Points
  <2>2. points \in [S -> Nat] /\ S = Present
    BY <2>1 DEF Present
  <2> QED
    BY <1>0, <2>1, <2>2, MapFacts
<1> HIDE DEF list, points
<1>3. /\ stage' \in Stages /\ stage'.mode = stage.mode /\ DOMAIN stage'.points = Present
      /\ \A p \in Present : stage'.points[p] \in {0, stage.points[p]}
      /\ stage.alive \subseteq stage'.alive /\ stage'.kicked = stage.kicked
  <2>1. CASE InGame
    BY <1>0, <1>1, <2>1 DEF ShowShape, Present
  <2>2. CASE ~InGame
    BY <1>0, <1>1, <1>a, <2>2 DEF ShowShape, Stages
  <2> QED
    BY <2>1, <2>2
<1>4. /\ screen' \in Screens /\ screen'.quizState = "progress"
      /\ screen'.quiz = NoQuiz /\ screen'.list = list
      /\ screen'.fading = screen.fading /\ screen'.verdict = FALSE /\ screen'.results = screen.results
  <2>1. NoQuiz \in Int
    BY DEF NoQuiz
  <2> QED
    BY <1>0, <1>1, <1>2, <2>1 DEF ShowShape, Screens
<1>5. /\ Present' = Present /\ OnList' = Present /\ ShownAlive' = Present /\ (InGame' <=> InGame) /\ Most' = Most
  BY <1>1, <1>2, <1>3, <1>4 DEF Present, OnList, ShownAlive, InGame, Most
<1>6. ShowShape'
  BY <1>0, <1>1, <1>3, <1>4, <1>5 DEF ShowShape
<1>7. Always'
  BY <1>0, <1>1, <1>2, <1>3, <1>4, <1>5 DEF Always
<1>8. Bounded'
  <2>1. Most \in Nat
    <3>1. event \in {"question", "result"} => Pot * num \in Nat
      BY <1>0 DEF ShowShape
    <3>2. Pot * Questions \in Nat
      BY <1>0
    <3> QED
      BY <1>0, <3>1, <3>2 DEF Most, ShowShape
  <2> QED
    BY <1>0, <1>3, <1>5, <2>1 DEF Bounded
<1> QED
  BY <1>1, <1>6, <1>7, <1>8 DEF ShowInv

(* The screen of a room that was just entered.                              *)
LEMMA ShowInitial ==
  ASSUME ScreenInit
  PROVE  ShowInv
<1> DEFINE zero == [p \in Audience |-> 0]
           list == [p \in Audience |-> Fresh]
<1>1. PICK mode \in {"RANKING", "SURVIVAL"} :
        stage = [mode |-> mode, points |-> zero, alive |-> Audience, correct |-> {},
                 winners |-> {}, survivors |-> {}, played |-> {}, kicked |-> {}]
  BY DEF ScreenInit
<1>2. /\ event = "lobby" /\ num = 0 /\ attentive = TRUE /\ turns = 0
      /\ screen = [gameState |-> "WAIT", quizState |-> "progress", quiz |-> NoQuiz, begun |-> FALSE,
                   list |-> list, fading |-> FALSE, verdict |-> FALSE, results |-> FALSE]
  BY DEF ScreenInit, Show!ShowInit
<1>3. zero \in Points /\ list \in Lists /\ \A p \in Audience : list[p].alive /\ list[p].score = 0
  <2>1. zero \in [Audience -> Nat] /\ list \in [Audience -> Entries]
    BY MapFacts
  <2> QED
    BY <2>1, MapFacts
<1>4. DOMAIN zero = Audience /\ DOMAIN list = Audience /\ \A p \in Audience : zero[p] = 0
  OBVIOUS
<1> HIDE DEF zero, list
<1>5. stage \in Stages /\ screen \in Screens
  BY <1>1, <1>2, <1>3 DEF Stages, Screens, NoQuiz
<1>6. Present = Audience /\ OnList = Audience /\ ShownAlive = Audience /\ ~InGame /\ Me \in Audience
      /\ MaxTurns \in Nat /\ Pot \in Nat /\ Questions \in Nat
  BY <1>1, <1>2, <1>3, <1>4, ScreenBounds DEF Present, OnList, ShownAlive, InGame
<1>7. ShowShape
  BY <1>1, <1>2, <1>5, <1>6 DEF ShowShape
<1>8. Always
  BY <1>1, <1>2, <1>3, <1>6 DEF Always
<1>9. Bounded
  <2>1. Most = Pot * Questions /\ Pot * Questions \in Nat
    BY <1>2, <1>6 DEF Most
  <2> QED
    BY <1>1, <1>4, <1>6, <2>1 DEF Bounded
<1>10. Attended
  BY <1>1, <1>2, <1>6 DEF Attended
<1> QED
  BY <1>7, <1>8, <1>9, <1>10 DEF ShowInv

(* Every step of the site; only the topic of the show disturbs it.          *)
LEMMA ShowStep ==
  ASSUME ShowInv, [Next]_vars
  PROVE  ShowInv'
<1>1. CASE ShowSteps
  BY <1>1, StartGameStep, StartQuizTimeStep, BeginsStep, EndQuizTimeStep, FadeStep, VerdictEndsStep, EndGameStep,
     CloseResultsStep, ReconnectsStep, KickStep, EntersStep, ExitsStep DEF ShowSteps
<1>2. CASE UNCHANGED show
  BY <1>2 DEF show, ShowInv, ShowShape, Always, Bounded, Attended, AliveShown, ToSurvive, Most, ShownAlive, Present, OnList, InGame
<1> QED
  BY <1>1, <1>2 DEF Next, vars, others

-----------------------------------------------------------------------------
(* Ranks                                                                    *)

(* A set of naturals has a least element.  (The finite sets 0..m are well   *)
(* founded by inclusion.)                                                   *)
LEMMA LeastNat ==
  ASSUME NEW T \in SUBSET Nat, T # {}
  PROVE  \E m \in T : \A k \in T : m <= k
<1> DEFINE Below == {0..m : m \in T}
<1>1. Below \subseteq FiniteSubsetsOf(Nat)
  <2> SUFFICES ASSUME NEW m \in T PROVE 0..m \in FiniteSubsetsOf(Nat)
    OBVIOUS
  <2>1. m \in Int /\ 0..m \in SUBSET Nat
    OBVIOUS
  <2> QED
    BY <2>1, FS_Interval DEF FiniteSubsetsOf
<1>2. PICK I \in Below : \A J \in Below : <<J, I>> \notin StrictSubsetOrdering(Nat)
  <2>1. Below # {}
    OBVIOUS
  <2> HIDE DEF Below
  <2> QED
    BY <1>1, <2>1, FS_StrictSubsetOrderingWellFounded, WFMin
<1>3. PICK m \in T : I = 0..m
  BY <1>2
<1>4. ASSUME NEW k \in T, k < m PROVE FALSE
  <2>1. 0..k \subseteq 0..m /\ 0..k # 0..m /\ 0..k \in SUBSET Nat /\ 0..m \in SUBSET Nat
    BY <1>4
  <2>2. <<0..k, 0..m>> \in StrictSubsetOrdering(Nat)
    BY <2>1 DEF StrictSubsetOrdering
  <2> QED
    BY <1>2, <1>3, <2>2
<1> QED
  BY <1>4

(* Players can be put in the order of their scores.                         *)
LEMMA Sortable ==
  ASSUME NEW S, IsFiniteSet(S), NEW f, \A x \in S : f[x] \in Int
  PROVE  \E s \in SetToSeqs(S) : \A i, j \in DOMAIN s : i < j => f[s[i]] >= f[s[j]]
<1> DEFINE n == Cardinality(S)
<1>1. n \in Nat /\ ExistsBijection(1..n, S)
  BY FS_CardinalityType
<1>2. PICK b \in Bijection(1..n, S) : TRUE
  BY <1>1 DEF ExistsBijection
<1>3. b \in [1..n -> S] /\ \A x \in S : \E i \in 1..n : b[i] = x
  BY <1>2 DEF Bijection, Surjection
<1> DEFINE id == [x \in S |-> CHOOSE i \in 1..n : b[i] = x]
<1>4. \A x \in S : id[x] \in 1..n /\ b[id[x]] = x
  BY <1>3
<1> HIDE DEF id
<1>5. \A x \in S : id[x] \in Int
  BY <1>1, <1>4
<1>6. \A x, y \in S : id[x] = id[y] => x = y
  BY <1>4
<1> DEFINE R == {p \in S \X S : f[p[1]] > f[p[2]] \/ (f[p[1]] = f[p[2]] /\ id[p[1]] < id[p[2]])}
<1>7. \A x, y \in S : <<x, y>> \in R <=> f[x] > f[y] \/ (f[x] = f[y] /\ id[x] < id[y])
  OBVIOUS
<1> HIDE DEF R
<1>8. TotalOrder(S, R)
  <2>1. \A x \in S : <<x, x>> \notin R
    BY <1>5, <1>7
  <2>2. \A x, y \in S : x # y => <<x, y>> \in R \/ <<y, x>> \in R
    BY <1>5, <1>6, <1>7
  <2>3. \A x, y, z \in S : <<x, y>> \in R /\ <<y, z>> \in R => <<x, z>> \in R
    BY <1>5, <1>7
  <2> QED
    BY <2>1, <2>2, <2>3 DEF TotalOrder
<1>9. InPlaces(S, R)
  BY <1>8, Places
<1> DEFINE s == [i \in 1..n |-> CHOOSE x \in S : Place(S, R, x) = i - 1]
<1>10. \A i \in 1..n : s[i] \in S /\ Place(S, R, s[i]) = i - 1
  <2> SUFFICES ASSUME NEW i \in 1..n PROVE s[i] \in S /\ Place(S, R, s[i]) = i - 1
    OBVIOUS
  <2>1. i - 1 \in 0..(n - 1)
    BY <1>1
  <2>2. \E x \in S : Place(S, R, x) = i - 1
    BY <1>9, <2>1 DEF InPlaces
  <2> QED
    BY <2>2
<1>11. s \in [1..n -> S] /\ DOMAIN s = 1..n
  BY <1>10
<1> HIDE DEF s
<1>12. \A i, j \in 1..n : i # j => s[i] # s[j]
  BY <1>1, <1>10
<1>13. \A i, j \in 1..n : i < j => f[s[i]] >= f[s[j]]
  <2> SUFFICES ASSUME NEW i \in 1..n, NEW j \in 1..n, i < j PROVE f[s[i]] >= f[s[j]]
    OBVIOUS
  <2>1. Place(S, R, s[i]) < Place(S, R, s[j]) /\ s[i] \in S /\ s[j] \in S
    BY <1>1, <1>10
  <2>2. <<s[i], s[j]>> \in R
    BY <1>9, <2>1 DEF InPlaces
  <2> QED
    BY <1>7, <2>1, <2>2
<1>14. s \in SetToSeqs(S)
  BY <1>11, <1>12 DEF SetToSeqs
<1> QED
  BY <1>11, <1>13, <1>14

(* The list as it is ranked: everybody once, by falling scores.             *)
LEMMA SortedFacts ==
  ASSUME ShowShape
  PROVE  LET n == Cardinality(OnList) IN
         /\ n \in Nat /\ IsFiniteSet(OnList) /\ Sorted \in [1..n -> OnList] /\ DOMAIN Sorted = 1..n
         /\ \A i, j \in 1..n : i # j => Sorted[i] # Sorted[j]
         /\ \A i, j \in 1..n : i < j => screen.list[Sorted[i]].score >= screen.list[Sorted[j]].score
         /\ \A p \in OnList : screen.list[p].score \in Nat
         /\ \A p \in OnList : \E i \in 1..n : Sorted[i] = p
<1> DEFINE n == Cardinality(OnList)
           f == [p \in OnList |-> screen.list[p].score]
<1>1. OnList \subseteq Audience /\ IsFiniteSet(Audience) /\ \A p \in OnList : screen.list[p] \in Entries
  BY ShowParts, ScreenBounds
<1>2. IsFiniteSet(OnList) /\ n \in Nat
  BY <1>1, FS_Subset, FS_CardinalityType
<1>3. \A p \in OnList : screen.list[p].score \in Nat
  BY <1>1 DEF Entries
<1>4. PICK s \in SetToSeqs(OnList) : \A i, j \in DOMAIN s : i < j => f[s[i]] >= f[s[j]]
  <2>1. \A p \in OnList : f[p] \in Int
    BY <1>3
  <2> HIDE DEF f
  <2>2. \E s \in SetToSeqs(OnList) : \A i, j \in DOMAIN s : i < j => f[s[i]] >= f[s[j]]
    BY <1>2, <2>1, Sortable
  <2> QED
    BY <2>2
<1>5. s \in [1..n -> OnList]
  BY DEF SetToSeqs
<1>6. \A i, j \in DOMAIN s : i < j => screen.list[s[i]].score >= screen.list[s[j]].score
  BY <1>4, <1>5
<1>7. /\ Sorted \in SetToSeqs(OnList)
      /\ \A i, j \in DOMAIN Sorted : i < j => screen.list[Sorted[i]].score >= screen.list[Sorted[j]].score
  BY <1>6 DEF Sorted
<1>8. Sorted \in [1..n -> OnList] /\ \A i, j \in 1..n : i # j => Sorted[i] # Sorted[j]
  BY <1>7 DEF SetToSeqs
<1>9. \A p \in OnList : \E i \in 1..n : Sorted[i] = p
  <2> DEFINE D == 1..n
  <2>1. Sorted \in Injection(D, OnList)
    BY <1>8 DEF Injection, IsInjective
  <2>2. IsFiniteSet(D) /\ Cardinality(D) = n
    BY <1>2, FS_Interval
  <2>3. Sorted \in Surjection(D, OnList)
    <3> HIDE DEF D
    <3> QED
      BY <1>2, <2>1, <2>2, FS_Injection
  <2> QED
    BY <2>3 DEF Surjection
<1> QED
  BY <1>2, <1>3, <1>7, <1>8, <1>9

(* The rank of a player is one more than the number of those who have more. *)
Ahead(i) == {p \in OnList : screen.list[p].score > screen.list[Sorted[i]].score}

(* Before the first player of a score on the sorted list are those with     *)
(* more points, and no other.                                               *)
LEMMA FirstOfScore ==
  ASSUME ShowShape, NEW i \in 1..Cardinality(OnList),
         i > 1 => screen.list[Sorted[i]].score # screen.list[Sorted[i - 1]].score
  PROVE  Cardinality(Ahead(i)) = i - 1
<1> DEFINE n == Cardinality(OnList)
           D == 1..(i - 1)
           Score(j) == screen.list[Sorted[j]].score
<1>1. /\ n \in Nat /\ Sorted \in [1..n -> OnList]
      /\ \A j, k \in 1..n : j # k => Sorted[j] # Sorted[k]
      /\ \A j, k \in 1..n : j < k => Score(j) >= Score(k)
      /\ \A p \in OnList : screen.list[p].score \in Nat
      /\ \A p \in OnList : \E j \in 1..n : Sorted[j] = p
  BY SortedFacts
<1>2. \A j \in 1..n : Score(j) \in Nat
  BY <1>1
<1> HIDE DEF n
<1>3. i \in 1..n /\ (i > 1 => Score(i) # Score(i - 1))
  BY DEF n
<1> HIDE DEF Score
<1>4. \A j \in 1..n : Score(j) > Score(i) <=> j < i
  <2> SUFFICES ASSUME NEW j \in 1..n PROVE Score(j) > Score(i) <=> j < i
    OBVIOUS
  <2>1. ASSUME j >= i PROVE Score(j) <= Score(i)
    BY <1>1, <1>2, <1>3, <2>1
  <2>2. ASSUME j < i PROVE Score(j) > Score(i)
    <3>1. i > 1 /\ i - 1 \in 1..n /\ i - 1 < i /\ j <= i - 1
      BY <1>1, <1>3, <2>2
    <3>2. Score(i - 1) > Score(i)
      BY <1>1, <1>2, <1>3, <3>1
    <3>3. Score(j) >= Score(i - 1)
      BY <1>1, <1>2, <3>1
    <3> QED
      BY <1>2, <1>3, <3>1, <3>2, <3>3
  <2> QED
    BY <1>1, <1>2, <1>3, <2>1, <2>2
<1> DEFINE g == [j \in D |-> Sorted[j]]
<1>5. D \subseteq 1..n /\ (\A j \in 1..n : j < i <=> j \in D)
  BY <1>1, <1>3
<1>6. \A j \in 1..n : Sorted[j] \in Ahead(i) <=> j \in D
  BY <1>1, <1>4, <1>5 DEF Ahead, Score
<1> HIDE DEF D
<1>7. g \in [D -> Ahead(i)] /\ \A j \in D : g[j] = Sorted[j]
  BY <1>5, <1>6
<1> HIDE DEF g
<1>8. g \in Injection(D, Ahead(i))
  BY <1>1, <1>5, <1>7 DEF Injection, IsInjective
<1>9. g \in Surjection(D, Ahead(i))
  <2> SUFFICES ASSUME NEW p \in Ahead(i) PROVE \E j \in D : g[j] = p
    BY <1>7 DEF Surjection
  <2>1. PICK j \in 1..n : Sorted[j] = p
    BY <1>1 DEF Ahead
  <2> QED
    BY <1>6, <1>7, <2>1
<1>10. IsFiniteSet(D) /\ Cardinality(D) = i - 1
  <2>1. i - 1 \in Int /\ i >= 1 /\ 1 \in Int
    BY <1>1, <1>3
  <2> DEFINE m == i - 1
  <2> HIDE DEF m
  <2>2. IsFiniteSet(1..m) /\ Cardinality(1..m) = IF 1 > m THEN 0 ELSE m - 1 + 1
    BY <2>1, FS_Interval DEF m
  <2>3. (IF 1 > m THEN 0 ELSE m - 1 + 1) = m
    BY <2>1 DEF m
  <2> QED
    BY <2>2, <2>3 DEF D, m
<1>11. ExistsBijection(D, Ahead(i))
  BY <1>8, <1>9 DEF ExistsBijection, Bijection
<1> QED
  BY <1>10, <1>11, FS_Bijection

(* The rank that is computed is one more than the number of players ahead.  *)
LEMMA RanksCount ==
  ASSUME ShowShape
  PROVE  \A i \in DOMAIN Sorted : CalculateRanks[i] = 1 + Cardinality(Ahead(i))
<1> DEFINE n == Cardinality(OnList)
           D == 1..n
           Score(j) == screen.list[Sorted[j]].score
           w == [i \in D |-> 1 + Cardinality(Ahead(i))]
           Ranked(f) == [i \in D |-> IF i > 1 /\ Score(i) = Score(i - 1) THEN f[i - 1] ELSE i]
<1>1. n \in Nat /\ DOMAIN Sorted = D
  BY SortedFacts
<1>2. CalculateRanks = CHOOSE f : f = Ranked(f)
  BY <1>1 DEF CalculateRanks
<1>3. w = Ranked(w)
  <2> SUFFICES ASSUME NEW i \in D PROVE w[i] = Ranked(w)[i]
    OBVIOUS
  <2>1. CASE i > 1 /\ Score(i) = Score(i - 1)
    <3>1. i - 1 \in D
      BY <1>1, <2>1
    <3>2. Ahead(i) = Ahead(i - 1)
      BY <2>1 DEF Ahead
    <3> QED
      BY <2>1, <3>1, <3>2
  <2>2. CASE ~(i > 1 /\ Score(i) = Score(i - 1))
    <3>1. Cardinality(Ahead(i)) = i - 1
      BY <2>2, FirstOfScore
    <3> QED
      BY <1>1, <2>2, <3>1
  <2> QED
    BY <2>1, <2>2
<1> DEFINE r == CalculateRanks
<1> HIDE DEF w
<1>4. r = Ranked(r)
  <2>1. \E f : f = Ranked(f)
    BY <1>3
  <2> HIDE DEF Ranked
  <2> QED
    BY <1>2, <2>1
<1> HIDE DEF r
<1>5. \A i \in D : r[i] = w[i]
  <2> DEFINE Bad == {i \in D : r[i] # w[i]}
  <2>1. SUFFICES ASSUME Bad # {} PROVE FALSE
    OBVIOUS
  <2>2. Bad \in SUBSET Nat
    BY <1>1
  <2>3. PICK i \in Bad : \A k \in Bad : i <= k
    BY <2>1, <2>2, LeastNat
  <2>4. i \in D /\ r[i] = Ranked(r)[i] /\ w[i] = Ranked(w)[i]
    BY <1>3, <1>4, <2>3
  <2>5. CASE i > 1 /\ Score(i) = Score(i - 1)
    <3>1. i - 1 \in D /\ i - 1 \notin Bad
      BY <1>1, <2>3, <2>4, <2>5
    <3> QED
      BY <2>3, <2>4, <2>5, <3>1
  <2>6. CASE ~(i > 1 /\ Score(i) = Score(i - 1))
    BY <2>3, <2>4, <2>6
  <2> QED
    BY <2>5, <2>6
<1> QED
  BY <1>1, <1>5 DEF r, w

(* The invariant of the screen, of every behaviour of the site.             *)
LEMMA ShowInvariant == Spec => []ShowInv
<1>1. Init => ShowInv
  BY ShowInitial DEF Init
<1>2. ShowInv /\ [Next]_vars => ShowInv'
  BY ShowStep
<1> QED
  BY <1>1, <1>2, PTL DEF Spec

(* What the user attends to is on the screen as it was played.              *)
LEMMA AsPlayed == ASSUME ShowInv PROVE ShownAsPlayed
<1> SUFFICES ASSUME attentive
             PROVE  /\ event \in {"question", "result"} => Header \in {"countdown", "question"} /\ screen.quiz = num
                    /\ Revealed <=> event = "result"
                    /\ Verdict # "none" => (Verdict = "right" <=> Me \in stage.winners)
                    /\ InGame \/ screen.results => \A p \in OnList : screen.list[p].score = stage.points[p]
                    /\ stage.mode = "SURVIVAL" /\ InGame /\ ~screen.fading =>
                         ShownAlive \subseteq stage.alive /\ (stage.alive \intersect Present) \ stage.kicked \subseteq ShownAlive
                    /\ screen.results =>
                         /\ \A p \in (stage.played \intersect OnList) \ stage.kicked : p \in ShownAlive <=> p \in stage.survivors
                         /\ \A i \in DOMAIN Sorted :
                              CalculateRanks[i] = 1 + Cardinality({p \in OnList : screen.list[p].score > screen.list[Sorted[i]].score})
  BY DEF ShownAsPlayed
<1>1. ShowShape /\ Always /\ Attended
  BY DEF ShowInv
<1>2. event \in {"question", "result"} => screen.gameState = "PROGRESS" /\ screen.quiz = num /\ screen.quiz # NoQuiz
  BY <1>1 DEF Attended, InGame, ShowShape, NoQuiz
<1>3. event \in {"question", "result"} => Header \in {"countdown", "question"}
  BY <1>2 DEF Header
<1>4. Revealed <=> event = "result"
  BY <1>1, <1>2 DEF Attended, Always, Revealed, ShowShape
<1>5. Verdict # "none" => (Verdict = "right" <=> Me \in stage.winners)
  <2>1. Me \in OnList /\ screen.list[Me] \in Entries /\ screen.verdict \in BOOLEAN
    BY <1>1, ShowParts
  <2>2. screen.list[Me].alive \in BOOLEAN /\ screen.list[Me].answer \in BOOLEAN
    BY <2>1 DEF Entries
  <2>3. Me \in ToSurvive <=> screen.list[Me].alive /\ screen.list[Me].answer
    BY <2>1 DEF ToSurvive
  <2>4. CASE ~screen.verdict \/ Header # "question"
    BY <2>4 DEF Verdict
  <2>5. CASE ~(~screen.verdict \/ Header # "question")
    <3>1. Verdict = "right" <=> screen.list[Me].alive /\ screen.list[Me].answer
      BY <2>2, <2>5 DEF Verdict
    <3> QED
      BY <1>1, <2>3, <2>5, <3>1 DEF Attended
  <2> QED
    BY <2>4, <2>5
<1>6. stage.mode = "SURVIVAL" /\ InGame /\ ~screen.fading => AliveShown(ShownAlive)
  BY <1>1 DEF Attended
<1>7. \A i \in DOMAIN Sorted :
        CalculateRanks[i] = 1 + Cardinality({p \in OnList : screen.list[p].score > screen.list[Sorted[i]].score})
  BY <1>1, RanksCount DEF Ahead
<1> QED
  BY <1>1, <1>2, <1>3, <1>4, <1>5, <1>6, <1>7 DEF Attended, AliveShown

(* Whoever closes the results before the next game starts and keeps the     *)
(* connection sees what is played.                                          *)
THEOREM ScreenShowsPlay == Spec => []ShownAsPlayed
BY ShowInvariant, AsPlayed, PTL

-----------------------------------------------------------------------------
(* The list of rooms                                                        *)

PinNames == Pins \union {0}
Pagings == [known : BOOLEAN, more : BOOLEAN, next : PinNames]
Requests == [at : {"keys", "rooms", "reply"}, cursor : PinNames, todo : Seq(Pins), got : Seq(Pins)]

Falling(s) == \A k, l \in DOMAIN s : k < l => s[k] > s[l]

(* The rooms a request has read that wait, and those it will read.          *)
Batch(r) == r.got \o r.todo

RequestShape(r) ==
  /\ r \in Requests /\ Falling(Batch(r))
  /\ r.at = "keys" => r.got = << >>
  /\ r.at = "rooms" <=> r.todo # << >>

ListShape ==
  /\ open \in UNION {[S -> BOOLEAN] : S \in SUBSET Pins}
  /\ lobby \in [rooms : Seq(Pins), paging : Pagings, loading : BOOLEAN] /\ IsInjective(lobby.rooms)
  /\ lobby.paging.more => lobby.paging.next # 0
  /\ still \in [rooms : SUBSET Pins, calm : BOOLEAN]

OnPage(q) == q \in Range(lobby.rooms)

(* Down to the cursor all is on the page.                                   *)
Reached(cursor) ==
  /\ cursor # 0 => cursor \in DOMAIN open
  /\ \A q \in still.rooms : cursor # 0 /\ q >= cursor => OnPage(q)

(* From there on a request finds everything, or a page and one room more.   *)
Finds(r) ==
  /\ Len(Batch(r)) <= Take + 1 /\ \A k \in DOMAIN Batch(r) : Batch(r)[k] \in DOMAIN open
  /\ r.at # "keys" =>
       \A q \in still.rooms : r.cursor = 0 \/ q < r.cursor =>
         \/ q \in Range(Batch(r))
         \/ Len(Batch(r)) = Take + 1 /\ \A k \in DOMAIN Batch(r) : Batch(r)[k] > q

AllWait == still.rooms \subseteq DOMAIN open /\ \A p \in DOMAIN open : open[p]

ListGrows ==
  /\ AllWait /\ \A r \in DOMAIN loads : Reached(r.cursor) /\ Finds(r)
  /\ lobby.paging.more => Reached(lobby.paging.next)
  /\ lobby.paging.known /\ ~lobby.paging.more => \A q \in still.rooms : OnPage(q)

LobbyInv == ListShape /\ (\A r \in DOMAIN loads : RequestShape(r)) /\ (still.calm => ListGrows)

(* The keys are the rooms there are, the highest number first.              *)
LEMMA KeysInOrder ==
  ASSUME ListShape
  PROVE  /\ RoomKeys \in Seq(Pins) /\ Falling(RoomKeys)
         /\ \A k \in DOMAIN RoomKeys : RoomKeys[k] \in DOMAIN open
         /\ \A q \in DOMAIN open : \E k \in DOMAIN RoomKeys : RoomKeys[k] = q
<1> DEFINE S == DOMAIN open
           R == {p \in S \X S : p[1] > p[2]}
           n == Cardinality(S)
           keys == RoomKeys
<1>1. S \in SUBSET Pins /\ IsFiniteSet(S)
  <2>1. S \in SUBSET Pins
    BY DEF ListShape
  <2> QED
    BY <2>1, RoomListBounds, FS_Subset
<1>2. \A x \in S : x \in Nat
  BY <1>1, RoomListBounds
<1>3. \A x, y \in S : <<x, y>> \in R <=> x > y
  OBVIOUS
<1>4. \A x \in S : {y \in S : y > x} = Before(S, R, x)
  BY <1>3 DEF Before
<1>5. DOMAIN keys = 1..n /\ keys = [i \in 1..n |-> keys[i]] /\ \A i \in 1..n : keys[i] = NthLast(S, i)
  BY DEF RoomKeys
<1> HIDE DEF R, keys, S
<1>6. TotalOrder(S, R)
  BY <1>2, <1>3 DEF TotalOrder
<1>7. InPlaces(S, R)
  BY <1>1, <1>6, Places
<1> HIDE DEF n
<1>8. n \in Nat /\ \A x \in S : Place(S, R, x) \in 0..(n - 1)
  BY <1>7 DEF InPlaces, n
<1>9. \A x \in S : Place(S, R, x) = Cardinality({y \in S : y > x})
  BY <1>4 DEF Place
<1>10. ASSUME NEW i \in 1..n PROVE keys[i] \in S /\ Place(S, R, keys[i]) = i - 1
  <2>1. i - 1 \in 0..(n - 1)
    BY <1>8
  <2>2. \E x \in S : Cardinality({y \in S : y > x}) = i - 1
    BY <1>7, <1>9, <2>1 DEF InPlaces, n
  <2>3. keys[i] = CHOOSE x \in S : Cardinality({y \in S : y > x}) = i - 1
    BY <1>5 DEF NthLast
  <2>4. keys[i] \in S /\ Cardinality({y \in S : y > keys[i]}) = i - 1
    BY <2>2, <2>3
  <2> QED
    BY <1>9, <2>4
<1>11. keys \in Seq(Pins)
  <2>1. keys \in [1..n -> Pins]
    BY <1>1, <1>5, <1>10
  <2> QED
    BY <1>8, <2>1, FunctionSeq
<1>12. Falling(keys)
  <2> SUFFICES ASSUME NEW k \in 1..n, NEW l \in 1..n, k < l PROVE keys[k] > keys[l]
    BY <1>5 DEF Falling
  <2>1. Place(S, R, keys[k]) < Place(S, R, keys[l])
    BY <1>8, <1>10
  <2> QED
    BY <1>3, <1>7, <1>10, <2>1 DEF InPlaces
<1>13. ASSUME NEW q \in S PROVE \E k \in 1..n : keys[k] = q
  <2>1. Place(S, R, q) + 1 \in 1..n
    BY <1>8
  <2> DEFINE k == Place(S, R, q) + 1
  <2>2. keys[k] \in S /\ Place(S, R, keys[k]) = k - 1
    BY <1>10, <2>1
  <2>3. Place(S, R, keys[k]) = Place(S, R, q)
    BY <1>8, <2>2
  <2>4. keys[k] = q
    BY <1>7, <2>2, <2>3 DEF InPlaces
  <2> QED
    BY <2>1, <2>4
<1> QED
  BY <1>5, <1>10, <1>11, <1>12, <1>13 DEF keys, S

(* A page with one room more: what the keys have below the cursor.          *)
LEMMA PageOfKeys ==
  ASSUME ListShape, NEW cursor \in PinNames
  PROVE  LET page1 == PageKeys(RoomKeys, cursor) IN
         /\ page1 \in Seq(Pins) /\ Falling(page1) /\ Len(page1) <= Take + 1
         /\ \A k \in DOMAIN page1 : page1[k] \in DOMAIN open
         /\ (cursor # 0 => cursor \in DOMAIN open)
            => \A q \in DOMAIN open : cursor = 0 \/ q < cursor =>
                 \/ q \in Range(page1)
                 \/ Len(page1) = Take + 1 /\ \A k \in DOMAIN page1 : page1[k] > q
<1> DEFINE keys == RoomKeys
           n == StartOf(keys, cursor)
           m == IF n + Take <= Len(keys) THEN n + Take ELSE Len(keys)
           todo == PageKeys(keys, cursor)
<1>1. /\ keys \in Seq(Pins) /\ Falling(keys) /\ Len(keys) \in Nat /\ DOMAIN keys = 1..Len(keys)
      /\ \A k \in DOMAIN keys : keys[k] \in DOMAIN open /\ keys[k] \in Nat
      /\ \A q \in DOMAIN open : \E k \in DOMAIN keys : keys[k] = q
  <2>1. keys \in Seq(Pins) /\ Falling(keys) /\ \A k \in DOMAIN keys : keys[k] \in DOMAIN open
    BY KeysInOrder
  <2>2. \A q \in DOMAIN open : \E k \in DOMAIN keys : keys[k] = q
    BY KeysInOrder
  <2> HIDE DEF keys
  <2>3. \A k \in DOMAIN keys : keys[k] \in Pins
    BY <2>1
  <2>4. Len(keys) \in Nat /\ DOMAIN keys = 1..Len(keys)
    BY <2>1
  <2> QED
    BY <2>1, <2>2, <2>3, <2>4, RoomListBounds
<1>2. Take \in Nat \ {0} /\ Pins \subseteq Nat \ {0}
  BY RoomListBounds
<1>3. \/ cursor = 0 /\ n = 1
      \/ cursor # 0 /\ cursor \notin DOMAIN open /\ n = 0
      \/ cursor # 0 /\ n - 1 \in 1..Len(keys) /\ n \in Nat /\ keys[n - 1] = cursor
  <2>1. CASE cursor = 0
    BY <2>1 DEF StartOf
  <2>2. CASE cursor # 0 /\ cursor \in Range(keys)
    <3>1. n = (CHOOSE i \in DOMAIN keys : keys[i] = cursor) + 1
      BY <2>2 DEF StartOf
    <3>2. \E i \in DOMAIN keys : keys[i] = cursor
      BY <2>2 DEF Range
    <3> DEFINE i == CHOOSE i \in DOMAIN keys : keys[i] = cursor
    <3>3. i \in 1..Len(keys) /\ keys[i] = cursor
      BY <1>1, <3>2
    <3> HIDE DEF i, keys
    <3>4. n = i + 1
      BY <3>1 DEF i
    <3> HIDE DEF n
    <3> QED
      BY <1>1, <2>2, <3>3, <3>4
  <2>3. CASE cursor # 0 /\ cursor \notin Range(keys)
    <3>1. n = 0
      BY <2>3 DEF StartOf
    <3>2. cursor \notin DOMAIN open
      BY <1>1, <2>3 DEF Range
    <3> QED
      BY <2>3, <3>1, <3>2
  <2> QED
    BY <2>1, <2>2, <2>3
<1>4. todo = IF n = 0 THEN << >> ELSE SubSeq(keys, n, Min({n + Take, Len(keys)}))
  BY DEF PageKeys
<1> HIDE DEF keys, n, todo
<1>5. CASE n = 0
  <2>1. todo = << >> /\ cursor # 0 /\ cursor \notin DOMAIN open /\ DOMAIN << >> = {} /\ Len(<< >>) = 0
    BY <1>3, <1>4, <1>5
  <2> QED
    BY <1>2, <2>1 DEF Falling, keys, todo
<1>6. CASE n # 0
  <2>1. n \in Nat \ {0} /\ n <= Len(keys) + 1
    BY <1>1, <1>3, <1>6
  <2>2. m = Min({n + Take, Len(keys)}) /\ m \in Nat /\ m <= Len(keys) /\ m <= n + Take /\ (m = Len(keys) \/ m = n + Take)
    <3>1. n + Take \in Int /\ Len(keys) \in Int
      BY <1>1, <1>2, <2>1
    <3>2. Min({n + Take, Len(keys)}) = m
      BY <3>1, MinOfTwo
    <3>3. Len(keys) \in Nat /\ Take \in Nat /\ n \in Nat
      BY <1>1, <1>2, <2>1
    <3> QED
      BY <3>2, <3>3
  <2> HIDE DEF m
  <2>3. todo = SubSeq(keys, n, m)
    BY <1>4, <1>6, <2>2
  <2> DEFINE len == IF n <= m THEN m - n + 1 ELSE 0
  <2>4. todo \in Seq(Pins) /\ Len(todo) = len /\ DOMAIN todo = 1..len /\ \A k \in 1..len : todo[k] = keys[n + k - 1]
    <3>1. n \in 1..(Len(keys) + 1) /\ m \in 0..Len(keys) /\ n \in Int /\ m \in Int
      BY <1>1, <2>1, <2>2
    <3>2. SubSeq(keys, n, m) \in Seq(Pins) /\ Len(SubSeq(keys, n, m)) = len
          /\ \A k \in 1..len : SubSeq(keys, n, m)[k] = keys[n + k - 1]
      BY <1>1, <3>1, SubSeqProperties
    <3>3. DOMAIN todo = 1..Len(todo)
      BY <2>3, <3>2
    <3> QED
      BY <2>3, <3>2, <3>3
  <2>5. len \in Nat /\ len <= Take + 1 /\ \A k \in 1..len : n + k - 1 \in 1..Len(keys)
    <3>1. Len(keys) \in Nat /\ Take \in Nat
      BY <1>1, <1>2
    <3>2. m \in Nat /\ m <= Len(keys) /\ m <= n + Take
      BY <2>2
    <3>3. ASSUME NEW k \in 1..len PROVE n + k - 1 \in 1..Len(keys)
      <4>1. n <= m /\ k <= m - n + 1
        BY <2>1, <3>2
      <4> QED
        BY <2>1, <3>1, <3>2, <4>1
    <3>4. len \in Nat /\ len <= Take + 1
      BY <2>1, <3>1, <3>2
    <3> QED
      BY <3>3, <3>4
  <2>6. Falling(todo)
    <3> SUFFICES ASSUME NEW k \in 1..len, NEW l \in 1..len, k < l PROVE todo[k] > todo[l]
      BY <2>4 DEF Falling
    <3>1. n + k - 1 < n + l - 1 /\ n + k - 1 \in DOMAIN keys /\ n + l - 1 \in DOMAIN keys
      BY <1>1, <2>1, <2>5
    <3> QED
      BY <1>1, <2>4, <3>1 DEF Falling
  <2>7. \A k \in DOMAIN todo : todo[k] \in DOMAIN open
    BY <1>1, <2>4, <2>5
  <2>8. ASSUME NEW q \in DOMAIN open, cursor = 0 \/ q < cursor, q \notin Range(todo)
        PROVE  Len(todo) = Take + 1 /\ \A k \in DOMAIN todo : todo[k] > q
    <3>1. PICK j \in 1..Len(keys) : keys[j] = q
      BY <1>1
    <3>2. j >= n
      <4>1. CASE cursor = 0
        BY <1>3, <3>1, <4>1
      <4>2. CASE cursor # 0 /\ q < cursor
        <5>1. n - 1 \in 1..Len(keys) /\ keys[n - 1] = cursor
          BY <1>3, <1>6, <4>2
        <5>2. j > n - 1
          <6> SUFFICES ASSUME j <= n - 1 PROVE FALSE
            BY <1>1, <2>1
          <6>1. keys[j] > keys[n - 1] \/ keys[j] = keys[n - 1]
            BY <1>1, <3>1, <5>1 DEF Falling
          <6> QED
            BY <1>1, <3>1, <4>2, <5>1, <6>1
        <5> QED
          BY <1>1, <2>1, <3>1, <5>2
      <4> QED
        BY <2>8, <4>1, <4>2
    <3>3. j > m
      <4> SUFFICES ASSUME j <= m PROVE FALSE
        BY <2>2
      <4>1. j - n + 1 \in 1..len /\ n + (j - n + 1) - 1 = j
        BY <2>1, <2>2, <3>1, <3>2
      <4>2. todo[j - n + 1] = q
        BY <2>4, <3>1, <4>1
      <4> QED
        BY <2>4, <2>8, <4>1, <4>2 DEF Range
    <3>4. m = n + Take /\ len = Take + 1
      BY <1>1, <1>2, <2>1, <2>2, <3>1, <3>3
    <3>5. \A k \in 1..len : keys[n + k - 1] > keys[j]
      <4> SUFFICES ASSUME NEW k \in 1..len PROVE keys[n + k - 1] > keys[j]
        OBVIOUS
      <4>1. n + k - 1 <= m /\ n + k - 1 \in DOMAIN keys /\ n + k - 1 < j
        BY <1>1, <1>2, <2>1, <2>2, <2>5, <3>1, <3>3, <3>4
      <4> QED
        BY <1>1, <3>1, <4>1 DEF Falling
    <3> QED
      BY <2>4, <3>1, <3>4, <3>5
  <2> QED
    BY <2>4, <2>5, <2>6, <2>7, <2>8 DEF keys, todo
<1> QED
  BY <1>5, <1>6

(* What holds at 0 and passes from a number to the next holds up to n.      *)
LEMMA Upward ==
  ASSUME NEW n \in Nat, NEW T, 0 \in T, \A k \in 0..n : k \in T /\ k < n => k + 1 \in T
  PROVE  n \in T
<1> DEFINE Out == {k \in 0..n : k \notin T}
<1>1. SUFFICES ASSUME n \notin T PROVE FALSE
  OBVIOUS
<1>2. Out \in SUBSET Nat /\ Out # {}
  BY <1>1
<1>3. PICK m \in Out : \A k \in Out : m <= k
  BY <1>2, LeastNat
<1>4. m # 0 /\ m - 1 \in 0..n /\ m - 1 < n /\ m - 1 \notin Out
  BY <1>3
<1> QED
  BY <1>3, <1>4

(* The list as it grows with the first n rooms of an answer.                *)
NextList(s, list, p) == IF p \in Range(list) THEN s ELSE Append(s, p)
Merges(u, list, got, n) ==
  u = [k \in 0..n |-> IF k = 0 THEN list ELSE NextList(u[k - 1], list, got[k])]

(* Every answer has such lists.                                             *)
LEMMA MergesExist ==
  ASSUME NEW list, NEW got, NEW n \in Nat
  PROVE  \E u : Merges(u, list, got, n)
<1> DEFINE T == {k \in 0..n : \E u : Merges(u, list, got, k)}
<1>1. 0 \in T
  <2> DEFINE u == [k \in 0..0 |-> list]
  <2>1. Merges(u, list, got, 0)
    BY DEF Merges
  <2> QED
    BY <2>1
<1>2. ASSUME NEW k \in 0..n, k \in T, k < n PROVE k + 1 \in T
  <2>1. PICK u : Merges(u, list, got, k)
    BY <1>2
  <2> DEFINE x == NextList(u[k], list, got[k + 1])
             v == [j \in 0..(k + 1) |-> IF j = k + 1 THEN x ELSE u[j]]
  <2>2. u = [j \in 0..k |-> IF j = 0 THEN list ELSE NextList(u[j - 1], list, got[j])]
    BY <2>1 DEF Merges
  <2>3. ASSUME NEW j \in 0..(k + 1)
        PROVE  v[j] = IF j = 0 THEN list ELSE NextList(v[j - 1], list, got[j])
    <3>1. CASE j = k + 1
      <4>1. v[j - 1] = u[k] /\ v[j] = x
        BY <3>1
      <4> QED
        BY <3>1, <4>1
    <3>2. CASE j \in 0..k
      <4>1. v[j] = u[j] /\ (j # 0 => v[j - 1] = u[j - 1])
        BY <3>2
      <4>2. u[j] = IF j = 0 THEN list ELSE NextList(u[j - 1], list, got[j])
        BY <2>2, <3>2
      <4> QED
        BY <4>1, <4>2
    <3> QED
      BY <3>1, <3>2
  <2>4. Merges(v, list, got, k + 1)
    BY <2>3 DEF Merges
  <2>5. k + 1 \in 0..n
    BY <1>2
  <2> HIDE DEF v
  <2> QED
    BY <2>4, <2>5
<1> HIDE DEF T
<1>3. n \in T
  BY <1>1, <1>2, Upward
<1> QED
  BY <1>3 DEF T

(* The list has what it had and the answer, and nothing twice.              *)
LEMMA ListedFacts ==
  ASSUME NEW list \in Seq(Pins), IsInjective(list), NEW got \in Seq(Pins), Falling(got)
  PROVE  /\ Listed(list, got) \in Seq(Pins) /\ IsInjective(Listed(list, got))
         /\ \A q : q \in Range(Listed(list, got)) <=> q \in Range(list) \/ q \in Range(got)
<1> DEFINE n == Len(got)
           u == CHOOSE u : Merges(u, list, got, n)
           Holds(s, k) == /\ s \in Seq(Pins) /\ IsInjective(s)
                          /\ \A q : q \in Range(s) <=> q \in Range(list) \/ \E j \in 1..k : q = got[j]
           T == {k \in 0..n : Holds(u[k], k)}
<1>1. n \in Nat /\ DOMAIN got = 1..n
  OBVIOUS
<1>2. Listed(list, got) = u[n]
  BY DEF Listed, Merges, NextList
<1>3. Merges(u, list, got, n)
  BY <1>1, MergesExist
<1> HIDE DEF n, u
<1>4. \A k \in 0..n : u[k] = IF k = 0 THEN list ELSE NextList(u[k - 1], list, got[k])
  BY <1>3 DEF Merges
<1>5. 0 \in T
  <2>1. u[0] = list /\ 0 \in 0..n /\ 1..0 = {}
    BY <1>1, <1>4
  <2> QED
    BY <2>1
<1>6. ASSUME NEW k \in 0..n, k \in T, k < n PROVE k + 1 \in T
  <2> DEFINE s == u[k]
             p == got[k + 1]
             t == u[k + 1]
  <2>1. Holds(s, k) /\ k + 1 \in 0..n /\ k + 1 \in 1..n /\ p \in Pins /\ k \in Nat
    BY <1>1, <1>6
  <2>2. t = NextList(s, list, p)
    BY <1>4, <2>1
  <2>3. \A q : (\E j \in 1..(k + 1) : q = got[j]) <=> (\E j \in 1..k : q = got[j]) \/ q = p
    <3>1. 1..(k + 1) = (1..k) \union {k + 1}
      BY <2>1
    <3> QED
      BY <3>1
  <2>4. \A j \in 1..k : got[j] # p
    <3> SUFFICES ASSUME NEW j \in 1..k PROVE got[j] # got[k + 1]
      OBVIOUS
    <3>1. j \in DOMAIN got /\ k + 1 \in DOMAIN got /\ j < k + 1
      BY <1>1, <2>1
    <3>2. got[j] > got[k + 1] /\ got[j] \in Pins /\ got[k + 1] \in Pins
      BY <3>1 DEF Falling
    <3>3. got[j] \in Nat /\ got[k + 1] \in Nat
      BY <3>2, RoomListBounds
    <3> QED
      BY <3>2, <3>3
  <2> HIDE DEF s, p, t
  <2>5. CASE p \in Range(list)
    <3>1. t = s
      BY <2>2, <2>5 DEF NextList
    <3> QED
      BY <2>1, <2>3, <2>5, <3>1 DEF t
  <2>6. CASE p \notin Range(list)
    <3>1. t = Append(s, p)
      BY <2>2, <2>6 DEF NextList
    <3>2. p \notin Range(s)
      BY <2>1, <2>4, <2>6
    <3>3. t \in Seq(Pins) /\ Len(t) = Len(s) + 1 /\ DOMAIN t = 1..(Len(s) + 1) /\ t[Len(s) + 1] = p
          /\ (\A j \in 1..Len(s) : t[j] = s[j]) /\ Len(s) \in Nat /\ DOMAIN s = 1..Len(s)
      BY <2>1, <3>1
    <3>4. IsInjective(t)
      <4> SUFFICES ASSUME NEW i \in DOMAIN t, NEW j \in DOMAIN t, t[i] = t[j] PROVE i = j
        BY DEF IsInjective
      <4>1. \A a \in 1..Len(s) : s[a] # p
        BY <3>2, <3>3 DEF Range
      <4>2. \A a, b \in 1..Len(s) : s[a] = s[b] => a = b
        BY <2>1, <3>3 DEF IsInjective
      <4> QED
        BY <3>3, <4>1, <4>2
    <3>5. \A q : q \in Range(t) <=> q \in Range(s) \/ q = p
      BY <3>3 DEF Range
    <3>6. Holds(t, k + 1)
      BY <2>1, <2>3, <3>3, <3>4, <3>5
    <3> QED
      BY <2>1, <3>6 DEF t
  <2> QED
    BY <2>5, <2>6
<1> HIDE DEF T
<1>7. n \in T
  BY <1>1, <1>5, <1>6, Upward
<1>8. \A q : q \in Range(got) <=> \E j \in 1..n : q = got[j]
  BY <1>1 DEF Range
<1> QED
  BY <1>2, <1>7, <1>8 DEF T

(* A room is moved from what a request will read to what it has.            *)
LEMMA BatchMoves ==
  ASSUME NEW got \in Seq(Pins), NEW todo \in Seq(Pins), todo # << >>
  PROVE  /\ Append(got, Head(todo)) \o Tail(todo) = got \o todo
         /\ Append(got, Head(todo)) \in Seq(Pins) /\ Tail(todo) \in Seq(Pins)
<1>1. /\ got \o todo \in Seq(Pins) /\ Len(got \o todo) = Len(got) + Len(todo) /\ Len(got) \in Nat /\ Len(todo) \in Nat \ {0}
      /\ \A k \in 1..(Len(got) + Len(todo)) : (got \o todo)[k] = IF k <= Len(got) THEN got[k] ELSE todo[k - Len(got)]
  OBVIOUS
<1> DEFINE a == Append(got, Head(todo))
           b == Tail(todo)
<1>2. a \in Seq(Pins) /\ Len(a) = Len(got) + 1 /\ \A k \in 1..Len(a) : a[k] = IF k <= Len(got) THEN got[k] ELSE todo[1]
  BY <1>1
<1>3. b \in Seq(Pins) /\ Len(b) = Len(todo) - 1 /\ \A k \in 1..Len(b) : b[k] = todo[k + 1]
  BY <1>1
<1> HIDE DEF a, b
<1> DEFINE v == a \o b
           w == got \o todo
<1>4. v \in Seq(Pins) /\ Len(v) = Len(a) + Len(b)
      /\ \A k \in 1..(Len(a) + Len(b)) : v[k] = IF k <= Len(a) THEN a[k] ELSE b[k - Len(a)]
  <2>1. a \in Seq(Pins) /\ b \in Seq(Pins)
    BY <1>2, <1>3
  <2> QED
    BY <2>1
<1> HIDE DEF v, w
<1>5. Len(v) = Len(w) /\ \A k \in 1..Len(w) : v[k] = w[k]
  <2>1. Len(v) = Len(w)
    BY <1>1, <1>2, <1>3, <1>4 DEF w
  <2>2. ASSUME NEW k \in 1..Len(w) PROVE v[k] = w[k]
    <3>1. k \in 1..(Len(got) + Len(todo)) /\ k \in 1..(Len(a) + Len(b))
      BY <1>1, <1>2, <1>3 DEF w
    <3>2. v[k] = IF k <= Len(a) THEN a[k] ELSE b[k - Len(a)]
      BY <1>4, <3>1
    <3>3. w[k] = IF k <= Len(got) THEN got[k] ELSE todo[k - Len(got)]
      BY <1>1, <3>1 DEF w
    <3>4. CASE k <= Len(got)
      BY <1>1, <1>2, <3>1, <3>2, <3>3, <3>4
    <3>5. CASE k = Len(got) + 1
      BY <1>1, <1>2, <3>1, <3>2, <3>3, <3>5
    <3>6. CASE k > Len(got) + 1
      <4>1. v[k] = b[k - Len(a)] /\ k - Len(a) \in 1..Len(b) /\ (k - Len(a)) + 1 = k - Len(got)
        BY <1>1, <1>2, <1>3, <3>1, <3>2, <3>6
      <4>2. b[k - Len(a)] = todo[k - Len(got)]
        BY <1>3, <4>1
      <4>3. w[k] = todo[k - Len(got)]
        BY <1>1, <3>1, <3>3, <3>6
      <4> QED
        BY <4>1, <4>2, <4>3
    <3> QED
      BY <1>1, <3>1, <3>4, <3>5, <3>6
  <2> QED
    BY <2>1, <2>2
<1>6. v = w
  <2>1. v \in Seq(Pins) /\ w \in Seq(Pins)
    BY <1>1, <1>4 DEF w
  <2> QED
    BY <1>5, <2>1, SeqEqual
<1> QED
  BY <1>2, <1>3, <1>6 DEF a, b, v, w

FirstOf(c) == [at |-> "keys", cursor |-> c, todo |-> << >>, got |-> << >>]

(* More rooms, more of them on the page, fewer to look for: what was        *)
(* reached and found stays so.                                              *)
Widens ==
  /\ DOMAIN open \subseteq DOMAIN open' /\ still'.rooms \subseteq still.rooms
  /\ \A q : OnPage(q) => OnPage(q)'

(* What was reached and found is so after the step.                         *)
LEMMA Widening ==
  ASSUME Widens
  PROVE  /\ \A c : Reached(c) => Reached(c)'
         /\ \A r : Finds(r) => Finds(r)'
<1>1. ASSUME NEW c, Reached(c) PROVE Reached(c)'
  BY <1>1 DEF Widens, Reached
<1>2. ASSUME NEW r, Finds(r) PROVE Finds(r)'
  BY <1>2 DEF Widens, Finds, Batch
<1> QED
  BY <1>1, <1>2

(* What the bags of requests have.                                          *)
LEMMA RequestBags ==
  /\ \A r : \A x \in DOMAIN Rest(r) : x \in DOMAIN loads
  /\ \A r, s : \A x \in DOMAIN (Rest(r) (+) SetToBag({s})) : x = s \/ x \in DOMAIN loads
<1>1. \A r : DOMAIN Rest(r) \subseteq DOMAIN loads
  BY DEF Rest, (-)
<1>2. ASSUME NEW a, NEW b PROVE DOMAIN (a (+) b) = DOMAIN a \union DOMAIN b
  BY DEF (+)
<1>3. \A s : DOMAIN SetToBag({s}) = {s}
  BY DEF SetToBag
<1>4. ASSUME NEW r, NEW s, NEW x \in DOMAIN (Rest(r) (+) SetToBag({s})) PROVE x = s \/ x \in DOMAIN loads
  <2>1. x \in DOMAIN Rest(r) \union DOMAIN SetToBag({s})
    BY <1>2, <1>4
  <2> QED
    BY <1>1, <1>3, <2>1
<1> QED
  BY <1>1, <1>4

(* Drawing the page adds requests for the first page and for the next.      *)
LEMMA DrawnFacts ==
  ASSUME NEW l, NEW rest, Drawn(l, rest)
  PROVE  /\ lobby' = [l EXCEPT !.loading = ~l.paging.known \/ l.paging.more]
         /\ \A x \in DOMAIN loads' :
              x \in DOMAIN rest \/ x = FirstOf(0) \/ (l.paging.more /\ x = FirstOf(l.paging.next))
<1>1. ASSUME NEW a, NEW b PROVE DOMAIN (a (+) b) = DOMAIN a \union DOMAIN b
  BY DEF (+)
<1>2. \A s : DOMAIN SetToBag({s}) = {s}
  BY DEF SetToBag
<1>3. \A c : DOMAIN Asked(c) = {FirstOf(c)}
  BY <1>2 DEF Asked, FirstOf
<1>4. DOMAIN Firsts = {FirstOf(0)}
  <2>1. DOMAIN Firsts = DOMAIN Asked(0) \union DOMAIN Asked(0)
    BY <1>1 DEF Firsts
  <2> QED
    BY <1>3, <2>1
<1> DEFINE a == rest (+) Firsts
           b == a (+) Asked(l.paging.next)
<1>5. DOMAIN a = DOMAIN rest \union DOMAIN Firsts /\ DOMAIN b = DOMAIN a \union DOMAIN Asked(l.paging.next)
  BY <1>1
<1>6. loads' = rest \/ loads' = a \/ (l.paging.more /\ loads' = b)
  BY DEF Drawn
<1>7. lobby' = [l EXCEPT !.loading = ~l.paging.known \/ l.paging.more]
  BY DEF Drawn
<1> HIDE DEF a, b
<1>8. ASSUME NEW x \in DOMAIN loads'
      PROVE  x \in DOMAIN rest \/ x = FirstOf(0) \/ (l.paging.more /\ x = FirstOf(l.paging.next))
  BY <1>3, <1>4, <1>5, <1>6, <1>8
<1> QED
  BY <1>7, <1>8

(* A request for a page, not yet read.                                      *)
LEMMA FirstFacts ==
  ASSUME NEW c \in PinNames
  PROVE  /\ RequestShape(FirstOf(c)) /\ FirstOf(c).cursor = c
         /\ Finds(FirstOf(c))'
<1> DEFINE r == FirstOf(c)
<1>1. r.at = "keys" /\ r.cursor = c /\ r.todo = << >> /\ r.got = << >> /\ << >> \in Seq(Pins)
  BY DEF FirstOf
<1>2. r \in Requests
  BY <1>1 DEF FirstOf, Requests
<1> HIDE DEF r
<1>3. Batch(r) = << >> /\ DOMAIN << >> = {} /\ Len(<< >>) = 0
  BY <1>1 DEF Batch
<1>4. 0 <= Take + 1
  BY RoomListBounds
<1> QED
  BY <1>1, <1>2, <1>3, <1>4 DEF r, RequestShape, Falling, Finds

(* One request moves on.                                                    *)
LEMMA ProgressKeeps ==
  ASSUME LobbyInv, NEW r, NEW s, Progress(r, s), UNCHANGED <<open, lobby, still>>, RequestShape(s),
         still.calm => Reached(s.cursor) /\ Finds(s)
  PROVE  LobbyInv'
<1>1. \A x \in DOMAIN loads' : x = s \/ x \in DOMAIN loads
  BY RequestBags DEF Progress
<1>2. ListShape'
  BY DEF LobbyInv, ListShape
<1>3. \A x \in DOMAIN loads' : RequestShape(x)
  BY <1>1 DEF LobbyInv
<1>4. ASSUME still.calm PROVE ListGrows'
  <2>1. Widens
    BY DEF Widens, OnPage
  <2>2. \A x \in DOMAIN loads' : Reached(x.cursor)' /\ Finds(x)'
    BY <1>1, <1>4, <2>1, Widening DEF LobbyInv, ListGrows
  <2>3. AllWait'
    BY <1>4 DEF LobbyInv, ListGrows, AllWait
  <2>4. (lobby.paging.more => Reached(lobby.paging.next))'
    <3>1. lobby.paging.more => Reached(lobby.paging.next)
      BY <1>4 DEF LobbyInv, ListGrows
    <3> QED
      BY <2>1, <3>1, Widening
  <2>5. (lobby.paging.known /\ ~lobby.paging.more => \A q \in still.rooms : OnPage(q))'
    BY <1>4, <2>1 DEF LobbyInv, ListGrows, Widens
  <2> QED
    BY <2>2, <2>3, <2>4, <2>5 DEF ListGrows
<1> QED
  BY <1>2, <1>3, <1>4 DEF LobbyInv, RequestShape, Batch, Falling

(* What the page has reached, once drawn, is all it takes to draw it.       *)
PageReached ==
  /\ AllWait /\ (lobby.paging.more => Reached(lobby.paging.next))
  /\ lobby.paging.known /\ ~lobby.paging.more => \A q \in still.rooms : OnPage(q)

(* The page is drawn with another state, or with fewer requests.            *)
LEMMA DrawnKeeps ==
  ASSUME NEW l \in [rooms : Seq(Pins), paging : Pagings, loading : BOOLEAN], NEW rest, Drawn(l, rest),
         IsInjective(l.rooms), l.paging.more => l.paging.next # 0, ListShape, UNCHANGED open,
         still' \in [rooms : SUBSET Pins, calm : BOOLEAN], \A x \in DOMAIN rest : RequestShape(x),
         still'.calm => PageReached' /\ \A x \in DOMAIN rest : (Reached(x.cursor) /\ Finds(x))'
  PROVE  LobbyInv'
<1>1. l.paging \in Pagings /\ l.paging.next \in PinNames /\ 0 \in PinNames
  BY DEF Pagings, PinNames
<1>2. /\ lobby' = [l EXCEPT !.loading = ~l.paging.known \/ l.paging.more]
      /\ \A x \in DOMAIN loads' :
           x \in DOMAIN rest \/ x = FirstOf(0) \/ (l.paging.more /\ x = FirstOf(l.paging.next))
  BY DrawnFacts
<1>3. lobby'.rooms = l.rooms /\ lobby'.paging = l.paging /\ lobby' \in [rooms : Seq(Pins), paging : Pagings, loading : BOOLEAN]
  <2>1. (~l.paging.known \/ l.paging.more) \in BOOLEAN
    OBVIOUS
  <2> QED
    BY <1>2, <2>1
<1>4. ListShape'
  BY <1>3 DEF ListShape
<1>5. \A x \in DOMAIN loads' : RequestShape(x)
  BY <1>1, <1>2, FirstFacts
<1>6. ASSUME still'.calm PROVE ListGrows'
  <2>1. PageReached' /\ \A x \in DOMAIN rest : (Reached(x.cursor) /\ Finds(x))'
    BY <1>6
  <2>2. Reached(0)'
    BY DEF Reached
  <2>3. ASSUME NEW x \in DOMAIN loads' PROVE Reached(x.cursor)' /\ Finds(x)'
    <3>1. CASE x \in DOMAIN rest
      BY <2>1, <3>1
    <3>2. CASE x = FirstOf(0)
      BY <1>1, <2>2, <3>2, FirstFacts
    <3>3. CASE l.paging.more /\ x = FirstOf(l.paging.next)
      <4>1. (lobby.paging.more => Reached(lobby.paging.next))'
        BY <2>1 DEF PageReached
      <4>2. Reached(l.paging.next)'
        BY <1>3, <3>3, <4>1
      <4> QED
        BY <1>1, <3>3, <4>2, FirstFacts
    <3> QED
      BY <1>2, <3>1, <3>2, <3>3
  <2> QED
    BY <2>1, <2>3 DEF ListGrows, PageReached
<1> QED
  BY <1>4, <1>5, <1>6 DEF LobbyInv, RequestShape, Batch, Falling

(* A request that fails, or is answered when the page is no longer loading. *)
LEMMA LoadFailsKeeps ==
  ASSUME LobbyInv, NEW r \in DOMAIN loads, LoadFails(r)
  PROVE  LobbyInv'
<1>1. UNCHANGED <<open, still, churn>>
  BY DEF LoadFails
<1>2. \A x \in DOMAIN Rest(r) : x \in DOMAIN loads
  BY RequestBags
<1>3. lobby \in [rooms : Seq(Pins), paging : Pagings, loading : BOOLEAN] /\ IsInjective(lobby.rooms)
      /\ (lobby.paging.more => lobby.paging.next # 0) /\ still \in [rooms : SUBSET Pins, calm : BOOLEAN] /\ ListShape
  BY DEF LobbyInv, ListShape
<1>4. ASSUME lobby'.rooms = lobby.rooms, lobby'.paging = lobby.paging, still.calm
      PROVE  PageReached' /\ \A x \in DOMAIN Rest(r) : (Reached(x.cursor) /\ Finds(x))'
  <2>1. Widens
    BY <1>1, <1>4 DEF Widens, OnPage
  <2>2. ListGrows
    BY <1>4 DEF LobbyInv
  <2>3. \A x \in DOMAIN Rest(r) : (Reached(x.cursor) /\ Finds(x))'
    BY <1>2, <2>1, <2>2, Widening DEF ListGrows
  <2>4. AllWait'
    BY <1>1, <2>2 DEF ListGrows, AllWait
  <2>5. lobby'.paging.more => Reached(lobby.paging.next)'
    BY <1>4, <2>1, <2>2, Widening DEF ListGrows
  <2>6. (lobby.paging.more => Reached(lobby.paging.next))'
    BY <1>1, <1>4, <2>5 DEF Reached
  <2>7. (lobby.paging.known /\ ~lobby.paging.more => \A q \in still.rooms : OnPage(q))'
    BY <1>4, <2>1, <2>2 DEF ListGrows, Widens
  <2> QED
    BY <2>3, <2>4, <2>6, <2>7 DEF PageReached
<1>5. CASE lobby.loading
  <2> DEFINE l == [lobby EXCEPT !.loading = FALSE]
  <2>1. Drawn(l, Rest(r))
    BY <1>5 DEF LoadFails
  <2>2. l \in [rooms : Seq(Pins), paging : Pagings, loading : BOOLEAN] /\ l.rooms = lobby.rooms /\ l.paging = lobby.paging
    BY <1>3
  <2> HIDE DEF l
  <2>3. lobby' = [l EXCEPT !.loading = ~l.paging.known \/ l.paging.more]
    BY <2>1, DrawnFacts
  <2>4. lobby'.rooms = lobby.rooms /\ lobby'.paging = lobby.paging
    BY <2>2, <2>3
  <2>5. \A x \in DOMAIN Rest(r) : RequestShape(x)
    BY <1>2 DEF LobbyInv
  <2>6. still'.calm => PageReached' /\ \A x \in DOMAIN Rest(r) : (Reached(x.cursor) /\ Finds(x))'
    BY <1>1, <1>4, <2>4
  <2> QED
    BY <1>1, <1>3, <2>1, <2>2, <2>5, <2>6, DrawnKeeps
<1>6. CASE ~lobby.loading
  <2>1. loads' = Rest(r) /\ lobby' = lobby
    BY <1>6 DEF LoadFails
  <2>2. ListShape'
    BY <1>1, <1>3, <2>1 DEF ListShape
  <2>3. \A x \in DOMAIN loads' : RequestShape(x)
    BY <1>2, <2>1 DEF LobbyInv
  <2>4. still'.calm => ListGrows'
    BY <1>1, <1>4, <2>1 DEF PageReached, ListGrows
  <2> QED
    BY <2>2, <2>3, <2>4 DEF LobbyInv, RequestShape, Batch, Falling
<1> QED
  BY <1>5, <1>6

(* The list is emptied; if no request was under way, it fills again.        *)
LEMMA RefreshKeeps ==
  ASSUME LobbyInv, Refresh
  PROVE  LobbyInv'
<1> DEFINE l == [lobby EXCEPT !.rooms = << >>, !.paging = NoPaging]
<1>1. ListShape /\ UNCHANGED open /\ Drawn(l, loads) /\ still' = [still EXCEPT !.calm = still.calm /\ loads = EmptyBag]
  BY DEF LobbyInv, Refresh
<1>2. /\ lobby \in [rooms : Seq(Pins), paging : Pagings, loading : BOOLEAN]
      /\ still \in [rooms : SUBSET Pins, calm : BOOLEAN]
  BY <1>1 DEF ListShape
<1>3. NoPaging \in Pagings /\ ~NoPaging.more /\ ~NoPaging.known
  BY DEF NoPaging, Pagings, PinNames
<1>4. << >> \in Seq(Pins) /\ IsInjective(<< >>)
  BY DEF IsInjective
<1>5. l \in [rooms : Seq(Pins), paging : Pagings, loading : BOOLEAN] /\ l.rooms = << >> /\ l.paging = NoPaging
  BY <1>2, <1>3, <1>4
<1>6. still' \in [rooms : SUBSET Pins, calm : BOOLEAN] /\ still'.rooms = still.rooms
      /\ (still'.calm => still.calm /\ loads = EmptyBag)
  <2>1. (still.calm /\ loads = EmptyBag) \in BOOLEAN
    OBVIOUS
  <2> QED
    BY <1>1, <1>2, <2>1
<1> HIDE DEF l
<1>7. lobby' = [l EXCEPT !.loading = ~l.paging.known \/ l.paging.more]
  BY <1>1, DrawnFacts
<1>8. lobby'.paging = NoPaging
  BY <1>5, <1>7
<1>9. DOMAIN EmptyBag = {}
  BY DEF EmptyBag, SetToBag
<1>10. ASSUME still'.calm PROVE PageReached' /\ \A x \in DOMAIN loads : (Reached(x.cursor) /\ Finds(x))'
  <2>1. AllWait'
    BY <1>1, <1>6, <1>10 DEF LobbyInv, ListGrows, AllWait
  <2> QED
    BY <1>3, <1>6, <1>8, <1>9, <1>10, <2>1 DEF PageReached
<1>11. \A x \in DOMAIN loads : RequestShape(x)
  BY DEF LobbyInv
<1> QED
  BY <1>1, <1>3, <1>4, <1>5, <1>6, <1>10, <1>11, DrawnKeeps

(* The numbers of the rooms are read.                                       *)
LEMMA ReadKeysKeeps ==
  ASSUME LobbyInv, NEW r \in DOMAIN loads, ReadKeys(r)
  PROVE  LobbyInv'
<1> DEFINE todo == PageKeys(RoomKeys, r.cursor)
           s == [r EXCEPT !.at = IF todo = << >> THEN "reply" ELSE "rooms", !.todo = todo]
<1>1. RequestShape(r) /\ r \in Requests /\ r.cursor \in PinNames /\ r.at = "keys" /\ r.got = << >> /\ ListShape
  BY DEF LobbyInv, RequestShape, Requests, ReadKeys
<1>2. Progress(r, s) /\ UNCHANGED <<open, lobby, still>>
  BY DEF ReadKeys
<1>3. /\ todo \in Seq(Pins) /\ Falling(todo) /\ Len(todo) <= Take + 1
      /\ \A k \in DOMAIN todo : todo[k] \in DOMAIN open
      /\ (r.cursor # 0 => r.cursor \in DOMAIN open)
         => \A q \in DOMAIN open : r.cursor = 0 \/ q < r.cursor =>
              \/ q \in Range(todo)
              \/ Len(todo) = Take + 1 /\ \A k \in DOMAIN todo : todo[k] > q
  BY <1>1, PageOfKeys
<1> HIDE DEF todo
<1>4. s \in Requests /\ s.got = << >> /\ s.todo = todo /\ s.cursor = r.cursor /\ s.at # "keys"
      /\ (s.at = "rooms" <=> todo # << >>)
  BY <1>1, <1>3 DEF Requests
<1> HIDE DEF s
<1>5. Batch(s) = todo
  BY <1>3, <1>4 DEF Batch
<1>6. RequestShape(s)
  BY <1>3, <1>4, <1>5 DEF RequestShape
<1>7. ASSUME still.calm PROVE Reached(s.cursor) /\ Finds(s)
  <2>1. Reached(r.cursor) /\ still.rooms \subseteq DOMAIN open
    BY <1>7 DEF LobbyInv, ListGrows, AllWait
  <2> QED
    BY <1>3, <1>4, <1>5, <2>1 DEF Reached, Finds
<1> QED
  BY <1>2, <1>6, <1>7, ProgressKeeps

(* Without one of its elements a falling sequence falls.                    *)
LEMMA FallingLess ==
  ASSUME NEW got \in Seq(Pins), NEW todo \in Seq(Pins), todo # << >>, Falling(got \o todo)
  PROVE  Falling(got \o Tail(todo))
<1> DEFINE v == got \o Tail(todo)
           w == got \o todo
           n == Len(got)
           m == Len(todo)
           at(k) == IF k <= n THEN k ELSE k + 1
<1>1. n \in Nat /\ m \in Nat \ {0} /\ DOMAIN w = 1..(n + m) /\ Tail(todo) \in Seq(Pins) /\ Len(Tail(todo)) = m - 1
      /\ \A k \in 1..(n + m) : w[k] = IF k <= n THEN got[k] ELSE todo[k - n]
  OBVIOUS
<1>2. DOMAIN v = 1..(n + (m - 1)) /\ \A k \in 1..(n + (m - 1)) : v[k] = IF k <= n THEN got[k] ELSE Tail(todo)[k - n]
  <2>1. \A t \in Seq(Pins) : DOMAIN (got \o t) = 1..(n + Len(t))
          /\ \A k \in 1..(n + Len(t)) : (got \o t)[k] = IF k <= n THEN got[k] ELSE t[k - n]
    OBVIOUS
  <2> QED
    BY <1>1, <2>1
<1>3. \A k \in 1..(m - 1) : Tail(todo)[k] = todo[k + 1]
  BY <1>1
<1> HIDE DEF v, w, n, m
<1>4. ASSUME NEW k \in DOMAIN v PROVE at(k) \in DOMAIN w /\ v[k] = w[at(k)]
  <2>1. CASE k <= n
    BY <1>1, <1>2, <2>1
  <2>2. CASE k > n
    <3>1. k - n \in 1..(m - 1) /\ k + 1 \in 1..(n + m) /\ (k + 1) - n = (k - n) + 1 /\ ~(k + 1 <= n)
      BY <1>1, <1>2, <2>2
    <3>2. v[k] = Tail(todo)[k - n] /\ w[k + 1] = todo[(k + 1) - n]
      BY <1>1, <1>2, <2>2, <3>1
    <3>3. v[k] = w[k + 1]
      BY <1>3, <3>1, <3>2
    <3> QED
      BY <1>1, <1>2, <2>2, <3>1, <3>3
  <2> QED
    BY <1>1, <1>2, <2>1, <2>2
<1>5. \A k, l \in DOMAIN v : k < l => at(k) < at(l)
  BY <1>1, <1>2
<1> HIDE DEF at
<1>6. Falling(w)
  BY DEF w
<1>7. Falling(v)
  BY <1>4, <1>5, <1>6 DEF Falling
<1> QED
  BY <1>7 DEF v

(* A room is read.                                                          *)
LEMMA ReadRoomKeeps ==
  ASSUME LobbyInv, NEW r \in DOMAIN loads, ReadRoom(r)
  PROVE  LobbyInv'
<1> DEFINE p == Head(r.todo)
           rest == Tail(r.todo)
           waits == p \in DOMAIN open /\ open[p]
           got == IF waits THEN Append(r.got, p) ELSE r.got
           s == [r EXCEPT !.at = IF rest = << >> THEN "reply" ELSE "rooms", !.todo = rest, !.got = got]
<1>1. RequestShape(r) /\ r \in Requests /\ r.at = "rooms" /\ r.todo # << >> /\ r.todo \in Seq(Pins) /\ r.got \in Seq(Pins)
      /\ Falling(r.got \o r.todo)
  BY DEF LobbyInv, RequestShape, Requests, ReadRoom, Batch
<1>2. Progress(r, s) /\ UNCHANGED <<open, lobby, still>>
  <2>1. Progress(r, [r EXCEPT !.at = IF rest = << >> THEN "reply" ELSE "rooms", !.todo = rest,
                             !.got = IF p \in DOMAIN open /\ open[p] THEN Append(r.got, p) ELSE r.got])
    BY DEF ReadRoom
  <2> QED
    BY <2>1 DEF ReadRoom
<1>3. /\ Append(r.got, p) \o rest = r.got \o r.todo
      /\ Append(r.got, p) \in Seq(Pins) /\ rest \in Seq(Pins)
  BY <1>1, BatchMoves
<1>4. Falling(r.got \o rest)
  BY <1>1, FallingLess
<1>5. r.todo[1] = p /\ r.todo[1] \in Range(r.todo)
  BY <1>1 DEF Range
<1>6. Batch(r)[Len(r.got) + 1] = p /\ Len(r.got) + 1 \in DOMAIN Batch(r)
  <2> DEFINE g == r.got
             t == r.todo
  <2>1. g \in Seq(Pins) /\ t \in Seq(Pins) /\ t # << >> /\ p = t[1] /\ Batch(r) = g \o t
    BY <1>1, <1>5 DEF Batch
  <2> HIDE DEF g, t, p
  <2>2. Len(g) \in Nat /\ Len(t) \in Nat \ {0} /\ Len(g) + 1 \in DOMAIN (g \o t) /\ (g \o t)[Len(g) + 1] = t[1]
    BY <2>1
  <2> QED
    BY <2>1, <2>2 DEF g
<1> HIDE DEF p, rest, waits
<1>7. got \in Seq(Pins) /\ (waits => got = Append(r.got, p)) /\ (~waits => got = r.got)
  BY <1>1, <1>3
<1> HIDE DEF got
<1>8. s \in Requests /\ s.got = got /\ s.todo = rest /\ s.cursor = r.cursor /\ s.at # "keys"
      /\ (s.at = "rooms" <=> rest # << >>)
  BY <1>1, <1>3, <1>7 DEF Requests
<1> HIDE DEF s
<1>9. Batch(s) = got \o rest
  BY <1>8 DEF Batch
<1>10. Falling(Batch(s))
  <2>1. CASE waits
    BY <1>1, <1>3, <1>7, <1>9, <2>1
  <2>2. CASE ~waits
    BY <1>4, <1>7, <1>9, <2>2
  <2> QED
    BY <2>1, <2>2
<1>11. RequestShape(s)
  BY <1>8, <1>10 DEF RequestShape
<1>12. ASSUME still.calm PROVE Reached(s.cursor) /\ Finds(s)
  <2>1. Reached(r.cursor) /\ Finds(r) /\ \A q \in DOMAIN open : open[q]
    BY <1>12 DEF LobbyInv, ListGrows, AllWait
  <2>2. p \in DOMAIN open
    BY <1>6, <2>1 DEF Finds
  <2>3. waits
    BY <2>1, <2>2 DEF waits
  <2>4. Batch(s) = Batch(r)
    BY <1>3, <1>7, <1>9, <2>3 DEF Batch
  <2> QED
    BY <1>1, <1>8, <2>1, <2>4 DEF Finds
<1> QED
  BY <1>2, <1>11, <1>12, ProgressKeeps

(* A page comes: the rooms kept go on the list, and down to the last of     *)
(* them, or to the end, all is there.                                       *)
LEMMA ReplyKeeps ==
  ASSUME LobbyInv, NEW r \in DOMAIN loads, Reply(r)
  PROVE  LobbyInv'
<1> DEFINE more == Len(r.got) > Take
           kept == IF more THEN SubSeq(r.got, 1, Take) ELSE r.got
           paging == [known |-> TRUE, more |-> more, next |-> IF more THEN Last(kept) ELSE 0]
           list == Listed(lobby.rooms, kept)
           l == [rooms |-> list, paging |-> paging, loading |-> FALSE]
<1>1. RequestShape(r) /\ r \in Requests /\ r.at = "reply" /\ r.todo = << >> /\ r.got \in Seq(Pins) /\ ListShape
  BY DEF LobbyInv, RequestShape, Requests, Reply
<1>2. Drawn(l, Rest(r)) /\ UNCHANGED <<open, still>>
  BY DEF Reply
<1>3. Batch(r) = r.got /\ Falling(r.got) /\ Len(r.got) \in Nat /\ DOMAIN r.got = 1..Len(r.got)
  <2>1. Batch(r) = r.got
    BY <1>1 DEF Batch
  <2> QED
    BY <1>1, <2>1 DEF RequestShape
<1>4. Take \in Nat \ {0} /\ Pins \subseteq Nat \ {0}
  BY RoomListBounds
<1>5. /\ kept \in Seq(Pins) /\ DOMAIN kept = 1..Len(kept) /\ Len(kept) = IF more THEN Take ELSE Len(r.got)
      /\ \A k \in DOMAIN kept : kept[k] = r.got[k] /\ k \in DOMAIN r.got
  <2>1. CASE ~more
    <3>1. kept = r.got
      BY <2>1
    <3> HIDE DEF kept
    <3> QED
      BY <1>1, <1>3, <2>1, <3>1
  <2>2. CASE more
    <3>1. kept = SubSeq(r.got, 1, Take) /\ Take < Len(r.got)
      BY <1>3, <1>4, <2>2
    <3>2. /\ kept \in Seq(Pins) /\ Len(kept) = Take /\ \A k \in 1..Take : kept[k] = r.got[1 + k - 1]
      <4> DEFINE s == r.got
      <4>1. 1 \in Int /\ Take \in Int /\ \A i \in 1..Take : s[i] \in Pins
        BY <1>1, <1>3, <1>4, <3>1
      <4> HIDE DEF s
      <4>2. SubSeq(s, 1, Take) \in Seq(Pins) /\ Len(SubSeq(s, 1, Take)) = Take
            /\ \A k \in 1..Take : SubSeq(s, 1, Take)[k] = s[1 + k - 1]
        BY <1>4, <4>1, SubSeqProperties
      <4> QED
        BY <3>1, <4>2 DEF s
    <3> HIDE DEF kept
    <3>3. DOMAIN kept = 1..Take
      BY <3>2
    <3>4. \A k \in 1..Take : 1 + k - 1 = k /\ k \in 1..Len(r.got)
      BY <1>3, <1>4, <3>1
    <3> QED
      BY <1>3, <2>2, <3>2, <3>3, <3>4
  <2> QED
    BY <2>1, <2>2
<1>6. Falling(kept)
  BY <1>3, <1>5 DEF Falling
<1>7. more => Last(kept) = r.got[Take] /\ Take \in DOMAIN r.got /\ r.got[Take] \in Pins
  <2> HIDE DEF kept
  <2>1. more => Last(kept) = kept[Take] /\ Take \in DOMAIN kept
    BY <1>4, <1>5 DEF Last
  <2> QED
    BY <1>1, <1>5, <2>1
<1> HIDE DEF kept
<1>8. paging \in Pagings /\ (paging.more => paging.next # 0) /\ paging.known /\ (paging.more <=> more)
      /\ (more => paging.next = r.got[Take])
  <2>1. more \in BOOLEAN /\ (IF more THEN Last(kept) ELSE 0) \in PinNames
    BY <1>7 DEF PinNames
  <2>2. paging \in Pagings
    BY <2>1 DEF Pagings
  <2> QED
    BY <1>4, <1>7, <2>2
<1>9. lobby.rooms \in Seq(Pins) /\ IsInjective(lobby.rooms)
  BY <1>1 DEF ListShape
<1>10. /\ list \in Seq(Pins) /\ IsInjective(list)
       /\ \A q : q \in Range(list) <=> q \in Range(lobby.rooms) \/ q \in Range(kept)
  BY <1>5, <1>6, <1>9, ListedFacts
<1> HIDE DEF list, paging
<1>11. l \in [rooms : Seq(Pins), paging : Pagings, loading : BOOLEAN] /\ l.rooms = list /\ l.paging = paging
  BY <1>8, <1>10
<1> HIDE DEF l
<1>12. lobby'.rooms = list /\ lobby'.paging = paging
  <2>1. lobby' = [l EXCEPT !.loading = ~l.paging.known \/ l.paging.more]
    BY <1>2, DrawnFacts
  <2> QED
    BY <1>11, <2>1
<1>13. Widens
  BY <1>2, <1>10, <1>12 DEF Widens, OnPage
<1>14. \A x \in DOMAIN Rest(r) : x \in DOMAIN loads
  BY RequestBags
<1>15. ASSUME still.calm PROVE PageReached' /\ \A x \in DOMAIN Rest(r) : (Reached(x.cursor) /\ Finds(x))'
  <2>1. ListGrows /\ Reached(r.cursor) /\ Finds(r) /\ AllWait
    BY <1>15 DEF LobbyInv, ListGrows
  <2>2. AllWait'
    BY <1>2, <2>1 DEF AllWait
  <2>3. \A x \in DOMAIN Rest(r) : (Reached(x.cursor) /\ Finds(x))'
    BY <1>13, <1>14, <2>1, Widening DEF ListGrows
  <2>4. \A q \in still.rooms : q \in Nat
    BY <1>1, <1>4 DEF ListShape
  <2>5. \A q : OnPage(q)' <=> OnPage(q) \/ q \in Range(kept)
    BY <1>10, <1>12 DEF OnPage
  <2>6. r.cursor \in Nat
    <3>1. r.cursor \in PinNames
      BY <1>1 DEF Requests
    <3> DEFINE c == r.cursor
    <3>2. c \in PinNames
      BY <3>1
    <3> HIDE DEF c
    <3>3. c \in Nat
      BY <1>4, <3>2 DEF PinNames
    <3> QED
      BY <3>3 DEF c
  <2>7. ASSUME NEW q \in still.rooms
        PROVE  \/ OnPage(q)' \/ q \in Range(r.got)
               \/ Len(r.got) = Take + 1 /\ \A k \in DOMAIN r.got : r.got[k] > q
    <3>1. CASE r.cursor # 0 /\ q >= r.cursor
      BY <2>1, <2>5, <3>1 DEF Reached
    <3>2. CASE r.cursor = 0 \/ q < r.cursor
      BY <1>1, <1>3, <2>1, <3>2 DEF Finds
    <3> QED
      BY <2>4, <2>6, <3>1, <3>2
  <2>8. ASSUME more, NEW q \in still.rooms, q >= r.got[Take] PROVE OnPage(q)'
    <3>1. CASE q \in Range(r.got)
      <4>1. PICK k \in DOMAIN r.got : r.got[k] = q
        BY <3>1 DEF Range
      <4>2. k <= Take
        <5> SUFFICES ASSUME Take < k PROVE FALSE
          BY <1>3, <1>4
        <5>1. r.got[Take] > r.got[k]
          BY <1>3, <1>7, <2>8 DEF Falling
        <5>2. r.got[Take] \in Nat /\ q \in Nat
          BY <1>4, <1>7, <2>4, <2>8
        <5> QED
          BY <2>8, <4>1, <5>1, <5>2
      <4>3. k \in DOMAIN kept
        BY <1>3, <1>4, <1>5, <2>8, <4>2
      <4> QED
        BY <1>5, <2>5, <4>1, <4>3 DEF Range
    <3>2. CASE \A k \in DOMAIN r.got : r.got[k] > q
      <4>1. r.got[Take] > q /\ r.got[Take] \in Nat /\ q \in Nat
        BY <1>4, <1>7, <2>4, <2>8, <3>2
      <4> QED
        BY <2>8, <4>1
    <3> QED
      BY <2>7, <3>1, <3>2
  <2>9. ASSUME ~more, NEW q \in still.rooms PROVE OnPage(q)'
    <3>1. Len(r.got) # Take + 1
      BY <1>3, <1>4, <2>9
    <3>2. Range(r.got) = Range(kept)
      <4>1. DOMAIN kept = DOMAIN r.got
        BY <1>3, <1>5, <2>9
      <4> QED
        BY <1>5, <4>1 DEF Range
    <3> QED
      BY <2>5, <2>7, <3>1, <3>2
  <2>10. more => r.got[Take] \in DOMAIN open
    BY <1>3, <1>7, <2>1 DEF Finds
  <2> HIDE DEF more
  <2>11. (lobby.paging.more => Reached(lobby.paging.next))'
    BY <1>2, <1>8, <1>12, <2>8, <2>10 DEF Reached
  <2>12. (lobby.paging.known /\ ~lobby.paging.more => \A q \in still.rooms : OnPage(q))'
    BY <1>2, <1>8, <1>12, <2>9
  <2> QED
    BY <2>2, <2>3, <2>11, <2>12 DEF PageReached
<1>16. \A x \in DOMAIN Rest(r) : RequestShape(x)
  BY <1>14 DEF LobbyInv
<1>17. still' \in [rooms : SUBSET Pins, calm : BOOLEAN] /\ (still'.calm <=> still.calm)
  BY <1>1, <1>2 DEF ListShape
<1>18. l.paging.more => l.paging.next # 0
  BY <1>8, <1>11
<1> QED
  BY <1>1, <1>2, <1>10, <1>11, <1>15, <1>16, <1>17, <1>18, DrawnKeeps

(* A room is opened, starts, waits again or is gone: no request moves.      *)
LEMMA ChurnKeeps ==
  ASSUME LobbyInv, Churn
  PROVE  LobbyInv'
<1>1. PICK p \in Pins : OpenRoom(p) \/ TurnRoom(p) \/ CloseRoom(p)
  BY DEF Churn
<1>2. ListShape /\ \A r \in DOMAIN loads : RequestShape(r)
  BY DEF LobbyInv
<1>3. PICK S \in SUBSET Pins : open \in [S -> BOOLEAN]
  BY <1>2 DEF ListShape
<1>4. DOMAIN open = S
  BY <1>3
<1>5. UNCHANGED <<lobby, loads>>
  BY <1>1 DEF OpenRoom, TurnRoom, CloseRoom, Changed
<1>6. open' \in UNION {[T -> BOOLEAN] : T \in SUBSET Pins}
  <2>1. CASE OpenRoom(p)
    <3> DEFINE T == S \union {p}
    <3>1. open' = [q \in T |-> q = p \/ open[q]] /\ T \in SUBSET Pins
      BY <1>4, <2>1 DEF OpenRoom
    <3>2. \A q \in T : (q = p \/ open[q]) \in BOOLEAN
      OBVIOUS
    <3> HIDE DEF T
    <3>3. open' \in [T -> BOOLEAN]
      BY <3>1, <3>2
    <3> QED
      BY <3>1, <3>3
  <2>2. CASE TurnRoom(p)
    <3>1. open' = [open EXCEPT ![p] = ~open[p]] /\ (~open[p]) \in BOOLEAN
      BY <2>2 DEF TurnRoom
    <3>2. open' \in [S -> BOOLEAN]
      BY <1>3, <3>1
    <3> QED
      BY <1>3, <3>2
  <2>3. CASE CloseRoom(p)
    <3>1. open' \in [S \ {p} -> BOOLEAN]
      BY <1>3, <1>4, <2>3 DEF CloseRoom, Restrict
    <3> QED
      BY <1>3, <3>1
  <2> QED
    BY <1>1, <2>1, <2>2, <2>3
<1>7. still' \in [rooms : SUBSET Pins, calm : BOOLEAN] /\ (still'.calm => still.calm /\ OpenRoom(p) /\ still'.rooms = still.rooms)
  <2>1. still \in [rooms : SUBSET Pins, calm : BOOLEAN]
    BY <1>2 DEF ListShape
  <2>2. CASE OpenRoom(p)
    <3>1. still' = [rooms |-> still.rooms \ {}, calm |-> still.calm /\ TRUE]
      BY <2>2 DEF OpenRoom, Changed
    <3> QED
      BY <2>1, <2>2, <3>1
  <2>3. CASE TurnRoom(p) \/ CloseRoom(p)
    <3>1. still' = [rooms |-> still.rooms \ {p}, calm |-> still.calm /\ FALSE]
      BY <2>3 DEF TurnRoom, CloseRoom, Changed
    <3> QED
      BY <2>1, <3>1
  <2> QED
    BY <1>1, <2>2, <2>3
<1>8. ListShape'
  BY <1>2, <1>5, <1>6, <1>7 DEF ListShape
<1>9. ASSUME still'.calm PROVE ListGrows'
  <2>1. still.calm /\ still'.rooms = still.rooms /\ p \notin S /\ open' = [q \in S \union {p} |-> q = p \/ open[q]]
    BY <1>4, <1>7, <1>9 DEF OpenRoom
  <2>2. DOMAIN open' = S \union {p} /\ \A q \in S : open'[q] <=> open[q]
    BY <1>3, <2>1
  <2>3. open'[p]
    BY <2>1
  <2>4. ListGrows
    BY <2>1 DEF LobbyInv
  <2>5. AllWait'
    BY <1>4, <2>1, <2>2, <2>3, <2>4 DEF ListGrows, AllWait
  <2>6. Widens
    BY <1>4, <1>5, <2>1, <2>2 DEF Widens, OnPage
  <2>7. (\A r \in DOMAIN loads : Reached(r.cursor) /\ Finds(r))'
    BY <1>5, <2>4, <2>6, Widening DEF ListGrows
  <2>8. (lobby.paging.more => Reached(lobby.paging.next))'
    <3>1. lobby.paging.more => Reached(lobby.paging.next)
      BY <2>4 DEF ListGrows
    <3> QED
      BY <1>5, <2>6, <3>1, Widening
  <2>9. (lobby.paging.known /\ ~lobby.paging.more => \A q \in still.rooms : OnPage(q))'
    BY <1>5, <2>1, <2>4, <2>6 DEF ListGrows, Widens
  <2> QED
    BY <2>5, <2>7, <2>8, <2>9 DEF ListGrows
<1> QED
  BY <1>2, <1>5, <1>8, <1>9 DEF LobbyInv, RequestShape, Batch, Falling

(* The page is opened.                                                      *)
LEMMA LobbyInitial ==
  ASSUME LobbyInit
  PROVE  LobbyInv
<1>1. /\ open \in UNION {[S -> BOOLEAN] : S \in SUBSET Pins}
      /\ lobby = [rooms |-> << >>, paging |-> NoPaging, loading |-> TRUE] /\ loads = Firsts
      /\ still = [rooms |-> DOMAIN open, calm |-> \A p \in DOMAIN open : open[p]]
  BY DEF LobbyInit
<1>2. NoPaging \in Pagings /\ ~NoPaging.more /\ ~NoPaging.known /\ 0 \in PinNames
  BY DEF NoPaging, Pagings, PinNames
<1>3. << >> \in Seq(Pins) /\ IsInjective(<< >>)
  BY DEF IsInjective
<1>4. DOMAIN open \in SUBSET Pins /\ (\A p \in DOMAIN open : open[p]) \in BOOLEAN
  BY <1>1
<1>5. ListShape
  BY <1>1, <1>2, <1>3, <1>4 DEF ListShape
<1>6. \A x \in DOMAIN loads : x = FirstOf(0)
  <2>1. ASSUME NEW a, NEW b PROVE DOMAIN (a (+) b) = DOMAIN a \union DOMAIN b
    BY DEF (+)
  <2>2. DOMAIN Asked(0) = {FirstOf(0)}
    BY DEF Asked, FirstOf, SetToBag
  <2> QED
    BY <1>1, <2>1, <2>2 DEF Firsts
<1>7. RequestShape(FirstOf(0)) /\ FirstOf(0).cursor = 0 /\ FirstOf(0).at = "keys" /\ Batch(FirstOf(0)) = << >>
  <2>1. RequestShape(FirstOf(0))
    BY <1>2, FirstFacts
  <2>2. << >> \o << >> = << >>
    OBVIOUS
  <2> QED
    BY <2>1, <2>2 DEF FirstOf, Batch
<1>8. Reached(0) /\ Finds(FirstOf(0))
  <2>1. DOMAIN << >> = {} /\ Len(<< >>) = 0 /\ 0 <= Take + 1
    BY RoomListBounds
  <2> QED
    BY <1>7, <2>1 DEF Reached, Finds
<1>9. still.calm => AllWait
  BY <1>1 DEF AllWait
<1> QED
  BY <1>1, <1>2, <1>5, <1>6, <1>7, <1>8, <1>9 DEF LobbyInv, ListGrows

(* Every step of the site; only the topic of the list disturbs it.          *)
LEMMA LobbyStep ==
  ASSUME LobbyInv, [Next]_vars
  PROVE  LobbyInv'
<1>1. CASE topic = "lobby" /\ PageSteps
  BY <1>1, RefreshKeeps, ReadKeysKeeps, ReadRoomKeeps, ReplyKeeps, LoadFailsKeeps DEF PageSteps
<1>2. CASE topic = "lobby" /\ Churn
  BY <1>2, ChurnKeeps
<1>3. CASE UNCHANGED lobbies
  <2>1. UNCHANGED <<open, lobby, loads, still>>
    BY <1>3 DEF lobbies
  <2> QED
    BY <2>1 DEF LobbyInv, ListShape, ListGrows, RequestShape, Finds, Reached, AllWait, OnPage, Batch, Falling
<1>4. (topic = "lobby" /\ (PageSteps \/ Churn)) \/ UNCHANGED lobbies
  BY DEF Next, vars
<1> QED
  BY <1>1, <1>2, <1>3, <1>4

(* The invariant of the list, of every behaviour of the site.               *)
LEMMA LobbyInvariant == Spec => []LobbyInv
<1>1. Init => LobbyInv
  BY LobbyInitial DEF Init
<1>2. LobbyInv /\ [Next]_vars => LobbyInv'
  BY LobbyStep
<1> QED
  BY <1>1, <1>2, PTL DEF Spec

(* Once the requests have come to rest the list has no room twice and,      *)
(* while all wait and nobody refreshes in between, none of those that were  *)
(* there is missing, for any number of rooms, size of a page and order of   *)
(* the overlapping requests: a request from a cursor is sent only when all  *)
(* down to the cursor is on the list.                                       *)
THEOREM LobbyCompletes == Spec => []LobbySettles
<1>1. LobbyInv => LobbySettles
  BY DEF LobbyInv, ListShape, ListGrows, OnPage, LobbySettles
<1> QED
  BY <1>1, LobbyInvariant, PTL

-----------------------------------------------------------------------------
(* What the types say beyond the invariants: the form                       *)

Sized(qs) == Len(qs) \in 1..MaxQuizzes /\ \A i \in DOMAIN qs : Len(qs[i].choices) <= TooLong + 1
MarksShape(m) ==
  /\ m = [title |-> m.title, quiz |-> m.quiz, choice |-> m.choice]
  /\ m.title \in BOOLEAN /\ m.quiz \in 0..MaxQuizzes
FormSized == Sized(form.quizzes) /\ MarksShape(marks)

(* A form with a quiz in it, and nothing marked.                            *)
LEMMA FormsSized == Sized(Blank.quizzes) /\ Sized(Filled.quizzes) /\ MarksShape(NoMarks)
<1>1. TooLong \in Nat /\ TooLong >= 2 /\ MaxQuizzes \in Nat \ {0}
  BY FormInputs
<1>2. \A q : Len(<<q>>) = 1 /\ DOMAIN <<q>> = {1} /\ <<q>>[1] = q
  OBVIOUS
<1>3. Blank.quizzes = <<NewQuiz>> /\ Len(NewQuiz.choices) = 2
  BY DEF Blank, Mounted, NewQuiz
<1>4. Filled.quizzes = <<FilledQuiz>>
  BY DEF Filled
<1>5. Len(FilledQuiz.choices) = 3
  <2> DEFINE cs == [i \in 1..3 |-> [order |-> i, answer |-> i = 1, filled |-> TRUE]]
  <2>1. FilledQuiz.choices = cs
    BY DEF FilledQuiz
  <2>2. PICK n \in Nat : n = 3
    OBVIOUS
  <2>3. DOMAIN cs = 1..n
    BY <2>2
  <2> HIDE DEF cs
  <2>4. cs \in Seq(FormChoices)
    <3>1. <<FilledQuiz>> \in Seq(FormQuizzes) /\ 1 \in DOMAIN <<FilledQuiz>> /\ <<FilledQuiz>>[1] = FilledQuiz
      BY <1>2, <1>4, NewQuizzes DEF Forms
    <3> QED
      <4>1. \A q \in Seq(FormQuizzes) : \A i \in DOMAIN q : q[i] \in FormQuizzes
        OBVIOUS
      <4>2. FilledQuiz \in FormQuizzes
        BY <3>1, <4>1
      <4> QED
        BY <2>1, <4>2 DEF FormQuizzes
  <2> QED
    BY <2>1, <2>2, <2>3, <2>4
<1>6. MarksShape(NoMarks)
  BY <1>1 DEF MarksShape, NoMarks
<1>7. ASSUME NEW q, Len(q.choices) <= TooLong + 1 PROVE Sized(<<q>>)
  <2>1. Len(<<q>>) \in 1..MaxQuizzes
    BY <1>1, <1>2
  <2>2. \A i \in DOMAIN <<q>> : <<q>>[i] = q
    BY <1>2
  <2> QED
    BY <1>7, <2>1, <2>2 DEF Sized
<1>8. 2 <= TooLong + 1 /\ 3 <= TooLong + 1
  BY <1>1
<1> QED
  BY <1>3, <1>4, <1>5, <1>6, <1>7, <1>8

(* The choices of one quiz are replaced, and no more than there may be.     *)
LEMMA ChoicesSized ==
  ASSUME form \in Forms, Sized(Quizzes), NEW i \in DOMAIN Quizzes, NEW cs, Len(cs) <= TooLong + 1,
         form' = [form EXCEPT !.quizzes[i].choices = cs]
  PROVE  Sized(form'.quizzes)
<1>1. Quizzes \in Seq(FormQuizzes) /\ \A k \in DOMAIN Quizzes : Quizzes[k] \in FormQuizzes
  BY DEF Forms, Quizzes
<1> DEFINE q == [Quizzes[i] EXCEPT !.choices = cs]
<1>2. form'.quizzes = [Quizzes EXCEPT ![i] = q]
  BY DEF Forms, Quizzes
<1>3. q.choices = cs
  BY <1>1 DEF FormQuizzes
<1> HIDE DEF q
<1>4. Len(form'.quizzes) = Len(Quizzes) /\ DOMAIN form'.quizzes = DOMAIN Quizzes
  BY <1>1, <1>2
<1>5. \A k \in DOMAIN Quizzes : form'.quizzes[k] = IF k = i THEN q ELSE Quizzes[k]
  BY <1>1, <1>2
<1> QED
  BY <1>3, <1>4, <1>5 DEF Sized

(* No input makes the form larger than it may be.                           *)
LEMMA TypingSized == ASSUME FormInv, FormSized, Typing PROVE FormSized'
<1>0. /\ form \in Forms /\ Quizzes \in Seq(FormQuizzes) /\ \A i \in DOMAIN Quizzes : Quizzes[i] \in FormQuizzes
      /\ \A i \in DOMAIN Quizzes : ChoicesOf(i) \in Seq(FormChoices) /\ Len(ChoicesOf(i)) <= TooLong + 1
      /\ Sized(Quizzes) /\ MarksShape(marks) /\ form.quizzes = Quizzes
  BY DEF FormInv, FormSized, Forms, Quizzes, FormQuizzes, ChoicesOf, Sized
<1>1. TooLong \in Nat /\ TooLong >= 2 /\ MaxQuizzes \in Nat \ {0}
  BY FormInputs
<1>2. ASSUME NEW i \in DOMAIN Quizzes, NEW q, Len(q.choices) <= TooLong + 1, form' = [form EXCEPT !.quizzes[i] = q]
      PROVE  Sized(form'.quizzes)
  <2>1. form'.quizzes = [Quizzes EXCEPT ![i] = q]
    BY <1>0, <1>2 DEF Forms
  <2>2. DOMAIN form'.quizzes = DOMAIN Quizzes /\ \A k \in DOMAIN Quizzes : form'.quizzes[k] = IF k = i THEN q ELSE Quizzes[k]
    BY <1>0, <2>1
  <2>3. Len(form'.quizzes) = Len(Quizzes)
    <3>1. \A s \in Seq(FormQuizzes) : Len([s EXCEPT ![i] = q]) = Len(s)
      OBVIOUS
    <3> QED
      BY <1>0, <2>1, <3>1
  <2> QED
    BY <1>0, <1>2, <2>2, <2>3 DEF Sized
<1>3. ASSUME NEW field \in {"title", "category"}, NEW b \in BOOLEAN, Type(field, b) PROVE FormSized'
  <2>1. form'.quizzes = Quizzes
    BY <1>0, <1>3 DEF Type, Forms
  <2>2. MarksShape(marks')
    BY <1>0, <1>3 DEF Type, MarksShape
  <2> QED
    BY <1>0, <2>1, <2>2 DEF FormSized
<1>4. ASSUME NEW i \in DOMAIN Quizzes, NEW b \in BOOLEAN, TypeQuiz(i, b) PROVE FormSized'
  <2> DEFINE q == [Quizzes[i] EXCEPT !.filled = b]
  <2>1. form' = [form EXCEPT !.quizzes[i] = q]
    BY <1>4 DEF TypeQuiz, Quizzes
  <2>2. q.choices = ChoicesOf(i)
    BY <1>0 DEF FormQuizzes, ChoicesOf
  <2> HIDE DEF q
  <2>3. MarksShape(marks')
    BY <1>0, <1>1, <1>4 DEF TypeQuiz, MarksShape
  <2> QED
    BY <1>0, <1>2, <2>1, <2>2, <2>3 DEF FormSized
<1>5. ASSUME NEW i \in DOMAIN Quizzes, NEW typed \in Limits, TypeLimit(i, typed) PROVE FormSized'
  <2> DEFINE q == [Quizzes[i] EXCEPT !.limit = LimitOf(typed)]
  <2>1. form' = [form EXCEPT !.quizzes[i] = q] /\ marks' = marks
    BY <1>5 DEF TypeLimit, Quizzes
  <2>2. q.choices = ChoicesOf(i)
    BY <1>0 DEF FormQuizzes, ChoicesOf
  <2> HIDE DEF q
  <2> QED
    BY <1>0, <1>2, <2>1, <2>2 DEF FormSized
<1>6. ASSUME NEW i \in DOMAIN Quizzes, NEW j \in DOMAIN ChoicesOf(i), NEW b \in BOOLEAN, TypeChoice(i, j, b) PROVE FormSized'
  <2> DEFINE cs == [ChoicesOf(i) EXCEPT ![j].filled = b]
  <2>1. form' = [form EXCEPT !.quizzes[i].choices = cs]
    BY <1>6 DEF TypeChoice, Quizzes, ChoicesOf
  <2>2. Len(cs) = Len(ChoicesOf(i))
    BY <1>0
  <2> HIDE DEF cs
  <2>3. MarksShape(marks')
    BY <1>0, <1>6 DEF TypeChoice, MarksShape
  <2> QED
    BY <1>0, <2>1, <2>2, <2>3, ChoicesSized DEF FormSized
<1>7. ASSUME NEW i \in DOMAIN Quizzes, NEW j \in DOMAIN ChoicesOf(i), MarkAnswer(i, j) PROVE FormSized'
  <2> DEFINE cs == Marked(ChoicesOf(i), j)
  <2>1. form' = [form EXCEPT !.quizzes[i].choices = cs] /\ marks' = marks
    BY <1>7 DEF MarkAnswer, Quizzes, ChoicesOf
  <2>2. Len(cs) = Len(ChoicesOf(i))
    BY <1>0 DEF Marked
  <2> HIDE DEF cs
  <2> QED
    BY <1>0, <2>1, <2>2, ChoicesSized DEF FormSized
<1>8. ASSUME AddQuiz PROVE FormSized'
  <2> DEFINE qs == Append(Quizzes, NewQuiz)
  <2>1. form'.quizzes = qs /\ marks' = marks /\ Len(Quizzes) < MaxQuizzes
    BY <1>0, <1>8 DEF AddQuiz, Forms
  <2>2. /\ Len(Quizzes) \in Nat /\ Len(qs) = Len(Quizzes) + 1 /\ DOMAIN qs = 1..(Len(Quizzes) + 1)
        /\ qs[Len(Quizzes) + 1] = NewQuiz /\ DOMAIN Quizzes = 1..Len(Quizzes) /\ \A k \in DOMAIN Quizzes : qs[k] = Quizzes[k]
    BY <1>0
  <2>3. Len(NewQuiz.choices) = 2
    BY DEF NewQuiz
  <2> HIDE DEF qs
  <2>4. Sized(qs)
    <3>1. Len(qs) \in 1..MaxQuizzes
      BY <1>1, <2>1, <2>2
    <3>2. ASSUME NEW k \in DOMAIN qs PROVE Len(qs[k].choices) <= TooLong + 1
      <4>1. CASE k = Len(Quizzes) + 1
        <5>1. qs[k] = NewQuiz /\ 2 <= TooLong + 1
          BY <1>1, <2>2, <4>1
        <5> QED
          BY <2>3, <5>1
      <4>2. CASE k \in DOMAIN Quizzes
        BY <1>0, <2>2, <4>2 DEF Sized
      <4> QED
        BY <2>2, <4>1, <4>2
    <3> QED
      BY <3>1, <3>2 DEF Sized
  <2> QED
    BY <1>0, <2>1, <2>4 DEF FormSized
<1>9. ASSUME NEW i \in DOMAIN Quizzes, RemoveQuiz(i) PROVE FormSized'
  <2> DEFINE qs == RemoveAt(Quizzes, i)
  <2>1. form'.quizzes = Mounted(qs) /\ marks' = marks /\ Len(Quizzes) > 1
    BY <1>0, <1>9 DEF RemoveQuiz, Forms
  <2>2. /\ qs \in Seq(FormQuizzes) /\ Len(qs) = Len(Quizzes) - 1 /\ Len(Quizzes) \in Nat /\ DOMAIN Quizzes = 1..Len(Quizzes)
        /\ \A k \in 1..(Len(Quizzes) - 1) : qs[k] = IF k < i THEN Quizzes[k] ELSE Quizzes[k + 1]
    BY <1>0, Removed
  <2> HIDE DEF qs
  <2>3. DOMAIN qs = 1..(Len(Quizzes) - 1) /\ qs # << >>
    BY <2>1, <2>2
  <2>4. \A k \in DOMAIN qs : Len(qs[k].choices) <= TooLong + 1
    <3> SUFFICES ASSUME NEW k \in 1..(Len(Quizzes) - 1) PROVE Len(qs[k].choices) <= TooLong + 1
      BY <2>3
    <3>1. k \in DOMAIN Quizzes /\ k + 1 \in DOMAIN Quizzes /\ (qs[k] = Quizzes[k] \/ qs[k] = Quizzes[k + 1])
      BY <2>2
    <3> QED
      BY <1>0, <3>1 DEF Sized
  <2>5. Sized(qs)
    BY <1>0, <1>1, <2>1, <2>2, <2>4 DEF Sized
  <2>6. Mounted(qs) = qs
    BY <2>3 DEF Mounted
  <2> QED
    BY <1>0, <2>1, <2>5, <2>6 DEF FormSized
<1>10. ASSUME NEW i \in DOMAIN Quizzes, AddChoice(i) PROVE FormSized'
  <2> DEFINE old == ChoicesOf(i)
             c == NewChoice(Len(old) + 1, FALSE)
             cs == Append(old, c)
  <2>1. form' = [form EXCEPT !.quizzes[i].choices = cs] /\ marks' = marks /\ Len(old) <= TooLong /\ old \in Seq(FormChoices)
    BY <1>0, <1>10 DEF AddChoice, Quizzes, ChoicesOf
  <2> HIDE DEF old, c
  <2>2. Len(cs) = Len(old) + 1 /\ Len(old) \in Nat
    BY <2>1
  <2> HIDE DEF cs
  <2>3. Len(cs) <= TooLong + 1
    BY <1>1, <2>1, <2>2
  <2> QED
    BY <1>0, <2>1, <2>3, ChoicesSized DEF FormSized
<1>11. ASSUME NEW i \in DOMAIN Quizzes, NEW j \in DOMAIN ChoicesOf(i), RemoveChoice(i, j) PROVE FormSized'
  <2> DEFINE old == ChoicesOf(i)
             cs == RemoveAt(old, j)
  <2>1. form' = [form EXCEPT !.quizzes[i].choices = cs] /\ marks' = marks /\ old \in Seq(FormChoices) /\ Len(old) <= TooLong + 1
    BY <1>0, <1>11 DEF RemoveChoice, Quizzes, ChoicesOf
  <2>2. Len(cs) = Len(old) - 1 /\ Len(old) \in Nat
    BY <1>0, <2>1, Removed
  <2> HIDE DEF cs, old
  <2>3. Len(cs) <= TooLong + 1
    BY <1>1, <2>1, <2>2
  <2> QED
    BY <1>0, <2>1, <2>3, ChoicesSized DEF FormSized
<1>12. ASSUME Submit PROVE FormSized'
  <2>1. BlankQuiz \in 0..MaxQuizzes
    <3> DEFINE S == {i \in DOMAIN Quizzes : ~Quizzes[i].filled}
    <3>1. S \in SUBSET Nat /\ S \subseteq 1..MaxQuizzes
      BY <1>0, <1>1 DEF Sized
    <3>2. CASE S = {}
      BY <1>1, <3>2 DEF BlankQuiz, First
    <3>3. CASE S # {}
      <4>1. \E m \in S : \A k \in S : m <= k
        BY <3>1, <3>3, LeastNat
      <4>2. Min(S) \in S
        BY <4>1 DEF Min
      <4> QED
        BY <3>1, <3>3, <4>2 DEF BlankQuiz, First
    <3> QED
      BY <3>2, <3>3
  <2>2. form' = form
    BY <1>12 DEF Submit
  <2>3. MarksShape(marks')
    BY <1>0, <1>12, <2>1 DEF Submit, MarksShape
  <2> QED
    BY <1>0, <2>2, <2>3 DEF FormSized
<1> QED
  BY <1>3, <1>4, <1>5, <1>6, <1>7, <1>8, <1>9, <1>10, <1>11, <1>12 DEF Typing

-----------------------------------------------------------------------------
(* What the types say beyond the invariants: the board, and who was told    *)

(* Before the first quiz nothing is shown; the board has a place.           *)
BoardPlaced ==
  /\ game.shown = 0 => game.options = << >> /\ game.answer = 0
  /\ board.pos \in (0..Grain) \X (0..Grain) /\ board.selected \in Int /\ board.clicked \in BOOLEAN

(* Once there is a quiz it is one of the game, and the answer one of its    *)
(* choices.                                                                 *)
LEMMA ShownTyped ==
  ASSUME CatalogInv, Current, BoardInv, game.shown # 0
  PROVE  /\ game.shown \in 1..Len(game.quizzes) /\ Len(game.options) \in Nat
         /\ game.answer \in 1..Len(game.options)
<1> DEFINE qs == sets[game.set].quizzes
           q == qs[game.shown]
           S == [limit : Nat, choices : Seq([order : Nat, answer : BOOLEAN])]
<1>1. /\ game.set \in Ids /\ game.quizzes = [i \in DOMAIN qs |-> RedisQuiz(qs[i])] /\ game.shown \in DOMAIN qs
      /\ game.options \in Shuffles(RedisQuiz(q).keys) /\ game.answer = PlaceOf(game.options, RedisQuiz(q).answer)
  BY DEF BoardInv, AsStored, Shuffled
<1>2. qs \in Seq(S)
  <2>1. sets[game.set] \in SetRows
    BY <1>1 DEF CatalogInv, CatalogShape, Ids
  <2> QED
    BY <2>1 DEF SetRows, QuizRows
<1>3. AllPlayable(qs)
  BY <1>1 DEF CatalogInv, Current, StoredPlayable
<1> HIDE DEF qs, S
<1>4. q \in S /\ Playable(q) /\ Len(qs) \in Nat /\ DOMAIN qs = 1..Len(qs)
  BY <1>1, <1>2, <1>3 DEF AllPlayable
<1>5. Len(game.quizzes) = Len(qs)
  BY <1>1, <1>4
<1> HIDE DEF q
<1>6. RedisQuiz(q).keys = Keys(q) /\ RedisQuiz(q).answer = AnswerOf(q)
  BY DEF RedisQuiz
<1>7. /\ Len(game.options) = Len(q.choices) /\ DOMAIN game.options = 1..Len(q.choices)
      /\ \A key \in Keys(q) : \E i \in DOMAIN game.options : game.options[i] = key
  BY <1>1, <1>4, <1>6, Dealing DEF S
<1>8. Len(q.choices) \in Nat
  BY <1>4 DEF S
<1>9. \E i \in DOMAIN game.options : game.options[i] = AnswerOf(q)
  BY <1>4, <1>7, AnswerMarked DEF S
<1>10. PlaceOf(game.options, AnswerOf(q)) \in DOMAIN game.options
  BY <1>9 DEF PlaceOf
<1> QED
  BY <1>1, <1>4, <1>5, <1>6, <1>7, <1>8, <1>10

(* With that the table is as its type says.                                 *)
LEMMA BoardTyped ==
  ASSUME CatalogInv, Current, BoardInv, BoardPlaced
  PROVE  BoardTypeOK
<1>1. game.left \subseteq DOMAIN game.quizzes /\ Len(game.quizzes) \in Nat
  <2>1. CASE game = NoGame
    BY <2>1 DEF NoGame
  <2>2. CASE game # NoGame
    <3> DEFINE qs == sets[game.set].quizzes
    <3>1. /\ game.set \in Ids /\ game.quizzes = [i \in DOMAIN qs |-> RedisQuiz(qs[i])]
          /\ game.left \subseteq DOMAIN game.quizzes
      BY <2>2 DEF BoardInv, AsStored
    <3>2. qs \in QuizRows
      <4>1. sets[game.set] \in SetRows
        BY <3>1 DEF CatalogInv, CatalogShape, Ids
      <4> QED
        BY <4>1 DEF SetRows
    <3>3. Len(qs) \in Nat /\ DOMAIN qs = 1..Len(qs)
      BY <3>2 DEF QuizRows
    <3> HIDE DEF qs
    <3>4. Len(game.quizzes) = Len(qs)
      BY <3>1, <3>3
    <3> QED
      BY <3>1, <3>3, <3>4
  <2> QED
    BY <2>1, <2>2
<1>2. game.shown \in 0..Len(game.quizzes) /\ game.answer \in 0..Len(game.options)
  <2>1. CASE game.shown = 0
    BY <1>1, <2>1 DEF BoardPlaced
  <2>2. CASE game.shown # 0
    BY <1>1, <2>2, ShownTyped
  <2> QED
    BY <2>1, <2>2
<1> QED
  BY <1>1, <1>2 DEF BoardPlaced, BoardTypeOK

(* The place a click highlights is a number.                                *)
LEMMA OptionTyped ==
  ASSUME NEW n \in Nat, NEW x \in 0..Grain, NEW y \in 0..Grain
  PROVE  OptionAt(x, y, n) \in Int
<1>1. Grain \in Nat \ {0} /\ x \in Int /\ y \in Int
  BY BoardGrain
<1> DEFINE h == (n + 1) \div 2
           c == y * h
           d == 2 * x + Grain
           e == 2 * Grain
<1>2. h \in Int /\ d \in Int /\ e \in Int /\ e > 0
  BY <1>1
<1> HIDE DEF h
<1>3. c \in Int
  BY <1>1, <1>2
<1>4. OptionAt(x, y, n) = d \div e + (c \div Grain) * 2
  BY DEF OptionAt, Rounded, Halves, h
<1> HIDE DEF c, d, e
<1>5. c \div Grain \in Int /\ d \div e \in Int
  BY <1>1, <1>2, <1>3
<1> QED
  BY <1>4, <1>5

(* Games start, quizzes are dealt and the board is clicked.                 *)
LEMMA AuthorPlaced ==
  ASSUME CatalogInv, Current, BoardInv, BoardPlaced, Authoring, \A i \in DOMAIN game.quizzes : i # 0
  PROVE  BoardPlaced'
<1>1. ASSUME UNCHANGED table PROVE BoardPlaced'
  BY <1>1 DEF table, BoardPlaced
<1>2. CASE Plays
  <2>1. PICK h \in Hosts : Launch(starts[h].id, starts[h].copy.quizzes)
    BY <1>2 DEF Plays
  <2>2. game'.options = << >> /\ game'.answer = 0 /\ board' = board
    BY <2>1 DEF Launch, NoGame
  <2> QED
    BY <2>2 DEF BoardPlaced
<1>3. CASE Dealt
  <2>1. PICK q \in game.left : \E options \in Shuffles(game.quizzes[q].keys) : Deal(q, options)
    BY <1>3 DEF Dealt
  <2>2. game # NoGame
    BY DEF NoGame
  <2>3. q # 0
    BY <2>2 DEF BoardInv, AsStored
  <2>4. game'.shown = q
    BY <2>1 DEF Deal, BoardInv, BoardShape
  <2>5. board'.pos = board.pos /\ board'.selected = board.selected /\ board'.clicked = FALSE
    <3>1. board = [pos |-> board.pos, selected |-> board.selected, clicked |-> board.clicked]
      BY DEF BoardInv, BoardShape
    <3>2. board' = [board EXCEPT !.clicked = FALSE]
      BY <2>1 DEF Deal
    <3> QED
      BY <3>1, <3>2
  <2> QED
    BY <2>3, <2>4, <2>5 DEF BoardPlaced
<1>4. CASE Clicked
  <2>1. PICK x \in 0..Grain, y \in 0..Grain : Click(x, y)
    BY <1>4 DEF Clicked
  <2>2. /\ board' = [pos |-> <<y, x>>, clicked |-> TRUE, selected |-> OptionAt(x, y, Len(game.options))]
        /\ game' = game /\ game.shown # 0
    BY <2>1 DEF Click
  <2>3. OptionAt(x, y, Len(game.options)) \in Int
    BY <2>2, ShownTyped, OptionTyped
  <2> QED
    BY <2>2, <2>3 DEF BoardPlaced
<1>5. CASE Writing /\ UNCHANGED table
  BY <1>1, <1>5
<1>6. CASE Leaves \/ Starting
  BY <1>1, <1>6 DEF Leaves, Starting
<1> QED
  BY <1>2, <1>3, <1>4, <1>5, <1>6 DEF Authoring

(* A sign-up is of what was entered, and so is what was told of.            *)
ToldEntered ==
  told \subseteq Credentials /\ \A i \in DOMAIN posts : posts[i].ask = "signup" => posts[i].c \in Credentials

(* Only a sign-up adds to those who were told.                              *)
LEMMA AccountsTold == ASSUME AccountInv, ToldEntered, AccountSteps PROVE ToldEntered'
<1>0. posts \in Seq(AccountPosts) /\ Len(posts) \in Nat /\ DOMAIN posts = 1..Len(posts)
      /\ \A i \in DOMAIN posts : posts[i] \in AccountPosts
  BY DEF AccountInv, AccountShape
<1> DEFINE Same(ps) == DOMAIN ps = DOMAIN posts /\ \A i \in DOMAIN posts : ps[i].ask = posts[i].ask /\ ps[i].c = posts[i].c
<1>1. ASSUME told' = told, Same(posts') PROVE ToldEntered'
  BY <1>1 DEF ToldEntered
<1>2. ASSUME NEW t, NEW from, NEW ask, NEW c, Post(t, ask, from, c), ask = "signup" => c \in Credentials PROVE ToldEntered'
  <2> DEFINE p == [ask |-> ask, from |-> from, tab |-> t, c |-> c, at |-> "sent", answer |-> NoAnswer]
  <2>1. p.ask = ask /\ p.c = c /\ posts' = Append(posts, p) /\ told' = told
    BY <1>2 DEF Post
  <2> HIDE DEF p
  <2>2. DOMAIN posts' = 1..(Len(posts) + 1) /\ \A i \in DOMAIN posts' : posts'[i] = IF i = Len(posts) + 1 THEN p ELSE posts[i]
    <3>1. \A s \in Seq(AccountPosts) : LET s1 == Append(s, p) IN
            DOMAIN s1 = 1..(Len(s) + 1) /\ \A i \in DOMAIN s1 : s1[i] = IF i = Len(s) + 1 THEN p ELSE s[i]
      OBVIOUS
    <3> QED
      BY <1>0, <2>1, <3>1
  <2> QED
    BY <1>0, <1>2, <2>1, <2>2 DEF ToldEntered
<1>3. ASSUME NEW ps, Same(ps), \A i \in DOMAIN ps : ps[i] \in AccountPosts, NEW t PROVE Same(Forgotten(ps, t))
  <2>1. \A i \in DOMAIN ps : [ps[i] EXCEPT !.tab = Nobody].ask = ps[i].ask /\ [ps[i] EXCEPT !.tab = Nobody].c = ps[i].c
    BY <1>3 DEF AccountPosts
  <2> QED
    BY <1>3, <2>1 DEF Forgotten
<1>4. ASSUME NEW i \in DOMAIN posts PROVE Same(Over(i)) /\ \A k \in DOMAIN Over(i) : Over(i)[k] \in AccountPosts
  <2>1. [posts[i] EXCEPT !.at = "over"] \in AccountPosts /\ [posts[i] EXCEPT !.at = "over"].ask = posts[i].ask
        /\ [posts[i] EXCEPT !.at = "over"].c = posts[i].c
    BY <1>0 DEF AccountPosts
  <2>2. DOMAIN Over(i) = DOMAIN posts
        /\ \A k \in DOMAIN posts : Over(i)[k] = IF k = i THEN [posts[i] EXCEPT !.at = "over"] ELSE posts[k]
    BY DEF Over
  <2> QED
    BY <1>0, <2>1, <2>2
<1>5. ASSUME NEW i \in DOMAIN posts, NEW t, Answered(i, t) PROVE Same(posts')
  <2> DEFINE p == [[posts[i] EXCEPT !.at = "answered"] EXCEPT !.answer = t]
  <2>1. p.ask = posts[i].ask /\ p.c = posts[i].c
    BY <1>0 DEF AccountPosts
  <2>2. DOMAIN posts' = DOMAIN posts /\ \A k \in DOMAIN posts : posts'[k] = IF k = i THEN p ELSE posts[k]
    BY <1>5 DEF Answered
  <2> HIDE DEF p
  <2> QED
    BY <2>1, <2>2
<1>6. Same(posts)
  OBVIOUS
<1> HIDE DEF Same
<1>7. ASSUME NEW t \in Tabs, ModalLogin(t) \/ ModalSignUp(t) \/ PageLogin(t) \/ PageSignUp(t) PROVE ToldEntered'
  BY <1>2, <1>7 DEF ModalLogin, ModalSignUp, PageLogin, PageSignUp
<1>8. ASSUME NEW t \in Tabs, ToMain(t) \/ HandleQuizCreate(t) PROVE ToldEntered'
  BY <1>1, <1>6, <1>8 DEF ToMain, HandleQuizCreate
<1>9. ASSUME NEW t \in Tabs, ToLogin(t) \/ RefreshMain(t) \/ HandleLogout(t) PROVE ToldEntered'
  <2>1. told' = told /\ posts' = Forgotten(posts, t)
    BY <1>9 DEF ToLogin, RefreshMain, HandleLogout
  <2> QED
    BY <1>0, <1>1, <1>3, <1>6, <2>1
<1>10. ASSUME NEW i \in DOMAIN posts, ServeLogin(i) PROVE ToldEntered'
  <2>1. told' = told /\ \E t : Answered(i, t)
    BY <1>10 DEF ServeLogin
  <2> QED
    BY <1>1, <1>5, <2>1
<1>11. ASSUME NEW i \in DOMAIN posts, ServeSignup(i) PROVE ToldEntered'
  <2>1. told' = told /\ \E t : Answered(i, t)
    BY <1>11 DEF ServeSignup
  <2> QED
    BY <1>1, <1>5, <2>1
<1>12. ASSUME NEW i \in DOMAIN posts, Fails(i) PROVE ToldEntered'
  BY <1>1, <1>4, <1>12 DEF Fails
<1>13. ASSUME NEW i \in DOMAIN posts, SignedIn(i) PROVE ToldEntered'
  <2>1. told' = told /\ (posts' = Over(i) \/ posts' = Forgotten(Over(i), posts[i].tab))
    BY <1>13 DEF SignedIn, PageSignedIn, ModalSignedIn
  <2> QED
    BY <1>1, <1>3, <1>4, <2>1
<1>14. ASSUME NEW i \in DOMAIN posts, SignedUp(i) PROVE ToldEntered'
  <2>1. told' = told \union {posts[i].c} /\ posts' = Over(i) /\ posts[i].ask = "signup"
    BY <1>14 DEF SignedUp
  <2> QED
    BY <1>4, <2>1 DEF ToldEntered, Same
<1> QED
  BY <1>7, <1>8, <1>9, <1>10, <1>11, <1>12, <1>13, <1>14 DEF AccountSteps

-----------------------------------------------------------------------------
(* What the types say beyond the invariants: the requests are not too many  *)

(* The copies of the elements of a bag, numbered.                           *)
EachOf(B, S) == {p \in S \X Nat : p[2] \in 1..B[p[1]]}
FiniteBag(B) == IsFiniteSet(DOMAIN B) /\ B \in [DOMAIN B -> Nat \ {0}]

(* Of finite sets, one has no smaller one among them.                       *)
LEMMA SmallestOf ==
  ASSUME NEW D, NEW B \in SUBSET FiniteSubsetsOf(D), B # {}
  PROVE  \E S \in B : \A T \in B : T \subseteq S => T = S
<1>1. PICK S \in B : \A T \in B : <<T, S>> \notin StrictSubsetOrdering(D)
  BY FS_StrictSubsetOrderingWellFounded, WFMin
<1>2. ASSUME NEW T \in B, T \subseteq S, T # S PROVE FALSE
  BY <1>1, <1>2 DEF StrictSubsetOrdering, FiniteSubsetsOf
<1> QED
  BY <1>2

(* Without one of the elements there are fewer copies, by its number.       *)
LEMMA EachLess ==
  ASSUME NEW B, FiniteBag(B), NEW S, S \subseteq DOMAIN B, NEW x \in S, IsFiniteSet(EachOf(B, S \ {x}))
  PROVE  /\ IsFiniteSet(EachOf(B, S))
         /\ Cardinality(EachOf(B, S)) = B[x] + Cardinality(EachOf(B, S \ {x}))
<1> DEFINE R == EachOf(B, S \ {x})
           X == {x} \X (1..B[x])
<1>1. B[x] \in Nat \ {0}
  BY DEF FiniteBag
<1>2. EachOf(B, S) = R \union X
  BY <1>1 DEF EachOf
<1>3. R \intersect X = {}
  BY DEF EachOf
<1>4. IsFiniteSet(1..B[x]) /\ Cardinality(1..B[x]) = B[x]
  <2>1. 1 \in Int /\ B[x] \in Int
    BY <1>1
  <2>2. IsFiniteSet(1..B[x]) /\ Cardinality(1..B[x]) = IF 1 > B[x] THEN 0 ELSE B[x] - 1 + 1
    BY <2>1, FS_Interval
  <2> QED
    BY <1>1, <2>2
<1>5. IsFiniteSet(X) /\ Cardinality(X) = B[x]
  <2>1. IsFiniteSet({x}) /\ Cardinality({x}) = 1
    BY FS_Singleton
  <2>2. IsFiniteSet(X) /\ Cardinality(X) = 1 * B[x]
    BY <1>4, <2>1, FS_Product
  <2> QED
    BY <1>1, <2>2
<1> HIDE DEF R, X
<1>6. IsFiniteSet(R)
  BY DEF R
<1>7. IsFiniteSet(R \union X) /\ Cardinality(R \union X) = Cardinality(R) + Cardinality(X) - Cardinality(R \intersect X)
  BY <1>5, <1>6, FS_Union
<1>8. Cardinality(R \intersect X) = 0 /\ Cardinality(R) \in Nat
  BY <1>3, <1>6, FS_EmptySet, FS_CardinalityType
<1> QED
  BY <1>1, <1>2, <1>5, <1>7, <1>8 DEF R

(* There are finitely many.                                                 *)
LEMMA EachFinite ==
  ASSUME NEW B, FiniteBag(B)
  PROVE  \A S \in SUBSET DOMAIN B : IsFiniteSet(EachOf(B, S))
<1> DEFINE Bad == {S \in FiniteSubsetsOf(DOMAIN B) : ~IsFiniteSet(EachOf(B, S))}
<1>1. \A S \in SUBSET DOMAIN B : IsFiniteSet(S) /\ S \in FiniteSubsetsOf(DOMAIN B)
  BY FS_Subset DEF FiniteBag, FiniteSubsetsOf
<1> SUFFICES ASSUME Bad # {} PROVE FALSE
  BY <1>1
<1>2. PICK S \in Bad : \A T \in Bad : T \subseteq S => T = S
  <2>1. Bad \in SUBSET FiniteSubsetsOf(DOMAIN B)
    OBVIOUS
  <2> HIDE DEF Bad
  <2> QED
    BY <2>1, SmallestOf
<1>3. S \subseteq DOMAIN B /\ ~IsFiniteSet(EachOf(B, S))
  BY <1>2 DEF FiniteSubsetsOf
<1>4. S # {}
  <2>1. EachOf(B, {}) = {}
    BY DEF EachOf
  <2> QED
    BY <1>3, <2>1, FS_EmptySet
<1>5. PICK x \in S : TRUE
  BY <1>4
<1>6. IsFiniteSet(EachOf(B, S \ {x}))
  BY <1>1, <1>2, <1>3, <1>5
<1> QED
  BY <1>3, <1>5, <1>6, EachLess

(* BagCardinality counts the copies.                                        *)
LEMMA BagCounts ==
  ASSUME NEW B, FiniteBag(B)
  PROVE  BagCardinality(B) = Cardinality(EachOf(B, DOMAIN B))
<1> DEFINE D == DOMAIN B
           any(S) == CHOOSE e \in S : TRUE
           Sums(g) == g = [S \in SUBSET D |-> IF S = {} THEN 0 ELSE B[any(S)] + g[S \ {any(S)}]]
           h == CHOOSE g : Sums(g)
           c == [S \in SUBSET D |-> Cardinality(EachOf(B, S))]
<1>1. BagCardinality(B) = h[D]
  BY DEF BagCardinality
<1>2. \A S \in SUBSET D : S # {} => any(S) \in S
  OBVIOUS
<1> HIDE DEF any
<1>3. \A S \in SUBSET D : c[S] = IF S = {} THEN 0 ELSE B[any(S)] + c[S \ {any(S)}]
  <2> SUFFICES ASSUME NEW S \in SUBSET D PROVE c[S] = IF S = {} THEN 0 ELSE B[any(S)] + c[S \ {any(S)}]
    OBVIOUS
  <2>1. CASE S = {}
    <3>1. EachOf(B, {}) = {}
      BY DEF EachOf
    <3> QED
      BY <2>1, <3>1, FS_EmptySet
  <2>2. CASE S # {}
    <3>1. S \ {any(S)} \in SUBSET D /\ any(S) \in S
      BY <1>2, <2>2
    <3>2. IsFiniteSet(EachOf(B, S \ {any(S)}))
      BY <3>1, EachFinite
    <3>3. Cardinality(EachOf(B, S)) = B[any(S)] + Cardinality(EachOf(B, S \ {any(S)}))
      BY <3>1, <3>2, EachLess
    <3> QED
      BY <2>2, <3>1, <3>3
  <2> QED
    BY <2>1, <2>2
<1>4. c = [S \in SUBSET D |-> c[S]]
  OBVIOUS
<1>5. c[D] = Cardinality(EachOf(B, DOMAIN B))
  OBVIOUS
<1> HIDE DEF c
<1>6. Sums(c)
  BY <1>3, <1>4
<1>7. Sums(h)
  BY <1>6
<1> HIDE DEF h
<1>8. \A S \in SUBSET D : h[S] = c[S]
  <2> DEFINE Bad == {S \in FiniteSubsetsOf(D) : h[S] # c[S]}
  <2>1. \A S \in SUBSET D : IsFiniteSet(S) /\ S \in FiniteSubsetsOf(D)
    BY FS_Subset DEF FiniteBag, FiniteSubsetsOf
  <2> SUFFICES ASSUME Bad # {} PROVE FALSE
    BY <2>1
  <2>2. PICK S \in Bad : \A T \in Bad : T \subseteq S => T = S
    <3>1. Bad \in SUBSET FiniteSubsetsOf(D)
      OBVIOUS
    <3> HIDE DEF Bad
    <3> QED
      BY <3>1, SmallestOf
  <2>3. S \in SUBSET D /\ h[S] # c[S]
    BY <2>2 DEF FiniteSubsetsOf
  <2>4. S # {}
    <3>1. h[{}] = 0 /\ c[{}] = 0
      BY <1>6, <1>7
    <3> QED
      BY <2>3, <3>1
  <2>5. any(S) \in S /\ S \ {any(S)} \in SUBSET D
    BY <1>2, <2>3, <2>4
  <2>6. h[S \ {any(S)}] = c[S \ {any(S)}]
    BY <2>1, <2>2, <2>5
  <2>7. h[S] = B[any(S)] + h[S \ {any(S)}] /\ c[S] = B[any(S)] + c[S \ {any(S)}]
    BY <1>6, <1>7, <2>3, <2>4
  <2> QED
    BY <2>3, <2>6, <2>7
<1> QED
  BY <1>1, <1>5, <1>8

(* One more copy.                                                           *)
LEMMA OneMore ==
  ASSUME NEW B, FiniteBag(B), NEW s
  PROVE  FiniteBag(B (+) SetToBag({s})) /\ BagCardinality(B (+) SetToBag({s})) = BagCardinality(B) + 1
<1> DEFINE n == IF s \in DOMAIN B THEN B[s] ELSE 0
           A == B (+) SetToBag({s})
           E == EachOf(B, DOMAIN B)
<1>1. n \in Nat /\ (s \in DOMAIN B => n \in Nat \ {0})
  BY DEF FiniteBag
<1>2. A = [e \in DOMAIN B \union {s} |-> IF e = s THEN n + 1 ELSE B[e]]
  <2>1. A = [e \in DOMAIN B \union {s} |-> (IF e \in DOMAIN B THEN B[e] ELSE 0) + (IF e \in {s} THEN 1 ELSE 0)]
    BY DEF (+), SetToBag
  <2>2. \A e \in DOMAIN B \union {s} :
          (IF e \in DOMAIN B THEN B[e] ELSE 0) + (IF e \in {s} THEN 1 ELSE 0) = IF e = s THEN n + 1 ELSE B[e]
    <3>1. \A e \in DOMAIN B : B[e] \in Nat
      BY DEF FiniteBag
    <3> QED
      BY <3>1
  <2> HIDE DEF A, n
  <2> QED
    BY <2>1, <2>2
<1> HIDE DEF A, n
<1>3. DOMAIN A = DOMAIN B \union {s} /\ \A e \in DOMAIN A : A[e] = IF e = s THEN n + 1 ELSE B[e]
  BY <1>2
<1>4. FiniteBag(A)
  <2>1. IsFiniteSet(DOMAIN A)
    BY <1>3, FS_AddElement DEF FiniteBag
  <2>2. A \in [DOMAIN A -> Nat \ {0}]
    BY <1>1, <1>2 DEF FiniteBag
  <2> QED
    BY <2>1, <2>2 DEF FiniteBag
<1>5. EachOf(A, DOMAIN A) = E \union {<<s, n + 1>>} /\ <<s, n + 1>> \notin E
  <2>1. \A p : p \in EachOf(A, DOMAIN A) <=> p \in E \/ p = <<s, n + 1>>
    <3> SUFFICES ASSUME NEW e, NEW k \in Nat
                 PROVE  <<e, k>> \in EachOf(A, DOMAIN A) <=> <<e, k>> \in E \/ (e = s /\ k = n + 1)
      BY <1>1, <1>3 DEF EachOf
    <3>1. <<e, k>> \in EachOf(A, DOMAIN A) <=> e \in DOMAIN A /\ k \in 1..A[e]
      BY DEF EachOf
    <3>2. <<e, k>> \in E <=> e \in DOMAIN B /\ k \in 1..B[e]
      BY DEF EachOf
    <3>3. CASE e = s
      BY <1>1, <1>3, <3>1, <3>2, <3>3 DEF n
    <3>4. CASE e # s
      BY <1>3, <3>1, <3>2, <3>4
    <3> QED
      BY <3>3, <3>4
  <2>2. <<s, n + 1>> \notin E
    BY <1>1 DEF EachOf, n
  <2> QED
    BY <2>1, <2>2
<1>6. IsFiniteSet(E)
  BY EachFinite
<1> HIDE DEF E
<1>7. Cardinality(EachOf(A, DOMAIN A)) = Cardinality(E) + 1
  BY <1>5, <1>6, FS_AddElement
<1>8. BagCardinality(A) = Cardinality(EachOf(A, DOMAIN A))
  BY <1>4, BagCounts
<1>9. BagCardinality(B) = Cardinality(E)
  BY BagCounts DEF E
<1> QED
  BY <1>4, <1>7, <1>8, <1>9 DEF A

(* One copy less.                                                           *)
LEMMA OneLess ==
  ASSUME FiniteBag(loads), NEW r \in DOMAIN loads
  PROVE  FiniteBag(Rest(r)) /\ BagCardinality(Rest(r)) = BagCardinality(loads) - 1
<1> DEFINE A == Rest(r)
           n == loads[r]
           E == EachOf(loads, DOMAIN loads)
           B == [e \in DOMAIN loads |-> IF e = r THEN n - 1 ELSE loads[e]]
<1>1. n \in Nat \ {0} /\ \A e \in DOMAIN loads : loads[e] \in Nat \ {0}
  BY DEF FiniteBag
<1>2. A = [e \in {d \in DOMAIN B : B[d] > 0} |-> B[e]]
  <2> DEFINE C == [e \in DOMAIN loads |-> IF e \in DOMAIN SetToBag({r}) THEN loads[e] - SetToBag({r})[e] ELSE loads[e]]
  <2>1. A = [e \in {d \in DOMAIN C : C[d] > 0} |-> C[e]]
    BY DEF Rest, (-)
  <2>2. DOMAIN SetToBag({r}) = {r} /\ SetToBag({r})[r] = 1
    BY DEF SetToBag
  <2>3. C = B
    BY <2>2
  <2> HIDE DEF A, B, C
  <2> QED
    BY <2>1, <2>3
<1> HIDE DEF A, n
<1>3. /\ \A e : e \in DOMAIN A <=> e \in DOMAIN loads /\ (e = r => n # 1)
      /\ \A e \in DOMAIN A : A[e] = IF e = r THEN n - 1 ELSE loads[e]
  <2>1. DOMAIN B = DOMAIN loads /\ \A e \in DOMAIN loads : B[e] = IF e = r THEN n - 1 ELSE loads[e]
    OBVIOUS
  <2> HIDE DEF B
  <2>2. DOMAIN A = {d \in DOMAIN B : B[d] > 0} /\ \A e \in DOMAIN A : A[e] = B[e]
    BY <1>2
  <2>3. \A e \in DOMAIN loads : B[e] > 0 <=> (e = r => n # 1)
    BY <1>1, <2>1
  <2> QED
    BY <2>1, <2>2, <2>3
<1>4. A = [e \in DOMAIN A |-> A[e]]
  BY <1>2
<1> HIDE DEF B
<1>5. FiniteBag(A)
  <2>1. DOMAIN A \subseteq DOMAIN loads
    BY <1>3
  <2>2. IsFiniteSet(DOMAIN A)
    BY <2>1, FS_Subset DEF FiniteBag
  <2>3. \A e \in DOMAIN A : A[e] \in Nat \ {0}
    BY <1>1, <1>3
  <2> QED
    BY <1>4, <2>2, <2>3 DEF FiniteBag
<1>6. EachOf(A, DOMAIN A) = E \ {<<r, n>>} /\ <<r, n>> \in E
  <2>1. \A p : p \in EachOf(A, DOMAIN A) <=> p \in E /\ p # <<r, n>>
    <3> SUFFICES ASSUME NEW e, NEW k \in Nat
                 PROVE  <<e, k>> \in EachOf(A, DOMAIN A) <=> <<e, k>> \in E /\ ~(e = r /\ k = n)
      BY DEF EachOf
    <3>1. <<e, k>> \in EachOf(A, DOMAIN A) <=> e \in DOMAIN A /\ k \in 1..A[e]
      BY DEF EachOf
    <3>2. <<e, k>> \in E <=> e \in DOMAIN loads /\ k \in 1..loads[e]
      BY DEF EachOf
    <3>3. CASE e = r
      BY <1>1, <1>3, <3>1, <3>2, <3>3 DEF n
    <3>4. CASE e # r
      BY <1>3, <3>1, <3>2, <3>4
    <3> QED
      BY <3>3, <3>4
  <2>2. <<r, n>> \in E
    BY <1>1 DEF EachOf, n
  <2> QED
    BY <2>1, <2>2
<1>7. IsFiniteSet(E)
  BY EachFinite
<1> HIDE DEF E
<1>8. Cardinality(EachOf(A, DOMAIN A)) = Cardinality(E) - 1
  BY <1>6, <1>7, FS_RemoveElement
<1>9. BagCardinality(A) = Cardinality(EachOf(A, DOMAIN A))
  BY <1>5, BagCounts
<1>10. BagCardinality(loads) = Cardinality(E)
  BY BagCounts DEF E
<1> QED
  BY <1>5, <1>8, <1>9, <1>10 DEF A

(* The requests of the page of the lobby.                                   *)
LoadsOK == FiniteBag(loads) /\ BagCardinality(loads) <= MaxLoads

(* Two finite bags together are one.                                        *)
LEMMA BagsJoin ==
  ASSUME NEW A, NEW B, FiniteBag(A), FiniteBag(B)
  PROVE  FiniteBag(A (+) B)
<1> DEFINE n(e) == (IF e \in DOMAIN A THEN A[e] ELSE 0) + (IF e \in DOMAIN B THEN B[e] ELSE 0)
<1>1. A (+) B = [e \in DOMAIN A \union DOMAIN B |-> n(e)]
  BY DEF (+)
<1>2. \A e \in DOMAIN A \union DOMAIN B : n(e) \in Nat \ {0}
  <2>1. (\A e \in DOMAIN A : A[e] \in Nat \ {0}) /\ \A e \in DOMAIN B : B[e] \in Nat \ {0}
    BY DEF FiniteBag
  <2> QED
    BY <2>1
<1>3. IsFiniteSet(DOMAIN A \union DOMAIN B)
  BY FS_Union DEF FiniteBag
<1> HIDE DEF n
<1> QED
  BY <1>1, <1>2, <1>3 DEF FiniteBag

(* Two requests for the first page.                                         *)
LEMMA FirstTwo == FiniteBag(Firsts) /\ BagCardinality(Firsts) = 2
<1> DEFINE x == [at |-> "keys", cursor |-> 0, todo |-> << >>, got |-> << >>]
           B == SetToBag({x})
<1>1. Firsts = B (+) SetToBag({x})
  BY DEF Firsts, Asked
<1> HIDE DEF x
<1>2. FiniteBag(B) /\ DOMAIN B = {x} /\ B[x] = 1
  BY FS_Singleton DEF FiniteBag, SetToBag
<1>3. EachOf(B, DOMAIN B) = {<<x, 1>>}
  BY <1>2 DEF EachOf
<1>4. BagCardinality(B) = 1
  BY <1>2, <1>3, BagCounts, FS_Singleton
<1> HIDE DEF B
<1> QED
  BY <1>1, <1>2, <1>4, OneMore

(* So is a request for any page.                                            *)
LEMMA AskedFinite == \A c : FiniteBag(Asked(c))
<1> SUFFICES ASSUME NEW c PROVE FiniteBag(Asked(c))
  OBVIOUS
<1> DEFINE x == [at |-> "keys", cursor |-> c, todo |-> << >>, got |-> << >>]
<1>1. Asked(c) = SetToBag({x})
  BY DEF Asked
<1> HIDE DEF x
<1>2. DOMAIN SetToBag({x}) = {x} /\ SetToBag({x}) \in [{x} -> Nat \ {0}]
  BY DEF SetToBag
<1>3. IsFiniteSet({x})
  BY FS_Singleton
<1> QED
  BY <1>1, <1>2, <1>3 DEF FiniteBag

(* The page begins with two requests.                                       *)
LEMMA LoadsFirst == LobbyInit => LoadsOK
  BY FirstTwo, RoomListBounds DEF LobbyInit, LoadsOK

(* What the page sends when it is drawn it sends only if there is room.     *)
LEMMA LoadsDrawn == ASSUME NEW l, NEW rest, FiniteBag(rest), Drawn(l, rest) PROVE LoadsOK'
<1>1. BagCardinality(loads') <= MaxLoads
  BY DEF Drawn
<1>2. loads' \in {rest, rest (+) Firsts, rest (+) Firsts (+) Asked(l.paging.next)}
  BY DEF Drawn
<1>3. FiniteBag(rest (+) Firsts)
  BY FirstTwo, BagsJoin
<1>4. FiniteBag(Asked(l.paging.next))
  BY AskedFinite
<1>5. FiniteBag(rest (+) Firsts (+) Asked(l.paging.next))
  BY <1>3, <1>4, BagsJoin
<1> QED
  BY <1>1, <1>2, <1>3, <1>5 DEF LoadsOK, FiniteBag

(* One request less leaves room for one.                                    *)
LEMMA LoadsRest ==
  ASSUME LoadsOK, NEW r \in DOMAIN loads
  PROVE  FiniteBag(Rest(r)) /\ BagCardinality(Rest(r)) + 1 \in Nat /\ BagCardinality(Rest(r)) + 1 <= MaxLoads
<1>1. BagCardinality(loads) \in Nat
  BY BagCounts, EachFinite, FS_CardinalityType DEF LoadsOK
<1>2. FiniteBag(Rest(r)) /\ BagCardinality(Rest(r)) = BagCardinality(loads) - 1
  BY OneLess DEF LoadsOK
<1>3. BagCardinality(Rest(r)) + 1 = BagCardinality(loads)
  BY <1>1, <1>2
<1> QED
  BY <1>1, <1>2, <1>3 DEF LoadsOK

(* A request that goes on is still one request.                             *)
LEMMA LoadsProgress == ASSUME LoadsOK, NEW r \in DOMAIN loads, NEW s, Progress(r, s) PROVE LoadsOK'
<1> DEFINE A == Rest(r)
<1>1. FiniteBag(A) /\ BagCardinality(A) + 1 <= MaxLoads
  BY LoadsRest
<1>2. loads' = A (+) SetToBag({s})
  BY DEF Progress
<1> HIDE DEF A
<1>3. FiniteBag(A (+) SetToBag({s})) /\ BagCardinality(A (+) SetToBag({s})) = BagCardinality(A) + 1
  BY <1>1, OneMore
<1> QED
  BY <1>1, <1>2, <1>3 DEF LoadsOK, FiniteBag

(* No step of the lobby makes the requests too many.                        *)
LEMMA LoadsStep == ASSUME LoadsOK, PageSteps \/ Churn PROVE LoadsOK'
<1>1. CASE Refresh
  BY <1>1, LoadsDrawn DEF Refresh, LoadsOK
<1>2. ASSUME NEW r \in DOMAIN loads, ReadKeys(r) PROVE LoadsOK'
  <2>1. \E s : Progress(r, s)
    BY <1>2 DEF ReadKeys
  <2> QED
    BY <2>1, LoadsProgress
<1>3. ASSUME NEW r \in DOMAIN loads, ReadRoom(r) PROVE LoadsOK'
  <2>1. \E s : Progress(r, s)
    BY <1>3 DEF ReadRoom
  <2> QED
    BY <2>1, LoadsProgress
<1>4. ASSUME NEW r \in DOMAIN loads, Reply(r) PROVE LoadsOK'
  <2>1. \E l : Drawn(l, Rest(r))
    BY <1>4 DEF Reply
  <2> QED
    BY <2>1, LoadsDrawn, LoadsRest
<1>5. ASSUME NEW r \in DOMAIN loads, LoadFails(r) PROVE LoadsOK'
  <2>1. CASE \E l : Drawn(l, Rest(r))
    BY <2>1, LoadsDrawn, LoadsRest
  <2>2. CASE loads' = Rest(r)
    <3> DEFINE n == BagCardinality(Rest(r))
    <3>1. FiniteBag(Rest(r)) /\ n + 1 \in Nat /\ n + 1 <= MaxLoads
      BY LoadsRest
    <3>2. n \in Nat
      BY <3>1, BagCounts, EachFinite, FS_CardinalityType
    <3>3. MaxLoads \in Nat
      BY RoomListBounds
    <3>4. BagCardinality(loads') = n /\ FiniteBag(loads')
      BY <2>2, <3>1 DEF FiniteBag
    <3> HIDE DEF n
    <3> QED
      BY <3>1, <3>2, <3>3, <3>4 DEF LoadsOK, FiniteBag
  <2> QED
    BY <1>5, <2>1, <2>2 DEF LoadFails
<1>6. CASE Churn
  <2>1. UNCHANGED loads
    BY <1>6 DEF Churn, OpenRoom, TurnRoom, CloseRoom, Changed
  <2> QED
    BY <2>1 DEF LoadsOK, FiniteBag
<1> QED
  BY <1>1, <1>2, <1>3, <1>4, <1>5, <1>6 DEF PageSteps

-----------------------------------------------------------------------------
(* Every part of the site has its type                                      *)

(* What the invariants of the parts leave open.                             *)
TypeInv ==
  /\ topic \in Topics /\ FormSized /\ LoadsOK /\ ToldEntered /\ BoardPlaced
  /\ topic # "author" => game = NoGame

(* Each part starts with its type, the others at rest.                      *)
LEMMA TypesInitial == Init => TypeInv
<1> SUFFICES ASSUME Init PROVE TypeInv
  OBVIOUS
<1>1. FormSized
  BY FormsSized DEF Init, FormInit, FormSized
<1>2. LoadsOK
  BY LoadsFirst DEF Init
<1>3. ToldEntered
  BY DEF Init, AccountInit, ToldEntered
<1>4. BoardPlaced
  <2>1. Grain \in Nat /\ game = NoGame /\ board = NoPlace
    BY BoardGrain DEF Init, BoardInit
  <2>2. board.pos = <<0, 0>> /\ board.selected = -1 /\ board.clicked = FALSE /\ 0 \in 0..Grain
    BY <2>1 DEF NoPlace
  <2>3. game.options = << >> /\ game.answer = 0
    BY <2>1 DEF NoGame
  <2>4. board.pos \in (0..Grain) \X (0..Grain) /\ board.selected \in Int /\ board.clicked \in BOOLEAN
    <3>1. <<0, 0>> \in (0..Grain) \X (0..Grain) /\ -1 \in Int
      BY <2>2
    <3> QED
      BY <2>2, <3>1
  <2> QED
    BY <2>3, <2>4 DEF BoardPlaced
<1> QED
  BY <1>1, <1>2, <1>3, <1>4 DEF Init, TypeInv, BoardInit

(* The author's form keeps its size, and emptied it has one quiz.           *)
LEMMA AuthorSized == ASSUME FormInv, FormSized, Authoring PROVE FormSized'
<1>1. ASSUME UNCHANGED <<form, marks>> PROVE FormSized'
  BY <1>1 DEF FormSized, Sized, MarksShape
<1>2. ASSUME form' = Blank, marks' \in {marks, NoMarks} PROVE FormSized'
  <2>1. Sized(form'.quizzes)
    BY <1>2, FormsSized
  <2>2. MarksShape(marks')
    BY <1>2, FormsSized DEF FormSized
  <2> QED
    BY <2>1, <2>2 DEF FormSized
<1>3. CASE Writing
  BY <1>1, <1>2, <1>3, TypingSized DEF Writing, Served, Refused, TimedOut
<1>4. CASE Leaves
  BY <1>2, <1>4 DEF Leaves
<1>5. CASE Starting \/ Plays \/ Dealt \/ Clicked
  BY <1>1, <1>5 DEF Starting, Plays, Dealt, Clicked, page
<1> QED
  BY <1>3, <1>4, <1>5 DEF Authoring

(* The quizzes of a game are numbered from one.                             *)
LEMMA NumberedFromOne == ASSUME CatalogInv, BoardInv PROVE \A i \in DOMAIN game.quizzes : i # 0
<1>1. CASE game = NoGame
  BY <1>1 DEF NoGame
<1>2. CASE game # NoGame
  <2> DEFINE qs == sets[game.set].quizzes
  <2>1. game.set \in Ids /\ DOMAIN game.quizzes = DOMAIN qs
    BY <1>2 DEF BoardInv, AsStored
  <2>2. sets[game.set] \in SetRows
    BY <2>1 DEF CatalogInv, CatalogShape, Ids
  <2>3. qs \in QuizRows
    BY <2>2 DEF SetRows
  <2> HIDE DEF qs
  <2> QED
    BY <2>1, <2>3 DEF QuizRows
<1> QED
  BY <1>1, <1>2

(* Each topic's step keeps it, and leaves the other parts alone.            *)
LEMMA TypesStep == SiteInv /\ TypeInv /\ [Next]_vars => TypeInv'
<1> SUFFICES ASSUME SiteInv, TypeInv, [Next]_vars PROVE TypeInv'
  OBVIOUS
<1> DEFINE Sizes == form' = form /\ marks' = marks
           Bags == loads' = loads
           Tells == told' = told /\ posts' = posts
           Plates == game' = game /\ board' = board
<1>1. (Sizes => FormSized') /\ (Bags => LoadsOK') /\ (Tells => ToldEntered') /\ (Plates => BoardPlaced')
  BY DEF TypeInv, FormSized, Sized, MarksShape, LoadsOK, FiniteBag, ToldEntered, BoardPlaced
<1>2. topic' = topic
  BY DEF Next, vars, others
<1>3. CASE topic = "author" /\ Authoring /\ UNCHANGED <<picker, lobbies, others>>
  <2>1. Bags /\ Tells
    BY <1>3 DEF lobbies, others, accounts
  <2>2. FormSized'
    BY <1>3, AuthorSized DEF SiteInv, TypeInv
  <2>3. BoardPlaced'
    BY <1>3, AuthorPlaced, NumberedFromOne DEF SiteInv, TypeInv
  <2> QED
    BY <1>1, <1>2, <1>3, <2>1, <2>2, <2>3 DEF TypeInv
<1>4. CASE topic \in {"browse", "start"} /\ UNCHANGED <<page, table, lobbies, others>>
  BY <1>1, <1>2, <1>4 DEF TypeInv, page, table, lobbies, others, accounts
<1>5. CASE topic = "lobby" /\ (PageSteps \/ Churn) /\ UNCHANGED <<catalog, page, picker, table, others>>
  <2>1. Sizes /\ Tells /\ Plates
    BY <1>5 DEF page, table, others, accounts
  <2>2. LoadsOK'
    BY <1>5, LoadsStep DEF TypeInv
  <2> QED
    BY <1>1, <1>2, <1>5, <2>1, <2>2 DEF TypeInv
<1>6. CASE topic = "account" /\ AccountSteps /\ UNCHANGED <<catalog, page, picker, table, lobbies, visit, show, topic>>
  <2>1. Sizes /\ Bags /\ Plates
    BY <1>6 DEF page, table, lobbies
  <2>2. ToldEntered'
    BY <1>6, AccountsTold DEF SiteInv, TypeInv
  <2> QED
    BY <1>1, <1>2, <1>6, <2>1, <2>2 DEF TypeInv
<1>7. CASE topic \in {"visit", "show"} /\ UNCHANGED <<page, table, lobbies, accounts, topic>>
  BY <1>1, <1>2, <1>7 DEF TypeInv, page, table, lobbies, accounts
<1>8. CASE UNCHANGED vars
  BY <1>1, <1>2, <1>8 DEF TypeInv, vars, page, table, lobbies, others, accounts
<1> QED
  BY <1>3, <1>4, <1>5, <1>6, <1>7, <1>8 DEF Next, Caching

(* In every behaviour.                                                      *)
LEMMA TypesInvariant == Spec => []TypeInv
BY TypesInitial, TypesStep, SiteInvariant, PTL DEF Spec

(* From the invariants: the stored sets and the copies, ...                 *)
LEMMA CatalogTyped == CatalogInv => CatalogTypeOK
<1> SUFFICES ASSUME CatalogInv PROVE CatalogTypeOK
  OBVIOUS
<1>1. sets \in Seq(SetRows) /\ Len(sets) \in Nat /\ Len(sets) <= MaxSets /\ MaxSets \in Nat
  BY CatalogBounds DEF CatalogInv, CatalogShape
<1>2. ASSUME NEW id \in DOMAIN cache PROVE cache[id].left \in 0..TTL
  BY DEF CatalogInv, CatalogShape
<1>3. ASSUME NEW h \in Hosts
      PROVE  starts[h].at \in {"idle", "row", "list", "choices", "set", "ready"} /\ starts[h].id \in 0..Len(sets)
  <2>1. starts[h] \in Starts
    BY DEF CatalogInv, CatalogShape
  <2>2. starts[h].id = 0 \/ starts[h].id \in 1..Len(sets)
    BY <1>1, <2>1 DEF CatalogInv, StartYoung, Idle, Ids
  <2> QED
    BY <1>1, <2>1, <2>2 DEF Starts
<1> QED
  BY <1>1, <1>2, <1>3 DEF CatalogTypeOK

(* ... the form, ...                                                        *)
LEMMA FormTyped == FormInv /\ FormSized => FormTypeOK
<1> SUFFICES ASSUME FormInv, FormSized PROVE FormTypeOK
  OBVIOUS
<1>1. form \in Forms /\ Quizzes \in Seq(FormQuizzes) /\ Sized(Quizzes) /\ MarksShape(marks)
  BY DEF FormInv, FormSized, Forms, Quizzes
<1>2. ASSUME NEW i \in DOMAIN Quizzes PROVE Len(ChoicesOf(i)) \in 2..(TooLong + 1)
  <2>1. Quizzes[i] \in FormQuizzes /\ Len(ChoicesOf(i)) <= TooLong + 1
    BY <1>1 DEF Sized, ChoicesOf
  <2>2. ChoicesOf(i) \in Seq(FormChoices) /\ Len(ChoicesOf(i)) >= 2
    BY <2>1 DEF FormQuizzes, Choosable, ChoicesOf
  <2>3. Len(ChoicesOf(i)) \in Nat /\ TooLong \in Nat
    BY <2>2, FormInputs
  <2> QED
    BY <2>1, <2>2, <2>3
<1> QED
  BY <1>1, <1>2 DEF FormTypeOK, Forms, Sized, MarksShape

(* ... the picker, ...                                                      *)
LEMMA PickerTyped == PickerInv => PickerTypeOK
<1> SUFFICES ASSUME PickerInv PROVE PickerTypeOK
  OBVIOUS
<1>1. PickerShape /\ pages \in Seq(PageRows)
  BY DEF PickerInv, PagesInOrder
<1>2. picked.count \in 0..picked.max
  BY <1>1 DEF PickerShape
<1> QED
  BY <1>1, <1>2 DEF PickerShape, PickerTypeOK, Fetches

(* ... the board, whatever the topic, ...                                   *)
LEMMA BoardAllTyped == SiteInv /\ TypeInv => BoardTypeOK
<1> SUFFICES ASSUME SiteInv, TypeInv PROVE BoardTypeOK
  OBVIOUS
<1>1. CASE topic = "author"
  BY <1>1, BoardTyped DEF SiteInv, TypeInv
<1>2. CASE topic # "author"
  <2>1. game.left = {} /\ game.quizzes = << >> /\ game.shown = 0 /\ game.options = << >> /\ game.answer = 0
    BY <1>2 DEF TypeInv, NoGame
  <2>2. Len(<< >>) = 0 /\ 0 \in 0..0
    OBVIOUS
  <2> QED
    BY <2>1, <2>2 DEF TypeInv, BoardPlaced, BoardTypeOK
<1> QED
  BY <1>1, <1>2

(* ... the lobby, ...                                                       *)
LEMMA LobbyTyped == LobbyInv /\ LoadsOK => LobbyTypeOK
<1> SUFFICES ASSUME LobbyInv, LoadsOK PROVE LobbyTypeOK
  OBVIOUS
<1>1. DOMAIN open \subseteq Pins /\ \A p \in DOMAIN open : open[p] \in BOOLEAN
  BY DEF LobbyInv, ListShape
<1>2. /\ lobby.rooms \in Seq(Pins) /\ lobby.loading \in BOOLEAN /\ lobby.paging.next \in Pins \union {0}
      /\ lobby.paging.more => lobby.paging.next # 0
  BY DEF LobbyInv, ListShape, Pagings, PinNames
<1>3. \A r \in DOMAIN loads : r.at \in {"keys", "rooms", "reply"}
  BY DEF LobbyInv, RequestShape, Requests
<1> QED
  BY <1>1, <1>2, <1>3 DEF LobbyTypeOK, LoadsOK

(* ... the tab of a visitor, ...                                            *)
LEMMA VisitTyped == VisitInv => VisitTypeOK
<1> SUFFICES ASSUME VisitInv PROVE VisitTypeOK
  OBVIOUS
<1>1. TabShape(tab) /\ Existing \subseteq rooms /\ rooms \subseteq Rooms
  BY DEF VisitInv, VisitShape
<1>2. tab \in BrowserTabs
  BY <1>1 DEF TabShape
<1>3. ASSUME NEW s \in DOMAIN tab.sockets PROVE tab.sockets[s].at \in {"connecting", "connected", "joined", "closed"}
  <2>1. tab.sockets \in Seq(SocketStates)
    BY <1>2 DEF BrowserTabs
  <2>2. tab.sockets[s] \in SocketStates
    BY <2>1
  <2> QED
    BY <2>2 DEF SocketStates
<1>4. tab.page \in Pages \union {Pin(r) : r \in Rooms} /\ tab.gameId \in Rooms \union {NoRoom} /\ tab.chosen \in BOOLEAN
  BY <1>2 DEF BrowserTabs, AllPages, RoomNames
<1> QED
  BY <1>1, <1>3, <1>4 DEF VisitTypeOK, TabShape

(* ... the accounts, ...                                                    *)
LEMMA AccountTyped == AccountInv /\ ToldEntered => AccountTypeOK
<1> SUFFICES ASSUME AccountInv, ToldEntered PROVE AccountTypeOK
  OBVIOUS
<1>1. users \in Seq(AccountRows) /\ posts \in Seq(AccountPosts) /\ tabs \in [Tabs -> TabStates]
  BY DEF AccountInv, AccountShape
<1>2. ASSUME NEW i \in DOMAIN users PROVE users[i] \in Credentials \union {Guest}
  <2>1. users[i] \in AccountRows
    BY <1>1
  <2> QED
    BY <2>1 DEF AccountRows
<1>3. ASSUME NEW i \in DOMAIN posts PROVE posts[i].at \in {"sent", "answered", "over"} /\ posts[i].tab \in Tabs \union {Nobody}
  <2>1. posts[i] \in AccountPosts
    BY <1>1
  <2> QED
    BY <2>1 DEF AccountPosts
<1>4. ASSUME NEW t \in Tabs
      PROVE  tabs[t].at \in {"main", "login", "form"} /\ {tabs[t].shown, tabs[t].calm} \subseteq BOOLEAN
  BY <1>1 DEF TabStates
<1>5. token = NoToken \/ token.sub \in DOMAIN users
  BY DEF AccountInv, Issued, Opens
<1> QED
  BY <1>2, <1>3, <1>4, <1>5 DEF AccountTypeOK, ToldEntered

(* One quiz more is no more than all of them.                               *)
LEMMA MostOfAll == ASSUME ShowShape PROVE Most \in Int /\ Most <= Pot * Questions /\ Pot * Questions \in Nat
<1>1. Pot \in Nat \ {0} /\ Questions \in Nat \ {0}
  BY ScreenBounds
<1>2. ASSUME NEW n \in 0..(Questions - 1)
      PROVE  Pot * n \in Int /\ Pot * n + Pot <= Pot * Questions
  <2>1. PICK d \in Nat : Questions = n + 1 + d
    <3>1. Questions - n - 1 \in Nat /\ Questions = n + 1 + (Questions - n - 1)
      BY <1>1
    <3> QED
      BY <3>1
  <2>2. Pot * (n + 1 + d) = Pot * n + Pot + Pot * d
    BY <1>1
  <2>3. Pot * d \in Nat /\ Pot * n \in Nat
    BY <1>1
  <2> QED
    BY <1>1, <2>1, <2>2, <2>3
<1>3. Pot * Questions \in Nat
  BY <1>1
<1>4. CASE event \in {"question", "result"}
  <2>1. num \in 0..(Questions - 1)
    BY <1>4 DEF ShowShape
  <2> DEFINE m == Pot * num
             all == Pot * Questions
  <2>2. m \in Int /\ m + Pot <= all /\ all \in Nat
    BY <1>2, <1>3, <2>1
  <2>3. Most = m \/ Most = m + Pot
    BY <1>4 DEF Most
  <2> HIDE DEF m, all
  <2>4. Most \in Int /\ Most <= all
    BY <1>1, <2>2, <2>3
  <2> QED
    BY <1>3, <2>4 DEF all
<1>5. CASE event \in {"lobby", "start"}
  BY <1>3, <1>5 DEF Most
<1> QED
  BY <1>4, <1>5 DEF ShowShape

(* ... and the screen.                                                      *)
LEMMA ScreenTyped == ShowInv => ScreenTypeOK
<1> SUFFICES ASSUME ShowInv PROVE ScreenTypeOK
  OBVIOUS
<1>1. ShowShape /\ Always /\ Bounded
  BY DEF ShowInv
<1>2. Questions \in Nat \ {0}
  BY ScreenBounds
<1>3. num \in -1..(Questions - 1)
  BY <1>1, <1>2 DEF ShowShape
<1>4. screen.quiz \in NoQuiz..(Questions - 1)
  BY <1>1, <1>2, <1>3 DEF Always, NoQuiz
<1>5. ASSUME NEW p \in Present PROVE stage.points[p] \in 0..(Pot * Questions)
  <2> DEFINE all == Pot * Questions
             pts == stage.points[p]
  <2>1. pts \in Nat
    BY <1>1, ShowParts
  <2>2. pts <= Most
    BY <1>1 DEF Bounded
  <2>3. Most \in Int /\ Most <= all /\ all \in Nat
    BY <1>1, MostOfAll
  <2> HIDE DEF all, pts
  <2>4. pts \in 0..all
    BY <2>1, <2>2, <2>3
  <2> QED
    BY <2>4 DEF all, pts
<1>6. Present \subseteq Audience /\ Me \in Present /\ OnList \subseteq Audience /\ turns \in 0..MaxTurns
  BY <1>1, ShowParts DEF ShowShape
<1> QED
  BY <1>3, <1>4, <1>5, <1>6 DEF ScreenTypeOK

(* The state of every part of the site is of its type, for any number of    *)
(* sets, quizzes, rooms, sockets, accounts and players: a form has two      *)
(* choices or more in each quiz and never more than addChoice lets it have  *)
(* (QuizSetupPage), a start is of a set there is, the lobby has no more     *)
(* requests than may be, and nobody more points than the quizzes bring.     *)
THEOREM SiteTypes == Spec => []TypeOK
<1>1. SiteInv /\ BrowseInv /\ VisitInv /\ ShowInv /\ LobbyInv /\ TypeInv => TypeOK
  <2> SUFFICES ASSUME SiteInv, BrowseInv, VisitInv, ShowInv, LobbyInv, TypeInv PROVE TypeOK
    OBVIOUS
  <2>1. CatalogTypeOK /\ FormTypeOK
    BY CatalogTyped, FormTyped DEF SiteInv, TypeInv
  <2>2. PickerTypeOK /\ BoardTypeOK
    BY PickerTyped, BoardAllTyped DEF BrowseInv
  <2>3. LobbyTypeOK /\ VisitTypeOK
    BY LobbyTyped, VisitTyped DEF TypeInv
  <2>4. AccountTypeOK /\ ScreenTypeOK
    BY AccountTyped, ScreenTyped DEF SiteInv, TypeInv
  <2> QED
    BY <2>1, <2>2, <2>3, <2>4 DEF TypeOK, TypeInv
<1> QED
  BY <1>1, SiteInvariant, BrowseInvariant, VisitInvariant, ShowInvariant, LobbyInvariant, TypesInvariant, PTL
=============================================================================
