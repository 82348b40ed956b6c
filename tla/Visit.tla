------------------------------- MODULE Visit -------------------------------
(***************************************************************************)
(* One tab of a browser: the pages, the SocketService they share, and the  *)
(* sockets it opened.  connect() stops at pickServer and goes on without   *)
(* looking again, and disconnect() leaves a socket alone that is not       *)
(* connected yet; both happen while the user moves between the pages.      *)
(***************************************************************************)
EXTENDS Naturals, SequencesExt, FiniteSetsExt

CONSTANTS
  Rooms,      (* numbers of rooms                                            *)
  Existing,   (* rooms there are from the start                              *)
  MaxSockets, (* bound: sockets of the tab                                   *)
  MaxInputs   (* bound: what the user does                                   *)

ASSUME VisitBounds == Existing \subseteq Rooms /\ Rooms \subseteq Nat \ {0} /\ {MaxSockets, MaxInputs} \subseteq Nat \ {0}

VARIABLES
  tab,        (* page; gameId of useRoomStore; socket, chosen (a url is set)
                 and handlers (handlerMap) of the SocketService; waiting: the
                 calls of connect() that wait for pickServer; sockets        *)
  rooms,      (* the rooms of the server                                     *)
  calm,       (* history: the user waited for every attempt to connect to end,
                 used no history of the browser, and no creator reconnected  *)
  inputs      (* bound: inputs used                                          *)

visit == <<tab, rooms, calm, inputs>>

NoRoom == 0
CreateRoom == NoRoom             \* the query of a socket: create-room, or the room to join
PageAt(at, room) == [at |-> at, room |-> room]
Main == PageAt("main", NoRoom)
Game(r) == PageAt("game", r)
Pin(r) == PageAt("pin", r)         \* with the number typed so far
NotFound == PageAt("not found", NoRoom)
Pages == {Main, PageAt("setup", NoRoom), PageAt("lobby", NoRoom), Pin(NoRoom), NotFound} \union {Game(r) : r \in Rooms}

-----------------------------------------------------------------------------
(* Handlers, told apart by the event and by the page whose values they see  *)

Handler(event, page) == [on |-> event, of |-> page]
App == PageAt("app", NoRoom)
AppHandlers == {Handler("createRoom", App), Handler("disconnect", App)}

PageHandlers(page) ==
  CASE page.at = "setup" -> {Handler("createRoom", page), Handler("exception", page)}
    [] page.at = "pin"   -> {Handler("joinRoom", page), Handler("exception", page)}
    [] page.at = "game"  -> {Handler("exception", page)}
    [] OTHER -> {}

On(t, hs) ==
  IF t.socket = 0 THEN [t EXCEPT !.handlers = @ \union hs]
  ELSE [t EXCEPT !.handlers = @ \union hs, !.sockets[t.socket].handlers = @ \union hs]

(* Fault: the handler stays in the map and is put on the next socket.       *)
OffSocketOnly(t, hs) == IF t.socket = 0 THEN t ELSE [t EXCEPT !.sockets[t.socket].handlers = @ \ hs]
Off(t, hs) ==
  IF t.socket = 0 THEN [t EXCEPT !.handlers = @ \ hs]
  ELSE [t EXCEPT !.handlers = @ \ hs, !.sockets[t.socket].handlers = @ \ hs]

-----------------------------------------------------------------------------
(* SocketService                                                            *)

IsActive(t) == t.socket # 0 /\ t.sockets[t.socket].at \in {"connected", "joined"}

(* Whatever closes a socket, its handlers of disconnect empty the stores.   *)
Gone(t, s, at) ==
  [t EXCEPT !.sockets[s].at = at, !.sockets[s].room = NoRoom,
            !.gameId = IF Handler("disconnect", App) \in t.sockets[s].handlers THEN NoRoom ELSE @]

Disconnect(t) == [IF IsActive(t) THEN Gone(t, t.socket, "closed") ELSE t EXCEPT !.chosen = FALSE]

OpenSocket(t, query) ==
  [t EXCEPT !.sockets = Append(@, [query |-> query, at |-> "connecting", room |-> NoRoom, handlers |-> t.handlers]),
            !.socket = Len(t.sockets) + 1]

Connect(t, query) ==
  IF IsActive(t) THEN t
  ELSE IF t.chosen THEN OpenSocket(t, query)
  ELSE [t EXCEPT !.waiting = Append(@, query)]

-----------------------------------------------------------------------------
(* Pages: the old one is taken down, then the effects of the new one run    *)

Effects(t, page) ==
  CASE page.at = "main" -> Disconnect(t)
    [] page.at = "game" -> [Connect(t, page.room) EXCEPT !.gameId = page.room]
    [] OTHER -> t

Shown(t, page) ==
  IF page = t.page THEN t
  ELSE LET left == Off(t, PageHandlers(t.page))
       IN On(Effects([left EXCEPT !.page = page], page), PageHandlers(page))

Attempting(t) == t.waiting # << >> \/ \E s \in DOMAIN t.sockets : t.sockets[s].at \in {"connecting", "connected"}

Input(t, patient) ==
  /\ inputs < MaxInputs /\ inputs' = inputs + 1
  /\ tab' = t /\ Len(t.sockets) <= MaxSockets
  /\ calm' = (calm /\ patient /\ ~Attempting(tab))
  /\ UNCHANGED rooms

(* The cards of the main page, the rooms of the lobby, the logo of the      *)
(* others, and the buttons of the game page all lead to these.              *)
Links(page) ==
  CASE page = Main        -> {PageAt("setup", NoRoom), PageAt("lobby", NoRoom), Pin(NoRoom)}
    [] page.at = "lobby"  -> {Main} \union {Game(r) : r \in Rooms}
    [] page = NotFound    -> {}
    [] OTHER -> {Main}

Follow == \E page \in Links(tab.page) : Input(Shown(tab, page), TRUE)
Back == \E page \in Pages \ {tab.page} : Input(Shown(tab, page), FALSE)

TypePin(r) ==   \* drawn again, the page puts handlers that see the new number in place of the old
  /\ tab.page.at = "pin" /\ tab.page.room # r
  /\ Input(On([Off(tab, PageHandlers(tab.page)) EXCEPT !.page = Pin(r)], PageHandlers(Pin(r))), TRUE)

HandleJoin ==
  /\ tab.page.at = "pin" /\ tab.page.room # NoRoom
  /\ Input(Connect(Disconnect(tab), tab.page.room), TRUE)

HandleSubmit ==
  /\ tab.page.at = "setup" /\ Input(Connect(Disconnect(tab), CreateRoom), TRUE)

UserSteps == Follow \/ Back \/ HandleJoin \/ HandleSubmit \/ \E r \in Rooms : TypePin(r)

-----------------------------------------------------------------------------
(* The servers, and what the sockets hear from them                         *)

Becomes(t) == tab' = t /\ Len(t.sockets) <= MaxSockets /\ UNCHANGED inputs
At(s, at) == tab.sockets[s].at = at

PickServer(i) ==
  /\ Becomes(OpenSocket([tab EXCEPT !.waiting = RemoveAt(@, i), !.chosen = TRUE], tab.waiting[i]))
  /\ UNCHANGED <<rooms, calm>>

ConnectAccepted(s) ==
  /\ At(s, "connecting") /\ Becomes([tab EXCEPT !.sockets[s].at = "connected"])
  /\ UNCHANGED <<rooms, calm>>

(* The room is new each time the query of a creator arrives.                *)
RoomCreated(s, r) ==
  LET told == [tab EXCEPT !.sockets[s].room = r, !.gameId = r] IN
  /\ At(s, "connected") /\ tab.sockets[s].query = CreateRoom /\ tab.sockets[s].room = NoRoom
  /\ r \in Rooms \ rooms /\ rooms' = rooms \union {r}
  /\ Becomes(IF \E h \in tab.sockets[s].handlers : h.on = "createRoom" /\ h.of # App
             THEN Shown(told, Game(r)) ELSE told)
  /\ UNCHANGED calm

(* The event joinRoom, which is also sent when another player joins.        *)
HearJoinRoom(t, s) ==
  LET pins == {h.of : h \in {g \in t.sockets[s].handlers : g.on = "joinRoom"}}
  IN IF pins = {} THEN Becomes(t)
     ELSE \E page \in pins : Becomes(Shown(t, IF page.room = NoRoom THEN NotFound ELSE Game(page.room)))

Joins(s) ==
  LET socket == tab.sockets[s]
      r == IF socket.query = CreateRoom THEN socket.room ELSE socket.query
  IN /\ At(s, "connected") /\ r \in rooms
     /\ HearJoinRoom([tab EXCEPT !.sockets[s].at = "joined", !.sockets[s].room = r], s)
     /\ UNCHANGED <<rooms, calm>>

OtherJoins(s) == /\ At(s, "joined") /\ tab.page.room # NoRoom /\ HearJoinRoom(tab, s)
                 /\ UNCHANGED <<rooms, calm>>

ConnectRefused(s) ==   \* no such room, full, or started; the message is shown and the user moves on
  /\ At(s, "connected") /\ Becomes(Gone(tab, s, "closed")) /\ UNCHANGED <<rooms, calm>>

Drops(s) ==     \* socket.io connects again, with the same query
  /\ tab.sockets[s].at \in {"connected", "joined"} /\ Becomes(Gone(tab, s, "connecting"))
  /\ calm' = (calm /\ tab.sockets[s].query # CreateRoom) /\ UNCHANGED rooms

SocketSteps ==
  \/ \E i \in DOMAIN tab.waiting : PickServer(i)
  \/ \E s \in DOMAIN tab.sockets :
       ConnectAccepted(s) \/ Joins(s) \/ OtherJoins(s) \/ ConnectRefused(s) \/ Drops(s) \/ \E r \in Rooms : RoomCreated(s, r)

VisitInit ==
  /\ tab = [page |-> Main, gameId |-> NoRoom, socket |-> 0, chosen |-> FALSE, handlers |-> AppHandlers,
            waiting |-> << >>, sockets |-> << >>]
  /\ rooms = Existing /\ calm = TRUE /\ inputs = 0

-----------------------------------------------------------------------------
VisitTypeOK ==
  /\ tab.page \in Pages \union {Pin(r) : r \in Rooms} /\ tab.gameId \in Rooms \union {NoRoom}
  /\ tab.socket \in 0..Len(tab.sockets) /\ tab.chosen \in BOOLEAN
  /\ \A s \in DOMAIN tab.sockets :
       /\ tab.sockets[s].at \in {"connecting", "connected", "joined", "closed"}
       /\ tab.sockets[s].at \in {"connecting", "closed"} => tab.sockets[s].room = NoRoom
  /\ Existing \subseteq rooms /\ rooms \subseteq Rooms
=============================================================================
