------------------------------ MODULE RoomList ------------------------------
(***************************************************************************)
(* GameLobbyPage and WaitingRoomService: the list of the rooms that wait   *)
(* for players.  Two effects of the page load its first page whenever      *)
(* loadRooms changes, which it does with every answer: while there is a    *)
(* next page, each answer sends two more requests for the first one.       *)
(***************************************************************************)
EXTENDS Integers, Functions, SequencesExt, FiniteSetsExt, Bags

CONSTANTS
  Pins,       (* numbers of rooms                                            *)
  Take,       (* rooms of a page: 10                                         *)
  MaxLoads,   (* bound: requests of the page at a time                       *)
  MaxChurn    (* bound: rooms opened, started, ended and closed              *)

ASSUME RoomListBounds ==
  /\ Pins \subseteq Nat \ {0} /\ IsFiniteSet(Pins) /\ {Take, MaxLoads, MaxChurn} \subseteq Nat \ {0}
  /\ MaxLoads >= 2   \* the page begins with two

VARIABLES
  open,       (* the Room:<id> hashes: isWaiting by pin                      *)
  lobby,      (* rooms, paging and isLoading of the page                     *)
  loads,      (* its requests, a bag, and how far the server is with them    *)
  still,      (* history: rooms there from the start; calm: all were waiting,
                 none has changed, and no refresh met an older request       *)
  churn       (* bound: changes of rooms used                                *)

lobbies == <<open, lobby, loads, still, churn>>

NoPaging == [known |-> FALSE, more |-> FALSE, next |-> 0]
Asked(cursor) == SetToBag({[at |-> "keys", cursor |-> cursor, todo |-> << >>, got |-> << >>]})
Firsts == Asked(0) (+) Asked(0)

-----------------------------------------------------------------------------
(* The page                                                                 *)

(* The other requests.                                                      *)
Rest(r) == loads (-) SetToBag({r})

(* The page is drawn anew, with the state l, and its effects run: unless    *)
(* there is nothing more to load, the first page is requested twice; scroll *)
(* asks for the next one if it comes before the page is drawn as loading.   *)
Drawn(l, rest) ==
  LET wants == ~l.paging.known \/ l.paging.more
  IN /\ lobby' = [l EXCEPT !.loading = wants]
     /\ loads' \in IF ~wants THEN {rest}
                  ELSE {rest (+) Firsts} \union
                       (IF l.paging.more THEN {rest (+) Firsts (+) Asked(l.paging.next)} ELSE {})
     /\ BagCardinality(loads') <= MaxLoads

LobbyInit ==
  /\ open \in UNION {[S -> BOOLEAN] : S \in SUBSET Pins}
  /\ lobby = [rooms |-> << >>, paging |-> NoPaging, loading |-> TRUE]
  /\ loads = Firsts
  /\ still = [rooms |-> DOMAIN open, calm |-> \A p \in DOMAIN open : open[p]]
  /\ churn = 0

(* getRoomList makes null of an error.                                      *)
LoadFails(r) ==
  /\ IF lobby.loading THEN Drawn([lobby EXCEPT !.loading = FALSE], Rest(r))
     ELSE loads' = Rest(r) /\ UNCHANGED lobby
  /\ UNCHANGED <<open, still, churn>>

(* loadRooms of refreshRooms still sees the old paging, and so sends        *)
(* nothing: it is the effects that load the list again.                     *)
Refresh ==
  /\ ~lobby.loading
  /\ Drawn([lobby EXCEPT !.rooms = << >>, !.paging = NoPaging], loads)
  /\ still' = [still EXCEPT !.calm = @ /\ loads = EmptyBag]
  /\ UNCHANGED <<open, churn>>

-----------------------------------------------------------------------------
(* findAllWaitingRooms                                                      *)

(* The highest number first.                                                *)
NthLast(S, i) == CHOOSE p \in S : Cardinality({q \in S : q > p}) = i - 1
RoomKeys == [i \in 1..Cardinality(DOMAIN open) |-> NthLast(DOMAIN open, i)]

(* Where the page starts; 0: the room of the cursor is gone.                *)
StartOf(keys, cursor) ==
  IF cursor = 0 THEN 1
  ELSE IF cursor \in Range(keys) THEN (CHOOSE i \in DOMAIN keys : keys[i] = cursor) + 1 ELSE 0

(* One room more than a page is looked at.                                  *)
(* Fault: a page and no more.                                               *)
PageKeysOnly(keys, cursor) ==
  LET n == StartOf(keys, cursor)
  IN IF n = 0 THEN << >> ELSE SubSeq(keys, n, Min({n + Take - 1, Len(keys)}))
PageKeys(keys, cursor) ==
  LET n == StartOf(keys, cursor)
  IN IF n = 0 THEN << >> ELSE SubSeq(keys, n, Min({n + Take, Len(keys)}))

Progress(r, s) == loads' = Rest(r) (+) SetToBag({s})

ReadKeys(r) ==
  LET todo == PageKeys(RoomKeys, r.cursor) IN
  /\ r.at = "keys"
  /\ Progress(r, [r EXCEPT !.at = IF todo = << >> THEN "reply" ELSE "rooms", !.todo = todo])
  /\ UNCHANGED <<open, lobby, still, churn>>

ReadRoom(r) ==
  LET p == Head(r.todo) rest == Tail(r.todo) IN
  /\ r.at = "rooms"
  /\ Progress(r, [r EXCEPT !.at = IF rest = << >> THEN "reply" ELSE "rooms", !.todo = rest,
                          !.got = IF p \in DOMAIN open /\ open[p] THEN Append(@, p) ELSE @])
  /\ UNCHANGED <<open, lobby, still, churn>>

(* Rooms that are on the list already are not put there again.              *)
Listed(rooms, got) ==
  LET upto[n \in 0..Len(got)] ==
        IF n = 0 THEN rooms
        ELSE IF got[n] \in Range(rooms) THEN upto[n - 1] ELSE Append(upto[n - 1], got[n])
  IN upto[Len(got)]

(* Whether there is a next page is judged by the rooms that were kept.      *)
Reply(r) ==
  LET more == Len(r.got) > Take
      kept == IF more THEN SubSeq(r.got, 1, Take) ELSE r.got
      paging == [known |-> TRUE, more |-> more, next |-> IF more THEN Last(kept) ELSE 0]
  IN /\ r.at = "reply"
     /\ Drawn([rooms |-> Listed(lobby.rooms, kept), paging |-> paging, loading |-> FALSE], Rest(r))
     /\ UNCHANGED <<open, still, churn>>

PageSteps == Refresh \/ \E r \in DOMAIN loads : ReadKeys(r) \/ ReadRoom(r) \/ Reply(r) \/ LoadFails(r)

-----------------------------------------------------------------------------
(* The rooms come and go, and their games start and end                     *)

Changed(S, calm) ==
  /\ churn < MaxChurn /\ churn' = churn + 1
  /\ still' = [rooms |-> still.rooms \ S, calm |-> still.calm /\ calm] /\ UNCHANGED <<lobby, loads>>
OpenRoom(p)  == p \notin DOMAIN open /\ Changed({}, TRUE) /\ open' = [q \in DOMAIN open \union {p} |-> q = p \/ open[q]]
TurnRoom(p)  == p \in DOMAIN open /\ Changed({p}, FALSE) /\ open' = [open EXCEPT ![p] = ~@]
CloseRoom(p) == p \in DOMAIN open /\ Changed({p}, FALSE) /\ open' = Restrict(open, DOMAIN open \ {p})

Churn == \E p \in Pins : OpenRoom(p) \/ TurnRoom(p) \/ CloseRoom(p)

-----------------------------------------------------------------------------
LobbyTypeOK ==
  /\ DOMAIN open \subseteq Pins /\ \A p \in DOMAIN open : open[p] \in BOOLEAN
  /\ lobby.rooms \in Seq(Pins) /\ lobby.loading \in BOOLEAN /\ lobby.paging.next \in Pins \union {0}
  /\ lobby.paging.more => lobby.paging.next # 0
  /\ BagCardinality(loads) <= MaxLoads /\ \A r \in DOMAIN loads : r.at \in {"keys", "rooms", "reply"}
=============================================================================
