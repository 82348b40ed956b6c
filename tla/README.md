# QuizGround: a TLA+ model of the multiplayer quiz server

QuizGround (`BE/`, NestJS; `FE/`, React) lets up to 200 players of a room answer quizzes by moving to the
choice they think is right. The back end runs as many identical processes ("WAS"): two nodes behind an
`ip_hash` proxy, each a pm2 cluster with one process per core (`BE/ecosystem.config.js`). They share one
Redis and one MySQL. No Socket.IO adapter connects them: `server.to(gameId).emit` reaches only the sockets
of the process that calls it, so every process subscribes to every Redis channel and does the room's work
again for its own clients. Handlers are `async`; every `await` lets another handler, of the same or another
process, run in between. Around a game there are the pages that write and pick quiz sets, list the waiting
rooms, sign people in, and move a browser with its sockets from room to room. This project models that,
checks it with TLC and proves the central safety properties with TLAPS.

## 1. Inventory

| Component (source) | State | Operations | Interacts with | What is hard |
|---|---|---|---|---|
| **Quiz state machine** (`quiz-state-machine.subscriber.ts`) | Redis `CurrentQuiz` ("n:start"/"n:end"), `Timer`, `ScoringStatus`, `Quiz:<id>.answer`, leaderboard, `isAlive` | on expiry of `Timer`: score the quiz, or show the next one, or end the game | expiry event on every WAS; publishes `scoring:<room>`; dead set | all WAS run the handler at once over shared keys |
| **Scoring aggregation** (`scoring.subscriber.ts`, `base.subscriber.ts`) | Redis `ScoringCount` | count, compare with SCARD, announce, write n:end, arm the result timer, reset | message to every WAS | count and membership change independently |
| **Game session** (`game-session.service.ts`) | quiz list, quiz hashes, status | startGame, setPlayerName, updatePosition, connection | gateway, quiz cache, state machine | startGame is 10+ awaits without a lock |
| **Rooms** (`game-room.service.ts`) | Redis room hash, `Players`, `Leaderboard`, `Player` hash, active rooms | createRoom, joinRoom, handlePlayerExit, kickRoom, options | position and chat services; `room:cleanup` | check-then-act on membership, capacity and host |
| **Fan-out** (`room-state.subscriber.ts`, `player-state.subscriber.ts`) | none | relay room and player events to the sockets of the WAS | keyspace events, `playerState` | an event may overtake the snapshot of a join |
| **Clean-up** (`room-cleanup.subscriber.ts`, `inactive-room.scheduler.ts`) | none | delete a room and its players | every WAS deletes | races with joins and running games |
| **Position pipeline** (`position-broadcast.service.ts`) | per WAS: local counts, sockets, dead set, queues; Redis `Seq`, `PositionLog` | enqueue, IN flush (Lua), OUT broadcast, remote batches, retransmission | 50 ms slot timers of each WAS, pub/sub | ordering of local and remote batches, shared keys deleted by one WAS |
| **Chat** (`game-chat.service.ts`) | per WAS: queue, stream offset, batch log; Redis stream, `ChatSeq`, persist lock and cursor; MySQL | chatMessage, IN write, OUT broadcast, retransmission, persist | position service, MySQL | shared sequence, persist lock with TTL |
| **Browser's sequence maps** (`FE/src/features/game/data/socketListener.ts`) | next sequence, applied positions, pending requests | apply a batch, ask for what is missing, apply the answer | sockets | late and repeated batches |
| **Quiz sets** (`quiz-set/`) | MySQL rows of sets, quizzes, choices | create, read, list, update, delete | form, picker, cache | three tables in separate reads |
| **Quiz cache** (`quiz-cache.service.ts`) | Redis copy with TTL | getQuizSet, cache | startGame, MySQL | never invalidated |
| **Quiz set form** (`QuizSetupPage.tsx`) | the form, marked choices, requests under way | edit, submit | POST /quizset | late or missing answer, submitted twice |
| **Quiz picker** (`QuizSettingModal`, `QuizSetSearchList`) | pages of an infinite query, the choice | load, refetch, pick, confirm | GET /quizset, `updateRoomQuizset` | pages read while sets are written |
| **Answer board** (`QuizOptionBoard.tsx`, `calculateAnswer`) | clicked position, highlighted option | click, grade | position pipeline, scoring | computed by both sides in different ways |
| **Waiting room list** (`waiting-room.service.ts`, `GameLobbyPage.tsx`) | rooms shown, cursor, requests under way | page of open rooms; scroll, refresh | Redis KEYS | overlapping requests, filter after paging |
| **Navigation and sockets** (`FE/src/api/socket/socket.ts`, the pages) | page, socket, handlers, room name | go, back, connect, disconnect | gateway | awaits across navigation |
| **Game screen** (`GamePage` and its stores) | header, board, players, results | events of the server, timers, buttons | whole back end | who is alive is kept by three resets |
| **Accounts** (`auth/`, `user/`, login pages) | user rows, token, forms | sign up, sign in, sign out | MySQL, localStorage | two requests at once, several tabs |
| Pins and keys, validation, subscriber initialisation, metrics, debug, logger, parser, seed data, mocks | - | - | - | sequential or outside the game's logic |

What makes each correct, in a line: *state machine* - each quiz is shown, scored once and followed by its
own result, and the game ends; *scoring* - exclusive, complete and leaves nothing behind; *session* - the
quiz list is always backed by stored quizzes; *rooms* - members, counts and player lists agree with who is
connected; *clean-up* - rooms nobody is in, or uses, go away; *positions* - the last position wins, in every
browser; *chat* - each message once, in order, and persisted once; *quiz sets, form* - what is stored can be
played; *cache* - stale for no longer than the TTL; *picker, lists* - nothing missed and nothing twice;
*board* - what is highlighted is what is graded; *navigation* - the socket is in the room on the page;
*screen* - it shows what the server plays; *accounts* - who was told so can sign in.

`PROJECT.json` lists every component with its status, and every hazard of the code with the line where it
bites and the properties that watch it.

## 2. Modules

| Module | What it is |
|---|---|
| `QuizShow` | the abstract promise to the players: lobby, start, question, its result, next question, ..., end |
| `QuizGame` | one room: startGame, timer handler, scoring handler of every WAS, players, restarts; properties |
| `MCQuizGameSolo`, `MCQuizGameMulti` | one WAS with the refinement mapping to `QuizShow`; several WAS with symmetry |
| `QuizGameProofs` | type correctness; exclusion and progress; for every value of the constants |
| `QuizGameSolo` | a room on one WAS implements `QuizShow` step by step, what it never does twice or out of turn, and its points |
| `ChatPersist`, `ChatPersistProofs` | the chat stream and its persistence to MySQL by every WAS; types, cursor and lock proved |
| `RoomPresence`, `MCRoomPresence` | create, join, exit, kick, reconnect, options and clean-up of rooms, command by command |
| `RoomPresenceProofs` | types and handlers; counts against sockets, player lists against members |
| `RoomSockets` | the sockets of a room on each WAS, as both pipelines below see them |
| `PositionPipeline` | queue, Lua flush, slots, broadcast, remote batches, retransmission, the browser's maps |
| `ChatPipeline` | queue, stream, broadcast, sequence, batch log, retransmission, the browser's map |
| `Delivery`, `MCDelivery` | the two pipelines composed over the same sockets; their properties |
| `DeliveryProofs`, `ChatDelivery` | types and requests of both pipelines, and where browsers show the players; what the chat shows |
| `QuizSets` | rows of the quiz sets, one action per request, and the cached copies games start from |
| `QuizForm` | the page that writes a set (extends `QuizSets`) |
| `QuizPicker` | the modal that pages through the sets (extends `QuizSets`) |
| `QuizBoard` | startGame's quizzes, the shuffle, the click, its grade |
| `RoomList` | the waiting rooms: the server's page and the browser's overlapping requests |
| `Visit` | pages, connections and sockets of a browser tab |
| `Accounts` | sign-up and sign-in in several tabs, the token they share |
| `Screen` | the page of a game as one player sees it; follows `QuizShow` by INSTANCE |
| `Site`, `MCSite` | the components of the site composed; their properties |
| `SiteProofs` | accounts, form, stored sets with their copies, the board and the picker, each with its invariant |
| `SitePages` | pages with their sockets, the screen of a game, the waiting room list |

### How QuizGame corresponds to the code

*State.* Redis keys of the room are variables of the same meaning (`status`, `host`, `roomPlayers` =
`Room:Players`, `known` = whose `Player` hash names the room, which an exit does not
undo, `ranked`/`leaderboard` = the sorted set, `quizSet`, `registered`/`answer` = the quiz hashes,
`currentQuiz`, `timer`, `scoringStatus`, `scoringCount`). The memory of each WAS is `clients`
(localClientCounts), `dead` (deadPlayerIds) and the sockets `conn`. A handler in progress is a program
counter and its local variables: `tpc`/`local` for the timer handler of a WAS, `spc`/`scnt`/`snum` for
the handling by WAS w of the message published by WAS h, `gpc`/`gwas` for startGame requests.

*Actions.* One action per stretch between awaits that other handlers can tell apart, in the order of the
code: `GetCurrentQuiz`; `ReadQuiz`, `TakeScoringLock`/`MissScoringLock`, `Grade`, `Award`, `PublishScoring`,
`ReleaseScoringLock` (handleQuizScoring); `CheckEnd`, `Revive`, `EndGame`, `ReadNext`, `StoreAnswer`,
`SetQuizStart`, `ArmQuizTimer` (handleNextQuiz); `CountClients`, `ScoringComplete`/`ScoringIncomplete`,
`AnnounceResults`, `SetQuizEnd`, `ArmResultTimer`, `ResetScoringCount` (handleScoring);
`RequestStart` ... `ArmIntroTimer` (startGame); `Kick`, `DropInGame`, `LeaveLobby`, `Reconnect`,
`BeginJoin`, `FinishJoin`; `ExpireTimer` (Redis); `Restart`. `PROJECT.json` "map" gives the lines of each.

*History.* `view` (what the clients of a WAS were sent last), `passes` (scoring passes per quiz), `broke`
(a restart has cut a handler off), the kind in `timer` and the ticket in `local` are read by properties
only.

*Faults.* The section "Faults" of `QuizGame` holds mutated forms of the definitions below it (a lock taken
without NX, an off-by-one in hasNoMoreQuiz, a reset forgotten, ...). They are not part of the specification;
each shows that some property would notice.

### How ChatPersist corresponds to the code

A message is its stream entry id. `stream`, `cursor`, `lock` are the Redis keys of the room, `rows` is the
table `chat_message`, `active` says which WAS have an `inputQueue` for which room, `pass` holds the calls of
`persistRoom` in progress with their locals. `Write` is one XADD of `writeRoom` (with its MAXLEN),
`FirstClient` and `LastClient` are onRoomJoined and onRoomLeft where they matter (`LastClient` deletes the
keys every WAS shares), `TakeLock`, `ReadCursor`, `ReadStream`, `Insert`, `StoreCursor`, `ReleaseLock` are
the awaits of `persistRoom`, `Fail` is a command of it that is rejected, `ExpireLock` the TTL, `Restart` a
process that loses its memory. `holds` in a pass is history: nobody touched its lock since it was taken.

- *Time.* The TTL may run out at any moment, in the middle of a pass as well. Redis' clock only orders and
  numbers entries: the id is the millisecond or the successor of the last id (`EntryId`), so ids repeat
  across rooms. A stream that is deleted and written again gets larger ids (its millisecond has passed).
- *The queue.* Messages wait in the memory of a WAS before `Write`; a restart loses those, as the design
  document accepts (`docs/redis-streams-chat.md`, section 10). They are not modelled.
- *Elsewhere:* the broadcast to the clients and the retransmission are `ChatPipeline`.

### Abstractions of QuizGame

- *Time.* A timer lives at least 3 s, a handler milliseconds. `ExpireTimer` therefore waits for `Quiet`:
  the handlers of the previous expiry and the joins under way have ended. startGame requests need not
  have. Nothing else about time is assumed; the order of the handlers is arbitrary.
- *Reads.* Consecutive reads of keys that no other handler writes in that phase, and writes that nobody
  reads apart, are one action: SADD with the HSETs of startGame, the reads of getQuizResults, ZRANGE and
  the un-awaited HSET of END_GAME, the exit of a player. The exit's own races belong to RoomPresence.
- *Positions.* Every player stands somewhere, so any subset of the living may be right; a quiz whose
  answer is 0 (deleted) has no right choice. `isAnswerCorrect` only decorates the result.
- *Scores.* `Pot` shared by integer division instead of 1000/n in floating point.
- *Choices.* The right choice has key 1; the shuffle is any bijection of the choice keys.
- *Restart.* Instantaneous: expiry events that fall into the down time of a WAS are not modelled.
- *The last player.* Leaving and clean-up of an empty room are not modelled here; the room is in use.
- *Starting a running game.* The server does not forbid it; the button of the front end is disabled while
  a game is loading (`GameHeader.tsx:26-32`) and hidden in a game. `MidGameStart` opens it (run `overlap`).

### How RoomPresence corresponds to the code

`active`, `members`, `room` (its hash), `gameId` (of the `Player` hash) are Redis; `count` is `localClientCounts`, `sock`/`was` the
sockets, `view` the player list of each browser. `job` is the handler of each player with its locals. A
handler stops at each Redis command another handler can come between: `Connect`, the capacity check,
SADD, the hash, the publication and onRoomJoined of a join; the departure, handover, last-leaver check and
`room:cleanup` of an exit; `SweepRead`/`SweepDelete` on each WAS; `CheckInactive`.

- One player's own handlers never overlap; consecutive reads, the handover to a new host, HSET+SADD of a
  creation, ZADD+SADD of a join, and the pipeline with the publication of an exit are one step. A message
  of `playerState` is relayed with its publication. The clean-ups of one room run one after another.
- A pin is drawn once in a behaviour. `MaxInputs` bounds what the clients do, all together.
- *History* marks what the code is known to get wrong, so that a property can speak of the rest:
  `strays` (a clean-up deleted the hash of a connected client, whose onRoomLeft is then skipped),
  `unlisted` (a join that failed between SADD and its publication leaves a member nobody was told of),
  `missed` (events heard while joining), `swept`.
- Both players are routed to one WAS; the other WAS takes part in clean-ups and relays.

### How the pipelines correspond to the code

`RoomSockets`: the WAS of each player (`home`), how far its join has come (`stage`), who has lost (`dead`, per WAS).
`PositionPipeline`: `inq`, `pend`, `plog`, `seq`, `pos` are the queue, `pendingBroadcasts` and the Redis keys, `flown` and
`chan` what is on its way, `tab` the sequence maps and the drawing of each browser, `reqs` the retransmissions.
`ChatPipeline`: `cq`, `stream`, `lastId`, `busy`, `out`, `cseq`, `blog` on the server, `ctab` and `creqs` for the browsers.

- Each player joins once and may leave; an exit and a loss are one step; the channel from a WAS to its
  browsers is in order and at once. Drain and script (or XADD), and INCR and emit, are one step.
- The pipeline without Lua (`position-broadcast.service.ts:815-860`) is a fallback for a Redis without
  scripts and is left out; the chat stream does not reach MAXLEN here (it does in `ChatPersist`).
- The initial states are an empty room and one "midway": two browsers in the room with what they have heard.
- *History:* `blurred` (players a browser may have been told of backwards: a JOIN_ROOM of anybody clears its maps,
  `socketListener.ts:83-92`), `again` (a retransmission repeats chat), `wiped` (the last client of a WAS deleted the
  counters although another WAS served the room, or a batch they numbered was still on its way), `due` (the messages each browser has to show).
- In a behaviour the players either move or talk (`topic`): the pipelines share only the sockets.

### How the site's modules correspond to the code

- *QuizSets.* A request of CRUD is one transaction, hence one action; getQuizSet reads the set, its quizzes
  and its choices in three. PATCH changes rows in place: what it would add or drop is refused by a NOT NULL
  column. Versions and `retired` are history for the staleness property.
- *QuizForm.* Texts are blank or filled in. A submission is in `sent` until it is answered, refused or times out, and
  may be sent again meanwhile. The form starts blank, or filled in with a third choice.
- *QuizPicker.* react-query's infinite query: pages are fetched and refetched one after another, each of up to
  three reads between which sets change. The category filter is the empty one the front end sends.
- *QuizBoard.* Every quiz the form can write, every shuffle, every click on a grid of `Grain` steps; one click per quiz.
- *RoomList.* A request takes KEYS and the reads of each room; answers arrive in any order. Re-rendering, its
  effects and an optional scroll are one step. `still.calm` ends when a refresh meets an older request, or a room that
  was playing or closed. `MaxLoads` ends a behaviour.
- *Visit.* A navigation with its effects is one step; connect() stops at pickServer. Any page may lie behind the Back
  button. FIXED_URL, mock rooms and titles are left out. `calm` is history: each attempt was let end.
- *Accounts.* findOne with the comparison is one step; the token does not expire. The guest's account is
  created nowhere in the source: it exists in some initial states and not in others. `calm` is lost while a sign-in
  is on its way; a request is not on its way once it is over, so that `ShownSignedIn` speaks of the page a sign-in leads to.
- *Screen.* The server is `QuizShow`, whose events are heard at once - the server never reads the state of the page, so
  a delayed event is a later one. The timers of 3 s end before the result timer of 10 s (`Rested`). The mode of a
  room is fixed (no control of the page emits updateRoomOption). `Me` is not kicked. Members change in the lobby.
  Host badge, names, clock offset and winner effects are left out.

A behaviour of `Site` is about one `topic`: author, browse, start, lobby, visit, account or show. Author, browse and
start meet in the stored sets (a set that was written is read through the cache, dealt and clicked); the
others share nothing in the code that they change.

## 3. Runs

| Run | Bounds | What it shows |
|---|---|---|
| `solo` | 1 WAS, 2 players, 2 quizzes, 2 choices, both modes, 2 games, 2 churn steps | the promises to the players, and the refinement of `QuizShow` |
| `overlap` | 1 WAS, 1 player, 1 of 2 quizzes, 2 overlapping requests, mid-game start, 1 restart, 1 churn step | overlapping startGame requests |
| `restart` | 2 WAS, 1 player, 1 quiz, 1 restart at any moment | what a restart can and cannot leave behind |
| `joins` | 2 WAS, 2 players, 1 quiz, 1 churn step | membership changing between the handlers of two WAS |
| `live` | 2 WAS, 1 player, 1 quiz | the game ends under fairness |
| `persist` | 2 WAS, 1 room, 2 overlapping passes, 2 messages, stream of 1, 1 churn step, 1 restart, 1 failed command | the cursor, the lock and that messages get saved |
| `rooms` | 2 WAS, 2 rooms, 2 players on one WAS, capacity 2 and later 1, 3 inputs | counts, player lists, and the end of a room |
| `delivery` | 2 WAS, 2 players on one or on both, logs of 1 entry, 3 inputs | every browser ends with what is stored; chat is complete and once |
| `catalog` | 4 stored sets, 2 hosts, 2 users, TTL 2, 5 edits, pages of 1; 3 pins; 2 rooms, 2 sockets, 5 inputs; 2 tabs, 2 requests; 3 players, 2 questions, 3 turns | the site around a game |
| `rescore` (violated) | 2 WAS, 1 player, 1 quiz | finding 1 |
| `revival` (violated) | 1 WAS, 2 players, 2 quizzes, 2 games, SURVIVAL | finding 2 |
| `collision` (violated) | 1 WAS, 2 rooms, 1 pass | finding 3 |

*Why the bounds are enough.* Interference is between two processes over one expiry: two WAS, each of which
may be arbitrarily slow, give every order of two handlers. One quiz goes through the whole cycle (intro,
question, result, end); two quizzes and two games are there where something may leak from one to the next
(`solo`, `revival`, the `show` topic). Two players are the least for which winners share, one dies and one
survives, and SURVIVAL can end early. `MaxGames`, `MaxChurn`, `MaxCrash` bound what would go on for ever. The
theorems below hold without any of these bounds.

In `persist` the second pass may start when the lock of the first has lapsed, and a stream of one entry is
trimmed at the second message, so every order of two passes over one entry, the next one and a clean-up
occurs. In `rooms` three inputs make a room, fill it, and let somebody leave, be kicked or return while a
clean-up is between its read and its deletion. In `delivery` a log of one entry makes the fallback to a snapshot
happen at the second batch; the same module passes with four inputs (200 s), and with three players and
two inputs. In `catalog` a page of one entry makes several pages of every list; by hand `Visit`
passes with three rooms and three sockets, `Accounts` with three requests, and `Screen` with five turns.

The deadlock check is off where the system may stop: in `restart` and `overlap` a room whose handler was cut
off, in `persist` and `collision` a room nobody serves, in `rooms`, `delivery` and `catalog` clients who have used up
their inputs.

*Fairness* of QuizGame (runs `solo`, `live`): weak fairness of the expiry, of every handler step and of a join in
progress. Redis expires keys and answers commands, and an event loop runs its pending callbacks; nothing is
assumed of players or of restarts, and startGame is not fair (a host need not start). In `live` the bound
on churn is 0 and in `solo` 2, so players cannot keep a game busy for ever.

Of ChatPersist (run `persist`): weak fairness of each step of a pass, of the TTL, and of some WAS that
serves the room taking a free lock - the interval of every WAS comes back each minute. Writes, clean-ups,
restarts and failures are not fair, and bounded.

Of RoomPresence (run `rooms`): weak fairness of the handler steps of each player, of the clean-up steps of each room,
and of the scheduler's `CheckInactive`. No client is made to do anything. `delivery` and `catalog` check
invariants only.

### Properties

*A game* (`QuizGame`): `ScoringExclusive` (the lock), `NoStall` (a game at rest has its timer), `GameDriven` (its
inductive strengthening), `ScoringCountSettles` (nothing counted leaks into the next quiz), `NoRescoring`,
`PointsConserved`, `ExpiryMatchesState` (a handler does what its timer was armed for), `GradedAsShown` and
`ResultAsShown` (players are graded against, and told, what they saw), `DeadSetAgrees` (memory against
Redis), `QuizNumMonotone`, `QuizSetStored`, `GameEnds`, `ImplementsShow`.

Several of them hold for one WAS and not for two; that is what the code is exposed to today:

- `NoRescoring`, `PointsConserved`, `ExpiryMatchesState`: finding 1, and a WAS whose GET comes late.
- `GradedAsShown`, `ResultAsShown`: each WAS shuffles and overwrites the answer of the other.
- `DeadSetAgrees`: only the WAS that scored knows who died.
- `QuizNumMonotone`: a late `n:end` overwrites `n+1:start` (two quizzes needed).
- `ScoringCountSettles` fails with a join between pass and count (`ScoringIncomplete` leaves the count).

*Stored chat* (`ChatPersist`): `SavedUpToCursor` (what no pass will read again is stored), `LockProtects` (as long as
the lock is left alone, it excludes), `EventuallySaved`.

*Rooms* (`RoomPresence`): `NoPhantomClients` (no WAS counts a client it does not have), `ViewsMatch` (at rest a browser
lists the members), `EmptiedRoomReleased` and `IdleRoomCollected` (liveness of both ways to delete a room). What
does *not* hold with all interleavings, and is why these are stated as they are: exact counts (a player who returns
exits twice), a connected host (drawn from a list a few awaits old), capacity (checked on a list read
before several awaits), no room without its hash (updateRoomOption writes a deleted one), and clean-ups that
spare the hash of a player who has moved on or, from the scheduler, the connected players of a quiet game.

*Delivery*: `SettledAsStored` (in every browser the last position wins), `ChatComplete`, `BroadcastOnce`, `WaitIsServed` (no
request for retransmission is lost). The conditions in them are what the code gets wrong: a flush after a
clean-up makes `pendingBroadcasts` anew; a broadcast to an empty list of living sockets (`position-broadcast.service.ts:957`)
reaches every socket; JOIN_ROOM clears the maps of browsers that are already in; the snapshot of a join overwrites a
broadcast heard before it; with two WAS every chat message is a gap for the browsers of the other, and repeated
after retransmission; counters deleted by one WAS leave a request of another unanswerable, and so do those the very
last client deletes while a batch of its WAS is on its way: who joins next hears it, asks, and
`handleRetransmit` drops a request that is ahead of the counter (`wiped` excuses both; the second takes five
inputs, and was met when the proof of `WaitIsServed` failed); onRoomLeft of the chat is called
twice when a join fails or an exit is followed by the disconnect.

*Site*: `StoredPlayable`, `GradedAsMarked` (form, database, startGame, shuffle, board and grading agree on the right
choice), `BrowsedAll` (no page skips or repeats a set while sets are written), `StaleForTTL`, `LobbySettles`, `RoomShown`,
`ToldCanLogIn`, `ShownSignedIn`, `ShownAsPlayed`. The last one asks that the results are closed before the next game and the
connection is kept, because otherwise: closing them later puts the page back in its waiting state in the middle of a game
and revives everybody on it; the snapshot after a reconnect shows the dead alive and all scores 0; the end of a quiz lists a kicked
player again, nameless; newcomers appear in the results that are still open.

Each module has one `TypeOK`.

### Findings

1. *Double scoring* (`rescore`). `docs/redis-socket-event-flow.md:61,482` call `ScoringStatus` the lock that
   prevents duplicate scoring. It is deleted right after PUBLISH (`quiz-state-machine.subscriber.ts:118`),
   before anybody wrote `n:end`; a WAS that had read `n:start` takes it again and pays every winner twice.
2. *Revival* (`revival`). `docs/redis-socket-event-flow.md:518`: everybody is revived for the next game. Only
   `isAlive` in Redis is; `deadPlayerIds`, which decides about the end of a SURVIVAL game
   (`quiz-state-machine.subscriber.ts:131`), is not, and the next game ends before its first quiz.
3. *Collision* (`collision`). The table's unique key is `stream_entry_id` alone (`chat-message.entity.ts:5`),
   but Redis numbers each stream on its own: two rooms written in the same millisecond both have `<ms>-0`.
   INSERT IGNORE drops the second message as a duplicate and the cursor passes it. `game-chat.service.ts:623`
   promises that the unsaved messages of the room are stored. A key over `(game_id, stream_entry_id)` would do.

## 4. Proofs

The theorems about QuizGame hold for every finite set of WAS and players, every quiz pool, every number of
overlapping startGame requests (also in a running game) and any bounds. Their assumptions are the named ASSUMEs of
`QuizGame`: WAS and Players are finite, there is a WAS, quiz ids are naturals, the right choice is a
choice, the bounds are naturals.

- `TypeCorrect` (`QuizGameProofs`): `Spec => []TypeOK`. `TypeOK` is inductive as it stands, once it says that
  the quiz number of a timer handler is a list index outside "revive"/"endGame", and that QuizAt yields a
  quiz or `NoQuiz`. One lemma per handler, one step per action.
- `ScoringExcludes`: `Spec => []ScoringExclusive`. Inductive together with `TypeOK`: at
  most one WAS is between SET NX and DEL, then the lock is set, and it is set only then unless a restart
  cut a handler off (`broke`).
- `GameNeverStalls`: `Spec => []NoStall`. `NoStall` only speaks of quiet states, so it is not inductive.
  `GameDriven` says what holds in between: with neither timer nor request, the game is `Driven` - some
  handler is before the end of its work; a WAS that is about to release the lock has published, and
  somebody is still counting it; whoever counts has counted everybody (no join is under way and nobody
  enters a running game); the quiz about to be shown is stored, so that its timer will be accepted. Needs
  `ScoringExclusive` (a WAS that misses the lock leaves another one scoring), `QuizSetStored` (listed quizzes
  have hashes) and `IndexExists` (a list of n quizzes has one at each index below n, proved from the well
  foundedness of inclusion on finite sets).

- `CursorNeverSkips` (`ChatPersistProofs`): `Spec => []SavedUpToCursor`, for all WAS, rooms, passes, trims,
  failures and restarts. Not inductive: between the read of the cursor and its update `PassesCover` says
  what a pass has stored or is about to. A late pass may move the cursor back, but only to an entry up to
  which everything was stored; a new entry is behind no cursor because ids grow (`EntryIdIsNew`).
- `LockAlwaysProtects`: `Spec => []LockProtects`, inductive with `TypeOK` (`PersistTypeCorrect`). It assumes
  that `None` is neither a WAS nor a room, and that the bounds are naturals.

- `QuizGameSolo`: a room that one WAS serves, with games started by the button of the lobby (`Solo`: `WAS =
  {TheWAS} /\ ~MidGameStart`), any number of players, quizzes, games, restarts and comings and goings.
  With several WAS these fail, and `rescore` shows one of them failing. `SoloOK` says which handler runs
  (one at a time), for which quiz and state the timer was armed, that the quizzes are dealt in order, that
  the answer in Redis is the one of the shuffle sent, and which quizzes are not scored yet. From it:
  `SoloIsShow` (every step is a step of `QuizShow` under the mapping of `MCQuizGameSolo`, or a stutter: the
  safety half of `ImplementsShow`), `SoloScoresOnce`, `SoloExpiryMatches`, `SoloGradesAsShown`,
  `SoloResultAsShown`, `SoloNumMonotone`; with the count of scored clients, `SoloCountSettles`; with the
  dead set, `SoloDeadAgree`.
- `SoloPointsConserved` (`QuizGameSolo`): `Spec => []PointsConserved` of that room. `PointsKept` is inductive: who is
  not ranked has no points, a game begins with none, and all players together have at most `Pot` for each quiz
  that was scored - in any game, broken by a restart or not, since a pass is counted before it pays. That a sum over a finite set
  does not depend on the order it is folded in is proved first (`SumsAgree`), by the smallest set for which it
  would (`SmallestSet`); the shares of integer division make no more than was shared (`ShareOut`).

- `RoomTypeCorrect` (`RoomPresenceProofs`): `Spec => []TypeOK`, together with `JobFits`: at which commands a
  player can be, with which room, socket and hash.
- `PhantomsNever`: `Spec => []NoPhantomClients`. The count of a WAS is compared with
  the set of sockets it holds or has still to count down; each step moves one player in or out of both.
  `HashHeld` says why onRoomLeft finds the room again: who is connected has its hash, unless a clean-up took it (`strays`).
- `ViewsAgree`: `Spec => []ViewsMatch`. Not inductive: `ListFits` follows a list through the join that reads it. A
  difference between the list of p and the members is excused by an announcement under way, by an event
  heard while joining, or by a join that failed before its announcement.
  They assume that WAS and players are finite, that the bounds are naturals and that `None` is none of them.

- `DeliveryServes` (`DeliveryProofs`): `Spec => []WaitIsServed`, for any WAS, routes, players, log sizes and inputs.
  Needs that no batch under way is numbered ahead of the counter and that a request not yet read is behind
  it (`NumbersOK`), as long as no number was deleted in use.
- `DeliverySettles`: `Spec => []SettledAsStored`, of what the pipelines do for any WAS, routes, players, log sizes and inputs.
  It only speaks of rest; `PlacesOK` says what holds on the way there. On each way to a browser (`Way`: the pending
  and unacknowledged batches of its own WAS, or the channel from the others) and in the log, the last move of a player is
  the stored one (`NewestOK`; a batch has one move for each, and a player's moves all come by one way, `OriginOK`).
  What a browser shows of a living player, and what a join has read, is where the player is, or a newer
  move is on the way (`ShownPlaces`, `SnapPlaces`). An answer that was read at number n is right, or overtaken: something later
  was applied, or is to come (`RequestPlaces`); this is what the comparison with `playerAppliedSeqMap`
  is for. A player who lives is in no dead set (`LivesOK`), so the theorem holds without that premise too.
- `DeliveryOnce` (`ChatDelivery`): `Spec => []BroadcastOnce`. A message is in one queue or once in the stream
  (`StoreOK`); a WAS has come to some place in the stream, which never goes back, and has in hand a part of what lies
  before it (`CursorOK`, `InHandOK`); a browser shows what its WAS has read and has no more in hand (`ShownOK`).
- `DeliveryComplete`: `Spec => []ChatComplete`. What is due to a browser it shows, or its WAS has in hand, or
  it lies unread in the stream (`DueOK`); at rest the last two are empty.
- `DeliveryTypes`: `Spec => []TypeOK`. A number is drawn only for moves that were made (`BudgetOK` counts
  the waiting moves), which bounds the sequence. The library has no theorem about filtering a sequence;
  `PickedAt` states what `Picked` returns, by induction over the naturals, itself from well-foundedness (`Upward`).

- `SiteProofs`: one inductive invariant for each part of the site, composed in `SiteInv`. They assume that the sets
  stored to begin with, and those others store, came through the form (`StoredByForm`), the shapes of rows and patches
  (`RowShapes`), that limits are integers or a cleared field, and that tabs are numbered from 1.
  `AccountsLogIn`: `Spec => []ToldCanLogIn`; one row for an address (`Unique`), and every token is of a row that is
  never removed (`Issued`). `MainShowsToken`: `Spec => []ShownSignedIn`; a calm main page waits for no sign-in of the
  form page (`NoneLate`). `FormStoresPlayable`: `Spec => []StoredPlayable`; each quiz of the form, and of each request
  that was sent, has two choices or more and one answer (`FormInv`), and the server refuses the rest.
  `CacheYoungerThanTTL`: `Spec => []StaleForTTL`; what an entry has left and what its parts are old make TTL at
  most (`CacheYoung`), and what a request has read it has read since the time last passed (`StartYoung`).
  `MarkedIsGraded`: `Spec => []GradedAsMarked`; copies have the quizzes of their sets (`Current`), the game those of
  the copy (`AsStored`), the shuffle is a bijection onto the numbers of the choices (`Dealing`, from the numbers being
  apart), and the two roundings of a click agree below the number of choices (`GradedAsHighlighted`).

  `EverySetBrowsed`: `Spec => []BrowsedAll`. Each page follows from the cursor of the one before (`PagesInOrder`), and
  what was there all along is on a page or above the cursor of the last one (`Covered`); both also hold of the pages
  that a refetch has come to, which replace the others at its end.
- `SitePages`: three more parts and the types of all, over the same assumptions and the one that pins are finitely many.
  `RoomIsShown`: `Spec => []RoomShown` (`VisitInv`). The handlers of the service and of its socket are those of the app
  and of the page that is open, whatever the user does (`HearsPage`); a calm tab has one socket open at most,
  which is in the room of the page or on the way there (`OneRoom`).
  `ScreenShowsPlay`: `Spec => []ShownAsPlayed` (`ShowInv`). Some of it holds of any player (`Always`): the header is that
  of the last quiz the server sent, and before a game all who were not kicked are alive. The rest holds of the attentive (`Attended`):
  a fading board already shows the dead, so those who survive are read from their answers until it has faded.
  `LobbyCompletes`: `Spec => []LobbySettles`. A page is asked for from a cursor only when the list has all rooms down
  to it (`Reached`), and a request finds all that come next, or a page of them and one more (`Finds`).
  `SiteTypes`: `Spec => []TypeOK`, from the invariants of all parts and what they leave open (`TypeInv`): the size of
  the form, who was told, the board's place, and how many requests the lobby has. These are a bag, and
  `BagCounts` ties its cardinality to a set of numbered copies, so that one more or less is `OneMore` and `OneLess`.
  It assumes that a behaviour has room for what its parts begin with: one quiz (`MaxQuizzes`), two choices
  (`TooLong`; 5 in the code) and the two requests of the lobby (`MaxLoads`).

Only model-checked: liveness (`GameEnds`, `EventuallySaved`, `EmptiedRoomReleased`, `IdleRoomCollected` and that half
of `ImplementsShow`: no ENABLED in the prover). Every invariant of the passing runs is proved, but
`ScoringCountSettles` and `PointsConserved` for one WAS only; with two the first is checked where nobody joins, and
the second fails (finding 1).

## 5. Plan and limits

Done: the game, stored chat, rooms, the two pipelines and the site, with their proofs. Next, in this order:

1. `RoomPresence` with players on different WAS;
2. the refinement of `QuizShow` by `Screen` and `QuizGame` together, i.e. one screen over the detailed server.

### Not modelled

- *Subscriber initialisation, metrics, logging, debug controllers, clock, seed data, wire format, mocks:* no state of a room, a
  set or an account depends on them (the debug controller is a profiler for developers).
- *Names, titles, colours, the host's badge:* labels that nothing in the server branches on.
- *Pins:* two creators may draw one pin (`game-room.service.ts:33`); `RoomPresence` draws pins apart.
- *Shapes of messages* (DTO classes) are checked before a handler runs; the REST DTOs are not enforced, for
  want of a global ValidationPipe. What the form can send is modelled, what a bare HTTP client can is not.
- *A timer of a deleted room* (`quiz-state-machine.subscriber.ts:31`): `QuizGame` follows a room in use.

### Seen while modelling, without a run of their own

- The limit field shows 10 when it is cleared and sends null, which the database refuses; addChoice numbers by
  count, so a removal followed by an addition repeats an order and the server answers 400; PATCH checks neither.
- The board keeps the highlight of the previous quiz (`QuizOptionBoard.tsx:31`).
- The set with id 1 is never listed (the default cursor is 1 and exclusive); full-text search selects columns that likely do not
  hydrate the entity; `invalidateCache` is never called and the cache's in-process map only grows.
- The waiting-room page reports a next page computed before it filters, and an unknown cursor gives an empty page.
- A page that goes back to another room shows that room while its socket stays in the first; a creator whose socket.io
  reconnects by itself creates a second room; after a reconnect the store has no room name.
- An answer to a sign-in that comes after the user has left stores the token while the page shows nobody signed in.
