-------------------------------- MODULE Site --------------------------------
(***************************************************************************)
(* The site around the game: an author writes a quiz set and it is played, *)
(* a host browses the sets while they are written, games start from cached *)
(* copies of them, a visitor looks at the waiting rooms and moves between  *)
(* the pages and rooms, a player follows the games on the screen, and      *)
(* people sign up and in.  A behaviour is about one of these (topic); the  *)
(* first three meet in the stored sets.                                    *)
(***************************************************************************)
EXTENDS QuizForm, QuizPicker, QuizBoard, RoomList, Visit, Accounts, Screen

VARIABLE topic       (* bound: what a behaviour is about                     *)

others == <<visit, accounts, show, topic>>
vars == <<catalog, page, picker, table, lobbies, others>>

Topics == {"author", "browse", "start", "lobby", "visit", "account", "show"}

Init ==
  /\ topic \in Topics
  /\ CatalogInit /\ BoardInit
  /\ IF topic = "author" THEN FormInit
     ELSE form = Blank /\ marks = NoMarks /\ sent = {} /\ edits = 0
  /\ IF topic = "browse" THEN PickerInit ELSE PickerInit /\ ~searching
  /\ IF topic = "lobby" THEN LobbyInit ELSE LobbyInit /\ open = << >>
  /\ VisitInit
  /\ IF topic = "account" THEN AccountInit ELSE AccountInit /\ users = << >>
  /\ IF topic = "show" THEN ScreenInit ELSE ScreenInit /\ stage.mode = "RANKING"

-----------------------------------------------------------------------------
(* The author writes, and the sets that are stored are played.              *)

Author == CHOOSE u \in Users : TRUE      \* which account it is plays no part

Writing ==
  \/ Typing /\ UNCHANGED catalog
  \/ \E r \in sent : Served(r, Author) \/ Refused(r) \/ TimedOut(r, Author)

Leaves ==   \* the form page, for good; the set that was stored last is played
  /\ edits < MaxEdits /\ sent = {} /\ edits' = MaxEdits
  /\ \E h \in Hosts : Begin(h, Len(sets))
  /\ form' = Blank /\ marks' = NoMarks /\ UNCHANGED <<sent, table>>

Starting == /\ \E h \in Hosts : GetQuizSet(h)
            /\ UNCHANGED <<page, table>>

Plays ==
  /\ \E h \in Hosts : Finish(h) /\ Launch(starts[h].id, starts[h].copy.quizzes)
  /\ UNCHANGED page

Dealt == /\ \E q \in game.left : \E options \in Shuffles(game.quizzes[q].keys) : Deal(q, options)
         /\ UNCHANGED <<catalog, page>>
Clicked == /\ \E x, y \in 0..Grain : Click(x, y)
           /\ UNCHANGED <<catalog, page>>

Authoring == \/ Writing /\ UNCHANGED table
             \/ Leaves \/ Starting \/ Plays \/ Dealt \/ Clicked

-----------------------------------------------------------------------------
(* Others change the sets.                                                  *)

Edited(id) == \E u \in Users : RemoveSet(id, u) \/ \E patch \in Patches : Update(id, u, patch)
Added == \E u \in Users, h \in BOOLEAN : Create(u, h, Sample)

Browsing == \/ Picking \/ FetchSteps
            \/ (Added \/ \E id \in Ids : Edited(id)) /\ PickerWatches

Caching == /\ \/ Tick
              \/ \E id \in Played : Edited(id)
              \/ \E h \in Hosts : GetQuizSet(h) \/ Finish(h) \/ \E id \in Played : Begin(h, id)
           /\ UNCHANGED picker

Next ==
  \/ topic = "author" /\ Authoring /\ UNCHANGED <<picker, lobbies, others>>
  \/ topic = "browse" /\ Browsing /\ UNCHANGED <<page, table, lobbies, others>>
  \/ topic = "start" /\ Caching /\ UNCHANGED <<page, table, lobbies, others>>
  \/ topic = "lobby" /\ (PageSteps \/ Churn) /\ UNCHANGED <<catalog, page, picker, table, others>>
  \/ /\ topic = "visit" /\ (UserSteps \/ SocketSteps)
     /\ UNCHANGED <<catalog, page, picker, table, lobbies, accounts, show, topic>>
  \/ /\ topic = "account" /\ AccountSteps
     /\ UNCHANGED <<catalog, page, picker, table, lobbies, visit, show, topic>>
  \/ /\ topic = "show" /\ ShowSteps
     /\ UNCHANGED <<catalog, page, picker, table, lobbies, visit, accounts, topic>>

Spec == Init /\ [][Next]_vars

-----------------------------------------------------------------------------
TypeOK ==
  /\ CatalogTypeOK /\ FormTypeOK /\ PickerTypeOK /\ BoardTypeOK /\ LobbyTypeOK
  /\ VisitTypeOK /\ AccountTypeOK /\ ScreenTypeOK
  /\ topic \in Topics

(* A quiz that a game can be played with.                                   *)
Playable(q) ==
  /\ Len(q.choices) >= 2 /\ IsInjective(OrdersOf(q)) /\ q.limit \in 3..60
  /\ Cardinality({i \in DOMAIN q.choices : q.choices[i].answer}) = 1
AllPlayable(qs) == \A i \in DOMAIN qs : Playable(qs[i])

(* The rows to begin with, and what others store, came through a form too.  *)
ASSUME StoredByForm == AllPlayable(Sample) /\ \A s \in Range(Stored) : ~s.patched /\ AllPlayable(s.quizzes)

(* A set that came through the form and was never patched can be played,    *)
(* whatever was added, removed and sent twice on the way: every quiz has    *)
(* two choices or more, numbered apart, exactly one of them right, and a    *)
(* time limit the timer takes.  The server checks only that some choice is  *)
(* right; that no other is rests on the form alone.                         *)
StoredPlayable ==
  \A id \in Ids : ~sets[id].patched => AllPlayable(sets[id].quizzes)

(* The player whose board highlights the choice the author marked is graded *)
(* right, and no other: the form, the database, startGame, the shuffle, the *)
(* board and calculateAnswer agree on which choice is the answer.           *)
MarkedBy(q, order) == \E i \in DOMAIN q.choices : q.choices[i].answer /\ q.choices[i].order = order
GradedAsMarked ==
  game.shown # 0 /\ Highlighted =>
    (Graded = game.answer <=> MarkedBy(sets[game.set].quizzes[game.shown], game.options[board.selected + 1]))

(* When the last page has come the host has been offered every set that was *)
(* there all along, in order and none of them twice, however the sets were  *)
(* written between the pages and the pages read again.  A set whose id is   *)
(* not above the first cursor is never offered (QuizSetController, :50).    *)
BrowsedAll ==
  pages # << >> /\ ~Last(pages).more =>
    /\ \A p, q \in DOMAIN pages : \A k \in DOMAIN pages[p].rows, l \in DOMAIN pages[q].rows :
         p < q \/ (p = q /\ k < l) => pages[p].rows[k] < pages[q].rows[l]
    /\ \A id \in steady : id > NoCursor => \E p \in DOMAIN pages : id \in Range(pages[p].rows)

(* A game is never started from a version that was replaced, or deleted,    *)
(* CACHE_TTL or longer ago, although nothing invalidates the copies and a   *)
(* copy may be put together from parts of several versions.                 *)
StaleForTTL ==
  \A h \in Hosts : starts[h].at = "ready" =>
    LET copy == starts[h].copy IN
    \A v \in {copy.row, copy.list, copy.choices} :
       v < Version(starts[h].id) => retired[starts[h].id][v] < TTL

(* When the lobby page has come to rest it lists no room twice; and if      *)
(* every room has been waiting all the time and no refresh came between,    *)
(* none of those that were there from the start is missing, whichever of    *)
(* the overlapping requests for the pages were answered, and in what order. *)
LobbySettles ==
  lobby.paging.known /\ ~lobby.paging.more /\ DOMAIN loads = {} =>
    IsInjective(lobby.rooms) /\ (still.calm => still.rooms \subseteq Range(lobby.rooms))

(* A player who lets every attempt to connect end before doing anything     *)
(* else is in the room that the page shows and names in what it sends, hears*)
(* of it through the handlers of that page and of no page left behind, and  *)
(* has no second socket open that would count as a player elsewhere.  (The  *)
(* name is forgotten, and not set again, when the connection drops.)        *)
RoomShown ==
  calm /\ tab.page.at = "game" /\ tab.socket # 0 /\ At(tab.socket, "joined") =>
    /\ tab.sockets[tab.socket].room = tab.page.room
    /\ tab.gameId \in {NoRoom, tab.page.room}
    /\ tab.sockets[tab.socket].handlers = AppHandlers \union PageHandlers(tab.page)
    /\ \A s \in DOMAIN tab.sockets \ {tab.socket} : At(s, "closed")

(* Whoever was told that the sign-up succeeded can sign in with what was    *)
(* entered, also when two people signed up with one address at a time; and  *)
(* the token the browser keeps opens the account it was signed for.         *)
ToldCanLogIn ==
  /\ \A c \in told : ValidateUserInLocal(c) # Nobody
  /\ token # NoToken => ValidateUserInJwt(token) = token.sub

(* The main page shows a user as signed in exactly when the browser has a   *)
(* token, unless another tab has changed that, or the answer to a sign-in   *)
(* came after the user had gone there (LoginPage's navigate draws nothing). *)
ShownSignedIn ==
  \A t \in Tabs : tabs[t].at = "main" /\ tabs[t].calm => (tabs[t].shown <=> token # NoToken)

(* Whoever closes the results before the next game starts and keeps the     *)
(* connection sees what is played: the question and the answer of the room's*)
(* quiz, the verdict and the points of its scoring, in SURVIVAL those alive *)
(* whom the server has alive, and after the game who came through it and in *)
(* which place.  The page has no other source for who is alive than its own *)
(* list, and three parts of it reset that list at different times.  (A      *)
(* kicked player is in no list, but in the room.)                           *)
ShownAsPlayed ==
  attentive =>
    /\ event \in {"question", "result"} => Header \in {"countdown", "question"} /\ screen.quiz = num
    /\ Revealed <=> event = "result"
    /\ Verdict # "none" => (Verdict = "right" <=> Me \in stage.winners)
    /\ InGame \/ screen.results => \A p \in OnList : screen.list[p].score = stage.points[p]
    /\ stage.mode = "SURVIVAL" /\ InGame /\ ~screen.fading =>
         ShownAlive \subseteq stage.alive /\ (stage.alive \intersect Present) \ stage.kicked \subseteq ShownAlive
    /\ screen.results =>
         /\ \A p \in (stage.played \intersect OnList) \ stage.kicked : p \in ShownAlive <=> p \in stage.survivors
         /\ \A i \in DOMAIN Sorted :
              CalculateRanks[i] = 1 + Cardinality({p \in OnList : screen.list[p].score > screen.list[Sorted[i]].score})
=============================================================================
