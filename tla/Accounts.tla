------------------------------ MODULE Accounts ------------------------------
(***************************************************************************)
(* Accounts: the forms for signing up and in, in the tabs of one browser,  *)
(* which share its localStorage, and the server behind them.  An answer    *)
(* may come when the tab has gone to another page, or never.               *)
(***************************************************************************)
EXTENDS Integers, SequencesExt

CONSTANTS
  Emails, Passwords,
  Guest,       (* the credentials behind the button for guests               *)
  Tabs,
  MaxRequests  (* bound: requests of the browser                             *)

ASSUME AccountBounds == MaxRequests \in Nat \ {0} /\ 0 \notin Tabs

VARIABLES
  users,    (* table user: its rows, the id being the place                  *)
  token,    (* localStorage.accessToken: sub, the id, and email; NoToken     *)
  tabs,     (* by tab: at, the page, and shown, isLoggedIn of the main page  *)
  posts,    (* requests: ask, from (modal or page), tab, email, password,
               at: sent, answered or over; answer                            *)
  told      (* history: the credentials whose sign-up was reported a success *)

accounts == <<users, token, tabs, posts, told>>

Credentials == [email : Emails, password : Passwords]
NoToken == [sub |-> 0, email |-> Guest.email]
Nobody == 0
NoAnswer == NoToken

-----------------------------------------------------------------------------
(* The server                                                               *)

FindOne(email) ==
  LET ids == {i \in DOMAIN users : users[i].email = email}
  IN IF ids = {} THEN Nobody ELSE CHOOSE i \in ids : \A j \in ids : i <= j

ValidateUserInLocal(c) ==
  LET i == FindOne(c.email) IN IF i # Nobody /\ users[i].password = c.password THEN i ELSE Nobody

ValidateUserInJwt(t) ==
  LET i == FindOne(t.email) IN IF i # Nobody /\ i = t.sub THEN i ELSE Nobody

SignedToken(i) == [sub |-> i, email |-> users[i].email]

(* The column email is unique.                                              *)
(* Fault: it is not.                                                        *)
SavableAnyway(c) == TRUE
Savable(c) == \A i \in DOMAIN users : users[i].email # c.email

Answered(i, t) == posts' = [posts EXCEPT ![i].at = "answered", ![i].answer = t]

ServeLogin(i) ==
  LET id == ValidateUserInLocal(posts[i].c) IN
  /\ posts[i].ask = "login" /\ Answered(i, IF id = Nobody THEN NoAnswer ELSE SignedToken(id))
  /\ UNCHANGED <<users, token, tabs, told>>

(* The password is hashed first; two rows of one email may get this far.    *)
ServeSignup(i) ==
  LET id == Len(users) + 1 IN
  /\ posts[i].ask = "signup"
  /\ IF Savable(posts[i].c)
     THEN users' = Append(users, posts[i].c) /\ Answered(i, [sub |-> id, email |-> posts[i].c.email])
     ELSE Answered(i, NoAnswer) /\ UNCHANGED users
  /\ UNCHANGED <<token, tabs, told>>

-----------------------------------------------------------------------------
(* The tabs                                                                 *)

Waits(ps, t) == \E i \in DOMAIN ps : ps[i].tab = t /\ ps[i].ask = "login" /\ ps[i].at # "over"

(* calm: no sign-in is on its way, and no other tab has changed the token.  *)
MainMounted(t, tok, waits) == [tabs EXCEPT ![t] = [at |-> "main", shown |-> tok # NoToken, calm |-> ~waits]]
Others(ts, t) == [u \in Tabs |-> IF u = t THEN ts[u] ELSE [ts[u] EXCEPT !.calm = FALSE]]

(* Loading a page anew forgets the requests of the tab, whatever the server *)
(* makes of them.                                                           *)
Forgotten(ps, t) == [i \in DOMAIN ps |-> IF ps[i].tab = t THEN [ps[i] EXCEPT !.tab = Nobody] ELSE ps[i]]

Post(t, ask, from, c) ==
  /\ Len(posts) < MaxRequests
  /\ posts' = Append(posts, [ask |-> ask, from |-> from, tab |-> t, c |-> c, at |-> "sent", answer |-> NoAnswer])
  /\ UNCHANGED <<users, token, tabs, told>>

(* The modal of the main page is for those who are shown as signed out, or  *)
(* are found to be when they want to write a quiz set.                      *)
ModalOpens(t) == tabs[t].at = "main" /\ (~tabs[t].shown \/ token = NoToken)

ModalLogin(t)  == ModalOpens(t) /\ \E c \in Credentials \union {Guest} : Post(t, "login", "modal", c)
ModalSignUp(t) == ModalOpens(t) /\ \E c \in Credentials : Post(t, "signup", "modal", c)
PageLogin(t)   == tabs[t].at = "login" /\ \E c \in Credentials : Post(t, "login", "page", c)
PageSignUp(t)  == tabs[t].at = "login" /\ \E c \in Credentials : Post(t, "signup", "page", c)

ToMain(t) ==     \* the logo
  /\ tabs[t].at # "main" /\ tabs' = MainMounted(t, token, Waits(posts, t)) /\ UNCHANGED <<users, token, posts, told>>

ToLogin(t) ==    \* no link leads there: the address is typed
  /\ tabs' = [tabs EXCEPT ![t].at = "login"] /\ posts' = Forgotten(posts, t)
  /\ UNCHANGED <<users, token, told>>

RefreshMain(t) ==
  /\ tabs[t].at = "main" /\ tabs' = MainMounted(t, token, FALSE) /\ posts' = Forgotten(posts, t)
  /\ UNCHANGED <<users, token, told>>

HandleQuizCreate(t) ==
  /\ tabs[t].at = "main" /\ token # NoToken /\ tabs' = [tabs EXCEPT ![t].at = "form"]
  /\ UNCHANGED <<users, token, posts, told>>

(* Fault: the page is not loaded again.                                     *)
LogoutUnloaded(t) ==
  /\ tabs[t].at = "main" /\ tabs[t].shown /\ token' = NoToken
  /\ tabs' = Others(tabs, t) /\ UNCHANGED <<users, posts, told>>
HandleLogout(t) ==
  /\ tabs[t].at = "main" /\ tabs[t].shown /\ token' = NoToken
  /\ tabs' = Others(MainMounted(t, NoToken, FALSE), t)
  /\ posts' = Forgotten(posts, t) /\ UNCHANGED <<users, told>>

Over(i) == [posts EXCEPT ![i].at = "over"]

(* A request that failed or came too late; the server may have done it.     *)
Fails(i) == posts[i].at # "over" /\ posts' = Over(i) /\ UNCHANGED <<users, token, tabs, told>>

(* navigate('/') draws the main page only if the tab is on another one.     *)
PageSignedIn(i) ==
  LET p == posts[i] ts == IF tabs[p.tab].at = "main" THEN tabs ELSE MainMounted(p.tab, p.answer, Waits(Over(i), p.tab))
  IN p.from = "page" /\ tabs' = Others(ts, p.tab) /\ posts' = Over(i)

ModalSignedIn(i) ==
  LET p == posts[i]
  IN /\ p.from = "modal" /\ posts' = Forgotten(Over(i), p.tab)
     /\ tabs' = Others(IF tabs[p.tab].at = "main" THEN MainMounted(p.tab, p.answer, FALSE) ELSE tabs, p.tab)

SignedIn(i) ==
  /\ posts[i].ask = "login" /\ posts[i].tab # Nobody /\ posts[i].at = "answered" /\ posts[i].answer # NoAnswer
  /\ token' = posts[i].answer /\ (PageSignedIn(i) \/ ModalSignedIn(i))
  /\ UNCHANGED <<users, told>>

SignedUp(i) ==
  /\ posts[i].ask = "signup" /\ posts[i].tab # Nobody /\ posts[i].at = "answered" /\ posts[i].answer # NoAnswer
  /\ told' = told \union {posts[i].c} /\ posts' = Over(i) /\ UNCHANGED <<users, token, tabs>>

AccountSteps ==
  \/ \E t \in Tabs : \/ ModalLogin(t) \/ ModalSignUp(t) \/ PageLogin(t) \/ PageSignUp(t)
                     \/ ToMain(t) \/ ToLogin(t) \/ RefreshMain(t) \/ HandleQuizCreate(t) \/ HandleLogout(t)
  \/ \E i \in DOMAIN posts : \/ posts[i].at = "sent" /\ (ServeLogin(i) \/ ServeSignup(i))
                             \/ Fails(i) \/ SignedIn(i) \/ SignedUp(i)

AccountInit ==
  /\ users \in {<< >>, <<Guest>>} /\ token = NoToken /\ posts = << >> /\ told = {}
  /\ tabs = [t \in Tabs |-> [at |-> "main", shown |-> FALSE, calm |-> TRUE]]

-----------------------------------------------------------------------------
AccountTypeOK ==
  /\ \A i \in DOMAIN users : users[i] \in Credentials \union {Guest}
  /\ token = NoToken \/ token.sub \in DOMAIN users
  /\ \A t \in Tabs : tabs[t].at \in {"main", "login", "form"} /\ {tabs[t].shown, tabs[t].calm} \subseteq BOOLEAN
  /\ \A i \in DOMAIN posts : posts[i].at \in {"sent", "answered", "over"} /\ posts[i].tab \in Tabs \union {Nobody}
  /\ told \subseteq Credentials
=============================================================================
