----------------------------- MODULE SiteProofs -----------------------------
(***************************************************************************)
(* Theorems about Site, for every value of its constants: accounts, the    *)
(* form, the stored sets with the copies games start from, the board, and  *)
(* the picker of sets.  Each part has an invariant of its own, which only  *)
(* the steps of one or two topics can disturb.                             *)
(***************************************************************************)
EXTENDS Site, FiniteSetTheorems, SequenceTheorems, TLAPS

-----------------------------------------------------------------------------
(* Accounts                                                                 *)

AccountRows == Credentials \cup {Guest}
Tokens == [sub : Nat, email : Emails \cup {Guest.email}]
TabStates == [at : {"main", "login", "form"}, shown : BOOLEAN, calm : BOOLEAN]
AccountPosts ==
  [ask : {"login", "signup"}, from : {"modal", "page"}, tab : Tabs \cup {Nobody},
   c : AccountRows, at : {"sent", "answered", "over"}, answer : Tokens]

AccountShape ==
  /\ users \in Seq(AccountRows) /\ token \in Tokens /\ posts \in Seq(AccountPosts)
  /\ tabs \in [Tabs -> TabStates]

Unique == \A i, j \in DOMAIN users : users[i].email = users[j].email => i = j

(* A token that was signed is of a row, an answer to a sign-up of the row   *)
(* it made, and who was told has one.                                       *)
Opens(t) == t.sub \in DOMAIN users /\ users[t.sub].email = t.email
Issued ==
  /\ token # NoToken => Opens(token)
  /\ \A i \in DOMAIN posts : posts[i].answer # NoAnswer =>
       Opens(posts[i].answer) /\ (posts[i].ask = "signup" => users[posts[i].answer.sub] = posts[i].c)
  /\ \A c \in told : \E i \in DOMAIN users : users[i] = c

(* Sign-ins of the page that a tab with the main page still waits for.      *)
Late(p, t) == p.tab = t /\ p.ask = "login" /\ p.from = "page" /\ p.at # "over"
NoneLate == \A t \in Tabs : tabs[t].at = "main" /\ tabs[t].calm => \A i \in DOMAIN posts : ~Late(posts[i], t)

AccountInv == AccountShape /\ Unique /\ Issued /\ ShownSignedIn /\ NoneLate

(* Nobody has signed up, or the guest only.                                 *)
LEMMA AccountInitial == AccountInit => AccountInv
<1> SUFFICES ASSUME AccountInit PROVE AccountInv
  OBVIOUS
<1>1. NoToken \in Tokens
  BY DEF NoToken, Tokens
<1>2. AccountShape
  <2>1. Guest \in AccountRows /\ << >> \in Seq(AccountRows) /\ << >> \in Seq(AccountPosts)
    BY DEF AccountRows
  <2> HIDE DEF AccountRows, AccountPosts
  <2>3. <<Guest>> \in Seq(AccountRows)
    BY <2>1
  <2>2. tabs \in [Tabs -> TabStates]
    BY DEF AccountInit, TabStates
  <2> QED
    BY <1>1, <2>1, <2>2, <2>3 DEF AccountInit, AccountShape
<1>3. Unique /\ Issued /\ ShownSignedIn /\ NoneLate
  BY DEF AccountInit, Unique, Issued, ShownSignedIn, NoneLate
<1> QED
  BY <1>2, <1>3 DEF AccountInv

(* FindOne is the row of the address, if there is one.                      *)
LEMMA FindOneRow ==
  ASSUME AccountShape, Unique, NEW e
  PROVE  /\ FindOne(e) # Nobody => FindOne(e) \in DOMAIN users /\ users[FindOne(e)].email = e
         /\ \A i \in DOMAIN users : users[i].email = e => FindOne(e) = i
<1> DEFINE ids == {i \in DOMAIN users : users[i].email = e}
<1>1. \A i, j \in ids : i = j
  BY DEF Unique
<1>2. DOMAIN users = 1..Len(users) /\ Len(users) \in Nat
  BY DEF AccountShape
<1>3. ASSUME NEW i \in ids PROVE FindOne(e) = i
  <2>1. \A k \in ids : (\A j \in ids : k <= j) => k = i
    BY <1>1
  <2>2. \A j \in ids : i <= j
    BY <1>1, <1>2
  <2>3. (CHOOSE k \in ids : \A j \in ids : k <= j) = i
    BY <2>1, <2>2
  <2> QED
    BY <2>3 DEF FindOne
<1>4. ids = {} => FindOne(e) = Nobody
  BY DEF FindOne
<1> QED
  BY <1>3, <1>4

(* The requests after some are over or forgotten.                           *)
Fewer(qs) ==
  /\ qs \in Seq(AccountPosts) /\ DOMAIN qs = DOMAIN posts
  /\ \A k \in DOMAIN posts : qs[k].ask = posts[k].ask /\ qs[k].c = posts[k].c /\ qs[k].answer = posts[k].answer
  /\ \A k \in DOMAIN posts, u \in Tabs : Late(qs[k], u) => Late(posts[k], u)

(* A step that leaves the rows alone and appends a request, or changes one. *)
LEMMA AccountStep == AccountInv /\ AccountSteps => AccountInv'
<1> SUFFICES ASSUME AccountInv, AccountSteps PROVE AccountInv'
  OBVIOUS
<1> USE DEF AccountInv
<1>0. /\ Len(posts) \in Nat /\ DOMAIN posts = 1..Len(posts) /\ \A i \in DOMAIN posts : posts[i] \in AccountPosts
      /\ Len(users) \in Nat /\ DOMAIN users = 1..Len(users) /\ \A i \in DOMAIN users : users[i] \in AccountRows
      /\ Nobody \notin Tabs /\ NoToken \in Tokens
      /\ \A u \in Tabs : tabs[u] \in TabStates
  BY AccountBounds DEF AccountShape, Nobody, NoToken, Tokens
<1>c. ASSUME NEW t \in Tabs, tabs'[t] \in TabStates, tabs' = [u \in Tabs |-> tabs'[u]],
             \A u \in Tabs \ {t} : tabs'[u] = [tabs[u] EXCEPT !.calm = FALSE]
      PROVE  tabs' \in [Tabs -> TabStates] /\ \A u \in Tabs \ {t} : tabs'[u].calm = FALSE
  <2>1. \A u \in Tabs : [tabs[u] EXCEPT !.calm = FALSE] \in TabStates /\ [tabs[u] EXCEPT !.calm = FALSE].calm = FALSE
    BY <1>0 DEF TabStates
  <2>2. \A u \in Tabs : tabs'[u] \in TabStates
    BY <1>c, <2>1
  <2> QED
    BY <1>c, <2>1, <2>2
<1>1. ASSUME NEW t \in Tabs, NEW ask \in {"login", "signup"}, NEW from \in {"modal", "page"}, NEW c \in AccountRows,
             Post(t, ask, from, c), from = "page" => tabs[t].at # "main"
      PROVE  AccountInv'
  <2> DEFINE p == [ask |-> ask, from |-> from, tab |-> t, c |-> c, at |-> "sent", answer |-> NoAnswer]
  <2>1. p \in AccountPosts /\ posts' = Append(posts, p) /\ UNCHANGED <<users, token, tabs, told>>
    BY <1>0, <1>1 DEF Post, AccountPosts, NoAnswer
  <2>2. p.answer = NoAnswer /\ (~Late(p, t) \/ tabs[t].at # "main")
    BY <1>1 DEF Late
  <2>3. \A u \in Tabs \ {t} : ~Late(p, u)
    BY DEF Late
  <2>4. p.answer = NoAnswer
    OBVIOUS
  <2> HIDE DEF p
  <2>5. posts' \in Seq(AccountPosts) /\ DOMAIN posts' = 1..(Len(posts) + 1)
        /\ \A i \in DOMAIN posts' : posts'[i] = IF i = Len(posts) + 1 THEN p ELSE posts[i]
    BY <1>0, <2>1 DEF AccountShape
  <2>6. AccountShape' /\ Unique' /\ ShownSignedIn'
    BY <2>1, <2>5 DEF AccountShape, Unique, ShownSignedIn, NoToken
  <2>7. Issued'
    BY <1>0, <2>1, <2>4, <2>5 DEF Issued, Opens, NoAnswer, NoToken
  <2>8. NoneLate'
    BY <1>0, <2>1, <2>2, <2>3, <2>5 DEF NoneLate
  <2> QED
    BY <2>6, <2>7, <2>8
<1>2. Fewer(posts)
  BY DEF Fewer, AccountShape
<1>3. ASSUME NEW i \in DOMAIN posts
      PROVE  Fewer(Over(i)) /\ \A u \in Tabs : ~Late(Over(i)[i], u)
  <2>1. [posts[i] EXCEPT !.at = "over"] \in AccountPosts
    BY <1>0 DEF AccountPosts
  <2>2. Over(i) = [k \in DOMAIN posts |-> IF k = i THEN [posts[i] EXCEPT !.at = "over"] ELSE posts[k]]
    BY <1>0 DEF Over
  <2>3. Over(i) \in Seq(AccountPosts) /\ DOMAIN Over(i) = DOMAIN posts
    BY <1>0, <2>1, <2>2
  <2> QED
    BY <1>0, <2>2, <2>3 DEF AccountPosts, Late, Fewer
<1>4. ASSUME NEW ps, Fewer(ps), NEW t \in Tabs
      PROVE  Fewer(Forgotten(ps, t)) /\ \A k \in DOMAIN posts : ~Late(Forgotten(ps, t)[k], t)
  <2>0. DOMAIN ps = DOMAIN posts /\ \A k \in DOMAIN posts : ps[k] \in AccountPosts
    BY <1>0, <1>4 DEF Fewer
  <2>1. \A k \in DOMAIN posts : [ps[k] EXCEPT !.tab = Nobody] \in AccountPosts
    BY <2>0 DEF AccountPosts
  <2>2. Forgotten(ps, t) = [k \in DOMAIN posts |-> IF ps[k].tab = t THEN [ps[k] EXCEPT !.tab = Nobody] ELSE ps[k]]
    BY <2>0 DEF Forgotten
  <2>3. Forgotten(ps, t) \in Seq(AccountPosts) /\ DOMAIN Forgotten(ps, t) = DOMAIN posts
    BY <1>0, <2>0, <2>1, <2>2
  <2>4. ASSUME NEW k \in DOMAIN posts
        PROVE  LET q == Forgotten(ps, t)[k] IN
               /\ q.ask = ps[k].ask /\ q.c = ps[k].c /\ q.answer = ps[k].answer
               /\ \A u \in Tabs : Late(q, u) => u # t /\ Late(ps[k], u)
    BY <1>0, <2>0, <2>2 DEF AccountPosts, Late
  <2> QED
    BY <1>4, <2>3, <2>4 DEF Fewer
<1>5. ASSUME Fewer(posts'), UNCHANGED users, token' \in {token, NoToken} \/ \E i \in DOMAIN posts : token' = posts[i].answer,
             \A c \in told' \ told : \E i \in DOMAIN posts : posts[i].answer # NoAnswer /\ posts[i].ask = "signup" /\ c = posts[i].c
      PROVE  Unique' /\ Issued'
  <2>1. Unique'
    BY <1>5 DEF Unique
  <2>4. (token # NoToken => Opens(token))'
    BY <1>5 DEF Issued, Opens, NoAnswer, NoToken
  <2>5. (\A c \in told : \E i \in DOMAIN users : users[i] = c)'
    BY <1>5 DEF Issued, Opens
  <2>6. (\A i \in DOMAIN posts : posts[i].answer # NoAnswer =>
           Opens(posts[i].answer) /\ (posts[i].ask = "signup" => users[posts[i].answer.sub] = posts[i].c))'
    BY <1>5 DEF Issued, Opens, Fewer, NoAnswer, NoToken
  <2> QED
    BY <2>1, <2>4, <2>5, <2>6 DEF Issued
<1>6. ASSUME NEW t \in Tabs, ToMain(t) PROVE AccountInv'
  <2>1. Waits(posts, t) \in BOOLEAN /\ (token # NoToken) \in BOOLEAN
    BY DEF Waits
  <2>2. AccountShape'
    BY <1>6, <2>1 DEF ToMain, MainMounted, AccountShape, TabStates
  <2>3. Unique' /\ Issued'
    BY <1>2, <1>5, <1>6 DEF ToMain, Fewer
  <2>4. ShownSignedIn'
    BY <1>6 DEF ToMain, MainMounted, AccountShape, ShownSignedIn, NoToken
  <2>5. NoneLate'
    <3>1. posts' = posts /\ tabs'[t] = [at |-> "main", shown |-> token # NoToken, calm |-> ~Waits(posts, t)]
          /\ \A u \in Tabs \ {t} : tabs'[u] = tabs[u]
      BY <1>6 DEF ToMain, MainMounted, AccountShape
    <3>2. tabs'[t].calm => \A i \in DOMAIN posts : ~Late(posts[i], t)
      <4>1. CASE Waits(posts, t)
        <5>1. (~Waits(posts, t)) = FALSE
          BY <4>1
        <5>2. tabs'[t] = [at |-> "main", shown |-> token # NoToken, calm |-> FALSE]
          BY <3>1, <5>1
        <5> QED
          BY <5>2
      <4>2. CASE ~Waits(posts, t)
        BY <4>2 DEF Waits, Late
      <4> QED
        BY <4>1, <4>2
    <3> QED
      BY <3>1, <3>2 DEF NoneLate
  <2> QED
    BY <2>2, <2>3, <2>4, <2>5
<1>7. ASSUME NEW t \in Tabs, ToLogin(t) PROVE AccountInv'
  <2>1. AccountShape'
    <3>1. posts' \in Seq(AccountPosts) /\ UNCHANGED <<users, token>>
      BY <1>2, <1>4, <1>7 DEF ToLogin, Fewer
    <3>2. tabs' \in [Tabs -> TabStates]
      BY <1>7 DEF ToLogin, AccountShape, TabStates
    <3> QED
      BY <3>1, <3>2 DEF AccountShape
  <2>2. Unique' /\ Issued'
    BY <1>2, <1>4, <1>5, <1>7 DEF ToLogin, Fewer
  <2>3. ShownSignedIn'
    BY <1>7 DEF ToLogin, AccountShape, ShownSignedIn, NoToken
  <2>4. NoneLate'
    BY <1>2, <1>4, <1>7 DEF ToLogin, AccountShape, NoneLate, Fewer
  <2> QED
    BY <2>1, <2>2, <2>3, <2>4
<1>8. ASSUME NEW t \in Tabs, RefreshMain(t) PROVE AccountInv'
  <2>0. (token # NoToken) \in BOOLEAN
    OBVIOUS
  <2>1. AccountShape'
    BY <1>2, <1>4, <1>8, <2>0 DEF RefreshMain, MainMounted, AccountShape, Fewer, TabStates
  <2>2. Unique' /\ Issued'
    BY <1>2, <1>4, <1>5, <1>8 DEF RefreshMain, Fewer
  <2>3. ShownSignedIn'
    BY <1>8 DEF RefreshMain, MainMounted, AccountShape, ShownSignedIn, NoToken
  <2>4. NoneLate'
    BY <1>2, <1>4, <1>8 DEF RefreshMain, MainMounted, AccountShape, NoneLate, Fewer
  <2> QED
    BY <2>1, <2>2, <2>3, <2>4
<1>9. ASSUME NEW t \in Tabs, HandleQuizCreate(t) PROVE AccountInv'
  <2>1. AccountShape'
    BY <1>9 DEF HandleQuizCreate, AccountShape, TabStates
  <2>2. Unique' /\ Issued'
    BY <1>2, <1>5, <1>9 DEF HandleQuizCreate, Fewer
  <2>3. ShownSignedIn' /\ NoneLate'
    BY <1>9 DEF HandleQuizCreate, AccountShape, ShownSignedIn, NoneLate, NoToken
  <2> QED
    BY <2>1, <2>2, <2>3
<1>10. ASSUME NEW t \in Tabs, HandleLogout(t) PROVE AccountInv'
  <2>0. (NoToken # NoToken) = FALSE
    OBVIOUS
  <2>1. /\ tabs'[t] = [at |-> "main", shown |-> FALSE, calm |-> TRUE]
        /\ \A u \in Tabs \ {t} : tabs'[u] = [tabs[u] EXCEPT !.calm = FALSE]
        /\ tabs' = [u \in Tabs |-> tabs'[u]]
    BY <1>10, <2>0 DEF HandleLogout, Others, MainMounted, AccountShape
  <2>2. tabs' \in [Tabs -> TabStates] /\ \A u \in Tabs \ {t} : tabs'[u].calm = FALSE
    <3>1. tabs'[t] \in TabStates
      BY <2>1 DEF TabStates
    <3> QED
      BY <1>c, <2>1, <3>1
  <2>3. AccountShape'
    BY <1>0, <1>2, <1>4, <1>10, <2>2 DEF HandleLogout, AccountShape, Fewer
  <2>4. Unique' /\ Issued'
    BY <1>2, <1>4, <1>5, <1>10 DEF HandleLogout, Fewer
  <2>5. tabs'[t].shown = FALSE
    BY <2>1
  <2>8. token' = NoToken /\ NoToken' = NoToken
    BY <1>10 DEF HandleLogout, NoToken
  <2>6. ShownSignedIn'
    BY <2>2, <2>5, <2>8 DEF ShownSignedIn
  <2>7. NoneLate'
    BY <1>2, <1>4, <1>10, <2>1, <2>2 DEF HandleLogout, NoneLate, Fewer
  <2> QED
    BY <2>3, <2>4, <2>6, <2>7
<1>11. ASSUME NEW i \in DOMAIN posts, Fails(i) PROVE AccountInv'
  <2>1. AccountShape'
    BY <1>3, <1>11 DEF Fails, AccountShape, Fewer
  <2>2. Unique' /\ Issued'
    BY <1>3, <1>5, <1>11 DEF Fails, Fewer
  <2>3. ShownSignedIn'
    BY <1>11 DEF Fails, ShownSignedIn, NoToken
  <2>4. NoneLate'
    BY <1>3, <1>11 DEF Fails, NoneLate, Fewer
  <2> QED
    BY <2>1, <2>2, <2>3, <2>4
<1>12. ASSUME NEW i \in DOMAIN posts, SignedUp(i) PROVE AccountInv'
  <2>1. AccountShape'
    BY <1>3, <1>12 DEF SignedUp, AccountShape, Fewer
  <2>2. Unique' /\ Issued'
    BY <1>3, <1>5, <1>12 DEF SignedUp, Fewer
  <2>3. ShownSignedIn'
    BY <1>12 DEF SignedUp, ShownSignedIn, NoToken
  <2>4. NoneLate'
    BY <1>3, <1>12 DEF SignedUp, NoneLate, Fewer
  <2> QED
    BY <2>1, <2>2, <2>3, <2>4
<1>13. ASSUME NEW i \in DOMAIN posts, SignedIn(i) PROVE AccountInv'
  <2> DEFINE t == posts[i].tab
             answer == posts[i].answer
  <2>0. t \in Tabs /\ answer \in Tokens /\ answer # NoToken /\ token' = answer /\ UNCHANGED <<users, told>>
    BY <1>0, <1>13 DEF SignedIn, AccountPosts, NoAnswer
  <2>1. Fewer(posts') /\ ~Late(posts'[i], t)
    <3>1. CASE PageSignedIn(i)
      BY <1>3, <2>0, <3>1 DEF PageSignedIn
    <3>2. CASE ModalSignedIn(i)
      BY <1>3, <1>4, <2>0, <3>2 DEF ModalSignedIn
    <3> QED
      BY <1>13, <3>1, <3>2 DEF SignedIn
  <2>2. /\ tabs'[t] \in TabStates
        /\ \A u \in Tabs \ {t} : tabs'[u] = [tabs[u] EXCEPT !.calm = FALSE]
        /\ tabs' = [u \in Tabs |-> tabs'[u]]
        /\ tabs'[t].at = "main" /\ tabs'[t].calm => tabs'[t].shown /\ \A k \in DOMAIN posts : ~Late(posts'[k], t)
    <3> DEFINE mounted(waits) == [at |-> "main", shown |-> answer # NoToken, calm |-> ~waits]
    <3>1. CASE PageSignedIn(i) /\ tabs[t].at = "main"
      <4>1. Late(posts[i], t)
        BY <1>13, <3>1 DEF PageSignedIn, SignedIn, Late
      <4>2. tabs' = Others(tabs, t) /\ tabs[t].calm = FALSE
        BY <2>0, <3>1, <4>1 DEF PageSignedIn, NoneLate, AccountShape
      <4> QED
        BY <2>0, <3>1, <4>2 DEF Others, AccountShape
    <3>2. CASE PageSignedIn(i) /\ tabs[t].at # "main"
      <4>1. tabs' = Others(MainMounted(t, answer, Waits(Over(i), t)), t) /\ posts' = Over(i)
        BY <3>2 DEF PageSignedIn
      <4>2. tabs'[t] = mounted(Waits(Over(i), t)) /\ Waits(Over(i), t) \in BOOLEAN
        BY <2>0, <4>1 DEF Others, MainMounted, AccountShape, Waits
      <4>3. \A u \in Tabs \ {t} : tabs'[u] = [tabs[u] EXCEPT !.calm = FALSE]
        BY <2>0, <4>1 DEF Others, MainMounted, AccountShape
      <4>4. tabs' = [u \in Tabs |-> tabs'[u]]
        BY <4>1 DEF Others
      <4>5. ~Waits(Over(i), t) => \A k \in DOMAIN posts : ~Late(posts'[k], t)
        BY <2>1, <4>1 DEF Waits, Late, Fewer
      <4>6. (answer # NoToken) = TRUE
        BY <2>0
      <4> QED
        <5>1. CASE Waits(Over(i), t)
          <6>1. (~Waits(Over(i), t)) = FALSE
            BY <5>1
          <6>2. tabs'[t] = [at |-> "main", shown |-> TRUE, calm |-> FALSE]
            BY <4>2, <4>6, <6>1
          <6> QED
            BY <4>3, <4>4, <6>2 DEF TabStates
        <5>2. CASE ~Waits(Over(i), t)
          BY <2>0, <4>2, <4>3, <4>4, <4>5, <4>6, <5>2 DEF TabStates
        <5> QED
          BY <5>1, <5>2
    <3>3. CASE ModalSignedIn(i) /\ tabs[t].at # "main"
      BY <2>0, <3>3 DEF ModalSignedIn, Others, AccountShape
    <3>4. CASE ModalSignedIn(i) /\ tabs[t].at = "main"
      <4>1. tabs' = Others(MainMounted(t, answer, FALSE), t) /\ posts' = Forgotten(Over(i), t)
        BY <3>4 DEF ModalSignedIn
      <4>2. tabs'[t] = mounted(FALSE)
        BY <2>0, <4>1 DEF Others, MainMounted, AccountShape
      <4>3. \A u \in Tabs \ {t} : tabs'[u] = [tabs[u] EXCEPT !.calm = FALSE]
        BY <2>0, <4>1 DEF Others, MainMounted, AccountShape
      <4>4. tabs' = [u \in Tabs |-> tabs'[u]]
        BY <4>1 DEF Others
      <4>5. \A k \in DOMAIN posts : ~Late(posts'[k], t)
        BY <1>3, <1>4, <2>0, <4>1
      <4>6. (answer # NoToken) = TRUE
        BY <2>0
      <4> QED
        BY <2>0, <4>2, <4>3, <4>4, <4>5, <4>6 DEF TabStates
    <3> QED
      BY <1>13, <3>1, <3>2, <3>3, <3>4 DEF SignedIn
  <2>3. tabs' \in [Tabs -> TabStates] /\ \A u \in Tabs \ {t} : tabs'[u].calm = FALSE
    BY <1>c, <2>0, <2>2
  <2>4. AccountShape'
    BY <2>0, <2>1, <2>3 DEF AccountShape, Fewer
  <2>5. Unique' /\ Issued'
    BY <1>5, <2>0, <2>1
  <2>7. ShownSignedIn'
    BY <2>0, <2>2, <2>3 DEF ShownSignedIn, NoToken
  <2>8. NoneLate'
    BY <2>1, <2>2, <2>3 DEF NoneLate, Fewer
  <2> QED
    BY <2>4, <2>5, <2>7, <2>8
<1>14. ASSUME NEW i \in DOMAIN posts, NEW t \in Tokens, Answered(i, t), posts[i].at = "sent"
       PROVE  /\ posts' \in Seq(AccountPosts) /\ DOMAIN posts' = DOMAIN posts
              /\ \A k \in DOMAIN posts : posts'[k].ask = posts[k].ask /\ posts'[k].c = posts[k].c
                                        /\ posts'[k].answer = IF k = i THEN t ELSE posts[k].answer
              /\ \A k \in DOMAIN posts, u \in Tabs : Late(posts'[k], u) => Late(posts[k], u)
  <2>1. [posts[i] EXCEPT !.at = "answered", !.answer = t] \in AccountPosts
    BY <1>0 DEF AccountPosts
  <2>2. posts' = [k \in DOMAIN posts |-> IF k = i THEN [posts[i] EXCEPT !.at = "answered", !.answer = t] ELSE posts[k]]
    BY <1>0, <1>14 DEF Answered
  <2>3. posts' \in Seq(AccountPosts) /\ DOMAIN posts' = DOMAIN posts
    BY <1>0, <2>1, <2>2
  <2>4. ASSUME NEW k \in DOMAIN posts
        PROVE  /\ posts'[k].ask = posts[k].ask /\ posts'[k].c = posts[k].c
               /\ posts'[k].answer = IF k = i THEN t ELSE posts[k].answer
               /\ \A u \in Tabs : Late(posts'[k], u) => Late(posts[k], u)
    BY <1>0, <1>14, <2>2 DEF AccountPosts, Late
  <2> QED
    BY <2>3, <2>4
<1>15. ASSUME NEW i \in DOMAIN posts, ServeLogin(i), posts[i].at = "sent" PROVE AccountInv'
  <2> DEFINE id == ValidateUserInLocal(posts[i].c)
             t == IF id = Nobody THEN NoAnswer ELSE SignedToken(id)
  <2>1. id # Nobody => id \in DOMAIN users
    BY FindOneRow DEF ValidateUserInLocal
  <2>2. t \in Tokens /\ (t # NoAnswer => Opens(t))
    BY <1>0, <2>1 DEF SignedToken, Tokens, Opens, AccountRows, Credentials, NoAnswer
  <2>3. Answered(i, t) /\ posts[i].ask = "login" /\ UNCHANGED <<users, token, tabs, told>>
    BY <1>15 DEF ServeLogin
  <2> HIDE DEF t
  <2>4. AccountShape'
    BY <1>14, <1>15, <2>2, <2>3 DEF AccountShape
  <2>5. Unique' /\ ShownSignedIn'
    BY <2>3 DEF Unique, ShownSignedIn, NoToken
  <2>6. NoneLate'
    BY <1>14, <1>15, <2>2, <2>3 DEF NoneLate
  <2>7. Issued'
    BY <1>14, <1>15, <2>2, <2>3 DEF Issued, Opens, NoAnswer, NoToken
  <2> QED
    BY <2>4, <2>5, <2>6, <2>7
<1>16. ASSUME NEW i \in DOMAIN posts, ServeSignup(i), posts[i].at = "sent" PROVE AccountInv'
  <2> DEFINE c == posts[i].c
             t == [sub |-> Len(users) + 1, email |-> c.email]
  <2>0. c \in AccountRows /\ UNCHANGED <<token, tabs, told>> /\ posts[i].ask = "signup"
    BY <1>0, <1>16 DEF ServeSignup, AccountPosts
  <2>1. CASE ~Savable(c)
    <3>1. Answered(i, NoAnswer) /\ UNCHANGED users /\ NoAnswer \in Tokens
      BY <1>0, <1>16, <2>1 DEF ServeSignup, NoAnswer
    <3>2. AccountShape'
      BY <1>14, <1>16, <2>0, <3>1 DEF AccountShape
    <3>3. Unique' /\ ShownSignedIn'
      BY <2>0, <3>1 DEF Unique, ShownSignedIn, NoToken
    <3>4. NoneLate'
      BY <1>14, <1>16, <2>0, <3>1 DEF NoneLate
    <3>5. Issued'
      BY <1>14, <1>16, <2>0, <3>1 DEF Issued, Opens, NoAnswer, NoToken
    <3> QED
      BY <3>2, <3>3, <3>4, <3>5
  <2>2. CASE Savable(c)
    <3>1. Answered(i, t) /\ users' = Append(users, c)
      BY <1>16, <2>2 DEF ServeSignup
    <3>2. t \in Tokens
      BY <1>0, <2>0 DEF Tokens, AccountRows, Credentials
    <3>3. users' \in Seq(AccountRows) /\ DOMAIN users' = 1..(Len(users) + 1) /\ users'[Len(users) + 1] = c
          /\ \A k \in DOMAIN users : users'[k] = users[k]
      BY <1>0, <2>0, <3>1 DEF AccountShape
    <3>4. t.sub = Len(users) + 1 /\ t.email = c.email
      OBVIOUS
    <3> HIDE DEF t
    <3>5. AccountShape'
      BY <1>14, <1>16, <2>0, <3>1, <3>2, <3>3 DEF AccountShape
    <3>6. Unique'
      <4>1. \A k \in DOMAIN users : users[k].email # c.email
        BY <2>2 DEF Savable
      <4> HIDE DEF c
      <4> QED
        BY <1>0, <3>3, <4>1 DEF Unique
    <3>7. ShownSignedIn'
      BY <2>0 DEF ShownSignedIn, NoToken
    <3>8. NoneLate'
      BY <1>14, <1>16, <2>0, <3>1, <3>2 DEF NoneLate
    <3>9. \A x \in DOMAIN users : x \in DOMAIN users'
      BY <1>0, <3>3
    <3>10. (token # NoToken => Opens(token))'
      BY <2>0, <3>3, <3>9 DEF Issued, Opens, NoToken
    <3>11. (\A d \in told : \E k \in DOMAIN users : users[k] = d)'
      BY <2>0, <3>3, <3>9 DEF Issued
    <3>12. ASSUME NEW k \in DOMAIN posts', posts'[k].answer # NoAnswer
           PROVE  (Opens(posts[k].answer) /\ (posts[k].ask = "signup" => users[posts[k].answer.sub] = posts[k].c))'
      <4>1. CASE k = i
        BY <1>0, <1>14, <1>16, <2>0, <3>1, <3>2, <3>3, <3>4, <4>1 DEF Opens
      <4>2. CASE k # i
        <5>1. k \in DOMAIN posts /\ posts'[k].answer = posts[k].answer /\ posts'[k].ask = posts[k].ask /\ posts'[k].c = posts[k].c
          BY <1>14, <1>16, <3>1, <3>2, <3>12, <4>2
        <5>2. /\ posts[k].answer.sub \in DOMAIN users /\ users[posts[k].answer.sub].email = posts[k].answer.email
              /\ posts[k].ask = "signup" => users[posts[k].answer.sub] = posts[k].c
          BY <3>12, <5>1 DEF Issued, Opens, NoAnswer, NoToken
        <5>3. users'[posts[k].answer.sub] = users[posts[k].answer.sub] /\ posts[k].answer.sub \in DOMAIN users'
          BY <3>3, <3>9, <5>2
        <5> QED
          BY <5>1, <5>2, <5>3 DEF Opens
      <4> QED
        BY <4>1, <4>2
    <3>13. Issued'
      BY <3>10, <3>11, <3>12 DEF Issued, NoAnswer, NoToken
    <3> QED
      BY <3>5, <3>6, <3>7, <3>8, <3>13
  <2> QED
    BY <2>1, <2>2
<1>17. ASSUME NEW t \in Tabs, ModalLogin(t) \/ ModalSignUp(t) \/ PageLogin(t) \/ PageSignUp(t) PROVE AccountInv'
  BY <1>1, <1>17 DEF ModalLogin, ModalSignUp, PageLogin, PageSignUp, AccountRows
<1> HIDE DEF AccountInv
<1> QED
  BY <1>6, <1>7, <1>8, <1>9, <1>10, <1>11, <1>12, <1>13, <1>15, <1>16, <1>17 DEF AccountSteps

-----------------------------------------------------------------------------
(* The form: every quiz in it, and in a request that was sent, has two      *)
(* choices or more and one answer.                                          *)

FormLimits == (3..60) \cup {NaN}
OneAnswer(cs) == \E a \in DOMAIN cs : \A j \in DOMAIN cs : cs[j].answer <=> j = a
Choosable(cs) == Len(cs) >= 2 /\ OneAnswer(cs)

FormChoices == [order : Nat, answer : BOOLEAN, filled : BOOLEAN]
FormQuizzes == {q \in [filled : BOOLEAN, limit : FormLimits, choices : Seq(FormChoices)] : Choosable(q.choices)}
Forms == [title : BOOLEAN, category : BOOLEAN, quizzes : Seq(FormQuizzes)]

BodyChoices == [order : Nat, answer : BOOLEAN]
BodyQuizzes == {q \in [limit : FormLimits, choices : Seq(BodyChoices)] : Choosable(q.choices)}

FormInv == form \in Forms /\ \A r \in sent : r.body.quizzes \in Seq(BodyQuizzes)

(* A quiz is choosable when one of two choices or more is the answer.       *)
LEMMA OnlyAnswer ==
  ASSUME NEW cs, Len(cs) >= 2, NEW a \in DOMAIN cs, \A j \in DOMAIN cs : cs[j].answer <=> j = a
  PROVE  Choosable(cs)
BY Zenon DEF Choosable, OneAnswer

(* Choices that carry the same answers are as choosable.                    *)
LEMMA SameAnswers ==
  ASSUME NEW cs, NEW ds, Choosable(cs), Len(ds) = Len(cs), DOMAIN ds = DOMAIN cs,
         \A j \in DOMAIN cs : ds[j].answer <=> cs[j].answer
  PROVE  Choosable(ds)
<1>1. PICK a \in DOMAIN cs : \A j \in DOMAIN cs : cs[j].answer <=> j = a
  BY DEF Choosable, OneAnswer
<1>2. Len(ds) >= 2
  BY DEF Choosable
<1>3. \A j \in DOMAIN ds : ds[j].answer <=> j = a
  BY <1>1, Zenon
<1>4. a \in DOMAIN ds
  OBVIOUS
<1> QED
  BY <1>2, <1>3, <1>4, OnlyAnswer, Zenon

(* RemoveAt, of the community modules, closes the gap.                      *)
LEMMA Removed ==
  ASSUME NEW S, NEW s \in Seq(S), NEW i \in DOMAIN s
  PROVE  /\ RemoveAt(s, i) \in Seq(S) /\ Len(RemoveAt(s, i)) = Len(s) - 1
         /\ \A k \in 1..(Len(s) - 1) : RemoveAt(s, i)[k] = IF k < i THEN s[k] ELSE s[k + 1]
<1> DEFINE a == SubSeq(s, 1, i - 1)
           b == SubSeq(s, i + 1, Len(s))
<1>1. Len(s) \in Nat /\ i \in 1..Len(s) /\ DOMAIN s = 1..Len(s)
  OBVIOUS
<1>2. a \in Seq(S) /\ Len(a) = i - 1 /\ \A k \in 1..(i - 1) : a[k] = s[k]
  BY <1>1
<1>3. b \in Seq(S) /\ Len(b) = Len(s) - i /\ \A k \in 1..(Len(s) - i) : b[k] = s[i + k]
  BY <1>1
<1> HIDE DEF a, b
<1>4. a \o b \in Seq(S) /\ Len(a \o b) = Len(s) - 1
  <2>0. a \in Seq(S) /\ b \in Seq(S)
    BY <1>2, <1>3
  <2>1. Len(a \o b) = Len(a) + Len(b)
    BY <2>0
  <2>2. a \o b \in Seq(S)
    BY <2>0
  <2> QED
    BY <1>1, <1>2, <1>3, <2>1, <2>2
<1>5. ASSUME NEW k \in 1..(Len(s) - 1)
      PROVE  (a \o b)[k] = IF k < i THEN s[k] ELSE s[k + 1]
  <2>1. CASE k < i
    BY <1>1, <1>2, <1>3, <2>1
  <2>2. CASE ~(k < i)
    <3>1. (a \o b)[k] = b[k - (i - 1)]
      BY <1>1, <1>2, <1>3, <2>2
    <3>2. k - (i - 1) \in 1..(Len(s) - i) /\ i + (k - (i - 1)) = k + 1
      BY <1>1, <2>2
    <3> QED
      BY <1>3, <2>2, <3>1, <3>2
  <2> QED
    BY <2>1, <2>2
<1> QED
  BY <1>4, <1>5 DEF RemoveAt, a, b

(* The new quiz, and a form that is filled in.                              *)
LEMMA NewQuizzes == NewQuiz \in FormQuizzes /\ Blank \in Forms /\ Filled \in Forms
<1>1. ASSUME NEW n \in Nat, NEW b \in BOOLEAN
      PROVE  NewChoice(n, b) \in FormChoices /\ NewChoice(n, b).answer = b
             /\ [NewChoice(n, b) EXCEPT !.filled = TRUE] \in FormChoices /\ [NewChoice(n, b) EXCEPT !.filled = TRUE].answer = b
  BY DEF NewChoice, FormChoices
<1>2. NewQuiz \in FormQuizzes
  <2> DEFINE c == NewChoice(1, TRUE)
             d == NewChoice(2, FALSE)
             cs == <<c, d>>
  <2>0. c \in FormChoices /\ c.answer /\ d \in FormChoices /\ ~d.answer
    BY <1>1
  <2>4. NewQuiz = [filled |-> FALSE, limit |-> 10, choices |-> cs] /\ 10 \in FormLimits
    BY DEF NewQuiz, FormLimits
  <2> HIDE DEF c, d
  <2>1. cs \in Seq(FormChoices) /\ Len(cs) = 2 /\ DOMAIN cs = 1..2 /\ cs[1] = c /\ cs[2] = d
    BY <2>0
  <2> HIDE DEF cs
  <2>2. \A j \in DOMAIN cs : cs[j].answer <=> j = 1
    BY <2>0, <2>1
  <2>3. Len(cs) >= 2 /\ 1 \in DOMAIN cs
    BY <2>1
  <2>5. Choosable(cs)
    BY <2>2, <2>3, OnlyAnswer, Zenon
  <2> QED
    BY <2>1, <2>4, <2>5 DEF FormQuizzes
<1>3. FilledQuiz \in FormQuizzes
  <2> DEFINE c(i) == [order |-> i, answer |-> i = 1, filled |-> TRUE]
             cs == [i \in 1..3 |-> c(i)]
  <2>1. ASSUME NEW i \in 1..3 PROVE c(i) \in FormChoices /\ (c(i).answer <=> i = 1)
    <3>1. ASSUME NEW b \in BOOLEAN
          PROVE  LET d == [order |-> i, answer |-> b, filled |-> TRUE] IN d \in FormChoices /\ d.answer = b
      BY DEF FormChoices
    <3>2. (i = 1) \in BOOLEAN
      OBVIOUS
    <3> QED
      BY <3>1, <3>2, Zenon
  <2>2. FilledQuiz = [filled |-> TRUE, limit |-> 10, choices |-> cs] /\ 10 \in FormLimits
    BY DEF FilledQuiz, FormLimits
  <2> HIDE DEF c
  <2>3. DOMAIN cs = 1..3 /\ \A i \in 1..3 : cs[i] \in FormChoices /\ (cs[i].answer <=> i = 1)
    BY <2>1
  <2>6. PICK n \in Nat : n = 3
    OBVIOUS
  <2>7. cs \in [1..n -> FormChoices]
    BY <2>3, <2>6
  <2>8. cs \in Seq(FormChoices) /\ Len(cs) = n
    BY <2>7
  <2> HIDE DEF cs
  <2>9. Len(cs) >= 2 /\ 1 \in DOMAIN cs
    BY <2>3, <2>6, <2>8
  <2>10. \A j \in DOMAIN cs : cs[j].answer <=> j = 1
    BY <2>3
  <2>11. Choosable(cs)
    BY <2>9, <2>10, OnlyAnswer, Zenon
  <2> QED
    BY <2>2, <2>8, <2>11 DEF FormQuizzes
<1>4. Mounted(<< >>) = <<NewQuiz>>
  BY DEF Mounted
<1>5. <<NewQuiz>> \in Seq(FormQuizzes) /\ <<FilledQuiz>> \in Seq(FormQuizzes)
  BY <1>2, <1>3
<1> QED
  BY <1>4, <1>5 DEF Blank, Filled, Forms

(* A quiz of the form is replaced.                                          *)
LEMMA QuizChanged ==
  ASSUME form \in Forms, NEW i \in DOMAIN Quizzes, NEW q \in FormQuizzes
  PROVE  [form EXCEPT !.quizzes[i] = q] \in Forms
<1>1. Quizzes \in Seq(FormQuizzes)
  BY DEF Forms, Quizzes
<1>2. [Quizzes EXCEPT ![i] = q] \in Seq(FormQuizzes)
  BY <1>1
<1> QED
  BY <1>2 DEF Forms, Quizzes

(* Its choices are replaced.                                                *)
LEMMA ChoicesChanged ==
  ASSUME form \in Forms, NEW i \in DOMAIN Quizzes, NEW cs \in Seq(FormChoices), Choosable(cs)
  PROVE  [form EXCEPT !.quizzes[i].choices = cs] \in Forms
<1>1. Quizzes \in Seq(FormQuizzes) /\ Quizzes[i] \in FormQuizzes
  BY DEF Forms, Quizzes
<1>2. [Quizzes[i] EXCEPT !.choices = cs] \in FormQuizzes
  BY <1>1 DEF FormQuizzes
<1>3. [form EXCEPT !.quizzes[i] = [Quizzes[i] EXCEPT !.choices = cs]] \in Forms
  BY <1>2, QuizChanged
<1> QED
  BY <1>3 DEF Quizzes

(* What handleLimitTime makes of any number is a limit, or a cleared field. *)
LEMMA LimitsBounded == ASSUME NEW typed \in Limits PROVE LimitOf(typed) \in FormLimits
<1>1. CASE typed = NaN
  BY <1>1 DEF LimitOf, FormLimits
<1>2. CASE typed # NaN
  <2>1. typed \in Int
    BY <1>2, FormInputs
  <2> DEFINE n == IF typed > 99 THEN typed % 10 ELSE typed
  <2>2. n \in Int
    BY <2>1
  <2>3. LimitOf(typed) = CASE n < 3 -> 3 [] n > 60 -> 60 [] OTHER -> n
    BY <1>2 DEF LimitOf
  <2> HIDE DEF n
  <2> QED
    BY <2>2, <2>3 DEF FormLimits
<1> QED
  BY <1>1, <1>2

(* No input to the form takes the one answer, or the second choice, away.   *)
LEMMA TypingStep == FormInv /\ Typing => FormInv'
<1> SUFFICES ASSUME FormInv, Typing PROVE FormInv'
  OBVIOUS
<1>0. /\ form \in Forms /\ Quizzes \in Seq(FormQuizzes) /\ \A i \in DOMAIN Quizzes : Quizzes[i] \in FormQuizzes
      /\ \A i \in DOMAIN Quizzes : ChoicesOf(i) \in Seq(FormChoices) /\ Choosable(ChoicesOf(i))
  BY DEF FormInv, Forms, Quizzes, FormQuizzes, ChoicesOf
<1>1. ASSUME NEW b \in BOOLEAN, Type("title", b) PROVE FormInv'
  BY <1>0, <1>1 DEF Type, FormInv, Forms
<1>2. ASSUME Type("category", TRUE) PROVE FormInv'
  BY <1>0, <1>2 DEF Type, FormInv, Forms
<1>3. ASSUME NEW i \in DOMAIN Quizzes, NEW b \in BOOLEAN, TypeQuiz(i, b) PROVE FormInv'
  <2>1. [Quizzes[i] EXCEPT !.filled = b] \in FormQuizzes
    BY <1>0 DEF FormQuizzes
  <2>2. form' = [form EXCEPT !.quizzes[i] = [Quizzes[i] EXCEPT !.filled = b]] /\ UNCHANGED sent
    BY <1>3 DEF TypeQuiz, Quizzes
  <2> QED
    BY <1>0, <2>1, <2>2, QuizChanged DEF FormInv
<1>4. ASSUME NEW i \in DOMAIN Quizzes, NEW typed \in Limits, TypeLimit(i, typed) PROVE FormInv'
  <2>1. [Quizzes[i] EXCEPT !.limit = LimitOf(typed)] \in FormQuizzes
    BY <1>0, LimitsBounded DEF FormQuizzes
  <2>2. form' = [form EXCEPT !.quizzes[i] = [Quizzes[i] EXCEPT !.limit = LimitOf(typed)]] /\ UNCHANGED sent
    BY <1>4 DEF TypeLimit, Quizzes
  <2> QED
    BY <1>0, <2>1, <2>2, QuizChanged DEF FormInv
<1>5. ASSUME NEW i \in DOMAIN Quizzes, NEW j \in DOMAIN ChoicesOf(i), NEW b \in BOOLEAN, TypeChoice(i, j, b) PROVE FormInv'
  <2> DEFINE cs == [ChoicesOf(i) EXCEPT ![j].filled = b]
  <2>1. ChoicesOf(i)[j] \in FormChoices
    BY <1>0
  <2>2. [ChoicesOf(i)[j] EXCEPT !.filled = b] \in FormChoices /\ [ChoicesOf(i)[j] EXCEPT !.filled = b].answer = ChoicesOf(i)[j].answer
    BY <2>1 DEF FormChoices
  <2>3. cs \in Seq(FormChoices) /\ DOMAIN cs = DOMAIN ChoicesOf(i) /\ Len(cs) = Len(ChoicesOf(i))
        /\ \A k \in DOMAIN cs : (cs[k].answer <=> ChoicesOf(i)[k].answer)
    BY <1>0, <2>1, <2>2
  <2>4. form' = [form EXCEPT !.quizzes[i].choices = cs] /\ UNCHANGED sent
    BY <1>5 DEF TypeChoice, Quizzes, ChoicesOf
  <2> HIDE DEF cs
  <2>5. Choosable(cs)
    BY <1>0, <2>3, SameAnswers
  <2> QED
    BY <1>0, <2>3, <2>4, <2>5, ChoicesChanged DEF FormInv
<1>6. ASSUME NEW i \in DOMAIN Quizzes, NEW j \in DOMAIN ChoicesOf(i), MarkAnswer(i, j) PROVE FormInv'
  <2> DEFINE cs == Marked(ChoicesOf(i), j)
  <2>1. \A k \in DOMAIN ChoicesOf(i) : ChoicesOf(i)[k] \in FormChoices
    BY <1>0
  <2> DEFINE c(k) == [ChoicesOf(i)[k] EXCEPT !.answer = (k = j)]
  <2>2. ASSUME NEW k \in DOMAIN ChoicesOf(i) PROVE c(k) \in FormChoices /\ (c(k).answer <=> k = j)
    BY <2>1 DEF FormChoices
  <2>5. cs = [k \in DOMAIN ChoicesOf(i) |-> c(k)]
    BY DEF Marked
  <2>4. form' = [form EXCEPT !.quizzes[i].choices = cs] /\ UNCHANGED sent
    BY <1>6 DEF MarkAnswer, Quizzes, ChoicesOf
  <2> HIDE DEF cs, c
  <2>3. cs \in Seq(FormChoices) /\ DOMAIN cs = DOMAIN ChoicesOf(i) /\ Len(cs) = Len(ChoicesOf(i))
    BY <1>0, <2>2, <2>5
  <2>6. \A k \in DOMAIN cs : cs[k].answer <=> k = j
    BY <2>2, <2>3, <2>5
  <2>7. Choosable(cs)
    <3>1. Len(cs) >= 2 /\ j \in DOMAIN cs
      BY <1>0, <2>3 DEF Choosable
    <3> QED
      BY <2>6, <3>1, OnlyAnswer, Zenon
  <2> QED
    BY <1>0, <2>3, <2>4, <2>7, ChoicesChanged DEF FormInv
<1>7. ASSUME AddQuiz PROVE FormInv'
  <2>1. Append(Quizzes, NewQuiz) \in Seq(FormQuizzes)
    BY <1>0, NewQuizzes
  <2>2. form' = [form EXCEPT !.quizzes = Append(Quizzes, NewQuiz)] /\ UNCHANGED sent
    BY <1>7 DEF AddQuiz, Quizzes
  <2> QED
    BY <1>0, <2>1, <2>2 DEF FormInv, Forms
<1>8. ASSUME NEW i \in DOMAIN Quizzes, RemoveQuiz(i) PROVE FormInv'
  <2>1. Mounted(RemoveAt(Quizzes, i)) \in Seq(FormQuizzes)
    BY <1>0, Removed, NewQuizzes DEF Mounted
  <2>2. form' = [form EXCEPT !.quizzes = Mounted(RemoveAt(Quizzes, i))] /\ UNCHANGED sent
    BY <1>8 DEF RemoveQuiz, Quizzes
  <2> QED
    BY <1>0, <2>1, <2>2 DEF FormInv, Forms
<1>9. ASSUME NEW i \in DOMAIN Quizzes, AddChoice(i) PROVE FormInv'
  <2> DEFINE old == ChoicesOf(i)
             c == NewChoice(Len(old) + 1, FALSE)
             cs == Append(old, c)
  <2>1. c \in FormChoices /\ c.answer = FALSE /\ old \in Seq(FormChoices) /\ Choosable(old)
    BY <1>0 DEF NewChoice, FormChoices
  <2>4. form' = [form EXCEPT !.quizzes[i].choices = cs] /\ UNCHANGED sent
    BY <1>9 DEF AddChoice, Quizzes, ChoicesOf
  <2> HIDE DEF old, c
  <2>2. cs \in Seq(FormChoices) /\ DOMAIN cs = 1..(Len(old) + 1) /\ Len(cs) = Len(old) + 1 /\ cs[Len(old) + 1] = c
        /\ DOMAIN old = 1..Len(old) /\ Len(old) \in Nat /\ \A k \in DOMAIN old : cs[k] = old[k]
    BY <2>1
  <2> HIDE DEF cs
  <2>3. PICK a \in DOMAIN old : \A k \in DOMAIN old : old[k].answer <=> k = a
    BY <2>1 DEF Choosable, OneAnswer
  <2>5. \A k \in DOMAIN cs : (cs[k].answer <=> k = a)
    BY <2>1, <2>2, <2>3
  <2>6. Choosable(cs)
    <3>1. Len(cs) >= 2 /\ a \in DOMAIN cs
      BY <2>1, <2>2 DEF Choosable
    <3> QED
      BY <2>5, <3>1, OnlyAnswer, Zenon
  <2> QED
    BY <1>0, <2>2, <2>4, <2>6, ChoicesChanged DEF FormInv
<1>10. ASSUME NEW i \in DOMAIN Quizzes, NEW j \in DOMAIN ChoicesOf(i), RemoveChoice(i, j) PROVE FormInv'
  <2> DEFINE old == ChoicesOf(i)
             cs == RemoveAt(old, j)
  <2>1. old \in Seq(FormChoices) /\ Choosable(old) /\ j \in DOMAIN old /\ Len(old) > 2 /\ ~old[j].answer
    BY <1>0, <1>10 DEF RemoveChoice, Removable
  <2>2. form' = [form EXCEPT !.quizzes[i].choices = cs] /\ UNCHANGED sent
    BY <1>10 DEF RemoveChoice, Quizzes, ChoicesOf
  <2> HIDE DEF old
  <2>3. /\ cs \in Seq(FormChoices) /\ Len(cs) = Len(old) - 1 /\ Len(old) \in Nat /\ DOMAIN old = 1..Len(old)
        /\ \A k \in 1..(Len(old) - 1) : cs[k] = IF k < j THEN old[k] ELSE old[k + 1]
    BY <2>1, Removed
  <2> HIDE DEF cs
  <2>4. DOMAIN cs = 1..(Len(old) - 1)
    BY <2>3
  <2>5. PICK a \in DOMAIN old : \A k \in DOMAIN old : old[k].answer <=> k = a
    BY <2>1 DEF Choosable, OneAnswer
  <2>6. a # j
    BY <2>1, <2>5
  <2> DEFINE b == IF a < j THEN a ELSE a - 1
  <2>7. b \in DOMAIN cs
    BY <2>1, <2>3, <2>4, <2>6
  <2>8. ASSUME NEW k \in DOMAIN cs PROVE cs[k].answer <=> k = b
    <3>1. CASE k < j
      <4>1. cs[k] = old[k] /\ k \in DOMAIN old /\ (k = a <=> k = b)
        BY <2>1, <2>3, <2>4, <2>6, <3>1
      <4> QED
        BY <2>5, <4>1
    <3>2. CASE ~(k < j)
      <4>1. cs[k] = old[k + 1] /\ k + 1 \in DOMAIN old /\ (k + 1 = a <=> k = b)
        BY <2>1, <2>3, <2>4, <2>6, <3>2
      <4> QED
        BY <2>5, <4>1
    <3> QED
      BY <3>1, <3>2
  <2>9. Choosable(cs)
    <3>1. Len(cs) >= 2
      BY <2>1, <2>3
    <3> QED
      BY <2>7, <2>8, <3>1, OnlyAnswer, Zenon
  <2> QED
    BY <1>0, <2>2, <2>3, <2>9, ChoicesChanged DEF FormInv
<1>11. ASSUME Submit PROVE FormInv'
  <2>1. Payload.quizzes \in Seq(BodyQuizzes)
    <3> DEFINE body(i) == [j \in DOMAIN ChoicesOf(i) |-> [order |-> ChoicesOf(i)[j].order, answer |-> ChoicesOf(i)[j].answer]]
               quiz(i) == [limit |-> Quizzes[i].limit, choices |-> body(i)]
    <3>1. ASSUME NEW i \in DOMAIN Quizzes PROVE quiz(i) \in BodyQuizzes
      <4>1. \A j \in DOMAIN ChoicesOf(i) : ChoicesOf(i)[j] \in FormChoices
        BY <1>0
      <4>2. \A j \in DOMAIN ChoicesOf(i) : body(i)[j] \in BodyChoices /\ (body(i)[j].answer <=> ChoicesOf(i)[j].answer)
        BY <4>1 DEF FormChoices, BodyChoices
      <4>3. DOMAIN body(i) = DOMAIN ChoicesOf(i) /\ body(i) = [j \in DOMAIN ChoicesOf(i) |-> body(i)[j]]
        OBVIOUS
      <4>4. Quizzes[i].limit \in FormLimits
        BY <1>0 DEF FormQuizzes
      <4> HIDE DEF body
      <4>5. body(i) \in Seq(BodyChoices) /\ Len(body(i)) = Len(ChoicesOf(i))
        BY <1>0, <4>2, <4>3
      <4>6. Choosable(body(i))
        BY <1>0, <4>2, <4>3, <4>5, SameAnswers
      <4> QED
        BY <4>4, <4>5, <4>6 DEF BodyQuizzes
    <3>2. Payload.quizzes = [i \in DOMAIN Quizzes |-> quiz(i)]
      BY DEF Payload
    <3> HIDE DEF quiz
    <3> QED
      BY <1>0, <3>1, <3>2
  <2>2. form' = form /\ (sent' = sent \/ sent' = sent \union {[no |-> edits, body |-> Payload]})
    BY <1>11 DEF Submit
  <2> HIDE DEF Payload
  <2> QED
    BY <2>1, <2>2 DEF FormInv
<1> QED
  BY <1>1, <1>2, <1>3, <1>4, <1>5, <1>6, <1>7, <1>8, <1>9, <1>10, <1>11 DEF Typing

-----------------------------------------------------------------------------
(* The stored sets, and the copies games start from                         *)

Copies == [row : Nat, list : Nat, choices : Nat, quizzes : QuizRows]
Parts(copy) == {copy.row, copy.list, copy.choices}
Starts == [at : {"idle", "row", "list", "choices", "set", "ready"}, id : 0..MaxSets, copy : Copies]

CatalogShape ==
  /\ sets \in Seq(SetRows) /\ Len(sets) \in Len(Stored)..MaxSets
  /\ cache \in [1..MaxSets -> [left : 0..TTL, copy : Copies]]
  /\ starts \in [Hosts -> Starts]
  /\ retired \in [1..MaxSets -> Seq(0..TTL)]

(* Version v is one of those of a set, of which r has the ages of the       *)
(* replaced ones, and has not been replaced for longer than k.              *)
Since(r, v, k) == v \in 1..(Len(r) + 1) /\ (v <= Len(r) => r[v] <= k)

(* What the entry has left, and what its parts are old, are TTL at most;    *)
(* what a request has read it has read since the time last passed.          *)
CacheYoung(id) ==
  cache[id] # NotCached =>
    /\ id \in Ids /\ cache[id].left \in 1..TTL
    /\ \A v \in Parts(cache[id].copy) : Since(retired[id], v, TTL - cache[id].left)
StartYoung(h) ==
  LET s == starts[h] r == retired[s.id] IN
  /\ s.at = "idle" => s = Idle
  /\ s.at # "idle" => s.id \in Ids
  /\ s.at \in {"list", "choices", "set"} => Since(r, s.copy.row, 0)
  /\ s.at \in {"choices", "set"} => Since(r, s.copy.list, 0)
  /\ s.at = "set" => Since(r, s.copy.choices, 0)
  /\ s.at = "ready" => \A v \in Parts(s.copy) : Since(r, v, TTL - 1)

CatalogInv ==
  CatalogShape /\ StoredPlayable /\ (\A id \in 1..MaxSets : CacheYoung(id)) /\ \A h \in Hosts : StartYoung(h)

(* While nobody changes a stored set, a copy has the quizzes of its set.    *)
Current ==
  /\ \A id \in Ids : ~sets[id].patched
  /\ \A id \in 1..MaxSets : cache[id] # NotCached => cache[id].copy.quizzes = sets[id].quizzes
  /\ \A h \in Hosts : starts[h].at \in {"set", "ready"} => starts[h].copy.quizzes = sets[starts[h].id].quizzes

(* The present version has not been replaced at all.                        *)
LEMMA SinceNow == ASSUME NEW r \in Seq(0..TTL), NEW k PROVE Since(r, Len(r) + 1, k)
BY DEF Since

(* A version that is replaced is replaced since now.                        *)
LEMMA SinceReplaced ==
  ASSUME NEW r \in Seq(0..TTL), NEW v, NEW k \in Nat, Since(r, v, k)
  PROVE  Since(Append(r, 0), v, k)
<1>1. Len(Append(r, 0)) = Len(r) + 1 /\ Len(r) \in Nat /\ Append(r, 0)[Len(r) + 1] = 0
      /\ \A i \in 1..Len(r) : Append(r, 0)[i] = r[i]
  OBVIOUS
<1> QED
  BY <1>1 DEF Since

(* Not longer than k is not longer than what is longer.                     *)
LEMMA SinceLonger ==
  ASSUME NEW r \in Seq(0..TTL), NEW v, NEW k \in Int, NEW m \in Int, k <= m, Since(r, v, k)
  PROVE  Since(r, v, m)
<1>1. \A i \in 1..Len(r) : r[i] \in Int
  BY CatalogBounds
<1> QED
  BY <1>1 DEF Since

(* A function on 1..n is a sequence.                                        *)
LEMMA FunctionSeq == ASSUME NEW S, NEW n \in Nat, NEW f \in [1..n -> S] PROVE f \in Seq(S) /\ Len(f) = n
OBVIOUS

(* Min, of the community modules, on two numbers.                           *)
LEMMA MinOfTwo == ASSUME NEW a \in Int, NEW b \in Int PROVE Min({a, b}) = IF a <= b THEN a ELSE b
<1> DEFINE m == IF a <= b THEN a ELSE b
<1>1. m \in {a, b} /\ \A y \in {a, b} : m <= y
  OBVIOUS
<1>2. \A x \in {a, b} : (\A y \in {a, b} : x <= y) => x = m
  OBVIOUS
<1> HIDE DEF m
<1>3. (CHOOSE x \in {a, b} : \A y \in {a, b} : x <= y) = m
  BY <1>1, <1>2
<1> QED
  BY <1>3 DEF Min, m

(* What Tick makes of the ages.                                             *)
Older(r) == [v \in DOMAIN r |-> Min({TTL, r[v] + 1})]
(* As time passes the versions age together.                                *)
LEMMA SinceTick ==
  ASSUME NEW r \in Seq(0..TTL)
  PROVE  /\ Older(r) \in Seq(0..TTL)
         /\ \A v, k \in Nat : Since(r, v, k) => Since(Older(r), v, k + 1)
<1>1. \A i \in DOMAIN r : r[i] \in 0..TTL /\ TTL \in Nat
  BY CatalogBounds
<1>2. \A i \in DOMAIN r : Older(r)[i] = IF TTL <= r[i] + 1 THEN TTL ELSE r[i] + 1
  BY <1>1, MinOfTwo DEF Older
<1>3. DOMAIN Older(r) = DOMAIN r /\ \A i \in DOMAIN r : Older(r)[i] \in 0..TTL
  BY <1>1, <1>2 DEF Older
<1>4. Older(r) = [i \in DOMAIN r |-> Older(r)[i]]
  BY DEF Older
<1>5. Older(r) \in Seq(0..TTL) /\ Len(Older(r)) = Len(r) /\ Len(r) \in Nat /\ DOMAIN r = 1..Len(r)
  <2>1. Len(r) \in Nat /\ DOMAIN r = 1..Len(r)
    OBVIOUS
  <2>2. Older(r) \in [1..Len(r) -> 0..TTL]
    BY <1>3, <1>4, <2>1
  <2> QED
    BY <2>1, <2>2, FunctionSeq
<1>6. ASSUME NEW v \in Nat, NEW k \in Nat, Since(r, v, k) PROVE Since(Older(r), v, k + 1)
  BY <1>1, <1>2, <1>5, <1>6 DEF Since
<1> QED
  BY <1>5, <1>6

(* Nothing is cached and no game is starting.                               *)
LEMMA CatalogInitial == CatalogInit => CatalogInv /\ Current
<1> SUFFICES ASSUME CatalogInit PROVE CatalogInv /\ Current
  OBVIOUS
<1>1. Unread \in Copies /\ NotCached \in [left : 0..TTL, copy : Copies] /\ Idle \in Starts
  BY CatalogBounds DEF Unread, NotCached, Idle, Copies, Starts, QuizRows
<1>2. /\ sets = Stored /\ \A id \in 1..MaxSets : cache[id] = NotCached /\ retired[id] = << >>
      /\ \A h \in Hosts : starts[h] = Idle
  BY DEF CatalogInit
<1>3. CatalogShape
  BY <1>1, CatalogBounds, RowShapes DEF CatalogInit, CatalogShape
<1>4. Idle.at = "idle"
  BY DEF Idle
<1>5. StoredPlayable /\ \A id \in Ids : ~sets[id].patched
  BY <1>2, StoredByForm DEF StoredPlayable, Ids, Range
<1>6. Current
  BY <1>2, <1>4, <1>5 DEF Current
<1>7. (\A id \in 1..MaxSets : CacheYoung(id)) /\ \A h \in Hosts : StartYoung(h)
  BY <1>2, <1>4 DEF CacheYoung, StartYoung
<1> QED
  BY <1>3, <1>5, <1>6, <1>7 DEF CatalogInv

(* What is stored was accepted: it has the type of rows, and can be played. *)
LEMMA AcceptedPlayable ==
  ASSUME NEW qs \in Seq(BodyQuizzes), Accepted(qs)
  PROVE  qs \in QuizRows /\ AllPlayable(qs)
<1>1. ASSUME NEW i \in DOMAIN qs
      PROVE  qs[i] \in [limit : Nat, choices : Seq([order : Nat, answer : BOOLEAN])] /\ Playable(qs[i])
  <2> DEFINE q == qs[i]
             answers == {j \in DOMAIN q.choices : q.choices[j].answer}
  <2>1. q \in BodyQuizzes /\ q \in Range(qs)
    BY DEF Range
  <2> HIDE DEF q
  <2>2. q.limit \in 3..60 /\ IsInjective(OrdersOf(q))
    <3>1. IsInjective(OrdersOf(q)) /\ q.limit # NaN
      BY <2>1, Zenon DEF Accepted, Valid, Storable
    <3>2. q.limit \in FormLimits
      BY <2>1 DEF BodyQuizzes
    <3> QED
      BY <3>1, <3>2 DEF FormLimits
  <2>3. q \in [limit : Nat, choices : Seq([order : Nat, answer : BOOLEAN])]
    <3>1. q \in [limit : FormLimits, choices : Seq(BodyChoices)]
      BY <2>1 DEF BodyQuizzes
    <3>2. 3..60 \subseteq Nat
      OBVIOUS
    <3> QED
      BY <2>2, <3>1, <3>2 DEF BodyChoices
  <2>4. Len(q.choices) >= 2 /\ OneAnswer(q.choices)
    BY <2>1 DEF BodyQuizzes, Choosable
  <2>5. PICK a \in DOMAIN q.choices : \A j \in DOMAIN q.choices : q.choices[j].answer <=> j = a
    BY <2>4 DEF OneAnswer
  <2>6. answers = {a}
    BY <2>5
  <2>7. Cardinality(answers) = 1
    <3>1. Cardinality({a}) = 1
      BY FS_Singleton, Zenon
    <3> QED
      BY <2>6, <3>1
  <2>8. Playable(q)
    BY <2>2, <2>4, <2>7 DEF Playable
  <2> QED
    BY <2>3, <2>8 DEF q
<1>2. qs \in QuizRows
  <2>1. Len(qs) \in Nat /\ DOMAIN qs = 1..Len(qs) /\ qs = [i \in 1..Len(qs) |-> qs[i]]
    OBVIOUS
  <2> DEFINE S == [limit : Nat, choices : Seq([order : Nat, answer : BOOLEAN])]
  <2>2. \A i \in DOMAIN qs : qs[i] \in S
    BY <1>1
  <2> HIDE DEF S
  <2>3. qs \in Seq(S)
    BY <2>1, <2>2
  <2> QED
    BY <2>3 DEF QuizRows, S
<1> QED
  BY <1>1, <1>2 DEF AllPlayable

(* createQuizSet: a set is appended, and the copies are left alone.         *)
LEMMA InsertStep ==
  ASSUME CatalogInv, NEW u \in Users, NEW h \in BOOLEAN, NEW qs \in QuizRows, AllPlayable(qs),
         Insert(u, h, qs), UNCHANGED <<cache, starts, retired>>
  PROVE  CatalogInv' /\ (Current => Current')
<1> USE DEF CatalogInv
<1> DEFINE row == NewSet(u, h, qs)
<1>1. row \in SetRows /\ row.quizzes = qs /\ row.patched = FALSE
  BY DEF NewSet, SetRows
<1>2. sets' = Append(sets, row) /\ Len(sets) < MaxSets
  BY DEF Insert
<1> HIDE DEF row
<1>3. /\ sets' \in Seq(SetRows) /\ Len(sets') = Len(sets) + 1 /\ Len(sets) \in Nat /\ Ids = 1..Len(sets)
      /\ Ids' = 1..(Len(sets) + 1) /\ sets'[Len(sets) + 1] = row /\ \A id \in Ids : sets'[id] = sets[id]
  BY <1>1, <1>2 DEF CatalogShape, Ids
<1>4. CatalogShape'
  BY <1>2, <1>3, CatalogBounds DEF CatalogShape
<1>5. StoredPlayable'
  BY <1>1, <1>3 DEF StoredPlayable
<1>6. ASSUME NEW id \in 1..MaxSets PROVE CacheYoung(id)'
  <2>1. Ids \subseteq Ids' /\ NotCached' = NotCached
    BY <1>3 DEF NotCached, Unread
  <2> QED
    BY <2>1 DEF CacheYoung
<1>7. ASSUME NEW g \in Hosts PROVE StartYoung(g)'
  <2>1. Ids \subseteq Ids' /\ Idle' = Idle
    BY <1>3 DEF Idle, Unread
  <2> QED
    BY <2>1 DEF StartYoung
<1>8. ASSUME Current PROVE Current'
  <2>1. \A id \in Ids' : ~sets'[id].patched
    BY <1>1, <1>3, <1>8 DEF Current
  <2>2. ASSUME NEW id \in 1..MaxSets, cache'[id] # NotCached PROVE cache'[id].copy.quizzes = sets'[id].quizzes
    BY <1>3, <1>8, <2>2 DEF Current, CacheYoung
  <2>3. ASSUME NEW g \in Hosts, starts'[g].at \in {"set", "ready"} PROVE starts'[g].copy.quizzes = sets'[starts'[g].id].quizzes
    BY <1>3, <1>8, <2>3 DEF Current, StartYoung
  <2> QED
    BY <2>1, <2>2, <2>3 DEF Current, NotCached, Unread
<1> QED
  BY <1>4, <1>5, <1>6, <1>7, <1>8

(* A patched row is a row.                                                  *)
LEMMA MergedRow ==
  ASSUME NEW s \in SetRows, NEW patch \in Patches
  PROVE  Merged(s, patch) \in SetRows /\ Merged(s, patch).patched
<1> DEFINE ChoiceRows == [order : Nat, answer : BOOLEAN]
           Rows0 == [limit : Nat, choices : Seq(ChoiceRows)]
<1>1. ASSUME NEW cs \in Seq(ChoiceRows), NEW marked \in Seq(BOOLEAN) PROVE MergedChoices(cs, marked) \in Seq(ChoiceRows)
  <2> DEFINE c(i) == [cs[i] EXCEPT !.answer = IF i \in DOMAIN marked THEN marked[i] ELSE @]
  <2>1. ASSUME NEW i \in DOMAIN cs PROVE c(i) \in ChoiceRows
    <3>1. cs[i] \in ChoiceRows
      <4> HIDE DEF ChoiceRows
      <4> QED
        OBVIOUS
    <3>2. CASE i \in DOMAIN marked
      <4>1. marked[i] \in BOOLEAN
        BY <3>2
      <4> QED
        BY <3>1, <3>2, <4>1
    <3>3. CASE i \notin DOMAIN marked
      BY <3>1, <3>3
    <3> QED
      BY <3>2, <3>3
  <2>2. MergedChoices(cs, marked) = [i \in DOMAIN cs |-> c(i)] /\ DOMAIN cs = 1..Len(cs) /\ Len(cs) \in Nat
    BY DEF MergedChoices
  <2> HIDE DEF c, ChoiceRows
  <2>3. [i \in DOMAIN cs |-> c(i)] \in [1..Len(cs) -> ChoiceRows]
    BY <2>1, <2>2
  <2> QED
    BY <2>2, <2>3, FunctionSeq
<1> HIDE DEF ChoiceRows
<1>2. patch.hit \subseteq BOOLEAN /\ patch.quizzes \in Seq(Seq(BOOLEAN))
  BY RowShapes
<1>3. s.quizzes \in Seq(Rows0) /\ s.hit \in BOOLEAN /\ s.owner \in Users /\ s.live \in BOOLEAN
  BY DEF SetRows, QuizRows, ChoiceRows
<1> DEFINE q(i) == IF i \in DOMAIN patch.quizzes
                   THEN [s.quizzes[i] EXCEPT !.choices = MergedChoices(@, patch.quizzes[i])] ELSE s.quizzes[i]
           hit == IF patch.hit = {} THEN s.hit ELSE CHOOSE h \in patch.hit : TRUE
           qs == MergedQuizzes(s.quizzes, patch.quizzes)
<1>4. ASSUME NEW i \in DOMAIN s.quizzes PROVE q(i) \in Rows0
  <2>1. s.quizzes[i] \in Rows0
    <3> HIDE DEF Rows0
    <3> QED
      BY <1>3
  <2>2. CASE i \in DOMAIN patch.quizzes
    <3>1. patch.quizzes[i] \in Seq(BOOLEAN)
      BY <1>2, <2>2
    <3>2. MergedChoices(s.quizzes[i].choices, patch.quizzes[i]) \in Seq(ChoiceRows)
      BY <1>1, <2>1, <3>1
    <3> QED
      BY <2>1, <2>2, <3>2
  <2>3. CASE i \notin DOMAIN patch.quizzes
    BY <2>1, <2>3
  <2> QED
    BY <2>2, <2>3
<1> HIDE DEF Rows0
<1>5. qs \in Seq(Rows0)
  <2>1. DOMAIN s.quizzes = 1..Len(s.quizzes) /\ Len(s.quizzes) \in Nat
    BY <1>3
  <2>3. qs = [i \in DOMAIN s.quizzes |-> q(i)]
    BY DEF MergedQuizzes
  <2> HIDE DEF q
  <2>2. qs \in [1..Len(s.quizzes) -> Rows0]
    BY <1>4, <2>1, <2>3
  <2> QED
    BY <2>1, <2>2, FunctionSeq
<1>6. hit \in BOOLEAN
  BY <1>2, <1>3
<1>7. Merged(s, patch) = [s EXCEPT !.hit = hit, !.quizzes = qs, !.patched = TRUE]
  BY DEF Merged
<1>8. s = [owner |-> s.owner, live |-> s.live, hit |-> s.hit, quizzes |-> s.quizzes, patched |-> s.patched]
  BY DEF SetRows
<1> HIDE DEF hit, qs
<1>9. Merged(s, patch) = [owner |-> s.owner, live |-> s.live, hit |-> hit, quizzes |-> qs, patched |-> TRUE]
  BY <1>7, <1>8
<1> QED
  BY <1>3, <1>5, <1>6, <1>9 DEF SetRows, QuizRows, Rows0, ChoiceRows

(* A stored set is changed, and a version of it replaced.                   *)
LEMMA EditedStep == ASSUME CatalogInv, NEW id \in Ids, Edited(id) PROVE CatalogInv'
<1> USE DEF CatalogInv
<1>0. Ids = 1..Len(sets) /\ Len(sets) \in Nat /\ Ids \subseteq 1..MaxSets /\ retired[id] \in Seq(0..TTL) /\ sets[id] \in SetRows
  <2>1. Ids = 1..Len(sets) /\ Len(sets) \in Nat /\ Len(sets) <= MaxSets /\ MaxSets \in Nat
    BY CatalogBounds DEF CatalogShape, Ids
  <2>2. Ids \subseteq 1..MaxSets
    BY <2>1
  <2> QED
    BY <2>1, <2>2 DEF CatalogShape
<1>1. PICK row \in SetRows :
        /\ row.patched \/ (row.patched = sets[id].patched /\ row.quizzes = sets[id].quizzes)
        /\ sets' = [sets EXCEPT ![id] = row]
  <2>1. CASE \E u \in Users : RemoveSet(id, u)
    <3> DEFINE row == [sets[id] EXCEPT !.live = FALSE]
    <3>1. row \in SetRows /\ row.patched = sets[id].patched /\ row.quizzes = sets[id].quizzes
      BY <1>0 DEF SetRows
    <3>2. sets' = [sets EXCEPT ![id] = row]
      BY <2>1 DEF RemoveSet
    <3> QED
      BY <3>1, <3>2
  <2>2. ASSUME NEW patch \in Patches, sets' = [sets EXCEPT ![id] = Merged(@, patch)]
        PROVE  Merged(sets[id], patch) \in SetRows /\ Merged(sets[id], patch).patched
    BY <1>0, MergedRow
  <2> QED
    BY <2>1, <2>2 DEF Edited, Update
<1>2. UNCHANGED <<cache, starts>> /\ Retire(id)
  BY DEF Edited, RemoveSet, Update
<1>3. /\ retired' \in [1..MaxSets -> Seq(0..TTL)]
      /\ \A x \in 1..MaxSets : retired'[x] = IF x = id THEN Append(retired[id], 0) ELSE retired[x]
  <2>1. Append(retired[id], 0) \in Seq(0..TTL)
    BY <1>0, CatalogBounds
  <2> QED
    BY <1>0, <1>2, <2>1 DEF Retire, CatalogShape
<1>4. \A x \in 1..MaxSets, v, k \in Nat : Since(retired[x], v, k) => Since(retired'[x], v, k)
  BY <1>0, <1>3, SinceReplaced
<1>5. sets' \in Seq(SetRows) /\ Len(sets') = Len(sets) /\ Ids' = Ids /\ \A x \in Ids : sets'[x] = IF x = id THEN row ELSE sets[x]
  BY <1>0, <1>1 DEF CatalogShape, Ids
<1>6. CatalogShape'
  BY <1>2, <1>3, <1>5 DEF CatalogShape
<1>7. StoredPlayable'
  BY <1>0, <1>1, <1>5 DEF StoredPlayable
<1>8. ASSUME NEW x \in 1..MaxSets PROVE CacheYoung(x)'
  <2>1. NotCached' = NotCached /\ cache[x].copy \in Copies /\ cache[x].left \in 0..TTL
    BY DEF NotCached, Unread, CatalogShape
  <2>2. \A v \in Parts(cache[x].copy) : v \in Nat
    BY <2>1 DEF Parts, Copies
  <2>3. TTL - cache[x].left \in Nat
    BY <2>1, CatalogBounds
  <2> QED
    BY <1>2, <1>4, <1>5, <2>1, <2>2, <2>3 DEF CacheYoung
<1>9. ASSUME NEW h \in Hosts PROVE StartYoung(h)'
  <2> DEFINE s == starts[h]
  <2>1. Idle' = Idle /\ s \in Starts /\ s' = s
    BY <1>2 DEF Idle, Unread, CatalogShape
  <2>2. \A v \in Parts(s.copy) : v \in Nat
    BY <2>1 DEF Parts, Copies, Starts
  <2>3. s.copy.row \in Nat /\ s.copy.list \in Nat /\ s.copy.choices \in Nat /\ TTL - 1 \in Nat /\ 0 \in Nat
    BY <2>1, CatalogBounds DEF Copies, Starts
  <2>4. s.at # "idle" => s.id \in 1..MaxSets
    BY <1>0 DEF StartYoung, CatalogShape
  <2> HIDE DEF s
  <2>5. s.at # "idle" => \A v, k \in Nat : Since(retired[s.id], v, k) => Since(retired'[s.id], v, k)
    BY <1>4, <2>4
  <2> QED
    BY <1>5, <2>1, <2>2, <2>3, <2>5 DEF StartYoung, s
<1> QED
  BY <1>6, <1>7, <1>8, <1>9

(* A room's request for a copy, from its beginning to its end.              *)
LEMMA StartStep ==
  ASSUME CatalogInv, NEW h \in Hosts, GetQuizSet(h) \/ Finish(h) \/ \E id \in Ids : Begin(h, id)
  PROVE  CatalogInv' /\ (Current => Current')
<1> USE DEF CatalogInv
<1> DEFINE s == starts[h]
           id == s.id
<1>0. /\ s \in Starts /\ s.copy \in Copies /\ StartYoung(h) /\ TTL \in Nat \ {0}
      /\ Ids = 1..Len(sets) /\ Len(sets) \in Nat /\ Ids \subseteq 1..MaxSets
  <2>1. Ids = 1..Len(sets) /\ Len(sets) \in Nat /\ Len(sets) <= MaxSets /\ MaxSets \in Nat
    BY CatalogBounds DEF CatalogShape, Ids
  <2>2. s \in Starts
    BY DEF CatalogShape
  <2>3. s.copy \in Copies
    BY <2>2 DEF Starts
  <2> QED
    BY <2>1, <2>2, <2>3, CatalogBounds
<1>a. ASSUME NEW x \in 1..MaxSets
      PROVE  retired[x] \in Seq(0..TTL) /\ Version(x) = Len(retired[x]) + 1 /\ Version(x) \in Nat
  BY DEF CatalogShape, Version
<1>b. ASSUME NEW x \in Ids PROVE sets[x].quizzes \in QuizRows
  <2>1. sets[x] \in SetRows
    BY <1>0 DEF CatalogShape
  <2> QED
    BY <2>1 DEF SetRows
<1>c. Unread \in Copies /\ Idle \in Starts /\ Idle.at = "idle" /\ Idle' = Idle /\ NotCached' = NotCached
  <2>1. << >> \in QuizRows
    BY DEF QuizRows
  <2>2. Unread \in Copies /\ Unread' = Unread
    BY <2>1 DEF Unread, Copies
  <2>3. Idle' = Idle /\ NotCached' = NotCached
    BY <2>2 DEF Idle, NotCached
  <2>4. 0 \in 0..MaxSets
    BY CatalogBounds
  <2> HIDE DEF Unread
  <2>5. Idle \in Starts /\ Idle.at = "idle"
    BY <2>2, <2>4 DEF Starts, Idle
  <2> QED
    BY <2>2, <2>3, <2>5
<1> DEFINE Next0(new) ==
             /\ starts' = [starts EXCEPT ![h] = new]
             /\ UNCHANGED <<sets, retired>>
             /\ cache' = cache \/ (s.at = "set" /\ cache' = [cache EXCEPT ![id] = Cached(s.copy)])
             /\ new.at # "idle" => new.id \in Ids
             /\ StartYoung(h)'
             /\ Current /\ new.at \in {"set", "ready"} => new.copy.quizzes = sets[new.id].quizzes
<1>d. ASSUME NEW new, starts' = [starts EXCEPT ![h] = new], UNCHANGED retired
      PROVE  starts'[h] = new /\ starts'[h].at = new.at /\ Ids' = 1..Len(sets')
  BY <1>d DEF CatalogShape, Ids
<1>e. ASSUME NEW x \in Ids, Begin(h, x) PROVE \E new \in Starts : Next0(new)
  <2>1. x \in 1..MaxSets /\ UNCHANGED <<sets, cache, retired>> /\ cache[x].copy \in Copies /\ retired[x] \in Seq(0..TTL)
    BY <1>0, <1>a, <1>e DEF Begin, CatalogShape
  <2>2. CASE cache[x] # NotCached
    <3> DEFINE new == [at |-> "ready", id |-> x, copy |-> cache[x].copy]
    <3>1. new \in Starts /\ starts' = [starts EXCEPT ![h] = new]
      BY <1>e, <2>1, <2>2 DEF Begin, Starts
    <3>2. cache[x].left \in 1..TTL /\ \A v \in Parts(cache[x].copy) : Since(retired[x], v, TTL - cache[x].left)
      BY <2>1, <2>2 DEF CacheYoung
    <3>3. TTL - cache[x].left \in Int /\ TTL - 1 \in Int /\ TTL - cache[x].left <= TTL - 1
      BY <1>0, <3>2
    <3>4. \A v \in Parts(cache[x].copy) : Since(retired[x], v, TTL - 1)
      BY <2>1, <3>2, <3>3, SinceLonger
    <3>5. StartYoung(h)'
      <4>1. starts'[h].at = "ready" /\ starts'[h].id = x /\ starts'[h].copy = cache[x].copy /\ retired' = retired /\ Ids' = Ids
        BY <1>d, <2>1, <3>1 DEF Ids
      <4> QED
        BY <3>4, <4>1 DEF StartYoung
    <3>6. Current => new.copy.quizzes = sets[x].quizzes
      BY <2>1, <2>2 DEF Current
    <3> QED
      BY <2>1, <3>1, <3>5, <3>6
  <2>3. CASE cache[x] = NotCached
    <3> DEFINE new == [at |-> "row", id |-> x, copy |-> Unread]
    <3>1. new \in Starts /\ starts' = [starts EXCEPT ![h] = new]
      BY <1>c, <1>e, <2>1, <2>3 DEF Begin, Starts
    <3>2. starts'[h].at = "row" /\ starts'[h].id = x /\ Ids' = Ids
      <4>1. new.at = "row" /\ new.id = x
        OBVIOUS
      <4> HIDE DEF new
      <4>2. starts'[h] = new
        BY <1>d, <2>1, <3>1
      <4> QED
        BY <2>1, <4>1, <4>2 DEF Ids
    <3>3. StartYoung(h)'
      BY <3>2 DEF StartYoung
    <3> QED
      BY <2>1, <3>1, <3>3
  <2> QED
    BY <2>2, <2>3
<1>1. PICK new \in Starts : Next0(new)
  <2>1. ASSUME starts' = [starts EXCEPT ![h] = Idle], UNCHANGED <<sets, cache, retired>> PROVE \E new \in Starts : Next0(new)
    <3>1. starts'[h] = Idle /\ Idle.at = "idle" /\ Idle \in Starts /\ Idle' = Idle
      BY <1>c, <1>d, <2>1
    <3> HIDE DEF Idle
    <3>2. StartYoung(h)'
      BY <3>1 DEF StartYoung
    <3> QED
      BY <2>1, <3>1, <3>2
  <2>2. CASE ReadRow(h)
    <3>1. CASE ~sets[id].live
      BY <2>1, <2>2, <3>1 DEF ReadRow
    <3>2. CASE sets[id].live
      <4> DEFINE new == [s EXCEPT !.at = "list", !.copy.row = Version(id)]
      <4>1. s.at = "row" /\ UNCHANGED <<sets, cache, retired>> /\ id \in Ids /\ retired[id] \in Seq(0..TTL)
        BY <1>0, <1>a, <2>2 DEF ReadRow, StartYoung
      <4>2. new \in Starts /\ new.at = "list" /\ new.id = id /\ new.copy.row = Version(id)
        BY <1>0, <1>a, <4>1 DEF Starts, Copies
      <4>3. starts' = [starts EXCEPT ![h] = new]
        BY <2>2, <3>2 DEF ReadRow
      <4>4. Since(retired[id], Version(id), 0)
        BY <1>0, <1>a, <4>1, SinceNow
      <4> HIDE DEF new
      <4>5. starts'[h] = new /\ retired' = retired /\ Ids' = Ids
        BY <1>d, <4>1, <4>3 DEF Ids
      <4>6. StartYoung(h)'
        BY <4>1, <4>2, <4>4, <4>5 DEF StartYoung
      <4> QED
        BY <4>1, <4>2, <4>3, <4>6
    <3> QED
      BY <3>1, <3>2
  <2>3. CASE ReadList(h)
    <3> DEFINE new == [s EXCEPT !.at = "choices", !.copy.list = Version(id)]
    <3>1. s.at = "list" /\ UNCHANGED <<sets, cache, retired>> /\ id \in Ids /\ retired[id] \in Seq(0..TTL)
      BY <1>0, <1>a, <2>3 DEF ReadList, StartYoung
    <3>2. new \in Starts /\ new.id = id /\ new.at = "choices" /\ new.copy.row = s.copy.row /\ new.copy.list = Version(id)
      BY <1>0, <1>a, <1>b, <3>1 DEF Starts, Copies
    <3>3. starts' = [starts EXCEPT ![h] = new]
      BY <2>3, <3>1 DEF ReadList
    <3>4. Since(retired[id], Version(id), 0)
      BY <1>0, <1>a, <3>1, SinceNow
    <3> HIDE DEF new
    <3>5. StartYoung(h)'
      <4>1. starts'[h] = new /\ retired' = retired /\ Ids' = Ids
        BY <1>d, <3>1, <3>3 DEF Ids
      <4> QED
        BY <1>0, <3>1, <3>2, <3>4, <4>1 DEF StartYoung
    <3>6. Current /\ new.at \in {"set", "ready"} => new.copy.quizzes = sets[new.id].quizzes
      BY <3>1, <3>2 DEF Current
    <3> QED
      BY <3>1, <3>2, <3>3, <3>5, <3>6
  <2>4. CASE ReadChoices(h)
    <3> DEFINE new == [s EXCEPT !.at = "set", !.copy.choices = Version(id), !.copy.quizzes = sets[id].quizzes]
    <3>1. s.at = "choices" /\ UNCHANGED <<sets, cache, retired>> /\ id \in Ids /\ retired[id] \in Seq(0..TTL)
      BY <1>0, <1>a, <2>4 DEF ReadChoices, StartYoung
    <3>2. new \in Starts /\ new.id = id /\ new.at = "set" /\ new.copy.row = s.copy.row /\ new.copy.list = s.copy.list
          /\ new.copy.choices = Version(id) /\ new.copy.quizzes = sets[id].quizzes
      BY <1>0, <1>a, <1>b, <3>1 DEF Starts, Copies
    <3>3. starts' = [starts EXCEPT ![h] = new]
      BY <2>4, <3>1 DEF ReadChoices
    <3>4. Since(retired[id], Version(id), 0)
      BY <1>0, <1>a, <3>1, SinceNow
    <3> HIDE DEF new
    <3>5. StartYoung(h)'
      <4>1. starts'[h] = new /\ retired' = retired /\ Ids' = Ids
        BY <1>d, <3>1, <3>3 DEF Ids
      <4> QED
        BY <1>0, <3>1, <3>2, <3>4, <4>1 DEF StartYoung
    <3>6. Current /\ new.at \in {"set", "ready"} => new.copy.quizzes = sets[new.id].quizzes
      BY <3>1, <3>2 DEF Current
    <3> QED
      BY <3>1, <3>2, <3>3, <3>5, <3>6
  <2>5. CASE CacheSet(h)
    <3> DEFINE new == [s EXCEPT !.at = "ready"]
    <3>1. s.at = "set" /\ UNCHANGED <<sets, retired>> /\ id \in Ids /\ retired[id] \in Seq(0..TTL)
          /\ cache' = [cache EXCEPT ![id] = Cached(s.copy)]
      BY <1>0, <1>a, <2>5 DEF CacheSet, StartYoung
    <3>2. new \in Starts /\ new.at = "ready" /\ new.id = id /\ new.copy = s.copy
      BY <1>0 DEF Starts
    <3>3. starts' = [starts EXCEPT ![h] = new]
      BY <2>5 DEF CacheSet
    <3>4. \A v \in Parts(s.copy) : Since(retired[id], v, 0)
      BY <1>0, <3>1 DEF StartYoung, Parts
    <3>5. \A v \in Parts(s.copy) : Since(retired[id], v, TTL - 1)
      <4>1. TTL - 1 \in Int /\ 0 \in Int /\ 0 <= TTL - 1
        BY <1>0
      <4> QED
        BY <3>1, <3>4, <4>1, SinceLonger
    <3> HIDE DEF new
    <3>6. starts'[h] = new /\ retired' = retired /\ Ids' = Ids
      BY <1>d, <3>1, <3>3 DEF Ids
    <3>7. StartYoung(h)'
      BY <3>1, <3>2, <3>5, <3>6 DEF StartYoung
    <3>8. Current => new.copy.quizzes = sets[new.id].quizzes
      BY <3>1, <3>2 DEF Current
    <3> QED
      BY <3>1, <3>2, <3>3, <3>7, <3>8
  <2>6. CASE Finish(h)
    BY <2>1, <2>6 DEF Finish
  <2> HIDE DEF Next0
  <2> QED
    BY <1>e, <2>2, <2>3, <2>4, <2>5, <2>6 DEF GetQuizSet
<1>2. starts'[h] = new /\ \A g \in Hosts \ {h} : starts'[g] = starts[g]
  BY <1>1 DEF CatalogShape
<1>3. s.at = "set" => id \in Ids /\ \A v \in Parts(s.copy) : Since(retired[id], v, 0)
  BY <1>0 DEF StartYoung, Parts
<1>4. Cached(s.copy) \in [left : 0..TTL, copy : Copies] /\ Cached(s.copy).left = TTL /\ Cached(s.copy).copy = s.copy
  BY <1>0 DEF Cached
<1>5. CatalogShape'
  <2>1. cache' \in [1..MaxSets -> [left : 0..TTL, copy : Copies]]
    BY <1>0, <1>1, <1>3, <1>4 DEF CatalogShape
  <2> QED
    BY <1>1, <2>1 DEF CatalogShape
<1>6. StoredPlayable'
  BY <1>1 DEF StoredPlayable, Ids
<1>7. ASSUME NEW x \in 1..MaxSets PROVE CacheYoung(x)'
  <2>1. CASE cache'[x] = cache[x]
    BY <1>1, <1>c, <2>1 DEF CacheYoung, Ids
  <2>2. CASE s.at = "set" /\ x = id /\ cache'[x] = Cached(s.copy)
    BY <1>0, <1>1, <1>3, <1>4, <2>2 DEF CacheYoung, Ids
  <2> QED
    BY <1>1, <2>1, <2>2 DEF CatalogShape
<1>8. ASSUME NEW g \in Hosts PROVE StartYoung(g)'
  BY <1>1, <1>2, <1>c DEF StartYoung, Ids
<1>9. ASSUME Current PROVE Current'
  <2>1. \A x \in Ids' : ~sets'[x].patched
    BY <1>1, <1>9 DEF Current, Ids
  <2>2. ASSUME NEW x \in 1..MaxSets, cache'[x] # NotCached PROVE cache'[x].copy.quizzes = sets'[x].quizzes
    <3>1. CASE cache'[x] = cache[x]
      BY <1>1, <1>9, <2>2, <3>1 DEF Current
    <3>2. CASE s.at = "set" /\ x = id /\ cache'[x] = Cached(s.copy)
      BY <1>1, <1>4, <1>9, <3>2 DEF Current
    <3> QED
      BY <1>1, <3>1, <3>2 DEF CatalogShape
  <2>3. ASSUME NEW g \in Hosts, starts'[g].at \in {"set", "ready"} PROVE starts'[g].copy.quizzes = sets'[starts'[g].id].quizzes
    BY <1>1, <1>2, <1>9, <2>3 DEF Current
  <2> QED
    BY <1>c, <2>1, <2>2, <2>3 DEF Current
<1> QED
  BY <1>5, <1>6, <1>7, <1>8, <1>9

(* Time passes.                                                             *)
LEMMA TickStep == ASSUME CatalogInv, Tick PROVE CatalogInv' /\ (Current => Current')
<1> USE DEF CatalogInv
<1>0. /\ TTL \in Nat \ {0} /\ Ids \subseteq 1..MaxSets /\ NotCached' = NotCached /\ NotCached \in [left : 0..TTL, copy : Copies]
      /\ NotCached.left = 0 /\ UNCHANGED <<sets, starts>> /\ \A h \in Hosts : starts[h] = Idle
  <2>1. Ids \subseteq 1..MaxSets
    BY CatalogBounds DEF CatalogShape, Ids
  <2>2. NotCached \in [left : 0..TTL, copy : Copies] /\ NotCached.left = 0 /\ NotCached' = NotCached
    BY CatalogBounds DEF NotCached, Unread, Copies, QuizRows
  <2> QED
    BY <2>1, <2>2, CatalogBounds DEF Tick
<1>1. \A id \in 1..MaxSets : retired'[id] = Older(retired[id]) /\ retired[id] \in Seq(0..TTL)
  BY DEF Tick, Older, CatalogShape
<1>2. retired' \in [1..MaxSets -> Seq(0..TTL)]
  <2>1. DOMAIN retired = 1..MaxSets
    BY DEF CatalogShape
  <2>2. retired' = [id \in 1..MaxSets |-> Older(retired[id])]
    BY <2>1 DEF Tick, Older
  <2> QED
    BY <1>1, <2>2, SinceTick
<1>3. cache' = [id \in 1..MaxSets |-> Aged(cache[id])] /\ \A id \in 1..MaxSets : cache[id] \in [left : 0..TTL, copy : Copies]
  BY DEF Tick, CatalogShape
<1>4. ASSUME NEW c \in [left : 0..TTL, copy : Copies], c.left = 0 => c = NotCached
      PROVE  /\ Aged(c) \in [left : 0..TTL, copy : Copies]
             /\ Aged(c) # NotCached => c # NotCached /\ Aged(c).left = c.left - 1 /\ Aged(c).left \in 1..TTL /\ Aged(c).copy = c.copy
  <2>1. CASE c.left = 1
    BY <1>0, <2>1 DEF Aged
  <2>2. CASE c.left = 0
    BY <1>4, <2>2 DEF Aged
  <2>3. CASE c.left \notin {0, 1}
    <3>1. c.left - 1 \in 1..TTL /\ c # NotCached /\ Aged(c) = [c EXCEPT !.left = @ - 1]
      BY <1>0, <2>3 DEF Aged
    <3> QED
      BY <3>1
  <2> QED
    BY <1>0, <2>1, <2>2, <2>3
<1>5. \A id \in 1..MaxSets : cache[id].left = 0 => cache[id] = NotCached
  BY DEF CacheYoung
<1>6. CatalogShape'
  BY <1>0, <1>2, <1>3, <1>4, <1>5 DEF CatalogShape
<1>7. ASSUME NEW id \in 1..MaxSets PROVE CacheYoung(id)'
  <2> SUFFICES ASSUME cache'[id] # NotCached
               PROVE  id \in Ids /\ cache'[id].left \in 1..TTL
                      /\ \A v \in Parts(cache'[id].copy) : Since(retired'[id], v, TTL - cache'[id].left)
    BY <1>0 DEF CacheYoung, Ids
  <2> DEFINE c == cache[id]
             d == cache'[id]
  <2>1. c # NotCached /\ d.left = c.left - 1 /\ d.left \in 1..TTL /\ d.copy = c.copy /\ c.left \in 0..TTL /\ c.copy \in Copies
    BY <1>3, <1>4, <1>5
  <2>2. id \in Ids /\ \A v \in Parts(c.copy) : Since(retired[id], v, TTL - c.left)
    BY <2>1 DEF CacheYoung
  <2>3. TTL - c.left \in Nat /\ (TTL - c.left) + 1 = TTL - d.left
    BY <1>0, <2>1
  <2>4. ASSUME NEW v \in Parts(c.copy) PROVE Since(retired'[id], v, TTL - d.left)
    <3>1. v \in Nat
      BY <2>1 DEF Parts, Copies
    <3> QED
      BY <1>1, <2>2, <2>3, <3>1, SinceTick
  <2> QED
    BY <2>1, <2>2, <2>4
<1>8. ASSUME NEW h \in Hosts PROVE StartYoung(h)'
  BY <1>0 DEF StartYoung, Idle, Unread
<1>9. StoredPlayable' /\ (Current => Current')
  <2>1. StoredPlayable'
    BY <1>0 DEF StoredPlayable, Ids
  <2>2. ASSUME Current, NEW id \in 1..MaxSets, cache'[id] # NotCached PROVE cache'[id].copy.quizzes = sets'[id].quizzes
    BY <1>0, <1>3, <1>4, <1>5, <2>2 DEF Current
  <2> QED
    BY <1>0, <2>1, <2>2 DEF Current, Ids
<1> QED
  BY <1>6, <1>7, <1>8, <1>9

-----------------------------------------------------------------------------
(* The board                                                                *)

BoardShape ==
  /\ game = [set |-> game.set, left |-> game.left, quizzes |-> game.quizzes, shown |-> game.shown,
             options |-> game.options, answer |-> game.answer]
  /\ board = [pos |-> board.pos, selected |-> board.selected, clicked |-> board.clicked]

(* The game has the quizzes of its set, as startGame writes them.           *)
AsStored ==
  game # NoGame =>
    /\ game.set \in Ids
    /\ game.quizzes = [i \in DOMAIN sets[game.set].quizzes |-> RedisQuiz(sets[game.set].quizzes[i])]
    /\ game.left \subseteq DOMAIN game.quizzes

(* The choices shown are those of the quiz, and the answer is among them.   *)
Shuffled ==
  game.shown # 0 =>
    LET q == game.quizzes[game.shown] IN
    /\ game # NoGame /\ game.shown \in DOMAIN game.quizzes
    /\ game.options \in Shuffles(q.keys)
    /\ game.answer = PlaceOf(game.options, q.answer)

(* The highlight and the position are of one click.                         *)
AsClicked ==
  game.shown # 0 /\ board.clicked =>
    \E x, y \in 0..Grain : board.pos = <<y, x>> /\ board.selected = OptionAt(x, y, Len(game.options))

BoardInv == BoardShape /\ AsStored /\ Shuffled /\ AsClicked

(* Nothing is played.                                                       *)
LEMMA BoardInitial == BoardInit => BoardInv
BY DEF BoardInit, BoardInv, BoardShape, AsStored, Shuffled, AsClicked, NoGame, NoPlace

(* The game starts from a copy that has the quizzes of the set.             *)
LEMMA LaunchStep ==
  ASSUME BoardInv, NEW id \in Ids', Launch(id, sets'[id].quizzes)
  PROVE  BoardInv'
<1> DEFINE qs == sets'[id].quizzes
           new == [i \in DOMAIN qs |-> RedisQuiz(qs[i])]
<1>1. game' = [set |-> id, left |-> DOMAIN qs, quizzes |-> new, shown |-> 0, options |-> << >>, answer |-> 0] /\ board' = board
  BY DEF Launch, NoGame
<1>2. DOMAIN new = DOMAIN qs
  OBVIOUS
<1>3. game'.set = id /\ game'.quizzes = new /\ game'.left = DOMAIN qs /\ game'.shown = 0 /\ BoardShape'
  BY <1>1 DEF BoardInv, BoardShape
<1>4. AsStored'
  BY <1>2, <1>3 DEF AsStored
<1> QED
  BY <1>3, <1>4 DEF BoardInv, Shuffled, AsClicked

(* The stored sets are changed, but not the one that is played.             *)
LEMMA TableKept ==
  ASSUME BoardInv, UNCHANGED table, Ids \subseteq Ids', \A id \in Ids : sets'[id].quizzes = sets[id].quizzes
  PROVE  BoardInv'
<1>1. game' = game /\ board' = board /\ NoGame' = NoGame
  BY DEF table, NoGame
<1>2. AsStored'
  BY <1>1 DEF BoardInv, AsStored
<1> QED
  BY <1>1, <1>2 DEF BoardInv, BoardShape, Shuffled, AsClicked

(* startNewQuiz: the choices of one more quiz are shuffled and shown.       *)
LEMMA DealStep ==
  ASSUME BoardInv, NEW q \in game.left, NEW options \in Shuffles(game.quizzes[q].keys), Deal(q, options), UNCHANGED sets,
         \A i \in DOMAIN game.quizzes : i # 0
  PROVE  BoardInv'
<1> DEFINE a == PlaceOf(options, game.quizzes[q].answer)
<1>1. /\ game' = [set |-> game.set, left |-> game.left \ {q}, quizzes |-> game.quizzes, shown |-> q,
                  options |-> options, answer |-> a]
      /\ board' = [pos |-> board.pos, selected |-> board.selected, clicked |-> FALSE]
  <2>1. /\ game = [set |-> game.set, left |-> game.left, quizzes |-> game.quizzes, shown |-> game.shown,
                   options |-> game.options, answer |-> game.answer]
        /\ board = [pos |-> board.pos, selected |-> board.selected, clicked |-> board.clicked]
    BY DEF BoardInv, BoardShape
  <2>2. /\ game' = [game EXCEPT !.left = @ \ {q}, !.shown = q, !.options = options, !.answer = a]
        /\ board' = [board EXCEPT !.clicked = FALSE]
    BY DEF Deal
  <2> HIDE DEF a
  <2> QED
    BY <2>1, <2>2
<1> HIDE DEF a
<1>2. game # NoGame /\ NoGame' = NoGame
  BY DEF NoGame
<1>3. q \in DOMAIN game.quizzes /\ q # 0
  BY <1>2 DEF BoardInv, AsStored
<1>4. game' # NoGame'
  BY <1>1, <1>2, <1>3 DEF NoGame
<1>5. BoardShape'
  BY <1>1 DEF BoardShape
<1>6. AsStored'
  BY <1>1, <1>2 DEF BoardInv, AsStored, Ids
<1>7. Shuffled'
  BY <1>1, <1>3, <1>4 DEF Shuffled, a
<1>8. AsClicked'
  BY <1>1 DEF AsClicked
<1> QED
  BY <1>5, <1>6, <1>7, <1>8 DEF BoardInv

(* handleMove: the highlight and the stored position change together.       *)
LEMMA ClickStep ==
  ASSUME BoardInv, NEW x \in 0..Grain, NEW y \in 0..Grain, Click(x, y), UNCHANGED sets
  PROVE  BoardInv'
<1>1. /\ board' = [pos |-> <<y, x>>, clicked |-> TRUE, selected |-> OptionAt(x, y, Len(game.options))]
      /\ game' = game /\ NoGame' = NoGame
  BY DEF Click, NoGame
<1>2. AsClicked'
  BY <1>1 DEF AsClicked
<1> QED
  BY <1>1, <1>2 DEF BoardInv, BoardShape, AsStored, Shuffled, Ids

(* The choice that is graded is the one that is highlighted, whatever the   *)
(* number of choices and wherever the board was clicked.                    *)
LEMMA GradedAsHighlighted ==
  ASSUME NEW n \in Nat, NEW x \in 0..Grain, NEW y \in 0..Grain, OptionAt(x, y, n) + 1 \in 1..n
  PROVE  CalculateAnswer(<<y, x>>, n) = OptionAt(x, y, n) + 1
<1> DEFINE a == (y * ((n + 1) \div 2)) \div Grain
           b == Rounded(x)
<1>1. a \in Int /\ b \in Int
  <2>1. Grain \in Nat \ {0} /\ x \in Int /\ y \in Int
    BY BoardGrain
  <2>2. (n + 1) \div 2 \in Int
    OBVIOUS
  <2>3. y * ((n + 1) \div 2) \in Int
    BY <2>1, <2>2
  <2>4. 2 * x + Grain \in Int /\ 2 * Grain \in Int /\ 2 * Grain > 0
    BY <2>1
  <2> DEFINE c == y * ((n + 1) \div 2)
             d == 2 * x + Grain
             e == 2 * Grain
  <2> HIDE DEF c, d, e
  <2>5. c \div Grain \in Int /\ d \div e \in Int
    BY <2>1, <2>3, <2>4 DEF c, d, e
  <2> QED
    BY <2>5 DEF Rounded, c, d, e
<1>2. OptionAt(x, y, n) = b + a * 2 /\ CalculateAnswer(<<y, x>>, n) = Min({a * 2 + b + 1, n})
  BY DEF OptionAt, Halves, CalculateAnswer
<1> HIDE DEF a, b
<1>3. a * 2 + b + 1 \in Int /\ a * 2 + b + 1 <= n /\ a * 2 + b + 1 = (b + a * 2) + 1
  BY <1>1, <1>2
<1> QED
  BY <1>2, <1>3, MinOfTwo

(* What is dealt of a playable quiz: as many choices as it has, each once.  *)
LEMMA Dealing ==
  ASSUME NEW q \in [limit : Nat, choices : Seq([order : Nat, answer : BOOLEAN])], Playable(q), NEW options \in Shuffles(Keys(q))
  PROVE  /\ Len(options) = Len(q.choices) /\ DOMAIN options = 1..Len(q.choices)
         /\ \A i, j \in DOMAIN options : options[i] = options[j] => i = j
         /\ \A key \in Keys(q) : \E i \in DOMAIN options : options[i] = key
<1> DEFINE n == Len(q.choices)
           f == OrdersOf(q)
           c == Cardinality(Keys(q))
<1>1. n \in Nat /\ DOMAIN q.choices = 1..n /\ IsFiniteSet(1..n) /\ Cardinality(1..n) = n
  <2>1. n \in Nat /\ DOMAIN q.choices = 1..n
    OBVIOUS
  <2> HIDE DEF n
  <2>2. IsFiniteSet(1..n) /\ Cardinality(1..n) = IF 1 > n THEN 0 ELSE n - 1 + 1
    BY <2>1, FS_Interval
  <2> QED
    BY <2>1, <2>2
<1>2. f \in [1..n -> Keys(q)] /\ \A i \in 1..n : f[i] = q.choices[i].order
  BY <1>1 DEF OrdersOf, Keys
<1>3. f \in Surjection(1..n, Keys(q))
  BY <1>1, <1>2 DEF Surjection, Keys
<1>4. f \in Injection(1..n, Keys(q))
  BY <1>2 DEF Injection, Playable
<1> HIDE DEF f
<1>5. IsFiniteSet(Keys(q)) /\ c = n
  BY <1>1, <1>3, <1>4, FS_Surjection
<1>6. options \in [1..n -> Keys(q)] /\ \A i, j \in 1..n : options[i] = options[j] => i = j
  BY <1>5 DEF Shuffles
<1>7. options \in Injection(1..n, Keys(q))
  BY <1>6 DEF Injection, IsInjective
<1>8. options \in Surjection(1..n, Keys(q))
  BY <1>1, <1>5, <1>7, FS_Injection
<1>9. Len(options) = n
  BY <1>1, <1>6, FunctionSeq
<1> QED
  BY <1>6, <1>8, <1>9 DEF Surjection

(* The one choice that is right is the answer startGame writes.             *)
LEMMA AnswerMarked ==
  ASSUME NEW q \in [limit : Nat, choices : Seq([order : Nat, answer : BOOLEAN])], Playable(q)
  PROVE  AnswerOf(q) \in Keys(q) /\ \A order : MarkedBy(q, order) <=> order = AnswerOf(q)
<1> DEFINE right == {i \in DOMAIN q.choices : q.choices[i].answer}
<1>1. PICK a : right = {a}
  <2>1. Cardinality(right) = 1
    BY DEF Playable
  <2>2. IsFiniteSet(right)
    <3>1. DOMAIN q.choices = 1..Len(q.choices) /\ Len(q.choices) \in Nat /\ IsFiniteSet(1..Len(q.choices))
      BY FS_Interval
    <3> QED
      BY <3>1, FS_Subset
  <2> QED
    BY <2>1, <2>2, FS_Singleton
<1>2. a \in DOMAIN q.choices /\ q.choices[a].answer /\ \A i \in DOMAIN q.choices : q.choices[i].answer => i = a
  BY <1>1
<1>3. a \in Int
  BY <1>2
<1>4. Min(right) = a
  BY <1>1, <1>3 DEF Min
<1>5. AnswerOf(q) = q.choices[a].order
  BY <1>4 DEF AnswerOf
<1> QED
  BY <1>2, <1>5 DEF Keys, MarkedBy

(* So the mark, through the set, the copy, the hash, the shuffle and the    *)
(* board, is what calculateAnswer compares with.                            *)
LEMMA BoardGrades == CatalogInv /\ Current /\ BoardInv => GradedAsMarked
<1> SUFFICES ASSUME CatalogInv, Current, BoardInv, game.shown # 0, Highlighted
             PROVE  Graded = game.answer <=> MarkedBy(sets[game.set].quizzes[game.shown], game.options[board.selected + 1])
  BY DEF GradedAsMarked
<1> DEFINE q == sets[game.set].quizzes[game.shown]
           n == Len(q.choices)
           k == board.selected + 1
<1>1. /\ game.set \in Ids /\ game.shown \in DOMAIN sets[game.set].quizzes /\ game.quizzes[game.shown] = RedisQuiz(q)
      /\ game.options \in Shuffles(RedisQuiz(q).keys) /\ game.answer = PlaceOf(game.options, RedisQuiz(q).answer)
  BY DEF BoardInv, AsStored, Shuffled
<1>2. q \in [limit : Nat, choices : Seq([order : Nat, answer : BOOLEAN])]
  <2>1. sets[game.set] \in SetRows
    BY <1>1 DEF CatalogInv, CatalogShape, Ids
  <2> DEFINE S == [limit : Nat, choices : Seq([order : Nat, answer : BOOLEAN])]
  <2>2. sets[game.set].quizzes \in Seq(S)
    BY <2>1 DEF SetRows, QuizRows
  <2> HIDE DEF S
  <2>3. q \in S
    BY <1>1, <2>2
  <2> QED
    BY <2>3 DEF S
<1>3. Playable(q)
  BY <1>1 DEF CatalogInv, Current, StoredPlayable, AllPlayable
<1> HIDE DEF q
<1>4. RedisQuiz(q).keys = Keys(q) /\ RedisQuiz(q).answer = AnswerOf(q) /\ RedisQuiz(q).count = n
  BY DEF RedisQuiz
<1>5. /\ Len(game.options) = n /\ DOMAIN game.options = 1..n
      /\ \A i, j \in DOMAIN game.options : game.options[i] = game.options[j] => i = j
      /\ \A key \in Keys(q) : \E i \in DOMAIN game.options : game.options[i] = key
  BY <1>1, <1>2, <1>3, <1>4, Dealing
<1>6. Graded = k /\ k \in DOMAIN game.options
  <2>1. PICK x \in 0..Grain, y \in 0..Grain : board.pos = <<y, x>> /\ board.selected = OptionAt(x, y, Len(game.options))
    BY DEF BoardInv, AsClicked, Highlighted
  <2>2. k \in DOMAIN game.options
    BY DEF Highlighted
  <2>3. n \in Nat
    BY <1>2
  <2>4. CalculateAnswer(<<y, x>>, n) = k
    BY <1>5, <2>1, <2>2, <2>3, GradedAsHighlighted
  <2> QED
    BY <1>1, <1>4, <2>1, <2>2, <2>4 DEF Graded
<1>7. PICK i \in DOMAIN game.options : game.options[i] = AnswerOf(q)
  BY <1>2, <1>3, <1>5, AnswerMarked
<1>8. game.answer = i
  <2>1. \A j \in DOMAIN game.options : game.options[j] = AnswerOf(q) <=> j = i
    BY <1>5, <1>7
  <2>2. (CHOOSE j \in DOMAIN game.options : game.options[j] = AnswerOf(q)) = i
    BY <2>1
  <2> QED
    BY <1>1, <1>4, <2>2 DEF PlaceOf
<1>9. Graded = game.answer <=> game.options[k] = AnswerOf(q)
  BY <1>5, <1>6, <1>7, <1>8
<1> HIDE DEF k
<1> QED
  BY <1>2, <1>3, <1>9, AnswerMarked DEF q, k

-----------------------------------------------------------------------------
(* The site                                                                 *)

SiteInv ==
  /\ AccountInv /\ CatalogInv /\ FormInv
  /\ topic = "author" => Current /\ BoardInv
  /\ topic # "author" => game.shown = 0

(* The topic starts its part, and the others are at rest.                   *)
LEMMA SiteInitial == Init => SiteInv
<1> SUFFICES ASSUME Init PROVE SiteInv
  OBVIOUS
<1>1. AccountInv
  BY AccountInitial DEF Init
<1>2. CatalogInv /\ Current /\ BoardInv
  BY CatalogInitial, BoardInitial DEF Init
<1>3. game.shown = 0
  BY DEF Init, BoardInit, NoGame
<1>4. FormInv
  BY NewQuizzes DEF Init, FormInit, FormInv
<1> QED
  BY <1>1, <1>2, <1>3, <1>4 DEF SiteInv

(* What a step leaves alone it keeps.                                       *)
LEMMA AccountsKept == AccountInv /\ UNCHANGED accounts => AccountInv'
BY DEF accounts, AccountInv, AccountShape, Unique, Issued, Opens, ShownSignedIn, NoneLate, NoToken, NoAnswer

LEMMA CatalogKept == CatalogInv /\ UNCHANGED catalog => CatalogInv' /\ (Current => Current') /\ UNCHANGED sets
<1> SUFFICES ASSUME CatalogInv, UNCHANGED <<sets, cache, starts, retired>>
             PROVE  CatalogInv' /\ (Current => Current')
  BY DEF catalog
<1>1. NotCached' = NotCached /\ Idle' = Idle /\ Ids' = Ids
  BY DEF NotCached, Idle, Unread, Ids
<1> QED
  BY <1>1 DEF CatalogInv, CatalogShape, StoredPlayable, CacheYoung, StartYoung, Current

LEMMA FormKept == FormInv /\ UNCHANGED <<form, sent>> => FormInv'
BY DEF FormInv

(* What the author does, and what becomes of the set.                       *)
LEMMA AuthorStep ==
  ASSUME CatalogInv, FormInv, Current, BoardInv, Authoring
  PROVE  CatalogInv' /\ FormInv' /\ Current' /\ BoardInv'
<1>0. Ids = 1..Len(sets) /\ Len(sets) \in Ids
  BY CatalogBounds DEF CatalogInv, CatalogShape, Ids
<1>a. ASSUME UNCHANGED <<sets, table>> PROVE BoardInv'
  <2>1. Ids' = Ids
    BY <1>a DEF Ids
  <2> QED
    BY <1>a, <2>1, TableKept
<1>b. ASSUME NEW r \in sent, r.body.quizzes \in Seq(BodyQuizzes), Accepted(r.body.quizzes),
             Insert(Author, TRUE, r.body.quizzes), UNCHANGED <<cache, starts, retired, table>>
      PROVE  CatalogInv' /\ Current' /\ BoardInv'
  <2>1. Author \in Users
    BY RowShapes DEF Author
  <2>2. r.body.quizzes \in QuizRows /\ AllPlayable(r.body.quizzes)
    BY <1>b, AcceptedPlayable
  <2>3. CatalogInv' /\ Current'
    BY <1>b, <2>1, <2>2, InsertStep
  <2> DEFINE row == NewSet(Author, TRUE, r.body.quizzes)
  <2>4. sets \in Seq(SetRows) /\ row \in SetRows /\ sets' = Append(sets, row)
    BY <1>b, <2>1, <2>2 DEF Insert, CatalogInv, CatalogShape, NewSet, SetRows
  <2> HIDE DEF row
  <2>5. Ids \subseteq Ids' /\ \A id \in Ids : sets'[id] = sets[id]
    BY <2>4 DEF Ids
  <2> QED
    BY <1>b, <2>3, <2>5, TableKept
<1>1. ASSUME Typing, UNCHANGED <<catalog, table>> PROVE CatalogInv' /\ FormInv' /\ Current' /\ BoardInv'
  BY <1>1, <1>a, TypingStep, CatalogKept
<1>2. ASSUME NEW r \in sent, Served(r, Author) \/ TimedOut(r, Author), UNCHANGED table
      PROVE  CatalogInv' /\ FormInv' /\ Current' /\ BoardInv'
  <2>1. r.body.quizzes \in Seq(BodyQuizzes)
    BY DEF FormInv
  <2>2. CatalogInv' /\ Current' /\ BoardInv'
    BY <1>2, <1>b, <2>1 DEF Served, TimedOut
  <2>3. sent' \subseteq sent /\ form' \in {form, Blank}
    BY <1>2 DEF Served, TimedOut
  <2>4. FormInv'
    BY <2>3, NewQuizzes DEF FormInv
  <2> QED
    BY <2>2, <2>4
<1>3. ASSUME NEW r \in sent, Refused(r), UNCHANGED table PROVE CatalogInv' /\ FormInv' /\ Current' /\ BoardInv'
  <2>1. FormInv'
    BY <1>3 DEF Refused, FormInv
  <2>2. UNCHANGED catalog
    BY <1>3 DEF Refused
  <2> QED
    BY <1>3, <1>a, <2>1, <2>2, CatalogKept
<1>4. ASSUME Leaves PROVE CatalogInv' /\ FormInv' /\ Current' /\ BoardInv'
  <2>1. PICK h \in Hosts : Begin(h, Len(sets))
    BY <1>4 DEF Leaves
  <2>2. CatalogInv' /\ Current'
    BY <1>0, <2>1, StartStep
  <2>3. UNCHANGED <<sets, table, sent>> /\ form' = Blank
    BY <1>4, <2>1 DEF Leaves, Begin
  <2> QED
    BY <1>a, <2>2, <2>3, NewQuizzes DEF FormInv
<1>5. ASSUME Starting PROVE CatalogInv' /\ FormInv' /\ Current' /\ BoardInv'
  <2>1. PICK h \in Hosts : GetQuizSet(h)
    BY <1>5 DEF Starting
  <2>2. CatalogInv' /\ Current'
    BY <2>1, StartStep
  <2>3. UNCHANGED <<sets, table, sent, form>>
    BY <1>5, <2>1 DEF Starting, page, GetQuizSet, ReadRow, ReadList, ReadChoices, CacheSet
  <2> QED
    BY <1>a, <2>2, <2>3, FormKept
<1>6. ASSUME Plays PROVE CatalogInv' /\ FormInv' /\ Current' /\ BoardInv'
  <2>1. PICK h \in Hosts : Finish(h) /\ Launch(starts[h].id, starts[h].copy.quizzes)
    BY <1>6 DEF Plays
  <2>2. CatalogInv' /\ Current'
    BY <2>1, StartStep
  <2>3. UNCHANGED <<sets, sent, form>> /\ starts[h].at = "ready"
    BY <1>6, <2>1 DEF Plays, page, Finish
  <2>4. starts[h].id \in Ids /\ starts[h].copy.quizzes = sets[starts[h].id].quizzes
    BY <2>3 DEF CatalogInv, StartYoung, Current
  <2>5. starts[h].id \in Ids' /\ Launch(starts[h].id, sets'[starts[h].id].quizzes)
    BY <2>1, <2>3, <2>4 DEF Ids
  <2> QED
    BY <2>2, <2>3, <2>5, FormKept, LaunchStep
<1>7. ASSUME Dealt PROVE CatalogInv' /\ FormInv' /\ Current' /\ BoardInv'
  <2>1. PICK q \in game.left : \E options \in Shuffles(game.quizzes[q].keys) : Deal(q, options)
    BY <1>7 DEF Dealt
  <2>2. UNCHANGED <<catalog, form, sent>>
    BY <1>7 DEF Dealt, page
  <2>3. CatalogInv' /\ Current' /\ FormInv' /\ UNCHANGED sets
    BY <2>2, CatalogKept, FormKept
  <2>4. game # NoGame
    BY DEF NoGame
  <2>5. game.set \in Ids /\ DOMAIN game.quizzes = DOMAIN sets[game.set].quizzes
    BY <2>4 DEF BoardInv, AsStored
  <2>6. sets[game.set].quizzes \in QuizRows
    <3>1. sets[game.set] \in SetRows
      BY <1>0, <2>5 DEF CatalogInv, CatalogShape
    <3> QED
      BY <3>1 DEF SetRows
  <2>7. \A i \in DOMAIN game.quizzes : i # 0
    BY <2>5, <2>6 DEF QuizRows
  <2> QED
    BY <2>1, <2>3, <2>7, DealStep
<1>8. ASSUME Clicked PROVE CatalogInv' /\ FormInv' /\ Current' /\ BoardInv'
  <2>1. PICK x \in 0..Grain, y \in 0..Grain : Click(x, y)
    BY <1>8 DEF Clicked
  <2>2. UNCHANGED <<catalog, form, sent>>
    BY <1>8 DEF Clicked, page
  <2>3. CatalogInv' /\ Current' /\ FormInv' /\ UNCHANGED sets
    BY <2>2, CatalogKept, FormKept
  <2> QED
    BY <2>1, <2>3, ClickStep
<1> QED
  BY <1>1, <1>2, <1>3, <1>4, <1>5, <1>6, <1>7, <1>8 DEF Authoring, Writing

(* What others do to the sets while they are listed, and while they are     *)
(* played.                                                                  *)
LEMMA BrowsingStep == CatalogInv /\ Browsing => CatalogInv'
<1> SUFFICES ASSUME CatalogInv, Browsing PROVE CatalogInv'
  OBVIOUS
<1>1. CASE Picking
  <2>1. UNCHANGED catalog
    BY <1>1 DEF Picking, Refetch, Fetch, ScrolledDown, Confirm, Select, Slide
  <2> QED
    BY <2>1, CatalogKept
<1>2. CASE FetchSteps
  <2>1. UNCHANGED catalog
    BY <1>2 DEF FetchSteps, Search, ReadRows, ReadCounts
  <2> QED
    BY <2>1, CatalogKept
<1>3. CASE Added
  <2>1. PICK u \in Users, h \in BOOLEAN : Create(u, h, Sample)
    BY <1>3 DEF Added
  <2>2. Sample \in QuizRows /\ AllPlayable(Sample)
    BY RowShapes, StoredByForm
  <2> QED
    BY <2>1, <2>2, InsertStep DEF Create
<1>4. CASE \E id \in Ids : Edited(id)
  BY <1>4, EditedStep
<1> QED
  BY <1>1, <1>2, <1>3, <1>4 DEF Browsing

(* What a room and an owner do with the sets that are played.               *)
LEMMA CachingStep == CatalogInv /\ Caching => CatalogInv'
<1> SUFFICES ASSUME CatalogInv, Caching PROVE CatalogInv'
  OBVIOUS
<1>1. Played \subseteq Ids
  <2>1. Ids = 1..Len(sets) /\ Len(Stored) <= Len(sets) /\ Len(sets) \in Nat
    BY CatalogBounds DEF CatalogInv, CatalogShape, Ids
  <2>2. DOMAIN Stored = 1..Len(Stored) /\ Len(Stored) \in Nat
    BY RowShapes
  <2> QED
    BY <2>1, <2>2, CatalogBounds
<1> QED
  BY <1>1, EditedStep, StartStep, TickStep DEF Caching

(* Each topic's step keeps its part, and the others are left alone.         *)
LEMMA SiteStep == SiteInv /\ [Next]_vars => SiteInv'
<1> SUFFICES ASSUME SiteInv, [Next]_vars PROVE SiteInv'
  OBVIOUS
<1> USE DEF SiteInv
<1>1. ASSUME UNCHANGED <<catalog, page, table, accounts, topic>> PROVE SiteInv'
  <2>1. AccountInv' /\ CatalogInv' /\ (Current => Current') /\ FormInv' /\ UNCHANGED sets
    BY <1>1, AccountsKept, CatalogKept, FormKept DEF page
  <2>2. BoardInv => BoardInv'
    <3>1. Ids' = Ids
      BY <2>1 DEF Ids
    <3> QED
      BY <1>1, <2>1, <3>1, TableKept
  <2>3. game' = game /\ topic' = topic
    BY <1>1 DEF table
  <2> QED
    BY <2>1, <2>2, <2>3
<1>2. CASE topic = "author" /\ Authoring /\ UNCHANGED <<picker, lobbies, others>>
  <2>1. UNCHANGED <<accounts, topic>>
    BY <1>2 DEF others
  <2> QED
    BY <1>2, <2>1, AuthorStep, AccountsKept
<1>3. CASE topic \in {"browse", "start"} /\ (Browsing \/ Caching) /\ UNCHANGED <<page, table, lobbies, others>>
  <2>1. UNCHANGED <<accounts, topic, form, sent, game>>
    BY <1>3 DEF others, page, table
  <2> QED
    BY <1>3, <2>1, BrowsingStep, CachingStep, AccountsKept, FormKept
<1>4. CASE topic = "account" /\ AccountSteps /\ UNCHANGED <<catalog, page, picker, table, lobbies, visit, show, topic>>
  <2>1. UNCHANGED <<catalog, topic, form, sent, game>>
    BY <1>4 DEF page, table
  <2> QED
    BY <1>4, <2>1, AccountStep, CatalogKept, FormKept
<1> QED
  BY <1>1, <1>2, <1>3, <1>4 DEF Next, vars, others

(* Whatever the topic, every part keeps its invariant.                      *)
LEMMA SiteInvariant == Spec => []SiteInv
BY SiteInitial, SiteStep, PTL DEF Spec

(* With one row for an address, the row that was made is the one found.     *)
LEMMA AccountsOpen == AccountInv => ToldCanLogIn
<1> SUFFICES ASSUME AccountInv PROVE ToldCanLogIn
  OBVIOUS
<1>1. DOMAIN users = 1..Len(users) /\ Nobody \notin DOMAIN users
  BY DEF AccountInv, AccountShape, Nobody
<1>2. ASSUME NEW c \in told PROVE ValidateUserInLocal(c) # Nobody
  <2>1. PICK i \in DOMAIN users : users[i] = c
    BY DEF AccountInv, Issued
  <2>2. FindOne(c.email) = i
    BY <2>1, FindOneRow DEF AccountInv
  <2> QED
    BY <1>1, <2>1, <2>2 DEF ValidateUserInLocal
<1>3. ASSUME token # NoToken PROVE ValidateUserInJwt(token) = token.sub
  <2>1. token.sub \in DOMAIN users /\ users[token.sub].email = token.email
    BY <1>3 DEF AccountInv, Issued, Opens
  <2>2. FindOne(token.email) = token.sub
    BY <2>1, FindOneRow DEF AccountInv
  <2> QED
    BY <1>1, <2>1, <2>2 DEF ValidateUserInJwt
<1> QED
  BY <1>2, <1>3 DEF ToldCanLogIn

(* A copy that is ready has no part replaced TTL ago.                       *)
LEMMA CopiesYoung == CatalogInv => StaleForTTL
<1> SUFFICES ASSUME CatalogInv, NEW h \in Hosts, starts[h].at = "ready", NEW v \in Parts(starts[h].copy),
                    v < Version(starts[h].id)
             PROVE  retired[starts[h].id][v] < TTL
  BY DEF StaleForTTL, Parts
<1> DEFINE r == retired[starts[h].id]
<1>1. r \in Seq(0..TTL) /\ TTL \in Nat
  <2>1. starts[h].id \in Ids /\ Ids \subseteq 1..MaxSets
    BY CatalogBounds DEF CatalogInv, CatalogShape, StartYoung, Ids
  <2> QED
    BY <2>1, CatalogBounds DEF CatalogInv, CatalogShape
<1>2. Since(r, v, TTL - 1)
  BY DEF CatalogInv, StartYoung
<1>3. v \in 1..Len(r)
  BY <1>1, <1>2 DEF Version, Since
<1>4. r[v] <= TTL - 1 /\ r[v] \in Int
  BY <1>1, <1>2, <1>3 DEF Since
<1> QED
  BY <1>1, <1>4

(* Whoever was told that the sign-up succeeded can sign in, also when the   *)
(* passwords of two requests with one address were hashed at a time, and    *)
(* the token kept opens the account it was signed for: the email column is  *)
(* unique, rows are never removed, and a token is of a row (auth.service,   *)
(* user.service).                                                           *)
THEOREM AccountsLogIn == Spec => []ToldCanLogIn
<1>1. SiteInv => ToldCanLogIn
  BY AccountsOpen DEF SiteInv
<1> QED
  BY <1>1, SiteInvariant, PTL

(* MainPage shows whether the browser has a token, until another tab or an  *)
(* answer that came late changes that: every effect that writes the one     *)
(* writes the other, and no answer to the page's form is still out.         *)
THEOREM MainShowsToken == Spec => []ShownSignedIn
<1>1. SiteInv => ShownSignedIn
  BY DEF SiteInv, AccountInv
<1> QED
  BY <1>1, SiteInvariant, PTL

(* What QuizSetupPage let through and createQuizSet accepted can be played, *)
(* if nobody patched it: the server looks for an answer, the form alone     *)
(* sees to there being no second one.                                       *)
THEOREM FormStoresPlayable == Spec => []StoredPlayable
<1>1. SiteInv => StoredPlayable
  BY DEF SiteInv, CatalogInv
<1> QED
  BY <1>1, SiteInvariant, PTL

(* QuizCacheService never hands startGame a version that was replaced       *)
(* CACHE_TTL or longer ago, though no write invalidates a copy: what an     *)
(* entry has left and what its parts are old make TTL at most.              *)
THEOREM CacheYoungerThanTTL == Spec => []StaleForTTL
<1>1. SiteInv => StaleForTTL
  BY CopiesYoung DEF SiteInv
<1> QED
  BY <1>1, SiteInvariant, PTL

(* The choice the author marked is the one that is graded right, wherever   *)
(* it was shuffled to, for any number of choices and any click: form, rows, *)
(* copy, Redis hash, shuffle, QuizOptionBoard and calculateAnswer agree.    *)
THEOREM MarkedIsGraded == Spec => []GradedAsMarked
<1>1. SiteInv => GradedAsMarked
  BY BoardGrades DEF SiteInv, GradedAsMarked
<1> QED
  BY <1>1, SiteInvariant, PTL

-----------------------------------------------------------------------------
(* Sets in order                                                            *)

(* How many elements of S come before x, where R is the pairs in order.     *)
Before(S, R, x) == {y \in S : <<y, x>> \in R}
Place(S, R, x) == Cardinality(Before(S, R, x))

TotalOrder(S, R) ==
  /\ \A x \in S : <<x, x>> \notin R
  /\ \A x, y \in S : x # y => <<x, y>> \in R \/ <<y, x>> \in R
  /\ \A x, y, z \in S : <<x, y>> \in R /\ <<y, z>> \in R => <<x, z>> \in R

InPlaces(S, R) ==
  /\ Cardinality(S) \in Nat
  /\ \A x \in S : Place(S, R, x) \in 0..(Cardinality(S) - 1)
  /\ \A x, y \in S : <<x, y>> \in R => Place(S, R, x) < Place(S, R, y)
  /\ \A x, y \in S : Place(S, R, x) < Place(S, R, y) => <<x, y>> \in R
  /\ \A x, y \in S : Place(S, R, x) = Place(S, R, y) => x = y
  /\ \A i \in 0..(Cardinality(S) - 1) : \E x \in S : Place(S, R, x) = i

(* Each place from 0 up is taken by one element, in order.                  *)
LEMMA Places ==
  ASSUME NEW S, IsFiniteSet(S), NEW R, TotalOrder(S, R)
  PROVE  InPlaces(S, R)
<1> DEFINE n == Cardinality(S)
<1>0. n \in Nat
  BY FS_CardinalityType
<1>1. ASSUME NEW x \in S PROVE IsFiniteSet(Before(S, R, x)) /\ Place(S, R, x) \in Nat /\ Place(S, R, x) < n
  <2>1. Before(S, R, x) \in SUBSET S /\ Before(S, R, x) # S
    BY DEF Before, TotalOrder
  <2>2. IsFiniteSet(Before(S, R, x)) /\ Cardinality(Before(S, R, x)) <= n /\ Cardinality(Before(S, R, x)) # n
    BY <2>1, FS_Subset
  <2>3. Cardinality(Before(S, R, x)) \in Nat
    BY <2>2, FS_CardinalityType
  <2> QED
    BY <1>0, <2>2, <2>3 DEF Place
<1>2. ASSUME NEW x \in S, NEW y \in S, <<x, y>> \in R PROVE Place(S, R, x) < Place(S, R, y)
  <2>1. Before(S, R, x) \in SUBSET Before(S, R, y)
    BY <1>2 DEF Before, TotalOrder
  <2>2. x \in Before(S, R, y) /\ x \notin Before(S, R, x)
    BY <1>2 DEF Before, TotalOrder
  <2>3. Cardinality(Before(S, R, x)) <= Cardinality(Before(S, R, y))
        /\ Cardinality(Before(S, R, x)) # Cardinality(Before(S, R, y))
    BY <1>1, <2>1, <2>2, FS_Subset
  <2> QED
    BY <1>1, <2>3 DEF Place
<1>3. \A x, y \in S : Place(S, R, x) < Place(S, R, y) => <<x, y>> \in R
  <2> SUFFICES ASSUME NEW x \in S, NEW y \in S, Place(S, R, x) < Place(S, R, y), <<x, y>> \notin R PROVE FALSE
    OBVIOUS
  <2>1. x # y
    BY <1>1
  <2>2. <<y, x>> \in R
    BY <2>1 DEF TotalOrder
  <2> QED
    BY <1>1, <1>2, <2>2
<1>4. \A x, y \in S : Place(S, R, x) = Place(S, R, y) => x = y
  <2> SUFFICES ASSUME NEW x \in S, NEW y \in S, Place(S, R, x) = Place(S, R, y), x # y PROVE FALSE
    OBVIOUS
  <2>1. <<x, y>> \in R \/ <<y, x>> \in R
    BY DEF TotalOrder
  <2> QED
    BY <1>1, <1>2, <2>1
<1> DEFINE T == 0..(n - 1)
           f == [x \in S |-> Place(S, R, x)]
<1>5. f \in Injection(S, T)
  <2>1. f \in [S -> T]
    BY <1>0, <1>1
  <2> QED
    BY <1>4, <2>1 DEF Injection, IsInjective
<1>6. IsFiniteSet(T) /\ Cardinality(T) = n
  BY <1>0, FS_Interval
<1> HIDE DEF T, f, n
<1>7. f \in Surjection(S, T)
  BY <1>5, <1>6, FS_Injection DEF n
<1>8. \A i \in T : \E x \in S : f[x] = i
  BY <1>7 DEF Surjection
<1> QED
  BY <1>0, <1>1, <1>2, <1>3, <1>4, <1>8 DEF f, T, n, InPlaces

-----------------------------------------------------------------------------
(* The pages of the picker                                                  *)

Increasing(rows) == \A k, l \in DOMAIN rows : k < l => rows[k] < rows[l]

(* Rows are the first of the sets above the cursor, in order, and there are *)
(* as many as were asked for unless they are all.                           *)
LEMMA RowsRead ==
  ASSUME CatalogShape, NEW found \in SUBSET Ids, NEW cursor \in Nat, NEW take \in Nat
  PROVE  /\ Rows(found, cursor, take) \in Seq(1..MaxSets) /\ Len(Rows(found, cursor, take)) <= take
         /\ Increasing(Rows(found, cursor, take))
         /\ \A k \in DOMAIN Rows(found, cursor, take) :
              Rows(found, cursor, take)[k] \in Above(found, cursor) /\ Rows(found, cursor, take)[k] > cursor
         /\ \A id \in Above(found, cursor) :
              \/ id \in Range(Rows(found, cursor, take))
              \/ /\ Len(Rows(found, cursor, take)) = take
                 /\ \A k \in DOMAIN Rows(found, cursor, take) : Rows(found, cursor, take)[k] < id
<1> DEFINE S == Above(found, cursor)
           R == {p \in S \X S : p[1] < p[2]}
           rows == Rows(found, cursor, take)
           n == Cardinality(S)
<1>1. Ids \subseteq 1..MaxSets /\ MaxSets \in Nat
  BY CatalogBounds DEF CatalogShape, Ids
<1>2. S \subseteq 1..MaxSets /\ IsFiniteSet(S) /\ \A id \in S : id > cursor
  <2>1. S \in SUBSET (1..MaxSets)
    BY <1>1 DEF Above
  <2>2. IsFiniteSet(1..MaxSets)
    BY <1>1, FS_Interval
  <2>3. \A id \in S : id > cursor
    BY DEF Above
  <2>4. IsFiniteSet(S)
    BY <2>1, <2>2, FS_Subset
  <2> QED
    BY <2>1, <2>3, <2>4
<1>3. \A x, y \in S : <<x, y>> \in R <=> x < y
  OBVIOUS
<1>4. \A x \in S : {y \in S : y < x} = Before(S, R, x)
  BY <1>3 DEF Before
<1>5. \A x \in S : x \in Nat
  BY <1>2
<1>6. /\ DOMAIN rows = 1..Min({take, n}) /\ rows = [i \in DOMAIN rows |-> rows[i]]
      /\ \A i \in 1..Min({take, n}) : rows[i] = Nth(S, i)
  BY DEF Rows
<1> HIDE DEF R, rows, S
<1>7. TotalOrder(S, R)
  BY <1>3, <1>5 DEF TotalOrder
<1>8. /\ n \in Nat
      /\ \A x \in S : Place(S, R, x) \in 0..(n - 1)
      /\ \A x, y \in S : Place(S, R, x) < Place(S, R, y) => <<x, y>> \in R
      /\ \A x, y \in S : Place(S, R, x) = Place(S, R, y) => x = y
      /\ \A i \in 0..(n - 1) : \E x \in S : Place(S, R, x) = i
  <2>1. InPlaces(S, R)
    BY <1>2, <1>7, Places
  <2> QED
    BY <2>1 DEF InPlaces
<1> DEFINE m == IF take <= n THEN take ELSE n
<1>9. m = Min({take, n}) /\ m \in Nat /\ m <= n /\ m <= take
  BY <1>8, MinOfTwo
<1> HIDE DEF n, m
<1>10. \A x \in S : Place(S, R, x) = Cardinality({y \in S : y < x})
  BY <1>4 DEF Place
<1>11. ASSUME NEW i \in 1..m PROVE rows[i] \in S /\ Place(S, R, rows[i]) = i - 1
  <2>1. i - 1 \in 0..(n - 1) /\ i \in 1..Min({take, n})
    BY <1>8, <1>9
  <2>2. \E x \in S : Cardinality({y \in S : y < x}) = i - 1
    BY <1>8, <1>10, <2>1
  <2>3. rows[i] = CHOOSE x \in S : Cardinality({y \in S : y < x}) = i - 1
    BY <1>6, <2>1 DEF Nth
  <2>4. rows[i] \in S /\ Cardinality({y \in S : y < rows[i]}) = i - 1
    BY <2>2, <2>3
  <2> QED
    BY <1>10, <2>4
<1>12. rows \in Seq(S) /\ Len(rows) = m /\ DOMAIN rows = 1..m
  <2>1. rows = [i \in 1..m |-> rows[i]]
    BY <1>6, <1>9, Zenon
  <2>2. rows \in [1..m -> S]
    BY <1>11, <2>1
  <2> QED
    BY <1>9, <2>2, FunctionSeq
<1>13. Increasing(rows)
  <2> SUFFICES ASSUME NEW k \in 1..m, NEW l \in 1..m, k < l PROVE rows[k] < rows[l]
    BY <1>12 DEF Increasing
  <2>1. Place(S, R, rows[k]) < Place(S, R, rows[l])
    BY <1>11
  <2> QED
    BY <1>3, <1>8, <1>11, <2>1
<1>14. ASSUME NEW id \in S, id \notin Range(rows) PROVE Len(rows) = take /\ \A k \in 1..m : rows[k] < id
  <2> DEFINE j == Place(S, R, id)
  <2>1. j \in 0..(n - 1)
    BY <1>8
  <2> HIDE DEF j
  <2>2. ASSUME j < m PROVE FALSE
    <3>1. j + 1 \in 1..m
      BY <1>9, <2>1, <2>2
    <3>2. Place(S, R, rows[j + 1]) = j /\ rows[j + 1] \in S
      BY <1>11, <2>1, <3>1
    <3>3. rows[j + 1] = id
      BY <1>8, <3>2 DEF j
    <3> QED
      BY <1>12, <1>14, <3>1, <3>3 DEF Range
  <2>3. m = take /\ j >= m
    BY <1>8, <1>9, <2>1, <2>2 DEF m
  <2>4. ASSUME NEW k \in 1..m PROVE rows[k] < id
    <3>1. Place(S, R, rows[k]) < j
      <4>1. Place(S, R, rows[k]) = k - 1 /\ m \in Nat /\ j \in Nat
        BY <1>8, <1>9, <1>11, <2>1
      <4> QED
        BY <2>3, <4>1
    <3> QED
      BY <1>3, <1>8, <1>11, <3>1 DEF j
  <2> QED
    BY <1>12, <2>3, <2>4
<1>15. rows \in Seq(1..MaxSets)
  <2>1. \A k \in 1..m : rows[k] \in 1..MaxSets
    BY <1>2, <1>11
  <2>2. rows \in [1..m -> 1..MaxSets]
    BY <1>6, <1>12, <2>1
  <2> QED
    BY <1>9, <2>2, FunctionSeq
<1>16. \A k \in DOMAIN rows : rows[k] \in S /\ rows[k] > cursor
  BY <1>2, <1>11, <1>12
<1> QED
  BY <1>9, <1>12, <1>13, <1>14, <1>15, <1>16 DEF rows, S

CursorAfter(got) == IF got = << >> THEN NoCursor ELSE Last(got).next
Unfinished(got) == got # << >> => Last(got).more

(* Pages that were read one after the other, each from the cursor of the    *)
(* one before.                                                              *)
PagesInOrder(got) ==
  /\ got \in Seq(PageRows)
  /\ \A p \in DOMAIN got :
       /\ DOMAIN got[p].counts = DOMAIN got[p].rows /\ Increasing(got[p].rows)
       /\ got[p].more => \A k \in DOMAIN got[p].rows : got[p].rows[k] <= got[p].next
  /\ \A p, q \in DOMAIN got : p < q =>
       /\ got[p].more /\ \A l \in DOMAIN got[q].rows : got[p].next < got[q].rows[l]
       /\ got[q].more => got[p].next < got[q].next

(* What was there all along is on a page or still to come.                  *)
Covered(got) ==
  \A id \in steady : id > NoCursor =>
    \/ \E p \in DOMAIN got : id \in Range(got[p].rows)
    \/ Unfinished(got) /\ id > CursorAfter(got)

Fetches ==
  [at : {"none", "search", "rows", "counts"}, got : Seq(PageRows), want : Nat,
   found : SUBSET (1..MaxSets), rows : Seq(1..MaxSets)]
PickerShape ==
  /\ searching \in BOOLEAN /\ fetch \in Fetches /\ steady \subseteq 1..MaxSets
  /\ picked \in [id : 0..MaxSets, max : Nat, count : Nat] /\ picked.count <= picked.max
  /\ room \in [id : 0..MaxSets, count : Nat]

(* The rows read for the next page: no more than one to look ahead.         *)
RowsInHand(rows, cursor) ==
  /\ rows # << >> /\ Len(rows) <= PageSize + 1 /\ Increasing(rows)
  /\ \A k \in DOMAIN rows : rows[k] > cursor
  /\ \A id \in steady : id > cursor =>
       id \in Range(rows) \/ (Len(rows) = PageSize + 1 /\ \A k \in DOMAIN rows : rows[k] < id)

PickerInv ==
  /\ PickerShape /\ PagesInOrder(pages) /\ Covered(pages)
  /\ PagesInOrder(fetch.got) /\ Unfinished(fetch.got) /\ Covered(fetch.got)
  /\ fetch.at = "counts" => RowsInHand(fetch.rows, CursorAfter(fetch.got))

(* What the history says of the catalog, and the fetch found in it.         *)
Watched ==
  /\ \A id \in steady : id \in Ids /\ sets[id].live /\ (searching => sets[id].hit)
  /\ fetch.at = "rows" /\ searching => steady \subseteq fetch.found /\ fetch.found \subseteq Ids
  /\ fetch.at = "counts" => Range(fetch.rows) \subseteq Ids

(* A page read from the cursor of the last one goes on with them.           *)
PageAfter(pg, cursor) ==
  /\ pg \in PageRows /\ DOMAIN pg.counts = DOMAIN pg.rows /\ Increasing(pg.rows)
  /\ \A k \in DOMAIN pg.rows : pg.rows[k] > cursor /\ (pg.more => pg.rows[k] <= pg.next)
  /\ pg.more => pg.next > cursor
  /\ \A id \in steady : id > cursor => id \in Range(pg.rows) \/ (pg.more /\ id > pg.next)

(* A page read from the cursor of the last one goes on with the others.     *)
LEMMA PageAppended ==
  ASSUME NEW got, PagesInOrder(got), Unfinished(got), Covered(got), NEW pg, PageAfter(pg, CursorAfter(got))
  PROVE  /\ PagesInOrder(Append(got, pg)) /\ Covered(Append(got, pg))
         /\ Unfinished(Append(got, pg)) <=> pg.more
<1> DEFINE new == Append(got, pg)
           n == Len(got)
<1>1. got \in Seq(PageRows) /\ pg \in PageRows /\ n \in Nat /\ DOMAIN got = 1..n
  BY DEF PagesInOrder, PageAfter
<1>2. /\ new \in Seq(PageRows) /\ DOMAIN new = 1..(n + 1) /\ Len(new) = n + 1 /\ new # << >>
      /\ \A p \in 1..n : new[p] = got[p]
  BY <1>1
<1>3. new[n + 1] = pg /\ Last(new) = pg
  BY <1>1 DEF Last
<1> HIDE DEF new
<1>4. \A p \in 1..n : new[p] \in PageRows /\ new[p].next \in Int
  <2>1. \A p \in 1..n : new[p] \in PageRows
    BY <1>1, <1>2
  <2>2. \A g \in PageRows : g.next \in Int
    BY CatalogBounds DEF PageRows
  <2> QED
    BY <2>1, <2>2
<1>5. pg.next \in Int /\ (\A k \in DOMAIN pg.rows : pg.rows[k] \in Int) /\ CursorAfter(got) \in Int
  <2>1. pg.next \in Int /\ pg.rows \in Seq(1..MaxSets) /\ MaxSets \in Nat
    BY <1>1, CatalogBounds DEF PageRows
  <2>2. \A k \in DOMAIN pg.rows : pg.rows[k] \in Int
    BY <2>1
  <2>3. got # << >> => got[n].next \in Int
    BY <1>1, <1>2, <1>4
  <2> QED
    BY <2>1, <2>2, <2>3, PickerBounds DEF CursorAfter, Last
<1>6. ASSUME NEW p \in 1..n
      PROVE  new[p].more /\ new[p].next <= CursorAfter(got)
  <2>1. got # << >> /\ n \in 1..n /\ Last(got) = got[n]
    BY <1>1 DEF Last
  <2>2. CASE p = n
    BY <1>2, <1>4, <2>1, <2>2 DEF Unfinished, CursorAfter
  <2>3. CASE p # n
    <3>0. p < n /\ got[n].more
      <4>0. n \in Nat
        BY <1>1
      <4> HIDE DEF n
      <4>1. p < n
        BY <2>3, <4>0
      <4>2. Last(got).more
        BY <2>1 DEF Unfinished
      <4> QED
        BY <2>1, <4>1, <4>2
    <3>1. p < n /\ got[p].more /\ got[n].more
      BY <1>1, <2>1, <3>0 DEF PagesInOrder
    <3>2. got[p].next < got[n].next
      BY <1>1, <2>1, <3>1 DEF PagesInOrder
    <3> QED
      BY <1>2, <1>4, <2>1, <3>1, <3>2 DEF CursorAfter
  <2> QED
    BY <2>2, <2>3
<1>7. ASSUME NEW p \in 1..(n + 1)
      PROVE  /\ DOMAIN new[p].counts = DOMAIN new[p].rows /\ Increasing(new[p].rows)
             /\ new[p].more => \A k \in DOMAIN new[p].rows : new[p].rows[k] <= new[p].next
  <2>1. CASE p \in 1..n
    BY <1>1, <1>2, <2>1 DEF PagesInOrder
  <2>2. CASE p = n + 1
    BY <1>3, <2>2 DEF PageAfter
  <2> QED
    BY <1>1, <2>1, <2>2
<1>8. ASSUME NEW p \in 1..(n + 1), NEW q \in 1..(n + 1), p < q
      PROVE  /\ new[p].more /\ \A l \in DOMAIN new[q].rows : new[p].next < new[q].rows[l]
             /\ new[q].more => new[p].next < new[q].next
  <2>1. CASE q \in 1..n
    <3>1. p \in 1..n
      BY <1>8, <1>1, <2>1
    <3> QED
      BY <1>1, <1>2, <1>8, <2>1, <3>1 DEF PagesInOrder
  <2>2. CASE q = n + 1
    <3>1. p \in 1..n /\ new[q] = pg
      BY <1>1, <1>3, <1>8, <2>2
    <3>2. new[p].more /\ new[p].next <= CursorAfter(got) /\ new[p].next \in Int
      BY <1>4, <1>6, <3>1
    <3>3. \A l \in DOMAIN pg.rows : new[p].next < pg.rows[l]
      BY <1>5, <3>2 DEF PageAfter
    <3>4. pg.more => new[p].next < pg.next
      BY <1>5, <3>2 DEF PageAfter
    <3> QED
      BY <3>1, <3>2, <3>3, <3>4
  <2> QED
    BY <1>1, <2>1, <2>2
<1>9. PagesInOrder(new)
  BY <1>2, <1>7, <1>8 DEF PagesInOrder
<1>10. Unfinished(new) <=> pg.more
  BY <1>2, <1>3 DEF Unfinished
<1>11. ASSUME NEW id \in steady, id > NoCursor
       PROVE  (\E p \in DOMAIN new : id \in Range(new[p].rows)) \/ (Unfinished(new) /\ id > CursorAfter(new))
  <2>1. CASE \E p \in DOMAIN got : id \in Range(got[p].rows)
    <3>1. PICK p \in DOMAIN got : id \in Range(got[p].rows)
      BY <2>1
    <3>2. p \in DOMAIN new /\ new[p] = got[p]
      BY <1>1, <1>2
    <3> QED
      BY <3>1, <3>2
  <2>2. CASE id > CursorAfter(got)
    <3>1. id \in Range(pg.rows) \/ (pg.more /\ id > pg.next)
      BY <2>2 DEF PageAfter
    <3>2. n + 1 \in DOMAIN new
      BY <1>1, <1>2
    <3> QED
      BY <1>2, <1>3, <1>10, <3>1, <3>2 DEF CursorAfter
  <2> QED
    BY <1>11, <2>1, <2>2 DEF Covered
<1>12. Covered(new)
  BY <1>11 DEF Covered
<1> QED
  BY <1>9, <1>10, <1>12 DEF new

(* A page that came: the fetch goes on with it, or is over.                 *)
LEMMA PageReceived ==
  ASSUME PickerInv, NEW pg, PageAfter(pg, Cursor), Received(pg), UNCHANGED <<searching, picked, room, steady, catalog>>,
         Watched
  PROVE  PickerInv' /\ Watched'
<1> DEFINE new == Append(fetch.got, pg)
<1>1. Cursor = CursorAfter(fetch.got)
  BY DEF Cursor, CursorAfter
<1>2. PagesInOrder(new) /\ Covered(new) /\ (Unfinished(new) <=> pg.more)
  BY <1>1, PageAppended DEF PickerInv
<1>3. new \in Seq(PageRows)
  BY <1>2 DEF PagesInOrder
<1> HIDE DEF new
<1>4. CASE Len(new) < fetch.want /\ pg.more
  <2>1. fetch' = [fetch EXCEPT !.at = IF searching THEN "search" ELSE "rows", !.got = new, !.found = {}, !.rows = << >>]
        /\ pages' = pages
    BY <1>4 DEF Received, new
  <2>2. fetch' \in Fetches /\ fetch'.got = new /\ fetch'.at = IF searching THEN "search" ELSE "rows"
    <3>1. << >> \in Seq(1..MaxSets) /\ {} \in SUBSET (1..MaxSets)
      OBVIOUS
    <3> QED
      BY <1>3, <2>1, <3>1 DEF PickerInv, PickerShape, Fetches
  <2>3. PickerShape'
    BY <2>2 DEF PickerInv, PickerShape, Fetches
  <2>4. Covered(pages)' /\ Covered(fetch.got)' /\ PagesInOrder(pages)' /\ PagesInOrder(fetch.got)' /\ Unfinished(fetch.got)'
    BY <1>2, <1>4, <2>1, <2>2 DEF PickerInv, Covered, PagesInOrder, Unfinished, CursorAfter
  <2>5. PickerInv'
    BY <2>2, <2>3, <2>4 DEF PickerInv
  <2>6. Watched'
    BY <2>2 DEF Watched, catalog, Ids
  <2> QED
    BY <2>5, <2>6
<1>5. CASE ~(Len(new) < fetch.want /\ pg.more)
  <2>1. fetch' = NoFetch /\ pages' = new
    BY <1>5 DEF Received, new
  <2>2. fetch' \in Fetches /\ fetch'.got = << >> /\ fetch'.at = "none"
    BY <2>1 DEF NoFetch, Fetches
  <2>3. PickerShape'
    BY <2>2 DEF PickerInv, PickerShape, Fetches
  <2>4. Covered(pages)' /\ PagesInOrder(pages)'
    BY <1>2, <2>1 DEF Covered, PagesInOrder, Unfinished, CursorAfter
  <2>5. Covered(fetch.got)' /\ PagesInOrder(fetch.got)' /\ Unfinished(fetch.got)'
    BY <2>2 DEF Covered, PagesInOrder, Unfinished, CursorAfter
  <2>6. PickerInv'
    BY <2>2, <2>3, <2>4, <2>5 DEF PickerInv
  <2>7. Watched'
    BY <2>2 DEF Watched, catalog, Ids
  <2> QED
    BY <2>6, <2>7
<1> QED
  BY <1>4, <1>5

(* The rows a page shows, and where the next one starts.                    *)
LEMMA FirstRows ==
  ASSUME NEW rows \in Seq(1..MaxSets), NEW n \in Nat
  PROVE  /\ InFirst(rows, n) \in Seq(1..MaxSets) /\ DOMAIN InFirst(rows, n) = 1..(IF n <= Len(rows) THEN n ELSE Len(rows))
         /\ \A k \in DOMAIN InFirst(rows, n) : InFirst(rows, n)[k] = rows[k] /\ k \in DOMAIN rows
<1>1. InFirst(rows, n) = SubSeq(rows, 1, IF n <= Len(rows) THEN n ELSE Len(rows))
  BY MinOfTwo DEF InFirst
<1> DEFINE m == IF n <= Len(rows) THEN n ELSE Len(rows)
<1>2. m \in Nat /\ m <= Len(rows) /\ Len(rows) \in Nat /\ DOMAIN rows = 1..Len(rows)
  OBVIOUS
<1> HIDE DEF m
<1>3. SubSeq(rows, 1, m) \in Seq(1..MaxSets) /\ DOMAIN SubSeq(rows, 1, m) = 1..m
      /\ \A k \in 1..m : SubSeq(rows, 1, m)[k] = rows[k] /\ k \in DOMAIN rows
  <2>1. 1 \in Int /\ m \in Int /\ (\A i \in 1..m : rows[i] \in 1..MaxSets) /\ m - 1 + 1 = m
    <3> DEFINE T == 1..MaxSets
    <3>1. rows \in Seq(T)
      OBVIOUS
    <3> HIDE DEF T
    <3>2. \A i \in 1..m : rows[i] \in T
      BY <1>2, <3>1
    <3>3. m - 1 + 1 = m
      BY <1>2
    <3> QED
      BY <1>2, <3>2, <3>3 DEF T
  <2>2. /\ SubSeq(rows, 1, m) \in Seq(1..MaxSets) /\ Len(SubSeq(rows, 1, m)) = IF 1 <= m THEN m - 1 + 1 ELSE 0
        /\ \A i \in 1..(m - 1 + 1) : SubSeq(rows, 1, m)[i] = rows[1 + i - 1]
    BY <2>1, SubSeqProperties
  <2>3. DOMAIN SubSeq(rows, 1, m) = 1..m
    BY <1>2, <2>1, <2>2
  <2>4. ASSUME NEW k \in 1..m PROVE SubSeq(rows, 1, m)[k] = rows[k] /\ k \in DOMAIN rows
    BY <1>2, <2>1, <2>2
  <2> QED
    BY <2>2, <2>3, <2>4
<1> QED
  BY <1>1, <1>3 DEF m

(* The rows of a page are read: they are the next ones, in order, of the    *)
(* sets that are there.                                                     *)
LEMMA RowsStep == CatalogInv /\ PickerInv /\ Watched /\ ReadRows => PickerInv' /\ Watched'
<1> SUFFICES ASSUME CatalogInv, PickerInv, Watched, ReadRows PROVE PickerInv' /\ Watched'
  OBVIOUS
<1> DEFINE found == IF searching THEN fetch.found ELSE Ids
           rows == Rows(found, Cursor, PageSize + 1)
<1>1. Cursor = CursorAfter(fetch.got) /\ Cursor \in Nat
  <2>1. fetch.got \in Seq(PageRows)
    BY DEF PickerInv, PagesInOrder
  <2>2. \A g \in PageRows : g.next \in Nat
    BY DEF PageRows
  <2>3. fetch.got # << >> => Last(fetch.got) \in PageRows
    BY <2>1 DEF Last
  <2> QED
    BY <2>2, <2>3, PickerBounds DEF Cursor, CursorAfter
<1>2. found \in SUBSET Ids /\ steady \subseteq found /\ CatalogShape /\ PageSize + 1 \in Nat
  BY PickerBounds DEF Watched, ReadRows, CatalogInv
<1>3. \A id \in steady : id > Cursor => id \in Above(found, Cursor)
  BY <1>2 DEF Watched, Above
<1> HIDE DEF found
<1>4. /\ rows \in Seq(1..MaxSets) /\ Len(rows) <= PageSize + 1 /\ Increasing(rows)
      /\ \A k \in DOMAIN rows : rows[k] \in Above(found, Cursor) /\ rows[k] > Cursor
      /\ \A id \in Above(found, Cursor) :
           id \in Range(rows) \/ (Len(rows) = PageSize + 1 /\ \A k \in DOMAIN rows : rows[k] < id)
  BY <1>1, <1>2, RowsRead
<1>5. fetch.at = "rows" /\ UNCHANGED <<searching, picked, room, steady, catalog>>
      /\ IF rows = << >> THEN Received(Page(<< >>, << >>, 0))
         ELSE fetch' = [fetch EXCEPT !.at = "counts", !.rows = rows] /\ UNCHANGED pages
  BY DEF ReadRows, found
<1> HIDE DEF rows
<1>6. CASE rows = << >>
  <2> DEFINE pg == Page(<< >>, << >>, 0)
  <2>1. pg \in PageRows /\ pg.rows = << >> /\ ~pg.more /\ pg.counts = << >>
    <3>1. << >> \in Seq(1..MaxSets) /\ << >> \in Seq(Nat) /\ 0 \in 0..MaxSets
      BY CatalogBounds
    <3> QED
      BY <3>1 DEF Page, PageRows
  <2>2. Received(pg)
    BY <1>5, <1>6
  <2> HIDE DEF pg
  <2>3. \A id \in steady : ~(id > Cursor)
    BY <1>3, <1>4, <1>6, PickerBounds DEF Range
  <2>4. PageAfter(pg, Cursor)
    BY <2>1, <2>3 DEF PageAfter, Increasing
  <2> QED
    BY <1>5, <2>2, <2>4, PageReceived
<1>7. CASE rows # << >>
  <2>1. fetch' = [fetch EXCEPT !.at = "counts", !.rows = rows] /\ UNCHANGED pages
    BY <1>5, <1>7
  <2>2. fetch' \in Fetches /\ fetch'.got = fetch.got /\ fetch'.at = "counts" /\ fetch'.rows = rows
    BY <1>4, <2>1 DEF PickerInv, PickerShape, Fetches
  <2>3. PickerShape'
    BY <1>5, <2>2 DEF PickerInv, PickerShape, Fetches
  <2>4. Covered(pages)' /\ Covered(fetch.got)' /\ PagesInOrder(pages)' /\ PagesInOrder(fetch.got)' /\ Unfinished(fetch.got)'
    BY <1>5, <2>1, <2>2 DEF PickerInv, Covered, PagesInOrder, Unfinished, CursorAfter
  <2>5. RowsInHand(rows, Cursor)
    BY <1>3, <1>4, <1>7 DEF RowsInHand
  <2>6. RowsInHand(fetch.rows, CursorAfter(fetch.got))'
    BY <1>1, <1>5, <2>2, <2>5 DEF RowsInHand, CursorAfter
  <2>7. PickerInv'
    BY <2>2, <2>3, <2>4, <2>6 DEF PickerInv
  <2>8. Range(rows) \subseteq Ids
    BY <1>2, <1>4 DEF Range, Above
  <2>9. Watched'
    BY <1>5, <2>2, <2>8 DEF Watched, catalog, Ids
  <2> QED
    BY <2>7, <2>9
<1> QED
  BY <1>6, <1>7

(* The counts of its quizzes are read: the page is complete and goes to the *)
(* front end.                                                               *)
LEMMA CountsStep == CatalogInv /\ PickerInv /\ Watched /\ ReadCounts => PickerInv' /\ Watched'
<1> SUFFICES ASSUME CatalogInv, PickerInv, Watched, ReadCounts PROVE PickerInv' /\ Watched'
  OBVIOUS
<1> DEFINE rows == fetch.rows
           kept == InFirst(rows, PageSize)
           pg == Page(kept, [i \in DOMAIN kept |-> QuizCount(kept[i])], NextCursor(rows))
<1>1. Received(pg) /\ UNCHANGED <<searching, picked, room, steady, catalog>> /\ fetch.at = "counts"
  BY DEF ReadCounts
<1>2. rows \in Seq(1..MaxSets) /\ RowsInHand(rows, CursorAfter(fetch.got)) /\ Range(rows) \subseteq Ids
  BY <1>1 DEF PickerInv, PickerShape, Fetches, Watched
<1>3. /\ kept \in Seq(1..MaxSets) /\ DOMAIN kept = 1..(IF PageSize <= Len(rows) THEN PageSize ELSE Len(rows))
      /\ \A k \in DOMAIN kept : kept[k] = rows[k] /\ k \in DOMAIN rows
  BY <1>2, FirstRows, PickerBounds
<1>4. Len(rows) \in Nat /\ DOMAIN rows = 1..Len(rows) /\ PageSize \in Nat \ {0} /\ MaxSets \in Nat
      /\ \A k \in DOMAIN rows : rows[k] \in 1..MaxSets
  BY <1>2, PickerBounds, CatalogBounds
<1> DEFINE counts == [i \in DOMAIN kept |-> QuizCount(kept[i])]
<1>5. counts \in Seq(Nat) /\ DOMAIN counts = DOMAIN kept
  <2>1. \A i \in DOMAIN kept : kept[i] \in Ids
    BY <1>2, <1>3 DEF Range
  <2>2. \A id \in Ids : QuizCount(id) \in Nat
    <3>1. \A id \in Ids : sets[id] \in SetRows
      BY DEF CatalogInv, CatalogShape, Ids
    <3>2. \A s \in SetRows : Len(s.quizzes) \in Nat
      BY DEF SetRows, QuizRows
    <3> QED
      BY <3>1, <3>2 DEF QuizCount
  <2> DEFINE n == IF PageSize <= Len(rows) THEN PageSize ELSE Len(rows)
  <2>3. counts \in [1..n -> Nat] /\ n \in Nat
    BY <1>3, <1>4, <2>1, <2>2
  <2> QED
    BY <2>3, FunctionSeq
<1> DEFINE next == NextCursor(rows)
<1>6. /\ next \in 0..MaxSets
      /\ next # 0 <=> Len(rows) > PageSize
      /\ next # 0 => PageSize \in DOMAIN rows /\ next = rows[PageSize]
  BY <1>4 DEF NextCursor
<1>7. pg.rows = kept /\ pg.counts = counts /\ pg.next = next /\ (pg.more <=> next # 0) /\ pg \in PageRows
  BY <1>3, <1>5, <1>6 DEF Page, PageRows
<1> HIDE DEF pg, counts, next, kept, rows
<1>8. Cursor = CursorAfter(fetch.got) /\ Cursor \in Nat
  <2>1. fetch.got \in Seq(PageRows)
    BY DEF PickerInv, PagesInOrder
  <2>2. \A g \in PageRows : g.next \in Nat
    BY DEF PageRows
  <2>3. fetch.got # << >> => Last(fetch.got) \in PageRows
    BY <2>1 DEF Last
  <2> QED
    BY <2>2, <2>3, PickerBounds DEF Cursor, CursorAfter
<1>9. \A k \in DOMAIN kept : kept[k] > Cursor /\ (next # 0 => kept[k] <= next)
  <2> SUFFICES ASSUME NEW k \in DOMAIN kept PROVE kept[k] > Cursor /\ (next # 0 => kept[k] <= next)
    OBVIOUS
  <2>1. kept[k] = rows[k] /\ k \in DOMAIN rows /\ rows[k] > Cursor
    BY <1>2, <1>3, <1>8 DEF RowsInHand
  <2>2. ASSUME next # 0 PROVE kept[k] <= next
    <3>1. k <= PageSize /\ PageSize \in DOMAIN rows /\ next = rows[PageSize] /\ k \in Nat
      BY <1>3, <1>4, <1>6, <2>2
    <3>2. k < PageSize => rows[k] < rows[PageSize]
      BY <1>2, <2>1, <3>1 DEF RowsInHand, Increasing
    <3> QED
      BY <1>4, <2>1, <3>1, <3>2
  <2> QED
    BY <2>1, <2>2
<1>10. next # 0 => next > Cursor
  BY <1>2, <1>6, <1>8 DEF RowsInHand
<1>11. Increasing(kept)
  BY <1>2, <1>3 DEF RowsInHand, Increasing
<1>12. ASSUME NEW id \in steady, id > Cursor PROVE id \in Range(kept) \/ (next # 0 /\ id > next)
  <2>1. CASE id \in Range(rows)
    <3>1. PICK k \in DOMAIN rows : rows[k] = id
      BY <2>1 DEF Range
    <3>2. CASE k \in DOMAIN kept
      BY <1>3, <3>1, <3>2 DEF Range
    <3>3. CASE k \notin DOMAIN kept
      <4>1. k > PageSize /\ Len(rows) > PageSize /\ k \in Nat
        BY <1>3, <1>4, <3>3
      <4>2. next # 0 /\ next = rows[PageSize] /\ PageSize \in DOMAIN rows
        BY <1>6, <4>1
      <4>3. rows[PageSize] < rows[k]
        BY <1>2, <4>1, <4>2 DEF RowsInHand, Increasing
      <4> QED
        BY <1>4, <3>1, <4>2, <4>3
    <3> QED
      BY <3>2, <3>3
  <2>2. CASE Len(rows) = PageSize + 1 /\ \A k \in DOMAIN rows : rows[k] < id
    <3>1. next # 0 /\ next = rows[PageSize] /\ PageSize \in DOMAIN rows
      BY <1>4, <1>6, <2>2
    <3>2. next < id /\ id \in Int /\ next \in Int
      BY <1>4, <2>2, <3>1 DEF PickerInv, PickerShape
    <3> QED
      BY <3>1, <3>2
  <2> QED
    BY <1>2, <1>8, <1>12, <2>1, <2>2 DEF RowsInHand
<1>13. PageAfter(pg, Cursor)
  BY <1>5, <1>7, <1>9, <1>10, <1>11, <1>12 DEF PageAfter
<1> QED
  BY <1>1, <1>13, PageReceived

(* A search first finds the sets it will page through.                      *)
LEMMA SearchStep == CatalogInv /\ PickerInv /\ Watched /\ Search => PickerInv' /\ Watched'
<1> SUFFICES ASSUME CatalogInv, PickerInv, Watched, Search PROVE PickerInv' /\ Watched'
  OBVIOUS
<1>1. /\ fetch' = [fetch EXCEPT !.at = "rows", !.found = SearchTargets]
      /\ UNCHANGED <<searching, pages, picked, room, steady, catalog>> /\ fetch.at = "search"
  BY DEF Search
<1>2. SearchTargets \in SUBSET (1..MaxSets) /\ SearchTargets \subseteq Ids
  BY CatalogBounds DEF CatalogInv, CatalogShape, SearchTargets, Ids
<1>3. fetch' \in Fetches /\ fetch'.got = fetch.got /\ fetch'.at = "rows" /\ fetch'.found = SearchTargets
  BY <1>1, <1>2 DEF PickerInv, PickerShape, Fetches
<1>4. PickerShape'
  BY <1>1, <1>3 DEF PickerInv, PickerShape, Fetches
<1>5. Covered(pages)' /\ Covered(fetch.got)' /\ PagesInOrder(pages)' /\ PagesInOrder(fetch.got)' /\ Unfinished(fetch.got)'
  BY <1>1, <1>3 DEF PickerInv, Covered, PagesInOrder, Unfinished, CursorAfter
<1>6. PickerInv'
  BY <1>3, <1>4, <1>5 DEF PickerInv
<1>7. searching => steady \subseteq SearchTargets
  BY DEF Watched, SearchTargets
<1>8. Watched'
  BY <1>1, <1>2, <1>3, <1>7 DEF Watched, catalog, Ids
<1> QED
  BY <1>6, <1>8

(* A fetch begins, with pages that have a next one or none.                 *)
LEMMA FetchStep ==
  ASSUME PickerInv, Watched, NEW got, NEW want \in Nat, Fetch(got, want),
         PagesInOrder(got), Covered(got), Unfinished(got)
  PROVE  PickerInv' /\ Watched'
<1>1. /\ fetch' = [NoFetch EXCEPT !.at = IF searching THEN "search" ELSE "rows", !.got = got, !.want = want]
      /\ UNCHANGED <<searching, pages, picked, room, steady, catalog>>
  BY DEF Fetch
<1>2. fetch' \in Fetches /\ fetch'.got = got /\ fetch'.at = IF searching THEN "search" ELSE "rows"
  <2>1. got \in Seq(PageRows)
    BY DEF PagesInOrder
  <2> QED
    <3>1. << >> \in Seq(1..MaxSets) /\ {} \in SUBSET (1..MaxSets)
      OBVIOUS
    <3>2. fetch' = [at |-> IF searching THEN "search" ELSE "rows", got |-> got, want |-> want, found |-> {}, rows |-> << >>]
      BY <1>1 DEF NoFetch
    <3> QED
      BY <2>1, <3>1, <3>2 DEF Fetches
<1>3. PickerShape'
  BY <1>1, <1>2 DEF PickerInv, PickerShape, Fetches
<1>4. Covered(pages)' /\ Covered(fetch.got)' /\ PagesInOrder(pages)' /\ PagesInOrder(fetch.got)' /\ Unfinished(fetch.got)'
  BY <1>1, <1>2 DEF PickerInv, Covered, PagesInOrder, Unfinished, CursorAfter
<1>5. PickerInv'
  BY <1>2, <1>3, <1>4 DEF PickerInv
<1>6. Watched'
  BY <1>1, <1>2 DEF Watched, catalog, Ids
<1> QED
  BY <1>5, <1>6

(* What the user does at the picker: a fetch begins, the next page is asked *)
(* for, or a set is picked.                                                 *)
LEMMA PickingStep == PickerInv /\ Watched /\ Picking => PickerInv' /\ Watched'
<1> SUFFICES ASSUME PickerInv, Watched, Picking PROVE PickerInv' /\ Watched'
  OBVIOUS
<1>1. pages \in Seq(PageRows) /\ Len(pages) \in Nat /\ DOMAIN pages = 1..Len(pages)
  BY DEF PickerInv, PagesInOrder
<1>2. CASE Refetch
  <2> DEFINE want == Max({1, Len(pages)})
             m == IF 1 <= Len(pages) THEN Len(pages) ELSE 1
  <2>1. m \in {1, Len(pages)} /\ \A y \in {1, Len(pages)} : m >= y
    BY <1>1
  <2>2. want \in {1, Len(pages)}
    <3> HIDE DEF m
    <3> QED
      BY <2>1 DEF Max
  <2>3. want \in Nat /\ Fetch(<< >>, want)
    BY <1>1, <1>2, <2>2 DEF Refetch
  <2>4. PagesInOrder(<< >>) /\ Covered(<< >>) /\ Unfinished(<< >>)
    BY DEF PagesInOrder, Covered, Unfinished, CursorAfter
  <2> HIDE DEF want
  <2> QED
    BY <2>3, <2>4, FetchStep
<1>3. CASE ScrolledDown
  <2>1. Fetch(pages, Len(pages) + 1) /\ Unfinished(pages) /\ Len(pages) + 1 \in Nat
    BY <1>1, <1>3 DEF ScrolledDown, Unfinished
  <2> QED
    BY <2>1, FetchStep DEF PickerInv
<1>4. ASSUME UNCHANGED <<searching, pages, fetch, steady, catalog>>, PickerShape' PROVE PickerInv' /\ Watched'
  BY <1>4 DEF PickerInv, Watched, Covered, PagesInOrder, Unfinished, CursorAfter, RowsInHand, catalog, Ids
<1>5. ASSUME Confirm PROVE PickerInv' /\ Watched'
  <2>1. UNCHANGED <<searching, pages, fetch, steady, catalog>>
    BY <1>5 DEF Confirm
  <2>2. room' = [id |-> picked.id, count |-> picked.count] /\ picked' = Nothing
    BY <1>5 DEF Confirm
  <2>3. PickerShape'
    BY <2>1, <2>2, CatalogBounds DEF PickerInv, PickerShape, Nothing
  <2> QED
    BY <1>4, <2>1, <2>3
<1>6. ASSUME NEW p \in DOMAIN pages, NEW i \in DOMAIN pages[p].rows, Select(p, i) PROVE PickerInv' /\ Watched'
  <2>1. UNCHANGED <<searching, pages, fetch, steady, catalog, room>>
    BY <1>6 DEF Select
  <2>2. picked' = [id |-> pages[p].rows[i], max |-> pages[p].counts[i], count |-> pages[p].counts[i]]
    BY <1>6 DEF Select
  <2>3. pages[p] \in PageRows /\ i \in DOMAIN pages[p].counts
    BY <1>1 DEF PickerInv, PagesInOrder
  <2>4. pages[p].rows \in Seq(1..MaxSets) /\ pages[p].counts \in Seq(Nat)
    BY <2>3 DEF PageRows
  <2>5. pages[p].rows[i] \in 0..MaxSets /\ pages[p].counts[i] \in Nat
    <3>1. pages[p].rows[i] \in 1..MaxSets
      <4> DEFINE s == pages[p].rows
                 T == 1..MaxSets
      <4>1. s \in Seq(T) /\ i \in DOMAIN s
        BY <2>4
      <4> HIDE DEF s, T
      <4>2. s[i] \in T
        BY <4>1
      <4> QED
        BY <4>2 DEF s, T
    <3>2. pages[p].counts[i] \in Nat
      BY <2>3, <2>4
    <3> QED
      BY <3>1, <3>2, CatalogBounds
  <2>6. PickerShape'
    BY <2>1, <2>2, <2>5 DEF PickerInv, PickerShape
  <2> QED
    BY <1>4, <2>1, <2>6
<1>7. ASSUME NEW n \in 1..picked.max, Slide(n) PROVE PickerInv' /\ Watched'
  <2>1. UNCHANGED <<searching, pages, fetch, steady, catalog, room>> /\ picked' = [picked EXCEPT !.count = n]
    BY <1>7 DEF Slide
  <2>2. picked.max \in Nat
    BY DEF PickerInv, PickerShape
  <2>3. n \in Nat /\ n <= picked.max
    BY <2>2
  <2>4. PickerShape'
    BY <2>1, <2>3 DEF PickerInv, PickerShape
  <2> QED
    BY <1>4, <2>1, <2>4
<1> QED
  BY <1>2, <1>3, <1>5, <1>6, <1>7 DEF Picking

(* While the sets are written by somebody else.                             *)
LEMMA WatchedStep ==
  CatalogInv /\ PickerInv /\ Watched /\ (Added \/ \E id \in Ids : Edited(id)) /\ PickerWatches => PickerInv' /\ Watched'
<1> SUFFICES ASSUME CatalogInv, PickerInv, Watched, Added \/ \E id \in Ids : Edited(id), PickerWatches
             PROVE  PickerInv' /\ Watched'
  OBVIOUS
<1>1. steady' = {id \in steady : sets'[id].live /\ (searching => sets'[id].hit)}
      /\ UNCHANGED <<searching, pages, fetch, picked, room>>
  BY DEF PickerWatches
<1>2. steady' \subseteq steady
  BY <1>1
<1>3. Ids \subseteq Ids'
  <2>0. Ids = 1..Len(sets) /\ sets \in Seq(SetRows)
    BY DEF CatalogInv, CatalogShape, Ids
  <2>1. CASE Added
    <3>1. PICK u \in Users, h \in BOOLEAN : Create(u, h, Sample)
      BY <2>1 DEF Added
    <3>2. sets' = Append(sets, NewSet(u, h, Sample))
      BY <3>1 DEF Create, Insert
    <3> QED
      BY <2>0, <3>2 DEF Ids
  <2>2. CASE \E id \in Ids : Edited(id)
    <3>1. PICK id \in Ids : Edited(id)
      BY <2>2
    <3>2. DOMAIN sets' = DOMAIN sets
      BY <3>1 DEF Edited, RemoveSet, Update
    <3> QED
      BY <3>2 DEF Ids
  <2> QED
    BY <2>1, <2>2
<1>4. PickerShape'
  BY <1>1, <1>2 DEF PickerInv, PickerShape
<1>5. Covered(pages)' /\ Covered(fetch.got)' /\ PagesInOrder(pages)' /\ PagesInOrder(fetch.got)' /\ Unfinished(fetch.got)'
  BY <1>1, <1>2 DEF PickerInv, Covered, PagesInOrder, Unfinished, CursorAfter
<1>6. RowsInHand(fetch.rows, CursorAfter(fetch.got)) => RowsInHand(fetch.rows, CursorAfter(fetch.got))'
  BY <1>1, <1>2 DEF RowsInHand, CursorAfter
<1>7. PickerInv'
  BY <1>1, <1>4, <1>5, <1>6 DEF PickerInv
<1>8. Watched'
  BY <1>1, <1>2, <1>3 DEF Watched
<1> QED
  BY <1>7, <1>8

(* A step of another topic leaves the picker alone.                         *)
LEMMA PickerKept == PickerInv /\ UNCHANGED picker => PickerInv'
BY DEF picker, PickerInv, PickerShape, Covered, PagesInOrder, Unfinished, CursorAfter, RowsInHand

(* The picker starts with no page read.                                     *)
LEMMA PickerInitial == CatalogInv /\ PickerInit => PickerInv /\ Watched
<1> SUFFICES ASSUME CatalogInv, PickerInit PROVE PickerInv /\ Watched
  OBVIOUS
<1>1. Ids \subseteq 1..MaxSets /\ MaxSets \in Nat
  BY CatalogBounds DEF CatalogInv, CatalogShape, Ids
<1>2. << >> \in Seq(PageRows) /\ << >> \in Seq(1..MaxSets)
  OBVIOUS
<1>3. NoFetch \in Fetches /\ NoFetch.got = << >> /\ NoFetch.at = "none"
  BY <1>2 DEF NoFetch, Fetches
<1>4. PagesInOrder(<< >>) /\ Covered(<< >>) /\ Unfinished(<< >>)
  BY DEF PagesInOrder, Covered, Unfinished, CursorAfter
<1>5. PickerShape
  <2>1. /\ fetch = NoFetch /\ searching \in BOOLEAN /\ picked = [id |-> 0, max |-> 0, count |-> 0]
        /\ room = [id |-> 0, count |-> 0] /\ steady \subseteq Ids
    BY DEF PickerInit, Nothing
  <2>2. 0 \in 0..MaxSets /\ picked.count = 0 /\ picked.max = 0
    BY <1>1, <2>1
  <2> QED
    BY <1>1, <1>3, <2>1, <2>2 DEF PickerShape
<1>6. Watched
  BY <1>1, <1>3 DEF PickerInit, Watched
<1> QED
  BY <1>3, <1>4, <1>5, <1>6 DEF PickerInit, PickerInv

(* Every step of the topic of the picker.                                   *)
LEMMA PickerStep ==
  CatalogInv /\ PickerInv /\ Watched /\ Browsing => PickerInv' /\ Watched'
BY PickingStep, SearchStep, RowsStep, CountsStep, WatchedStep DEF Browsing, FetchSteps

(* When the last page has come, nothing is left to come.                    *)
LEMMA PagesComplete == PickerInv => BrowsedAll
<1> SUFFICES ASSUME PickerInv, pages # << >>, ~Last(pages).more
             PROVE  /\ \A p, q \in DOMAIN pages : \A k \in DOMAIN pages[p].rows, l \in DOMAIN pages[q].rows :
                         p < q \/ (p = q /\ k < l) => pages[p].rows[k] < pages[q].rows[l]
                    /\ \A id \in steady : id > NoCursor => \E p \in DOMAIN pages : id \in Range(pages[p].rows)
  BY DEF BrowsedAll
<1>1. pages \in Seq(PageRows) /\ DOMAIN pages = 1..Len(pages) /\ PagesInOrder(pages)
  BY DEF PickerInv, PagesInOrder
<1>2. \A id \in steady : id > NoCursor => \E p \in DOMAIN pages : id \in Range(pages[p].rows)
  BY DEF PickerInv, Covered, Unfinished
<1>3. ASSUME NEW p \in DOMAIN pages
      PROVE  pages[p].next \in Int /\ \A k \in DOMAIN pages[p].rows : pages[p].rows[k] \in Int
  <2>0. pages[p] \in PageRows
    BY <1>1
  <2>1. pages[p].next \in 0..MaxSets /\ pages[p].rows \in Seq(1..MaxSets) /\ MaxSets \in Nat
    BY <2>0, CatalogBounds DEF PageRows
  <2> QED
    BY <2>1
<1>4. ASSUME NEW p \in DOMAIN pages, NEW q \in DOMAIN pages, NEW k \in DOMAIN pages[p].rows,
             NEW l \in DOMAIN pages[q].rows, p < q \/ (p = q /\ k < l)
      PROVE  pages[p].rows[k] < pages[q].rows[l]
  <2>1. CASE p = q /\ k < l
    BY <1>1, <2>1 DEF PagesInOrder, Increasing
  <2>2. CASE p < q
    <3>1. pages[p].more /\ pages[p].next < pages[q].rows[l]
      BY <1>1, <2>2 DEF PagesInOrder
    <3>2. pages[p].rows[k] <= pages[p].next
      BY <1>1, <3>1 DEF PagesInOrder
    <3> QED
      BY <1>3, <3>1, <3>2
  <2> QED
    BY <1>4, <2>1, <2>2
<1> QED
  BY <1>2, <1>4

BrowseInv == PickerInv /\ (topic = "browse" => Watched)

(* Only the topic of the picker disturbs it.                                *)
LEMMA BrowseStep == SiteInv /\ BrowseInv /\ [Next]_vars => BrowseInv'
<1> SUFFICES ASSUME SiteInv, BrowseInv, [Next]_vars PROVE BrowseInv'
  OBVIOUS
<1>1. CASE topic = "browse" /\ Browsing /\ UNCHANGED <<page, table, lobbies, others>>
  <2>1. topic' = topic
    BY <1>1 DEF others
  <2> QED
    BY <1>1, <2>1, PickerStep DEF SiteInv, BrowseInv
<1>2. ASSUME UNCHANGED <<picker, topic>>, topic # "browse" PROVE BrowseInv'
  BY <1>2, PickerKept DEF BrowseInv
<1>3. ASSUME UNCHANGED <<catalog, picker, topic>> PROVE BrowseInv'
  BY <1>3, PickerKept DEF BrowseInv, Watched, picker, catalog, Ids
<1>4. CASE topic = "author" /\ Authoring /\ UNCHANGED <<picker, lobbies, others>>
  BY <1>2, <1>4 DEF others
<1>5. CASE topic = "start" /\ Caching /\ UNCHANGED <<page, table, lobbies, others>>
  BY <1>2, <1>5 DEF others, Caching
<1>6. CASE topic = "lobby" /\ (PageSteps \/ Churn) /\ UNCHANGED <<catalog, page, picker, table, others>>
  BY <1>3, <1>6 DEF others
<1> QED
  BY <1>1, <1>3, <1>4, <1>5, <1>6 DEF Next, vars, others

(* The invariant of the picker, of every behaviour of the site.             *)
LEMMA BrowseInvariant == Spec => []BrowseInv
<1>1. Init => BrowseInv
  BY SiteInitial, PickerInitial DEF Init, SiteInv, BrowseInv
<1> QED
  BY <1>1, BrowseStep, SiteInvariant, PTL DEF Spec

(* A host who has scrolled to the end has seen every set that was there all *)
(* along, in order and once, for any page size, catalog and interleaving of *)
(* reads and writes: the cursor is the last row kept, and what follows it   *)
(* is either among the rows looked at or above all of them                  *)
(* (QuizSetReadService.fetchQuizSets).                                      *)
THEOREM EverySetBrowsed == Spec => []BrowsedAll
<1>1. BrowseInv => BrowsedAll
  BY PagesComplete DEF BrowseInv
<1> QED
  BY <1>1, BrowseInvariant, PTL
=============================================================================
