------------------------------ MODULE QuizSets ------------------------------
(***************************************************************************)
(* The quiz sets: their rows in MySQL, written by one request (and one     *)
(* transaction) at a time, and the copies a game starts from, which        *)
(* QuizCacheService reads from Redis or, failing that, from the database   *)
(* in three queries of their own.                                          *)
(***************************************************************************)
EXTENDS Integers, FiniteSets, SequencesExt, FiniteSetsExt, Functions

CONSTANTS
  Users,      (* accounts                                                    *)
  Hosts,      (* rooms whose hosts start games                               *)
  Stored,     (* the quiz sets in the database to begin with                 *)
  Sample,     (* the quizzes of a set somebody else stores                   *)
  Played,     (* bound: sets that are played while others change them        *)
  Patches,    (* what PATCH /api/quizset/:id is asked for                    *)
  NaN,        (* the time limit of a field that was cleared; JSON null       *)
  TTL,        (* CACHE_TTL, in ticks                                         *)
  MaxSets,    (* bound: quiz sets ever stored                                *)
  MaxWrites   (* bound: requests that change one                             *)

ASSUME CatalogBounds ==
  /\ TTL \in Nat \ {0} /\ MaxSets \in Nat /\ MaxWrites \in Nat
  /\ Len(Stored) \in 1..MaxSets /\ Played \subseteq DOMAIN Stored

VARIABLES
  sets,       (* by id: a quiz_set row with its quiz and quiz_choice rows    *)
  cache,      (* Quizset:<id> in Redis                                       *)
  starts,     (* getQuizSet of each room's startGame, and how far it is      *)
  retired,    (* history: for each set, the age of each version replaced     *)
  writes      (* bound: requests used                                        *)

catalog == <<sets, cache, starts, retired, writes>>

Ids == DOMAIN sets
Version(id) == Len(retired[id]) + 1

(* A row; hit: the searched word is found in it.  patched: by PATCH, which  *)
(* checks neither the answers nor the numbers of the choices.               *)
NewSet(u, h, qs) == [owner |-> u, live |-> TRUE, hit |-> h, quizzes |-> qs, patched |-> FALSE]

(* What getQuizSet has read so far: the versions of the three parts.        *)
Unread == [row |-> 0, list |-> 0, choices |-> 0, quizzes |-> << >>]
Idle == [at |-> "idle", id |-> 0, copy |-> Unread]
NotCached == [left |-> 0, copy |-> Unread]

CatalogInit ==
  /\ sets = Stored
  /\ cache = [id \in 1..MaxSets |-> NotCached] /\ starts = [h \in Hosts |-> Idle]
  /\ retired = [id \in 1..MaxSets |-> << >>] /\ writes = 0

-----------------------------------------------------------------------------
(* Requests that write.  One that is refused changes nothing.               *)

HasAnswer(q) == \E i \in DOMAIN q.choices : q.choices[i].answer
OrdersOf(q) == [i \in DOMAIN q.choices |-> q.choices[i].order]

(* validateQuizSet; and a NULL limit_time is refused by the database.       *)
Valid(qs) == \A q \in Range(qs) : HasAnswer(q) /\ IsInjective(OrdersOf(q))
Storable(qs) == \A q \in Range(qs) : q.limit # NaN

Written == writes < MaxWrites /\ writes' = writes + 1

(* createQuizSet: the set, its quizzes and their choices, or none of them.  *)
Accepted(qs) == Valid(qs) /\ Storable(qs)
Insert(u, h, qs) == Len(sets) < MaxSets /\ sets' = Append(sets, NewSet(u, h, qs))

Create(u, h, qs) ==
  /\ Written /\ Accepted(qs) /\ Insert(u, h, qs)
  /\ UNCHANGED <<cache, starts, retired>>

(* Only the account that stored a set may change or remove it.              *)
OwnedBy(id, u) == sets[id].live /\ sets[id].owner = u

Retire(id) == retired' = [retired EXCEPT ![id] = Append(@, 0)]

(* update: title and category if given, then quiz by quiz and choice by     *)
(* choice in the order of the rows; what the request leaves out stays.      *)
MergedChoices(cs, marks) ==
  [i \in DOMAIN cs |-> [cs[i] EXCEPT !.answer = IF i \in DOMAIN marks THEN marks[i] ELSE @]]
MergedQuizzes(qs, choices) ==
  [i \in DOMAIN qs |->
    IF i \in DOMAIN choices THEN [qs[i] EXCEPT !.choices = MergedChoices(@, choices[i])] ELSE qs[i]]
Merged(s, patch) ==
  [s EXCEPT !.hit = IF patch.hit = {} THEN @ ELSE CHOOSE h \in patch.hit : TRUE,
            !.quizzes = MergedQuizzes(@, patch.quizzes), !.patched = TRUE]

Update(id, u, patch) ==
  /\ OwnedBy(id, u) /\ Written /\ Retire(id)
  /\ sets' = [sets EXCEPT ![id] = Merged(@, patch)]
  /\ UNCHANGED <<cache, starts>>

(* remove: the set is marked deleted, its quizzes and choices are not.      *)
RemoveSet(id, u) ==
  /\ OwnedBy(id, u) /\ Written /\ Retire(id)
  /\ sets' = [sets EXCEPT ![id].live = FALSE]
  /\ UNCHANGED <<cache, starts>>

-----------------------------------------------------------------------------
(* Listing: findAllWithQuizzesAndChoices reads in up to three steps         *)

SearchTargets == {id \in Ids : sets[id].live /\ sets[id].hit}
InFirst(s, n) == SubSeq(s, 1, Min({n, Len(s)}))
Above(found, cursor) == {id \in found : sets[id].live /\ id > cursor}
(* In the order of ids.                                                    *)
Nth(S, i) == CHOOSE id \in S : Cardinality({j \in S : j < id}) = i - 1
Rows(found, cursor, take) ==
  LET S == Above(found, cursor) IN [i \in 1..Min({take, Cardinality(S)}) |-> Nth(S, i)]
QuizCount(id) == Len(sets[id].quizzes)

-----------------------------------------------------------------------------
(* getQuizSet, for the startGame of a room                                  *)

Begin(h, id) ==
  /\ starts[h] = Idle
  /\ starts' = [starts EXCEPT ![h] =
       IF cache[id] # NotCached THEN [at |-> "ready", id |-> id, copy |-> cache[id].copy]
       ELSE [at |-> "row", id |-> id, copy |-> Unread]]
  /\ UNCHANGED <<sets, cache, retired, writes>>

(* findOne: a set that is deleted ends the request with an exception.       *)
ReadRow(h) ==
  LET id == starts[h].id IN
  /\ starts[h].at = "row"
  /\ starts' = IF sets[id].live
               THEN [starts EXCEPT ![h].at = "list", ![h].copy.row = Version(id)]
               ELSE [starts EXCEPT ![h] = Idle]
  /\ UNCHANGED <<sets, cache, retired, writes>>

ReadList(h) ==
  /\ starts[h].at = "list"
  /\ starts' = [starts EXCEPT ![h].at = "choices", ![h].copy.list = Version(starts[h].id)]
  /\ UNCHANGED <<sets, cache, retired, writes>>

ReadChoices(h) ==
  LET id == starts[h].id IN
  /\ starts[h].at = "choices"
  /\ starts' = [starts EXCEPT ![h].at = "set", ![h].copy.choices = Version(id),
                              ![h].copy.quizzes = sets[id].quizzes]
  /\ UNCHANGED <<sets, cache, retired, writes>>

(* setToRedisCache, with the time the entry has left.                       *)
(* Fault: SET without EX.                                                   *)
CachedForGood(copy) == [left |-> 0, copy |-> copy]
Cached(copy) == [left |-> TTL, copy |-> copy]

CacheSet(h) ==
  /\ starts[h].at = "set"
  /\ cache' = [cache EXCEPT ![starts[h].id] = Cached(starts[h].copy)]
  /\ starts' = [starts EXCEPT ![h].at = "ready"]
  /\ UNCHANGED <<sets, retired, writes>>

(* startGame goes on with the copy.                                         *)
Finish(h) ==
  /\ starts[h].at = "ready" /\ starts' = [starts EXCEPT ![h] = Idle]
  /\ UNCHANGED <<sets, cache, retired, writes>>

GetQuizSet(h) == ReadRow(h) \/ ReadList(h) \/ ReadChoices(h) \/ CacheSet(h)

(* Time passes while nobody is starting a game: a request is short next to  *)
(* the half hour an entry is kept.                                          *)
Aged(c) == IF c.left = 1 THEN NotCached ELSE IF c.left = 0 THEN c ELSE [c EXCEPT !.left = @ - 1]
Tick ==
  /\ \A h \in Hosts : starts[h] = Idle
  /\ cache' = [id \in DOMAIN cache |-> Aged(cache[id])]
  /\ retired' = [id \in DOMAIN retired |-> [v \in DOMAIN retired[id] |-> Min({TTL, retired[id][v] + 1})]]
  /\ UNCHANGED <<sets, starts, writes>>

-----------------------------------------------------------------------------
QuizRows == Seq([limit : Nat, choices : Seq([order : Nat, answer : BOOLEAN])])
SetRows == [owner : Users, live : BOOLEAN, hit : BOOLEAN, quizzes : QuizRows, patched : BOOLEAN]

(* The rows to begin with, and what others write, are of these types.       *)
ASSUME RowShapes ==
  /\ Stored \in Seq(SetRows) /\ Sample \in QuizRows /\ Users # {}
  /\ \A patch \in Patches : patch.hit \subseteq BOOLEAN /\ patch.quizzes \in Seq(Seq(BOOLEAN))

CatalogTypeOK ==
  /\ sets \in Seq(SetRows) /\ Len(sets) <= MaxSets
  /\ \A id \in DOMAIN cache : cache[id].left \in 0..TTL
  /\ \A h \in Hosts : starts[h].at \in {"idle", "row", "list", "choices", "set", "ready"}
                      /\ starts[h].id \in 0..Len(sets)
=============================================================================
