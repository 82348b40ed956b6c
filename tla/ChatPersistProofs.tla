-------------------------- MODULE ChatPersistProofs --------------------------
(* Theorems about ChatPersist, for every value of its constants.            *)
EXTENDS ChatPersist, TLAPS

-----------------------------------------------------------------------------
(* Lemmas about the values                                                  *)

(* An entry is given an id beyond every entry of its room before it.        *)
LEMMA EntryIdIsNew ==
  ASSUME TypeOK, NEW r \in Rooms, NEW ms \in clock..MaxMs
  PROVE  EntryId(r, ms) \in Nat /\ EntryId(r, ms) > last[r]
<1>1. last[r] \in Nat /\ ms \in Nat /\ PerMs \in Nat
  BY BoundsAssumption DEF TypeOK, RedisOK
<1>2. ms * PerMs \in Nat
  BY <1>1
<1> QED
  BY <1>1, <1>2 DEF EntryId

LEMMA IdleType ==
  Idle \in [pc : PassPCs, was : WAS \cup {None}, room : Rooms \cup {None},
            from : Nat, read : SUBSET Nat, top : Nat, holds : BOOLEAN]
  /\ Idle.pc = "idle" /\ Idle.holds = FALSE
BY DEF Idle, Pass, PassPCs

(* Nothing but the history of a pass changes when its lock lapses.          *)
LEMMA LapseKeeps ==
  ASSUME PassesOK, NEW r, NEW W
  PROVE  /\ Lapse(r, W) \in [Passes -> [pc : PassPCs, was : WAS \cup {None},
                                        room : Rooms \cup {None}, from : Nat,
                                        read : SUBSET Nat, top : Nat, holds : BOOLEAN]]
         /\ \A p \in Passes :
              LET t == Lapse(r, W)[p]
              IN  /\ t.pc = pass[p].pc /\ t.was = pass[p].was /\ t.room = pass[p].room
                  /\ t.from = pass[p].from /\ t.read = pass[p].read /\ t.top = pass[p].top
                  /\ t.holds <=> pass[p].holds /\ ~(pass[p].room = r /\ pass[p].was \in W)
BY DEF Lapse, PassesOK

(* The entries of r behind x.                                               *)
Behind(r, x) == {id \in stream[r] : id > x}

(* What the XRANGE of a pass does to its locals.                            *)
LEMMA ReadStreamCases ==
  ASSUME TypeOK, NEW p \in Passes, ReadStream(p)
  PROVE  \/ pass' = [pass EXCEPT ![p] = [@ EXCEPT !.pc = "release"]]
         \/ \E top \in stream[pass[p].room] :
              pass' = [pass EXCEPT ![p] =
                         [@ EXCEPT !.pc = "insert", !.top = top,
                                   !.read = Behind(pass[p].room, pass[p].from)]]
<1> DEFINE entries == Behind(pass[p].room, pass[p].from)
<1>1. \/ pass' = [pass EXCEPT ![p].pc = "release"]
      \/ \E top \in entries :
           pass' = [pass EXCEPT ![p].pc = "insert", ![p].read = entries, ![p].top = top]
  BY DEF ReadStream, Behind
<1>2. entries \subseteq stream[pass[p].room]
  BY DEF Behind
<1> HIDE DEF entries
<1>3. CASE pass' = [pass EXCEPT ![p].pc = "release"]
  BY <1>3 DEF TypeOK, PassesOK
<1>4. ASSUME NEW top \in entries,
             pass' = [pass EXCEPT ![p].pc = "insert", ![p].read = entries, ![p].top = top]
      PROVE  \E t \in stream[pass[p].room] :
               pass' = [pass EXCEPT ![p] =
                          [@ EXCEPT !.pc = "insert", !.top = t, !.read = entries]]
  <2>1. top \in stream[pass[p].room]
    BY <1>2
  <2>2. pass' = [pass EXCEPT ![p] =
                   [@ EXCEPT !.pc = "insert", !.top = top, !.read = entries]]
    BY <1>4 DEF TypeOK, PassesOK
  <2> QED
    BY <2>1, <2>2
<1> QED
  BY <1>1, <1>3, <1>4 DEF entries

-----------------------------------------------------------------------------
(* Type correctness: one lemma per group of actions                         *)

LEMMA WriteTypeOK ==
  ASSUME TypeOK, NEW w \in WAS, NEW r \in Rooms, Write(w, r)
  PROVE  TypeOK'
<1> PICK ms \in clock..MaxMs :
      /\ clock' = ms
      /\ last' = [last EXCEPT ![r] = EntryId(r, ms)]
      /\ \E kept \in Trims(stream[r] \cup {EntryId(r, ms)}) :
           stream' = [stream EXCEPT ![r] = kept]
  BY DEF Write
<1> PICK kept \in Trims(stream[r] \cup {EntryId(r, ms)}) :
      stream' = [stream EXCEPT ![r] = kept]
  OBVIOUS
<1> DEFINE id == EntryId(r, ms)
<1>1. id \in Nat /\ id > last[r]
  BY EntryIdIsNew
<1>2. kept \subseteq stream[r] \cup {id}
  BY DEF Trims
<1> HIDE DEF id
<1>3. last' = [last EXCEPT ![r] = id]
  BY DEF id
<1>4. UNCHANGED <<cursor, lock, rows, active, pass, churn, crashes, fails>>
  BY DEF Write, bounds
<1>5. ms \in Nat
  BY BoundsAssumption DEF TypeOK, RedisOK
<1>6. RedisOK'
  BY <1>1, <1>2, <1>3, <1>4, <1>5 DEF TypeOK, RedisOK
<1>7. PassesOK'
  <2>1. \A s \in Rooms : last'[s] \in Nat /\ last[s] \in Nat /\ last[s] <= last'[s]
    BY <1>1, <1>3 DEF TypeOK, RedisOK
  <2> QED
    BY <2>1, <1>4 DEF TypeOK, PassesOK, UnderWay
<1>8. OthersOK'
  BY <1>4 DEF TypeOK, OthersOK
<1> QED
  BY <1>6, <1>7, <1>8 DEF TypeOK

LEMMA ClientsTypeOK ==
  ASSUME TypeOK, NEW w \in WAS, NEW r \in Rooms, FirstClient(w, r) \/ LastClient(w, r)
  PROVE  TypeOK'
<1>1. CASE FirstClient(w, r)
  BY <1>1, BoundsAssumption
  DEF FirstClient, TypeOK, RedisOK, PassesOK, UnderWay, OthersOK, redisVars
<1>2. CASE LastClient(w, r)
  <2>1. RedisOK'
    BY <1>2 DEF LastClient, TypeOK, RedisOK
  <2>2. PassesOK'
    BY <1>2, LapseKeeps DEF LastClient, TypeOK, PassesOK, UnderWay
  <2>3. OthersOK'
    BY <1>2, BoundsAssumption DEF LastClient, TypeOK, OthersOK
  <2> QED
    BY <2>1, <2>2, <2>3 DEF TypeOK
<1> QED
  BY <1>1, <1>2

LEMMA TakeLockTypeOK ==
  ASSUME TypeOK, NEW p \in Passes, NEW w \in WAS, NEW r \in Rooms, TakeLock(p, w, r)
  PROVE  TypeOK'
<1>1. RedisOK'
  BY DEF TakeLock, TypeOK, RedisOK
<1>2. PassesOK'
  BY DEF TakeLock, Pass, PassPCs, TypeOK, RedisOK, PassesOK, UnderWay
<1>3. OthersOK'
  BY DEF TakeLock, TypeOK, OthersOK, bounds
<1> QED
  BY <1>1, <1>2, <1>3 DEF TypeOK

LEMMA PassStepTypeOK ==
  ASSUME TypeOK, NEW p \in Passes, PassStep(p)
  PROVE  TypeOK'
<1>1. CASE ReadCursor(p)
  <2>1. RedisOK' /\ OthersOK' /\ UNCHANGED last
    BY <1>1 DEF ReadCursor, redisVars, bounds, TypeOK, RedisOK, OthersOK
  <2>2. /\ UnderWay(pass[p])
        /\ cursor[pass[p].room] \in Nat /\ cursor[pass[p].room] <= last[pass[p].room]
    BY <1>1 DEF ReadCursor, TypeOK, RedisOK, PassesOK, UnderWay
  <2>3. pass' = [pass EXCEPT ![p] =
                   [@ EXCEPT !.pc = "range", !.from = cursor[pass[p].room]]]
    BY <1>1 DEF ReadCursor, TypeOK, PassesOK
  <2> QED
    BY <2>1, <2>2, <2>3 DEF PassPCs, TypeOK, PassesOK, UnderWay
<1>2. CASE ReadStream(p)
  <2>1. RedisOK' /\ OthersOK' /\ UNCHANGED last
    BY <1>2 DEF ReadStream, redisVars, bounds, TypeOK, RedisOK, OthersOK
  <2>2. UnderWay(pass[p])
    BY <1>2 DEF ReadStream, TypeOK, PassesOK
  <2>3. CASE pass' = [pass EXCEPT ![p] = [@ EXCEPT !.pc = "release"]]
    BY <2>1, <2>2, <2>3 DEF PassPCs, TypeOK, PassesOK, UnderWay
  <2>4. ASSUME NEW top \in stream[pass[p].room],
               pass' = [pass EXCEPT ![p] =
                          [@ EXCEPT !.pc = "insert", !.top = top,
                                    !.read = Behind(pass[p].room, pass[p].from)]]
        PROVE  TypeOK'
    <3>1. /\ Behind(pass[p].room, pass[p].from) \subseteq Nat
          /\ top \in Nat /\ top <= last[pass[p].room]
      BY <2>2 DEF Behind, UnderWay, TypeOK, RedisOK
    <3> QED
      BY <2>1, <2>2, <2>4, <3>1 DEF PassPCs, TypeOK, PassesOK, UnderWay
  <2> QED
    BY <1>2, <2>3, <2>4, ReadStreamCases
<1>3. CASE Insert(p)
  <2>1. rows' \subseteq Rooms \X Nat
    BY <1>3 DEF Insert, Go, InsertRows, TypeOK, OthersOK, PassesOK, UnderWay
  <2> QED
    BY <1>3, <2>1
    DEF Insert, Go, redisVars, bounds, PassPCs, TypeOK, RedisOK, PassesOK, UnderWay, OthersOK
<1>4. CASE StoreCursor(p)
  <2>1. RedisOK'
    BY <1>4 DEF StoreCursor, Go, TypeOK, RedisOK, PassesOK, UnderWay
  <2> QED
    BY <1>4, <2>1
    DEF StoreCursor, Go, bounds, PassPCs, TypeOK, PassesOK, UnderWay, OthersOK
<1>5. CASE ReleaseLock(p)
  <2>1. RedisOK' /\ OthersOK'
    BY <1>5 DEF ReleaseLock, bounds, TypeOK, RedisOK, PassesOK, UnderWay, OthersOK
  <2>2. CASE pass' = [pass EXCEPT ![p] = Idle]
    BY <1>5, <2>1, <2>2, IdleType DEF ReleaseLock, TypeOK, PassesOK, UnderWay
  <2>3. CASE pass' = [Lapse(pass[p].room, {pass[p].was}) EXCEPT ![p] = Idle]
    BY <1>5, <2>1, <2>3, IdleType, LapseKeeps DEF ReleaseLock, TypeOK, PassesOK, UnderWay
  <2> QED
    BY <1>5, <2>2, <2>3 DEF ReleaseLock
<1> QED
  BY <1>1, <1>2, <1>3, <1>4, <1>5 DEF PassStep

LEMMA FaultTypeOK ==
  ASSUME TypeOK,
         \/ \E p \in Passes : Fail(p)
         \/ \E r \in Rooms : ExpireLock(r)
         \/ \E w \in WAS : Restart(w)
  PROVE  TypeOK'
<1>1. ASSUME NEW p \in Passes, Fail(p) PROVE TypeOK'
  BY <1>1, BoundsAssumption, IdleType
  DEF Fail, Go, redisVars, PassPCs, TypeOK, RedisOK, PassesOK, UnderWay, OthersOK
<1>2. ASSUME NEW r \in Rooms, ExpireLock(r) PROVE TypeOK'
  <2>1. RedisOK' /\ OthersOK'
    BY <1>2 DEF ExpireLock, bounds, TypeOK, RedisOK, OthersOK
  <2> QED
    BY <1>2, <2>1, LapseKeeps DEF ExpireLock, TypeOK, PassesOK, UnderWay
<1>3. ASSUME NEW w \in WAS, Restart(w) PROVE TypeOK'
  BY <1>3, BoundsAssumption, IdleType
  DEF Restart, redisVars, TypeOK, RedisOK, PassesOK, UnderWay, OthersOK
<1> QED
  BY <1>1, <1>2, <1>3

(* Every reachable state is type correct, whatever the number of WAS,       *)
(* rooms, overlapping passes, failures and restarts.                        *)
THEOREM PersistTypeCorrect == Spec => []TypeOK
<1>1. Init => TypeOK
  BY BoundsAssumption, IdleType
  DEF Init, TypeOK, RedisOK, PassesOK, UnderWay, OthersOK
<1>2. TypeOK /\ [Next]_vars => TypeOK'
  <2> SUFFICES ASSUME TypeOK, [Next]_vars PROVE TypeOK'
    OBVIOUS
  <2>1. CASE UNCHANGED vars
    BY <2>1
    DEF vars, redisVars, bounds, TypeOK, RedisOK, PassesOK, UnderWay, OthersOK
  <2>2. CASE Next
    BY <2>2, WriteTypeOK, ClientsTypeOK, TakeLockTypeOK, PassStepTypeOK, FaultTypeOK DEF Next
  <2> QED
    BY <2>1, <2>2
<1> QED
  BY <1>1, <1>2, PTL DEF Spec

-----------------------------------------------------------------------------
(* The lock                                                                 *)

(* A step that leaves the lock of every pass that still counts on it alone, *)
(* and gives no pass a new claim, keeps the protection.                     *)
LEMMA LockFrame ==
  ASSUME TypeOK, LockProtects,
         \A p \in Passes : pass'[p].holds =>
            /\ pass[p].holds
            /\ pass'[p].room = pass[p].room /\ pass'[p].was = pass[p].was
            /\ lock'[pass[p].room] = lock[pass[p].room]
  PROVE  LockProtects'
BY DEF LockProtects

LEMMA TakeLockProtects ==
  ASSUME TypeOK, LockProtects, NEW p \in Passes, NEW w \in WAS, NEW r \in Rooms,
         TakeLock(p, w, r)
  PROVE  LockProtects'
<1>1. \A q \in Passes : pass[q].holds => pass[q].room # r
  <2> SUFFICES ASSUME NEW q \in Passes, pass[q].holds, pass[q].room = r PROVE FALSE
    OBVIOUS
  <2>1. pass[q].was \in WAS /\ lock[r] = pass[q].was
    BY DEF TypeOK, PassesOK, UnderWay, LockProtects
  <2> QED
    BY <2>1, NoneAssumption DEF TakeLock
<1>2. lock' = [lock EXCEPT ![r] = w] /\ lock \in [Rooms -> WAS \cup {None}]
  BY DEF TakeLock, TypeOK, RedisOK
<1>3. pass'[p].holds /\ pass'[p].room = r /\ pass'[p].was = w
  BY DEF TakeLock, Pass, TypeOK, PassesOK
<1>4. \A q \in Passes \ {p} : pass'[q] = pass[q]
  BY DEF TakeLock, TypeOK, PassesOK
<1>5. \A q \in Passes : pass[q].holds => pass[q].room \in Rooms
  BY DEF TypeOK, PassesOK, UnderWay
<1> QED
  BY <1>1, <1>2, <1>3, <1>4, <1>5 DEF LockProtects

LEMMA ReleaseLockProtects ==
  ASSUME TypeOK, LockProtects, NEW p \in Passes, ReleaseLock(p)
  PROVE  LockProtects'
<1> DEFINE r == pass[p].room
           w == pass[p].was
<1>1. r \in Rooms /\ lock \in [Rooms -> WAS \cup {None}]
  BY DEF ReleaseLock, TypeOK, RedisOK, PassesOK, UnderWay
<1>2. CASE lock[r] = w /\ lock' = [lock EXCEPT ![r] = None]
           /\ pass' = [Lapse(r, {w}) EXCEPT ![p] = Idle]
  <2>1. \A q \in Passes : pass'[q].holds =>
           /\ pass[q].holds /\ ~(pass[q].room = r /\ pass[q].was = w)
           /\ pass'[q].room = pass[q].room /\ pass'[q].was = pass[q].was
    BY <1>2, LapseKeeps, IdleType DEF TypeOK
  <2>2. \A q \in Passes : pass'[q].holds => pass[q].room # r
    BY <2>1, <1>2 DEF LockProtects
  <2> QED
    BY <1>1, <1>2, <2>1, <2>2, LockFrame DEF TypeOK, PassesOK, UnderWay
<1>3. CASE UNCHANGED lock /\ pass' = [pass EXCEPT ![p] = Idle]
  BY <1>3, IdleType, LockFrame DEF TypeOK, PassesOK
<1> QED
  BY <1>2, <1>3 DEF ReleaseLock

LEMMA LockProtectsStep ==
  ASSUME TypeOK, LockProtects, [Next]_vars
  PROVE  LockProtects'
<1>1. CASE UNCHANGED vars
  BY <1>1, LockFrame DEF vars, redisVars
<1>2. ASSUME NEW w \in WAS, NEW r \in Rooms, Write(w, r) \/ FirstClient(w, r)
      PROVE  LockProtects'
  BY <1>2, LockFrame DEF Write, FirstClient, redisVars
<1>3. ASSUME NEW w \in WAS, NEW r \in Rooms, LastClient(w, r) PROVE LockProtects'
  <2>1. \A p \in Passes : pass'[p].holds =>
           /\ pass[p].holds /\ pass[p].room # r
           /\ pass'[p].room = pass[p].room /\ pass'[p].was = pass[p].was
    BY <1>3, LapseKeeps DEF LastClient, TypeOK, PassesOK, UnderWay
  <2> QED
    BY <1>3, <2>1, LockFrame DEF LastClient, TypeOK, RedisOK, PassesOK, UnderWay
<1>4. ASSUME NEW p \in Passes, NEW w \in WAS, NEW r \in Rooms, TakeLock(p, w, r)
      PROVE  LockProtects'
  BY <1>4, TakeLockProtects
<1>5. ASSUME NEW p \in Passes, PassStep(p) PROVE LockProtects'
  <2>1. CASE ReadCursor(p)
    BY <2>1, LockFrame DEF ReadCursor, redisVars, TypeOK, PassesOK
  <2>2. CASE ReadStream(p)
    <3>1. \A q \in Passes : /\ pass'[q].holds = pass[q].holds
                            /\ pass'[q].room = pass[q].room /\ pass'[q].was = pass[q].was
      <4>1. CASE pass' = [pass EXCEPT ![p] = [@ EXCEPT !.pc = "release"]]
        BY <4>1 DEF TypeOK, PassesOK
      <4>2. ASSUME NEW top,
                   pass' = [pass EXCEPT ![p] =
                              [@ EXCEPT !.pc = "insert", !.top = top,
                                        !.read = Behind(pass[p].room, pass[p].from)]]
            PROVE  \A q \in Passes : /\ pass'[q].holds = pass[q].holds
                                     /\ pass'[q].room = pass[q].room
                                     /\ pass'[q].was = pass[q].was
        BY <4>2 DEF TypeOK, PassesOK
      <4> QED
        BY <2>2, <4>1, <4>2, ReadStreamCases
    <3> QED
      BY <2>2, <3>1, LockFrame DEF ReadStream, redisVars
  <2>3. CASE Insert(p)
    BY <2>3, LockFrame DEF Insert, Go, redisVars, TypeOK, PassesOK
  <2>4. CASE StoreCursor(p)
    BY <2>4, LockFrame DEF StoreCursor, Go, TypeOK, PassesOK
  <2>5. CASE ReleaseLock(p)
    BY <2>5, ReleaseLockProtects
  <2> QED
    BY <1>5, <2>1, <2>2, <2>3, <2>4, <2>5 DEF PassStep
<1>6. ASSUME NEW p \in Passes, Fail(p) PROVE LockProtects'
  BY <1>6, IdleType, LockFrame DEF Fail, Go, redisVars, TypeOK, PassesOK
<1>7. ASSUME NEW r \in Rooms, ExpireLock(r) PROVE LockProtects'
  <2>1. \A p \in Passes : pass'[p].holds =>
           /\ pass[p].holds /\ pass[p].room # r
           /\ pass'[p].room = pass[p].room /\ pass'[p].was = pass[p].was
    BY <1>7, LapseKeeps DEF ExpireLock, TypeOK, PassesOK, UnderWay
  <2> QED
    BY <1>7, <2>1, LockFrame DEF ExpireLock, TypeOK, RedisOK, PassesOK, UnderWay
<1>8. ASSUME NEW w \in WAS, Restart(w) PROVE LockProtects'
  BY <1>8, IdleType, LockFrame DEF Restart, redisVars, TypeOK, PassesOK
<1> QED
  BY <1>1, <1>2, <1>3, <1>4, <1>5, <1>6, <1>7, <1>8 DEF Next

(* Until its TTL runs out or the room is cleaned up, the lock keeps every   *)
(* other pass out, however many WAS and passes there are.                   *)
THEOREM LockAlwaysProtects == Spec => []LockProtects
<1>1. Init => LockProtects
  BY IdleType DEF Init, LockProtects
<1>2. TypeOK /\ LockProtects /\ [Next]_vars => LockProtects'
  BY LockProtectsStep
<1> QED
  BY <1>1, <1>2, PersistTypeCorrect, PTL DEF Spec

-----------------------------------------------------------------------------
(* The cursor                                                               *)

CursorInv == SavedUpToCursor /\ PassesCover

(* Nothing is ever deleted from the table.                                  *)
LEMMA RowsGrow ==
  ASSUME TypeOK, [Next]_vars
  PROVE  SavedIds \subseteq SavedIds'
<1>1. rows \subseteq rows'
  BY DEF Next, PassStep, Write, FirstClient, LastClient, TakeLock, ReadCursor, ReadStream,
         Insert, InsertRows, StoreCursor, ReleaseLock, Fail, ExpireLock, Restart, vars
<1> QED
  BY <1>1 DEF SavedIds

(* A step that adds no entry to a stream and moves no cursor, and after     *)
(* which a pass is where it was with the same locals, or idle or about to   *)
(* release its lock, keeps the invariant.                                   *)
LEMMA CursorFrame ==
  ASSUME TypeOK, CursorInv, [Next]_vars,
         \A r \in Rooms : stream'[r] \subseteq stream[r] /\ cursor'[r] \in {0, cursor[r]},
         \A p \in Passes :
           \/ pass'[p].pc \in {"idle", "cursor", "release"}
           \/ /\ pass'[p].pc = pass[p].pc /\ pass'[p].room = pass[p].room
              /\ pass'[p].from = pass[p].from /\ pass'[p].top = pass[p].top
              /\ pass'[p].read = pass[p].read
  PROVE  CursorInv'
<1>1. SavedIds \subseteq SavedIds'
  BY RowsGrow
<1>2. SavedUpToCursor'
  <2> SUFFICES ASSUME NEW r \in Rooms, NEW id \in stream'[r], id <= cursor'[r]
               PROVE  id \in SavedIds'
    BY DEF SavedUpToCursor, SavedUpTo
  <2>1. id \in stream[r] /\ id \in Nat /\ cursor[r] \in Nat
    BY DEF TypeOK, RedisOK
  <2>2. id <= cursor[r]
    BY <2>1
  <2> QED
    BY <1>1, <2>1, <2>2 DEF CursorInv, SavedUpToCursor, SavedUpTo
<1>3. PassesCover'
  <2> SUFFICES ASSUME NEW p \in Passes, pass'[p].pc \in {"range", "insert", "store"}
               PROVE  PassCovers(pass[p])'
    BY DEF PassesCover, PassCovers
  <2>1. /\ pass'[p].pc = pass[p].pc /\ pass'[p].room = pass[p].room
        /\ pass'[p].from = pass[p].from /\ pass'[p].top = pass[p].top
        /\ pass'[p].read = pass[p].read
    OBVIOUS
  <2>2. pass[p].room \in Rooms
    BY <2>1 DEF TypeOK, PassesOK, UnderWay
  <2>3. stream'[pass[p].room] \subseteq stream[pass[p].room]
    BY <2>2
  <2>4. PassCovers(pass[p])
    BY DEF CursorInv, PassesCover
  <2> QED
    BY <1>1, <2>1, <2>3, <2>4 DEF PassCovers, SavedUpTo
<1> QED
  BY <1>2, <1>3 DEF CursorInv

(* A new entry is behind no cursor.                                         *)
LEMMA WriteCursorInv ==
  ASSUME TypeOK, CursorInv, NEW w \in WAS, NEW r \in Rooms, Write(w, r)
  PROVE  CursorInv'
<1> PICK ms \in clock..MaxMs : \E kept \in Trims(stream[r] \cup {EntryId(r, ms)}) :
      stream' = [stream EXCEPT ![r] = kept]
  BY DEF Write
<1> DEFINE id == EntryId(r, ms)
<1>1. id \in Nat /\ id > last[r]
  BY EntryIdIsNew
<1> PICK kept \in Trims(stream[r] \cup {id}) : stream' = [stream EXCEPT ![r] = kept]
  OBVIOUS
<1>k. kept \subseteq stream[r] \cup {id}
  BY DEF Trims
<1> HIDE DEF id
<1>2. \A s \in Rooms : \A x \in stream'[s] : x \in stream[s] \/ (s = r /\ x = id)
  BY <1>k DEF TypeOK, RedisOK
<1>3. UNCHANGED <<cursor, rows, pass>>
  BY DEF Write
<1>4. SavedIds' = SavedIds
  BY <1>3 DEF SavedIds
<1>5. SavedUpToCursor'
  BY <1>1, <1>2, <1>3, <1>4 DEF TypeOK, RedisOK, CursorInv, SavedUpToCursor, SavedUpTo
<1>6. PassesCover'
  <2> SUFFICES ASSUME NEW p \in Passes, pass[p].pc \in {"range", "insert", "store"}
               PROVE  PassCovers(pass[p])'
    BY <1>3 DEF PassesCover, PassCovers
  <2>1. /\ pass[p].room \in Rooms /\ last[pass[p].room] \in Nat
        /\ pass[p].from \in Nat /\ pass[p].from <= last[pass[p].room]
        /\ pass[p].top \in Nat /\ pass[p].top <= last[pass[p].room]
    BY DEF TypeOK, RedisOK, PassesOK, UnderWay
  <2>2. \A x \in stream'[pass[p].room] :
           x <= pass[p].from \/ x <= pass[p].top => x \in stream[pass[p].room]
    BY <1>1, <1>2, <2>1
  <2>3. PassCovers(pass[p])
    BY DEF CursorInv, PassesCover
  <2> QED
    BY <1>3, <1>4, <2>2, <2>3 DEF PassCovers, SavedUpTo
<1> QED
  BY <1>5, <1>6 DEF CursorInv

(* One step of a pass: what it reads, stores and sets covers what it must.  *)
LEMMA PassStepCursorInv ==
  ASSUME TypeOK, CursorInv, NEW p \in Passes, PassStep(p)
  PROVE  CursorInv'
<1> DEFINE r == pass[p].room
<1>0. [Next]_vars
  BY DEF Next
<1>a. SavedIds \subseteq SavedIds'
  BY <1>0, RowsGrow
<1>b. pass[p].pc # "idle" => r \in Rooms
  BY DEF TypeOK, PassesOK, UnderWay
<1>1. CASE ReadCursor(p)
  <2>1. SavedUpToCursor' /\ UNCHANGED <<stream, rows>>
    BY <1>1 DEF ReadCursor, redisVars, CursorInv, SavedUpToCursor, SavedUpTo, SavedIds
  <2>2. pass'[p].pc = "range" /\ pass'[p].from = cursor[r] /\ pass'[p].room = r
    BY <1>1 DEF ReadCursor, TypeOK, PassesOK
  <2>3. PassCovers(pass[p])'
    BY <1>1, <1>b, <2>1, <2>2
    DEF ReadCursor, CursorInv, SavedUpToCursor, PassCovers, SavedUpTo, SavedIds
  <2>4. \A q \in Passes \ {p} : PassCovers(pass[q])'
    BY <1>1, <2>1
    DEF ReadCursor, TypeOK, PassesOK, CursorInv, PassesCover, PassCovers, SavedUpTo, SavedIds
  <2> QED
    BY <2>1, <2>3, <2>4 DEF CursorInv, PassesCover
<1>2. CASE ReadStream(p)
  <2>1. SavedUpToCursor' /\ UNCHANGED <<stream, cursor, rows>>
    BY <1>2 DEF ReadStream, redisVars, CursorInv, SavedUpToCursor, SavedUpTo, SavedIds
  <2>2. CASE pass' = [pass EXCEPT ![p] = [@ EXCEPT !.pc = "release"]]
    BY <1>0, <2>1, <2>2, CursorFrame DEF TypeOK, PassesOK
  <2>3. ASSUME NEW top \in stream[r],
               pass' = [pass EXCEPT ![p] = [@ EXCEPT !.pc = "insert", !.top = top,
                                                     !.read = Behind(r, pass[p].from)]]
        PROVE  CursorInv'
    <3>1. /\ pass'[p].pc = "insert" /\ pass'[p].room = r
          /\ pass'[p].read = Behind(r, pass[p].from)
      BY <2>3 DEF TypeOK, PassesOK
    <3>2. SavedUpTo(r, pass[p].from)
      BY <1>2 DEF ReadStream, CursorInv, PassesCover, PassCovers
    <3>3. \A id \in stream[r] : id \in Nat /\ pass[p].from \in Nat
      BY <1>b, <1>2 DEF ReadStream, TypeOK, RedisOK, PassesOK
    <3>4. \A id \in stream[r] : id \in SavedIds \cup pass'[p].read
      BY <3>1, <3>2, <3>3 DEF SavedUpTo, Behind
    <3>5. PassCovers(pass[p])'
      BY <2>1, <3>1, <3>4 DEF PassCovers, SavedIds
    <3>6. \A q \in Passes \ {p} : PassCovers(pass[q])'
      BY <2>1, <2>3
      DEF TypeOK, PassesOK, CursorInv, PassesCover, PassCovers, SavedUpTo, SavedIds
    <3> QED
      BY <2>1, <3>5, <3>6 DEF CursorInv, PassesCover
  <2> QED
    BY <1>2, <2>2, <2>3, ReadStreamCases
<1>3. CASE Insert(p)
  <2>1. UNCHANGED <<stream, cursor>>
    BY <1>3 DEF Insert, redisVars
  <2>2. SavedUpToCursor'
    BY <1>a, <2>1 DEF CursorInv, SavedUpToCursor, SavedUpTo
  <2>3. pass[p].read \subseteq SavedIds'
    <3> SUFFICES ASSUME NEW id \in pass[p].read, id \notin SavedIds
                 PROVE  id \in SavedIds'
      BY <1>a
    <3>1. <<r, id>> \in rows'
      BY <1>3 DEF Insert, InsertRows
    <3> QED
      BY <3>1 DEF SavedIds
  <2>4. pass'[p].pc = "store" /\ pass'[p].room = r /\ pass'[p].top = pass[p].top
    BY <1>3 DEF Insert, Go, TypeOK, PassesOK
  <2>5. PassCovers(pass[p])'
    <3>1. \A id \in stream[r] : id <= pass[p].top => id \in SavedIds \cup pass[p].read
      BY <1>3 DEF Insert, Go, CursorInv, PassesCover, PassCovers
    <3> QED
      BY <1>a, <2>1, <2>3, <2>4, <3>1 DEF PassCovers, SavedUpTo
  <2>6. \A q \in Passes \ {p} : PassCovers(pass[q])'
    <3>1. \A q \in Passes \ {p} : pass'[q] = pass[q] /\ PassCovers(pass[q])
      BY <1>3 DEF Insert, Go, TypeOK, PassesOK, CursorInv, PassesCover
    <3> QED
      BY <1>a, <2>1, <3>1 DEF PassCovers, SavedUpTo
  <2> QED
    BY <2>2, <2>5, <2>6 DEF CursorInv, PassesCover
<1>4. CASE StoreCursor(p)
  <2>1. UNCHANGED <<stream, rows>> /\ cursor' = [cursor EXCEPT ![r] = pass[p].top]
    BY <1>4 DEF StoreCursor
  <2>2. SavedUpTo(r, pass[p].top)
    BY <1>4 DEF StoreCursor, Go, CursorInv, PassesCover, PassCovers
  <2>3. SavedUpToCursor'
    BY <1>a, <2>1, <2>2 DEF TypeOK, RedisOK, CursorInv, SavedUpToCursor, SavedUpTo
  <2>4. PassesCover'
    <3>1. \A q \in Passes : \/ pass'[q].pc = "release"
                            \/ pass'[q] = pass[q] /\ PassCovers(pass[q])
      BY <1>4 DEF StoreCursor, Go, TypeOK, PassesOK, CursorInv, PassesCover
    <3> QED
      BY <1>a, <2>1, <3>1 DEF PassesCover, PassCovers, SavedUpTo
  <2> QED
    BY <2>3, <2>4 DEF CursorInv
<1>5. CASE ReleaseLock(p)
  <2>1. \A q \in Passes :
          \/ pass'[q].pc = "idle"
          \/ /\ pass'[q].pc = pass[q].pc /\ pass'[q].room = pass[q].room
             /\ pass'[q].from = pass[q].from /\ pass'[q].top = pass[q].top
             /\ pass'[q].read = pass[q].read
    <3>1. CASE pass' = [pass EXCEPT ![p] = Idle]
      BY <3>1, IdleType DEF TypeOK, PassesOK
    <3>2. CASE pass' = [Lapse(r, {pass[p].was}) EXCEPT ![p] = Idle]
      BY <3>2, IdleType, LapseKeeps DEF TypeOK
    <3> QED
      BY <1>5, <3>1, <3>2 DEF ReleaseLock
  <2> QED
    BY <1>0, <1>5, <2>1, CursorFrame DEF ReleaseLock
<1> QED
  BY <1>1, <1>2, <1>3, <1>4, <1>5 DEF PassStep

(* The cursor never passes an entry that is not in the table, however many  *)
(* passes overlap, whatever is trimmed, cleaned up, fails or restarts.      *)
THEOREM CursorNeverSkips == Spec => []SavedUpToCursor
<1>1. Init => CursorInv
  BY IdleType DEF Init, CursorInv, SavedUpToCursor, SavedUpTo, PassesCover, PassCovers
<1>2. TypeOK /\ CursorInv /\ [Next]_vars => CursorInv'
  <2> SUFFICES ASSUME TypeOK, CursorInv, [Next]_vars PROVE CursorInv'
    OBVIOUS
  <2>1. CASE UNCHANGED vars
    BY <2>1, CursorFrame DEF vars, redisVars
  <2>2. ASSUME NEW w \in WAS, NEW r \in Rooms, Write(w, r) PROVE CursorInv'
    BY <2>2, WriteCursorInv
  <2>3. ASSUME NEW w \in WAS, NEW r \in Rooms, FirstClient(w, r) PROVE CursorInv'
    BY <2>3, CursorFrame DEF FirstClient, redisVars
  <2>4. ASSUME NEW w \in WAS, NEW r \in Rooms, LastClient(w, r) PROVE CursorInv'
    <3>1. \A s \in Rooms : stream'[s] \subseteq stream[s] /\ cursor'[s] \in {0, cursor[s]}
      BY <2>4 DEF LastClient, TypeOK, RedisOK
    <3>2. \A p \in Passes :
            /\ pass'[p].pc = pass[p].pc /\ pass'[p].room = pass[p].room
            /\ pass'[p].from = pass[p].from /\ pass'[p].top = pass[p].top
            /\ pass'[p].read = pass[p].read
      BY <2>4, LapseKeeps DEF LastClient, TypeOK
    <3> QED
      BY <3>1, <3>2, CursorFrame
  <2>5. ASSUME NEW p \in Passes, NEW w \in WAS, NEW r \in Rooms, TakeLock(p, w, r)
        PROVE  CursorInv'
    <3>1. \A q \in Passes : pass'[q].pc = "cursor" \/ pass'[q] = pass[q]
      BY <2>5 DEF TakeLock, Pass, TypeOK, PassesOK
    <3> QED
      BY <2>5, <3>1, CursorFrame DEF TakeLock
  <2>6. ASSUME NEW p \in Passes, PassStep(p) PROVE CursorInv'
    BY <2>6, PassStepCursorInv
  <2>7. ASSUME NEW p \in Passes, Fail(p) PROVE CursorInv'
    <3>1. \A q \in Passes : pass'[q].pc \in {"idle", "release"} \/ pass'[q] = pass[q]
      BY <2>7, IdleType DEF Fail, Go, TypeOK, PassesOK
    <3> QED
      BY <2>7, <3>1, CursorFrame DEF Fail, redisVars
  <2>8. ASSUME NEW r \in Rooms, ExpireLock(r) PROVE CursorInv'
    <3>1. \A p \in Passes :
            /\ pass'[p].pc = pass[p].pc /\ pass'[p].room = pass[p].room
            /\ pass'[p].from = pass[p].from /\ pass'[p].top = pass[p].top
            /\ pass'[p].read = pass[p].read
      BY <2>8, LapseKeeps DEF ExpireLock, TypeOK
    <3> QED
      BY <2>8, <3>1, CursorFrame DEF ExpireLock
  <2>9. ASSUME NEW w \in WAS, Restart(w) PROVE CursorInv'
    <3>1. \A p \in Passes : pass'[p].pc = "idle" \/ pass'[p] = pass[p]
      BY <2>9, IdleType DEF Restart, TypeOK, PassesOK
    <3> QED
      BY <2>9, <3>1, CursorFrame DEF Restart, redisVars
  <2> QED
    BY <2>1, <2>2, <2>3, <2>4, <2>5, <2>6, <2>7, <2>8, <2>9 DEF Next
<1>3. CursorInv => SavedUpToCursor
  BY DEF CursorInv
<1> QED
  BY <1>1, <1>2, <1>3, PersistTypeCorrect, PTL DEF Spec
==============================================================================
