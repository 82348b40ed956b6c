----------------------------- MODULE ChatPersist -----------------------------
(***************************************************************************)
(* Persistence of chat.  Every WAS writes the messages of its clients to   *)
(* the Redis stream of the room.  Once a minute every WAS tries to take a  *)
(* lock per room; the one that gets it copies the entries behind a shared  *)
(* cursor to MySQL, where the stream entry id is a unique key, and moves   *)
(* the cursor.  Each action below is the stretch of GameChatService        *)
(* between two awaits.                                                     *)
(***************************************************************************)
EXTENDS Integers, FiniteSets

CONSTANTS
  WAS,       (* server processes                                             *)
  Rooms,     (* game rooms                                                   *)
  Passes,    (* persistRoom calls that may be in flight together             *)
  None,      (* no process, no room, no owner of a lock                      *)
  MaxLen,    (* CHAT_STREAM_MAXLEN                                           *)
  PerMs,     (* bound: ids of one millisecond (2^64 in Redis)                *)
  MaxMs,     (* bound: milliseconds                                          *)
  MaxChurn,  (* bound: rooms a WAS begins and stops to serve                 *)
  MaxCrash,  (* bound: WAS restarts                                          *)
  MaxFail    (* bound: failed commands of a pass                             *)

ASSUME NoneAssumption == None \notin WAS /\ None \notin Rooms
ASSUME BoundsAssumption ==
  /\ MaxLen \in Nat \ {0} /\ PerMs \in Nat \ {0} /\ MaxMs \in Nat
  /\ MaxChurn \in Nat /\ MaxCrash \in Nat /\ MaxFail \in Nat

VARIABLES
  \* Redis
  clock,    (* its clock, in milliseconds                                    *)
  stream,   (* Room:<id>:Chat, the ids of its entries                        *)
  last,     (* the last id given to an entry of the room                     *)
  cursor,   (* Room:<id>:ChatPersistCursor, 0 when absent                    *)
  lock,     (* Room:<id>:ChatPersistLock                                     *)
  \* MySQL
  rows,     (* chat_message: <<game_id, stream_entry_id>>                    *)
  \* memory of the WAS processes
  active,   (* the rooms with an inputQueue                                  *)
  pass,     (* the calls of persistRoom                                      *)
  churn, crashes, fails   (* counters behind the bounds                      *)

redisVars == <<clock, stream, last, cursor, lock>>
bounds == <<churn, crashes, fails>>
vars == <<redisVars, rows, active, pass, bounds>>

-----------------------------------------------------------------------------
(* Values                                                                   *)

(* A call of persistRoom: where it is, its WAS and room, its locals (the    *)
(* cursor it read, the entries it read, the greatest of them) and, as       *)
(* history, whether its lock has been left alone since it was taken.        *)
Pass(pc, w, r, from, read, top, holds) ==
  [pc |-> pc, was |-> w, room |-> r, from |-> from, read |-> read, top |-> top, holds |-> holds]
Idle == Pass("idle", None, None, 0, {}, 0, FALSE)
PassPCs == {"idle", "cursor", "range", "insert", "store", "release"}

(* XADD '*': the time, or the id after the last one if that is later.       *)
EntryId(r, ms) == IF ms * PerMs > last[r] THEN ms * PerMs ELSE last[r] + 1

(* MAXLEN ~: Redis may drop the oldest entries beyond MaxLen, or not yet.   *)
Trims(S) ==
  {T \in SUBSET S : \/ T = S
                    \/ Cardinality(T) >= MaxLen /\ \A x \in T, y \in S \ T : y < x}

SavedIds == {row[2] : row \in rows}

(* Fault: a plain INSERT, which a duplicate id makes fail as a whole.       *)
InsertRowsStrictly(r, ids) ==
  /\ ids \cap SavedIds = {}
  /\ rows' = rows \cup {<<r, id>> : id \in ids}

(* INSERT IGNORE: a row whose stream_entry_id is in the table is skipped.   *)
InsertRows(r, ids) == rows' = rows \cup {<<r, id>> : id \in ids \ SavedIds}

Go(p, from, to) ==
  /\ pass[p].pc = from
  /\ pass' = [pass EXCEPT ![p].pc = to]

(* The passes that counted on the lock of r, of the WAS in W, no longer do. *)
Lapse(r, W) ==
  [p \in Passes |->
     [pass[p] EXCEPT !.holds = @ /\ ~(pass[p].room = r /\ pass[p].was \in W)]]

-----------------------------------------------------------------------------
Init ==
  /\ clock = 1
  /\ stream = [r \in Rooms |-> {}]
  /\ last = [r \in Rooms |-> 0]
  /\ cursor = [r \in Rooms |-> 0]
  /\ lock = [r \in Rooms |-> None]
  /\ rows = {}
  /\ active = [w \in WAS |-> Rooms]
  /\ pass = [p \in Passes |-> Idle]
  /\ churn = 0 /\ crashes = 0 /\ fails = 0

-----------------------------------------------------------------------------
(* Writing, and the rooms of a WAS                                          *)

(* writeRoom: one XADD of the pipeline.                                     *)
Write(w, r) ==
  /\ r \in active[w]
  /\ \E ms \in clock..MaxMs :
       LET id == EntryId(r, ms)
       IN  /\ id < (ms + 1) * PerMs
           /\ clock' = ms
           /\ last' = [last EXCEPT ![r] = id]
           /\ \E kept \in Trims(stream[r] \cup {id}) : stream' = [stream EXCEPT ![r] = kept]
  /\ UNCHANGED <<cursor, lock, rows, active, pass, bounds>>

(* onRoomJoined, first client of the room on this WAS.                      *)
FirstClient(w, r) ==
  /\ r \notin active[w] /\ churn < MaxChurn
  /\ active' = [active EXCEPT ![w] = @ \cup {r}]
  /\ churn' = churn + 1
  /\ UNCHANGED <<redisVars, rows, pass, crashes, fails>>

(* onRoomLeft, last client of the room on this WAS: cleanupRoom deletes the *)
(* keys all WAS share.                                                      *)
LastClient(w, r) ==
  /\ r \in active[w] /\ churn < MaxChurn
  /\ active' = [active EXCEPT ![w] = @ \ {r}]
  /\ stream' = [stream EXCEPT ![r] = {}]
  /\ cursor' = [cursor EXCEPT ![r] = 0]
  /\ lock' = [lock EXCEPT ![r] = None]
  /\ pass' = Lapse(r, WAS)
  /\ churn' = churn + 1
  /\ UNCHANGED <<clock, last, rows, crashes, fails>>

-----------------------------------------------------------------------------
(* persistRoom                                                              *)

(* SET NX EX succeeds; a call that does not get the lock returns.           *)
TakeLock(p, w, r) ==
  /\ pass[p].pc = "idle" /\ r \in active[w]
  /\ lock[r] = None
  /\ lock' = [lock EXCEPT ![r] = w]
  /\ pass' = [pass EXCEPT ![p] = Pass("cursor", w, r, 0, {}, 0, TRUE)]
  /\ UNCHANGED <<clock, stream, last, cursor, rows, active, bounds>>

(* GET the cursor.                                                          *)
ReadCursor(p) ==
  /\ pass[p].pc = "cursor"
  /\ pass' = [pass EXCEPT ![p].pc = "range", ![p].from = cursor[pass[p].room]]
  /\ UNCHANGED <<redisVars, rows, active, bounds>>

(* XRANGE the entries behind it; with none there is nothing to persist.     *)
ReadStream(p) ==
  /\ pass[p].pc = "range"
  /\ LET entries == {id \in stream[pass[p].room] : id > pass[p].from}
     IN  \/ /\ entries = {}
            /\ pass' = [pass EXCEPT ![p].pc = "release"]
         \/ \E top \in entries :
              /\ \A id \in entries : id <= top
              /\ pass' = [pass EXCEPT ![p].pc = "insert", ![p].read = entries, ![p].top = top]
  /\ UNCHANGED <<redisVars, rows, active, bounds>>

(* INSERT IGNORE what was read.                                             *)
Insert(p) ==
  /\ Go(p, "insert", "store")
  /\ InsertRows(pass[p].room, pass[p].read)
  /\ UNCHANGED <<redisVars, active, bounds>>

(* Fault: the cursor is set to the entry after the last one.                *)
StoreCursorAhead(p) ==
  /\ Go(p, "store", "release")
  /\ cursor' = [cursor EXCEPT ![pass[p].room] = pass[p].top + 1]
  /\ UNCHANGED <<clock, stream, last, lock, rows, active, bounds>>

(* SET the cursor to the last entry that was read.                          *)
StoreCursor(p) ==
  /\ Go(p, "store", "release")
  /\ cursor' = [cursor EXCEPT ![pass[p].room] = pass[p].top]
  /\ UNCHANGED <<clock, stream, last, lock, rows, active, bounds>>

(* Fault: DEL whoever owns the lock.                                        *)
ReleaseAnyLock(p) ==
  LET r == pass[p].room
  IN  /\ pass[p].pc = "release"
      /\ lock' = [lock EXCEPT ![r] = None]
      /\ pass' = [Lapse(r, {pass[p].was}) EXCEPT ![p] = Idle]
      /\ UNCHANGED <<clock, stream, last, cursor, rows, active, bounds>>

(* The release script: DEL the lock if this WAS owns it.  It cannot tell a  *)
(* lock this call took from one a later call of the same WAS took.          *)
ReleaseLock(p) ==
  LET r == pass[p].room
      w == pass[p].was
  IN  /\ pass[p].pc = "release"
      /\ \/ /\ lock[r] = w
            /\ lock' = [lock EXCEPT ![r] = None]
            /\ pass' = [Lapse(r, {w}) EXCEPT ![p] = Idle]
         \/ /\ lock[r] # w
            /\ pass' = [pass EXCEPT ![p] = Idle]
            /\ UNCHANGED lock
      /\ UNCHANGED <<clock, stream, last, cursor, rows, active, bounds>>

(* Fault: the error of the insert is swallowed and the cursor moves on.     *)
FailSwallowed(p) ==
  /\ fails < MaxFail
  /\ Go(p, "insert", "store")
  /\ fails' = fails + 1
  /\ UNCHANGED <<redisVars, rows, active, churn, crashes>>

(* A command fails: the pass goes on to the release; a release that fails   *)
(* leaves the lock to its TTL.                                              *)
Fail(p) ==
  /\ fails < MaxFail
  /\ \/ \E from \in {"cursor", "range", "insert", "store"} : Go(p, from, "release")
     \/ /\ pass[p].pc = "release"
        /\ pass' = [pass EXCEPT ![p] = Idle]
  /\ fails' = fails + 1
  /\ UNCHANGED <<redisVars, rows, active, churn, crashes>>

-----------------------------------------------------------------------------
(* Redis and the processes                                                  *)

(* The TTL of the lock runs out; a pass may still be under way.             *)
ExpireLock(r) ==
  /\ lock[r] # None
  /\ lock' = [lock EXCEPT ![r] = None]
  /\ pass' = Lapse(r, WAS)
  /\ UNCHANGED <<clock, stream, last, cursor, rows, active, bounds>>

(* A WAS goes down and comes back with its memory lost.                     *)
Restart(w) ==
  /\ crashes < MaxCrash
  /\ active' = [active EXCEPT ![w] = {}]
  /\ pass' = [p \in Passes |->
                IF pass[p].was = w THEN Idle ELSE pass[p]]
  /\ crashes' = crashes + 1
  /\ UNCHANGED <<redisVars, rows, churn, fails>>

PassStep(p) ==
  \/ ReadCursor(p) \/ ReadStream(p) \/ Insert(p) \/ StoreCursor(p) \/ ReleaseLock(p)

Next ==
  \/ \E w \in WAS, r \in Rooms : Write(w, r) \/ FirstClient(w, r) \/ LastClient(w, r)
  \/ \E p \in Passes, w \in WAS, r \in Rooms : TakeLock(p, w, r)
  \/ \E p \in Passes : PassStep(p) \/ Fail(p)
  \/ \E r \in Rooms : ExpireLock(r)
  \/ \E w \in WAS : Restart(w)

Spec == Init /\ [][Next]_vars

(* The interval of every WAS fires, commands are answered, TTLs run out.    *)
Fairness ==
  /\ \A r \in Rooms : WF_vars(\E p \in Passes, w \in WAS : TakeLock(p, w, r))
  /\ \A p \in Passes : WF_vars(PassStep(p))
  /\ \A r \in Rooms : WF_vars(ExpireLock(r))

FairSpec == Spec /\ Fairness

-----------------------------------------------------------------------------
(* Properties                                                               *)

RedisOK ==
  /\ clock \in Nat
  /\ stream \in [Rooms -> SUBSET Nat]
  /\ last \in [Rooms -> Nat]
  /\ cursor \in [Rooms -> Nat]
  /\ lock \in [Rooms -> WAS \cup {None}]
  /\ \A r \in Rooms : cursor[r] <= last[r] /\ \A id \in stream[r] : id <= last[r]

(* A pass under way, and what it may store as a cursor.                     *)
UnderWay(t) ==
  /\ t.was \in WAS /\ t.room \in Rooms
  /\ t.from <= last[t.room] /\ t.top <= last[t.room]

PassesOK ==
  /\ pass \in [Passes -> [pc : PassPCs, was : WAS \cup {None}, room : Rooms \cup {None},
                          from : Nat, read : SUBSET Nat, top : Nat, holds : BOOLEAN]]
  /\ \A p \in Passes : /\ pass[p].pc # "idle" => UnderWay(pass[p])
                       /\ pass[p].holds => pass[p].pc # "idle"

OthersOK ==
  /\ rows \subseteq Rooms \X Nat
  /\ active \in [WAS -> SUBSET Rooms]
  /\ churn \in 0..MaxChurn /\ crashes \in 0..MaxCrash /\ fails \in 0..MaxFail

(* Every variable has its type; no cursor, and nothing a pass may store as  *)
(* one, is beyond the last entry of its room, and only a pass under way     *)
(* counts on its lock.                                                      *)
TypeOK == RedisOK /\ PassesOK /\ OthersOK

(* The entries of r up to x are in the table.                               *)
SavedUpTo(r, x) == \A id \in stream[r] : id <= x => id \in SavedIds

(* The cursor never passes an entry that is not in the table: whatever the  *)
(* order of overlapping passes, clean-ups, failures and restarts, an entry  *)
(* that no pass will read again is stored (persistRoom stores the rows      *)
(* before the cursor).                                                      *)
SavedUpToCursor == \A r \in Rooms : SavedUpTo(r, cursor[r])

(* The lock protects: as long as the TTL has not run out and the room was   *)
(* not cleaned up, a pass has the lock and no other pass of the room has    *)
(* it; in particular a pass that outlived its lock does not release the     *)
(* lock of another WAS (the compare-and-delete of LUA_RELEASE_LOCK).        *)
LockProtects ==
  \A p \in Passes : pass[p].holds =>
    /\ lock[pass[p].room] = pass[p].was
    /\ \A q \in Passes \ {p} : pass[q].holds => pass[q].room # pass[p].room

(* The strengthening of SavedUpToCursor: what holds between the read of the *)
(* cursor and its update.  Everything up to the cursor a pass has read is   *)
(* stored; everything up to the last entry it has read is stored or about   *)
(* to be, and after the insert it is stored.                                *)
PassCovers(t) ==
  /\ t.pc = "range" => SavedUpTo(t.room, t.from)
  /\ t.pc = "insert" => \A id \in stream[t.room] : id <= t.top => id \in SavedIds \cup t.read
  /\ t.pc = "store" => SavedUpTo(t.room, t.top)
PassesCover == \A p \in Passes : PassCovers(pass[p])

(* What the entity and persistRoom say of a message behind the cursor: it   *)
(* has been stored as a message of its room.                                *)
SavedInItsRoom ==
  \A r \in Rooms : \A id \in stream[r] : id <= cursor[r] => <<r, id>> \in rows

(* A written message comes to the table, unless it is trimmed or deleted    *)
(* before or nobody serves the room: a pass that crashes or fails delays    *)
(* the others only until the TTL of its lock runs out, and a row that is    *)
(* there already does not stop the rest.                                    *)
Deserted(r) == \A w \in WAS : r \notin active[w]
EventuallySaved ==
  \A r \in Rooms : \A id \in 1..((MaxMs + 1) * PerMs) :
    (id \in stream[r]) ~> (<<r, id>> \in rows \/ id \notin stream[r] \/ Deserted(r))
==============================================================================
