----------------------------- MODULE TokenStore -----------------------------
(***************************************************************************)
(* Login tokens: token.Core over tokencache over tokendb. A write goes to  *)
(* the database and then to the cache; a read asks the cache, then the     *)
(* database, and fills the cache with what it read unless something is     *)
(* there by then. The two never meet in one transaction. The cache is any  *)
(* cache that keeps the promise of LossyCache.                             *)
(***************************************************************************)
EXTENDS Integers, FiniteSets

CONSTANTS
  Hashes,     \* SHA-256 hashes of the tokens, the key of row and cache entry
  Users, Owner,  \* Owner[h]: the scope and user a token belongs to
  Procs,      \* requests and jobs
  None,
  Expiries,   \* the expiry times callers ask for, each with its zone
  Second,     \* clock units in a second
  Textual,    \* TRUE: SQLite, which keeps a time as text with its offset and
              \* compares texts; FALSE: PostgreSQL, which keeps the instant
  Life,       \* the oldest entry the cache hands out
  MaxLag,     \* longest one call takes
  MaxTime,    \* bound on the clock
  Ops         \* the operations of this instance

AllOps == {"Valid", "DelayTokenNow", "CreateToken", "UpdateToken",
           "DeleteToken", "DeleteAllForUser", "DeleteExpired", "Expire"}

\* The columns verdicts depend on: when the token expires, and whether Expire
\* has recorded a reason. The zone is how far the wall clock of the expiry's
\* time.Location, read as local time, is ahead of the instant: 0 if it is
\* time.Local, but for the hour that comes twice when summer time ends.
Row == [expiredAt : Int, zone : Int, reason : BOOLEAN]

ASSUME NoneAssumption == None \notin Row \cup Hashes \cup Users
ASSUME OwnerAssumption == Owner \in [Hashes -> Users]
ASSUME TimeAssumption ==
  /\ Expiries \subseteq [at : Nat, zone : Int] /\ Second \in Nat \ {0}
  /\ Textual \in BOOLEAN
  /\ Life \in Nat /\ MaxLag \in Nat /\ MaxTime \in Nat
ASSUME OpsAssumption == Ops \subseteq AllOps

VARIABLES
  db,       \* db[h]: the row with that hash, or None
  cache,    \* the expiring cache of LossyCache,
  written,  \*   and when its entries were put
  now,
  th,       \* th[p]: where p stands in its call
  changed   \* history: when db[h] was last changed

vars == <<db, cache, written, now, th, changed>>

C == INSTANCE LossyCache WITH
  Keys <- Hashes, Values <- Row, Callers <- Procs, clock <- now,
  answer <- [p \in Procs |-> None]

\* A call's local state: the row it carries, the keys it has still to drop
\* from the cache and when it began.
Frame ==
  {f \in [op : AllOps \cup {"none"},
          pc : {"idle", "dbGet", "nxCheck", "nxPut", "judge", "put", "drop"},
          hash : Hashes \cup {None}, row : Row \cup {None},
          todo : SUBSET Hashes, at : Nat] :
     /\ f.pc \notin {"idle", "drop"} => f.hash \in Hashes
     /\ f.pc \in {"nxCheck", "nxPut", "judge", "put"} => f.row \in Row}

Rest == [op |-> "none", pc |-> "idle", hash |-> None, row |-> None,
         todo |-> {}, at |-> 0]

Idle(p, o) == th[p].pc = "idle" /\ o \in Ops
At(p, l) == th[p].pc = l
Begin(p, o, l, h, r, hs) ==
  th' = [th EXCEPT ![p] = [op |-> o, pc |-> l, hash |-> h, row |-> r,
                           todo |-> hs, at |-> now]]
Goto(p, l, r) == th' = [th EXCEPT ![p].pc = l, ![p].row = r]
Return(p) == th' = [th EXCEPT ![p] = Rest]

\* A cached row comes back through JSON: the wall clock of the expiry is
\* written without its zone, in whole seconds, and read as local time.
Wall(r) == r.expiredAt + r.zone
Decoded(r) == [r EXCEPT !.expiredAt = Wall(r) - (Wall(r) % Second), !.zone = 0]

\* A row as the database hands it out: times are local, or keep their offset.
Local(r) == [r EXCEPT !.zone = 0]
Scanned(r) == IF Textual THEN r ELSE Local(r)

\* What the database compares with the clock, which is given in local time.
Compared(r) == IF Textual THEN Wall(r) ELSE r.expiredAt

Init ==
  /\ db = [h \in Hashes |-> None]
  /\ C!Init
  /\ th = [p \in Procs |-> Rest]
  /\ changed = [h \in Hashes |-> 0]

-----------------------------------------------------------------------------
(* Valid, and the read-through Get under it.                               *)

\* Mutant: a hit puts the entry again, which renews its deadline.
ValidRenews(p, h) ==
  /\ Idle(p, "Valid")
  /\ \/ C!Available(h) /\ Begin(p, "Valid", "nxPut", h, Decoded(cache[h]), {})
     \/ Begin(p, "Valid", "dbGet", h, None, {})
  /\ UNCHANGED <<db, cache, written, now, changed>>

Valid(p, h) ==
  /\ Idle(p, "Valid")
  /\ \/ C!Available(h) /\ Begin(p, "Valid", "judge", h, Decoded(cache[h]), {})
     \/ Begin(p, "Valid", "dbGet", h, None, {})
  /\ UNCHANGED <<db, cache, written, now, changed>>

\* Mutant: the error of the database is not looked at.
DbGetUnchecked(p) ==
  /\ At(p, "dbGet")
  /\ Goto(p, "nxCheck", db[th[p].hash])
  /\ UNCHANGED <<db, cache, written, now, changed>>

\* The row is there; or it is not, or the database fails, and Valid refuses.
DbGet(p) ==
  LET h == th[p].hash IN
  /\ At(p, "dbGet")
  /\ \/ db[h] # None /\ Goto(p, "nxCheck", Scanned(db[h]))
     \/ Return(p)
  /\ UNCHANGED <<db, cache, written, now, changed>>

NXCheck(p) ==
  /\ At(p, "nxCheck")
  /\ \/ C!Available(th[p].hash) /\ Goto(p, "judge", th[p].row)
     \/ Goto(p, "nxPut", th[p].row)
  /\ UNCHANGED <<db, cache, written, now, changed>>

NXPut(p) ==
  /\ At(p, "nxPut")
  /\ C!Put(th[p].hash, th[p].row)
  /\ Goto(p, "judge", th[p].row)
  /\ UNCHANGED <<db, changed>>

\* The comparison with the clock: Accepts says how it ends.
Judge(p) ==
  /\ At(p, "judge")
  /\ Return(p)
  /\ UNCHANGED <<db, cache, written, now, changed>>

Accepts(p) == At(p, "judge") /\ th[p].row.expiredAt >= now

-----------------------------------------------------------------------------
(* Writes. The database commits; the cache step follows, unless the call   *)
(* learns of an error although the commit went through.                    *)

Commit(hs, new) ==
  /\ db' = [h \in Hashes |-> IF h \in hs THEN new[h] ELSE db[h]]
  /\ changed' = [h \in Hashes |-> IF h \in hs THEN now ELSE changed[h]]
  /\ UNCHANGED <<cache, written, now>>

\* Row r under h is committed, then set in the cache.
CommitThenSet(p, o, h, r) ==
  /\ Commit({h}, [x \in {h} |-> r])
  /\ Begin(p, o, "put", h, r, {}) \/ UNCHANGED th

CreateToken(p, h, e) ==
  /\ Idle(p, "CreateToken") /\ db[h] = None
  /\ CommitThenSet(p, "CreateToken", h,
                   [expiredAt |-> e.at, zone |-> e.zone, reason |-> FALSE])

Extended(r, e) == [r EXCEPT !.expiredAt = e.at, !.zone = e.zone]

DelayTokenNow(p, h, e) ==
  /\ Idle(p, "DelayTokenNow") /\ db[h] # None
  /\ CommitThenSet(p, "DelayTokenNow", h, Extended(db[h], e))

\* UpdateToken finds the row by id and may give it another hash; the cache
\* learns of the new one.
UpdateToken(p, h, g, e) ==
  /\ Idle(p, "UpdateToken") /\ db[h] # None
  /\ g = h \/ db[g] = None
  /\ LET r == Extended(db[h], e) IN
     /\ Commit({h, g}, [x \in {h, g} |-> IF x = g THEN r ELSE None])
     /\ Begin(p, "UpdateToken", "put", g, r, {}) \/ UNCHANGED th

Put(p) ==
  /\ At(p, "put")
  /\ C!Put(th[p].hash, th[p].row)
  /\ Return(p)
  /\ UNCHANGED <<db, changed>>

\* Rows hs are changed by one statement, which returns their hashes; then
\* their cache entries are deleted one after the other.
CommitThenDrop(p, o, hs, new) ==
  /\ hs # {}
  /\ Commit(hs, new)
  /\ Begin(p, o, "drop", None, None, hs) \/ UNCHANGED th

Stored == {h \in Hashes : db[h] # None}
Gone == [h \in Hashes |-> None]

DeleteToken(p, h) ==
  /\ Idle(p, "DeleteToken")
  /\ CommitThenDrop(p, "DeleteToken", {h} \cap Stored, Gone)

DeleteAllForUser(p, u) ==
  /\ Idle(p, "DeleteAllForUser")
  /\ CommitThenDrop(p, "DeleteAllForUser", {h \in Stored : Owner[h] = u}, Gone)

DeleteExpired(p, before) ==
  /\ Idle(p, "DeleteExpired")
  /\ CommitThenDrop(p, "DeleteExpired",
                    {h \in Stored : Compared(db[h]) < before}, Gone)

\* Expire records the reason and leaves expired_at as it is.
Expire(p, u) ==
  LET hs == {h \in Stored : Owner[h] = u /\ Compared(db[h]) > now} IN
  /\ Idle(p, "Expire")
  /\ CommitThenDrop(p, "Expire", hs,
                    [h \in hs |-> [db[h] EXCEPT !.reason = TRUE]])

\* Mutant: only the first of the returned hashes is dropped.
DropFirst(p) ==
  /\ At(p, "drop")
  /\ \E h \in th[p].todo : C!Drop(h)
  /\ Return(p)
  /\ UNCHANGED <<db, changed>>

Drop(p) ==
  /\ At(p, "drop")
  /\ \E h \in th[p].todo :
       /\ C!Drop(h)
       /\ IF th[p].todo = {h} THEN Return(p)
          ELSE th' = [th EXCEPT ![p].todo = @ \ {h}]
  /\ UNCHANGED <<db, changed>>

-----------------------------------------------------------------------------
\* The cache forgets: expiry, clean-up, a lost race inside it.
Evict(h) ==
  /\ cache[h] # None
  /\ C!Drop(h)
  /\ UNCHANGED <<db, th, changed>>

\* The process dies: the calls and the in-memory cache are gone.
Restart ==
  /\ \E p \in Procs : ~At(p, "idle")
  /\ th' = [p \in Procs |-> Rest]
  /\ cache' = [h \in Hashes |-> None]
  /\ UNCHANGED <<db, written, now, changed>>

Tick ==
  /\ now < MaxTime
  /\ \A p \in Procs : At(p, "idle") \/ now < th[p].at + MaxLag
  /\ C!Advance
  /\ UNCHANGED <<db, th, changed>>

Next ==
  \/ \E p \in Procs :
       \/ \E h \in Hashes :
            \/ Valid(p, h) \/ DeleteToken(p, h)
            \/ \E e \in Expiries :
                 \/ CreateToken(p, h, e) \/ DelayTokenNow(p, h, e)
                 \/ \E g \in Hashes : UpdateToken(p, h, g, e)
       \/ \E u \in Users : DeleteAllForUser(p, u) \/ Expire(p, u)
       \/ DeleteExpired(p, now)
       \/ DbGet(p) \/ NXCheck(p) \/ NXPut(p) \/ Judge(p) \/ Put(p) \/ Drop(p)
  \/ \E h \in Hashes : Evict(h)
  \/ Restart
  \/ Tick

Spec == Init /\ [][Next]_vars

-----------------------------------------------------------------------------
TypeOK ==
  /\ db \in [Hashes -> Row \cup {None}]
  /\ cache \in [Hashes -> Row \cup {None}]
  /\ written \in [Hashes -> Nat]
  /\ now \in Nat
  /\ th \in [Procs -> Frame]
  /\ changed \in [Hashes -> Nat]

\* r is row s, in the zone of s or in local time.
Same(r, s) == s # None /\ r \in {s, Local(s)}

\* What a verdict may make of row s: its expiry, or its expiry off by its zone,
\* cut by less than a second.
Reading(r, s) ==
  /\ s # None /\ r.reason = s.reason
  /\ \E off \in {0, s.zone} :
       /\ r.expiredAt <= s.expiredAt + off
       /\ s.expiredAt + off < r.expiredAt + Second

(* A verdict rests on the row the database holds, or on one it held not    *)
(* long ago: once a row has been left alone for the life of a cache entry  *)
(* and the length of two calls, no verdict contradicts it, whatever was    *)
(* lost, delayed or overtaken while it changed. An expiry in local time is *)
(* judged to the second; one in another zone may come out of the cache off *)
(* by that zone, however long the row has been left alone.                 *)
BoundedStaleness ==
  \A p \in Procs :
    At(p, "judge") =>
      LET h == th[p].hash IN
      \/ Reading(th[p].row, db[h])
      \/ now <= changed[h] + Life + 2 * MaxLag

(* What makes it inductive: no process has waited too long; an entry that  *)
(* disagrees with the row was put within one call of the row's last        *)
(* change; and a call that carries a row which has changed since it got it *)
(* began before the change, or had it from such an entry.                  *)
Timely ==
  /\ \A h \in Hashes : changed[h] <= now /\ written[h] <= now
  /\ \A p \in Procs :
       ~At(p, "idle") => th[p].at <= now /\ now <= th[p].at + MaxLag

EntriesRecent ==
  \A h \in Hashes :
    cache[h] # None /\ ~Same(cache[h], db[h]) => written[h] <= changed[h] + MaxLag

RowRecent(p) ==
  LET h == th[p].hash IN
  /\ th[p].pc \in {"nxCheck", "nxPut", "put"} =>
       Same(th[p].row, db[h]) \/ th[p].at <= changed[h]
  /\ At(p, "judge") =>
       \/ Reading(th[p].row, db[h])
       \/ th[p].at <= changed[h] + Life + MaxLag

StaleInv == Timely /\ EntriesRecent /\ \A p \in Procs : RowRecent(p)

(* A token whose expiry was brought about by Expire, the reason being on   *)
(* record, is not accepted.                                                *)
ExpireRejects == \A p \in Procs : Accepts(p) => ~th[p].row.reason
=============================================================================
