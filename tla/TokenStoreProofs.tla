-------------------------- MODULE TokenStoreProofs --------------------------
(***************************************************************************)
(* Proofs about TokenStore for any number of tokens, users and processes,  *)
(* any times and any life of a cache entry. BoundedStaleness speaks of     *)
(* verdicts only; StaleInv follows the stale row on its way there, from    *)
(* the database through a call into the cache and out of it again.         *)
(* QuietInv is the other half: what holds where calls do not overlap.      *)
(***************************************************************************)
EXTENDS TokenStoreRaces, TLAPS

IInv == TypeOK /\ StaleInv

LEMMA RestIsFrame == Rest \in Frame
  BY DEF Rest, Frame, AllOps

(* Reading a row back, from the cache or from the database, gives a row.   *)
LEMMA DecodedRow == ASSUME NEW r \in Row PROVE Decoded(r) \in Row
<1> DEFINE v == Wall(r) - (Wall(r) % Second)
<1>1. Wall(r) \in Int
  BY DEF Row, Wall
<1>2. v \in Int
  BY <1>1, TimeAssumption
<1>3. Decoded(r) = [r EXCEPT !.expiredAt = v, !.zone = 0]
  BY DEF Decoded
<1> HIDE DEF v
<1>4. 0 \in Int
  OBVIOUS
<1>5. [r EXCEPT !.expiredAt = v, !.zone = 0] \in Row
  BY <1>2, <1>4, ZenonT(40) DEF Row
<1> QED
  BY <1>3, <1>5

LEMMA ScannedRow == ASSUME NEW r \in Row PROVE Scanned(r) \in Row
  BY DEF Scanned, Local, Row

LEMMA ScannedSame ==
  ASSUME NEW r, r # None
  PROVE  Same(Scanned(r), r)
  BY DEF Same, Scanned

(* A copy of a row, and what JSON makes of that copy, is a reading of it.  *)
LEMMA CopyReads ==
  ASSUME NEW r \in Row, NEW s \in Row, Same(r, s)
  PROVE  Reading(r, s)
<1>1. r.reason = s.reason /\ r.expiredAt = s.expiredAt
  BY DEF Same, Local, Row
<1>2. /\ r.expiredAt <= s.expiredAt + 0
      /\ s.expiredAt + 0 < r.expiredAt + Second
  BY <1>1, TimeAssumption DEF Row
<1>3. s # None
  BY NoneAssumption
<1> QED
  BY <1>1, <1>2, <1>3 DEF Reading

LEMMA DecodedReads ==
  ASSUME NEW r \in Row, NEW s \in Row, Same(r, s)
  PROVE  Reading(Decoded(r), s)
<1> DEFINE w == r.expiredAt + r.zone
<1>1. r.reason = s.reason /\ r.expiredAt = s.expiredAt /\ r.zone \in {0, s.zone}
  BY DEF Same, Local, Row
<1>2. w \in Int /\ r.zone \in Int /\ s.expiredAt \in Int
  BY <1>1 DEF Row
<1>3. w % Second \in 0 .. Second - 1
  BY <1>2, TimeAssumption
<1>4. Decoded(r).expiredAt = w - (w % Second) /\ Decoded(r).reason = r.reason
  BY DEF Decoded, Wall, Row
<1>5. w = s.expiredAt + r.zone
  BY <1>1
<1> HIDE DEF w
<1>6. /\ Decoded(r).expiredAt <= s.expiredAt + r.zone
      /\ s.expiredAt + r.zone < Decoded(r).expiredAt + Second
  BY <1>2, <1>3, <1>4, <1>5, TimeAssumption
<1>7. s # None
  BY NoneAssumption
<1> QED
  BY <1>1, <1>4, <1>6, <1>7 DEF Reading

LEMMA InitInv == Init => IInv
<1> SUFFICES ASSUME Init PROVE IInv
  OBVIOUS
<1> USE DEF Init, C!Init
<1>1. TypeOK
  BY RestIsFrame DEF TypeOK
<1>2. StaleInv
  BY TimeAssumption DEF StaleInv, Timely, EntriesRecent, RowRecent, At, Rest
<1> QED
  BY <1>1, <1>2 DEF IInv

-----------------------------------------------------------------------------
(* Types. A Begin, a Goto and a Return leave frames behind.                *)

LEMMA BeginTypes ==
  ASSUME TypeOK, NEW p \in Procs, NEW o \in AllOps,
         NEW l \in {"dbGet", "judge", "put", "drop"},
         NEW h \in Hashes \cup {None}, NEW r \in Row \cup {None},
         NEW hs \in SUBSET Hashes,
         l # "drop" => h \in Hashes,
         l \in {"judge", "put"} => r \in Row,
         Begin(p, o, l, h, r, hs)
  PROVE  th' \in [Procs -> Frame]
<1>1. [op |-> o, pc |-> l, hash |-> h, row |-> r, todo |-> hs, at |-> now]
        \in Frame
  BY DEF Frame, TypeOK
<1> QED
  BY <1>1 DEF Begin, TypeOK

LEMMA GotoTypes ==
  ASSUME TypeOK, NEW p \in Procs, NEW l \in {"nxCheck", "nxPut", "judge"},
         NEW r \in Row, th[p].hash \in Hashes, Goto(p, l, r)
  PROVE  th' \in [Procs -> Frame]
<1>1. [th[p] EXCEPT !.pc = l, !.row = r] \in Frame
  BY ZenonT(40) DEF Frame, TypeOK
<1>2. th' = [th EXCEPT ![p] = [th[p] EXCEPT !.pc = l, !.row = r]]
  BY DEF Goto, TypeOK, Frame
<1> QED
  BY <1>1, <1>2 DEF TypeOK

LEMMA ReturnTypes ==
  ASSUME TypeOK, NEW p \in Procs, Return(p)
  PROVE  th' \in [Procs -> Frame]
  BY RestIsFrame DEF Return, TypeOK

LEMMA CommitTypes ==
  ASSUME TypeOK, NEW hs \in SUBSET Hashes, NEW new,
         \A h \in hs : new[h] \in Row \cup {None}, Commit(hs, new),
         th' \in [Procs -> Frame]
  PROVE  TypeOK'
  BY DEF Commit, TypeOK

LEMMA PutTypes ==
  ASSUME TypeOK, NEW h \in Hashes, NEW r \in Row, C!Put(h, r),
         UNCHANGED <<db, changed>>, th' \in [Procs -> Frame]
  PROVE  TypeOK'
  BY DEF C!Put, TypeOK

LEMMA DropTypes ==
  ASSUME TypeOK, NEW h \in Hashes, C!Drop(h),
         UNCHANGED <<db, changed>>, th' \in [Procs -> Frame]
  PROVE  TypeOK'
  BY DEF C!Drop, TypeOK

LEMMA ThreadTypes ==
  ASSUME TypeOK, UNCHANGED <<db, cache, written, now, changed>>,
         th' \in [Procs -> Frame]
  PROVE  TypeOK'
  BY DEF TypeOK


LEMMA FrameFacts ==
  ASSUME TypeOK, NEW p \in Procs
  PROVE  /\ th[p].at \in Nat /\ th[p].todo \subseteq Hashes
         /\ th[p].pc \in {"dbGet", "nxCheck", "nxPut", "judge", "put"}
              => th[p].hash \in Hashes
         /\ th[p].pc \in {"nxCheck", "nxPut", "judge", "put"}
              => th[p].row \in Row
  BY DEF TypeOK, Frame

LEMMA RowFacts ==
  ASSUME TypeOK, NEW h \in Hashes
  PROVE  /\ db[h] # None => db[h] \in Row
         /\ cache[h] # None => cache[h] \in Row
  BY NoneAssumption DEF TypeOK

(* The rows a bulk statement or an update leaves behind are rows.          *)
LEMMA NewRow ==
  ASSUME NEW r \in Row, NEW e \in Expiries
  PROVE  /\ [expiredAt |-> e.at, zone |-> e.zone, reason |-> FALSE] \in Row
         /\ Extended(r, e) \in Row
         /\ [r EXCEPT !.reason = TRUE] \in Row
<1>1. e.at \in Int /\ e.zone \in Int
  BY TimeAssumption
<1> QED
  BY <1>1 DEF Row, Extended

LEMMA NextTypes == TypeOK /\ [Next]_vars => TypeOK'
<1> SUFFICES ASSUME TypeOK, [Next]_vars PROVE TypeOK'
  OBVIOUS
<1> USE NoneAssumption
<1>1. ASSUME NEW p \in Procs, NEW h \in Hashes, Valid(p, h) PROVE TypeOK'
  <2>1. CASE C!Available(h) /\ Begin(p, "Valid", "judge", h, Decoded(cache[h]), {})
    <3>1. Decoded(cache[h]) \in Row
      BY <2>1, RowFacts, DecodedRow DEF C!Available
    <3>2. th' \in [Procs -> Frame]
      BY <2>1, <3>1, BeginTypes DEF AllOps
    <3> QED
      BY <1>1, <3>2, ThreadTypes DEF Valid
  <2>2. CASE Begin(p, "Valid", "dbGet", h, None, {})
    <3>1. th' \in [Procs -> Frame]
      BY <2>2, BeginTypes DEF AllOps
    <3> QED
      BY <1>1, <3>1, ThreadTypes DEF Valid
  <2> QED
    BY <1>1, <2>1, <2>2 DEF Valid
<1>2. ASSUME NEW p \in Procs, DbGet(p) PROVE TypeOK'
  <2>1. th[p].hash \in Hashes
    BY <1>2, FrameFacts DEF DbGet, At
  <2>2. CASE /\ db[th[p].hash] # None
             /\ Goto(p, "nxCheck", Scanned(db[th[p].hash]))
    <3>1. Scanned(db[th[p].hash]) \in Row
      BY <2>1, <2>2, RowFacts, ScannedRow
    <3>2. th' \in [Procs -> Frame]
      BY <2>1, <2>2, <3>1, GotoTypes
    <3> QED
      BY <1>2, <3>2, ThreadTypes DEF DbGet
  <2>3. CASE Return(p)
    BY <1>2, <2>3, ReturnTypes, ThreadTypes DEF DbGet
  <2> QED
    BY <1>2, <2>2, <2>3 DEF DbGet
<1>3. ASSUME NEW p \in Procs, NXCheck(p) PROVE TypeOK'
  <2>1. th[p].hash \in Hashes /\ th[p].row \in Row
    BY <1>3, FrameFacts DEF NXCheck, At
  <2>2. Goto(p, "judge", th[p].row) \/ Goto(p, "nxPut", th[p].row)
    BY <1>3 DEF NXCheck
  <2>3. th' \in [Procs -> Frame]
    BY <2>1, <2>2, GotoTypes
  <2> QED
    BY <1>3, <2>3, ThreadTypes DEF NXCheck
<1>4. ASSUME NEW p \in Procs, NXPut(p) PROVE TypeOK'
  <2>1. th[p].hash \in Hashes /\ th[p].row \in Row
    BY <1>4, FrameFacts DEF NXPut, At
  <2>2. th' \in [Procs -> Frame]
    BY <1>4, <2>1, GotoTypes DEF NXPut
  <2> QED
    BY <1>4, <2>1, <2>2, PutTypes DEF NXPut
<1>5. ASSUME NEW p \in Procs, Judge(p) PROVE TypeOK'
  BY <1>5, ReturnTypes, ThreadTypes DEF Judge
<1>6. ASSUME NEW p \in Procs, Put(p) PROVE TypeOK'
  <2>1. th[p].hash \in Hashes /\ th[p].row \in Row
    BY <1>6, FrameFacts DEF Put, At
  <2> QED
    BY <1>6, <2>1, ReturnTypes, PutTypes DEF Put
<1>7. ASSUME NEW p \in Procs, NEW o \in AllOps, NEW h \in Hashes, NEW r \in Row,
             CommitThenSet(p, o, h, r)
      PROVE  TypeOK'
  <2>1. th' \in [Procs -> Frame]
    <3>1. CASE Begin(p, o, "put", h, r, {})
      BY <3>1, BeginTypes
    <3>2. CASE UNCHANGED th
      BY <3>2 DEF TypeOK
    <3> QED
      BY <1>7, <3>1, <3>2 DEF CommitThenSet
  <2> QED
    BY <1>7, <2>1, CommitTypes DEF CommitThenSet
<1>8. ASSUME NEW p \in Procs, NEW h \in Hashes, NEW g \in Hashes,
             NEW e \in Expiries, UpdateToken(p, h, g, e)
      PROVE  TypeOK'
  <2> DEFINE r == Extended(db[h], e)
             new == [x \in {h, g} |-> IF x = g THEN r ELSE None]
  <2>1. r \in Row
    BY <1>8, RowFacts, NewRow DEF UpdateToken
  <2>2. \A x \in {h, g} : new[x] \in Row \cup {None}
    BY <2>1
  <2>3. Commit({h, g}, new) /\ (Begin(p, "UpdateToken", "put", g, r, {}) \/ UNCHANGED th)
    BY <1>8 DEF UpdateToken
  <2>4. th' \in [Procs -> Frame]
    <3>1. CASE Begin(p, "UpdateToken", "put", g, r, {})
      BY <2>1, <3>1, BeginTypes DEF AllOps
    <3>2. CASE UNCHANGED th
      BY <3>2 DEF TypeOK
    <3> QED
      BY <2>3, <3>1, <3>2
  <2> HIDE DEF new
  <2> QED
    BY <2>2, <2>3, <2>4, CommitTypes
<1>9. ASSUME NEW p \in Procs, NEW o \in AllOps, NEW hs \in SUBSET Hashes, NEW new,
             \A h \in hs : new[h] \in Row \cup {None},
             CommitThenDrop(p, o, hs, new)
      PROVE  TypeOK'
  <2>1. th' \in [Procs -> Frame]
    <3>1. CASE Begin(p, o, "drop", None, None, hs)
      BY <3>1, BeginTypes
    <3>2. CASE UNCHANGED th
      BY <3>2 DEF TypeOK
    <3> QED
      BY <1>9, <3>1, <3>2 DEF CommitThenDrop
  <2> QED
    BY <1>9, <2>1, CommitTypes DEF CommitThenDrop
<1>10. ASSUME NEW p \in Procs, NEW h \in Hashes, NEW e \in Expiries,
              CreateToken(p, h, e) \/ DelayTokenNow(p, h, e)
       PROVE  TypeOK'
  <2>1. CASE CreateToken(p, h, e)
    <3>1. [expiredAt |-> e.at, zone |-> e.zone, reason |-> FALSE] \in Row /\ "CreateToken" \in AllOps
      BY TimeAssumption DEF Row, AllOps
    <3> QED
      BY <1>7, <2>1, <3>1 DEF CreateToken
  <2>2. CASE DelayTokenNow(p, h, e)
    <3>1. db[h] \in Row
      BY <2>2, RowFacts DEF DelayTokenNow
    <3>2. Extended(db[h], e) \in Row /\ "DelayTokenNow" \in AllOps
      BY <3>1, NewRow DEF AllOps
    <3> QED
      BY <1>7, <2>2, <3>2 DEF DelayTokenNow
  <2> QED
    BY <1>10, <2>1, <2>2
<1>11. ASSUME NEW p \in Procs, NEW h \in Hashes, DeleteToken(p, h) PROVE TypeOK'
  BY <1>9, <1>11 DEF DeleteToken, Gone, Stored, AllOps
<1>12. ASSUME NEW p \in Procs, NEW u \in Users, DeleteAllForUser(p, u)
       PROVE  TypeOK'
  BY <1>9, <1>12 DEF DeleteAllForUser, Gone, Stored, AllOps
<1>13. ASSUME NEW p \in Procs, DeleteExpired(p, now) PROVE TypeOK'
  BY <1>9, <1>13 DEF DeleteExpired, Gone, Stored, AllOps
<1>14. ASSUME NEW p \in Procs, NEW u \in Users, Expire(p, u) PROVE TypeOK'
  <2> DEFINE hs == {h \in Stored : Owner[h] = u /\ Compared(db[h]) > now}
             new == [h \in hs |-> [db[h] EXCEPT !.reason = TRUE]]
  <2>1. hs \subseteq Hashes /\ \A h \in hs : db[h] \in Row
    BY RowFacts DEF Stored
  <2>2. \A h \in hs : new[h] \in Row \cup {None}
    BY <2>1 DEF Row
  <2>3. CommitThenDrop(p, "Expire", hs, new)
    BY <1>14 DEF Expire
  <2> HIDE DEF hs, new
  <2> QED
    BY <1>9, <2>1, <2>2, <2>3 DEF AllOps
<1>15. ASSUME NEW p \in Procs, Drop(p) PROVE TypeOK'
  <2>1. PICK h \in th[p].todo :
          /\ C!Drop(h)
          /\ IF th[p].todo = {h} THEN Return(p)
             ELSE th' = [th EXCEPT ![p].todo = @ \ {h}]
    BY <1>15 DEF Drop
  <2>2. h \in Hashes
    BY <2>1, FrameFacts
  <2>3. [th[p] EXCEPT !.todo = th[p].todo \ {h}] \in Frame
    BY DEF TypeOK, Frame
  <2>4. th' \in [Procs -> Frame]
    <3>1. CASE Return(p)
      BY <3>1, ReturnTypes
    <3>2. CASE th' = [th EXCEPT ![p].todo = @ \ {h}]
      BY <3>2, <2>3 DEF TypeOK
    <3> QED
      BY <2>1, <3>1, <3>2
  <2> QED
    BY <1>15, <2>1, <2>2, <2>4, DropTypes DEF Drop
<1>16. ASSUME NEW h \in Hashes, Evict(h) PROVE TypeOK'
  BY <1>16, DropTypes DEF Evict, TypeOK
<1>17. CASE Restart
  BY <1>17, RestIsFrame DEF Restart, TypeOK
<1>18. CASE Tick
  BY <1>18 DEF Tick, C!Advance, TypeOK
<1>19. CASE UNCHANGED vars
  BY <1>19 DEF vars, TypeOK
<1> QED
  BY <1>1, <1>2, <1>3, <1>4, <1>5, <1>6, <1>8, <1>10, <1>11, <1>12, <1>13,
     <1>14, <1>15, <1>16, <1>17, <1>18, <1>19 DEF Next

-----------------------------------------------------------------------------
(* Staleness, one lemma per kind of step. Process p is where it is; the    *)
(* others stand still.                                                     *)

OthersStill(p) == \A q \in Procs \ {p} : th'[q] = th[q]

LEMMA Still ==
  ASSUME TypeOK, NEW p \in Procs, NEW o, NEW l, NEW h, NEW r, NEW hs,
         Begin(p, o, l, h, r, hs) \/ Goto(p, l, r) \/ Return(p) \/ UNCHANGED th
  PROVE  OthersStill(p)
  BY DEF TypeOK, Begin, Goto, Return, OthersStill

LEMMA ReturnStill ==
  ASSUME TypeOK, NEW p \in Procs, Return(p)
  PROVE  OthersStill(p) /\ th'[p].pc = "idle" /\ RowRecent(p)'
  BY DEF TypeOK, Return, OthersStill, Rest, RowRecent, At

(* A call that only reads: it must have found a recent row.                *)
LEMMA ThreadStale ==
  ASSUME IInv, NEW p \in Procs, OthersStill(p),
         UNCHANGED <<db, cache, written, now, changed>>,
         \/ th'[p].pc = "idle"
         \/ th'[p].at = th[p].at /\ th[p].pc # "idle"
         \/ th'[p].at = now,
         RowRecent(p)'
  PROVE  StaleInv'
<1>1. Timely'
  BY TimeAssumption
  DEF IInv, StaleInv, Timely, OthersStill, At, TypeOK
<1>2. EntriesRecent'
  BY DEF IInv, StaleInv, EntriesRecent
<1>3. \A q \in Procs : RowRecent(q)'
  BY DEF IInv, StaleInv, RowRecent, OthersStill, At
<1> QED
  BY <1>1, <1>2, <1>3 DEF StaleInv

(* A commit makes every other call that carries one of its rows a call     *)
(* from before the change.                                                 *)
LEMMA CommitStale ==
  ASSUME IInv, NEW p \in Procs, OthersStill(p),
         NEW hs \in SUBSET Hashes, NEW new, Commit(hs, new),
         th[p].pc = "idle",
         th'[p] = th[p] \/ (th'[p].at = now /\ RowRecent(p)')
  PROVE  StaleInv'
<1> USE DEF IInv, StaleInv, TypeOK, Commit
<1>1. Timely'
  BY TimeAssumption DEF Timely, OthersStill, At
<1>2. EntriesRecent'
  BY TimeAssumption DEF EntriesRecent, Timely
<1>3. ASSUME NEW q \in Procs \ {p} PROVE RowRecent(q)'
  <2>1. CASE th[q].pc \notin {"nxCheck", "nxPut", "put", "judge"}
    BY <2>1 DEF RowRecent, OthersStill, At
  <2>2. CASE th[q].pc \in {"nxCheck", "nxPut", "put", "judge"}
    <3>1. th[q].hash \in Hashes /\ th[q].at \in Nat /\ th[q].at <= now
      BY <2>2, FrameFacts DEF Timely, At
    <3>2. CASE th[q].hash \in hs
      <4>1. changed'[th[q].hash] = now
        BY <3>1, <3>2
      <4>2. th'[q] = th[q]
        BY DEF OthersStill
      <4>3. th[q].at <= now /\ th[q].at <= now + Life + MaxLag
        BY <3>1, TimeAssumption
      <4> QED
        BY <4>1, <4>2, <4>3, Zenon DEF RowRecent, At
    <3>3. CASE th[q].hash \notin hs
      <4>1. db'[th[q].hash] = db[th[q].hash]
            /\ changed'[th[q].hash] = changed[th[q].hash]
        BY <3>1, <3>3
      <4>2. RowRecent(q)
        OBVIOUS
      <4> QED
        BY <4>1, <4>2 DEF RowRecent, OthersStill, At
    <3> QED
      BY <3>2, <3>3
  <2> QED
    BY <2>1, <2>2
<1>4. RowRecent(p)'
  BY DEF RowRecent, At
<1> QED
  BY <1>1, <1>2, <1>3, <1>4

(* A call that puts the row it carries into the cache.                     *)
LEMMA PutStale ==
  ASSUME IInv, NEW p \in Procs, OthersStill(p),
         th[p].pc \in {"nxPut", "put"}, C!Put(th[p].hash, th[p].row),
         UNCHANGED <<db, changed>>,
         \/ th'[p].pc = "idle"
         \/ /\ th'[p].pc = "judge" /\ th'[p].at = th[p].at
            /\ th'[p].hash = th[p].hash /\ th'[p].row = th[p].row
  PROVE  StaleInv'
<1> USE DEF IInv, StaleInv, C!Put
<1>0. th[p].hash \in Hashes /\ th[p].row \in Row /\ th[p].at \in Nat
  BY FrameFacts
<1>1. Timely'
  BY <1>0 DEF Timely, OthersStill, At, TypeOK
<1>2. EntriesRecent'
  <2>1. Same(th[p].row, db[th[p].hash]) \/ th[p].at <= changed[th[p].hash]
    BY DEF RowRecent
  <2>2. now <= th[p].at + MaxLag
    BY DEF Timely, At
  <2> QED
    BY <1>0, <2>1, <2>2, TimeAssumption DEF EntriesRecent, TypeOK
<1>3. ASSUME NEW q \in Procs \ {p} PROVE RowRecent(q)'
  BY DEF RowRecent, OthersStill, At
<1>4. RowRecent(p)'
  <2>1. Same(th[p].row, db[th[p].hash]) \/ th[p].at <= changed[th[p].hash]
    BY DEF RowRecent
  <2>2. Same(th[p].row, db[th[p].hash]) => Reading(th[p].row, db[th[p].hash])
    BY <1>0, RowFacts, CopyReads DEF Same
  <2>3. th[p].at <= changed[th[p].hash]
          => th[p].at <= changed[th[p].hash] + Life + MaxLag
    BY <1>0, TimeAssumption DEF TypeOK
  <2>4. CASE th'[p].pc = "idle"
    BY <2>4 DEF RowRecent, At
  <2>5. CASE th'[p].pc = "judge" /\ th'[p].at = th[p].at
             /\ th'[p].hash = th[p].hash /\ th'[p].row = th[p].row
    BY <2>1, <2>2, <2>3, <2>5 DEF RowRecent, At
  <2> QED
    BY <2>4, <2>5
<1> QED
  BY <1>1, <1>2, <1>3, <1>4

(* An entry goes; no call learns anything.                                 *)
LEMMA DropStale ==
  ASSUME IInv, NEW h \in Hashes, C!Drop(h), UNCHANGED <<db, changed>>,
         NEW p \in Procs, OthersStill(p),
         \/ th'[p] = th[p]
         \/ th'[p].pc = "idle"
         \/ th[p].pc = "drop" /\ th'[p].pc = "drop" /\ th'[p].at = th[p].at
  PROVE  StaleInv'
<1> USE DEF IInv, StaleInv, C!Drop, OthersStill
<1>1. Timely'
  BY DEF Timely, At, TypeOK
<1>2. EntriesRecent'
  BY DEF EntriesRecent, TypeOK
<1>3. \A q \in Procs : RowRecent(q)'
  BY DEF RowRecent, At
<1> QED
  BY <1>1, <1>2, <1>3

LEMMA NextStale == IInv /\ [Next]_vars => StaleInv'
<1> SUFFICES ASSUME IInv, [Next]_vars PROVE StaleInv'
  OBVIOUS
<1>0. TypeOK /\ StaleInv
  BY DEF IInv
<1>1. ASSUME NEW p \in Procs, NEW h \in Hashes, Valid(p, h) PROVE StaleInv'
  <2>1. /\ OthersStill(p) /\ UNCHANGED <<db, cache, written, now, changed>>
        /\ th'[p].at = now
    <3>1. PICK l, r : Begin(p, "Valid", l, h, r, {})
      BY <1>1 DEF Valid
    <3>2. OthersStill(p)
      BY <1>0, <3>1, Still
    <3>3. th'[p].at = now
      BY <1>0, <3>1 DEF Begin, TypeOK
    <3> QED
      BY <1>1, <3>2, <3>3 DEF Valid
  <2>2. RowRecent(p)'
    <3>1. CASE C!Available(h) /\ Begin(p, "Valid", "judge", h, Decoded(cache[h]), {})
      <4>1. th'[p].hash = h /\ th'[p].row = Decoded(cache[h]) /\ th'[p].pc = "judge"
        BY <1>0, <3>1 DEF Begin, TypeOK
      <4>2. cache[h] # None /\ now <= written[h] + Life
        BY <3>1 DEF C!Available
      <4>3. CASE Same(cache[h], db[h])
        <5>1. cache[h] \in Row /\ db[h] \in Row
          BY <1>0, <4>2, <4>3, RowFacts DEF Same
        <5>2. Reading(Decoded(cache[h]), db[h])
          BY <4>3, <5>1, DecodedReads
        <5> QED
          BY <2>1, <4>1, <5>2 DEF RowRecent, At
      <4>4. CASE ~Same(cache[h], db[h])
        <5>1. written[h] <= changed[h] + MaxLag
          BY <1>0, <4>2, <4>4 DEF StaleInv, EntriesRecent
        <5>2. now <= changed[h] + Life + MaxLag
          BY <1>0, <4>2, <5>1, TimeAssumption DEF TypeOK
        <5> QED
          BY <2>1, <4>1, <5>2 DEF RowRecent, At
      <4> QED
        BY <4>3, <4>4
    <3>2. CASE Begin(p, "Valid", "dbGet", h, None, {})
      BY <1>0, <3>2 DEF Begin, RowRecent, At, TypeOK
    <3> QED
      BY <1>1, <3>1, <3>2 DEF Valid
  <2> QED
    BY <2>1, <2>2, ThreadStale
<1>2. ASSUME NEW p \in Procs, DbGet(p) PROVE StaleInv'
  <2>1. UNCHANGED <<db, cache, written, now, changed>>
    BY <1>2 DEF DbGet
  <2>2. CASE /\ db[th[p].hash] # None
             /\ Goto(p, "nxCheck", Scanned(db[th[p].hash]))
    <3>1. /\ th'[p].pc = "nxCheck" /\ th'[p].row = Scanned(db[th[p].hash])
          /\ th'[p].hash = th[p].hash /\ th'[p].at = th[p].at /\ th[p].pc = "dbGet"
      BY <1>0, <1>2, <2>2 DEF Goto, DbGet, At, TypeOK, Frame
    <3>2. RowRecent(p)'
      BY <2>1, <2>2, <3>1, ScannedSame DEF RowRecent, At
    <3> QED
      BY <1>0, <2>1, <2>2, <3>1, <3>2, Still, ThreadStale
  <2>3. CASE Return(p)
    <3>1. OthersStill(p) /\ th'[p].pc = "idle" /\ RowRecent(p)'
      BY <1>0, <2>3, ReturnStill
    <3> QED
      BY <2>1, <3>1, ThreadStale
  <2> QED
    BY <1>2, <2>2, <2>3 DEF DbGet
<1>3. ASSUME NEW p \in Procs, NXCheck(p) PROVE StaleInv'
  <2>1. UNCHANGED <<db, cache, written, now, changed>> /\ th[p].pc = "nxCheck"
    BY <1>3 DEF NXCheck, At
  <2>2. PICK l \in {"judge", "nxPut"} : Goto(p, l, th[p].row)
    BY <1>3 DEF NXCheck
  <2>3. /\ th'[p].pc = l /\ th'[p].row = th[p].row
        /\ th'[p].hash = th[p].hash /\ th'[p].at = th[p].at
    BY <1>0, <2>2 DEF Goto, TypeOK, Frame
  <2>4. th[p].hash \in Hashes /\ th[p].row \in Row /\ th[p].at \in Nat
    BY <1>0, <2>1, FrameFacts
  <2>5. Same(th[p].row, db[th[p].hash]) \/ th[p].at <= changed[th[p].hash]
    BY <1>0, <2>1 DEF StaleInv, RowRecent
  <2>6. Same(th[p].row, db[th[p].hash]) => Reading(th[p].row, db[th[p].hash])
    BY <1>0, <2>4, RowFacts, CopyReads DEF Same
  <2>7. changed[th[p].hash] \in Nat
    BY <1>0, <2>4 DEF TypeOK
  <2>8. th[p].at <= changed[th[p].hash]
          => th[p].at <= changed[th[p].hash] + Life + MaxLag
    BY <2>4, <2>7, TimeAssumption
  <2>9. RowRecent(p)'
    BY <2>1, <2>3, <2>5, <2>6, <2>8, Zenon DEF RowRecent, At
  <2> QED
    BY <1>0, <2>1, <2>2, <2>3, <2>9, Still, ThreadStale
<1>4. ASSUME NEW p \in Procs, NXPut(p) PROVE StaleInv'
  <2>1. /\ th[p].pc = "nxPut" /\ C!Put(th[p].hash, th[p].row)
        /\ Goto(p, "judge", th[p].row) /\ UNCHANGED <<db, changed>>
    BY <1>4 DEF NXPut, At
  <2>2. /\ th'[p].pc = "judge" /\ th'[p].row = th[p].row
        /\ th'[p].hash = th[p].hash /\ th'[p].at = th[p].at
    BY <1>0, <2>1 DEF Goto, TypeOK, Frame
  <2> QED
    BY <1>0, <2>1, <2>2, Still, PutStale
<1>5. ASSUME NEW p \in Procs, Judge(p) PROVE StaleInv'
  <2>1. OthersStill(p) /\ th'[p].pc = "idle" /\ RowRecent(p)'
    BY <1>0, <1>5, ReturnStill DEF Judge
  <2>2. UNCHANGED <<db, cache, written, now, changed>>
    BY <1>5 DEF Judge
  <2> QED
    BY <2>1, <2>2, ThreadStale
<1>6. ASSUME NEW p \in Procs, Put(p) PROVE StaleInv'
  <2>1. /\ th[p].pc = "put" /\ C!Put(th[p].hash, th[p].row)
        /\ Return(p) /\ UNCHANGED <<db, changed>>
    BY <1>6 DEF Put, At
  <2>2. th'[p].pc = "idle"
    BY <1>0, <2>1 DEF Return, Rest, TypeOK
  <2> QED
    BY <1>0, <2>1, <2>2, Still, PutStale
\* A writer's own row is the one it has just committed, or it carries none.
<1>7. ASSUME NEW p \in Procs, NEW o, NEW h \in Hashes, NEW r \in Row,
             NEW hs \in SUBSET Hashes, NEW new, h \in hs, new[h] = r,
             th[p].pc = "idle", Commit(hs, new),
             Begin(p, o, "put", h, r, {}) \/ UNCHANGED th
      PROVE  StaleInv'
  <2>1. OthersStill(p)
    BY <1>0, <1>7, Still
  <2>2. CASE Begin(p, o, "put", h, r, {})
    <3>1. /\ th'[p].at = now /\ th'[p].pc = "put"
          /\ th'[p].hash = h /\ th'[p].row = r
      BY <1>0, <2>2 DEF Begin, TypeOK
    <3>2. Same(r, db'[h])
      BY <1>7, NoneAssumption DEF Commit, Same
    <3>3. RowRecent(p)'
      BY <3>1, <3>2 DEF RowRecent, At
    <3> QED
      BY <1>7, <2>1, <3>1, <3>3, CommitStale
  <2>3. CASE UNCHANGED th
    BY <1>7, <2>1, <2>3, CommitStale
  <2> QED
    BY <1>7, <2>2, <2>3
<1>8. ASSUME NEW p \in Procs, NEW o, NEW hs \in SUBSET Hashes, NEW new,
             th[p].pc = "idle", CommitThenDrop(p, o, hs, new)
      PROVE  StaleInv'
  <2>1. CASE Begin(p, o, "drop", None, None, hs)
    <3>1. th'[p].at = now /\ RowRecent(p)'
      BY <1>0, <2>1 DEF Begin, TypeOK, RowRecent, At
    <3> QED
      BY <1>0, <1>8, <2>1, <3>1, Still, CommitStale DEF CommitThenDrop
  <2>2. CASE UNCHANGED th
    BY <1>0, <1>8, <2>2, Still, CommitStale DEF CommitThenDrop
  <2> QED
    BY <1>8, <2>1, <2>2 DEF CommitThenDrop
<1>9. ASSUME NEW p \in Procs, NEW h \in Hashes, NEW e \in Expiries,
             CreateToken(p, h, e) \/ DelayTokenNow(p, h, e)
      PROVE  StaleInv'
  <2>1. PICK o \in AllOps, r \in Row : CommitThenSet(p, o, h, r)
    <3>1. CASE CreateToken(p, h, e)
      <4>1. [expiredAt |-> e.at, zone |-> e.zone, reason |-> FALSE] \in Row
        BY TimeAssumption DEF Row
      <4>2. CommitThenSet(p, "CreateToken", h, [expiredAt |-> e.at, zone |-> e.zone, reason |-> FALSE])
        BY <3>1 DEF CreateToken
      <4> QED
        BY <4>1, <4>2 DEF AllOps
    <3>2. CASE DelayTokenNow(p, h, e)
      <4>1. Extended(db[h], e) \in Row
        BY <1>0, <3>2, RowFacts, NewRow DEF DelayTokenNow
      <4>2. CommitThenSet(p, "DelayTokenNow", h, Extended(db[h], e))
        BY <3>2 DEF DelayTokenNow
      <4> QED
        BY <4>1, <4>2 DEF AllOps
    <3> QED
      BY <1>9, <3>1, <3>2
  <2> DEFINE new == [x \in {h} |-> r]
  <2>2. /\ new[h] = r /\ th[p].pc = "idle" /\ Commit({h}, new)
        /\ Begin(p, o, "put", h, r, {}) \/ UNCHANGED th
    BY <1>9, <2>1 DEF CommitThenSet, CreateToken, DelayTokenNow, Idle
  <2> HIDE DEF new
  <2> QED
    BY <1>7, <2>2
<1>10. ASSUME NEW p \in Procs, NEW h \in Hashes, NEW g \in Hashes,
              NEW e \in Expiries, UpdateToken(p, h, g, e)
       PROVE  StaleInv'
  <2> DEFINE r == Extended(db[h], e)
             new == [x \in {h, g} |-> IF x = g THEN r ELSE None]
  <2>1. r \in Row
    BY <1>0, <1>10, RowFacts, NewRow DEF UpdateToken
  <2>2. /\ new[g] = r /\ th[p].pc = "idle" /\ Commit({h, g}, new)
        /\ Begin(p, "UpdateToken", "put", g, r, {}) \/ UNCHANGED th
    BY <1>10 DEF UpdateToken, Idle
  <2> HIDE DEF new, r
  <2> QED
    BY <1>7, <2>1, <2>2
<1>11. ASSUME NEW p \in Procs,
              \/ \E h \in Hashes : DeleteToken(p, h)
              \/ \E u \in Users : DeleteAllForUser(p, u) \/ Expire(p, u)
              \/ DeleteExpired(p, now)
       PROVE  StaleInv'
  <2>1. PICK o \in AllOps, hs \in SUBSET Hashes :
          \E new : th[p].pc = "idle" /\ CommitThenDrop(p, o, hs, new)
    <3>1. Stored \subseteq Hashes
      BY DEF Stored
    <3>2. ASSUME NEW h \in Hashes, DeleteToken(p, h)
          PROVE  \E o \in AllOps, hs \in SUBSET Hashes :
                   \E new : th[p].pc = "idle" /\ CommitThenDrop(p, o, hs, new)
      BY <3>1, <3>2 DEF DeleteToken, Idle, AllOps
    <3>3. ASSUME NEW u \in Users, DeleteAllForUser(p, u)
          PROVE  \E o \in AllOps, hs \in SUBSET Hashes :
                   \E new : th[p].pc = "idle" /\ CommitThenDrop(p, o, hs, new)
      <4>1. {h \in Stored : Owner[h] = u} \in SUBSET Hashes
        BY <3>1
      <4> QED
        BY <3>3, <4>1 DEF DeleteAllForUser, Idle, AllOps
    <3>4. ASSUME NEW u \in Users, Expire(p, u)
          PROVE  \E o \in AllOps, hs \in SUBSET Hashes :
                   \E new : th[p].pc = "idle" /\ CommitThenDrop(p, o, hs, new)
      <4>1. {h \in Stored : Owner[h] = u /\ Compared(db[h]) > now} \in SUBSET Hashes
        BY <3>1
      <4> QED
        BY <3>4, <4>1 DEF Expire, Idle, AllOps
    <3>5. ASSUME DeleteExpired(p, now)
          PROVE  \E o \in AllOps, hs \in SUBSET Hashes :
                   \E new : th[p].pc = "idle" /\ CommitThenDrop(p, o, hs, new)
      <4>1. {h \in Stored : Compared(db[h]) < now} \in SUBSET Hashes
        BY <3>1
      <4> QED
        BY <3>5, <4>1 DEF DeleteExpired, Idle, AllOps
    <3> QED
      BY <1>11, <3>2, <3>3, <3>4, <3>5
  <2> QED
    BY <1>8, <2>1
<1>12. ASSUME NEW p \in Procs, Drop(p) PROVE StaleInv'
  <2>1. PICK h \in th[p].todo :
          /\ C!Drop(h)
          /\ IF th[p].todo = {h} THEN Return(p)
             ELSE th' = [th EXCEPT ![p].todo = @ \ {h}]
    BY <1>12 DEF Drop
  <2>2. h \in Hashes
    BY <1>0, <2>1, FrameFacts
  <2>3. /\ OthersStill(p)
        /\ \/ th'[p].pc = "idle"
           \/ th[p].pc = "drop" /\ th'[p].pc = "drop" /\ th'[p].at = th[p].at
    <3>1. CASE Return(p)
      BY <1>0, <3>1 DEF Return, Rest, OthersStill, TypeOK
    <3>2. CASE th' = [th EXCEPT ![p].todo = @ \ {h}]
      BY <1>0, <1>12, <3>2 DEF Drop, At, OthersStill, TypeOK, Frame
    <3> QED
      BY <2>1, <3>1, <3>2
  <2> QED
    BY <1>12, <2>1, <2>2, <2>3, DropStale DEF Drop
<1>13. ASSUME NEW h \in Hashes, Evict(h) PROVE StaleInv'
  <2>1. CASE Procs = {}
    BY <1>0, <1>13, <2>1, TimeAssumption
    DEF Evict, C!Drop, StaleInv, Timely, EntriesRecent, TypeOK
  <2>2. CASE \E p \in Procs : TRUE
    BY <1>13, <2>2, DropStale DEF Evict, OthersStill
  <2> QED
    BY <2>1, <2>2
<1>14. CASE Restart
  <2>1. \A p \in Procs : th'[p].pc = "idle"
    BY <1>14 DEF Restart, Rest
  <2> QED
    BY <1>0, <1>14, <2>1
    DEF Restart, StaleInv, Timely, EntriesRecent, RowRecent, At, TypeOK
<1>15. CASE Tick
  <2>1. UNCHANGED <<db, cache, written, th, changed>> /\ now' = now + 1
    BY <1>15 DEF Tick, C!Advance
  <2>2. Timely'
    BY <1>0, <1>15, <2>1, TimeAssumption
    DEF Tick, StaleInv, Timely, At, TypeOK, Frame
  <2>3. EntriesRecent' /\ \A p \in Procs : RowRecent(p)'
    BY <1>0, <2>1 DEF StaleInv, EntriesRecent, RowRecent, At
  <2> QED
    BY <2>2, <2>3 DEF StaleInv
<1>16. CASE UNCHANGED vars
  BY <1>0, <1>16 DEF vars, StaleInv, Timely, EntriesRecent, RowRecent, At
<1> QED
  BY <1>1, <1>2, <1>3, <1>4, <1>5, <1>6, <1>9, <1>10, <1>11, <1>12, <1>13,
     <1>14, <1>15, <1>16 DEF Next

LEMMA Inductive == Spec => []IInv
<1>1. IInv /\ [Next]_vars => IInv'
  BY NextTypes, NextStale DEF IInv
<1> QED
  BY InitInv, <1>1, PTL DEF Spec

LEMMA StaleIsBounded == IInv => BoundedStaleness
<1> SUFFICES ASSUME IInv, NEW p \in Procs, At(p, "judge"),
                    ~(now <= changed[th[p].hash] + Life + 2 * MaxLag)
             PROVE  Reading(th[p].row, db[th[p].hash])
  BY DEF BoundedStaleness
<1> USE DEF IInv, StaleInv
<1>1. th[p].hash \in Hashes /\ th[p].at \in Nat
  BY FrameFacts DEF At
<1>2. now <= th[p].at + MaxLag
  BY DEF Timely, At
<1>3. ~(th[p].at <= changed[th[p].hash] + Life + MaxLag)
  BY <1>1, <1>2, TimeAssumption DEF TypeOK
<1> QED
  BY <1>3 DEF RowRecent

(* Rows, entries and the local states of calls stay well formed: a call    *)
(* that judges or puts a row has one.                                      *)
THEOREM TypeCorrect == Spec => []TypeOK
  BY Inductive, PTL DEF IInv

(* A row that has been left alone for the life of an entry and the length  *)
(* of two calls is what every verdict rests on, for any number of tokens   *)
(* and processes, lost acknowledgements, restarts and evictions included.  *)
THEOREM StalenessIsBounded == Spec => []BoundedStaleness
  BY Inductive, StaleIsBounded, PTL

-----------------------------------------------------------------------------
(* When database and cache agree. A call that writes under h has h to      *)
(* itself; a reader of an untainted h carries the row that is there; and   *)
(* no entry outlives its row without a writer that will put it right.      *)

Writes(p, h) == Touches(p, h) /\ th[p].op # "Valid"

Carries(p, h) ==
  Touches(p, h) /\ th[p].pc \in {"nxCheck", "nxPut", "put"} => Same(th[p].row, db[h])

HashInv(h) ==
  /\ ~Overlap(h)
  /\ \A p \in Procs : Carries(p, h)
  /\ (\A p \in Procs : ~Writes(p, h)) => cache[h] = None \/ Same(cache[h], db[h])

(* Only a call that drops has keys to drop, and it has no hash of its own; *)
(* only Valid reads.                                                       *)
CallInv ==
  \A p \in Procs :
    /\ ~At(p, "drop") => th[p].todo = {}
    /\ th[p].pc \in {"idle", "drop"} => th[p].hash = None
    /\ th[p].pc \in {"dbGet", "nxCheck", "nxPut"} => th[p].op = "Valid"

QuietInv == CallInv /\ \A h \in Hashes \ tainted : HashInv(h)

(* What a step of process p does to the pair under h: it leaves database   *)
(* and cache alone, or it is, or was, the one that writes there.           *)
ProcGoes(p, h) ==
  /\ Carries(p, h)'
  /\ db'[h] = db[h] \/ Writes(p, h)'
  /\ \/ Writes(p, h)'
     \/ cache'[h] = None \/ Same(cache'[h], db'[h])
     \/ ~Writes(p, h) /\ cache'[h] = cache[h] /\ db'[h] = db[h]

LEMMA ProcKeepsHash ==
  ASSUME NEW p \in Procs, NEW h \in Hashes, HashInv(h), ~Overlap(h)',
         OthersStill(p), ProcGoes(p, h)
  PROVE  HashInv(h)'
<1>1. ASSUME NEW q \in Procs \ {p}
      PROVE  /\ th'[q] = th[q]
             /\ Writes(q, h)' <=> Writes(q, h)
             /\ Touches(q, h)' <=> Touches(q, h)
  BY DEF OthersStill, Writes, Touches
<1>2. ASSUME NEW q \in Procs PROVE Carries(q, h)'
  <2>1. CASE q = p
    BY <2>1 DEF ProcGoes
  <2>2. CASE q # p /\ Touches(q, h)'
    <3>1. ~Writes(p, h)'
      BY <2>2 DEF Overlap, Writes
    <3>2. db'[h] = db[h]
      BY <3>1 DEF ProcGoes
    <3>3. Carries(q, h)
      BY DEF HashInv
    <3> QED
      BY <1>1, <2>2, <3>2, <3>3 DEF Carries
  <2>3. CASE ~Touches(q, h)'
    BY <2>3 DEF Carries
  <2> QED
    BY <2>1, <2>2, <2>3
<1>3. ASSUME \A q \in Procs : ~Writes(q, h)'
      PROVE  cache'[h] = None \/ Same(cache'[h], db'[h])
  <2>1. CASE ~Writes(p, h) /\ cache'[h] = cache[h] /\ db'[h] = db[h]
    <3>1. \A q \in Procs : ~Writes(q, h)
      BY <1>1, <1>3, <2>1
    <3> QED
      BY <2>1, <3>1 DEF HashInv
  <2> QED
    BY <1>3, <2>1 DEF ProcGoes
<1> QED
  BY <1>2, <1>3 DEF HashInv

(* The steps of one process.                                               *)
Acts(p) ==
  \/ \E h \in Hashes :
       \/ Valid(p, h) \/ DeleteToken(p, h)
       \/ \E e \in Expiries :
            \/ CreateToken(p, h, e) \/ DelayTokenNow(p, h, e)
            \/ \E g \in Hashes : UpdateToken(p, h, g, e)
  \/ \E u \in Users : DeleteAllForUser(p, u) \/ Expire(p, u)
  \/ DeleteExpired(p, now)
  \/ DbGet(p) \/ NXCheck(p) \/ NXPut(p) \/ Judge(p) \/ Put(p) \/ Drop(p)

(* The three ways a commit goes: the call goes on to set the one row it    *)
(* has written, or to drop the entries of those it changed, or it is told  *)
(* of an error and goes nowhere.                                           *)
Commits(p, hs, new) ==
  /\ At(p, "idle") /\ Commit(hs, new)
  /\ \/ \E o \in AllOps \ {"Valid"}, g \in hs :
          new[g] \in Row /\ Begin(p, o, "put", g, new[g], {})
     \/ \E o \in AllOps \ {"Valid"} : Begin(p, o, "drop", None, None, hs)
     \/ UNCHANGED th

LEMMA WritersCommit ==
  ASSUME TypeOK, NEW p \in Procs, Acts(p)
  PROVE  \/ \E h \in Hashes : Valid(p, h)
         \/ DbGet(p) \/ NXCheck(p) \/ NXPut(p) \/ Judge(p) \/ Put(p) \/ Drop(p)
         \/ \E hs \in SUBSET Hashes : \E new : Commits(p, hs, new)
<1> USE DEF AllOps
<1>1. ASSUME NEW o \in AllOps \ {"Valid"}, NEW h \in Hashes, NEW r \in Row,
             At(p, "idle"), CommitThenSet(p, o, h, r)
      PROVE  \E hs \in SUBSET Hashes : \E new : Commits(p, hs, new)
  <2>1. [x \in {h} |-> r][h] = r
    OBVIOUS
  <2>2. Commits(p, {h}, [x \in {h} |-> r])
    BY <1>1, <2>1 DEF CommitThenSet, Commits
  <2> QED
    BY <2>2
<1>2. ASSUME NEW o \in AllOps \ {"Valid"}, NEW hs \in SUBSET Hashes, NEW new,
             At(p, "idle"), CommitThenDrop(p, o, hs, new)
      PROVE  \E ks \in SUBSET Hashes : \E nw : Commits(p, ks, nw)
  <2>1. Commits(p, hs, new)
    BY <1>2 DEF CommitThenDrop, Commits
  <2> QED
    BY <2>1
<1>3. ASSUME NEW h \in Hashes, NEW e \in Expiries,
             CreateToken(p, h, e) \/ DelayTokenNow(p, h, e)
      PROVE  \E hs \in SUBSET Hashes : \E new : Commits(p, hs, new)
  <2>1. CASE CreateToken(p, h, e)
    <3>1. [expiredAt |-> e.at, zone |-> e.zone, reason |-> FALSE] \in Row
      BY TimeAssumption DEF Row
    <3> QED
      BY <1>1, <2>1, <3>1 DEF CreateToken, Idle, At
  <2>2. CASE DelayTokenNow(p, h, e)
    <3>1. Extended(db[h], e) \in Row
      BY <2>2, RowFacts, NewRow DEF DelayTokenNow
    <3> QED
      BY <1>1, <2>2, <3>1 DEF DelayTokenNow, Idle, At
  <2> QED
    BY <1>3, <2>1, <2>2
<1>4. ASSUME NEW h \in Hashes, NEW g \in Hashes, NEW e \in Expiries,
             UpdateToken(p, h, g, e)
      PROVE  \E hs \in SUBSET Hashes : \E new : Commits(p, hs, new)
  <2> DEFINE r == Extended(db[h], e)
             new == [x \in {h, g} |-> IF x = g THEN r ELSE None]
  <2>1. new[g] = r /\ r \in Row
    BY <1>4, RowFacts, NewRow DEF UpdateToken
  <2>2. At(p, "idle") /\ Commit({h, g}, new)
        /\ (Begin(p, "UpdateToken", "put", g, r, {}) \/ UNCHANGED th)
    BY <1>4 DEF UpdateToken, Idle, At
  <2> HIDE DEF new, r
  <2>3. Commits(p, {h, g}, new)
    BY <2>1, <2>2 DEF Commits
  <2> QED
    BY <2>3
<1>5. ASSUME NEW h \in Hashes, DeleteToken(p, h)
      PROVE  \E hs \in SUBSET Hashes : \E new : Commits(p, hs, new)
  BY <1>2, <1>5 DEF DeleteToken, Idle, At, Stored
<1>6. ASSUME NEW u \in Users, DeleteAllForUser(p, u) \/ Expire(p, u)
      PROVE  \E hs \in SUBSET Hashes : \E new : Commits(p, hs, new)
  <2>1. /\ {h \in Stored : Owner[h] = u} \in SUBSET Hashes
        /\ {h \in Stored : Owner[h] = u /\ Compared(db[h]) > now} \in SUBSET Hashes
    BY DEF Stored
  <2> QED
    BY <1>2, <1>6, <2>1 DEF DeleteAllForUser, Expire, Idle, At
<1>7. ASSUME DeleteExpired(p, now)
      PROVE  \E hs \in SUBSET Hashes : \E new : Commits(p, hs, new)
  <2>1. {h \in Stored : Compared(db[h]) < now} \in SUBSET Hashes
    BY DEF Stored
  <2> QED
    BY <1>2, <1>7, <2>1 DEF DeleteExpired, Idle, At
<1> QED
  BY <1>3, <1>4, <1>5, <1>6, <1>7 DEF Acts

(* Where each step of a call leads.                                        *)
LEMMA ActsStill ==
  ASSUME TypeOK, CallInv, NEW p \in Procs, Acts(p)
  PROVE  OthersStill(p) /\ CallInv'
<1> SUFFICES /\ OthersStill(p)
             /\ th'[p].pc # "drop" => th'[p].todo = {}
             /\ th'[p].pc \in {"idle", "drop"} => th'[p].hash = None
             /\ th'[p].pc \in {"dbGet", "nxCheck", "nxPut"} => th'[p].op = "Valid"
  BY DEF CallInv, OthersStill, At
<1> USE DEF TypeOK, Frame, CallInv, OthersStill, At, Begin, Goto, Return, Rest
<1>1. CASE \E h \in Hashes : Valid(p, h)
  <2>1. PICK h \in Hashes : Valid(p, h)
    BY <1>1
  <2>2. \/ \E r : Begin(p, "Valid", "judge", h, r, {})
        \/ \E r : Begin(p, "Valid", "dbGet", h, r, {})
    BY <2>1 DEF Valid
  <2> QED
    BY <2>2
<1>2. CASE DbGet(p)
  <2>1. \/ /\ db[th[p].hash] # None
           /\ Goto(p, "nxCheck", Scanned(db[th[p].hash]))
        \/ Return(p)
    BY <1>2 DEF DbGet
  <2> QED
    BY <1>2, <2>1 DEF DbGet
<1>3. CASE NXCheck(p)
  <2>1. Goto(p, "judge", th[p].row) \/ Goto(p, "nxPut", th[p].row)
    BY <1>3 DEF NXCheck
  <2> QED
    BY <1>3, <2>1 DEF NXCheck
<1>4. CASE NXPut(p)
  BY <1>4 DEF NXPut
<1>5. CASE Judge(p) \/ Put(p)
  BY <1>5 DEF Judge, Put
<1>6. CASE Drop(p)
  <2>1. PICK h \in th[p].todo : Return(p) \/ th' = [th EXCEPT ![p].todo = @ \ {h}]
    BY <1>6 DEF Drop
  <2> QED
    BY <1>6, <2>1 DEF Drop
<1>7. CASE \E hs \in SUBSET Hashes : \E new : Commits(p, hs, new)
  <2>1. PICK hs, new : Commits(p, hs, new)
    BY <1>7
  <2>2. ASSUME NEW o, NEW g, NEW r, Begin(p, o, "put", g, r, {})
        PROVE  th'[p].pc = "put" /\ th'[p].todo = {} /\ OthersStill(p)
    BY <2>2
  <2>3. ASSUME NEW o, Begin(p, o, "drop", None, None, hs)
        PROVE  th'[p].pc = "drop" /\ th'[p].hash = None /\ OthersStill(p)
    BY <2>3
  <2>4. CASE UNCHANGED th
    BY <2>4
  <2> QED
    BY <2>1, <2>2, <2>3, <2>4 DEF Commits
<1> QED
  BY <1>1, <1>2, <1>3, <1>4, <1>5, <1>6, <1>7, WritersCommit

(* ... and what it does to database and cache under one hash, where no row *)
(* has changed behind the cache's back.                                    *)
LEMMA ActsGo ==
  ASSUME TypeOK, CallInv, NEW p \in Procs, NEW h \in Hashes, Acts(p),
         Carries(p, h), OthersStill(p),
         db'[h] # db[h] => \E q \in Procs : th'[q] # th[q] /\ Touches(q, h)'
  PROVE  ProcGoes(p, h)
<1> USE NoneAssumption
    DEF TypeOK, Frame, CallInv, At, Rest, Touches, Writes, Carries, ProcGoes
<1>1. ASSUME NEW g \in Hashes, Valid(p, g) PROVE ProcGoes(p, h)
  <2>1. PICK l, r : l \in {"judge", "dbGet"} /\ Begin(p, "Valid", l, g, r, {})
    BY <1>1 DEF Valid
  <2> QED
    BY <1>1, <2>1 DEF Valid, Idle, Begin
<1>2. CASE DbGet(p)
  <2>1. \/ /\ db[th[p].hash] # None
           /\ Goto(p, "nxCheck", Scanned(db[th[p].hash]))
        \/ Return(p)
    BY <1>2 DEF DbGet
  <2>2. ASSUME db[h] # None PROVE Same(Scanned(db[h]), db[h])
    BY <2>2, ScannedSame
  <2>3. UNCHANGED <<db, cache>> /\ th[p].pc = "dbGet"
    BY <1>2 DEF DbGet
  <2>4. CASE /\ db[th[p].hash] # None
             /\ Goto(p, "nxCheck", Scanned(db[th[p].hash]))
    BY <2>2, <2>3, <2>4 DEF Goto
  <2>5. CASE Return(p)
    BY <2>3, <2>5 DEF Return
  <2> QED
    BY <2>1, <2>4, <2>5
<1>3. CASE NXCheck(p)
  <2>1. Goto(p, "judge", th[p].row) \/ Goto(p, "nxPut", th[p].row)
    BY <1>3 DEF NXCheck
  <2> QED
    BY <1>3, <2>1 DEF NXCheck, Goto
<1>4. CASE NXPut(p)
  BY <1>4 DEF NXPut, Goto, C!Put
<1>5. CASE Judge(p)
  BY <1>5 DEF Judge, Return
<1>6. CASE Put(p)
  BY <1>6 DEF Put, Return, C!Put
<1>7. CASE Drop(p)
  <2>1. PICK g \in th[p].todo :
          /\ C!Drop(g)
          /\ \/ th[p].todo = {g} /\ Return(p)
             \/ th' = [th EXCEPT ![p].todo = @ \ {g}]
    BY <1>7 DEF Drop
  <2> QED
    BY <1>7, <2>1 DEF Drop, Return, C!Drop
<1>8. CASE \E hs \in SUBSET Hashes : \E new : Commits(p, hs, new)
  <2>1. PICK hs, new : hs \in SUBSET Hashes /\ Commits(p, hs, new)
    BY <1>8
  <2>2. /\ th[p].pc = "idle" /\ cache' = cache
        /\ db'[h] = IF h \in hs THEN new[h] ELSE db[h]
    BY <2>1 DEF Commits, Commit
  <2>3. ~Touches(p, h)
    BY <2>2
  <2>4. ASSUME NEW o \in AllOps \ {"Valid"}, NEW g \in hs, new[g] \in Row,
               Begin(p, o, "put", g, new[g], {})
        PROVE  ProcGoes(p, h)
    <3>1. th'[p] = [op |-> o, pc |-> "put", hash |-> g, row |-> new[g],
                    todo |-> {}, at |-> now]
      BY <2>4 DEF Begin
    <3>2. db'[h] # db[h] => Touches(p, h)'
      BY DEF OthersStill
    <3>3. Same(new[g], new[g])
      BY <2>4 DEF Same
    <3>4. g = h => db'[h] = new[g]
      BY <2>2
    <3> QED
      BY <2>2, <2>3, <3>1, <3>2, <3>3, <3>4
  <2>5. ASSUME NEW o \in AllOps \ {"Valid"}, Begin(p, o, "drop", None, None, hs)
        PROVE  ProcGoes(p, h)
    <3>1. th'[p] = [op |-> o, pc |-> "drop", hash |-> None, row |-> None,
                    todo |-> hs, at |-> now]
      BY <2>5 DEF Begin
    <3> QED
      BY <2>2, <2>3, <3>1
  <2>6. CASE UNCHANGED th
    BY <2>2, <2>3, <2>6
  <2> QED
    BY <2>1, <2>4, <2>5, <2>6 DEF Commits
<1> QED
  BY <1>1, <1>2, <1>3, <1>4, <1>5, <1>6, <1>7, <1>8, WritersCommit

LEMMA InitQuiet == TInit => QuietInv
  BY NoneAssumption
  DEF TInit, Init, C!Init, QuietInv, CallInv, HashInv, Overlap, Carries,
      Writes, Touches, At, Rest

LEMMA NextQuiet == TypeOK /\ QuietInv /\ [TNext]_tvars => QuietInv'
<1> SUFFICES ASSUME TypeOK, QuietInv, [TNext]_tvars PROVE QuietInv'
  OBVIOUS
<1> USE DEF QuietInv
<1>1. CASE UNCHANGED tvars
  BY <1>1 DEF tvars, CallInv, HashInv, Overlap, Carries, Writes, Touches, At
<1>2. CASE TNext
  <2>1. ASSUME NEW h \in Hashes \ tainted'
        PROVE  /\ HashInv(h) /\ ~Overlap(h)'
               /\ db'[h] # db[h] =>
                    \E q \in Procs : th'[q] # th[q] /\ Touches(q, h)'
    BY <1>2, <2>1 DEF TNext
  <2>2. ASSUME NEW p \in Procs, Acts(p) PROVE QuietInv'
    <3>1. OthersStill(p) /\ CallInv'
      BY <2>2, ActsStill
    <3>2. ASSUME NEW h \in Hashes \ tainted' PROVE HashInv(h)'
      <4>1. Carries(p, h)
        BY <2>1 DEF HashInv
      <4>2. ProcGoes(p, h)
        BY <2>1, <2>2, <3>1, <4>1, ActsGo
      <4> QED
        BY <2>1, <3>1, <4>2, ProcKeepsHash
    <3> QED
      BY <3>1, <3>2
  <2>3. ASSUME NEW g \in Hashes, Evict(g) PROVE QuietInv'
    <3>1. UNCHANGED <<db, th>> /\ cache' = [cache EXCEPT ![g] = None]
      BY <2>3 DEF Evict, C!Drop
    <3>2. CallInv'
      BY <3>1 DEF CallInv, At
    <3>3. ASSUME NEW h \in Hashes \ tainted' PROVE HashInv(h)'
      BY <2>1, <3>1 DEF HashInv, Overlap, Carries, Writes, Touches, TypeOK
    <3> QED
      BY <3>2, <3>3
  <2>4. CASE Restart
    <3>1. \A p \in Procs : th'[p] = Rest
      BY <2>4 DEF Restart
    <3>2. CallInv'
      BY <3>1 DEF CallInv, At, Rest
    <3>3. ASSUME NEW h \in Hashes \ tainted' PROVE HashInv(h)'
      <4>1. \A p \in Procs : ~Touches(p, h)'
        BY <3>1, NoneAssumption DEF Touches, Rest
      <4>2. cache'[h] = None
        BY <2>4 DEF Restart
      <4> QED
        BY <4>1, <4>2 DEF HashInv, Overlap, Carries
    <3> QED
      BY <3>2, <3>3
  <2>5. CASE Tick
    <3>1. UNCHANGED <<db, th, cache>>
      BY <2>5 DEF Tick, C!Advance
    <3> QED
      BY <2>1, <3>1 DEF CallInv, At, HashInv, Overlap, Carries, Writes, Touches
  <2> QED
    BY <1>2, <2>2, <2>3, <2>4, <2>5 DEF TNext, Next, Acts
<1> QED
  BY <1>1, <1>2

(* Under a hash whose calls did not overlap and lost no follow-up, the     *)
(* cache holds the database's row or nothing as soon as the last call has  *)
(* returned: DeleteToken, Expire and UpdateToken take effect at once.      *)
THEOREM ApartIsCoherent == TSpec => []QuietCoherent
<1>1. TInit => TypeOK /\ QuietInv
  BY InitInv, InitQuiet DEF TInit, IInv
<1>2. [TNext]_tvars => [Next]_vars
  BY DEF TNext, tvars, vars
<1>3. TypeOK /\ QuietInv /\ [TNext]_tvars => (TypeOK /\ QuietInv)'
  BY <1>2, NextTypes, NextQuiet
<1>4. QuietInv => QuietCoherent
  BY DEF QuietInv, HashInv, QuietCoherent, Writes
<1> QED
  BY <1>1, <1>3, <1>4, PTL DEF TSpec
=============================================================================
