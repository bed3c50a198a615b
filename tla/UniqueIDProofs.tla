--------------------------- MODULE UniqueIDProofs ---------------------------
(***************************************************************************)
(* Proofs about UniqueID for any number of callers, ids, levels and tries. *)
(* Unique is not inductive: an insert hands out an id that is not in the   *)
(* table, so one has to know that the ids in use are.                      *)
(***************************************************************************)
EXTENDS UniqueID, TLAPS

IInv == TypeOK /\ FreedIsLetGo /\ ClaimedInTable /\ Unique

LEMMA InitInv == Init => IInv
  BY UnknownAssumption, PoolAssumption
  DEF Init, IInv, TypeOK, FreedIsLetGo, ClaimedInTable, Unique, Claims

LEMMA NextTypes == TypeOK /\ [Next]_vars => TypeOK'
<1> SUFFICES ASSUME TypeOK, [Next]_vars PROVE TypeOK'
  OBVIOUS
<1> USE UnknownAssumption, PoolAssumption DEF TypeOK
<1>1. ASSUME NEW p \in Procs, Call(p) PROVE TypeOK'
  <2>1. <<0, 0>> \in (0..Levels) \X (0..(Tries - 1))
    OBVIOUS
  <2> QED
    BY <1>1, <2>1 DEF Call
<1>2. ASSUME NEW p \in Procs, Insert(p) PROVE TypeOK'
  <2>1. Level(p) \in 0..(Levels - 1)
    BY <1>2 DEF Insert, Trying, Level
  <2>2. PICK id \in Pool[Level(p)] \ table :
           /\ table' = table \cup {id}
           /\ held' = [held EXCEPT ![p] = @ \cup {id}]
    BY <1>2 DEF Insert
  <2>3. id \in Ids
    BY <2>1, <2>2
  <2> QED
    BY <1>2, <2>2, <2>3 DEF Insert
<1>3. ASSUME NEW p \in Procs, InsertFails(p) PROVE TypeOK'
  <2>1. call[p] \in (0..Levels) \X (0..(Tries - 1)) /\ Level(p) < Levels
    BY <1>3 DEF InsertFails, Trying, Level
  <2>2. NextTry(p) \in (0..Levels) \X (0..(Tries - 1))
    BY <2>1 DEF NextTry, Level, Failed
  <2>3. Pool[Level(p)] \subseteq Ids
    BY <2>1 DEF Level
  <2>4. table' \subseteq Ids
    BY <1>3, <2>3 DEF InsertFails
  <2> QED
    BY <1>3, <2>2, <2>4 DEF InsertFails
<1>4. ASSUME NEW p \in Procs, GiveUp(p) PROVE TypeOK'
  BY <1>4 DEF GiveUp
<1>5. ASSUME NEW p \in Procs, UndoRow(p) PROVE TypeOK'
  BY <1>5 DEF UndoRow
<1>6. ASSUME NEW p \in Procs, Crash(p) PROVE TypeOK'
  BY <1>6 DEF Crash
<1>7. ASSUME NEW p \in Procs, NEW id \in Ids \cup {Unknown}, Undo(p, id)
      PROVE TypeOK'
  BY <1>7 DEF Undo
<1>8. CASE UNCHANGED vars
  BY <1>8 DEF vars
<1> QED
  BY <1>1, <1>2, <1>3, <1>4, <1>5, <1>6, <1>7, <1>8 DEF Next, Step

LEMMA NextLetsGo == TypeOK /\ FreedIsLetGo /\ [Next]_vars => FreedIsLetGo'
<1> SUFFICES ASSUME TypeOK, FreedIsLetGo, [Next]_vars PROVE FreedIsLetGo'
  OBVIOUS
<1> USE DEF TypeOK, FreedIsLetGo, Idle
<1>1. ASSUME NEW p \in Procs, Call(p) PROVE FreedIsLetGo'
  BY <1>1 DEF Call
<1>2. ASSUME NEW p \in Procs, Insert(p) PROVE FreedIsLetGo'
  BY <1>2 DEF Insert, Trying
<1>3. ASSUME NEW p \in Procs, InsertFails(p) PROVE FreedIsLetGo'
  BY <1>3 DEF InsertFails, Trying
<1>4. ASSUME NEW p \in Procs, GiveUp(p) PROVE FreedIsLetGo'
  BY <1>4 DEF GiveUp
<1>5. ASSUME NEW p \in Procs, UndoRow(p) PROVE FreedIsLetGo'
  BY <1>5 DEF UndoRow
<1>6. ASSUME NEW p \in Procs, Crash(p) PROVE FreedIsLetGo'
  BY <1>6 DEF Crash
<1>7. ASSUME NEW p \in Procs, NEW id \in Ids \cup {Unknown}, Undo(p, id)
      PROVE FreedIsLetGo'
  BY <1>7 DEF Undo
<1>8. CASE UNCHANGED vars
  BY <1>8 DEF vars
<1> QED
  BY <1>1, <1>2, <1>3, <1>4, <1>5, <1>6, <1>7, <1>8 DEF Next, Step

LEMMA NextClaims == IInv /\ [Next]_vars => ClaimedInTable' /\ Unique'
<1> SUFFICES ASSUME IInv, [Next]_vars PROVE ClaimedInTable' /\ Unique'
  OBVIOUS
<1> USE UnknownAssumption DEF IInv, TypeOK, Claims
\* Every step but Insert and UndoRow: fewer claims, no fewer rows.
<1>0. ASSUME \A p \in Procs : Claims(p)' \subseteq Claims(p),
             table \subseteq table'
      PROVE  ClaimedInTable' /\ Unique'
  BY <1>0 DEF ClaimedInTable, Unique
<1>1. ASSUME NEW p \in Procs, Call(p) PROVE ClaimedInTable' /\ Unique'
  BY <1>0, <1>1 DEF Call
<1>2. ASSUME NEW p \in Procs, Insert(p) PROVE ClaimedInTable' /\ Unique'
  <2>1. PICK id \in Pool[Level(p)] \ table :
           /\ table' = table \cup {id}
           /\ held' = [held EXCEPT ![p] = @ \cup {id}]
    BY <1>2 DEF Insert
  <2>2. Claims(p)' \subseteq Claims(p) \cup {id}
    BY <1>2, <2>1 DEF Insert
  <2>3. \A q \in Procs \ {p} : Claims(q)' \subseteq Claims(q)
    BY <1>2, <2>1 DEF Insert
  <2>4. \A q \in Procs : Claims(q)' \subseteq table'
    BY <2>1, <2>2, <2>3 DEF ClaimedInTable
  <2> QED
    BY <2>1, <2>2, <2>3, <2>4 DEF ClaimedInTable, Unique
<1>3. ASSUME NEW p \in Procs, InsertFails(p) PROVE ClaimedInTable' /\ Unique'
  BY <1>0, <1>3 DEF InsertFails
<1>4. ASSUME NEW p \in Procs, GiveUp(p) PROVE ClaimedInTable' /\ Unique'
  BY <1>0, <1>4 DEF GiveUp
<1>5. ASSUME NEW p \in Procs, UndoRow(p) PROVE ClaimedInTable' /\ Unique'
  <2>1. Claims(p)' \subseteq Claims(p) \ {freeing[p]}
    BY <1>5 DEF UndoRow, FreedIsLetGo
  <2>2. \A q \in Procs \ {p} : Claims(q)' \subseteq Claims(q) \ {freeing[p]}
    BY <1>5 DEF UndoRow, Unique
  <2>3. table \ {freeing[p]} \subseteq table'
    BY <1>5 DEF UndoRow
  <2> QED
    BY <2>1, <2>2, <2>3, ZenonT(40) DEF ClaimedInTable, Unique
<1>6. ASSUME NEW p \in Procs, Crash(p) PROVE ClaimedInTable' /\ Unique'
  BY <1>0, <1>6 DEF Crash
<1>7. ASSUME NEW p \in Procs, NEW id \in Ids \cup {Unknown}, Undo(p, id)
      PROVE ClaimedInTable' /\ Unique'
  BY <1>0, <1>7 DEF Undo, Idle
<1>8. CASE UNCHANGED vars
  BY <1>0, <1>8 DEF vars
<1> QED
  BY <1>1, <1>2, <1>3, <1>4, <1>5, <1>6, <1>7, <1>8 DEF Next, Step

LEMMA Inductive == Spec => []IInv
<1>1. IInv /\ [Next]_vars => IInv'
  BY NextTypes, NextLetsGo, NextClaims DEF IInv
<1> QED
  BY InitInv, <1>1, PTL DEF Spec

(* The loop counters of UniqueID stay within their levels and tries.       *)
THEOREM TypeCorrect == Spec => []TypeOK
  BY Inductive, PTL DEF IInv

(* UniqueID gives no id to two callers, for any number of them, any pool   *)
(* of random strings and any failures of the inserts and deletes.          *)
THEOREM IdsAreUnique == Spec => []Unique
  BY Inductive, PTL DEF IInv

(* An id in use has its row in the table, so no later insert can take it.  *)
THEOREM IdsHaveRows == Spec => []ClaimedInTable
  BY Inductive, PTL DEF IInv
=============================================================================
