----------------------------- MODULE RowUpdate -----------------------------
(***************************************************************************)
(* orm.UpdateWithContext2 and its kin: read a row, change it in memory and *)
(* save it in one transaction, while others do the same or delete the row. *)
(* On PostgreSQL the read locks the row; SQLite knows no such lock, but    *)
(* SetupDB gives it a pool of one connection. gorm's Save inserts a row    *)
(* that is no longer there. The row counts the changes made to it.         *)
(***************************************************************************)
EXTENDS Naturals, FiniteSets

CONSTANTS Updaters, Deleted

ASSUME RowAssumption == IsFiniteSet(Updaters) /\ Deleted \notin Nat

VARIABLES
  sqlite,    \* which of the two databases SetupDB has opened
  row,       \* the row's count of changes, or Deleted
  tx,        \* tx[u]: where u's transaction stands
  model,     \* model[u]: the row in u's memory
  locker     \* who holds the row, if anyone

rowvars == <<sqlite, row, tx, model, locker>>

RowInit ==
  /\ sqlite \in BOOLEAN
  /\ row = 0 /\ locker = {}
  /\ tx = [u \in Updaters |-> "none"] /\ model = [u \in Updaters |-> 0]

Move(u, from, to) == tx[u] = from /\ tx' = [tx EXCEPT ![u] = to]

\* The pool has a connection to spare.
InUse == {u \in Updaters : tx[u] \in {"read", "changed"}}
Connection == sqlite => InUse = {}

\* The row is locked only where the database has such locks.
Unlocked == sqlite \/ locker = {}

Read(u) ==
  \/ /\ row # Deleted /\ Move(u, "none", "read") /\ model' = [model EXCEPT ![u] = row]
     /\ locker' = locker \cup {u}
  \/ /\ row = Deleted /\ Move(u, "none", "failed")
     /\ UNCHANGED <<model, locker>>

\* Mutant: First without clause.Locking.
First(u) == Connection /\ Read(u) /\ UNCHANGED <<sqlite, row>>

FirstForUpdate(u) == Unlocked /\ Connection /\ Read(u) /\ UNCHANGED <<sqlite, row>>

\* changeFn, whose error ends the transaction.
ChangeFn(u) ==
  /\ \/ Move(u, "read", "changed") /\ model' = [model EXCEPT ![u] = @ + 1] /\ UNCHANGED locker
     \/ Move(u, "read", "failed") /\ UNCHANGED model /\ locker' = locker \ {u}
  /\ UNCHANGED <<sqlite, row>>

\* Save and the commit: both or neither.
SaveAndCommit(u) ==
  /\ \/ Move(u, "changed", "done") /\ row' = model[u]
     \/ Move(u, "changed", "failed") /\ UNCHANGED row
  /\ locker' = locker \ {u}
  /\ UNCHANGED <<sqlite, model>>

DeleteWithContext ==
  /\ Unlocked /\ Connection /\ row # Deleted /\ row' = Deleted
  /\ UNCHANGED <<sqlite, tx, model, locker>>

RowNext ==
  \/ \E u \in Updaters : FirstForUpdate(u) \/ ChangeFn(u) \/ SaveAndCommit(u)
  \/ DeleteWithContext

-----------------------------------------------------------------------------
(* No update is lost and none half made: as long as it is there, the row   *)
(* shows the changes of the calls that returned without an error and of no *)
(* others, and once it is deleted no save brings it back.                  *)
NoLostUpdate ==
  [][/\ row' # Deleted => row' = Cardinality({u \in Updaters : tx'[u] = "done"})
     /\ row = Deleted => row' = Deleted]_rowvars
=============================================================================
