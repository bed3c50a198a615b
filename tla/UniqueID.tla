------------------------------ MODULE UniqueID ------------------------------
(***************************************************************************)
(* uniqueid.IDManager: a random string is tried against the primary key of *)
(* a table until an insert succeeds; after Tries failures the string gets  *)
(* one character longer, and after Levels lengths the call gives up and    *)
(* returns a fixed string. The table is all that keeps callers apart.      *)
(***************************************************************************)
EXTENDS Naturals

CONSTANTS
  Procs,      \* concurrent callers
  Ids,        \* random strings
  Pool,       \* Pool[i]: the strings that may be drawn at level i
  Levels,     \* 10 in the code
  Tries,      \* 36 in the code
  Unknown,    \* the string "unknown"
  None

ASSUME PoolAssumption ==
  /\ Levels \in Nat \ {0} /\ Tries \in Nat \ {0}
  /\ Pool \in [0..(Levels - 1) -> SUBSET Ids]
ASSUME UnknownAssumption == Unknown \notin Ids \cup {None} /\ None \notin Ids

VARIABLES
  table,     \* the primary keys in the database
  call,      \* call[p]: length level and failed tries of p's call, or None
  held,      \* held[p]: what UniqueID returned to p and p did not give back
  freeing    \* freeing[p]: the id p is undoing, or None

vars == <<table, call, held, freeing>>

Idle(p) == call[p] = None /\ freeing[p] = None

Init ==
  /\ table = {}
  /\ call = [p \in Procs |-> None]
  /\ held = [p \in Procs |-> {}]
  /\ freeing = [p \in Procs |-> None]

Call(p) ==
  /\ Idle(p)
  /\ call' = [call EXCEPT ![p] = <<0, 0>>]
  /\ UNCHANGED <<table, held, freeing>>

Level(p) == call[p][1]
Failed(p) == call[p][2]
Trying(p) == call[p] # None /\ Level(p) < Levels

\* Mutant: the levels wrap around.
TryStays(p) ==
  IF Failed(p) + 1 < Tries THEN <<Level(p), Failed(p) + 1>> ELSE <<0, 0>>

\* Mutant: one try too many on a level.
TryOnceMore(p) ==
  IF Failed(p) < Tries THEN <<Level(p), Failed(p) + 1>> ELSE <<Level(p) + 1, 0>>

\* The next turn of the two loops.
NextTry(p) ==
  IF Failed(p) + 1 < Tries THEN <<Level(p), Failed(p) + 1>>
                           ELSE <<Level(p) + 1, 0>>

\* Mutant: an upsert takes a key that is there for its own.
InsertAny(p) ==
  /\ Trying(p)
  /\ \E id \in Pool[Level(p)] :
       /\ table' = table \cup {id}
       /\ held' = [held EXCEPT ![p] = @ \cup {id}]
  /\ call' = [call EXCEPT ![p] = None]
  /\ UNCHANGED freeing

\* The insert succeeds: the primary key was free.
Insert(p) ==
  /\ Trying(p)
  /\ \E id \in Pool[Level(p)] \ table :
       /\ table' = table \cup {id}
       /\ held' = [held EXCEPT ![p] = @ \cup {id}]
  /\ call' = [call EXCEPT ![p] = None]
  /\ UNCHANGED freeing

\* The insert fails: on a duplicate key, on a database error, or on an error
\* that hides an insert that went through. Each is one failed try.
InsertFails(p) ==
  /\ Trying(p)
  /\ UNCHANGED table \/ \E id \in Pool[Level(p)] : table' = table \cup {id}
  /\ call' = [call EXCEPT ![p] = NextTry(p)]
  /\ UNCHANGED <<held, freeing>>

GiveUp(p) ==
  /\ call[p] # None /\ Level(p) = Levels
  /\ held' = [held EXCEPT ![p] = @ \cup {Unknown}]
  /\ call' = [call EXCEPT ![p] = None]
  /\ UNCHANGED <<table, freeing>>

\* UndoUniqueID: the caller stops using the id and the row is deleted, or the
\* database fails and the row stays.
Undo(p, id) ==
  /\ Idle(p) /\ id \in held[p]
  /\ held' = [held EXCEPT ![p] = @ \ {id}]
  /\ freeing' = [freeing EXCEPT ![p] = id]
  /\ UNCHANGED <<table, call>>

UndoRow(p) ==
  /\ freeing[p] # None
  /\ table' = table \ {freeing[p]} \/ UNCHANGED table
  /\ freeing' = [freeing EXCEPT ![p] = None]
  /\ UNCHANGED <<call, held>>

\* The caller dies: in the middle of a call, its ids are lost with their rows
\* in place.
Crash(p) ==
  /\ ~Idle(p)
  /\ call' = [call EXCEPT ![p] = None]
  /\ freeing' = [freeing EXCEPT ![p] = None]
  /\ UNCHANGED <<table, held>>

Step(p) == Insert(p) \/ InsertFails(p) \/ GiveUp(p) \/ UndoRow(p)

Next ==
  \E p \in Procs :
    \/ Call(p) \/ Step(p) \/ Crash(p)
    \/ \E id \in Ids \cup {Unknown} : Undo(p, id)

Spec == Init /\ [][Next]_vars
FairSpec == Spec /\ \A p \in Procs : WF_vars(Step(p))

-----------------------------------------------------------------------------
TypeOK ==
  /\ table \subseteq Ids
  /\ call \in [Procs -> ((0..Levels) \X (0..(Tries - 1))) \cup {None}]
  /\ held \in [Procs -> SUBSET (Ids \cup {Unknown})]
  /\ freeing \in [Procs -> Ids \cup {Unknown, None}]

(* The ids in use, with those about to be given back.                      *)
Claims(p) == (held[p] \cup {freeing[p]}) \ {Unknown, None}

(* No id is in the hands of two callers, whatever inserts fail half-way    *)
(* and whatever callers give back or die holding.                          *)
Unique ==
  \A p, q \in Procs : p # q => Claims(p) \cap Claims(q) = {}

(* What makes Unique inductive: the row of an id in use is there, so that  *)
(* its key is taken, and a caller that gives an id back has let go of it.  *)
ClaimedInTable == \A p \in Procs : Claims(p) \subseteq table

FreedIsLetGo ==
  \A p \in Procs :
    freeing[p] # None => call[p] = None /\ freeing[p] \notin held[p]

(* A call comes back, with an id or without.                               *)
CallReturns == \A p \in Procs : call[p] # None ~> call[p] = None
=============================================================================
