---------------------------- MODULE PartsProofs ----------------------------
(***************************************************************************)
(* Theorems about the parts that share no state. The specification of a    *)
(* part is its initial condition and its next-state relation; that is what *)
(* MCParts lets it do when it is the part that moves. No fairness is       *)
(* needed for what follows.                                                *)
(***************************************************************************)
EXTENDS Server, ConfigWatch, FileBackup, RowUpdate, TaskGroup, TokenDelay,
        EmptyDirs, FiniteSetTheorems, WellFoundedInduction, TLAPS

ServerSpec == ServerInit /\ [][ServerNext]_servervars
ConfigSpec == ConfigInit /\ [][ConfigNext]_configvars
BackupSpec == BackupInit /\ [][BackupNext]_backupvars
RowSpec == RowInit /\ [][RowNext]_rowvars
GroupSpec == GroupInit /\ [][GroupNext]_groupvars
DelaySpec == DelayInit /\ [][DelayNext]_delayvars
DirsSpec == DirsInit /\ [][DirsNext]_dirvars

-----------------------------------------------------------------------------
(* Server. A connection is cut only by the end of the process, which comes *)
(* by an early signal or by Shutdown.                                      *)
ConnTyped == conn \in [Conns -> {"none", "active", "done", "cut"}]

(* What is cut was hijacked, outlasted the timeout or met a signal that    *)
(* came before Run had asked for signals, however many connections.        *)
THEOREM ShutdownIsGraceful == ServerSpec => []Graceful
<1>1. ServerInit => ConnTyped /\ Graceful
  BY DEF ServerInit, ConnTyped, Graceful
<1>2. ConnTyped /\ Graceful /\ [ServerNext]_servervars => ConnTyped' /\ Graceful'
  <2> SUFFICES ASSUME ConnTyped, Graceful, [ServerNext]_servervars
               PROVE  ConnTyped' /\ Graceful'
    OBVIOUS
  <2> USE DEF ConnTyped, Graceful
  <2>1. CASE Start \/ Serve \/ ServeEnds
    <3>1. UNCHANGED <<main, conn, h2c, late>>
      BY <2>1, Zenon DEF Start, Serve, ServeEnds
    <3> QED
      BY <3>1
  <2>2. CASE NotifySignals \/ Run \/ Timeout
    BY <2>2 DEF NotifySignals, Run, Timeout
  <2>3. CASE Shutdown
    BY <2>3 DEF Shutdown, Exit, InFlight
  <2>4. CASE Signal
    BY <2>4 DEF Signal, Exit, InFlight, Exited
  <2>5. ASSUME NEW c \in Conns, NEW hijacked \in BOOLEAN, Accept(c, hijacked)
        PROVE  ConnTyped' /\ Graceful'
    BY <2>5 DEF Accept
  <2>6. ASSUME NEW c \in Conns, Answer(c)
        PROVE  ConnTyped' /\ Graceful'
    BY <2>6 DEF Answer
  <2>7. CASE UNCHANGED servervars
    BY <2>7 DEF servervars
  <2> QED
    BY <2>1, <2>2, <2>3, <2>4, <2>5, <2>6, <2>7 DEF ServerNext, ServerSystem
<1> QED
  BY <1>1, <1>2, PTL DEF ServerSpec

-----------------------------------------------------------------------------
(* ConfigWatch. The temporary file is whole when it comes to the rename.   *)
TmpReady == pc = "rename" => tmp = "whole"

(* However often the process dies while it writes its configuration, and   *)
(* whatever the editor does meanwhile, the file is never a part of one.    *)
THEOREM OwnWritesAreWhole == ConfigSpec => []OwnWriteWhole
<1>1. ConfigInit => TmpReady /\ OwnWriteWhole
  BY DEF ConfigInit, NoFile, TmpReady, OwnWriteWhole
<1>2. TmpReady /\ OwnWriteWhole /\ [ConfigNext]_configvars => TmpReady' /\ OwnWriteWhole'
  <2> SUFFICES ASSUME TmpReady, OwnWriteWhole, [ConfigNext]_configvars
               PROVE  TmpReady' /\ OwnWriteWhole'
    OBVIOUS
  <2> USE DEF TmpReady, OwnWriteWhole
  <2>1. CASE Edit(TRUE) \/ Edit(FALSE) \/ Remove
    BY <2>1 DEF Edit, Remove, Writing, NoFile
  <2>2. CASE CreateTmp \/ Encode
    BY <2>2 DEF CreateTmp, Encode, Goto
  <2>3. CASE Rename
    BY <2>3 DEF Rename, Goto, Writing
  <2>4. CASE ConfigIsNotExistWrite \/ Setup \/ FirstStat \/ Die
    BY <2>4 DEF ConfigIsNotExistWrite, Setup, FirstStat, Die, Disk, Goto
  <2>5. CASE WatchConfig
    BY <2>5 DEF WatchConfig, Poll, Restat, SetupConfig, Callbacks, Apply, Disk, Goto
  <2>6. CASE UNCHANGED configvars
    BY <2>6 DEF configvars
  <2> QED
    BY <2>1, <2>2, <2>3, <2>4, <2>5, <2>6 DEF ConfigNext
<1> QED
  BY <1>1, <1>2, PTL DEF ConfigSpec

-----------------------------------------------------------------------------
(* FileBackup. Contents are numbered as they are handed over; what waits   *)
(* in the channel is newer than what is being written, and that newer than *)
(* what the file holds.                                                    *)
Busy == worker \in {"open", "write", "rename"}

BackupTyped ==
  /\ handed \in Nat /\ ch \in Nat /\ at \in Nat
  /\ back \in [content : Nat, whole : BOOLEAN]
  /\ source \in [content : Nat, whole : BOOLEAN]
  /\ worker \in {"select", "gone", "open", "write", "rename"}

Newer ==
  /\ source.whole
  /\ ch <= handed /\ source.content <= handed
  /\ ch # 0 => source.content < ch
  /\ Busy => source.content < at /\ at <= handed
  /\ Busy /\ ch # 0 => at < ch
  /\ worker \in {"write", "rename"} => back.content = at
  /\ worker = "rename" => back.whole

BackupInv == BackupTyped /\ Newer

(* However many contents are handed over or dropped, and however often a   *)
(* write fails or the process dies, the file stays whole and only advances. *)
THEOREM BackupAdvances == BackupSpec => SourceAdvances
<1>1. BackupInit => BackupInv
  BY DEF BackupInit, BackupInv, BackupTyped, Newer, Busy
<1>2. BackupInv /\ [BackupNext]_backupvars => BackupInv'
  <2> SUFFICES ASSUME BackupInv, [BackupNext]_backupvars
               PROVE  BackupInv'
    OBVIOUS
  <2> USE DEF BackupInv, BackupTyped, Newer, Busy
  <2>1. CASE Hand
    BY <2>1 DEF Hand
  <2>2. CASE Close
    BY <2>2 DEF Close
  <2>3. CASE Take
    BY <2>3 DEF Take
  <2>4. CASE Truncate
    <3>1. UNCHANGED <<handed, ch, at, source>> /\ worker = "open"
      BY <2>4 DEF Truncate
    <3>2. CASE worker' = "write" /\ back' = [content |-> at, whole |-> FALSE]
      BY <3>1, <3>2
    <3>3. CASE worker' = "select" /\ UNCHANGED back
      BY <3>1, <3>3
    <3> QED
      BY <2>4, <3>2, <3>3 DEF Truncate
  <2>5. CASE WriteFile
    BY <2>5 DEF WriteFile
  <2>6. CASE Renames
    BY <2>6 DEF Renames
  <2>7. CASE Crash
    BY <2>7 DEF Crash
  <2>8. CASE UNCHANGED backupvars
    BY <2>8 DEF backupvars
  <2> QED
    BY <2>1, <2>2, <2>3, <2>4, <2>5, <2>6, <2>7, <2>8 DEF BackupNext
<1>3. BackupInv /\ [BackupNext]_backupvars
        => [source'.whole /\ source'.content > source.content]_source
  BY DEF BackupInv, BackupTyped, Newer, Busy, BackupNext, backupvars,
         Hand, Close, Take, Truncate, WriteFile, Renames, Crash
<1> QED
  BY <1>1, <1>2, <1>3, PTL DEF BackupSpec, SourceAdvances
-----------------------------------------------------------------------------
(* RowUpdate.                                                              *)
Saved == {u \in Updaters : tx[u] = "done"}

RowTyped ==
  /\ tx \in [Updaters -> {"none", "read", "changed", "done", "failed"}]
  /\ model \in [Updaters -> Nat]
  /\ locker \subseteq Updaters
  /\ sqlite \in BOOLEAN

\* Whoever is between its read and its commit is alone there: the lock, or
\* the only connection, is its own.
Alone ==
  /\ locker = InUse
  /\ \A u, v \in InUse : u = v

\* It carries what the row still is, and the row counts what was saved.
Carries ==
  /\ row # Deleted => row = Cardinality(Saved)
  /\ \A u \in InUse :
       /\ row # Deleted
       /\ model[u] = IF tx[u] = "read" THEN row ELSE row + 1

RowInv == RowTyped /\ Alone /\ Carries

\* A transaction that has not been saved adds one to the count when it is.
LEMMA SavedGrows ==
  ASSUME RowTyped, NEW u \in Updaters, tx[u] # "done",
         tx' = [tx EXCEPT ![u] = "done"]
  PROVE  /\ Cardinality(Saved) \in Nat
         /\ Cardinality(Saved') = Cardinality(Saved) + 1
<1>1. IsFiniteSet(Saved)
  BY RowAssumption, FS_Subset DEF Saved
<1>2. Saved' = Saved \cup {u} /\ u \notin Saved
  BY DEF Saved, RowTyped
<1> QED
  BY <1>1, <1>2, FS_AddElement, FS_CardinalityType

\* Any other step of it leaves the count alone.
LEMMA SavedStays ==
  ASSUME RowTyped, NEW u \in Updaters, NEW to, tx[u] # "done", to # "done",
         tx' = [tx EXCEPT ![u] = to]
  PROVE  Saved' = Saved
BY DEF Saved, RowTyped

LEMMA SavedIsNat == Cardinality(Saved) \in Nat
<1>1. IsFiniteSet(Saved)
  BY RowAssumption, FS_Subset DEF Saved
<1> QED
  BY <1>1, FS_CardinalityType

LEMMA RowInductive == RowInv /\ [RowNext]_rowvars => RowInv'
<1> SUFFICES ASSUME RowInv, [RowNext]_rowvars
             PROVE  RowInv'
  OBVIOUS
<1> USE RowAssumption
<1>n. Cardinality(Saved) \in Nat
  BY SavedIsNat
<1>1. ASSUME NEW u \in Updaters, FirstForUpdate(u)
      PROVE  RowInv'
  <2>1. CASE row # Deleted /\ Move(u, "none", "read")
             /\ model' = [model EXCEPT ![u] = row] /\ locker' = locker \cup {u}
    <3>1. InUse = {}
      BY <1>1 DEF FirstForUpdate, Unlocked, Connection, RowInv, Alone, RowTyped
    <3>2. InUse' = {u}
      BY <2>1, <3>1 DEF InUse, Move, RowInv, RowTyped
    <3>3. Saved' = Saved
      BY <2>1, SavedStays DEF Move, RowInv
    <3>4. UNCHANGED <<row, sqlite>> /\ tx' = [tx EXCEPT ![u] = "read"]
      BY <1>1, <2>1 DEF FirstForUpdate, Move
    <3>5. RowTyped'
      BY <1>n, <2>1, <3>4 DEF RowInv, RowTyped, Carries
    <3>6. Alone'
      BY <2>1, <3>1, <3>2 DEF Alone, RowInv
    <3>7. Carries'
      BY <1>n, <2>1, <3>2, <3>3, <3>4 DEF Carries, RowInv, RowTyped
    <3> QED
      BY <3>5, <3>6, <3>7 DEF RowInv
  <2>2. CASE row = Deleted /\ Move(u, "none", "failed") /\ UNCHANGED <<model, locker>>
    <3>1. UNCHANGED <<row, sqlite>> /\ tx' = [tx EXCEPT ![u] = "failed"] /\ tx[u] = "none"
      BY <1>1, <2>2 DEF FirstForUpdate, Move
    <3>2. InUse' = InUse
      BY <3>1 DEF InUse, RowInv, RowTyped
    <3> QED
      BY <2>2, <3>1, <3>2 DEF RowInv, RowTyped, Alone, Carries
  <2> QED
    BY <1>1, <2>1, <2>2 DEF FirstForUpdate, Read
<1>2. ASSUME NEW u \in Updaters, ChangeFn(u)
      PROVE  RowInv'
  <2>1. tx[u] = "read" /\ u \in InUse /\ InUse = {u} /\ row # Deleted /\ model[u] = row
    BY <1>2 DEF ChangeFn, Move, RowInv, Alone, Carries, InUse
  <2>2. row \in Nat
    BY <1>n, <2>1 DEF RowInv, Carries
  <2>3. CASE Move(u, "read", "changed") /\ model' = [model EXCEPT ![u] = @ + 1]
             /\ UNCHANGED locker
    <3>1. UNCHANGED <<row, sqlite, locker>> /\ tx' = [tx EXCEPT ![u] = "changed"]
      BY <1>2, <2>3 DEF ChangeFn, Move
    <3>2. InUse' = {u} /\ tx'[u] = "changed"
      BY <2>1, <3>1 DEF InUse, RowInv, RowTyped
    <3>3. Saved' = Saved
      BY <2>1, <3>1, SavedStays DEF RowInv
    <3>4. RowTyped' /\ model'[u] = row + 1
      BY <2>1, <2>2, <2>3, <3>1 DEF RowInv, RowTyped
    <3> QED
      BY <2>1, <2>2, <3>1, <3>2, <3>3, <3>4 DEF RowInv, Alone, Carries
  <2>4. CASE Move(u, "read", "failed") /\ UNCHANGED model /\ locker' = locker \ {u}
    <3>1. UNCHANGED <<row, sqlite, model>> /\ tx' = [tx EXCEPT ![u] = "failed"]
      BY <1>2, <2>4 DEF ChangeFn, Move
    <3>2. InUse' = {}
      BY <2>1, <3>1 DEF InUse, RowInv, RowTyped
    <3>3. Saved' = Saved
      BY <2>1, <3>1, SavedStays DEF RowInv
    <3> QED
      BY <2>1, <2>4, <3>1, <3>2, <3>3 DEF RowInv, RowTyped, Alone, Carries
  <2> QED
    BY <1>2, <2>3, <2>4 DEF ChangeFn
<1>3. ASSUME NEW u \in Updaters, SaveAndCommit(u)
      PROVE  RowInv'
  <2>1. tx[u] = "changed" /\ u \in InUse /\ InUse = {u} /\ row # Deleted /\ model[u] = row + 1
    BY <1>3 DEF SaveAndCommit, Move, RowInv, Alone, Carries, InUse
  <2>2. locker' = {} /\ UNCHANGED <<sqlite, model>>
    BY <1>3, <2>1 DEF SaveAndCommit, RowInv, Alone
  <2>3. CASE Move(u, "changed", "done") /\ row' = model[u]
    <3>1. tx' = [tx EXCEPT ![u] = "done"] /\ row' = row + 1
      BY <2>1, <2>3 DEF Move
    <3>2. InUse' = {}
      BY <2>1, <3>1 DEF InUse, RowInv, RowTyped
    <3>3. Cardinality(Saved') = Cardinality(Saved) + 1
      BY <2>1, <3>1, SavedGrows DEF RowInv
    <3>4. RowTyped' /\ Alone'
      BY <2>2, <3>1, <3>2 DEF RowInv, RowTyped, Alone
    <3>5. row' = Cardinality(Saved')
      BY <2>1, <3>1, <3>3 DEF RowInv, Carries
    <3> QED
      BY <3>2, <3>4, <3>5 DEF RowInv, Carries
  <2>4. CASE Move(u, "changed", "failed") /\ UNCHANGED row
    <3>1. tx' = [tx EXCEPT ![u] = "failed"]
      BY <2>4 DEF Move
    <3>2. InUse' = {}
      BY <2>1, <3>1 DEF InUse, RowInv, RowTyped
    <3>3. Saved' = Saved
      BY <2>1, <3>1, SavedStays DEF RowInv
    <3> QED
      BY <2>2, <2>4, <3>1, <3>2, <3>3 DEF RowInv, RowTyped, Alone, Carries
  <2> QED
    BY <1>3, <2>3, <2>4 DEF SaveAndCommit
<1>4. CASE DeleteWithContext
  <2>1. InUse = {} /\ InUse' = InUse /\ Saved' = Saved
    BY <1>4 DEF DeleteWithContext, Unlocked, Connection, RowInv, Alone, RowTyped, InUse, Saved
  <2> QED
    BY <1>4, <2>1 DEF DeleteWithContext, RowInv, RowTyped, Alone, Carries
<1>5. CASE UNCHANGED rowvars
  BY <1>5 DEF rowvars, RowInv, RowTyped, Alone, Carries, InUse, Saved
<1> QED
  BY <1>1, <1>2, <1>3, <1>4, <1>5 DEF RowNext

(* No update is lost and none half made, whatever the number of calls and  *)
(* whichever of the two databases serves them: the row counts the calls    *)
(* that returned without an error, and stays deleted once it is.           *)
THEOREM UpdatesAreKept == RowSpec => NoLostUpdate
<1>1. RowInit => RowInv
  <2> SUFFICES ASSUME RowInit PROVE RowInv
    OBVIOUS
  <2>1. Saved = {} /\ InUse = {}
    BY DEF RowInit, Saved, InUse
  <2> QED
    BY <2>1, FS_EmptySet DEF RowInit, RowInv, RowTyped, Alone, Carries
<1>2. RowInv /\ [RowNext]_rowvars => RowInv'
  BY RowInductive
<1>3. RowInv /\ RowInv' /\ [RowNext]_rowvars
        => [/\ row' # Deleted => row' = Cardinality({u \in Updaters : tx'[u] = "done"})
            /\ row = Deleted => row' = Deleted]_rowvars
  <2> SUFFICES ASSUME RowInv, RowInv', [RowNext]_rowvars
               PROVE  /\ row' # Deleted => row' = Cardinality({u \in Updaters : tx'[u] = "done"})
                      /\ row = Deleted => row' = Deleted
    OBVIOUS
  <2>1. row' # Deleted => row' = Cardinality({u \in Updaters : tx'[u] = "done"})
    BY DEF RowInv, Carries, Saved
  <2>2. ASSUME row = Deleted PROVE row' = Deleted
    <3>1. InUse = {}
      BY <2>2 DEF RowInv, Carries
    <3> QED
      BY <2>2, <3>1 DEF InUse, RowNext, rowvars, FirstForUpdate, ChangeFn, SaveAndCommit,
         DeleteWithContext, Move
  <2> QED
    BY <2>1, <2>2
<1> QED
  BY <1>1, <1>2, <1>3, PTL DEF RowSpec, NoLostUpdate

-----------------------------------------------------------------------------
(* TaskGroup.                                                              *)
Pending == {t \in Tasks : task[t] \in {"added", "running", "returned", "panicked"}}

GroupInv ==
  /\ task \in [Tasks -> {"none", "added", "running", "returned", "panicked", "done"}]
  /\ count = Cardinality(Pending)
  /\ helper # "none" => caller # "starts"
  /\ caller = "unsafe" => helper # "none"
  /\ helper = "closed" => Pending = {}

LEMMA PendingFinite == IsFiniteSet(Pending) /\ Cardinality(Pending) \in Nat
<1>1. IsFiniteSet(Pending)
  BY TasksAssumption, FS_Subset DEF Pending
<1> QED
  BY <1>1, FS_CardinalityType

LEMMA GroupInductive == GroupInv /\ [GroupNext]_groupvars => GroupInv'
<1> SUFFICES ASSUME GroupInv, [GroupNext]_groupvars
             PROVE  GroupInv'
  OBVIOUS
<1>f. IsFiniteSet(Pending) /\ Cardinality(Pending) \in Nat
  BY PendingFinite
<1>1. ASSUME NEW t \in Tasks, GoRun(t)
      PROVE  GroupInv'
  <2>1. Pending' = Pending \cup {t} /\ t \notin Pending
    BY <1>1 DEF GoRun, GroupInv, Pending
  <2>2. Cardinality(Pending') = count + 1
    BY <1>f, <2>1, FS_AddElement DEF GroupInv
  <2>3. helper # "closed"
    BY <1>1 DEF GoRun, May, GroupInv, Pending
  <2> QED
    BY <1>1, <2>2, <2>3 DEF GoRun, GroupInv
<1>2. ASSUME NEW t \in Tasks, Begin(t) \/ Ends(t)
      PROVE  GroupInv'
  <2>1. Pending' = Pending /\ UNCHANGED <<count, caller, helper>>
    BY <1>2 DEF Begin, Ends, GroupInv, Pending
  <2>2. task' \in [Tasks -> {"none", "added", "running", "returned", "panicked", "done"}]
    BY <1>2 DEF Begin, Ends, GroupInv
  <2> QED
    BY <2>1, <2>2 DEF GroupInv
<1>3. ASSUME NEW t \in Tasks, DoneDeferred(t)
      PROVE  GroupInv'
  <2>1. Pending' = Pending \ {t} /\ t \in Pending
    BY <1>3 DEF DoneDeferred, Done, GroupInv, Pending
  <2>2. Cardinality(Pending') = count - 1
    BY <1>f, <2>1, FS_RemoveElement DEF GroupInv
  <2> QED
    BY <1>3, <2>1, <2>2 DEF DoneDeferred, Done, GroupInv
<1>4. CASE Wait \/ UnsafeWaitWithContext \/ Waits("wait") \/ Waits("unsafe") \/ UNCHANGED groupvars
  <2>1. Pending' = Pending
    BY <1>4 DEF Wait, UnsafeWaitWithContext, Waits, groupvars, Pending
  <2> QED
    BY <1>4, <2>1 DEF Wait, UnsafeWaitWithContext, Waits, groupvars, GroupInv
<1>5. CASE HelperWait
  <2>1. Pending' = Pending /\ Pending = {}
    BY <1>5, <1>f, FS_EmptySet DEF HelperWait, GroupInv, Pending
  <2> QED
    BY <1>5, <2>1 DEF HelperWait, GroupInv
<1> QED
  BY <1>1, <1>2, <1>3, <1>4, <1>5 DEF GroupNext, GroupSystem

(* For any number of tasks, started by the caller or by one another, that  *)
(* return or panic: when a wait returns without an error all have ended.   *)
THEOREM WaitsSeeAll == GroupSpec => WaitSeesAll
<1>1. GroupInit => GroupInv
  <2> SUFFICES ASSUME GroupInit PROVE GroupInv
    OBVIOUS
  <2>1. Pending = {}
    BY DEF GroupInit, Pending
  <2> QED
    BY <2>1, FS_EmptySet DEF GroupInit, GroupInv
<1>2. GroupInv /\ [GroupNext]_groupvars => GroupInv'
  BY GroupInductive
<1>3. GroupInv /\ [GroupNext]_groupvars
        => [caller' = "all done" /\ caller # "all done" => \A t \in Tasks : ~Running(t)]_groupvars
  <2> SUFFICES ASSUME GroupInv, GroupNext, caller' = "all done", caller # "all done"
               PROVE  \A t \in Tasks : ~Running(t)
    OBVIOUS
  <2>1. Wait \/ (UnsafeWaitWithContext /\ helper = "closed")
    BY DEF GroupNext, GroupSystem, GoRun, Begin, Ends, DoneDeferred, Done, HelperWait, Waits,
       UnsafeWaitWithContext
  <2>2. Pending = {}
    BY <2>1, PendingFinite, FS_EmptySet DEF Wait, GroupInv
  <2> QED
    BY <2>2 DEF Pending, Running
<1> QED
  BY <1>1, <1>2, <1>3, PTL DEF GroupSpec, WaitSeesAll

-----------------------------------------------------------------------------
(* TokenDelay. The marker of one token, its two writers and the one sweep. *)

MarkerTypes ==
  /\ data \in [Tokens -> {"mark", None}]
  /\ exp \in [Tokens -> Nat \cup {None}]
  /\ now \in Nat
  /\ th \in [Procs \cup Cleaners -> M!Frame]
  /\ live \in Cleaners
  /\ decided \in [Tokens -> Nat \cup {None}]

(* Callers are in a LoadOrStore or idle, the first clean-up loop sweeps,   *)
(* no other runs.                                                          *)
MarkerCalls ==
  /\ \A p \in Procs :
       /\ th[p].pc \in {"idle", "losData"}
       /\ th[p].pc = "losData" => th[p].key \in Tokens /\ th[p].val = "mark"
  /\ \A c \in Cleaners :
       /\ kind[c] = (IF c = live THEN "ticker" ELSE "off")
       /\ c # live => th[c].pc = "idle"
       /\ th[c].pc \in {"idle", "sweep", "delData", "delExp"}
       /\ th[c].pc # "idle" => th[c].op = "Sweep" /\ th[c].at <= now
       /\ th[c].pc \in {"delData", "delExp"} => th[c].key \in Tokens

Marking(p, k) == th[p].pc = "losData" /\ th[p].key = k

Removing(k) == th[live].pc = "delData" /\ th[live].key = k
Cleaning(k) == th[live].pc = "delExp" /\ th[live].key = k

(* A marker's life has passed since the last decision, but for the lag.    *)
Elapsed(k) == decided[k] # None => now + MaxLag > decided[k] + Window

MarkerInv(k) ==
  /\ \A p \in Procs :
       Marking(p, k) =>
         /\ th[p].at <= now /\ now <= th[p].at + MaxLag
         /\ exp[k] # None => exp[k] >= th[p].at + Window
  /\ decided[k] # None =>
       /\ decided[k] <= now
       /\ exp[k] # None => exp[k] + MaxLag >= decided[k] + Window
  /\ Removing(k) => Elapsed(k) /\ (data[k] # None \/ MaxLag > Window)
  /\ data[k] = None /\ exp[k] # None =>
       Cleaning(k) \/ \E p \in Procs : Marking(p, k)
  /\ data[k] = None => Elapsed(k)

DelayInv == MarkerTypes /\ MarkerCalls /\ \A k \in Tokens : MarkerInv(k)

LEMMA DelayInitInv == DelayInit => DelayInv
<1> SUFFICES ASSUME DelayInit PROVE DelayInv
  OBVIOUS
<1> USE GrantAssumption, MarkerAssumption
    DEF DelayInit, M!Init, M!Threads, M!Rest
<1>1. MarkerTypes
  BY DEF MarkerTypes, M!Frame, M!AllOps, M!Labels
<1>2. MarkerCalls
  BY DEF MarkerCalls
<1>3. \A k \in Tokens : MarkerInv(k)
  BY DEF MarkerInv, Marking, Removing, Cleaning, Elapsed
<1> QED
  BY <1>1, <1>2, <1>3 DEF DelayInv

(* A step that writes neither a marker, nor a deadline, nor a decision     *)
(* under k, and is no part of a LoadOrStore or a removal of k, changes     *)
(* nothing under k.                                                        *)
LEMMA SweepKept ==
  ASSUME DelayInv, NEW k \in Tokens,
         data'[k] = data[k], exp'[k] = exp[k], decided'[k] = decided[k],
         now' = now, \A p \in Procs : th'[p] = th[p],
         ~Removing(k)' \/ Removing(k), ~Cleaning(k) \/ Cleaning(k)'
  PROVE  MarkerInv(k)'
<1>1. MarkerInv(k)
  BY DEF DelayInv
<1>2. \A p \in Procs : Marking(p, k)' <=> Marking(p, k)
  BY DEF Marking
<1> QED
  BY <1>1, <1>2 DEF MarkerInv, Elapsed

LEMMA CallKept ==
  ASSUME DelayInv, NEW k \in Tokens, NEW p \in Procs,
         data'[k] = data[k], exp'[k] = exp[k], decided'[k] = decided[k],
         now' = now, live' = live, th'[live] = th[live],
         \A q \in Procs : q # p => th'[q] = th[q],
         ~Marking(p, k), ~Marking(p, k)'
  PROVE  MarkerInv(k)'
<1>1. MarkerInv(k)
  BY DEF DelayInv
<1>2. \A q \in Procs : Marking(q, k)' <=> Marking(q, k)
  BY DEF Marking
<1>3. \A q \in Procs : Marking(q, k)' => th'[q] = th[q]
  OBVIOUS
<1>4. /\ Removing(k)' <=> Removing(k)
      /\ Cleaning(k)' <=> Cleaning(k)
  BY DEF Removing, Cleaning
<1> QED
  BY <1>1, <1>2, <1>3, <1>4 DEF MarkerInv, Elapsed

LEMMA DelayNextInv == DelayInv /\ [DelayNext]_delayvars => DelayInv'
<1> SUFFICES ASSUME DelayInv, [DelayNext]_delayvars PROVE DelayInv'
  OBVIOUS
<1> USE GrantAssumption, MarkerAssumption
<1>0. /\ MarkerTypes /\ MarkerCalls
      /\ \A k \in Tokens : MarkerInv(k)
  BY DEF DelayInv
<1>a. /\ \A t \in Procs \cup Cleaners : th[t] \in M!Frame
      /\ \A t \in Procs \cup Cleaners : th[t].at \in Nat /\ th[t].todo \subseteq Tokens
  BY <1>0 DEF MarkerTypes, M!Frame
<1>1. ASSUME NEW p \in Procs, NEW g \in Tokens, DelayToken(p, g)
      PROVE  DelayInv'
  <2> DEFINE f == [op |-> "LoadOrStore", pc |-> "losData", key |-> g,
                   val |-> "mark", todo |-> {}, at |-> now]
  <2>1. /\ th' = [th EXCEPT ![p] = f] /\ exp' = [exp EXCEPT ![g] = now + Window]
        /\ th[p].pc = "idle"
        /\ UNCHANGED <<data, now, kind, live, decided>>
    BY <1>1 DEF DelayToken, M!LoadOrStore, M!Enter, M!At
  <2>2. f \in M!Frame
    BY <1>0 DEF MarkerTypes, M!Frame, M!AllOps, M!Labels
  <2>3. MarkerTypes'
    BY <1>0, <2>1, <2>2 DEF MarkerTypes
  <2>4. /\ th'[p] = f /\ \A t \in (Procs \cup Cleaners) \ {p} : th'[t] = th[t]
    BY <1>0, <2>1 DEF MarkerTypes
  <2>5. MarkerCalls'
    BY <1>0, <2>1, <2>4 DEF MarkerCalls
  <2>6. ASSUME NEW k \in Tokens PROVE MarkerInv(k)'
    <3>1. CASE k # g
      <4>1. exp'[k] = exp[k]
        BY <1>0, <2>1, <3>1 DEF MarkerTypes
      <4>2. live \in Cleaners /\ live # p /\ th'[live] = th[live]
        BY <1>0, <2>4 DEF MarkerTypes
      <4>3. ~Marking(p, k) /\ ~Marking(p, k)'
        BY <2>1, <2>4, <3>1 DEF Marking
      <4>4. \A q \in Procs : q # p => th'[q] = th[q]
        BY <2>4
      <4> QED
        BY <2>1, <4>1, <4>2, <4>3, <4>4, CallKept
    <3>2. CASE k = g
      <4>1. exp'[k] = now + Window /\ Marking(p, k)'
        BY <1>0, <2>1, <2>4, <3>2 DEF MarkerTypes, Marking
      <4>2. live \in Cleaners /\ live # p /\ th'[live] = th[live]
        BY <1>0, <2>4 DEF MarkerTypes
      <4>3. MarkerInv(k) /\ now \in Nat /\ decided[k] \in Nat \cup {None}
        BY <1>0 DEF MarkerTypes
      <4> QED
        BY <1>a, <2>1, <2>4, <4>1, <4>2, <4>3 DEF MarkerInv, Marking, Removing, Cleaning, Elapsed
    <3> QED
      BY <3>1, <3>2
  <2> QED
    BY <2>3, <2>5, <2>6 DEF DelayInv
<1>2. ASSUME NEW p \in Procs, Mark(p)
      PROVE  DelayInv'
  <2> DEFINE g == th[p].key
  <2>1. th[p].pc = "losData" /\ g \in Tokens /\ th[p].val = "mark"
    BY <1>0, <1>2 DEF Mark, M!LoadOrStoreData, M!At, MarkerCalls
  <2>2. th' = [th EXCEPT ![p] = M!Rest] /\ UNCHANGED <<exp, now, kind, live>>
    BY <1>2 DEF Mark, M!LoadOrStoreData, M!Return
  <2>3. \/ data[g] # None /\ UNCHANGED <<data, decided>>
        \/ /\ data[g] = None /\ data' = [data EXCEPT ![g] = "mark"]
           /\ decided' = [decided EXCEPT ![g] = now]
    BY <1>2, <2>1 DEF Mark, M!LoadOrStoreData, M!Put, MarkerFound, MarkerSet
  <2>4. M!Rest \in M!Frame
    BY DEF M!Rest, M!Frame, M!AllOps, M!Labels
  <2>5. MarkerTypes'
    BY <1>0, <2>1, <2>2, <2>3, <2>4 DEF MarkerTypes
  <2>6. th'[p] = M!Rest /\ \A t \in (Procs \cup Cleaners) \ {p} : th'[t] = th[t]
    BY <1>0, <2>2 DEF MarkerTypes
  <2>7. MarkerCalls'
    BY <1>0, <2>2, <2>6 DEF MarkerCalls, M!Rest
  <2>8. live \in Cleaners /\ live # p /\ th'[live] = th[live]
    BY <1>0, <2>6 DEF MarkerTypes
  <2>9. ASSUME NEW k \in Tokens PROVE MarkerInv(k)'
    <3>1. MarkerInv(k) /\ now \in Nat /\ decided[k] \in Nat \cup {None}
          /\ exp[k] \in Nat \cup {None}
      BY <1>0 DEF MarkerTypes
    <3>2. CASE k # g
      <4>1. data'[k] = data[k] /\ decided'[k] = decided[k]
        BY <1>0, <2>3, <3>2 DEF MarkerTypes
      <4>2. ~Marking(p, k) /\ ~Marking(p, k)'
        BY <2>6, <3>2 DEF Marking, M!Rest
      <4>3. \A q \in Procs : q # p => th'[q] = th[q]
        BY <2>6
      <4> QED
        BY <2>2, <2>8, <4>1, <4>2, <4>3, CallKept
    <3>3. CASE k = g /\ data[k] # None /\ UNCHANGED <<data, decided>>
      BY <2>2, <2>6, <2>8, <3>1, <3>3 DEF MarkerInv, Marking, Removing, Cleaning, Elapsed, M!Rest
    <3>4. CASE k = g /\ data[k] = None /\ data' = [data EXCEPT ![g] = "mark"]
               /\ decided' = [decided EXCEPT ![g] = now]
      <4>1. data'[k] = "mark" /\ decided'[k] = now
        BY <1>0, <3>4 DEF MarkerTypes
      <4>2. Marking(p, k)
        BY <2>1, <3>4 DEF Marking
      <4>3. /\ exp[k] # None => exp[k] >= th[p].at + Window
            /\ now <= th[p].at + MaxLag
        BY <3>1, <4>2 DEF MarkerInv
      <4>4. exp[k] # None => exp[k] + MaxLag >= now + Window
        BY <1>a, <3>1, <4>3
      <4>5. Removing(k)' => MaxLag > Window
        BY <2>8, <2>2, <3>1, <3>4 DEF MarkerInv, Removing
      <4>6. Removing(k)' => Elapsed(k)'
        BY <2>2, <3>1, <4>1, <4>5 DEF Elapsed
      <4>7. \A q \in Procs : Marking(q, k)' => Marking(q, k) /\ th'[q] = th[q]
        BY <2>6 DEF Marking, M!Rest
      <4> QED
        BY <2>2, <3>1, <4>1, <4>4, <4>5, <4>6, <4>7 DEF MarkerInv
    <3> QED
      BY <2>3, <3>2, <3>3, <3>4
  <2> QED
    BY <2>5, <2>7, <2>9 DEF DelayInv
<1>3. ASSUME NEW p \in Procs, DelayTokenNow(p)
      PROVE  DelayInv'
  BY <1>0, <1>3
  DEF DelayTokenNow, DelayInv, MarkerTypes, MarkerCalls, MarkerInv, Marking,
      Removing, Cleaning, Elapsed
<1>4. ASSUME NEW c \in Cleaners, Sweep(c)
      PROVE  DelayInv'
  <2>1. CASE c = live
    <3>0. /\ th[live].pc \in {"idle", "sweep", "delData", "delExp"}
          /\ kind[live] = "ticker" /\ live \in Cleaners /\ live \notin Procs
          /\ th[live].pc # "idle" => th[live].op = "Sweep" /\ th[live].at <= now
          /\ th[live].pc \in {"delData", "delExp"} => th[live].key \in Tokens
          /\ th[live].todo \subseteq Tokens /\ th[live].at \in Nat
      BY <1>0, <1>a DEF MarkerTypes, MarkerCalls
    <3>1. /\ \/ M!SweepStart(live) \/ M!SweepVisit(live) \/ M!SweepEnd(live)
             \/ M!DelData(live) \/ M!DelExp(live)
          /\ UNCHANGED decided
      BY <1>4, <2>1, <3>0
      DEF Sweep, M!CleanerStep, M!Continue, M!FixedTimeClear, M!ClearData,
          M!ClearExp, M!At
    <3>2. UNCHANGED <<now, kind, live, decided>>
      BY <3>1 DEF M!SweepStart, M!SweepVisit, M!SweepEnd, M!DelData, M!DelExp
    \* Once the sweep's own frame is known to be one, the rest is about keys.
    <3>3. ASSUME NEW f \in M!Frame, th' = [th EXCEPT ![live] = f],
                 f.pc \in {"idle", "sweep", "delData", "delExp"},
                 f.pc # "idle" => f.op = "Sweep" /\ f.at <= now,
                 f.pc \in {"delData", "delExp"} => f.key \in Tokens,
                 data' \in [Tokens -> {"mark", None}],
                 exp' \in [Tokens -> Nat \cup {None}]
          PROVE  /\ MarkerTypes' /\ MarkerCalls'
                 /\ th'[live] = f
                 /\ \A p \in Procs : th'[p] = th[p]
      BY <1>0, <3>0, <3>2, <3>3 DEF MarkerTypes, MarkerCalls
    <3>4. CASE M!SweepStart(live)
      <4> DEFINE f == [op |-> "Sweep", pc |-> "sweep", key |-> None, val |-> None,
                       todo |-> Tokens, at |-> now]
      <4>1. f \in M!Frame /\ now <= now
        BY <1>0 DEF MarkerTypes, M!Frame, M!AllOps, M!Labels
      <4>2. th' = [th EXCEPT ![live] = f] /\ UNCHANGED <<data, exp>>
            /\ th[live].pc = "idle"
        BY <3>4 DEF M!SweepStart, M!EnterRange, M!At
      <4>3. /\ MarkerTypes' /\ MarkerCalls' /\ th'[live] = f
            /\ \A p \in Procs : th'[p] = th[p]
        BY <1>0, <3>3, <4>1, <4>2 DEF MarkerTypes
      <4>4. ASSUME NEW k \in Tokens PROVE MarkerInv(k)'
        <5>1. ~Removing(k)' /\ ~Cleaning(k)
          BY <3>2, <4>2, <4>3 DEF Removing, Cleaning
        <5> QED
          BY <3>2, <4>2, <4>3, <5>1, SweepKept
      <4> QED
        BY <4>3, <4>4 DEF DelayInv
    <3>5. CASE M!SweepVisit(live)
      <4>1. PICK g \in th[live].todo :
              \/ /\ M!Passed(g, th[live].at)
                 /\ th' = [th EXCEPT ![live].pc = "delData", ![live].key = g,
                                     ![live].todo = @ \ {g}]
              \/ th' = [th EXCEPT ![live].todo = @ \ {g}]
        BY <3>5 DEF M!SweepVisit
      <4>2. g \in Tokens /\ th[live].pc = "sweep" /\ UNCHANGED <<data, exp>>
        BY <3>0, <3>5 DEF M!SweepVisit, M!At
      <4>3. CASE M!Passed(g, th[live].at)
                 /\ th' = [th EXCEPT ![live].pc = "delData", ![live].key = g,
                                     ![live].todo = @ \ {g}]
        <5> DEFINE f == [op |-> th[live].op, pc |-> "delData", key |-> g,
                         val |-> th[live].val, todo |-> th[live].todo \ {g},
                         at |-> th[live].at]
        <5>1. f \in M!Frame /\ th' = [th EXCEPT ![live] = f]
          BY <1>0, <1>a, <3>0, <4>2, <4>3 DEF MarkerTypes, M!Frame, M!Labels
        <5>2. /\ MarkerTypes' /\ MarkerCalls' /\ th'[live] = f
              /\ \A p \in Procs : th'[p] = th[p]
          BY <1>0, <3>0, <3>3, <4>2, <5>1 DEF MarkerTypes
        <5>3. ASSUME NEW k \in Tokens PROVE MarkerInv(k)'
          <6>1. CASE k # g
            <7>1. ~Removing(k)' /\ ~Cleaning(k)
              BY <3>2, <4>2, <5>2, <6>1 DEF Removing, Cleaning
            <7> QED
              BY <3>2, <4>2, <5>2, <7>1, SweepKept
          <6>2. CASE k = g
            <7>1. /\ exp[k] \in Nat /\ th[live].at > exp[k] /\ now \in Nat
                  /\ decided[k] \in Nat \cup {None} /\ th[live].at <= now
              BY <1>0, <3>0, <4>2, <4>3, <6>2 DEF M!Passed, MarkerTypes
            <7>2. MarkerInv(k)
              BY <1>0
            <7>3. Elapsed(k)
              BY <3>0, <7>1, <7>2 DEF MarkerInv, Elapsed
            <7>4. data[k] # None \/ MaxLag > Window
              <8>1. SUFFICES ASSUME data[k] = None PROVE MaxLag > Window
                OBVIOUS
              <8>2. PICK p \in Procs : Marking(p, k)
                BY <4>2, <7>1, <7>2, <8>1 DEF MarkerInv, Cleaning
              <8>3. exp[k] >= th[p].at + Window /\ now <= th[p].at + MaxLag
                BY <7>1, <7>2, <8>2 DEF MarkerInv
              <8> QED
                BY <1>a, <3>0, <7>1, <8>3
            <7>5. \A p \in Procs : Marking(p, k)' <=> Marking(p, k)
              BY <5>2 DEF Marking
            <7>6. ~Cleaning(k)
              BY <4>2 DEF Cleaning
            <7> QED
              BY <3>2, <4>2, <5>2, <7>2, <7>3, <7>4, <7>5, <7>6
              DEF MarkerInv, Elapsed
          <6> QED
            BY <6>1, <6>2
        <5> QED
          BY <5>2, <5>3 DEF DelayInv
      <4>4. CASE th' = [th EXCEPT ![live].todo = @ \ {g}]
        <5> DEFINE f == [th[live] EXCEPT !.todo = th[live].todo \ {g}]
        <5>1. /\ f \in M!Frame /\ f.pc = "sweep" /\ f.key = th[live].key
              /\ f.op = th[live].op /\ f.at = th[live].at
          BY <1>a, <3>0, <4>2 DEF M!Frame, M!Labels
        <5>a. th' = [th EXCEPT ![live] = f]
          BY <4>4
        <5>2. /\ MarkerTypes' /\ MarkerCalls' /\ th'[live] = f
              /\ \A p \in Procs : th'[p] = th[p]
          BY <1>0, <3>0, <3>3, <4>2, <5>a, <5>1 DEF MarkerTypes
        <5>3. ASSUME NEW k \in Tokens PROVE MarkerInv(k)'
          <6>1. ~Removing(k)' /\ ~Cleaning(k)
            BY <3>2, <4>2, <5>1, <5>2 DEF Removing, Cleaning
          <6> QED
            BY <3>2, <4>2, <5>2, <6>1, SweepKept
        <5> QED
          BY <5>2, <5>3 DEF DelayInv
      <4> QED
        BY <4>1, <4>3, <4>4
    <3>6. CASE M!SweepEnd(live)
      <4>1. M!Rest \in M!Frame
        BY DEF M!Rest, M!Frame, M!AllOps, M!Labels
      <4>2. th' = [th EXCEPT ![live] = M!Rest] /\ UNCHANGED <<data, exp>>
            /\ th[live].pc = "sweep" /\ M!Rest.pc = "idle"
        BY <3>6 DEF M!SweepEnd, M!Return, M!At, M!Rest
      <4>3. /\ MarkerTypes' /\ MarkerCalls' /\ th'[live] = M!Rest
            /\ \A p \in Procs : th'[p] = th[p]
        BY <1>0, <3>3, <4>1, <4>2 DEF MarkerTypes
      <4>4. ASSUME NEW k \in Tokens PROVE MarkerInv(k)'
        <5>1. ~Removing(k)' /\ ~Cleaning(k)
          BY <3>2, <4>2, <4>3 DEF Removing, Cleaning
        <5> QED
          BY <3>2, <4>2, <4>3, <5>1, SweepKept
      <4> QED
        BY <4>3, <4>4 DEF DelayInv
    <3>7. CASE M!DelData(live)
      <4> DEFINE g == th[live].key
                 f == [th[live] EXCEPT !.pc = "delExp"]
      <4>1. /\ th[live].pc = "delData" /\ g \in Tokens /\ UNCHANGED exp
            /\ data' = [data EXCEPT ![g] = None]
            /\ th' = [th EXCEPT ![live] = f]
        BY <1>0, <3>0, <3>7 DEF M!DelData, M!At, M!Goto, MarkerTypes
      <4>2. f \in M!Frame /\ f.pc = "delExp" /\ f.key = g /\ f.op = th[live].op
            /\ f.at = th[live].at
        BY <1>a, <3>0 DEF M!Frame, M!Labels
      <4>3. /\ MarkerTypes' /\ MarkerCalls' /\ th'[live] = f
            /\ \A p \in Procs : th'[p] = th[p]
        BY <1>0, <3>0, <3>3, <4>1, <4>2 DEF MarkerTypes
      <4>4. ASSUME NEW k \in Tokens PROVE MarkerInv(k)'
        <5>1. CASE k # g
          <6>1. data'[k] = data[k]
            BY <1>0, <4>1, <5>1 DEF MarkerTypes
          <6>2. ~Removing(k)' /\ ~Cleaning(k)
            BY <3>2, <4>1, <4>2, <4>3, <5>1 DEF Removing, Cleaning
          <6> QED
            BY <3>2, <4>1, <4>3, <6>1, <6>2, SweepKept
        <5>2. CASE k = g
          <6>1. MarkerInv(k) /\ Elapsed(k)
            BY <1>0, <4>1, <5>2 DEF MarkerInv, Removing
          <6>2. /\ ~Removing(k)' /\ Cleaning(k)'
                /\ \A p \in Procs : Marking(p, k)' <=> Marking(p, k)
            BY <3>2, <4>2, <4>3, <5>2 DEF Removing, Cleaning, Marking
          <6> QED
            BY <3>2, <4>1, <4>3, <6>1, <6>2 DEF MarkerInv, Elapsed
        <5> QED
          BY <5>1, <5>2
      <4> QED
        BY <4>3, <4>4 DEF DelayInv
    <3>8. CASE M!DelExp(live)
      <4> DEFINE g == th[live].key
                 f == [th[live] EXCEPT !.pc = "sweep"]
      <4>1. /\ th[live].pc = "delExp" /\ g \in Tokens /\ UNCHANGED data
            /\ exp' = [exp EXCEPT ![g] = None]
            /\ th' = [th EXCEPT ![live] = f]
        BY <1>0, <3>0, <3>8 DEF M!DelExp, M!At, M!Goto, MarkerTypes
      <4>2. f \in M!Frame /\ f.pc = "sweep" /\ f.key = g /\ f.op = th[live].op
            /\ f.at = th[live].at
        BY <1>a, <3>0 DEF M!Frame, M!Labels
      <4>3. /\ MarkerTypes' /\ MarkerCalls' /\ th'[live] = f
            /\ \A p \in Procs : th'[p] = th[p]
        BY <1>0, <3>0, <3>3, <4>1, <4>2 DEF MarkerTypes
      <4>4. ASSUME NEW k \in Tokens PROVE MarkerInv(k)'
        <5>1. CASE k # g
          <6>1. exp'[k] = exp[k]
            BY <1>0, <4>1, <5>1 DEF MarkerTypes
          <6>2. ~Removing(k)' /\ ~Cleaning(k)
            BY <3>2, <4>1, <4>2, <4>3, <5>1 DEF Removing, Cleaning
          <6> QED
            BY <3>2, <4>1, <4>3, <6>1, <6>2, SweepKept
        <5>2. CASE k = g
          <6>1. MarkerInv(k) /\ exp'[k] = None
            BY <1>0, <4>1, <5>2 DEF MarkerTypes
          <6>2. /\ ~Removing(k)'
                /\ \A p \in Procs : Marking(p, k)' <=> Marking(p, k)
            BY <3>2, <4>2, <4>3, <5>2 DEF Removing, Marking
          <6> QED
            BY <3>2, <4>1, <4>3, <6>1, <6>2 DEF MarkerInv, Elapsed
        <5> QED
          BY <5>1, <5>2
      <4> QED
        BY <4>3, <4>4 DEF DelayInv
    <3> QED
      BY <3>1, <3>4, <3>5, <3>6, <3>7, <3>8
  <2>2. CASE c # live
    BY <1>0, <1>4, <2>2
    DEF Sweep, M!CleanerStep, M!Continue, M!SweepStart, M!SweepVisit, M!SweepEnd,
        M!FixedTimeClear, M!DelData, M!DelExp, M!ClearData, M!ClearExp, M!At,
        MarkerCalls
  <2> QED
    BY <2>1, <2>2
<1>5. CASE DelayTick
  <2>1. /\ now' = now + 1 /\ UNCHANGED <<data, exp, th, kind, live, decided>>
        /\ \A p \in Procs : th[p].pc = "losData" => now < th[p].at + MaxLag
    BY <1>5 DEF DelayTick, M!Tick, Prompt, M!At
  <2>2. MarkerTypes' /\ MarkerCalls'
    BY <1>0, <1>a, <2>1 DEF MarkerTypes, MarkerCalls
  <2>3. ASSUME NEW k \in Tokens PROVE MarkerInv(k)'
    <3>1. MarkerInv(k) /\ now \in Nat /\ decided[k] \in Nat \cup {None}
          /\ exp[k] \in Nat \cup {None}
      BY <1>0 DEF MarkerTypes
    <3>2. Elapsed(k) => Elapsed(k)'
      BY <2>1, <3>1 DEF Elapsed
    <3>3. \A p \in Procs : Marking(p, k)' =>
            /\ Marking(p, k) /\ th'[p].at = th[p].at /\ th[p].at \in Nat
            /\ now + 1 <= th[p].at + MaxLag
      BY <1>a, <2>1, <3>1 DEF Marking
    <3>4. Removing(k)' <=> Removing(k)
      BY <2>1 DEF Removing
    <3>5. \A p \in Procs : Marking(p, k)' <=> Marking(p, k)
      BY <2>1 DEF Marking
    <3>6. Cleaning(k)' <=> Cleaning(k)
      BY <2>1 DEF Cleaning
    <3> QED
      BY <2>1, <3>1, <3>2, <3>3, <3>4, <3>5, <3>6 DEF MarkerInv
  <2> QED
    BY <2>2, <2>3 DEF DelayInv
<1>6. CASE UNCHANGED delayvars
  BY <1>0, <1>6
  DEF delayvars, DelayInv, MarkerTypes, MarkerCalls, MarkerInv, Marking,
      Removing, Cleaning, Elapsed
<1> QED
  BY <1>1, <1>2, <1>3, <1>4, <1>5, <1>6 DEF DelayNext

(* Two decisions to extend one token are a marker's life apart, less the   *)
(* lag of one call: DelayToken is rate-limited for any number of callers,  *)
(* although LoadOrStore renews the deadline before it looks for the marker *)
(* and the sweep removes marker and deadline one after the other.          *)
THEOREM DelaysApart == DelaySpec => OncePerWindow
<1> DEFINE Apart ==
      \A k \in Tokens :
        decided'[k] # decided[k] /\ decided[k] # None
          => now + MaxLag > decided[k] + Window
<1>1. ASSUME DelayInv, [DelayNext]_delayvars
      PROVE  [Apart]_decided
  <2>1. CASE \E p \in Procs : Mark(p)
    <3>1. PICK p \in Procs : Mark(p)
      BY <2>1
    <3>2. \/ UNCHANGED decided
          \/ data[th[p].key] = None /\ decided' = [decided EXCEPT ![th[p].key] = now]
      BY <3>1 DEF Mark, MarkerFound, MarkerSet
    <3>3. ASSUME NEW k \in Tokens, decided'[k] # decided[k] PROVE Elapsed(k)
      BY <1>1, <3>2, <3>3 DEF DelayInv, MarkerTypes, MarkerInv
    <3> QED
      BY <3>3 DEF Elapsed
  <2>2. CASE ~\E p \in Procs : Mark(p)
    BY <1>1, <2>2
    DEF DelayNext, DelayToken, DelayTokenNow, Sweep, DelayTick, delayvars
  <2> QED
    BY <2>1, <2>2
<1>2. DelaySpec => []DelayInv
  BY DelayInitInv, DelayNextInv, PTL DEF DelaySpec
<1>3. [][Apart]_decided => OncePerWindow
  BY DEF OncePerWindow
<1> HIDE DEF Apart
<1> QED
  BY <1>1, <1>2, <1>3, PTL DEF DelaySpec

-----------------------------------------------------------------------------
(* EmptyDirs. While nobody interferes and every directory is recent, the   *)
(* counts are those of what is left, and what is left has all the files.   *)
Tree == parent \in [1..MaxDir -> Dirs] /\ \A d \in 1..MaxDir : parent[d] < d

Inside(d) == {e \in there : e # 0 /\ parent[e] = d}

\* The root has a key when it held something at the start.
RootCounted == 0 \in had \/ \E d \in 1..MaxDir : parent[d] = 0

DirsTyped ==
  /\ Tree /\ there \subseteq Dirs /\ files \subseteq there /\ had \subseteq Dirs
  /\ \A e \in there : e # 0 => parent[e] \in there
  /\ stage \in {"walk", "remove", "done"} /\ disturbed \in BOOLEAN

CountsRight ==
  /\ files = had
  /\ DOMAIN dirFileCount = {d \in there : d # 0 \/ RootCounted}
  /\ ~RootCounted => 0 \in there
  /\ \A d \in DOMAIN dirFileCount :
       dirFileCount[d] = Cardinality(Inside(d)) + IF d \in files THEN 1 ELSE 0

DirsInv ==
  /\ DirsTyped
  /\ stage = "walk" => there = Dirs /\ files = had
  /\ stage # "walk" /\ ~disturbed /\ recent = Dirs => CountsRight
  /\ stage = "done" /\ ~disturbed =>
       \A d \in DOMAIN dirFileCount : dirFileCount[d] # 0

(* A set of numbers has a least one, and one within bounds a greatest one. *)
Less == {p \in Nat \X Nat : p[1] < p[2]}

LEMMA LeastNumber ==
  ASSUME NEW T, T \subseteq Nat, T # {}
  PROVE  \E x \in T : \A y \in T : x <= y
<1>1. IsWellFoundedOn(Less, Nat)
  BY NatLessThanWellFounded DEF OpToRel, Less
<1>2. PICK x \in T : \A y \in T : <<y, x>> \notin Less
  BY <1>1, WFMin, Zenon
<1>3. ASSUME NEW y \in T PROVE x <= y
  <2>1. x \in Nat /\ y \in Nat
    OBVIOUS
  <2>2. ~(y < x)
    BY <1>2, <2>1 DEF Less
  <2> QED
    BY <2>1, <2>2
<1> QED
  BY <1>3

LEMMA GreatestDir ==
  ASSUME NEW T, T \subseteq Dirs, T # {}
  PROVE  \E x \in T : \A y \in T : y <= x
<1> DEFINE R == {MaxDir - x : x \in T}
<1>1. R \subseteq Nat /\ R # {}
  <2>1. ASSUME NEW x \in T PROVE MaxDir - x \in Nat
    <3>1. x \in 0..MaxDir
      BY Zenon DEF Dirs
    <3> QED
      BY <3>1, DirsAssumption
  <2> QED
    BY <2>1, Zenon
<1>2. PICK r \in R : \A y \in R : r <= y
  BY <1>1, LeastNumber, Zenon
<1>3. PICK x \in T : r = MaxDir - x
  OBVIOUS
<1>4. \A y \in T : MaxDir - x <= MaxDir - y
  BY <1>2, <1>3
<1>5. \A y \in T : y <= x
  BY <1>4, DirsAssumption DEF Dirs
<1> QED
  BY <1>5

(* There is a function that does as Up says, so Up does: the directories   *)
(* above d are those in every set that holds d and the parents of its own. *)
LEMMA UpUnfolds ==
  ASSUME Tree
  PROVE  \A d \in Dirs : Up[d] = IF d = 0 THEN {0} ELSE {d} \cup Up[parent[d]]
<1> DEFINE Closed(S) == \A x \in S : x # 0 => parent[x] \in S
           C(d) == {e \in Dirs : \A S \in SUBSET Dirs : d \in S /\ Closed(S) => e \in S}
           f == [d \in Dirs |-> C(d)]
           F(g) == [d \in Dirs |-> IF d = 0 THEN {0} ELSE {d} \cup g[parent[d]]]
<1>1. /\ 0 \in Dirs /\ \A d \in Dirs : d # 0 => d \in 1..MaxDir
      /\ \A d \in Dirs : d # 0 => parent[d] \in Dirs
  BY DirsAssumption DEF Dirs, Tree
<1>2. C(0) = {0}
  <2>1. Closed({0}) /\ {0} \in SUBSET Dirs
    BY <1>1
  <2> QED
    BY <1>1, <2>1, Zenon
<1>3. ASSUME NEW d \in Dirs, d # 0 PROVE C(d) = {d} \cup C(parent[d])
  <2> DEFINE p == parent[d]
             S == {d} \cup C(p)
  <2>1. p \in Dirs /\ p \in C(p)
    BY <1>1, <1>3, Zenon
  <2>2. ASSUME NEW x \in C(p), x # 0 PROVE parent[x] \in C(p)
    BY <1>1, <2>2, Zenon
  <2>3. Closed(S) /\ S \in SUBSET Dirs
    BY <2>1, <2>2, Zenon
  <2>4. C(d) \subseteq S
    BY <2>3, Zenon
  <2>5. ASSUME NEW e \in C(p) PROVE e \in C(d)
    BY <1>3, Zenon
  <2>6. d \in C(d)
    OBVIOUS
  <2> QED
    BY <2>4, <2>5, <2>6, Zenon
<1>4. f = F(f)
  <2> SUFFICES ASSUME NEW d \in Dirs PROVE f[d] = IF d = 0 THEN {0} ELSE {d} \cup f[parent[d]]
    BY Zenon
  <2> HIDE DEF C
  <2>1. f[d] = C(d)
    BY Zenon
  <2>2. d # 0 => f[parent[d]] = C(parent[d])
    BY <1>1, Zenon
  <2> HIDE DEF f
  <2> QED
    BY <1>2, <1>3, <2>1, <2>2, Zenon
<1> HIDE DEF f
<1>5. Up = CHOOSE g : g = F(g)
  BY Zenon DEF Up
<1>6. Up = F(Up)
  BY <1>4, <1>5, Zenon
<1> QED
  BY <1>6, Zenon

LEMMA UpClosed ==
  ASSUME Tree
  PROVE  /\ \A d \in Dirs : d \in Up[d]
         /\ \A d \in Dirs : d # 0 => Up[parent[d]] \subseteq Up[d]
         /\ \A d \in Dirs : \A e \in Up[d] : e # 0 => parent[e] \in Up[d]
         /\ \A d \in Dirs : \A S : d \in S /\ S \subseteq Dirs
              /\ (\A x \in S : x # 0 => parent[x] \in S) => Up[d] \subseteq S
<1>1. \A d \in Dirs : Up[d] = IF d = 0 THEN {0} ELSE {d} \cup Up[parent[d]]
  BY UpUnfolds
<1>2. /\ 0 \in Dirs /\ Dirs \subseteq Nat
      /\ \A d \in Dirs : d # 0 => parent[d] \in Dirs /\ parent[d] < d
  BY DirsAssumption DEF Dirs, Tree
<1>3. \A d \in Dirs : d \in Up[d]
  BY <1>1, Zenon
<1>4. \A d \in Dirs : d # 0 => Up[parent[d]] \subseteq Up[d]
  BY <1>1, Zenon
<1>5. ASSUME NEW U, U \subseteq Dirs, U # {}
      PROVE  \E d \in U : d = 0 \/ parent[d] \in Dirs \ U
  <2>1. U \subseteq Nat
    BY <1>2, <1>5
  <2>2. PICK d \in U : \A y \in U : d <= y
    BY <2>1, <1>5, LeastNumber, Zenon
  <2>3. d # 0 => parent[d] \notin U
    <3> SUFFICES ASSUME d # 0, parent[d] \in U PROVE FALSE
      OBVIOUS
    <3>1. d <= parent[d] /\ parent[d] < d
      BY <1>2, <1>5, <2>2
    <3>2. d \in Nat /\ parent[d] \in Nat
      BY <2>1
    <3> QED
      BY <3>1, <3>2
  <2> QED
    BY <1>2, <1>5, <2>2, <2>3, Zenon
<1>6. ASSUME NEW c \in Dirs PROVE \A e \in Up[c] : e # 0 => parent[e] \in Up[c]
  <2> DEFINE Q(d) == \A e \in Up[d] : e # 0 => parent[e] \in Up[d]
             U == {d \in Dirs : ~Q(d)}
  <2>1. ASSUME NEW d \in Dirs, d = 0 \/ Q(parent[d]) PROVE Q(d)
    <3>1. CASE d = 0
      BY <1>1, <3>1, Zenon
    <3>2. CASE d # 0
      BY <1>1, <1>2, <1>3, <2>1, <3>2, Zenon
    <3> QED
      BY <3>1, <3>2
  <2> HIDE DEF Q
  <2>2. U = {}
    <3> SUFFICES ASSUME U # {} PROVE FALSE
      OBVIOUS
    <3>1. U \subseteq Dirs
      BY Zenon
    <3>2. PICK d \in U : d = 0 \/ parent[d] \in Dirs \ U
      BY <1>5, <3>1, Zenon
    <3>3. d = 0 \/ Q(parent[d])
      BY <3>2, Zenon
    <3> QED
      BY <2>1, <3>3, Zenon
  <2> QED
    BY <2>2, Zenon DEF Q
<1>7. ASSUME NEW c \in Dirs, NEW S, c \in S, S \subseteq Dirs,
             \A x \in S : x # 0 => parent[x] \in S
      PROVE  Up[c] \subseteq S
  <2> DEFINE U == {d \in S : ~(Up[d] \subseteq S)}
  <2>1. ASSUME NEW d \in S, d = 0 \/ (parent[d] \in S /\ Up[parent[d]] \subseteq S)
        PROVE  Up[d] \subseteq S
    <3>1. d \in Dirs
      BY <1>7, Zenon
    <3>2. CASE d = 0
      BY <1>1, <3>1, <3>2, Zenon
    <3>3. CASE d # 0
      <4>1. Up[d] = {d} \cup Up[parent[d]]
        BY <1>1, <3>1, <3>3, Zenon
      <4> QED
        BY <2>1, <3>3, <4>1, Zenon
    <3> QED
      BY <3>2, <3>3
  <2>2. U \subseteq Dirs
    BY <1>7, Zenon
  <2>3. U = {}
    <3> SUFFICES ASSUME U # {} PROVE FALSE
      OBVIOUS
    <3>1. PICK d \in U : d = 0 \/ parent[d] \in Dirs \ U
      BY <1>5, <2>2, Zenon
    <3> QED
      BY <1>7, <2>1, <3>1, Zenon
  <2> QED
    BY <1>7, <2>3, Zenon
<1> QED
  BY <1>3, <1>4, <1>6, <1>7, Zenon


(* Below a directory that holds no directory is only itself.               *)
LEMMA BelowEmpty ==
  ASSUME DirsTyped, NEW d \in there, Inside(d) = {}
  PROVE  Below(d) = {d}
<1>1. Tree /\ there \subseteq Dirs /\ \A e \in there : e # 0 => parent[e] \in there
  BY DEF DirsTyped
<1>2. d \in Below(d)
  BY <1>1, UpClosed, Zenon DEF Below
<1>3. ASSUME NEW e \in there, e # d PROVE e \notin Below(d)
  <2> DEFINE S == there \ {d}
  <2>1. e \in S /\ S \subseteq Dirs /\ e \in Dirs
    BY <1>1, <1>3
  <2>2. \A x \in S : x # 0 => parent[x] \in S
    BY <1>1, Zenon DEF Inside
  <2>3. Up[e] \subseteq S
    BY <1>1, <2>1, <2>2, UpClosed, Zenon
  <2> QED
    BY <2>3, Zenon DEF Below
<1>4. Below(d) \subseteq there
  BY DEF Below
<1> QED
  BY <1>2, <1>3, <1>4, Zenon

LEMMA InsideFinite ==
  ASSUME DirsTyped, NEW d
  PROVE  IsFiniteSet(Inside(d)) /\ Cardinality(Inside(d)) \in Nat
<1>1. IsFiniteSet(Dirs)
  BY FS_Interval, DirsAssumption DEF Dirs
<1>2. Inside(d) \subseteq Dirs
  BY DEF Inside, DirsTyped
<1>3. IsFiniteSet(Inside(d))
  BY <1>1, <1>2, FS_Subset
<1> QED
  BY <1>3, FS_CardinalityType

LEMMA DirsInitInv == DirsInit => DirsInv
<1> SUFFICES ASSUME DirsInit PROVE DirsInv
  OBVIOUS
<1>1. there = Dirs /\ files = had /\ had \subseteq Dirs /\ stage = "walk" /\ Tree
  BY DEF DirsInit, Tree
<1>2. disturbed \in BOOLEAN
  BY DEF DirsInit
<1>3. \A e \in Dirs : e # 0 => parent[e] \in Dirs
  BY <1>1, DirsAssumption DEF Dirs, Tree
<1>4. stage # "done" /\ stage \in {"walk", "remove", "done"}
  BY <1>1
<1>5. DirsTyped
  BY <1>1, <1>2, <1>3, <1>4, Zenon DEF DirsTyped
<1> QED
  BY <1>1, <1>4, <1>5, Zenon DEF DirsInv

LEMMA WalkKept ==
  ASSUME DirsInv, Walk
  PROVE  DirsInv'
<1>1. /\ stage = "walk" /\ stage' = "remove"
      /\ dirFileCount' = [d \in {e \in Walked : e # 0 \/ Entries(e) > 0} |-> Entries(d)]
      /\ parent' = parent /\ files' = files /\ recent' = recent /\ there' = there
      /\ disturbed' = disturbed /\ had' = had
  BY DEF Walk
<1>2. DirsTyped /\ there = Dirs /\ files = had
  BY <1>1 DEF DirsInv
<1>3. DirsTyped'
  BY <1>1, <1>2 DEF DirsTyped, Tree
<1>4. ASSUME recent = Dirs PROVE CountsRight'
  <2>1. Walked = Dirs
    <3>1. \A d \in Dirs : Up[d] \subseteq Dirs
      <4>1. \A x \in Dirs : x # 0 => parent[x] \in Dirs
        BY <1>2, Zenon DEF DirsTyped
      <4> QED
        BY <1>2, <4>1, UpClosed, Zenon DEF DirsTyped
    <3> QED
      BY <1>4, <3>1, Zenon DEF Walked
  <2>2. \A d : {e \in Walked \ {0} : parent[e] = d} = Inside(d)
    BY <1>2, <2>1, Zenon DEF Inside
  <2>3. \A d : Entries(d) = Cardinality(Inside(d)) + IF d \in files THEN 1 ELSE 0
    BY <2>2, Zenon DEF Entries
  <2>4. \A d : Inside(d)' = Inside(d)
    BY <1>1 DEF Inside
  <2>5. Entries(0) > 0 <=> RootCounted
    <3>1. IsFiniteSet(Inside(0)) /\ Cardinality(Inside(0)) \in Nat
      BY <1>2, InsideFinite
    <3>2. Cardinality(Inside(0)) = 0 <=> Inside(0) = {}
      BY <3>1, FS_EmptySet
    <3>3. Inside(0) # {} <=> \E d \in 1..MaxDir : parent[d] = 0
      BY <1>2, DirsAssumption DEF Inside, Dirs
    <3>4. Entries(0) > 0 <=> (0 \in files \/ Cardinality(Inside(0)) # 0)
      <4> DEFINE n == Cardinality(Inside(0))
      <4>1. Entries(0) = n + IF 0 \in files THEN 1 ELSE 0
        BY <2>3
      <4>2. n \in Nat
        BY <3>1
      <4> HIDE DEF n
      <4> QED
        BY <4>1, <4>2 DEF n
    <3> QED
      BY <1>2, <3>2, <3>3, <3>4, Zenon DEF RootCounted
  <2>6. RootCounted' <=> RootCounted
    BY <1>1 DEF RootCounted
  <2>7. DOMAIN dirFileCount' = {e \in Dirs : e # 0 \/ RootCounted}
    BY <1>1, <2>1, <2>5
  <2>8. 0 \in there
    BY <1>2, DirsAssumption DEF Dirs
  <2>9. \A d \in DOMAIN dirFileCount' :
          dirFileCount'[d] = Cardinality(Inside(d)) + IF d \in files THEN 1 ELSE 0
    BY <1>1, <2>3, <2>7, Zenon
  <2> QED
    BY <1>1, <1>2, <2>4, <2>6, <2>7, <2>8, <2>9, Zenon DEF CountsRight
<1>5. stage' # "walk" /\ stage' # "done"
  BY <1>1
<1> QED
  BY <1>1, <1>3, <1>4, <1>5, Zenon DEF DirsInv

(* A directory that goes is one that its parent holds no more.             *)
LEMMA RemoveKept ==
  ASSUME DirsInv, NEW d \in Dirs, RemoveAll(d)
  PROVE  DirsInv'
<1>1. /\ stage = "remove" /\ stage' = "remove"
      /\ d \in DOMAIN dirFileCount /\ dirFileCount[d] = 0
      /\ there' = there \ Below(d) /\ files' = files \ Below(d)
      /\ dirFileCount' = Uncounted(d)
      /\ parent' = parent /\ recent' = recent /\ disturbed' = disturbed /\ had' = had
  BY DEF RemoveAll
<1>2. DirsTyped
  BY DEF DirsInv
<1>3. DirsTyped'
  <2>1. Tree' /\ there' \subseteq Dirs /\ files' \subseteq there'
        /\ had' \subseteq Dirs /\ stage' \in {"walk", "remove", "done"}
        /\ disturbed' \in BOOLEAN
    BY <1>1, <1>2 DEF DirsTyped, Tree
  <2>2. ASSUME NEW e \in there', e # 0 PROVE parent'[e] \in there'
    <3>1. e \in there /\ e \notin Below(d) /\ parent[e] \in there /\ e \in Dirs
      BY <1>1, <1>2, <2>2, Zenon DEF DirsTyped
    <3>2. Up[parent[e]] \subseteq Up[e]
      BY <1>2, <2>2, <3>1, UpClosed, Zenon DEF DirsTyped
    <3>3. parent[e] \notin Below(d)
      BY <3>1, <3>2, Zenon DEF Below
    <3> QED
      BY <1>1, <3>1, <3>3, Zenon
  <2> QED
    BY <2>1, <2>2, Zenon DEF DirsTyped
<1>4. ASSUME ~disturbed, recent = Dirs PROVE CountsRight'
  <2>1. CountsRight
    BY <1>1, <1>4 DEF DirsInv
  <2>2. d \in there /\ (d # 0 \/ RootCounted)
    BY <1>1, <2>1 DEF CountsRight
  <2>3. Inside(d) = {} /\ d \notin files
    <3> DEFINE n == Cardinality(Inside(d))
    <3>1. IsFiniteSet(Inside(d)) /\ n \in Nat
      BY <1>2, InsideFinite
    <3>2. 0 = n + IF d \in files THEN 1 ELSE 0
      BY <1>1, <2>1 DEF CountsRight
    <3>3. n = 0 => Inside(d) = {}
      BY <3>1, FS_EmptySet
    <3> HIDE DEF n
    <3>4. n = 0 /\ d \notin files
      BY <3>1, <3>2
    <3> QED
      BY <3>3, <3>4
  <2>4. Below(d) = {d}
    BY <1>2, <2>2, <2>3, BelowEmpty, Zenon
  <2>5. there' = there \ {d} /\ files' = files /\ files' = had'
    BY <1>1, <2>1, <2>3, <2>4, Zenon DEF CountsRight
  <2>6. RootCounted' <=> RootCounted
    BY <1>1 DEF RootCounted
  <2>7. DOMAIN dirFileCount' = {e \in there' : e # 0 \/ RootCounted}
    <3>1. DOMAIN dirFileCount' = DOMAIN dirFileCount \ {d}
      BY <1>1, Zenon DEF Uncounted
    <3>2. DOMAIN dirFileCount = {e \in there : e # 0 \/ RootCounted}
      BY <2>1, Zenon DEF CountsRight
    <3> QED
      BY <2>5, <3>1, <3>2
  <2>8. ~RootCounted => 0 \in there'
    BY <2>1, <2>2, <2>5 DEF CountsRight
  <2>9. ASSUME NEW e \in DOMAIN dirFileCount'
        PROVE  dirFileCount'[e] = Cardinality(Inside(e)') + IF e \in files' THEN 1 ELSE 0
    <3> DEFINE n == Cardinality(Inside(e))
    <3>1. e \in DOMAIN dirFileCount /\ e # d /\ e \in there
      BY <2>5, <2>7, <2>9, <2>1, Zenon DEF CountsRight
    <3>2. dirFileCount[e] = n + IF e \in files THEN 1 ELSE 0
      BY <2>1, <3>1, Zenon DEF CountsRight
    <3>3. dirFileCount'[e] = IF d # 0 /\ e = parent[d] THEN dirFileCount[e] - 1
                                                      ELSE dirFileCount[e]
      BY <1>1, <3>1, Zenon DEF Uncounted
    <3>4. Inside(e)' = Inside(e) \ {d}
      BY <1>1, <2>5, Zenon DEF Inside
    <3>5. IsFiniteSet(Inside(e)) /\ n \in Nat
      BY <1>2, InsideFinite
    <3>6. CASE d # 0 /\ e = parent[d]
      <4>1. d \in Inside(e)
        BY <2>2, <3>6, Zenon DEF Inside
      <4>2. Cardinality(Inside(e) \ {d}) = n - 1
        BY <3>5, <4>1, FS_RemoveElement
      <4>3. Cardinality(Inside(e)') = n - 1
        BY <3>4, <4>2, Zenon
      <4>4. e \in files' <=> e \in files
        BY <2>5
      <4>5. dirFileCount'[e] = dirFileCount[e] - 1
        BY <3>3, <3>6
      <4> DEFINE m == Cardinality(Inside(e)')
      <4> HIDE DEF n, m
      <4>6. CASE e \in files
        <5>1. dirFileCount'[e] = m + 1
          BY <3>2, <3>5, <4>3, <4>5, <4>6 DEF m
        <5> QED
          BY <4>4, <4>6, <5>1, Zenon DEF m
      <4>7. CASE e \notin files
        <5>1. dirFileCount'[e] = m + 0
          BY <3>2, <3>5, <4>3, <4>5, <4>7 DEF m
        <5> QED
          BY <4>4, <4>7, <5>1, Zenon DEF m
      <4> QED
        BY <4>6, <4>7
    <3>7. CASE ~(d # 0 /\ e = parent[d])
      <4>1. d \notin Inside(e)
        BY <3>7, Zenon DEF Inside
      <4>2. Inside(e)' = Inside(e)
        BY <3>4, <4>1, Zenon
      <4> QED
        BY <2>5, <3>2, <3>3, <3>7, <4>2, Zenon
    <3> QED
      BY <3>6, <3>7
  <2> QED
    BY <2>5, <2>6, <2>7, <2>8, <2>9, Zenon DEF CountsRight
<1>5. stage' # "walk" /\ stage' # "done"
  BY <1>1
<1> QED
  BY <1>1, <1>3, <1>4, <1>5, Zenon DEF DirsInv

LEMMA DirsNextInv == DirsInv /\ [DirsNext]_dirvars => DirsInv'
<1> SUFFICES ASSUME DirsInv, [DirsNext]_dirvars PROVE DirsInv'
  OBVIOUS
<1>1. CASE Walk
  BY <1>1, WalkKept
<1>2. CASE Ended
  <2>1. /\ stage = "remove" /\ stage' = "done"
        /\ (disturbed' <=> disturbed \/ \E d \in DOMAIN dirFileCount : dirFileCount[d] = 0)
        /\ disturbed' \in BOOLEAN
        /\ parent' = parent /\ files' = files /\ recent' = recent /\ there' = there
        /\ dirFileCount' = dirFileCount /\ had' = had
    BY <1>2 DEF Ended
  <2>2. DirsTyped'
    BY <2>1 DEF DirsInv, DirsTyped, Tree
  <2>3. recent' = Dirs /\ ~disturbed' => CountsRight'
    <3> SUFFICES ASSUME recent' = Dirs, ~disturbed' PROVE CountsRight'
      OBVIOUS
    <3>1. CountsRight
      BY <2>1 DEF DirsInv
    <3> QED
      BY <2>1, <3>1 DEF CountsRight, RootCounted, Inside
  <2>4. ~disturbed' => \A d \in DOMAIN dirFileCount' : dirFileCount'[d] # 0
    BY <2>1, Zenon
  <2>5. stage' # "walk"
    BY <2>1
  <2> QED
    BY <2>2, <2>3, <2>4, <2>5, Zenon DEF DirsInv
<1>3. ASSUME NEW d \in Dirs, RemoveAll(d) PROVE DirsInv'
  BY <1>3, RemoveKept
<1>4. ASSUME NEW d \in Dirs, FileWritten(d) PROVE DirsInv'
  <2>1. /\ stage = "remove" /\ d \in there /\ files' = files \cup {d}
        /\ disturbed' = TRUE /\ stage' = stage
        /\ parent' = parent /\ recent' = recent /\ there' = there /\ had' = had
    BY <1>4 DEF FileWritten
  <2>2. DirsTyped'
    BY <2>1 DEF DirsInv, DirsTyped, Tree
  <2>3. disturbed' /\ stage' # "walk"
    BY <2>1
  <2> QED
    BY <2>2, <2>3, Zenon DEF DirsInv
<1>5. CASE UNCHANGED dirvars
  <2>1. /\ stage' = stage /\ disturbed' = disturbed /\ dirFileCount' = dirFileCount
        /\ parent' = parent /\ files' = files /\ recent' = recent /\ there' = there
        /\ had' = had
    BY <1>5 DEF dirvars
  <2>2. DirsTyped'
    BY <2>1 DEF DirsInv, DirsTyped, Tree
  <2>3. CountsRight' <=> CountsRight
    BY <2>1 DEF CountsRight, RootCounted, Inside
  <2> QED
    BY <2>1, <2>2, <2>3, Zenon DEF DirsInv
<1> QED
  BY <1>1, <1>2, <1>3, <1>4, <1>5, Zenon DEF DirsNext

(* Undisturbed, the directories that held no file are gone and no others,  *)
(* for every tree of directories: were one left, take the deepest of them; *)
(* its count is not zero, so it holds a file or a deeper one.              *)
THEOREM EmptyAreGone == DirsSpec => []EmptyDirsGone
<1>1. DirsInv => EmptyDirsGone
  <2> DEFINE full == UNION {Up[d] : d \in had}
  <2> SUFFICES ASSUME DirsInv, stage = "done", ~disturbed, recent = Dirs
               PROVE  there = IF \E d \in 1..MaxDir : parent[d] = 0
                              THEN full ELSE full \cup {0}
    BY DEF EmptyDirsGone
  <2>1. /\ DirsTyped /\ CountsRight
        /\ \A d \in DOMAIN dirFileCount : dirFileCount[d] # 0
    <3>1. stage # "walk"
      OBVIOUS
    <3> QED
      BY <3>1, Zenon DEF DirsInv
  <2>2. /\ Tree /\ files = had /\ had \subseteq there /\ there \subseteq Dirs
        /\ \A e \in there : e # 0 => parent[e] \in there
    BY <2>1, Zenon DEF DirsTyped, CountsRight
  <2>3. full \subseteq there
    <3>1. \A d \in had : Up[d] \subseteq there
      BY <2>2, UpClosed, Zenon
    <3> QED
      BY <3>1, Zenon
  <2>4. ASSUME NEW c \in there, c # 0 \/ RootCounted PROVE c \in full
    <3> DEFINE T == {x \in there : x \notin full /\ (x # 0 \/ RootCounted)}
    <3> SUFFICES ASSUME T # {} PROVE FALSE
      BY <2>4, Zenon
    <3>1. T \subseteq Dirs
      BY <2>2
    <3>2. PICK x \in T : \A y \in T : y <= x
      BY <3>1, GreatestDir, Zenon
    <3>3. x \in DOMAIN dirFileCount
      BY <2>1, <3>2, Zenon DEF CountsRight
    <3>4. x \notin files
      <4>1. x \in files => x \in Up[x]
        BY <2>2, UpClosed, Zenon
      <4> QED
        BY <2>2, <3>2, <4>1, Zenon
    <3>5. Inside(x) # {}
      <4> SUFFICES ASSUME Inside(x) = {} PROVE FALSE
        OBVIOUS
      <4>1. Cardinality(Inside(x)) = 0
        BY FS_EmptySet
      <4>2. dirFileCount[x] = 0 + 0
        BY <2>1, <3>3, <3>4, <4>1 DEF CountsRight
      <4> QED
        BY <2>1, <3>3, <4>2
    <3>6. PICK e \in there : e # 0 /\ parent[e] = x
      BY <3>5, Zenon DEF Inside
    <3>7. e \notin full
      <4> SUFFICES ASSUME e \in full PROVE FALSE
        OBVIOUS
      <4>1. PICK d \in had : e \in Up[d]
        BY Zenon
      <4>2. x \in Up[d]
        BY <2>2, <3>6, <4>1, UpClosed, Zenon
      <4> QED
        BY <3>2, <4>2, Zenon
    <3>8. e <= x
      BY <3>2, <3>6, <3>7, Zenon
    <3>9. e \in Nat /\ x \in Nat /\ x < e
      BY <2>2, <3>6, DirsAssumption DEF Tree, Dirs
    <3> QED
      BY <3>8, <3>9
  <2>5. CASE \E d \in 1..MaxDir : parent[d] = 0
    <3>1. RootCounted
      BY <2>5, Zenon DEF RootCounted
    <3>2. there \subseteq full
      BY <2>4, <3>1, Zenon
    <3> QED
      BY <2>3, <2>5, <3>2, Zenon
  <2>6. CASE ~\E d \in 1..MaxDir : parent[d] = 0
    <3>1. there \subseteq full \cup {0}
      BY <2>4, Zenon
    <3>2. 0 \in there
      <4>1. CASE 0 \in had
        BY <2>2, <4>1, Zenon
      <4>2. CASE 0 \notin had
        BY <2>1, <2>6, <4>2, Zenon DEF CountsRight, RootCounted
      <4> QED
        BY <4>1, <4>2
    <3> QED
      BY <2>3, <2>6, <3>1, <3>2, Zenon
  <2> QED
    BY <2>5, <2>6
<1> QED
  BY <1>1, DirsInitInv, DirsNextInv, PTL DEF DirsSpec
=============================================================================
