----------------------------- MODULE FileBackup -----------------------------
(***************************************************************************)
(* system.FileBackup: callers hand over the content of a file, a goroutine *)
(* writes it beside the file and renames it. The n-th content handed over  *)
(* is n; the process may die at any point and be started again.            *)
(***************************************************************************)
EXTENDS Naturals

CONSTANTS MaxHanded, MaxCrashes    \* bounds

VARIABLES
  handed,    \* how many contents were handed over
  ch,        \* what is in the channel of capacity 1, or 0
  quit,      \* Close was called
  worker,    \* the goroutine of start
  at,        \* the content it is writing
  back,      \* the .back file: [content, whole]
  source,    \* the file itself
  crashes

backupvars == <<handed, ch, quit, worker, at, back, source, crashes>>

BackupInit ==
  /\ handed = 0 /\ ch = 0 /\ quit = FALSE /\ worker = "select" /\ at = 0 /\ crashes = 0
  /\ back = [content |-> 0, whole |-> TRUE] /\ source = back

\* A content that finds the channel full is dropped.
Hand ==
  /\ handed < MaxHanded /\ handed' = handed + 1
  /\ ch' = IF ch = 0 THEN handed + 1 ELSE ch
  /\ UNCHANGED <<quit, worker, at, back, source, crashes>>

Close ==
  /\ ~quit /\ quit' = TRUE
  /\ UNCHANGED <<handed, ch, worker, at, back, source, crashes>>

\* The select takes either, when both are there: what waits is then lost.
Take ==
  /\ worker = "select"
  /\ \/ quit /\ worker' = "gone" /\ UNCHANGED <<ch, at>>
     \/ ch # 0 /\ at' = ch /\ ch' = 0 /\ worker' = "open"
  /\ UNCHANGED <<handed, quit, back, source, crashes>>

Truncate ==
  /\ worker = "open"
  /\ \/ worker' = "write" /\ back' = [content |-> at, whole |-> FALSE]
     \/ worker' = "select" /\ UNCHANGED back
  /\ UNCHANGED <<handed, ch, quit, at, source, crashes>>

\* Mutant: the rename follows a write that failed.
RenameHalf ==
  /\ worker = "write" /\ worker' = "rename"
  /\ \/ back' = [back EXCEPT !.whole = TRUE]
     \/ UNCHANGED back
  /\ UNCHANGED <<handed, ch, quit, at, source, crashes>>

WriteFile ==
  /\ worker = "write"
  /\ \/ worker' = "rename" /\ back' = [back EXCEPT !.whole = TRUE]
     \/ worker' = "select" /\ UNCHANGED back
  /\ UNCHANGED <<handed, ch, quit, at, source, crashes>>

Renames ==
  /\ worker = "rename" /\ worker' = "select"
  /\ source' = back \/ UNCHANGED source
  /\ UNCHANGED <<handed, ch, quit, at, back, crashes>>

Crash ==
  /\ crashes < MaxCrashes /\ crashes' = crashes + 1
  /\ ch' = 0 /\ quit' = FALSE /\ worker' = "select" /\ at' = 0
  /\ UNCHANGED <<handed, back, source>>

BackupNext == Hand \/ Close \/ Take \/ Truncate \/ WriteFile \/ Renames \/ Crash

-----------------------------------------------------------------------------
(* Through failed writes, drops, Close and crashes the file is always      *)
(* whole, and is replaced only by a content handed over later.             *)
SourceAdvances ==
  [][source' # source => source'.whole /\ source'.content > source.content]_source
=============================================================================
