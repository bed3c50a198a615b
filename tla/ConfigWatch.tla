---------------------------- MODULE ConfigWatch ----------------------------
(***************************************************************************)
(* config.toml: main writes a default one if there is none and reads it,   *)
(* WatchConfig polls its modification time and puts what it reads in       *)
(* force, an editor changes it at any time, in one write or in several.    *)
(* Modification times increase with every write: a file is known by its    *)
(* time. The process may die at any point and be started again.            *)
(***************************************************************************)
EXTENDS Naturals

CONSTANTS MaxWrites, MaxDeaths    \* bounds

VARIABLES
  file,      \* config.toml: [time, whole, own]; time 0: it is not there
  tmp,       \* config.toml.tmp: "none", "half" or "whole"
  clock,     \* the time of the last write
  pc,        \* where the process stands
  lastMod, seen, cfg,   \* the local variables; the files in newBC and in bc
  rejected,  \* history: the last file a callback refused
  deaths

configvars == <<file, tmp, clock, pc, lastMod, seen, cfg, rejected, deaths>>

NoFile == [time |-> 0, whole |-> FALSE, own |-> FALSE]
There == file.time > 0

ConfigInit ==
  /\ file \in {NoFile, [time |-> 1, whole |-> TRUE, own |-> FALSE]}
  /\ tmp = "none" /\ clock = 1 /\ pc = "down" /\ deaths = 0
  /\ lastMod = 0 /\ seen = NoFile /\ cfg = NoFile /\ rejected = 0

Goto(here, there) == pc = here /\ pc' = there
Disk == <<file, tmp, clock>>
Memory == <<lastMod, seen, cfg, rejected>>
Writing(whole, own) ==
  /\ clock < MaxWrites /\ clock' = clock + 1
  /\ file' = [time |-> clock + 1, whole |-> whole, own |-> own]

-----------------------------------------------------------------------------
(* The editor: some writes leave half a file for the next one to complete. *)

Edit(whole) ==
  /\ Writing(whole, FALSE)
  /\ UNCHANGED <<tmp, pc, Memory, deaths>>

Remove ==
  /\ There /\ file' = NoFile
  /\ UNCHANGED <<tmp, clock, pc, Memory, deaths>>

-----------------------------------------------------------------------------
(* The start.                                                              *)

ConfigIsNotExistWrite ==
  /\ \/ There /\ Goto("down", "setup")
     \/ ~There /\ Goto("down", "create")
  /\ UNCHANGED <<Disk, Memory, deaths>>

\* WriteConfig: the temporary file is emptied, filled and renamed. When it
\* cannot be written, main goes on to read a file that may not be there.
CreateTmp ==
  /\ Goto("create", "encode") /\ tmp' = "half"
  /\ UNCHANGED <<file, clock, Memory, deaths>>

Encode ==
  /\ \/ Goto("encode", "rename") /\ tmp' = "whole"
     \/ Goto("encode", "setup") /\ UNCHANGED tmp
  /\ UNCHANGED <<file, clock, Memory, deaths>>

\* Mutant: the temporary file is renamed although it could not be written.
RenameAnyway ==
  /\ Goto("rename", "setup") \/ Goto("encode", "setup")
  /\ Writing(tmp = "whole", TRUE) /\ tmp' = "none"
  /\ UNCHANGED <<Memory, deaths>>

Rename ==
  /\ Goto("rename", "setup")
  /\ Writing(tmp = "whole", TRUE) /\ tmp' = "none"
  /\ UNCHANGED <<Memory, deaths>>

\* Half a file is an error, or is taken for a whole one.
Setup ==
  /\ \/ There /\ Goto("setup", "stat") /\ cfg' = file
     \/ ~file.whole /\ Goto("setup", "down") /\ UNCHANGED cfg
  /\ UNCHANGED <<Disk, lastMod, seen, rejected, deaths>>

\* The first stat comes after the read: a change in between goes unseen.
FirstStat ==
  /\ \/ There /\ Goto("stat", "poll") /\ lastMod' = file.time
     \/ ~There /\ Goto("stat", "unwatched") /\ UNCHANGED lastMod
  /\ UNCHANGED <<Disk, seen, cfg, rejected, deaths>>

-----------------------------------------------------------------------------
(* The watcher's loop.                                                     *)

Poll ==
  /\ There /\ file.time > lastMod /\ Goto("poll", "restat")
  /\ UNCHANGED <<Disk, Memory, deaths>>

\* After the debounce.
Restat ==
  /\ \/ There /\ Goto("restat", "read") /\ lastMod' = file.time
     \/ ~There /\ Goto("restat", "poll") /\ UNCHANGED lastMod
  /\ UNCHANGED <<Disk, seen, cfg, rejected, deaths>>

SetupConfig ==
  /\ \/ There /\ Goto("read", "call") /\ seen' = file
     \/ ~file.whole /\ Goto("read", "poll") /\ UNCHANGED seen
  /\ UNCHANGED <<Disk, lastMod, cfg, rejected, deaths>>

Callbacks ==
  /\ \/ Goto("call", "apply") /\ UNCHANGED rejected
     \/ Goto("call", "poll") /\ rejected' = seen.time
  /\ UNCHANGED <<Disk, lastMod, seen, cfg, deaths>>

\* Mutant: the time noted is that of the file as it is in the end.
ApplyNotes ==
  /\ Goto("apply", "poll") /\ cfg' = seen /\ lastMod' = file.time
  /\ UNCHANGED <<Disk, seen, rejected, deaths>>

Apply ==
  /\ Goto("apply", "poll") /\ cfg' = seen
  /\ UNCHANGED <<Disk, lastMod, seen, rejected, deaths>>

Die ==
  /\ deaths < MaxDeaths /\ pc # "down"
  /\ deaths' = deaths + 1 /\ pc' = "down" /\ lastMod' = 0 /\ seen' = NoFile /\ cfg' = NoFile
  /\ UNCHANGED <<Disk, rejected>>

WatchConfig == Poll \/ Restat \/ SetupConfig \/ Callbacks \/ Apply

ConfigNext ==
  \/ Edit(TRUE) \/ Edit(FALSE) \/ Remove
  \/ ConfigIsNotExistWrite \/ CreateTmp \/ Encode \/ Rename \/ Setup \/ FirstStat
  \/ WatchConfig \/ Die

-----------------------------------------------------------------------------
(* A change the watcher can see is not missed, although it may come while  *)
(* an earlier one is waited for, read or handed to the callbacks: the file *)
(* comes into force, unless a callback refuses it, another write or the    *)
(* file's removal overtakes it, or the process ends.                       *)
Watching == pc \in {"poll", "restat", "read", "call", "apply"}

ChangeTakesEffect ==
  \A t \in 1..MaxWrites :
    Watching /\ file.time = t /\ file.whole /\ t > lastMod
      ~> cfg.time = t \/ rejected = t \/ file.time # t \/ ~Watching

(* Wherever the process dies or fails while it writes a configuration of   *)
(* its own, config.toml is never a part of one.                            *)
OwnWriteWhole == file.own => file.whole
=============================================================================
