----------------------------- MODULE EmptyDirs -----------------------------
(***************************************************************************)
(* system.RemoveEmptyDirs: a walk counts what each directory holds, then   *)
(* those that hold nothing are removed with all that is in them, and their *)
(* parents dirFileCount one less. Directory 0 is the root of the walk. Files may  *)
(* be written meanwhile.                                                   *)
(***************************************************************************)
EXTENDS Naturals, FiniteSets

CONSTANTS MaxDir    \* bound: the directories are 0..MaxDir

ASSUME DirsAssumption == MaxDir \in Nat

Dirs == 0..MaxDir

VARIABLES
  parent,    \* parent[d] < d, for d > 0
  files,     \* the directories with a file of their own
  recent,    \* the directories whose time lies between start and end
  there,     \* the directories that exist
  dirFileCount,     \* the counts, where it has a key
  stage,     \* "walk", "remove" or "done"
  disturbed, \* files were written while it ran
  had        \* history: the directories with files at the start

dirvars == <<parent, files, recent, there, dirFileCount, stage, disturbed, had>>

DirsInit ==
  /\ parent \in [1..MaxDir -> Dirs] /\ \A d \in 1..MaxDir : parent[d] < d
  /\ files \in SUBSET Dirs /\ had = files
  /\ recent \in {r \in SUBSET Dirs : 0 \in r}
  /\ there = Dirs /\ dirFileCount = <<>> /\ stage = "walk" /\ disturbed = FALSE

\* Up[d]: d and all above it.
Up[d \in Dirs] == IF d = 0 THEN {0} ELSE {d} \cup Up[parent[d]]
Below(d) == {e \in there : d \in Up[e]}

-----------------------------------------------------------------------------
\* Filepath.Walk leaves out a directory that is not recent, and all below.
Walked == {d \in Dirs : Up[d] \subseteq recent}
Entries(d) ==
  Cardinality({e \in Walked \ {0} : parent[e] = d}) + IF d \in files THEN 1 ELSE 0

\* The root gets a key with its first entry.
Walk ==
  /\ stage = "walk" /\ stage' = "remove"
  /\ dirFileCount' = [d \in {e \in Walked : e # 0 \/ Entries(e) > 0} |-> Entries(d)]
  /\ UNCHANGED <<parent, files, recent, there, disturbed, had>>

\* Mutant: the parent's dirFileCount stays.
Forgotten(d) == [e \in DOMAIN dirFileCount \ {d} |-> dirFileCount[e]]

\* Without d, and its parent, if it is counted, has one entry less.
Uncounted(d) ==
  [e \in DOMAIN dirFileCount \ {d} |->
     IF d # 0 /\ e = parent[d] THEN dirFileCount[e] - 1 ELSE dirFileCount[e]]

RemoveAll(d) ==
  /\ stage = "remove" /\ d \in DOMAIN dirFileCount /\ dirFileCount[d] = 0
  /\ there' = there \ Below(d) /\ files' = files \ Below(d)
  /\ dirFileCount' = Uncounted(d)
  /\ UNCHANGED <<parent, recent, stage, disturbed, had>>

\* Nothing left to remove, the context is done, or RemoveAll failed.
Ended ==
  /\ stage = "remove" /\ stage' = "done"
  /\ disturbed' = (disturbed \/ \E d \in DOMAIN dirFileCount : dirFileCount[d] = 0)
  /\ UNCHANGED <<parent, files, recent, there, dirFileCount, had>>

FileWritten(d) ==
  /\ stage = "remove" /\ d \in there \ files /\ files' = files \cup {d} /\ disturbed' = TRUE
  /\ UNCHANGED <<parent, recent, there, dirFileCount, stage, had>>

DirsNext ==
  \/ Walk \/ Ended
  \/ \E d \in Dirs : RemoveAll(d) \/ FileWritten(d)

-----------------------------------------------------------------------------
(* When all directories are recent and nobody interferes, those that held  *)
(* no file, in themselves or below, are gone, and no other; the root only  *)
(* goes when it held a directory.                                          *)
EmptyDirsGone ==
  stage = "done" /\ ~disturbed /\ recent = Dirs =>
    LET full == UNION {Up[d] : d \in had} IN
    there = IF \E d \in 1..MaxDir : parent[d] = 0 THEN full ELSE full \cup {0}

(* "Removes empty directories": whatever there is, no file is removed that *)
(* was there when it began.                                                *)
OnlyEmptyRemoved == had \subseteq files
=============================================================================
