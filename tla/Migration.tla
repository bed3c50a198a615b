----------------------------- MODULE Migration -----------------------------
(***************************************************************************)
(* The start of the program up to the point where it serves. The version   *)
(* recorded last in the database decides whether the constructors of the   *)
(* domains migrate their tables; the running version is recorded after the *)
(* last of them. Several instances, of different releases, may start on    *)
(* one database, and any of them may die at any point.                     *)
(***************************************************************************)
EXTENDS Integers, SequencesExt

CONSTANTS
  Procs,      \* instances of the program
  Releases,   \* their versions, each the sequence of its numbers
  Tables,     \* what the domains may migrate: tables, columns, indexes
  Needs,      \* Needs[r]: what release r works with
  None

-----------------------------------------------------------------------------
(* The order of versions: the numbers, padded to three digits, are joined  *)
(* and compared as strings.                                                *)

Digits[n \in Nat] ==
  IF n < 10 THEN <<n>> ELSE Append(Digits[n \div 10], n % 10)

Pad(n) == [i \in 1..(3 - Len(Digits[n])) |-> 0] \o Digits[n]

VersionToStr(v) == FlattenSeq([i \in DOMAIN v |-> Pad(v[i])])

\* Mutant: a version counts as newer than itself.
NotSmaller(s, t) ==
  \/ s = t
  \/ \E i \in DOMAIN s : s[i] > t[i] /\ \A j \in 1..(i - 1) : s[j] = t[j]

Greater(s, t) ==
  \E i \in DOMAIN s : s[i] > t[i] /\ \A j \in 1..(i - 1) : s[j] = t[j]

\* Versions whose strings differ in length count as newer either way.
CompareVersion(a, b) ==
  \/ Len(VersionToStr(a)) # Len(VersionToStr(b))
  \/ Greater(VersionToStr(a), VersionToStr(b))

\* A release that is not newer needs nothing that the other does not need:
\* who changes a table raises the version.
ASSUME NeedsAssumption ==
  /\ Needs \in [Releases -> SUBSET Tables]
  /\ \A a, b \in Releases : ~CompareVersion(a, b) => Needs[a] \subseteq Needs[b]
ASSUME NoneAssumption == None \notin Releases

VARIABLES
  schema,   \* the tables as they are in the database
  latest,   \* the version recorded last, or None
  th        \* th[p]: where instance p stands, its release, its flag
            \*   EnabledAutoMigrate and the tables it has still to look at

vars == <<schema, latest, th>>

Down == [pc |-> "down", release |-> None, migrate |-> FALSE, todo |-> {}]
At(p, l) == th[p].pc = l
Release(p) == th[p].release

Init ==
  /\ schema = {}
  /\ latest = None
  /\ th = [p \in Procs |-> Down]

-----------------------------------------------------------------------------
\* Mutant: the flag has the value an earlier start left it with.
StartKeepsFlag(p, r) ==
  /\ At(p, "down")
  /\ \E m \in BOOLEAN :
       th' = [th EXCEPT ![p] = [pc |-> "version", release |-> r,
                                migrate |-> m, todo |-> {}]]
  /\ UNCHANGED <<schema, latest>>

\* main sets DBVersion to its build version; the database is opened.
Start(p, r) ==
  /\ At(p, "down")
  /\ th' = [th EXCEPT ![p] = [pc |-> "version", release |-> r,
                              migrate |-> FALSE, todo |-> {}]]
  /\ UNCHANGED <<schema, latest>>

Decide(p, m) ==
  /\ th' = [th EXCEPT ![p].pc = "tables", ![p].migrate = m,
                      ![p].todo = Needs[Release(p)]]
  /\ UNCHANGED <<schema, latest>>

\* Mutant: a version that cannot be read counts as up to date.
DecideOnError(p) ==
  /\ At(p, "version")
  /\ \/ Decide(p, latest # None /\ CompareVersion(Release(p), latest))
     \/ Decide(p, FALSE)

\* The last record is compared with the running version. Where there is none,
\* or it cannot be read, the tables are migrated.
IsAutoMigrate(p) ==
  /\ At(p, "version")
  /\ \/ latest # None /\ Decide(p, CompareVersion(Release(p), latest))
     \/ Decide(p, TRUE)

\* A domain's constructor: its tables are migrated if the flag says so. An
\* error there is a panic: see Exit.
AutoMigrate(p, t) ==
  /\ At(p, "tables") /\ t \in th[p].todo
  /\ schema' = IF th[p].migrate THEN schema \cup {t} ELSE schema
  /\ th' = [th EXCEPT ![p].todo = @ \ {t}]
  /\ UNCHANGED latest

\* Mutant: the version is recorded before the tables are done.
RecordEarly(p) ==
  /\ At(p, "tables")
  /\ \/ th[p].migrate /\ latest' = Release(p)
     \/ UNCHANGED latest
  /\ th' = [th EXCEPT ![p].pc = "serving"]
  /\ UNCHANGED schema

\* The last step of the wiring. An error is logged and nothing more: the next
\* start migrates again.
RecordVersion(p) ==
  /\ At(p, "tables") /\ th[p].todo = {}
  /\ \/ th[p].migrate /\ latest' = Release(p)
     \/ UNCHANGED latest
  /\ th' = [th EXCEPT ![p].pc = "serving"]
  /\ UNCHANGED schema

\* A signal, a panic, a killed process.
Exit(p) ==
  /\ ~At(p, "down")
  /\ th' = [th EXCEPT ![p] = Down]
  /\ UNCHANGED <<schema, latest>>

Next ==
  \E p \in Procs :
    \/ \E r \in Releases : Start(p, r)
    \/ IsAutoMigrate(p) \/ RecordVersion(p) \/ Exit(p)
    \/ \E t \in Tables : AutoMigrate(p, t)

Spec == Init /\ [][Next]_vars

-----------------------------------------------------------------------------
TypeOK ==
  /\ schema \subseteq Tables
  /\ latest \in Releases \cup {None}
  /\ th \in [Procs -> [pc : {"down", "version", "tables", "serving"},
                      release : Releases \cup {None},
                      migrate : BOOLEAN, todo : SUBSET Tables]]
  /\ \A p \in Procs :
       /\ ~At(p, "down") => Release(p) \in Releases
       /\ th[p].pc \in {"down", "version"} => ~th[p].migrate

(* Whatever instance recorded it, and whatever others do in between: the   *)
(* version on record has all its tables.                                   *)
RecordedIsMigrated == latest # None => Needs[latest] \subseteq schema

(* No instance serves on a database that lacks a table its release needs,  *)
(* whether or not it migrated itself, after crashes of starts before it,   *)
(* failed records, roll-backs and together with instances of another       *)
(* release.                                                                *)
ServesMigrated ==
  \A p \in Procs : At(p, "serving") => Needs[Release(p)] \subseteq schema

(* Versions of one shape, numbers below a thousand, are in the order of    *)
(* their numbers, first to last: 0.9.0 comes before 0.10.0.                *)
Precedes(a, b) ==
  \E i \in DOMAIN a : a[i] < b[i] /\ \A j \in 1..(i - 1) : a[j] = b[j]

NumericOrder ==
  \A a \in Releases :
    latest \in Releases /\ Len(a) = Len(latest) =>
      (CompareVersion(a, latest) <=> Precedes(latest, a))

(* What makes the two inductive: an instance that migrates has done what   *)
(* is not left to do; one that does not migrate has nothing to do.         *)
DoneSoFar ==
  \A p \in Procs :
    th[p].pc \in {"tables", "serving"} =>
      Needs[Release(p)] \ (IF th[p].migrate THEN th[p].todo ELSE {})
        \subseteq schema

MigrationInv == TypeOK /\ RecordedIsMigrated /\ DoneSoFar /\ ServesMigrated
=============================================================================
