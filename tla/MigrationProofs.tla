-------------------------- MODULE MigrationProofs --------------------------
(***************************************************************************)
(* Migration for any number of instances, releases and tables. How         *)
(* versions compare is used through NeedsAssumption alone; that they       *)
(* compare as their numbers do is the last theorem.                        *)
(***************************************************************************)
EXTENDS Migration, SequenceTheorems, WellFoundedInduction, TLAPS

LEMMA InitInv == Init => MigrationInv
<1> SUFFICES ASSUME Init PROVE MigrationInv
  OBVIOUS
<1>1. \A p \in Procs : th[p] = Down
  BY DEF Init
<1>2. TypeOK
  BY <1>1 DEF Init, TypeOK, Down, At, Release
<1>3. RecordedIsMigrated
  BY DEF Init, RecordedIsMigrated
<1>4. DoneSoFar /\ ServesMigrated
  BY <1>1 DEF Down, DoneSoFar, ServesMigrated, At
<1> QED
  BY <1>2, <1>3, <1>4 DEF MigrationInv

(* A step that leaves the database alone and moves one instance.           *)
LEMMA MoveKeeps ==
  ASSUME MigrationInv, NEW p \in Procs, UNCHANGED <<schema, latest>>,
         NEW f \in [pc : {"down", "version", "tables", "serving"},
                    release : Releases \cup {None},
                    migrate : BOOLEAN, todo : SUBSET Tables],
         th' = [th EXCEPT ![p] = f],
         f.pc # "down" => f.release \in Releases,
         f.pc \in {"down", "version"} => ~f.migrate,
         f.pc \in {"tables", "serving"} =>
           Needs[f.release] \ (IF f.migrate THEN f.todo ELSE {}) \subseteq schema,
         f.pc = "serving" => Needs[f.release] \subseteq schema
  PROVE  MigrationInv'
<1> USE DEF MigrationInv, TypeOK, At, Release
<1>1. th'[p] = f /\ \A q \in Procs \ {p} : th'[q] = th[q]
  OBVIOUS
<1>2. th' \in [Procs -> [pc : {"down", "version", "tables", "serving"},
                         release : Releases \cup {None},
                         migrate : BOOLEAN, todo : SUBSET Tables]]
  OBVIOUS
<1>3. TypeOK'
  BY <1>1, <1>2
<1>4. RecordedIsMigrated'
  BY DEF RecordedIsMigrated
<1>5. ServesMigrated'
  BY <1>1 DEF ServesMigrated
<1>6. DoneSoFar'
  <2> SUFFICES ASSUME NEW q \in Procs, th'[q].pc \in {"tables", "serving"}
               PROVE  Needs[th'[q].release]
                        \ (IF th'[q].migrate THEN th'[q].todo ELSE {})
                        \subseteq schema'
    BY DEF DoneSoFar
  <2>1. CASE q = p
    BY <1>1, <2>1
  <2>2. CASE q # p
    <3>1. th'[q] = th[q]
      BY <1>1, <2>2
    <3> QED
      BY <3>1 DEF DoneSoFar
  <2> QED
    BY <2>1, <2>2
<1> QED
  BY <1>3, <1>4, <1>5, <1>6

LEMMA NextKeeps == MigrationInv /\ [Next]_vars => MigrationInv'
<1> SUFFICES ASSUME MigrationInv, [Next]_vars PROVE MigrationInv'
  OBVIOUS
<1> USE DEF MigrationInv
<1>1. ASSUME NEW p \in Procs, NEW r \in Releases, Start(p, r)
      PROVE  MigrationInv'
  BY <1>1, MoveKeeps DEF Start
<1>2. ASSUME NEW p \in Procs, IsAutoMigrate(p) PROVE MigrationInv'
  <2>1. Release(p) \in Releases
    BY <1>2 DEF IsAutoMigrate, TypeOK, At
  <2>2. Needs[Release(p)] \subseteq Tables
    BY <2>1, NeedsAssumption
  <2>3. ASSUME NEW m \in BOOLEAN, Decide(p, m),
               ~m => Needs[Release(p)] \subseteq schema
        PROVE  MigrationInv'
    <3>1. /\ \A q \in Procs \ {p} : th'[q] = th[q]
          /\ th'[p].pc = "tables" /\ th'[p].release = th[p].release
          /\ th'[p].migrate = m /\ th'[p].todo = Needs[th[p].release]
          /\ schema' = schema /\ latest' = latest
      BY <2>3 DEF Decide, TypeOK, Release
    <3>2. TypeOK'
      BY <2>1, <2>2, <2>3, <3>1, ZenonT(40) DEF Decide, TypeOK, At, Release
    <3>3. RecordedIsMigrated'
      BY <3>1 DEF RecordedIsMigrated
    <3>4. ServesMigrated'
      BY <3>1 DEF ServesMigrated, At, Release
    <3>5. DoneSoFar'
      BY <2>3, <3>1 DEF DoneSoFar, Release
    <3> QED
      BY <3>2, <3>3, <3>4, <3>5
  <2>4. CASE Decide(p, TRUE)
    BY <2>3, <2>4
  <2>5. CASE latest # None /\ Decide(p, CompareVersion(Release(p), latest))
    <3>1. CompareVersion(Release(p), latest) \in BOOLEAN
      BY DEF CompareVersion, Greater
    <3>2. latest \in Releases /\ Needs[latest] \subseteq schema
      BY <2>5 DEF TypeOK, RecordedIsMigrated
    <3>3. ~CompareVersion(Release(p), latest)
            => Needs[Release(p)] \subseteq Needs[latest]
      BY <2>1, <3>2, NeedsAssumption
    <3> QED
      BY <2>3, <2>5, <3>1, <3>2, <3>3
  <2> QED
    BY <1>2, <2>4, <2>5 DEF IsAutoMigrate
<1>3. ASSUME NEW p \in Procs, NEW t \in Tables, AutoMigrate(p, t)
      PROVE  MigrationInv'
  <2>1. /\ schema \subseteq schema' /\ schema' \subseteq Tables
        /\ th[p].migrate => t \in schema'
    BY <1>3 DEF AutoMigrate, TypeOK
  <2>2. /\ th'[p].todo = th[p].todo \ {t} /\ th'[p].pc = th[p].pc
        /\ th'[p].release = th[p].release /\ th'[p].migrate = th[p].migrate
        /\ th[p].pc = "tables"
        /\ \A q \in Procs \ {p} : th'[q] = th[q]
    BY <1>3 DEF AutoMigrate, TypeOK, At
  <2>3. TypeOK'
    BY <1>3, <2>1, <2>2 DEF AutoMigrate, TypeOK, At, Release
  <2>4. RecordedIsMigrated'
    BY <1>3, <2>1 DEF AutoMigrate, RecordedIsMigrated
  <2>5. ServesMigrated'
    BY <2>1, <2>2 DEF ServesMigrated, At, Release
  <2>6. DoneSoFar'
    <3> SUFFICES ASSUME NEW q \in Procs, th'[q].pc \in {"tables", "serving"}
                 PROVE  Needs[th'[q].release]
                          \ (IF th'[q].migrate THEN th'[q].todo ELSE {})
                          \subseteq schema'
      BY DEF DoneSoFar, Release
    <3>1. CASE q = p
      <4>1. Needs[th[p].release] \ (IF th[p].migrate THEN th[p].todo ELSE {})
              \subseteq schema
        BY <2>2 DEF DoneSoFar, Release
      <4> QED
        BY <2>1, <2>2, <3>1, <4>1
    <3>2. CASE q # p
      <4>1. th'[q] = th[q]
        BY <2>2, <3>2
      <4>2. Needs[th[q].release] \ (IF th[q].migrate THEN th[q].todo ELSE {})
              \subseteq schema
        BY <4>1 DEF DoneSoFar, Release
      <4> QED
        BY <2>1, <4>1, <4>2
    <3> QED
      BY <3>1, <3>2
  <2> QED
    BY <2>3, <2>4, <2>5, <2>6
<1>4. ASSUME NEW p \in Procs, RecordVersion(p) PROVE MigrationInv'
  <2>1. th[p].pc = "tables" /\ th[p].todo = {} /\ Release(p) \in Releases
    BY <1>4 DEF RecordVersion, TypeOK, At
  <2>2. Needs[Release(p)] \subseteq schema
    BY <2>1 DEF DoneSoFar
  <2>3. /\ \A q \in Procs \ {p} : th'[q] = th[q]
        /\ th'[p].pc = "serving" /\ th'[p].release = th[p].release
        /\ th'[p].migrate = th[p].migrate /\ th'[p].todo = {}
        /\ schema' = schema
    BY <1>4, <2>1 DEF RecordVersion, TypeOK
  <2>4. latest' = Release(p) \/ latest' = latest
    BY <1>4 DEF RecordVersion
  <2>5. TypeOK'
    BY <1>4, <2>1, <2>3, <2>4 DEF RecordVersion, TypeOK, At, Release
  <2>6. RecordedIsMigrated'
    BY <2>2, <2>3, <2>4 DEF RecordedIsMigrated
  <2>7. ServesMigrated'
    BY <2>2, <2>3 DEF ServesMigrated, At, Release
  <2>8. DoneSoFar'
    BY <2>2, <2>3 DEF DoneSoFar, Release
  <2> QED
    BY <2>5, <2>6, <2>7, <2>8
<1>5. ASSUME NEW p \in Procs, Exit(p) PROVE MigrationInv'
  BY <1>5, MoveKeeps DEF Exit, Down
<1>6. CASE UNCHANGED vars
  BY <1>6 DEF vars, TypeOK, RecordedIsMigrated, DoneSoFar, ServesMigrated,
     At, Release
<1> QED
  BY <1>1, <1>2, <1>3, <1>4, <1>5, <1>6 DEF Next

LEMMA Inductive == Spec => []MigrationInv
  BY InitInv, NextKeeps, PTL DEF Spec

(* The local state of an instance stays well formed; before the decision   *)
(* no instance has the flag set.                                           *)
THEOREM TypeCorrect == Spec => []TypeOK
  BY Inductive, PTL DEF MigrationInv

(* A version on record has all its tables.                                 *)
THEOREM RecordsAreTrue == Spec => []RecordedIsMigrated
  BY Inductive, PTL DEF MigrationInv

(* An instance that serves has the tables its release needs.               *)
THEOREM ServingIsSafe == Spec => []ServesMigrated
  BY Inductive, PTL DEF MigrationInv

-----------------------------------------------------------------------------
(* Complete induction, with the set of numbers that have the property in   *)
(* the place of the property.                                              *)
Less == {p \in Nat \X Nat : p[1] < p[2]}

LEMMA EveryNumber ==
  ASSUME NEW T, \A n \in Nat : (\A m \in 0..(n - 1) : m \in T) => n \in T
  PROVE  \A n \in Nat : n \in T
<1> DEFINE B == Nat \ T
<1>1. SUFFICES ASSUME B # {} PROVE FALSE
  OBVIOUS
<1>2. IsWellFoundedOn(Less, Nat)
  BY NatLessThanWellFounded DEF OpToRel, Less
<1>3. PICK n \in B : \A m \in B : <<m, n>> \notin Less
  <2>1. B \subseteq Nat
    OBVIOUS
  <2> QED
    BY <1>1, <1>2, <2>1, WFMin, Zenon
<1>4. ASSUME NEW m \in 0..(n - 1) PROVE m \in T
  <2>1. m \in Nat /\ n \in Nat /\ m < n
    OBVIOUS
  <2>2. <<m, n>> \in Less
    BY <2>1 DEF Less
  <2> QED
    BY <1>3, <2>1, <2>2, Zenon
<1> QED
  BY <1>4

-----------------------------------------------------------------------------
(* Digits. There is a function that does as Digits says on the numbers up  *)
(* to n, for every n; any two of them agree; so there is one on all.       *)
DigitsRule(g, m) == g[m] = IF m < 10 THEN <<m>> ELSE Append(g[m \div 10], m % 10)
DigitsUpTo(g, n) == \A m \in 0..n : DigitsRule(g, m)

LEMMA DigitsExistUpTo == \A n \in Nat : \E g : DigitsUpTo(g, n)
<1> DEFINE T == {n \in Nat : \E g : DigitsUpTo(g, n)}
<1>1. ASSUME NEW n \in Nat, \A m \in 0..(n - 1) : m \in T
      PROVE  n \in T
  <2>1. \E g : \A m \in 0..(n - 1) : DigitsRule(g, m)
    <3>1. CASE n = 0
      BY <3>1
    <3>2. CASE n # 0
      <4>1. n - 1 \in 0..(n - 1)
        BY <3>2
      <4> QED
        BY <1>1, <4>1 DEF DigitsUpTo
    <3> QED
      BY <3>1, <3>2
  <2>2. PICK g : \A m \in 0..(n - 1) : DigitsRule(g, m)
    BY <2>1
  <2> DEFINE last == IF n < 10 THEN <<n>> ELSE Append(g[n \div 10], n % 10)
             h == [m \in 0..n |-> IF m = n THEN last ELSE g[m]]
  <2>3. ASSUME NEW m \in 0..n PROVE DigitsRule(h, m)
    <3>1. m >= 10 => m \div 10 \in 0..n /\ m \div 10 # n
      OBVIOUS
    <3>2. m >= 10 => h[m \div 10] = g[m \div 10]
      BY <3>1
    <3>3. CASE m = n
      <4>1. h[m] = last
        BY <3>3
      <4> QED
        BY <3>2, <3>3, <4>1 DEF DigitsRule
    <3>4. CASE m # n
      <4>1. h[m] = g[m] /\ m \in 0..(n - 1)
        BY <3>4
      <4> QED
        BY <2>2, <3>2, <4>1 DEF DigitsRule
    <3> QED
      BY <3>3, <3>4
  <2> QED
    BY <2>3, Zenon DEF DigitsUpTo
<1>2. \A n \in Nat : n \in T
  <2> HIDE DEF T
  <2> QED
    BY <1>1, EveryNumber, Zenon
<1> QED
  BY <1>2

LEMMA DigitsAgree ==
  ASSUME NEW g, NEW h, NEW n \in Nat, NEW k \in Nat,
         DigitsUpTo(g, n), DigitsUpTo(h, k)
  PROVE  \A m \in Nat : m <= n /\ m <= k => g[m] = h[m]
<1> DEFINE T == {m \in Nat : m <= n /\ m <= k => g[m] = h[m]}
<1>1. ASSUME NEW m \in Nat, \A i \in 0..(m - 1) : i \in T
      PROVE  m \in T
  <2> SUFFICES ASSUME m <= n, m <= k PROVE g[m] = h[m]
    OBVIOUS
  <2>1. DigitsRule(g, m) /\ DigitsRule(h, m)
    BY DEF DigitsUpTo
  <2>2. CASE m < 10
    BY <2>1, <2>2 DEF DigitsRule
  <2>3. CASE m >= 10
    <3> DEFINE i == m \div 10
    <3>1. i \in 0..(m - 1) /\ i <= n /\ i <= k
      BY <2>3
    <3>2. g[i] = h[i]
      BY <1>1, <3>1
    <3> QED
      BY <2>1, <2>3, <3>2 DEF DigitsRule
  <2> QED
    BY <2>2, <2>3
<1>2. \A m \in Nat : m \in T
  <2> HIDE DEF T
  <2> QED
    BY <1>1, EveryNumber, Zenon
<1> QED
  BY <1>2

LEMMA DigitsUnfold ==
  \A n \in Nat :
    Digits[n] = IF n < 10 THEN <<n>> ELSE Append(Digits[n \div 10], n % 10)
<1> DEFINE up(n) == CHOOSE g : DigitsUpTo(g, n)
           f == [n \in Nat |-> up(n)[n]]
           F(g) == [n \in Nat |-> IF n < 10 THEN <<n>>
                                  ELSE Append(g[n \div 10], n % 10)]
<1>1. \A n \in Nat : DigitsUpTo(up(n), n)
  BY DigitsExistUpTo, Zenon
<1>2. ASSUME NEW n \in Nat
      PROVE  f[n] = IF n < 10 THEN <<n>> ELSE Append(f[n \div 10], n % 10)
  <2>1. DigitsRule(up(n), n)
    <3>1. n \in 0..n
      OBVIOUS
    <3> QED
      BY <1>1, <3>1, Zenon DEF DigitsUpTo
  <2> DEFINE k == n \div 10
  <2>2. n >= 10 => up(n)[k] = up(k)[k]
    <3> SUFFICES ASSUME n >= 10 PROVE up(n)[k] = up(k)[k]
      OBVIOUS
    <3>1. k \in Nat /\ k <= n /\ k <= k
      OBVIOUS
    <3>2. DigitsUpTo(up(n), n) /\ DigitsUpTo(up(k), k)
      BY <1>1, <3>1, Zenon
    <3> HIDE DEF up, k
    <3> QED
      BY <3>1, <3>2, DigitsAgree
  <2>3. f[n] = up(n)[n] /\ (n >= 10 => f[k] = up(k)[k])
    <3>1. n >= 10 => k \in Nat
      OBVIOUS
    <3> HIDE DEF up, k
    <3> QED
      BY <3>1
  <2> HIDE DEF up, f
  <2> QED
    BY <2>1, <2>2, <2>3 DEF DigitsRule
<1>3. f = F(f)
  <2> HIDE DEF up
  <2> QED
    BY <1>2, Zenon
<1>4. Digits = F(Digits)
  <2>1. Digits = CHOOSE g : g = F(g)
    BY Zenon DEF Digits
  <2> QED
    BY <1>3, <2>1, Zenon
<1> QED
  BY <1>4, Zenon

LEMMA DigitsStep ==
  ASSUME NEW n \in Nat, n >= 10
  PROVE  Digits[n] = Append(Digits[n \div 10], n % 10)
<1>1. ~(n < 10)
  OBVIOUS
<1> QED
  BY <1>1, DigitsUnfold, Zenon

Numbers == 0..999
Digit(n, j) == IF j = 1 THEN n \div 100 ELSE IF j = 2 THEN (n \div 10) % 10 ELSE n % 10

LEMMA IsSequence ==
  ASSUME NEW n \in Nat, NEW f \in [1..n -> Nat]
  PROVE  f \in Seq(Nat) /\ Len(f) = n
<1>1. f \in Seq(Nat)
  BY SeqDef, Zenon
<1>2. DOMAIN f = 1..n /\ DOMAIN f = 1..Len(f) /\ Len(f) \in Nat
  BY <1>1, LenProperties
<1> QED
  BY <1>1, <1>2

(* What Pad does to one, two and three digits.                             *)
LEMMA PadCases ==
  ASSUME NEW a \in Nat, NEW b \in Nat, NEW c \in Nat
  PROVE  /\ [i \in 1..(3 - Len(<<c>>)) |-> 0] \o <<c>> = <<0, 0, c>>
         /\ [i \in 1..(3 - Len(<<b, c>>)) |-> 0] \o <<b, c>> = <<0, b, c>>
         /\ [i \in 1..(3 - Len(<<a, b, c>>)) |-> 0] \o <<a, b, c>> = <<a, b, c>>
         /\ Append(<<b>>, c) = <<b, c>> /\ Append(<<a, b>>, c) = <<a, b, c>>
<1> DEFINE zeros(k) == [i \in 1..k |-> 0]
<1>1. /\ <<c>> \in Seq(Nat) /\ Len(<<c>>) = 1 /\ <<b>> \in Seq(Nat) /\ Len(<<b>>) = 1
      /\ <<b, c>> \in Seq(Nat) /\ Len(<<b, c>>) = 2
      /\ <<a, b>> \in Seq(Nat) /\ Len(<<a, b>>) = 2
      /\ <<a, b, c>> \in Seq(Nat) /\ Len(<<a, b, c>>) = 3
      /\ <<0, b, c>> \in Seq(Nat) /\ Len(<<0, b, c>>) = 3
      /\ <<0, 0, c>> \in Seq(Nat) /\ Len(<<0, 0, c>>) = 3
  OBVIOUS
<1>2. \A k \in Nat : zeros(k) \in Seq(Nat) /\ Len(zeros(k)) = k
                      /\ \A i \in 1..k : zeros(k)[i] = 0
  <2>1. \A k \in Nat : zeros(k) \in [1..k -> Nat]
    OBVIOUS
  <2>2. \A k \in Nat : \A i \in 1..k : zeros(k)[i] = 0
    OBVIOUS
  <2> HIDE DEF zeros
  <2> QED
    BY <2>1, <2>2, IsSequence
<1> HIDE DEF zeros
<1>3. zeros(2) \o <<c>> = <<0, 0, c>>
  <2>1. /\ zeros(2) \o <<c>> \in Seq(Nat) /\ Len(zeros(2) \o <<c>>) = 3
        /\ \A i \in 1..3 : (zeros(2) \o <<c>>)[i] =
                               IF i <= 2 THEN zeros(2)[i] ELSE <<c>>[i - 2]
    BY <1>1, <1>2, ConcatProperties, SMTT(30)
  <2>2. \A i \in 1..3 : (zeros(2) \o <<c>>)[i] = <<0, 0, c>>[i]
    <3>1. \A i \in 1..2 : zeros(2)[i] = 0
      BY <1>2
    <3>2. \A i \in 1..3 : (IF i <= 2 THEN 0 ELSE <<c>>[i - 2]) = <<0, 0, c>>[i]
      OBVIOUS
    <3>3. \A i \in 1..3 : i <= 2 => i \in 1..2
      OBVIOUS
    <3> QED
      BY <2>1, <3>1, <3>2, <3>3, Zenon
  <2> DEFINE x == zeros(2) \o <<c>>
             y == <<0, 0, c>>
  <2>3. x \in Seq(Nat) /\ y \in Seq(Nat) /\ Len(x) = Len(y) /\ Len(x) = 3
    BY <1>1, <2>1
  <2>4. \A i \in 1..3 : x[i] = y[i]
    BY <2>2
  <2> HIDE DEF x, y
  <2>5. x = y
    BY <2>3, <2>4, SeqEqual
  <2> QED
    BY <2>5 DEF x, y
<1>4. zeros(1) \o <<b, c>> = <<0, b, c>>
  <2>1. /\ zeros(1) \o <<b, c>> \in Seq(Nat) /\ Len(zeros(1) \o <<b, c>>) = 3
        /\ \A i \in 1..3 : (zeros(1) \o <<b, c>>)[i] =
                               IF i <= 1 THEN zeros(1)[i] ELSE <<b, c>>[i - 1]
    BY <1>1, <1>2, ConcatProperties, SMTT(30)
  <2>2. \A i \in 1..3 : (zeros(1) \o <<b, c>>)[i] = <<0, b, c>>[i]
    <3>1. \A i \in 1..1 : zeros(1)[i] = 0
      BY <1>2
    <3>2. \A i \in 1..3 : (IF i <= 1 THEN 0 ELSE <<b, c>>[i - 1]) = <<0, b, c>>[i]
      OBVIOUS
    <3>3. \A i \in 1..3 : i <= 1 => i \in 1..1
      OBVIOUS
    <3> QED
      BY <2>1, <3>1, <3>2, <3>3, Zenon
  <2> DEFINE x == zeros(1) \o <<b, c>>
             y == <<0, b, c>>
  <2>3. x \in Seq(Nat) /\ y \in Seq(Nat) /\ Len(x) = Len(y) /\ Len(x) = 3
    BY <1>1, <2>1
  <2>4. \A i \in 1..3 : x[i] = y[i]
    BY <2>2
  <2> HIDE DEF x, y
  <2>5. x = y
    BY <2>3, <2>4, SeqEqual
  <2> QED
    BY <2>5 DEF x, y
<1>5. zeros(0) \o <<a, b, c>> = <<a, b, c>>
  <2>1. zeros(0) = <<>>
    BY <1>2, EmptySeq
  <2> QED
    BY <1>1, <2>1, ConcatEmptySeq
<1>6. Append(<<b>>, c) = <<b, c>>
  <2> DEFINE x == Append(<<b>>, c)
             y == <<b, c>>
  <2>1. x \in Seq(Nat) /\ Len(x) = 2 /\ x[1] = b /\ x[2] = c
    OBVIOUS
  <2>2. y \in Seq(Nat) /\ Len(y) = 2 /\ y[1] = b /\ y[2] = c
    OBVIOUS
  <2> HIDE DEF x, y
  <2>3. \A i \in 1..2 : x[i] = y[i]
    BY <2>1, <2>2
  <2>4. x = y
    BY <2>1, <2>2, <2>3, SeqEqual
  <2> QED
    BY <2>4 DEF x, y
<1>7. Append(<<a, b>>, c) = <<a, b, c>>
  <2> DEFINE x == Append(<<a, b>>, c)
             y == <<a, b, c>>
  <2>1. x \in Seq(Nat) /\ Len(x) = 3 /\ x[1] = a /\ x[2] = b /\ x[3] = c
    OBVIOUS
  <2>2. y \in Seq(Nat) /\ Len(y) = 3 /\ y[1] = a /\ y[2] = b /\ y[3] = c
    OBVIOUS
  <2> HIDE DEF x, y
  <2>3. \A i \in 1..3 : x[i] = y[i]
    BY <2>1, <2>2
  <2>4. x = y
    BY <2>1, <2>2, <2>3, SeqEqual
  <2> QED
    BY <2>4 DEF x, y
<1> QED
  BY <1>1, <1>3, <1>4, <1>5, <1>6, <1>7 DEF zeros

LEMMA PadIsDigits ==
  ASSUME NEW n \in Numbers
  PROVE  Pad(n) = [j \in 1..3 |-> Digit(n, j)]
<1> DEFINE D == [j \in 1..3 |-> Digit(n, j)]
           Short(s) == [i \in 1..(3 - Len(s)) |-> 0] \o s
<1>1. n \in Nat /\ n < 1000
  BY DEF Numbers
<1>2. Pad(n) = Short(Digits[n])
  BY DEF Pad
<1>3. CASE n < 10
  <2>1. Digits[n] = <<n>>
    BY <1>1, <1>3, DigitsUnfold, ZenonT(40)
  <2>2. Short(<<n>>) = <<0, 0, n>>
    BY <1>1, PadCases, ZenonT(40)
  <2>3. D = <<0, 0, n>>
    BY <1>1, <1>3 DEF Digit
  <2> QED
    BY <1>2, <2>1, <2>2, <2>3, Zenon
<1>4. CASE n >= 10 /\ n < 100
  <2> DEFINE t == n \div 10
  <2>1. t \in Nat /\ t < 10
    BY <1>1, <1>4
  <2>2. Digits[t] = <<t>> /\ Digits[n] = Append(Digits[t], n % 10)
    <3>1. Digits[n] = Append(Digits[t], n % 10)
      BY <1>1, <1>4, DigitsStep, ZenonT(40)
    <3> HIDE DEF t
    <3>2. Digits[t] = <<t>>
      BY <2>1, DigitsUnfold, Zenon
    <3> QED
      BY <3>1, <3>2
  <2>3. Digits[n] = <<t, n % 10>>
    <3>1. n % 10 \in Nat
      BY <1>1
    <3> QED
      BY <2>1, <2>2, <3>1, PadCases, ZenonT(40)
  <2>4. Short(<<t, n % 10>>) = <<0, t, n % 10>>
    <3>1. n % 10 \in Nat
      BY <1>1
    <3> QED
      BY <2>1, <3>1, PadCases, Zenon
  <2>5. D = <<0, t, n % 10>>
    BY <1>1, <1>4 DEF Digit
  <2> QED
    BY <1>2, <2>3, <2>4, <2>5, Zenon
<1>5. CASE n >= 100
  <2> DEFINE t == n \div 10
             h == t \div 10
  <2>1. t \in Nat /\ t >= 10 /\ h \in Nat /\ h < 10 /\ h = n \div 100
    BY <1>1, <1>5
  <2>2. /\ Digits[h] = <<h>> /\ Digits[t] = Append(Digits[h], t % 10)
        /\ Digits[n] = Append(Digits[t], n % 10)
    <3>1. n >= 10
      BY <1>1, <1>5
    <3>2. Digits[h] = <<h>>
      <4> HIDE DEF h
      <4> QED
        BY <2>1, DigitsUnfold, Zenon
    <3>3. Digits[t] = Append(Digits[h], t % 10)
      <4> HIDE DEF t
      <4> QED
        BY <2>1, DigitsStep, Zenon DEF h
    <3>4. Digits[n] = Append(Digits[t], n % 10)
      BY <1>1, <3>1, DigitsStep, ZenonT(40)
    <3> QED
      BY <3>2, <3>3, <3>4, Zenon
  <2>3. Digits[n] = <<h, t % 10, n % 10>>
    <3>1. t % 10 \in Nat /\ n % 10 \in Nat
      BY <1>1, <2>1
    <3>2. Digits[t] = <<h, t % 10>>
      <4>1. Append(<<h>>, t % 10) = <<h, t % 10>>
        BY <2>1, <3>1, PadCases, ZenonT(40)
      <4> HIDE DEF t, h
      <4> QED
        BY <2>2, <4>1, Zenon
    <3>3. Append(<<h, t % 10>>, n % 10) = <<h, t % 10, n % 10>>
      BY <2>1, <3>1, PadCases, Zenon
    <3> HIDE DEF t, h
    <3> QED
      BY <2>2, <3>2, <3>3, Zenon
  <2>4. Short(<<h, t % 10, n % 10>>) = <<h, t % 10, n % 10>>
    <3>1. t % 10 \in Nat /\ n % 10 \in Nat
      BY <1>1, <2>1
    <3> QED
      BY <2>1, <3>1, PadCases, Zenon
  <2>5. D = <<h, t % 10, n % 10>>
    BY <2>1 DEF Digit
  <2> QED
    BY <1>2, <2>3, <2>4, <2>5, Zenon
<1> QED
  BY <1>1, <1>3, <1>4, <1>5

(* The padded numbers one after the other.                                 *)
Joined(w, k) ==
  [q \in 1..(3 * k) |-> Digit(w[((q - 1) \div 3) + 1], ((q - 1) % 3) + 1)]

LEMMA DigitIsNat ==
  \A n \in Numbers : \A j \in 1..3 : Digit(n, j) \in Nat
BY DEF Numbers, Digit

LEMMA JoinedIsNat ==
  ASSUME NEW w \in Seq(Numbers), NEW k \in 0..Len(w)
  PROVE  Joined(w, k) \in [1..(3 * k) -> Nat]
<1>1. k \in Nat /\ \A i \in 1..k : w[i] \in Numbers
  OBVIOUS
<1>2. ASSUME NEW q \in 1..(3 * k)
      PROVE  Digit(w[((q - 1) \div 3) + 1], ((q - 1) % 3) + 1) \in Nat
  <2>1. ((q - 1) \div 3) + 1 \in 1..k /\ ((q - 1) % 3) + 1 \in 1..3
    BY <1>1
  <2> QED
    BY <1>1, <2>1, DigitIsNat, Zenon
<1> QED
  BY <1>2, Zenon DEF Joined

LEMMA VersionToStrIsJoined ==
  ASSUME NEW w \in Seq(Numbers)
  PROVE  VersionToStr(w) = Joined(w, Len(w))
<1> DEFINE n == Len(w)
           s == [i \in DOMAIN w |-> Pad(w[i])]
           F(g) == [i \in 1..n |-> IF i = 1 THEN s[i] ELSE g[i - 1] \o s[i]]
           h == [i \in 1..n |-> Joined(w, i)]
<1>1. n \in Nat /\ DOMAIN w = 1..n /\ \A i \in 1..n : w[i] \in Numbers
  OBVIOUS
<1>2. Len(s) = n
  OBVIOUS
<1>3. \A i \in 1..n : s[i] = [j \in 1..3 |-> Digit(w[i], j)]
  BY <1>1, PadIsDigits, Zenon
<1>4. ASSUME NEW i \in 1..n PROVE h[i] = F(h)[i]
  <2>1. CASE i = 1
    <3>1. h[i] = Joined(w, 1)
      BY <1>1, <2>1
    <3>2. \A q \in 1..(3 * 1) : ((q - 1) \div 3) + 1 = 1 /\ ((q - 1) % 3) + 1 = q
      OBVIOUS
    <3>3. Joined(w, 1) = [j \in 1..3 |-> Digit(w[1], j)]
      BY <3>2 DEF Joined
    <3>4. F(h)[i] = s[i]
      BY <2>1
    <3> QED
      BY <1>3, <2>1, <3>1, <3>3, <3>4
  <2>2. CASE i # 1
    <3> DEFINE k == i - 1
    <3>1. k \in Nat /\ k \in 1..n /\ i = k + 1
      BY <1>1, <2>2
    <3>2. F(h)[i] = Joined(w, k) \o s[i]
      BY <2>2, <3>1
    <3>3. s[i] = [j \in 1..3 |-> Digit(w[i], j)]
      BY <1>3
    <3>4. Joined(w, k) \o s[i] = Joined(w, i)
      <4> DEFINE J == Joined(w, k)
                 S == s[i]
                 K == Joined(w, i)
      <4>1. /\ J \in Seq(Nat) /\ Len(J) = 3 * k
            /\ S \in Seq(Nat) /\ Len(S) = 3
        <5>1. J \in [1..(3 * k) -> Nat]
          <6>1. k \in 0..Len(w)
            BY <1>1, <3>1
          <6> QED
            BY <6>1, JoinedIsNat, Zenon
        <5>2. S \in [1..3 -> Nat]
          BY <1>1, <3>3, DigitIsNat
        <5>3. 3 * k \in Nat
          BY <3>1
        <5> HIDE DEF J, S
        <5> QED
          BY <5>1, <5>2, <5>3, IsSequence
      <4>2. DOMAIN K = 1..(3 * k + 3)
        BY <3>1 DEF Joined
      <4>3. /\ J \o S \in Seq(Nat) /\ Len(J \o S) = 3 * k + 3
            /\ \A q \in 1..(3 * k + 3) :
                 (J \o S)[q] = IF q <= 3 * k THEN J[q] ELSE S[q - 3 * k]
        <5> HIDE DEF J, S, k
        <5>1. /\ J \o S \in Seq(Nat) /\ Len(J \o S) = Len(J) + Len(S)
              /\ \A q \in 1..(Len(J) + Len(S)) :
                   (J \o S)[q] = IF q <= Len(J) THEN J[q] ELSE S[q - Len(J)]
          BY <4>1, ConcatProperties, Zenon
        <5> QED
          BY <4>1, <5>1
      <4>4. ASSUME NEW q \in 1..(3 * k)
            PROVE  K[q] = J[q]
        BY <3>1 DEF Joined
      <4>5. ASSUME NEW q \in 1..(3 * k + 3), q > 3 * k
            PROVE  K[q] = S[q - 3 * k]
        <5> DEFINE j == q - 3 * k
        <5>1. j \in 1..3 /\ q - 1 = 3 * k + (j - 1)
          BY <3>1, <4>5
        <5>2. ((q - 1) \div 3) + 1 = i /\ ((q - 1) % 3) + 1 = j
          BY <3>1, <5>1
        <5>3. K[q] = Digit(w[i], j)
          BY <4>2, <5>2 DEF Joined
        <5> QED
          BY <3>3, <5>1, <5>3
      <4>6. K \in Seq(Nat) /\ Len(K) = 3 * k + 3
        <5>1. K \in [1..(3 * k + 3) -> Nat]
          BY <1>1, <3>1, JoinedIsNat
        <5>2. 3 * k + 3 \in Nat
          BY <3>1
        <5> HIDE DEF K
        <5> QED
          BY <5>1, <5>2, IsSequence
      <4> DEFINE JS == J \o S
      <4>7. JS \in Seq(Nat) /\ Len(JS) = 3 * k + 3
        BY <4>3
      <4>8. \A q \in 1..(3 * k + 3) : K[q] = JS[q]
        <5>1. \A q \in 1..(3 * k + 3) : q > 3 * k \/ (q \in 1..(3 * k) /\ ~(q > 3 * k))
          BY <3>1
        <5>2. \A q \in 1..(3 * k + 3) : q > 3 * k <=> ~(q <= 3 * k)
          BY <3>1
        <5> HIDE DEF J, S, K, k
        <5> QED
          BY <4>3, <4>4, <4>5, <5>1, <5>2, Zenon
      <4>9. JS = K
        <5> HIDE DEF JS, K
        <5> QED
          BY <4>6, <4>7, <4>8, SeqEqual
      <4> QED
        BY <4>9
    <3> QED
      BY <3>2, <3>4
  <2> QED
    BY <2>1, <2>2
<1>5. h = F(h)
  BY <1>4, Zenon
<1> DEFINE g == CHOOSE x : x = F(x)
<1>6. g = F(g)
  <2> HIDE DEF F, h
  <2> QED
    BY <1>5, Zenon
<1>7. \A i \in Nat : i \in 1..n => g[i] = h[i]
  <2> DEFINE T == {i \in Nat : i \in 1..n => g[i] = h[i]}
  <2>1. ASSUME NEW i \in Nat, \A m \in 0..(i - 1) : m \in T
        PROVE  i \in T
    <3> SUFFICES ASSUME i \in 1..n PROVE g[i] = h[i]
      OBVIOUS
    <3>1. /\ g[i] = IF i = 1 THEN s[i] ELSE g[i - 1] \o s[i]
          /\ h[i] = IF i = 1 THEN s[i] ELSE h[i - 1] \o s[i]
      <4> HIDE DEF g, h, s
      <4> QED
        BY <1>5, <1>6
    <3>2. i # 1 => i - 1 \in 0..(i - 1) /\ i - 1 \in 1..n
      BY <1>1
    <3>3. i # 1 => g[i - 1] = h[i - 1]
      <4> HIDE DEF g, h
      <4> QED
        BY <2>1, <3>2
    <3> HIDE DEF g, h, s
    <3> QED
      BY <3>1, <3>3
  <2>2. \A i \in Nat : i \in T
    <3> HIDE DEF T
    <3> QED
      BY <2>1, EveryNumber, Zenon
  <2> QED
    BY <2>2
<1>8. VersionToStr(w) = IF n = 0 THEN s ELSE g[n]
  <2>1. Len(s) = n
    BY <1>2
  <2>2. VersionToStr(w) = FlattenSeq(s)
    BY Zenon DEF VersionToStr
  <2> HIDE DEF s
  <2>3. FlattenSeq(s) = IF n = 0 THEN s ELSE g[n]
    BY <2>1 DEF FlattenSeq
  <2> QED
    BY <2>2, <2>3, Zenon
<1>9. CASE n = 0
  <2>1. s = <<>>
    BY <1>1, <1>9
  <2>2. Joined(w, 0) = <<>>
    BY DEF Joined
  <2> QED
    BY <1>8, <1>9, <2>1, <2>2, Zenon
<1>10. CASE n # 0
  <2>1. n \in 1..n
    BY <1>1, <1>10
  <2> HIDE DEF g, s
  <2> QED
    BY <1>1, <1>7, <1>8, <1>10, <2>1
<1> QED
  BY <1>9, <1>10

-----------------------------------------------------------------------------
(* The first digit in which two strings differ is in the first number in   *)
(* which the versions differ, and there the greater digit is the greater   *)
(* number's.                                                               *)
SameDigits(m, n) == \A j \in 1..3 : Digit(m, j) = Digit(n, j)
GreaterDigits(m, n) ==
  \E j \in 1..3 : Digit(m, j) > Digit(n, j) /\ \A i \in 1..(j - 1) : Digit(m, i) = Digit(n, i)

FirstIsMore(a, b, c, x, y, z) ==
  a > x \/ (a = x /\ b > y) \/ (a = x /\ b = y /\ c > z)

LEMMA PlacesTell ==
  ASSUME NEW a \in 0..9, NEW b \in 0..9, NEW c \in 0..9,
         NEW x \in 0..9, NEW y \in 0..9, NEW z \in 0..9
  PROVE  100 * a + 10 * b + c > 100 * x + 10 * y + z <=> FirstIsMore(a, b, c, x, y, z)
<1> USE DEF FirstIsMore
<1>1. CASE a > x
  BY <1>1
<1>2. CASE a < x
  BY <1>2
<1>3. CASE a = x
  BY <1>3
<1> QED
  BY <1>1, <1>2, <1>3

LEMMA DigitsTell ==
  ASSUME NEW m \in Numbers, NEW n \in Numbers
  PROVE  (SameDigits(m, n) <=> m = n) /\ (GreaterDigits(m, n) <=> m > n)
<1> DEFINE a(x) == x \div 100
           b(x) == (x \div 10) % 10
           c(x) == x % 10
<1>1. \A x \in Numbers : /\ Digit(x, 1) = a(x) /\ Digit(x, 2) = b(x) /\ Digit(x, 3) = c(x)
                         /\ a(x) \in 0..9 /\ b(x) \in 0..9 /\ c(x) \in 0..9
                         /\ x = 100 * a(x) + 10 * b(x) + c(x)
  BY DEF Digit, Numbers
<1>2. m \in Nat /\ n \in Nat
  BY DEF Numbers
<1> HIDE DEF a, b, c
<1> DEFINE Same == a(m) = a(n) /\ b(m) = b(n) /\ c(m) = c(n)
           More1 == a(m) > a(n)
           More2 == a(m) = a(n) /\ b(m) > b(n)
           More3 == a(m) = a(n) /\ b(m) = b(n) /\ c(m) > c(n)
<1>3. SameDigits(m, n) <=> Same
  <2>1. \A j \in 1..3 : j = 1 \/ j = 2 \/ j = 3
    OBVIOUS
  <2> QED
    BY <1>1, <2>1 DEF SameDigits
<1>4. GreaterDigits(m, n) <=> More1 \/ More2 \/ More3
  <2> DEFINE G(j) == /\ Digit(m, j) > Digit(n, j)
                     /\ \A i \in 1..(j - 1) : Digit(m, i) = Digit(n, i)
  <2>1. G(1) <=> More1
    <3>1. 1..(1 - 1) = {}
      OBVIOUS
    <3> QED
      BY <1>1, <3>1, ZenonT(40)
  <2>2. G(2) <=> More2
    <3>1. 1..(2 - 1) = {1}
      OBVIOUS
    <3> QED
      BY <1>1, <3>1, ZenonT(40)
  <2>3. G(3) <=> More3
    <3>1. \A i : i \in 1..(3 - 1) <=> i = 1 \/ i = 2
      OBVIOUS
    <3>2. /\ Digit(m, 1) = a(m) /\ Digit(m, 2) = b(m) /\ Digit(m, 3) = c(m)
          /\ Digit(n, 1) = a(n) /\ Digit(n, 2) = b(n) /\ Digit(n, 3) = c(n)
      BY <1>1, Zenon
    <3> QED
      BY <3>1, <3>2
  <2>4. GreaterDigits(m, n) <=> \E j \in 1..3 : G(j)
    BY Zenon DEF GreaterDigits
  <2>5. \A j : j \in 1..3 <=> j = 1 \/ j = 2 \/ j = 3
    OBVIOUS
  <2> HIDE DEF G, More1, More2, More3
  <2>6. (\E j \in 1..3 : G(j)) <=> G(1) \/ G(2) \/ G(3)
    BY <2>5, Zenon
  <2>7. GreaterDigits(m, n) => More1 \/ More2 \/ More3
    BY <2>1, <2>2, <2>3, <2>4, <2>6, Zenon
  <2>8. More1 \/ More2 \/ More3 => GreaterDigits(m, n)
    BY <2>1, <2>2, <2>3, <2>4, <2>6, Zenon
  <2> QED
    BY <2>7, <2>8
<1>5. /\ m = 100 * a(m) + 10 * b(m) + c(m) /\ n = 100 * a(n) + 10 * b(n) + c(n)
      /\ a(m) \in 0..9 /\ b(m) \in 0..9 /\ c(m) \in 0..9
      /\ a(n) \in 0..9 /\ b(n) \in 0..9 /\ c(n) \in 0..9
  BY <1>1, Zenon
<1>6. m = n <=> Same
  BY <1>2, <1>5
<1>7. m > n <=> More1 \/ More2 \/ More3
  <2> DEFINE value(x) == 100 * a(x) + 10 * b(x) + c(x)
  <2>1. value(m) > value(n) <=> More1 \/ More2 \/ More3
    <3>1. value(m) > value(n) <=> FirstIsMore(a(m), b(m), c(m), a(n), b(n), c(n))
      BY <1>5, PlacesTell, Zenon
    <3>2. FirstIsMore(a(m), b(m), c(m), a(n), b(n), c(n)) <=> More1 \/ More2 \/ More3
      BY DEF FirstIsMore
    <3> HIDE DEF value, More1, More2, More3
    <3> QED
      BY <3>1, <3>2, Zenon
  <2>2. m = value(m) /\ n = value(n)
    BY <1>5, Zenon
  <2> HIDE DEF value, More1, More2, More3
  <2> QED
    BY <2>1, <2>2, Zenon
<1> HIDE DEF Same, More1, More2, More3
<1> QED
  BY <1>3, <1>4, <1>6, <1>7, Zenon

LEMMA JoinedTells ==
  ASSUME NEW v \in Seq(Numbers), NEW w \in Seq(Numbers), Len(v) = Len(w)
  PROVE  Greater(Joined(v, Len(v)), Joined(w, Len(w))) <=> Precedes(w, v)
<1> DEFINE n == Len(v)
           s == Joined(v, n)
           t == Joined(w, n)
           at(i, j) == 3 * (i - 1) + j
<1>1. /\ n \in Nat /\ DOMAIN v = 1..n /\ DOMAIN w = 1..n
      /\ \A i \in 1..n : v[i] \in Numbers /\ w[i] \in Numbers
  OBVIOUS
<1>2. DOMAIN s = 1..(3 * n)
  BY DEF Joined
<1>3. ASSUME NEW i \in 1..n, NEW j \in 1..3
      PROVE  /\ at(i, j) \in 1..(3 * n)
             /\ s[at(i, j)] = Digit(v[i], j) /\ t[at(i, j)] = Digit(w[i], j)
  <2>1. /\ at(i, j) \in 1..(3 * n)
        /\ ((at(i, j) - 1) \div 3) + 1 = i /\ ((at(i, j) - 1) % 3) + 1 = j
    BY <1>1
  <2> HIDE DEF at
  <2> QED
    BY <2>1, Zenon DEF Joined
<1>4. ASSUME NEW q \in 1..(3 * n)
      PROVE  \E i \in 1..n, j \in 1..3 : q = at(i, j)
  <2>1. ((q - 1) \div 3) + 1 \in 1..n /\ ((q - 1) % 3) + 1 \in 1..3
    <3>1. n \in Nat /\ q \in Nat /\ 1 <= q /\ q <= 3 * n
      BY <1>1
    <3> HIDE DEF n
    <3>2. q - 1 \in Nat /\ q - 1 < 3 * n
      BY <3>1
    <3>3. (q - 1) \div 3 \in Nat /\ (q - 1) \div 3 < n /\ (q - 1) % 3 \in 0..2
      BY <3>1, <3>2
    <3> QED
      BY <3>1, <3>3
  <2>2. q = at(((q - 1) \div 3) + 1, ((q - 1) % 3) + 1)
    BY <1>1
  <2> QED
    BY <2>1, <2>2, Zenon
<1>5. \A i \in 1..n : (SameDigits(v[i], w[i]) <=> v[i] = w[i])
                      /\ (GreaterDigits(v[i], w[i]) <=> v[i] > w[i])
  BY <1>1, DigitsTell, Zenon
<1>6. Greater(s, t) <=>
      \E q \in 1..(3 * n) : s[q] > t[q] /\ \A r \in 1..(q - 1) : s[r] = t[r]
  BY <1>2, Zenon DEF Greater
<1>7. Precedes(w, v) <=> \E i \in 1..n : v[i] > w[i] /\ \A k \in 1..(i - 1) : v[k] = w[k]
  <2>1. \A i \in 1..n : w[i] < v[i] <=> v[i] > w[i]
    BY <1>1 DEF Numbers
  <2>2. \A i \in 1..n : \A k \in 1..(i - 1) : w[k] = v[k] <=> v[k] = w[k]
    OBVIOUS
  <2> QED
    BY <1>1, <2>1, <2>2, Zenon DEF Precedes
<1> HIDE DEF s, t, at
<1>8. ASSUME NEW q \in 1..(3 * n), s[q] > t[q], \A r \in 1..(q - 1) : s[r] = t[r]
      PROVE  \E i \in 1..n : v[i] > w[i] /\ \A k \in 1..(i - 1) : v[k] = w[k]
  <2>1. PICK i \in 1..n, j \in 1..3 : q = at(i, j)
    BY <1>4, Zenon
  <2>2. ASSUME NEW k \in 1..(i - 1) PROVE v[k] = w[k]
    <3>1. k \in 1..n
      BY <1>1
    <3>2. ASSUME NEW l \in 1..3 PROVE Digit(v[k], l) = Digit(w[k], l)
      <4>1. at(k, l) \in 1..(q - 1)
        BY <1>1, <2>1, <3>1 DEF at
      <4> QED
        BY <1>3, <1>8, <3>1, <4>1, Zenon
    <3> QED
      BY <1>5, <3>1, <3>2, Zenon DEF SameDigits
  <2>3. v[i] > w[i]
    <3>1. ASSUME NEW l \in 1..(j - 1) PROVE Digit(v[i], l) = Digit(w[i], l)
      <4>1. l \in 1..3 /\ at(i, l) \in 1..(q - 1)
        BY <1>1, <2>1 DEF at
      <4> QED
        BY <1>3, <1>8, <4>1, Zenon
    <3>2. Digit(v[i], j) > Digit(w[i], j)
      <4>1. s[q] = Digit(v[i], j) /\ t[q] = Digit(w[i], j)
        BY <1>3, <2>1, Zenon
      <4> QED
        BY <1>8, <4>1
    <3> QED
      BY <1>5, <3>1, <3>2, Zenon DEF GreaterDigits
  <2> QED
    BY <2>2, <2>3, Zenon
<1>9. ASSUME NEW i \in 1..n, v[i] > w[i], \A k \in 1..(i - 1) : v[k] = w[k]
      PROVE  \E q \in 1..(3 * n) : s[q] > t[q] /\ \A r \in 1..(q - 1) : s[r] = t[r]
  <2>1. PICK j \in 1..3 : /\ Digit(v[i], j) > Digit(w[i], j)
                          /\ \A l \in 1..(j - 1) : Digit(v[i], l) = Digit(w[i], l)
    BY <1>5, <1>9, Zenon DEF GreaterDigits
  <2> DEFINE q == at(i, j)
  <2>2. q \in 1..(3 * n) /\ s[q] = Digit(v[i], j) /\ t[q] = Digit(w[i], j)
    BY <1>3, Zenon
  <2>3. ASSUME NEW r \in 1..(q - 1) PROVE s[r] = t[r]
    <3>1. r \in 1..(3 * n)
      <4> HIDE DEF q
      <4> QED
        BY <1>1, <2>2
    <3>2. PICK k \in 1..n, l \in 1..3 : r = at(k, l)
      BY <1>4, <3>1, Zenon
    <3>3. k \in 1..(i - 1) \/ (k = i /\ l \in 1..(j - 1))
      BY <1>1, <3>2 DEF at
    <3>4. Digit(v[k], l) = Digit(w[k], l)
      <4>1. CASE k \in 1..(i - 1)
        <5>1. v[k] = w[k]
          BY <1>9, <4>1
        <5> QED
          BY <5>1
      <4>2. CASE k = i /\ l \in 1..(j - 1)
        BY <2>1, <4>2, Zenon
      <4> QED
        BY <3>3, <4>1, <4>2
    <3> QED
      BY <1>3, <3>2, <3>4, Zenon
  <2>4. s[q] > t[q]
    <3> HIDE DEF q
    <3> QED
      BY <2>1, <2>2
  <2> HIDE DEF q
  <2> QED
    BY <2>2, <2>3, <2>4, Zenon
<1>10. Greater(s, t) <=> Precedes(w, v)
  BY <1>6, <1>7, <1>8, <1>9, Zenon
<1> QED
  BY <1>10, Zenon DEF s, t

(* Where the numbers are below a thousand, versions of one shape compare   *)
(* as their numbers do, whatever releases there are: an upgrade from 0.9.0 *)
(* to 0.10.0 is seen as one, the way back is not.                          *)
THEOREM OrderIsNumeric ==
  ASSUME Releases \subseteq Seq(Numbers)
  PROVE  Spec => []NumericOrder
<1>1. ASSUME NEW v \in Seq(Numbers), NEW w \in Seq(Numbers), Len(v) = Len(w)
      PROVE  CompareVersion(v, w) <=> Precedes(w, v)
  <2>1. /\ VersionToStr(v) = Joined(v, Len(v)) /\ VersionToStr(w) = Joined(w, Len(w))
    BY VersionToStrIsJoined, Zenon
  <2>2. Len(Joined(v, Len(v))) = Len(Joined(w, Len(w)))
    <3> DEFINE n == Len(v)
    <3>1. /\ Joined(v, n) \in [1..(3 * n) -> Nat] /\ Joined(w, n) \in [1..(3 * n) -> Nat]
          /\ 3 * n \in Nat
      <4>1. n \in Nat /\ n \in 0..Len(v) /\ n \in 0..Len(w)
        BY <1>1
      <4>2. 3 * n \in Nat
        BY <4>1
      <4> HIDE DEF n
      <4> QED
        BY <4>1, <4>2, JoinedIsNat, Zenon
    <3>2. Len(Joined(v, n)) = Len(Joined(w, n))
      <4> HIDE DEF n
      <4> QED
        BY <3>1, IsSequence, Zenon
    <3> QED
      BY <1>1, <3>2, Zenon
  <2> QED
    BY <1>1, <2>1, <2>2, JoinedTells, Zenon DEF CompareVersion
<1>2. NumericOrder
  BY <1>1, Zenon DEF NumericOrder
<1> QED
  BY <1>2, PTL
=============================================================================
